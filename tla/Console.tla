-------------------------------- MODULE Console --------------------------------
(***************************************************************************)
(* The operator's console in the browser                                   *)
(* (awg_cita/static/sector-console.js): the list of the clients of the     *)
(* selected profile, the enable/disable command of a row, and the dialogs  *)
(* that create, delete and configure a client.  SettingsPage.tla has the   *)
(* other view of the page.                                                 *)
(*                                                                         *)
(* The script is single-threaded: a handler runs up to its await in one    *)
(* step.  Between the await and its continuation anything may happen: the  *)
(* operator closes the dialog or opens another, answers come back in any   *)
(* order, another operator changes the same clients.  Every call of the    *)
(* adapter that is awaited is a record of `calls'.  The service behind it  *)
(* (awg_cita/app.py) serves the calls one at a time, and may carry out a   *)
(* change whose caller has already been told that it failed.               *)
(***************************************************************************)
EXTENDS Integers, FiniteSets

CONSTANTS
    Profiles,       \* the profiles of the switcher
    Clients,        \* the ids of the clients that exist or will be created
    Home,           \* the profile of each: an id is derived from its own key
    Enrolled,       \* the clients that exist at the start
    FirstProfile,   \* the profile that is selected when the page opens
    MaxCalls,       \* bound: calls of the adapter
    MaxForeign,     \* bound: changes by other operators
    NoClient

ASSUME HomeAssumption ==
    /\ Home \in [Clients -> Profiles]
    /\ Enrolled \subseteq Clients
    /\ FirstProfile \in Profiles
    /\ NoClient \notin Clients
ASSUME BoundAssumption == MaxCalls \in Nat /\ MaxForeign \in Nat

VARIABLES
    status,         \* the service: what each client is
    version,        \* the service: the revision of its saved configuration
    selected,       \* state.selectedProfile and adapter.profile
    shown,          \* state.clients: the status of the clients in the list
    loading,        \* state.loading
    refreshing,     \* state.refreshing
    statusClient,   \* state.statusClient
    deleteClient,   \* state.deleteClient
    configPreview,  \* state.configPreview, with activeConfigPreviewRequest
    createPreview,  \* state.createPreview
    calls,          \* the calls that a continuation waits for
    late,           \* those whose caller was told of a failure, not yet carried out
    made, foreign,
    openedAt,       \* the revision when the configuration dialog opened
    seen            \* the revisions this console has shown

lists == <<selected, shown, loading, refreshing>>
dialogs == <<statusClient, deleteClient, configPreview, createPreview>>
service == <<status, version>>
ghosts == <<openedAt, seen>>
vars == <<service, lists, dialogs, calls, late, made, foreign, ghosts>>

Listings == {"loadClients", "refreshStatus", "readback"}
Changes == {"enable", "disable", "delete", "create", "updateConfiguration"}
Functions == Listings \cup Changes \cup {"getConfiguration"}
Live == {"ONLINE", "DISABLED"}

NoAnswer == [done |-> FALSE, ok |-> FALSE, list |-> <<>>, version |-> 0]
Failure == [NoAnswer EXCEPT !.done = TRUE]
Success == [Failure EXCEPT !.ok = TRUE]

\* A call in flight: what it does, for which profile and client, on which
\* revision, and the request token of the dialog that it belongs to.
NewCall(f, p, c, v, d) ==
    [id |-> made + 1, function |-> f, profile |-> p, client |-> c, version |-> v,
     dialog |-> d, answer |-> NoAnswer]
Issue(f, p, c, v, d) ==
    /\ made < MaxCalls
    /\ made' = made + 1
    /\ calls' = calls \cup {NewCall(f, p, c, v, d)}

Awaited(f) == {k \in calls : k.function = f}
Return(k) == calls' = calls \ {k} /\ UNCHANGED <<made, late, foreign>>

ClosedPreview == [open |-> FALSE, client |-> NoClient, token |-> 0, loading |-> FALSE,
                  saving |-> FALSE, result |-> 0]
IdleStatus == [client |-> NoClient, submitting |-> FALSE]
ClosedDelete == [open |-> FALSE, client |-> NoClient, submitting |-> FALSE]
ClosedCreate == [open |-> FALSE, step |-> "form", submitting |-> FALSE]

\* renderDeleteClient hides the dialog while its client is not in the list.
DeleteVisible == deleteClient.open /\ deleteClient.client \in DOMAIN shown
\* activeDialog: the backdrop of a visible dialog covers the page.
ActiveDialog == createPreview.open \/ configPreview.open \/ DeleteVisible

Init ==
    /\ status = [c \in Clients |-> IF c \in Enrolled THEN "ONLINE" ELSE "unborn"]
    /\ version = [c \in Clients |-> 1]
    /\ selected = FirstProfile /\ shown = <<>>
    /\ loading = TRUE /\ refreshing = FALSE
    /\ statusClient = IdleStatus /\ deleteClient = ClosedDelete
    /\ configPreview = ClosedPreview /\ createPreview = ClosedCreate
    /\ made = 1 /\ foreign = 0 /\ late = {}
    /\ calls = {[id |-> 1, function |-> "loadClients", profile |-> FirstProfile,
                 client |-> NoClient, version |-> 0, dialog |-> 0, answer |-> NoAnswer]}
    /\ openedAt = 1 /\ seen = {}

(*---------------------------------------------------------------------------*)
(* The service                                                               *)
(*---------------------------------------------------------------------------*)
ListOf(p) ==
    [c \in {d \in Clients : Home[d] = p /\ status[d] \in Live} |-> status[c]]

\* Mutant: the revision of an edit is not compared.
EffectUnchecked(k, ok) ==
    \/ /\ k.function \in {"enable", "disable"} /\ status[k.client] \in Live /\ ok
       /\ status' = [status EXCEPT ![k.client] = IF k.function = "enable" THEN "ONLINE" ELSE "DISABLED"]
       /\ UNCHANGED version
    \/ /\ k.function = "updateConfiguration" /\ ok
       /\ status[k.client] \in Live
       /\ version' = [version EXCEPT ![k.client] = @ + 1]
       /\ UNCHANGED status

\* What the service does with a change and whether it reports success.
Effect(k, ok) ==
    \/ /\ k.function \in {"enable", "disable"} /\ status[k.client] \in Live /\ ok
       /\ status' = [status EXCEPT ![k.client] = IF k.function = "enable" THEN "ONLINE" ELSE "DISABLED"]
       /\ UNCHANGED version
    \/ /\ k.function = "delete" /\ status[k.client] \in Live /\ ok
       /\ status' = [status EXCEPT ![k.client] = "gone"]
       /\ UNCHANGED version
    \/ /\ k.function = "delete" /\ status[k.client] = "gone"  \* remembered, or not found
       /\ UNCHANGED service
    \/ /\ k.function = "create" /\ ok
       /\ \E c \in Clients : /\ status[c] = "unborn" /\ Home[c] = k.profile
                             /\ status' = [status EXCEPT ![c] = "ONLINE"]
       /\ UNCHANGED version
    \/ /\ k.function = "updateConfiguration" /\ ok
       /\ status[k.client] \in Live /\ version[k.client] = k.version
       /\ version' = [version EXCEPT ![k.client] = @ + 1]
       /\ UNCHANGED status

Reply(k, a) == calls' = (calls \ {k}) \cup {[k EXCEPT !.answer = a]}

\* A change is carried out and answered.
Change(k) ==
    /\ k.function \in Changes /\ ~k.answer.done
    /\ \E ok \in BOOLEAN :
          /\ Effect(k, ok)
          /\ Reply(k, [done |-> TRUE, ok |-> ok, list |-> <<>>,
                       version |-> IF k.client = NoClient THEN 0 ELSE version'[k.client]])
    /\ UNCHANGED <<lists, dialogs, late, made, foreign, ghosts>>

\* A list or a configuration is read and answered.
Read(k) ==
    /\ k.function \notin Changes /\ ~k.answer.done
    /\ IF k.function \in Listings
       THEN Reply(k, [Success EXCEPT !.list = ListOf(k.profile)])
       ELSE /\ status[k.client] \in Live
            /\ Reply(k, [Success EXCEPT !.version = version[k.client]])
    /\ UNCHANGED <<service, lists, dialogs, late, made, foreign, ghosts>>

\* The call fails: refused, not found, lost, or out of time.  A change that ran
\* out of time may still be carried out.
Fail(k) ==
    /\ ~k.answer.done
    /\ Reply(k, Failure)
    /\ late' \in {late, late \cup ({k} \cap {d \in calls : d.function \in Changes})}
    /\ UNCHANGED <<service, lists, dialogs, made, foreign, ghosts>>

Belated(k) ==
    /\ Effect(k, TRUE)
    /\ late' = late \ {k}
    /\ UNCHANGED <<lists, dialogs, calls, made, foreign, ghosts>>

\* Another operator deletes a client, switches it, or edits its configuration.
OtherOperator(c) ==
    /\ foreign < MaxForeign /\ foreign' = foreign + 1
    /\ status[c] \in Live
    /\ \/ status' = [status EXCEPT ![c] = "gone"] /\ UNCHANGED version
       \/ status' = [status EXCEPT ![c] = IF @ = "ONLINE" THEN "DISABLED" ELSE "ONLINE"]
          /\ UNCHANGED version
       \/ version' = [version EXCEPT ![c] = @ + 1] /\ UNCHANGED status
    /\ UNCHANGED <<lists, dialogs, calls, late, made, ghosts>>

(*---------------------------------------------------------------------------*)
(* The list                                                                  *)
(*---------------------------------------------------------------------------*)
SwitchAllowed ==
    /\ ~ActiveDialog
    /\ ~loading /\ ~refreshing
    /\ ~createPreview.submitting /\ ~statusClient.submitting /\ ~deleteClient.submitting

SwitchProfile(p) ==
    /\ p # selected /\ SwitchAllowed
    /\ selected' = p /\ shown' = <<>> /\ loading' = TRUE
    /\ Issue("loadClients", p, NoClient, 0, 0)
    /\ UNCHANGED <<service, refreshing, dialogs, late, foreign, ghosts>>

LoadArrives(k) ==
    /\ k \in Awaited("loadClients") /\ k.answer.done
    /\ IF k.profile = selected
       THEN /\ shown' = IF k.answer.ok THEN k.answer.list ELSE <<>>
            /\ loading' = FALSE
       ELSE UNCHANGED <<shown, loading>>
    /\ Return(k)
    /\ UNCHANGED <<service, selected, refreshing, dialogs, ghosts>>

\* renderConnection disables the button while the list is loaded, too.
RefreshStatus ==
    /\ ~refreshing /\ ~loading /\ ~ActiveDialog
    /\ refreshing' = TRUE
    /\ Issue("refreshStatus", selected, NoClient, 0, 0)
    /\ UNCHANGED <<service, selected, shown, loading, dialogs, late, foreign, ghosts>>

RefreshArrives(k) ==
    /\ k \in Awaited("refreshStatus") /\ k.answer.done
    /\ shown' = IF k.answer.ok /\ k.profile = selected THEN k.answer.list ELSE shown
    /\ refreshing' = FALSE
    /\ Return(k)
    /\ UNCHANGED <<service, selected, loading, dialogs, ghosts>>

(*---------------------------------------------------------------------------*)
(* Enable and disable                                                        *)
(*---------------------------------------------------------------------------*)
\* openStatusClient and submitStatusClient: the menu offers the other status.
SubmitStatusClient(c) ==
    /\ ~ActiveDialog /\ c \in DOMAIN shown
    /\ ~statusClient.submitting
    /\ statusClient' = [client |-> c, submitting |-> TRUE]
    /\ Issue(IF shown[c] = "DISABLED" THEN "enable" ELSE "disable", selected, c, 0, 0)
    /\ UNCHANGED <<service, lists, deleteClient, configPreview, createPreview, late, foreign, ghosts>>

StatusArrives(k) ==
    /\ k \in Awaited("enable") \cup Awaited("disable") /\ k.answer.done
    /\ shown' = IF k.answer.ok /\ k.client \in DOMAIN shown
                THEN [shown EXCEPT ![k.client] = IF k.function = "enable" THEN "ONLINE" ELSE "DISABLED"]
                ELSE shown
    /\ statusClient' = IdleStatus
    /\ Return(k)
    /\ UNCHANGED <<service, selected, loading, refreshing, deleteClient, configPreview, createPreview, ghosts>>

(*---------------------------------------------------------------------------*)
(* Delete                                                                    *)
(*---------------------------------------------------------------------------*)
OpenDeleteClient(c) ==
    /\ ~ActiveDialog /\ c \in DOMAIN shown
    /\ deleteClient' = [open |-> TRUE, client |-> c, submitting |-> FALSE]
    /\ UNCHANGED <<service, lists, statusClient, configPreview, createPreview, calls, late, made, foreign, ghosts>>

\* It may be closed, by Escape at least, whatever it shows and waits for.
CloseDeleteClient ==
    /\ deleteClient.open
    /\ DeleteVisible \/ ~createPreview.open
    /\ deleteClient' = ClosedDelete
    /\ UNCHANGED <<service, lists, statusClient, configPreview, createPreview, calls, late, made, foreign, ghosts>>

SubmitDeleteClient ==
    /\ DeleteVisible /\ ~deleteClient.submitting
    /\ deleteClient' = [deleteClient EXCEPT !.submitting = TRUE]
    /\ Issue("delete", selected, deleteClient.client, 0, 0)
    /\ UNCHANGED <<service, lists, statusClient, configPreview, createPreview, late, foreign, ghosts>>

\* The continuation addresses the dialog that is there now.
DeleteArrives(k) ==
    /\ k \in Awaited("delete") /\ k.answer.done
    /\ IF k.answer.ok
       THEN /\ shown' = [c \in DOMAIN shown \ {k.client} |-> shown[c]]
            /\ deleteClient' = ClosedDelete
       ELSE /\ deleteClient' = [deleteClient EXCEPT !.submitting = FALSE]
            /\ UNCHANGED shown
    /\ Return(k)
    /\ UNCHANGED <<service, selected, loading, refreshing, statusClient, configPreview, createPreview, ghosts>>

(*---------------------------------------------------------------------------*)
(* The configuration                                                         *)
(*---------------------------------------------------------------------------*)
OpenConfigurationPreview(c) ==
    /\ ~ActiveDialog /\ c \in DOMAIN shown
    /\ configPreview' = [ClosedPreview EXCEPT !.open = TRUE, !.client = c, !.token = made + 1,
                                              !.loading = TRUE]
    /\ openedAt' = version[c]
    /\ Issue("getConfiguration", selected, c, 0, made + 1)
    /\ UNCHANGED <<service, lists, statusClient, deleteClient, createPreview, late, foreign, seen>>

CloseConfigurationPreview ==
    /\ configPreview.open /\ ~createPreview.open
    /\ configPreview' = ClosedPreview
    /\ UNCHANGED <<service, lists, statusClient, deleteClient, createPreview, calls, late, made, foreign, ghosts>>

\* Mutant: only the client is compared, as before the request token.
IsCurrentClient(k) == configPreview.open /\ configPreview.client = k.client

IsCurrentRequest(k) ==
    /\ configPreview.token = k.dialog
    /\ configPreview.open /\ configPreview.client = k.client

\* The text and its revision are shown together; a client that has left the
\* list is an error.
Show(k) ==
    IF k.answer.ok /\ k.client \in DOMAIN shown
    THEN /\ configPreview' = [configPreview EXCEPT !.result = k.answer.version,
                                                  !.loading = FALSE, !.saving = FALSE]
         /\ seen' = seen \cup {<<k.client, k.answer.version>>}
    ELSE /\ configPreview' = [configPreview EXCEPT !.loading = FALSE, !.saving = FALSE]
         /\ UNCHANGED seen

ConfigurationArrives(k) ==
    /\ k \in Awaited("getConfiguration") /\ k.answer.done
    /\ IF IsCurrentRequest(k) THEN Show(k) ELSE UNCHANGED <<configPreview, seen>>
    /\ Return(k)
    /\ UNCHANGED <<service, lists, statusClient, deleteClient, createPreview, openedAt>>

SaveClientConfiguration ==
    /\ configPreview.open /\ configPreview.result # 0
    /\ ~configPreview.saving
    /\ configPreview' = [configPreview EXCEPT !.saving = TRUE]
    /\ Issue("updateConfiguration", selected, configPreview.client, configPreview.result, configPreview.token)
    /\ UNCHANGED <<service, lists, statusClient, deleteClient, createPreview, late, foreign, ghosts>>

SaveArrives(k) ==
    /\ k \in Awaited("updateConfiguration") /\ k.answer.done
    /\ IF configPreview.open /\ configPreview.token = k.dialog
       THEN Show(k)
       ELSE UNCHANGED <<configPreview, seen>>
    /\ Return(k)
    /\ UNCHANGED <<service, lists, statusClient, deleteClient, createPreview, openedAt>>

(*---------------------------------------------------------------------------*)
(* Create                                                                    *)
(*---------------------------------------------------------------------------*)
OpenCreatePreview ==
    /\ ~ActiveDialog
    /\ createPreview' = [ClosedCreate EXCEPT !.open = TRUE]
    /\ UNCHANGED <<service, lists, statusClient, deleteClient, configPreview, calls, late, made, foreign, ghosts>>

\* Mutant: the dialog can be closed while the create is in flight.
CloseCreateAnytime ==
    /\ createPreview.open
    /\ createPreview' = ClosedCreate
    /\ UNCHANGED <<service, lists, statusClient, deleteClient, configPreview, calls, late, made, foreign, ghosts>>

CloseCreatePreview ==
    /\ createPreview.open /\ ~createPreview.submitting
    /\ createPreview' = ClosedCreate
    /\ UNCHANGED <<service, lists, statusClient, deleteClient, configPreview, calls, late, made, foreign, ghosts>>

SubmitCreatePreview ==
    /\ createPreview.open /\ createPreview.step = "form" /\ ~createPreview.submitting
    /\ createPreview' = [createPreview EXCEPT !.submitting = TRUE]
    /\ Issue("create", selected, NoClient, 0, 0)
    /\ UNCHANGED <<service, lists, statusClient, deleteClient, configPreview, late, foreign, ghosts>>

\* Created or not, the list is read again before the form is released.
CreateArrives(k) ==
    /\ k \in Awaited("create") /\ k.answer.done
    /\ createPreview' = IF k.answer.ok THEN [createPreview EXCEPT !.step = "result"] ELSE createPreview
    /\ made' = made + 1
    /\ calls' = (calls \ {k}) \cup {NewCall("readback", selected, NoClient, 0, 0)}
    /\ UNCHANGED <<service, lists, statusClient, deleteClient, configPreview, late, foreign, ghosts>>

\* This list is not compared with the selected profile.
ReadbackArrives(k) ==
    /\ k \in Awaited("readback") /\ k.answer.done
    /\ shown' = IF k.answer.ok THEN k.answer.list ELSE shown
    /\ createPreview' = [createPreview EXCEPT !.submitting = FALSE]
    /\ Return(k)
    /\ UNCHANGED <<service, selected, loading, refreshing, statusClient, deleteClient, configPreview, ghosts>>

(*---------------------------------------------------------------------------*)
(* Specification                                                             *)
(*---------------------------------------------------------------------------*)
Settle(k) == Change(k) \/ Read(k) \/ Fail(k)

Continue(k) ==
    \/ LoadArrives(k) \/ RefreshArrives(k) \/ StatusArrives(k) \/ DeleteArrives(k)
    \/ ConfigurationArrives(k) \/ SaveArrives(k) \/ CreateArrives(k) \/ ReadbackArrives(k)

Operator ==
    \/ RefreshStatus \/ CloseDeleteClient \/ SubmitDeleteClient
    \/ CloseConfigurationPreview \/ SaveClientConfiguration
    \/ OpenCreatePreview \/ CloseCreatePreview \/ SubmitCreatePreview
    \/ \E p \in Profiles : SwitchProfile(p)
    \/ \E c \in Clients : SubmitStatusClient(c) \/ OpenDeleteClient(c) \/ OpenConfigurationPreview(c)

Next ==
    \/ Operator
    \/ \E k \in calls : Settle(k) \/ Continue(k)
    \/ \E k \in late : Belated(k)
    \/ \E c \in Clients : OtherOperator(c)

Spec == Init /\ [][Next]_vars

(*---------------------------------------------------------------------------*)
(* Properties                                                                *)
(*---------------------------------------------------------------------------*)
Lists == UNION {[S -> Live] : S \in SUBSET Clients}
AnyClient == Clients \cup {NoClient}
Answers == [done : BOOLEAN, ok : BOOLEAN, list : Lists, version : Nat]
Calls == [id : Nat, function : Functions, profile : Profiles, client : AnyClient,
          version : Nat, dialog : Nat, answer : Answers]

\* Every variable has its type.
TypeOK ==
    /\ status \in [Clients -> Live \cup {"unborn", "gone"}]
    /\ version \in [Clients -> Nat]
    /\ selected \in Profiles /\ shown \in Lists
    /\ loading \in BOOLEAN /\ refreshing \in BOOLEAN
    /\ statusClient \in [client : AnyClient, submitting : BOOLEAN]
    /\ deleteClient \in [open : BOOLEAN, client : AnyClient, submitting : BOOLEAN]
    /\ configPreview \in [open : BOOLEAN, client : AnyClient, token : Nat, loading : BOOLEAN,
                          saving : BOOLEAN, result : Nat]
    /\ createPreview \in [open : BOOLEAN, step : {"form", "result"}, submitting : BOOLEAN]
    /\ calls \subseteq Calls /\ late \subseteq Calls
    /\ made \in Nat /\ foreign \in 0..MaxForeign
    /\ openedAt \in Nat /\ seen \subseteq Clients \X Nat

\* Late answers are not taken for what is on display.  The list only ever holds
\* clients of the selected profile, although the read-back of a create is not
\* compared with the selection: a command of a row goes to the interface that the
\* row belongs to.  And a configuration on display was read after its dialog was
\* opened: the answer to an earlier opening, for the same client even, is dropped.
\* (And the state is well typed.)
DisplayIsCurrent ==
    /\ TypeOK
    /\ \A c \in DOMAIN shown : Home[c] = selected
    /\ configPreview.result # 0 => configPreview.result >= openedAt

Pending(F) == {k \in calls : k.function \in F}
Gate(closed, pending) == IF closed THEN Cardinality(pending) = 1 ELSE pending = {}

\* The gates of the list, of a refresh, of the creation, of enabling and disabling,
\* and of the open configuration (loading, refreshing, submitting, saving) are shut
\* exactly while the one call they stand for is in flight: none of these is sent
\* twice, and none is left shut.  The gate of the delete dialog is not among them:
\* an answer to an earlier deletion opens it.
GatesTrackCalls ==
    /\ Gate(loading, {k \in Awaited("loadClients") : k.profile = selected})
    /\ Gate(refreshing, Awaited("refreshStatus"))
    /\ Gate(statusClient.submitting, Pending({"enable", "disable"}))
    /\ Gate(createPreview.submitting, Pending({"create", "readback"}))
    /\ configPreview.open =>
        /\ Gate(configPreview.loading, {k \in Awaited("getConfiguration") : k.dialog = configPreview.token})
        /\ Gate(configPreview.saving, {k \in Awaited("updateConfiguration") : k.dialog = configPreview.token})

\* A save from this console, a belated one too, only replaces a configuration
\* that the console has shown: another operator's edit is never overwritten
\* unseen.
NoLostEdit ==
    [][\A c \in Clients : version'[c] # version[c] /\ foreign' = foreign
                            => <<c, version[c]>> \in seen]_vars

=============================================================================
