------------------------------- MODULE SavedFiles -------------------------------
(***************************************************************************)
(* The two edits that restart nothing: the endpoint in the metadata of a   *)
(* profile (awg_cita/server_endpoint.py) and the four editable fields of a *)
(* saved client configuration (awg_cita/client_config_edit.py, called by   *)
(* profile_helper.py and canary_helper.py).                                *)
(*                                                                         *)
(* Both carry the revision that the operator's page has read, and are      *)
(* refused when the file has changed since.  The revision of a client      *)
(* configuration is that of the text as it is downloaded, with the current *)
(* endpoint in it.  One helper works at a time (PeerController models the  *)
(* lock), any number of pages hold revisions, the helper can be killed,    *)
(* a write can fail, and files are edited by hand.  The comparison of a    *)
(* file and the rename over it are one step.                               *)
(***************************************************************************)
EXTENDS Integers

CONSTANTS
    Hosts,          \* the endpoints that are asked for
    Clients,        \* the clients with a saved configuration
    Fields,         \* the values of the editable fields
    MaxCalls,       \* bound: calls of the helper that edit
    MaxFaults,      \* bound: failing writes and checks
    MaxEdits        \* bound: files edited by hand

ASSUME SavedBounds == MaxCalls \in Nat /\ MaxFaults \in Nat /\ MaxEdits \in Nat

VARIABLES
    meta,       \* the metadata of the profile: the endpoint, and the rest of it
    saved,      \* the saved configurations: the endpoint they were written with, the fields
    backups,    \* the copies of the metadata in the backup directory
    metaShown, savedShown,  \* the revisions that pages have read
    helper,     \* the helper process
    reply,      \* what it last answered
    made, faults, edits

files == <<meta, saved, backups>>
pages == <<metaShown, savedShown>>
budget == <<made, faults, edits>>
savedVars == <<files, pages, helper, reply, budget>>

Metadata == [host : Hosts, rest : 0..MaxEdits]
Saved == [host : Hosts, fields : Fields]

\* project_client_endpoint: the stored text with the current endpoint.
Projected(c) == [saved[c] EXCEPT !.host = meta.host]


\* before is a ghost: the metadata when the call began.
NoHelper == [stage |-> "idle"]
EndpointCall(revision, host) ==
    [stage |-> "reading", expected |-> revision, host |-> host, before |-> meta]
UpdateCall(c, revision, fields) ==
    [stage |-> "loading", client |-> c, expected |-> revision, fields |-> fields,
     raw |-> saved[c], replacement |-> saved[c]]

Doing(stage) == helper.stage = stage
Advance(stage) == helper' = [helper EXCEPT !.stage = stage] /\ UNCHANGED reply
Answer(outcome) == helper' = NoHelper /\ reply' = outcome
Fault == faults < MaxFaults /\ faults' = faults + 1 /\ UNCHANGED <<made, edits>>

SavedInit ==
    /\ \E h \in Hosts, f \in Fields :
          /\ meta = [host |-> h, rest |-> 0]
          /\ saved = [c \in Clients |-> [host |-> h, fields |-> f]]
    /\ backups = {}
    /\ metaShown = {} /\ savedShown = {}
    /\ helper = NoHelper /\ reply = "none"
    /\ made = 0 /\ faults = 0 /\ edits = 0

(*---------------------------------------------------------------------------*)
(* Pages: reading a revision, and sending an edit with any that was read     *)
(*---------------------------------------------------------------------------*)
ShowServer ==
    /\ Doing("idle")
    /\ metaShown' = metaShown \cup {meta}
    /\ UNCHANGED <<files, savedShown, helper, reply, budget>>

ShowConfiguration(c) ==
    /\ Doing("idle")
    /\ savedShown' = savedShown \cup {<<c, Projected(c)>>}
    /\ UNCHANGED <<files, metaShown, helper, reply, budget>>

Begin(call) ==
    /\ Doing("idle") /\ made < MaxCalls
    /\ helper' = call
    /\ made' = made + 1
    /\ UNCHANGED <<files, pages, reply, faults, edits>>

BeginEndpoint(host) == \E revision \in metaShown : Begin(EndpointCall(revision, host))

BeginUpdate(c, fields) ==
    \E shown \in savedShown : shown[1] = c /\ Begin(UpdateCall(c, shown[2], fields))

(*---------------------------------------------------------------------------*)
(* replace_endpoint                                                          *)
(*---------------------------------------------------------------------------*)
Replacement == [helper.expected EXCEPT !.host = helper.host]

ReadMetadata ==
    /\ Doing("reading")
    /\ \/ meta # helper.expected /\ Answer("failed")
       \/ meta = helper.expected /\ helper.host = meta.host /\ Advance("answering")
       \/ meta = helper.expected /\ helper.host # meta.host /\ Advance("backing")
    /\ UNCHANGED <<files, pages, budget>>

Backup ==
    /\ Doing("backing")
    /\ \/ /\ backups' = backups \cup {helper.expected}
          /\ Advance("replacing") /\ UNCHANGED budget
       \/ /\ backups' \in {backups, backups \cup {helper.expected}}
          /\ Answer("failed") /\ Fault
    /\ UNCHANGED <<meta, saved, pages>>

\* The new file is written beside the old one, which is read again; the fault
\* is the write of the new file, or the synchronisation after the rename.
Replace ==
    /\ Doing("replacing")
    /\ \/ meta # helper.expected /\ Answer("failed") /\ UNCHANGED <<meta, budget>>
       \/ meta = helper.expected /\ meta' = Replacement /\ Advance("verifying") /\ UNCHANGED budget
       \/ Answer("failed") /\ Fault /\ UNCHANGED meta
       \/ meta = helper.expected /\ meta' = Replacement /\ Advance("rolling") /\ Fault
    /\ UNCHANGED <<saved, backups, pages>>

\* Mutant: a failing verification is reported, the change stays.
VerifyReports ==
    /\ Doing("verifying")
    /\ \/ Advance("comparing") /\ UNCHANGED budget
       \/ Answer("failed") /\ Fault
    /\ UNCHANGED <<files, pages>>

\* The settings are valid and the clients can be listed.
Verify ==
    /\ Doing("verifying")
    /\ \/ Advance("comparing") /\ UNCHANGED budget
       \/ Advance("rolling") /\ Fault
    /\ UNCHANGED <<files, pages>>

Compare ==
    /\ Doing("comparing")
    /\ Advance(IF meta = Replacement THEN "answering" ELSE "rolling")
    /\ UNCHANGED <<files, pages, budget>>

\* The old contents are written over whatever is there.
RollBack ==
    /\ Doing("rolling")
    /\ Answer("failed")
    /\ \/ meta' = helper.expected /\ UNCHANGED budget
       \/ meta' \in {meta, helper.expected} /\ Fault
    /\ UNCHANGED <<saved, backups, pages>>

\* execute reads the settings and the clients again for its answer.
AnswerEndpoint ==
    /\ Doing("answering")
    /\ \/ Answer("done") /\ metaShown' = metaShown \cup {meta} /\ UNCHANGED budget
       \/ Answer("failed") /\ Fault /\ UNCHANGED metaShown
    /\ UNCHANGED <<files, savedShown>>

(*---------------------------------------------------------------------------*)
(* update_config                                                             *)
(*---------------------------------------------------------------------------*)
\* Mutant: the revision is not compared.
LoadAny ==
    /\ Doing("loading")
    /\ helper' = [helper EXCEPT !.stage = "rereading",
                                !.replacement = [host |-> meta.host, fields |-> helper.fields]]
    /\ UNCHANGED <<files, pages, reply, budget>>

Load ==
    /\ Doing("loading")
    /\ LET current == Projected(helper.client) IN
       \/ current # helper.expected /\ Answer("failed")
       \/ current = helper.expected /\ current.fields = helper.fields /\ Advance("reloading")
       \/ /\ current = helper.expected /\ current.fields # helper.fields
          /\ helper' = [helper EXCEPT !.stage = "rereading",
                                      !.replacement = [current EXCEPT !.fields = helper.fields]]
          /\ UNCHANGED reply
    /\ UNCHANGED <<files, pages, budget>>

\* The file is read a second time, and it is this text that is protected.
Reread ==
    /\ Doing("rereading")
    /\ helper' = [helper EXCEPT !.stage = "swapping", !.raw = saved[helper.client]]
    /\ UNCHANGED <<files, pages, reply, budget>>

\* atomic_replace; nothing is undone when the directory cannot be synchronised.
AtomicReplace ==
    /\ Doing("swapping")
    /\ LET c == helper.client
           unchanged == saved[c] = helper.raw
           written == saved' = [saved EXCEPT ![c] = helper.replacement] IN
       \/ ~unchanged /\ Answer("failed") /\ UNCHANGED <<saved, budget>>
       \/ unchanged /\ written /\ Advance("reloading") /\ UNCHANGED budget
       \/ Answer("failed") /\ Fault /\ UNCHANGED saved
       \/ unchanged /\ written /\ Answer("failed") /\ Fault
    /\ UNCHANGED <<meta, backups, pages>>

Reload ==
    /\ Doing("reloading")
    /\ \/ /\ Answer("done") /\ UNCHANGED budget
          /\ savedShown' = savedShown \cup {<<helper.client, Projected(helper.client)>>}
       \/ Answer("failed") /\ Fault /\ UNCHANGED savedShown
    /\ UNCHANGED <<files, metaShown>>

(*---------------------------------------------------------------------------*)
(* The environment                                                           *)
(*---------------------------------------------------------------------------*)
\* The helper is killed; what it wrote beside the files is never read.
Killed ==
    /\ ~Doing("idle") /\ faults < MaxFaults /\ faults' = faults + 1
    /\ Answer("killed")
    /\ UNCHANGED <<files, pages, made, edits>>

EditMetadata ==
    /\ edits < MaxEdits /\ edits' = edits + 1
    /\ meta' = [meta EXCEPT !.rest = edits + 1]
    /\ UNCHANGED <<saved, backups, pages, helper, reply, made, faults>>

EditSaved(c, fields) ==
    /\ edits < MaxEdits /\ edits' = edits + 1
    /\ fields # saved[c].fields
    /\ saved' = [saved EXCEPT ![c].fields = fields]
    /\ UNCHANGED <<meta, backups, pages, helper, reply, made, faults>>

Endpoint ==
    \/ ReadMetadata \/ Backup \/ Replace \/ Verify \/ Compare \/ RollBack \/ AnswerEndpoint

Update == Load \/ Reread \/ AtomicReplace \/ Reload

Page ==
    \/ ShowServer \/ \E c \in Clients : ShowConfiguration(c)
    \/ \E h \in Hosts : BeginEndpoint(h)
    \/ \E c \in Clients, f \in Fields : BeginUpdate(c, f)

SavedNext ==
    \/ Page \/ Endpoint \/ Update \/ Killed
    \/ EditMetadata \/ \E c \in Clients, f \in Fields : EditSaved(c, f)

SavedSpec == SavedInit /\ [][SavedNext]_savedVars

(*---------------------------------------------------------------------------*)
(* Properties                                                                *)
(*---------------------------------------------------------------------------*)
EndpointStages ==
    {"reading", "backing", "replacing", "verifying", "comparing", "rolling", "answering"}
UpdateStages == {"loading", "rereading", "swapping", "reloading"}

\* Every variable has its type.
SavedTypeOK ==
    /\ meta \in Metadata /\ backups \subseteq Metadata /\ metaShown \subseteq Metadata
    /\ saved \in [Clients -> Saved] /\ savedShown \subseteq Clients \X Saved
    /\ \/ helper = NoHelper
       \/ helper \in [stage : EndpointStages, expected : Metadata, host : Hosts, before : Metadata]
       \/ helper \in [stage : UpdateStages, client : Clients, expected : Saved, fields : Fields,
                      raw : Saved, replacement : Saved]
    /\ reply \in {"none", "done", "failed", "killed"}
    /\ made \in 0..MaxCalls /\ faults \in 0..MaxFaults /\ edits \in 0..MaxEdits

ByHand == edits' # edits

\* An edit only ever replaces what the operator's page has shown: a page that is
\* stale overwrites nothing.  An endpoint update replaces the metadata that the
\* page has read, whatever was changed in between (a rollback is not an update);
\* an edit of a client's configuration the text with the endpoint of that moment.
\* The latter is promised against other pages: the file is read a second time after
\* the comparison, and an edit by hand between the two readings is lost.
EditReplacesShown ==
    [][/\ meta' # meta /\ ~ByHand /\ ~Doing("rolling") => meta = helper.expected
       /\ edits' = 0
            => \A c \in Clients : saved'[c] # saved[c] => Projected(c) = helper.expected]_savedVars

\* A failed endpoint update has left the metadata as it was, or has completed
\* and verified the change before it failed: one failing write or check leaves
\* no unverified endpoint behind, as long as nobody edits the file by hand.  And
\* wherever the helper is killed after it replaced the metadata, the old settings
\* are in a backup, from which the operator can get them back.
\* (And the state is well typed.)
FailureIsClean ==
    /\ []SavedTypeOK
    /\ [][/\ helper.stage \in EndpointStages /\ helper' = NoHelper /\ reply' = "failed"
           /\ edits' = 0 /\ faults' <= 1
            => meta' = helper.before \/ Doing("answering")]_savedVars
    /\ [][reply' = "killed" /\ helper.stage \in {"verifying", "comparing", "rolling"}
            => helper.expected \in backups]_savedVars

=============================================================================
