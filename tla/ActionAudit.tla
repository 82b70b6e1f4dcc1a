------------------------------ MODULE ActionAudit ------------------------------
(***************************************************************************)
(* The evidence of the actions: for every authorised POST the application  *)
(* (awg_cita/app.py, do_POST) appends an INTENT to the action log          *)
(* (awg_cita/audit.py), calls the lifecycle service, appends a RESULT and  *)
(* only then answers.  A write that fails closes the log for good, and the *)
(* application does not start on a log with an INTENT that has no RESULT.  *)
(*                                                                         *)
(* Every request has a thread of its own; the writer's lock makes one      *)
(* append one step.  The process can be killed anywhere, within an append  *)
(* too, the file can be replaced, and the operator reconciles it with the  *)
(* service stopped.                                                        *)
(***************************************************************************)
EXTENDS Integers, Sequences, SequencesExt, FiniteSets

CONSTANTS
    Requests,       \* the requests, each with its random correlation id
    Operations,     \* the operations that are asked for, some of those do_POST knows
    MaxRecords,     \* how many records fit in the file
    MaxFaults,      \* bound: failing writes
    MaxCrashes,     \* bound: killed processes
    MaxReplaced     \* bound: replacements of the file while it is in use

Profiles == {"awg3", "awg2", "wg"}
Actions == {"create", "enable", "disable", "delete", "template", "config_update",
            "endpoint_update", "port_update", "network_update"}

ASSUME OperationsAssumption == Operations \subseteq Profiles \X Actions
ASSUME BoundAssumption ==
    MaxRecords \in Nat /\ MaxFaults \in Nat /\ MaxCrashes \in Nat /\ MaxReplaced \in Nat

VARIABLES
    file,       \* the records of the action log, in order
    torn,       \* its last line is incomplete
    foreign,    \* it is not the file that the process has opened, or not of the size it knows
    archive,    \* the records of the logs that the operator put away
    up,         \* the application runs
    failed,     \* its writer is closed
    request,    \* what every request has come to
    performed,  \* the requests that changed something
    faults, crashes, replaced

log == <<file, torn, foreign, archive>>
budget == <<faults, crashes, replaced>>
vars == <<log, up, failed, request, performed, budget>>

Results == {"OK", "conflict", "awg_command_failed"}
Event == [phase : {"INTENT", "RESULT"}, id : Requests, result : Results \cup {"none"}]

\* authorised: the INTENT is next; called: the service was called, the RESULT is next.
Stages == {"new", "authorised", "intended", "called", "answered", "lost"}
Request == [stage : Stages, operation : Operations, outcome : Results \cup {"none"},
            reply : Results \cup {"none", "audit_write_failed"}]

Intent(r) == [phase |-> "INTENT", id |-> r, result |-> "none"]
Result(r) == [phase |-> "RESULT", id |-> r, result |-> request[r].outcome]
Recorded == ToSet(file) \cup archive
Written(r) == Intent(r) \in Recorded

At(r, stage) == request[r].stage = stage
Move(r, stage) == request' = [request EXCEPT ![r].stage = stage]
AnswerTo(r, reply) ==
    request' = [request EXCEPT ![r].stage = "answered", ![r].reply = reply]

Init ==
    /\ file = <<>> /\ torn = FALSE /\ foreign = FALSE /\ archive = {}
    /\ up = TRUE /\ failed = FALSE
    /\ request \in [Requests -> [stage : {"new"}, operation : Operations,
                                 outcome : {"none"}, reply : {"none"}]]
    /\ performed = {}
    /\ faults = 0 /\ crashes = 0 /\ replaced = 0

-----------------------------------------------------------------------------
(* audit.py: the records and the file                                      *)

\* The name that do_POST gives to an operation: the prefix is left out for the
\* lifecycle operations of awg3, which are older than the profiles.
AuditOperation(operation) ==
    LET profile == operation[1]  name == operation[2] IN
    IF name \in {"template", "endpoint_update", "port_update", "network_update"}
       \/ profile # "awg3"
      THEN <<profile, name>> ELSE <<"", name>>

\* The names that project_action_event accepts.
ActionOperations ==
    ({"", "awg2", "wg"} \X {"create", "enable", "disable", "delete"})
    \cup (Profiles \X {"template", "config_update", "endpoint_update", "port_update"})
    \cup ({"awg2", "wg"} \X {"network_update"})

Known(r) == AuditOperation(request[r].operation) \in ActionOperations

\* The writer is open, the file is the expected one, and the record is valid and fits.
Appends(r) == ~ failed /\ ~ foreign /\ Known(r) /\ Len(file) < MaxRecords

Appended(event) == file' = Append(file, event) /\ UNCHANGED <<torn, foreign, archive>>

\* A failing append: nothing, a part of the line or all of it was written.
FailedAppend(event) ==
    /\ \/ UNCHANGED <<file, torn>>
       \/ torn' = TRUE /\ UNCHANGED file
       \/ file' = Append(file, event) /\ UNCHANGED torn
    /\ UNCHANGED <<foreign, archive>>

\* ActionAuditLog.open: whole lines, every RESULT after its one INTENT, and no
\* INTENT without RESULT.
Positions(phase, r) == {k \in DOMAIN file : file[k].phase = phase /\ file[k].id = r}
Opens ==
    /\ ~ torn
    /\ Len(file) <= MaxRecords
    /\ \A r \in Requests :
          \/ Positions("INTENT", r) = {} /\ Positions("RESULT", r) = {}
          \/ \E i, k \in DOMAIN file : /\ i < k
                                       /\ Positions("INTENT", r) = {i}
                                       /\ Positions("RESULT", r) = {k}

-----------------------------------------------------------------------------
(* do_POST                                                                 *)

\* The session, the origin and the CSRF token are right and the body is valid.
Authorise(r) ==
    /\ up /\ At(r, "new")
    /\ Move(r, "authorised")
    /\ UNCHANGED <<log, up, failed, performed, budget>>

RecordIntent(r) ==
    /\ up /\ At(r, "authorised")
    /\ Appends(r)
    /\ Appended(Intent(r))
    /\ Move(r, "intended")
    /\ UNCHANGED <<up, failed, performed, budget>>

\* Mutant: the failure of the writer is logged and the action goes on.
RefuseIntentIgnored(r) ==
    /\ up /\ At(r, "authorised")
    /\ ~ Appends(r)
    /\ failed' = TRUE
    /\ Move(r, "intended")
    /\ UNCHANGED <<log, up, performed, budget>>

RefuseIntent(r) ==
    /\ up /\ At(r, "authorised")
    /\ ~ Appends(r)
    /\ failed' = TRUE
    /\ AnswerTo(r, "audit_write_failed")
    /\ UNCHANGED <<log, up, performed, budget>>

Fault == faults < MaxFaults /\ faults' = faults + 1 /\ UNCHANGED <<crashes, replaced>>

\* Mutant: a writer whose append failed stays open.
IntentFailsUnlatched(r) ==
    /\ up /\ At(r, "authorised")
    /\ Appends(r) /\ Fault
    /\ FailedAppend(Intent(r))
    /\ AnswerTo(r, "audit_write_failed")
    /\ UNCHANGED <<up, failed, performed>>

IntentFails(r) ==
    /\ up /\ At(r, "authorised")
    /\ Appends(r) /\ Fault
    /\ FailedAppend(Intent(r))
    /\ failed' = TRUE
    /\ AnswerTo(r, "audit_write_failed")
    /\ UNCHANGED <<up, performed>>

\* The lifecycle service: it may have changed something although it reports an error.
CallService(r) ==
    /\ up /\ At(r, "intended")
    /\ \E outcome \in Results :
          /\ request' = [request EXCEPT ![r].stage = "called", ![r].outcome = outcome]
          /\ performed' \in CASE outcome = "OK" -> {performed \cup {r}}
                              [] outcome = "conflict" -> {performed}
                              [] OTHER -> {performed, performed \cup {r}}
    /\ UNCHANGED <<log, up, failed, budget>>

RecordResult(r) ==
    /\ up /\ At(r, "called")
    /\ Appends(r)
    /\ Appended(Result(r))
    /\ AnswerTo(r, request[r].outcome)
    /\ UNCHANGED <<up, failed, performed, budget>>

RefuseResult(r) ==
    /\ up /\ At(r, "called")
    /\ ~ Appends(r)
    /\ failed' = TRUE
    /\ AnswerTo(r, "audit_write_failed")
    /\ UNCHANGED <<log, up, performed, budget>>

\* Mutant: the result of the service is sent although it could not be recorded.
ResultFailsAnswers(r) ==
    /\ up /\ At(r, "called")
    /\ Appends(r) /\ Fault
    /\ FailedAppend(Result(r))
    /\ failed' = TRUE
    /\ AnswerTo(r, request[r].outcome)
    /\ UNCHANGED <<up, performed>>

ResultFails(r) ==
    /\ up /\ At(r, "called")
    /\ Appends(r) /\ Fault
    /\ FailedAppend(Result(r))
    /\ failed' = TRUE
    /\ AnswerTo(r, "audit_write_failed")
    /\ UNCHANGED <<up, performed>>

-----------------------------------------------------------------------------
(* The process and its file                                                *)

\* The requests that were under way have no answer; an append may be cut short,
\* and a call of the service may have changed something.
Crash ==
    /\ up
    /\ crashes < MaxCrashes /\ crashes' = crashes + 1
    /\ up' = FALSE
    /\ request' = [r \in Requests |->
                      IF request[r].stage \in {"new", "answered", "lost"} THEN request[r]
                      ELSE [request[r] EXCEPT !.stage = "lost"]]
    /\ performed' \in {performed \cup s : s \in SUBSET {r \in Requests : At(r, "intended")}}
    /\ \/ UNCHANGED log
       \/ \E r \in Requests :
             /\ At(r, "authorised") \/ At(r, "called")
             /\ Appends(r)
             /\ FailedAppend(IF At(r, "authorised") THEN Intent(r) ELSE Result(r))
    /\ UNCHANGED <<failed, faults, replaced>>

\* The process opens what is there now; it does not start otherwise.
Restart ==
    /\ ~ up
    /\ Opens
    /\ up' = TRUE
    /\ failed' = FALSE /\ foreign' = FALSE
    /\ UNCHANGED <<file, torn, archive, request, performed, budget>>

\* The operator compares the log with the interface and the configuration, and
\* begins a new one.
Reconcile ==
    /\ ~ up
    /\ file # <<>> \/ torn
    /\ archive' = Recorded
    /\ file' = <<>> /\ torn' = FALSE
    /\ UNCHANGED <<foreign, up, failed, request, performed, budget>>

\* The operator stops a service whose writer is closed.
StopService ==
    /\ up /\ failed
    /\ \A r \in Requests : request[r].stage \in {"new", "answered", "lost"}
    /\ up' = FALSE
    /\ UNCHANGED <<log, failed, request, performed, budget>>

\* The file is moved or appended to by someone else; its records are kept.
Replace ==
    /\ up
    /\ replaced < MaxReplaced /\ replaced' = replaced + 1
    /\ foreign' = TRUE
    /\ UNCHANGED <<file, torn, archive, up, failed, request, performed, faults, crashes>>

Serve(r) ==
    \/ RecordIntent(r) \/ RefuseIntent(r) \/ CallService(r)
    \/ RecordResult(r) \/ RefuseResult(r)

Next ==
    \/ \E r \in Requests : Authorise(r) \/ Serve(r) \/ IntentFails(r) \/ ResultFails(r)
    \/ Crash \/ Restart \/ Reconcile \/ StopService \/ Replace

Spec == Init /\ [][Next]_vars

-----------------------------------------------------------------------------
(* Properties                                                              *)

\* The log holds whole records and never more than fit (_MAX_AUDIT_BYTES), and every
\* request of do_POST is at one of its stages.
TypeOK ==
    /\ file \in Seq(Event) /\ Len(file) <= MaxRecords
    /\ torn \in BOOLEAN /\ foreign \in BOOLEAN /\ archive \subseteq Event
    /\ up \in BOOLEAN /\ failed \in BOOLEAN
    /\ request \in [Requests -> Request]
    /\ performed \subseteq Requests
    /\ faults \in 0..MaxFaults /\ crashes \in 0..MaxCrashes /\ replaced \in 0..MaxReplaced

\* "If the intent write fails, do not call AWG": whatever was changed through the
\* console has its INTENT on disk, through crashes and overlapping requests.
\* (And the state is well typed.)
PerformedIsIntended == TypeOK /\ \A r \in performed : Written(r)

\* An operator who was told that an action succeeded, or failed, finds that very
\* result on disk: the RESULT is durable before the answer.
AnswerIsRecorded ==
    \A r \in Requests : At(r, "answered") /\ request[r].reply # "audit_write_failed"
        => Intent(r) \in Recorded /\ Result(r) \in Recorded

\* What a process that never failed has written can be opened again: the service
\* does not lock itself out by overlapping requests, only by a crash or a failure.
ReopensAfterQuietStop ==
    up /\ ~ failed /\ (\A r \in Requests : request[r].stage \in {"new", "answered", "lost"})
        => Opens

\* "Each existing client's configuration can also edit these four fields"
\* (MULTI_PROFILE_0_2_0.md:10-11): an authorised request for an operation that the
\* console offers closes the log only if a write failed, the file was changed by
\* others, or it is full.
ClosedOnlyByFailure ==
    failed => faults > 0 \/ replaced > 0 \/ Len(file) = MaxRecords

================================================================================
