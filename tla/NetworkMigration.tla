--------------------------- MODULE NetworkMigration ---------------------------
(***************************************************************************)
(* The change of an interface's address or obfuscation                     *)
(* (awg_cita/server_network.py).  It rewrites the interface configuration, *)
(* the profile metadata and the saved configuration of every client, so    *)
(* the helper keeps all of them, before and after, in a journal, works     *)
(* with the interface stopped, and undoes everything from the journal      *)
(* after a failure (same call) or an interruption (next call).             *)
(*                                                                         *)
(* One helper works at a time: PeerController models the lock.  A command  *)
(* or a write can fail before or after it took effect, the helper can be   *)
(* killed anywhere, the host can reboot, and files are edited by hand.     *)
(***************************************************************************)
EXTENDS Integers

CONSTANTS
    Settings,       \* the addresses (or obfuscations) that are asked for
    Clients,        \* how many peers the interface has
    Down,           \* the interface is not running
    MaxFaults,      \* bound: failing writes and commands
    MaxKills,       \* bound: killed helpers and host reboots
    MaxEdits        \* bound: files edited by hand

ASSUME DownAssumption == Down \notin Settings
ASSUME BoundAssumption ==
    Clients \in Nat /\ MaxFaults \in Nat /\ MaxKills \in Nat /\ MaxEdits \in Nat

VARIABLES
    files,      \* the contents of the files
    runtime,    \* the setting the interface runs with, or Down
    late,       \* a stop or start that systemd still has to carry out
    journal,    \* the journal file, or NoJournal
    helper,     \* the helper process
    reply,      \* what it last reported
    faults, kills, edits

system == <<runtime, late>>
budget == <<faults, kills, edits>>
vars == <<files, system, journal, helper, reply, budget>>

\* In the order they are written: the configuration, the metadata, the clients'.
Names == 1..(Clients + 2)
Configuration == 1
Metadata == 2

\* The order in which they are restored: the clients', the metadata, the configuration.
Undone(k) == IF k <= Clients THEN k + 2 ELSE Clients + 3 - k

Text == 0..MaxEdits
Content == [setting : Settings, text : Text]
Changed(content, s) == [content EXCEPT !.setting = s]
Agree(s) == \A n \in Names : files[n].setting = s

Kinds == {"address", "obfuscation"}
NoJournal == [pending |-> FALSE]
Journal == {NoJournal}
    \cup [pending : {TRUE}, kind : Kinds, before : [Names -> Content], target : Settings]

Stages == {"idle", "recovering", "planning", "journaling", "stopping", "writing", "starting",
           "verifying", "finishing", "stopBack", "restoring", "startBack", "verifyBack",
           "finishBack"}

\* entry is the journal in the helper's memory; recovering tells the recovery
\* before an operation from the rollback of apply_change.
Helper == [stage : Stages, op : {"none", "list", "network"}, recovering : BOOLEAN,
           next : 1..(Clients + 3), entry : Journal]

Idle == [stage |-> "idle", op |-> "none", recovering |-> FALSE, next |-> 1, entry |-> NoJournal]

At(stage) == helper.stage = stage
Goto(stage) == helper' = [helper EXCEPT !.stage = stage, !.next = 1]
Answer(outcome) == helper' = Idle /\ reply' = outcome
Before(n) == helper.entry.before[n]
After(n) == Changed(Before(n), helper.entry.target)

\* An exception in apply_change, and one in recover_pending.
RollBack == Goto("recovering") /\ UNCHANGED reply
RecoveryFailed == Answer(IF helper.recovering THEN "failed" ELSE "rollback failed")

Fault == faults < MaxFaults /\ faults' = faults + 1 /\ UNCHANGED <<kills, edits>>

Init ==
    /\ \E s \in Settings : /\ files = [n \in Names |-> [setting |-> s, text |-> 0]]
                           /\ runtime = s
    /\ late = "none"
    /\ journal = NoJournal
    /\ helper = Idle
    /\ reply = "none"
    /\ faults = 0 /\ kills = 0 /\ edits = 0

-----------------------------------------------------------------------------
(* systemctl stop and start; either can fail, or be overtaken by its time  *)
(* limit and carried out later                                             *)

Stopped == runtime' = Down /\ late' = "none"

StopFailed ==
    \/ runtime' \in {runtime, Down} /\ late' = "none"
    \/ runtime' = runtime /\ late' = "stop"

\* Starting an interface that runs changes nothing.
Started ==
    /\ runtime' = IF runtime = Down THEN files[Configuration].setting ELSE runtime
    /\ late' = "none"

StartFailed ==
    \/ Started
    \/ runtime' = runtime /\ late' \in {"none", "start"}

\* verify_runtime: the address is compared, the obfuscation is not; the peers of
\* the interface differ from a configuration that was edited since.
Verified(kind) == runtime # Down /\ (kind = "address" => runtime = files[Metadata].setting)

-----------------------------------------------------------------------------
(* A call: recover_pending, then the operation                             *)

Call(op) ==
    /\ At("idle")
    /\ helper' = [Idle EXCEPT !.stage = "recovering", !.op = op, !.recovering = TRUE]
    /\ reply' = "none"
    /\ UNCHANGED <<files, system, journal, budget>>

List ==
    /\ At("planning") /\ helper.op = "list"
    /\ Answer("ok")
    /\ UNCHANGED <<files, system, journal, budget>>

\* fresh: the request names the revision of the present metadata.  The target is
\* another setting, the interface runs with the one of the metadata, and every
\* client's file is there and agrees with the configuration.
Plan(kind, target, fresh) ==
    /\ At("planning") /\ helper.op = "network"
    /\ IF fresh /\ target # runtime /\ Agree(runtime)
         THEN /\ helper' = [helper EXCEPT !.stage = "journaling", !.recovering = FALSE,
                               !.entry = [pending |-> TRUE, kind |-> kind, before |-> files,
                                          target |-> target]]
              /\ UNCHANGED reply
         ELSE Answer("failed")
    /\ UNCHANGED <<files, system, journal, budget>>

PlanFails ==
    /\ At("planning")
    /\ Fault
    /\ Answer("failed")
    /\ UNCHANGED <<files, system, journal>>

-----------------------------------------------------------------------------
(* apply_change                                                            *)

WriteJournal ==
    /\ At("journaling")
    /\ journal' = helper.entry
    /\ Goto("stopping")
    /\ UNCHANGED <<files, system, reply, budget>>

\* It raises before the "try": a journal that was written stays.
WriteJournalFails ==
    /\ At("journaling")
    /\ Fault
    /\ journal' \in {journal, helper.entry}
    /\ Answer("failed")
    /\ UNCHANGED <<files, system>>

Stop ==
    /\ At("stopping")
    /\ Stopped
    /\ Goto("writing")
    /\ UNCHANGED <<files, journal, reply, budget>>

StopFails ==
    /\ At("stopping")
    /\ Fault
    /\ StopFailed
    /\ RollBack
    /\ UNCHANGED <<files, journal>>

Continue(last, stage) ==
    helper' = IF helper.next = last THEN [helper EXCEPT !.stage = stage, !.next = 1]
                                    ELSE [helper EXCEPT !.next = @ + 1]

\* Mutant: the contents are not compared with the expected ones.
WriteUnchecked ==
    LET n == helper.next IN
    /\ At("writing")
    /\ files' = [files EXCEPT ![n] = After(n)]
    /\ Continue(Clients + 2, "starting")
    /\ UNCHANGED <<system, journal, reply, budget>>

\* Mutant: the last client is left out.
WriteStopsEarly ==
    LET n == helper.next IN
    /\ At("writing")
    /\ files[n] = Before(n)
    /\ files' = [files EXCEPT ![n] = After(n)]
    /\ Continue(Clients + 1, "starting")
    /\ UNCHANGED <<system, journal, reply, budget>>

\* _replace_file: a file that is not the expected one is an error.
Write ==
    LET n == helper.next IN
    /\ At("writing")
    /\ files[n] = Before(n)
    /\ files' = [files EXCEPT ![n] = After(n)]
    /\ Continue(Clients + 2, "starting")
    /\ UNCHANGED <<system, journal, reply, budget>>

WriteFails ==
    LET n == helper.next IN
    /\ At("writing")
    /\ \/ files[n] # Before(n) /\ UNCHANGED <<files, budget>>
       \/ /\ files[n] = Before(n)
          /\ Fault
          /\ files' \in {files, [files EXCEPT ![n] = After(n)]}
    /\ RollBack
    /\ UNCHANGED <<system, journal>>

Start ==
    /\ At("starting")
    /\ Started
    /\ Goto("verifying")
    /\ UNCHANGED <<files, journal, reply, budget>>

StartFails ==
    /\ At("starting")
    /\ Fault
    /\ StartFailed
    /\ RollBack
    /\ UNCHANGED <<files, journal>>

Verify ==
    /\ At("verifying")
    /\ Verified(helper.entry.kind)
    /\ Goto("finishing")
    /\ UNCHANGED <<files, system, journal, reply, budget>>

VerifyFails ==
    /\ At("verifying")
    /\ \/ (~ Verified(helper.entry.kind) \/ edits > 0) /\ UNCHANGED budget
       \/ Fault
    /\ RollBack
    /\ UNCHANGED <<files, system, journal>>

Finish ==
    /\ At("finishing")
    /\ journal' = NoJournal
    /\ Answer("ok")
    /\ UNCHANGED <<files, system, budget>>

\* The unlink fails, or the directory cannot be synchronised after it.
FinishFails ==
    /\ At("finishing")
    /\ Fault
    /\ journal' \in {journal, NoJournal}
    /\ RollBack
    /\ UNCHANGED <<files, system>>

-----------------------------------------------------------------------------
(* recover_pending                                                         *)

\* Neither the old nor the new contents of the journal.
Drifted == \E n \in Names :
    files[n] \notin {journal.before[n], Changed(journal.before[n], journal.target)}

\* Without a journal there is nothing to do; apply_change then raises its error
\* again, and an operation goes on.
Inspect ==
    /\ At("recovering")
    /\ IF journal.pending
         THEN /\ ~ Drifted
              /\ helper' = [helper EXCEPT !.stage = "stopBack", !.next = 1, !.entry = journal]
              /\ UNCHANGED reply
         ELSE IF helper.recovering THEN Goto("planning") /\ UNCHANGED reply
                                   ELSE Answer("failed")
    /\ UNCHANGED <<files, system, journal, budget>>

InspectFails ==
    /\ At("recovering")
    /\ \/ journal.pending /\ Drifted /\ UNCHANGED budget
       \/ Fault
    /\ RecoveryFailed
    /\ UNCHANGED <<files, system, journal>>

\* Mutant: the interface goes on while its files are restored.
StopBackSkipped ==
    /\ At("stopBack")
    /\ Goto("restoring")
    /\ UNCHANGED <<files, system, journal, reply, budget>>

StopBack ==
    /\ At("stopBack")
    /\ Stopped
    /\ Goto("restoring")
    /\ UNCHANGED <<files, journal, reply, budget>>

StopBackFails ==
    /\ At("stopBack")
    /\ Fault
    /\ StopFailed
    /\ RecoveryFailed
    /\ UNCHANGED <<files, journal>>

Restored(n) == IF files[n] = After(n) THEN [files EXCEPT ![n] = Before(n)] ELSE files

\* Mutant: the metadata, the last but one, ends the loop.
RestoreStopsEarly ==
    /\ At("restoring")
    /\ files' = Restored(Undone(helper.next))
    /\ Continue(Clients + 1, "startBack")
    /\ UNCHANGED <<system, journal, reply, budget>>

\* A file that is not the new one is left alone.
Restore ==
    /\ At("restoring")
    /\ files' = Restored(Undone(helper.next))
    /\ Continue(Clients + 2, "startBack")
    /\ UNCHANGED <<system, journal, reply, budget>>

RestoreFails ==
    /\ At("restoring")
    /\ Fault
    /\ files' \in {files, Restored(Undone(helper.next))}
    /\ RecoveryFailed
    /\ UNCHANGED <<system, journal>>

StartBack ==
    /\ At("startBack")
    /\ Started
    /\ Goto("verifyBack")
    /\ UNCHANGED <<files, journal, reply, budget>>

StartBackFails ==
    /\ At("startBack")
    /\ Fault
    /\ StartFailed
    /\ RecoveryFailed
    /\ UNCHANGED <<files, journal>>

VerifyBack ==
    /\ At("verifyBack")
    /\ Verified(helper.entry.kind)
    /\ Goto("finishBack")
    /\ UNCHANGED <<files, system, journal, reply, budget>>

VerifyBackFails ==
    /\ At("verifyBack")
    /\ \/ (~ Verified(helper.entry.kind) \/ edits > 0) /\ UNCHANGED budget
       \/ Fault
    /\ RecoveryFailed
    /\ UNCHANGED <<files, system, journal>>

\* Mutant: the journal of a recovery is never removed.
FinishBackKeeps ==
    /\ At("finishBack")
    /\ IF helper.recovering THEN Goto("planning") /\ UNCHANGED reply ELSE Answer("failed")
    /\ UNCHANGED <<files, system, journal, budget>>

FinishBack ==
    /\ At("finishBack")
    /\ journal' = NoJournal
    /\ IF helper.recovering THEN Goto("planning") /\ UNCHANGED reply ELSE Answer("failed")
    /\ UNCHANGED <<files, system, budget>>

FinishBackFails ==
    /\ At("finishBack")
    /\ Fault
    /\ journal' \in {journal, NoJournal}
    /\ RecoveryFailed
    /\ UNCHANGED <<files, system>>

-----------------------------------------------------------------------------
(* The environment                                                         *)

\* systemd may still carry out what the helper had asked for.
Kill ==
    /\ ~ At("idle")
    /\ kills < MaxKills /\ kills' = kills + 1
    /\ late' \in CASE helper.stage \in {"stopping", "stopBack"} -> {late, "stop"}
                   [] helper.stage \in {"starting", "startBack"} -> {late, "start"}
                   [] OTHER -> {late}
    /\ Answer("none")
    /\ UNCHANGED <<files, runtime, journal, faults, edits>>

\* The interface is started from the configuration, whatever that is.
Reboot ==
    /\ kills < MaxKills /\ kills' = kills + 1
    /\ runtime' = files[Configuration].setting
    /\ late' = "none"
    /\ Answer("none")
    /\ UNCHANGED <<files, journal, faults, edits>>

LateJob ==
    /\ late # "none"
    /\ IF late = "stop" THEN Stopped ELSE Started
    /\ UNCHANGED <<files, journal, helper, reply, budget>>

Edit(n) ==
    /\ edits < MaxEdits /\ edits' = edits + 1
    /\ files' = [files EXCEPT ![n].text = @ + 1]
    /\ UNCHANGED <<system, journal, helper, reply, faults, kills>>

Work ==
    \/ List \/ (\E kind \in Kinds, s \in Settings, fresh \in BOOLEAN : Plan(kind, s, fresh))
    \/ WriteJournal \/ Stop \/ Write \/ WriteFails \/ Start \/ Verify \/ VerifyFails \/ Finish
    \/ Inspect \/ InspectFails \/ StopBack \/ Restore \/ StartBack \/ VerifyBack
    \/ VerifyBackFails \/ FinishBack

Failure ==
    \/ PlanFails \/ WriteJournalFails \/ StopFails \/ StartFails \/ FinishFails
    \/ StopBackFails \/ RestoreFails \/ StartBackFails \/ FinishBackFails

Environment == Kill \/ Reboot \/ LateJob \/ \E n \in Names : Edit(n)

Next ==
    \/ \E op \in {"list", "network"} : Call(op)
    \/ Work \/ Failure \/ Environment

Spec == Init /\ [][Next]_vars

\* A helper that was called runs to its end.  Nobody has to call it: the page lists
\* the clients when it is opened or used, and not on a timer.
FairSpec == Spec /\ WF_vars(Work)

-----------------------------------------------------------------------------
(* Properties                                                              *)

\* The files, the journal and the helper of server_network.py hold what they may hold:
\* a journal is always one that recover_pending can read.
TypeOK ==
    /\ files \in [Names -> Content]
    /\ runtime \in Settings \cup {Down} /\ late \in {"none", "stop", "start"}
    /\ journal \in Journal
    /\ helper \in Helper
    /\ reply \in {"none", "ok", "failed", "rollback failed"}
    /\ faults \in 0..MaxFaults /\ kills \in 0..MaxKills /\ edits \in 0..MaxEdits

\* Whenever no journal is there, every file has the same setting: no failure and no
\* interruption leaves a client whose saved configuration the server would refuse.
\* Once no helper works either, the interface runs with the setting of the files.
\* This holds until a file is edited by hand: the restoration skips a file that is
\* edited while it runs, and the journal goes all the same.  (And the state is well typed.)
FilesAgree ==
    /\ TypeOK
    /\ edits = 0 /\ ~ journal.pending
         => /\ \E s \in Settings : Agree(s)
            /\ At("idle") => runtime # Down /\ Agree(runtime)

\* A rollback or recovery that removes the journal has restored every file, unless
\* the files were edited by hand.
RecoveryRestores ==
    [][At("finishBack") /\ ~ journal'.pending /\ edits = 0
         => \A n \in Names : files'[n].setting = Before(n).setting]_vars

\* "Stops only the selected interface, atomically updates ...": the helper changes a
\* file only while the interface is down, so no peer meets a half-migrated server.
WrittenWhileDown ==
    [][~ At("idle") /\ edits' = edits /\ files' # files => runtime = Down]_vars

\* "The helper does not overwrite an unknown state": nothing written by hand is
\* undone by a migration, a rollback or a recovery.
EditsSurvive == [][\A n \in Names : files'[n].text >= files[n].text]_vars

\* One undisturbed call repairs an interruption: a call that finds the journal of an
\* interrupted migration, or a migration that rolls back, removes the journal, unless
\* a command, a write or the helper itself fails once more on the way, or a file was
\* edited by hand and is unknown to it.  Until somebody calls, nothing is repaired.
NextCallRepairs ==
    \A n \in 0..(MaxFaults + MaxKills) :
        At("recovering") /\ journal.pending /\ faults + kills = n
            ~> ~ journal.pending \/ faults + kills > n \/ edits > 0

=============================================================================
