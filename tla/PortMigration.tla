---------------------------- MODULE PortMigration ----------------------------
(***************************************************************************)
(* The change of an interface's listen port (awg_cita/server_port.py): the *)
(* helper keeps a journal, opens the new port in the firewall, rewrites    *)
(* the interface configuration and the profile metadata, restarts the      *)
(* interface and verifies it.  A failure is rolled back by the same call,  *)
(* an interruption is undone from the journal by the next call.            *)
(*                                                                         *)
(* One helper works at a time: PeerController models the lock.  A command  *)
(* or a write can fail before or after it took effect, the helper can be   *)
(* killed at any point, the host can reboot, and the operator edits the    *)
(* configuration and the firewall by hand.                                 *)
(***************************************************************************)
EXTENDS Integers

CONSTANTS
    Ports,          \* the UDP ports that are asked for
    Down,           \* the interface is not running
    MaxFaults,      \* bound: failing writes and commands
    MaxKills,       \* bound: killed helpers and host reboots
    MaxEdits        \* bound: edits of the configuration and the firewall by hand

ASSUME DownAssumption == Down \notin Ports
ASSUME BoundAssumption == MaxFaults \in Nat /\ MaxKills \in Nat /\ MaxEdits \in Nat

VARIABLES
    config,     \* the interface configuration: its port and the rest of its text
    metadata,   \* the port of the profile metadata
    runtime,    \* the port the interface listens on, or Down
    late,       \* a restart that systemd still has to carry out
    rules,      \* who opened each port in the firewall
    journal,    \* the journal file, or NoJournal
    helper,     \* the helper process
    reply,      \* what it last reported
    faults, kills, edits

files == <<config, metadata, journal>>
system == <<runtime, late, rules>>
budget == <<faults, kills, edits>>
vars == <<files, system, helper, reply, budget>>

Text == 0..MaxEdits
Config == [port : Ports, text : Text]
Changed(c, p) == [c EXCEPT !.port = p]

NoJournal == [pending |-> FALSE]
Journal == {NoJournal} \cup [pending : {TRUE}, old : Ports, new : Ports, config : Config]

Forward == {"planning", "journaling", "allowing", "writing", "switching", "syncing",
            "verifying", "finishing"}
Backward == {"metaBack", "configBack", "syncBack", "verifyBack", "ruleBack", "unlinkBack"}
Stages == {"idle"} \cup Forward \cup Backward

\* opened, wrote, switched and failures are the local variables of apply_port;
\* recovering tells recover_pending from the rollback of apply_port.
Helper == [stage : Stages, op : {"none", "list", "port"}, old : Ports, new : Ports,
           config : Config, recovering : BOOLEAN, opened : BOOLEAN, wrote : BOOLEAN,
           switched : BOOLEAN, failures : BOOLEAN]

Idle(p) == [stage |-> "idle", op |-> "none", old |-> p, new |-> p,
            config |-> [port |-> p, text |-> 0], recovering |-> FALSE, opened |-> FALSE,
            wrote |-> FALSE, switched |-> FALSE, failures |-> FALSE]

At(stage) == helper.stage = stage
Goto(stage) == helper' = [helper EXCEPT !.stage = stage]
Answer(outcome) == helper' = Idle(helper.old) /\ reply' = outcome

\* An exception: apply_port begins its rollback.
RollBack == helper' = [helper EXCEPT !.stage = "metaBack"] /\ UNCHANGED reply

\* An exception while undoing: recover_pending gives up, and the rollback goes on
\* with what it still tries after noting the failure.
UndoFailed(next) ==
    IF helper.recovering
      THEN Answer("failed")
      ELSE /\ helper' = [helper EXCEPT !.stage = next, !.failures = TRUE]
           /\ UNCHANGED reply

Fault == faults < MaxFaults /\ faults' = faults + 1 /\ UNCHANGED <<kills, edits>>

FailedRestart ==
    /\ runtime' \in {runtime, Down}
    /\ late' \in {late, TRUE}

Init ==
    /\ config \in [port : Ports, text : {0}]
    /\ metadata = config.port
    /\ runtime = config.port
    /\ late = FALSE
    /\ rules = [p \in Ports |-> IF p = config.port THEN "other" ELSE "none"]
    /\ journal = NoJournal
    /\ helper = Idle(config.port)
    /\ reply = "none"
    /\ faults = 0 /\ kills = 0 /\ edits = 0

-----------------------------------------------------------------------------
(* A call of the helper: recovery first, then the operation                *)

Call(op) ==
    /\ At("idle")
    /\ helper' = IF journal.pending
                   THEN [helper EXCEPT !.stage = "metaBack", !.op = op, !.recovering = TRUE,
                                       !.old = journal.old, !.new = journal.new,
                                       !.config = journal.config]
                   ELSE [helper EXCEPT !.stage = "planning", !.op = op, !.old = metadata]
    /\ reply' = "none"
    /\ UNCHANGED <<files, system, budget>>

List ==
    /\ At("planning") /\ helper.op = "list"
    /\ Answer("ok")
    /\ UNCHANGED <<files, system, budget>>

\* The port can be bound, the firewall knows the old port and not the new one,
\* and the configuration has the port of the metadata.
Passes(p) ==
    /\ helper.old # p
    /\ runtime # p
    /\ rules[helper.old] # "none" /\ rules[p] = "none"
    /\ config.port = helper.old /\ metadata = helper.old

\* fresh: the request carries the revision of the present metadata.
Preflight(p, fresh) ==
    /\ At("planning") /\ helper.op = "port"
    /\ IF Passes(p) /\ fresh
         THEN /\ helper' = [helper EXCEPT !.stage = "journaling", !.new = p, !.config = config]
              /\ UNCHANGED reply
         ELSE Answer("failed")
    /\ UNCHANGED <<files, system, budget>>

PreflightFails ==
    /\ At("planning")
    /\ Fault
    /\ Answer("failed")
    /\ UNCHANGED <<files, system>>

-----------------------------------------------------------------------------
(* apply_port                                                              *)

Entry == [pending |-> TRUE, old |-> helper.old, new |-> helper.new, config |-> helper.config]

StartJournal ==
    /\ At("journaling")
    /\ journal' = Entry
    /\ Goto("allowing")
    /\ UNCHANGED <<config, metadata, system, reply, budget>>

\* It raises before the "try": a journal that was written stays.
StartJournalFails ==
    /\ At("journaling")
    /\ Fault
    /\ journal' \in {journal, Entry}
    /\ Answer("failed")
    /\ UNCHANGED <<config, metadata, system>>

Allow ==
    /\ At("allowing")
    /\ rules' = [rules EXCEPT ![helper.new] = "ours"]
    /\ helper' = [helper EXCEPT !.stage = "writing", !.opened = TRUE]
    /\ UNCHANGED <<files, runtime, late, reply, budget>>

\* ufw fails or times out, before or after it added the rule.
AllowFails ==
    /\ At("allowing")
    /\ Fault
    /\ rules' \in {rules, [rules EXCEPT ![helper.new] = "ours"]}
    /\ RollBack
    /\ UNCHANGED <<files, runtime, late>>

\* Mutant: the contents are not compared with the expected ones.
WriteUnchecked ==
    /\ At("writing")
    /\ config' = Changed(helper.config, helper.new)
    /\ helper' = [helper EXCEPT !.stage = "switching", !.wrote = TRUE]
    /\ UNCHANGED <<metadata, journal, system, reply, budget>>

Write ==
    /\ At("writing")
    /\ config = helper.config
    /\ config' = Changed(config, helper.new)
    /\ helper' = [helper EXCEPT !.stage = "switching", !.wrote = TRUE]
    /\ UNCHANGED <<metadata, journal, system, reply, budget>>

\* The file was edited, or the write fails before or after the rename.
WriteFails ==
    /\ At("writing")
    /\ \/ config # helper.config /\ UNCHANGED <<config, budget>>
       \/ /\ config = helper.config
          /\ Fault
          /\ config' \in {config, Changed(config, helper.new)}
    /\ RollBack
    /\ UNCHANGED <<metadata, journal, system>>

\* replace_metadata_port
Switch ==
    /\ At("switching")
    /\ metadata' = helper.new
    /\ helper' = [helper EXCEPT !.stage = "syncing", !.switched = TRUE]
    /\ UNCHANGED <<config, journal, system, reply, budget>>

\* It restores the metadata itself; a second failure leaves the new ones there,
\* and apply_port learns of one exception only.
SwitchFails ==
    /\ At("switching")
    /\ \/ Fault /\ UNCHANGED metadata
       \/ /\ faults + 2 <= MaxFaults
          /\ faults' = faults + 2 /\ UNCHANGED <<kills, edits>>
          /\ metadata' = helper.new
    /\ RollBack
    /\ UNCHANGED <<config, journal, system>>

Sync ==
    /\ At("syncing")
    /\ runtime' = config.port
    /\ late' = FALSE
    /\ Goto("verifying")
    /\ UNCHANGED <<files, rules, reply, budget>>

SyncFails ==
    /\ At("syncing")
    /\ Fault
    /\ FailedRestart
    /\ RollBack
    /\ UNCHANGED <<files, rules>>

\* The port of the interface; its peers are compared too, and differ from a
\* configuration that was edited since.
Verify ==
    /\ At("verifying")
    /\ runtime = helper.new
    /\ Goto("finishing")
    /\ UNCHANGED <<files, system, reply, budget>>

VerifyFails ==
    /\ At("verifying")
    /\ \/ (runtime # helper.new \/ edits > 0) /\ UNCHANGED budget
       \/ Fault
    /\ RollBack
    /\ UNCHANGED <<files, system>>

Finish ==
    /\ At("finishing")
    /\ journal' = NoJournal
    /\ Answer("ok")
    /\ UNCHANGED <<config, metadata, system, budget>>

\* The unlink fails, or the directory cannot be synchronised after it.
FinishFails ==
    /\ At("finishing")
    /\ Fault
    /\ journal' \in {journal, NoJournal}
    /\ RollBack
    /\ UNCHANGED <<config, metadata, system>>

-----------------------------------------------------------------------------
(* The rollback of apply_port, and recover_pending                         *)

\* Neither file was edited: the contents are those of the journal, old or new.
Known == config \in {helper.config, Changed(helper.config, helper.new)}

MetaBack ==
    /\ At("metaBack")
    /\ helper.recovering => Known
    /\ metadata' = IF helper.recovering \/ helper.switched THEN helper.old ELSE metadata
    /\ Goto("configBack")
    /\ UNCHANGED <<config, journal, system, reply, budget>>

MetaBackFails ==
    /\ At("metaBack")
    /\ \/ helper.recovering /\ ~ Known /\ UNCHANGED <<metadata, budget>>
       \/ /\ helper.recovering \/ helper.switched
          /\ \/ Fault /\ UNCHANGED metadata
             \/ /\ faults + 2 <= MaxFaults
                /\ faults' = faults + 2 /\ UNCHANGED <<kills, edits>>
                /\ metadata' = helper.old
    /\ UndoFailed("configBack")
    /\ UNCHANGED <<config, journal, system>>

\* Nothing was written: the rollback does not restart the interface.
NothingWritten ==
    /\ ~ helper.recovering /\ ~ helper.wrote
    /\ config # Changed(helper.config, helper.new)

\* Mutant: the interface is not restarted with the old configuration.
ConfigBackNoRestart ==
    /\ At("configBack")
    /\ config' = IF config = Changed(helper.config, helper.new) THEN helper.config ELSE config
    /\ Goto("ruleBack")
    /\ UNCHANGED <<metadata, journal, system, reply, budget>>

ConfigBack ==
    /\ At("configBack")
    /\ config' = IF config = Changed(helper.config, helper.new) THEN helper.config ELSE config
    /\ Goto(IF NothingWritten THEN "ruleBack" ELSE "syncBack")
    /\ UNCHANGED <<metadata, journal, system, reply, budget>>

ConfigBackFails ==
    /\ At("configBack")
    /\ Fault
    /\ config' \in {config, IF config = Changed(helper.config, helper.new)
                              THEN helper.config ELSE config}
    /\ UndoFailed("ruleBack")
    /\ UNCHANGED <<metadata, journal, system>>

SyncBack ==
    /\ At("syncBack")
    /\ runtime' = config.port
    /\ late' = FALSE
    /\ Goto("verifyBack")
    /\ UNCHANGED <<files, rules, reply, budget>>

SyncBackFails ==
    /\ At("syncBack")
    /\ Fault
    /\ FailedRestart
    /\ UndoFailed("ruleBack")
    /\ UNCHANGED <<files, rules>>

VerifyBack ==
    /\ At("verifyBack")
    /\ runtime = helper.old
    /\ Goto("ruleBack")
    /\ UNCHANGED <<files, system, reply, budget>>

VerifyBackFails ==
    /\ At("verifyBack")
    /\ \/ (runtime # helper.old \/ edits > 0) /\ UNCHANGED budget
       \/ Fault
    /\ UndoFailed("ruleBack")
    /\ UNCHANGED <<files, system>>

\* The rollback removes the rule it opened unless something failed before;
\* recovery removes the rule that carries the profile's comment.
Removes ==
    IF helper.recovering THEN rules[helper.new] = "ours" ELSE helper.opened /\ ~ helper.failures

\* Mutant: the rule is removed even if the interface could not be brought back.
RuleBackAlways ==
    /\ At("ruleBack")
    /\ rules' = IF helper.opened \/ helper.recovering
                  THEN [rules EXCEPT ![helper.new] = "none"] ELSE rules
    /\ Goto("unlinkBack")
    /\ UNCHANGED <<files, runtime, late, reply, budget>>

RuleBack ==
    /\ At("ruleBack")
    /\ helper.recovering => rules[helper.new] # "other"
    /\ rules' = IF Removes THEN [rules EXCEPT ![helper.new] = "none"] ELSE rules
    /\ Goto("unlinkBack")
    /\ UNCHANGED <<files, runtime, late, reply, budget>>

RuleBackFails ==
    /\ At("ruleBack")
    /\ \/ helper.recovering /\ rules[helper.new] = "other" /\ UNCHANGED <<rules, budget>>
       \/ /\ helper.recovering \/ Removes
          /\ Fault
          /\ rules' \in {rules, IF Removes THEN [rules EXCEPT ![helper.new] = "none"] ELSE rules}
    /\ UndoFailed("unlinkBack")
    /\ UNCHANGED <<files, runtime, late>>

\* The end of the rollback: the original error, or "rollback failed" with the
\* journal kept.  A journal that Finish had already removed cannot be unlinked.
\* After a recovery the operation of the call goes on.
UnlinkBack ==
    /\ At("unlinkBack")
    /\ IF helper.failures \/ ~ journal.pending
         THEN Answer("rollback failed") /\ UNCHANGED journal
         ELSE /\ journal' = NoJournal
              /\ IF helper.recovering
                   THEN /\ helper' = [Idle(helper.old) EXCEPT !.stage = "planning",
                                                              !.op = helper.op]
                        /\ UNCHANGED reply
                   ELSE Answer("failed")
    /\ UNCHANGED <<config, metadata, system, budget>>

UnlinkBackFails ==
    /\ At("unlinkBack")
    /\ ~ helper.failures /\ journal.pending
    /\ Fault
    /\ journal' \in {journal, NoJournal}
    /\ Answer(IF helper.recovering THEN "failed" ELSE "rollback failed")
    /\ UNCHANGED <<config, metadata, system>>

-----------------------------------------------------------------------------
(* The environment                                                         *)

Kill ==
    /\ ~ At("idle")
    /\ kills < MaxKills /\ kills' = kills + 1
    /\ late' \in (IF helper.stage \in {"syncing", "syncBack"} THEN {late, TRUE} ELSE {late})
    /\ Answer("none")
    /\ UNCHANGED <<files, runtime, rules, faults, edits>>

\* The interface is started from the configuration.
Reboot ==
    /\ kills < MaxKills /\ kills' = kills + 1
    /\ runtime' = config.port
    /\ late' = FALSE
    /\ Answer("none")
    /\ UNCHANGED <<files, rules, faults, edits>>

LateRestart ==
    /\ late
    /\ late' = FALSE
    /\ runtime' = config.port
    /\ UNCHANGED <<files, rules, helper, reply, budget>>

EditConfig ==
    /\ edits < MaxEdits /\ edits' = edits + 1
    /\ config' = [config EXCEPT !.text = @ + 1]
    /\ UNCHANGED <<metadata, journal, system, helper, reply, faults, kills>>

\* The operator opens a port that is closed, or closes one that is out of use.
EditRule(p) ==
    /\ edits < MaxEdits /\ edits' = edits + 1
    /\ \/ rules[p] = "none" /\ rules' = [rules EXCEPT ![p] = "other"]
       \/ /\ rules[p] # "none" /\ p \notin {config.port, runtime, metadata}
          /\ At("idle") /\ ~ journal.pending
          /\ rules' = [rules EXCEPT ![p] = "none"]
    /\ UNCHANGED <<files, runtime, late, helper, reply, faults, kills>>

Work ==
    \/ List \/ (\E p \in Ports, fresh \in BOOLEAN : Preflight(p, fresh))
    \/ StartJournal \/ Allow \/ Write \/ WriteFails \/ Switch \/ Sync
    \/ Verify \/ VerifyFails \/ Finish
    \/ MetaBack \/ MetaBackFails \/ ConfigBack \/ SyncBack \/ VerifyBack \/ VerifyBackFails
    \/ RuleBack \/ RuleBackFails \/ UnlinkBack

Failure ==
    \/ PreflightFails \/ StartJournalFails \/ AllowFails \/ SwitchFails \/ SyncFails
    \/ FinishFails \/ ConfigBackFails \/ SyncBackFails \/ UnlinkBackFails

Environment ==
    \/ Kill \/ Reboot \/ LateRestart \/ EditConfig
    \/ \E p \in Ports : EditRule(p)

Next ==
    \/ \E op \in {"list", "port"} : Call(op)
    \/ Work \/ Failure \/ Environment

Spec == Init /\ [][Next]_vars

-----------------------------------------------------------------------------
(* Properties                                                              *)

\* The files, the rule, the journal and the helper of server_port.py hold what they may
\* hold.
TypeOK ==
    /\ config \in Config /\ metadata \in Ports
    /\ runtime \in Ports \cup {Down} /\ late \in BOOLEAN
    /\ rules \in [Ports -> {"none", "ours", "other"}]
    /\ journal \in Journal
    /\ helper \in Helper
    /\ reply \in {"none", "ok", "failed", "rollback failed"}
    /\ faults \in 0..MaxFaults /\ kills \in 0..MaxKills /\ edits \in 0..MaxEdits

\* What a migration can cope with: any number of kills, reboots and edits by hand,
\* or one failure.  A write and its own restoration that fail, or a write that fails
\* and an edit before its rollback, make apply_port believe that it has written
\* nothing; and a rollback that is killed after the removal of the journal failed
\* halfway has no journal to go on from.
Tolerable == faults = 0 \/ (faults = 1 /\ kills = 0 /\ edits = 0)

\* The port that the interface listens on is open in the firewall at every
\* instant: it is opened before anything can move the interface to it, and closed
\* only when the interface was seen on the old one.  Kills, reboots and either
\* failures or edits do not change that.
ServedPortOpen == runtime # Down /\ (faults = 0 \/ edits = 0) => rules[runtime] # "none"

\* Whenever no migration is pending and no helper works, the two files agree and
\* the interface listens on their port: what a failure or an interruption leaves
\* half done is always in the journal.  (And the state is well typed.)
ConsistentAtRest ==
    /\ TypeOK
    /\ At("idle") /\ ~ journal.pending /\ Tolerable
         => config.port = metadata /\ runtime = metadata

\* "On failure it restores both files and the old runtime": an operation that
\* reports the original error, and not that its rollback failed, has left both
\* files and the interface on the port it started from.
FailureRestores ==
    [][At("unlinkBack") /\ ~ helper.recovering /\ reply' = "failed" /\ Tolerable
         => config'.port = helper.old /\ metadata' = helper.old /\ runtime' = helper.old]_vars

\* "Recovery ... does not overwrite": no rollback or recovery, at whatever time it
\* comes, undoes what the operator wrote into the configuration.
EditsSurvive == [][config'.text >= config.text]_vars

=============================================================================
