------------------------- MODULE PortMigrationProofs -------------------------
(***************************************************************************)
(* Theorems about PortMigration, for any ports and any number of failures, *)
(* kills, reboots and edits by hand.                                       *)
(***************************************************************************)
EXTENDS PortMigration, TLAPS

-----------------------------------------------------------------------------
(* Type correctness                                                        *)

\* Every edit adds to the text of the configuration, so the text is no newer than the
\* edits: TypeOK is not inductive without it.
Typed == TypeOK /\ config.text <= edits

Outcomes == {"none", "ok", "failed", "rollback failed"}

\* The helper at rest.
LEMMA IdleTyped ==
    ASSUME NEW p \in Ports
    PROVE  Idle(p) \in Helper
<1>1. [port |-> p, text |-> 0] \in Config
  BY BoundAssumption DEF Config, Text
<1>2. "idle" \in Stages
  BY DEF Stages
<1> QED BY <1>1, <1>2 DEF Idle, Helper

\* The start is typed.
LEMMA InitTyped == Init => Typed
<1> SUFFICES ASSUME Init PROVE Typed
  OBVIOUS
<1>1. config \in Config /\ config.text = 0 /\ config.port \in Ports
  BY BoundAssumption DEF Init, Config, Text
<1>2. helper \in Helper
  BY <1>1, IdleTyped DEF Init
<1>3. /\ faults \in 0..MaxFaults /\ kills \in 0..MaxKills /\ edits \in 0..MaxEdits
      /\ config.text <= edits
  BY <1>1, BoundAssumption DEF Init
<1>4. rules \in [Ports -> {"none", "ours", "other"}]
  BY DEF Init
<1>5. metadata \in Ports /\ runtime \in Ports /\ late \in BOOLEAN /\ reply = "none"
  BY <1>1 DEF Init
<1>6. journal \in Journal
  BY DEF Init, Journal
<1> QED BY <1>1, <1>2, <1>3, <1>4, <1>5, <1>6 DEF Typed, TypeOK

\* Changing the port of a configuration gives a configuration with the same text.
LEMMA ChangedTyped ==
    ASSUME NEW c \in Config, NEW p \in Ports
    PROVE  Changed(c, p) \in Config /\ Changed(c, p).port = p /\ Changed(c, p).text = c.text
BY DEF Changed, Config

\* A journal that is pending has an entry.
LEMMA JournalEntry ==
    ASSUME NEW j \in Journal, j.pending
    PROVE  j.old \in Ports /\ j.new \in Ports /\ j.config \in Config
<1>1. ~ NoJournal.pending
  BY DEF NoJournal
<1>2. j # NoJournal
  BY <1>1
<1>3. j \in [pending : {TRUE}, old : Ports, new : Ports, config : Config]
  BY <1>2 DEF Journal
<1> QED BY <1>3

\* Going on to another stage leaves the rest of the helper as it is.
LEMMA GotoFields ==
    ASSUME Typed, NEW s \in Stages, Goto(s)
    PROVE  helper' \in Helper /\ helper'.stage = s /\ helper' = [helper EXCEPT !.stage = s]
BY DEF Typed, TypeOK, Goto, Helper

\* An answer leaves the helper at rest.
LEMMA AnswerFields ==
    ASSUME Typed, NEW o \in Outcomes, Answer(o)
    PROVE  helper' \in Helper /\ reply' \in Outcomes
<1>1. helper.old \in Ports
  BY DEF Typed, TypeOK, Helper
<1> QED BY <1>1, IdleTyped DEF Answer

\* An exception leaves the helper with its rollback to do.
LEMMA RollBackFields ==
    ASSUME Typed, RollBack
    PROVE  helper' \in Helper /\ reply' \in Outcomes
BY DEF Typed, TypeOK, RollBack, Helper, Stages, Backward, Outcomes

\* One while undoing leaves it at rest, or with the next step.
LEMMA UndoFailedFields ==
    ASSUME Typed, NEW s \in Stages, UndoFailed(s)
    PROVE  helper' \in Helper /\ reply' \in Outcomes
<1>1. CASE helper.recovering
  BY <1>1, AnswerFields DEF UndoFailed, Outcomes
<1>2. CASE ~ helper.recovering
  <2>1. helper \in Helper /\ reply \in Outcomes
    BY DEF Typed, TypeOK, Outcomes
  <2> QED BY <1>2, <2>1 DEF UndoFailed, Helper
<1> QED BY <1>1, <1>2

\* A failure stays within its bound.
LEMMA FaultFields ==
    ASSUME Typed, Fault
    PROVE  faults' \in 0..MaxFaults /\ UNCHANGED <<kills, edits>>
<1>1. faults \in 0..MaxFaults
  BY DEF Typed, TypeOK
<1> QED BY <1>1, BoundAssumption DEF Fault

\* A restart that failed leaves the interface as it was, or down.
LEMMA FailedRestartTyped ==
    ASSUME Typed, FailedRestart
    PROVE  runtime' \in Ports \cup {Down} /\ late' \in BOOLEAN
<1>1. late' = late \/ late' = TRUE
  BY DEF FailedRestart
<1> QED BY <1>1 DEF Typed, TypeOK, FailedRestart

\* The steps of the helper that do not touch the configuration.
LEMMA Retyped ==
    ASSUME Typed, helper' \in Helper, reply' \in Outcomes,
           config' \in Config, config'.text = config.text, metadata' \in Ports,
           journal' \in Journal, rules' \in [Ports -> {"none", "ours", "other"}],
           runtime' \in Ports \cup {Down}, late' \in BOOLEAN,
           faults' \in 0..MaxFaults, UNCHANGED <<kills, edits>>
    PROVE  Typed'
BY DEF Typed, TypeOK, Outcomes

\* No step leaves the types.
LEMMA NextTyped == Typed /\ [Next]_vars => Typed'
<1> SUFFICES ASSUME Typed, [Next]_vars PROVE Typed'
  OBVIOUS
<1> USE DEF files, system, budget
<1>0. /\ helper \in Helper /\ config \in Config /\ metadata \in Ports /\ journal \in Journal
      /\ rules \in [Ports -> {"none", "ours", "other"}]
      /\ runtime \in Ports \cup {Down} /\ late \in BOOLEAN /\ reply \in Outcomes
      /\ faults \in 0..MaxFaults /\ kills \in 0..MaxKills /\ edits \in 0..MaxEdits
      /\ config.text \in 0..MaxEdits /\ config.text <= edits
      /\ helper.old \in Ports /\ helper.new \in Ports /\ helper.config \in Config
      /\ config.port \in Ports /\ metadata \in Ports
  BY DEF Typed, TypeOK, Outcomes, Helper, Config, Text
<1>1. ASSUME NEW op \in {"list", "port"}, Call(op) PROVE Typed'
  <2>1. helper' \in Helper
    <3>1. CASE journal.pending
      <4>1. journal.old \in Ports /\ journal.new \in Ports /\ journal.config \in Config
        BY <1>0, <3>1, JournalEntry
      <4> QED BY <1>1, <1>0, <3>1, <4>1 DEF Call, Helper, Stages, Backward
    <3>2. CASE ~ journal.pending
      BY <1>1, <1>0, <3>2 DEF Call, Helper, Stages, Forward
    <3> QED BY <3>1, <3>2
  <2> QED BY <1>1, <1>0, <2>1, Retyped DEF Call, Outcomes
<1>2. ASSUME List PROVE Typed'
  BY <1>2, <1>0, Retyped, AnswerFields DEF List, Outcomes
<1>3. ASSUME NEW p \in Ports, NEW fresh \in BOOLEAN, Preflight(p, fresh) PROVE Typed'
  <2>1. CASE Passes(p) /\ fresh
    <3>1. helper' \in Helper
      BY <1>3, <1>0, <2>1 DEF Preflight, Helper, Stages, Forward
    <3> QED BY <1>3, <1>0, <2>1, <3>1, Retyped DEF Preflight
  <2>2. CASE ~ (Passes(p) /\ fresh)
    BY <1>3, <1>0, <2>2, Retyped, AnswerFields DEF Preflight, Outcomes
  <2> QED BY <2>1, <2>2
<1>4. ASSUME PreflightFails PROVE Typed'
  BY <1>4, <1>0, Retyped, AnswerFields, FaultFields DEF PreflightFails, Stages, Forward,
     Backward, Outcomes
<1>5. ASSUME StartJournal PROVE Typed'
  BY <1>5, <1>0, Retyped, GotoFields DEF StartJournal, Entry, Helper, Journal, Stages,
     Forward, Backward, Outcomes
<1>6. ASSUME StartJournalFails PROVE Typed'
  <2>1. Entry \in Journal
    BY <1>0 DEF Entry, Journal
  <2> QED BY <1>6, <1>0, <2>1, Retyped, AnswerFields, FaultFields DEF StartJournalFails,
             Outcomes
<1>7. ASSUME Allow PROVE Typed'
  <2>1. helper' \in Helper
    BY <1>7, <1>0 DEF Allow, Helper, Stages, Forward
  <2> QED BY <1>7, <1>0, <2>1, Retyped DEF Allow
<1>8. ASSUME AllowFails PROVE Typed'
  BY <1>8, <1>0, Retyped, RollBackFields, FaultFields DEF AllowFails, Stages, Forward,
     Backward, Outcomes
<1>9. ASSUME Write PROVE Typed'
  <2>1. helper' \in Helper
    BY <1>9, <1>0 DEF Write, Helper, Stages, Forward
  <2> QED BY <1>9, <1>0, <2>1, Retyped, ChangedTyped DEF Write
<1>10. ASSUME WriteFails PROVE Typed'
  <2>1. faults' \in 0..MaxFaults /\ UNCHANGED <<kills, edits>>
    BY <1>10, <1>0, FaultFields DEF WriteFails
  <2>2. config' \in Config /\ config'.text = config.text
    <3>1. /\ Changed(config, helper.new) \in Config
          /\ Changed(config, helper.new).text = config.text
      BY <1>0, ChangedTyped
    <3>2. config' = config \/ config' = Changed(config, helper.new)
      BY <1>10 DEF WriteFails
    <3> QED BY <1>0, <3>1, <3>2
  <2> QED BY <1>10, <1>0, <2>1, <2>2, Retyped, RollBackFields DEF WriteFails
<1>11. ASSUME Switch PROVE Typed'
  <2>1. helper' \in Helper
    BY <1>11, <1>0 DEF Switch, Helper, Stages, Forward
  <2> QED BY <1>11, <1>0, <2>1, Retyped DEF Switch
<1>12. ASSUME SwitchFails PROVE Typed'
  <2>1. faults' \in 0..MaxFaults /\ UNCHANGED <<kills, edits>>
    BY <1>12, <1>0, BoundAssumption DEF SwitchFails, Fault
  <2> QED BY <1>12, <1>0, <2>1, Retyped, RollBackFields DEF SwitchFails
<1>13. ASSUME Sync PROVE Typed'
  BY <1>13, <1>0, Retyped, GotoFields DEF Sync, Stages, Forward, Backward, Outcomes
<1>14. ASSUME SyncFails PROVE Typed'
  BY <1>14, <1>0, Retyped, RollBackFields, FaultFields, FailedRestartTyped DEF SyncFails,
     Stages, Forward, Backward, Outcomes
<1>15. ASSUME Verify PROVE Typed'
  BY <1>15, <1>0, Retyped, GotoFields DEF Verify, Stages, Forward, Backward, Outcomes
<1>16. ASSUME VerifyFails PROVE Typed'
  BY <1>16, <1>0, Retyped, RollBackFields, FaultFields DEF VerifyFails, Stages, Forward,
     Backward, Outcomes
<1>17. ASSUME Finish PROVE Typed'
  BY <1>17, <1>0, Retyped, AnswerFields DEF Finish, Journal, Stages, Forward, Backward,
     Outcomes
<1>18. ASSUME FinishFails PROVE Typed'
  BY <1>18, <1>0, Retyped, RollBackFields, FaultFields DEF FinishFails, Journal, Stages,
     Forward, Backward, Outcomes
<1>19. ASSUME MetaBack PROVE Typed'
  BY <1>19, <1>0, Retyped, GotoFields DEF MetaBack, Stages, Forward, Backward, Outcomes
<1>20. ASSUME MetaBackFails PROVE Typed'
  <2>1. faults' \in 0..MaxFaults /\ UNCHANGED <<kills, edits>>
    BY <1>20, <1>0, BoundAssumption DEF MetaBackFails, Fault
  <2> QED BY <1>20, <1>0, <2>1, Retyped, UndoFailedFields DEF MetaBackFails, Stages, Backward
<1>21. ASSUME ConfigBack PROVE Typed'
  <2>1. config' \in Config /\ config'.text = config.text
    BY <1>21, <1>0, ChangedTyped DEF ConfigBack
  <2>2. helper' \in Helper
    BY <1>21, GotoFields DEF ConfigBack, Stages, Backward
  <2> QED BY <1>21, <1>0, <2>1, <2>2, Retyped DEF ConfigBack
<1>22. ASSUME ConfigBackFails PROVE Typed'
  <2>1. config' \in Config /\ config'.text = config.text
    <3>1. Changed(helper.config, helper.new).text = helper.config.text
      BY <1>0, ChangedTyped
    <3>2. \/ config' = config
          \/ config = Changed(helper.config, helper.new) /\ config' = helper.config
      BY <1>22 DEF ConfigBackFails
    <3> QED BY <1>0, <3>1, <3>2
  <2>2. helper' \in Helper /\ reply' \in Outcomes
    BY <1>22, UndoFailedFields DEF ConfigBackFails, Stages, Backward
  <2> QED BY <1>22, <1>0, <2>1, <2>2, Retyped, FaultFields DEF ConfigBackFails
<1>23. ASSUME SyncBack PROVE Typed'
  BY <1>23, <1>0, Retyped, GotoFields DEF SyncBack, Stages, Forward, Backward, Outcomes
<1>24. ASSUME SyncBackFails PROVE Typed'
  BY <1>24, <1>0, Retyped, UndoFailedFields, FaultFields, FailedRestartTyped
     DEF SyncBackFails, Stages, Forward, Backward, Outcomes
<1>25. ASSUME VerifyBack PROVE Typed'
  BY <1>25, <1>0, Retyped, GotoFields DEF VerifyBack, Stages, Forward, Backward, Outcomes
<1>26. ASSUME VerifyBackFails PROVE Typed'
  BY <1>26, <1>0, Retyped, UndoFailedFields, FaultFields DEF VerifyBackFails, Stages,
     Forward, Backward, Outcomes
<1>27. ASSUME RuleBack PROVE Typed'
  BY <1>27, <1>0, Retyped, GotoFields DEF RuleBack, Stages, Forward, Backward, Outcomes
<1>28. ASSUME RuleBackFails PROVE Typed'
  BY <1>28, <1>0, Retyped, UndoFailedFields, FaultFields DEF RuleBackFails, Stages, Forward,
     Backward, Outcomes
<1>29. ASSUME UnlinkBack PROVE Typed'
  <2>1. CASE helper.failures \/ ~ journal.pending
    BY <1>29, <1>0, <2>1, Retyped, AnswerFields DEF UnlinkBack, Outcomes
  <2>2. CASE ~ (helper.failures \/ ~ journal.pending) /\ helper.recovering
    <3>1. Idle(helper.old) \in Helper /\ helper.op \in {"none", "list", "port"}
      BY <1>0, IdleTyped DEF Helper
    <3>2. helper' \in Helper
      BY <1>29, <2>2, <3>1 DEF UnlinkBack, Helper, Stages, Forward
    <3> QED BY <1>29, <1>0, <2>2, <3>2, Retyped DEF UnlinkBack, Journal
  <2>3. CASE ~ (helper.failures \/ ~ journal.pending) /\ ~ helper.recovering
    BY <1>29, <1>0, <2>3, Retyped, AnswerFields DEF UnlinkBack, Outcomes, Journal
  <2> QED BY <2>1, <2>2, <2>3
<1>30. ASSUME UnlinkBackFails PROVE Typed'
  BY <1>30, <1>0, Retyped, AnswerFields, FaultFields DEF UnlinkBackFails, Journal, Stages,
     Forward, Backward, Outcomes
<1>31. ASSUME Kill PROVE Typed'
  <2>1. helper' \in Helper /\ reply' \in Outcomes
    BY <1>31, AnswerFields DEF Kill, Outcomes
  <2>2. late' \in BOOLEAN
    BY <1>31, <1>0 DEF Kill
  <2>3. kills' \in 0..MaxKills
    BY <1>31, <1>0, BoundAssumption DEF Kill
  <2> QED BY <1>31, <2>1, <2>2, <2>3 DEF Kill, Typed, TypeOK, Outcomes
<1>32. ASSUME Reboot PROVE Typed'
  <2>1. helper' \in Helper /\ reply' \in Outcomes
    BY <1>32, AnswerFields DEF Reboot, Outcomes
  <2>2. kills' \in 0..MaxKills
    BY <1>32, <1>0, BoundAssumption DEF Reboot
  <2> QED BY <1>32, <1>0, <2>1, <2>2 DEF Reboot, Typed, TypeOK, Outcomes
<1>33. ASSUME LateRestart PROVE Typed'
  BY <1>33, <1>0, Retyped DEF LateRestart
<1>34. ASSUME EditConfig PROVE Typed'
  <2>1. edits' = edits + 1 /\ edits' \in 0..MaxEdits /\ config.text \in Nat /\ edits \in Nat
    BY <1>34, <1>0, BoundAssumption DEF EditConfig
  <2>2. config'.text = config.text + 1 /\ config'.port = config.port
        /\ config' = [port |-> config.port, text |-> config.text + 1]
    BY <1>34, <1>0 DEF EditConfig, Config
  <2>3. config'.text <= edits' /\ config'.text \in Text
    BY <2>1, <2>2, BoundAssumption DEF Typed, Text
  <2>4. config' \in Config
    BY <1>0, <2>2, <2>3 DEF Config
  <2> QED BY <1>34, <2>1, <2>3, <2>4 DEF EditConfig, Typed, TypeOK
<1>35. ASSUME NEW p \in Ports, EditRule(p) PROVE Typed'
  <2>1. edits' = edits + 1 /\ edits' \in 0..MaxEdits /\ config.text <= edits'
    BY <1>35, <1>0, BoundAssumption DEF EditRule
  <2>2. rules' \in [Ports -> {"none", "ours", "other"}]
    BY <1>35, <1>0 DEF EditRule
  <2> QED BY <1>35, <2>1, <2>2 DEF EditRule, Typed, TypeOK
<1>36. ASSUME UNCHANGED vars PROVE Typed'
  BY <1>36 DEF vars, Typed, TypeOK
<1> QED BY <1>1, <1>2, <1>3, <1>4, <1>5, <1>6, <1>7, <1>8, <1>9, <1>10, <1>11, <1>12,
    <1>13, <1>14, <1>15, <1>16, <1>17, <1>18, <1>19, <1>20, <1>21, <1>22, <1>23, <1>24,
    <1>25, <1>26, <1>27, <1>28, <1>29, <1>30, <1>31, <1>32, <1>33, <1>34, <1>35, <1>36
    DEF Next, Work, Failure, Environment

\* Every variable keeps its type in every reachable state.
LEMMA AlwaysTyped == Spec => []Typed
BY InitTyped, NextTyped, PTL DEF Spec

-----------------------------------------------------------------------------
(* The inductive invariant                                                 *)

\* A helper that has decided on a change, or undoes one, and the file it writes.
Busy == helper.stage \notin {"idle", "planning"}
Target == Changed(helper.config, helper.new)

\* Not both a failure and an edit by hand.
Clean == faults = 0 \/ edits = 0

\* What the journal and the helper's memory are worth: they name two ports, the old one is
\* that of the configuration they keep and is open, and a change in progress without a
\* journal has seen a failure.
Recorded ==
    /\ helper.stage \in {"planning", "journaling"} => ~ journal.pending
    /\ journal.pending =>
          /\ journal.old # journal.new /\ journal.config.port = journal.old
          /\ rules[journal.old] # "none"
    /\ Busy =>
          /\ helper.old # helper.new /\ helper.config.port = helper.old
          /\ rules[helper.old] # "none"
          /\ journal.pending => journal = Entry
          /\ ~ journal.pending /\ ~ At("journaling") => faults > 0 /\ ~ helper.recovering
    /\ helper.stage \in Forward \cup {"idle"} => ~ helper.recovering /\ ~ helper.failures
    /\ helper.recovering => Busy /\ ~ helper.failures
    /\ ~ At("idle") => reply = "none"

\* How far a change has come.
Ahead ==
    /\ helper.stage \in {"switching", "syncing", "verifying", "finishing"} =>
          helper.wrote /\ config.port = helper.new
    /\ helper.stage \in {"syncing", "verifying", "finishing"} =>
          helper.switched /\ metadata = helper.new
    /\ At("finishing") => runtime = helper.new

\* The helper is not aware of a change of the configuration.
Unwritten ==
    /\ ~ helper.recovering /\ ~ helper.wrote
    /\ helper.stage \in {"journaling", "allowing", "writing", "metaBack", "configBack"}

\* A write that took effect and failed, which the rollback recognises by its contents.
Overdone == config = Target /\ faults > 0

\* How far the rollback or the recovery has come.
Returning ==
    /\ At("verifyBack") => runtime = config.port
    /\ helper.stage \in {"ruleBack", "unlinkBack"} /\ helper.recovering =>
          runtime = helper.old /\ config.port = helper.old
    /\ helper.stage \in Backward \ {"metaBack"} /\ ~ helper.failures
          /\ (helper.recovering \/ faults <= 1) => metadata = helper.old
    /\ Busy /\ ~ helper.recovering /\ ~ helper.switched /\ faults <= 1 => metadata = helper.old
    /\ edits = 0 /\ Busy /\ ~ helper.recovering =>
          /\ config \in {helper.config, Target}
          /\ helper.stage \in {"syncBack", "verifyBack"} => config.port = helper.old

\* The ports that the interface may come to listen on are open, and the port that a
\* rollback closes is not one of them.
Reachable ==
    /\ At("writing") => rules[helper.new] # "none"
    /\ Clean =>
          /\ rules[config.port] # "none"
          /\ runtime # Down => rules[runtime] # "none"
          /\ Unwritten => (config.port # helper.new /\ runtime # helper.new) \/ Overdone
          /\ At("ruleBack") /\ ~ helper.failures =>
                config.port # helper.new /\ runtime # helper.new

\* What a migration can cope with leaves the files and the interface on one port, wherever
\* nothing is pending, and brings them back to the old port wherever it is undone.
Restorable ==
    Tolerable =>
        /\ helper.stage \in {"idle", "planning", "journaling"} /\ ~ journal.pending =>
              config.port = metadata /\ runtime = metadata
        /\ Unwritten => (config.port = helper.old /\ runtime = helper.old) \/ Overdone
        /\ helper.stage \in {"ruleBack", "unlinkBack"} /\ ~ helper.failures =>
              config.port = helper.old /\ runtime = helper.old
        /\ Busy /\ ~ At("journaling") /\ ~ journal.pending => ~ helper.failures

Inductive == Recorded /\ Ahead /\ Returning /\ Reachable /\ Restorable

\* The start satisfies it.
LEMMA InitInductive == Init => Inductive
<1> SUFFICES ASSUME Init PROVE Inductive
  OBVIOUS
<1>1. /\ helper.stage = "idle" /\ ~ helper.recovering /\ ~ helper.failures
      /\ ~ Busy /\ ~ Unwritten /\ ~ journal.pending
      /\ \A s \in Forward \cup Backward : helper.stage # s
  BY DEF Init, Idle, Busy, Unwritten, NoJournal, Forward, Backward
<1>2. rules[config.port] = "other" /\ runtime = config.port /\ metadata = config.port
  BY DEF Init, Config
<1> QED BY <1>1, <1>2 DEF Inductive, Recorded, Ahead, Returning, Reachable, Restorable, At,
    Forward, Backward

\* Nothing is pending without a journal.
LEMMA NothingPending == ~ NoJournal.pending
BY DEF NoJournal

\* A journal entry is what it names.
LEMMA JournalIs ==
    ASSUME NEW j \in Journal, j.pending
    PROVE  j = [pending |-> TRUE, old |-> j.old, new |-> j.new, config |-> j.config]
<1>1. j # NoJournal
  BY NothingPending
<1>2. j \in [pending : {TRUE}, old : Ports, new : Ports, config : Config]
  BY <1>1 DEF Journal
<1> QED BY <1>2

\* What a step of the helper leaves alone: what it works on, and what it has done.
Keeps ==
    /\ helper'.old = helper.old /\ helper'.new = helper.new /\ helper'.config = helper.config
    /\ helper'.recovering = helper.recovering
Marks ==
    /\ helper'.opened = helper.opened /\ helper'.wrote = helper.wrote
    /\ helper'.switched = helper.switched

\* The helper goes on to another stage.
LEMMA GotoView ==
    ASSUME Typed, NEW s, Goto(s)
    PROVE  helper'.stage = s /\ Keeps /\ Marks /\ helper'.failures = helper.failures
BY DEF Typed, TypeOK, Helper, Goto, Keeps, Marks

\* The helper answers.
LEMMA AnswerView ==
    ASSUME Typed, NEW o, Answer(o)
    PROVE  /\ helper'.stage = "idle" /\ ~ helper'.recovering /\ ~ helper'.failures
           /\ reply' = o
BY DEF Typed, TypeOK, Helper, Answer, Idle

\* The helper begins its rollback.
LEMMA RollBackView ==
    ASSUME Typed, RollBack
    PROVE  /\ helper'.stage = "metaBack" /\ Keeps /\ Marks
           /\ helper'.failures = helper.failures /\ reply' = reply
BY DEF Typed, TypeOK, Helper, RollBack, Keeps, Marks

\* A step of the rollback or of the recovery fails.
LEMMA UndoFailedView ==
    ASSUME Typed, NEW s, UndoFailed(s)
    PROVE  \/ /\ helper.recovering
              /\ helper'.stage = "idle" /\ ~ helper'.recovering /\ ~ helper'.failures
           \/ /\ ~ helper.recovering
              /\ helper'.stage = s /\ Keeps /\ Marks /\ helper'.failures /\ reply' = reply
<1>1. CASE helper.recovering
  BY <1>1, AnswerView DEF UndoFailed
<1>2. CASE ~ helper.recovering
  BY <1>2 DEF Typed, TypeOK, Helper, UndoFailed, Keeps, Marks
<1> QED BY <1>1, <1>2

\* Every step keeps the invariant.
LEMMA NextInductive == Typed /\ Inductive /\ [Next]_vars => Inductive'
<1> SUFFICES ASSUME Typed, Inductive, [Next]_vars PROVE Inductive'
  OBVIOUS
<1> USE DEF files, system, budget
<1>0. /\ helper \in Helper /\ config \in Config /\ metadata \in Ports /\ journal \in Journal
      /\ rules \in [Ports -> {"none", "ours", "other"}] /\ runtime \in Ports \cup {Down}
      /\ helper.old \in Ports /\ helper.new \in Ports /\ helper.config \in Config
      /\ config.port \in Ports
      /\ faults \in Nat /\ kills \in Nat /\ edits \in Nat
  <2>1. faults \in Nat /\ kills \in Nat /\ edits \in Nat
    <3>1. faults \in 0..MaxFaults /\ kills \in 0..MaxKills /\ edits \in 0..MaxEdits
      BY DEF Typed, TypeOK
    <3> QED BY <3>1, BoundAssumption
  <2>2. helper \in Helper /\ config \in Config
    BY DEF Typed, TypeOK
  <2>3. /\ helper.old \in Ports /\ helper.new \in Ports /\ helper.config \in Config
        /\ config.port \in Ports
    BY <2>2 DEF Helper, Config
  <2> QED BY <2>1, <2>2, <2>3 DEF Typed, TypeOK
<1>1. ASSUME NEW op \in {"list", "port"}, Call(op) PROVE Inductive'
  <2>1. CASE journal.pending
    <3>1. /\ helper.stage = "idle"
          /\ helper'.stage = "metaBack" /\ helper'.recovering
          /\ helper'.failures = helper.failures
          /\ helper'.old = journal.old /\ helper'.new = journal.new
          /\ helper'.config = journal.config
          /\ reply' = "none"
          /\ \/ journal = [pending |-> TRUE, old |-> journal.old, new |-> journal.new,
                           config |-> journal.config]
          /\ UNCHANGED <<config, metadata, journal, runtime, rules, faults, kills, edits>>
      <4>1. /\ helper.stage = "idle"
        BY <1>1, <2>1, <1>0, JournalEntry, JournalIs DEF Call, At, Helper
      <4>2. /\ helper'.stage = "metaBack" /\ helper'.recovering
            /\ helper'.failures = helper.failures
        BY <1>1, <2>1, <1>0, JournalEntry, JournalIs DEF Call, At, Helper
      <4>3. /\ helper'.old = journal.old /\ helper'.new = journal.new
            /\ helper'.config = journal.config
        BY <1>1, <2>1, <1>0, JournalEntry, JournalIs DEF Call, At, Helper
      <4>4. /\ reply' = "none"
        BY <1>1, <2>1, <1>0, JournalEntry, JournalIs DEF Call, At, Helper
      <4>5. /\ journal = [pending |-> TRUE, old |-> journal.old, new |-> journal.new,
                             config |-> journal.config]
        BY <1>1, <2>1, <1>0, JournalEntry, JournalIs DEF Call, At, Helper
      <4>6. /\ UNCHANGED <<config, metadata, journal, runtime, rules, faults, kills, edits>>
        BY <1>1, <2>1, <1>0, JournalEntry, JournalIs DEF Call, At, Helper
      <4> QED BY <4>1, <4>2, <4>3, <4>4, <4>5, <4>6
    <3>2. Recorded'
      BY <1>0, <3>1, <2>1 DEF Inductive, Recorded, Busy, Entry, At, Keeps, Forward, Backward
    <3>3. Ahead'
      BY <1>0, <3>1, <2>1 DEF Inductive, Recorded, Ahead, At, Keeps, Marks
    <3>4. Returning'
      BY <1>0, <3>1, <2>1 DEF Inductive, Recorded, Ahead, Returning, Busy, Target, Changed,
         At, Keeps, Marks, Forward, Backward, Restorable, Tolerable, Unwritten, Overdone
    <3>5. Reachable'
      BY <1>0, <3>1, <2>1 DEF Inductive, Recorded, Ahead, Returning, Reachable, Clean,
         Unwritten, Overdone, Target, Busy, At, Keeps, Marks, Forward, Backward
    <3>6. Restorable'
      BY <1>0, <3>1, <2>1 DEF Inductive, Recorded, Ahead, Returning, Restorable, Tolerable,
         Unwritten, Overdone, Target, Busy, At, Keeps, Marks, Forward, Backward
    <3> QED BY <3>2, <3>3, <3>4, <3>5, <3>6 DEF Inductive
  <2>2. CASE ~ journal.pending
    <3>1. /\ helper.stage = "idle"
          /\ helper'.stage = "planning" /\ helper'.recovering = helper.recovering
          /\ helper'.failures = helper.failures
          /\ reply' = "none"
          /\ UNCHANGED <<config, metadata, journal, runtime, rules, faults, kills, edits>>
      <4>1. /\ helper.stage = "idle"
        BY <1>1, <2>2, <1>0 DEF Call, At, Helper
      <4>2. /\ helper'.stage = "planning" /\ helper'.recovering = helper.recovering
        BY <1>1, <2>2, <1>0 DEF Call, At, Helper
      <4>3. /\ helper'.failures = helper.failures
        BY <1>1, <2>2, <1>0 DEF Call, At, Helper
      <4>4. /\ reply' = "none"
        BY <1>1, <2>2, <1>0 DEF Call, At, Helper
      <4>5. /\ UNCHANGED <<config, metadata, journal, runtime, rules, faults, kills, edits>>
        BY <1>1, <2>2, <1>0 DEF Call, At, Helper
      <4> QED BY <4>1, <4>2, <4>3, <4>4, <4>5
    <3>2. Recorded'
      BY <1>0, <3>1, <2>2 DEF Inductive, Recorded, Busy, Entry, At, Keeps, Forward, Backward
    <3>3. Ahead'
      BY <1>0, <3>1, <2>2 DEF Inductive, Recorded, Ahead, At, Keeps, Marks
    <3>4. Returning'
      BY <1>0, <3>1, <2>2 DEF Inductive, Recorded, Ahead, Returning, Busy, Target, Changed,
         At, Keeps, Marks, Forward, Backward, Restorable, Tolerable, Unwritten, Overdone
    <3>5. Reachable'
      BY <1>0, <3>1, <2>2 DEF Inductive, Recorded, Ahead, Returning, Reachable, Clean,
         Unwritten, Overdone, Target, Busy, At, Keeps, Marks, Forward, Backward
    <3>6. Restorable'
      BY <1>0, <3>1, <2>2 DEF Inductive, Recorded, Ahead, Returning, Restorable, Tolerable,
         Unwritten, Overdone, Target, Busy, At, Keeps, Marks, Forward, Backward
    <3> QED BY <3>2, <3>3, <3>4, <3>5, <3>6 DEF Inductive
  <2> QED BY <2>1, <2>2
<1>2. ASSUME List PROVE Inductive'
  <2>1. /\ helper.stage = "planning"
        /\ helper'.stage = "idle" /\ ~ helper'.recovering /\ ~ helper'.failures
        /\ UNCHANGED <<config, metadata, journal, runtime, rules, faults, kills, edits>>
    BY <1>2, <1>0, AnswerView DEF List, At
  <2>2. Recorded'
    BY <1>0, <2>1 DEF Inductive, Recorded, Busy, Entry, At, Keeps, Forward, Backward
  <2>3. Ahead'
    BY <1>0, <2>1 DEF Inductive, Recorded, Ahead, At, Keeps, Marks
  <2>4. Returning'
    BY <1>0, <2>1 DEF Inductive, Recorded, Ahead, Returning, Busy, Target, Changed, At,
       Keeps, Marks, Forward, Backward, Restorable, Tolerable, Unwritten, Overdone
  <2>5. Reachable'
    BY <1>0, <2>1 DEF Inductive, Recorded, Ahead, Returning, Reachable, Clean, Unwritten,
       Overdone, Target, Busy, At, Keeps, Marks, Forward, Backward
  <2>6. Restorable'
    BY <1>0, <2>1 DEF Inductive, Recorded, Ahead, Returning, Restorable, Tolerable,
       Unwritten, Overdone, Target, Busy, At, Keeps, Marks, Forward, Backward
  <2> QED BY <2>2, <2>3, <2>4, <2>5, <2>6 DEF Inductive
<1>3. ASSUME NEW p \in Ports, NEW fresh \in BOOLEAN, Preflight(p, fresh) PROVE Inductive'
  <2>1. CASE Passes(p) /\ fresh
    <3>1. /\ helper.stage = "planning"
          /\ helper'.stage = "journaling" /\ Marks /\ helper'.failures = helper.failures
          /\ helper'.old = helper.old /\ helper'.new = p /\ helper'.config = config
          /\ helper'.recovering = helper.recovering
          /\ helper.old # p /\ runtime # p /\ rules[helper.old] # "none" /\ rules[p] = "none"
          /\ config.port = helper.old /\ metadata = helper.old
          /\ UNCHANGED <<config, metadata, journal, runtime, rules, faults, kills, edits, reply>>
      BY <1>3, <2>1, <1>0 DEF Preflight, At, Helper, Passes, Marks
    <3>2. Recorded'
      BY <1>0, <3>1, <2>1 DEF Inductive, Recorded, Busy, Entry, At, Keeps, Forward, Backward
    <3>3. Ahead'
      BY <1>0, <3>1, <2>1 DEF Inductive, Recorded, Ahead, At, Keeps, Marks
    <3>4. Returning'
      BY <1>0, <3>1, <2>1 DEF Inductive, Recorded, Ahead, Returning, Busy, Target, Changed,
         At, Keeps, Marks, Forward, Backward, Restorable, Tolerable, Unwritten, Overdone
    <3>5. Reachable'
      BY <1>0, <3>1, <2>1 DEF Inductive, Recorded, Ahead, Returning, Reachable, Clean,
         Unwritten, Overdone, Target, Busy, At, Keeps, Marks, Forward, Backward
    <3>6. Restorable'
      BY <1>0, <3>1, <2>1 DEF Inductive, Recorded, Ahead, Returning, Restorable, Tolerable,
         Unwritten, Overdone, Target, Busy, At, Keeps, Marks, Forward, Backward
    <3> QED BY <3>2, <3>3, <3>4, <3>5, <3>6 DEF Inductive
  <2>2. CASE ~ (Passes(p) /\ fresh)
    <3>1. /\ helper.stage = "planning"
          /\ helper'.stage = "idle" /\ ~ helper'.recovering /\ ~ helper'.failures
          /\ UNCHANGED <<config, metadata, journal, runtime, rules, faults, kills, edits>>
      BY <1>3, <2>2, <1>0, AnswerView DEF Preflight, At
    <3>2. Recorded'
      BY <1>0, <3>1, <2>2 DEF Inductive, Recorded, Busy, Entry, At, Keeps, Forward, Backward
    <3>3. Ahead'
      BY <1>0, <3>1, <2>2 DEF Inductive, Recorded, Ahead, At, Keeps, Marks
    <3>4. Returning'
      BY <1>0, <3>1, <2>2 DEF Inductive, Recorded, Ahead, Returning, Busy, Target, Changed,
         At, Keeps, Marks, Forward, Backward, Restorable, Tolerable, Unwritten, Overdone
    <3>5. Reachable'
      BY <1>0, <3>1, <2>2 DEF Inductive, Recorded, Ahead, Returning, Reachable, Clean,
         Unwritten, Overdone, Target, Busy, At, Keeps, Marks, Forward, Backward
    <3>6. Restorable'
      BY <1>0, <3>1, <2>2 DEF Inductive, Recorded, Ahead, Returning, Restorable, Tolerable,
         Unwritten, Overdone, Target, Busy, At, Keeps, Marks, Forward, Backward
    <3> QED BY <3>2, <3>3, <3>4, <3>5, <3>6 DEF Inductive
  <2> QED BY <2>1, <2>2
<1>4. ASSUME PreflightFails PROVE Inductive'
  <2>1. /\ helper.stage = "planning"
        /\ helper'.stage = "idle" /\ ~ helper'.recovering /\ ~ helper'.failures
        /\ faults' = faults + 1
        /\ UNCHANGED <<config, metadata, journal, runtime, rules, kills, edits>>
    BY <1>4, <1>0, AnswerView DEF PreflightFails, At, Fault
  <2>2. Recorded'
    BY <1>0, <2>1 DEF Inductive, Recorded, Busy, Entry, At, Keeps, Forward, Backward
  <2>3. Ahead'
    BY <1>0, <2>1 DEF Inductive, Recorded, Ahead, At, Keeps, Marks
  <2>4. Returning'
    BY <1>0, <2>1 DEF Inductive, Recorded, Ahead, Returning, Busy, Target, Changed, At,
       Keeps, Marks, Forward, Backward, Restorable, Tolerable, Unwritten, Overdone
  <2>5. Reachable'
    BY <1>0, <2>1 DEF Inductive, Recorded, Ahead, Returning, Reachable, Clean, Unwritten,
       Overdone, Target, Busy, At, Keeps, Marks, Forward, Backward
  <2>6. Restorable'
    BY <1>0, <2>1 DEF Inductive, Recorded, Ahead, Returning, Restorable, Tolerable,
       Unwritten, Overdone, Target, Busy, At, Keeps, Marks, Forward, Backward
  <2> QED BY <2>2, <2>3, <2>4, <2>5, <2>6 DEF Inductive
<1>5. ASSUME StartJournal PROVE Inductive'
  <2>1. /\ helper.stage = "journaling"
        /\ helper'.stage = "allowing" /\ Keeps /\ Marks /\ helper'.failures = helper.failures
        /\ journal' = Entry /\ Entry.pending /\ Entry.old = helper.old
        /\ Entry.config = helper.config
        /\ UNCHANGED <<config, metadata, runtime, rules, faults, kills, edits, reply>>
    BY <1>5, <1>0, GotoView DEF StartJournal, At, Entry
  <2>2. Recorded'
    BY <1>0, <2>1 DEF Inductive, Recorded, Busy, Entry, At, Keeps, Forward, Backward
  <2>3. Ahead'
    BY <1>0, <2>1 DEF Inductive, Recorded, Ahead, At, Keeps, Marks
  <2>4. Returning'
    BY <1>0, <2>1 DEF Inductive, Recorded, Ahead, Returning, Busy, Target, Changed, At,
       Keeps, Marks, Forward, Backward, Restorable, Tolerable, Unwritten, Overdone
  <2>5. Reachable'
    BY <1>0, <2>1 DEF Inductive, Recorded, Ahead, Returning, Reachable, Clean, Unwritten,
       Overdone, Target, Busy, At, Keeps, Marks, Forward, Backward
  <2>6. Restorable'
    BY <1>0, <2>1 DEF Inductive, Recorded, Ahead, Returning, Restorable, Tolerable,
       Unwritten, Overdone, Target, Busy, At, Keeps, Marks, Forward, Backward
  <2> QED BY <2>2, <2>3, <2>4, <2>5, <2>6 DEF Inductive
<1>6. ASSUME StartJournalFails PROVE Inductive'
  <2>1. /\ helper.stage = "journaling"
        /\ helper'.stage = "idle" /\ ~ helper'.recovering /\ ~ helper'.failures
        /\ faults' = faults + 1
        /\ journal' \in {journal, Entry}
        /\ \/ Entry.pending /\ Entry.old = helper.old /\ Entry.new = helper.new
           /\ Entry.config = helper.config
        /\ UNCHANGED <<config, metadata, runtime, rules, kills, edits>>
    BY <1>6, <1>0, AnswerView DEF StartJournalFails, At, Fault, Entry
  <2>2. Recorded'
    BY <1>0, <2>1 DEF Inductive, Recorded, Busy, Entry, At, Keeps, Forward, Backward
  <2>3. Ahead'
    BY <1>0, <2>1 DEF Inductive, Recorded, Ahead, At, Keeps, Marks
  <2>4. Returning'
    BY <1>0, <2>1 DEF Inductive, Recorded, Ahead, Returning, Busy, Target, Changed, At,
       Keeps, Marks, Forward, Backward, Restorable, Tolerable, Unwritten, Overdone
  <2>5. Reachable'
    BY <1>0, <2>1 DEF Inductive, Recorded, Ahead, Returning, Reachable, Clean, Unwritten,
       Overdone, Target, Busy, At, Keeps, Marks, Forward, Backward
  <2>6. Restorable'
    BY <1>0, <2>1 DEF Inductive, Recorded, Ahead, Returning, Restorable, Tolerable,
       Unwritten, Overdone, Target, Busy, At, Keeps, Marks, Forward, Backward
  <2> QED BY <2>2, <2>3, <2>4, <2>5, <2>6 DEF Inductive
<1>7. ASSUME Allow PROVE Inductive'
  <2>1. /\ helper.stage = "allowing"
        /\ helper'.stage = "writing" /\ Keeps /\ helper'.failures = helper.failures
        /\ helper'.wrote = helper.wrote /\ helper'.switched = helper.switched
        /\ rules' = [rules EXCEPT ![helper.new] = "ours"]
        /\ UNCHANGED <<config, metadata, journal, runtime, faults, kills, edits, reply>>
    BY <1>7, <1>0 DEF Allow, At, Helper, Keeps
  <2>2. Recorded'
    BY <1>0, <2>1 DEF Inductive, Recorded, Busy, Entry, At, Keeps, Forward, Backward
  <2>3. Ahead'
    BY <1>0, <2>1 DEF Inductive, Recorded, Ahead, At, Keeps, Marks
  <2>4. Returning'
    BY <1>0, <2>1 DEF Inductive, Recorded, Ahead, Returning, Busy, Target, Changed, At,
       Keeps, Marks, Forward, Backward, Restorable, Tolerable, Unwritten, Overdone
  <2>5. Reachable'
    BY <1>0, <2>1 DEF Inductive, Recorded, Ahead, Returning, Reachable, Clean, Unwritten,
       Overdone, Target, Busy, At, Keeps, Marks, Forward, Backward
  <2>6. Restorable'
    BY <1>0, <2>1 DEF Inductive, Recorded, Ahead, Returning, Restorable, Tolerable,
       Unwritten, Overdone, Target, Busy, At, Keeps, Marks, Forward, Backward
  <2> QED BY <2>2, <2>3, <2>4, <2>5, <2>6 DEF Inductive
<1>8. ASSUME AllowFails PROVE Inductive'
  <2>1. /\ helper.stage = "allowing"
        /\ helper'.stage = "metaBack" /\ Keeps /\ Marks /\ helper'.failures = helper.failures
        /\ faults' = faults + 1
        /\ rules' \in {rules, [rules EXCEPT ![helper.new] = "ours"]}
        /\ UNCHANGED <<config, metadata, journal, runtime, kills, edits, reply>>
    BY <1>8, <1>0, RollBackView DEF AllowFails, At, Fault
  <2>2. Recorded'
    BY <1>0, <2>1 DEF Inductive, Recorded, Busy, Entry, At, Keeps, Forward, Backward
  <2>3. Ahead'
    BY <1>0, <2>1 DEF Inductive, Recorded, Ahead, At, Keeps, Marks
  <2>4. Returning'
    BY <1>0, <2>1 DEF Inductive, Recorded, Ahead, Returning, Busy, Target, Changed, At,
       Keeps, Marks, Forward, Backward, Restorable, Tolerable, Unwritten, Overdone
  <2>5. Reachable'
    BY <1>0, <2>1 DEF Inductive, Recorded, Ahead, Returning, Reachable, Clean, Unwritten,
       Overdone, Target, Busy, At, Keeps, Marks, Forward, Backward
  <2>6. Restorable'
    BY <1>0, <2>1 DEF Inductive, Recorded, Ahead, Returning, Restorable, Tolerable,
       Unwritten, Overdone, Target, Busy, At, Keeps, Marks, Forward, Backward
  <2> QED BY <2>2, <2>3, <2>4, <2>5, <2>6 DEF Inductive
<1>9. ASSUME Write PROVE Inductive'
  <2>1. /\ helper.stage = "writing"
        /\ helper'.stage = "switching" /\ Keeps /\ helper'.failures = helper.failures
        /\ helper'.wrote /\ helper'.switched = helper.switched
        /\ config = helper.config /\ config' = Target /\ config'.port = helper.new
        /\ UNCHANGED <<metadata, journal, runtime, rules, faults, kills, edits, reply>>
    BY <1>9, <1>0, ChangedTyped DEF Write, At, Helper, Keeps, Target
  <2>2. Recorded'
    BY <1>0, <2>1 DEF Inductive, Recorded, Busy, Entry, At, Keeps, Forward, Backward
  <2>3. Ahead'
    BY <1>0, <2>1 DEF Inductive, Recorded, Ahead, At, Keeps, Marks
  <2>4. Returning'
    BY <1>0, <2>1 DEF Inductive, Recorded, Ahead, Returning, Busy, Target, Changed, At,
       Keeps, Marks, Forward, Backward, Restorable, Tolerable, Unwritten, Overdone
  <2>5. Reachable'
    BY <1>0, <2>1 DEF Inductive, Recorded, Ahead, Returning, Reachable, Clean, Unwritten,
       Overdone, Target, Busy, At, Keeps, Marks, Forward, Backward
  <2>6. Restorable'
    BY <1>0, <2>1 DEF Inductive, Recorded, Ahead, Returning, Restorable, Tolerable,
       Unwritten, Overdone, Target, Busy, At, Keeps, Marks, Forward, Backward
  <2> QED BY <2>2, <2>3, <2>4, <2>5, <2>6 DEF Inductive
<1>10. ASSUME WriteFails PROVE Inductive'
  <2>0. Target \in Config /\ Target.port = helper.new
    BY <1>0, ChangedTyped DEF Target
  <2>00. Changed(helper.config, helper.new) = Target
    BY DEF Target
  <2>1. /\ helper.stage = "writing"
        /\ helper'.stage = "metaBack" /\ Keeps /\ Marks /\ helper'.failures = helper.failures
        /\ \/ config' = config /\ faults' \in {faults, faults + 1}
           \/ config = helper.config /\ config' = Target /\ config'.port = helper.new /\ faults' = faults + 1
        /\ UNCHANGED <<metadata, journal, runtime, rules, kills, edits, reply>>
    <3>1. /\ helper.stage = "writing"
      BY <1>10, <1>0, RollBackView, <2>0, <2>00 DEF WriteFails, At, Fault
    <3>2. /\ helper'.stage = "metaBack" /\ Keeps /\ Marks /\ helper'.failures = helper.failures
      BY <1>10, <1>0, RollBackView, <2>0, <2>00 DEF WriteFails, At, Fault
    <3>3. /\ \/ config' = config /\ faults' \in {faults, faults + 1}
             \/ config = helper.config /\ config' = Target /\ config'.port = helper.new /\ faults' = faults + 1
      BY <1>10, <1>0, RollBackView, <2>0, <2>00 DEF WriteFails, At, Fault
    <3>4. /\ UNCHANGED <<metadata, journal, runtime, rules, kills, edits, reply>>
      BY <1>10, <1>0, RollBackView, <2>0, <2>00 DEF WriteFails, At, Fault
    <3> QED BY <3>1, <3>2, <3>3, <3>4
  <2>2. Recorded'
    BY <1>0, <2>1 DEF Inductive, Recorded, Busy, Entry, At, Keeps, Forward, Backward
  <2>3. Ahead'
    BY <1>0, <2>1 DEF Inductive, Recorded, Ahead, At, Keeps, Marks
  <2>4. Returning'
    BY <1>0, <2>1 DEF Inductive, Recorded, Ahead, Returning, Busy, Target, Changed, At,
       Keeps, Marks, Forward, Backward, Restorable, Tolerable, Unwritten, Overdone
  <2>5. Reachable'
    BY <1>0, <2>1 DEF Inductive, Recorded, Ahead, Returning, Reachable, Clean, Unwritten,
       Overdone, Target, Busy, At, Keeps, Marks, Forward, Backward
  <2>6. Restorable'
    BY <1>0, <2>1 DEF Inductive, Recorded, Ahead, Returning, Restorable, Tolerable,
       Unwritten, Overdone, Target, Busy, At, Keeps, Marks, Forward, Backward
  <2> QED BY <2>2, <2>3, <2>4, <2>5, <2>6 DEF Inductive
<1>11. ASSUME Switch PROVE Inductive'
  <2>1. /\ helper.stage = "switching"
        /\ helper'.stage = "syncing" /\ Keeps /\ helper'.failures = helper.failures
        /\ helper'.switched /\ helper'.wrote = helper.wrote
        /\ metadata' = helper.new
        /\ UNCHANGED <<config, journal, runtime, rules, faults, kills, edits, reply>>
    BY <1>11, <1>0 DEF Switch, At, Helper, Keeps
  <2>2. Recorded'
    BY <1>0, <2>1 DEF Inductive, Recorded, Busy, Entry, At, Keeps, Forward, Backward
  <2>3. Ahead'
    BY <1>0, <2>1 DEF Inductive, Recorded, Ahead, At, Keeps, Marks
  <2>4. Returning'
    BY <1>0, <2>1 DEF Inductive, Recorded, Ahead, Returning, Busy, Target, Changed, At,
       Keeps, Marks, Forward, Backward, Restorable, Tolerable, Unwritten, Overdone
  <2>5. Reachable'
    BY <1>0, <2>1 DEF Inductive, Recorded, Ahead, Returning, Reachable, Clean, Unwritten,
       Overdone, Target, Busy, At, Keeps, Marks, Forward, Backward
  <2>6. Restorable'
    BY <1>0, <2>1 DEF Inductive, Recorded, Ahead, Returning, Restorable, Tolerable,
       Unwritten, Overdone, Target, Busy, At, Keeps, Marks, Forward, Backward
  <2> QED BY <2>2, <2>3, <2>4, <2>5, <2>6 DEF Inductive
<1>12. ASSUME SwitchFails PROVE Inductive'
  <2>1. /\ helper.stage = "switching"
        /\ helper'.stage = "metaBack" /\ Keeps /\ Marks /\ helper'.failures = helper.failures
        /\ \/ metadata' = metadata /\ faults' = faults + 1
           \/ metadata' = helper.new /\ faults' = faults + 2
        /\ UNCHANGED <<config, journal, runtime, rules, kills, edits, reply>>
    BY <1>12, <1>0, RollBackView DEF SwitchFails, At, Fault
  <2>2. Recorded'
    BY <1>0, <2>1 DEF Inductive, Recorded, Busy, Entry, At, Keeps, Forward, Backward
  <2>3. Ahead'
    BY <1>0, <2>1 DEF Inductive, Recorded, Ahead, At, Keeps, Marks
  <2>4. Returning'
    BY <1>0, <2>1 DEF Inductive, Recorded, Ahead, Returning, Busy, Target, Changed, At,
       Keeps, Marks, Forward, Backward, Restorable, Tolerable, Unwritten, Overdone
  <2>5. Reachable'
    BY <1>0, <2>1 DEF Inductive, Recorded, Ahead, Returning, Reachable, Clean, Unwritten,
       Overdone, Target, Busy, At, Keeps, Marks, Forward, Backward
  <2>6. Restorable'
    BY <1>0, <2>1 DEF Inductive, Recorded, Ahead, Returning, Restorable, Tolerable,
       Unwritten, Overdone, Target, Busy, At, Keeps, Marks, Forward, Backward
  <2> QED BY <2>2, <2>3, <2>4, <2>5, <2>6 DEF Inductive
<1>13. ASSUME Sync PROVE Inductive'
  <2>1. /\ helper.stage = "syncing"
        /\ helper'.stage = "verifying" /\ Keeps /\ Marks /\ helper'.failures = helper.failures
        /\ runtime' = config.port
        /\ UNCHANGED <<config, metadata, journal, rules, faults, kills, edits, reply>>
    BY <1>13, <1>0, GotoView DEF Sync, At
  <2>2. Recorded'
    BY <1>0, <2>1 DEF Inductive, Recorded, Busy, Entry, At, Keeps, Forward, Backward
  <2>3. Ahead'
    BY <1>0, <2>1 DEF Inductive, Recorded, Ahead, At, Keeps, Marks
  <2>4. Returning'
    BY <1>0, <2>1 DEF Inductive, Recorded, Ahead, Returning, Busy, Target, Changed, At,
       Keeps, Marks, Forward, Backward, Restorable, Tolerable, Unwritten, Overdone
  <2>5. Reachable'
    BY <1>0, <2>1 DEF Inductive, Recorded, Ahead, Returning, Reachable, Clean, Unwritten,
       Overdone, Target, Busy, At, Keeps, Marks, Forward, Backward
  <2>6. Restorable'
    BY <1>0, <2>1 DEF Inductive, Recorded, Ahead, Returning, Restorable, Tolerable,
       Unwritten, Overdone, Target, Busy, At, Keeps, Marks, Forward, Backward
  <2> QED BY <2>2, <2>3, <2>4, <2>5, <2>6 DEF Inductive
<1>14. ASSUME SyncFails PROVE Inductive'
  <2>1. /\ helper.stage = "syncing"
        /\ helper'.stage = "metaBack" /\ Keeps /\ Marks /\ helper'.failures = helper.failures
        /\ faults' = faults + 1
        /\ runtime' \in {runtime, Down}
        /\ UNCHANGED <<config, metadata, journal, rules, kills, edits, reply>>
    BY <1>14, <1>0, RollBackView DEF SyncFails, At, Fault, FailedRestart
  <2>2. Recorded'
    BY <1>0, <2>1 DEF Inductive, Recorded, Busy, Entry, At, Keeps, Forward, Backward
  <2>3. Ahead'
    BY <1>0, <2>1 DEF Inductive, Recorded, Ahead, At, Keeps, Marks
  <2>4. Returning'
    BY <1>0, <2>1 DEF Inductive, Recorded, Ahead, Returning, Busy, Target, Changed, At,
       Keeps, Marks, Forward, Backward, Restorable, Tolerable, Unwritten, Overdone
  <2>5. Reachable'
    BY <1>0, <2>1 DEF Inductive, Recorded, Ahead, Returning, Reachable, Clean, Unwritten,
       Overdone, Target, Busy, At, Keeps, Marks, Forward, Backward
  <2>6. Restorable'
    BY <1>0, <2>1 DEF Inductive, Recorded, Ahead, Returning, Restorable, Tolerable,
       Unwritten, Overdone, Target, Busy, At, Keeps, Marks, Forward, Backward
  <2> QED BY <2>2, <2>3, <2>4, <2>5, <2>6 DEF Inductive
<1>15. ASSUME Verify PROVE Inductive'
  <2>1. /\ helper.stage = "verifying"
        /\ helper'.stage = "finishing" /\ Keeps /\ Marks /\ helper'.failures = helper.failures
        /\ runtime = helper.new
        /\ UNCHANGED <<config, metadata, journal, runtime, rules, faults, kills, edits, reply>>
    BY <1>15, <1>0, GotoView DEF Verify, At
  <2>2. Recorded'
    BY <1>0, <2>1 DEF Inductive, Recorded, Busy, Entry, At, Keeps, Forward, Backward
  <2>3. Ahead'
    BY <1>0, <2>1 DEF Inductive, Recorded, Ahead, At, Keeps, Marks
  <2>4. Returning'
    BY <1>0, <2>1 DEF Inductive, Recorded, Ahead, Returning, Busy, Target, Changed, At,
       Keeps, Marks, Forward, Backward, Restorable, Tolerable, Unwritten, Overdone
  <2>5. Reachable'
    BY <1>0, <2>1 DEF Inductive, Recorded, Ahead, Returning, Reachable, Clean, Unwritten,
       Overdone, Target, Busy, At, Keeps, Marks, Forward, Backward
  <2>6. Restorable'
    BY <1>0, <2>1 DEF Inductive, Recorded, Ahead, Returning, Restorable, Tolerable,
       Unwritten, Overdone, Target, Busy, At, Keeps, Marks, Forward, Backward
  <2> QED BY <2>2, <2>3, <2>4, <2>5, <2>6 DEF Inductive
<1>16. ASSUME VerifyFails PROVE Inductive'
  <2>1. /\ helper.stage = "verifying"
        /\ helper'.stage = "metaBack" /\ Keeps /\ Marks /\ helper'.failures = helper.failures
        /\ faults' \in {faults, faults + 1}
        /\ UNCHANGED <<config, metadata, journal, runtime, rules, kills, edits, reply>>
    BY <1>16, <1>0, RollBackView DEF VerifyFails, At, Fault
  <2>2. Recorded'
    BY <1>0, <2>1 DEF Inductive, Recorded, Busy, Entry, At, Keeps, Forward, Backward
  <2>3. Ahead'
    BY <1>0, <2>1 DEF Inductive, Recorded, Ahead, At, Keeps, Marks
  <2>4. Returning'
    BY <1>0, <2>1 DEF Inductive, Recorded, Ahead, Returning, Busy, Target, Changed, At,
       Keeps, Marks, Forward, Backward, Restorable, Tolerable, Unwritten, Overdone
  <2>5. Reachable'
    BY <1>0, <2>1 DEF Inductive, Recorded, Ahead, Returning, Reachable, Clean, Unwritten,
       Overdone, Target, Busy, At, Keeps, Marks, Forward, Backward
  <2>6. Restorable'
    BY <1>0, <2>1 DEF Inductive, Recorded, Ahead, Returning, Restorable, Tolerable,
       Unwritten, Overdone, Target, Busy, At, Keeps, Marks, Forward, Backward
  <2> QED BY <2>2, <2>3, <2>4, <2>5, <2>6 DEF Inductive
<1>17. ASSUME Finish PROVE Inductive'
  <2>1. /\ helper.stage = "finishing"
        /\ helper'.stage = "idle" /\ ~ helper'.recovering /\ ~ helper'.failures
        /\ journal' = NoJournal /\ ~ journal'.pending
        /\ UNCHANGED <<config, metadata, runtime, rules, faults, kills, edits>>
    BY <1>17, <1>0, AnswerView, NothingPending DEF Finish, At
  <2>2. Recorded'
    BY <1>0, <2>1 DEF Inductive, Recorded, Busy, Entry, At, Keeps, Forward, Backward
  <2>3. Ahead'
    BY <1>0, <2>1 DEF Inductive, Recorded, Ahead, At, Keeps, Marks
  <2>4. Returning'
    BY <1>0, <2>1 DEF Inductive, Recorded, Ahead, Returning, Busy, Target, Changed, At,
       Keeps, Marks, Forward, Backward, Restorable, Tolerable, Unwritten, Overdone
  <2>5. Reachable'
    BY <1>0, <2>1 DEF Inductive, Recorded, Ahead, Returning, Reachable, Clean, Unwritten,
       Overdone, Target, Busy, At, Keeps, Marks, Forward, Backward
  <2>6. Restorable'
    BY <1>0, <2>1 DEF Inductive, Recorded, Ahead, Returning, Restorable, Tolerable,
       Unwritten, Overdone, Target, Busy, At, Keeps, Marks, Forward, Backward
  <2> QED BY <2>2, <2>3, <2>4, <2>5, <2>6 DEF Inductive
<1>18. ASSUME FinishFails PROVE Inductive'
  <2>1. /\ helper.stage = "finishing"
        /\ helper'.stage = "metaBack" /\ Keeps /\ Marks /\ helper'.failures = helper.failures
        /\ faults' = faults + 1
        /\ journal' \in {journal, NoJournal} /\ ~ NoJournal.pending
        /\ UNCHANGED <<config, metadata, runtime, rules, kills, edits, reply>>
    BY <1>18, <1>0, RollBackView, NothingPending DEF FinishFails, At, Fault
  <2>2. Recorded'
    BY <1>0, <2>1 DEF Inductive, Recorded, Busy, Entry, At, Keeps, Forward, Backward
  <2>3. Ahead'
    BY <1>0, <2>1 DEF Inductive, Recorded, Ahead, At, Keeps, Marks
  <2>4. Returning'
    BY <1>0, <2>1 DEF Inductive, Recorded, Ahead, Returning, Busy, Target, Changed, At,
       Keeps, Marks, Forward, Backward, Restorable, Tolerable, Unwritten, Overdone
  <2>5. Reachable'
    BY <1>0, <2>1 DEF Inductive, Recorded, Ahead, Returning, Reachable, Clean, Unwritten,
       Overdone, Target, Busy, At, Keeps, Marks, Forward, Backward
  <2>6. Restorable'
    BY <1>0, <2>1 DEF Inductive, Recorded, Ahead, Returning, Restorable, Tolerable,
       Unwritten, Overdone, Target, Busy, At, Keeps, Marks, Forward, Backward
  <2> QED BY <2>2, <2>3, <2>4, <2>5, <2>6 DEF Inductive
<1>19. ASSUME MetaBack PROVE Inductive'
  <2>1. /\ helper.stage = "metaBack"
        /\ helper'.stage = "configBack" /\ Keeps /\ Marks /\ helper'.failures = helper.failures
        /\ metadata' = IF helper.recovering \/ helper.switched THEN helper.old ELSE metadata
        /\ UNCHANGED <<config, journal, runtime, rules, faults, kills, edits, reply>>
    BY <1>19, <1>0, GotoView DEF MetaBack, At
  <2>2. Recorded'
    BY <1>0, <2>1 DEF Inductive, Recorded, Busy, Entry, At, Keeps, Forward, Backward
  <2>3. Ahead'
    BY <1>0, <2>1 DEF Inductive, Recorded, Ahead, At, Keeps, Marks
  <2>4. Returning'
    BY <1>0, <2>1 DEF Inductive, Recorded, Ahead, Returning, Busy, Target, Changed, At,
       Keeps, Marks, Forward, Backward, Restorable, Tolerable, Unwritten, Overdone
  <2>5. Reachable'
    BY <1>0, <2>1 DEF Inductive, Recorded, Ahead, Returning, Reachable, Clean, Unwritten,
       Overdone, Target, Busy, At, Keeps, Marks, Forward, Backward
  <2>6. Restorable'
    BY <1>0, <2>1 DEF Inductive, Recorded, Ahead, Returning, Restorable, Tolerable,
       Unwritten, Overdone, Target, Busy, At, Keeps, Marks, Forward, Backward
  <2> QED BY <2>2, <2>3, <2>4, <2>5, <2>6 DEF Inductive
<1>20. ASSUME MetaBackFails PROVE Inductive'
  <2>1. /\ helper.stage = "metaBack"
        /\ \/ helper.recovering /\ helper'.stage = "idle" /\ ~ helper'.recovering /\ ~ helper'.failures
           \/ /\ ~ helper.recovering
              /\ helper'.stage = "configBack" /\ Keeps /\ Marks /\ helper'.failures
              /\ reply' = reply
        /\ \/ helper.recovering /\ UNCHANGED <<metadata, faults>>
           \/ metadata' = metadata /\ faults' = faults + 1
           \/ metadata' = helper.old /\ faults' = faults + 2
        /\ UNCHANGED <<config, journal, runtime, rules, kills, edits>>
    BY <1>20, <1>0, UndoFailedView DEF MetaBackFails, At, Fault
  <2>2. Recorded'
    BY <1>0, <2>1 DEF Inductive, Recorded, Busy, Entry, At, Keeps, Forward, Backward
  <2>3. Ahead'
    BY <1>0, <2>1 DEF Inductive, Recorded, Ahead, At, Keeps, Marks
  <2>4. Returning'
    BY <1>0, <2>1 DEF Inductive, Recorded, Ahead, Returning, Busy, Target, Changed, At,
       Keeps, Marks, Forward, Backward, Restorable, Tolerable, Unwritten, Overdone
  <2>5. Reachable'
    BY <1>0, <2>1 DEF Inductive, Recorded, Ahead, Returning, Reachable, Clean, Unwritten,
       Overdone, Target, Busy, At, Keeps, Marks, Forward, Backward
  <2>6. Restorable'
    BY <1>0, <2>1 DEF Inductive, Recorded, Ahead, Returning, Restorable, Tolerable,
       Unwritten, Overdone, Target, Busy, At, Keeps, Marks, Forward, Backward
  <2> QED BY <2>2, <2>3, <2>4, <2>5, <2>6 DEF Inductive
<1>21. ASSUME ConfigBack PROVE Inductive'
  <2>1. CASE config = Target
    <3>1. /\ helper.stage = "configBack"
          /\ helper'.stage = "syncBack" /\ Keeps /\ Marks /\ helper'.failures = helper.failures
          /\ config' = helper.config
          /\ UNCHANGED <<metadata, journal, runtime, rules, faults, kills, edits, reply>>
      BY <1>21, <2>1, <1>0, GotoView DEF ConfigBack, At, NothingWritten, Target
    <3>2. Recorded'
      BY <1>0, <3>1, <2>1 DEF Inductive, Recorded, Busy, Entry, At, Keeps, Forward, Backward
    <3>3. Ahead'
      BY <1>0, <3>1, <2>1 DEF Inductive, Recorded, Ahead, At, Keeps, Marks
    <3>4. Returning'
      BY <1>0, <3>1, <2>1 DEF Inductive, Recorded, Ahead, Returning, Busy, Target, Changed,
         At, Keeps, Marks, Forward, Backward, Restorable, Tolerable, Unwritten, Overdone
    <3>5. Reachable'
      BY <1>0, <3>1, <2>1 DEF Inductive, Recorded, Ahead, Returning, Reachable, Clean,
         Unwritten, Overdone, Target, Busy, At, Keeps, Marks, Forward, Backward
    <3>6. Restorable'
      BY <1>0, <3>1, <2>1 DEF Inductive, Recorded, Ahead, Returning, Restorable, Tolerable,
         Unwritten, Overdone, Target, Busy, At, Keeps, Marks, Forward, Backward
    <3> QED BY <3>2, <3>3, <3>4, <3>5, <3>6 DEF Inductive
  <2>2. CASE config # Target /\ (helper.recovering \/ helper.wrote)
    <3>1. /\ helper.stage = "configBack"
          /\ helper'.stage = "syncBack" /\ Keeps /\ Marks /\ helper'.failures = helper.failures
          /\ UNCHANGED <<config, metadata, journal, runtime, rules, faults, kills, edits, reply>>
      BY <1>21, <2>2, <1>0, GotoView DEF ConfigBack, At, NothingWritten, Target
    <3>2. Recorded'
      BY <1>0, <3>1, <2>2 DEF Inductive, Recorded, Busy, Entry, At, Keeps, Forward, Backward
    <3>3. Ahead'
      BY <1>0, <3>1, <2>2 DEF Inductive, Recorded, Ahead, At, Keeps, Marks
    <3>4. Returning'
      BY <1>0, <3>1, <2>2 DEF Inductive, Recorded, Ahead, Returning, Busy, Target, Changed,
         At, Keeps, Marks, Forward, Backward, Restorable, Tolerable, Unwritten, Overdone
    <3>5. Reachable'
      BY <1>0, <3>1, <2>2 DEF Inductive, Recorded, Ahead, Returning, Reachable, Clean,
         Unwritten, Overdone, Target, Busy, At, Keeps, Marks, Forward, Backward
    <3>6. Restorable'
      BY <1>0, <3>1, <2>2 DEF Inductive, Recorded, Ahead, Returning, Restorable, Tolerable,
         Unwritten, Overdone, Target, Busy, At, Keeps, Marks, Forward, Backward
    <3> QED BY <3>2, <3>3, <3>4, <3>5, <3>6 DEF Inductive
  <2>3. CASE config # Target /\ ~ helper.recovering /\ ~ helper.wrote
    <3>1. /\ helper.stage = "configBack"
          /\ helper'.stage = "ruleBack" /\ Keeps /\ Marks /\ helper'.failures = helper.failures
          /\ UNCHANGED <<config, metadata, journal, runtime, rules, faults, kills, edits, reply>>
      BY <1>21, <2>3, <1>0, GotoView DEF ConfigBack, At, NothingWritten, Target
    <3>2. Recorded'
      BY <1>0, <3>1, <2>3 DEF Inductive, Recorded, Busy, Entry, At, Keeps, Forward, Backward
    <3>3. Ahead'
      BY <1>0, <3>1, <2>3 DEF Inductive, Recorded, Ahead, At, Keeps, Marks
    <3>4. Returning'
      BY <1>0, <3>1, <2>3 DEF Inductive, Recorded, Ahead, Returning, Busy, Target, Changed,
         At, Keeps, Marks, Forward, Backward, Restorable, Tolerable, Unwritten, Overdone
    <3>5. Reachable'
      BY <1>0, <3>1, <2>3 DEF Inductive, Recorded, Ahead, Returning, Reachable, Clean,
         Unwritten, Overdone, Target, Busy, At, Keeps, Marks, Forward, Backward
    <3>6. Restorable'
      BY <1>0, <3>1, <2>3 DEF Inductive, Recorded, Ahead, Returning, Restorable, Tolerable,
         Unwritten, Overdone, Target, Busy, At, Keeps, Marks, Forward, Backward
    <3> QED BY <3>2, <3>3, <3>4, <3>5, <3>6 DEF Inductive
  <2> QED BY <2>1, <2>2, <2>3
<1>22. ASSUME ConfigBackFails PROVE Inductive'
  <2>1. /\ helper.stage = "configBack"
        /\ \/ helper.recovering /\ helper'.stage = "idle" /\ ~ helper'.recovering /\ ~ helper'.failures
           \/ /\ ~ helper.recovering
              /\ helper'.stage = "ruleBack" /\ Keeps /\ Marks /\ helper'.failures
              /\ reply' = reply
        /\ faults' = faults + 1
        /\ config' = config \/ (config = Target /\ config' = helper.config)
        /\ UNCHANGED <<metadata, journal, runtime, rules, kills, edits>>
    <3>1. /\ helper.stage = "configBack"
      BY <1>22, <1>0, UndoFailedView DEF ConfigBackFails, At, Fault, Target
    <3>2. /\ \/ helper.recovering /\ helper'.stage = "idle" /\ ~ helper'.recovering /\ ~ helper'.failures
             \/ /\ ~ helper.recovering
                /\ helper'.stage = "ruleBack" /\ Keeps /\ Marks /\ helper'.failures
                /\ reply' = reply
      BY <1>22, <1>0, UndoFailedView DEF ConfigBackFails, At, Fault, Target
    <3>3. /\ faults' = faults + 1
      BY <1>22, <1>0, UndoFailedView DEF ConfigBackFails, At, Fault, Target
    <3>4. /\ config' = config \/ (config = Target /\ config' = helper.config)
      BY <1>22, <1>0, UndoFailedView DEF ConfigBackFails, At, Fault, Target
    <3>5. /\ UNCHANGED <<metadata, journal, runtime, rules, kills, edits>>
      BY <1>22, <1>0, UndoFailedView DEF ConfigBackFails, At, Fault, Target
    <3> QED BY <3>1, <3>2, <3>3, <3>4, <3>5
  <2>2. Recorded'
    BY <1>0, <2>1 DEF Inductive, Recorded, Busy, Entry, At, Keeps, Forward, Backward
  <2>3. Ahead'
    BY <1>0, <2>1 DEF Inductive, Recorded, Ahead, At, Keeps, Marks
  <2>4. Returning'
    BY <1>0, <2>1 DEF Inductive, Recorded, Ahead, Returning, Busy, Target, Changed, At,
       Keeps, Marks, Forward, Backward, Restorable, Tolerable, Unwritten, Overdone
  <2>5. Reachable'
    BY <1>0, <2>1 DEF Inductive, Recorded, Ahead, Returning, Reachable, Clean, Unwritten,
       Overdone, Target, Busy, At, Keeps, Marks, Forward, Backward
  <2>6. Restorable'
    BY <1>0, <2>1 DEF Inductive, Recorded, Ahead, Returning, Restorable, Tolerable,
       Unwritten, Overdone, Target, Busy, At, Keeps, Marks, Forward, Backward
  <2> QED BY <2>2, <2>3, <2>4, <2>5, <2>6 DEF Inductive
<1>23. ASSUME SyncBack PROVE Inductive'
  <2>1. /\ helper.stage = "syncBack"
        /\ helper'.stage = "verifyBack" /\ Keeps /\ Marks /\ helper'.failures = helper.failures
        /\ runtime' = config.port
        /\ UNCHANGED <<config, metadata, journal, rules, faults, kills, edits, reply>>
    BY <1>23, <1>0, GotoView DEF SyncBack, At
  <2>2. Recorded'
    BY <1>0, <2>1 DEF Inductive, Recorded, Busy, Entry, At, Keeps, Forward, Backward
  <2>3. Ahead'
    BY <1>0, <2>1 DEF Inductive, Recorded, Ahead, At, Keeps, Marks
  <2>4. Returning'
    BY <1>0, <2>1 DEF Inductive, Recorded, Ahead, Returning, Busy, Target, Changed, At,
       Keeps, Marks, Forward, Backward, Restorable, Tolerable, Unwritten, Overdone
  <2>5. Reachable'
    BY <1>0, <2>1 DEF Inductive, Recorded, Ahead, Returning, Reachable, Clean, Unwritten,
       Overdone, Target, Busy, At, Keeps, Marks, Forward, Backward
  <2>6. Restorable'
    BY <1>0, <2>1 DEF Inductive, Recorded, Ahead, Returning, Restorable, Tolerable,
       Unwritten, Overdone, Target, Busy, At, Keeps, Marks, Forward, Backward
  <2> QED BY <2>2, <2>3, <2>4, <2>5, <2>6 DEF Inductive
<1>24. ASSUME SyncBackFails PROVE Inductive'
  <2>1. /\ helper.stage = "syncBack"
        /\ \/ helper.recovering /\ helper'.stage = "idle" /\ ~ helper'.recovering /\ ~ helper'.failures
           \/ /\ ~ helper.recovering
              /\ helper'.stage = "ruleBack" /\ Keeps /\ Marks /\ helper'.failures
              /\ reply' = reply
        /\ faults' = faults + 1
        /\ runtime' \in {runtime, Down}
        /\ UNCHANGED <<config, metadata, journal, rules, kills, edits>>
    BY <1>24, <1>0, UndoFailedView DEF SyncBackFails, At, Fault, FailedRestart
  <2>2. Recorded'
    BY <1>0, <2>1 DEF Inductive, Recorded, Busy, Entry, At, Keeps, Forward, Backward
  <2>3. Ahead'
    BY <1>0, <2>1 DEF Inductive, Recorded, Ahead, At, Keeps, Marks
  <2>4. Returning'
    BY <1>0, <2>1 DEF Inductive, Recorded, Ahead, Returning, Busy, Target, Changed, At,
       Keeps, Marks, Forward, Backward, Restorable, Tolerable, Unwritten, Overdone
  <2>5. Reachable'
    BY <1>0, <2>1 DEF Inductive, Recorded, Ahead, Returning, Reachable, Clean, Unwritten,
       Overdone, Target, Busy, At, Keeps, Marks, Forward, Backward
  <2>6. Restorable'
    BY <1>0, <2>1 DEF Inductive, Recorded, Ahead, Returning, Restorable, Tolerable,
       Unwritten, Overdone, Target, Busy, At, Keeps, Marks, Forward, Backward
  <2> QED BY <2>2, <2>3, <2>4, <2>5, <2>6 DEF Inductive
<1>25. ASSUME VerifyBack PROVE Inductive'
  <2>1. /\ helper.stage = "verifyBack"
        /\ helper'.stage = "ruleBack" /\ Keeps /\ Marks /\ helper'.failures = helper.failures
        /\ runtime = helper.old
        /\ UNCHANGED <<config, metadata, journal, runtime, rules, faults, kills, edits, reply>>
    BY <1>25, <1>0, GotoView DEF VerifyBack, At
  <2>2. Recorded'
    BY <1>0, <2>1 DEF Inductive, Recorded, Busy, Entry, At, Keeps, Forward, Backward
  <2>3. Ahead'
    BY <1>0, <2>1 DEF Inductive, Recorded, Ahead, At, Keeps, Marks
  <2>4. Returning'
    BY <1>0, <2>1 DEF Inductive, Recorded, Ahead, Returning, Busy, Target, Changed, At,
       Keeps, Marks, Forward, Backward, Restorable, Tolerable, Unwritten, Overdone
  <2>5. Reachable'
    BY <1>0, <2>1 DEF Inductive, Recorded, Ahead, Returning, Reachable, Clean, Unwritten,
       Overdone, Target, Busy, At, Keeps, Marks, Forward, Backward
  <2>6. Restorable'
    BY <1>0, <2>1 DEF Inductive, Recorded, Ahead, Returning, Restorable, Tolerable,
       Unwritten, Overdone, Target, Busy, At, Keeps, Marks, Forward, Backward
  <2> QED BY <2>2, <2>3, <2>4, <2>5, <2>6 DEF Inductive
<1>26. ASSUME VerifyBackFails PROVE Inductive'
  <2>1. /\ helper.stage = "verifyBack"
        /\ \/ helper.recovering /\ helper'.stage = "idle" /\ ~ helper'.recovering /\ ~ helper'.failures
           \/ /\ ~ helper.recovering
              /\ helper'.stage = "ruleBack" /\ Keeps /\ Marks /\ helper'.failures
              /\ reply' = reply
        /\ \/ (runtime # helper.old \/ edits > 0) /\ faults' = faults
           \/ faults' = faults + 1
        /\ UNCHANGED <<config, metadata, journal, runtime, rules, kills, edits>>
    BY <1>26, <1>0, UndoFailedView DEF VerifyBackFails, At, Fault
  <2>2. Recorded'
    BY <1>0, <2>1 DEF Inductive, Recorded, Busy, Entry, At, Keeps, Forward, Backward
  <2>3. Ahead'
    BY <1>0, <2>1 DEF Inductive, Recorded, Ahead, At, Keeps, Marks
  <2>4. Returning'
    BY <1>0, <2>1 DEF Inductive, Recorded, Ahead, Returning, Busy, Target, Changed, At,
       Keeps, Marks, Forward, Backward, Restorable, Tolerable, Unwritten, Overdone
  <2>5. Reachable'
    BY <1>0, <2>1 DEF Inductive, Recorded, Ahead, Returning, Reachable, Clean, Unwritten,
       Overdone, Target, Busy, At, Keeps, Marks, Forward, Backward
  <2>6. Restorable'
    BY <1>0, <2>1 DEF Inductive, Recorded, Ahead, Returning, Restorable, Tolerable,
       Unwritten, Overdone, Target, Busy, At, Keeps, Marks, Forward, Backward
  <2> QED BY <2>2, <2>3, <2>4, <2>5, <2>6 DEF Inductive
<1>27. ASSUME RuleBack PROVE Inductive'
  <2>1. /\ helper.stage = "ruleBack"
        /\ helper'.stage = "unlinkBack" /\ Keeps /\ Marks /\ helper'.failures = helper.failures
        /\ \/ rules' = rules
           \/ (helper.recovering \/ ~ helper.failures) /\ rules' = [rules EXCEPT ![helper.new] = "none"]
        /\ UNCHANGED <<config, metadata, journal, runtime, faults, kills, edits, reply>>
    BY <1>27, <1>0, GotoView DEF RuleBack, At, Removes
  <2>2. Recorded'
    BY <1>0, <2>1 DEF Inductive, Recorded, Busy, Entry, At, Keeps, Forward, Backward
  <2>3. Ahead'
    BY <1>0, <2>1 DEF Inductive, Recorded, Ahead, At, Keeps, Marks
  <2>4. Returning'
    BY <1>0, <2>1 DEF Inductive, Recorded, Ahead, Returning, Busy, Target, Changed, At,
       Keeps, Marks, Forward, Backward, Restorable, Tolerable, Unwritten, Overdone
  <2>5. Reachable'
    BY <1>0, <2>1 DEF Inductive, Recorded, Ahead, Returning, Reachable, Clean, Unwritten,
       Overdone, Target, Busy, At, Keeps, Marks, Forward, Backward
  <2>6. Restorable'
    BY <1>0, <2>1 DEF Inductive, Recorded, Ahead, Returning, Restorable, Tolerable,
       Unwritten, Overdone, Target, Busy, At, Keeps, Marks, Forward, Backward
  <2> QED BY <2>2, <2>3, <2>4, <2>5, <2>6 DEF Inductive
<1>28. ASSUME RuleBackFails PROVE Inductive'
  <2>1. /\ helper.stage = "ruleBack"
        /\ \/ helper.recovering /\ helper'.stage = "idle" /\ ~ helper'.recovering /\ ~ helper'.failures
           \/ /\ ~ helper.recovering
              /\ helper'.stage = "unlinkBack" /\ Keeps /\ Marks /\ helper'.failures
              /\ reply' = reply
        /\ \/ rules' = rules
           \/ (helper.recovering \/ ~ helper.failures) /\ rules' = [rules EXCEPT ![helper.new] = "none"]
        /\ (helper.recovering /\ faults' = faults) \/ faults' = faults + 1
        /\ UNCHANGED <<config, metadata, journal, runtime, kills, edits>>
    BY <1>28, <1>0, UndoFailedView DEF RuleBackFails, At, Fault, Removes
  <2>2. Recorded'
    BY <1>0, <2>1 DEF Inductive, Recorded, Busy, Entry, At, Keeps, Forward, Backward
  <2>3. Ahead'
    BY <1>0, <2>1 DEF Inductive, Recorded, Ahead, At, Keeps, Marks
  <2>4. Returning'
    BY <1>0, <2>1 DEF Inductive, Recorded, Ahead, Returning, Busy, Target, Changed, At,
       Keeps, Marks, Forward, Backward, Restorable, Tolerable, Unwritten, Overdone
  <2>5. Reachable'
    BY <1>0, <2>1 DEF Inductive, Recorded, Ahead, Returning, Reachable, Clean, Unwritten,
       Overdone, Target, Busy, At, Keeps, Marks, Forward, Backward
  <2>6. Restorable'
    BY <1>0, <2>1 DEF Inductive, Recorded, Ahead, Returning, Restorable, Tolerable,
       Unwritten, Overdone, Target, Busy, At, Keeps, Marks, Forward, Backward
  <2> QED BY <2>2, <2>3, <2>4, <2>5, <2>6 DEF Inductive
<1>29. ASSUME UnlinkBack PROVE Inductive'
  <2>1. CASE helper.failures \/ ~ journal.pending
    <3>1. /\ helper.stage = "unlinkBack"
          /\ helper'.stage = "idle" /\ ~ helper'.recovering /\ ~ helper'.failures
          /\ UNCHANGED <<config, metadata, journal, runtime, rules, faults, kills, edits>>
      <4>1. /\ helper.stage = "unlinkBack"
        BY <1>29, <2>1, <1>0, AnswerView, NothingPending DEF UnlinkBack, At
      <4>2. /\ helper'.stage = "idle" /\ ~ helper'.recovering /\ ~ helper'.failures
        BY <1>29, <2>1, <1>0, AnswerView, NothingPending DEF UnlinkBack, At
      <4>3. /\ UNCHANGED <<config, metadata, journal, runtime, rules, faults, kills, edits>>
        BY <1>29, <2>1, <1>0, AnswerView, NothingPending DEF UnlinkBack, At
      <4> QED BY <4>1, <4>2, <4>3
    <3>2. Recorded'
      BY <1>0, <3>1, <2>1 DEF Inductive, Recorded, Busy, Entry, At, Keeps, Forward, Backward
    <3>3. Ahead'
      BY <1>0, <3>1, <2>1 DEF Inductive, Recorded, Ahead, At, Keeps, Marks
    <3>4. Returning'
      BY <1>0, <3>1, <2>1 DEF Inductive, Recorded, Ahead, Returning, Busy, Target, Changed,
         At, Keeps, Marks, Forward, Backward, Restorable, Tolerable, Unwritten, Overdone
    <3>5. Reachable'
      BY <1>0, <3>1, <2>1 DEF Inductive, Recorded, Ahead, Returning, Reachable, Clean,
         Unwritten, Overdone, Target, Busy, At, Keeps, Marks, Forward, Backward
    <3>6. Restorable'
      BY <1>0, <3>1, <2>1 DEF Inductive, Recorded, Ahead, Returning, Restorable, Tolerable,
         Unwritten, Overdone, Target, Busy, At, Keeps, Marks, Forward, Backward
    <3> QED BY <3>2, <3>3, <3>4, <3>5, <3>6 DEF Inductive
  <2>2. CASE ~ helper.failures /\ journal.pending /\ helper.recovering
    <3>1. /\ helper.stage = "unlinkBack"
          /\ helper'.stage = "planning" /\ ~ helper'.recovering /\ ~ helper'.failures
          /\ ~ journal'.pending
          /\ UNCHANGED <<config, metadata, runtime, rules, faults, kills, edits, reply>>
      <4>1. /\ helper.stage = "unlinkBack"
        BY <1>29, <2>2, <1>0, NothingPending DEF UnlinkBack, At, Idle
      <4>2. /\ helper'.stage = "planning" /\ ~ helper'.recovering /\ ~ helper'.failures
        BY <1>29, <2>2, <1>0, NothingPending DEF UnlinkBack, At, Idle
      <4>3. /\ ~ journal'.pending
        BY <1>29, <2>2, <1>0, NothingPending DEF UnlinkBack, At, Idle
      <4>4. /\ UNCHANGED <<config, metadata, runtime, rules, faults, kills, edits, reply>>
        BY <1>29, <2>2, <1>0, NothingPending DEF UnlinkBack, At, Idle
      <4> QED BY <4>1, <4>2, <4>3, <4>4
    <3>2. Recorded'
      BY <1>0, <3>1, <2>2 DEF Inductive, Recorded, Busy, Entry, At, Keeps, Forward, Backward
    <3>3. Ahead'
      BY <1>0, <3>1, <2>2 DEF Inductive, Recorded, Ahead, At, Keeps, Marks
    <3>4. Returning'
      BY <1>0, <3>1, <2>2 DEF Inductive, Recorded, Ahead, Returning, Busy, Target, Changed,
         At, Keeps, Marks, Forward, Backward, Restorable, Tolerable, Unwritten, Overdone
    <3>5. Reachable'
      BY <1>0, <3>1, <2>2 DEF Inductive, Recorded, Ahead, Returning, Reachable, Clean,
         Unwritten, Overdone, Target, Busy, At, Keeps, Marks, Forward, Backward
    <3>6. Restorable'
      BY <1>0, <3>1, <2>2 DEF Inductive, Recorded, Ahead, Returning, Restorable, Tolerable,
         Unwritten, Overdone, Target, Busy, At, Keeps, Marks, Forward, Backward
    <3> QED BY <3>2, <3>3, <3>4, <3>5, <3>6 DEF Inductive
  <2>3. CASE ~ helper.failures /\ journal.pending /\ ~ helper.recovering
    <3>1. /\ helper.stage = "unlinkBack"
          /\ helper'.stage = "idle" /\ ~ helper'.recovering /\ ~ helper'.failures
          /\ ~ journal'.pending
          /\ UNCHANGED <<config, metadata, runtime, rules, faults, kills, edits>>
      <4>1. /\ helper.stage = "unlinkBack"
        BY <1>29, <2>3, <1>0, AnswerView, NothingPending DEF UnlinkBack, At
      <4>2. /\ helper'.stage = "idle" /\ ~ helper'.recovering /\ ~ helper'.failures
        BY <1>29, <2>3, <1>0, AnswerView, NothingPending DEF UnlinkBack, At
      <4>3. /\ ~ journal'.pending
        BY <1>29, <2>3, <1>0, AnswerView, NothingPending DEF UnlinkBack, At
      <4>4. /\ UNCHANGED <<config, metadata, runtime, rules, faults, kills, edits>>
        BY <1>29, <2>3, <1>0, AnswerView, NothingPending DEF UnlinkBack, At
      <4> QED BY <4>1, <4>2, <4>3, <4>4
    <3>2. Recorded'
      BY <1>0, <3>1, <2>3 DEF Inductive, Recorded, Busy, Entry, At, Keeps, Forward, Backward
    <3>3. Ahead'
      BY <1>0, <3>1, <2>3 DEF Inductive, Recorded, Ahead, At, Keeps, Marks
    <3>4. Returning'
      BY <1>0, <3>1, <2>3 DEF Inductive, Recorded, Ahead, Returning, Busy, Target, Changed,
         At, Keeps, Marks, Forward, Backward, Restorable, Tolerable, Unwritten, Overdone
    <3>5. Reachable'
      BY <1>0, <3>1, <2>3 DEF Inductive, Recorded, Ahead, Returning, Reachable, Clean,
         Unwritten, Overdone, Target, Busy, At, Keeps, Marks, Forward, Backward
    <3>6. Restorable'
      BY <1>0, <3>1, <2>3 DEF Inductive, Recorded, Ahead, Returning, Restorable, Tolerable,
         Unwritten, Overdone, Target, Busy, At, Keeps, Marks, Forward, Backward
    <3> QED BY <3>2, <3>3, <3>4, <3>5, <3>6 DEF Inductive
  <2> QED BY <2>1, <2>2, <2>3
<1>30. ASSUME UnlinkBackFails PROVE Inductive'
  <2>1. /\ helper.stage = "unlinkBack"
        /\ helper'.stage = "idle" /\ ~ helper'.recovering /\ ~ helper'.failures
        /\ faults' = faults + 1
        /\ ~ helper.failures /\ (journal' = journal \/ ~ journal'.pending)
        /\ UNCHANGED <<config, metadata, runtime, rules, kills, edits>>
    <3>1. /\ helper.stage = "unlinkBack"
      BY <1>30, <1>0, AnswerView, NothingPending DEF UnlinkBackFails, At, Fault
    <3>2. /\ helper'.stage = "idle" /\ ~ helper'.recovering /\ ~ helper'.failures
      BY <1>30, <1>0, AnswerView, NothingPending DEF UnlinkBackFails, At, Fault
    <3>3. /\ faults' = faults + 1
      BY <1>30, <1>0, AnswerView, NothingPending DEF UnlinkBackFails, At, Fault
    <3>4. /\ ~ helper.failures /\ (journal' = journal \/ ~ journal'.pending)
      BY <1>30, <1>0, AnswerView, NothingPending DEF UnlinkBackFails, At, Fault
    <3>5. /\ UNCHANGED <<config, metadata, runtime, rules, kills, edits>>
      BY <1>30, <1>0, AnswerView, NothingPending DEF UnlinkBackFails, At, Fault
    <3> QED BY <3>1, <3>2, <3>3, <3>4, <3>5
  <2>2. Recorded'
    BY <1>0, <2>1 DEF Inductive, Recorded, Busy, Entry, At, Keeps, Forward, Backward
  <2>3. Ahead'
    BY <1>0, <2>1 DEF Inductive, Recorded, Ahead, At, Keeps, Marks
  <2>4. Returning'
    BY <1>0, <2>1 DEF Inductive, Recorded, Ahead, Returning, Busy, Target, Changed, At,
       Keeps, Marks, Forward, Backward, Restorable, Tolerable, Unwritten, Overdone
  <2>5. Reachable'
    BY <1>0, <2>1 DEF Inductive, Recorded, Ahead, Returning, Reachable, Clean, Unwritten,
       Overdone, Target, Busy, At, Keeps, Marks, Forward, Backward
  <2>6. Restorable'
    BY <1>0, <2>1 DEF Inductive, Recorded, Ahead, Returning, Restorable, Tolerable,
       Unwritten, Overdone, Target, Busy, At, Keeps, Marks, Forward, Backward
  <2> QED BY <2>2, <2>3, <2>4, <2>5, <2>6 DEF Inductive
<1>31. ASSUME Kill PROVE Inductive'
  <2>1. /\ helper.stage # "idle"
        /\ helper'.stage = "idle" /\ ~ helper'.recovering /\ ~ helper'.failures
        /\ kills' = kills + 1
        /\ UNCHANGED <<config, metadata, journal, runtime, rules, faults, edits>>
    BY <1>31, <1>0, AnswerView DEF Kill, At
  <2>2. Recorded'
    BY <1>0, <2>1 DEF Inductive, Recorded, Busy, Entry, At, Keeps, Forward, Backward
  <2>3. Ahead'
    BY <1>0, <2>1 DEF Inductive, Recorded, Ahead, At, Keeps, Marks
  <2>4. Returning'
    BY <1>0, <2>1 DEF Inductive, Recorded, Ahead, Returning, Busy, Target, Changed, At,
       Keeps, Marks, Forward, Backward, Restorable, Tolerable, Unwritten, Overdone
  <2>5. Reachable'
    BY <1>0, <2>1 DEF Inductive, Recorded, Ahead, Returning, Reachable, Clean, Unwritten,
       Overdone, Target, Busy, At, Keeps, Marks, Forward, Backward
  <2>6. Restorable'
    BY <1>0, <2>1 DEF Inductive, Recorded, Ahead, Returning, Restorable, Tolerable,
       Unwritten, Overdone, Target, Busy, At, Keeps, Marks, Forward, Backward
  <2> QED BY <2>2, <2>3, <2>4, <2>5, <2>6 DEF Inductive
<1>32. ASSUME Reboot PROVE Inductive'
  <2>1. /\ helper'.stage = "idle" /\ ~ helper'.recovering /\ ~ helper'.failures
        /\ kills' = kills + 1 /\ runtime' = config.port
        /\ UNCHANGED <<config, metadata, journal, rules, faults, edits>>
    BY <1>32, <1>0, AnswerView DEF Reboot
  <2>2. Recorded'
    BY <1>0, <2>1 DEF Inductive, Recorded, Busy, Entry, At, Keeps, Forward, Backward
  <2>3. Ahead'
    BY <1>0, <2>1 DEF Inductive, Recorded, Ahead, At, Keeps, Marks
  <2>4. Returning'
    BY <1>0, <2>1 DEF Inductive, Recorded, Ahead, Returning, Busy, Target, Changed, At,
       Keeps, Marks, Forward, Backward, Restorable, Tolerable, Unwritten, Overdone
  <2>5. Reachable'
    BY <1>0, <2>1 DEF Inductive, Recorded, Ahead, Returning, Reachable, Clean, Unwritten,
       Overdone, Target, Busy, At, Keeps, Marks, Forward, Backward
  <2>6. Restorable'
    BY <1>0, <2>1 DEF Inductive, Recorded, Ahead, Returning, Restorable, Tolerable,
       Unwritten, Overdone, Target, Busy, At, Keeps, Marks, Forward, Backward
  <2> QED BY <2>2, <2>3, <2>4, <2>5, <2>6 DEF Inductive
<1>33. ASSUME LateRestart PROVE Inductive'
  <2>1. /\ runtime' = config.port /\ helper' = helper
        /\ UNCHANGED <<config, metadata, journal, rules, faults, kills, edits, reply>>
    BY <1>33, <1>0 DEF LateRestart
  <2>2. Recorded'
    BY <1>0, <2>1 DEF Inductive, Recorded, Busy, Entry, At, Keeps, Forward, Backward
  <2>3. Ahead'
    BY <1>0, <2>1 DEF Inductive, Recorded, Ahead, At, Keeps, Marks
  <2>4. Returning'
    BY <1>0, <2>1 DEF Inductive, Recorded, Ahead, Returning, Busy, Target, Changed, At,
       Keeps, Marks, Forward, Backward, Restorable, Tolerable, Unwritten, Overdone
  <2>5. Reachable'
    BY <1>0, <2>1 DEF Inductive, Recorded, Ahead, Returning, Reachable, Clean, Unwritten,
       Overdone, Target, Busy, At, Keeps, Marks, Forward, Backward
  <2>6. Restorable'
    BY <1>0, <2>1 DEF Inductive, Recorded, Ahead, Returning, Restorable, Tolerable,
       Unwritten, Overdone, Target, Busy, At, Keeps, Marks, Forward, Backward
  <2> QED BY <2>2, <2>3, <2>4, <2>5, <2>6 DEF Inductive
<1>34. ASSUME EditConfig PROVE Inductive'
  <2>1. /\ config'.port = config.port /\ edits' = edits + 1 /\ helper' = helper
        /\ UNCHANGED <<metadata, journal, runtime, rules, faults, kills, reply>>
    BY <1>34, <1>0 DEF EditConfig, Config
  <2>2. Recorded'
    BY <1>0, <2>1 DEF Inductive, Recorded, Busy, Entry, At, Keeps, Forward, Backward
  <2>3. Ahead'
    BY <1>0, <2>1 DEF Inductive, Recorded, Ahead, At, Keeps, Marks
  <2>4. Returning'
    BY <1>0, <2>1 DEF Inductive, Recorded, Ahead, Returning, Busy, Target, Changed, At,
       Keeps, Marks, Forward, Backward, Restorable, Tolerable, Unwritten, Overdone
  <2>5. Reachable'
    BY <1>0, <2>1 DEF Inductive, Recorded, Ahead, Returning, Reachable, Clean, Unwritten,
       Overdone, Target, Busy, At, Keeps, Marks, Forward, Backward
  <2>6. Restorable'
    BY <1>0, <2>1 DEF Inductive, Recorded, Ahead, Returning, Restorable, Tolerable,
       Unwritten, Overdone, Target, Busy, At, Keeps, Marks, Forward, Backward
  <2> QED BY <2>2, <2>3, <2>4, <2>5, <2>6 DEF Inductive
<1>35. ASSUME NEW p \in Ports, EditRule(p) PROVE Inductive'
  <2>0. journal.pending => journal.old \in Ports
    BY <1>0, JournalEntry
  <2>1. /\ edits' = edits + 1 /\ helper' = helper
        /\ \/ rules' = [rules EXCEPT ![p] = "other"]
           \/ /\ helper.stage = "idle" /\ ~ journal.pending
              /\ p \notin {config.port, runtime} /\ rules' = [rules EXCEPT ![p] = "none"]
        /\ UNCHANGED <<config, metadata, journal, runtime, faults, kills, reply>>
    <3>1. /\ edits' = edits + 1 /\ helper' = helper
      BY <1>35, <1>0 DEF EditRule, At
    <3>2. /\ \/ rules' = [rules EXCEPT ![p] = "other"]
             \/ /\ helper.stage = "idle" /\ ~ journal.pending
                /\ p \notin {config.port, runtime} /\ rules' = [rules EXCEPT ![p] = "none"]
      BY <1>35, <1>0 DEF EditRule, At
    <3>3. /\ UNCHANGED <<config, metadata, journal, runtime, faults, kills, reply>>
      BY <1>35, <1>0 DEF EditRule, At
    <3> QED BY <3>1, <3>2, <3>3
  <2>2. Recorded'
    BY <1>0, <2>0, <2>1 DEF Inductive, Recorded, Busy, Entry, At, Keeps, Forward, Backward
  <2>3. Ahead'
    BY <1>0, <2>1 DEF Inductive, Recorded, Ahead, At, Keeps, Marks
  <2>4. Returning'
    BY <1>0, <2>1 DEF Inductive, Recorded, Ahead, Returning, Busy, Target, Changed, At,
       Keeps, Marks, Forward, Backward, Restorable, Tolerable, Unwritten, Overdone
  <2>5. Reachable'
    BY <1>0, <2>1 DEF Inductive, Recorded, Ahead, Returning, Reachable, Clean, Unwritten,
       Overdone, Target, Busy, At, Keeps, Marks, Forward, Backward
  <2>6. Restorable'
    BY <1>0, <2>1 DEF Inductive, Recorded, Ahead, Returning, Restorable, Tolerable,
       Unwritten, Overdone, Target, Busy, At, Keeps, Marks, Forward, Backward
  <2> QED BY <2>2, <2>3, <2>4, <2>5, <2>6 DEF Inductive
<1>36. ASSUME UNCHANGED vars PROVE Inductive'
  <2>1. /\ helper' = helper
        /\ UNCHANGED <<config, metadata, journal, runtime, rules, faults, kills, edits, reply>>
    BY <1>36, <1>0 DEF vars, vars
  <2>2. Recorded'
    BY <1>0, <2>1 DEF Inductive, Recorded, Busy, Entry, At, Keeps, Forward, Backward
  <2>3. Ahead'
    BY <1>0, <2>1 DEF Inductive, Recorded, Ahead, At, Keeps, Marks
  <2>4. Returning'
    BY <1>0, <2>1 DEF Inductive, Recorded, Ahead, Returning, Busy, Target, Changed, At,
       Keeps, Marks, Forward, Backward, Restorable, Tolerable, Unwritten, Overdone
  <2>5. Reachable'
    BY <1>0, <2>1 DEF Inductive, Recorded, Ahead, Returning, Reachable, Clean, Unwritten,
       Overdone, Target, Busy, At, Keeps, Marks, Forward, Backward
  <2>6. Restorable'
    BY <1>0, <2>1 DEF Inductive, Recorded, Ahead, Returning, Restorable, Tolerable,
       Unwritten, Overdone, Target, Busy, At, Keeps, Marks, Forward, Backward
  <2> QED BY <2>2, <2>3, <2>4, <2>5, <2>6 DEF Inductive
<1> QED BY <1>1, <1>2, <1>3, <1>4, <1>5, <1>6, <1>7, <1>8, <1>9, <1>10, <1>11, <1>12,
    <1>13, <1>14, <1>15, <1>16, <1>17, <1>18, <1>19, <1>20, <1>21, <1>22, <1>23, <1>24,
    <1>25, <1>26, <1>27, <1>28, <1>29, <1>30, <1>31, <1>32, <1>33, <1>34, <1>35, <1>36
    DEF Next, Work, Failure, Environment

\* The invariant holds in every reachable state.
LEMMA AlwaysInductive == Spec => [](Typed /\ Inductive)
<1>1. Init => Typed /\ Inductive
  BY InitTyped, InitInductive
<1>2. Typed /\ Inductive /\ [Next]_vars => (Typed /\ Inductive)'
  BY NextTyped, NextInductive
<1> QED BY <1>1, <1>2, PTL DEF Spec

\* "The port that the interface listens on is open at every instant", whatever kills and
\* reboots happen, with any failures of writes and commands or any edits by hand.
THEOREM ServedPortsAreOpen == Spec => []ServedPortOpen
<1>1. Typed /\ Inductive => ServedPortOpen
  BY DEF Inductive, Reachable, Clean, ServedPortOpen
<1> QED BY <1>1, AlwaysInductive, PTL

\* Whatever is half done is in the journal: with no migration pending and no helper at
\* work the configuration, the metadata and the interface have one port.
THEOREM RestIsConsistent == Spec => []ConsistentAtRest
<1>1. Typed /\ Inductive => ConsistentAtRest
  <2>1. ASSUME Typed, Inductive, At("idle"), ~ journal.pending, Tolerable
        PROVE  config.port = metadata /\ runtime = metadata
    BY <2>1 DEF Inductive, Restorable, At
  <2> QED BY <2>1 DEF ConsistentAtRest, Typed
<1> QED BY <1>1, AlwaysInductive, PTL

\* A rollback that reports the original error has put both files and the interface back on
\* the old port.
THEOREM FailuresRestore == Spec => FailureRestores
<1>1. Typed /\ Inductive /\ [Next]_vars =>
        [At("unlinkBack") /\ ~ helper.recovering /\ reply' = "failed" /\ Tolerable
           => config'.port = helper.old /\ metadata' = helper.old /\ runtime' = helper.old]_vars
  <2> SUFFICES ASSUME Typed, Inductive, [Next]_vars, At("unlinkBack"), ~ helper.recovering,
                      reply' = "failed", Tolerable
               PROVE  config'.port = helper.old /\ metadata' = helper.old
                      /\ runtime' = helper.old
    OBVIOUS
  <2>0. At("unlinkBack") /\ helper.stage = "unlinkBack" /\ reply = "none" /\ faults \in Nat
    <3>1. faults \in 0..MaxFaults
      BY DEF Typed, TypeOK
    <3> QED BY <3>1, BoundAssumption DEF Inductive, Recorded, At
  <2>1. reply' # reply
    BY <2>0
  <2>2. UnlinkBack \/ UnlinkBackFails \/ Kill \/ Reboot
    BY <2>0, <2>1 DEF Next, Work, Failure, Environment, At, Call, List, Preflight,
       StartJournal,
       Allow, Write, WriteFails, Switch, Sync, Verify, VerifyFails, Finish, MetaBack,
       MetaBackFails, ConfigBack, SyncBack, VerifyBack, VerifyBackFails, RuleBack,
       RuleBackFails, PreflightFails, StartJournalFails, AllowFails, SwitchFails, SyncFails,
       FinishFails, ConfigBackFails, SyncBackFails, LateRestart, EditConfig, EditRule, vars
  <2>3. ~ Kill /\ ~ Reboot /\ ~ UnlinkBackFails
    BY DEF Kill, Reboot, UnlinkBackFails, Answer
  <2>4. UnlinkBack /\ ~ helper.failures
    BY <2>2, <2>3 DEF UnlinkBack, Answer
  <2>5. UNCHANGED <<config, metadata, runtime>>
    BY <2>4 DEF UnlinkBack, system
  <2>6. config.port = helper.old /\ runtime = helper.old
    BY <2>0, <2>4 DEF Inductive, Restorable
  <2>7. faults <= 1
    BY <2>0 DEF Tolerable
  <2>8. metadata = helper.old
    BY <2>0, <2>4, <2>7 DEF Inductive, Returning, Backward
  <2> QED BY <2>5, <2>6, <2>8
<1> QED BY <1>1, AlwaysInductive, PTL DEF Spec, FailureRestores

\* A step that writes the configuration writes a text that is there, or a newer one.
LEMMA TextIsKept == Typed /\ [Next]_vars => config'.text >= config.text
<1> SUFFICES ASSUME Typed, [Next]_vars PROVE config'.text >= config.text
  OBVIOUS
<1>0. /\ config \in Config /\ config.text \in Nat /\ helper.config \in Config
      /\ helper.new \in Ports
  <2>1. config \in Config /\ helper \in Helper
    BY DEF Typed, TypeOK
  <2> QED BY <2>1, BoundAssumption DEF Config, Text, Helper
<1>1. Changed(helper.config, helper.new).text = helper.config.text
  BY <1>0, ChangedTyped
<1>2. CASE UNCHANGED config
  BY <1>0, <1>2
<1>3. CASE Write \/ WriteFails
  <2>1. \/ config' = config
        \/ config = helper.config /\ config' = Changed(helper.config, helper.new)
    BY <1>3 DEF Write, WriteFails
  <2> QED BY <2>1, <1>0, <1>1
<1>4. CASE ConfigBack \/ ConfigBackFails
  <2>1. \/ config' = config
        \/ config = Changed(helper.config, helper.new) /\ config' = helper.config
    BY <1>4 DEF ConfigBack, ConfigBackFails
  <2> QED BY <2>1, <1>0, <1>1
<1>5. CASE EditConfig
  <2>1. config'.text = config.text + 1
    BY <1>5, <1>0 DEF EditConfig, Config
  <2> QED BY <2>1, <1>0
<1>6. UNCHANGED config \/ Write \/ WriteFails \/ ConfigBack \/ ConfigBackFails \/ EditConfig
  BY DEF Next, Work, Failure, Environment, Call, List, Preflight, StartJournal, Allow,
     Switch,
     Sync, Verify, VerifyFails, Finish, MetaBack, MetaBackFails, SyncBack, VerifyBack,
     VerifyBackFails, RuleBack, RuleBackFails, UnlinkBack, PreflightFails, StartJournalFails,
     AllowFails, SwitchFails, SyncFails, FinishFails, SyncBackFails, UnlinkBackFails, Kill,
     Reboot, LateRestart, EditRule, vars, files
<1> QED BY <1>2, <1>3, <1>4, <1>5, <1>6

\* No rollback and no recovery undoes what the operator wrote into the configuration, at
\* whatever time it comes.
THEOREM EditsAreKept == Spec => EditsSurvive
<1>1. Typed /\ [Next]_vars => [config'.text >= config.text]_vars
  BY TextIsKept
<1> QED BY <1>1, AlwaysTyped, PTL DEF Spec, EditsSurvive

===============================================================================
