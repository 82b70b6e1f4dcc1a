------------------------ MODULE PeerControllerProofs ------------------------
(***************************************************************************)
(* Theorems about PeerController, for any number of helpers, keys, nonces  *)
(* and addresses and any number of failures, kills, reboots and edits.     *)
(***************************************************************************)
EXTENDS PeerController, WellFoundedInduction, TLAPS

-----------------------------------------------------------------------------
(* The first free address                                                  *)

\* A set of natural numbers that is not empty has a least element.
LEMMA LeastExists ==
    ASSUME NEW S, S \subseteq Nat, S # {}
    PROVE  \E a \in S : \A b \in S : a <= b
<1> DEFINE Less == OpToRel(<, Nat)
<1>1. \E a \in S : \A b \in S : ~ (<<b, a>> \in Less)
  BY NatLessThanWellFounded, WFMin
<1>2. \A a, b \in Nat : b < a => <<b, a>> \in Less
  BY DEF OpToRel
<1>3. \A a, b \in Nat : b < a \/ a <= b
  OBVIOUS
<1> HIDE DEF Less
<1> QED BY <1>1, <1>2, <1>3, Zenon

\* The address that a creation takes is one of the network that no peer of the
\* file has.
LEMMA FirstFreeIsFree ==
    ASSUME NEW c, FreeHosts(c) # {}
    PROVE  FirstFree(c) \in Hosts /\ FirstFree(c) \notin UsedHosts(c)
<1>1. FreeHosts(c) \subseteq Nat
  BY HostsAssumption DEF FreeHosts
<1>2. \E a \in FreeHosts(c) : \A b \in FreeHosts(c) : a <= b
  BY <1>1, LeastExists
<1>3. FirstFree(c) \in FreeHosts(c)
  BY <1>2 DEF FirstFree
<1> QED BY <1>3 DEF FreeHosts

-----------------------------------------------------------------------------
(* The targets of the operations                                           *)

\* A creation turns a configuration into a configuration.
LEMMA WithPeerType ==
    ASSUME NEW c \in Config, NEW k \in Keys, NEW n \in Nonces, FreeHosts(c) # {}
    PROVE  WithPeer(c, k, n) \in Config
<1>1. [status |-> "enabled", host |-> FirstFree(c)] \in Peer
  BY FirstFreeIsFree DEF Peer
<1> QED BY <1>1 DEF WithPeer, Config

\* So does a change of a peer that is in it.
LEMMA TargetType ==
    ASSUME NEW c \in Config, NEW op \in Mutations, NEW k \in Present(c)
    PROVE  Target(op, c, k) \in Config
<1>1. k \in Keys /\ c.peers[k] \in [status : {"enabled", "disabled"}, host : Hosts]
  BY DEF Present, Config, Peer
<1>2. \A s \in {"enabled", "disabled"} : WithStatus(c, k, s) \in Config
  BY <1>1 DEF WithStatus, Config, Peer
<1>3. WithoutPeer(c, k) \in Config
  BY <1>1 DEF WithoutPeer, Config, Peer
<1> QED BY <1>2, <1>3 DEF Target, Mutations

\* A restart serves peers of the network.
LEMMA RestartedType ==
    ASSUME NEW c \in Config
    PROVE  Restarted(c) \in [up : BOOLEAN, peers : SUBSET (Keys \X Hosts)]
<1>1. \A k \in Enabled(c) : c.peers[k].host \in Hosts
  BY DEF Enabled, Config, Peer, Absent
<1>2. Active(c) \subseteq Keys \X Hosts
  BY <1>1 DEF Active, Enabled
<1> QED BY <1>2 DEF Restarted

-----------------------------------------------------------------------------
(* Type correctness                                                        *)

\* What a process carries with its stage: a creation has a nonce, a change of a
\* peer a key, and only they write the file.
Shaped(p) ==
    /\ p.op = "create" => p.nonce \in Nonces
    /\ p.op \in Mutations \cup {"config"} => p.key \in Keys
    /\ p.stage \in Undecided \cup {"unlinking"} =>
          p.op \in Mutations \cup {"create"} /\ p.key \in Keys
    /\ p.stage = "storing" => p.op = "create"
    /\ p.stage = "unlinking" => p.op = "delete"

Requesting == {p \in Process : Shaped(p)}

\* TypeOK is not inductive by itself: what Store and Unlink record is a nonce and
\* a key only because of the shape of the request.
Typed == TypeOK /\ proc \in [Helpers -> Requesting]

\* A process that rests carries nothing.
LEMMA RestIsRequesting == Rest \in Requesting
BY DEF Rest, Requesting, Shaped, Process, EmptyConfig, Config, Peer, Stages, Undecided,
       Operations, Mutations

\* The start is typed.
LEMMA InitTyped == Init => Typed
<1> SUFFICES ASSUME Init PROVE Typed
  OBVIOUS
<1>1. config \in Config
  BY DEF Init, Config, Peer, Absent
<1>2. runtime \in [up : BOOLEAN, peers : SUBSET (Keys \X Hosts)]
  BY <1>1, RestartedType DEF Init
<1>3. proc \in [Helpers -> Process] /\ proc \in [Helpers -> Requesting]
  BY RestIsRequesting DEF Init, Requesting
<1>4. faults \in 0..MaxFaults /\ kills \in 0..MaxKills /\ edits \in 0..MaxEdits
  BY BoundAssumption DEF Init
<1>5. /\ stored = {} /\ late = FALSE /\ lock = NoOne /\ drawn = Protected
      /\ issued = {} /\ gone = {} /\ byHand = {} /\ damaged = FALSE
      /\ reply = [h \in Helpers |-> "none"]
  BY DEF Init
<1> QED BY <1>1, <1>2, <1>3, <1>4, <1>5, ProtectedAssumption DEF TypeOK, Typed

\* Moving on to another stage keeps the process typed.
LEMMA GotoTyped ==
    ASSUME Typed, NEW h \in Helpers, NEW s \in Stages, Goto(h, s),
           s \in Undecided \cup {"unlinking"} => proc[h].stage \in Undecided,
           s = "storing" => proc[h].op = "create",
           s = "unlinking" => proc[h].op = "delete"
    PROVE  proc' \in [Helpers -> Process] /\ proc' \in [Helpers -> Requesting]
<1>1. [proc[h] EXCEPT !.stage = s] \in Requesting
  BY DEF Typed, Requesting, Process, Shaped
<1> QED BY <1>1 DEF Typed, Goto, Requesting

\* So does an answer.
LEMMA AnswerTyped ==
    ASSUME Typed, NEW h \in Helpers, NEW o \in {"none", "ok", "failed"}, Answer(h, o)
    PROVE  /\ proc' \in [Helpers -> Process] /\ proc' \in [Helpers -> Requesting]
           /\ reply' \in [Helpers -> {"none", "ok", "failed"}]
           /\ lock' \in Helpers \cup {NoOne}
BY RestIsRequesting DEF Typed, TypeOK, Answer, Requesting

\* A budget that is spent stays within its bound.
LEMMA FaultTyped ==
    ASSUME Typed, Fault
    PROVE  faults' \in 0..MaxFaults /\ kills' \in 0..MaxKills /\ edits' \in 0..MaxEdits
BY BoundAssumption DEF Typed, TypeOK, Fault

\* A restart that failed leaves the interface as it was, or down.
LEMMA FailedRestartTyped ==
    ASSUME Typed, FailedRestart
    PROVE  runtime' \in [up : BOOLEAN, peers : SUBSET (Keys \X Hosts)] /\ late' \in BOOLEAN
<1>1. [up |-> FALSE, peers |-> {}] \in [up : BOOLEAN, peers : SUBSET (Keys \X Hosts)]
  OBVIOUS
<1>2. late' = late \/ late' = TRUE
  BY DEF FailedRestart
<1> QED BY <1>1, <1>2 DEF Typed, TypeOK, FailedRestart

\* No step of the helpers, of what fails, or of the environment leaves the types.
LEMMA NextTyped == Typed /\ [Next]_vars => Typed'
<1> SUFFICES ASSUME Typed, [Next]_vars PROVE Typed'
  OBVIOUS
<1> USE DEF history, budget
<1>1. ASSUME NEW h \in Helpers,
            \E op \in Operations, k \in Keys \cup {NoKey}, n \in Nonces \cup {NoNonce} :
               Request(h, op, k, n)
     PROVE  Typed'
  <2>1. PICK op \in Operations, k \in Keys \cup {NoKey}, n \in Nonces \cup {NoNonce} :
           Request(h, op, k, n)
    BY <1>1
  <2>2. [Rest EXCEPT !.stage = "waiting", !.op = op, !.key = k, !.nonce = n] \in Requesting
    BY <2>1, RestIsRequesting
    DEF Request, Requesting, Shaped, Process, Stages, Undecided, Mutations, Operations
  <2>3. proc' \in [Helpers -> Process] /\ proc' \in [Helpers -> Requesting]
    BY <2>1, <2>2 DEF Request, Typed, Requesting
  <2> QED BY <2>1, <2>3 DEF Request, Typed, TypeOK
<1>2. ASSUME NEW h \in Helpers, Acquire(h) PROVE Typed'
  BY <1>2, GotoTyped DEF Acquire, Typed, TypeOK, At, Stages, Undecided
<1>3. ASSUME NEW h \in Helpers, GiveUp(h) PROVE Typed'
  BY <1>3, AnswerTyped DEF GiveUp, Typed, TypeOK
<1>4. ASSUME NEW h \in Helpers, List(h) PROVE Typed'
  <2>1. Present(config) \subseteq Keys
    BY DEF Present
  <2>2. CASE proc[h].op = "list"
    BY <1>4, <2>2, AnswerTyped DEF List, Typed, TypeOK
  <2>3. CASE proc[h].op # "list"
    <3>1. [proc[h] EXCEPT !.stage = "planning", !.mutable = Present(config) \ Protected,
                          !.before = Present(config)] \in Requesting
      BY <2>1 DEF Typed, Requesting, Shaped, Process, Stages, Undecided
    <3>2. proc' \in [Helpers -> Process] /\ proc' \in [Helpers -> Requesting]
      BY <1>4, <2>3, <3>1 DEF List, Typed, Requesting
    <3> QED BY <1>4, <2>3, <3>2 DEF List, Typed, TypeOK
  <2> QED BY <2>2, <2>3
<1>5. ASSUME NEW h \in Helpers, ListFails(h) PROVE Typed'
  BY <1>5, AnswerTyped DEF ListFails, Typed, TypeOK
<1>6. ASSUME NEW h \in Helpers, PlanFails(h) PROVE Typed'
  BY <1>6, AnswerTyped, FaultTyped DEF PlanFails, Typed, TypeOK
<1>7. ASSUME NEW h \in Helpers, PlanCreate(h) PROVE Typed'
  <2>1. PICK k \in Keys \ drawn :
           /\ drawn' = drawn \cup {k}
           /\ proc' = [proc EXCEPT ![h].stage = "checking", ![h].key = k,
                                   ![h].source = config,
                                   ![h].target = WithPeer(config, k, proc[h].nonce)]
    BY <1>7 DEF PlanCreate
  <2>2. proc[h].nonce \in Nonces
    BY <1>7 DEF PlanCreate, Typed, Requesting, Shaped
  <2>3. WithPeer(config, k, proc[h].nonce) \in Config
    BY <1>7, <2>2, WithPeerType DEF PlanCreate, MayCreate, Typed, TypeOK
  <2>4. [proc[h] EXCEPT !.stage = "checking", !.key = k, !.source = config,
                        !.target = WithPeer(config, k, proc[h].nonce)] \in Requesting
    <3> DEFINE next == [proc[h] EXCEPT !.stage = "checking", !.key = k, !.source = config,
                                       !.target = WithPeer(config, k, proc[h].nonce)]
    <3>0. proc[h] \in Process /\ config \in Config
      BY DEF Typed, TypeOK
    <3>1. next \in Process
      BY <2>3, <3>0 DEF Process, Stages
    <3>2. /\ next.op = "create" /\ next.nonce = proc[h].nonce
          /\ next.stage = "checking" /\ next.key = k
      BY <1>7 DEF PlanCreate, Typed, TypeOK, Process
    <3> HIDE DEF next
    <3>3. Shaped(next)
      BY <2>2, <3>2 DEF Shaped, Mutations
    <3> QED BY <3>1, <3>3 DEF Requesting, next
  <2>5. proc' \in [Helpers -> Process] /\ proc' \in [Helpers -> Requesting]
    BY <2>1, <2>4 DEF Typed, Requesting
  <2> QED BY <1>7, <2>1, <2>5 DEF PlanCreate, Typed, TypeOK
<1>8. ASSUME NEW h \in Helpers, PlanMutation(h) PROVE Typed'
  <2> DEFINE target == Target(proc[h].op, config, proc[h].key)
  <2>1. CASE target = config
    BY <1>8, <2>1, AnswerTyped DEF PlanMutation, Typed, TypeOK
  <2>2. CASE target # config
    <3>1. target \in Config
      BY <1>8, TargetType DEF PlanMutation, MayMutate, Typed, TypeOK
    <3> HIDE DEF target
    <3> DEFINE next == [proc[h] EXCEPT !.stage = "checking", !.source = config,
                                       !.target = target]
    <3>2. next \in Requesting
      <4>0. proc[h] \in Process /\ config \in Config
        BY DEF Typed, TypeOK
      <4>1. next \in Process
        BY <3>1, <4>0 DEF Process, Stages
      <4>2. /\ next.op = proc[h].op /\ next.nonce = proc[h].nonce
            /\ next.stage = "checking" /\ next.key = proc[h].key
        BY DEF Typed, TypeOK, Process
      <4>3. proc[h].op \in Mutations /\ proc[h].key \in Keys
        BY <1>8 DEF PlanMutation, MayMutate, Present
      <4> HIDE DEF next
      <4>4. Shaped(next)
        BY <4>2, <4>3 DEF Shaped, Mutations
      <4> QED BY <4>1, <4>4 DEF Requesting
    <3>3. proc' = [proc EXCEPT ![h].stage = "checking", ![h].source = config,
                               ![h].target = target]
      BY <1>8, <2>2 DEF PlanMutation, target
    <3>4. proc' \in [Helpers -> Process] /\ proc' \in [Helpers -> Requesting]
      BY <3>2, <3>3 DEF Typed, Requesting
    <3> QED BY <1>8, <2>2, <3>4 DEF PlanMutation, Typed, TypeOK, target
  <2> QED BY <2>1, <2>2
<1>9. ASSUME NEW h \in Helpers, Load(h) PROVE Typed'
  BY <1>9, AnswerTyped DEF Load, Typed, TypeOK
<1>10. ASSUME NEW h \in Helpers, Refuse(h) PROVE Typed'
  BY <1>10, AnswerTyped DEF Refuse, Typed, TypeOK
<1>11. ASSUME NEW h \in Helpers, Check(h) PROVE Typed'
  BY <1>11, GotoTyped DEF Check, Typed, TypeOK, At, Stages, Undecided
<1>12. ASSUME NEW h \in Helpers, Drift(h) PROVE Typed'
  BY <1>12, GotoTyped DEF Drift, Typed, TypeOK, At, Stages, Undecided
<1>13. ASSUME NEW h \in Helpers, Replace(h) PROVE Typed'
  <2>1. config' \in Config
    BY <1>13 DEF Replace, Typed, TypeOK, Process
  <2> QED BY <1>13, <2>1, GotoTyped DEF Replace, Typed, TypeOK, At, Stages, Undecided
<1>14. ASSUME NEW h \in Helpers, ReplaceFails(h) PROVE Typed'
  <2>1. config' \in Config
    BY <1>14 DEF ReplaceFails, Typed, TypeOK, Process
  <2> QED BY <1>14, <2>1, GotoTyped, FaultTyped
      DEF ReplaceFails, Typed, TypeOK, At, Stages, Undecided
<1>15. ASSUME NEW h \in Helpers, Sync(h) PROVE Typed'
  BY <1>15, GotoTyped, RestartedType DEF Sync, Typed, TypeOK, At, Stages, Undecided
<1>16. ASSUME NEW h \in Helpers, SyncFails(h) PROVE Typed'
  BY <1>16, GotoTyped, FaultTyped, FailedRestartTyped DEF SyncFails, Typed, TypeOK, At,
      Stages, Undecided
<1>17. ASSUME NEW h \in Helpers, ReadBack(h) PROVE Typed'
  <2>1. CASE proc[h].op = "create"
    BY <1>17, <2>1, GotoTyped DEF ReadBack, Typed, TypeOK, At, Stages, Undecided
  <2>2. CASE proc[h].op = "delete"
    BY <1>17, <2>2, GotoTyped DEF ReadBack, Typed, TypeOK, At, Stages, Undecided
  <2>3. CASE proc[h].op \notin {"create", "delete"}
    BY <1>17, <2>3, AnswerTyped DEF ReadBack, Typed, TypeOK
  <2> QED BY <2>1, <2>2, <2>3
<1>18. ASSUME NEW h \in Helpers, ReadBackFails(h) PROVE Typed'
  BY <1>18, GotoTyped, FaultTyped DEF ReadBackFails, Typed, TypeOK, At, Stages, Undecided
<1>19. ASSUME NEW h \in Helpers, Store(h) PROVE Typed'
  <2>1. proc[h].nonce \in Nonces /\ proc[h].key \in Keys
    BY <1>19 DEF Store, At, Typed, Requesting, Shaped, Undecided
  <2> QED BY <1>19, <2>1, AnswerTyped DEF Store, Typed, TypeOK
<1>20. ASSUME NEW h \in Helpers, StoreFails(h) PROVE Typed'
  <2>1. proc[h].key \in Keys
    BY <1>20 DEF StoreFails, At, Typed, Requesting, Shaped, Undecided
  <2> QED BY <1>20, <2>1, GotoTyped, FaultTyped
      DEF StoreFails, Typed, TypeOK, At, Stages, Undecided
<1>21. ASSUME NEW h \in Helpers, Unlink(h) PROVE Typed'
  <2>1. proc[h].key \in Keys
    BY <1>21 DEF Unlink, At, Typed, Requesting, Shaped
  <2> QED BY <1>21, <2>1, AnswerTyped DEF Unlink, Typed, TypeOK
<1>22. ASSUME NEW h \in Helpers, UnlinkFails(h) PROVE Typed'
  BY <1>22, AnswerTyped, FaultTyped DEF UnlinkFails, Typed, TypeOK
<1>23. ASSUME NEW h \in Helpers, NothingToUndo(h) PROVE Typed'
  BY <1>23, AnswerTyped DEF NothingToUndo, Typed, TypeOK
<1>24. ASSUME NEW h \in Helpers, ForeignFile(h) PROVE Typed'
  BY <1>24, AnswerTyped DEF ForeignFile, Typed, TypeOK
<1>25. ASSUME NEW h \in Helpers, Undo(h) PROVE Typed'
  BY <1>25, GotoTyped DEF Undo, Typed, TypeOK, At, Stages, Undecided
<1>26. ASSUME NEW h \in Helpers, UndoCheck(h) PROVE Typed'
  BY <1>26, GotoTyped, AnswerTyped DEF UndoCheck, Typed, TypeOK, At, Stages, Undecided
<1>27. ASSUME NEW h \in Helpers, UndoReplace(h) PROVE Typed'
  <2>1. config' \in Config
    BY <1>27 DEF UndoReplace, Typed, TypeOK, Process
  <2> QED BY <1>27, <2>1, GotoTyped DEF UndoReplace, Typed, TypeOK, At, Stages, Undecided
<1>28. ASSUME NEW h \in Helpers, UndoReplaceFails(h) PROVE Typed'
  <2>1. config' \in Config
    BY <1>28 DEF UndoReplaceFails, Typed, TypeOK, Process
  <2>2. CASE Goto(h, "unsynced") /\ UNCHANGED <<lock, reply, damaged>>
    BY <1>28, <2>1, <2>2, GotoTyped, FaultTyped
    DEF UndoReplaceFails, Typed, TypeOK, At, Stages, Undecided
  <2>3. CASE Answer(h, "failed") /\ damaged' = TRUE
    BY <1>28, <2>1, <2>3, AnswerTyped, FaultTyped DEF UndoReplaceFails, Typed, TypeOK
  <2> QED BY <1>28, <2>2, <2>3 DEF UndoReplaceFails
<1>29. ASSUME NEW h \in Helpers, UndoSync(h) PROVE Typed'
  BY <1>29, AnswerTyped, RestartedType DEF UndoSync, Typed, TypeOK
<1>30. ASSUME NEW h \in Helpers, UndoSyncFails(h) PROVE Typed'
  BY <1>30, AnswerTyped, FaultTyped, FailedRestartTyped DEF UndoSyncFails, Typed, TypeOK
<1>31. ASSUME NEW h \in Helpers, Kill(h) PROVE Typed'
  <2>1. kills' \in 0..MaxKills
    BY <1>31, BoundAssumption DEF Kill, Typed, TypeOK
  <2>2. late' \in BOOLEAN /\ damaged' \in BOOLEAN
    BY <1>31 DEF Kill, Typed, TypeOK
  <2> QED BY <1>31, <2>1, <2>2, AnswerTyped DEF Kill, Typed, TypeOK
<1>32. ASSUME Reboot PROVE Typed'
  <2>1. kills' \in 0..MaxKills
    BY <1>32, BoundAssumption DEF Reboot, Typed, TypeOK
  <2>2. proc' \in [Helpers -> Process] /\ proc' \in [Helpers -> Requesting]
    BY <1>32, RestIsRequesting DEF Reboot, Requesting
  <2> QED BY <1>32, <2>1, <2>2, RestartedType DEF Reboot, Typed, TypeOK
<1>33. ASSUME LateRestart PROVE Typed'
  BY <1>33, RestartedType DEF LateRestart, Typed, TypeOK
<1>34. ASSUME NEW k \in Keys, EditByHand(k) PROVE Typed'
  <2>1. edits' \in 0..MaxEdits
    BY <1>34, BoundAssumption DEF EditByHand, Typed, TypeOK
  <2>2. [status |-> "enabled", host |-> FirstFree(config)] \in Peer
    BY <1>34, FirstFreeIsFree DEF EditByHand, Peer
  <2>3. config' \in Config
    BY <1>34, <2>2 DEF EditByHand, Config, Typed, TypeOK
  <2> QED BY <1>34, <2>1, <2>3 DEF EditByHand, Typed, TypeOK
<1>35. ASSUME RestartByHand PROVE Typed'
  BY <1>35, RestartedType DEF RestartByHand, Typed, TypeOK
<1>36. ASSUME UNCHANGED vars PROVE Typed'
  BY <1>36 DEF vars, Typed, TypeOK
<1> QED BY <1>1, <1>2, <1>3, <1>4, <1>5, <1>6, <1>7, <1>8, <1>9, <1>10, <1>11, <1>12,
    <1>13, <1>14, <1>15, <1>16, <1>17, <1>18, <1>19, <1>20, <1>21, <1>22, <1>23, <1>24,
    <1>25, <1>26, <1>27, <1>28, <1>29, <1>30, <1>31, <1>32, <1>33, <1>34, <1>35, <1>36
    DEF Next, Work, Failure, Environment

\* Every variable keeps its type in every reachable state: the run checks it on
\* two helpers, this theorem states it for any number of everything.
THEOREM TypeCorrect == Spec => []TypeOK
<1>1. Spec => []Typed
  BY InitTyped, NextTyped, PTL DEF Spec
<1> QED BY <1>1, PTL DEF Typed

-----------------------------------------------------------------------------
(* Distinct addresses and the protected peer                               *)

Distinct(c) ==
    \A k, l \in Present(c) : c.peers[k].host = c.peers[l].host => k = l

Sound(c) == Distinct(c) /\ Protected \subseteq Enabled(c)

Careful(p) ==
    /\ p.mutable \cap Protected = {}
    /\ p.stage \in Undecided => Sound(p.source) /\ Sound(p.target)

\* What a helper is about to write, and what it would restore, is as sound as the
\* file: either may become the file, in whatever state the file is by then.
SoundThroughout ==
    /\ Sound(config)
    /\ Protected \subseteq drawn
    /\ \A h \in Helpers : Careful(proc[h])

\* A creation gives the new peer an address of its own and leaves the others alone.
LEMMA WithPeerSound ==
    ASSUME NEW c \in Config, NEW k \in Keys \ Protected, NEW n, Sound(c), FreeHosts(c) # {}
    PROVE  Sound(WithPeer(c, k, n))
<1> DEFINE t == WithPeer(c, k, n)
<1>1. /\ \A l \in Keys \ {k} : t.peers[l] = c.peers[l]
      /\ t.peers[k] = [status |-> "enabled", host |-> FirstFree(c)]
  BY DEF WithPeer, Config
<1>2. \A l \in Present(c) : c.peers[l].host # FirstFree(c)
  BY FirstFreeIsFree DEF UsedHosts
<1> HIDE DEF t
<1>3. Distinct(t)
  BY <1>1, <1>2 DEF Sound, Distinct, Present
<1>4. Protected \subseteq Enabled(t)
  BY <1>1 DEF Sound, Enabled
<1> QED BY <1>3, <1>4 DEF Sound, t

\* A change of an unprotected peer moves no address and leaves the others alone.
LEMMA TargetSound ==
    ASSUME NEW c \in Config, NEW op \in Mutations, NEW k \in Present(c) \ Protected, Sound(c)
    PROVE  Sound(Target(op, c, k))
<1> DEFINE t == Target(op, c, k)
<1>1. /\ \A l \in Keys \ {k} : t.peers[l] = c.peers[l]
      /\ t.peers[k] = Absent \/ t.peers[k].host = c.peers[k].host
  BY DEF Target, Mutations, WithStatus, WithoutPeer, Config, Present
<1> HIDE DEF t
<1>2. Distinct(t)
  BY <1>1 DEF Sound, Distinct, Present
<1>3. Protected \subseteq Enabled(t)
  BY <1>1 DEF Sound, Enabled
<1> QED BY <1>2, <1>3 DEF Sound, t

\* A process that rests has nothing to write.
LEMMA RestCareful == Careful(Rest)
BY DEF Careful, Rest, Undecided

\* Moving on to another stage keeps every process careful.
LEMMA GotoCareful ==
    ASSUME Typed, SoundThroughout, NEW h \in Helpers, NEW s, Goto(h, s),
           s \in Undecided => proc[h].stage \in Undecided
    PROVE  \A g \in Helpers : Careful(proc'[g])
BY DEF Typed, TypeOK, SoundThroughout, Careful, Goto, Process

\* So does an answer.
LEMMA AnswerCareful ==
    ASSUME Typed, SoundThroughout, NEW h \in Helpers, NEW o, Answer(h, o)
    PROVE  \A g \in Helpers : Careful(proc'[g])
BY RestCareful DEF Typed, TypeOK, SoundThroughout, Answer

\* The start is sound.
LEMMA InitSound == Init => SoundThroughout
<1> SUFFICES ASSUME Init PROVE SoundThroughout
  OBVIOUS
<1>1. \A k \in Protected : config.peers[k].status = "enabled"
  BY ProtectedAssumption DEF Init, Present, Absent
<1>2. Sound(config)
  BY <1>1, ProtectedAssumption DEF Init, Sound, Distinct, Enabled
<1> QED BY <1>2, RestCareful DEF Init, SoundThroughout

\* Every step keeps the file, and what may be written to it, sound.
LEMMA NextSound == Typed /\ SoundThroughout /\ [Next]_vars => SoundThroughout'
<1> SUFFICES ASSUME Typed, SoundThroughout, [Next]_vars PROVE SoundThroughout'
  OBVIOUS
<1> USE DEF history, budget
<1>1. ASSUME NEW h \in Helpers,
            \E op \in Operations, k \in Keys \cup {NoKey}, n \in Nonces \cup {NoNonce} :
               Request(h, op, k, n)
     PROVE  SoundThroughout'
  <2>1. PICK op \in Operations, k \in Keys \cup {NoKey}, n \in Nonces \cup {NoNonce} :
           Request(h, op, k, n)
    BY <1>1
  <2>2. Careful([Rest EXCEPT !.stage = "waiting", !.op = op, !.key = k, !.nonce = n])
    BY DEF Careful, Rest, Undecided
  <2> QED BY <2>1, <2>2 DEF Request, SoundThroughout, Typed, TypeOK
<1>2. ASSUME NEW h \in Helpers, Acquire(h) PROVE SoundThroughout'
  BY <1>2, GotoCareful DEF Acquire, At, SoundThroughout, Undecided
<1>3. ASSUME NEW h \in Helpers, GiveUp(h) PROVE SoundThroughout'
  BY <1>3, AnswerCareful DEF GiveUp, SoundThroughout
<1>4. ASSUME NEW h \in Helpers, List(h) PROVE SoundThroughout'
  <2>1. CASE proc[h].op = "list"
    BY <1>4, <2>1, AnswerCareful DEF List, SoundThroughout
  <2>2. CASE proc[h].op # "list"
    <3>1. Careful([proc[h] EXCEPT !.stage = "planning",
                                  !.mutable = Present(config) \ Protected,
                                  !.before = Present(config)])
      BY DEF Typed, TypeOK, Process, Careful, Undecided
    <3> QED BY <1>4, <2>2, <3>1 DEF List, SoundThroughout, Typed, TypeOK
  <2> QED BY <2>1, <2>2
<1>5. ASSUME NEW h \in Helpers, ListFails(h) PROVE SoundThroughout'
  BY <1>5, AnswerCareful DEF ListFails, SoundThroughout
<1>6. ASSUME NEW h \in Helpers, PlanFails(h) PROVE SoundThroughout'
  BY <1>6, AnswerCareful DEF PlanFails, SoundThroughout
<1>7. ASSUME NEW h \in Helpers, PlanCreate(h) PROVE SoundThroughout'
  <2>1. PICK k \in Keys \ drawn :
           /\ drawn' = drawn \cup {k}
           /\ proc' = [proc EXCEPT ![h].stage = "checking", ![h].key = k,
                                   ![h].source = config,
                                   ![h].target = WithPeer(config, k, proc[h].nonce)]
    BY <1>7 DEF PlanCreate
  <2>2. Sound(WithPeer(config, k, proc[h].nonce))
    BY <1>7, WithPeerSound DEF PlanCreate, MayCreate, SoundThroughout, Typed, TypeOK
  <2>3. Careful([proc[h] EXCEPT !.stage = "checking", !.key = k, !.source = config,
                                !.target = WithPeer(config, k, proc[h].nonce)])
    BY <2>2 DEF Careful, SoundThroughout, Typed, TypeOK, Process
  <2> QED BY <1>7, <2>1, <2>3 DEF PlanCreate, SoundThroughout, Typed, TypeOK
<1>8. ASSUME NEW h \in Helpers, PlanMutation(h) PROVE SoundThroughout'
  <2> DEFINE target == Target(proc[h].op, config, proc[h].key)
  <2>1. CASE target = config
    BY <1>8, <2>1, AnswerCareful DEF PlanMutation, SoundThroughout
  <2>2. CASE target # config
    <3>1. proc[h].key \in Present(config) \ Protected
      BY <1>8 DEF PlanMutation, MayMutate, SoundThroughout, Careful
    <3>2. Sound(target)
      BY <1>8, <3>1, TargetSound DEF PlanMutation, SoundThroughout, Typed, TypeOK
    <3>3. proc' = [proc EXCEPT ![h].stage = "checking", ![h].source = config,
                               ![h].target = target]
      BY <1>8, <2>2 DEF PlanMutation
    <3> HIDE DEF target
    <3>4. Careful([proc[h] EXCEPT !.stage = "checking", !.source = config,
                                  !.target = target])
      BY <3>2 DEF Careful, SoundThroughout, Typed, TypeOK, Process
    <3>5. UNCHANGED <<config, drawn>>
      BY <1>8 DEF PlanMutation
    <3> QED BY <3>3, <3>4, <3>5 DEF SoundThroughout, Typed, TypeOK
  <2> QED BY <2>1, <2>2
<1>9. ASSUME NEW h \in Helpers, Load(h) PROVE SoundThroughout'
  BY <1>9, AnswerCareful DEF Load, SoundThroughout
<1>10. ASSUME NEW h \in Helpers, Refuse(h) PROVE SoundThroughout'
  BY <1>10, AnswerCareful DEF Refuse, SoundThroughout
<1>11. ASSUME NEW h \in Helpers, Check(h) PROVE SoundThroughout'
  BY <1>11, GotoCareful DEF Check, At, SoundThroughout, Undecided
<1>12. ASSUME NEW h \in Helpers, Drift(h) PROVE SoundThroughout'
  BY <1>12, GotoCareful DEF Drift, At, SoundThroughout, Undecided
<1>13. ASSUME NEW h \in Helpers, Replace(h) PROVE SoundThroughout'
  BY <1>13, GotoCareful DEF Replace, At, SoundThroughout, Careful, Undecided
<1>14. ASSUME NEW h \in Helpers, ReplaceFails(h) PROVE SoundThroughout'
  BY <1>14, GotoCareful DEF ReplaceFails, At, SoundThroughout, Careful, Undecided
<1>15. ASSUME NEW h \in Helpers, Sync(h) PROVE SoundThroughout'
  BY <1>15, GotoCareful DEF Sync, At, SoundThroughout, Undecided
<1>16. ASSUME NEW h \in Helpers, SyncFails(h) PROVE SoundThroughout'
  BY <1>16, GotoCareful DEF SyncFails, At, SoundThroughout, Undecided
<1>17. ASSUME NEW h \in Helpers, ReadBack(h) PROVE SoundThroughout'
  <2>1. CASE proc[h].op = "create"
    BY <1>17, <2>1, GotoCareful DEF ReadBack, At, SoundThroughout, Undecided
  <2>2. CASE proc[h].op = "delete"
    BY <1>17, <2>2, GotoCareful DEF ReadBack, At, SoundThroughout, Undecided
  <2>3. CASE proc[h].op \notin {"create", "delete"}
    BY <1>17, <2>3, AnswerCareful DEF ReadBack, SoundThroughout
  <2> QED BY <2>1, <2>2, <2>3
<1>18. ASSUME NEW h \in Helpers, ReadBackFails(h) PROVE SoundThroughout'
  BY <1>18, GotoCareful DEF ReadBackFails, At, SoundThroughout, Undecided
<1>19. ASSUME NEW h \in Helpers, Store(h) PROVE SoundThroughout'
  BY <1>19, AnswerCareful DEF Store, SoundThroughout
<1>20. ASSUME NEW h \in Helpers, StoreFails(h) PROVE SoundThroughout'
  BY <1>20, GotoCareful DEF StoreFails, At, SoundThroughout, Undecided
<1>21. ASSUME NEW h \in Helpers, Unlink(h) PROVE SoundThroughout'
  BY <1>21, AnswerCareful DEF Unlink, SoundThroughout
<1>22. ASSUME NEW h \in Helpers, UnlinkFails(h) PROVE SoundThroughout'
  BY <1>22, AnswerCareful DEF UnlinkFails, SoundThroughout
<1>23. ASSUME NEW h \in Helpers, NothingToUndo(h) PROVE SoundThroughout'
  BY <1>23, AnswerCareful DEF NothingToUndo, SoundThroughout
<1>24. ASSUME NEW h \in Helpers, ForeignFile(h) PROVE SoundThroughout'
  BY <1>24, AnswerCareful DEF ForeignFile, SoundThroughout
<1>25. ASSUME NEW h \in Helpers, Undo(h) PROVE SoundThroughout'
  BY <1>25, GotoCareful DEF Undo, At, SoundThroughout, Undecided
<1>26. ASSUME NEW h \in Helpers, UndoCheck(h) PROVE SoundThroughout'
  BY <1>26, GotoCareful, AnswerCareful DEF UndoCheck, At, SoundThroughout, Undecided
<1>27. ASSUME NEW h \in Helpers, UndoReplace(h) PROVE SoundThroughout'
  BY <1>27, GotoCareful DEF UndoReplace, At, SoundThroughout, Careful, Undecided
<1>28. ASSUME NEW h \in Helpers, UndoReplaceFails(h) PROVE SoundThroughout'
  <2>1. Sound(config') /\ drawn' = drawn
    BY <1>28 DEF UndoReplaceFails, At, SoundThroughout, Careful, Undecided
  <2>2. \A g \in Helpers : Careful(proc'[g])
    BY <1>28, GotoCareful, AnswerCareful DEF UndoReplaceFails, At, Undecided
  <2> QED BY <2>1, <2>2 DEF SoundThroughout
<1>29. ASSUME NEW h \in Helpers, UndoSync(h) PROVE SoundThroughout'
  BY <1>29, AnswerCareful DEF UndoSync, SoundThroughout
<1>30. ASSUME NEW h \in Helpers, UndoSyncFails(h) PROVE SoundThroughout'
  BY <1>30, AnswerCareful DEF UndoSyncFails, SoundThroughout
<1>31. ASSUME NEW h \in Helpers, Kill(h) PROVE SoundThroughout'
  BY <1>31, AnswerCareful DEF Kill, SoundThroughout
<1>32. ASSUME Reboot PROVE SoundThroughout'
  BY <1>32, RestCareful DEF Reboot, SoundThroughout
<1>33. ASSUME LateRestart PROVE SoundThroughout'
  BY <1>33 DEF LateRestart, SoundThroughout
<1>34. ASSUME NEW k \in Keys, EditByHand(k) PROVE SoundThroughout'
  <2> DEFINE added == WithPeer(config, k, NoNonce)
  <2>1. Sound(added) /\ config'.peers = added.peers
    BY <1>34, WithPeerSound DEF EditByHand, SoundThroughout, Typed, TypeOK, WithPeer, Config
  <2>2. Sound(config')
    BY <2>1 DEF Sound, Distinct, Present, Enabled
  <2> QED BY <1>34, <2>2 DEF EditByHand, SoundThroughout
<1>35. ASSUME RestartByHand PROVE SoundThroughout'
  BY <1>35 DEF RestartByHand, SoundThroughout
<1>36. ASSUME UNCHANGED vars PROVE SoundThroughout'
  BY <1>36 DEF vars, SoundThroughout
<1> QED BY <1>1, <1>2, <1>3, <1>4, <1>5, <1>6, <1>7, <1>8, <1>9, <1>10, <1>11, <1>12,
    <1>13, <1>14, <1>15, <1>16, <1>17, <1>18, <1>19, <1>20, <1>21, <1>22, <1>23, <1>24,
    <1>25, <1>26, <1>27, <1>28, <1>29, <1>30, <1>31, <1>32, <1>33, <1>34, <1>35, <1>36
    DEF Next, Work, Failure, Environment

\* No two peers ever have the same address, for any set of addresses and keys
\* and any number of helpers, failures, kills and edits by hand.
THEOREM AddressesStayDistinct == Spec => []AddressesDistinct
<1>1. Spec => [](Typed /\ SoundThroughout)
  BY InitTyped, NextTyped, InitSound, NextSound, PTL DEF Spec
<1>2. TypeOK /\ SoundThroughout => AddressesDistinct
  BY DEF SoundThroughout, Sound, Distinct, AddressesDistinct
<1> QED BY <1>1, <1>2, PTL DEF Typed

\* The protected peer is enabled in the file at every instant.
THEOREM ProtectedPeersServed == Spec => []ProtectedServed
<1>1. Spec => [](Typed /\ SoundThroughout)
  BY InitTyped, NextTyped, InitSound, NextSound, PTL DEF Spec
<1>2. SoundThroughout => ProtectedServed
  BY DEF SoundThroughout, Sound, ProtectedServed
<1> QED BY <1>1, <1>2, PTL

-----------------------------------------------------------------------------
(* One helper at a time                                                    *)

\* Only the holder of the lock is past the wait for it.
Exclusive == \A h \in Helpers : proc[h].stage \notin {"idle", "waiting"} => lock = h

\* A process that rests is outside the lock.
LEMMA RestIsOut == Rest.stage = "idle"
BY DEF Rest

\* Moving on inside the lock leaves at most the holder inside.
LEMMA GotoExclusive ==
    ASSUME Typed, Exclusive, NEW h \in Helpers, NEW s, Goto(h, s),
           proc[h].stage \notin {"idle", "waiting"}, lock' = lock
    PROVE  Exclusive'
BY DEF Typed, TypeOK, Exclusive, Goto, Process

\* So does an answer.
LEMMA AnswerExclusive ==
    ASSUME Typed, Exclusive, NEW h \in Helpers, NEW o, Answer(h, o)
    PROVE  Exclusive'
BY RestIsOut, NoneAssumption DEF Typed, TypeOK, Exclusive, Answer

\* Nobody is inside at the start.
LEMMA InitExclusive == Init => Exclusive
BY RestIsOut DEF Init, Exclusive

\* Every step keeps all but the holder of the lock outside.
LEMMA NextExclusive == Typed /\ Exclusive /\ [Next]_vars => Exclusive'
<1> SUFFICES ASSUME Typed, Exclusive, [Next]_vars PROVE Exclusive'
  OBVIOUS
<1> USE DEF history, budget
<1>1. ASSUME NEW h \in Helpers,
            \E op \in Operations, k \in Keys \cup {NoKey}, n \in Nonces \cup {NoNonce} :
               Request(h, op, k, n)
     PROVE  Exclusive'
  <2>1. PICK op \in Operations, k \in Keys \cup {NoKey}, n \in Nonces \cup {NoNonce} :
           Request(h, op, k, n)
    BY <1>1
  <2>2. [Rest EXCEPT !.stage = "waiting", !.op = op, !.key = k, !.nonce = n].stage = "waiting"
    BY DEF Rest
  <2> QED BY <2>1, <2>2 DEF Request, Exclusive, Typed, TypeOK
<1>2. ASSUME NEW h \in Helpers, Acquire(h) PROVE Exclusive'
  <2>1. \A g \in Helpers : proc[g].stage \in {"idle", "waiting"}
    BY <1>2, NoneAssumption DEF Acquire, Exclusive
  <2> QED BY <1>2, <2>1 DEF Acquire, Goto, Exclusive, Typed, TypeOK
<1>3. ASSUME NEW h \in Helpers, GiveUp(h) PROVE Exclusive'
  BY <1>3, AnswerExclusive DEF GiveUp
<1>4. ASSUME NEW h \in Helpers, List(h) PROVE Exclusive'
  <2>1. CASE proc[h].op = "list"
    BY <1>4, <2>1, AnswerExclusive DEF List
  <2>2. CASE proc[h].op # "list"
    BY <1>4, <2>2 DEF List, At, Exclusive, Typed, TypeOK
  <2> QED BY <2>1, <2>2
<1>5. ASSUME NEW h \in Helpers, ListFails(h) PROVE Exclusive'
  BY <1>5, AnswerExclusive DEF ListFails
<1>6. ASSUME NEW h \in Helpers, PlanFails(h) PROVE Exclusive'
  BY <1>6, AnswerExclusive DEF PlanFails
<1>7. ASSUME NEW h \in Helpers, PlanCreate(h) PROVE Exclusive'
  BY <1>7 DEF PlanCreate, At, Exclusive, Typed, TypeOK
<1>8. ASSUME NEW h \in Helpers, PlanMutation(h) PROVE Exclusive'
  <2>1. CASE Target(proc[h].op, config, proc[h].key) = config
    BY <1>8, <2>1, AnswerExclusive DEF PlanMutation
  <2>2. CASE Target(proc[h].op, config, proc[h].key) # config
    BY <1>8, <2>2 DEF PlanMutation, At, Exclusive, Typed, TypeOK
  <2> QED BY <2>1, <2>2
<1>9. ASSUME NEW h \in Helpers, Load(h) PROVE Exclusive'
  BY <1>9, AnswerExclusive DEF Load
<1>10. ASSUME NEW h \in Helpers, Refuse(h) PROVE Exclusive'
  BY <1>10, AnswerExclusive DEF Refuse
<1>11. ASSUME NEW h \in Helpers, Check(h) PROVE Exclusive'
  BY <1>11, GotoExclusive DEF Check, At
<1>12. ASSUME NEW h \in Helpers, Drift(h) PROVE Exclusive'
  BY <1>12, GotoExclusive DEF Drift, At
<1>13. ASSUME NEW h \in Helpers, Replace(h) PROVE Exclusive'
  BY <1>13, GotoExclusive DEF Replace, At
<1>14. ASSUME NEW h \in Helpers, ReplaceFails(h) PROVE Exclusive'
  BY <1>14, GotoExclusive DEF ReplaceFails, At
<1>15. ASSUME NEW h \in Helpers, Sync(h) PROVE Exclusive'
  BY <1>15, GotoExclusive DEF Sync, At
<1>16. ASSUME NEW h \in Helpers, SyncFails(h) PROVE Exclusive'
  BY <1>16, GotoExclusive DEF SyncFails, At
<1>17. ASSUME NEW h \in Helpers, ReadBack(h) PROVE Exclusive'
  <2>1. CASE proc[h].op \in {"create", "delete"}
    BY <1>17, <2>1, GotoExclusive DEF ReadBack, At
  <2>2. CASE proc[h].op \notin {"create", "delete"}
    BY <1>17, <2>2, AnswerExclusive DEF ReadBack
  <2> QED BY <2>1, <2>2
<1>18. ASSUME NEW h \in Helpers, ReadBackFails(h) PROVE Exclusive'
  BY <1>18, GotoExclusive DEF ReadBackFails, At
<1>19. ASSUME NEW h \in Helpers, Store(h) PROVE Exclusive'
  BY <1>19, AnswerExclusive DEF Store
<1>20. ASSUME NEW h \in Helpers, StoreFails(h) PROVE Exclusive'
  BY <1>20, GotoExclusive DEF StoreFails, At
<1>21. ASSUME NEW h \in Helpers, Unlink(h) PROVE Exclusive'
  BY <1>21, AnswerExclusive DEF Unlink
<1>22. ASSUME NEW h \in Helpers, UnlinkFails(h) PROVE Exclusive'
  BY <1>22, AnswerExclusive DEF UnlinkFails
<1>23. ASSUME NEW h \in Helpers, NothingToUndo(h) PROVE Exclusive'
  BY <1>23, AnswerExclusive DEF NothingToUndo
<1>24. ASSUME NEW h \in Helpers, ForeignFile(h) PROVE Exclusive'
  BY <1>24, AnswerExclusive DEF ForeignFile
<1>25. ASSUME NEW h \in Helpers, Undo(h) PROVE Exclusive'
  BY <1>25, GotoExclusive DEF Undo, At
<1>26. ASSUME NEW h \in Helpers, UndoCheck(h) PROVE Exclusive'
  BY <1>26, GotoExclusive, AnswerExclusive DEF UndoCheck, At
<1>27. ASSUME NEW h \in Helpers, UndoReplace(h) PROVE Exclusive'
  BY <1>27, GotoExclusive DEF UndoReplace, At
<1>28. ASSUME NEW h \in Helpers, UndoReplaceFails(h) PROVE Exclusive'
  BY <1>28, GotoExclusive, AnswerExclusive DEF UndoReplaceFails, At
<1>29. ASSUME NEW h \in Helpers, UndoSync(h) PROVE Exclusive'
  BY <1>29, AnswerExclusive DEF UndoSync
<1>30. ASSUME NEW h \in Helpers, UndoSyncFails(h) PROVE Exclusive'
  BY <1>30, AnswerExclusive DEF UndoSyncFails
<1>31. ASSUME NEW h \in Helpers, Kill(h) PROVE Exclusive'
  BY <1>31, AnswerExclusive DEF Kill
<1>32. ASSUME Reboot PROVE Exclusive'
  BY <1>32, RestIsOut DEF Reboot, Exclusive
<1>33. ASSUME LateRestart PROVE Exclusive'
  BY <1>33 DEF LateRestart, Exclusive
<1>34. ASSUME NEW k \in Keys, EditByHand(k) PROVE Exclusive'
  BY <1>34 DEF EditByHand, Exclusive
<1>35. ASSUME RestartByHand PROVE Exclusive'
  BY <1>35 DEF RestartByHand, Exclusive
<1>36. ASSUME UNCHANGED vars PROVE Exclusive'
  BY <1>36 DEF vars, Exclusive
<1> QED BY <1>1, <1>2, <1>3, <1>4, <1>5, <1>6, <1>7, <1>8, <1>9, <1>10, <1>11, <1>12,
    <1>13, <1>14, <1>15, <1>16, <1>17, <1>18, <1>19, <1>20, <1>21, <1>22, <1>23, <1>24,
    <1>25, <1>26, <1>27, <1>28, <1>29, <1>30, <1>31, <1>32, <1>33, <1>34, <1>35, <1>36
    DEF Next, Work, Failure, Environment

-----------------------------------------------------------------------------
(* Nonces and deletions                                                    *)

Spent == {i[1] : i \in issued}
Served == {e[1] : e \in runtime.peers}

\* What a change p in progress knows of the nonces, those of the file and those
\* handed out: it started from all that were handed out, writes them all, and a
\* creation adds the one it owns.
KeepsNonces(p, written, handed) ==
    /\ p.stage \in Undecided =>
          /\ handed \subseteq p.source.nonces
          /\ p.source.nonces \subseteq p.target.nonces
          /\ p.op = "create" => p.nonce \in p.target.nonces \ p.source.nonces
    /\ p.stage \in {"syncing", "reading", "storing"} => p.target.nonces \subseteq written

\* What it knows of the keys that were drawn, were reported deleted, or are in the
\* file or on the interface: neither of the files it can leave behind has a
\* deleted peer, and a deletion is reported when its peer is gone.
KeepsDeleted(p, known, deleted, here) ==
    /\ p.stage \in Undecided =>
          Present(p.source) \cup Present(p.target) \subseteq known \ deleted
    /\ p.stage \in Undecided \cup {"unlinking"} => p.key \in known
    /\ p.stage = "unlinking" => p.key \notin here

Ledger ==
    /\ \A i, j \in issued : i[1] = j[1] => i = j
    /\ Spent \subseteq config.nonces
    /\ \A h \in Helpers : KeepsNonces(proc[h], config.nonces, Spent)

Deletions ==
    /\ gone \subseteq drawn
    /\ Present(config) \subseteq drawn \ gone
    /\ Served \cap gone = {}
    /\ \A h \in Helpers : KeepsDeleted(proc[h], drawn, gone, Present(config) \cup Served)

\* While a helper is past the lock, no other is.
LEMMA Alone ==
    ASSUME Exclusive, NEW h \in Helpers, NEW g \in Helpers, g # h,
           proc[h].stage \notin {"idle", "waiting"}
    PROVE  proc[g].stage \in {"idle", "waiting"}
BY DEF Exclusive

-----------------------------------------------------------------------------
(* An idempotency key hands out one key                                    *)

\* A process with no change in progress has no nonce to keep.
LEMMA OutKeepsNonces ==
    ASSUME NEW p, NEW written, NEW handed,
           p.stage \in {"idle", "waiting", "locked", "planning", "unlinking"}
    PROVE  KeepsNonces(p, written, handed)
BY DEF KeepsNonces, Undecided

\* A process moves on: what it and the others know still holds.
LEMMA GotoKeepsNonces ==
    ASSUME Typed, Ledger, Exclusive, NEW h \in Helpers, NEW s, Goto(h, s),
           config'.nonces = config.nonces \/ proc[h].stage \notin {"idle", "waiting"},
           issued' = issued,
           s \in Undecided => proc[h].stage \in Undecided,
           s \in {"syncing", "reading", "storing"} => proc[h].target.nonces \subseteq config'.nonces
    PROVE  \A g \in Helpers : KeepsNonces(proc'[g], config'.nonces, Spent')
<1> SUFFICES ASSUME NEW g \in Helpers PROVE KeepsNonces(proc'[g], config'.nonces, Spent')
  OBVIOUS
<1>1. Spent' = Spent
  BY DEF Spent
<1>2. CASE g = h
  <2>1. proc'[h] = [proc[h] EXCEPT !.stage = s] /\ proc[h] \in Process
    BY DEF Goto, Typed, TypeOK
  <2> QED BY <1>1, <1>2, <2>1 DEF Ledger, KeepsNonces, Process
<1>3. CASE g # h
  <2>1. proc'[g] = proc[g]
    BY <1>3 DEF Goto, Typed, TypeOK
  <2> QED BY <1>1, <1>3, <2>1, Alone, OutKeepsNonces DEF Ledger
<1> QED BY <1>2, <1>3

\* A process answers: what the others know still holds.
LEMMA AnswerKeepsNonces ==
    ASSUME Typed, Ledger, Exclusive, NEW h \in Helpers, NEW o, Answer(h, o),
           \/ config'.nonces = config.nonces /\ issued' = issued
           \/ proc[h].stage \notin {"idle", "waiting"}
    PROVE  \A g \in Helpers : KeepsNonces(proc'[g], config'.nonces, Spent')
<1> SUFFICES ASSUME NEW g \in Helpers PROVE KeepsNonces(proc'[g], config'.nonces, Spent')
  OBVIOUS
<1>1. CASE g = h
  BY <1>1, RestIsOut, OutKeepsNonces DEF Answer, Typed, TypeOK
<1>2. CASE g # h
  <2>1. proc'[g] = proc[g]
    BY <1>2 DEF Answer, Typed, TypeOK
  <2>2. CASE proc[h].stage \notin {"idle", "waiting"}
    BY <1>2, <2>1, <2>2, Alone, OutKeepsNonces
  <2>3. CASE config'.nonces = config.nonces /\ issued' = issued
    <3>1. Spent' = Spent
      BY <2>3 DEF Spent
    <3> QED BY <2>1, <2>3, <3>1 DEF Ledger
  <2> QED BY <2>2, <2>3
<1> QED BY <1>1, <1>2

\* Nothing is handed out at the start.
LEMMA InitLedger == Init => Ledger
<1> SUFFICES ASSUME Init PROVE Ledger
  OBVIOUS
<1>1. Spent = {} /\ issued = {}
  BY DEF Init, Spent
<1>2. \A h \in Helpers : KeepsNonces(proc[h], config.nonces, Spent)
  BY RestIsOut, OutKeepsNonces DEF Init
<1> QED BY <1>1, <1>2 DEF Ledger

\* Every step keeps the nonces handed out in the ledger, each with its one key.
LEMMA NextLedger == Typed /\ Exclusive /\ Ledger /\ [Next]_vars => Ledger'
<1> SUFFICES ASSUME Typed, Exclusive, Ledger, [Next]_vars PROVE Ledger'
  OBVIOUS
<1> USE DEF history, budget
<1>1. ASSUME NEW h \in Helpers,
            \E op \in Operations, k \in Keys \cup {NoKey}, n \in Nonces \cup {NoNonce} :
               Request(h, op, k, n)
     PROVE  Ledger'
  <2>1. PICK op \in Operations, k \in Keys \cup {NoKey}, n \in Nonces \cup {NoNonce} :
           Request(h, op, k, n)
    BY <1>1
  <2> DEFINE next == [Rest EXCEPT !.stage = "waiting", !.op = op, !.key = k, !.nonce = n]
  <2>2. next.stage = "waiting"
    BY DEF Rest
  <2>3. /\ proc' = [proc EXCEPT ![h] = next] /\ UNCHANGED <<config, issued>>
        /\ Spent' = Spent
    BY <2>1 DEF Request, Spent
  <2> HIDE DEF next
  <2>4. KeepsNonces(next, config.nonces, Spent)
    BY <2>2, OutKeepsNonces
  <2> QED BY <2>3, <2>4 DEF Ledger, Typed, TypeOK
<1>2. ASSUME NEW h \in Helpers, Acquire(h) PROVE Ledger'
  BY <1>2, GotoKeepsNonces DEF Acquire, At, Ledger, Spent, Undecided
<1>3. ASSUME NEW h \in Helpers, GiveUp(h) PROVE Ledger'
  BY <1>3, AnswerKeepsNonces DEF GiveUp, Ledger, Spent
<1>4. ASSUME NEW h \in Helpers, List(h) PROVE Ledger'
  <2>1. CASE proc[h].op = "list"
    BY <1>4, <2>1, AnswerKeepsNonces DEF List, Ledger, Spent
  <2>2. CASE proc[h].op # "list"
    <3> DEFINE next == [proc[h] EXCEPT !.stage = "planning",
                                       !.mutable = Present(config) \ Protected,
                                       !.before = Present(config)]
    <3>1. next.stage = "planning"
      BY DEF Typed, TypeOK, Process
    <3>2. /\ proc' = [proc EXCEPT ![h] = next] /\ UNCHANGED <<config, issued>>
          /\ Spent' = Spent
      BY <1>4, <2>2 DEF List, Spent
    <3> HIDE DEF next
    <3>3. KeepsNonces(next, config.nonces, Spent)
      BY <3>1, OutKeepsNonces
    <3> QED BY <3>2, <3>3 DEF Ledger, Typed, TypeOK
  <2> QED BY <2>1, <2>2
<1>5. ASSUME NEW h \in Helpers, ListFails(h) PROVE Ledger'
  BY <1>5, AnswerKeepsNonces DEF ListFails, Ledger, Spent
<1>6. ASSUME NEW h \in Helpers, PlanFails(h) PROVE Ledger'
  BY <1>6, AnswerKeepsNonces DEF PlanFails, Ledger, Spent
<1>7. ASSUME NEW h \in Helpers, PlanCreate(h) PROVE Ledger'
  <2>1. PICK k \in Keys \ drawn :
           proc' = [proc EXCEPT ![h].stage = "checking", ![h].key = k,
                                ![h].source = config,
                                ![h].target = WithPeer(config, k, proc[h].nonce)]
    BY <1>7 DEF PlanCreate
  <2> DEFINE next == [proc[h] EXCEPT !.stage = "checking", !.key = k, !.source = config,
                                     !.target = WithPeer(config, k, proc[h].nonce)]
  <2>2. /\ next.stage = "checking" /\ next.nonce = proc[h].nonce
        /\ next.source.nonces = config.nonces
        /\ next.target.nonces = config.nonces \cup {proc[h].nonce}
    BY DEF Typed, TypeOK, Process, WithPeer
  <2> HIDE DEF next
  <2>3. KeepsNonces(next, config.nonces, Spent)
    BY <1>7, <2>2 DEF PlanCreate, MayCreate, KeepsNonces, Ledger
  <2>4. proc' = [proc EXCEPT ![h] = next]
    BY <2>1 DEF next
  <2> QED BY <1>7, <2>3, <2>4 DEF PlanCreate, Ledger, Spent, Typed, TypeOK
<1>8. ASSUME NEW h \in Helpers, PlanMutation(h) PROVE Ledger'
  <2> DEFINE target == Target(proc[h].op, config, proc[h].key)
  <2>1. CASE target = config
    BY <1>8, <2>1, AnswerKeepsNonces DEF PlanMutation, Ledger, Spent
  <2>2. CASE target # config
    <3>1. target.nonces = config.nonces
      BY <1>8 DEF PlanMutation, Target, Mutations, WithStatus, WithoutPeer, Typed, TypeOK,
          Config
    <3>2. proc' = [proc EXCEPT ![h].stage = "checking", ![h].source = config,
                               ![h].target = target]
      BY <1>8, <2>2 DEF PlanMutation
    <3> HIDE DEF target
    <3> DEFINE next == [proc[h] EXCEPT !.stage = "checking", !.source = config,
                                       !.target = target]
    <3>3. /\ next.stage = "checking" /\ next.op = proc[h].op
          /\ next.source = config /\ next.target = target
      BY DEF Typed, TypeOK, Process
    <3>4. proc' = [proc EXCEPT ![h] = next]
      BY <3>2
    <3> HIDE DEF next
    <3>5. KeepsNonces(next, config.nonces, Spent)
      BY <1>8, <3>1, <3>3 DEF PlanMutation, Mutations, KeepsNonces, Ledger
    <3>6. UNCHANGED <<config, issued>>
      BY <1>8 DEF PlanMutation
    <3> QED BY <3>4, <3>5, <3>6 DEF Ledger, Spent, Typed, TypeOK
  <2> QED BY <2>1, <2>2
<1>9. ASSUME NEW h \in Helpers, Load(h) PROVE Ledger'
  BY <1>9, AnswerKeepsNonces DEF Load, Ledger, Spent
<1>10. ASSUME NEW h \in Helpers, Refuse(h) PROVE Ledger'
  BY <1>10, AnswerKeepsNonces DEF Refuse, Ledger, Spent
<1>11. ASSUME NEW h \in Helpers, Check(h) PROVE Ledger'
  BY <1>11, GotoKeepsNonces DEF Check, At, Ledger, Spent, Undecided
<1>12. ASSUME NEW h \in Helpers, Drift(h) PROVE Ledger'
  BY <1>12, GotoKeepsNonces DEF Drift, At, Ledger, Spent, Undecided
<1>13. ASSUME NEW h \in Helpers, Replace(h) PROVE Ledger'
  <2>1. /\ proc[h].target.nonces = config'.nonces /\ issued' = issued
        /\ Spent \subseteq config'.nonces
    BY <1>13 DEF Replace, At, Ledger, KeepsNonces, Undecided
  <2>2. \A g \in Helpers : KeepsNonces(proc'[g], config'.nonces, Spent')
    BY <1>13, <2>1, GotoKeepsNonces DEF Replace, At, Undecided
  <2> QED BY <2>1, <2>2 DEF Ledger, Spent
<1>14. ASSUME NEW h \in Helpers, ReplaceFails(h) PROVE Ledger'
  <2>1. issued' = issued /\ Spent \subseteq config'.nonces
    BY <1>14 DEF ReplaceFails, At, Ledger, KeepsNonces, Undecided
  <2>2. \A g \in Helpers : KeepsNonces(proc'[g], config'.nonces, Spent')
    BY <1>14, <2>1, GotoKeepsNonces DEF ReplaceFails, At, Undecided
  <2> QED BY <2>1, <2>2 DEF Ledger, Spent
<1>15. ASSUME NEW h \in Helpers, Sync(h) PROVE Ledger'
  <2>1. proc[h].target.nonces \subseteq config.nonces
    BY <1>15 DEF Sync, At, Ledger, KeepsNonces
  <2> QED BY <1>15, <2>1, GotoKeepsNonces DEF Sync, At, Ledger, Spent, Undecided
<1>16. ASSUME NEW h \in Helpers, SyncFails(h) PROVE Ledger'
  BY <1>16, GotoKeepsNonces DEF SyncFails, At, Ledger, Spent, Undecided
<1>17. ASSUME NEW h \in Helpers, ReadBack(h) PROVE Ledger'
  <2>1. proc[h].target.nonces \subseteq config.nonces
    BY <1>17 DEF ReadBack, At, Ledger, KeepsNonces
  <2>2. CASE proc[h].op = "create"
    BY <1>17, <2>1, <2>2, GotoKeepsNonces DEF ReadBack, At, Ledger, Spent, Undecided
  <2>3. CASE proc[h].op = "delete"
    BY <1>17, <2>3, GotoKeepsNonces DEF ReadBack, At, Ledger, Spent, Undecided
  <2>4. CASE proc[h].op \notin {"create", "delete"}
    BY <1>17, <2>4, AnswerKeepsNonces DEF ReadBack, Ledger, Spent
  <2> QED BY <2>2, <2>3, <2>4
<1>18. ASSUME NEW h \in Helpers, ReadBackFails(h) PROVE Ledger'
  BY <1>18, GotoKeepsNonces DEF ReadBackFails, At, Ledger, Spent, Undecided
<1>19. ASSUME NEW h \in Helpers, Store(h) PROVE Ledger'
  <2>1. /\ Spent \subseteq proc[h].source.nonces
        /\ proc[h].nonce \in config.nonces /\ proc[h].nonce \notin proc[h].source.nonces
    BY <1>19 DEF Store, At, Ledger, KeepsNonces, Undecided, Typed, Requesting, Shaped
  <2>2. /\ issued' = issued \cup {<<proc[h].nonce, proc[h].key>>} /\ config' = config
        /\ Spent' = Spent \cup {proc[h].nonce}
    <3>1. issued' = issued \cup {<<proc[h].nonce, proc[h].key>>} /\ config' = config
      BY <1>19 DEF Store
    <3>2. <<proc[h].nonce, proc[h].key>>[1] = proc[h].nonce
      OBVIOUS
    <3>3. Spent' = Spent \cup {proc[h].nonce}
      BY <3>1, <3>2, Zenon DEF Spent
    <3> QED BY <3>1, <3>3
  <2>3. \A i, j \in issued' : i[1] = j[1] => i = j
    BY <2>1, <2>2 DEF Ledger, Spent
  <2>4. \A g \in Helpers : KeepsNonces(proc'[g], config'.nonces, Spent')
    BY <1>19, AnswerKeepsNonces DEF Store, At
  <2> QED BY <2>1, <2>2, <2>3, <2>4 DEF Ledger
<1>20. ASSUME NEW h \in Helpers, StoreFails(h) PROVE Ledger'
  BY <1>20, GotoKeepsNonces DEF StoreFails, At, Ledger, Spent, Undecided
<1>21. ASSUME NEW h \in Helpers, Unlink(h) PROVE Ledger'
  BY <1>21, AnswerKeepsNonces DEF Unlink, Ledger, Spent
<1>22. ASSUME NEW h \in Helpers, UnlinkFails(h) PROVE Ledger'
  BY <1>22, AnswerKeepsNonces DEF UnlinkFails, Ledger, Spent
<1>23. ASSUME NEW h \in Helpers, NothingToUndo(h) PROVE Ledger'
  BY <1>23, AnswerKeepsNonces DEF NothingToUndo, Ledger, Spent
<1>24. ASSUME NEW h \in Helpers, ForeignFile(h) PROVE Ledger'
  BY <1>24, AnswerKeepsNonces DEF ForeignFile, Ledger, Spent
<1>25. ASSUME NEW h \in Helpers, Undo(h) PROVE Ledger'
  BY <1>25, GotoKeepsNonces DEF Undo, At, Ledger, Spent, Undecided
<1>26. ASSUME NEW h \in Helpers, UndoCheck(h) PROVE Ledger'
  BY <1>26, GotoKeepsNonces, AnswerKeepsNonces DEF UndoCheck, At, Ledger, Spent, Undecided
<1>27. ASSUME NEW h \in Helpers, UndoReplace(h) PROVE Ledger'
  <2>1. issued' = issued /\ Spent \subseteq config'.nonces
    BY <1>27 DEF UndoReplace, At, Ledger, KeepsNonces, Undecided
  <2>2. \A g \in Helpers : KeepsNonces(proc'[g], config'.nonces, Spent')
    BY <1>27, <2>1, GotoKeepsNonces DEF UndoReplace, At, Undecided
  <2> QED BY <2>1, <2>2 DEF Ledger, Spent
<1>28. ASSUME NEW h \in Helpers, UndoReplaceFails(h) PROVE Ledger'
  <2>1. issued' = issued /\ Spent \subseteq config'.nonces
    BY <1>28 DEF UndoReplaceFails, At, Ledger, KeepsNonces, Undecided
  <2>2. \A g \in Helpers : KeepsNonces(proc'[g], config'.nonces, Spent')
    BY <1>28, <2>1, GotoKeepsNonces, AnswerKeepsNonces DEF UndoReplaceFails, At, Undecided
  <2> QED BY <2>1, <2>2 DEF Ledger, Spent
<1>29. ASSUME NEW h \in Helpers, UndoSync(h) PROVE Ledger'
  BY <1>29, AnswerKeepsNonces DEF UndoSync, Ledger, Spent
<1>30. ASSUME NEW h \in Helpers, UndoSyncFails(h) PROVE Ledger'
  BY <1>30, AnswerKeepsNonces DEF UndoSyncFails, Ledger, Spent
<1>31. ASSUME NEW h \in Helpers, Kill(h) PROVE Ledger'
  BY <1>31, AnswerKeepsNonces DEF Kill, Ledger, Spent
<1>32. ASSUME Reboot PROVE Ledger'
  BY <1>32, RestIsOut, OutKeepsNonces DEF Reboot, Ledger, Spent
<1>33. ASSUME LateRestart PROVE Ledger'
  BY <1>33 DEF LateRestart, Ledger, Spent
<1>34. ASSUME NEW k \in Keys, EditByHand(k) PROVE Ledger'
  <2>1. config'.nonces = config.nonces
    BY <1>34 DEF EditByHand, Typed, TypeOK, Config
  <2> QED BY <1>34, <2>1 DEF EditByHand, Ledger, Spent
<1>35. ASSUME RestartByHand PROVE Ledger'
  BY <1>35 DEF RestartByHand, Ledger, Spent
<1>36. ASSUME UNCHANGED vars PROVE Ledger'
  BY <1>36 DEF vars, Ledger, Spent
<1> QED BY <1>1, <1>2, <1>3, <1>4, <1>5, <1>6, <1>7, <1>8, <1>9, <1>10, <1>11, <1>12,
    <1>13, <1>14, <1>15, <1>16, <1>17, <1>18, <1>19, <1>20, <1>21, <1>22, <1>23, <1>24,
    <1>25, <1>26, <1>27, <1>28, <1>29, <1>30, <1>31, <1>32, <1>33, <1>34, <1>35, <1>36
    DEF Next, Work, Failure, Environment

\* A nonce hands out at most one key and stays in the file's ledger, for any number
\* of helpers, of failures in any operation or rollback, of kills, reboots and
\* edits by hand.
THEOREM NonceIssuesOneKey == Spec => []NonceIssuesOnce
<1>1. Spec => [](Typed /\ Exclusive /\ Ledger)
  BY InitTyped, NextTyped, InitExclusive, NextExclusive, InitLedger, NextLedger, PTL DEF
      Spec
<1>2. Ledger => NonceIssuesOnce
  BY DEF Ledger, Spent, NonceIssuesOnce
<1> QED BY <1>1, <1>2, PTL

-----------------------------------------------------------------------------
(* Deleted peers stay deleted                                              *)

Here == Present(config) \cup Served

\* A restart serves only peers of the file.
LEMMA RestartedServes ==
    ASSUME NEW c
    PROVE  {e[1] : e \in Restarted(c).peers} \subseteq Present(c)
<1>1. Restarted(c).peers = Active(c)
  BY DEF Restarted
<1>2. \A k : <<k, c.peers[k].host>>[1] = k
  OBVIOUS
<1>3. {e[1] : e \in Active(c)} \subseteq Enabled(c)
  BY <1>2, Zenon DEF Active
<1>4. Enabled(c) \subseteq Present(c)
  BY DEF Enabled, Present, Absent
<1> QED BY <1>1, <1>3, <1>4

\* A restart that failed serves nothing new.
LEMMA FailedRestartServes ==
    ASSUME FailedRestart
    PROVE  Served' \subseteq Served
<1>1. CASE runtime' = runtime
  BY <1>1 DEF Served
<1>2. CASE runtime' = [up |-> FALSE, peers |-> {}]
  BY <1>2 DEF Served
<1> QED BY <1>1, <1>2 DEF FailedRestart

\* A process with no change in progress has no peer to bring back.
LEMMA OutKeepsDeleted ==
    ASSUME NEW p, NEW known, NEW deleted, NEW here,
           p.stage \in {"idle", "waiting", "locked", "planning"}
    PROVE  KeepsDeleted(p, known, deleted, here)
BY DEF KeepsDeleted, Undecided

\* A process moves on: what it and the others know still holds.
LEMMA GotoKeepsDeleted ==
    ASSUME Typed, Deletions, Exclusive, NEW h \in Helpers, NEW s, Goto(h, s),
           Here' \subseteq Here \/ proc[h].stage \notin {"idle", "waiting"},
           drawn' = drawn, gone' = gone,
           s \in Undecided \cup {"unlinking"} => proc[h].stage \in Undecided,
           s = "unlinking" => proc[h].key \notin Here'
    PROVE  \A g \in Helpers : KeepsDeleted(proc'[g], drawn', gone', Here')
<1> SUFFICES ASSUME NEW g \in Helpers PROVE KeepsDeleted(proc'[g], drawn', gone', Here')
  OBVIOUS
<1>1. KeepsDeleted(proc[g], drawn, gone, Here)
  BY DEF Deletions, Here
<1>2. CASE g = h
  <2>1. proc'[h] = [proc[h] EXCEPT !.stage = s] /\ proc[h] \in Process
    BY DEF Goto, Typed, TypeOK
  <2> QED BY <1>1, <1>2, <2>1 DEF KeepsDeleted, Process
<1>3. CASE g # h
  <2>1. proc'[g] = proc[g]
    BY <1>3 DEF Goto, Typed, TypeOK
  <2>2. CASE proc[h].stage \notin {"idle", "waiting"}
    BY <1>3, <2>1, <2>2, Alone, OutKeepsDeleted
  <2>3. CASE Here' \subseteq Here
    BY <1>1, <2>1, <2>3 DEF KeepsDeleted
  <2> QED BY <2>2, <2>3
<1> QED BY <1>2, <1>3

\* A process answers: what the others know still holds.
LEMMA AnswerKeepsDeleted ==
    ASSUME Typed, Deletions, Exclusive, NEW h \in Helpers, NEW o, Answer(h, o),
           \/ Here' \subseteq Here /\ drawn' = drawn /\ gone' = gone
           \/ proc[h].stage \notin {"idle", "waiting"}
    PROVE  \A g \in Helpers : KeepsDeleted(proc'[g], drawn', gone', Here')
<1> SUFFICES ASSUME NEW g \in Helpers PROVE KeepsDeleted(proc'[g], drawn', gone', Here')
  OBVIOUS
<1>1. KeepsDeleted(proc[g], drawn, gone, Here)
  BY DEF Deletions, Here
<1>2. CASE g = h
  BY <1>2, RestIsOut, OutKeepsDeleted DEF Answer, Typed, TypeOK
<1>3. CASE g # h
  <2>1. proc'[g] = proc[g]
    BY <1>3 DEF Answer, Typed, TypeOK
  <2>2. CASE proc[h].stage \notin {"idle", "waiting"}
    BY <1>3, <2>1, <2>2, Alone, OutKeepsDeleted
  <2>3. CASE Here' \subseteq Here /\ drawn' = drawn /\ gone' = gone
    BY <1>1, <2>1, <2>3 DEF KeepsDeleted
  <2> QED BY <2>2, <2>3
<1> QED BY <1>2, <1>3

\* A step that changes neither the file nor the interface.
LEMMA SameHere ==
    ASSUME UNCHANGED <<config, runtime>>
    PROVE  Here' = Here /\ Served' = Served
BY DEF Here, Served, Present

\* A creation adds no key to the file but its own.
LEMMA WithPeerPresent ==
    ASSUME NEW c \in Config, NEW k \in Keys, NEW n
    PROVE  Present(WithPeer(c, k, n)) \subseteq Present(c) \cup {k}
BY DEF Present, WithPeer, Config

\* A change of a peer adds no key to the file.
LEMMA TargetPresent ==
    ASSUME NEW c \in Config, NEW op \in Mutations, NEW k \in Present(c)
    PROVE  Present(Target(op, c, k)) \subseteq Present(c)
BY DEF Present, Target, Mutations, WithStatus, WithoutPeer, Config

\* Nothing is deleted at the start.
LEMMA InitDeletions == Init => Deletions
<1> SUFFICES ASSUME Init PROVE Deletions
  OBVIOUS
<1>1. gone = {} /\ Present(config) = drawn
  BY DEF Init
<1>2. \A h \in Helpers : KeepsDeleted(proc[h], drawn, gone, Present(config) \cup Served)
  BY RestIsOut, OutKeepsDeleted DEF Init
<1> QED BY <1>1, <1>2 DEF Deletions

\* Every step keeps the deleted peers out of the file, the interface and what may
\* be written.
LEMMA NextDeletions == Typed /\ Exclusive /\ Deletions /\ [Next]_vars => Deletions'
<1> SUFFICES ASSUME Typed, Exclusive, Deletions, [Next]_vars PROVE Deletions'
  OBVIOUS
<1> USE DEF history, budget
<1>1. ASSUME NEW h \in Helpers,
            \E op \in Operations, k \in Keys \cup {NoKey}, n \in Nonces \cup {NoNonce} :
               Request(h, op, k, n)
     PROVE  Deletions'
  <2>1. PICK op \in Operations, k \in Keys \cup {NoKey}, n \in Nonces \cup {NoNonce} :
           Request(h, op, k, n)
    BY <1>1
  <2> DEFINE next == [Rest EXCEPT !.stage = "waiting", !.op = op, !.key = k, !.nonce = n]
  <2>2. next.stage = "waiting"
    BY DEF Rest
  <2>3. /\ proc' = [proc EXCEPT ![h] = next]
        /\ UNCHANGED <<config, runtime, drawn, gone>>
    BY <2>1 DEF Request
  <2> HIDE DEF next
  <2>4. KeepsDeleted(next, drawn, gone, Here)
    BY <2>2, OutKeepsDeleted
  <2> QED BY <2>3, <2>4, SameHere DEF Deletions, Here, Typed, TypeOK
<1>2. ASSUME NEW h \in Helpers, Acquire(h) PROVE Deletions'
  BY <1>2, SameHere, GotoKeepsDeleted DEF Acquire, At, Deletions, Here, Undecided
<1>3. ASSUME NEW h \in Helpers, GiveUp(h) PROVE Deletions'
  BY <1>3, SameHere, AnswerKeepsDeleted DEF GiveUp, Deletions, Here
<1>4. ASSUME NEW h \in Helpers, List(h) PROVE Deletions'
  <2>1. CASE proc[h].op = "list"
    BY <1>4, <2>1, SameHere, AnswerKeepsDeleted DEF List, Deletions, Here
  <2>2. CASE proc[h].op # "list"
    <3> DEFINE next == [proc[h] EXCEPT !.stage = "planning",
                                       !.mutable = Present(config) \ Protected,
                                       !.before = Present(config)]
    <3>1. next.stage = "planning"
      BY DEF Typed, TypeOK, Process
    <3>2. /\ proc' = [proc EXCEPT ![h] = next]
          /\ UNCHANGED <<config, runtime, drawn, gone>>
      BY <1>4, <2>2 DEF List
    <3> HIDE DEF next
    <3>3. KeepsDeleted(next, drawn, gone, Here)
      BY <3>1, OutKeepsDeleted
    <3> QED BY <3>2, <3>3, SameHere DEF Deletions, Here, Typed, TypeOK
  <2> QED BY <2>1, <2>2
<1>5. ASSUME NEW h \in Helpers, ListFails(h) PROVE Deletions'
  BY <1>5, SameHere, AnswerKeepsDeleted DEF ListFails, Deletions, Here
<1>6. ASSUME NEW h \in Helpers, PlanFails(h) PROVE Deletions'
  BY <1>6, SameHere, AnswerKeepsDeleted DEF PlanFails, Deletions, Here
<1>7. ASSUME NEW h \in Helpers, PlanCreate(h) PROVE Deletions'
  <2>1. PICK k \in Keys \ drawn :
           /\ drawn' = drawn \cup {k}
           /\ proc' = [proc EXCEPT ![h].stage = "checking", ![h].key = k,
                                   ![h].source = config,
                                   ![h].target = WithPeer(config, k, proc[h].nonce)]
    BY <1>7 DEF PlanCreate
  <2> DEFINE next == [proc[h] EXCEPT !.stage = "checking", !.key = k, !.source = config,
                                     !.target = WithPeer(config, k, proc[h].nonce)]
  <2>2. /\ next.stage = "checking" /\ next.key = k /\ next.source = config
        /\ next.target = WithPeer(config, k, proc[h].nonce)
    BY DEF Typed, TypeOK, Process
  <2>3. proc' = [proc EXCEPT ![h] = next]
    BY <2>1
  <2> HIDE DEF next
  <2>4. Present(next.target) \subseteq Present(config) \cup {k}
    BY <2>2, WithPeerPresent DEF Typed, TypeOK
  <2>5. KeepsDeleted(next, drawn', gone, Here)
    BY <2>1, <2>2, <2>4 DEF KeepsDeleted, Deletions
  <2>6. UNCHANGED <<config, runtime, gone>> /\ At(h, "planning")
    BY <1>7 DEF PlanCreate
  <2>7. \A g \in Helpers : g # h => KeepsDeleted(proc[g], drawn', gone, Here)
    BY <2>6, Alone, OutKeepsDeleted DEF At
  <2> QED BY <2>1, <2>3, <2>5, <2>6, <2>7, SameHere DEF Deletions, Here, Typed, TypeOK
<1>8. ASSUME NEW h \in Helpers, PlanMutation(h) PROVE Deletions'
  <2> DEFINE target == Target(proc[h].op, config, proc[h].key)
  <2>1. CASE target = config
    BY <1>8, <2>1, SameHere, AnswerKeepsDeleted DEF PlanMutation, Deletions, Here
  <2>2. CASE target # config
    <3>1. proc[h].key \in Present(config) /\ Present(target) \subseteq Present(config)
      BY <1>8, TargetPresent DEF PlanMutation, MayMutate, Typed, TypeOK
    <3>2. proc' = [proc EXCEPT ![h].stage = "checking", ![h].source = config,
                               ![h].target = target]
      BY <1>8, <2>2 DEF PlanMutation
    <3> HIDE DEF target
    <3> DEFINE next == [proc[h] EXCEPT !.stage = "checking", !.source = config,
                                       !.target = target]
    <3>3. /\ next.stage = "checking" /\ next.key = proc[h].key
          /\ next.source = config /\ next.target = target
      BY DEF Typed, TypeOK, Process
    <3>4. proc' = [proc EXCEPT ![h] = next]
      BY <3>2
    <3> HIDE DEF next
    <3>5. KeepsDeleted(next, drawn, gone, Here)
      BY <3>1, <3>3 DEF KeepsDeleted, Deletions
    <3>6. UNCHANGED <<config, runtime, drawn, gone>>
      BY <1>8 DEF PlanMutation
    <3> QED BY <3>4, <3>5, <3>6, SameHere DEF Deletions, Here, Typed, TypeOK
  <2> QED BY <2>1, <2>2
<1>9. ASSUME NEW h \in Helpers, Load(h) PROVE Deletions'
  BY <1>9, SameHere, AnswerKeepsDeleted DEF Load, Deletions, Here
<1>10. ASSUME NEW h \in Helpers, Refuse(h) PROVE Deletions'
  BY <1>10, SameHere, AnswerKeepsDeleted DEF Refuse, Deletions, Here
<1>11. ASSUME NEW h \in Helpers, Check(h) PROVE Deletions'
  BY <1>11, SameHere, GotoKeepsDeleted DEF Check, At, Deletions, Here, Undecided
<1>12. ASSUME NEW h \in Helpers, Drift(h) PROVE Deletions'
  BY <1>12, SameHere, GotoKeepsDeleted DEF Drift, At, Deletions, Here, Undecided
<1>13. ASSUME NEW h \in Helpers, Replace(h) PROVE Deletions'
  <2>1. /\ UNCHANGED <<runtime, drawn, gone>> /\ proc[h].stage \in Undecided
        /\ config' \in {config, proc[h].source, proc[h].target}
    BY <1>13 DEF Replace, At, Undecided
  <2>2. Present(config') \subseteq drawn \ gone
    BY <2>1 DEF Deletions, KeepsDeleted
  <2>3. Served' = Served
    BY <2>1 DEF Served
  <2>4. \A g \in Helpers : KeepsDeleted(proc'[g], drawn', gone', Here')
    BY <1>13, <2>1, GotoKeepsDeleted, AnswerKeepsDeleted DEF Replace, At, Undecided
  <2> QED BY <2>1, <2>2, <2>3, <2>4 DEF Deletions, Here
<1>14. ASSUME NEW h \in Helpers, ReplaceFails(h) PROVE Deletions'
  <2>1. /\ UNCHANGED <<runtime, drawn, gone>> /\ proc[h].stage \in Undecided
        /\ config' \in {config, proc[h].source, proc[h].target}
    BY <1>14 DEF ReplaceFails, At, Undecided
  <2>2. Present(config') \subseteq drawn \ gone
    BY <2>1 DEF Deletions, KeepsDeleted
  <2>3. Served' = Served
    BY <2>1 DEF Served
  <2>4. \A g \in Helpers : KeepsDeleted(proc'[g], drawn', gone', Here')
    BY <1>14, <2>1, GotoKeepsDeleted, AnswerKeepsDeleted DEF ReplaceFails, At, Undecided
  <2> QED BY <2>1, <2>2, <2>3, <2>4 DEF Deletions, Here
<1>15. ASSUME NEW h \in Helpers, Sync(h) PROVE Deletions'
  <2>1. UNCHANGED <<config, drawn, gone>>
    BY <1>15 DEF Sync
  <2>2. Served' \subseteq Here
    BY <1>15, RestartedServes DEF Sync, Served, Here
  <2>3. \A g \in Helpers : KeepsDeleted(proc'[g], drawn', gone', Here')
    BY <1>15, <2>1, GotoKeepsDeleted DEF Sync, At, Undecided
  <2> QED BY <2>1, <2>2, <2>3 DEF Deletions, Here
<1>16. ASSUME NEW h \in Helpers, SyncFails(h) PROVE Deletions'
  <2>1. UNCHANGED <<config, drawn, gone>>
    BY <1>16 DEF SyncFails
  <2>2. Served' \subseteq Here
    BY <1>16, FailedRestartServes DEF SyncFails, Here
  <2>3. \A g \in Helpers : KeepsDeleted(proc'[g], drawn', gone', Here')
    BY <1>16, <2>1, GotoKeepsDeleted DEF SyncFails, At, Undecided
  <2> QED BY <2>1, <2>2, <2>3 DEF Deletions, Here
<1>17. ASSUME NEW h \in Helpers, ReadBack(h) PROVE Deletions'
  <2>1. UNCHANGED <<config, runtime, drawn, gone>> /\ proc[h].stage = "reading"
    BY <1>17 DEF ReadBack, At
  <2>2. CASE proc[h].op = "create"
    BY <1>17, <2>1, <2>2, SameHere, GotoKeepsDeleted DEF ReadBack, Deletions, Here,
        Undecided
  <2>3. CASE proc[h].op = "delete"
    <3>1. proc[h].key \notin Present(config) /\ runtime.peers = Active(config)
      BY <1>17, <2>3 DEF ReadBack, ReadsBack, Listable
    <3>2. Served \subseteq Present(config)
      BY <3>1, RestartedServes DEF Served, Restarted
    <3>3. proc[h].key \notin Here'
      BY <2>1, <3>1, <3>2, SameHere DEF Here
    <3> QED BY <1>17, <2>1, <2>3, <3>3, SameHere, GotoKeepsDeleted
        DEF ReadBack, Deletions, Here, Undecided
  <2>4. CASE proc[h].op \notin {"create", "delete"}
    BY <1>17, <2>4, SameHere, AnswerKeepsDeleted DEF ReadBack, Deletions, Here
  <2> QED BY <2>2, <2>3, <2>4
<1>18. ASSUME NEW h \in Helpers, ReadBackFails(h) PROVE Deletions'
  BY <1>18, SameHere, GotoKeepsDeleted DEF ReadBackFails, At, Deletions, Here, Undecided
<1>19. ASSUME NEW h \in Helpers, Store(h) PROVE Deletions'
  BY <1>19, SameHere, AnswerKeepsDeleted DEF Store, Deletions, Here
<1>20. ASSUME NEW h \in Helpers, StoreFails(h) PROVE Deletions'
  BY <1>20, SameHere, GotoKeepsDeleted DEF StoreFails, At, Deletions, Here, Undecided
<1>21. ASSUME NEW h \in Helpers, Unlink(h) PROVE Deletions'
  <2>1. /\ proc[h].key \in drawn /\ proc[h].key \notin Here
        /\ UNCHANGED <<config, runtime, drawn>> /\ gone' = gone \cup {proc[h].key}
    BY <1>21 DEF Unlink, At, Deletions, KeepsDeleted, Here
  <2>2. \A g \in Helpers : KeepsDeleted(proc'[g], drawn', gone', Here')
    BY <1>21, AnswerKeepsDeleted DEF Unlink, At
  <2> QED BY <2>1, <2>2, SameHere DEF Deletions, Here
<1>22. ASSUME NEW h \in Helpers, UnlinkFails(h) PROVE Deletions'
  BY <1>22, SameHere, AnswerKeepsDeleted DEF UnlinkFails, Deletions, Here
<1>23. ASSUME NEW h \in Helpers, NothingToUndo(h) PROVE Deletions'
  BY <1>23, SameHere, AnswerKeepsDeleted DEF NothingToUndo, Deletions, Here
<1>24. ASSUME NEW h \in Helpers, ForeignFile(h) PROVE Deletions'
  BY <1>24, SameHere, AnswerKeepsDeleted DEF ForeignFile, Deletions, Here
<1>25. ASSUME NEW h \in Helpers, Undo(h) PROVE Deletions'
  BY <1>25, SameHere, GotoKeepsDeleted DEF Undo, At, Deletions, Here, Undecided
<1>26. ASSUME NEW h \in Helpers, UndoCheck(h) PROVE Deletions'
  BY <1>26, SameHere, GotoKeepsDeleted, AnswerKeepsDeleted
  DEF UndoCheck, At, Deletions, Here, Undecided
<1>27. ASSUME NEW h \in Helpers, UndoReplace(h) PROVE Deletions'
  <2>1. /\ UNCHANGED <<runtime, drawn, gone>> /\ proc[h].stage \in Undecided
        /\ config' \in {config, proc[h].source, proc[h].target}
    BY <1>27 DEF UndoReplace, At, Undecided
  <2>2. Present(config') \subseteq drawn \ gone
    BY <2>1 DEF Deletions, KeepsDeleted
  <2>3. Served' = Served
    BY <2>1 DEF Served
  <2>4. \A g \in Helpers : KeepsDeleted(proc'[g], drawn', gone', Here')
    BY <1>27, <2>1, GotoKeepsDeleted, AnswerKeepsDeleted DEF UndoReplace, At, Undecided
  <2> QED BY <2>1, <2>2, <2>3, <2>4 DEF Deletions, Here
<1>28. ASSUME NEW h \in Helpers, UndoReplaceFails(h) PROVE Deletions'
  <2>1. /\ UNCHANGED <<runtime, drawn, gone>> /\ proc[h].stage \in Undecided
        /\ config' \in {config, proc[h].source, proc[h].target}
    BY <1>28 DEF UndoReplaceFails, At, Undecided
  <2>2. Present(config') \subseteq drawn \ gone
    BY <2>1 DEF Deletions, KeepsDeleted
  <2>3. Served' = Served
    BY <2>1 DEF Served
  <2>4. \A g \in Helpers : KeepsDeleted(proc'[g], drawn', gone', Here')
    BY <1>28, <2>1, GotoKeepsDeleted, AnswerKeepsDeleted DEF UndoReplaceFails, At, Undecided
  <2> QED BY <2>1, <2>2, <2>3, <2>4 DEF Deletions, Here
<1>29. ASSUME NEW h \in Helpers, UndoSync(h) PROVE Deletions'
  <2>1. UNCHANGED <<config, drawn, gone>>
    BY <1>29 DEF UndoSync
  <2>2. Served' \subseteq Here
    BY <1>29, RestartedServes DEF UndoSync, Served, Here
  <2>3. \A g \in Helpers : KeepsDeleted(proc'[g], drawn', gone', Here')
    BY <1>29, <2>1, AnswerKeepsDeleted DEF UndoSync, At, Undecided
  <2> QED BY <2>1, <2>2, <2>3 DEF Deletions, Here
<1>30. ASSUME NEW h \in Helpers, UndoSyncFails(h) PROVE Deletions'
  <2>1. UNCHANGED <<config, drawn, gone>>
    BY <1>30 DEF UndoSyncFails
  <2>2. Served' \subseteq Here
    BY <1>30, FailedRestartServes DEF UndoSyncFails, Here
  <2>3. \A g \in Helpers : KeepsDeleted(proc'[g], drawn', gone', Here')
    BY <1>30, <2>1, AnswerKeepsDeleted DEF UndoSyncFails, At, Undecided
  <2> QED BY <2>1, <2>2, <2>3 DEF Deletions, Here
<1>31. ASSUME NEW h \in Helpers, Kill(h) PROVE Deletions'
  BY <1>31, SameHere, AnswerKeepsDeleted DEF Kill, Deletions, Here
<1>32. ASSUME Reboot PROVE Deletions'
  <2>1. UNCHANGED <<config, drawn, gone>>
    BY <1>32 DEF Reboot
  <2>2. Served' \subseteq Here
    BY <1>32, RestartedServes DEF Reboot, Served, Here
  <2>3. \A g \in Helpers : KeepsDeleted(proc'[g], drawn', gone', Here')
    BY <1>32, RestIsOut, OutKeepsDeleted DEF Reboot
  <2> QED BY <2>1, <2>2, <2>3, RestartedServes DEF Reboot, Deletions, Here, Served
<1>33. ASSUME LateRestart PROVE Deletions'
  <2>1. UNCHANGED <<config, drawn, gone, proc>>
    BY <1>33 DEF LateRestart
  <2>2. Served' \subseteq Present(config)
    BY <1>33, RestartedServes DEF LateRestart, Served
  <2> QED BY <2>1, <2>2 DEF Deletions, KeepsDeleted
<1>34. ASSUME NEW k \in Keys, EditByHand(k) PROVE Deletions'
  <2>1. /\ k \notin drawn /\ drawn' = drawn \cup {k}
        /\ UNCHANGED <<runtime, proc, gone>>
    BY <1>34 DEF EditByHand
  <2>2. Present(config') \subseteq Present(config) \cup {k}
    BY <1>34 DEF EditByHand, Present, Typed, TypeOK, Config
  <2>3. Served' = Served
    BY <2>1 DEF Served
  <2> QED BY <2>1, <2>2, <2>3 DEF Deletions, KeepsDeleted
<1>35. ASSUME RestartByHand PROVE Deletions'
  <2>1. UNCHANGED <<config, drawn, gone, proc>>
    BY <1>35 DEF RestartByHand
  <2>2. Served' \subseteq Present(config)
    BY <1>35, RestartedServes DEF RestartByHand, Served
  <2> QED BY <2>1, <2>2 DEF Deletions, KeepsDeleted
<1>36. ASSUME UNCHANGED vars PROVE Deletions'
  BY <1>36, SameHere DEF vars, Deletions, Here
<1> QED BY <1>1, <1>2, <1>3, <1>4, <1>5, <1>6, <1>7, <1>8, <1>9, <1>10, <1>11, <1>12,
    <1>13, <1>14, <1>15, <1>16, <1>17, <1>18, <1>19, <1>20, <1>21, <1>22, <1>23, <1>24,
    <1>25, <1>26, <1>27, <1>28, <1>29, <1>30, <1>31, <1>32, <1>33, <1>34, <1>35, <1>36
    DEF Next, Work, Failure, Environment

\* A key whose deletion was reported is never again in the file nor on the
\* interface, through rollbacks, kills, reboots, late restarts and edits.
THEOREM DeletedNeverReturns == Spec => []DeletedStaysDeleted
<1>1. Spec => [](Typed /\ Exclusive /\ Deletions)
  BY InitTyped, NextTyped, InitExclusive, NextExclusive, InitDeletions, NextDeletions, PTL
  DEF Spec
<1>2. Deletions => DeletedStaysDeleted
  <2>1. \A k, a : <<k, a>>[1] = k
    OBVIOUS
  <2> QED BY <2>1 DEF Deletions, Served, DeletedStaysDeleted
<1> QED BY <1>1, <1>2, PTL

-----------------------------------------------------------------------------
(* What a step may be                                                      *)

Outer == {"idle", "waiting", "locked", "planning"}
files == <<config, stored, drawn, issued, gone, byHand, edits>>

\* One process moves, and is told nothing before it is done.
Turn(h) ==
    /\ \A g \in Helpers \ {h} : proc'[g] = proc[g] /\ reply'[g] = reply[g]
    /\ proc'[h].stage # "idle" => reply'[h] = IF At(h, "idle") THEN "none" ELSE reply[h]

\* It has not begun to change anything.
Outside(h) ==
    /\ proc[h].stage \in Outer /\ proc'[h].stage \in Outer
    /\ UNCHANGED <<files, runtime, damaged>>

\* It decides what to change.
Plans(h) ==
    /\ At(h, "planning") /\ proc'[h].stage = "checking"
    /\ proc'[h].op = proc[h].op /\ proc'[h].nonce = proc[h].nonce
    /\ proc'[h].source = config /\ proc'[h].target # config
    /\ \/ /\ proc[h].op = "create" /\ MayCreate(h)
          /\ proc'[h].key \in Keys \ drawn /\ drawn' = drawn \cup {proc'[h].key}
          /\ proc'[h].target = WithPeer(config, proc'[h].key, proc[h].nonce)
       \/ /\ proc[h].op \in Mutations /\ MayMutate(h)
          /\ proc'[h].key = proc[h].key /\ drawn' = drawn
          /\ proc'[h].target = Target(proc[h].op, config, proc[h].key)
    /\ UNCHANGED <<config, stored, issued, gone, byHand, edits, runtime, damaged>>

\* It goes on with the change, or with undoing it.
Carries(h) ==
    /\ proc[h].stage \in Undecided /\ proc'[h].stage \in Undecided
    /\ proc'[h].op = proc[h].op /\ proc'[h].key = proc[h].key /\ proc'[h].nonce = proc[h].nonce
    /\ proc'[h].source = proc[h].source /\ proc'[h].target = proc[h].target
    /\ \/ config' = config
       \/ proc[h].stage = "replacing" /\ config' = proc[h].target
       \/ proc[h].stage = "unreplaced" /\ config' = proc[h].source
    /\ proc'[h].stage = "replacing" => config = proc[h].source /\ config' = config
    /\ proc'[h].stage = "unreplaced" => config = proc[h].target /\ config' = config
    /\ stored \subseteq stored'
    /\ UNCHANGED <<drawn, issued, gone, byHand, edits>>

\* The change is over: it is reported, given up or cut short.
Ends(h) ==
    /\ proc[h].stage \in Undecided \cup {"unlinking"} /\ proc'[h] = Rest
    /\ proc[h].stage \in Undecided /\ reply'[h] = "failed" /\ ~ damaged'
           => config = proc[h].source
    /\ UNCHANGED files

\* A deletion is found to be done.
Accepts(h) == At(h, "reading") /\ proc[h].op = "delete" /\ ReadBack(h)

Turns(h) ==
    /\ Turn(h)
    /\ \/ Outside(h) \/ Plans(h) \/ Carries(h) \/ Ends(h)
       \/ Accepts(h) \/ Store(h) \/ Unlink(h)

-----------------------------------------------------------------------------
(* Changes in progress                                                     *)

\* A change in progress is one of the registry's operations, from the file that it read
\* to the file that it writes.
Planned(h) ==
    LET p == proc[h] IN
    p.stage \in Undecided =>
        /\ p.target # p.source
        /\ \/ /\ p.op = "create"
              /\ p.nonce \in Nonces \ p.source.nonces
              /\ p.key \in drawn \ (Present(p.source) \cup gone \cup byHand)
              /\ FreeHosts(p.source) # {}
              /\ p.target = WithPeer(p.source, p.key, p.nonce)
           \/ /\ p.op \in Mutations
              /\ p.key \in Present(p.source) \ Protected
              /\ p.target = Target(p.op, p.source, p.key)

Plan == \A h \in Helpers : Planned(h)

\* The keys handed out whose configuration is not stored.
Unkept == {i[2] : i \in issued} \ stored

\* They are neither in the file nor in what may become the file.
Lodged ==
    /\ {i[2] : i \in issued} \subseteq drawn
    /\ Present(config) \cap Unkept = {}
    /\ \A h \in Helpers : proc[h].stage \in Undecided =>
          (Present(proc[h].source) \cup Present(proc[h].target)) \cap Unkept = {}

\* What is about to be overwritten has no peer that was added by hand before it was
\* compared.
Heeded ==
    /\ byHand \subseteq drawn
    /\ \A h \in Helpers :
          /\ At(h, "replacing") => byHand \cap Present(config) \subseteq Present(proc[h].source)
          /\ At(h, "unreplaced") => byHand \cap Present(config) \subseteq Present(proc[h].target)

\* A process that is not done has not been told anything.
Unanswered == \A h \in Helpers : ~At(h, "idle") => reply[h] = "none"

\* Which file is there, and what the interface serves, at each stage of a change.
Placed(h) ==
    LET p == proc[h] IN
    /\ p.stage \in {"checking", "replacing", "unsynced"} => config = p.source
    /\ p.stage \in {"syncing", "reading", "storing", "unchecked", "unreplaced"} => config = p.target
    /\ p.stage = "undoing" => config \in {p.source, p.target}

Serves(h) ==
    LET p == proc[h] IN
    \/ p.stage \in {"checking", "replacing", "reading", "storing"}
    \/ p.stage = "undoing" /\ config = p.source
    => runtime = Restarted(config)

\* Files stay in place unless somebody edits them, and the interface serves the file
\* except in the middle of a change, unless there is damage.
Settled ==
    /\ edits = 0 \/ ~ damaged => \A h \in Helpers : Placed(h)
    /\ ~ damaged =>
          /\ \A h \in Helpers : Serves(h)
          /\ (\A h \in Helpers : proc[h].stage \notin Undecided) => runtime = Restarted(config)

-----------------------------------------------------------------------------
(* Every step is of one of these kinds                                     *)

\* Moving on to another stage is a turn of the process, which only changes its stage.
LEMMA GotoTurn ==
    ASSUME Typed, NEW h \in Helpers, NEW s, Goto(h, s), reply' = reply, ~ At(h, "idle")
    PROVE  Turn(h) /\ proc'[h] = [proc[h] EXCEPT !.stage = s]
BY DEF Typed, TypeOK, Goto, Turn, At

\* An answer is a turn of the process, which rests afterwards.
LEMMA AnswerTurn ==
    ASSUME Typed, NEW h \in Helpers, NEW o, Answer(h, o)
    PROVE  Turn(h) /\ proc'[h] = Rest /\ reply'[h] = o
BY RestIsOut DEF Typed, TypeOK, Answer, Turn

\* Moving on inside a change carries it on.
LEMMA GotoCarries ==
    ASSUME Typed, NEW h \in Helpers, NEW s \in Undecided, Goto(h, s),
           proc[h].stage \in Undecided,
           UNCHANGED <<reply, drawn, issued, gone, byHand, edits>>, stored \subseteq stored',
           \/ config' = config
           \/ proc[h].stage = "replacing" /\ config' = proc[h].target
           \/ proc[h].stage = "unreplaced" /\ config' = proc[h].source,
           s = "replacing" => config = proc[h].source /\ config' = config,
           s = "unreplaced" => config = proc[h].target /\ config' = config
    PROVE  Turns(h)
<1>1. Turn(h) /\ proc'[h] = [proc[h] EXCEPT !.stage = s]
  BY GotoTurn DEF At, Undecided
<1>2. proc[h] \in Process
  BY DEF Typed, TypeOK
<1>3. /\ proc'[h].stage = s
      /\ proc'[h].op = proc[h].op /\ proc'[h].key = proc[h].key
      /\ proc'[h].nonce = proc[h].nonce
      /\ proc'[h].source = proc[h].source /\ proc'[h].target = proc[h].target
  BY <1>1, <1>2 DEF Process
<1>4. Carries(h)
  BY <1>3 DEF Carries
<1> QED BY <1>1, <1>4 DEF Turns

\* An answer before anything was planned leaves everything as it was.
LEMMA AnswerOutside ==
    ASSUME Typed, NEW h \in Helpers, NEW o, Answer(h, o), proc[h].stage \in Outer,
           UNCHANGED <<files, runtime, damaged>>
    PROVE  Turn(h) /\ Outside(h)
BY AnswerTurn, RestIsOut DEF Outside, Outer

\* An answer in the middle of a change ends it.
LEMMA AnswerEnds ==
    ASSUME Typed, NEW h \in Helpers, NEW o, Answer(h, o),
           proc[h].stage \in Undecided \cup {"unlinking"}, UNCHANGED files,
           proc[h].stage \in Undecided /\ o = "failed" /\ ~ damaged' => config = proc[h].source
    PROVE  Turns(h)
BY AnswerTurn DEF Ends, Turns

\* The steps of a helper before it changes anything, up to the plan of a change.
Begins(h) ==
    \/ \E op \in Operations, k \in Keys \cup {NoKey}, n \in Nonces \cup {NoNonce} :
          Request(h, op, k, n)
    \/ Acquire(h) \/ GiveUp(h) \/ List(h) \/ ListFails(h) \/ PlanFails(h)
    \/ PlanCreate(h) \/ PlanMutation(h) \/ Load(h) \/ Refuse(h)
    \/ Kill(h) /\ proc[h].stage \in Outer

\* They change nothing but the helper, and the keys that a creation draws.
LEMMA BeginningIsOuter ==
    ASSUME Typed, NEW h \in Helpers, Begins(h)
    PROVE  Turn(h) /\ (Outside(h) \/ Plans(h))
<1> USE DEF history, budget
<1>1. ASSUME \E op \in Operations, k \in Keys \cup {NoKey}, n \in Nonces \cup {NoNonce} :
               Request(h, op, k, n)
     PROVE  Turn(h) /\ (Outside(h) \/ Plans(h))
  <2>1. PICK op \in Operations, k \in Keys \cup {NoKey}, n \in Nonces \cup {NoNonce} :
           Request(h, op, k, n)
    BY <1>1
  <2>2. [Rest EXCEPT !.stage = "waiting", !.op = op, !.key = k, !.nonce = n].stage = "waiting"
    BY DEF Rest
  <2> QED BY <2>1, <2>2 DEF Request, Typed, TypeOK, Turn, At, Outside, Outer, files
<1>2. ASSUME Acquire(h) PROVE Turn(h) /\ (Outside(h) \/ Plans(h))
  <2>1. Turn(h) /\ proc'[h] = [proc[h] EXCEPT !.stage = "locked"]
    BY <1>2, GotoTurn DEF Acquire, At
  <2>2. proc'[h].stage = "locked"
    BY <2>1 DEF Typed, TypeOK, Process
  <2> QED BY <1>2, <2>1, <2>2 DEF Acquire, At, Outside, Outer, files
<1>3. ASSUME GiveUp(h) PROVE Turn(h) /\ (Outside(h) \/ Plans(h))
  BY <1>3, AnswerOutside DEF GiveUp, At, Outer, files
<1>4. ASSUME List(h) PROVE Turn(h) /\ (Outside(h) \/ Plans(h))
  <2>1. CASE proc[h].op = "list"
    BY <1>4, <2>1, AnswerOutside DEF List, At, Outer, files
  <2>2. CASE proc[h].op # "list"
    <3>1. proc'[h].stage = "planning"
      BY <1>4, <2>2 DEF List, Typed, TypeOK, Process
    <3>2. Turn(h)
      BY <1>4, <2>2 DEF List, Turn, At, Typed, TypeOK
    <3> QED BY <1>4, <2>2, <3>1, <3>2 DEF List, At, Outside, Outer, files
  <2> QED BY <2>1, <2>2
<1>5. ASSUME ListFails(h) PROVE Turn(h) /\ (Outside(h) \/ Plans(h))
  BY <1>5, AnswerOutside DEF ListFails, At, Outer, files
<1>6. ASSUME PlanFails(h) PROVE Turn(h) /\ (Outside(h) \/ Plans(h))
  BY <1>6, AnswerOutside DEF PlanFails, Fault, Outer, files
<1>7. ASSUME PlanCreate(h) PROVE Turn(h) /\ (Outside(h) \/ Plans(h))
  <2>1. PICK k \in Keys \ drawn :
           /\ drawn' = drawn \cup {k}
           /\ proc' = [proc EXCEPT ![h].stage = "checking", ![h].key = k,
                                   ![h].source = config,
                                   ![h].target = WithPeer(config, k, proc[h].nonce)]
    BY <1>7 DEF PlanCreate
  <2>2. WithPeer(config, k, proc[h].nonce) # config
    BY <1>7 DEF PlanCreate, MayCreate, WithPeer
  <2>3. /\ proc'[h].stage = "checking" /\ proc'[h].key = k /\ proc'[h].source = config
        /\ proc'[h].target = WithPeer(config, k, proc[h].nonce)
        /\ proc'[h].op = proc[h].op /\ proc'[h].nonce = proc[h].nonce
    BY <2>1 DEF Typed, TypeOK, Process
  <2>4. Turn(h)
    BY <1>7, <2>1 DEF PlanCreate, Turn, At, Typed, TypeOK
  <2>5. Plans(h)
    BY <1>7, <2>1, <2>2, <2>3 DEF PlanCreate, Plans
  <2> QED BY <2>4, <2>5
<1>8. ASSUME PlanMutation(h) PROVE Turn(h) /\ (Outside(h) \/ Plans(h))
  <2>1. CASE Target(proc[h].op, config, proc[h].key) = config
    BY <1>8, <2>1, AnswerOutside DEF PlanMutation, At, Outer, files
  <2>2. CASE Target(proc[h].op, config, proc[h].key) # config
    <3>1. /\ proc'[h].stage = "checking" /\ proc'[h].source = config
          /\ proc'[h].target = Target(proc[h].op, config, proc[h].key)
          /\ proc'[h].op = proc[h].op /\ proc'[h].nonce = proc[h].nonce
          /\ proc'[h].key = proc[h].key
      BY <1>8, <2>2 DEF PlanMutation, Typed, TypeOK, Process
    <3>2. Turn(h)
      BY <1>8, <2>2 DEF PlanMutation, Turn, At, Typed, TypeOK
    <3>3. Plans(h)
      BY <1>8, <2>2, <3>1 DEF PlanMutation, Plans
    <3> QED BY <3>2, <3>3
  <2> QED BY <2>1, <2>2
<1>9. ASSUME Load(h) PROVE Turn(h) /\ (Outside(h) \/ Plans(h))
  BY <1>9, AnswerOutside DEF Load, At, Outer, files
<1>10. ASSUME Refuse(h) PROVE Turn(h) /\ (Outside(h) \/ Plans(h))
  BY <1>10, AnswerOutside DEF Refuse, At, Outer, files
<1>11. ASSUME Kill(h), proc[h].stage \in Outer
       PROVE  Turn(h) /\ (Outside(h) \/ Plans(h))
  <2>1. damaged' = damaged
    BY <1>11 DEF Kill, Outer, Undecided, Typed, TypeOK
  <2> QED BY <1>11, <2>1, AnswerOutside DEF Kill, files
<1> QED BY <1>1, <1>2, <1>3, <1>4, <1>5, <1>6, <1>7, <1>8, <1>9, <1>10, <1>11 DEF Begins

\* A step is a turn of one helper, or something that the host or the operator does.
LEMMA StepKinds ==
    ASSUME Typed, Next
    PROVE  \/ \E h \in Helpers : Turns(h)
           \/ Reboot \/ LateRestart \/ RestartByHand
           \/ \E k \in Keys : EditByHand(k)
<1> USE DEF history, budget
<1>1. ASSUME NEW h \in Helpers, Begins(h) PROVE Turns(h)
  BY <1>1, BeginningIsOuter DEF Turns
<1>2. ASSUME NEW h \in Helpers, Check(h) PROVE Turns(h)
  BY <1>2, GotoCarries DEF Check, At, Undecided
<1>3. ASSUME NEW h \in Helpers, Drift(h) PROVE Turns(h)
  BY <1>3, GotoCarries DEF Drift, At, Undecided
<1>4. ASSUME NEW h \in Helpers, Replace(h) PROVE Turns(h)
  BY <1>4, GotoCarries DEF Replace, At, Undecided
<1>5. ASSUME NEW h \in Helpers, ReplaceFails(h) PROVE Turns(h)
  BY <1>5, GotoCarries DEF ReplaceFails, Fault, At, Undecided
<1>6. ASSUME NEW h \in Helpers, Sync(h) PROVE Turns(h)
  BY <1>6, GotoCarries DEF Sync, At, Undecided
<1>7. ASSUME NEW h \in Helpers, SyncFails(h) PROVE Turns(h)
  BY <1>7, GotoCarries DEF SyncFails, Fault, At, Undecided
<1>8. ASSUME NEW h \in Helpers, ReadBack(h) PROVE Turns(h)
  <2>1. CASE proc[h].op = "create"
    BY <1>8, <2>1, GotoCarries DEF ReadBack, At, Undecided
  <2>2. CASE proc[h].op = "delete"
    <3>1. Turn(h)
      BY <1>8, <2>2, GotoTurn DEF ReadBack, At
    <3> QED BY <1>8, <2>2, <3>1 DEF Accepts, ReadBack, Turns
  <2>3. CASE proc[h].op \notin {"create", "delete"}
    BY <1>8, <2>3, AnswerEnds DEF ReadBack, At, Undecided, files
  <2> QED BY <2>1, <2>2, <2>3
<1>9. ASSUME NEW h \in Helpers, ReadBackFails(h) PROVE Turns(h)
  BY <1>9, GotoCarries DEF ReadBackFails, Fault, At, Undecided
<1>10. ASSUME NEW h \in Helpers, Store(h) PROVE Turns(h)
  BY <1>10, AnswerTurn DEF Store, Turns
<1>11. ASSUME NEW h \in Helpers, StoreFails(h) PROVE Turns(h)
  BY <1>11, GotoCarries DEF StoreFails, Fault, At, Undecided
<1>12. ASSUME NEW h \in Helpers, Unlink(h) PROVE Turns(h)
  BY <1>12, AnswerTurn DEF Unlink, Turns
<1>13. ASSUME NEW h \in Helpers, UnlinkFails(h) PROVE Turns(h)
  BY <1>13, AnswerEnds DEF UnlinkFails, Fault, At, Undecided, files
<1>14. ASSUME NEW h \in Helpers, NothingToUndo(h) PROVE Turns(h)
  BY <1>14, AnswerEnds DEF NothingToUndo, At, Undecided, files
<1>15. ASSUME NEW h \in Helpers, ForeignFile(h) PROVE Turns(h)
  BY <1>15, AnswerEnds DEF ForeignFile, At, Undecided, files
<1>16. ASSUME NEW h \in Helpers, Undo(h) PROVE Turns(h)
  BY <1>16, GotoCarries DEF Undo, At, Undecided
<1>17. ASSUME NEW h \in Helpers, UndoCheck(h) PROVE Turns(h)
  <2>1. CASE config = proc[h].target
    BY <1>17, <2>1, GotoCarries DEF UndoCheck, At, Undecided
  <2>2. CASE config # proc[h].target /\ config = proc[h].source
    BY <1>17, <2>2, GotoCarries DEF UndoCheck, At, Undecided
  <2>3. CASE config # proc[h].target /\ config # proc[h].source
    BY <1>17, <2>3, AnswerEnds DEF UndoCheck, At, Undecided, files
  <2> QED BY <2>1, <2>2, <2>3
<1>18. ASSUME NEW h \in Helpers, UndoReplace(h) PROVE Turns(h)
  BY <1>18, GotoCarries DEF UndoReplace, At, Undecided
<1>19. ASSUME NEW h \in Helpers, UndoReplaceFails(h) PROVE Turns(h)
  <2>1. CASE config' = proc[h].source /\ Goto(h, "unsynced") /\ UNCHANGED <<lock, reply, damaged>>
    BY <1>19, <2>1, GotoCarries DEF UndoReplaceFails, Fault, At, Undecided
  <2>2. CASE config' = config /\ Answer(h, "failed") /\ damaged' = TRUE
    BY <1>19, <2>2, AnswerEnds DEF UndoReplaceFails, Fault, At, Undecided, files
  <2> QED BY <1>19, <2>1, <2>2 DEF UndoReplaceFails
<1>20. ASSUME NEW h \in Helpers, UndoSync(h) PROVE Turns(h)
  BY <1>20, AnswerEnds DEF UndoSync, At, Undecided, files
<1>21. ASSUME NEW h \in Helpers, UndoSyncFails(h) PROVE Turns(h)
  BY <1>21, AnswerEnds DEF UndoSyncFails, Fault, At, Undecided, files
<1>22. ASSUME NEW h \in Helpers, Kill(h) PROVE Turns(h)
  <2>1. CASE proc[h].stage \in Outer
    BY <1>22, <2>1, <1>1 DEF Begins
  <2>2. CASE proc[h].stage \in Undecided \cup {"unlinking"}
    BY <1>22, <2>2, AnswerEnds DEF Kill, files
  <2>3. proc[h].stage \in Stages
    BY DEF Typed, TypeOK, Process
  <2> QED BY <2>1, <2>2, <2>3 DEF Stages, Outer, Undecided
<1> QED BY <1>1, <1>2, <1>3, <1>4, <1>5, <1>6, <1>7, <1>8, <1>9, <1>10, <1>11, <1>12, <1>13,
           <1>14, <1>15, <1>16, <1>17, <1>18, <1>19, <1>20, <1>21, <1>22
    DEF Next, Work, Failure, Environment, Begins

-----------------------------------------------------------------------------
(* A change in progress is an operation of the registry                    *)

\* What the changes in progress rest on: the lock, the addresses and the keys.
Founded == Typed /\ Exclusive /\ SoundThroughout /\ Deletions

\* It holds throughout.
LEMMA AlwaysFounded == Spec => []Founded
<1>1. Init => Founded
  BY InitTyped, InitExclusive, InitSound, InitDeletions DEF Founded
<1>2. Founded /\ [Next]_vars => Founded'
  BY NextTyped, NextExclusive, NextSound, NextDeletions DEF Founded
<1> QED BY <1>1, <1>2, PTL DEF Spec

\* While one helper is past the lock, no other has a change in progress.
LEMMA OthersAreOut ==
    ASSUME Exclusive, NEW h \in Helpers, proc[h].stage \notin {"idle", "waiting"},
           NEW g \in Helpers \ {h}
    PROVE  proc[g].stage \in {"idle", "waiting"}
BY Alone

\* After the turn of a helper that is past the lock, no other has one.
LEMMA OthersStayOut ==
    ASSUME Exclusive, NEW h \in Helpers, Turn(h), proc[h].stage \notin {"idle", "waiting"},
           NEW g \in Helpers \ {h}
    PROVE  proc'[g] = proc[g] /\ proc'[g].stage \in {"idle", "waiting"}
BY Alone DEF Turn

\* Nothing is in progress at the start.
LEMMA InitPlanned == Init => Plan /\ Heeded
BY RestIsOut DEF Init, Plan, Planned, Heeded, Undecided, At

\* A step changes nothing that a change in progress was computed from, and a change
\* that begins is one of the operations.
LEMMA NextPlanned == Founded /\ Plan /\ Heeded /\ [Next]_vars => Plan'
<1> SUFFICES ASSUME Founded, Plan, Heeded, [Next]_vars PROVE Plan'
  OBVIOUS
<1> USE DEF Founded
<1>1. ASSUME NEW h \in Helpers, Turns(h) PROVE Plan'
  <2> USE <1>1 DEF Turns
  <2> SUFFICES ASSUME NEW g \in Helpers, proc'[g].stage \in Undecided PROVE Planned(g)'
    BY DEF Plan, Planned
  <2>1. CASE g # h /\ proc[h].stage \notin {"idle", "waiting"}
    BY <2>1, OthersStayOut DEF Undecided
  <2>2. CASE g # h /\ proc[h].stage \in {"idle", "waiting"}
    <3>1. Outside(h)
      BY <2>2 DEF Plans, Carries, Ends, Accepts, Store, Unlink, At, Undecided
    <3>2. proc'[g] = proc[g]
      BY <2>2 DEF Turn
    <3> QED BY <3>1, <3>2 DEF Outside, files, Plan, Planned
  <2>3. CASE g = h /\ Outside(h)
    BY <2>3 DEF Outside, Outer, Undecided
  <2>4. CASE g = h /\ Plans(h)
    <3>1. Present(config) \subseteq drawn /\ gone \subseteq drawn /\ byHand \subseteq drawn
      BY DEF Deletions, Heeded
    <3>2. CASE proc[h].op = "create" /\ MayCreate(h) /\ proc'[h].key \in Keys \ drawn
               /\ drawn' = drawn \cup {proc'[h].key}
               /\ proc'[h].target = WithPeer(config, proc'[h].key, proc[h].nonce)
      <4>1. proc[h].nonce \in Nonces
        BY <3>2 DEF Typed, Requesting, Shaped
      <4> QED BY <2>4, <3>1, <3>2, <4>1 DEF Plans, Planned, MayCreate
    <3>3. CASE proc[h].op \in Mutations /\ MayMutate(h) /\ proc'[h].key = proc[h].key
               /\ drawn' = drawn /\ proc'[h].target = Target(proc[h].op, config, proc[h].key)
      <4>1. proc[h].key \in Present(config) \ Protected
        BY <3>3 DEF MayMutate, SoundThroughout, Careful
      <4> QED BY <2>4, <3>3, <4>1 DEF Plans, Planned
    <3> QED BY <2>4, <3>2, <3>3 DEF Plans
  <2>5. CASE g = h /\ Carries(h)
    BY <2>5 DEF Carries, Plan, Planned
  <2>6. CASE g = h /\ (Ends(h) \/ Store(h) \/ Unlink(h))
    <3>1. proc'[h].stage = "idle"
      BY <2>6, AnswerTurn, RestIsOut DEF Ends, Store, Unlink
    <3> QED BY <2>6, <3>1 DEF Undecided
  <2>7. CASE g = h /\ Accepts(h)
    <3>1. proc'[h].stage = "unlinking"
      BY <2>7 DEF Accepts, ReadBack, Goto, Typed, TypeOK, Process
    <3> QED BY <2>7, <3>1 DEF Undecided
  <2> QED BY <2>1, <2>2, <2>3, <2>4, <2>5, <2>6, <2>7
<1>2. ASSUME Reboot PROVE Plan'
  BY <1>2, RestIsOut DEF Reboot, Plan, Planned, Undecided
<1>3. ASSUME LateRestart \/ RestartByHand \/ UNCHANGED vars PROVE Plan'
  BY <1>3 DEF LateRestart, RestartByHand, vars, history, Plan, Planned
<1>4. ASSUME NEW k \in Keys, EditByHand(k) PROVE Plan'
  <2>1. /\ drawn \subseteq drawn' /\ gone' = gone /\ proc' = proc
        /\ k \notin drawn /\ byHand' \subseteq byHand \cup {k}
    BY <1>4 DEF EditByHand
  <2> QED BY <2>1 DEF Plan, Planned
<1> QED BY <1>1, <1>2, <1>3, <1>4, StepKinds

\* What is about to be overwritten has been compared after the last edit that counts.
LEMMA NextHeeded == Founded /\ Heeded /\ [Next]_vars => Heeded'
<1> SUFFICES ASSUME Founded, Heeded, [Next]_vars PROVE Heeded'
  OBVIOUS
<1> USE DEF Founded
<1>1. ASSUME NEW h \in Helpers, Turns(h) PROVE Heeded'
  <2> USE <1>1 DEF Turns
  <2>1. byHand' = byHand /\ drawn \subseteq drawn'
    BY DEF Outside, Plans, Carries, Ends, Accepts, ReadBack, Store, Unlink, files, history
  <2>2. ASSUME NEW g \in Helpers \ {h}, proc'[g].stage \in {"replacing", "unreplaced"}
        PROVE  proc'[g] = proc[g] /\ config' = config
    <3>1. proc[h].stage \in {"idle", "waiting"}
      BY <2>2, OthersStayOut
    <3>2. Outside(h)
      BY <3>1 DEF Plans, Carries, Ends, Accepts, Store, Unlink, At, Undecided
    <3> QED BY <2>2, <3>2 DEF Turn, Outside, files
  <2>3. CASE Carries(h)
    <3>1. /\ proc'[h].stage = "replacing" =>
                byHand' \cap Present(config)' \subseteq Present(proc'[h].source)
          /\ proc'[h].stage = "unreplaced" =>
                byHand' \cap Present(config)' \subseteq Present(proc'[h].target)
      BY <2>1, <2>3 DEF Carries, Present
    <3> QED BY <2>1, <2>2, <3>1 DEF Heeded, At, Present
  <2>4. CASE ~ Carries(h)
    <3>1. proc'[h].stage \notin {"replacing", "unreplaced"}
      <4>1. Outside(h) \/ Plans(h) \/ Ends(h) => proc'[h].stage \notin {"replacing", "unreplaced"}
        BY RestIsOut DEF Outside, Plans, Ends, Outer
      <4>2. Store(h) \/ Unlink(h) => proc'[h].stage = "idle"
        BY AnswerTurn, RestIsOut DEF Store, Unlink
      <4>3. Accepts(h) => proc'[h].stage = "unlinking"
        BY DEF Accepts, ReadBack, Goto, Typed, TypeOK, Process
      <4> QED BY <2>4, <4>1, <4>2, <4>3
    <3> QED BY <2>1, <2>2, <3>1 DEF Heeded, At, Present
  <2> QED BY <2>3, <2>4
<1>2. ASSUME Reboot PROVE Heeded'
  BY <1>2, RestIsOut DEF Reboot, history, Heeded, At
<1>3. ASSUME LateRestart \/ RestartByHand \/ UNCHANGED vars PROVE Heeded'
  BY <1>3 DEF LateRestart, RestartByHand, vars, history, Heeded, At, Present
<1>4. ASSUME NEW k \in Keys, EditByHand(k) PROVE Heeded'
  <2>1. /\ drawn' = drawn \cup {k} /\ proc' = proc /\ k \notin drawn
        /\ byHand' \subseteq byHand \cup {k}
        /\ \A g \in Helpers : proc[g].stage \in {"replacing", "unreplaced"} => byHand' = byHand
    BY <1>4 DEF EditByHand
  <2>2. \A l \in Keys \ {k} : config'.peers[l] = config.peers[l]
    BY <1>4 DEF EditByHand, Typed, TypeOK, Config
  <2>3. Present(config)' \subseteq Present(config) \cup {k}
    BY <2>2 DEF Present
  <2> QED BY <2>1, <2>3 DEF Heeded, At
<1> QED BY <1>1, <1>2, <1>3, <1>4, StepKinds

\* Changes in progress are operations of the registry, and heed the edits, throughout.
LEMMA AlwaysPlanned == Spec => [](Founded /\ Plan /\ Heeded)
BY AlwaysFounded, InitPlanned, NextPlanned, NextHeeded, PTL DEF Spec

\* A creation adds its own key to the keys of the file.
LEMMA WithPeerAdds ==
    ASSUME NEW c \in Config, NEW k \in Keys, NEW n
    PROVE  Present(WithPeer(c, k, n)) = Present(c) \cup {k}
BY DEF Present, WithPeer, Config, Absent

\* A change of a peer removes its key only when it is a deletion, and no other key.
LEMMA TargetKeeps ==
    ASSUME NEW c \in Config, NEW op \in Mutations, NEW k \in Present(c)
    PROVE  /\ Present(c) \ {k} \subseteq Present(Target(op, c, k))
           /\ op # "delete" => k \in Present(Target(op, c, k))
<1>1. \A l \in Keys \ {k} : Target(op, c, k).peers[l] = c.peers[l]
  BY DEF Present, Target, Mutations, WithStatus, WithoutPeer, Config
<1>2. op # "delete" => Target(op, c, k).peers[k].status \in {"enabled", "disabled"}
  BY DEF Present, Target, Mutations, WithStatus, Config, Peer
<1> QED BY <1>1, <1>2 DEF Present, Absent

\* A peer added by hand outside the window of the rename leaves the file only through
\* its own deletion, under the lock: what is written has every such peer of the file
\* that it replaces, except the one that it deletes.
THEOREM HandEditsAreKept == Spec => HandEditsSurvive
<1> DEFINE Survives ==
      \A k \in byHand : k \in Present(config) /\ k \notin Present(config)' =>
          lock # NoOne /\ proc[lock].op = "delete" /\ proc[lock].key = k
<1>1. ASSUME Founded, Plan, Heeded, [Next]_vars PROVE Survives
  <2> SUFFICES ASSUME NEW k \in byHand, k \in Present(config), k \notin Present(config)'
               PROVE  lock # NoOne /\ proc[lock].op = "delete" /\ proc[lock].key = k
    OBVIOUS
  <2> USE <1>1 DEF Founded
  <2>1. config' # config
    BY DEF Present
  <2>2. ASSUME NEW h \in Helpers, Turns(h)
        PROVE  lock # NoOne /\ proc[lock].op = "delete" /\ proc[lock].key = k
    <3>1. /\ Carries(h)
          /\ \/ proc[h].stage = "replacing" /\ config' = proc[h].target
             \/ proc[h].stage = "unreplaced" /\ config' = proc[h].source
      BY <2>1, <2>2 DEF Turns, Outside, Plans, Carries, Ends, Accepts, ReadBack, Store,
         Unlink,
                        files
    <3>2. lock = h
      BY <3>1 DEF Exclusive
    <3>3. /\ proc[h] \in Process /\ proc[h].source \in Config /\ proc[h].target \in Config
          /\ proc[h].key \in Keys
      BY <3>1 DEF Typed, TypeOK, Process, Requesting, Shaped, Undecided
    <3>4. Planned(h) /\ proc[h].stage \in Undecided
      BY <3>1 DEF Plan, Undecided
    <3>5. CASE proc[h].stage = "replacing" /\ config' = proc[h].target
      <4>1. k \in Present(proc[h].source) /\ k \notin Present(proc[h].target)
        BY <3>5 DEF Heeded, At, Present
      <4>2. proc[h].op \in Mutations /\ proc[h].key \in Present(proc[h].source)
            /\ proc[h].target = Target(proc[h].op, proc[h].source, proc[h].key)
        BY <3>3, <3>4, <4>1, WithPeerAdds DEF Planned
      <4> QED BY <3>2, <3>3, <4>1, <4>2, TargetKeeps, NoneAssumption
    <3>6. CASE proc[h].stage = "unreplaced" /\ config' = proc[h].source
      <4>1. k \in Present(proc[h].target) /\ k \notin Present(proc[h].source)
        BY <3>6 DEF Heeded, At, Present
      <4>2. proc[h].op = "create" /\ proc[h].key \notin byHand
            /\ proc[h].target = WithPeer(proc[h].source, proc[h].key, proc[h].nonce)
        BY <3>3, <3>4, <4>1, TargetPresent DEF Planned
      <4> QED BY <3>3, <4>1, <4>2, WithPeerAdds
    <3> QED BY <3>1, <3>5, <3>6
  <2>3. CASE Reboot \/ LateRestart \/ RestartByHand \/ UNCHANGED vars
    BY <2>1, <2>3 DEF Reboot, LateRestart, RestartByHand, vars
  <2>4. ASSUME NEW l \in Keys, EditByHand(l)
        PROVE  lock # NoOne /\ proc[lock].op = "delete" /\ proc[lock].key = k
    <3>1. \A j \in Keys \ {l} : config'.peers[j] = config.peers[j]
      BY <2>4 DEF EditByHand, Typed, TypeOK, Config
    <3>2. l \notin Present(config)
      BY <2>4 DEF EditByHand, Deletions
    <3> QED BY <3>1, <3>2 DEF Present
  <2> QED BY <2>2, <2>3, <2>4, StepKinds
<1>2. Founded /\ Plan /\ Heeded /\ [Next]_vars => [Survives]_vars
  BY <1>1
<1> QED BY <1>2, AlwaysPlanned, PTL DEF Spec, HandEditsSurvive

-----------------------------------------------------------------------------
(* A reported failure has left no trace                                    *)

\* Nothing is reported at the start.
LEMMA InitUnanswered == Init => Unanswered
BY DEF Init, Unanswered

\* No step reports to a helper that goes on.
LEMMA NextUnanswered == Typed /\ Unanswered /\ [Next]_vars => Unanswered'
<1> SUFFICES ASSUME Typed, Unanswered, [Next]_vars PROVE Unanswered'
  OBVIOUS
<1>1. ASSUME NEW h \in Helpers, Turns(h) PROVE Unanswered'
  BY <1>1 DEF Turns, Turn, Unanswered, At
<1>2. ASSUME Reboot PROVE Unanswered'
  BY <1>2 DEF Reboot, Unanswered
<1>3. CASE UNCHANGED <<proc, reply>>
  BY <1>3 DEF Unanswered, At
<1> QED BY <1>1, <1>2, <1>3, StepKinds DEF LateRestart, RestartByHand, EditByHand, vars

\* An operation that reports a failure before its change was accepted has left the
\* file as it found it: a report ends the operation, and it ends with a failure only
\* when the file holds what it read, or with damage.
THEOREM FailuresLeaveNoTrace == Spec => FailedLeavesNoTrace
<1> DEFINE NoTrace ==
      \A h \in Helpers :
          proc[h].stage \in Undecided /\ reply'[h] = "failed" /\ ~ damaged'
            => config' = proc[h].source
<1>1. ASSUME Typed, Unanswered, [Next]_vars PROVE NoTrace
  <2> SUFFICES ASSUME NEW h \in Helpers, proc[h].stage \in Undecided, reply'[h] = "failed",
                      ~ damaged'
               PROVE  config' = proc[h].source
    OBVIOUS
  <2> USE <1>1
  <2>1. reply[h] = "none"
    BY DEF Unanswered, At, Undecided
  <2>2. ASSUME NEW g \in Helpers, Turns(g) PROVE config' = proc[h].source
    <3>1. g = h /\ proc'[h].stage = "idle"
      BY <2>1, <2>2 DEF Turns, Turn, At, Undecided
    <3>2. ~ Outside(h) /\ ~ Plans(h) /\ ~ Carries(h) /\ ~ Unlink(h)
      BY <3>1 DEF Outside, Plans, Carries, Unlink, At, Outer, Undecided
    <3>3. ~ Accepts(h)
      BY <3>1 DEF Accepts, ReadBack, Goto, Typed, TypeOK, Process
    <3>4. ~ Store(h)
      BY AnswerTurn DEF Store
    <3> QED BY <2>2, <3>1, <3>2, <3>3, <3>4 DEF Turns, Ends, files
  <2>3. CASE Reboot
    BY <2>3 DEF Reboot
  <2>4. CASE UNCHANGED reply
    BY <2>1, <2>4
  <2> QED BY <2>2, <2>3, <2>4, StepKinds DEF LateRestart, RestartByHand, EditByHand, vars
<1>2. Spec => [](Typed /\ Unanswered)
  BY InitTyped, NextTyped, InitUnanswered, NextUnanswered, PTL DEF Spec
<1>3. Typed /\ Unanswered /\ [Next]_vars => [NoTrace]_vars
  BY <1>1
<1> QED BY <1>2, <1>3, PTL DEF Spec, FailedLeavesNoTrace

-----------------------------------------------------------------------------
(* The configurations that were handed out                                 *)

\* Nothing is handed out at the start.
LEMMA InitLodged == Init => Lodged
<1> SUFFICES ASSUME Init PROVE Lodged
  OBVIOUS
<1>1. {i[2] : i \in issued} = {} /\ Unkept = {}
  BY DEF Init, Unkept
<1>2. \A h \in Helpers : proc[h].stage \notin Undecided
  BY RestIsOut DEF Init, Undecided
<1> QED BY <1>1, <1>2 DEF Lodged

\* A key joins the unkept ones only when its file is removed, which is after its peer
\* left the configuration, and an unkept key is never planned to come back.
LEMMA NextLodged == Founded /\ Plan /\ Lodged /\ [Next]_vars => Lodged'
<1> SUFFICES ASSUME Founded, Plan, Lodged, [Next]_vars PROVE Lodged'
  OBVIOUS
<1> USE DEF Founded
<1> DEFINE I == {i[2] : i \in issued}
<1>1. ASSUME NEW h \in Helpers, Turns(h) PROVE Lodged'
  <2> USE <1>1 DEF Turns
  <2>1. ASSUME NEW g \in Helpers \ {h}, proc'[g].stage \in Undecided
        PROVE  proc'[g] = proc[g] /\ Outside(h)
    <3>1. proc'[g] = proc[g]
      BY DEF Turn
    <3>2. proc[h].stage \in {"idle", "waiting"}
      BY <2>1, <3>1, Alone DEF Undecided
    <3> QED BY <3>1, <3>2 DEF Plans, Carries, Ends, Accepts, Store, Unlink, At, Undecided
  <2>2. CASE Outside(h)
    <3>1. I' = I /\ Unkept' = Unkept /\ drawn' = drawn /\ config' = config
      BY <2>2 DEF Outside, files, Unkept
    <3>2. proc'[h].stage \notin Undecided
      BY <2>2 DEF Outside, Outer, Undecided
    <3> QED BY <2>1, <3>1, <3>2 DEF Lodged, Present
  <2>3. CASE Plans(h)
    <3>1. I' = I /\ Unkept' = Unkept /\ drawn \subseteq drawn' /\ config' = config
      BY <2>3 DEF Plans, Unkept
    <3>2. Present(proc'[h].source) \cap Unkept = {}
      BY <2>3 DEF Plans, Lodged
    <3>3. Present(proc'[h].target) \cap Unkept = {}
      <4>0. config \in Config /\ Unkept \subseteq drawn /\ Present(config) \cap Unkept = {}
        BY DEF Typed, TypeOK, Lodged, Unkept
      <4>1. CASE /\ proc'[h].key \in Keys \ drawn
                 /\ proc'[h].target = WithPeer(config, proc'[h].key, proc[h].nonce)
        BY <4>0, <4>1, WithPeerPresent
      <4>2. CASE /\ proc[h].op \in Mutations /\ MayMutate(h)
                 /\ proc'[h].target = Target(proc[h].op, config, proc[h].key)
        BY <4>0, <4>2, TargetPresent DEF MayMutate
      <4> QED BY <2>3, <4>1, <4>2 DEF Plans
    <3>4. ~ Outside(h)
      BY <2>3 DEF Plans, Outside, Outer
    <3> QED BY <2>1, <3>1, <3>2, <3>3, <3>4 DEF Lodged, Present
  <2>4. CASE Carries(h)
    <3>1. I' = I /\ Unkept' \subseteq Unkept /\ drawn' = drawn
      BY <2>4 DEF Carries, Unkept
    <3>2. /\ proc[h].stage \in Undecided
          /\ proc'[h].source = proc[h].source /\ proc'[h].target = proc[h].target
          /\ config' \in {config, proc[h].source, proc[h].target}
      BY <2>4 DEF Carries
    <3>3. ~ Outside(h)
      BY <2>4 DEF Carries, Outside, Outer, Undecided
    <3> QED BY <2>1, <3>1, <3>2, <3>3 DEF Lodged, Present
  <2>5. CASE Ends(h) \/ Accepts(h)
    <3>1. I' = I /\ Unkept' = Unkept /\ drawn' = drawn /\ config' = config
      BY <2>5 DEF Ends, Accepts, ReadBack, files, history, Unkept
    <3>2. proc'[h].stage \notin Undecided
      <4>1. Ends(h) => proc'[h].stage = "idle"
        BY RestIsOut DEF Ends
      <4>2. Accepts(h) => proc'[h].stage = "unlinking"
        BY DEF Accepts, ReadBack, Goto, Typed, TypeOK, Process
      <4> QED BY <2>5, <4>1, <4>2 DEF Undecided
    <3> QED BY <2>1, <3>1, <3>2 DEF Lodged, Present
  <2>6. CASE Store(h)
    <3>1. proc[h].key \in drawn
      BY <2>6 DEF Store, At, Deletions, KeepsDeleted, Undecided
    <3>2. /\ issued' = issued \cup {<<proc[h].nonce, proc[h].key>>}
          /\ stored' = stored \cup {proc[h].key}
      BY <2>6 DEF Store
    <3>3. I' = I \cup {proc[h].key}
      <4> DEFINE new == <<proc[h].nonce, proc[h].key>>
      <4>1. new[2] = proc[h].key /\ issued' = issued \cup {new}
        BY <3>2
      <4> HIDE DEF new
      <4> QED BY <4>1
    <3>4. Unkept' \subseteq Unkept
      BY <3>2, <3>3 DEF Unkept
    <3>5. drawn' = drawn /\ config' = config /\ proc'[h].stage \notin Undecided
      BY <2>6, AnswerTurn, RestIsOut DEF Store, Undecided
    <3> QED BY <2>1, <3>1, <3>3, <3>4, <3>5 DEF Lodged, Present
  <2>7. CASE Unlink(h)
    <3>1. I' = I /\ Unkept' \subseteq Unkept \cup {proc[h].key}
      BY <2>7 DEF Unlink, Unkept
    <3>2. proc[h].key \notin Present(config)
      BY <2>7 DEF Unlink, At, Deletions, KeepsDeleted
    <3>3. drawn' = drawn /\ config' = config /\ proc'[h].stage \notin Undecided
      BY <2>7, AnswerTurn, RestIsOut DEF Unlink, Undecided
    <3>4. ~ Outside(h)
      BY <2>7 DEF Unlink, At, Outside, Outer
    <3> QED BY <2>1, <3>1, <3>2, <3>3, <3>4 DEF Lodged, Present
  <2> QED BY <2>2, <2>3, <2>4, <2>5, <2>6, <2>7
<1>2. ASSUME Reboot PROVE Lodged'
  <2>1. Unkept' = Unkept /\ I' = I /\ drawn' = drawn /\ config' = config
    BY <1>2 DEF Reboot, history, Unkept
  <2>2. \A g \in Helpers : proc'[g].stage \notin Undecided
    BY <1>2, RestIsOut DEF Reboot, Undecided
  <2> QED BY <2>1, <2>2 DEF Lodged, Present
<1>3. ASSUME LateRestart \/ RestartByHand \/ UNCHANGED vars PROVE Lodged'
  BY <1>3 DEF LateRestart, RestartByHand, vars, history, Lodged, Unkept, Present
<1>4. ASSUME NEW k \in Keys, EditByHand(k) PROVE Lodged'
  <2>1. /\ Unkept' = Unkept /\ I' = I /\ drawn \subseteq drawn' /\ proc' = proc
        /\ k \notin drawn
    BY <1>4 DEF EditByHand, Unkept
  <2>2. \A l \in Keys \ {k} : config'.peers[l] = config.peers[l]
    BY <1>4 DEF EditByHand, Typed, TypeOK, Config
  <2>3. Present(config)' \subseteq Present(config) \cup {k}
    BY <2>2 DEF Present
  <2>4. Unkept \subseteq drawn
    BY DEF Lodged, Unkept
  <2> QED BY <2>1, <2>3, <2>4 DEF Lodged, Present
<1> QED BY <1>1, <1>2, <1>3, <1>4, StepKinds

\* A peer whose creation was reported has its stored configuration for as long as it
\* is in the file, through rollbacks, kills, reboots and edits by hand: only the end of
\* its own deletion removes it, when nothing can bring the peer back.
THEOREM CreatedPeersStayServable == Spec => []CreatedPeersKeepConfig
<1>1. Lodged => CreatedPeersKeepConfig
  <2> SUFFICES ASSUME Lodged, NEW i \in issued, i[2] \in Present(config) PROVE i[2] \in stored
    BY DEF CreatedPeersKeepConfig
  <2>1. i[2] \in {j[2] : j \in issued}
    OBVIOUS
  <2> QED BY <2>1 DEF Lodged, Unkept
<1> QED BY <1>1, AlwaysPlanned, InitLodged, NextLodged, PTL DEF Spec

-----------------------------------------------------------------------------
(* A detected failure is repaired                                          *)

\* The start is settled.
LEMMA InitSettled == Init => Settled
BY RestIsOut DEF Init, Settled, Placed, Serves

\* A helper past the lock moves or answers: what it leaves behind decides.
LEMMA TurnSettles ==
    ASSUME Exclusive, NEW h \in Helpers, Turn(h), proc[h].stage \notin {"idle", "waiting"},
           edits' = 0 \/ ~ damaged' => Placed(h)',
           ~ damaged' => Serves(h)',
           ~ damaged' /\ proc'[h].stage \notin Undecided => runtime' = Restarted(config')
    PROVE  Settled'
<1>1. ASSUME NEW g \in Helpers \ {h} PROVE Placed(g)' /\ Serves(g)'
  BY <1>1, OthersStayOut DEF Placed, Serves
<1>2. edits' = 0 \/ ~ damaged' => \A g \in Helpers : Placed(g)'
  BY <1>1
<1>3. ~ damaged' => \A g \in Helpers : Serves(g)'
  BY <1>1
<1>4. ASSUME ~ damaged', \A g \in Helpers : proc'[g].stage \notin Undecided
      PROVE  runtime' = Restarted(config')
  BY <1>4
<1>5. Restarted(config)' = Restarted(config')
  BY DEF Restarted, Active, Enabled
<1> QED BY <1>2, <1>3, <1>4, <1>5 DEF Settled

\* A helper that answers after a change leaves no stage behind.
LEMMA AnswerSettles ==
    ASSUME Typed, Exclusive, NEW h \in Helpers, NEW o, Answer(h, o),
           proc[h].stage \notin {"idle", "waiting"},
           ~ damaged' => runtime' = Restarted(config')
    PROVE  Settled'
<1>1. Turn(h) /\ proc'[h].stage = "idle"
  BY AnswerTurn, RestIsOut
<1>2. Placed(h)' /\ Serves(h)'
  BY <1>1 DEF Placed, Serves
<1> QED BY <1>1, <1>2, TurnSettles

\* A helper that goes on inside a change leaves the file and the interface as its next
\* stage expects them.
LEMMA GotoSettles ==
    ASSUME Typed, Exclusive, NEW h \in Helpers, NEW s \in Undecided, Goto(h, s),
           reply' = reply, proc[h].stage \in Undecided,
           UNCHANGED <<damaged, edits>>,
           edits = 0 \/ ~ damaged =>
              /\ s \in {"checking", "replacing", "unsynced"} => config' = proc[h].source
              /\ s \in {"syncing", "reading", "storing", "unchecked", "unreplaced"}
                    => config' = proc[h].target
              /\ s = "undoing" => config' \in {proc[h].source, proc[h].target},
           ~ damaged /\ (\/ s \in {"checking", "replacing", "reading", "storing"}
                         \/ s = "undoing" /\ config' = proc[h].source)
              => runtime' = Restarted(config')
    PROVE  Settled'
<1>1. Turn(h) /\ proc'[h] = [proc[h] EXCEPT !.stage = s]
  BY GotoTurn DEF At, Undecided
<1>2. /\ proc'[h].stage = s
      /\ proc'[h].source = proc[h].source /\ proc'[h].target = proc[h].target
  BY <1>1 DEF Typed, TypeOK, Process
<1>3. edits' = 0 \/ ~ damaged' => Placed(h)'
  BY <1>2 DEF Placed
<1>4. Restarted(config)' = Restarted(config')
  BY DEF Restarted, Active, Enabled
<1>5. ~ damaged' => Serves(h)'
  BY <1>2, <1>4 DEF Serves
<1> QED BY <1>1, <1>2, <1>3, <1>5, TurnSettles DEF Undecided

\* A step outside the changes leaves the file and the interface alone, and a change
\* begins with both in place.
LEMMA OuterSettles ==
    ASSUME Exclusive, Settled, NEW h \in Helpers, Turn(h), Outside(h) \/ Plans(h)
    PROVE  Settled'
<1>1. UNCHANGED <<config, runtime, damaged, edits>> /\ Restarted(config)' = Restarted(config)
  BY DEF Outside, Plans, files, Restarted, Active, Enabled
<1>2. CASE Outside(h)
  <2>1. proc[h].stage \in Outer /\ proc'[h].stage \in Outer
        /\ \A g \in Helpers \ {h} : proc'[g] = proc[g]
    BY <1>2 DEF Outside, Turn
  <2>2. Placed(h)' /\ Serves(h)'
    BY <2>1 DEF Placed, Serves, Outer
  <2>3. \A g \in Helpers \ {h} : (Placed(g) => Placed(g)') /\ (Serves(g) => Serves(g)')
    BY <1>1, <2>1 DEF Placed, Serves
  <2>4. (\A g \in Helpers : proc'[g].stage \notin Undecided)
           => \A g \in Helpers : proc[g].stage \notin Undecided
    BY <2>1 DEF Outer, Undecided
  <2> QED BY <1>1, <2>2, <2>3, <2>4 DEF Settled
<1>3. CASE Plans(h)
  <2>1. /\ proc[h].stage = "planning" /\ proc'[h].stage = "checking"
        /\ proc'[h].source = config
    BY <1>3 DEF Plans, At
  <2>2. \A g \in Helpers : proc[g].stage \notin Undecided
    BY <2>1, Alone DEF Undecided
  <2>3. ~ damaged => runtime = Restarted(config)
    BY <2>2 DEF Settled
  <2>4. Placed(h)'
    BY <1>1, <2>1 DEF Placed
  <2>5. ~ damaged => Serves(h)'
    BY <1>1, <2>3 DEF Serves
  <2> QED BY <1>1, <2>1, <2>4, <2>5, TurnSettles DEF Undecided
<1> QED BY <1>2, <1>3

\* Every step leaves the file and the interface as the stages expect them, unless there
\* is damage.
LEMMA NextSettled == Founded /\ Plan /\ Settled /\ [Next]_vars => Settled'
<1> SUFFICES ASSUME Founded, Plan, Settled, [Next]_vars PROVE Settled'
  OBVIOUS
<1> USE DEF Founded, history, budget
<1>0. ASSUME NEW h \in Helpers, proc[h].stage \in Undecided
      PROVE  /\ proc[h].stage \notin {"idle", "waiting"}
             /\ proc[h].source # proc[h].target
             /\ edits = 0 \/ ~ damaged => Placed(h)
             /\ ~ damaged => Serves(h)
  BY <1>0 DEF Undecided, Plan, Planned, Settled
<1>1. ASSUME NEW h \in Helpers, Begins(h) PROVE Settled'
  BY <1>1, BeginningIsOuter, OuterSettles
<1>2. ASSUME NEW h \in Helpers, Check(h) PROVE Settled'
  BY <1>2, <1>0, GotoSettles DEF Check, At, Undecided, Serves
<1>3. ASSUME NEW h \in Helpers, Drift(h) PROVE Settled'
  BY <1>3, <1>0, GotoSettles DEF Drift, At, Undecided, Placed
<1>4. ASSUME NEW h \in Helpers, Replace(h) PROVE Settled'
  BY <1>4, GotoSettles DEF Replace, At, Undecided
<1>5. ASSUME NEW h \in Helpers, ReplaceFails(h) PROVE Settled'
  BY <1>5, <1>0, GotoSettles DEF ReplaceFails, Fault, At, Undecided, Placed, Serves
<1>6. ASSUME NEW h \in Helpers, Sync(h) PROVE Settled'
  BY <1>6, <1>0, GotoSettles DEF Sync, At, Undecided, Placed
<1>7. ASSUME NEW h \in Helpers, SyncFails(h) PROVE Settled'
  BY <1>7, <1>0, GotoSettles DEF SyncFails, Fault, At, Undecided, Placed
<1>8. ASSUME NEW h \in Helpers, ReadBack(h) PROVE Settled'
  <2>1. proc[h].stage = "reading" /\ proc[h].stage \in Undecided
    BY <1>8 DEF ReadBack, At, Undecided
  <2>2. ~ damaged => runtime = Restarted(config)
    BY <2>1, <1>0 DEF Serves
  <2>3. CASE proc[h].op = "create"
    BY <1>8, <1>0, <2>1, <2>2, <2>3, GotoSettles DEF ReadBack, Undecided, Placed
  <2>4. CASE proc[h].op = "delete"
    <3>1. Goto(h, "unlinking") /\ UNCHANGED <<config, runtime, reply, damaged>>
      BY <1>8, <2>4 DEF ReadBack
    <3>2. Turn(h)
      BY <2>1, <3>1, GotoTurn DEF At
    <3>3. proc'[h].stage = "unlinking"
      BY <3>1 DEF Goto, Typed, TypeOK, Process
    <3>4. Placed(h)' /\ Serves(h)'
      BY <3>3 DEF Placed, Serves
    <3> QED BY <2>1, <2>2, <3>1, <3>2, <3>4, TurnSettles
  <2>5. CASE proc[h].op \notin {"create", "delete"}
    BY <1>8, <2>1, <2>2, <2>5, AnswerSettles DEF ReadBack
  <2> QED BY <2>3, <2>4, <2>5
<1>9. ASSUME NEW h \in Helpers, ReadBackFails(h) PROVE Settled'
  BY <1>9, <1>0, GotoSettles DEF ReadBackFails, Fault, At, Undecided, Placed
<1>10. ASSUME NEW h \in Helpers, Store(h) PROVE Settled'
  BY <1>10, <1>0, AnswerSettles DEF Store, At, Undecided, Serves
<1>11. ASSUME NEW h \in Helpers, StoreFails(h) PROVE Settled'
  BY <1>11, <1>0, GotoSettles DEF StoreFails, Fault, At, Undecided, Placed
<1>12. ASSUME NEW h \in Helpers, Unlink(h) \/ UnlinkFails(h) \/ (Kill(h) /\ At(h, "unlinking"))
       PROVE  Settled'
  <2>1. /\ proc[h].stage = "unlinking" /\ UNCHANGED <<config, runtime>>
        /\ Answer(h, "ok") \/ Answer(h, "failed") \/ Answer(h, "none")
    BY <1>12 DEF Unlink, UnlinkFails, Kill, At
  <2>2. damaged' = damaged
    BY <1>12 DEF Unlink, UnlinkFails, Kill, At, Undecided, Typed, TypeOK
  <2>3. \A g \in Helpers : proc[g].stage \notin Undecided
    BY <2>1, Alone DEF Undecided
  <2>4. ~ damaged => runtime = Restarted(config)
    BY <2>3 DEF Settled
  <2> QED BY <2>1, <2>2, <2>4, AnswerSettles
<1>13. ASSUME NEW h \in Helpers, NothingToUndo(h) PROVE Settled'
  BY <1>13, <1>0, AnswerSettles DEF NothingToUndo, At, Undecided, Serves
<1>14. ASSUME NEW h \in Helpers, ForeignFile(h) PROVE Settled'
  BY <1>14, AnswerSettles DEF ForeignFile, At
<1>15. ASSUME NEW h \in Helpers, Undo(h) PROVE Settled'
  BY <1>15, GotoSettles DEF Undo, At, Undecided
<1>16. ASSUME NEW h \in Helpers, UndoCheck(h) PROVE Settled'
  <2>1. CASE config = proc[h].target
    BY <1>16, <2>1, GotoSettles DEF UndoCheck, At, Undecided
  <2>2. CASE config # proc[h].target /\ config = proc[h].source
    BY <1>16, <2>2, GotoSettles DEF UndoCheck, At, Undecided
  <2>3. CASE config # proc[h].target /\ config # proc[h].source
    BY <1>16, <2>3, AnswerSettles DEF UndoCheck, At
  <2> QED BY <2>1, <2>2, <2>3
<1>17. ASSUME NEW h \in Helpers, UndoReplace(h) PROVE Settled'
  BY <1>17, GotoSettles DEF UndoReplace, At, Undecided
<1>18. ASSUME NEW h \in Helpers, UndoReplaceFails(h) PROVE Settled'
  <2>1. CASE config' = proc[h].source /\ Goto(h, "unsynced") /\ UNCHANGED <<lock, reply, damaged>>
    BY <1>18, <2>1, GotoSettles DEF UndoReplaceFails, Fault, At, Undecided
  <2>2. CASE Answer(h, "failed") /\ damaged' = TRUE
    BY <1>18, <2>2, AnswerSettles DEF UndoReplaceFails, At
  <2> QED BY <1>18, <2>1, <2>2 DEF UndoReplaceFails
<1>19. ASSUME NEW h \in Helpers, UndoSync(h) PROVE Settled'
  <2>1. ~ damaged' => runtime' = Restarted(config')
    BY <1>19 DEF UndoSync
  <2> QED BY <1>19, <2>1, AnswerSettles DEF UndoSync, At
<1>20. ASSUME NEW h \in Helpers, UndoSyncFails(h) PROVE Settled'
  BY <1>20, AnswerSettles DEF UndoSyncFails, At
<1>21. ASSUME NEW h \in Helpers, Kill(h), proc[h].stage \in Undecided PROVE Settled'
  <2>1. damaged' = TRUE
    BY <1>21, <1>0 DEF Kill, Exclusive
  <2> QED BY <1>21, <1>0, <2>1, AnswerSettles DEF Kill
<1>22. ASSUME Reboot PROVE Settled'
  <2>1. \A h \in Helpers : proc'[h].stage = "idle"
    BY <1>22, RestIsOut DEF Reboot
  <2>2. \A h \in Helpers : Placed(h)' /\ Serves(h)'
    BY <2>1 DEF Placed, Serves
  <2>3. runtime' = Restarted(config)'
    BY <1>22 DEF Reboot, Restarted, Active, Enabled
  <2> QED BY <2>2, <2>3 DEF Settled
<1>23. ASSUME LateRestart PROVE Settled'
  <2>1. UNCHANGED <<config, proc, damaged, edits>> /\ runtime' = Restarted(config)'
    BY <1>23 DEF LateRestart, Restarted, Active, Enabled
  <2>2. \A h \in Helpers : (Placed(h) => Placed(h)') /\ Serves(h)'
    BY <2>1 DEF Placed, Serves
  <2> QED BY <2>1, <2>2 DEF Settled
<1>24. ASSUME RestartByHand PROVE Settled'
  <2>1. \A h \in Helpers : proc'[h].stage \in {"idle", "waiting"}
    BY <1>24, NoneAssumption DEF RestartByHand, Exclusive
  <2>2. runtime' = Restarted(config)'
    BY <1>24 DEF RestartByHand, Restarted, Active, Enabled
  <2>3. \A h \in Helpers : Placed(h)' /\ Serves(h)'
    BY <2>1 DEF Placed, Serves
  <2> QED BY <2>2, <2>3 DEF Settled
<1>25. ASSUME NEW k \in Keys, EditByHand(k) PROVE Settled'
  <2>1. edits' # 0 /\ damaged' = TRUE
    BY <1>25, BoundAssumption DEF EditByHand, Typed, TypeOK
  <2> QED BY <2>1 DEF Settled
<1>26. ASSUME UNCHANGED vars PROVE Settled'
  BY <1>26 DEF vars, Settled, Placed, Serves, Restarted, Active, Enabled
<1>27. ASSUME NEW h \in Helpers, Kill(h) PROVE Settled'
  BY <1>27, <1>1, <1>12, <1>21 DEF Typed, TypeOK, Process, Stages, Outer, Undecided, At,
     Begins
<1> QED BY <1>1, <1>2, <1>3, <1>4, <1>5, <1>6, <1>7, <1>8, <1>9, <1>10, <1>11, <1>12, <1>13,
           <1>14, <1>15, <1>16, <1>17, <1>18, <1>19, <1>20, <1>22, <1>23, <1>24, <1>25, <1>26,
           <1>27
    DEF Next, Work, Failure, Environment, Begins

\* By the time the lock is free, a detected failure is repaired: the interface serves the
\* enabled peers of the file, unless a kill, an edit by hand or a second failure is not
\* yet repaired by a restart.
THEOREM FailuresAreRepaired == Spec => []DetectedFailureRepaired
<1>1. Founded /\ Settled => DetectedFailureRepaired
  <2> SUFFICES ASSUME Founded, Settled, lock = NoOne, ~ damaged PROVE runtime = Restarted(config)
    BY DEF DetectedFailureRepaired
  <2>1. \A h \in Helpers : proc[h].stage \notin Undecided
    BY NoneAssumption DEF Founded, Exclusive, Undecided
  <2> QED BY <2>1 DEF Settled
<1> QED BY <1>1, AlwaysPlanned, InitSettled, NextSettled, PTL DEF Spec

-----------------------------------------------------------------------------
(* The helpers implement the registry                                      *)

\* What the registry shows while a change is in progress is the file that it started
\* from, and otherwise the file.
LEMMA CommittedIs ==
    ASSUME Exclusive
    PROVE  /\ \A h \in Helpers : proc[h].stage \in Undecided => Committed = proc[h].source
           /\ (\A h \in Helpers : proc[h].stage \notin Undecided) /\ lock \in Helpers \cup {NoOne}
                 => Committed = config
<1>1. ASSUME NEW h \in Helpers, proc[h].stage \in Undecided PROVE Committed = proc[h].source
  <2>1. lock = h /\ lock # NoOne
    BY <1>1, NoneAssumption DEF Exclusive, Undecided
  <2> QED BY <1>1, <2>1 DEF Committed
<1>2. ASSUME \A h \in Helpers : proc[h].stage \notin Undecided, lock \in Helpers \cup {NoOne}
      PROVE  Committed = config
  BY <1>2 DEF Committed
<1> QED BY <1>1, <1>2

\* The same after a step, one or the other.
LEMMA CommittedBecomes ==
    ASSUME Typed', Exclusive'
    PROVE  /\ \A h \in Helpers : proc'[h].stage \in Undecided => Committed' = proc'[h].source
           /\ (\A h \in Helpers : proc'[h].stage \notin Undecided) => Committed' = config'
<1>1. ASSUME NEW h \in Helpers, proc'[h].stage \in Undecided PROVE Committed' = proc'[h].source
  <2>1. lock' = h /\ lock' # NoOne
    BY <1>1, NoneAssumption DEF Exclusive, Undecided
  <2> QED BY <1>1, <2>1 DEF Committed
<1>2. ASSUME \A h \in Helpers : proc'[h].stage \notin Undecided PROVE Committed' = config'
  BY <1>2 DEF Committed, Typed, TypeOK
<1> QED BY <1>1, <1>2

\* A change that takes effect is an operation of the registry: with its answer for a
\* creation, or with its answer lost.
LEMMA ChangeIsOperation ==
    ASSUME Founded, Plan, NEW h \in Helpers, proc[h].stage \in Undecided,
           Committed = proc[h].source, Committed' = proc[h].target, gone' = gone,
           \/ issued' = issued
           \/ proc[h].op = "create" /\ issued' = issued \cup {<<proc[h].nonce, proc[h].key>>}
    PROVE  Registry!Next
<1> DEFINE s == proc[h].source  t == proc[h].target  k == proc[h].key  n == proc[h].nonce
<1>1. /\ s \in Config /\ t \in Config /\ k \in Keys /\ Planned(h)
  BY DEF Founded, Typed, TypeOK, Process, Requesting, Shaped, Plan, Undecided
<1>2. Registry!Present = Present(s) /\ Registry!Absent = Absent
  BY DEF Registry!Present, Registry!Absent, Present, Absent
<1>3. CASE /\ proc[h].op = "create" /\ n \in Nonces \ s.nonces
           /\ k \in drawn \ (Present(s) \cup gone \cup byHand)
           /\ FreeHosts(s) # {} /\ t = WithPeer(s, k, n)
  <2> DEFINE a == FirstFree(s)
  <2>1. a \in Hosts /\ \A l \in Present(s) : s.peers[l].host # a
    BY <1>3, FirstFreeIsFree DEF UsedHosts
  <2>2. /\ t.peers = [s.peers EXCEPT ![k] = [status |-> "enabled", host |-> a]]
        /\ t.nonces = s.nonces \cup {n}
    BY <1>3 DEF WithPeer
  <2>3. issued' \in {issued, issued \cup {<<n, k>>}} /\ gone' = gone
    OBVIOUS
  <2>4. Registry!Create(n, k, a)
    BY <1>1, <1>2, <1>3, <2>1, <2>2, <2>3 DEF Registry!Create
  <2> QED BY <1>1, <1>3, <2>1, <2>4 DEF Registry!Next
<1>4. CASE /\ proc[h].op \in Mutations /\ k \in Present(s) \ Protected
           /\ t = Target(proc[h].op, s, k)
  <2>0. issued' = issued
    BY <1>4 DEF Mutations
  <2>1. CASE proc[h].op = "delete"
    <3>1. t.peers = [s.peers EXCEPT ![k] = Absent] /\ t.nonces = s.nonces
      BY <1>1, <1>4, <2>1 DEF Target, WithoutPeer, Config
    <3>2. Registry!Delete(k)
      BY <1>2, <1>4, <2>0, <3>1 DEF Registry!Delete
    <3> QED BY <1>1, <3>2 DEF Registry!Next
  <2>2. ASSUME NEW st \in {"enabled", "disabled"}, t = WithStatus(s, k, st) PROVE Registry!Next
    <3>1. t.peers = [s.peers EXCEPT ![k].status = st] /\ t.nonces = s.nonces
      BY <1>1, <2>2 DEF WithStatus, Config
    <3>2. Registry!SetStatus(k, st)
      BY <1>2, <1>4, <2>0, <3>1 DEF Registry!SetStatus
    <3> QED BY <1>1, <3>2 DEF Registry!Next
  <2> QED BY <1>4, <2>1, <2>2 DEF Target, Mutations
<1> QED BY <1>1, <1>3, <1>4 DEF Planned

\* The start of the helpers is a start of the registry.
LEMMA InitRegistry == Init => Registry!Init
<1> SUFFICES ASSUME Init PROVE Registry!Init
  OBVIOUS
<1>1. Committed = config
  BY DEF Init, Committed
<1>2. Typed
  BY InitTyped
<1> DEFINE p == [k \in Protected |-> config.peers[k].host]
<1>3. /\ \A k \in Protected :
            config.peers[k].status = "enabled" /\ config.peers[k].host \in Hosts
      /\ \A k \in Keys \ Protected : config.peers[k] = Absent
  BY ProtectedAssumption DEF Init, Present, Absent
<1>4. p \in [Protected -> Hosts]
  BY <1>3
<1>5. config.peers = [k \in Keys |-> IF k \in Protected
                                      THEN [status |-> "enabled", host |-> p[k]]
                                      ELSE Absent]
  <2>1. config.peers \in [Keys -> Peer]
    BY <1>2 DEF Typed, TypeOK, Config
  <2>2. ASSUME NEW k \in Protected
        PROVE  config.peers[k] = [status |-> "enabled", host |-> config.peers[k].host]
    BY <1>3, <2>1, ProtectedAssumption DEF Peer, Absent
  <2> QED BY <1>3, <2>1, <2>2
<1>6. \A k, l \in Protected : p[k] = p[l] => k = l
  BY DEF Init
<1>7. config.nonces = {} /\ issued = {} /\ gone = {}
  BY DEF Init
<1> HIDE DEF p
<1> QED BY <1>1, <1>4, <1>5, <1>6, <1>7 DEF Registry!Init, Registry!Absent, Absent

\* Without edits by hand, every step is an operation of the registry or changes nothing
\* that it shows.
LEMMA NextRegistry ==
    ASSUME Founded, Plan, Settled, Founded', [Next]_vars, edits = 0, edits' = 0
    PROVE  [Registry!Next]_(Registry!vars)
<1> DEFINE Shown == <<Committed, issued, gone>>
<1>0. Shown' = Shown => Registry!vars' = Registry!vars
  BY DEF Registry!vars
<1>1. /\ \A g \in Helpers : proc[g].stage \in Undecided => Committed = proc[g].source
      /\ (\A g \in Helpers : proc[g].stage \notin Undecided) => Committed = config
  BY CommittedIs DEF Founded, Typed, TypeOK
<1>2. /\ \A g \in Helpers : proc'[g].stage \in Undecided => Committed' = proc'[g].source
      /\ (\A g \in Helpers : proc'[g].stage \notin Undecided) => Committed' = config'
  BY CommittedBecomes DEF Founded
<1>3. ASSUME NEW h \in Helpers, proc[h].stage \in Undecided
      PROVE  config \in {proc[h].source, proc[h].target}
  BY <1>3 DEF Settled, Placed, Undecided
<1>4. ASSUME NEW h \in Helpers, proc[h].stage \in Undecided, Committed' = config,
             issued' = issued, gone' = gone
      PROVE  [Registry!Next]_(Registry!vars)
  <2>1. CASE config = proc[h].source
    BY <1>0, <1>1, <1>4, <2>1
  <2>2. CASE config = proc[h].target
    BY <1>1, <1>4, <2>2, ChangeIsOperation
  <2> QED BY <1>3, <1>4, <2>1, <2>2
<1>5. ASSUME NEW h \in Helpers, Turns(h) PROVE [Registry!Next]_(Registry!vars)
  <2> USE <1>5 DEF Turns
  <2>1. CASE Outside(h)
    <3>1. UNCHANGED <<config, issued, gone>>
          /\ proc[h].stage \notin Undecided /\ proc'[h].stage \notin Undecided
          /\ \A g \in Helpers \ {h} : proc'[g] = proc[g]
      BY <2>1 DEF Outside, files, Outer, Undecided, Turn
    <3>2. Committed' = Committed
      BY <1>1, <1>2, <3>1
    <3> QED BY <1>0, <3>1, <3>2
  <2> DEFINE Past == proc[h].stage \notin {"idle", "waiting"}
  <2>2. Past => \A g \in Helpers \ {h} : /\ proc[g].stage \notin Undecided
                                         /\ proc'[g].stage \notin Undecided
    BY OthersAreOut, OthersStayOut DEF Founded, Undecided
  <2>3. CASE Plans(h)
    <3>1. /\ Past /\ proc[h].stage \notin Undecided /\ proc'[h].stage \in Undecided
          /\ proc'[h].source = config /\ UNCHANGED <<config, issued, gone>>
      BY <2>3 DEF Plans, At, Undecided
    <3>2. Committed' = Committed
      BY <1>1, <1>2, <2>2, <3>1
    <3> QED BY <1>0, <3>1, <3>2
  <2>4. CASE Carries(h)
    <3>1. /\ proc[h].stage \in Undecided /\ proc'[h].stage \in Undecided
          /\ proc'[h].source = proc[h].source /\ UNCHANGED <<issued, gone>>
      BY <2>4 DEF Carries
    <3>2. Committed' = Committed
      BY <1>1, <1>2, <3>1
    <3> QED BY <1>0, <3>1, <3>2
  <2>5. CASE Ends(h)
    <3>1. /\ Past /\ proc'[h].stage \notin Undecided /\ UNCHANGED <<config, issued, gone>>
      BY <2>5, RestIsOut DEF Ends, files, Undecided
    <3>2. Committed' = config
      BY <1>2, <2>2, <3>1
    <3>3. CASE proc[h].stage \in Undecided
      BY <1>4, <3>1, <3>2, <3>3
    <3>4. CASE proc[h].stage \notin Undecided
      BY <1>0, <1>1, <2>2, <3>1, <3>2, <3>4
    <3> QED BY <3>3, <3>4
  <2>6. CASE Accepts(h)
    <3>1. /\ Past /\ proc[h].stage \in Undecided /\ UNCHANGED <<config, issued, gone>>
      BY <2>6 DEF Accepts, ReadBack, At, Undecided, history
    <3>2. proc'[h].stage = "unlinking"
      BY <2>6 DEF Accepts, ReadBack, Goto, Founded, Typed, TypeOK, Process
    <3>3. Committed' = config
      BY <1>2, <2>2, <3>1, <3>2 DEF Undecided
    <3> QED BY <1>4, <3>1, <3>3
  <2>7. CASE Store(h)
    <3>1. /\ Past /\ proc[h].stage = "storing" /\ proc[h].stage \in Undecided
          /\ UNCHANGED <<config, gone>>
          /\ issued' = issued \cup {<<proc[h].nonce, proc[h].key>>}
      BY <2>7 DEF Store, At, Undecided
    <3>2. proc'[h].stage \notin Undecided
      BY <2>7, AnswerTurn, RestIsOut DEF Store, Undecided, Founded
    <3>3. Committed' = proc[h].target
      BY <1>2, <2>2, <3>1, <3>2 DEF Settled, Placed
    <3>4. proc[h].op = "create"
      BY <3>1 DEF Founded, Typed, Requesting, Shaped
    <3> QED BY <1>1, <3>1, <3>3, <3>4, ChangeIsOperation
  <2>8. CASE Unlink(h)
    <3>1. /\ Past /\ proc[h].stage = "unlinking" /\ proc[h].stage \notin Undecided
          /\ UNCHANGED <<config, issued>> /\ gone' = gone \cup {proc[h].key}
      BY <2>8 DEF Unlink, At, Undecided
    <3>2. proc'[h].stage \notin Undecided
      BY <2>8, AnswerTurn, RestIsOut DEF Unlink, Undecided, Founded
    <3>3. Committed = config /\ Committed' = config
      BY <1>1, <1>2, <2>2, <3>1, <3>2
    <3>4. proc[h].key \in Keys /\ proc[h].key \notin Present(config)
      BY <3>1 DEF Founded, Typed, Requesting, Shaped, Deletions, KeepsDeleted
    <3>5. Registry!ReportDeleted(proc[h].key)
      BY <3>1, <3>3, <3>4
      DEF Registry!ReportDeleted, Registry!Present, Registry!Absent, Present, Absent
    <3> QED BY <3>4, <3>5 DEF Registry!Next
  <2> QED BY <2>1, <2>3, <2>4, <2>5, <2>6, <2>7, <2>8
<1>6. ASSUME Reboot PROVE [Registry!Next]_(Registry!vars)
  <2>1. /\ UNCHANGED <<config, issued, gone>>
        /\ \A g \in Helpers : proc'[g].stage \notin Undecided
    BY <1>6, RestIsOut DEF Reboot, history, Undecided
  <2>2. Committed' = config
    BY <1>2, <2>1
  <2>3. CASE \E h \in Helpers : proc[h].stage \in Undecided
    BY <1>4, <2>1, <2>2, <2>3
  <2>4. CASE \A h \in Helpers : proc[h].stage \notin Undecided
    BY <1>0, <1>1, <2>1, <2>2, <2>4
  <2> QED BY <2>3, <2>4
<1>7. ASSUME LateRestart \/ RestartByHand \/ UNCHANGED vars PROVE [Registry!Next]_(Registry!vars)
  <2>1. UNCHANGED <<config, lock, proc, issued, gone>>
    BY <1>7 DEF LateRestart, RestartByHand, vars, history
  <2>2. Committed' = Committed
    BY <2>1 DEF Committed
  <2> QED BY <1>0, <2>1, <2>2
<1>8. ASSUME NEW k \in Keys, EditByHand(k) PROVE FALSE
  BY <1>8 DEF EditByHand
<1> QED BY <1>5, <1>6, <1>7, <1>8, StepKinds DEF Founded

\* As long as nobody edits the file by hand, the helpers implement the registry: through
\* failures, rollbacks, kills, reboots and late restarts, what they show changes by one
\* whole operation at a time.
THEOREM HelpersImplementRegistry == Spec /\ [](edits = 0) => ImplementsRegistry
<1>1. Spec => [](Founded /\ Plan /\ Settled)
  BY AlwaysPlanned, InitSettled, NextSettled, PTL DEF Spec
<1>2. Init => Registry!Init
  BY InitRegistry
<1>3. /\ Founded /\ Plan /\ Settled /\ edits = 0
      /\ (Founded /\ Plan /\ Settled /\ edits = 0)' /\ [Next]_vars
      => [Registry!Next]_(Registry!vars)
  BY NextRegistry
<1> QED BY <1>1, <1>2, <1>3, PTL DEF Spec, ImplementsRegistry, Registry!Spec

\* In particular they do when the bound allows no edit, as in the run.
THEOREM UneditedImplementRegistry ==
    ASSUME MaxEdits = 0
    PROVE  Spec => ImplementsRegistry
<1>1. Typed => edits = 0
  BY DEF Typed, TypeOK
<1>2. Spec => [](edits = 0)
  BY <1>1, AlwaysFounded, PTL DEF Founded
<1> QED BY <1>2, HelpersImplementRegistry, PTL

=============================================================================
