-------------------------- MODULE StatusRevisionProofs --------------------------
(***************************************************************************)
(* The proofs of three components; their names do not clash.               *)
(*                                                                         *)
(* First, what the collection of the status keeps for every number of      *)
(* threads and flights and every length of the times: one command at a     *)
(* time, and no answer that is older than the two times allow.  Both hold  *)
(* of the collector by itself and of the requests that use it.             *)
(*                                                                         *)
(* Then the two ends of an edit that carries the revision it was made      *)
(* from: the helper that compares it (SavedFiles) and the page that sends  *)
(* it (SettingsPage).                                                      *)
(***************************************************************************)
EXTENDS StatusRequests, SavedFiles, SettingsPage, SequenceTheorems, TLAPS

\* The thread runs the command of a flight.
Flying(t) == thread[t].stage \in {"reading", "publishing"}

\* One thread at most runs a command, for the flight in the air.
OneOwner ==
    /\ \A t \in Threads : Flying(t) => inflight # 0 /\ thread[t].flight = inflight
    /\ \A t, u \in Threads : Flying(t) /\ Flying(u) => t = u

\* The flight in the air has no result yet.
InTheAir == inflight # 0 => flights[inflight] = Pending

\* No call began in the future, and no command lasts longer than it may.
OnTime ==
    \A t \in Threads :
        /\ thread[t].asked <= clock
        /\ Flying(t) => clock <= thread[t].asked + ReadLimit

\* A result was read after its owner had asked.
ReadInTime ==
    \A t \in Threads :
        thread[t].stage = "publishing" /\ thread[t].result.ok
            => thread[t].asked <= thread[t].result.at

\* The result that a thread waits for is one it may be given.
WaitsForFresh ==
    \A t \in Threads :
        thread[t].stage = "waiting"
            => /\ thread[t].flight \in 1..Len(flights)
               /\ LET result == flights[thread[t].flight]
                  IN  result \in Results /\ result.ok => thread[t].asked <= result.at + ReadLimit

\* Only a good result is kept, and it was read not long before it was kept.
CachedInTime ==
    cached # NoCache
        => cached.result.ok /\ cached.at <= cached.result.at + ReadLimit /\ cached.at <= clock

\* The inductive invariant.
Sound ==
    /\ TypeOK /\ OneOwner /\ InTheAir /\ OnTime /\ ReadInTime /\ WaitsForFresh /\ CachedInTime
    /\ AnswersAreFresh

-----------------------------------------------------------------------------

\* A result is the failure, or it has a time; it is never pending.
LEMMA ResultKinds ==
    /\ \A r \in Results : r = Failed \/ (r.ok = TRUE /\ r.at \in Time)
    /\ Failed \in Results /\ Failed.ok = FALSE
    /\ \A c \in Time : [ok |-> TRUE, at |-> c] \in Results
    /\ Pending \notin Results
    /\ Time \subseteq Nat
<1>1. Pending \notin Results
  <2>1. Pending # Failed
    BY DEF Pending, Failed
  <2>2. Pending \notin [ok : {TRUE}, at : Time]
    BY DEF Pending
  <2> QED
    BY <2>1, <2>2 DEF Results
<1>2. Time \subseteq Nat
  BY BoundAssumption DEF Time
<1>3. \A r \in Results : r = Failed \/ (r.ok = TRUE /\ r.at \in Time)
  BY DEF Results
<1>4. Failed \in Results /\ Failed.ok = FALSE
  BY DEF Results, Failed
<1>5. \A c \in Time : [ok |-> TRUE, at |-> c] \in Results
  BY DEF Results
<1> QED
  BY <1>1, <1>2, <1>3, <1>4, <1>5

\* A thread that has a new state and leaves the others alone keeps the type.
LEMMA ThreadTyped ==
    ASSUME thread \in [Threads -> Thread], NEW t \in Threads, NEW new \in Thread,
           thread' = [thread EXCEPT ![t] = new]
    PROVE  /\ thread' \in [Threads -> Thread]
           /\ thread'[t] = new
           /\ \A u \in Threads \ {t} : thread'[u] = thread[u]
  OBVIOUS

\* A call that returns leaves its thread idle, with the answer.
LEMMA Returned ==
    ASSUME TypeOK, NEW t \in Threads, NEW result \in Results, Return(t, result)
    PROVE  /\ thread' \in [Threads -> Thread]
           /\ thread'[t].stage = "idle" /\ thread'[t].asked = thread[t].asked
           /\ thread'[t].answer = result
           /\ \A u \in Threads \ {t} : thread'[u] = thread[u]
<1>1. thread[t].asked \in Time
  BY DEF TypeOK, Thread
<1>2. 0 \in 0..MaxFlights
  BY BoundAssumption
<1>3. Idle(thread[t].asked, result) \in Thread
  BY <1>1, <1>2, ResultKinds DEF Idle, Thread, Stages
<1>4. /\ thread' \in [Threads -> Thread] /\ thread'[t] = Idle(thread[t].asked, result)
      /\ \A u \in Threads \ {t} : thread'[u] = thread[u]
  BY <1>3, ThreadTyped DEF Return, TypeOK
<1> QED
  BY <1>4 DEF Idle

\* What is unchanged keeps the parts of the invariant that speak of nothing else; the
\* threads but one keep theirs.
LEMMA OthersKeep ==
    ASSUME Sound, NEW t \in Threads,
           thread' \in [Threads -> Thread],
           \A u \in Threads \ {t} : thread'[u] = thread[u],
           clock' = clock, cached' = cached, inflight' = inflight, flights' = flights,
           thread'[t].stage = "idle" \/ thread'[t].stage = "waiting",
           thread'[t].asked <= clock,
           thread'[t].stage = "waiting" =>
              /\ thread'[t].flight \in 1..Len(flights)
              /\ LET result == flights[thread'[t].flight]
                 IN  result \in Results /\ result.ok => thread'[t].asked <= result.at + ReadLimit,
           thread'[t].stage = "idle" /\ thread'[t].answer.ok =>
              thread'[t].answer.at + TTL + ReadLimit > thread'[t].asked
    PROVE  Sound'
<1>1. TypeOK'
  BY DEF Sound, TypeOK
<1>2. OneOwner'
  BY DEF Sound, OneOwner, Flying
<1>3. InTheAir' /\ CachedInTime'
  BY DEF Sound, InTheAir, CachedInTime
<1>4. OnTime'
  BY DEF Sound, OnTime, Flying
<1>5. ReadInTime'
  BY DEF Sound, ReadInTime
<1>6. WaitsForFresh'
  BY DEF Sound, WaitsForFresh
<1>7. AnswersAreFresh'
  BY DEF Sound, AnswersAreFresh, At
<1> QED
  BY <1>1, <1>2, <1>3, <1>4, <1>5, <1>6, <1>7 DEF Sound

\* A call that finds a fresh result.
LEMMA HitStep == ASSUME Sound, NEW t \in Threads, Hit(t) PROVE Sound'
<1>1. thread \in [Threads -> Thread] /\ thread[t] \in Thread /\ clock \in Time
  BY DEF Sound, TypeOK
<1>2. cached.result \in Results /\ cached.result.ok /\ cached.at <= cached.result.at + ReadLimit
      /\ clock - cached.at < TTL /\ cached.at \in Time
  BY DEF Hit, Fresh, Sound, TypeOK, CachedInTime
<1> DEFINE new == [thread[t] EXCEPT !.asked = clock, !.answer = cached.result]
<1>3. new \in Thread
  BY <1>1, <1>2 DEF Thread
<1>4. new.stage = "idle" /\ new.asked = clock /\ new.answer = cached.result
  BY <1>1 DEF Hit, At, Thread
<1>5. thread' = [thread EXCEPT ![t] = new]
  BY <1>1 DEF Hit
<1> HIDE DEF new
<1>6. /\ thread' \in [Threads -> Thread] /\ thread'[t] = new
      /\ \A u \in Threads \ {t} : thread'[u] = thread[u]
  BY <1>1, <1>3, <1>5, ThreadTyped
<1>7. cached.result.at + TTL + ReadLimit > clock
  <2>1. cached.result.at \in Nat /\ cached.at \in Nat /\ clock \in Nat
    BY <1>1, <1>2, ResultKinds
  <2> QED
    BY <1>2, <2>1, TimeAssumption
<1>8. clock <= clock
  BY <1>1, ResultKinds
<1> QED
  BY <1>4, <1>6, <1>7, <1>8, OthersKeep DEF Hit

\* A call that joins the flight in the air.
LEMMA JoinStep == ASSUME Sound, NEW t \in Threads, Join(t) PROVE Sound'
<1>1. thread \in [Threads -> Thread] /\ thread[t] \in Thread /\ clock \in Time
  BY DEF Sound, TypeOK
<1>2. /\ inflight \in 0..MaxFlights /\ inflight \in 1..Len(flights)
      /\ flights[inflight] = Pending
  BY BoundAssumption DEF Join, Sound, TypeOK, InTheAir
<1> DEFINE new == [thread[t] EXCEPT !.stage = "waiting", !.asked = clock, !.flight = inflight]
<1>3. new \in Thread
  BY <1>1, <1>2 DEF Thread, Stages
<1>4. new.stage = "waiting" /\ new.asked = clock /\ new.flight = inflight
  BY <1>1 DEF Thread
<1>5. thread' = [thread EXCEPT ![t] = new]
  BY <1>1 DEF Join
<1> HIDE DEF new
<1>6. /\ thread' \in [Threads -> Thread] /\ thread'[t] = new
      /\ \A u \in Threads \ {t} : thread'[u] = thread[u]
  BY <1>1, <1>3, <1>5, ThreadTyped
<1>7. clock <= clock
  BY <1>1, ResultKinds
<1> QED
  BY <1>2, <1>4, <1>6, <1>7, ResultKinds, OthersKeep DEF Join

\* A thread that has waited returns the result of the flight.
LEMMA WakeStep == ASSUME Sound, NEW t \in Threads, Wake(t) PROVE Sound'
<1> DEFINE result == flights[thread[t].flight]
<1>1. /\ thread[t].flight \in 1..Len(flights)
      /\ result \in Results /\ result.ok => thread[t].asked <= result.at + ReadLimit
  BY DEF Wake, At, Sound, WaitsForFresh
<1>2. result \in Results
  BY <1>1 DEF Wake, Sound, TypeOK
<1>3. Return(t, result)
  BY DEF Wake
<1>4. thread[t].asked <= clock /\ thread[t].asked \in Time
  BY DEF Sound, OnTime, TypeOK, Thread
<1> HIDE DEF result
<1>5. /\ thread' \in [Threads -> Thread]
      /\ thread'[t].stage = "idle" /\ thread'[t].asked = thread[t].asked
      /\ thread'[t].answer = result
      /\ \A u \in Threads \ {t} : thread'[u] = thread[u]
  BY <1>2, <1>3, Returned DEF Sound
<1>6. result.ok => result.at + TTL + ReadLimit > thread[t].asked
  <2>1. SUFFICES ASSUME result.ok PROVE result.at + TTL + ReadLimit > thread[t].asked
    OBVIOUS
  <2>2. result.at \in Nat /\ thread[t].asked \in Nat
    BY <1>2, <1>4, <2>1, ResultKinds
  <2> QED
    BY <1>1, <1>2, <2>1, <2>2, TimeAssumption
<1> QED
  BY <1>4, <1>5, <1>6, OthersKeep DEF Wake

\* A caller forgets its answer.
LEMMA ForgetStep == ASSUME Sound, NEW t \in Threads, Forget(t) PROVE Sound'
<1>1. thread \in [Threads -> Thread] /\ clock \in Time /\ 0 \in Time /\ 0 \in 0..MaxFlights
  BY BoundAssumption DEF Sound, TypeOK, Time
<1>2. Idle(0, Failed) \in Thread
  BY <1>1, ResultKinds DEF Idle, Thread, Stages
<1>3. /\ thread' \in [Threads -> Thread] /\ thread'[t] = Idle(0, Failed)
      /\ \A u \in Threads \ {t} : thread'[u] = thread[u]
  BY <1>1, <1>2, ThreadTyped DEF Forget
<1>4. thread'[t].stage = "idle" /\ thread'[t].asked = 0 /\ thread'[t].answer = Failed
  BY <1>3 DEF Idle
<1>5. 0 <= clock
  BY <1>1, ResultKinds
<1> QED
  BY <1>3, <1>4, <1>5, ResultKinds, OthersKeep DEF Forget

\* A thread that finds no result and no flight starts one.
LEMMA OwnStep == ASSUME Sound, NEW t \in Threads, Own(t) PROVE Sound'
<1> DEFINE n == Len(flights) + 1
<1>1. thread \in [Threads -> Thread] /\ thread[t] \in Thread /\ clock \in Time
  BY DEF Sound, TypeOK
<1>2. /\ flights \in Seq(Results \cup {Pending}) /\ n \in 1..MaxFlights /\ n # 0
      /\ flights' = Append(flights, Pending) /\ inflight' = n /\ inflight = 0
      /\ clock' = clock /\ cached' = cached
  <2>1. flights \in Seq(Results \cup {Pending})
    BY DEF Sound, TypeOK
  <2>2. Len(flights) < MaxFlights /\ Len(flights) \in Nat
    BY <2>1 DEF Own, TakeOff
  <2>3. n \in 1..MaxFlights /\ n # 0
    BY <2>2, BoundAssumption
  <2> QED
    BY <2>1, <2>3 DEF Own, TakeOff
<1>3. /\ flights' \in Seq(Results \cup {Pending}) /\ Len(flights') = n
      /\ flights'[n] = Pending
      /\ \A i \in 1..Len(flights) : flights'[i] = flights[i]
  <2>1. Pending \in Results \cup {Pending}
    OBVIOUS
  <2> DEFINE longer == Append(flights, Pending)
  <2>2. /\ longer \in Seq(Results \cup {Pending}) /\ Len(longer) = Len(flights) + 1
        /\ longer[Len(flights) + 1] = Pending
        /\ \A i \in 1..Len(flights) : longer[i] = flights[i]
    BY <1>2, <2>1, AppendProperties
  <2>3. flights' = longer
    BY <1>2
  <2> QED
    BY <2>2, <2>3
<1> DEFINE new == [thread[t] EXCEPT !.stage = "reading", !.asked = clock, !.flight = n]
<1>4. new \in Thread
  <2>1. n \in 0..MaxFlights
    BY <1>2
  <2> HIDE DEF n
  <2> QED
    BY <1>1, <2>1 DEF Thread, Stages
<1>5. new.stage = "reading" /\ new.asked = clock /\ new.flight = n
  BY <1>1 DEF Thread
<1>6. thread' = [thread EXCEPT ![t] = new]
  BY <1>1 DEF Own, TakeOff
<1> HIDE DEF new
<1>7. /\ thread' \in [Threads -> Thread] /\ thread'[t] = new
      /\ \A u \in Threads \ {t} : thread'[u] = thread[u]
  BY <1>1, <1>4, <1>6, ThreadTyped
<1>8. \A u \in Threads : ~ Flying(u)
  BY <1>2 DEF Sound, OneOwner
<1>9. TypeOK'
  BY <1>2, <1>3, <1>7 DEF Sound, TypeOK
<1>10. OneOwner'
  BY <1>2, <1>5, <1>7, <1>8 DEF OneOwner, Flying
<1>11. InTheAir' /\ CachedInTime'
  BY <1>2, <1>3 DEF Sound, InTheAir, CachedInTime
<1>12. OnTime'
  <2>1. clock <= clock /\ clock <= clock + ReadLimit
    BY <1>1, ResultKinds, TimeAssumption
  <2> QED
    BY <1>2, <1>5, <1>7, <2>1 DEF Sound, OnTime, Flying
<1>13. ReadInTime'
  BY <1>5, <1>7 DEF Sound, ReadInTime
<1>14. WaitsForFresh'
  <2>1. ASSUME NEW u \in Threads, thread'[u].stage = "waiting"
        PROVE  u # t /\ thread'[u] = thread[u] /\ thread[u].flight \in 1..Len(flights)
    BY <1>5, <1>7, <2>1 DEF Sound, WaitsForFresh
  <2>2. 1..Len(flights) \subseteq 1..n
    BY <1>2
  <2> QED
    BY <1>3, <2>1, <2>2 DEF Sound, WaitsForFresh
<1>15. AnswersAreFresh'
  BY <1>5, <1>7 DEF Sound, AnswersAreFresh, At
<1> QED
  BY <1>9, <1>10, <1>11, <1>12, <1>13, <1>14, <1>15 DEF Sound

\* The command of a flight ends.
LEMMA ReadStep == ASSUME Sound, NEW t \in Threads, Read(t) PROVE Sound'
<1>1. thread \in [Threads -> Thread] /\ thread[t] \in Thread /\ clock \in Time
  BY DEF Sound, TypeOK
<1>2. PICK result \in {[ok |-> TRUE, at |-> clock], Failed} :
         thread' = [thread EXCEPT ![t].stage = "publishing", ![t].result = result]
  BY DEF Read
<1>3. result \in Results /\ (result.ok => result.at = clock)
  BY <1>1, ResultKinds
<1> DEFINE new == [thread[t] EXCEPT !.stage = "publishing", !.result = result]
<1>4. new \in Thread
  BY <1>1, <1>3 DEF Thread, Stages
<1>5. /\ new.stage = "publishing" /\ new.result = result
      /\ new.asked = thread[t].asked /\ new.flight = thread[t].flight
  BY <1>1 DEF Thread
<1>6. thread' = [thread EXCEPT ![t] = new]
  BY <1>1, <1>2
<1> HIDE DEF new
<1>7. /\ thread' \in [Threads -> Thread] /\ thread'[t] = new
      /\ \A u \in Threads \ {t} : thread'[u] = thread[u]
  BY <1>1, <1>4, <1>6, ThreadTyped
<1>8. UNCHANGED <<clock, cached, inflight, flights>> /\ Flying(t)
  BY DEF Read, At, Flying
<1>9. TypeOK'
  BY <1>7, <1>8 DEF Sound, TypeOK
<1>10. OneOwner'
  <2>1. \A u \in Threads : Flying(u)' => Flying(u) /\ thread'[u].flight = thread[u].flight
    BY <1>5, <1>7, <1>8 DEF Flying
  <2> QED
    BY <1>8, <2>1 DEF Sound, OneOwner
<1>11. InTheAir' /\ CachedInTime'
  BY <1>8 DEF Sound, InTheAir, CachedInTime
<1>12. OnTime'
  BY <1>5, <1>7, <1>8 DEF Sound, OnTime, Flying
<1>13. ReadInTime'
  <2>1. thread[t].asked <= clock
    BY DEF Sound, OnTime
  <2> QED
    BY <1>3, <1>5, <1>7, <2>1 DEF Sound, ReadInTime
<1>14. WaitsForFresh'
  BY <1>5, <1>7, <1>8 DEF Sound, WaitsForFresh
<1>15. AnswersAreFresh'
  BY <1>5, <1>7 DEF Sound, AnswersAreFresh, At
<1> QED
  BY <1>9, <1>10, <1>11, <1>12, <1>13, <1>14, <1>15 DEF Sound

\* The owner of a flight ends it and its call, with the result of the command or without.
LEMMA FinishStep ==
    ASSUME Sound, NEW t \in Threads, Flying(t), NEW result \in Results,
           Finish(thread[t].flight, result), Return(t, result), clock' = clock,
           result.ok => thread[t].asked <= result.at
    PROVE  Sound'
<1> DEFINE n == inflight
<1>1. /\ thread \in [Threads -> Thread] /\ thread[t].asked \in Time /\ clock \in Time
      /\ flights \in Seq(Results \cup {Pending}) /\ Len(flights) <= MaxFlights
      /\ n \in 0..Len(flights)
  BY DEF Sound, TypeOK, Thread
<1>2. n # 0 /\ thread[t].flight = n /\ n \in 1..Len(flights) /\ flights[n] = Pending
  BY <1>1 DEF Sound, OneOwner, InTheAir
<1>3. /\ cached' = IF result.ok THEN [at |-> clock, result |-> result] ELSE NoCache
      /\ flights' = [flights EXCEPT ![n] = result] /\ inflight' = 0
  BY <1>2 DEF Finish
<1>4. /\ flights' \in Seq(Results \cup {Pending}) /\ Len(flights') = Len(flights)
      /\ flights'[n] = result
      /\ \A i \in 1..Len(flights) : i # n => flights'[i] = flights[i]
  BY <1>1, <1>2, <1>3
<1>5. /\ thread' \in [Threads -> Thread]
      /\ thread'[t].stage = "idle" /\ thread'[t].asked = thread[t].asked
      /\ thread'[t].answer = result
      /\ \A u \in Threads \ {t} : thread'[u] = thread[u]
  BY Returned DEF Sound
<1>6. \A u \in Threads : Flying(u) => u = t
  BY DEF Sound, OneOwner
<1>7. clock <= thread[t].asked + ReadLimit
  BY DEF Sound, OnTime
<1>8. result.ok => /\ result.at \in Nat /\ clock <= result.at + ReadLimit
                   /\ result.at + TTL + ReadLimit > thread[t].asked
  <2>1. SUFFICES ASSUME result.ok
                 PROVE  /\ result.at \in Nat /\ clock <= result.at + ReadLimit
                        /\ result.at + TTL + ReadLimit > thread[t].asked
    OBVIOUS
  <2>2. result.at \in Nat /\ thread[t].asked \in Nat /\ clock \in Nat
    BY <1>1, <2>1, ResultKinds
  <2> QED
    BY <1>7, <2>1, <2>2, TimeAssumption
<1>9. TypeOK'
  <2>1. cached' \in {NoCache} \cup [at : Time, result : Results]
    BY <1>1, <1>3
  <2>2. inflight' \in 0..Len(flights')
    BY <1>1, <1>3, <1>4
  <2> QED
    BY <1>1, <1>4, <1>5, <2>1, <2>2 DEF TypeOK
<1>10. OneOwner'
  BY <1>5, <1>6 DEF OneOwner, Flying
<1>11. InTheAir'
  BY <1>3 DEF InTheAir
<1>12. OnTime'
  BY <1>5, <1>6 DEF Sound, OnTime, Flying
<1>13. ReadInTime'
  BY <1>5 DEF Sound, ReadInTime
<1>14. WaitsForFresh'
  <2> SUFFICES ASSUME NEW u \in Threads, thread'[u].stage = "waiting"
               PROVE  /\ thread'[u].flight \in 1..Len(flights')
                      /\ LET got == flights'[thread'[u].flight]
                         IN  got \in Results /\ got.ok
                               => thread'[u].asked <= got.at + ReadLimit
    BY DEF WaitsForFresh
  <2>1. u # t /\ thread'[u] = thread[u] /\ thread[u].stage = "waiting"
    BY <1>5
  <2>2. thread[u].flight \in 1..Len(flights) /\ thread[u].asked <= clock
        /\ thread[u].asked \in Nat /\ clock \in Nat
    BY <1>1, <2>1, ResultKinds DEF Sound, WaitsForFresh, OnTime, Thread
  <2>3. CASE thread[u].flight = n
    <3>1. result.ok => thread[u].asked <= result.at + ReadLimit
      BY <1>8, <2>2, TimeAssumption
    <3> QED
      BY <1>4, <2>1, <2>2, <2>3, <3>1
  <2>4. CASE thread[u].flight # n
    BY <1>4, <2>1, <2>2, <2>4 DEF Sound, WaitsForFresh
  <2> QED
    BY <2>3, <2>4
<1>15. CachedInTime'
  <2>1. CASE result.ok
    <3>1. cached'.at = clock /\ cached'.result = result
      BY <1>3, <2>1
    <3>2. clock <= clock
      BY <1>1, ResultKinds
    <3> QED
      BY <1>8, <2>1, <3>1, <3>2 DEF CachedInTime
  <2>2. CASE ~ result.ok
    BY <1>3, <2>2 DEF CachedInTime
  <2> QED
    BY <2>1, <2>2
<1>16. AnswersAreFresh'
  BY <1>5, <1>8 DEF Sound, AnswersAreFresh, At
<1> QED
  BY <1>9, <1>10, <1>11, <1>12, <1>13, <1>14, <1>15, <1>16 DEF Sound

\* Time passes.
LEMMA TickStep == ASSUME Sound, Tick PROVE Sound'
<1>1. /\ clock \in Nat /\ clock' = clock + 1 /\ clock' \in Time
      /\ \A t \in Threads : Flying(t) => clock - thread[t].asked < ReadLimit
      /\ UNCHANGED <<cached, inflight, flights, thread>>
  BY BoundAssumption, ResultKinds DEF Tick, At, Flying, Sound, TypeOK, Time
<1>2. \A t \in Threads : thread[t].asked \in Nat
  BY ResultKinds DEF Sound, TypeOK, Thread
<1>3. TypeOK'
  BY <1>1 DEF Sound, TypeOK
<1>4. OneOwner' /\ InTheAir'
  BY <1>1 DEF Sound, OneOwner, InTheAir, Flying
<1>5. OnTime'
  <2> SUFFICES ASSUME NEW t \in Threads
               PROVE  /\ thread[t].asked <= clock + 1
                      /\ Flying(t) => clock + 1 <= thread[t].asked + ReadLimit
    BY <1>1 DEF OnTime, Flying
  <2>1. thread[t].asked \in Nat /\ thread[t].asked <= clock
    BY <1>2 DEF Sound, OnTime
  <2> QED
    BY <1>1, <2>1, TimeAssumption
<1>6. ReadInTime' /\ WaitsForFresh' /\ AnswersAreFresh'
  BY <1>1 DEF Sound, ReadInTime, WaitsForFresh, AnswersAreFresh, At
<1>7. CachedInTime'
  <2> SUFFICES ASSUME cached # NoCache
               PROVE  /\ cached.result.ok /\ cached.at <= cached.result.at + ReadLimit
                      /\ cached.at <= clock + 1
    BY <1>1 DEF CachedInTime
  <2>1. cached.at \in Nat /\ cached.at <= clock
    BY ResultKinds DEF Sound, TypeOK, CachedInTime
  <2> QED
    BY <1>1, <2>1 DEF Sound, CachedInTime
<1> QED
  BY <1>3, <1>4, <1>5, <1>6, <1>7 DEF Sound

-----------------------------------------------------------------------------

\* The invariant holds at the start.
LEMMA SoundInit == ASSUME Init PROVE Sound
<1>1. 0 \in Time /\ 0 \in 0..MaxFlights
  BY BoundAssumption DEF Time
<1>2. Idle(0, Failed) \in Thread
  BY <1>1, ResultKinds DEF Idle, Thread, Stages
<1>3. \A t \in Threads : /\ thread[t].stage = "idle" /\ thread[t].asked = 0
                         /\ thread[t].answer = Failed
  BY DEF Init, Idle
<1>4. TypeOK
  BY <1>1, <1>2, BoundAssumption DEF Init, TypeOK
<1>5. OneOwner /\ OnTime /\ ReadInTime /\ WaitsForFresh /\ AnswersAreFresh
  BY <1>3, ResultKinds
     DEF Init, OneOwner, Flying, OnTime, ReadInTime, WaitsForFresh, AnswersAreFresh
<1> QED
  BY <1>4, <1>5 DEF Init, Sound, InTheAir, CachedInTime

\* Every step keeps the invariant.
LEMMA SoundStep == ASSUME Sound, [Next]_vars PROVE Sound'
<1>1. ASSUME NEW t \in Threads, Publish(t) PROVE Sound'
  <2>1. Flying(t) /\ thread[t].result \in Results
    BY <1>1 DEF Publish, At, Flying, Sound, TypeOK, Thread
  <2>2. thread[t].result.ok => thread[t].asked <= thread[t].result.at
    BY <1>1 DEF Publish, At, Sound, ReadInTime
  <2> QED
    BY <1>1, <2>1, <2>2, FinishStep DEF Publish
<1>2. ASSUME NEW t \in Threads, BreakOff(t) PROVE Sound'
  <2>1. Flying(t)
    BY <1>2 DEF BreakOff, At, Flying
  <2> QED
    BY <1>2, <2>1, ResultKinds, FinishStep DEF BreakOff
<1>3. CASE UNCHANGED vars
  BY <1>3 DEF vars, Sound, TypeOK, OneOwner, Flying, InTheAir, OnTime, ReadInTime,
              WaitsForFresh, CachedInTime, AnswersAreFresh, At
<1> QED
  BY <1>1, <1>2, <1>3, HitStep, OwnStep, JoinStep, ReadStep, WakeStep, ForgetStep, TickStep
     DEF Next, Work

\* A step of a request is a step of the collector, or leaves it alone.
LEMMA RequestsUseCollector == ASSUME [StatusNext]_statusVars PROVE [Next]_vars
<1>1. ASSUME NEW t \in Threads, Preflight(t) \/ Record(t) PROVE UNCHANGED vars
  BY <1>1 DEF Preflight, Record
<1>2. ASSUME NEW t \in Threads, Call(t) \/ Collect(t) PROVE Next
  BY <1>2 DEF Call, Collect, Next, Work
<1>3. ASSUME NEW t \in Threads, RecordFails(t) \/ Keep(t) PROVE Next
  BY <1>3 DEF RecordFails, Keep, End, Next, Work
<1>4. CASE Tamper \/ Pass
  BY <1>4 DEF Tamper, Pass, Next
<1>5. CASE UNCHANGED statusVars
  BY <1>5 DEF statusVars
<1> QED
  BY <1>1, <1>2, <1>3, <1>4, <1>5 DEF StatusNext, Serve

\* Every behaviour of the requests is one of the collector, as far as the collector
\* goes: what is proved of the collector holds of it in the service.
THEOREM RequestsImplementCollector == StatusSpec => Spec
<1>1. StatusInit => Init
  BY DEF StatusInit
<1>2. [StatusNext]_statusVars => [Next]_vars
  BY RequestsUseCollector
<1> QED
  BY <1>1, <1>2, PTL DEF StatusSpec, Spec

\* The invariant holds in every behaviour of the collector.
LEMMA SoundAlways == Spec => []Sound
<1>1. Init => Sound
  BY SoundInit
<1>2. Sound /\ [Next]_vars => Sound'
  BY SoundStep
<1> QED
  BY <1>1, <1>2, PTL DEF Spec

\* However many threads ask, one command runs at a time, for the flight in the air.
THEOREM OneCommand == StatusSpec => []OneCommandAtATime
<1>1. Sound => OneCommandAtATime
  BY DEF Sound, OneCommandAtATime, OneOwner, Flying
<1> QED
  BY <1>1, SoundAlways, RequestsImplementCollector, PTL

\* Whatever the times are, no answer is older than a command and the cache may make it.
THEOREM FreshAnswers == StatusSpec => []AnswersAreFresh
<1>1. Sound => AnswersAreFresh
  BY DEF Sound
<1> QED
  BY <1>1, SoundAlways, RequestsImplementCollector, PTL

-----------------------------------------------------------------------------
(* The log of the status                                                   *)

\* The records are an interval apart and lie in the past.
Sampled ==
    /\ \A i, j \in DOMAIN records : i < j => records[j] - records[i] >= Interval
    /\ \A i \in DOMAIN records : records[i] <= clock

\* A status that has been recorded has its evidence.
Evidenced ==
    \A t \in Threads :
        Serving(t, "keeping") => \E i \in DOMAIN records : thread[t].asked < records[i] + Interval

\* The inductive invariant of the requests.
StatusSound == Sound /\ StatusTypeOK /\ Sampled /\ Evidenced

\* The records have times.
LEMMA RecordTimes ==
    ASSUME records \in Seq(Time)
    PROVE  \A i \in DOMAIN records : records[i] \in Nat
<1>1. \A i \in 1..Len(records) : records[i] \in Time
  BY ElementOfSeq
<1>2. DOMAIN records = 1..Len(records)
  OBVIOUS
<1> QED
  BY <1>1, <1>2, ResultKinds

\* A step of the collector for a thread is a step of that thread alone.
LEMMA OneThread ==
    ASSUME TypeOK, NEW t \in Threads, NEW u \in Threads \ {t},
           Hit(t) \/ Own(t) \/ Join(t) \/ Work(t)
    PROVE  thread'[u] = thread[u] /\ clock' = clock
  BY DEF TypeOK, Hit, Own, TakeOff, Join, Work, Read, Publish, BreakOff, Wake, Forget,
     Return

\* A request that moves on leaves the others where they are.
LEMMA RequestMoves ==
    ASSUME StatusTypeOK, NEW t \in Threads, NEW step \in Steps, Goto(t, step)
    PROVE  /\ request' \in [Threads -> Steps] /\ request'[t] = step
           /\ \A u \in Threads \ {t} : request'[u] = request[u]
  BY DEF StatusTypeOK, Goto

\* A step that takes the collector on for one request, and no further than its result.
LEMMA CollectorStep ==
    ASSUME StatusSound, Sound', NEW t \in Threads, NEW step \in Steps \ {"keeping"},
           Goto(t, step) \/ (UNCHANGED request /\ ~ Serving(t, "keeping")),
           Hit(t) \/ Own(t) \/ Join(t) \/ Work(t), UNCHANGED <<records, tampered>>,
           failed' \in BOOLEAN, history' \in Seq(BOOLEAN), Len(history') <= HistoryLimit
    PROVE  StatusSound'
<1>1. /\ request' \in [Threads -> Steps]
      /\ \A u \in Threads \ {t} : request'[u] = request[u] /\ thread'[u] = thread[u]
      /\ request'[t] # "keeping" /\ clock' = clock
  <2>1. request' \in [Threads -> Steps] /\ request'[t] # "keeping"
        /\ \A u \in Threads \ {t} : request'[u] = request[u]
    BY RequestMoves DEF StatusSound, StatusTypeOK, Serving
  <2>2. \A u \in Threads \ {t} : thread'[u] = thread[u]
    BY OneThread DEF StatusSound, Sound
  <2>3. clock' = clock
    BY DEF Hit, Own, TakeOff, Join, Work, Read, Publish, BreakOff, Wake, Forget
  <2> QED
    BY <2>1, <2>2, <2>3
<1>2. StatusTypeOK'
  BY <1>1 DEF StatusSound, StatusTypeOK, Sound
<1>3. Sampled'
  BY <1>1 DEF StatusSound, Sampled
<1>4. Evidenced'
  BY <1>1 DEF StatusSound, Evidenced, Serving
<1> QED
  BY <1>2, <1>3, <1>4 DEF StatusSound

\* The log takes a sample if one is due; if none is, the last one is recent enough.
LEMMA RecordStep ==
    ASSUME StatusSound, Sound', NEW t \in Threads, Record(t)
    PROVE  StatusSound'
<1>1. /\ clock \in Nat /\ clock \in Time /\ records \in Seq(Time) /\ clock' = clock
      /\ thread' = thread /\ thread \in [Threads -> Thread]
      /\ \A i \in DOMAIN records : records[i] \in Nat
      /\ Interval \in Nat \ {0}
  <2>1. clock \in Time /\ records \in Seq(Time) /\ thread \in [Threads -> Thread]
    BY DEF StatusSound, StatusTypeOK, TypeOK
  <2>2. clock' = clock /\ thread' = thread
    BY DEF Record, vars
  <2> QED
    BY <2>1, <2>2, RecordTimes, ResultKinds, IntervalAssumption
<1>2. \A u \in Threads : thread[u].asked \in Nat /\ thread[u].asked <= clock
  BY <1>1, ResultKinds DEF StatusSound, Sound, OnTime, Thread
<1>3. /\ request' \in [Threads -> Steps] /\ request'[t] = "keeping"
      /\ \A u \in Threads \ {t} : request'[u] = request[u]
  BY RequestMoves DEF Record, Steps, StatusSound
<1>4. CASE Due
  <2> DEFINE longer == Append(records, clock)
  <2>1. /\ longer \in Seq(Time) /\ Len(longer) = Len(records) + 1
        /\ longer[Len(records) + 1] = clock
        /\ \A i \in 1..Len(records) : longer[i] = records[i]
    BY <1>1, AppendProperties
  <2>2. records' = longer /\ UNCHANGED <<failed, tampered, history>>
    BY <1>4 DEF Record
  <2> HIDE DEF longer
  <2>3. Len(records) \in Nat /\ DOMAIN records = 1..Len(records)
        /\ DOMAIN longer = 1..(Len(records) + 1)
    BY <1>1, <2>1
  <2>4. StatusTypeOK'
    BY <1>3, <2>1, <2>2 DEF StatusSound, StatusTypeOK, Sound
  <2>5. \A i \in DOMAIN longer : longer[i] <= clock
    <3> SUFFICES ASSUME NEW i \in DOMAIN longer PROVE longer[i] <= clock
      OBVIOUS
    <3>1. CASE i = Len(records) + 1
      BY <1>1, <2>1, <3>1
    <3>2. CASE i \in 1..Len(records)
      BY <1>1, <2>1, <2>3, <3>2 DEF StatusSound, Sampled
    <3> QED
      BY <2>3, <3>1, <3>2
  <2>6. \A i, j \in DOMAIN longer : i < j => longer[j] - longer[i] >= Interval
    <3> SUFFICES ASSUME NEW i \in DOMAIN longer, NEW j \in DOMAIN longer, i < j
                 PROVE  longer[j] - longer[i] >= Interval
      OBVIOUS
    <3>1. i \in 1..Len(records) /\ longer[i] = records[i] /\ records[i] \in Nat
      BY <1>1, <2>1, <2>3
    <3>2. CASE j \in 1..Len(records)
      BY <2>1, <2>3, <3>1, <3>2 DEF StatusSound, Sampled
    <3>3. CASE j = Len(records) + 1
      <4>1. Len(records) \in DOMAIN records /\ clock - records[Len(records)] >= Interval
        BY <1>4, <2>3, <3>1 DEF Due
      <4>2. records[i] <= records[Len(records)]
        <5>1. CASE i = Len(records)
          BY <1>1, <3>1, <5>1
        <5>2. CASE i < Len(records)
          <6>1. records[Len(records)] - records[i] >= Interval
            BY <2>3, <3>1, <4>1, <5>2 DEF StatusSound, Sampled
          <6> QED
            BY <1>1, <3>1, <4>1, <6>1
        <5> QED
          BY <2>3, <3>1, <5>1, <5>2
      <4> QED
        BY <1>1, <2>1, <3>1, <3>3, <4>1, <4>2
    <3> QED
      BY <2>3, <3>2, <3>3
  <2>7. Sampled'
    BY <1>1, <2>2, <2>5, <2>6 DEF Sampled
  <2>8. Evidenced'
    <3> SUFFICES ASSUME NEW u \in Threads, request'[u] = "keeping"
                 PROVE  \E i \in DOMAIN longer : thread[u].asked < longer[i] + Interval
      BY <1>1, <2>2 DEF Evidenced, Serving
    <3>1. Len(records) + 1 \in DOMAIN longer /\ longer[Len(records) + 1] = clock
      BY <2>1, <2>3
    <3> QED
      BY <1>1, <1>2, <3>1
  <2> QED
    BY <2>4, <2>7, <2>8 DEF StatusSound
<1>5. CASE ~ Due
  <2>1. records' = records /\ UNCHANGED <<failed, tampered, history>>
    BY <1>5 DEF Record
  <2>2. PICK i \in DOMAIN records : ~ (clock - records[i] >= Interval)
    BY <1>5 DEF Due
  <2>3. StatusTypeOK' /\ Sampled'
    BY <1>1, <1>3, <2>1 DEF StatusSound, StatusTypeOK, Sound, Sampled
  <2>4. clock < records[i] + Interval
    BY <1>1, <2>2
  <2>5. Evidenced'
    BY <1>1, <1>2, <2>1, <2>2, <2>4 DEF Evidenced
  <2> QED
    BY <2>3, <2>5 DEF StatusSound
<1> QED
  BY <1>4, <1>5

\* Nothing in the log and the requests is wrong at the start.
LEMMA StatusInitially == ASSUME StatusInit PROVE StatusSound
<1>1. Sound
  BY SoundInit DEF StatusInit
<1>2. StatusTypeOK
  <2>1. <<>> \in Seq(Time) /\ <<>> \in Seq(BOOLEAN) /\ Len(<<>>) = 0
    BY EmptySeq
  <2>2. HistoryLimit \in Nat /\ 0 <= HistoryLimit
    BY HistoryAssumption
  <2>3. request \in [Threads -> Steps]
    BY DEF StatusInit, Steps
  <2>4. history = <<>> /\ records = <<>> /\ failed = FALSE /\ tampered = FALSE
    BY DEF StatusInit
  <2>5. Len(history) <= HistoryLimit
    BY <2>1, <2>2, <2>4
  <2>6. TypeOK
    BY <1>1 DEF Sound
  <2> QED
    BY <2>1, <2>3, <2>4, <2>5, <2>6 DEF StatusTypeOK
<1>3. Sampled /\ Evidenced
  BY DEF StatusInit, Sampled, Evidenced, Serving
<1> QED
  BY <1>1, <1>2, <1>3 DEF StatusSound

\* Every step of the requests keeps the invariant.
LEMMA StatusStep == ASSUME StatusSound, [StatusNext]_statusVars PROVE StatusSound'
<1>1. Sound'
  BY RequestsUseCollector, SoundStep DEF StatusSound
<1>2. /\ failed \in BOOLEAN /\ history \in Seq(BOOLEAN) /\ Len(history) <= HistoryLimit
      /\ tampered \in BOOLEAN
  BY DEF StatusSound, StatusTypeOK
<1>3. ASSUME NEW t \in Threads, Preflight(t) PROVE StatusSound'
  <2>1. /\ request' \in [Threads -> Steps]
        /\ \A u \in Threads : Serving(u, "keeping")' => Serving(u, "keeping")
        /\ failed' \in BOOLEAN /\ UNCHANGED <<vars, records, tampered, history>>
    BY <1>2, <1>3 DEF Preflight, StatusSound, StatusTypeOK, Goto, Serving, Steps
  <2>2. StatusTypeOK'
    BY <1>1, <2>1 DEF StatusSound, StatusTypeOK, Sound
  <2>3. Sampled' /\ Evidenced'
    BY <2>1 DEF StatusSound, Sampled, Evidenced, vars
  <2> QED
    BY <1>1, <2>2, <2>3 DEF StatusSound
<1>4. ASSUME NEW t \in Threads, Call(t) PROVE StatusSound'
  BY <1>1, <1>2, <1>4, CollectorStep DEF Call, Steps, log
<1>5. ASSUME NEW t \in Threads, Collect(t) PROVE StatusSound'
  <2>1. ~ Serving(t, "keeping")
    BY <1>5 DEF Collect, Serving
  <2>2. CASE Read(t) /\ UNCHANGED request
    BY <1>1, <1>2, <1>5, <2>1, <2>2, CollectorStep DEF Collect, Steps, log, Work
  <2>3. CASE (Publish(t) \/ Wake(t)) /\ Goto(t, "recording")
    BY <1>1, <1>2, <1>5, <2>3, CollectorStep DEF Collect, Steps, log, Work
  <2>4. CASE BreakOff(t) /\ Goto(t, "none")
    BY <1>1, <1>2, <1>5, <2>4, CollectorStep DEF Collect, Steps, log, Work
  <2> QED
    BY <1>5, <2>2, <2>3, <2>4 DEF Collect
<1>6. ASSUME NEW t \in Threads, RecordFails(t) PROVE StatusSound'
  BY <1>1, <1>2, <1>6, CollectorStep DEF RecordFails, End, Steps, Work
<1>7. ASSUME NEW t \in Threads, Keep(t) PROVE StatusSound'
  <2> DEFINE longer == Append(history, thread[t].answer.ok)
  <2>1. thread[t].answer.ok \in BOOLEAN
    <3>1. thread[t].answer \in Results
      BY DEF StatusSound, Sound, TypeOK, Thread
    <3> QED
      BY <3>1, ResultKinds
  <2>2. longer \in Seq(BOOLEAN) /\ Len(longer) = Len(history) + 1 /\ longer # <<>>
    BY <1>2, <2>1, AppendProperties
  <2>3. history' = IF Len(longer) > HistoryLimit THEN Tail(longer) ELSE longer
    BY <1>7 DEF Keep
  <2> HIDE DEF longer
  <2>4. Tail(longer) \in Seq(BOOLEAN) /\ Len(Tail(longer)) = Len(longer) - 1
    BY <2>2, HeadTailProperties
  <2>5. history' \in Seq(BOOLEAN) /\ Len(history') <= HistoryLimit
    <3>1. Len(history) \in Nat /\ HistoryLimit \in Nat
      BY <1>2, HistoryAssumption
    <3>2. CASE Len(longer) > HistoryLimit
      BY <1>2, <2>2, <2>3, <2>4, <3>1, <3>2
    <3>3. CASE ~ (Len(longer) > HistoryLimit)
      BY <2>2, <2>3, <3>1, <3>3
    <3> QED
      BY <3>2, <3>3
  <2> QED
    BY <1>1, <1>2, <1>7, <2>5, CollectorStep DEF Keep, End, Steps, Work, log
<1>8. CASE Tamper
  BY <1>1, <1>8 DEF Tamper, StatusSound, StatusTypeOK, Sound, Sampled, Evidenced, Serving,
     vars
<1>9. CASE Pass
  <2>1. UNCHANGED <<request, records, failed, tampered, history, thread>> /\ clock <= clock'
    BY <1>9, ResultKinds DEF Pass, log, Tick, StatusSound, Sound, TypeOK
  <2>2. StatusTypeOK'
    BY <1>1, <2>1 DEF StatusSound, StatusTypeOK, Sound
  <2>3. Evidenced'
    BY <2>1 DEF StatusSound, Evidenced, Serving
  <2>4. Sampled'
    <3>1. \A i \in DOMAIN records : records[i] \in Nat
      BY RecordTimes DEF StatusSound, StatusTypeOK
    <3>2. clock \in Nat /\ clock' = clock + 1
      BY <1>9, ResultKinds DEF Pass, Tick, StatusSound, Sound, TypeOK
    <3> QED
      BY <2>1, <3>1, <3>2 DEF StatusSound, Sampled
  <2> QED
    BY <1>1, <2>2, <2>3, <2>4 DEF StatusSound
<1>10. CASE UNCHANGED statusVars
  BY <1>1, <1>10 DEF statusVars, vars, log, StatusSound, StatusTypeOK, Sound, Sampled,
     Evidenced, Serving
<1> QED
  BY <1>1, <1>3, <1>4, <1>5, <1>6, <1>7, <1>8, <1>9, <1>10, RecordStep DEF StatusNext, Serve

\* The invariant holds in every behaviour of the requests.
LEMMA StatusSoundAlways == StatusSpec => []StatusSound
<1>1. StatusInit => StatusSound
  BY StatusInitially
<1>2. StatusSound /\ [StatusNext]_statusVars => StatusSound'
  BY StatusStep
<1> QED
  BY <1>1, <1>2, PTL DEF StatusSpec

\* For every interval and number of threads, a status is kept and shown only with a
\* record that is recent enough, and the records are an interval apart.
THEOREM EvidenceFirst == StatusSpec => StatusEvidenced
<1>1. StatusSound => /\ StatusTypeOK
                     /\ \A i, j \in DOMAIN records : i < j => records[j] - records[i] >= Interval
  BY DEF StatusSound, Sampled
<1>2. StatusSound => \A t \in Threads :
         Serving(t, "keeping") /\ request'[t] = "none"
           => \E i \in DOMAIN records : thread[t].asked < records[i] + Interval
  BY DEF StatusSound, Evidenced
<1> QED
  BY <1>1, <1>2, StatusSoundAlways, PTL DEF StatusEvidenced

-----------------------------------------------------------------------------
(* Endpoint metadata and saved configurations                              *)

EndpointHelpers == [stage : EndpointStages, expected : Metadata, host : Hosts, before : Metadata]
UpdateHelpers == [stage : UpdateStages, client : Clients, expected : Saved, fields : Fields,
                  raw : Saved, replacement : Saved]

\* Until it has replaced the metadata, an endpoint update leaves them as they were; from then
\* on it knows what they were.
Restorable ==
    edits = 0 =>
       /\ Doing("reading") => meta = helper.before
       /\ Doing("backing") \/ Doing("replacing")
            => meta = helper.before /\ helper.expected = helper.before
       /\ Doing("verifying") \/ Doing("comparing")
            => meta = Replacement /\ helper.expected = helper.before
       /\ Doing("rolling") => helper.expected = helper.before /\ faults >= 1

\* Before the metadata are replaced they are in a backup.
BackedUp ==
    Doing("replacing") \/ Doing("verifying") \/ Doing("comparing") \/ Doing("rolling") =>
       helper.expected \in backups

\* An update of a configuration that has been compared is for the text that was compared.
Compared ==
    edits = 0 /\ (Doing("rereading") \/ Doing("swapping"))
       => Projected(helper.client) = helper.expected

Careful == SavedTypeOK /\ Restorable /\ BackedUp /\ Compared

\* The three forms of the helper, told apart by the stage.
LEMMA HelperView ==
    ASSUME SavedTypeOK
    PROVE  /\ helper.stage \in EndpointStages => helper \in EndpointHelpers
           /\ helper.stage \in UpdateStages => helper \in UpdateHelpers
           /\ helper = NoHelper \/ helper \in EndpointHelpers \/ helper \in UpdateHelpers
           /\ helper = NoHelper => helper.stage = "idle"
<1>1. helper = NoHelper => helper.stage = "idle"
  BY DEF NoHelper
<1>2. helper = NoHelper \/ helper \in EndpointHelpers \/ helper \in UpdateHelpers
  BY DEF SavedTypeOK, EndpointHelpers, UpdateHelpers
<1>3. helper \in EndpointHelpers => helper.stage \in EndpointStages
  BY DEF EndpointHelpers
<1>4. helper \in UpdateHelpers => helper.stage \in UpdateStages
  BY DEF UpdateHelpers
<1> QED BY <1>1, <1>2, <1>3, <1>4 DEF EndpointStages, UpdateStages

\* A helper that advances keeps what it remembers.
LEMMA EndpointAdvances ==
    ASSUME helper \in EndpointHelpers, NEW s \in EndpointStages, Advance(s)
    PROVE  /\ helper' \in EndpointHelpers /\ helper'.stage = s /\ helper'.expected = helper.expected
           /\ helper'.host = helper.host /\ helper'.before = helper.before /\ reply' = reply
BY DEF EndpointHelpers, Advance
LEMMA UpdateAdvances ==
    ASSUME helper \in UpdateHelpers, NEW s \in UpdateStages, Advance(s)
    PROVE  /\ helper' \in UpdateHelpers /\ helper'.stage = s /\ helper'.expected = helper.expected
           /\ helper'.client = helper.client /\ reply' = reply
BY DEF UpdateHelpers, Advance

\* One that has answered is in no stage of a call.
LEMMA AnswerEnds ==
    ASSUME NEW o \in {"none", "done", "failed", "killed"}, Answer(o)
    PROVE  /\ helper' = NoHelper /\ helper'.stage = "idle" /\ reply' = o
           /\ Restorable' /\ BackedUp' /\ Compared'
<1>1. helper' = NoHelper /\ helper'.stage = "idle" /\ reply' = o
  BY DEF Answer, NoHelper
<1>2. \A s : s # "idle" => ~ Doing(s)'
  BY <1>1 DEF Doing
<1>3. Restorable'
  BY <1>2 DEF Restorable
<1>4. BackedUp' /\ Compared'
  BY <1>2 DEF BackedUp, Compared
<1> QED BY <1>1, <1>3, <1>4

\* What an endpoint update writes.
LEMMA ReplacementView ==
    ASSUME helper \in EndpointHelpers
    PROVE  Replacement \in Metadata
BY DEF EndpointHelpers, Replacement, Metadata
LEMMA ProjectedView ==
    ASSUME SavedTypeOK, NEW c \in Clients
    PROVE  /\ Projected(c) \in Saved /\ Projected(c).host = meta.host
           /\ Projected(c).fields = saved[c].fields
BY DEF SavedTypeOK, Projected, Saved, Metadata
LEMMA BudgetFaults ==
    ASSUME SavedTypeOK
    PROVE  Fault => faults' \in 0..MaxFaults /\ faults' = faults + 1 /\ faults' > 0
                    /\ made' = made /\ edits' = edits
<1>1. faults \in 0..MaxFaults
  BY DEF SavedTypeOK
<1> QED BY <1>1, SavedBounds DEF Fault

-----------------------------------------------------------------------------
(* The types                                                               *)

FilesTyped == meta \in Metadata /\ saved \in [Clients -> Saved] /\ backups \subseteq Metadata
PagesTyped == metaShown \subseteq Metadata /\ savedShown \subseteq Clients \X Saved
HelperTyped == helper = NoHelper \/ helper \in EndpointHelpers \/ helper \in UpdateHelpers
BudgetTyped == made \in 0..MaxCalls /\ faults \in 0..MaxFaults /\ edits \in 0..MaxEdits
LEMMA TypedParts ==
    SavedTypeOK <=> /\ FilesTyped /\ PagesTyped /\ HelperTyped /\ BudgetTyped
               /\ reply \in {"none", "done", "failed", "killed"}
BY DEF SavedTypeOK, FilesTyped, PagesTyped, HelperTyped, BudgetTyped, EndpointHelpers,
   UpdateHelpers
LEMMA PartsTyped ==
    ASSUME FilesTyped', PagesTyped', HelperTyped', BudgetTyped',
           (reply \in {"none", "done", "failed", "killed"})'
    PROVE  SavedTypeOK'
BY DEF SavedTypeOK, FilesTyped, PagesTyped, HelperTyped, BudgetTyped, EndpointHelpers,
   UpdateHelpers

\* The types, the pages and the budget are kept by each kind of step.
LEMMA BudgetKept ==
    ASSUME SavedTypeOK, Fault \/ UNCHANGED budget
    PROVE  BudgetTyped'
<1>1. BudgetTyped
  BY DEF SavedTypeOK, BudgetTyped
<1> QED BY <1>1, BudgetFaults DEF BudgetTyped, budget

-----------------------------------------------------------------------------
(* The pages *)

LEMMA PageStep == ASSUME Careful, Page PROVE Careful'
<1> USE DEF Careful
<1>1. /\ FilesTyped /\ PagesTyped /\ HelperTyped /\ BudgetTyped
      /\ reply \in {"none", "done", "failed", "killed"}
  BY TypedParts
<1>2. CASE ShowServer
  <2>1. /\ FilesTyped' /\ HelperTyped' /\ BudgetTyped'
        /\ (reply \in {"none", "done", "failed", "killed"})'
    BY <1>1, <1>2 DEF ShowServer, files, budget, FilesTyped, HelperTyped, BudgetTyped,
       EndpointHelpers, UpdateHelpers
  <2>2. PagesTyped'
    BY <1>1, <1>2 DEF ShowServer, FilesTyped, PagesTyped
  <2>3. Restorable' /\ BackedUp' /\ Compared'
    BY <1>2 DEF ShowServer, files, budget, Restorable, BackedUp, Compared, Doing,
       Replacement, Projected
  <2> QED BY <2>1, <2>2, <2>3, PartsTyped
<1>3. ASSUME NEW c \in Clients, ShowConfiguration(c) PROVE Careful'
  <2>1. /\ FilesTyped' /\ HelperTyped' /\ BudgetTyped'
        /\ (reply \in {"none", "done", "failed", "killed"})'
    BY <1>1, <1>3 DEF ShowConfiguration, files, budget, FilesTyped, HelperTyped,
       BudgetTyped, EndpointHelpers, UpdateHelpers
  <2>2. PagesTyped'
    BY <1>1, <1>3, ProjectedView DEF ShowConfiguration, PagesTyped
  <2>3. Restorable' /\ BackedUp' /\ Compared'
    BY <1>3 DEF ShowConfiguration, files, budget, Restorable, BackedUp, Compared, Doing,
       Replacement, Projected
  <2> QED BY <2>1, <2>2, <2>3, PartsTyped
<1>4. ASSUME NEW h \in Hosts, BeginEndpoint(h) PROVE Careful'
  <2>1. PICK revision \in metaShown : Begin(EndpointCall(revision, h))
    BY <1>4 DEF BeginEndpoint
  <2>2. /\ helper' = EndpointCall(revision, h)
        /\ made' = made + 1 /\ made < MaxCalls
        /\ UNCHANGED <<meta, saved, backups, metaShown, savedShown, reply, faults, edits>>
    BY <2>1 DEF Begin, files, pages
  <2>3. /\ helper' \in EndpointHelpers /\ helper'.stage = "reading" /\ helper'.before = meta
    BY <1>1, <2>2 DEF EndpointCall, EndpointHelpers, EndpointStages, FilesTyped, PagesTyped
  <2>4. /\ FilesTyped' /\ PagesTyped' /\ HelperTyped'
        /\ (reply \in {"none", "done", "failed", "killed"})'
    BY <1>1, <2>2, <2>3 DEF FilesTyped, PagesTyped, HelperTyped, EndpointHelpers
  <2>5. BudgetTyped'
    BY <1>1, <2>2, SavedBounds DEF BudgetTyped
  <2>6. Restorable' /\ BackedUp' /\ Compared'
    BY <2>2, <2>3 DEF Restorable, BackedUp, Compared, Doing
  <2> QED BY <2>4, <2>5, <2>6, PartsTyped
<1>5. ASSUME NEW c \in Clients, NEW f \in Fields, BeginUpdate(c, f) PROVE Careful'
  <2>1. PICK shown \in savedShown : shown[1] = c /\ Begin(UpdateCall(c, shown[2], f))
    BY <1>5 DEF BeginUpdate
  <2>2. /\ helper' = UpdateCall(c, shown[2], f)
        /\ made' = made + 1 /\ made < MaxCalls
        /\ UNCHANGED <<meta, saved, backups, metaShown, savedShown, reply, faults, edits>>
    BY <2>1 DEF Begin, files, pages
  <2>3. shown[2] \in Saved /\ saved[c] \in Saved
    BY <1>1 DEF FilesTyped, PagesTyped
  <2>4. helper' \in UpdateHelpers /\ helper'.stage = "loading"
    BY <2>2, <2>3 DEF UpdateCall, UpdateHelpers, UpdateStages
  <2>5. /\ FilesTyped' /\ PagesTyped' /\ HelperTyped'
        /\ (reply \in {"none", "done", "failed", "killed"})'
    BY <1>1, <2>2, <2>4 DEF FilesTyped, PagesTyped, HelperTyped, UpdateHelpers
  <2>6. BudgetTyped'
    BY <1>1, <2>2, SavedBounds DEF BudgetTyped
  <2>7. Restorable' /\ BackedUp' /\ Compared'
    BY <2>4 DEF Restorable, BackedUp, Compared, Doing
  <2> QED BY <2>5, <2>6, <2>7, PartsTyped
<1> QED BY <1>2, <1>3, <1>4, <1>5 DEF Page

-----------------------------------------------------------------------------
(* replace_endpoint *)

\* What remains to be shown of a step that leaves the saved configurations, the pages that
\* hold them and the count of edits alone.
LEMMA EndpointKeeps ==
    ASSUME Careful, Doing("reading") \/ Doing("backing") \/ Doing("replacing") \/ Doing("verifying")
                        \/ Doing("comparing") \/ Doing("rolling") \/ Doing("answering"),
           saved' = saved, savedShown' = savedShown,
           meta' \in Metadata, backups' \subseteq Metadata, metaShown' \subseteq Metadata,
           Fault \/ UNCHANGED budget,
           \/ \E s \in EndpointStages : Advance(s)
           \/ \E o \in {"done", "failed"} : Answer(o)
    PROVE  SavedTypeOK' /\ Compared'
<1>1. SavedTypeOK
  BY DEF Careful
<1>2. FilesTyped /\ PagesTyped /\ reply \in {"none", "done", "failed", "killed"}
  BY <1>1, TypedParts
<1>3. helper \in EndpointHelpers
  BY <1>1, HelperView DEF Doing, EndpointStages
<1>4. FilesTyped' /\ PagesTyped'
  BY <1>2 DEF FilesTyped, PagesTyped
<1>5. BudgetTyped'
  BY <1>1, BudgetKept
<1>6. CASE \E s \in EndpointStages : Advance(s)
  <2>1. PICK s \in EndpointStages : Advance(s)
    BY <1>6
  <2>2. helper' \in EndpointHelpers /\ helper'.stage = s /\ reply' = reply
    BY <1>3, <2>1, EndpointAdvances
  <2>3. HelperTyped' /\ (reply \in {"none", "done", "failed", "killed"})'
    BY <1>2, <2>2 DEF HelperTyped, EndpointHelpers
  <2>4. Compared'
    BY <2>2 DEF Compared, Doing, EndpointStages
  <2> QED BY <1>4, <1>5, <2>3, <2>4, PartsTyped
<1>7. CASE \E o \in {"done", "failed"} : Answer(o)
  <2>1. PICK o \in {"done", "failed"} : Answer(o)
    BY <1>7
  <2>2. helper' = NoHelper /\ reply' = o /\ Compared'
    BY <2>1, AnswerEnds
  <2>3. HelperTyped' /\ (reply \in {"none", "done", "failed", "killed"})'
    BY <2>2 DEF HelperTyped, NoHelper
  <2> QED BY <1>4, <1>5, <2>2, <2>3, PartsTyped
<1> QED BY <1>6, <1>7

\* Once it has answered, nothing is left to be shown of the call.
LEMMA EndpointEnds ==
    ASSUME NEW o \in {"done", "failed"}, Answer(o)
    PROVE  Restorable' /\ BackedUp' /\ Compared'
BY AnswerEnds

LEMMA EndpointStep == ASSUME Careful, Endpoint PROVE Careful'
<1>1. SavedTypeOK /\ Restorable /\ BackedUp
  BY DEF Careful
<1>2. FilesTyped /\ PagesTyped /\ BudgetTyped
  BY <1>1, TypedParts
<1> USE DEF files, pages
<1>3. ASSUME helper.stage \in EndpointStages
      PROVE  helper \in EndpointHelpers /\ helper.expected \in Metadata /\ Replacement \in Metadata
  <2>1. helper \in EndpointHelpers
    BY <1>1, <1>3, HelperView
  <2> QED BY <2>1, ReplacementView DEF EndpointHelpers
<1>4. CASE ReadMetadata
  <2>1. Doing("reading") /\ helper.stage \in EndpointStages
    BY <1>4 DEF ReadMetadata, Doing, EndpointStages
  <2>2. SavedTypeOK' /\ Compared'
    BY <1>2, <1>4, <2>1, EndpointKeeps DEF ReadMetadata, FilesTyped, PagesTyped,
       EndpointStages
  <2>3. CASE Answer("failed")
    BY <2>2, <2>3, AnswerEnds DEF Careful
  <2>4. CASE meta = helper.expected /\ (Advance("answering") \/ Advance("backing"))
    <3>1. PICK s \in {"answering", "backing"} : Advance(s)
      BY <2>4
    <3>2. /\ helper'.stage = s /\ helper'.expected = helper.expected
          /\ helper'.before = helper.before
      BY <1>3, <2>1, <3>1, EndpointAdvances DEF EndpointStages
    <3>3. meta' = meta /\ edits' = edits
      BY <1>4 DEF ReadMetadata, budget
    <3>4. Restorable' /\ BackedUp'
      BY <1>1, <2>1, <2>4, <3>2, <3>3 DEF Restorable, BackedUp, Doing
    <3> QED BY <2>2, <3>4 DEF Careful
  <2> QED BY <1>4, <2>3, <2>4 DEF ReadMetadata
<1>5. CASE Backup
  <2>1. Doing("backing") /\ helper.stage \in EndpointStages
    BY <1>5 DEF Backup, Doing, EndpointStages
  <2>2. SavedTypeOK' /\ Compared'
    BY <1>2, <1>3, <1>5, <2>1, EndpointKeeps DEF Backup, FilesTyped, PagesTyped,
       EndpointStages
  <2>3. CASE Answer("failed")
    BY <2>2, <2>3, AnswerEnds DEF Careful
  <2>4. CASE backups' = backups \cup {helper.expected} /\ Advance("replacing") /\ UNCHANGED budget
    <3>1. /\ helper'.stage = "replacing" /\ helper'.expected = helper.expected
          /\ helper'.before = helper.before
      BY <1>3, <2>1, <2>4, EndpointAdvances DEF EndpointStages
    <3>2. meta' = meta /\ edits' = edits
      BY <1>5, <2>4 DEF Backup, budget
    <3>3. Restorable' /\ BackedUp'
      BY <1>1, <2>1, <2>4, <3>1, <3>2 DEF Restorable, BackedUp, Doing
    <3> QED BY <2>2, <3>3 DEF Careful
  <2> QED BY <1>5, <2>3, <2>4 DEF Backup
<1>6. CASE Replace
  <2>1. Doing("replacing") /\ helper.stage \in EndpointStages
    BY <1>6 DEF Replace, Doing, EndpointStages
  <2>2. SavedTypeOK' /\ Compared'
    BY <1>2, <1>3, <1>6, <2>1, EndpointKeeps DEF Replace, FilesTyped, PagesTyped,
       EndpointStages
  <2>3. CASE Answer("failed")
    BY <2>2, <2>3, AnswerEnds DEF Careful
  <2>4. CASE meta' = Replacement /\ Advance("verifying") /\ UNCHANGED budget
    <3>1. /\ helper'.stage = "verifying" /\ helper'.expected = helper.expected
          /\ helper'.host = helper.host /\ helper'.before = helper.before
      BY <1>3, <2>1, <2>4, EndpointAdvances DEF EndpointStages
    <3>2. meta' = Replacement' /\ edits' = edits /\ backups' = backups
      BY <1>6, <2>4, <3>1 DEF Replace, Replacement, budget
    <3>3. Restorable' /\ BackedUp'
      BY <1>1, <2>1, <3>1, <3>2 DEF Restorable, BackedUp, Doing
    <3> QED BY <2>2, <3>3 DEF Careful
  <2>5. CASE Advance("rolling") /\ Fault
    <3>1. /\ helper'.stage = "rolling" /\ helper'.expected = helper.expected
          /\ helper'.before = helper.before
      BY <1>3, <2>1, <2>5, EndpointAdvances DEF EndpointStages
    <3>2. faults' >= 1 /\ edits' = edits /\ backups' = backups
      BY <1>1, <1>2, <1>6, <2>5, BudgetFaults DEF Replace, BudgetTyped
    <3>3. Restorable' /\ BackedUp'
      BY <1>1, <2>1, <3>1, <3>2 DEF Restorable, BackedUp, Doing
    <3> QED BY <2>2, <3>3 DEF Careful
  <2> QED BY <1>6, <2>3, <2>4, <2>5 DEF Replace
<1>7. CASE Verify
  <2>1. Doing("verifying") /\ helper.stage \in EndpointStages
    BY <1>7 DEF Verify, Doing, EndpointStages
  <2>2. SavedTypeOK' /\ Compared'
    BY <1>2, <1>7, <2>1, EndpointKeeps DEF Verify, FilesTyped, PagesTyped, EndpointStages
  <2>3. CASE Advance("comparing") /\ UNCHANGED budget
    <3>1. /\ helper'.stage = "comparing" /\ helper'.expected = helper.expected
          /\ helper'.host = helper.host /\ helper'.before = helper.before
      BY <1>3, <2>1, <2>3, EndpointAdvances DEF EndpointStages
    <3>2. Replacement' = Replacement /\ meta' = meta /\ edits' = edits /\ backups' = backups
      BY <1>7, <2>3, <3>1 DEF Verify, Replacement, budget
    <3>3. Restorable' /\ BackedUp'
      BY <1>1, <2>1, <3>1, <3>2 DEF Restorable, BackedUp, Doing
    <3> QED BY <2>2, <3>3 DEF Careful
  <2>4. CASE Advance("rolling") /\ Fault
    <3>1. /\ helper'.stage = "rolling" /\ helper'.expected = helper.expected
          /\ helper'.before = helper.before
      BY <1>3, <2>1, <2>4, EndpointAdvances DEF EndpointStages
    <3>2. faults' >= 1 /\ edits' = edits /\ backups' = backups
      BY <1>1, <1>2, <1>7, <2>4, BudgetFaults DEF Verify, BudgetTyped
    <3>3. Restorable' /\ BackedUp'
      BY <1>1, <2>1, <3>1, <3>2 DEF Restorable, BackedUp, Doing
    <3> QED BY <2>2, <3>3 DEF Careful
  <2> QED BY <1>7, <2>3, <2>4 DEF Verify
<1>8. CASE Compare
  <2>1. Doing("comparing") /\ helper.stage \in EndpointStages
    BY <1>8 DEF Compare, Doing, EndpointStages
  <2>2. PICK s \in {"answering", "rolling"} : Advance(s) /\ (s = "rolling" => meta # Replacement)
    BY <1>8 DEF Compare
  <2>3. SavedTypeOK' /\ Compared'
    BY <1>2, <1>8, <2>1, <2>2, EndpointKeeps DEF Compare, FilesTyped, PagesTyped,
       EndpointStages
  <2>4. /\ helper'.stage = s /\ helper'.expected = helper.expected /\ helper'.before = helper.before
    BY <1>3, <2>1, <2>2, EndpointAdvances DEF EndpointStages
  <2>5. edits' = edits /\ backups' = backups
    BY <1>8 DEF Compare, budget
  <2>6. Restorable' /\ BackedUp'
    BY <1>1, <2>1, <2>2, <2>4, <2>5 DEF Restorable, BackedUp, Doing
  <2> QED BY <2>3, <2>6 DEF Careful
<1>9. CASE RollBack
  <2>1. Doing("rolling") /\ helper.stage \in EndpointStages
    BY <1>9 DEF RollBack, Doing, EndpointStages
  <2>2. SavedTypeOK' /\ Compared'
    BY <1>2, <1>3, <1>9, <2>1, EndpointKeeps DEF RollBack, FilesTyped, PagesTyped,
       EndpointStages
  <2> QED BY <1>9, <2>2, AnswerEnds DEF RollBack, Careful
<1>10. CASE AnswerEndpoint
  <2>1. Doing("answering") /\ helper.stage \in EndpointStages
    BY <1>10 DEF AnswerEndpoint, Doing, EndpointStages
  <2>2. SavedTypeOK' /\ Compared'
    BY <1>2, <1>3, <1>10, <2>1, EndpointKeeps DEF AnswerEndpoint, FilesTyped, PagesTyped,
       EndpointStages
  <2> QED BY <1>10, <2>2, AnswerEnds DEF AnswerEndpoint, Careful
<1> QED BY <1>4, <1>5, <1>6, <1>7, <1>8, <1>9, <1>10 DEF Endpoint

-----------------------------------------------------------------------------
(* update_config *)

\* The fields of the helper of an update.
LEMMA UpdateView ==
    ASSUME Careful, helper.stage \in UpdateStages
    PROVE  /\ helper \in UpdateHelpers /\ helper.client \in Clients /\ helper.fields \in Fields
           /\ helper.replacement \in Saved /\ saved[helper.client] \in Saved
           /\ Projected(helper.client) \in Saved
<1>1. SavedTypeOK
  BY DEF Careful
<1>2. helper \in UpdateHelpers
  BY <1>1, HelperView
<1>3. helper.client \in Clients /\ helper.fields \in Fields /\ helper.replacement \in Saved
  BY <1>2 DEF UpdateHelpers
<1> QED BY <1>1, <1>2, <1>3, ProjectedView DEF SavedTypeOK

\* An update touches neither the metadata nor their backups: whatever its step, what is said
\* of endpoint updates is void.
LEMMA UpdateVoid ==
    ASSUME helper' = NoHelper \/ helper'.stage \in UpdateStages
    PROVE  Restorable' /\ BackedUp'
<1>1. helper'.stage \in UpdateStages \cup {"idle"}
  BY DEF NoHelper
<1>2. \A s \in EndpointStages : ~ Doing(s)'
  BY <1>1 DEF Doing, EndpointStages, UpdateStages
<1>3. ~ (\/ Doing("reading") \/ Doing("backing") \/ Doing("replacing") \/ Doing("verifying")
         \/ Doing("comparing") \/ Doing("rolling"))'
  BY <1>2 DEF EndpointStages
<1> QED BY <1>3 DEF Restorable, BackedUp

LEMMA UpdateStep == ASSUME Careful, Update PROVE Careful'
<1>1. SavedTypeOK /\ Compared
  BY DEF Careful
<1>2. /\ FilesTyped /\ PagesTyped /\ BudgetTyped
      /\ reply \in {"none", "done", "failed", "killed"}
  BY <1>1, TypedParts
<1> USE DEF files, pages
<1>3. ASSUME Answer("done") \/ Answer("failed"), FilesTyped', PagesTyped', BudgetTyped'
      PROVE  Careful'
  <2>1. /\ helper' = NoHelper /\ (reply \in {"none", "done", "failed", "killed"})'
        /\ Restorable' /\ BackedUp' /\ Compared'
    BY <1>3, AnswerEnds DEF Answer
  <2> QED BY <1>3, <2>1, PartsTyped DEF HelperTyped, Careful
<1>4. ASSUME helper' \in UpdateHelpers, reply' = reply, FilesTyped', PagesTyped', BudgetTyped',
             Compared'
      PROVE  Careful'
  <2>1. helper'.stage \in UpdateStages
    BY <1>4 DEF UpdateHelpers
  <2>2. HelperTyped' /\ (reply \in {"none", "done", "failed", "killed"})'
    BY <1>2, <1>4 DEF HelperTyped, UpdateHelpers
  <2> QED BY <1>4, <2>1, <2>2, UpdateVoid, PartsTyped DEF Careful
<1>5. CASE Load
  <2>1. helper.stage = "loading" /\ helper.stage \in UpdateStages
    BY <1>5 DEF Load, Doing, UpdateStages
  <2>2. UNCHANGED <<meta, saved, backups, metaShown, savedShown, budget>>
    BY <1>5 DEF Load
  <2>3. FilesTyped' /\ PagesTyped' /\ BudgetTyped'
    BY <1>2, <2>2 DEF FilesTyped, PagesTyped, BudgetTyped, budget
  <2>4. CASE Answer("failed")
    BY <1>3, <2>3, <2>4
  <2>5. CASE Advance("reloading")
    <3>1. helper' \in UpdateHelpers /\ helper'.stage = "reloading" /\ reply' = reply
      BY <2>1, <2>5, UpdateView, UpdateAdvances DEF UpdateStages
    <3>2. Compared'
      BY <3>1 DEF Compared, Doing
    <3> QED BY <1>4, <2>3, <3>1, <3>2
  <2>6. CASE /\ Projected(helper.client) = helper.expected
             /\ helper' = [helper EXCEPT !.stage = "rereading",
                            !.replacement =
                              [Projected(helper.client) EXCEPT !.fields = helper.fields]]
             /\ UNCHANGED reply
    <3>1. [Projected(helper.client) EXCEPT !.fields = helper.fields] \in Saved
      BY <2>1, UpdateView DEF Saved
    <3>2. /\ helper' \in UpdateHelpers /\ helper'.client = helper.client
          /\ helper'.expected = helper.expected
      BY <2>1, <2>6, <3>1, UpdateView DEF UpdateHelpers, UpdateStages
    <3>3. Compared'
      BY <2>2, <2>6, <3>2 DEF Compared, Projected
    <3> QED BY <1>4, <2>3, <2>6, <3>2, <3>3
  <2> QED BY <1>5, <2>4, <2>5, <2>6 DEF Load
<1>6. CASE Reread
  <2>1. helper.stage = "rereading" /\ helper.stage \in UpdateStages
    BY <1>6 DEF Reread, Doing, UpdateStages
  <2>2. /\ UNCHANGED <<meta, saved, backups, metaShown, savedShown, budget, reply>>
        /\ helper' = [helper EXCEPT !.stage = "swapping", !.raw = saved[helper.client]]
    BY <1>6 DEF Reread
  <2>3. FilesTyped' /\ PagesTyped' /\ BudgetTyped'
    BY <1>2, <2>2 DEF FilesTyped, PagesTyped, BudgetTyped, budget
  <2>4. /\ helper' \in UpdateHelpers /\ helper'.client = helper.client
        /\ helper'.expected = helper.expected
    BY <2>1, <2>2, UpdateView DEF UpdateHelpers, UpdateStages
  <2>5. Compared'
    BY <1>1, <2>1, <2>2, <2>4 DEF Compared, Projected, Doing, budget
  <2> QED BY <1>4, <2>2, <2>3, <2>4, <2>5
<1>7. CASE AtomicReplace
  <2>1. helper.stage = "swapping" /\ helper.stage \in UpdateStages
    BY <1>7 DEF AtomicReplace, Doing, UpdateStages
  <2>2. /\ UNCHANGED <<meta, backups, metaShown, savedShown>>
        /\ saved' = saved \/ saved' = [saved EXCEPT ![helper.client] = helper.replacement]
        /\ Fault \/ UNCHANGED budget
    BY <1>7 DEF AtomicReplace
  <2>3. FilesTyped' /\ PagesTyped' /\ BudgetTyped'
    BY <1>1, <1>2, <2>1, <2>2, UpdateView, BudgetKept DEF FilesTyped, PagesTyped
  <2>4. CASE Answer("failed")
    BY <1>3, <2>3, <2>4
  <2>5. CASE Advance("reloading")
    <3>1. helper' \in UpdateHelpers /\ helper'.stage = "reloading" /\ reply' = reply
      BY <2>1, <2>5, UpdateView, UpdateAdvances DEF UpdateStages
    <3>2. Compared'
      BY <3>1 DEF Compared, Doing
    <3> QED BY <1>4, <2>3, <3>1, <3>2
  <2> QED BY <1>7, <2>4, <2>5 DEF AtomicReplace
<1>8. CASE Reload
  <2>1. helper.stage \in UpdateStages
    BY <1>8 DEF Reload, Doing, UpdateStages
  <2>2. /\ UNCHANGED <<meta, saved, backups, metaShown>>
        /\ savedShown' \subseteq savedShown \cup {<<helper.client, Projected(helper.client)>>}
        /\ Fault \/ UNCHANGED budget
        /\ Answer("done") \/ Answer("failed")
    BY <1>8 DEF Reload
  <2>3. FilesTyped' /\ PagesTyped' /\ BudgetTyped'
    BY <1>1, <1>2, <2>1, <2>2, UpdateView, BudgetKept DEF FilesTyped, PagesTyped
  <2> QED BY <1>3, <2>2, <2>3
<1> QED BY <1>5, <1>6, <1>7, <1>8 DEF Update

-----------------------------------------------------------------------------
(* Kills, and edits by hand *)

LEMMA KilledStep == ASSUME Careful, Killed PROVE Careful'
<1>1. SavedTypeOK
  BY DEF Careful
<1>2. FilesTyped /\ PagesTyped /\ BudgetTyped
  BY <1>1, TypedParts
<1>3. UNCHANGED <<meta, saved, backups, metaShown, savedShown>> /\ Answer("killed") /\ Fault
  BY DEF Killed, files, pages, Fault
<1>4. FilesTyped' /\ PagesTyped' /\ BudgetTyped'
  BY <1>1, <1>2, <1>3, BudgetKept DEF FilesTyped, PagesTyped
<1>5. /\ helper' = NoHelper /\ (reply \in {"none", "done", "failed", "killed"})'
      /\ Restorable' /\ BackedUp' /\ Compared'
  BY <1>3, AnswerEnds
<1> QED BY <1>4, <1>5, PartsTyped DEF HelperTyped, Careful

\* After an edit by hand, what is promised as long as there is none is void.
LEMMA HandStep ==
    ASSUME Careful,
           EditMetadata \/ \E c \in Clients, f \in Fields : EditSaved(c, f)
    PROVE  Careful'
<1>1. SavedTypeOK /\ BackedUp
  BY DEF Careful
<1>2. /\ FilesTyped /\ PagesTyped /\ HelperTyped /\ BudgetTyped
      /\ reply \in {"none", "done", "failed", "killed"}
  BY <1>1, TypedParts
<1>3. /\ UNCHANGED <<backups, metaShown, savedShown, helper, reply, made, faults>>
      /\ edits < MaxEdits /\ edits' = edits + 1
  BY DEF EditMetadata, EditSaved, pages
<1>4. edits' \in 1..MaxEdits
  BY <1>2, <1>3, SavedBounds DEF BudgetTyped
<1>5. /\ PagesTyped' /\ HelperTyped' /\ BudgetTyped'
      /\ (reply \in {"none", "done", "failed", "killed"})'
  BY <1>2, <1>3, <1>4 DEF PagesTyped, HelperTyped, BudgetTyped, EndpointHelpers,
     UpdateHelpers
<1>6. meta' \in Metadata /\ saved' \in [Clients -> Saved]
  <2>1. CASE EditMetadata
    BY <1>2, <1>4, <2>1 DEF EditMetadata, FilesTyped, Metadata
  <2>2. ASSUME NEW c \in Clients, NEW f \in Fields, EditSaved(c, f)
        PROVE  meta' = meta /\ saved' \in [Clients -> Saved]
    BY <1>2, <2>2 DEF EditSaved, FilesTyped, Saved
  <2> QED BY <1>2, <2>1, <2>2 DEF FilesTyped
<1>7. FilesTyped'
  BY <1>2, <1>3, <1>6 DEF FilesTyped
<1>8. Restorable' /\ Compared'
  BY <1>4 DEF Restorable, Compared
<1>9. BackedUp'
  BY <1>1, <1>3 DEF BackedUp, Doing
<1> QED BY <1>5, <1>7, <1>8, <1>9, PartsTyped DEF Careful

-----------------------------------------------------------------------------
(* The theorems *)

LEMMA CarefulInit == SavedInit => Careful
<1> SUFFICES ASSUME SavedInit PROVE Careful
  OBVIOUS
<1>1. helper = NoHelper /\ helper.stage = "idle"
  BY DEF SavedInit, NoHelper
<1>2. SavedTypeOK
  BY SavedBounds DEF SavedInit, SavedTypeOK, Metadata, Saved
<1>3. Restorable /\ BackedUp /\ Compared
  BY <1>1 DEF Restorable, BackedUp, Compared, Doing
<1> QED BY <1>2, <1>3 DEF Careful

LEMMA CarefulStep == ASSUME Careful, [SavedNext]_savedVars PROVE Careful'
<1>1. CASE UNCHANGED savedVars
  BY <1>1 DEF Careful, SavedTypeOK, Restorable, BackedUp, Compared, Doing, Replacement,
     Projected,
              savedVars, files, pages, budget
<1> QED BY <1>1, PageStep, EndpointStep, UpdateStep, KilledStep, HandStep DEF SavedNext

LEMMA CarefulAlways == SavedSpec => []Careful
BY CarefulInit, CarefulStep, PTL DEF SavedSpec

\* Who writes the metadata: an update that has compared them, or a rollback.
LEMMA MetadataWritten ==
    ASSUME Careful, [SavedNext]_savedVars, meta' # meta, ~ ByHand, ~ Doing("rolling")
    PROVE  meta = helper.expected
<1>1. CASE EditMetadata \/ \E c \in Clients, f \in Fields : EditSaved(c, f)
  <2>1. edits' = edits + 1 /\ edits \in Nat
    BY <1>1, SavedBounds DEF EditMetadata, EditSaved, Careful, SavedTypeOK
  <2> QED BY <2>1 DEF ByHand
<1>2. CASE Endpoint
  BY <1>2 DEF Endpoint, ReadMetadata, Backup, Replace, Verify, Compare, RollBack,
     AnswerEndpoint, files
<1>3. CASE Page \/ Update \/ Killed
  BY <1>3 DEF Page, ShowServer, ShowConfiguration, BeginEndpoint, BeginUpdate, Begin,
              Update, Load, Reread, AtomicReplace, Reload, Killed, files
<1> QED BY <1>1, <1>2, <1>3 DEF SavedNext, savedVars, files

\* Who writes a configuration: an update that has compared it.
LEMMA ConfigurationWritten ==
    ASSUME Careful, [SavedNext]_savedVars, edits' = 0, NEW c \in Clients, saved'[c] # saved[c]
    PROVE  Projected(c) = helper.expected
<1>1. CASE EditMetadata \/ \E d \in Clients, f \in Fields : EditSaved(d, f)
  <2>1. edits' = edits + 1 /\ edits \in Nat
    BY <1>1, SavedBounds DEF EditMetadata, EditSaved, Careful, SavedTypeOK
  <2> QED BY <2>1
<1>2. CASE AtomicReplace
  <2>1. Doing("swapping") /\ helper.stage \in UpdateStages
    BY <1>2 DEF AtomicReplace, Doing, UpdateStages
  <2>2. saved' = [saved EXCEPT ![helper.client] = helper.replacement]
    BY <1>2 DEF AtomicReplace
  <2>3. c = helper.client
    BY <2>1, <2>2, UpdateView DEF Careful, SavedTypeOK
  <2>4. edits = 0
    BY <1>2 DEF AtomicReplace, Fault, budget
  <2> QED BY <2>1, <2>3, <2>4 DEF Careful, Compared
<1>3. CASE Endpoint
  BY <1>3 DEF Endpoint, ReadMetadata, Backup, Replace, Verify, Compare, RollBack,
     AnswerEndpoint, files
<1>4. CASE Page \/ Load \/ Reread \/ Reload \/ Killed
  BY <1>4 DEF Page, ShowServer, ShowConfiguration, BeginEndpoint, BeginUpdate, Begin,
              Load, Reread, Reload, Killed, files
<1> QED BY <1>1, <1>2, <1>3, <1>4 DEF SavedNext, Update, savedVars, files

\* An edit only ever replaces what the operator's page has shown, for any number of pages,
\* clients, calls, failures and edits: replace_endpoint compares the metadata immediately before
\* it writes them; between the comparison of a configuration and its replacement only a hand
\* could have changed the configuration or the endpoint in it (Compared).
THEOREM StalePagesOverwriteNothing == SavedSpec => EditReplacesShown
<1>1. ASSUME Careful, [SavedNext]_savedVars
      PROVE  /\ meta' # meta /\ ~ ByHand /\ ~ Doing("rolling") => meta = helper.expected
             /\ edits' = 0
                  => \A c \in Clients : saved'[c] # saved[c] => Projected(c) = helper.expected
  BY <1>1, MetadataWritten, ConfigurationWritten
<1> QED BY <1>1, CarefulAlways, PTL DEF SavedSpec, EditReplacesShown

\* How an endpoint update ends in failure: with the metadata that it found.
LEMMA FailedAsBefore ==
    ASSUME Careful, [SavedNext]_savedVars,
           helper.stage \in EndpointStages, helper' = NoHelper, reply' = "failed",
           edits' = 0, faults' <= 1, ~ Doing("answering")
    PROVE  meta' = helper.before
<1>1. SavedTypeOK /\ Restorable
  BY DEF Careful
<1>2. faults \in Nat /\ edits \in Nat
  BY <1>1, SavedBounds DEF SavedTypeOK
<1>3. helper.stage # "idle" /\ helper.stage \notin UpdateStages
  BY DEF EndpointStages, UpdateStages
<1>4. helper' # helper
  BY <1>3 DEF NoHelper
<1>5. ~ (\/ Page \/ Update \/ Killed \/ EditMetadata
         \/ \E c \in Clients, f \in Fields : EditSaved(c, f))
  BY <1>3, <1>4 DEF Page, ShowServer, ShowConfiguration, BeginEndpoint, BeginUpdate, Begin,
     Update,
                    Load, Reread, AtomicReplace, Reload, Killed, Answer, EditMetadata, EditSaved,
                    Doing, UpdateStages
<1>6. Endpoint
  BY <1>4, <1>5 DEF SavedNext, savedVars
<1>7. helper \in EndpointHelpers
  BY <1>1, HelperView
<1>8. \A s \in EndpointStages : ~ Advance(s)
  <2> SUFFICES ASSUME NEW s \in EndpointStages, Advance(s) PROVE FALSE
    OBVIOUS
  <2> QED BY <1>7, EndpointAdvances DEF NoHelper, EndpointStages
<1>9. edits = 0
  BY <1>6 DEF Endpoint, ReadMetadata, Backup, Replace, Verify, Compare, RollBack,
     AnswerEndpoint,
              Fault, budget
<1>10. CASE ReadMetadata
  BY <1>1, <1>9, <1>10 DEF ReadMetadata, Restorable, files
<1>11. CASE Backup
  BY <1>1, <1>8, <1>9, <1>11 DEF Backup, Restorable, EndpointStages
<1>12. CASE Replace
  BY <1>1, <1>8, <1>9, <1>12 DEF Replace, Restorable, EndpointStages
<1>13. ~ Verify /\ ~ Compare
  BY <1>8 DEF Verify, Compare, EndpointStages
<1>14. CASE RollBack
  <2>1. faults >= 1 /\ helper.expected = helper.before
    BY <1>1, <1>9, <1>14 DEF RollBack, Restorable
  <2>2. ~ Fault
    BY <1>2, <2>1 DEF Fault
  <2> QED BY <1>14, <2>1, <2>2 DEF RollBack
<1>15. ~ AnswerEndpoint
  BY DEF AnswerEndpoint
<1> QED BY <1>6, <1>10, <1>11, <1>12, <1>13, <1>14, <1>15 DEF Endpoint

\* A failed update of the endpoint leaves no unverified endpoint behind, whatever single write or
\* check of it failed, and wherever the helper is killed after its replacement the old metadata
\* are in a backup.  Until the replacement the metadata are as they were found; from then on the
\* helper remembers them, and only a failure sends it into the rollback (Restorable); the backup
\* comes first (BackedUp).
THEOREM EndpointFailuresAreClean == SavedSpec => FailureIsClean
<1>1. Careful => SavedTypeOK
  BY DEF Careful
<1>2. ASSUME Careful, [SavedNext]_savedVars
      PROVE  helper.stage \in EndpointStages /\ helper' = NoHelper /\ reply' = "failed"
               /\ edits' = 0 /\ faults' <= 1
             => meta' = helper.before \/ Doing("answering")
  BY <1>2, FailedAsBefore
<1>3. ASSUME Careful
      PROVE  reply' = "killed" /\ helper.stage \in {"verifying", "comparing", "rolling"}
             => helper.expected \in backups
  BY <1>3 DEF Careful, BackedUp, Doing
<1> QED BY <1>1, <1>2, <1>3, CarefulAlways, PTL DEF SavedSpec, FailureIsClean

-----------------------------------------------------------------------------
(* The page of the settings                                                *)

\* What a form shows, and what a task took from it, is the content of the revision it carries.
Matching ==
    /\ \A o \in Owners : form[o].shown = form[o].revision
    /\ \A k \in tasks \cup belated : k.shown = k.revision

\* A task that waits for a save has a form.
OfForms == \A k \in tasks : k.at = 0 => k.owner \in Owners

\* A form whose button is shut has a task, or its card says why.
Openable(o) == form[o].open \/ card[o[1]] = "unavailable" \/ \E k \in tasks : k.owner = o

Faithful == PageTypeOK /\ Matching /\ OfForms /\ \A o \in Owners : Openable(o)

\* The types of the settings, of the page and of the tasks.
SettingsTyped == settings \in [Cards -> Nat]
PageTyped ==
    /\ card \in [Cards -> {"loading", "shown", "unavailable"}]
    /\ form \in [Owners -> [shown : Nat, revision : Nat, open : BOOLEAN]]
TasksTyped == tasks \subseteq Tasks /\ belated \subseteq Tasks
CountsTyped == begun \in 0..MaxTasks /\ elsewhere \in 0..MaxElsewhere
LEMMA PageTypes ==
    /\ PageTypeOK <=> SettingsTyped /\ PageTyped /\ TasksTyped /\ CountsTyped
    /\ PageTypeOK' <=> SettingsTyped' /\ PageTyped' /\ TasksTyped' /\ CountsTyped'
BY DEF PageTypeOK, SettingsTyped, PageTyped, TasksTyped, CountsTyped, Owners

\* A task that has been answered is the same task.
LEMMA TaskAnswered ==
    ASSUME NEW k \in Tasks, NEW a \in TaskAnswers
    PROVE  /\ [k EXCEPT !.answer = a] \in Tasks
           /\ [k EXCEPT !.answer = a].owner = k.owner
           /\ [k EXCEPT !.answer = a].at = k.at
           /\ [k EXCEPT !.answer = a].shown = k.shown
           /\ [k EXCEPT !.answer = a].revision = k.revision
BY DEF Tasks

LEMMA UnansweredTyped == Unanswered \in TaskAnswers
BY DEF Unanswered, TaskAnswers

\* The steps that put a task in the place of another one, of the same form and with the same
\* contents, and leave the page alone.
LEMMA TaskReplaced ==
    ASSUME Faithful, NEW k \in tasks, NEW new \in Tasks, Become(k, new),
           new.owner = k.owner, new.shown = k.shown, new.revision = k.revision,
           new.at = 0 => k.at = 0,
           UNCHANGED <<page, begun, elsewhere>>,
           SettingsTyped', belated' \in {belated, belated \cup {k}}
    PROVE  Faithful'
<1>1. tasks' = (tasks \ {k}) \cup {new} /\ form' = form /\ card' = card
  BY DEF Become, page
<1>2. SettingsTyped /\ PageTyped /\ TasksTyped /\ CountsTyped
  BY PageTypes DEF Faithful
<1>3. PageTypeOK'
  BY <1>1, <1>2, PageTypes DEF PageTyped, TasksTyped, CountsTyped
<1>4. Matching'
  BY <1>1 DEF Faithful, Matching
<1>5. OfForms'
  BY <1>1 DEF Faithful, OfForms
<1>6. ASSUME NEW o \in Owners PROVE Openable(o)'
  BY <1>1 DEF Faithful, Openable
<1> QED BY <1>3, <1>4, <1>5, <1>6 DEF Faithful

\* A task that is begun.
LEMMA TaskBegun ==
    ASSUME PageTypeOK, NEW owner \in Owners \cup {Nobody}, NEW at \in 0..Len(Order),
           NEW f \in [shown : Nat, revision : Nat, open : BOOLEAN], BeginTask(Task(owner, at, f))
    PROVE  /\ Task(owner, at, f) \in Tasks /\ Task(owner, at, f).owner = owner
           /\ Task(owner, at, f).at = at
           /\ Task(owner, at, f).shown = f.shown /\ Task(owner, at, f).revision = f.revision
           /\ tasks' = tasks \cup {Task(owner, at, f)}
           /\ begun' \in 0..MaxTasks
<1>1. begun \in Nat /\ begun < MaxTasks /\ begun' = begun + 1
  BY DEF PageTypeOK, BeginTask
<1>2. begun' \in 0..MaxTasks
  BY <1>1, OrderAssumption
<1> QED BY <1>1, <1>2, UnansweredTyped DEF Task, Tasks, BeginTask

LEMMA LoadAllStep == ASSUME Faithful, LoadAll PROVE Faithful'
<1> DEFINE k == Task(Nobody, 1, Blank)
<1>1. Blank \in [shown : Nat, revision : Nat, open : BOOLEAN] /\ Blank.shown = Blank.revision
  BY DEF Blank
<1>2. 1 \in 0..Len(Order)
  BY OrderAssumption
<1>3. /\ k \in Tasks /\ k.at = 1 /\ k.shown = k.revision
      /\ tasks' = tasks \cup {k} /\ begun' \in 0..MaxTasks
  BY <1>1, <1>2, TaskBegun DEF LoadAll, Faithful
<1> HIDE DEF k
<1>4. UNCHANGED <<settings, card, form, belated, elsewhere>>
  BY DEF LoadAll, page
<1>5. SettingsTyped /\ PageTyped /\ TasksTyped /\ CountsTyped
  BY PageTypes DEF Faithful
<1>6. PageTypeOK'
  BY <1>3, <1>4, <1>5, PageTypes DEF SettingsTyped, PageTyped, TasksTyped, CountsTyped
<1>7. Matching' /\ OfForms'
  BY <1>3, <1>4 DEF Faithful, Matching, OfForms
<1>8. ASSUME NEW o \in Owners PROVE Openable(o)'
  BY <1>3, <1>4 DEF Faithful, Openable
<1> QED BY <1>6, <1>7, <1>8 DEF Faithful

LEMMA SaveStep == ASSUME Faithful, NEW o \in Owners, Save(o) PROVE Faithful'
<1> DEFINE k == Task(o, 0, form[o])
<1>1. SettingsTyped /\ PageTyped /\ TasksTyped /\ CountsTyped
  BY PageTypes DEF Faithful
<1>2. form[o] \in [shown : Nat, revision : Nat, open : BOOLEAN] /\ form[o].shown = form[o].revision
  BY <1>1 DEF PageTyped, Faithful, Matching
<1>3. 0 \in 0..Len(Order)
  BY OrderAssumption
<1>4. /\ k \in Tasks /\ k.owner = o /\ k.shown = k.revision
      /\ tasks' = tasks \cup {k} /\ begun' \in 0..MaxTasks
  BY <1>2, <1>3, TaskBegun DEF Save, Faithful
<1> HIDE DEF k
<1>5. UNCHANGED <<settings, card, belated, elsewhere>> /\ form' = [form EXCEPT ![o].open = FALSE]
  BY DEF Save
<1>6. form' \in [Owners -> [shown : Nat, revision : Nat, open : BOOLEAN]]
  BY <1>1, <1>5 DEF PageTyped
<1>7. PageTypeOK'
  BY <1>1, <1>4, <1>5, <1>6, PageTypes DEF SettingsTyped, PageTyped, TasksTyped, CountsTyped
<1>8. \A n \in Owners : form'[n].shown = form[n].shown /\ form'[n].revision = form[n].revision
  BY <1>1, <1>5 DEF PageTyped
<1>9. Matching' /\ OfForms'
  BY <1>4, <1>5, <1>8 DEF Faithful, Matching, OfForms
<1>10. ASSUME NEW n \in Owners PROVE Openable(n)'
  <2>1. CASE n = o
    BY <1>4, <2>1 DEF Openable
  <2>2. CASE n # o
    BY <1>1, <1>4, <1>5, <2>2 DEF Faithful, Openable, PageTyped
  <2> QED BY <2>1, <2>2
<1> QED BY <1>7, <1>9, <1>10 DEF Faithful

\* A form that an answer has filled in, or the failure of one has shut.
LEMMA SettingsArriveStep ==
    ASSUME Faithful, NEW k \in tasks, SettingsArrive(k)
    PROVE  Faithful'
<1> DEFINE p == Order[k.at]
           arrived == [o \in Owners |->
                         IF o[1] # p THEN form[o]
                         ELSE IF k.answer.ok THEN Filled(form[o], k.answer.revision)
                         ELSE [form[o] EXCEPT !.open = FALSE]]
           Form == [shown : Nat, revision : Nat, open : BOOLEAN]
<1>1. SettingsTyped /\ PageTyped /\ TasksTyped /\ CountsTyped
  BY PageTypes DEF Faithful
<1>2. k \in Tasks /\ k.at > 0
  BY <1>1 DEF TasksTyped, SettingsArrive
<1>3. k.at \in 1..Len(Order) /\ k.answer \in TaskAnswers /\ p \in Cards
  BY <1>2, OrderAssumption DEF Tasks, Cards
<1>4. k.answer.revision \in Nat
  BY <1>3 DEF TaskAnswers
<1>5. ASSUME NEW o \in Owners
      PROVE  /\ arrived[o] \in Form /\ arrived[o].shown = arrived[o].revision
             /\ o[1] # p => arrived[o] = form[o]
             /\ o[1] = p /\ k.answer.ok => arrived[o].open
  <2>1. form[o] \in Form /\ form[o].shown = form[o].revision
    BY <1>1 DEF PageTyped, Faithful, Matching
  <2>2. Filled(form[o], k.answer.revision) \in Form /\ Filled(form[o], k.answer.revision).open
        /\ Filled(form[o], k.answer.revision).shown = Filled(form[o], k.answer.revision).revision
    BY <1>4 DEF Filled
  <2>3. [form[o] EXCEPT !.open = FALSE] \in Form
        /\ [form[o] EXCEPT !.open = FALSE].shown = [form[o] EXCEPT !.open = FALSE].revision
    BY <2>1
  <2> QED BY <2>1, <2>2, <2>3
<1>6. /\ card' = [card EXCEPT ![p] = IF k.answer.ok THEN "shown" ELSE "unavailable"]
      /\ UNCHANGED <<settings, belated, begun, elsewhere>>
      /\ \/ /\ k.at < Len(Order) /\ form' = arrived
            /\ tasks' = (tasks \ {k}) \cup {[k EXCEPT !.at = k.at + 1, !.answer = Unanswered]}
         \/ /\ tasks' = tasks \ {k}
            /\ form' = [o \in Owners |->
                          IF o = k.owner THEN [arrived[o] EXCEPT !.open = TRUE] ELSE arrived[o]]
  BY DEF SettingsArrive, Become
<1>7. card' \in [Cards -> {"loading", "shown", "unavailable"}]
  BY <1>1, <1>6 DEF PageTyped
<1>8. \A o \in Owners :
         arrived[o].open \/ card'[o[1]] = "unavailable" \/ \E j \in tasks : j.owner = o
  <2> SUFFICES ASSUME NEW o \in Owners
               PROVE arrived[o].open \/ card'[o[1]] = "unavailable" \/ \E j \in tasks : j.owner = o
    OBVIOUS
  <2>1. o[1] \in Cards
    BY DEF Owners
  <2>2. CASE o[1] # p
    BY <1>1, <1>5, <1>6, <2>1, <2>2 DEF Faithful, Openable, PageTyped
  <2>3. CASE o[1] = p /\ k.answer.ok
    BY <1>5, <2>3
  <2>4. CASE o[1] = p /\ ~ k.answer.ok
    BY <1>1, <1>6, <2>1, <2>4 DEF PageTyped
  <2> QED BY <2>2, <2>3, <2>4
<1> HIDE DEF arrived
<1>9. CASE k.at < Len(Order) /\ form' = arrived
            /\ tasks' = (tasks \ {k}) \cup {[k EXCEPT !.at = k.at + 1, !.answer = Unanswered]}
  <2> DEFINE new == [k EXCEPT !.at = k.at + 1, !.answer = Unanswered]
  <2>1. k.at + 1 \in 1..Len(Order)
    BY <1>3, <1>9, OrderAssumption
  <2>2. /\ new \in Tasks /\ new.owner = k.owner /\ new.at # 0
        /\ new.shown = k.shown /\ new.revision = k.revision
    <3>1. PICK n \in 1..Len(Order) : n = k.at + 1
      BY <2>1
    <3>2. new = [k EXCEPT !.at = n, !.answer = Unanswered]
      BY <3>1
    <3>3. n \in 0..Len(Order) /\ n # 0
      BY OrderAssumption
    <3> HIDE DEF new
    <3> QED BY <1>2, <3>2, <3>3, UnansweredTyped DEF Tasks
  <2>3. tasks' = (tasks \ {k}) \cup {new}
    BY <1>9
  <2> HIDE DEF new
  <2>4. form' \in [Owners -> Form]
    BY <1>5, <1>9 DEF arrived
  <2>5. PageTypeOK'
    BY <1>1, <1>6, <1>7, <2>2, <2>3, <2>4, PageTypes DEF SettingsTyped, PageTyped,
       TasksTyped, CountsTyped
  <2>6. Matching' /\ OfForms'
    BY <1>5, <1>6, <1>9, <2>2, <2>3 DEF Faithful, Matching, OfForms
  <2>7. ASSUME NEW o \in Owners PROVE Openable(o)'
    BY <1>8, <1>9, <2>2, <2>3 DEF Openable
  <2> QED BY <2>5, <2>6, <2>7 DEF Faithful
<1>10. CASE /\ tasks' = tasks \ {k}
            /\ form' = [o \in Owners |->
                          IF o = k.owner THEN [arrived[o] EXCEPT !.open = TRUE] ELSE arrived[o]]
  <2>1. ASSUME NEW o \in Owners
        PROVE  /\ form'[o] \in Form /\ form'[o].shown = form'[o].revision
               /\ o = k.owner => form'[o].open
               /\ o # k.owner => form'[o] = arrived[o]
    <3>1. arrived[o] \in Form /\ arrived[o].shown = arrived[o].revision
      BY <1>5
    <3>2. [arrived[o] EXCEPT !.open = TRUE] \in Form /\ [arrived[o] EXCEPT !.open = TRUE].open
          /\ [arrived[o] EXCEPT !.open = TRUE].shown = [arrived[o] EXCEPT !.open = TRUE].revision
      BY <3>1
    <3> QED BY <1>10, <3>1, <3>2
  <2>2. form' \in [Owners -> Form]
    BY <1>10, <2>1
  <2>3. PageTypeOK'
    BY <1>1, <1>6, <1>7, <1>10, <2>2, PageTypes DEF SettingsTyped, PageTyped, TasksTyped,
       CountsTyped
  <2>4. Matching' /\ OfForms'
    BY <1>6, <1>10, <2>1 DEF Faithful, Matching, OfForms
  <2>5. ASSUME NEW o \in Owners PROVE Openable(o)'
    BY <1>8, <1>10, <2>1 DEF Openable
  <2> QED BY <2>3, <2>4, <2>5 DEF Faithful
<1> QED BY <1>6, <1>9, <1>10

LEMMA SaveReturnsStep ==
    ASSUME Faithful, NEW k \in tasks, SaveReturns(k)
    PROVE  Faithful'
<1> DEFINE new == [k EXCEPT !.at = 1, !.answer = Unanswered]
<1>1. SettingsTyped /\ k \in Tasks
  BY PageTypes DEF Faithful, TasksTyped
<1>2. 1 \in 0..Len(Order)
  BY OrderAssumption
<1>3. /\ new \in Tasks /\ new.owner = k.owner /\ new.at = 1
      /\ new.shown = k.shown /\ new.revision = k.revision
  BY <1>1, <1>2, UnansweredTyped DEF Tasks
<1>4. Become(k, new) /\ UNCHANGED <<settings, page, belated, begun, elsewhere>>
  BY DEF SaveReturns
<1> HIDE DEF new
<1>5. SettingsTyped'
  BY <1>1, <1>4 DEF SettingsTyped
<1> QED BY <1>3, <1>4, <1>5, TaskReplaced

LEMMA ReadSettingsStep ==
    ASSUME Faithful, NEW k \in tasks, ReadSettings(k)
    PROVE  Faithful'
<1> DEFINE a == [done |-> TRUE, ok |-> TRUE, revision |-> settings[Order[k.at]]]
<1>1. SettingsTyped /\ k \in Tasks
  BY PageTypes DEF Faithful, TasksTyped
<1>2. k.at \in 1..Len(Order)
  BY <1>1, OrderAssumption DEF ReadSettings, Tasks
<1>3. a \in TaskAnswers
  BY <1>1, <1>2, OrderAssumption DEF SettingsTyped, Cards, TaskAnswers
<1>4. Become(k, [k EXCEPT !.answer = a]) /\ UNCHANGED <<settings, page, belated, begun, elsewhere>>
  BY DEF ReadSettings, ReplyTo
<1> HIDE DEF a
<1>5. /\ [k EXCEPT !.answer = a] \in Tasks /\ [k EXCEPT !.answer = a].owner = k.owner
      /\ [k EXCEPT !.answer = a].at = k.at
      /\ [k EXCEPT !.answer = a].shown = k.shown /\ [k EXCEPT !.answer = a].revision = k.revision
  BY <1>1, <1>3, TaskAnswered
<1>6. SettingsTyped'
  BY <1>1, <1>4 DEF SettingsTyped
<1> QED BY <1>4, <1>5, <1>6, TaskReplaced

LEMMA ChangeSettingsStep ==
    ASSUME Faithful, NEW k \in tasks, ChangeSettings(k)
    PROVE  Faithful'
<1> DEFINE a == [done |-> TRUE, ok |-> TRUE, revision |-> settings'[k.owner[1]]]
<1>1. SettingsTyped /\ k \in Tasks /\ k.owner \in Owners
  BY PageTypes DEF Faithful, TasksTyped, OfForms, ChangeSettings
<1>2. settings' = [settings EXCEPT ![k.owner[1]] = @ + 1] /\ k.owner[1] \in Cards
  BY <1>1 DEF ChangeSettings, SettingsEffect, Owners
<1>3. SettingsTyped'
  BY <1>1, <1>2 DEF SettingsTyped
<1>4. a \in TaskAnswers
  BY <1>2, <1>3 DEF SettingsTyped, TaskAnswers
<1>5. Become(k, [k EXCEPT !.answer = a]) /\ UNCHANGED <<page, belated, begun, elsewhere>>
  BY DEF ChangeSettings, ReplyTo
<1> HIDE DEF a
<1>6. /\ [k EXCEPT !.answer = a] \in Tasks /\ [k EXCEPT !.answer = a].owner = k.owner
      /\ [k EXCEPT !.answer = a].at = k.at
      /\ [k EXCEPT !.answer = a].shown = k.shown /\ [k EXCEPT !.answer = a].revision = k.revision
  BY <1>1, <1>4, TaskAnswered
<1> QED BY <1>3, <1>5, <1>6, TaskReplaced

LEMMA FailTaskStep == ASSUME Faithful, NEW k \in tasks, FailTask(k) PROVE Faithful'
<1> DEFINE a == [Unanswered EXCEPT !.done = TRUE]
<1>1. SettingsTyped /\ k \in Tasks
  BY PageTypes DEF Faithful, TasksTyped
<1>2. a \in TaskAnswers
  BY UnansweredTyped DEF TaskAnswers
<1>3. /\ Become(k, [k EXCEPT !.answer = a]) /\ UNCHANGED <<settings, page, begun, elsewhere>>
      /\ belated' \in {belated, belated \cup {k}}
  BY DEF FailTask, ReplyTo
<1> HIDE DEF a
<1>4. /\ [k EXCEPT !.answer = a] \in Tasks /\ [k EXCEPT !.answer = a].owner = k.owner
      /\ [k EXCEPT !.answer = a].at = k.at
      /\ [k EXCEPT !.answer = a].shown = k.shown /\ [k EXCEPT !.answer = a].revision = k.revision
  BY <1>1, <1>2, TaskAnswered
<1>5. SettingsTyped'
  BY <1>1, <1>3 DEF SettingsTyped
<1> QED BY <1>3, <1>4, <1>5, TaskReplaced

\* The settings change behind the page's back.
LEMMA BehindStep ==
    ASSUME Faithful,
           (\E k \in belated : BelatedSave(k)) \/ (\E p \in Cards : OthersChange(p))
    PROVE  Faithful'
<1>1. SettingsTyped /\ PageTyped /\ TasksTyped /\ CountsTyped
  BY PageTypes DEF Faithful
<1>2. /\ \E p : settings' = [settings EXCEPT ![p] = settings[p] + 1]
      /\ UNCHANGED <<card, form, tasks, begun>> /\ belated' \subseteq belated
  BY DEF BelatedSave, OthersChange, SettingsEffect, page
<1>3. PICK p : settings' = [settings EXCEPT ![p] = settings[p] + 1]
  BY <1>2
<1>4. settings' \in [Cards -> Nat]
  <2>1. \A q \in Cards : settings[q] \in Nat /\ settings[q] + 1 \in Nat
    BY <1>1 DEF SettingsTyped
  <2>2. ASSUME NEW q \in Cards PROVE settings'[q] \in Nat
    BY <1>1, <1>3, <2>1 DEF SettingsTyped
  <2> QED BY <1>1, <1>3, <2>2 DEF SettingsTyped
<1>5. elsewhere' \in 0..MaxElsewhere
  <2>1. elsewhere' = elsewhere \/ (elsewhere < MaxElsewhere /\ elsewhere' = elsewhere + 1)
    BY DEF BelatedSave, OthersChange
  <2> QED BY <1>1, <2>1, OrderAssumption DEF CountsTyped
<1>6. PageTypeOK'
  BY <1>1, <1>2, <1>4, <1>5, PageTypes DEF SettingsTyped, PageTyped, TasksTyped, CountsTyped
<1>7. Matching' /\ OfForms' /\ \A o \in Owners : Openable(o)'
  BY <1>2 DEF Faithful, Matching, OfForms, Openable
<1> QED BY <1>6, <1>7 DEF Faithful

LEMMA FaithfulInit == PageInit => Faithful
<1> SUFFICES ASSUME PageInit PROVE Faithful
  OBVIOUS
<1>1. PageTypeOK
  BY OrderAssumption DEF PageInit, PageTypeOK, Blank, Owners
<1>2. Matching /\ OfForms /\ \A o \in Owners : Openable(o)
  BY DEF PageInit, Matching, OfForms, Openable, Blank
<1> QED BY <1>1, <1>2 DEF Faithful

LEMMA FaithfulStep == ASSUME Faithful, [PageNext]_pageVars PROVE Faithful'
<1>1. CASE UNCHANGED pageVars
  BY <1>1 DEF Faithful, PageTypeOK, Matching, OfForms, Openable, pageVars, page, Owners
<1> QED BY <1>1, LoadAllStep, SaveStep, SettingsArriveStep, SaveReturnsStep,
           ReadSettingsStep, ChangeSettingsStep,
           FailTaskStep, BehindStep DEF PageNext

LEMMA FaithfulAlways == PageSpec => []Faithful
BY FaithfulInit, FaithfulStep, PTL DEF PageSpec

\* A save that takes effect, at once or belatedly, finds the settings that its form showed when
\* it was sent, and no button of the page stays shut: for any profiles, forms, loads, saves and
\* changes by others, in any order of the answers.  A form is only ever filled in together with
\* its revision (Matching), the service compares that revision, and a form is shut by a save of
\* its own, which opens it in the end, or by a load that says so on the card (Openable).
THEOREM SavesReplaceWhatTheyShow == PageSpec => SettingsSavedAsShown
<1>1. Faithful
       => /\ PageTypeOK
          /\ \A o \in Owners :
                form[o].open \/ card[o[1]] = "unavailable" \/ \E k \in tasks : k.owner = o
  BY DEF Faithful, Openable
<1>2. ASSUME Faithful, [PageNext]_pageVars
      PROVE  \A k \in tasks \cup belated :
               settings' # settings /\ k \notin tasks' \cup belated'
                 => k.shown = settings[k.owner[1]]
  <2> SUFFICES ASSUME NEW k \in tasks \cup belated,
                      settings' # settings, k \notin tasks' \cup belated'
               PROVE  k.shown = settings[k.owner[1]]
    OBVIOUS
  <2>1. k.shown = k.revision
    BY <1>2 DEF Faithful, Matching
  <2>2. \/ \E j \in tasks : ChangeSettings(j)
        \/ \E j \in belated : BelatedSave(j)
        \/ \E p \in Cards : OthersChange(p)
    BY <1>2 DEF PageNext, LoadAll, Save, SettingsArrive, SaveReturns, ReadSettings, FailTask,
       pageVars
  <2>3. ASSUME NEW j \in tasks, ChangeSettings(j) PROVE k.revision = settings[k.owner[1]]
    BY <2>3 DEF ChangeSettings, SettingsEffect, ReplyTo, Become
  <2>4. ASSUME NEW j \in belated, BelatedSave(j) PROVE k.revision = settings[k.owner[1]]
    BY <2>4 DEF BelatedSave, SettingsEffect
  <2>5. ASSUME NEW p \in Cards, OthersChange(p) PROVE FALSE
    BY <2>5 DEF OthersChange
  <2> QED BY <2>1, <2>2, <2>3, <2>4, <2>5
<1> QED BY <1>1, <1>2, FaithfulAlways, PTL DEF PageSpec, SettingsSavedAsShown

===============================================================================
