--------------------------- MODULE SnapshotCollector ---------------------------
(***************************************************************************)
(* The collection of the public status (awg_cita/app.py, SnapshotCollector *)
(* and AwgReader).  Every request for /api/status has a thread; the first  *)
(* one to find no fresh result runs the AWG command, those that come       *)
(* meanwhile wait for its result, and a good result is kept for a moment.  *)
(*                                                                         *)
(* What is collected is represented by the time at which it was true.      *)
(***************************************************************************)
EXTENDS Integers, Sequences, FiniteSets

CONSTANTS
    Threads,
    TTL,            \* how long a result is kept
    ReadLimit,      \* how long the command may take, with its termination
    MaxClock,       \* bound: the time that passes
    MaxFlights      \* bound: collections

ASSUME TimeAssumption == TTL \in Nat \ {0} /\ ReadLimit \in Nat
ASSUME BoundAssumption == MaxClock \in Nat /\ MaxFlights \in Nat

VARIABLES
    clock,
    cached,     \* SnapshotCollector._cached
    inflight,   \* SnapshotCollector._inflight: the number of a flight, or 0
    flights,    \* the results of the flights so far
    thread      \* what each thread does

vars == <<clock, cached, inflight, flights, thread>>

Time == 0..MaxClock
Failed == [ok |-> FALSE]
Results == [ok : {TRUE}, at : Time] \cup {Failed}
Pending == [pending |-> TRUE]
NoCache == [empty |-> TRUE]

\* asked is when the last call began; result what this thread has read as the
\* owner of a flight; answer what the call has returned.
Stages == {"idle", "reading", "publishing", "waiting"}
Thread == [stage : Stages, asked : Time, flight : 0..MaxFlights, result : Results, answer : Results]

Idle(asked, answer) ==
    [stage |-> "idle", asked |-> asked, flight |-> 0, result |-> Failed, answer |-> answer]

Init ==
    /\ clock = 0
    /\ cached = NoCache
    /\ inflight = 0
    /\ flights = <<>>
    /\ thread = [t \in Threads |-> Idle(0, Failed)]

At(t, stage) == thread[t].stage = stage
Return(t, result) == thread' = [thread EXCEPT ![t] = Idle(thread[t].asked, result)]
Fresh == cached # NoCache /\ clock - cached.at < TTL

-----------------------------------------------------------------------------
(* The locked section of snapshot has three outcomes.                      *)

\* Mutant: a result that is used is kept for longer.
HitRenews(t) ==
    /\ At(t, "idle") /\ Fresh
    /\ cached' = [cached EXCEPT !.at = clock]
    /\ thread' = [thread EXCEPT ![t].asked = clock, ![t].answer = cached.result]
    /\ UNCHANGED <<clock, inflight, flights>>

Hit(t) ==
    /\ At(t, "idle") /\ Fresh
    /\ thread' = [thread EXCEPT ![t].asked = clock, ![t].answer = cached.result]
    /\ UNCHANGED <<clock, cached, inflight, flights>>

TakeOff(t) ==
    /\ Len(flights) < MaxFlights
    /\ flights' = Append(flights, Pending)
    /\ inflight' = Len(flights) + 1
    /\ thread' = [thread EXCEPT ![t].stage = "reading", ![t].asked = clock,
                                ![t].flight = Len(flights) + 1]
    /\ UNCHANGED <<clock, cached>>

\* Mutant: a flight of another thread is not noticed.
OwnAlways(t) == At(t, "idle") /\ ~Fresh /\ TakeOff(t)

Own(t) == At(t, "idle") /\ ~Fresh /\ inflight = 0 /\ TakeOff(t)

Join(t) ==
    /\ At(t, "idle") /\ ~Fresh /\ inflight # 0
    /\ thread' = [thread EXCEPT ![t].stage = "waiting", ![t].asked = clock, ![t].flight = inflight]
    /\ UNCHANGED <<clock, cached, inflight, flights>>

-----------------------------------------------------------------------------
(* The owner of a flight, and the threads that wait for it.                *)

\* AwgReader.snapshot: the command reads the interface, fails, is too slow or
\* prints too much.
Read(t) ==
    /\ At(t, "reading")
    /\ \E result \in {[ok |-> TRUE, at |-> clock], Failed} :
          thread' = [thread EXCEPT ![t].stage = "publishing", ![t].result = result]
    /\ UNCHANGED <<clock, cached, inflight, flights>>

\* _finish: only a good result is kept, from now on and not from when it was read.
Finish(n, result) ==
    /\ cached' = IF result.ok THEN [at |-> clock, result |-> result] ELSE NoCache
    /\ flights' = [flights EXCEPT ![n] = result]
    /\ inflight' = IF inflight = n THEN 0 ELSE inflight

Publish(t) ==
    /\ At(t, "publishing")
    /\ Finish(thread[t].flight, thread[t].result)
    /\ Return(t, thread[t].result)
    /\ UNCHANGED clock

\* Mutant: a thread that breaks off leaves its flight in the air.
BreakOffSilently(t) ==
    /\ At(t, "reading") \/ At(t, "publishing")
    /\ Return(t, Failed)
    /\ UNCHANGED <<clock, cached, inflight, flights>>

\* An exception that is no Exception ends the owner's call, not the flight.
BreakOff(t) ==
    /\ At(t, "reading") \/ At(t, "publishing")
    /\ Finish(thread[t].flight, Failed)
    /\ Return(t, Failed)
    /\ UNCHANGED clock

Wake(t) ==
    /\ At(t, "waiting")
    /\ flights[thread[t].flight] # Pending
    /\ Return(t, flights[thread[t].flight])
    /\ UNCHANGED <<clock, cached, inflight, flights>>

\* The caller is done with the answer.
Forget(t) ==
    /\ At(t, "idle")
    /\ thread' = [thread EXCEPT ![t] = Idle(0, Failed)]
    /\ UNCHANGED <<clock, cached, inflight, flights>>

\* AwgReader._run kills the command in time, so no flight lasts longer.
Tick ==
    /\ clock < MaxClock
    /\ \A t \in Threads : At(t, "reading") \/ At(t, "publishing") => clock - thread[t].asked < ReadLimit
    /\ clock' = clock + 1
    /\ UNCHANGED <<cached, inflight, flights, thread>>

Work(t) == Read(t) \/ Publish(t) \/ BreakOff(t) \/ Wake(t) \/ Forget(t)

Next ==
    \/ \E t \in Threads : Hit(t) \/ Own(t) \/ Join(t) \/ Work(t)
    \/ Tick

Spec == Init /\ [][Next]_vars

-----------------------------------------------------------------------------

\* Every variable has its type.
TypeOK ==
    /\ clock \in Time
    /\ cached \in {NoCache} \cup [at : Time, result : Results]
    /\ flights \in Seq(Results \cup {Pending}) /\ Len(flights) <= MaxFlights
    /\ inflight \in 0..Len(flights)
    /\ thread \in [Threads -> Thread]

\* The AWG command runs once at a time, for the flight that the newcomers join.
\* (And the state is well typed.)
OneCommandAtATime ==
    /\ TypeOK
    /\ \A t, u \in Threads :
        {thread[t].stage, thread[u].stage} \subseteq {"reading", "publishing"}
            => t = u /\ inflight = thread[t].flight

\* A good answer is no older than the time it was kept and the time one command
\* takes: not when it waited for another thread's command, and not when it came
\* from the cache.
AnswersAreFresh ==
    \A t \in Threads :
        At(t, "idle") /\ thread[t].answer.ok
            => thread[t].answer.at + TTL + ReadLimit > thread[t].asked

=============================================================================
