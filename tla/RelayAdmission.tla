---------------------------- MODULE RelayAdmission ----------------------------
(***************************************************************************)
(* The relay in front of the application (scripts/rate_limit_proxy.py):    *)
(* every kind of request but a page has a token bucket, and reads of the   *)
(* clients and actions share a few slots besides.  A request takes a       *)
(* token, then a slot, is forwarded, and gives the slot back when it has   *)
(* been answered, when the backend took too long, or when anything failed. *)
(* A login is answered by the relay itself.  Every request has a thread of *)
(* its own; the application goes on with a request that the relay gave up. *)
(*                                                                         *)
(* Time is counted in ticks; a bucket gains one unit a tick and a token of *)
(* a kind is worth Cost of them (2 seconds in the code, 12 for a login).   *)
(***************************************************************************)
EXTENDS Integers, FiniteSets

CONSTANTS
    Requests,       \* the requests
    Kinds,          \* reads of the clients, actions, the status, logins
    Slotted,        \* the kinds that need a slot: reads and actions
    Local,          \* the kinds that the relay answers: logins
    Slots,          \* requests that are forwarded with a slot at the same time (3)
    Burst,          \* the tokens that the bucket of a kind holds (6; 5 for logins)
    Cost,           \* units of a token of a kind
    MaxClock        \* bound: ticks

ASSUME RequestsAssumption == IsFiniteSet(Requests)
ASSUME KindsAssumption == Slotted \subseteq Kinds /\ Local \subseteq Kinds \ Slotted
ASSUME NumbersAssumption ==
    /\ Slots \in Nat \ {0} /\ MaxClock \in Nat
    /\ Burst \in [Kinds -> Nat \ {0}] /\ Cost \in [Kinds -> Nat \ {0}]

VARIABLES
    clock,      \* time.monotonic()
    bucket,     \* of each kind: its units and when they were counted
    granted,    \* of each kind: the tokens that were handed out
    slots,      \* action_slots: the free ones
    request,    \* of each request: its kind, its stage and what the browser has received
    backend     \* of each request: what the application does with it

relayVars == <<clock, bucket, granted, slots, request, backend>>

\* permitted: has its token; admitted: has its slot, if it needs one; waiting: is forwarded;
\* replying: the status line of the backend is being sent.
Stages == {"new", "permitted", "admitted", "waiting", "replying", "over"}
Replies == {"none", "refused", "unavailable", "relay", "backend", "broken"}
Request == [kind : Kinds, stage : Stages, reply : Replies]

At(r, stage) == request[r].stage = stage
Move(r, stage) == request' = [request EXCEPT ![r].stage = stage]
Close(r, reply) == request' = [request EXCEPT ![r].stage = "over", ![r].reply = reply]
Release(r) == slots' = IF request[r].kind \in Slotted THEN slots + 1 ELSE slots

Smaller(a, b) == IF a < b THEN a ELSE b

\* The units of a full bucket.
Full(k) == Burst[k] * Cost[k]

RelayInit ==
    /\ clock = 0
    /\ bucket = [k \in Kinds |-> [units |-> Full(k), last |-> 0]]
    /\ granted = [k \in Kinds |-> 0]
    /\ slots = Slots
    /\ request \in [Requests -> [kind : Kinds, stage : {"new"}, reply : {"none"}]]
    /\ backend = [r \in Requests |-> "idle"]

Tick ==
    /\ clock < MaxClock
    /\ clock' = clock + 1
    /\ UNCHANGED <<bucket, granted, slots, request, backend>>

Refilled(k) == Smaller(Full(k), bucket[k].units + (clock - bucket[k].last))

\* Mutant: the time of a refusal is not remembered.
PermitForgetful(r) ==
    LET k == request[r].kind  units == Refilled(k) IN
    /\ At(r, "new")
    /\ IF units < Cost[k]
         THEN /\ bucket' = [bucket EXCEPT ![k].units = units]
              /\ Close(r, "refused") /\ UNCHANGED granted
         ELSE /\ bucket' = [bucket EXCEPT ![k].units = units - Cost[k]]
              /\ Move(r, "permitted")
              /\ granted' = [granted EXCEPT ![k] = @ + 1]
    /\ UNCHANGED <<clock, slots, backend>>

\* permitted, client_permitted, action_permitted and login_permitted: a refusal
\* counts the units as well.
Permit(r) ==
    LET k == request[r].kind  units == Refilled(k) IN
    /\ At(r, "new")
    /\ IF units < Cost[k]
         THEN /\ bucket' = [bucket EXCEPT ![k] = [units |-> units, last |-> clock]]
              /\ Close(r, "refused") /\ UNCHANGED granted
         ELSE /\ bucket' = [bucket EXCEPT ![k] = [units |-> units - Cost[k], last |-> clock]]
              /\ Move(r, "permitted")
              /\ granted' = [granted EXCEPT ![k] = @ + 1]
    /\ UNCHANGED <<clock, slots, backend>>

\* It does not wait for a slot, and its token is gone.
Acquire(r) ==
    /\ At(r, "permitted") /\ request[r].kind \in Slotted
    /\ IF slots > 0
         THEN slots' = slots - 1 /\ Move(r, "admitted")
         ELSE Close(r, "refused") /\ UNCHANGED slots
    /\ UNCHANGED <<clock, bucket, granted, backend>>

\* The status and a login take no slot.
Admit(r) ==
    /\ At(r, "permitted") /\ request[r].kind \notin Slotted
    /\ Move(r, "admitted")
    /\ UNCHANGED <<clock, bucket, granted, slots, backend>>

\* A login is answered here, whether or not the password is the right one.
Login(r) ==
    /\ At(r, "admitted") /\ request[r].kind \in Local
    /\ Close(r, "relay")
    /\ UNCHANGED <<clock, bucket, granted, slots, backend>>

\* The body is short or late, or the application cannot be reached.
NotForwarded(r) ==
    /\ At(r, "admitted")
    /\ Close(r, "unavailable")
    /\ Release(r)
    /\ UNCHANGED <<clock, bucket, granted, backend>>

Forward(r) ==
    /\ At(r, "admitted") /\ request[r].kind \notin Local
    /\ Move(r, "waiting")
    /\ backend' = [backend EXCEPT ![r] = "working"]
    /\ UNCHANGED <<clock, bucket, granted, slots>>

\* The application answers, whether or not the relay still waits.
Answer(r) ==
    /\ backend[r] = "working"
    /\ backend' = [backend EXCEPT ![r] = "done"]
    /\ UNCHANGED <<clock, bucket, granted, slots, request>>

\* The time limit of the connection, or the connection broke.
GiveUp(r) ==
    /\ At(r, "waiting") /\ backend[r] = "working"
    /\ Close(r, "unavailable")
    /\ Release(r)
    /\ UNCHANGED <<clock, bucket, granted, backend>>

\* Mutant: the slot is given back as soon as the backend has answered, and again at the end.
RespondReleases(r) ==
    /\ At(r, "waiting") /\ backend[r] = "done"
    /\ request' = [request EXCEPT ![r].stage = "replying", ![r].reply = "backend"]
    /\ Release(r)
    /\ UNCHANGED <<clock, bucket, granted, backend>>

\* Mutant: no reply is sent.
RespondNever(r) ==
    /\ At(r, "waiting") /\ backend[r] = "done"
    /\ UNCHANGED relayVars

Respond(r) ==
    /\ At(r, "waiting") /\ backend[r] = "done"
    /\ request' = [request EXCEPT ![r].stage = "replying", ![r].reply = "backend"]
    /\ UNCHANGED <<clock, bucket, granted, slots, backend>>

\* The rest of the reply is sent, or the browser has gone: the connection is closed
\* and no second status line is sent.
Conclude(r) ==
    /\ At(r, "replying")
    /\ \E reply \in {"backend", "broken"} : Close(r, reply)
    /\ Release(r)
    /\ UNCHANGED <<clock, bucket, granted, backend>>

Serve(r) ==
    \/ Permit(r) \/ Acquire(r) \/ Admit(r) \/ Login(r) \/ NotForwarded(r) \/ Forward(r)
    \/ GiveUp(r) \/ Respond(r) \/ Conclude(r)

RelayNext == Tick \/ \E r \in Requests : Serve(r) \/ Answer(r)

RelaySpec == RelayInit /\ [][RelayNext]_relayVars

\* Every thread goes on, since each of its waits has a time limit.
RelayFairSpec == RelaySpec /\ \A r \in Requests : WF_relayVars(Serve(r))

-----------------------------------------------------------------------------
(* Properties                                                              *)

\* A bucket holds at most the burst and never less than nothing, and was last filled in
\* the past (action_permitted and its like).
RelayTypeOK ==
    /\ clock \in Nat
    /\ bucket \in [Kinds -> [units : Nat, last : Nat]]
    /\ \A k \in Kinds : bucket[k].units <= Full(k) /\ bucket[k].last <= clock
    /\ granted \in [Kinds -> Nat]
    /\ slots \in 0..Slots
    /\ request \in [Requests -> Request]
    /\ backend \in [Requests -> {"idle", "working", "done"}]

\* In any time the relay hands out no more tokens than the burst and the refill of
\* that time allow, however the refusals between them fall.
RateBound == \A k \in Kinds : granted[k] * Cost[k] <= Full(k) + clock

\* The requests whose thread has acquired a slot and not released it yet.
Holding == {r \in Requests : /\ request[r].kind \in Slotted
                             /\ request[r].stage \in {"admitted", "waiting", "replying"}}

\* Every slot is free or held by exactly one thread: it is given back once on every
\* path, or the BoundedSemaphore would raise and the relay would run out of slots.
SlotsConserved == slots + Cardinality(Holding) = Slots

\* Every request is over in the end, and its slot free again, although the
\* application may never answer.
SlotsReturn == \A r \in Requests : At(r, "admitted") ~> At(r, "over")

===============================================================================
