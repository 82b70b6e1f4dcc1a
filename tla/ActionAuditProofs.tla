-------------------------- MODULE ActionAuditProofs --------------------------
(***************************************************************************)
(* The evidence of the actions holds for every set of requests, every size *)
(* of the log, and any number of failing writes, killed processes and      *)
(* replacements of the file.                                               *)
(***************************************************************************)
EXTENDS ActionAudit, SequenceTheorems, TLAPS

-----------------------------------------------------------------------------
(* The invariants                                                          *)

\* What has reached the service has its INTENT on disk.
Intended ==
    /\ \A r \in performed : Written(r)
    /\ \A r \in Requests : At(r, "intended") \/ At(r, "called") => Written(r)

Evident == TypeOK /\ Intended /\ AnswerIsRecorded

\* No request is under way while the application is down.
Resting(r) == request[r].stage \in {"new", "answered", "lost"}

\* The records of a request in the file: none, an INTENT, or an INTENT and its RESULT.
Bare(r) == Positions("INTENT", r) = {} /\ Positions("RESULT", r) = {}
Open(r) == (\E i \in DOMAIN file : Positions("INTENT", r) = {i}) /\ Positions("RESULT", r) = {}
Closed(r) ==
    \E i, k \in DOMAIN file : /\ i < k
                              /\ Positions("INTENT", r) = {i}
                              /\ Positions("RESULT", r) = {k}

\* The file matches what the requests have come to as long as no write failed.
Matched ==
    /\ ~ torn
    /\ \A r \in Requests : IF At(r, "intended") \/ At(r, "called")
                             THEN Open(r) ELSE Bare(r) \/ Closed(r)

Orderly ==
    /\ ~ up => \A r \in Requests : Resting(r)
    /\ \A r \in Requests : At(r, "new") \/ At(r, "authorised") => Bare(r)
    /\ up /\ ~ failed => Matched

-----------------------------------------------------------------------------
(* Records                                                                 *)

\* What do_POST appends are records of the log.
LEMMA EventTypes ==
    ASSUME TypeOK, NEW r \in Requests
    PROVE  /\ Intent(r) \in Event /\ Result(r) \in Event
           /\ Intent(r).phase = "INTENT" /\ Intent(r).id = r
           /\ Result(r).phase = "RESULT" /\ Result(r).id = r
  BY DEF TypeOK, Intent, Result, Event, Request, Results

\* An append adds its record, and forgets none.
LEMMA AppendRecords ==
    ASSUME TypeOK, NEW e \in Event, Len(file) < MaxRecords, file' = Append(file, e), archive' = archive
    PROVE  /\ Recorded' = Recorded \cup {e}
           /\ file' \in Seq(Event) /\ Len(file') <= MaxRecords
<1>1. file \in Seq(Event) /\ Len(file) \in Nat /\ MaxRecords \in Nat
  BY BoundAssumption DEF TypeOK
<1>2. /\ file' \in Seq(Event) /\ Len(file') = Len(file) + 1
      /\ \A i \in 1..Len(file') : file'[i] = IF i <= Len(file) THEN file[i] ELSE e
  BY <1>1, AppendProperties
<1>3. DOMAIN file = 1..Len(file) /\ DOMAIN file' = 1..Len(file')
  BY <1>1, <1>2, LenProperties
<1>4. ToSet(file') = ToSet(file) \cup {e}
  <2>1. \A x \in ToSet(file') : x \in ToSet(file) \cup {e}
    BY <1>1, <1>2, <1>3 DEF ToSet
  <2>2. \A x \in ToSet(file) : x \in ToSet(file')
    BY <1>1, <1>2, <1>3 DEF ToSet
  <2>3. e \in ToSet(file')
    <3>1. Len(file) + 1 \in DOMAIN file' /\ file'[Len(file) + 1] = e
      BY <1>1, <1>2, <1>3
    <3> QED
      BY <3>1 DEF ToSet
  <2> QED
    BY <2>1, <2>2, <2>3
<1> QED
  BY <1>1, <1>2, <1>4 DEF Recorded

\* Where a record is found after an append.
LEMMA AppendPositions ==
    ASSUME TypeOK, NEW e \in Event, file' = Append(file, e), NEW phase, NEW r
    PROVE  /\ e.phase = phase /\ e.id = r
                  => Positions(phase, r)' = Positions(phase, r) \cup {Len(file) + 1}
           /\ e.phase # phase \/ e.id # r => Positions(phase, r)' = Positions(phase, r)
           /\ DOMAIN file' = 1..(Len(file) + 1)
           /\ DOMAIN file = 1..Len(file) /\ Len(file) \in Nat
<1>1. file \in Seq(Event) /\ Len(file) \in Nat
  BY DEF TypeOK
<1>2. /\ file' \in Seq(Event) /\ Len(file') = Len(file) + 1
      /\ \A i \in 1..Len(file') : file'[i] = IF i <= Len(file) THEN file[i] ELSE e
  BY <1>1, AppendProperties
<1>3. DOMAIN file = 1..Len(file) /\ DOMAIN file' = 1..Len(file')
  BY <1>1, <1>2, LenProperties
<1>4. \A i \in 1..Len(file) : i \in 1..Len(file') /\ file'[i] = file[i]
  BY <1>1, <1>2
<1>5. Len(file) + 1 \in 1..Len(file') /\ file'[Len(file) + 1] = e
  BY <1>1, <1>2
<1>6. 1..Len(file') = 1..Len(file) \cup {Len(file) + 1}
  BY <1>1, <1>2
<1>7. Positions(phase, r)' = {i \in 1..Len(file') : file'[i].phase = phase /\ file'[i].id = r}
  BY <1>3 DEF Positions
<1>8. Positions(phase, r) = {i \in 1..Len(file) : file[i].phase = phase /\ file[i].id = r}
  BY <1>3 DEF Positions
<1> QED
  BY <1>1, <1>2, <1>3, <1>4, <1>5, <1>6, <1>7, <1>8

-----------------------------------------------------------------------------
(* Steps                                                                   *)

\* What was recorded stays recorded.
LEMMA RecordsStay ==
    ASSUME TypeOK, [Next]_vars
    PROVE  Recorded \subseteq Recorded'
<1>1. ASSUME NEW e \in Event, Len(file) < MaxRecords, FailedAppend(e)
      PROVE  Recorded \subseteq Recorded'
  <2>1. archive' = archive
    BY <1>1 DEF FailedAppend
  <2>2. CASE file' = file
    BY <2>1, <2>2 DEF Recorded
  <2>3. CASE file' = Append(file, e)
    BY <1>1, <2>1, <2>3, AppendRecords
  <2> QED
    BY <1>1, <2>2, <2>3 DEF FailedAppend
<1>2. ASSUME NEW e \in Event, Len(file) < MaxRecords, Appended(e)
      PROVE  Recorded \subseteq Recorded'
  BY <1>2, AppendRecords DEF Appended
<1>3. ASSUME NEW r \in Requests, RecordIntent(r) \/ RecordResult(r) PROVE Recorded \subseteq Recorded'
  BY <1>2, <1>3, EventTypes DEF RecordIntent, RecordResult, Appends
<1>4. ASSUME NEW r \in Requests, IntentFails(r) \/ ResultFails(r) PROVE Recorded \subseteq Recorded'
  BY <1>1, <1>4, EventTypes DEF IntentFails, ResultFails, Appends
<1>5. ASSUME Crash PROVE Recorded \subseteq Recorded'
  <2>1. CASE UNCHANGED log
    BY <2>1 DEF log, Recorded
  <2>2. CASE \E r \in Requests : /\ Appends(r)
                                 /\ FailedAppend(IF At(r, "authorised") THEN Intent(r) ELSE Result(r))
    BY <1>1, <2>2, EventTypes DEF Appends
  <2> QED
    BY <1>5, <2>1, <2>2 DEF Crash
<1>6. ASSUME Reconcile PROVE Recorded \subseteq Recorded'
  BY <1>6 DEF Reconcile, Recorded
<1>7. CASE UNCHANGED <<file, archive>>
  BY <1>7 DEF Recorded
<1> QED
  BY <1>3, <1>4, <1>5, <1>6, <1>7
     DEF Next, Serve, Authorise, RefuseIntent, CallService, RefuseResult, Restart, StopService,
         Replace, vars, log

\* A request that goes on, or is answered, keeps its operation and its outcome.
LEMMA RequestMoves ==
    ASSUME TypeOK, NEW r \in Requests,
           \/ \E s \in Stages : Move(r, s)
           \/ \E reply \in Results \cup {"none", "audit_write_failed"} : AnswerTo(r, reply)
    PROVE  /\ request' \in [Requests -> Request]
           /\ request'[r].outcome = request[r].outcome
           /\ \A u \in Requests \ {r} : request'[u] = request[u]
           /\ \A s : Move(r, s) => request'[r].stage = s /\ request'[r].reply = request[r].reply
           /\ \A reply : AnswerTo(r, reply) =>
                  request'[r].stage = "answered" /\ request'[r].reply = reply
  BY DEF TypeOK, Move, AnswerTo, Request, Stages

\* The evidence stays complete when one request moves and what it has come to is recorded.
LEMMA EvidenceKept ==
    ASSUME Intended, AnswerIsRecorded, Recorded \subseteq Recorded', NEW r \in Requests,
           \A u \in Requests \ {r} : request'[u] = request[u],
           performed' \subseteq performed \cup {r},
           r \in performed' \/ request'[r].stage \in {"intended", "called"} => Intent(r) \in Recorded',
           request'[r].stage = "answered" /\ request'[r].reply # "audit_write_failed"
               => Intent(r) \in Recorded' /\ Result(r)' \in Recorded'
    PROVE  Intended' /\ AnswerIsRecorded'
<1>1. Intended'
  BY DEF Intended, Written, Intent, At
<1>2. \A u \in Requests \ {r} : Result(u)' = Result(u)
  BY DEF Result
<1>3. AnswerIsRecorded'
  BY <1>2 DEF AnswerIsRecorded, At, Intent
<1> QED
  BY <1>1, <1>3

\* So it does when nothing moves.
LEMMA EvidenceStays ==
    ASSUME Intended, AnswerIsRecorded, Recorded \subseteq Recorded', UNCHANGED <<request, performed>>
    PROVE  Intended' /\ AnswerIsRecorded'
  BY DEF Intended, AnswerIsRecorded, Written, Intent, Result, At

\* A failing append leaves a log.
LEMMA FailedAppendTypes ==
    ASSUME TypeOK, NEW e \in Event, Len(file) < MaxRecords, FailedAppend(e)
    PROVE  /\ file' \in Seq(Event) /\ Len(file') <= MaxRecords
           /\ torn' \in BOOLEAN /\ foreign' \in BOOLEAN /\ archive' \subseteq Event
<1>1. /\ file \in Seq(Event) /\ Len(file) <= MaxRecords /\ torn \in BOOLEAN
      /\ foreign' \in BOOLEAN /\ archive' = archive /\ archive \subseteq Event
  BY DEF TypeOK, FailedAppend
<1>2. file' = Append(file, e) => file' \in Seq(Event) /\ Len(file') <= MaxRecords
  BY <1>1, AppendRecords
<1> QED
  BY <1>1, <1>2 DEF FailedAppend

\* At the start nothing is recorded and nothing performed.
LEMMA InitEvident == Init => Evident
<1> SUFFICES ASSUME Init PROVE Evident
  OBVIOUS
<1>1. file \in Seq(Event) /\ Len(file) <= MaxRecords
  BY EmptySeq, BoundAssumption DEF Init
<1>2. request \in [Requests -> Request] /\ \A r \in Requests : request[r].stage = "new"
  BY DEF Init, Request, Stages
<1>3. torn \in BOOLEAN /\ foreign \in BOOLEAN /\ up \in BOOLEAN /\ failed \in BOOLEAN
  BY Zenon DEF Init
<1>4. faults \in 0..MaxFaults /\ crashes \in 0..MaxCrashes /\ replaced \in 0..MaxReplaced
  BY BoundAssumption DEF Init
<1>5. archive = {} /\ performed = {}
  BY DEF Init
<1>6. TypeOK
  BY <1>1, <1>2, <1>3, <1>4, <1>5 DEF TypeOK
<1> QED
  BY <1>2, <1>5, <1>6 DEF Evident, Intended, AnswerIsRecorded, At

\* Every step keeps the evidence complete.
LEMMA NextEvident == Evident /\ [Next]_vars => Evident'
<1> SUFFICES ASSUME Evident, [Next]_vars PROVE Evident'
  OBVIOUS
<1> USE DEF Evident
<1>0. Recorded \subseteq Recorded'
  BY RecordsStay
<1> USE BoundAssumption
<1>1. ASSUME NEW r \in Requests, Authorise(r) PROVE Evident'
  <2>1. /\ request' \in [Requests -> Request]
        /\ request'[r].stage = "authorised" /\ request'[r].reply = request[r].reply
        /\ request'[r].outcome = request[r].outcome
        /\ \A u \in Requests \ {r} : request'[u] = request[u]
    BY <1>1, RequestMoves DEF Authorise, Stages
  <2>2. r \notin performed \/ Intent(r) \in Recorded
    BY DEF Intended, Written
  <2>3. Intended' /\ AnswerIsRecorded'
    BY <1>0, <1>1, <2>1, <2>2, EvidenceKept DEF Authorise
  <2> QED
    BY <1>1, <2>1, <2>3 DEF Authorise, TypeOK, log, budget
<1>2. ASSUME NEW r \in Requests, RecordIntent(r) PROVE Evident'
  <2>1. /\ request' \in [Requests -> Request]
        /\ request'[r].stage = "intended" /\ request'[r].reply = request[r].reply
        /\ request'[r].outcome = request[r].outcome
        /\ \A u \in Requests \ {r} : request'[u] = request[u]
    BY <1>2, RequestMoves DEF RecordIntent, Stages
  <2>2. Intent(r) \in Recorded'
        /\ file' \in Seq(Event) /\ Len(file') <= MaxRecords
    BY <1>2, EventTypes, AppendRecords DEF RecordIntent, Appends, Appended
  <2>3. Intended' /\ AnswerIsRecorded'
    BY <1>0, <1>2, <2>1, <2>2, EvidenceKept DEF RecordIntent
  <2> QED
    BY <1>2, <2>1, <2>2, <2>3 DEF RecordIntent, Appended, TypeOK, log, budget
<1>3. ASSUME NEW r \in Requests, RefuseIntent(r) PROVE Evident'
  <2>1. /\ request' \in [Requests -> Request]
        /\ request'[r].stage = "answered" /\ request'[r].reply = "audit_write_failed"
        /\ request'[r].outcome = request[r].outcome
        /\ \A u \in Requests \ {r} : request'[u] = request[u]
    BY <1>3, RequestMoves DEF RefuseIntent
  <2>2. r \notin performed \/ Intent(r) \in Recorded
    BY DEF Intended, Written
  <2>3. Intended' /\ AnswerIsRecorded'
    BY <1>0, <1>3, <2>1, <2>2, EvidenceKept DEF RefuseIntent
  <2> QED
    BY <1>3, <2>1, <2>3 DEF RefuseIntent, TypeOK, log, budget
<1>4. ASSUME NEW r \in Requests, IntentFails(r) PROVE Evident'
  <2>1. /\ request' \in [Requests -> Request]
        /\ request'[r].stage = "answered" /\ request'[r].reply = "audit_write_failed"
        /\ request'[r].outcome = request[r].outcome
        /\ \A u \in Requests \ {r} : request'[u] = request[u]
    BY <1>4, RequestMoves DEF IntentFails
  <2>2. r \notin performed \/ Intent(r) \in Recorded
    BY DEF Intended, Written
  <2>3. Intended' /\ AnswerIsRecorded'
    BY <1>0, <1>4, <2>1, <2>2, EvidenceKept DEF IntentFails
  <2>4. /\ file' \in Seq(Event) /\ Len(file') <= MaxRecords
        /\ torn' \in BOOLEAN /\ foreign' \in BOOLEAN /\ archive' \subseteq Event
    BY <1>4, EventTypes, FailedAppendTypes DEF IntentFails, Appends
  <2> QED
    BY <1>4, <2>1, <2>3, <2>4 DEF IntentFails, Fault, TypeOK, log, budget
<1>5. ASSUME NEW r \in Requests, CallService(r) PROVE Evident'
  <2>1. PICK outcome \in Results :
            /\ request' = [request EXCEPT ![r].stage = "called", ![r].outcome = outcome]
            /\ performed' \in CASE outcome = "OK" -> {performed \cup {r}}
                                [] outcome = "conflict" -> {performed}
                                [] OTHER -> {performed, performed \cup {r}}
    BY <1>5 DEF CallService
  <2>2. /\ request' \in [Requests -> Request] /\ request'[r].stage = "called"
        /\ \A u \in Requests \ {r} : request'[u] = request[u]
    BY <2>1 DEF TypeOK, Request, Stages
  <2>3. performed' \subseteq performed \cup {r}
    BY <2>1
  <2>4. Intent(r) \in Recorded'
    BY <1>0, <1>5 DEF CallService, Intended, Written
  <2>5. Intended' /\ AnswerIsRecorded'
    BY <1>0, <2>2, <2>3, <2>4, EvidenceKept
  <2> QED
    BY <1>5, <2>2, <2>3, <2>5 DEF CallService, TypeOK, log, budget
<1>6. ASSUME NEW r \in Requests, RecordResult(r) PROVE Evident'
  <2>1. /\ request' \in [Requests -> Request]
        /\ request'[r].stage = "answered" /\ request'[r].reply = request[r].outcome
        /\ request'[r].outcome = request[r].outcome
        /\ \A u \in Requests \ {r} : request'[u] = request[u]
    <3>1. request[r].outcome \in Results \cup {"none", "audit_write_failed"}
      BY DEF TypeOK, Request
    <3> QED
      BY <1>6, <3>1, RequestMoves DEF RecordResult
  <2>2. /\ Result(r) \in Recorded'
        /\ file' \in Seq(Event) /\ Len(file') <= MaxRecords
    BY <1>6, EventTypes, AppendRecords DEF RecordResult, Appends, Appended
  <2>3. Intent(r) \in Recorded' /\ Result(r)' = Result(r)
    BY <1>0, <1>6, <2>1 DEF RecordResult, Intended, Written, Result
  <2>4. Intended' /\ AnswerIsRecorded'
    BY <1>0, <1>6, <2>1, <2>2, <2>3, EvidenceKept DEF RecordResult
  <2> QED
    BY <1>6, <2>1, <2>2, <2>4 DEF RecordResult, Appended, TypeOK, log, budget
<1>7. ASSUME NEW r \in Requests, RefuseResult(r) PROVE Evident'
  <2>1. /\ request' \in [Requests -> Request]
        /\ request'[r].stage = "answered" /\ request'[r].reply = "audit_write_failed"
        /\ request'[r].outcome = request[r].outcome
        /\ \A u \in Requests \ {r} : request'[u] = request[u]
    BY <1>7, RequestMoves DEF RefuseResult
  <2>2. r \notin performed \/ Intent(r) \in Recorded
    BY DEF Intended, Written
  <2>3. Intended' /\ AnswerIsRecorded'
    BY <1>0, <1>7, <2>1, <2>2, EvidenceKept DEF RefuseResult
  <2> QED
    BY <1>7, <2>1, <2>3 DEF RefuseResult, TypeOK, log, budget
<1>8. ASSUME NEW r \in Requests, ResultFails(r) PROVE Evident'
  <2>1. /\ request' \in [Requests -> Request]
        /\ request'[r].stage = "answered" /\ request'[r].reply = "audit_write_failed"
        /\ request'[r].outcome = request[r].outcome
        /\ \A u \in Requests \ {r} : request'[u] = request[u]
    BY <1>8, RequestMoves DEF ResultFails
  <2>2. r \notin performed \/ Intent(r) \in Recorded
    BY DEF Intended, Written
  <2>3. Intended' /\ AnswerIsRecorded'
    BY <1>0, <1>8, <2>1, <2>2, EvidenceKept DEF ResultFails
  <2>4. /\ file' \in Seq(Event) /\ Len(file') <= MaxRecords
        /\ torn' \in BOOLEAN /\ foreign' \in BOOLEAN /\ archive' \subseteq Event
    BY <1>8, EventTypes, FailedAppendTypes DEF ResultFails, Appends
  <2> QED
    BY <1>8, <2>1, <2>3, <2>4 DEF ResultFails, Fault, TypeOK, log, budget
<1>9. ASSUME Crash PROVE Evident'
  <2>1. /\ request' \in [Requests -> Request]
        /\ \A r \in Requests : IF Resting(r) THEN request'[r] = request[r]
                                            ELSE request'[r].stage = "lost"
    BY <1>9 DEF Crash, Resting, TypeOK, Request, Stages
  <2>2. \A r \in performed' : r \in performed \/ (r \in Requests /\ At(r, "intended"))
    BY <1>9 DEF Crash
  <2>3. Intended'
    BY <1>0, <2>1, <2>2 DEF Intended, Written, Intent, At, Resting
  <2>4. \A r \in Requests : Resting(r) => Result(r)' = Result(r)
    BY <2>1 DEF Result
  <2>5. AnswerIsRecorded'
    BY <1>0, <2>1, <2>4 DEF AnswerIsRecorded, At, Resting, Intent
  <2>6. /\ file' \in Seq(Event) /\ Len(file') <= MaxRecords
        /\ torn' \in BOOLEAN /\ foreign' \in BOOLEAN /\ archive' \subseteq Event
    <3>1. CASE UNCHANGED log
      BY <3>1 DEF log, TypeOK
    <3>2. CASE \E r \in Requests :
                  /\ Appends(r)
                  /\ FailedAppend(IF At(r, "authorised") THEN Intent(r) ELSE Result(r))
      BY <3>2, EventTypes, FailedAppendTypes DEF Appends
    <3> QED
      BY <1>9, <3>1, <3>2 DEF Crash
  <2>7. performed' \subseteq Requests
    BY <2>2 DEF TypeOK
  <2>8. up' \in BOOLEAN /\ failed' \in BOOLEAN
    BY <1>9, Zenon DEF Crash, TypeOK
  <2>9. /\ faults' \in 0..MaxFaults /\ replaced' \in 0..MaxReplaced
        /\ crashes' \in 0..MaxCrashes
    BY <1>9 DEF Crash, TypeOK
  <2> QED
    BY <2>1, <2>3, <2>5, <2>6, <2>7, <2>8, <2>9 DEF TypeOK
<1>10. ASSUME Restart PROVE Evident'
  <2>1. Intended' /\ AnswerIsRecorded'
    BY <1>0, <1>10, EvidenceStays DEF Restart
  <2> QED
    BY <1>10, <2>1 DEF Restart, TypeOK, log, budget
<1>12. ASSUME StopService PROVE Evident'
  <2>1. Intended' /\ AnswerIsRecorded'
    BY <1>0, <1>12, EvidenceStays DEF StopService
  <2> QED
    BY <1>12, <2>1 DEF StopService, TypeOK, log, budget
<1>13. ASSUME Replace PROVE Evident'
  <2>1. Intended' /\ AnswerIsRecorded'
    BY <1>0, <1>13, EvidenceStays DEF Replace
  <2> QED
    BY <1>13, <2>1 DEF Replace, TypeOK, log, budget
<1>11. ASSUME Reconcile PROVE Evident'
  <2>1. Intended' /\ AnswerIsRecorded'
    BY <1>0, <1>11, EvidenceStays DEF Reconcile
  <2>2. /\ file' \in Seq(Event) /\ Len(file') <= MaxRecords /\ archive' \subseteq Event
    <3>1. ToSet(file) \subseteq Event
      BY ElementOfSeq, LenProperties DEF TypeOK, ToSet
    <3> QED
      BY <1>11, <3>1, EmptySeq DEF Reconcile, Recorded, TypeOK
  <2> QED
    BY <1>11, <2>1, <2>2 DEF Reconcile, TypeOK, log, budget
<1>14. ASSUME UNCHANGED vars PROVE Evident'
  <2>1. Intended' /\ AnswerIsRecorded'
    BY <1>0, <1>14, EvidenceStays DEF vars
  <2> QED
    BY <1>14, <2>1 DEF vars, TypeOK, log, budget
<1> QED
  BY <1>1, <1>2, <1>3, <1>4, <1>5, <1>6, <1>7, <1>8, <1>9, <1>10, <1>11, <1>12, <1>13, <1>14
     DEF Next, Serve

\* Whatever was changed through the console has its INTENT on disk, through crashes and
\* overlapping requests (do_POST writes it before it calls the lifecycle service).
THEOREM NothingUnintended == Spec => []PerformedIsIntended
<1>1. Evident => PerformedIsIntended
  BY DEF Evident, Intended, PerformedIsIntended
<1> QED
  BY <1>1, InitEvident, NextEvident, PTL DEF Spec

\* Whoever was told a result of the service finds it on disk (do_POST answers with it
\* only after record_result has returned).
THEOREM AnswersRecorded == Spec => []AnswerIsRecorded
<1>1. Evident => AnswerIsRecorded
  BY DEF Evident
<1> QED
  BY <1>1, InitEvident, NextEvident, PTL DEF Spec

-----------------------------------------------------------------------------
(* A log that can be opened again                                           *)

\* The records of a request stay what they are when none of its own is added.
LEMMA OthersKept ==
    ASSUME TypeOK, NEW u \in Requests,
           \/ file' = file
           \/ \E e \in Event : e.id # u /\ file' = Append(file, e)
    PROVE  /\ Bare(u) => Bare(u)'
           /\ Open(u) => Open(u)'
           /\ Closed(u) => Closed(u)'
<1>1. /\ Positions("INTENT", u)' = Positions("INTENT", u)
      /\ Positions("RESULT", u)' = Positions("RESULT", u)
      /\ DOMAIN file \subseteq DOMAIN file'
  <2>1. CASE file' = file
    BY <2>1 DEF Positions
  <2>2. ASSUME NEW e \in Event, e.id # u, file' = Append(file, e)
        PROVE  /\ Positions("INTENT", u)' = Positions("INTENT", u)
               /\ Positions("RESULT", u)' = Positions("RESULT", u)
               /\ DOMAIN file \subseteq DOMAIN file'
    <3>1. /\ Positions("INTENT", u)' = Positions("INTENT", u)
          /\ Positions("RESULT", u)' = Positions("RESULT", u)
      BY <2>2, AppendPositions
    <3>2. /\ DOMAIN file' = 1..(Len(file) + 1) /\ DOMAIN file = 1..Len(file)
          /\ Len(file) \in Nat
      BY <2>2, AppendPositions
    <3> QED
      BY <3>1, <3>2
  <2> QED
    BY <2>1, <2>2
<1> QED
  BY <1>1 DEF Bare, Open, Closed

\* An INTENT opens the evidence of a request that has none.
LEMMA IntentOpens ==
    ASSUME TypeOK, NEW r \in Requests, Bare(r), file' = Append(file, Intent(r))
    PROVE  Open(r)'
<1>1. Intent(r) \in Event /\ Intent(r).phase = "INTENT" /\ Intent(r).id = r
  BY EventTypes
<1>2. /\ Positions("INTENT", r)' = {Len(file) + 1} /\ Positions("RESULT", r)' = {}
      /\ Len(file) + 1 \in DOMAIN file'
  BY <1>1, AppendPositions DEF Bare
<1> QED
  BY <1>2 DEF Open

\* A RESULT closes it.
LEMMA ResultCloses ==
    ASSUME TypeOK, NEW r \in Requests, Open(r), file' = Append(file, Result(r))
    PROVE  Closed(r)'
<1>1. Result(r) \in Event /\ Result(r).phase = "RESULT" /\ Result(r).id = r
  BY EventTypes
<1>2. PICK i \in DOMAIN file : Positions("INTENT", r) = {i}
  BY DEF Open
<1>3. /\ Positions("INTENT", r)' = {i} /\ Positions("RESULT", r)' = {Len(file) + 1}
      /\ DOMAIN file' = 1..(Len(file) + 1) /\ i \in 1..Len(file) /\ Len(file) \in Nat
  BY <1>1, <1>2, AppendPositions DEF Open
<1>4. i \in DOMAIN file' /\ Len(file) + 1 \in DOMAIN file' /\ i < Len(file) + 1
  BY <1>3
<1> QED
  BY <1>3, <1>4 DEF Closed

\* A failing append writes a record of its own request or none.
LEMMA FailedAppendKeeps ==
    ASSUME TypeOK, NEW e \in Event, FailedAppend(e), NEW u \in Requests, u # e.id, Bare(u)
    PROVE  Bare(u)'
  BY OthersKept DEF FailedAppend

\* The invariant of a log that can be opened again.
Regular == TypeOK /\ Orderly

\* At the start the file is empty.
LEMMA InitOrderly == Init => Orderly
  BY DEF Init, Orderly, Matched, Bare, Positions, Resting, At

\* Every step keeps the file in order while no write failed.
LEMMA NextOrderly == Regular /\ [Next]_vars => Orderly'
<1> SUFFICES ASSUME Regular, [Next]_vars PROVE Orderly'
  OBVIOUS
<1> USE DEF Regular
<1>0. /\ \A r \in Requests : At(r, "new") \/ At(r, "authorised") => Bare(r)
      /\ up /\ ~ failed => Matched
  BY DEF Orderly
<1>1. ASSUME NEW r \in Requests, Authorise(r) PROVE Orderly'
  <2>1. /\ request'[r].stage = "authorised"
        /\ \A u \in Requests \ {r} : request'[u] = request[u]
    BY <1>1, RequestMoves DEF Authorise, Stages
  <2>2. \A u \in Requests : /\ Bare(u) => Bare(u)'
                            /\ Open(u) => Open(u)'
                            /\ Closed(u) => Closed(u)'
    BY <1>1, OthersKept DEF Authorise, log
  <2> QED
    BY <1>0, <1>1, <2>1, <2>2 DEF Authorise, log, Orderly, Matched, At
<1>2. ASSUME NEW r \in Requests, RecordIntent(r) PROVE Orderly'
  <2>1. /\ request'[r].stage = "intended"
        /\ \A u \in Requests \ {r} : request'[u] = request[u]
    BY <1>2, RequestMoves DEF RecordIntent, Stages
  <2>2. /\ ~ failed /\ up' /\ torn' = torn /\ Bare(r) /\ file' = Append(file, Intent(r))
    BY <1>0, <1>2 DEF RecordIntent, Appends, Appended
  <2>3. Open(r)'
    BY <2>2, IntentOpens
  <2>4. \A u \in Requests \ {r} : /\ Bare(u) => Bare(u)'
                                  /\ Open(u) => Open(u)'
                                  /\ Closed(u) => Closed(u)'
    BY <2>2, OthersKept, EventTypes
  <2>5. Matched
    BY <1>0, <1>2, <2>2 DEF RecordIntent
  <2> QED
    BY <1>0, <2>1, <2>2, <2>3, <2>4, <2>5 DEF Orderly, Matched, At
<1>3. ASSUME NEW r \in Requests, RefuseIntent(r) PROVE Orderly'
  <2>1. /\ request'[r].stage = "answered"
        /\ \A u \in Requests \ {r} : request'[u] = request[u]
    BY <1>3, RequestMoves DEF RefuseIntent
  <2>2. \A u \in Requests : Bare(u) => Bare(u)'
    BY <1>3, OthersKept DEF RefuseIntent, log
  <2> QED
    BY <1>0, <1>3, <2>1, <2>2 DEF RefuseIntent, Orderly, At
<1>4. ASSUME NEW r \in Requests, IntentFails(r) PROVE Orderly'
  <2>1. /\ request'[r].stage = "answered"
        /\ \A u \in Requests \ {r} : request'[u] = request[u]
    BY <1>4, RequestMoves DEF IntentFails
  <2>2. \A u \in Requests \ {r} : Bare(u) => Bare(u)'
    BY <1>4, EventTypes, FailedAppendKeeps DEF IntentFails
  <2> QED
    BY <1>0, <1>4, <2>1, <2>2 DEF IntentFails, Orderly, At
<1>5. ASSUME NEW r \in Requests, CallService(r) PROVE Orderly'
  <2>1. /\ request'[r].stage = "called"
        /\ \A u \in Requests \ {r} : request'[u] = request[u]
    BY <1>5 DEF CallService, TypeOK
  <2>2. \A u \in Requests : /\ Bare(u) => Bare(u)'
                            /\ Open(u) => Open(u)'
                            /\ Closed(u) => Closed(u)'
    BY <1>5, OthersKept DEF CallService, log
  <2> QED
    BY <1>0, <1>5, <2>1, <2>2 DEF CallService, log, Orderly, Matched, At
<1>6. ASSUME NEW r \in Requests, RecordResult(r) PROVE Orderly'
  <2>1. /\ request'[r].stage = "answered"
        /\ \A u \in Requests \ {r} : request'[u] = request[u]
    <3>1. request[r].outcome \in Results \cup {"none", "audit_write_failed"}
      BY DEF TypeOK, Request
    <3> QED
      BY <1>6, <3>1, RequestMoves DEF RecordResult
  <2>2. /\ ~ failed /\ up' /\ torn' = torn /\ file' = Append(file, Result(r))
    BY <1>6 DEF RecordResult, Appends, Appended
  <2>3. Matched /\ Open(r)
    BY <1>0, <1>6, <2>2 DEF RecordResult, Matched
  <2>4. Closed(r)'
    BY <2>2, <2>3, ResultCloses
  <2>5. \A u \in Requests \ {r} : /\ Bare(u) => Bare(u)'
                                  /\ Open(u) => Open(u)'
                                  /\ Closed(u) => Closed(u)'
    BY <2>2, OthersKept, EventTypes
  <2> QED
    BY <1>0, <2>1, <2>2, <2>3, <2>4, <2>5 DEF Orderly, Matched, At
<1>7. ASSUME NEW r \in Requests, RefuseResult(r) PROVE Orderly'
  <2>1. /\ request'[r].stage = "answered"
        /\ \A u \in Requests \ {r} : request'[u] = request[u]
    BY <1>7, RequestMoves DEF RefuseResult
  <2>2. \A u \in Requests : Bare(u) => Bare(u)'
    BY <1>7, OthersKept DEF RefuseResult, log
  <2> QED
    BY <1>0, <1>7, <2>1, <2>2 DEF RefuseResult, Orderly, At
<1>8. ASSUME NEW r \in Requests, ResultFails(r) PROVE Orderly'
  <2>1. /\ request'[r].stage = "answered"
        /\ \A u \in Requests \ {r} : request'[u] = request[u]
    BY <1>8, RequestMoves DEF ResultFails
  <2>2. \A u \in Requests \ {r} : Bare(u) => Bare(u)'
    BY <1>8, EventTypes, FailedAppendKeeps DEF ResultFails
  <2> QED
    BY <1>0, <1>8, <2>1, <2>2 DEF ResultFails, Orderly, At
<1>9. ASSUME Crash PROVE Orderly'
  <2>1. \A u \in Requests : request'[u] = IF Resting(u) THEN request[u]
                                       ELSE [request[u] EXCEPT !.stage = "lost"]
    BY <1>9 DEF Crash, Resting
  <2>2. ASSUME NEW u \in Requests
        PROVE  Resting(u)' /\ (At(u, "new")' => At(u, "new")) /\ ~At(u, "authorised")'
    <3>1. CASE Resting(u)
      BY <2>1, <3>1 DEF Resting, At
    <3>2. CASE ~ Resting(u)
      <4>1. request'[u] = [request[u] EXCEPT !.stage = "lost"] /\ request[u] \in Request
        BY <1>0, <2>1, <3>2 DEF TypeOK
      <4>2. request'[u].stage = "lost"
        BY <4>1 DEF Request
      <4> QED BY <4>2 DEF Resting, At
    <3> QED BY <3>1, <3>2
  <2>3. \A u \in Requests : At(u, "new") /\ Bare(u) => Bare(u)'
    <3>1. CASE UNCHANGED log
      BY <3>1, OthersKept DEF log
    <3>2. ASSUME NEW r \in Requests, At(r, "authorised") \/ At(r, "called"),
                 FailedAppend(IF At(r, "authorised") THEN Intent(r) ELSE Result(r))
          PROVE  \A u \in Requests : At(u, "new") /\ Bare(u) => Bare(u)'
      <4>1. \A u \in Requests : At(u, "new") => u # r
        BY <3>2 DEF At
      <4> QED
        BY <3>2, <4>1, EventTypes, FailedAppendKeeps
    <3> QED
      BY <1>9, <3>1, <3>2 DEF Crash
  <2>4. ~ up'
    BY <1>9 DEF Crash
  <2> QED
    BY <1>0, <2>2, <2>3, <2>4 DEF Orderly
<1>10. ASSUME Restart PROVE Orderly'
  <2>1. \A u \in Requests : /\ Bare(u) => Bare(u)'
                            /\ Open(u) => Open(u)'
                            /\ Closed(u) => Closed(u)'
    BY <1>10, OthersKept DEF Restart
  <2>2. ~ torn /\ \A u \in Requests : (Bare(u) \/ Closed(u)) /\ Resting(u)
    BY <1>10 DEF Restart, Opens, Bare, Closed, Orderly
  <2> QED
    BY <1>0, <1>10, <2>1, <2>2 DEF Restart, Resting, Orderly, Matched, At
<1>11. ASSUME Reconcile PROVE Orderly'
  <2>1. \A u \in Requests : Bare(u)'
    BY <1>11 DEF Reconcile, Bare, Positions
  <2> QED
    BY <1>11, <2>1 DEF Reconcile, Orderly, Resting
<1>12. ASSUME StopService PROVE Orderly'
  <2>1. \A u \in Requests : /\ Bare(u) => Bare(u)'
                            /\ Open(u) => Open(u)'
                            /\ Closed(u) => Closed(u)'
    BY <1>12, OthersKept DEF StopService, log
  <2> QED
    BY <1>0, <1>12, <2>1 DEF StopService, Resting, Orderly, At
<1>13. ASSUME Replace PROVE Orderly'
  <2>1. \A u \in Requests : /\ Bare(u) => Bare(u)'
                            /\ Open(u) => Open(u)'
                            /\ Closed(u) => Closed(u)'
    BY <1>13, OthersKept DEF Replace
  <2> QED
    BY <1>0, <1>13, <2>1 DEF Replace, Orderly, Matched, At
<1>14. ASSUME UNCHANGED vars PROVE Orderly'
  <2>1. \A u \in Requests : /\ Bare(u) => Bare(u)'
                            /\ Open(u) => Open(u)'
                            /\ Closed(u) => Closed(u)'
    BY <1>14, OthersKept DEF vars, log
  <2> QED
    BY <1>0, <1>14, <2>1 DEF vars, log, Resting, Orderly, Matched, At
<1> QED
  BY <1>1, <1>2, <1>3, <1>4, <1>5, <1>6, <1>7, <1>8, <1>9, <1>10, <1>11, <1>12, <1>13, <1>14
     DEF Next, Serve

\* A process whose writer never failed, and that has answered all it was asked, leaves a
\* log that ActionAuditLog.open accepts.
THEOREM QuietStopReopens == Spec => []ReopensAfterQuietStop
<1>1. Init => Regular
  BY InitEvident, InitOrderly DEF Evident, Regular
<1>2. Evident /\ Regular /\ [Next]_vars => (Evident /\ Regular)'
  BY NextEvident, NextOrderly DEF Evident, Regular
<1>3. Regular => ReopensAfterQuietStop
  <2> SUFFICES ASSUME Regular, up, ~ failed, \A r \in Requests : Resting(r) PROVE Opens
    BY DEF ReopensAfterQuietStop, Resting
  <2>1. ~ torn /\ \A r \in Requests : Bare(r) \/ Closed(r)
    BY DEF Regular, Orderly, Matched, Resting, At
  <2>2. Len(file) <= MaxRecords
    BY DEF Regular, TypeOK
  <2> QED
    BY <2>1, <2>2 DEF Opens, Bare, Closed
<1> QED
  BY <1>1, <1>2, <1>3, InitEvident, PTL DEF Spec

=============================================================================
