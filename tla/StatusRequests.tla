---------------------------- MODULE StatusRequests ----------------------------
(***************************************************************************)
(* The requests for /api/status (awg_cita/app.py, _Handler._status): each  *)
(* looks whether the status audit log is open, calls the SnapshotCollector *)
(* (SnapshotCollector.tla, whose threads these are), has the outcome       *)
(* recorded in the log (awg_cita/audit.py, AuditLog) and then keeps it in  *)
(* the history (awg_cita/history.py) and answers with it.                  *)
(*                                                                         *)
(* The log takes a sample: one record in an interval.  Anything that goes  *)
(* wrong with it closes it until the service restarts, and from then on no *)
(* status is shown.                                                        *)
(***************************************************************************)
EXTENDS SnapshotCollector

CONSTANTS
    Interval,       \* minimum_interval of the log
    HistoryLimit    \* SnapshotHistory's limit, 60 in the code

ASSUME IntervalAssumption == Interval \in Nat \ {0}
ASSUME HistoryAssumption == HistoryLimit \in Nat \ {0}

VARIABLES
    request,    \* where the request that a thread serves is
    records,    \* the times of the records in the log
    failed,     \* AuditLog._failed
    tampered,   \* the file is not the one that the log knows any more
    history     \* SnapshotHistory._records

log == <<records, failed, tampered>>
statusVars == <<vars, request, log, history>>

Steps == {"none", "checked", "collecting", "recording", "keeping"}

Goto(t, step) == request' = [request EXCEPT ![t] = step]
Serving(t, step) == request[t] = step

End(t) == Goto(t, "none") /\ Forget(t)

StatusInit ==
    /\ Init
    /\ request = [t \in Threads |-> "none"]
    /\ records = <<>> /\ failed = FALSE /\ tampered = FALSE
    /\ history = <<>>

-----------------------------------------------------------------------------

\* MaxFlights bounds the requests: each may need a flight of its own.
Preflight(t) ==
    /\ Serving(t, "none")
    /\ Len(flights) + Cardinality({u \in Threads : Serving(u, "checked")}) < MaxFlights
    /\ IF failed \/ tampered
          THEN failed' = TRUE /\ UNCHANGED request
          ELSE Goto(t, "checked") /\ UNCHANGED failed
    /\ UNCHANGED <<vars, records, tampered, history>>

\* The call of the collector returns at once, or goes on with the flight.
Call(t) ==
    /\ Serving(t, "checked")
    /\ \/ Hit(t) /\ Goto(t, "recording")
       \/ (Own(t) \/ Join(t)) /\ Goto(t, "collecting")
    /\ UNCHANGED <<log, history>>

Collect(t) ==
    /\ Serving(t, "collecting")
    /\ \/ Read(t) /\ UNCHANGED request
       \/ (Publish(t) \/ Wake(t)) /\ Goto(t, "recording")
       \/ BreakOff(t) /\ Goto(t, "none")
    /\ UNCHANGED <<log, history>>

\* The time since the last record counts.
Due == \A i \in DOMAIN records : i = Len(records) => clock - records[i] >= Interval

Record(t) ==
    /\ Serving(t, "recording")
    /\ ~ failed /\ ~ tampered
    /\ records' = IF Due THEN Append(records, clock) ELSE records
    /\ Goto(t, "keeping")
    /\ UNCHANGED <<vars, failed, tampered, history>>

\* Mutant: a record that could not be written does not end the request.
RecordFailsQuietly(t) ==
    /\ Serving(t, "recording")
    /\ failed \/ tampered \/ Due
    /\ failed' = TRUE
    /\ Goto(t, "keeping")
    /\ UNCHANGED <<vars, records, tampered, history>>

\* The log is closed, is another file, or cannot be written to: it is full, the
\* write is short, the synchronisation fails, or the data has no safe form.
RecordFails(t) ==
    /\ Serving(t, "recording")
    /\ failed \/ tampered \/ Due
    /\ failed' = TRUE
    /\ End(t)
    /\ UNCHANGED <<records, tampered, history>>

\* The history is a deque of bounded length, which the threads share.
Keep(t) ==
    /\ Serving(t, "keeping")
    /\ LET longer == Append(history, thread[t].answer.ok)
       IN history' = IF Len(longer) > HistoryLimit THEN Tail(longer) ELSE longer
    /\ End(t)
    /\ UNCHANGED log

\* The file is replaced, removed, written to or made readable for others.
Tamper ==
    /\ ~ tampered
    /\ tampered' = TRUE
    /\ UNCHANGED <<vars, request, records, failed, history>>

Pass == Tick /\ UNCHANGED <<request, log, history>>

Serve(t) == Call(t) \/ Collect(t) \/ Record(t) \/ RecordFails(t) \/ Keep(t)

StatusNext ==
    \/ \E t \in Threads : Preflight(t) \/ Serve(t)
    \/ Tamper
    \/ Pass

StatusSpec == StatusInit /\ [][StatusNext]_statusVars

\* A thread that has something to do is scheduled; the command ends in time.
FairStatusSpec == StatusSpec /\ \A t \in Threads : WF_statusVars(Serve(t))

-----------------------------------------------------------------------------

\* Every variable has its type.
StatusTypeOK ==
    /\ TypeOK
    /\ request \in [Threads -> Steps]
    /\ records \in Seq(Time)
    /\ failed \in BOOLEAN /\ tampered \in BOOLEAN
    /\ history \in Seq(BOOLEAN) /\ Len(history) <= HistoryLimit

\* A status enters the history, and is shown, only with evidence: the log has a
\* record that is less than an interval older than the request, even when the log
\* was closed, or its file replaced, between the steps of the request.  And the
\* log only takes samples: its records are an interval apart, however many
\* requests find at the same time that one is due.  (And the state is well typed.)
StatusEvidenced ==
    /\ [](/\ StatusTypeOK
          /\ \A i, j \in DOMAIN records : i < j => records[j] - records[i] >= Interval)
    /\ [][\A t \in Threads :
            Serving(t, "keeping") /\ request'[t] = "none"
              => \E i \in DOMAIN records : thread[t].asked < records[i] + Interval]_statusVars

\* Every request is answered or breaks off, also when the thread that collects
\* for it breaks off or the log closes meanwhile.
RequestsEnd == \A t \in Threads : []<>Serving(t, "none")

=============================================================================
