-------------------------- MODULE LifecycleService --------------------------
(***************************************************************************)
(* The lifecycle domain of one profile (awg_cita/lifecycle.py): request    *)
(* threads of the HTTP server share one mutation lock, a bounded cache of  *)
(* results by idempotency key, the nonces of creations and a bounded list  *)
(* of deleted clients, all in memory.  They change clients by calling the  *)
(* root helper, here the PeerRegistry that PeerController implements, and  *)
(* the settings of the server and the saved configurations of clients by   *)
(* comparing and replacing them, as SavedFiles does in detail.             *)
(*                                                                         *)
(* A helper may fail, its answer may be lost, and a helper whose call      *)
(* timed out may go on in the background and take effect later: it runs as *)
(* root, and the service cannot be sure to kill it.                        *)
(***************************************************************************)
EXTENDS Integers, Sequences, Functions

CONSTANTS
    Threads,        \* request threads
    Clients,        \* peers; a creation draws a new one
    Existing,       \* the peers at the start
    Nonces,         \* idempotency keys
    Hosts,          \* addresses of the interface's network
    Documents,      \* what is edited: the server's settings, configurations of clients
    Server,         \* the document with the server's settings
    Contents,       \* what they can hold; a revision is a digest of it
    MaxResults,     \* _MAX_IDEMPOTENCY_RESULTS, 256 in the code
    MaxLost,        \* bound: helper calls that fail, lose the answer or time out
    MaxRestarts,    \* bound: restarts of the service
    MaxRequests,    \* bound: requests in all
    NoThread, NoClient

ASSUME ClientsAssumption == Existing \subseteq Clients /\ NoClient \notin Clients
ASSUME DocumentsAssumption == Server \notin Clients /\ Documents \subseteq Clients \cup {Server}
ASSUME ThreadsAssumption == NoThread \notin Threads
ASSUME BoundAssumption ==
    /\ MaxResults \in Nat \ {0}
    /\ MaxLost \in Nat
    /\ MaxRestarts \in Nat
    /\ MaxRequests \in Nat

VARIABLES
    peers, ledger,  \* the registry behind the helper
    document,       \* the documents behind the helper
    background,     \* helpers that outlived their caller
    mutex,          \* _mutation_lock
    thread,         \* the request that each thread serves, and where it is
    reply,          \* the answer that was given last, for one step
    cache,          \* _idempotency: <<key, request>> of successes, oldest first
    nonces,         \* _create_nonces
    deleted,        \* _deleted_ids, oldest first
    drawn,          \* peers that exist or existed
    unexcused,      \* history: by key, how often the helper carried out a mutation,
                    \* less the causes that it had to do so again
    creates,        \* history: create calls by nonce since the service started
    overtaken,      \* history: a late effect since the lock was last taken
    lost, restarts, requests

registry == <<peers, ledger>>
store == <<registry, document>>
memory == <<cache, nonces, deleted>>
history == <<unexcused, creates, overtaken>>
budget == <<lost, restarts, requests>>
vars == <<store, background, mutex, thread, reply, memory, drawn, history, budget>>

Registry == INSTANCE PeerRegistry WITH
    Keys <- Clients, Protected <- {}, nonces <- ledger, issued <- {}, gone <- {}

-----------------------------------------------------------------------------

Mutations == {"enable", "disable", "delete"}

\* The key of an edit is only checked for its form.
Edit == [op : {"edit"}, document : Documents, expected : Contents, target : Contents]

Request == [op : Mutations, client : Clients, key : Nonces]
             \cup [op : {"create"}, client : {NoClient}, key : Nonces]
             \cup Edit

\* A process of the root helper.
Helper == [pid : 0..(MaxLost + MaxRestarts), request : Request]
LeftBehind(r) == [pid |-> lost + restarts, request |-> r]

\* The payload of a mutation is fixed by its operation and client.
Fingerprint(r) == <<r.op, r.client>>

Stages == {"idle", "waiting", "looking", "recalling", "calling", "confirming", "storing"}
Replies == {"none", "ok", "replay", "conflict", "error"}

NoRequest == [op |-> "none"]
Resting == [stage |-> "idle", request |-> NoRequest]

At(t, stage) == thread[t].stage = stage
Silent == reply' = "none"
Goto(t, stage) == thread' = [thread EXCEPT ![t].stage = stage] /\ Silent

\* Every way out of the locked region releases the lock.
Answer(t, outcome) ==
    /\ thread' = [thread EXCEPT ![t] = Resting]
    /\ reply' = outcome
    /\ mutex' = IF mutex = t THEN NoThread ELSE mutex

\* What a request is counted under: the key of a mutation, the nonce of a creation.
KeyOf(r) == IF r.op \in Mutations THEN {r.key} ELSE {}
NonceOf(r) == IF r.op = "create" THEN {r.key} ELSE {}
Counted(count, keys) == [n \in Nonces |-> count[n] + (IF n \in keys THEN 1 ELSE 0)]

\* The helper carried out r, and there is a cause to carry out the mutations of keys again.
Ran(r) == unexcused' = Counted(unexcused, KeyOf(r))
Excused(keys) == unexcused' = [n \in Nonces |-> unexcused[n] - (IF n \in keys THEN 1 ELSE 0)]

CachedKeys == {cache[i][1] : i \in DOMAIN cache}

\* What is kept of a list that grew by one element.
Newest(s) == IF Len(s) > MaxResults THEN Tail(s) ELSE s

Lose == lost < MaxLost /\ lost' = lost + 1 /\ UNCHANGED <<restarts, requests>>

Init ==
    /\ \E a \in [Existing -> Hosts] :
          /\ \A c, d \in Existing : a[c] = a[d] => c = d
          /\ peers = [c \in Clients |-> IF c \in Existing
                                          THEN [status |-> "enabled", host |-> a[c]]
                                          ELSE Registry!Absent]
    /\ ledger = {}
    /\ \E v \in Contents : document = [d \in Documents |-> v]
    /\ background = {}
    /\ mutex = NoThread
    /\ thread = [t \in Threads |-> Resting]
    /\ reply = "none"
    /\ cache = <<>> /\ nonces = {} /\ deleted = <<>>
    /\ drawn = Existing
    /\ unexcused = [n \in Nonces |-> 0]
    /\ creates = [n \in Nonces |-> 0]
    /\ overtaken = FALSE
    /\ lost = 0 /\ restarts = 0 /\ requests = 0

-----------------------------------------------------------------------------
(* What a helper does to the registry                                      *)

\* The configuration of a client is there as long as the client is.
Editable(d) == d = Server \/ d \in Registry!Present

\* A creation needs a fresh nonce and a free address; Clients bounds the peers
\* that can be drawn.  A change needs a peer that is there, and an edit the
\* contents that the operator's page has shown.
Accepts(r) ==
    CASE r.op = "create" ->
           /\ r.key \notin ledger
           /\ \E a \in Hosts : \A c \in Registry!Present : peers[c].host # a
           /\ ~ (Clients \subseteq drawn)
      [] r.op = "edit" -> Editable(r.document) /\ document[r.document] = r.expected
      [] OTHER -> r.client \in Registry!Present

\* The helper carries out the request as one operation of the registry, or of the
\* document.
TakesEffect(r) ==
    \/ /\ r.op = "create"
       /\ \E c \in Clients \ drawn, a \in Hosts :
             Registry!Create(r.key, c, a) /\ drawn' = drawn \cup {c}
       /\ UNCHANGED document
    \/ /\ \/ r.op = "enable" /\ Registry!SetStatus(r.client, "enabled")
          \/ r.op = "disable" /\ Registry!SetStatus(r.client, "disabled")
          \/ r.op = "delete" /\ Registry!Delete(r.client)
       /\ UNCHANGED <<drawn, document>>
    \/ /\ r.op = "edit" /\ Accepts(r)
       /\ document' = [document EXCEPT ![r.document] = r.target]
       /\ UNCHANGED <<registry, drawn>>

-----------------------------------------------------------------------------
(* Entering the service                                                    *)

Submit(t, r) ==
    /\ At(t, "idle")
    /\ thread' = [thread EXCEPT ![t] = [stage |-> "waiting", request |-> r]]
    /\ Silent
    /\ requests < MaxRequests /\ requests' = requests + 1
    /\ UNCHANGED <<store, background, mutex, memory, drawn, history, lost, restarts>>

\* Mutant: the result of acquire(timeout=2.0) is ignored.
AcquireAnyway(t) ==
    /\ At(t, "waiting")
    /\ mutex' = t
    /\ Goto(t, "looking")
    /\ overtaken' = FALSE
    /\ UNCHANGED <<store, background, memory, drawn, unexcused, creates, budget>>

Acquire(t) ==
    /\ At(t, "waiting")
    /\ mutex = NoThread
    /\ mutex' = t
    /\ Goto(t, "looking")
    /\ overtaken' = FALSE
    /\ UNCHANGED <<store, background, memory, drawn, unexcused, creates, budget>>

\* acquire(timeout=2.0) returns False.
TimeOut(t) ==
    /\ At(t, "waiting")
    /\ mutex # NoThread
    /\ Answer(t, "conflict")
    /\ UNCHANGED <<store, background, memory, drawn, history, budget>>

\* Mutant: a deletion is remembered before the helper has done it.
LookUpRemembersEarly(t) ==
    LET r == thread[t].request IN
    /\ At(t, "looking") /\ r.op \in Mutations
    /\ CASE <<r.key, Fingerprint(r)>> \in Range(cache) -> Answer(t, "replay") /\ UNCHANGED deleted
         [] r.key \notin CachedKeys ->
              /\ Goto(t, IF r.op = "delete" /\ r.client \in Range(deleted) THEN "recalling" ELSE "calling")
              /\ deleted' = IF r.op = "delete" THEN Newest(Append(deleted, r.client)) ELSE deleted
              /\ UNCHANGED mutex
         [] OTHER -> Answer(t, "conflict") /\ UNCHANGED deleted
    /\ UNCHANGED <<store, background, cache, nonces, drawn, history, budget>>

\* _run_mutation: a cached key answers the request it was used for, and no other.
LookUp(t) ==
    LET r == thread[t].request IN
    /\ At(t, "looking") /\ r.op \in Mutations
    /\ CASE <<r.key, Fingerprint(r)>> \in Range(cache) -> Answer(t, "replay")
         [] r.key \notin CachedKeys ->
              /\ Goto(t, IF r.op = "delete" /\ r.client \in Range(deleted) THEN "recalling" ELSE "calling")
              /\ UNCHANGED mutex
         [] OTHER -> Answer(t, "conflict")
    /\ UNCHANGED <<store, background, memory, drawn, history, budget>>

\* update_server_*: the settings are compared with what the page has shown, and an
\* edit to what they are already is answered at once.  update_configuration leaves
\* that to the helper.
Inspect(t) ==
    LET r == thread[t].request IN
    /\ At(t, "looking") /\ r.op = "edit"
    /\ CASE r.document = Server /\ document[Server] # r.expected -> Answer(t, "conflict")
         [] r.document = Server /\ document[Server] = r.expected /\ r.expected = r.target ->
              Answer(t, "ok")
         [] OTHER -> Goto(t, "calling") /\ UNCHANGED mutex
    /\ UNCHANGED <<store, background, memory, drawn, history, budget>>

\* Mutant: the nonce of a creation is not remembered.
SpendNonceForgotten(t) ==
    /\ At(t, "looking") /\ thread[t].request.op = "create"
    /\ IF thread[t].request.key \in nonces \cup CachedKeys
          THEN Answer(t, "conflict")
          ELSE Goto(t, "calling") /\ UNCHANGED mutex
    /\ UNCHANGED <<store, background, memory, drawn, history, budget>>

\* create_client: the nonce is spent before the helper is called, so that a
\* failed or ambiguous answer is not followed by an automatic second attempt.
SpendNonce(t) ==
    LET n == thread[t].request.key IN
    /\ At(t, "looking") /\ thread[t].request.op = "create"
    /\ IF n \in nonces \cup CachedKeys
          THEN Answer(t, "conflict") /\ UNCHANGED nonces
          ELSE /\ nonces' = nonces \cup {n}
               /\ Goto(t, "calling")
               /\ UNCHANGED mutex
    /\ UNCHANGED <<store, background, cache, deleted, drawn, history, budget>>

\* delete of a client that this service deleted: answered when it is not listed.
Recall(t) ==
    /\ At(t, "recalling")
    /\ Goto(t, IF thread[t].request.client \in Registry!Present THEN "calling" ELSE "storing")
    /\ UNCHANGED <<store, background, mutex, memory, drawn, history, budget>>

-----------------------------------------------------------------------------
(* Calling the helper                                                      *)

\* The helper's answer is turned into the next step of the operation.
Succeed(t) ==
    LET r == thread[t].request IN
    CASE r.op = "create" \/ (r.op = "edit" /\ r.document = Server) -> Answer(t, "ok")
      [] r.op = "delete" \/ (r.op = "edit" /\ r.document # Server) ->
           Goto(t, "confirming") /\ UNCHANGED mutex
      [] OTHER -> Goto(t, "storing") /\ UNCHANGED mutex

\* The helper is called for the request: once more, if it is a creation.
Called(r) == creates' = Counted(creates, NonceOf(r)) /\ UNCHANGED overtaken

Call(t) ==
    LET r == thread[t].request IN
    /\ At(t, "calling")
    /\ TakesEffect(r)
    /\ Succeed(t)
    /\ Called(r) /\ Ran(r)
    /\ UNCHANGED <<background, memory, budget>>

CallRefused(t) ==
    /\ At(t, "calling")
    /\ ~ Accepts(thread[t].request)
    /\ Answer(t, "error")
    /\ Called(thread[t].request)
    /\ UNCHANGED <<store, background, memory, drawn, unexcused, budget>>

\* The helper rolled back, or could not take its lock.
CallFails(t) ==
    /\ At(t, "calling")
    /\ Lose
    /\ Answer(t, "error")
    /\ Called(thread[t].request)
    /\ UNCHANGED <<store, background, memory, drawn, unexcused>>

\* The operation was done and its answer did not arrive or was not accepted: the run
\* and the cause to run again cancel out.
AnswerLost(t) ==
    LET r == thread[t].request IN
    /\ At(t, "calling")
    /\ Lose
    /\ TakesEffect(r)
    /\ Answer(t, "error")
    /\ Called(r)
    /\ UNCHANGED <<background, memory, unexcused>>

\* ACTION_HELPER_TIMEOUT passes and the helper lives on.
CallTimesOut(t) ==
    LET r == thread[t].request IN
    /\ At(t, "calling")
    /\ Lose
    /\ background' = background \cup {LeftBehind(r)}
    /\ Answer(t, "error")
    /\ Called(r) /\ Excused(KeyOf(r))
    /\ UNCHANGED <<store, memory, drawn>>

LateEffect(h) ==
    /\ h \in background
    /\ TakesEffect(h.request)
    /\ background' = background \ {h}
    /\ Ran(h.request)
    /\ overtaken' = TRUE
    /\ Silent
    /\ UNCHANGED <<mutex, thread, memory, creates, budget>>

LateFailure(h) ==
    /\ h \in background
    /\ background' = background \ {h}
    /\ Silent
    /\ UNCHANGED <<store, mutex, thread, memory, drawn, history, budget>>

\* delete lists the clients again and remembers the one it removed.
Confirm(t) ==
    LET r == thread[t].request IN
    /\ At(t, "confirming") /\ r.op = "delete"
    /\ IF r.client \in Registry!Present
          THEN Answer(t, "error") /\ Excused(KeyOf(r)) /\ UNCHANGED deleted
          ELSE /\ deleted' = Newest(Append(deleted, r.client))
               /\ Goto(t, "storing")
               /\ UNCHANGED <<mutex, unexcused>>
    /\ UNCHANGED <<store, background, cache, nonces, drawn, creates, overtaken, budget>>

\* update_configuration answers with what it reads back.
ReadBack(t) ==
    LET r == thread[t].request IN
    /\ At(t, "confirming") /\ r.op = "edit"
    /\ Answer(t, IF Editable(r.document) THEN "ok" ELSE "error")
    /\ UNCHANGED <<store, background, memory, drawn, history, budget>>

\* The helper that lists the clients, or reads the document, fails.
ConfirmFails(t) ==
    /\ \/ thread[t].stage \in {"recalling", "confirming"}
       \/ At(t, "looking") /\ thread[t].request.op = "edit" /\ thread[t].request.document = Server
    /\ Lose
    /\ Answer(t, "error")
    /\ Excused(IF At(t, "confirming") THEN KeyOf(thread[t].request) ELSE {})
    /\ UNCHANGED <<store, background, memory, drawn, creates, overtaken>>

\* Mutant: popitem() without last=False takes out the newest result.
StoreDropsNewest(t) ==
    LET r == thread[t].request IN
    /\ At(t, "storing")
    /\ cache' = IF Len(cache) = MaxResults THEN cache ELSE Append(cache, <<r.key, Fingerprint(r)>>)
    /\ Answer(t, "ok")
    /\ UNCHANGED <<store, background, nonces, deleted, drawn, history, budget>>

\* The result goes into the cache, and the oldest one out of it.
Store(t) ==
    LET r == thread[t].request IN
    /\ At(t, "storing")
    /\ cache' = Newest(Append(cache, <<r.key, Fingerprint(r)>>))
    /\ Excused({k \in CachedKeys : \A e \in Range(cache') : e[1] # k})
    /\ Answer(t, "ok")
    /\ UNCHANGED <<store, background, nonces, deleted, drawn, creates, overtaken, budget>>

\* The service restarts: its memory is lost, and helpers that it had called are
\* killed with it or go on.
Restart ==
    /\ restarts < MaxRestarts
    /\ restarts' = restarts + 1
    /\ \E called \in SUBSET {t \in Threads : At(t, "calling")} :
          background' = background \cup {LeftBehind(thread[t].request) : t \in called}
    /\ mutex' = NoThread
    /\ thread' = [t \in Threads |-> Resting] /\ Silent
    /\ cache' = <<>> /\ nonces' = {} /\ deleted' = <<>>
    /\ creates' = [n \in Nonces |-> 0]
    /\ Excused(CachedKeys \cup UNION {KeyOf(thread[t].request) :
                    t \in {u \in Threads : thread[u].stage \in {"calling", "confirming", "storing"}}})
    /\ UNCHANGED <<store, drawn, overtaken, lost, requests>>

Work(t) ==
    \/ Acquire(t) \/ TimeOut(t) \/ LookUp(t) \/ SpendNonce(t) \/ Inspect(t)
    \/ Recall(t) \/ Call(t) \/ CallRefused(t) \/ Confirm(t) \/ ReadBack(t) \/ Store(t)

Failure(t) == CallFails(t) \/ AnswerLost(t) \/ CallTimesOut(t) \/ ConfirmFails(t)

\* The bound is reached and nothing is left to do.
Rest ==
    /\ requests = MaxRequests /\ background = {}
    /\ \A t \in Threads : At(t, "idle")
    /\ UNCHANGED vars

Next ==
    \/ \E t \in Threads, r \in Request : Submit(t, r)
    \/ \E t \in Threads : Work(t) \/ Failure(t)
    \/ \E h \in background : LateEffect(h) \/ LateFailure(h)
    \/ Restart
    \/ Rest

Spec == Init /\ [][Next]_vars

-----------------------------------------------------------------------------
(* Properties                                                              *)

\* The lock has one holder or none, and neither the cache of results nor the list of
\* deletions outgrows _MAX_IDEMPOTENCY_RESULTS.
TypeOK ==
    /\ peers \in [Clients -> [status : {"enabled", "disabled"}, host : Hosts] \cup {Registry!Absent}]
    /\ ledger \subseteq Nonces
    /\ background \subseteq Helper
    /\ mutex \in Threads \cup {NoThread}
    /\ document \in [Documents -> Contents]
    /\ thread \in [Threads -> [stage : Stages, request : Request \cup {NoRequest}]]
    /\ reply \in Replies
    /\ cache \in Seq(Nonces \X (Mutations \X Clients)) /\ Len(cache) <= MaxResults
    /\ nonces \subseteq Nonces
    /\ deleted \in Seq(Clients) /\ Len(deleted) <= MaxResults
    /\ drawn \subseteq Clients
    /\ overtaken \in BOOLEAN
    /\ unexcused \in [Nonces -> Int] /\ creates \in [Nonces -> Nat]
    /\ lost \in 0..MaxLost /\ restarts \in 0..MaxRestarts /\ requests \in 0..MaxRequests

\* The helper carries out the mutation of an idempotency key once, and once more at
\* most for each of these causes: an attempt with the key was answered by an error
\* though the helper had done it or may still do it, its result left the full cache,
\* or the service restarted.  Every effect counts, those of lost answers and of
\* helpers left behind too, however many threads use the key at the same time.  For
\* a creation a running service even calls the helper at most once with a nonce, also
\* after a call that failed or whose answer was lost ("must not cause automatic
\* replay").  (And the state is well typed.)
RepeatsHaveCause ==
    /\ TypeOK
    /\ \A n \in Nonces : unexcused[n] <= 1
    /\ \A n \in Nonces : creates[n] <= 1

\* A client that the service remembers as deleted, in its list or in a cached
\* result, is not in the registry: what it answers without calling the helper
\* is true, even with helpers still running in the background.
RememberedDeletionsHold ==
    /\ \A c \in Range(deleted) : c \notin Registry!Present
    /\ \A e \in Range(cache) : e[2][1] = "delete" => e[2][2] \notin Registry!Present

\* What the operation of a thread that answers "ok" asked for is so when it answers.
OkMeansDone(t) ==
    LET r == thread[t].request IN
    /\ ~At(t, "idle") /\ thread'[t].stage = "idle" /\ reply' = "ok"
    /\ ~ overtaken
    => CASE r.op = "create"  -> r.key \in ledger'
         [] r.op = "enable"  -> peers'[r.client].status = "enabled"
         [] r.op = "disable" -> peers'[r.client].status = "disabled"
         [] r.op = "delete"  -> peers'[r.client] = Registry!Absent
         [] r.op = "edit"    -> document'[r.document] = r.target

\* An "ok" that is not a repetition is given only when the registry is in the
\* state that was asked for: no other request of the service comes between the
\* helper's work and the answer.  Only a helper left behind by an earlier call
\* can, by taking effect at that moment.
OkIsEffective == [][\A t \in Threads : OkMeansDone(t)]_vars

=============================================================================
