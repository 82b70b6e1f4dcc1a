------------------------ MODULE LifecycleServiceProofs ------------------------
(***************************************************************************)
(* A key runs again only for a cause, remembered deletions hold and an     *)
(* "ok" is effective, for every number of threads, clients and keys, every *)
(* size of the cache, and any number of failing, lost and late helper      *)
(* calls and of restarts.                                                  *)
(***************************************************************************)
EXTENDS LifecycleService, FiniteSets, SequenceTheorems, FiniteSetTheorems, TLAPS

-----------------------------------------------------------------------------
(* The invariants                                                          *)

ThreadStates == [stage : Stages, request : Request \cup {NoRequest}]
Peers == [status : {"enabled", "disabled"}, host : Hosts]
Pairs == Nonces \X (Mutations \X Clients)

\* A thread that is not idle serves a request, and some stages are reached by some
\* operations only.
Serving ==
    \A t \in Threads : LET r == thread[t].request IN
        /\ ~At(t, "idle") => r \in Request
        /\ At(t, "recalling") => r.op = "delete"
        /\ At(t, "confirming") => r.op = "delete" \/ (r.op = "edit" /\ r.document # Server)
        /\ At(t, "storing") => r.op \in Mutations

\* Nobody but the holder of the lock is past waiting.
Past(t) == thread[t].stage \notin {"idle", "waiting"}
Exclusive == \A t \in Threads : Past(t) => mutex = t

Shaped == TypeOK /\ Serving /\ Exclusive

\* A mutation under way has a key that the cache does not know.
Unstored ==
    \A t \in Threads :
        /\ thread[t].stage \in {"recalling", "calling", "confirming", "storing"}
        /\ thread[t].request.op \in Mutations
        => thread[t].request.key \notin CachedKeys

\* The helpers of a set that may still carry out a mutation with the key.
Of(helpers, n) == {h \in helpers : n \in KeyOf(h.request)}

\* A success with the key is in the cache, or on its way there.
Done(n) ==
    \/ n \in CachedKeys
    \/ \E t \in Threads : /\ thread[t].stage \in {"confirming", "storing"}
                         /\ n \in KeyOf(thread[t].request)

\* What was carried out without a cause, or may still be by the helpers left behind, is
\* the one success that is remembered.
Accounted ==
    /\ IsFiniteSet(background)
    /\ \A n \in Nonces :
          unexcused[n] + Cardinality(Of(background, n)) <= IF Done(n) THEN 1 ELSE 0

\* Every call of a creation has spent its nonce, and one that is due is the first.
Spent ==
    /\ \A n \in Nonces : creates[n] <= IF n \in nonces THEN 1 ELSE 0
    /\ \A t \in Threads : At(t, "calling") =>
          \A n \in NonceOf(thread[t].request) : n \in nonces /\ creates[n] = 0

Excusable == Unstored /\ Accounted /\ Spent

\* A peer that is drawn and not there stays away: creations draw new ones.
Buried(c) == c \in drawn /\ c \notin Registry!Present

\* What is remembered of deletions, or is about to be, is buried.
Remembered ==
    /\ Registry!Present \subseteq drawn
    /\ \A c \in Range(deleted) : Buried(c)
    /\ \A e \in Range(cache) : e[2][1] = "delete" => Buried(e[2][2])
    /\ \A t \in Threads : LET r == thread[t].request IN
          r.op = "delete" =>
              /\ At(t, "recalling") => r.client \in drawn
              /\ At(t, "confirming") => r.client \in drawn
              /\ At(t, "storing") => Buried(r.client)

\* What the helper has done for the holder of the lock is still there when it answers,
\* unless a late effect came between.
Effective ==
    ~ overtaken =>
        \A t \in Threads : LET r == thread[t].request IN
            /\ At(t, "storing") /\ r.op = "enable" => peers[r.client].status = "enabled"
            /\ At(t, "storing") /\ r.op = "disable" => peers[r.client].status = "disabled"
            /\ At(t, "confirming") /\ r.op = "edit" => document[r.document] = r.target

-----------------------------------------------------------------------------
(* Operators                                                               *)

\* What the fields of a request are.
LEMMA RequestFields ==
    ASSUME NEW r \in Request
    PROVE  /\ r.op \in Mutations \cup {"create", "edit"}
           /\ r.op \in Mutations => r.client \in Clients /\ r.key \in Nonces
           /\ r.op = "create" => r.key \in Nonces
           /\ r.op = "edit" => r.document \in Documents /\ r.target \in Contents
  BY DEF Request, Edit, Mutations

\* A bounded list that takes one more element stays within its bound and holds nothing
\* else.
LEMMA NewestKeeps ==
    ASSUME NEW S, NEW s \in Seq(S), Len(s) <= MaxResults, NEW e \in S
    PROVE  /\ Newest(Append(s, e)) \in Seq(S)
           /\ Len(Newest(Append(s, e))) <= MaxResults
           /\ Range(Newest(Append(s, e))) \subseteq Range(s) \cup {e}
           /\ e \in Range(Newest(Append(s, e)))
<1> DEFINE g == Append(s, e)
<1>1. g \in Seq(S) /\ Len(g) = Len(s) + 1 /\ g # <<>>
  BY AppendProperties
<1>2. \A i \in 1..Len(g) : g[i] = IF i <= Len(s) THEN s[i] ELSE e
  BY AppendProperties
<1>3. Len(s) \in Nat /\ MaxResults \in Nat
  BY BoundAssumption
<1>4. DOMAIN g = 1..Len(g) /\ DOMAIN s = 1..Len(s)
  BY <1>1, LenProperties
<1>5. Range(g) \subseteq Range(s) \cup {e} /\ g[Len(g)] = e /\ Len(g) \in Nat \ {0}
  BY <1>1, <1>2, <1>3, <1>4 DEF Range
<1> HIDE DEF g
<1>6. CASE Len(g) > MaxResults
  <2>1. Tail(g) \in Seq(S) /\ Len(Tail(g)) = Len(g) - 1
    BY <1>1, HeadTailProperties
  <2>2. \A i \in 1..Len(Tail(g)) : Tail(g)[i] = g[i + 1]
    BY <1>1, <2>1, HeadTailProperties
  <2>3. DOMAIN Tail(g) = 1..Len(Tail(g))
    BY <2>1, LenProperties
  <2>4. Range(Tail(g)) \subseteq Range(g)
    BY <1>1, <1>3, <1>4, <2>1, <2>2, <2>3 DEF Range
  <2>5. e \in Range(Tail(g))
    <3>1. Len(Tail(g)) \in 1..Len(Tail(g)) /\ Len(Tail(g)) + 1 = Len(g)
      BY <1>3, <1>5, <1>6, <2>1, BoundAssumption
    <3> QED
      BY <1>5, <2>2, <2>3, <3>1 DEF Range
  <2> QED
    BY <1>1, <1>3, <1>5, <1>6, <2>1, <2>4, <2>5 DEF Newest, g
<1>7. CASE ~ (Len(g) > MaxResults)
  <2>1. e \in Range(g)
    BY <1>4, <1>5 DEF Range
  <2> QED
    BY <1>1, <1>3, <1>5, <1>7, <2>1 DEF Newest, g
<1> QED
  BY <1>6, <1>7

\* The keys in the cache are those of its entries.
LEMMA KeysOfEntries ==
    CachedKeys = {e[1] : e \in Range(cache)}
  BY DEF CachedKeys, Range

\* A thread that goes on serves the same request at its next stage, and the others stay
\* where they are.
LEMMA GotoMoves ==
    ASSUME TypeOK, NEW t \in Threads, NEW s \in Stages, Goto(t, s)
    PROVE  /\ thread' \in [Threads -> ThreadStates]
           /\ thread'[t].stage = s /\ thread'[t].request = thread[t].request
           /\ \A u \in Threads \ {t} : thread'[u] = thread[u]
           /\ reply' = "none"
  BY DEF TypeOK, Goto, Silent, ThreadStates

\* A thread that answers rests, the others stay where they are, and the lock is free
\* when the thread had it.
LEMMA AnswerRests ==
    ASSUME TypeOK, NEW t \in Threads, NEW o \in Replies, Answer(t, o)
    PROVE  /\ thread' \in [Threads -> ThreadStates]
           /\ thread'[t] = Resting
           /\ \A u \in Threads \ {t} : thread'[u] = thread[u]
           /\ reply' = o
           /\ mutex' \in Threads \cup {NoThread}
           /\ mutex # t => mutex' = mutex
<1>1. Resting \in ThreadStates
  BY DEF Resting, ThreadStates, Stages
<1>2. thread \in [Threads -> ThreadStates] /\ mutex \in Threads \cup {NoThread}
  BY DEF TypeOK, ThreadStates
<1> QED
  BY <1>1, <1>2 DEF Answer

\* Whatever a helper does, present peers were drawn, drawn peers stay drawn, and nobody
\* comes back who was drawn and not there.
LEMMA EffectBuries ==
    ASSUME TypeOK, Registry!Present \subseteq drawn, NEW r \in Request, TakesEffect(r)
    PROVE  /\ (Registry!Present)' \subseteq drawn'
           /\ \A c : Buried(c) => Buried(c)'
           /\ drawn \subseteq drawn'
<1>1. peers \in [Clients -> Peers \cup {Registry!Absent}]
  BY DEF TypeOK, Peers
<1>2. CASE r.op = "create"
  <2>1. PICK k \in Clients \ drawn, a \in Hosts :
           Registry!Create(r.key, k, a) /\ drawn' = drawn \cup {k}
    BY <1>2, RequestFields DEF TakesEffect, Mutations
  <2>2. peers' = [peers EXCEPT ![k] = [status |-> "enabled", host |-> a]]
    BY <2>1 DEF Registry!Create
  <2>3. (Registry!Present)' \subseteq Registry!Present \cup {k}
    BY <1>1, <2>2 DEF Registry!Present, Registry!Absent
  <2> QED
    BY <2>1, <2>3 DEF Buried
<1>3. CASE r.op # "create"
  <2>1. drawn' = drawn
    BY <1>3 DEF TakesEffect
  <2>2. CASE peers' = peers
    BY <2>1, <2>2 DEF Buried, Registry!Present, Registry!Absent
  <2>3. CASE r.op \in {"enable", "disable"}
    <3>1. r.client \in Registry!Present
      BY <1>3, <2>3 DEF TakesEffect, Registry!SetStatus
    <3>2. \E x \in {"enabled", "disabled"} : peers' = [peers EXCEPT ![r.client].status = x]
      BY <1>3, <2>3 DEF TakesEffect, Registry!SetStatus
    <3>3. (Registry!Present)' \subseteq Registry!Present
      BY <1>1, <3>1, <3>2 DEF Registry!Present, Registry!Absent
    <3> QED
      BY <2>1, <3>3 DEF Buried
  <2>4. CASE r.op = "delete"
    <3>1. peers' = [peers EXCEPT ![r.client] = Registry!Absent]
      BY <2>4 DEF TakesEffect, Registry!Delete
    <3>2. (Registry!Present)' \subseteq Registry!Present
      BY <1>1, <3>1 DEF Registry!Present, Registry!Absent
    <3> QED
      BY <2>1, <3>2 DEF Buried
  <2> QED
    BY <1>3, <2>2, <2>3, <2>4, RequestFields DEF TakesEffect, registry, Mutations
<1> QED
  BY <1>2, <1>3

\* A helper's work leaves a registry and documents, and does what it was called for.
LEMMA EffectShapes ==
    ASSUME TypeOK, NEW r \in Request, TakesEffect(r)
    PROVE  /\ peers' \in [Clients -> Peers \cup {Registry!Absent}]
           /\ ledger' \subseteq Nonces
           /\ document' \in [Documents -> Contents]
           /\ drawn' \subseteq Clients
           /\ r.op = "create" => r.key \in ledger'
           /\ r.op = "enable" => peers'[r.client].status = "enabled"
           /\ r.op = "disable" => peers'[r.client].status = "disabled"
           /\ r.op = "delete" => r.client \in drawn \/ r.client \in Registry!Present
           /\ r.op = "edit" => document'[r.document] = r.target
<1>1. /\ peers \in [Clients -> Peers \cup {Registry!Absent}] /\ ledger \subseteq Nonces
      /\ document \in [Documents -> Contents] /\ drawn \subseteq Clients
  BY DEF TypeOK, Peers
<1>2. CASE r.op = "create"
  BY <1>1, <1>2, RequestFields DEF TakesEffect, Registry!Create, Peers, Registry!Present,
     Registry!Absent
<1>3. CASE r.op \in Mutations
  BY <1>1, <1>3, RequestFields DEF TakesEffect, Registry!SetStatus, Registry!Delete, Peers,
     Registry!Present, Registry!Absent, Mutations, registry
<1>4. CASE r.op = "edit"
  BY <1>1, <1>4, RequestFields DEF TakesEffect, registry
<1> QED
  BY <1>2, <1>3, <1>4, RequestFields

\* A helper that is left behind carries a request, and a number that is new.
LEMMA HelpersTyped ==
    ASSUME TypeOK, NEW r \in Request
    PROVE  LeftBehind(r) \in Helper
  BY BoundAssumption DEF TypeOK, LeftBehind, Helper

\* Counting keeps the counters numbers.
LEMMA CountersTyped ==
    ASSUME TypeOK, NEW keys
    PROVE  /\ Counted(creates, keys) \in [Nonces -> Nat]
           /\ Counted(unexcused, keys) \in [Nonces -> Int]
           /\ Excused(keys) => unexcused' \in [Nonces -> Int]
<1>1. creates \in [Nonces -> Nat] /\ unexcused \in [Nonces -> Int]
  BY DEF TypeOK
<1>2. Counted(creates, keys) \in [Nonces -> Nat]
  BY <1>1 DEF Counted
<1>3. Counted(unexcused, keys) \in [Nonces -> Int]
  BY <1>1 DEF Counted
<1>4. Excused(keys) => unexcused' \in [Nonces -> Int]
  BY <1>1 DEF Excused
<1> QED
  BY <1>2, <1>3, <1>4

\* How many helpers with a key there are when one comes or goes.
LEMMA HelpersCounted ==
    ASSUME NEW B, IsFiniteSet(B), NEW h, NEW n
    PROVE  /\ Cardinality(Of(B, n)) \in Nat
           /\ IsFiniteSet(B \cup {h}) /\ IsFiniteSet(B \ {h})
           /\ Cardinality(Of(B \cup {h}, n)) \in Nat /\ Cardinality(Of(B \ {h}, n)) \in Nat
           /\ n \in KeyOf(h.request) =>
                  Cardinality(Of(B \cup {h}, n)) <= Cardinality(Of(B, n)) + 1
           /\ n \in KeyOf(h.request) /\ h \in B =>
                  Cardinality(Of(B \ {h}, n)) = Cardinality(Of(B, n)) - 1
           /\ n \notin KeyOf(h.request) => Of(B \cup {h}, n) = Of(B, n)
           /\ Cardinality(Of(B \ {h}, n)) <= Cardinality(Of(B, n))
<1>1. IsFiniteSet(B \cup {h}) /\ IsFiniteSet(B \ {h})
  BY FS_AddElement, FS_RemoveElement
<1>2. IsFiniteSet(Of(B, n)) /\ IsFiniteSet(Of(B \cup {h}, n)) /\ IsFiniteSet(Of(B \ {h}, n))
  <2>1. Of(B, n) \in SUBSET B /\ Of(B \cup {h}, n) \in SUBSET (B \cup {h})
        /\ Of(B \ {h}, n) \in SUBSET (B \ {h})
    BY DEF Of
  <2> QED
    BY <1>1, <2>1, FS_Subset
<1>3. /\ Cardinality(Of(B, n)) \in Nat
      /\ Cardinality(Of(B \cup {h}, n)) \in Nat /\ Cardinality(Of(B \ {h}, n)) \in Nat
  BY <1>2, FS_CardinalityType
<1>4. Of(B \ {h}, n) = Of(B, n) \ {h}
  BY DEF Of
<1>5. Cardinality(Of(B \ {h}, n)) = IF h \in Of(B, n) THEN Cardinality(Of(B, n)) - 1
                                                     ELSE Cardinality(Of(B, n))
  <2>1. Cardinality(Of(B, n) \ {h}) = IF h \in Of(B, n) THEN Cardinality(Of(B, n)) - 1
                                                       ELSE Cardinality(Of(B, n))
    BY <1>2, FS_RemoveElement
  <2> QED
    BY <1>4, <2>1, Zenon
<1>6. Cardinality(Of(B \ {h}, n)) <= Cardinality(Of(B, n))
  <2> DEFINE x == Cardinality(Of(B \ {h}, n))
             y == Cardinality(Of(B, n))
  <2>1. (x = y - 1 \/ x = y) /\ y \in Nat
    BY <1>3, <1>5, Zenon
  <2> HIDE DEF x, y
  <2>2. x <= y
    BY <2>1
  <2> QED
    BY <2>2 DEF x, y
<1>7. CASE n \in KeyOf(h.request)
  <2>1. Of(B \cup {h}, n) = Of(B, n) \cup {h}
    BY <1>7 DEF Of
  <2>2. Cardinality(Of(B, n) \cup {h}) = IF h \in Of(B, n) THEN Cardinality(Of(B, n))
                                                        ELSE Cardinality(Of(B, n)) + 1
    BY <1>2, FS_AddElement
  <2>3. h \in B => h \in Of(B, n)
    BY <1>7 DEF Of
  <2>4. Cardinality(Of(B \cup {h}, n)) <= Cardinality(Of(B, n)) + 1
    <3> DEFINE x == Cardinality(Of(B \cup {h}, n))
               y == Cardinality(Of(B, n))
    <3>1. (x = y + 1 \/ x = y) /\ y \in Nat
      BY <1>3, <2>1, <2>2, Zenon
    <3> HIDE DEF x, y
    <3>2. x <= y + 1
      BY <3>1
    <3> QED
      BY <3>2 DEF x, y
  <2>5. h \in B => Cardinality(Of(B \ {h}, n)) = Cardinality(Of(B, n)) - 1
    BY <1>5, <2>3, Zenon
  <2> QED
    BY <1>1, <1>3, <1>7, <1>6, <2>4, <2>5
<1>8. CASE n \notin KeyOf(h.request)
  <2>1. Of(B \cup {h}, n) = Of(B, n)
    BY <1>8 DEF Of
  <2> QED
    BY <1>1, <1>3, <1>8, <1>6, <2>1
<1> QED
  BY <1>7, <1>8

-----------------------------------------------------------------------------
(* The state is well formed, and the lock excludes                          *)

\* A thread that answers leaves the other threads, and the lock, as they were.
LEMMA AnswerShaped ==
    ASSUME Shaped, NEW t \in Threads, NEW o \in Replies, Answer(t, o)
    PROVE  /\ thread' \in [Threads -> ThreadStates]
           /\ mutex' \in Threads \cup {NoThread}
           /\ reply' \in Replies
           /\ Serving' /\ Exclusive'
<1>1. /\ thread' \in [Threads -> ThreadStates]
      /\ thread'[t] = Resting
      /\ \A u \in Threads \ {t} : thread'[u] = thread[u]
      /\ reply' = o
      /\ mutex' \in Threads \cup {NoThread}
      /\ mutex # t => mutex' = mutex
  BY AnswerRests DEF Shaped
<1>2. Resting.stage = "idle" /\ Resting.request.op = "none"
  BY DEF Resting, NoRequest
<1>3. Serving'
  BY <1>1, <1>2 DEF Shaped, Serving, At
<1>4. Exclusive'
  BY <1>1, <1>2 DEF Shaped, Exclusive, Past
<1> QED
  BY <1>1, <1>3, <1>4

\* So does the holder of the lock when it goes on to a stage that fits its operation.
LEMMA GotoShaped ==
    ASSUME Shaped, NEW t \in Threads, NEW s \in Stages \ {"idle"}, Goto(t, s), mutex' = t,
           ~At(t, "idle"), \A u \in Threads \ {t} : ~Past(u),
           s = "recalling" => thread[t].request.op = "delete",
           s = "confirming" => \/ thread[t].request.op = "delete"
                               \/ /\ thread[t].request.op = "edit"
                                  /\ thread[t].request.document # Server,
           s = "storing" => thread[t].request.op \in Mutations
    PROVE  /\ thread' \in [Threads -> ThreadStates]
           /\ reply' \in Replies
           /\ Serving' /\ Exclusive'
<1>1. /\ thread' \in [Threads -> ThreadStates]
      /\ thread'[t].stage = s /\ thread'[t].request = thread[t].request
      /\ \A u \in Threads \ {t} : thread'[u] = thread[u]
      /\ reply' = "none"
  BY GotoMoves DEF Shaped
<1>2. Serving'
  BY <1>1 DEF Shaped, Serving, At
<1>3. Exclusive'
  BY <1>1 DEF Exclusive, Past
<1> QED
  BY <1>1, <1>2, <1>3 DEF Replies

\* The lock is with the thread that is past waiting, and with no other.
LEMMA HolderAlone ==
    ASSUME Shaped, NEW t \in Threads, Past(t)
    PROVE  /\ mutex = t /\ ~At(t, "idle")
           /\ thread[t].request \in Request
           /\ \A u \in Threads \ {t} : ~Past(u)
  BY DEF Shaped, Exclusive, Past, Serving, At

\* At the start every thread rests and nothing is remembered.
LEMMA InitShaped == Init => Shaped
<1> SUFFICES ASSUME Init PROVE Shaped
  OBVIOUS
<1>1. /\ Resting \in ThreadStates /\ Resting.stage = "idle" /\ Resting.request.op = "none"
  BY DEF Resting, NoRequest, ThreadStates, Stages
<1>2. TypeOK
  <2>1. peers \in [Clients -> [status : {"enabled", "disabled"}, host : Hosts]
                                 \cup {Registry!Absent}]
    BY DEF Init
  <2>2. thread \in [Threads -> ThreadStates]
    BY <1>1 DEF Init
  <2>3. document \in [Documents -> Contents]
    BY DEF Init
  <2>4. /\ cache \in Seq(Nonces \X (Mutations \X Clients)) /\ Len(cache) <= MaxResults
        /\ deleted \in Seq(Clients) /\ Len(deleted) <= MaxResults
    BY BoundAssumption, EmptySeq DEF Init
  <2>5. /\ unexcused \in [Nonces -> Int] /\ creates \in [Nonces -> Nat]
        /\ lost \in 0..MaxLost /\ restarts \in 0..MaxRestarts /\ requests \in 0..MaxRequests
    BY BoundAssumption DEF Init
  <2> QED
    BY <2>1, <2>2, <2>3, <2>4, <2>5, ClientsAssumption DEF Init, TypeOK, ThreadStates,
       Replies
<1>3. Serving
  BY <1>1 DEF Init, Serving, At
<1>4. Exclusive
  BY <1>1 DEF Init, Exclusive, Past
<1> QED
  BY <1>2, <1>3, <1>4 DEF Shaped

\* Every step keeps the state well formed and the lock exclusive.
LEMMA NextShaped == Shaped /\ [Next]_vars => Shaped'
<1> SUFFICES ASSUME Shaped, [Next]_vars PROVE Shaped'
  OBVIOUS
<1> USE BoundAssumption
<1>1. ASSUME NEW t \in Threads, NEW r \in Request, Submit(t, r) PROVE Shaped'
  <2>1. /\ thread' \in [Threads -> ThreadStates] /\ reply' \in Replies
        /\ thread'[t] = [stage |-> "waiting", request |-> r]
        /\ \A u \in Threads \ {t} : thread'[u] = thread[u]
    BY <1>1 DEF Submit, Silent, Shaped, TypeOK, ThreadStates, Stages, Replies
  <2>2. Serving' /\ Exclusive'
    BY <1>1, <2>1 DEF Submit, Shaped, Serving, Exclusive, Past, At
  <2> QED
    BY <1>1, <2>1, <2>2 DEF Submit, Shaped, TypeOK, ThreadStates, Peers, Pairs, store,
       registry, memory, history, budget
<1>2. ASSUME NEW t \in Threads, Acquire(t) PROVE Shaped'
  <2>1. ~At(t, "idle") /\ \A u \in Threads : ~Past(u)
    BY <1>2, ThreadsAssumption DEF Acquire, At, Shaped, Exclusive
  <2>2. /\ thread' \in [Threads -> ThreadStates] /\ mutex' \in Threads \cup {NoThread}
        /\ reply' \in Replies /\ Serving' /\ Exclusive'
    BY <1>2, <2>1, GotoShaped DEF Acquire, Stages, Replies
  <2> QED
    BY <1>2, <2>2 DEF Acquire, Shaped, TypeOK, ThreadStates, Peers, Pairs, store, registry,
       memory, history, budget
<1>3. ASSUME NEW t \in Threads, TimeOut(t) PROVE Shaped'
  <2>1. /\ thread' \in [Threads -> ThreadStates] /\ mutex' \in Threads \cup {NoThread}
        /\ reply' \in Replies /\ Serving' /\ Exclusive'
    BY <1>3, AnswerShaped DEF TimeOut, Replies
  <2> QED
    BY <1>3, <2>1 DEF TimeOut, Shaped, TypeOK, ThreadStates, Peers, Pairs, store, registry,
       memory, history, budget
<1>4. ASSUME NEW t \in Threads, LookUp(t) PROVE Shaped'
  <2>1. /\ mutex = t /\ ~At(t, "idle") /\ thread[t].request \in Request
        /\ \A u \in Threads \ {t} : ~Past(u)
    BY <1>4, HolderAlone DEF LookUp, At, Past
  <2>2. /\ thread' \in [Threads -> ThreadStates] /\ mutex' \in Threads \cup {NoThread}
        /\ reply' \in Replies /\ Serving' /\ Exclusive'
    BY <1>4, <2>1, AnswerShaped, GotoShaped DEF LookUp, Stages, Replies, Shaped, TypeOK
  <2> QED
    BY <1>4, <2>2 DEF LookUp, Shaped, TypeOK, ThreadStates, Peers, Pairs, store, registry,
       memory, history, budget
<1>5. ASSUME NEW t \in Threads, SpendNonce(t) PROVE Shaped'
  <2>1. /\ mutex = t /\ ~At(t, "idle") /\ thread[t].request \in Request
        /\ \A u \in Threads \ {t} : ~Past(u)
    BY <1>5, HolderAlone DEF SpendNonce, At, Past
  <2>2. /\ thread' \in [Threads -> ThreadStates] /\ mutex' \in Threads \cup {NoThread}
        /\ reply' \in Replies /\ Serving' /\ Exclusive'
    BY <1>5, <2>1, AnswerShaped, GotoShaped DEF SpendNonce, Stages, Replies, Shaped, TypeOK
  <2>3. thread[t].request.key \in Nonces
    BY <1>5, <2>1, RequestFields DEF SpendNonce
  <2>4. nonces' \subseteq Nonces
    BY <1>5, <2>3 DEF SpendNonce, Shaped, TypeOK
  <2> QED
    BY <1>5, <2>2, <2>4 DEF SpendNonce, Shaped, TypeOK, ThreadStates, Peers, Pairs,
       store, registry, memory, history, budget
<1>6. ASSUME NEW t \in Threads, Inspect(t) PROVE Shaped'
  <2>1. /\ mutex = t /\ ~At(t, "idle") /\ thread[t].request \in Request
        /\ \A u \in Threads \ {t} : ~Past(u)
    BY <1>6, HolderAlone DEF Inspect, At, Past
  <2>2. /\ thread' \in [Threads -> ThreadStates] /\ mutex' \in Threads \cup {NoThread}
        /\ reply' \in Replies /\ Serving' /\ Exclusive'
    BY <1>6, <2>1, AnswerShaped, GotoShaped DEF Inspect, Stages, Replies, Shaped, TypeOK
  <2> QED
    BY <1>6, <2>2 DEF Inspect, Shaped, TypeOK, ThreadStates, Peers, Pairs, store, registry,
       memory, history, budget
<1>7. ASSUME NEW t \in Threads, Recall(t) PROVE Shaped'
  <2>1. /\ mutex = t /\ ~At(t, "idle") /\ thread[t].request \in Request
        /\ \A u \in Threads \ {t} : ~Past(u)
    BY <1>7, HolderAlone DEF Recall, At, Past
  <2>2. /\ thread' \in [Threads -> ThreadStates] /\ mutex' \in Threads \cup {NoThread}
        /\ reply' \in Replies /\ Serving' /\ Exclusive'
    BY <1>7, <2>1, AnswerShaped, GotoShaped DEF Recall, Stages, Replies, Shaped, TypeOK,
       Serving, Mutations, At
  <2> QED
    BY <1>7, <2>2 DEF Recall, Shaped, TypeOK, ThreadStates, Peers, Pairs, store, registry,
       memory, history, budget
<1>8. ASSUME NEW t \in Threads, Call(t) PROVE Shaped'
  <2>1. /\ mutex = t /\ ~At(t, "idle") /\ thread[t].request \in Request
        /\ \A u \in Threads \ {t} : ~Past(u)
    BY <1>8, HolderAlone DEF Call, At, Past
  <2>2. \/ Answer(t, "ok")
        \/ /\ thread[t].request.op \in {"delete", "edit"}
           /\ thread[t].request.op = "edit" => thread[t].request.document # Server
           /\ Goto(t, "confirming") /\ mutex' = mutex
        \/ thread[t].request.op \in Mutations /\ Goto(t, "storing") /\ mutex' = mutex
    <3>1. Succeed(t) /\ thread[t].request.op \in Mutations \cup {"create", "edit"}
      BY <1>8, <2>1, RequestFields DEF Call
    <3>2. CASE thread[t].request.op = "create"
      BY <3>1, <3>2 DEF Succeed
    <3>3. CASE thread[t].request.op = "edit"
      BY <3>1, <3>3 DEF Succeed
    <3>4. CASE thread[t].request.op \in Mutations
      BY <3>1, <3>4 DEF Succeed, Mutations
    <3> QED
      BY <3>1, <3>2, <3>3, <3>4
  <2>3. /\ thread' \in [Threads -> ThreadStates] /\ mutex' \in Threads \cup {NoThread}
        /\ reply' \in Replies /\ Serving' /\ Exclusive'
    BY <2>1, <2>2, AnswerShaped, GotoShaped DEF Stages, Replies
  <2>4. /\ peers' \in [Clients -> Peers \cup {Registry!Absent}] /\ ledger' \subseteq Nonces
        /\ document' \in [Documents -> Contents] /\ drawn' \subseteq Clients
    BY <1>8, <2>1, EffectShapes DEF Call, Shaped
  <2>5. unexcused' \in [Nonces -> Int] /\ creates' \in [Nonces -> Nat]
    BY <1>8, CountersTyped DEF Call, Called, Ran, Shaped, TypeOK
  <2> QED
    BY <1>8, <2>5, <2>3, <2>4 DEF Call, Called, Ran, Shaped, TypeOK, ThreadStates, Peers,
       Pairs, store,
       registry, memory, history, budget
<1>9. ASSUME NEW t \in Threads, CallRefused(t) PROVE Shaped'
  <2>1. /\ thread' \in [Threads -> ThreadStates] /\ mutex' \in Threads \cup {NoThread}
        /\ reply' \in Replies /\ Serving' /\ Exclusive'
    BY <1>9, AnswerShaped DEF CallRefused, Replies
  <2>2. unexcused' \in [Nonces -> Int] /\ creates' \in [Nonces -> Nat]
    BY <1>9, CountersTyped DEF CallRefused, Called, Shaped, TypeOK
  <2> QED
    BY <1>9, <2>2, <2>1 DEF CallRefused, Called, Shaped, TypeOK, ThreadStates, Peers, Pairs,
       store,
       registry, memory, history, budget
<1>10. ASSUME NEW t \in Threads, Confirm(t) PROVE Shaped'
  <2>1. /\ mutex = t /\ ~At(t, "idle") /\ thread[t].request \in Request
        /\ \A u \in Threads \ {t} : ~Past(u)
    BY <1>10, HolderAlone DEF Confirm, At, Past
  <2>2. /\ thread' \in [Threads -> ThreadStates] /\ mutex' \in Threads \cup {NoThread}
        /\ reply' \in Replies /\ Serving' /\ Exclusive'
    BY <1>10, <2>1, AnswerShaped, GotoShaped DEF Confirm, Stages, Replies, Shaped, TypeOK,
       Mutations
  <2>3. deleted' \in Seq(Clients) /\ Len(deleted') <= MaxResults
    BY <1>10, <2>1, RequestFields, NewestKeeps DEF Confirm, Shaped, TypeOK, Mutations
  <2>4. unexcused' \in [Nonces -> Int] /\ creates' \in [Nonces -> Nat]
    BY <1>10, CountersTyped DEF Confirm, Shaped, TypeOK
  <2> QED
    BY <1>10, <2>4, <2>2, <2>3 DEF Confirm, Shaped, TypeOK, ThreadStates, Peers, Pairs,
       store,
       registry, memory, history, budget
<1>11. ASSUME NEW t \in Threads, ReadBack(t) PROVE Shaped'
  <2>1. /\ thread' \in [Threads -> ThreadStates] /\ mutex' \in Threads \cup {NoThread}
        /\ reply' \in Replies /\ Serving' /\ Exclusive'
    BY <1>11, AnswerShaped DEF ReadBack, Replies
  <2> QED
    BY <1>11, <2>1 DEF ReadBack, Shaped, TypeOK, ThreadStates, Peers, Pairs, store,
       registry, memory, history, budget
<1>12. ASSUME NEW t \in Threads, Store(t) PROVE Shaped'
  <2>1. /\ mutex = t /\ ~At(t, "idle") /\ thread[t].request \in Request
        /\ \A u \in Threads \ {t} : ~Past(u)
    BY <1>12, HolderAlone DEF Store, At, Past
  <2>2. /\ thread' \in [Threads -> ThreadStates] /\ mutex' \in Threads \cup {NoThread}
        /\ reply' \in Replies /\ Serving' /\ Exclusive'
    BY <1>12, AnswerShaped DEF Store, Replies
  <2>3. <<thread[t].request.key, Fingerprint(thread[t].request)>> \in Pairs
    BY <1>12, <2>1, RequestFields DEF Store, Shaped, Serving, Pairs, Fingerprint
  <2>4. cache' \in Seq(Pairs) /\ Len(cache') <= MaxResults
    BY <1>12, <2>3, NewestKeeps DEF Store, Shaped, TypeOK, Pairs
  <2>5. unexcused' \in [Nonces -> Int]
    BY <1>12, CountersTyped DEF Store, Shaped, TypeOK
  <2> QED
    BY <1>12, <2>2, <2>4, <2>5 DEF Store, Shaped, TypeOK, ThreadStates, Peers, Pairs, store,
       registry, memory, history, budget
<1>13. ASSUME NEW t \in Threads, CallFails(t) PROVE Shaped'
  <2>1. /\ thread' \in [Threads -> ThreadStates] /\ mutex' \in Threads \cup {NoThread}
        /\ reply' \in Replies /\ Serving' /\ Exclusive'
    BY <1>13, AnswerShaped DEF CallFails, Replies
  <2>2. unexcused' \in [Nonces -> Int] /\ creates' \in [Nonces -> Nat]
    BY <1>13, CountersTyped DEF CallFails, Called, Shaped, TypeOK
  <2> QED
    BY <1>13, <2>2, <2>1 DEF CallFails, Called, Lose, Shaped, TypeOK, ThreadStates, Peers,
       Pairs, store,
       registry, memory, history, budget
<1>14. ASSUME NEW t \in Threads, AnswerLost(t) PROVE Shaped'
  <2>1. /\ mutex = t /\ ~At(t, "idle") /\ thread[t].request \in Request
        /\ \A u \in Threads \ {t} : ~Past(u)
    BY <1>14, HolderAlone DEF AnswerLost, At, Past
  <2>2. /\ thread' \in [Threads -> ThreadStates] /\ mutex' \in Threads \cup {NoThread}
        /\ reply' \in Replies /\ Serving' /\ Exclusive'
    BY <1>14, AnswerShaped DEF AnswerLost, Replies
  <2>3. /\ peers' \in [Clients -> Peers \cup {Registry!Absent}] /\ ledger' \subseteq Nonces
        /\ document' \in [Documents -> Contents] /\ drawn' \subseteq Clients
    BY <1>14, <2>1, EffectShapes DEF AnswerLost, Shaped
  <2>4. unexcused' \in [Nonces -> Int] /\ creates' \in [Nonces -> Nat]
    BY <1>14, CountersTyped DEF AnswerLost, Called, Shaped, TypeOK
  <2> QED
    BY <1>14, <2>4, <2>2, <2>3 DEF AnswerLost, Called, Lose, Shaped, TypeOK, ThreadStates,
       Peers, Pairs,
       store, registry, memory, history, budget
<1>15. ASSUME NEW t \in Threads, CallTimesOut(t) PROVE Shaped'
  <2>1. /\ mutex = t /\ ~At(t, "idle") /\ thread[t].request \in Request
        /\ \A u \in Threads \ {t} : ~Past(u)
    BY <1>15, HolderAlone DEF CallTimesOut, At, Past
  <2>2. /\ thread' \in [Threads -> ThreadStates] /\ mutex' \in Threads \cup {NoThread}
        /\ reply' \in Replies /\ Serving' /\ Exclusive'
    BY <1>15, AnswerShaped DEF CallTimesOut, Replies
  <2>3. unexcused' \in [Nonces -> Int] /\ creates' \in [Nonces -> Nat]
    BY <1>15, CountersTyped DEF CallTimesOut, Called, Shaped, TypeOK
  <2>4. background' \subseteq Helper
    BY <1>15, <2>1, HelpersTyped DEF CallTimesOut, Shaped, TypeOK
  <2> QED
    BY <1>15, <2>2, <2>3, <2>4 DEF CallTimesOut, Called, Excused, Lose, Shaped, TypeOK,
       ThreadStates, Peers, Pairs,
       store, registry, memory, history, budget
<1>16. ASSUME NEW t \in Threads, ConfirmFails(t) PROVE Shaped'
  <2>1. /\ thread' \in [Threads -> ThreadStates] /\ mutex' \in Threads \cup {NoThread}
        /\ reply' \in Replies /\ Serving' /\ Exclusive'
    BY <1>16, AnswerShaped DEF ConfirmFails, Replies
  <2>2. unexcused' \in [Nonces -> Int] /\ creates' \in [Nonces -> Nat]
    BY <1>16, CountersTyped DEF ConfirmFails, Shaped, TypeOK
  <2> QED
    BY <1>16, <2>2, <2>1 DEF ConfirmFails, Lose, Shaped, TypeOK, ThreadStates, Peers, Pairs,
       store, registry, memory, history, budget
<1>17. ASSUME NEW h \in background, LateEffect(h) PROVE Shaped'
  <2>1. h.request \in Request
    BY DEF Shaped, TypeOK, Helper
  <2>2. /\ peers' \in [Clients -> Peers \cup {Registry!Absent}] /\ ledger' \subseteq Nonces
        /\ document' \in [Documents -> Contents] /\ drawn' \subseteq Clients
    BY <1>17, <2>1, EffectShapes DEF LateEffect, Shaped
  <2>3. Serving' /\ Exclusive' /\ reply' \in Replies
    BY <1>17 DEF LateEffect, Shaped, Serving, Exclusive, Past, At, Silent, Replies
  <2>4. unexcused' \in [Nonces -> Int] /\ creates' \in [Nonces -> Nat]
    BY <1>17, CountersTyped DEF LateEffect, Ran, Shaped, TypeOK
  <2> QED
    BY <1>17, <2>4, <2>2, <2>3 DEF LateEffect, Shaped, TypeOK, ThreadStates, Peers, Pairs,
       store,
       registry, memory, history, budget
<1>18. ASSUME NEW h \in background, LateFailure(h) PROVE Shaped'
  <2>1. Serving' /\ Exclusive' /\ reply' \in Replies
    BY <1>18 DEF LateFailure, Shaped, Serving, Exclusive, Past, At, Silent, Replies
  <2> QED
    BY <1>18, <2>1 DEF LateFailure, Shaped, TypeOK, ThreadStates, Peers, Pairs, store,
       registry, memory, history, budget
<1>19. ASSUME Restart PROVE Shaped'
  <2>1. /\ Resting \in ThreadStates /\ Resting.stage = "idle" /\ Resting.request.op = "none"
    BY DEF Resting, NoRequest, ThreadStates, Stages
  <2>2. thread' \in [Threads -> ThreadStates] /\ Serving' /\ Exclusive'
    BY <1>19, <2>1 DEF Restart, Serving, Exclusive, Past, At
  <2>3. \A u \in Threads : At(u, "calling") => thread[u].request \in Request
    BY DEF Shaped, Serving, At
  <2>4. background' \subseteq Helper
    BY <1>19, <2>3, HelpersTyped DEF Restart, Shaped, TypeOK
  <2>5. /\ cache' \in Seq(Pairs) /\ Len(cache') <= MaxResults
        /\ deleted' \in Seq(Clients) /\ Len(deleted') <= MaxResults
    BY <1>19, EmptySeq DEF Restart
  <2>6. unexcused' \in [Nonces -> Int] /\ creates' \in [Nonces -> Nat]
    BY <1>19, CountersTyped DEF Restart, Shaped
  <2> QED
    BY <1>19, <2>2, <2>4, <2>5, <2>6 DEF Restart, Silent, Replies, Shaped, TypeOK,
       ThreadStates, Peers, Pairs, store, registry, memory, history, budget
<1>20. ASSUME UNCHANGED vars PROVE Shaped'
  BY <1>20 DEF vars, Shaped, Serving, Exclusive, Past, At, TypeOK, ThreadStates, Peers,
     Pairs, store, registry, memory, history, budget
<1> QED
  BY <1>1, <1>2, <1>3, <1>4, <1>5, <1>6, <1>7, <1>8, <1>9, <1>10, <1>11, <1>12, <1>13,
     <1>14,
     <1>15, <1>16, <1>17, <1>18, <1>19, <1>20 DEF Next, Work, Failure, Rest

-----------------------------------------------------------------------------
(* A key runs again only for a cause                                       *)

Active == {"recalling", "calling", "confirming", "storing"}

\* When the cache stays as it is, no key under way enters it.
LEMMA UnstoredKept ==
    ASSUME Unstored, NEW t \in Threads, cache' = cache,
           \A u \in Threads \ {t} : thread'[u] = thread[u],
           \/ thread'[t].stage \notin Active
           \/ /\ thread'[t].request = thread[t].request
              /\ \/ thread[t].stage \in Active
                 \/ thread[t].request.op \in Mutations => thread[t].request.key \notin CachedKeys
    PROVE  Unstored'
<1>1. CachedKeys' = CachedKeys
  BY DEF CachedKeys
<1> QED
  BY <1>1 DEF Unstored, Active

\* A success stays where it is when a thread moves that does not bear one.
LEMMA DoneKept ==
    ASSUME NEW t \in Threads, cache' = cache,
           \A u \in Threads \ {t} : thread'[u] = thread[u],
           NEW n,
           \/ thread[t].stage \notin {"confirming", "storing"}
           \/ n \notin KeyOf(thread[t].request)
           \/ thread'[t].stage \in {"confirming", "storing"} /\ thread'[t].request = thread[t].request,
           Done(n)
    PROVE  Done(n)'
<1>1. CachedKeys' = CachedKeys
  BY DEF CachedKeys
<1>2. CASE n \in CachedKeys
  BY <1>1, <1>2 DEF Done
<1>3. CASE n \notin CachedKeys
  <2>1. PICK u \in Threads : /\ thread[u].stage \in {"confirming", "storing"}
                             /\ n \in KeyOf(thread[u].request)
    BY <1>3 DEF Done
  <2>2. thread'[u].stage \in {"confirming", "storing"} /\ thread'[u].request = thread[u].request
    BY <2>1
  <2> QED
    BY <2>1, <2>2 DEF Done, KeyOf
<1> QED
  BY <1>2, <1>3

\* The account stays balanced when nothing is carried out and no success is forgotten.
LEMMA AccountedKept ==
    ASSUME TypeOK, Accounted, UNCHANGED <<background, unexcused>>,
           \A n \in Nonces : Done(n) => Done(n)'
    PROVE  Accounted'
<1>1. \A n \in Nonces : Cardinality(Of(background, n)) \in Nat
  BY HelpersCounted DEF Accounted
<1>2. \A n \in Nonces : Of(background, n)' = Of(background, n)
  BY DEF Of, KeyOf
<1>3. unexcused \in [Nonces -> Int]
  BY DEF TypeOK
<1> QED
  BY <1>1, <1>2, <1>3 DEF Accounted

\* No creation becomes due.
LEMMA SpentKept ==
    ASSUME Spent, UNCHANGED <<nonces, creates>>, NEW t \in Threads,
           \A u \in Threads \ {t} : thread'[u] = thread[u],
           thread'[t].stage # "calling" \/ NonceOf(thread'[t].request) = {}
    PROVE  Spent'
<1>1. \A n \in Nonces : creates'[n] <= IF n \in nonces' THEN 1 ELSE 0
  BY DEF Spent
<1>2. \A u \in Threads : thread'[u].stage = "calling" =>
          \A n \in NonceOf(thread'[u].request) : n \in nonces' /\ creates'[n] = 0
  BY DEF Spent, At
<1> QED
  BY <1>1, <1>2 DEF Spent, At, NonceOf

\* A step of a thread that neither calls the helper nor bears a success.
LEMMA QuietStep ==
    ASSUME TypeOK, Excusable, NEW t \in Threads,
           UNCHANGED <<cache, background, nonces, unexcused, creates>>,
           \A u \in Threads \ {t} : thread'[u] = thread[u],
           \/ thread'[t].stage \notin Active
           \/ /\ thread'[t].request = thread[t].request
              /\ \/ thread[t].stage \in Active
                 \/ thread[t].request.op \in Mutations => thread[t].request.key \notin CachedKeys,
           \/ thread[t].stage \notin {"confirming", "storing"}
           \/ KeyOf(thread[t].request) = {},
           thread'[t].stage # "calling" \/ NonceOf(thread'[t].request) = {}
    PROVE  Excusable'
<1>1. Unstored'
  BY UnstoredKept DEF Excusable
<1>2. \A n \in Nonces : Done(n) => Done(n)'
  BY DoneKept
<1>3. Accounted'
  BY <1>2, AccountedKept DEF Excusable
<1>4. Spent'
  BY SpentKept DEF Excusable
<1> QED
  BY <1>1, <1>3, <1>4 DEF Excusable

\* A call of the helper is the first for a nonce that is spent.
LEMMA CalledSpends ==
    ASSUME Shaped, Spent, NEW t \in Threads, At(t, "calling"), Called(thread[t].request),
           nonces' = nonces, \A u \in Threads \ {t} : thread'[u] = thread[u],
           thread'[t].stage # "calling"
    PROVE  Spent'
<1>1. \A u \in Threads : thread'[u].stage # "calling"
  BY HolderAlone DEF Past, At
<1>2. \A n \in NonceOf(thread[t].request) : n \in nonces /\ creates[n] = 0
  BY DEF Spent
<1>3. creates' = Counted(creates, NonceOf(thread[t].request)) /\ creates \in [Nonces -> Nat]
  BY DEF Called, Shaped, TypeOK
<1>4. \A n \in Nonces : creates'[n] <= IF n \in nonces' THEN 1 ELSE 0
  <2> SUFFICES ASSUME NEW n \in Nonces PROVE creates'[n] <= IF n \in nonces THEN 1 ELSE 0
    OBVIOUS
  <2>1. creates'[n] = creates[n] + (IF n \in NonceOf(thread[t].request) THEN 1 ELSE 0)
    BY <1>3 DEF Counted
  <2>2. creates[n] \in Nat /\ creates[n] <= IF n \in nonces THEN 1 ELSE 0
    BY <1>3 DEF Spent
  <2> QED
    BY <1>2, <2>1, <2>2
<1> QED
  BY <1>1, <1>4 DEF Spent, At

\* A call that does nothing without a cause to repeat it, and ends the request.
LEMMA FruitlessCall ==
    ASSUME Shaped, Excusable, NEW t \in Threads, At(t, "calling"), Called(thread[t].request),
           UNCHANGED <<cache, background, nonces, unexcused>>,
           \A u \in Threads \ {t} : thread'[u] = thread[u],
           thread'[t] = Resting
    PROVE  Excusable'
<1>1. thread'[t].stage = "idle"
  BY DEF Resting
<1>2. Unstored'
  BY <1>1, UnstoredKept DEF Excusable, Active
<1>3. \A n \in Nonces : Done(n) => Done(n)'
  BY DoneKept DEF At
<1>4. Accounted'
  BY <1>3, AccountedKept DEF Excusable, Shaped
<1>5. Spent'
  BY <1>1, CalledSpends DEF Excusable
<1> QED
  BY <1>2, <1>4, <1>5 DEF Excusable

\* Nobody has had a success with the key of a mutation that is due.
LEMMA CallIsFirst ==
    ASSUME Shaped, Unstored, NEW t \in Threads, At(t, "calling"), NEW n \in KeyOf(thread[t].request)
    PROVE  ~ Done(n)
<1>1. thread[t].request.op \in Mutations /\ n = thread[t].request.key
  BY DEF KeyOf
<1>2. n \notin CachedKeys
  BY <1>1 DEF Unstored, At
<1>3. \A u \in Threads : thread[u].stage \notin {"confirming", "storing"}
  BY HolderAlone DEF Past, At
<1> QED
  BY <1>2, <1>3 DEF Done

\* The run of a call becomes the success of its key.
LEMMA CallAccounted ==
    ASSUME Shaped, Excusable, NEW t \in Threads, Call(t)
    PROVE  Excusable'
<1> DEFINE r == thread[t].request
<1>1. At(t, "calling") /\ Called(r) /\ Ran(r) /\ UNCHANGED <<background, memory>>
  BY DEF Call
<1>2. r \in Request
  BY <1>1, HolderAlone DEF At, Past
<1>3. /\ \A u \in Threads \ {t} : thread'[u] = thread[u]
      /\ \/ thread'[t].stage = "idle" /\ r.op \notin Mutations
         \/ thread'[t].request = r /\ thread'[t].stage \in {"confirming", "storing"}
  <2>1. r.op \in Mutations \cup {"create", "edit"}
    BY <1>2, RequestFields
  <2>2. \/ Answer(t, "ok") /\ r.op \notin Mutations
        \/ Goto(t, "confirming") \/ Goto(t, "storing")
    BY <2>1 DEF Call, Succeed, Mutations
  <2> QED
    BY <2>2, AnswerRests, GotoMoves DEF Shaped, Replies, Stages, Resting
<1>4. cache' = cache /\ nonces' = nonces
  BY <1>1 DEF memory
<1>5. Unstored'
  BY <1>1, <1>3, <1>4, UnstoredKept DEF Excusable, Active, At
<1>6. Spent'
  BY <1>1, <1>3, <1>4, CalledSpends DEF Excusable
<1>7. \A n \in Nonces : Of(background, n)' = Of(background, n)
  BY <1>1 DEF Of, KeyOf
<1>8. ASSUME NEW n \in Nonces
      PROVE  unexcused'[n] + Cardinality(Of(background, n)) <= IF Done(n)' THEN 1 ELSE 0
  <2>1. unexcused'[n] = unexcused[n] + (IF n \in KeyOf(r) THEN 1 ELSE 0)
    BY <1>1 DEF Ran, Counted
  <2>2. unexcused[n] \in Int /\ Cardinality(Of(background, n)) \in Nat
    BY HelpersCounted DEF Excusable, Accounted, Shaped, TypeOK
  <2>3. unexcused[n] + Cardinality(Of(background, n)) <= IF Done(n) THEN 1 ELSE 0
    BY DEF Excusable, Accounted
  <2>4. CASE n \in KeyOf(r)
    <3>1. ~ Done(n)
      BY <1>1, <2>4, CallIsFirst DEF Excusable
    <3>2. thread'[t].request = r /\ thread'[t].stage \in {"confirming", "storing"}
      BY <1>3, <2>4 DEF KeyOf
    <3>3. Done(n)'
      BY <2>4, <3>2 DEF Done, KeyOf
    <3> QED
      BY <2>1, <2>2, <2>3, <2>4, <3>1, <3>3
  <2>5. CASE n \notin KeyOf(r)
    <3>1. Done(n) => Done(n)'
      BY <1>3, <1>4, <2>5, DoneKept
    <3> QED
      BY <2>1, <2>2, <2>3, <2>5, <3>1
  <2> QED
    BY <2>4, <2>5
<1>9. Accounted'
  BY <1>1, <1>7, <1>8 DEF Excusable, Accounted
<1> QED
  BY <1>5, <1>6, <1>9 DEF Excusable

\* A helper that is left behind has its cause.
LEMMA TimeOutAccounted ==
    ASSUME Shaped, Excusable, NEW t \in Threads, CallTimesOut(t)
    PROVE  Excusable'
<1> DEFINE r == thread[t].request
           h == LeftBehind(r)
<1>1. /\ At(t, "calling") /\ Called(r) /\ Excused(KeyOf(r))
      /\ background' = background \cup {h} /\ UNCHANGED memory
  BY DEF CallTimesOut
<1>2. /\ \A u \in Threads \ {t} : thread'[u] = thread[u]
      /\ thread'[t].stage = "idle"
  BY AnswerRests DEF CallTimesOut, Shaped, Replies, Resting
<1>3. cache' = cache /\ nonces' = nonces
  BY <1>1 DEF memory
<1>4. Unstored'
  BY <1>2, <1>3, UnstoredKept DEF Excusable, Active
<1>5. Spent'
  BY <1>1, <1>2, <1>3, CalledSpends DEF Excusable
<1>6. h.request = r
  BY DEF LeftBehind
<1> HIDE DEF h
<1>7. ASSUME NEW n \in Nonces
      PROVE  unexcused'[n] + Cardinality(Of(background', n)) <= IF Done(n)' THEN 1 ELSE 0
  <2>1. unexcused'[n] = unexcused[n] - (IF n \in KeyOf(r) THEN 1 ELSE 0)
    BY <1>1 DEF Excused
  <2>2. /\ unexcused[n] \in Int /\ Cardinality(Of(background, n)) \in Nat
        /\ Cardinality(Of(background', n)) \in Nat
        /\ n \in KeyOf(r) => Cardinality(Of(background', n)) <= Cardinality(Of(background, n)) + 1
        /\ n \notin KeyOf(r) => Of(background', n) = Of(background, n)
    BY <1>1, <1>6, HelpersCounted DEF Excusable, Accounted, Shaped, TypeOK
  <2>3. unexcused[n] + Cardinality(Of(background, n)) <= IF Done(n) THEN 1 ELSE 0
    BY DEF Excusable, Accounted
  <2>4. Done(n) => Done(n)'
    BY <1>1, <1>2, <1>3, DoneKept DEF At
  <2> QED
    BY <2>1, <2>2, <2>3, <2>4
<1>8. IsFiniteSet(background')
  BY <1>1, HelpersCounted DEF Excusable, Accounted
<1>9. Accounted'
  BY <1>7, <1>8 DEF Accounted, Of, KeyOf
<1> QED
  BY <1>4, <1>5, <1>9 DEF Excusable

\* A helper that was left behind leaves, after its run or without one.
LEMMA LateAccounted ==
    ASSUME Shaped, Excusable, NEW h \in background, LateEffect(h) \/ LateFailure(h)
    PROVE  Excusable'
<1>1. UNCHANGED <<thread, cache, nonces, creates>> /\ background' = background \ {h}
  BY DEF LateEffect, LateFailure, memory, history
<1>2. Unstored' /\ Spent'
  BY <1>1 DEF Excusable, Unstored, Spent, At, CachedKeys, NonceOf
<1>3. ASSUME NEW n \in Nonces
      PROVE  unexcused'[n] + Cardinality(Of(background', n)) <= IF Done(n)' THEN 1 ELSE 0
  <2>1. /\ unexcused[n] \in Int /\ Cardinality(Of(background, n)) \in Nat
        /\ Cardinality(Of(background', n)) \in Nat
        /\ n \in KeyOf(h.request) =>
               Cardinality(Of(background', n)) = Cardinality(Of(background, n)) - 1
        /\ Cardinality(Of(background', n)) <= Cardinality(Of(background, n))
    BY <1>1, HelpersCounted DEF Excusable, Accounted, Shaped, TypeOK
  <2>2. \/ unexcused'[n] = unexcused[n] + (IF n \in KeyOf(h.request) THEN 1 ELSE 0)
        \/ unexcused'[n] = unexcused[n]
    BY DEF LateEffect, LateFailure, history, Ran, Counted
  <2>3. unexcused[n] + Cardinality(Of(background, n)) <= IF Done(n) THEN 1 ELSE 0
    BY DEF Excusable, Accounted
  <2>4. Done(n)' <=> Done(n)
    BY <1>1 DEF Done, CachedKeys, KeyOf
  <2> QED
    BY <2>1, <2>2, <2>3, <2>4
<1>4. IsFiniteSet(background')
  BY <1>1, HelpersCounted DEF Excusable, Accounted
<1>5. Accounted'
  BY <1>3, <1>4 DEF Accounted, Of, KeyOf
<1> QED
  BY <1>2, <1>5 DEF Excusable

\* A confirmation that fails forgets a success, and is a cause to repeat it.
LEMMA ConfirmAccounted ==
    ASSUME Shaped, Excusable, NEW t \in Threads, Confirm(t) \/ ConfirmFails(t)
    PROVE  Excusable'
<1> DEFINE r == thread[t].request
<1>1. UNCHANGED <<cache, nonces, creates, background>>
  BY DEF Confirm, ConfirmFails, memory
<1>2. /\ \A u \in Threads \ {t} : thread'[u] = thread[u]
      /\ \/ thread'[t].stage = "idle"
         \/ At(t, "confirming") /\ thread'[t].request = r /\ thread'[t].stage = "storing"
  BY AnswerRests, GotoMoves DEF Confirm, ConfirmFails, Shaped, Replies, Stages, Resting
<1>3. Unstored'
  BY <1>1, <1>2, UnstoredKept DEF Excusable, Active, At
<1>4. Spent'
  BY <1>1, <1>2, SpentKept DEF Excusable
<1>5. thread[t].stage # "storing"
  BY DEF Confirm, ConfirmFails, At
<1>6. ASSUME NEW n \in Nonces
      PROVE  unexcused'[n] + Cardinality(Of(background, n)) <= IF Done(n)' THEN 1 ELSE 0
  <2>1. unexcused[n] \in Int /\ Cardinality(Of(background, n)) \in Nat
    BY HelpersCounted DEF Excusable, Accounted, Shaped, TypeOK
  <2>2. unexcused[n] + Cardinality(Of(background, n)) <= IF Done(n) THEN 1 ELSE 0
    BY DEF Excusable, Accounted
  <2>3. \/ unexcused'[n] = unexcused[n] - 1
        \/ /\ unexcused'[n] = unexcused[n]
           /\ \/ n \notin KeyOf(r) \/ ~At(t, "confirming")
              \/ thread'[t].request = r /\ thread'[t].stage = "storing"
    <3>1. CASE Confirm(t)
      <4>1. CASE Excused(KeyOf(r))
        BY <4>1, <3>1, <2>1 DEF Excused, Confirm
      <4>2. CASE unexcused' = unexcused /\ Goto(t, "storing")
        BY <4>2, GotoMoves DEF Shaped, Stages
      <4> QED
        BY <3>1, <4>1, <4>2 DEF Confirm
    <3>2. CASE ConfirmFails(t)
      <4>1. CASE At(t, "confirming")
        <5>1. Excused(KeyOf(r))
          BY <3>2, <4>1 DEF ConfirmFails
        <5> QED
          BY <5>1, <2>1 DEF Excused
      <4>2. CASE ~At(t, "confirming")
        <5>1. Excused({})
          BY <3>2, <4>2 DEF ConfirmFails
        <5> QED
          BY <5>1, <4>2, <2>1 DEF Excused
      <4> QED
        BY <4>1, <4>2
    <3> QED
      BY <3>1, <3>2
  <2>4. unexcused'[n] = unexcused[n] => (Done(n) => Done(n)')
    BY <1>1, <1>2, <1>5, <2>1, <2>3, DoneKept DEF At
  <2> QED
    BY <2>1, <2>2, <2>3, <2>4
<1>7. Accounted'
  BY <1>1, <1>6 DEF Excusable, Accounted, Of, KeyOf
<1> QED
  BY <1>3, <1>4, <1>7 DEF Excusable

\* A success enters the cache, and one that leaves it is a cause.
LEMMA StoreAccounted ==
    ASSUME Shaped, Excusable, NEW t \in Threads, Store(t)
    PROVE  Excusable'
<1> DEFINE r == thread[t].request
           e == <<r.key, Fingerprint(r)>>
<1>1. At(t, "storing") /\ r \in Request /\ r.op \in Mutations
      /\ \A u \in Threads \ {t} : ~Past(u)
  BY HolderAlone DEF Store, Shaped, Serving, At, Past
<1>2. e \in Pairs /\ r.key \in Nonces
  BY <1>1, RequestFields DEF Pairs, Fingerprint
<1>3. r.key \notin CachedKeys
  BY <1>1 DEF Excusable, Unstored, At
<1>4. cache' = Newest(Append(cache, e))
  BY DEF Store
<1>5. cache \in Seq(Pairs) /\ Len(cache) <= MaxResults
  BY DEF Shaped, TypeOK, Pairs
<1>6. e[1] = r.key
  OBVIOUS
<1> HIDE DEF e
<1>7. Range(cache') \subseteq Range(cache) \cup {e} /\ e \in Range(cache')
  BY <1>2, <1>4, <1>5, NewestKeeps
<1>8. CachedKeys' = {x[1] : x \in Range(cache')}
  BY DEF CachedKeys, Range
<1>9. CachedKeys' \subseteq CachedKeys \cup {r.key} /\ r.key \in CachedKeys'
  BY <1>6, <1>7, <1>8, KeysOfEntries
<1>10. UNCHANGED <<background, nonces, creates>>
  BY DEF Store
<1>11. /\ thread'[t].stage = "idle"
       /\ \A u \in Threads \ {t} : thread'[u] = thread[u]
  BY AnswerRests DEF Store, Shaped, Replies, Resting
<1>12. \A u \in Threads : thread'[u].stage \in {"idle", "waiting"}
  BY <1>1, <1>11 DEF Past
<1>13. Unstored'
  BY <1>12 DEF Unstored
<1>14. Spent'
  BY <1>10, <1>11, SpentKept DEF Excusable
<1>15. ASSUME NEW n \in Nonces
       PROVE  unexcused'[n] + Cardinality(Of(background, n)) <= IF Done(n)' THEN 1 ELSE 0
  <2>1. unexcused'[n] = unexcused[n] - (IF n \in CachedKeys /\ n \notin CachedKeys' THEN 1 ELSE 0)
    BY <1>8 DEF Store, Excused
  <2>2. unexcused[n] \in Int /\ Cardinality(Of(background, n)) \in Nat
    BY HelpersCounted DEF Excusable, Accounted, Shaped, TypeOK
  <2>3. unexcused[n] + Cardinality(Of(background, n)) <= IF Done(n) THEN 1 ELSE 0
    BY DEF Excusable, Accounted
  <2>4. Done(n) => n \in CachedKeys \/ n = r.key
    BY <1>1 DEF Done, KeyOf, Past
  <2>5. n \in CachedKeys' => Done(n)'
    BY DEF Done
  <2> HIDE DEF r
  <2> QED
    BY <1>9, <2>1, <2>2, <2>3, <2>4, <2>5
<1>16. Accounted'
  BY <1>10, <1>15 DEF Excusable, Accounted, Of, KeyOf
<1> QED
  BY <1>13, <1>14, <1>16 DEF Excusable

\* A restart forgets every success, and is a cause; of the helpers it finds at work, one
\* at most, it leaves behind what it cannot kill.
LEMMA RestartAccounted ==
    ASSUME Shaped, Excusable, Restart
    PROVE  Excusable'
<1> DEFINE borne(n) == \/ n \in CachedKeys
                       \/ \E t \in Threads : /\ thread[t].stage \in {"calling", "confirming", "storing"}
                                             /\ n \in KeyOf(thread[t].request)
<1>1. /\ \A u \in Threads : thread'[u].stage = "idle"
      /\ CachedKeys' = {} /\ nonces' = {}
      /\ \A n \in Nonces : creates'[n] = 0
  BY DEF Restart, Resting, CachedKeys
<1>2. Unstored' /\ Spent'
  BY <1>1 DEF Unstored, Spent, At
<1>3. \A n \in Nonces : unexcused'[n] = unexcused[n] - (IF borne(n) THEN 1 ELSE 0)
  <2>1. \A n : borne(n) <=>
          n \in CachedKeys \cup UNION {KeyOf(thread[t].request) :
                 t \in {u \in Threads : thread[u].stage \in {"calling", "confirming", "storing"}}}
    OBVIOUS
  <2> QED
    BY <2>1 DEF Restart, Excused
<1>4. PICK called \in SUBSET {t \in Threads : At(t, "calling")} :
          background' = background \cup {LeftBehind(thread[t].request) : t \in called}
  BY DEF Restart
<1>5. CASE called = {}
  <2>1. background' = background
    BY <1>4, <1>5
  <2>2. ASSUME NEW n \in Nonces
        PROVE  unexcused'[n] + Cardinality(Of(background, n)) <= 0
    <3>1. unexcused[n] \in Int /\ Cardinality(Of(background, n)) \in Nat
      BY HelpersCounted DEF Excusable, Accounted, Shaped, TypeOK
    <3>2. unexcused[n] + Cardinality(Of(background, n)) <= IF Done(n) THEN 1 ELSE 0
      BY DEF Excusable, Accounted
    <3>3. Done(n) => borne(n)
      BY DEF Done
    <3> HIDE DEF borne
    <3> QED
      BY <1>3, <3>1, <3>2, <3>3
  <2>3. IsFiniteSet(background)
    BY DEF Excusable, Accounted
  <2>4. \A n \in Nonces : ~ Done(n)'
    BY <1>1 DEF Done
  <2> QED
    BY <1>2, <2>1, <2>2, <2>3, <2>4 DEF Excusable, Accounted, Of, KeyOf
<1>6. CASE called # {}
  <2>1. PICK t \in called : TRUE
    BY <1>6
  <2> DEFINE h == LeftBehind(thread[t].request)
  <2>2. t \in Threads /\ At(t, "calling")
    BY <2>1
  <2>3. called = {t}
    BY <2>1, <2>2, HolderAlone DEF At, Past
  <2>4. background' = background \cup {h} /\ h.request = thread[t].request
    BY <1>4, <2>3 DEF LeftBehind
  <2> HIDE DEF h
  <2>5. ASSUME NEW n \in Nonces
        PROVE  unexcused'[n] + Cardinality(Of(background', n)) <= 0
    <3>1. /\ unexcused[n] \in Int /\ Cardinality(Of(background, n)) \in Nat
          /\ Cardinality(Of(background', n)) \in Nat
          /\ n \in KeyOf(h.request) =>
                 Cardinality(Of(background', n)) <= Cardinality(Of(background, n)) + 1
          /\ n \notin KeyOf(h.request) => Of(background', n) = Of(background, n)
      BY <2>4, HelpersCounted DEF Excusable, Accounted, Shaped, TypeOK
    <3>2. unexcused[n] + Cardinality(Of(background, n)) <= IF Done(n) THEN 1 ELSE 0
      BY DEF Excusable, Accounted
    <3>3. Done(n) => borne(n)
      BY DEF Done
    <3>4. n \in KeyOf(h.request) => borne(n) /\ ~ Done(n)
      BY <2>2, <2>4, CallIsFirst DEF Excusable, At
    <3> HIDE DEF borne
    <3> QED
      BY <1>3, <3>1, <3>2, <3>3, <3>4
  <2>6. IsFiniteSet(background')
    BY <2>4, HelpersCounted DEF Excusable, Accounted
  <2>7. \A n \in Nonces : ~ Done(n)'
    BY <1>1 DEF Done
  <2> QED
    BY <1>2, <2>5, <2>6, <2>7 DEF Excusable, Accounted, Of, KeyOf
<1> QED
  BY <1>5, <1>6

\* A nonce that is spent has not been used.
LEMMA NonceSpends ==
    ASSUME Shaped, Excusable, NEW t \in Threads, SpendNonce(t)
    PROVE  Excusable'
<1> DEFINE k == thread[t].request.key
<1>1. /\ thread[t].request.op = "create" /\ At(t, "looking")
      /\ UNCHANGED <<cache, background, unexcused, creates>>
  BY DEF SpendNonce, history
<1>2. /\ \A u \in Threads \ {t} : thread'[u] = thread[u]
      /\ \/ thread'[t].stage = "idle" /\ nonces' = nonces
         \/ /\ thread'[t].request = thread[t].request /\ thread'[t].stage = "calling"
            /\ k \notin nonces /\ nonces' = nonces \cup {k}
  BY AnswerRests, GotoMoves DEF SpendNonce, Shaped, Replies, Stages, Resting
<1>3. thread[t].request.op \notin Mutations
  BY <1>1 DEF Mutations
<1>4. Unstored'
  BY <1>1, <1>2, <1>3, UnstoredKept DEF Excusable, Active
<1>5. \A n \in Nonces : Done(n) => Done(n)'
  BY <1>1, <1>2, DoneKept DEF At
<1>6. Accounted'
  BY <1>1, <1>5, AccountedKept DEF Excusable, Shaped
<1>7. CASE nonces' = nonces /\ thread'[t].stage = "idle"
  BY <1>1, <1>2, <1>4, <1>6, <1>7, SpentKept DEF Excusable
<1>8. CASE nonces' # nonces \/ thread'[t].stage # "idle"
  <2>1. /\ thread'[t].request = thread[t].request
        /\ k \notin nonces /\ nonces' = nonces \cup {k}
    BY <1>2, <1>8
  <2>2. \A u \in Threads \ {t} : thread'[u].stage # "calling"
    BY <1>1, <1>2, HolderAlone DEF At, Past
  <2>3. NonceOf(thread'[t].request) = {k} /\ k \in Nonces
    <3>1. thread[t].request \in Request
      BY <1>1, HolderAlone DEF At, Past
    <3> QED
      BY <1>1, <2>1, <3>1, RequestFields DEF NonceOf
  <2>4. creates[k] = 0
    <3>1. creates[k] \in Nat /\ creates[k] <= 0
      BY <2>1, <2>3 DEF Excusable, Spent, Shaped, TypeOK
    <3> QED
      BY <3>1
  <2>5. \A n \in Nonces : creates'[n] <= IF n \in nonces' THEN 1 ELSE 0
    <3>1. \A n \in Nonces : creates[n] \in Nat /\ creates[n] <= IF n \in nonces THEN 1 ELSE 0
      BY DEF Excusable, Spent, Shaped, TypeOK
    <3> QED
      BY <1>1, <2>1, <3>1
  <2>6. \A u \in Threads : thread'[u].stage = "calling" =>
            \A n \in NonceOf(thread'[u].request) : n \in nonces' /\ creates'[n] = 0
    BY <1>1, <2>1, <2>2, <2>3, <2>4
  <2>7. Spent'
    BY <2>5, <2>6 DEF Spent, At, NonceOf
  <2> QED
    BY <1>4, <1>6, <2>7 DEF Excusable
<1> QED
  BY <1>7, <1>8

\* At the start nothing has run.
LEMMA InitExcusable == Init => Excusable
<1> SUFFICES ASSUME Init PROVE Excusable
  OBVIOUS
<1>1. IsFiniteSet(background) /\ \A n : Cardinality(Of(background, n)) = 0
  BY FS_EmptySet DEF Init, Of
<1>2. Accounted
  BY <1>1 DEF Init, Accounted
<1> QED
  BY <1>2 DEF Init, Excusable, Unstored, Spent, Resting, At

\* Every step keeps the account.
LEMMA NextExcusable == Shaped /\ Excusable /\ [Next]_vars => Excusable'
<1> SUFFICES ASSUME Shaped, Excusable, [Next]_vars PROVE Excusable'
  OBVIOUS
<1>0. TypeOK
  BY DEF Shaped
<1>1. ASSUME NEW t \in Threads, NEW r \in Request, Submit(t, r) PROVE Excusable'
  <2>1. /\ \A u \in Threads \ {t} : thread'[u] = thread[u]
        /\ thread'[t].stage = "waiting" /\ thread[t].stage = "idle"
        /\ UNCHANGED <<cache, background, nonces, unexcused, creates>>
    BY <1>1 DEF Submit, Shaped, TypeOK, At, memory, history
  <2> QED
    BY <1>0, <2>1, QuietStep DEF Active
<1>2. ASSUME NEW t \in Threads, Acquire(t) PROVE Excusable'
  <2>1. /\ \A u \in Threads \ {t} : thread'[u] = thread[u]
        /\ thread'[t].stage = "looking" /\ thread[t].stage = "waiting"
        /\ UNCHANGED <<cache, background, nonces, unexcused, creates>>
    BY <1>2, GotoMoves DEF Acquire, Shaped, Stages, At, memory
  <2> QED
    BY <1>0, <2>1, QuietStep DEF Active
<1>3. ASSUME NEW t \in Threads, TimeOut(t) PROVE Excusable'
  <2>1. /\ \A u \in Threads \ {t} : thread'[u] = thread[u]
        /\ thread'[t].stage = "idle" /\ thread[t].stage = "waiting"
        /\ UNCHANGED <<cache, background, nonces, unexcused, creates>>
    BY <1>3, AnswerRests DEF TimeOut, Shaped, Replies, Resting, At, memory, history
  <2> QED
    BY <1>0, <2>1, QuietStep DEF Active
<1>4. ASSUME NEW t \in Threads, LookUp(t) PROVE Excusable'
  <2>1. /\ \A u \in Threads \ {t} : thread'[u] = thread[u]
        /\ thread[t].stage = "looking" /\ thread[t].request.op \in Mutations
        /\ \/ thread'[t].stage = "idle"
           \/ thread'[t].request = thread[t].request /\ thread[t].request.key \notin CachedKeys
        /\ UNCHANGED <<cache, background, nonces, unexcused, creates>>
    BY <1>4, AnswerRests, GotoMoves
       DEF LookUp, Shaped, Replies, Stages, Resting, At, memory, history
  <2>2. thread'[t].stage # "calling" \/ NonceOf(thread'[t].request) = {}
    BY <2>1 DEF NonceOf, Mutations
  <2> QED
    BY <1>0, <2>1, <2>2, QuietStep DEF Active
<1>5. ASSUME NEW t \in Threads, SpendNonce(t) PROVE Excusable'
  BY <1>5, NonceSpends
<1>6. ASSUME NEW t \in Threads, Inspect(t) PROVE Excusable'
  <2>1. /\ \A u \in Threads \ {t} : thread'[u] = thread[u]
        /\ thread[t].stage = "looking" /\ thread[t].request.op = "edit"
        /\ thread'[t].stage = "idle" \/ thread'[t].request = thread[t].request
        /\ UNCHANGED <<cache, background, nonces, unexcused, creates>>
    BY <1>6, AnswerRests, GotoMoves
       DEF Inspect, Shaped, Replies, Stages, Resting, At, memory, history
  <2>2. thread'[t].stage # "calling" \/ NonceOf(thread'[t].request) = {}
    BY <2>1 DEF NonceOf
  <2> QED
    BY <1>0, <2>1, <2>2, QuietStep DEF Active, Mutations
<1>7. ASSUME NEW t \in Threads, Recall(t) PROVE Excusable'
  <2>1. /\ \A u \in Threads \ {t} : thread'[u] = thread[u]
        /\ thread[t].stage = "recalling" /\ thread[t].request.op = "delete"
        /\ thread'[t].request = thread[t].request
        /\ UNCHANGED <<cache, background, nonces, unexcused, creates>>
    BY <1>7, GotoMoves DEF Recall, Shaped, Serving, Stages, At, memory, history
  <2>2. thread'[t].stage # "calling" \/ NonceOf(thread'[t].request) = {}
    BY <2>1 DEF NonceOf
  <2> QED
    BY <1>0, <2>1, <2>2, QuietStep DEF Active
<1>8. ASSUME NEW t \in Threads, Call(t) PROVE Excusable'
  BY <1>8, CallAccounted
<1>9. ASSUME NEW t \in Threads, CallRefused(t) \/ CallFails(t) \/ AnswerLost(t) PROVE Excusable'
  <2>1. /\ \A u \in Threads \ {t} : thread'[u] = thread[u]
        /\ thread'[t] = Resting /\ At(t, "calling") /\ Called(thread[t].request)
        /\ UNCHANGED <<cache, background, nonces, unexcused>>
    BY <1>9, AnswerRests DEF CallRefused, CallFails, AnswerLost, Shaped, Replies, memory
  <2> QED
    BY <2>1, FruitlessCall
<1>10. ASSUME NEW t \in Threads, Confirm(t) \/ ConfirmFails(t) PROVE Excusable'
  BY <1>10, ConfirmAccounted
<1>11. ASSUME NEW t \in Threads, ReadBack(t) PROVE Excusable'
  <2>1. /\ \A u \in Threads \ {t} : thread'[u] = thread[u]
        /\ thread[t].request.op = "edit" /\ thread'[t].stage = "idle"
        /\ UNCHANGED <<cache, background, nonces, unexcused, creates>>
    BY <1>11, AnswerRests DEF ReadBack, Shaped, Replies, Resting, memory, history
  <2>2. KeyOf(thread[t].request) = {}
    BY <2>1 DEF KeyOf, Mutations
  <2> QED
    BY <1>0, <2>1, <2>2, QuietStep DEF Active
<1>12. ASSUME NEW t \in Threads, Store(t) PROVE Excusable'
  BY <1>12, StoreAccounted
<1>13. ASSUME NEW t \in Threads, CallTimesOut(t) PROVE Excusable'
  BY <1>13, TimeOutAccounted
<1>14. ASSUME NEW h \in background, LateEffect(h) \/ LateFailure(h) PROVE Excusable'
  BY <1>14, LateAccounted
<1>15. ASSUME Restart PROVE Excusable'
  BY <1>15, RestartAccounted
<1>16. ASSUME UNCHANGED vars PROVE Excusable'
  BY <1>16 DEF vars, memory, history, Excusable, Unstored, Accounted, Spent, Done, Of, At,
     CachedKeys, KeyOf, NonceOf
<1> QED
  BY <1>1, <1>2, <1>3, <1>4, <1>5, <1>6, <1>7, <1>8, <1>9, <1>10, <1>11, <1>12, <1>13,
     <1>14, <1>15, <1>16 DEF Next, Work, Failure, Rest

\* The state is always well typed.  The helper carries out the mutation of a key once,
\* and once more at most for each cause: an error after a call that may have done it, an
\* eviction, a restart.  A running service calls it at most once for the creation of a
\* nonce (_run_mutation and create_client).
THEOREM RepeatsAreExcused == Spec => []RepeatsHaveCause
<1>1. Init => Shaped /\ Excusable
  BY InitShaped, InitExcusable
<1>2. Shaped /\ Excusable /\ [Next]_vars => (Shaped /\ Excusable)'
  BY NextShaped, NextExcusable
<1>3. ASSUME Shaped, Excusable PROVE RepeatsHaveCause
  <2>1. TypeOK
    BY <1>3 DEF Shaped
  <2>2. ASSUME NEW n \in Nonces PROVE unexcused[n] <= 1 /\ creates[n] <= 1
    <3>1. /\ unexcused[n] \in Int /\ creates[n] \in Nat
          /\ Cardinality(Of(background, n)) \in Nat
      BY <1>3, HelpersCounted DEF Excusable, Accounted, Shaped, TypeOK
    <3>2. /\ unexcused[n] + Cardinality(Of(background, n)) <= IF Done(n) THEN 1 ELSE 0
          /\ creates[n] <= IF n \in nonces THEN 1 ELSE 0
      BY <1>3 DEF Excusable, Accounted, Spent
    <3> QED
      BY <3>1, <3>2
  <2> QED
    BY <2>1, <2>2 DEF RepeatsHaveCause
<1> QED
  BY <1>1, <1>2, <1>3, PTL DEF Spec

-----------------------------------------------------------------------------
(* What is remembered of deletions, and what an "ok" says                   *)

\* A peer that a step leaves drawn and not there.
Buries(c) == c \in drawn' /\ c \notin (Registry!Present)'

\* A step that brings nobody back.
Settles ==
    /\ (Registry!Present)' \subseteq drawn'
    /\ \A c : Buried(c) => Buries(c)
    /\ drawn \subseteq drawn'

\* A step that leaves the registry alone brings nobody back.
LEMMA IdleSettles ==
    ASSUME Remembered, UNCHANGED <<peers, drawn>>
    PROVE  Settles
  BY DEF Remembered, Settles, Buried, Buries, Registry!Present, Registry!Absent

\* What is remembered holds on as long as nobody is brought back, nothing new is
\* remembered, and the thread that moves knows of its client what its stage says.
LEMMA RememberedKept ==
    ASSUME Remembered, Settles, UNCHANGED <<cache, deleted>>, NEW t \in Threads,
           \A u \in Threads \ {t} : thread'[u] = thread[u],
           thread'[t].request.op = "delete" =>
               /\ thread'[t].stage \in {"recalling", "confirming"}
                      => thread'[t].request.client \in drawn'
               /\ thread'[t].stage = "storing" => Buries(thread'[t].request.client)
    PROVE  Remembered'
<1>1. (Registry!Present)' \subseteq drawn'
  BY DEF Settles
<1>2. \A c \in Range(deleted') : Buries(c)
  BY DEF Settles, Remembered
<1>3. \A e \in Range(cache') : e[2][1] = "delete" => Buries(e[2][2])
  BY DEF Settles, Remembered
<1>4. \A u \in Threads \ {t} : thread'[u].request.op = "delete" =>
          /\ thread'[u].stage \in {"recalling", "confirming"}
                 => thread'[u].request.client \in drawn'
          /\ thread'[u].stage = "storing" => Buries(thread'[u].request.client)
  BY DEF Settles, Remembered, At
<1>5. \A u \in Threads : thread'[u].request.op = "delete" =>
          /\ thread'[u].stage \in {"recalling", "confirming"}
                 => thread'[u].request.client \in drawn'
          /\ thread'[u].stage = "storing" => Buries(thread'[u].request.client)
  BY <1>4
<1> QED
  BY <1>1, <1>2, <1>3, <1>5 DEF Remembered, At, Buried, Buries

\* What the helper has done stays done as long as nobody changes it, and a thread that
\* moves to a stage that relies on it is not concerned.
LEMMA EffectiveKept ==
    ASSUME Effective, UNCHANGED <<peers, document, overtaken>>, NEW t \in Threads,
           \A u \in Threads \ {t} : thread'[u] = thread[u],
           \/ thread'[t].stage \notin {"confirming", "storing"}
           \/ thread'[t].request.op = "delete"
    PROVE  Effective'
  BY DEF Effective, At

\* Nothing has to be kept while nobody is past waiting.
LEMMA NobodyRelies ==
    ASSUME \A u \in Threads : thread'[u].stage \notin {"confirming", "storing"}
    PROVE  Effective'
  BY DEF Effective, At

\* Storing the result of a deletion remembers a client that is buried.
LEMMA StoreRemembers ==
    ASSUME Shaped, Remembered, NEW t \in Threads, Store(t)
    PROVE  Remembered'
<1> DEFINE r == thread[t].request
           e == <<r.key, Fingerprint(r)>>
<1>1. At(t, "storing") /\ r \in Request /\ r.op \in Mutations
  BY HolderAlone DEF Store, Shaped, Serving, At, Past
<1>2. e \in Pairs
  BY <1>1, RequestFields DEF Pairs, Fingerprint
<1>3. cache' = Newest(Append(cache, e))
  BY DEF Store
<1>4. cache \in Seq(Pairs) /\ Len(cache) <= MaxResults
  BY DEF Shaped, TypeOK, Pairs
<1>5. e[2][1] = r.op /\ e[2][2] = r.client
  BY DEF Fingerprint
<1> HIDE DEF e
<1>6. Range(cache') \subseteq Range(cache) \cup {e}
  BY <1>2, <1>3, <1>4, NewestKeeps
<1>7. Settles
  BY IdleSettles DEF Store, store, registry
<1>8. r.op = "delete" => Buried(r.client)
  BY <1>1 DEF Remembered
<1>9. \A x \in Range(cache') : x[2][1] = "delete" => Buried(x[2][2])
  BY <1>5, <1>6, <1>8 DEF Remembered
<1>10. /\ thread'[t] = Resting
       /\ \A u \in Threads \ {t} : thread'[u] = thread[u]
  BY AnswerRests DEF Store, Shaped, Replies
<1>11. \A u \in Threads : thread'[u].request.op = "delete" =>
          /\ thread'[u].stage \in {"recalling", "confirming"}
                 => thread'[u].request.client \in drawn
          /\ thread'[u].stage = "storing" => Buried(thread'[u].request.client)
  BY <1>10 DEF Remembered, At, Resting, NoRequest
<1>12. deleted' = deleted /\ drawn' = drawn
  BY DEF Store
<1> QED
  BY <1>7, <1>9, <1>11, <1>12 DEF Remembered, Settles, At, Buried, Buries

\* So does the list of deletions when the peer is no longer listed.
LEMMA ConfirmRemembers ==
    ASSUME Shaped, Remembered, NEW t \in Threads, Confirm(t)
    PROVE  Remembered'
<1> DEFINE c == thread[t].request.client
<1>1. At(t, "confirming") /\ thread[t].request \in Request /\ thread[t].request.op = "delete"
  BY HolderAlone DEF Confirm, Shaped, Serving, At, Past
<1>2. c \in Clients /\ c \in drawn
  BY <1>1, RequestFields DEF Remembered, Mutations
<1>3. Settles
  BY IdleSettles DEF Confirm, store, registry
<1>4. cache' = cache /\ drawn' = drawn /\ deleted \in Seq(Clients) /\ Len(deleted) <= MaxResults
  BY DEF Confirm, Shaped, TypeOK
<1>5. CASE c \in Registry!Present
  <2>1. Answer(t, "error") /\ deleted' = deleted
    BY <1>5 DEF Confirm
  <2>2. /\ thread'[t] = Resting
        /\ \A u \in Threads \ {t} : thread'[u] = thread[u]
    BY <2>1, AnswerRests DEF Shaped, Replies
  <2> QED
    BY <1>3, <1>4, <2>1, <2>2, RememberedKept DEF Resting, NoRequest
<1>6. CASE c \notin Registry!Present
  <2>1. Goto(t, "storing") /\ deleted' = Newest(Append(deleted, c))
    BY <1>6 DEF Confirm
  <2>2. /\ thread'[t].stage = "storing" /\ thread'[t].request = thread[t].request
        /\ \A u \in Threads \ {t} : thread'[u] = thread[u]
    BY <2>1, GotoMoves DEF Shaped, Stages
  <2>3. Range(deleted') \subseteq Range(deleted) \cup {c}
    BY <1>2, <1>4, <2>1, NewestKeeps
  <2>4. Buried(c)
    BY <1>2, <1>6 DEF Buried
  <2>5. \A x \in Range(deleted') : Buries(x)
    BY <1>3, <2>3, <2>4 DEF Remembered, Settles
  <2>6. \A x \in Range(cache') : x[2][1] = "delete" => Buries(x[2][2])
    BY <1>3, <1>4 DEF Remembered, Settles
  <2>7. \A u \in Threads : thread'[u].request.op = "delete" =>
            /\ thread'[u].stage \in {"recalling", "confirming"}
                   => thread'[u].request.client \in drawn'
            /\ thread'[u].stage = "storing" => Buries(thread'[u].request.client)
    BY <1>3, <1>4, <2>2, <2>4 DEF Remembered, Settles, At, Buried, Buries
  <2> QED
    BY <1>3, <2>5, <2>6, <2>7 DEF Remembered, Settles, At, Buried, Buries
<1> QED
  BY <1>5, <1>6

\* The invariant of both properties.
Kept == Shaped /\ Remembered /\ Effective

\* At the start nothing is remembered.
LEMMA InitKept == Init => Remembered /\ Effective
  BY ClientsAssumption DEF Init, Remembered, Effective, Registry!Present, Registry!Absent,
     Range, At,
     Resting, NoRequest

\* Every step keeps what is remembered true and what was done done.
LEMMA NextKept == Kept /\ [Next]_vars => Kept'
<1> SUFFICES ASSUME Kept, [Next]_vars PROVE Kept'
  OBVIOUS
<1> USE DEF Kept
<1>0. Shaped'
  BY NextShaped
<1>1. ASSUME NEW t \in Threads, NEW r \in Request, Submit(t, r) PROVE Remembered' /\ Effective'
  <2>1. /\ \A u \in Threads \ {t} : thread'[u] = thread[u]
        /\ thread'[t].stage = "waiting"
    BY <1>1 DEF Submit, Shaped, TypeOK
  <2>2. Settles /\ UNCHANGED <<cache, deleted, peers, document, overtaken>>
    BY <1>1, IdleSettles DEF Submit, store, registry, memory, history
  <2> QED
    BY <2>1, <2>2, RememberedKept, EffectiveKept DEF Resting, NoRequest
<1>2. ASSUME NEW t \in Threads, Acquire(t) PROVE Remembered' /\ Effective'
  <2>1. /\ \A u \in Threads \ {t} : thread'[u] = thread[u]
        /\ thread'[t].stage = "looking"
    BY <1>2, GotoMoves DEF Acquire, Shaped, Stages
  <2>2. \A u \in Threads : ~Past(u)
    BY <1>2, ThreadsAssumption DEF Acquire, Shaped, Exclusive
  <2>3. Settles /\ UNCHANGED <<cache, deleted>>
    BY <1>2, IdleSettles DEF Acquire, store, registry, memory, history
  <2> QED
    BY <2>1, <2>2, <2>3, RememberedKept, NobodyRelies DEF Past
<1>3. ASSUME NEW t \in Threads, TimeOut(t) PROVE Remembered' /\ Effective'
  <2>1. /\ \A u \in Threads \ {t} : thread'[u] = thread[u]
        /\ thread'[t] = Resting
    BY <1>3, AnswerRests DEF TimeOut, Shaped, Replies
  <2>2. Settles /\ UNCHANGED <<cache, deleted, peers, document, overtaken>>
    BY <1>3, IdleSettles DEF TimeOut, store, registry, memory, history
  <2> QED
    BY <2>1, <2>2, RememberedKept, EffectiveKept DEF Resting, NoRequest
<1>4. ASSUME NEW t \in Threads, LookUp(t) PROVE Remembered' /\ Effective'
  <2>1. /\ \A u \in Threads \ {t} : thread'[u] = thread[u]
        /\ \/ thread'[t] = Resting
           \/ thread'[t].request = thread[t].request /\ thread'[t].stage = "calling"
           \/ /\ thread'[t].request = thread[t].request /\ thread'[t].stage = "recalling"
              /\ thread[t].request.client \in Range(deleted)
    BY <1>4, AnswerRests, GotoMoves DEF LookUp, Shaped, Replies, Stages
  <2>2. Settles /\ UNCHANGED <<cache, deleted, peers, document, overtaken, drawn>>
    BY <1>4, IdleSettles DEF LookUp, store, registry, memory, history
  <2>3. thread'[t].stage = "recalling" => thread'[t].request.client \in drawn'
    BY <2>1, <2>2 DEF Remembered, Buried, Resting
  <2> QED
    BY <2>1, <2>2, <2>3, RememberedKept, EffectiveKept DEF Resting, NoRequest
<1>5. ASSUME NEW t \in Threads, SpendNonce(t) PROVE Remembered' /\ Effective'
  <2>1. /\ \A u \in Threads \ {t} : thread'[u] = thread[u]
        /\ thread'[t] = Resting \/ thread'[t].stage = "calling"
    BY <1>5, AnswerRests, GotoMoves DEF SpendNonce, Shaped, Replies, Stages
  <2>2. Settles /\ UNCHANGED <<cache, deleted, peers, document, overtaken>>
    BY <1>5, IdleSettles DEF SpendNonce, store, registry, memory, history
  <2> QED
    BY <2>1, <2>2, RememberedKept, EffectiveKept DEF Resting, NoRequest
<1>6. ASSUME NEW t \in Threads, Inspect(t) PROVE Remembered' /\ Effective'
  <2>1. /\ \A u \in Threads \ {t} : thread'[u] = thread[u]
        /\ thread'[t] = Resting \/ thread'[t].stage = "calling"
    BY <1>6, AnswerRests, GotoMoves DEF Inspect, Shaped, Replies, Stages
  <2>2. Settles /\ UNCHANGED <<cache, deleted, peers, document, overtaken>>
    BY <1>6, IdleSettles DEF Inspect, store, registry, memory, history
  <2> QED
    BY <2>1, <2>2, RememberedKept, EffectiveKept DEF Resting, NoRequest
<1>7. ASSUME NEW t \in Threads, Recall(t) PROVE Remembered' /\ Effective'
  <2>1. /\ \A u \in Threads \ {t} : thread'[u] = thread[u]
        /\ thread'[t].request = thread[t].request
        /\ \/ thread'[t].stage = "calling"
           \/ thread'[t].stage = "storing" /\ thread[t].request.client \notin Registry!Present
    BY <1>7, GotoMoves DEF Recall, Shaped, Stages
  <2>2. thread[t].request.op = "delete" /\ thread[t].request.client \in drawn
    BY <1>7 DEF Recall, Shaped, Serving, Remembered, At
  <2>3. Settles /\ UNCHANGED <<cache, deleted, peers, document, overtaken>>
    BY <1>7, IdleSettles DEF Recall, store, registry, memory, history
  <2>4. thread'[t].stage = "storing" => Buries(thread'[t].request.client)
    BY <2>1, <2>2, <2>3 DEF Settles, Buried, Buries
  <2> QED
    BY <2>1, <2>2, <2>3, <2>4, RememberedKept, EffectiveKept
<1>8. ASSUME NEW t \in Threads, Call(t) PROVE Remembered' /\ Effective'
  <2>1. /\ thread[t].request \in Request
        /\ \A u \in Threads \ {t} : ~Past(u)
    BY <1>8, HolderAlone DEF Call, At, Past
  <2>2. /\ \A u \in Threads \ {t} : thread'[u] = thread[u]
        /\ \/ thread'[t] = Resting
           \/ /\ thread'[t].request = thread[t].request /\ thread'[t].stage = "confirming"
              /\ thread[t].request.op \in {"delete", "edit"}
           \/ /\ thread'[t].request = thread[t].request /\ thread'[t].stage = "storing"
              /\ thread[t].request.op \in {"enable", "disable"}
    <3>1. thread[t].request.op \in Mutations \cup {"create", "edit"}
      BY <2>1, RequestFields
    <3>2. \/ Answer(t, "ok")
          \/ thread[t].request.op \in {"delete", "edit"} /\ Goto(t, "confirming")
          \/ thread[t].request.op \in {"enable", "disable"} /\ Goto(t, "storing")
      BY <1>8, <3>1 DEF Call, Succeed, Mutations
    <3> QED
      BY <3>2, AnswerRests, GotoMoves DEF Shaped, Replies, Stages
  <2>3. Settles /\ UNCHANGED <<cache, deleted>>
    BY <1>8, <2>1, EffectBuries DEF Call, Shaped, Remembered, Settles, Buried, Buries,
       store, registry, memory, history
  <2>4. /\ thread[t].request.op = "enable" => peers'[thread[t].request.client].status = "enabled"
        /\ thread[t].request.op = "disable" => peers'[thread[t].request.client].status = "disabled"
        /\ thread[t].request.op = "delete" => thread[t].request.client \in drawn'
        /\ thread[t].request.op = "edit" =>
               document'[thread[t].request.document] = thread[t].request.target
    <3>1. Registry!Present \subseteq drawn
      BY DEF Remembered
    <3> QED
      BY <1>8, <2>1, <2>3, <3>1, EffectShapes DEF Call, Shaped, Settles
  <2>5. Remembered'
    BY <2>2, <2>3, <2>4, RememberedKept DEF Resting, NoRequest
  <2>6. Effective'
    BY <2>1, <2>2, <2>4 DEF Effective, Past, At, Resting
  <2> QED
    BY <2>5, <2>6
<1>9. ASSUME NEW t \in Threads, CallRefused(t) PROVE Remembered' /\ Effective'
  <2>1. /\ \A u \in Threads \ {t} : thread'[u] = thread[u]
        /\ thread'[t] = Resting
    BY <1>9, AnswerRests DEF CallRefused, Shaped, Replies
  <2>2. Settles /\ UNCHANGED <<cache, deleted, peers, document, overtaken>>
    BY <1>9, IdleSettles DEF CallRefused, Called, store, registry, memory, history
  <2> QED
    BY <2>1, <2>2, RememberedKept, EffectiveKept DEF Resting, NoRequest
<1>10. ASSUME NEW t \in Threads, Confirm(t) PROVE Remembered' /\ Effective'
  <2>1. Remembered'
    BY <1>10, ConfirmRemembers
  <2>2. /\ \A u \in Threads \ {t} : thread'[u] = thread[u]
        /\ thread'[t] = Resting \/ thread'[t].request.op = "delete"
    BY <1>10, AnswerRests, GotoMoves DEF Confirm, Shaped, Replies, Stages
  <2>3. UNCHANGED <<peers, document, overtaken>>
    BY <1>10 DEF Confirm, store, registry, memory, history
  <2> QED
    BY <2>1, <2>2, <2>3, EffectiveKept DEF Resting
<1>11. ASSUME NEW t \in Threads, ReadBack(t) PROVE Remembered' /\ Effective'
  <2>1. /\ \A u \in Threads \ {t} : thread'[u] = thread[u]
        /\ thread'[t] = Resting
    BY <1>11, AnswerRests DEF ReadBack, Shaped, Replies
  <2>2. Settles /\ UNCHANGED <<cache, deleted, peers, document, overtaken>>
    BY <1>11, IdleSettles DEF ReadBack, store, registry, memory, history
  <2> QED
    BY <2>1, <2>2, RememberedKept, EffectiveKept DEF Resting, NoRequest
<1>12. ASSUME NEW t \in Threads, Store(t) PROVE Remembered' /\ Effective'
  <2>1. Remembered'
    BY <1>12, StoreRemembers
  <2>2. /\ \A u \in Threads \ {t} : thread'[u] = thread[u]
        /\ thread'[t] = Resting
    BY <1>12, AnswerRests DEF Store, Shaped, Replies
  <2>3. UNCHANGED <<peers, document, overtaken>>
    BY <1>12 DEF Store, store, registry, memory, history
  <2> QED
    BY <2>1, <2>2, <2>3, EffectiveKept DEF Resting
<1>13. ASSUME NEW t \in Threads, CallFails(t) PROVE Remembered' /\ Effective'
  <2>1. /\ \A u \in Threads \ {t} : thread'[u] = thread[u]
        /\ thread'[t] = Resting
    BY <1>13, AnswerRests DEF CallFails, Shaped, Replies
  <2>2. Settles /\ UNCHANGED <<cache, deleted, peers, document, overtaken>>
    BY <1>13, IdleSettles DEF CallFails, Called, store, registry, memory, history
  <2> QED
    BY <2>1, <2>2, RememberedKept, EffectiveKept DEF Resting, NoRequest
<1>14. ASSUME NEW t \in Threads, AnswerLost(t) PROVE Remembered' /\ Effective'
  <2>1. /\ thread[t].request \in Request
        /\ \A u \in Threads \ {t} : ~Past(u)
    BY <1>14, HolderAlone DEF AnswerLost, At, Past
  <2>2. /\ \A u \in Threads \ {t} : thread'[u] = thread[u]
        /\ thread'[t] = Resting
    BY <1>14, AnswerRests DEF AnswerLost, Shaped, Replies
  <2>3. Settles /\ UNCHANGED <<cache, deleted>>
    BY <1>14, <2>1, EffectBuries DEF AnswerLost, Shaped, Remembered, Settles, Buried,
       Buries, store, registry, memory, history
  <2>4. Remembered'
    BY <2>2, <2>3, RememberedKept DEF Resting, NoRequest
  <2>5. Effective'
    BY <2>1, <2>2, NobodyRelies DEF Past, Resting
  <2> QED
    BY <2>4, <2>5
<1>15. ASSUME NEW t \in Threads, CallTimesOut(t) PROVE Remembered' /\ Effective'
  <2>1. /\ \A u \in Threads \ {t} : thread'[u] = thread[u]
        /\ thread'[t] = Resting
    BY <1>15, AnswerRests DEF CallTimesOut, Shaped, Replies
  <2>2. Settles /\ UNCHANGED <<cache, deleted, peers, document, overtaken>>
    BY <1>15, IdleSettles DEF CallTimesOut, Called, store, registry, memory, history
  <2> QED
    BY <2>1, <2>2, RememberedKept, EffectiveKept DEF Resting, NoRequest
<1>16. ASSUME NEW t \in Threads, ConfirmFails(t) PROVE Remembered' /\ Effective'
  <2>1. /\ \A u \in Threads \ {t} : thread'[u] = thread[u]
        /\ thread'[t] = Resting
    BY <1>16, AnswerRests DEF ConfirmFails, Shaped, Replies
  <2>2. Settles /\ UNCHANGED <<cache, deleted, peers, document, overtaken>>
    BY <1>16, IdleSettles DEF ConfirmFails, store, registry, memory, history
  <2> QED
    BY <2>1, <2>2, RememberedKept, EffectiveKept DEF Resting, NoRequest
<1>17. ASSUME NEW h \in background, LateEffect(h) PROVE Remembered' /\ Effective'
  <2>1. h.request \in Request
    BY DEF Shaped, TypeOK, Helper
  <2>2. Settles
    BY <1>17, <2>1, EffectBuries DEF LateEffect, Shaped, Remembered, Settles, Buried, Buries
  <2>3. UNCHANGED <<cache, deleted, thread>> /\ overtaken'
    BY <1>17 DEF LateEffect, store, registry, memory, history
  <2>4. Effective'
    BY <2>3 DEF Effective
  <2>5. Remembered'
    BY <2>2, <2>3 DEF Remembered, Settles, At, Buried, Buries
  <2> QED
    BY <2>4, <2>5
<1>18. ASSUME NEW h \in background, LateFailure(h) PROVE Remembered' /\ Effective'
  <2>1. Settles /\ UNCHANGED <<cache, deleted, thread, peers, document, overtaken>>
    BY <1>18, IdleSettles DEF LateFailure, store, registry, memory, history
  <2>2. Effective'
    BY <2>1 DEF Effective, At
  <2>3. Remembered'
    BY <2>1 DEF Remembered, Settles, At, Buried, Buries
  <2> QED
    BY <2>2, <2>3
<1>19. ASSUME Restart PROVE Remembered' /\ Effective'
  <2>1. Settles
    BY <1>19, IdleSettles DEF Restart, store, registry
  <2>2. \A u \in Threads : thread'[u].stage = "idle" /\ thread'[u].request.op = "none"
    BY <1>19 DEF Restart, Resting, NoRequest
  <2>3. Range(cache') = {} /\ Range(deleted') = {}
    BY <1>19 DEF Restart, Range
  <2>4. Effective'
    BY <2>2, NobodyRelies
  <2>5. Remembered'
    BY <2>1, <2>2, <2>3 DEF Remembered, Settles, At, Buried, Buries
  <2> QED
    BY <2>4, <2>5
<1>20. ASSUME UNCHANGED vars PROVE Remembered' /\ Effective'
  <2>1. Settles /\ UNCHANGED <<cache, deleted, thread, peers, document, overtaken>>
    BY <1>20, IdleSettles DEF vars, store, registry, memory, history
  <2>2. Effective'
    BY <2>1 DEF Effective, At
  <2>3. Remembered'
    BY <2>1 DEF Remembered, Settles, At, Buried, Buries
  <2> QED
    BY <2>2, <2>3
<1> QED
  BY <1>0, <1>1, <1>2, <1>3, <1>4, <1>5, <1>6, <1>7, <1>8, <1>9, <1>10, <1>11, <1>12, <1>13,
     <1>14,
     <1>15, <1>16, <1>17, <1>18, <1>19, <1>20 DEF Next, Work, Failure, Rest

\* A client that is remembered as deleted, in the list of deletions or in a cached
\* result, is not in the registry (delete and _remember_deleted).
THEOREM DeletionsHold == Spec => []RememberedDeletionsHold
<1>1. Init => Kept
  BY InitShaped, InitKept DEF Kept
<1>2. Kept => RememberedDeletionsHold
  BY DEF Kept, Remembered, Buried, RememberedDeletionsHold
<1> QED
  BY <1>1, <1>2, NextKept, PTL DEF Spec

\* Only the thread that answers comes to rest, and with its answer.
LEMMA OnlyAnswers ==
    ASSUME Shaped, NEW t \in Threads, NEW o \in Replies, Answer(t, o)
    PROVE  \A u \in Threads : ~At(u, "idle") /\ thread'[u].stage = "idle" => u = t /\ reply' = o
  BY AnswerRests DEF Shaped, At

\* A step that says nothing, or anything but "ok", promises nothing.
LEMMA NothingPromised ==
    ASSUME reply' # "ok"
    PROVE  \A u \in Threads : OkMeansDone(u)
  BY DEF OkMeansDone

\* The helper has done what the thread that is answered at once has asked for.
LEMMA CallDoes ==
    ASSUME Kept, NEW t \in Threads, Call(t), reply' = "ok"
    PROVE  \A u \in Threads : OkMeansDone(u)
<1> DEFINE r == thread[t].request
<1>1. r \in Request
  BY HolderAlone DEF Kept, Call, At, Past
<1>2. r.op \in Mutations \cup {"create", "edit"}
  BY <1>1, RequestFields
<1>3. Answer(t, "ok") /\ r.op \in {"create", "edit"}
  BY <1>2 DEF Call, Succeed, Goto, Silent, Mutations
<1>4. \A u \in Threads : ~At(u, "idle") /\ thread'[u].stage = "idle" => u = t
  BY <1>3, OnlyAnswers DEF Kept, Replies
<1>5. /\ r.op = "create" => r.key \in ledger'
      /\ r.op = "edit" => document'[r.document] = r.target
  BY <1>1, EffectShapes DEF Call, Kept, Shaped
<1> QED
  BY <1>3, <1>4, <1>5 DEF OkMeansDone

\* An edit of the server's settings to what they are is answered at once.
LEMMA InspectFinds ==
    ASSUME Kept, NEW t \in Threads, Inspect(t), reply' = "ok"
    PROVE  \A u \in Threads : OkMeansDone(u)
<1> DEFINE r == thread[t].request
<1>1. /\ Answer(t, "ok") /\ r.op = "edit" /\ r.document = Server
      /\ document[Server] = r.expected /\ r.expected = r.target
  BY DEF Inspect, Goto, Silent, Answer
<1>2. \A u \in Threads : ~At(u, "idle") /\ thread'[u].stage = "idle" => u = t
  BY <1>1, OnlyAnswers DEF Kept, Replies
<1>3. document' = document
  BY DEF Inspect, store
<1> QED
  BY <1>1, <1>2, <1>3 DEF OkMeansDone

\* What update_configuration reads back is what the helper wrote.
LEMMA ReadBackFinds ==
    ASSUME Kept, NEW t \in Threads, ReadBack(t), reply' = "ok"
    PROVE  \A u \in Threads : OkMeansDone(u)
<1> DEFINE r == thread[t].request
<1>1. Answer(t, "ok") /\ r.op = "edit" /\ At(t, "confirming")
  BY DEF ReadBack, Answer
<1>2. \A u \in Threads : ~At(u, "idle") /\ thread'[u].stage = "idle" => u = t
  BY <1>1, OnlyAnswers DEF Kept, Replies
<1>3. document' = document
  BY DEF ReadBack, store
<1>4. ~overtaken => document[r.document] = r.target
  BY <1>1 DEF Kept, Effective
<1> QED
  BY <1>1, <1>2, <1>3, <1>4 DEF OkMeansDone

\* A result is stored while the registry is still in the state that was asked for.
LEMMA StoreFinds ==
    ASSUME Kept, NEW t \in Threads, Store(t)
    PROVE  \A u \in Threads : OkMeansDone(u)
<1> DEFINE r == thread[t].request
<1>1. Answer(t, "ok") /\ At(t, "storing")
  BY DEF Store
<1>2. \A u \in Threads : ~At(u, "idle") /\ thread'[u].stage = "idle" => u = t
  BY <1>1, OnlyAnswers DEF Kept, Replies
<1>3. peers' = peers
  BY DEF Store, store, registry
<1>4. r \in Request /\ r.op \in Mutations
  BY <1>1, HolderAlone DEF Kept, Shaped, Serving, At, Past
<1>5. r.client \in Clients
  BY <1>4, RequestFields
<1>6. ~overtaken => /\ r.op = "enable" => peers[r.client].status = "enabled"
                    /\ r.op = "disable" => peers[r.client].status = "disabled"
  BY <1>1 DEF Kept, Effective
<1>7. r.op = "delete" => peers[r.client] = Registry!Absent
  BY <1>1, <1>5 DEF Kept, Remembered, Buried, Registry!Present
<1> QED
  BY <1>2, <1>3, <1>4, <1>6, <1>7 DEF OkMeansDone, Mutations, Registry!Absent

\* Every step that answers "ok" tells the truth.
LEMMA NextMeansIt == Kept /\ [Next]_vars => [\A t \in Threads : OkMeansDone(t)]_vars
<1> SUFFICES ASSUME Kept, Next PROVE (\A u \in Threads : OkMeansDone(u)) \/ UNCHANGED vars
  OBVIOUS
<1>1. ASSUME NEW t \in Threads, NEW r \in Request, Submit(t, r)
      PROVE  \A u \in Threads : OkMeansDone(u)
  BY <1>1, NothingPromised DEF Submit, Silent
<1>2. ASSUME NEW t \in Threads,
             Acquire(t) \/ TimeOut(t) \/ LookUp(t) \/ SpendNonce(t) \/ Recall(t)
                \/ CallRefused(t) \/ Confirm(t) \/ Failure(t)
      PROVE  \A u \in Threads : OkMeansDone(u)
  BY <1>2, NothingPromised
     DEF Acquire, TimeOut, LookUp, SpendNonce, Recall, CallRefused, Confirm, Failure, CallFails,
         AnswerLost, CallTimesOut, ConfirmFails, Goto, Silent, Answer
<1>3. ASSUME NEW t \in Threads, Inspect(t) \/ Call(t) \/ ReadBack(t) \/ Store(t)
      PROVE  \A u \in Threads : OkMeansDone(u)
  BY <1>3, CallDoes, InspectFinds, ReadBackFinds, StoreFinds, NothingPromised
<1>4. ASSUME NEW h \in background, LateEffect(h) \/ LateFailure(h)
      PROVE  \A u \in Threads : OkMeansDone(u)
  BY <1>4, NothingPromised DEF LateEffect, LateFailure, Silent
<1>5. ASSUME Restart PROVE \A u \in Threads : OkMeansDone(u)
  BY <1>5, NothingPromised DEF Restart, Silent
<1> QED
  BY <1>1, <1>2, <1>3, <1>4, <1>5 DEF Next, Work, Rest

\* An "ok" that is not a repetition is true when it is given, unless a helper that was
\* left behind took effect since the lock was taken (_run_mutation, create_client,
\* update_configuration and update_server_*).
THEOREM AnswersMeanIt == Spec => OkIsEffective
<1>1. Init => Kept
  BY InitShaped, InitKept DEF Kept
<1> QED
  BY <1>1, NextKept, NextMeansIt, PTL DEF Spec, OkIsEffective

=============================================================================
