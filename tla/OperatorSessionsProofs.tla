------------------------ MODULE OperatorSessionsProofs ------------------------
(***************************************************************************)
(* Nobody acts without being signed in, for every number of browsers and   *)
(* tabs, every size and lifetime of the tables, and any number of          *)
(* restarts.                                                               *)
(***************************************************************************)
EXTENDS OperatorSessions, FiniteSetTheorems, SequenceTheorems, WellFoundedInduction, TLAPS

-----------------------------------------------------------------------------
(* The tables                                                              *)

\* A set of natural numbers that is not empty has a first element, which Min is.
LEMMA MinIsFirst ==
    ASSUME NEW S, S \subseteq Nat, S # {}
    PROVE  Min(S) \in S /\ \A a \in S : Min(S) <= a
<1> DEFINE Less == OpToRel(<, Nat)
<1>1. \E a \in S : \A b \in S : ~ (<<b, a>> \in Less)
  BY NatLessThanWellFounded, WFMin
<1>2. \A a, b \in Nat : b < a => <<b, a>> \in Less
  BY DEF OpToRel
<1>3. \A a, b \in Nat : b < a \/ a =< b
  OBVIOUS
<1> HIDE DEF Less
<1>4. \E a \in S : \A b \in S : a =< b
  BY <1>1, <1>2, <1>3, Zenon
<1> QED
  BY <1>4, Zenon DEF Min

\* With one more entry a table of at most MaxSessions entries has no more than that.
LEMMA KeptFits ==
    ASSUME NEW k \in Nat, NEW table \in SUBSET (1..k), Cardinality(table) <= MaxSessions,
           NEW created
    PROVE  /\ Kept(table, created) \subseteq table
           /\ Kept(table, created) \cup {k + 1} \subseteq 1..(k + 1)
           /\ Cardinality(Kept(table, created) \cup {k + 1}) <= MaxSessions
<1> DEFINE living == {n \in table : Young(created[n])}
           rest == Kept(table, created)
<1>1. IsFiniteSet(table) /\ IsFiniteSet(living) /\ living \subseteq table
  <2>1. IsFiniteSet(1..k)
    BY FS_Interval
  <2>2. IsFiniteSet(table)
    BY <2>1, FS_Subset
  <2> QED
    BY <2>2, FS_Subset
<1>2. /\ Cardinality(living) \in Nat /\ Cardinality(living) <= Cardinality(table)
      /\ Cardinality(table) \in Nat /\ MaxSessions \in Nat \ {0}
  BY <1>1, FS_Subset, FS_CardinalityType, TableAssumption
<1>3. rest = IF Cardinality(living) >= MaxSessions THEN living \ {Min(living)} ELSE living
  BY DEF Kept
<1> HIDE DEF rest, living
<1>4. rest \subseteq table /\ IsFiniteSet(rest) /\ Cardinality(rest) + 1 <= MaxSessions
  <2>1. CASE Cardinality(living) >= MaxSessions
    <3>1. living # {}
      BY <1>2, <2>1, FS_EmptySet
    <3>2. Min(living) \in living
      <4>1. living \subseteq Nat
        BY <1>1
      <4> QED
        BY <3>1, <4>1, MinIsFirst
    <3>3. Cardinality(living \ {Min(living)}) = Cardinality(living) - 1
      BY <1>1, <3>2, FS_RemoveElement
    <3>4. rest = living \ {Min(living)}
      BY <1>3, <2>1
    <3>5. IsFiniteSet(rest)
      BY <1>1, <3>4, FS_RemoveElement
    <3>6. Cardinality(rest) + 1 = Cardinality(living)
      BY <1>2, <3>3, <3>4
    <3>7. Cardinality(living) <= MaxSessions
      BY <1>2
    <3> QED
      BY <1>1, <3>4, <3>5, <3>6, <3>7
  <2>2. CASE ~ (Cardinality(living) >= MaxSessions)
    BY <1>1, <1>2, <1>3, <2>2
  <2> QED
    BY <2>1, <2>2
<1>5. k + 1 \notin rest /\ rest \cup {k + 1} \subseteq 1..(k + 1)
  BY <1>4
<1>6. Cardinality(rest \cup {k + 1}) = Cardinality(rest) + 1
  BY <1>4, <1>5, FS_AddElement
<1> QED
  BY <1>4, <1>5, <1>6 DEF rest

\* A table that loses entries still fits.
LEMMA SmallerFits ==
    ASSUME NEW k \in Nat, NEW table \in SUBSET (1..k), Cardinality(table) <= MaxSessions,
           NEW rest \in SUBSET table
    PROVE  Cardinality(rest) <= MaxSessions
<1>1. IsFiniteSet(table)
  <2>1. IsFiniteSet(1..k)
    BY FS_Interval
  <2> QED
    BY <2>1, FS_Subset
<1>2. /\ Cardinality(rest) <= Cardinality(table) /\ Cardinality(rest) \in Nat
      /\ Cardinality(table) \in Nat
  BY <1>1, FS_Subset, FS_CardinalityType
<1> QED
  BY <1>2, TableAssumption

-----------------------------------------------------------------------------
(* The invariant                                                           *)

\* What is in a table was neither logged out nor forgotten.
Enrolled ==
    /\ \A n \in signIns : n \notin loggedOut /\ n > forgotten.signIns
    /\ \A n \in pages : n > forgotten.pages
    /\ forgotten.signIns <= Len(signedAt) /\ forgotten.pages <= Len(servedAt)

\* The inductive invariant.
Sound == TypeOK /\ Enrolled

\* Entering one more sign-in or page keeps the others as they were.
LEMMA Entered ==
    ASSUME NEW issued \in Seq(Time), clock \in Time
    PROVE  /\ Append(issued, clock) \in Seq(Time)
           /\ Len(Append(issued, clock)) = Len(issued) + 1
           /\ Len(issued) \in Nat
           /\ 1..Len(issued) \subseteq 1..(Len(issued) + 1)
  BY AppendProperties

\* What a tab may be.
TabStates == [stage : Stages, page : Pages \cup {None},
              request : [auth : SignIns \cup {None}, page : Pages \cup {None}]]

\* A tab that moves, or whose request is answered, remains one.
LEMMA TabMoves ==
    ASSUME TypeOK, NEW t \in Tabs,
           (\E stage \in Stages : Move(t, stage)) \/ (\E answer \in Replies : Answer(t, answer))
    PROVE  tab' \in [Tabs -> TabStates] /\ reply' \in Replies
<1>1. tab \in [Tabs -> TabStates] /\ tab[t] \in TabStates
  BY DEF TypeOK, TabStates
<1>2. ASSUME NEW stage \in Stages, Move(t, stage)
      PROVE  tab' \in [Tabs -> TabStates] /\ reply' \in Replies
  <2>1. tab' = [tab EXCEPT ![t] = [tab[t] EXCEPT !.stage = stage]] /\ reply' \in Replies
    BY <1>1, <1>2 DEF Move, Silent, Replies
  <2>2. [tab[t] EXCEPT !.stage = stage] \in TabStates
    BY <1>1 DEF TabStates
  <2> QED
    BY <1>1, <2>1, <2>2
<1>3. ASSUME NEW answer \in Replies, Answer(t, answer)
      PROVE  tab' \in [Tabs -> TabStates] /\ reply' \in Replies
  <2> DEFINE new == [tab[t] EXCEPT !.stage = "idle", !.request = NoCookies]
  <2>1. tab' = [tab EXCEPT ![t] = new] /\ reply' \in Replies
    BY <1>1, <1>3 DEF Answer
  <2>2. NoCookies \in [auth : SignIns \cup {None}, page : Pages \cup {None}] /\ "idle" \in Stages
    BY DEF NoCookies, Stages
  <2>3. new \in TabStates
    BY <1>1, <2>2 DEF TabStates
  <2> HIDE DEF new
  <2> QED
    BY <1>1, <2>1, <2>3
<1> QED
  BY <1>2, <1>3

\* Looking up a sign-in takes nothing from the others.
LEMMA LookedFits ==
    ASSUME TypeOK, NEW n
    PROVE  /\ Looked(n) \subseteq signIns /\ Looked(n) \subseteq SignIns
           /\ Cardinality(Looked(n)) <= MaxSessions
<1>1. Looked(n) \subseteq signIns
  BY DEF Looked
<1>2. signedAt \in Seq(Time) /\ Len(signedAt) \in Nat /\ signIns \subseteq 1..Len(signedAt)
      /\ Cardinality(signIns) <= MaxSessions
  BY DEF TypeOK, SignIns
<1> QED
  BY <1>1, <1>2, SmallerFits DEF SignIns

-----------------------------------------------------------------------------
(* The steps                                                               *)

\* A step that enters nothing, and takes from the tables if it changes them.
LEMMA NothingEntered ==
    ASSUME Sound,
           UNCHANGED issues, clock' \in Time,
           signIns' \subseteq signIns, pages' \subseteq pages,
           cookies' \in [Browsers -> [auth : SignIns \cup {None}, page : Pages \cup {None}]],
           tab' \in [Tabs -> TabStates], reply' \in Replies,
           loggedOut' \subseteq SignIns, displaced' \subseteq Pages,
           forgotten' \in [signIns : Nat, pages : Nat], restarts' \in 0..MaxRestarts
    PROVE  TypeOK'
<1>1. signedAt' = signedAt /\ servedAt' = servedAt /\ SignIns' = SignIns /\ Pages' = Pages
  BY DEF issues, SignIns, Pages
<1>2. /\ signedAt \in Seq(Time) /\ servedAt \in Seq(Time)
      /\ Len(signedAt) \in Nat /\ Len(servedAt) \in Nat
      /\ signIns \subseteq 1..Len(signedAt) /\ Cardinality(signIns) <= MaxSessions
      /\ pages \subseteq 1..Len(servedAt) /\ Cardinality(pages) <= MaxSessions
  BY DEF Sound, TypeOK, SignIns, Pages
<1>3. Cardinality(signIns') <= MaxSessions /\ Cardinality(pages') <= MaxSessions
  BY <1>2, SmallerFits
<1>4. signIns' \subseteq SignIns /\ pages' \subseteq Pages
  BY <1>2 DEF SignIns, Pages
<1>5. tab' \in [Tabs -> [stage : Stages, page : Pages' \cup {None},
                         request : [auth : SignIns' \cup {None}, page : Pages' \cup {None}]]]
  BY <1>1 DEF TabStates
<1> QED
  BY <1>1, <1>2, <1>3, <1>4, <1>5 DEF TypeOK

\* The parts of the state that a step leaves alone have their types.
LEMMA Types ==
    ASSUME Sound
    PROVE  /\ clock \in Time /\ tab \in [Tabs -> TabStates] /\ reply \in Replies
           /\ cookies \in [Browsers -> [auth : SignIns \cup {None}, page : Pages \cup {None}]]
           /\ loggedOut \subseteq SignIns /\ displaced \subseteq Pages
           /\ forgotten \in [signIns : Nat, pages : Nat] /\ restarts \in 0..MaxRestarts
           /\ signedAt \in Seq(Time) /\ servedAt \in Seq(Time)
           /\ Len(signedAt) \in Nat /\ Len(servedAt) \in Nat
           /\ signIns \subseteq SignIns /\ pages \subseteq Pages
           /\ "none" \in Replies
  BY DEF Sound, TypeOK, TabStates, Replies

\* The relay looks at a request.
LEMMA AdmitStep == ASSUME Sound, NEW t \in Tabs, Admit(t) PROVE Sound'
<1>1. /\ UNCHANGED <<clock, pages, issues, cookies, history, restarts>>
      /\ signIns' = Looked(tab[t].request.auth)
      /\ Move(t, "admitted") \/ Answer(t, "no_session") \/ Answer(t, "signed_out")
  BY DEF Admit
<1>2. tab' \in [Tabs -> TabStates] /\ reply' \in Replies
  BY <1>1, TabMoves DEF Sound, Stages, Replies
<1>3. signIns' \subseteq signIns
  BY <1>1, LookedFits DEF Sound
<1>4. TypeOK'
  BY <1>1, <1>2, <1>3, Types, NothingEntered DEF history
<1>5. Enrolled'
  BY <1>1, <1>3 DEF Sound, Enrolled, issues, history
<1> QED
  BY <1>4, <1>5 DEF Sound

\* The application answers, or nobody does.
LEMMA AnswerStep == ASSUME Sound, NEW t \in Tabs, Accept(t) \/ Drop(t) PROVE Sound'
<1>1. /\ UNCHANGED <<clock, tables, issues, cookies, history, restarts>>
      /\ \E answer \in Replies : Answer(t, answer)
  BY DEF Accept, Drop, Replies
<1>2. tab' \in [Tabs -> TabStates] /\ reply' \in Replies
  BY <1>1, TabMoves DEF Sound
<1>3. TypeOK'
  BY <1>1, <1>2, Types, NothingEntered DEF history, tables
<1>4. Enrolled'
  BY <1>1 DEF Sound, Enrolled, issues, history, tables
<1> QED
  BY <1>3, <1>4 DEF Sound

\* A sign-in is revoked.
LEMMA LogoutStep == ASSUME Sound, NEW b \in Browsers, Logout(b) PROVE Sound'
<1> DEFINE n == cookies[b].auth
<1>1. UNCHANGED <<clock, pages, issues, tab, displaced, forgotten, restarts>> /\ reply' = "none"
  BY DEF Logout, Silent
<1>2. n \in SignIns \cup {None} /\ n # None
  BY Types DEF Logout
<1>3. /\ signIns' \subseteq signIns /\ loggedOut' \subseteq SignIns
      /\ cookies' \in [Browsers -> [auth : SignIns \cup {None}, page : Pages \cup {None}]]
      /\ \A k \in signIns' : k \notin loggedOut'
  <2>1. CASE Actor(n)
    <3>1. /\ signIns' = signIns \ {n} /\ loggedOut' = loggedOut \cup {n}
          /\ cookies' = [cookies EXCEPT ![b].auth = None]
      BY <2>1 DEF Logout
    <3> QED
      BY <1>2, <3>1, Types DEF Sound, Enrolled
  <2>2. CASE ~ Actor(n)
    <3>1. signIns' = Looked(n) /\ UNCHANGED <<loggedOut, cookies>>
      BY <2>2 DEF Logout
    <3>2. Looked(n) \subseteq signIns
      BY LookedFits DEF Sound
    <3> QED
      BY <3>1, <3>2, Types DEF Sound, Enrolled
  <2> QED
    BY <2>1, <2>2
<1>4. TypeOK'
  BY <1>1, <1>3, Types, NothingEntered
<1>5. Enrolled'
  BY <1>1, <1>3 DEF Sound, Enrolled, issues
<1> QED
  BY <1>4, <1>5 DEF Sound

\* A process starts again with an empty table.
LEMMA RestartStep == ASSUME Sound, RestartRelay \/ RestartApplication PROVE Sound'
<1>1. /\ UNCHANGED <<clock, issues, cookies, tab, loggedOut, displaced>>
      /\ reply' = "none" /\ signIns' \subseteq signIns /\ pages' \subseteq pages
  BY DEF RestartRelay, RestartApplication, Silent
<1>2. restarts' \in 0..MaxRestarts
  BY Types, BoundAssumption DEF RestartRelay, RestartApplication
<1>3. /\ forgotten' \in [signIns : Nat, pages : Nat]
      /\ \A n \in signIns' : n > forgotten'.signIns
      /\ \A n \in pages' : n > forgotten'.pages
      /\ forgotten'.signIns <= Len(signedAt) /\ forgotten'.pages <= Len(servedAt)
  <2>1. CASE RestartRelay
    <3>1. /\ forgotten' = [forgotten EXCEPT !.signIns = Len(signedAt)]
          /\ signIns' = {} /\ pages' = pages
      BY <2>1 DEF RestartRelay
    <3> QED
      BY <3>1, Types DEF Sound, Enrolled
  <2>2. CASE RestartApplication
    <3>1. /\ forgotten' = [forgotten EXCEPT !.pages = Len(servedAt)]
          /\ pages' = {} /\ signIns' = signIns
      BY <2>2 DEF RestartApplication
    <3> QED
      BY <3>1, Types DEF Sound, Enrolled
  <2> QED
    BY <2>1, <2>2
<1>4. TypeOK'
  BY <1>1, <1>2, <1>3, Types, NothingEntered
<1>5. Enrolled'
  BY <1>1, <1>3 DEF Sound, Enrolled, issues
<1> QED
  BY <1>4, <1>5 DEF Sound

\* Time passes.
LEMMA TickStep == ASSUME Sound, Tick PROVE Sound'
<1>1. UNCHANGED <<tables, issues, cookies, tab, history, restarts>> /\ reply' = "none"
  BY DEF Tick, Silent
<1>2. clock' \in Time
  BY Types, BoundAssumption DEF Tick, Time
<1>3. TypeOK'
  BY <1>1, <1>2, Types, NothingEntered DEF tables, history
<1>4. Enrolled'
  BY <1>1 DEF Sound, Enrolled, issues, tables, history
<1> QED
  BY <1>3, <1>4 DEF Sound

\* A tab sends a request with the cookies of its browser.
LEMMA SendStep == ASSUME Sound, NEW t \in Tabs, Send(t) PROVE Sound'
<1>1. UNCHANGED <<clock, tables, issues, cookies, history, restarts>> /\ reply' = "none"
  BY DEF Send, Silent
<1> DEFINE new == [tab[t] EXCEPT !.stage = "sent", !.request = cookies[BrowserOf[t]]]
<1>2. tab' = [tab EXCEPT ![t] = new] /\ tab[t] \in TabStates
  BY Types DEF Send
<1>3. /\ cookies[BrowserOf[t]] \in [auth : SignIns \cup {None}, page : Pages \cup {None}]
      /\ "sent" \in Stages
  BY Types, TabsAssumption DEF Stages
<1>4. new \in TabStates
  BY <1>2, <1>3 DEF TabStates
<1> HIDE DEF new
<1>5. tab' \in [Tabs -> TabStates]
  BY <1>2, <1>4, Types
<1>6. TypeOK'
  BY <1>1, <1>5, Types, NothingEntered DEF tables, history
<1>7. Enrolled'
  BY <1>1 DEF Sound, Enrolled, issues, tables, history
<1> QED
  BY <1>6, <1>7 DEF Sound

\* A page arrives in its tab, or not.
LEMMA PageArrivesStep == ASSUME Sound, NEW t \in Tabs, PageArrives(t) PROVE Sound'
<1> DEFINE b == BrowserOf[t]
           n == tab[t].request.page
<1>1. UNCHANGED <<clock, tables, issues, loggedOut, forgotten, restarts>>
  BY DEF PageArrives
<1>2. /\ b \in Browsers /\ n \in Pages \cup {None} /\ cookies[b].page \in Pages \cup {None}
      /\ tab[t] \in TabStates
  BY Types, TabsAssumption DEF TabStates
<1>3. /\ cookies' \in [Browsers -> [auth : SignIns \cup {None}, page : Pages \cup {None}]]
      /\ tab' \in [Tabs -> TabStates] /\ reply' \in Replies /\ displaced' \subseteq Pages
  <2>1. CASE Answer(t, "unavailable") /\ UNCHANGED <<cookies, displaced>>
    BY <2>1, Types, TabMoves DEF Sound, Replies
  <2>2. CASE /\ cookies' = [cookies EXCEPT ![b].page = n]
             /\ tab' = [tab EXCEPT ![t] = [stage |-> "idle", page |-> n, request |-> NoCookies]]
             /\ Silent
             /\ displaced' = displaced \cup ({cookies[b].page} \ {None})
    <3>1. [stage |-> "idle", page |-> n, request |-> NoCookies] \in TabStates
      BY <1>2 DEF TabStates, NoCookies, Stages
    <3>2. tab' \in [Tabs -> TabStates]
      BY <2>2, <3>1, Types
    <3>3. cookies' \in [Browsers -> [auth : SignIns \cup {None}, page : Pages \cup {None}]]
      BY <1>2, <2>2, Types
    <3>4. reply' \in Replies /\ displaced' \subseteq Pages
      BY <1>2, <2>2, Types DEF Silent
    <3> QED
      BY <3>2, <3>3, <3>4
  <2> QED
    BY <2>1, <2>2 DEF PageArrives
<1>4. TypeOK'
  BY <1>1, <1>3, Types, NothingEntered DEF tables
<1>5. Enrolled'
  BY <1>1 DEF Sound, Enrolled, issues, tables
<1> QED
  BY <1>4, <1>5 DEF Sound

\* The operator signs in.
LEMMA LoginStep == ASSUME Sound, NEW b \in Browsers, Login(b) PROVE Sound'
<1> DEFINE k == Len(signedAt)
           rest == Kept(signIns, signedAt)
<1>1. /\ UNCHANGED <<clock, pages, servedAt, tab, history, restarts>> /\ reply' = "none"
      /\ signIns' = rest \cup {k + 1}
      /\ signedAt' = Append(signedAt, clock)
      /\ cookies' = [cookies EXCEPT ![b].auth = k + 1]
  BY DEF Login, Silent
<1>2. /\ k \in Nat /\ signIns \subseteq 1..k /\ Cardinality(signIns) <= MaxSessions
      /\ signedAt \in Seq(Time)
  BY Types DEF Sound, TypeOK, SignIns
<1>3. /\ rest \subseteq signIns /\ signIns' \subseteq 1..(k + 1)
      /\ Cardinality(signIns') <= MaxSessions
  BY <1>1, <1>2, KeptFits
<1>4. /\ signedAt' \in Seq(Time) /\ Len(signedAt') = k + 1
      /\ SignIns' = 1..(k + 1) /\ SignIns \subseteq SignIns' /\ Pages' = Pages /\ k + 1 \in SignIns'
  BY <1>1, <1>2, Types, Entered DEF SignIns, Pages
<1> HIDE DEF k, rest
<1>5. cookies' \in [Browsers -> [auth : SignIns' \cup {None}, page : Pages' \cup {None}]]
  BY <1>1, <1>4, Types
<1>6. tab' \in [Tabs -> [stage : Stages, page : Pages' \cup {None},
                         request : [auth : SignIns' \cup {None}, page : Pages' \cup {None}]]]
  <2>1. TabStates \subseteq [stage : Stages, page : Pages' \cup {None},
                             request : [auth : SignIns' \cup {None}, page : Pages' \cup {None}]]
    BY <1>4 DEF TabStates
  <2> QED
    BY <1>1, <2>1, Types
<1>7. TypeOK'
  BY <1>1, <1>3, <1>4, <1>5, <1>6, Types DEF TypeOK, Sound, history
<1>8. Enrolled'
  <2>1. k + 1 \notin loggedOut /\ k + 1 > forgotten.signIns /\ forgotten.signIns <= k + 1
    BY <1>2, Types DEF Sound, Enrolled, SignIns, k
  <2> QED
    BY <1>1, <1>3, <1>4, <2>1 DEF Sound, Enrolled, history
<1> QED
  BY <1>7, <1>8 DEF Sound

\* A page is served with a session of its own, or the operator must sign in first.
LEMMA LoadPageStep == ASSUME Sound, NEW t \in Tabs, LoadPage(t) PROVE Sound'
<1> DEFINE a == cookies[BrowserOf[t]].auth
           k == Len(servedAt)
           rest == Kept(pages, servedAt)
<1>1. /\ UNCHANGED <<clock, signedAt, cookies, history, restarts>> /\ reply' = "none"
      /\ signIns' = Looked(a)
  BY DEF LoadPage, Silent
<1>2. signIns' \subseteq signIns /\ signIns' \subseteq SignIns /\ Cardinality(signIns') <= MaxSessions
  BY <1>1, LookedFits DEF Sound
<1>3. tab[t] \in TabStates
  BY Types
<1>4. CASE Actor(a)
  <2> DEFINE new == [tab[t] EXCEPT !.stage = "arriving", !.request = [NoCookies EXCEPT !.page = k + 1]]
  <2>1. /\ pages' = rest \cup {k + 1} /\ servedAt' = Append(servedAt, clock)
        /\ tab' = [tab EXCEPT ![t] = new]
    BY <1>4, Types DEF LoadPage
  <2>2. /\ k \in Nat /\ pages \subseteq 1..k /\ Cardinality(pages) <= MaxSessions
        /\ servedAt \in Seq(Time)
    BY Types DEF Sound, TypeOK, Pages
  <2>3. /\ rest \subseteq pages /\ pages' \subseteq 1..(k + 1)
        /\ Cardinality(pages') <= MaxSessions
    BY <2>1, <2>2, KeptFits
  <2>4. /\ servedAt' \in Seq(Time) /\ Len(servedAt') = k + 1
        /\ Pages' = 1..(k + 1) /\ Pages \subseteq Pages' /\ SignIns' = SignIns /\ k + 1 \in Pages'
    BY <1>1, <2>1, <2>2, Types, Entered DEF SignIns, Pages
  <2> HIDE DEF k, rest
  <2> DEFINE States == [stage : Stages, page : Pages' \cup {None},
                        request : [auth : SignIns' \cup {None}, page : Pages' \cup {None}]]
  <2>5. TabStates \subseteq States
    BY <2>4 DEF TabStates
  <2>6. /\ [NoCookies EXCEPT !.page = k + 1] \in [auth : SignIns' \cup {None}, page : Pages' \cup {None}]
        /\ "arriving" \in Stages
    BY <2>4 DEF NoCookies, Stages
  <2>7. new \in States
    BY <1>3, <2>5, <2>6
  <2> HIDE DEF new, States
  <2>8. tab' \in [Tabs -> States]
    BY <2>1, <2>5, <2>7, Types
  <2>9. cookies' \in [Browsers -> [auth : SignIns' \cup {None}, page : Pages' \cup {None}]]
    BY <1>1, <2>4, Types
  <2>10. TypeOK'
    BY <1>1, <1>2, <2>3, <2>4, <2>8, <2>9, Types DEF TypeOK, Sound, history, States
  <2>11. Enrolled'
    <3>1. k + 1 > forgotten.pages /\ forgotten.pages <= k + 1
      BY <2>2, Types DEF Sound, Enrolled, k
    <3> QED
      BY <1>1, <1>2, <2>1, <2>3, <2>4, <3>1 DEF Sound, Enrolled, history
  <2> QED
    BY <2>10, <2>11 DEF Sound
<1>5. CASE ~ Actor(a)
  <2>1. tab' = [tab EXCEPT ![t].page = None] /\ UNCHANGED <<pages, servedAt>>
    BY <1>5 DEF LoadPage
  <2>2. [tab[t] EXCEPT !.page = None] \in TabStates
    BY <1>3 DEF TabStates
  <2>3. tab' \in [Tabs -> TabStates]
    BY <2>1, <2>2, Types
  <2>4. TypeOK'
    BY <1>1, <1>2, <2>1, <2>3, Types, NothingEntered DEF issues, history
  <2>5. Enrolled'
    BY <1>1, <1>2, <2>1 DEF Sound, Enrolled, history
  <2> QED
    BY <2>4, <2>5 DEF Sound
<1> QED
  BY <1>4, <1>5

\* The tables are empty at the start.
LEMMA SoundInit == ASSUME Init PROVE Sound
<1>1. /\ signIns = {} /\ pages = {} /\ signedAt = <<>> /\ servedAt = <<>>
      /\ Cardinality({}) = 0 /\ <<>> \in Seq(Time) /\ Len(<<>>) = 0
  BY FS_EmptySet, EmptySeq DEF Init
<1>2. clock \in Time /\ restarts \in 0..MaxRestarts /\ 0 <= MaxSessions
  BY BoundAssumption, TableAssumption DEF Init, Time
<1>3. /\ cookies \in [Browsers -> [auth : SignIns \cup {None}, page : Pages \cup {None}]]
      /\ tab \in [Tabs -> [stage : Stages, page : Pages \cup {None},
                           request : [auth : SignIns \cup {None}, page : Pages \cup {None}]]]
  BY DEF Init, NoCookies, Stages
<1>4. TypeOK
  BY <1>1, <1>2, <1>3 DEF Init, TypeOK, Replies
<1>5. Enrolled
  BY <1>1 DEF Init, Enrolled
<1> QED
  BY <1>4, <1>5 DEF Sound

\* Every step keeps the invariant.
LEMMA SoundStep == ASSUME Sound, [Next]_vars PROVE Sound'
<1>1. CASE UNCHANGED vars
  <2>1. UNCHANGED <<clock, tables, issues, cookies, tab, reply, history, restarts>>
    BY <1>1 DEF vars
  <2>2. TypeOK'
    BY <2>1, Types, NothingEntered DEF tables, history
  <2>3. Enrolled'
    BY <2>1 DEF Sound, Enrolled, issues, tables, history
  <2> QED
    BY <2>2, <2>3 DEF Sound
<1> QED
  BY <1>1, LoginStep, LogoutStep, LoadPageStep, PageArrivesStep, SendStep, AdmitStep,
     AnswerStep, RestartStep, TickStep DEF Next

\* The invariant holds in every behaviour.
LEMMA SoundAlways == Spec => []Sound
<1>1. Init => Sound
  BY SoundInit
<1>2. Sound /\ [Next]_vars => Sound'
  BY SoundStep
<1> QED
  BY <1>1, <1>2, PTL DEF Spec

-----------------------------------------------------------------------------
(* Acting                                                                  *)

\* A request that has been sent is moved on by the relay and the application alone.
LEMMA RequestStep ==
    ASSUME Sound, [Next]_vars, NEW t \in Tabs, tab[t].stage \in {"sent", "admitted"},
           tab'[t].stage # tab[t].stage
    PROVE  Admit(t) \/ Accept(t) \/ Drop(t)
<1>1. tab \in [Tabs -> TabStates]
  BY Types
<1>2. ASSUME NEW u \in Tabs, LoadPage(u) PROVE FALSE
  <2>1. tab[u].stage = "idle" /\ u # t
    BY <1>2 DEF LoadPage, At
  <2> QED
    BY <1>1, <1>2, <2>1 DEF LoadPage
<1>3. ASSUME NEW u \in Tabs, PageArrives(u) PROVE FALSE
  <2>1. tab[u].stage = "arriving" /\ u # t
    BY <1>3 DEF PageArrives, At
  <2> QED
    BY <1>1, <1>3, <2>1 DEF PageArrives, Answer
<1>4. ASSUME NEW u \in Tabs, Send(u) PROVE FALSE
  <2>1. tab[u].stage = "idle" /\ u # t
    BY <1>4 DEF Send, At
  <2> QED
    BY <1>1, <1>4, <2>1 DEF Send
<1>5. ASSUME NEW u \in Tabs, Admit(u) \/ Accept(u) \/ Drop(u), u # t PROVE FALSE
  BY <1>1, <1>5 DEF Admit, Accept, Drop, Move, Answer
<1>6. ASSUME NEW b \in Browsers, Login(b) \/ Logout(b) PROVE FALSE
  BY <1>6 DEF Login, Logout
<1>7. CASE RestartRelay \/ RestartApplication \/ Tick \/ UNCHANGED vars
  BY <1>7 DEF RestartRelay, RestartApplication, Tick, vars
<1> QED
  BY <1>2, <1>3, <1>4, <1>5, <1>6, <1>7 DEF Next

\* What passes the relay is signed in; what is carried out comes from a living page.
LEMMA ActsSignedIn ==
    ASSUME Sound, [Next]_vars, NEW t \in Tabs
    PROVE  LET r == tab[t].request IN
           /\ At(t, "sent") /\ tab'[t].stage = "admitted" => InForce(r.auth)
           /\ Answered(t, "done") => Alive(r.page) /\ r.page = tab[t].page
<1> DEFINE r == tab[t].request
<1>1. tab \in [Tabs -> TabStates]
  BY Types
<1>2. ASSUME At(t, "sent"), tab'[t].stage = "admitted"
      PROVE  InForce(r.auth)
  <2>1. Admit(t) \/ Accept(t) \/ Drop(t)
    BY <1>2, RequestStep DEF At
  <2>2. Admit(t)
    BY <1>2, <2>1 DEF Accept, Drop, At
  <2>3. Actor(r.auth)
    <3> SUFFICES ASSUME ~ Actor(r.auth) PROVE FALSE
      OBVIOUS
    <3>1. Answer(t, "signed_out")
      BY <2>2 DEF Admit
    <3>2. tab[t] \in TabStates /\ tab' = [tab EXCEPT ![t].stage = "idle", ![t].request = NoCookies]
      BY <1>1, <3>1 DEF Answer
    <3>3. tab'[t].stage = "idle"
      BY <1>1, <3>2 DEF TabStates
    <3> QED
      BY <1>2, <3>3
  <2> QED
    BY <2>3, Types DEF Actor, InForce, Sound, Enrolled
<1>3. ASSUME Answered(t, "done")
      PROVE  Alive(r.page) /\ r.page = tab[t].page
  <2>1. Admit(t) \/ Accept(t) \/ Drop(t)
    BY <1>3, RequestStep DEF Answered
  <2>2. Accept(t)
    BY <1>3, <2>1 DEF Answered, Admit, Drop, Move, Silent, Answer
  <2>3. r.page \in pages /\ Young(servedAt[r.page]) /\ r.page = tab[t].page
    BY <1>3, <2>2 DEF Answered, Accept, Answer
  <2> QED
    BY <2>3, Types DEF Alive, Sound, Enrolled
<1> QED
  BY <1>2, <1>3

\* Whatever is in flight while the operator logs out, a sign-in expires or a process
\* restarts, a request passes the relay only while its sign-in is in force, and is
\* carried out, perhaps after the sign-in has ended, only for the living session of
\* its own page.
THEOREM AdmissionNeedsSignIn == Spec => AdmittedWhileInForce
<1>1. Sound => TypeOK
  BY DEF Sound
<1>2. Sound /\ [Next]_vars =>
        \A t \in Tabs :
          LET r == tab[t].request IN
          /\ At(t, "sent") /\ tab'[t].stage = "admitted" => InForce(r.auth)
          /\ Answered(t, "done") => Alive(r.page) /\ r.page = tab[t].page
  BY ActsSignedIn
<1> QED
  BY <1>1, <1>2, SoundAlways, PTL DEF AdmittedWhileInForce, Spec

-----------------------------------------------------------------------------
(* Being refused                                                           *)

\* An entry in force that is not in its table was pushed out of it.
SignInsKept == \A n \in SignIns : InForce(n) => n \in signIns \/ Outnumbered(n, signedAt)
PagesKept == \A n \in Pages : Alive(n) => n \in pages \/ Outnumbered(n, servedAt)

\* The cookie that a tab uses is that of its page, unless that was replaced.
CookiesKept ==
    \A t \in Tabs :
        /\ tab[t].page # None => tab[t].page \in {cookies[BrowserOf[t]].page} \cup displaced
        /\ tab[t].stage \in {"sent", "admitted"}
             => tab[t].page \in {tab[t].request.page} \cup displaced

\* The entry that leaves a full table is followed by as many as the table holds.
LEMMA KeptDrops ==
    ASSUME NEW k \in Nat, NEW table \in SUBSET (1..k), NEW created,
           NEW n \in table, n \notin Kept(table, created), Young(created[n])
    PROVE  k + 1 - n >= MaxSessions
<1> DEFINE living == {m \in table : Young(created[m])}
<1>1. n \in living /\ living \subseteq 1..k
  OBVIOUS
<1>2. Kept(table, created) = IF Cardinality(living) >= MaxSessions
                               THEN living \ {Min(living)} ELSE living
  BY DEF Kept
<1> HIDE DEF living
<1>3. Cardinality(living) >= MaxSessions /\ n = Min(living)
  BY <1>1, <1>2
<1>4. \A m \in living : n <= m
  <2>1. living \subseteq Nat /\ living # {}
    BY <1>1
  <2> QED
    BY <1>3, <2>1, MinIsFirst
<1>5. living \subseteq n..k /\ n \in 1..k
  BY <1>1, <1>4
<1>6. IsFiniteSet(n..k) /\ Cardinality(n..k) = k - n + 1
  BY <1>5, FS_Interval
<1>7. Cardinality(living) <= Cardinality(n..k) /\ Cardinality(living) \in Nat
  <2>1. IsFiniteSet(living) /\ Cardinality(living) <= Cardinality(n..k)
    BY <1>5, <1>6, FS_Subset
  <2> QED
    BY <2>1, FS_CardinalityType
<1> QED
  BY <1>3, <1>5, <1>6, <1>7, TableAssumption

\* A sign-in that is still in force afterwards was in force before.
LEMMA InForceBefore ==
    ASSUME Sound, UNCHANGED signedAt, clock \in Time, clock' \in {clock, clock + 1},
           loggedOut \subseteq loggedOut', forgotten.signIns <= forgotten'.signIns,
           forgotten'.signIns \in Nat, NEW n \in SignIns, InForce(n)'
    PROVE  InForce(n)
<1>1. /\ signedAt[n] \in Nat /\ clock \in Nat /\ clock' \in Nat /\ n \in Nat
      /\ forgotten.signIns \in Nat /\ Lifetime \in Nat
  <2>1. signedAt[n] \in Time
    BY Types, ElementOfSeq DEF SignIns
  <2> QED
    BY <2>1, Types, TableAssumption, BoundAssumption DEF Time, SignIns
<1> QED
  BY <1>1 DEF InForce, Young, SignIns

\* Likewise a page session that is still alive.
LEMMA AliveBefore ==
    ASSUME Sound, UNCHANGED servedAt, clock \in Time, clock' \in {clock, clock + 1},
           forgotten.pages <= forgotten'.pages, forgotten'.pages \in Nat,
           NEW n \in Pages, Alive(n)'
    PROVE  Alive(n)
<1>1. /\ servedAt[n] \in Nat /\ clock \in Nat /\ clock' \in Nat /\ n \in Nat
      /\ forgotten.pages \in Nat /\ Lifetime \in Nat
  <2>1. servedAt[n] \in Time
    BY Types, ElementOfSeq DEF Pages
  <2> QED
    BY <2>1, Types, TableAssumption, BoundAssumption DEF Time, Pages
<1> QED
  BY <1>1 DEF Alive, Young, Pages

\* A sign-in that is in force stays in the table until it is pushed out.
LEMMA SignInsStep == ASSUME Sound, SignInsKept, [Next]_vars PROVE SignInsKept'
<1>1. /\ Len(signedAt) \in Nat /\ signedAt \in Seq(Time) /\ signIns \subseteq 1..Len(signedAt)
      /\ clock \in Time /\ Time \subseteq Nat /\ forgotten.signIns \in Nat
  BY Types, BoundAssumption DEF SignIns, Time
<1>2. ASSUME UNCHANGED signedAt, clock' \in {clock, clock + 1}, loggedOut \subseteq loggedOut',
             forgotten.signIns <= forgotten'.signIns, forgotten'.signIns \in Nat,
             \A n \in signIns \ signIns' : ~ InForce(n)'
      PROVE  SignInsKept'
  <2> SUFFICES ASSUME NEW n \in SignIns, InForce(n)'
               PROVE  n \in signIns' \/ Outnumbered(n, signedAt)
    BY <1>2 DEF SignInsKept, SignIns, Outnumbered
  <2>1. InForce(n)
    BY <1>1, <1>2, InForceBefore
  <2> QED
    BY <1>2, <2>1 DEF SignInsKept
<1>3. ASSUME NEW b \in Browsers, Login(b) PROVE SignInsKept'
  <2> DEFINE k == Len(signedAt)
  <2>1. /\ signIns' = Kept(signIns, signedAt) \cup {k + 1} /\ signedAt' = Append(signedAt, clock)
        /\ UNCHANGED <<clock, loggedOut, forgotten>>
    BY <1>3 DEF Login, history
  <2>2. /\ Len(signedAt') = k + 1 /\ SignIns' = 1..(k + 1)
        /\ \A n \in 1..k : signedAt'[n] = signedAt[n]
    BY <1>1, <2>1, AppendProperties DEF SignIns
  <2> SUFFICES ASSUME NEW n \in 1..(k + 1), InForce(n)'
               PROVE  n \in signIns' \/ k + 1 - n >= MaxSessions
    BY <2>2 DEF SignInsKept, Outnumbered
  <2>3. CASE n = k + 1
    BY <2>1, <2>3
  <2>4. CASE n \in 1..k
    <3>1. InForce(n) /\ Young(signedAt[n])
      BY <2>1, <2>2, <2>4 DEF InForce, Young, SignIns
    <3>2. CASE n \in signIns
      BY <1>1, <2>1, <3>1, <3>2, KeptDrops
    <3>3. CASE n \notin signIns
      <4>1. k - n >= MaxSessions
        BY <2>4, <3>1, <3>3 DEF SignInsKept, SignIns, Outnumbered
      <4> QED
        BY <1>1, <2>4, <4>1, TableAssumption
    <3> QED
      BY <3>2, <3>3
  <2> QED
    BY <1>1, <2>3, <2>4
<1>4. \A a : \A n \in signIns \ Looked(a) : ~ Young(signedAt[n])
  BY DEF Looked, Actor
<1>5. ASSUME NEW t \in Tabs, Admit(t) PROVE SignInsKept'
  <2>1. UNCHANGED <<clock, issues, history>> /\ signIns' = Looked(tab[t].request.auth)
    BY <1>5 DEF Admit
  <2> QED
    BY <1>1, <1>2, <1>4, <2>1 DEF issues, history, InForce, Young
<1>6. ASSUME NEW t \in Tabs, LoadPage(t) PROVE SignInsKept'
  <2>1. UNCHANGED <<clock, signedAt, history>> /\ signIns' = Looked(cookies[BrowserOf[t]].auth)
    BY <1>6 DEF LoadPage
  <2> QED
    BY <1>1, <1>2, <1>4, <2>1 DEF history, InForce, Young
<1>7. ASSUME NEW b \in Browsers, Logout(b) PROVE SignInsKept'
  <2> DEFINE a == cookies[b].auth
  <2>1. UNCHANGED <<clock, issues, forgotten>>
    BY <1>7 DEF Logout
  <2>2. CASE Actor(a)
    <3>1. signIns' = signIns \ {a} /\ loggedOut' = loggedOut \cup {a}
      BY <1>7, <2>2 DEF Logout
    <3> QED
      BY <1>1, <1>2, <2>1, <3>1 DEF issues, InForce
  <2>3. CASE ~ Actor(a)
    <3>1. signIns' = Looked(a) /\ UNCHANGED loggedOut
      BY <1>7, <2>3 DEF Logout
    <3> QED
      BY <1>1, <1>2, <1>4, <2>1, <3>1 DEF issues, InForce, Young
  <2> QED
    BY <2>2, <2>3
<1>8. CASE RestartRelay
  <2>1. /\ UNCHANGED <<clock, issues, loggedOut>>
        /\ forgotten' = [forgotten EXCEPT !.signIns = Len(signedAt)]
    BY <1>8 DEF RestartRelay
  <2>2. forgotten'.signIns = Len(signedAt) /\ forgotten.signIns <= Len(signedAt)
    BY <2>1, Types DEF Sound, Enrolled
  <2>3. \A n \in signIns : ~ InForce(n)'
    BY <1>1, <2>2 DEF InForce
  <2> QED
    BY <1>1, <1>2, <2>1, <2>2, <2>3 DEF issues
<1>9. CASE RestartApplication
  <2>1. /\ UNCHANGED <<clock, issues, loggedOut, signIns>>
        /\ forgotten' = [forgotten EXCEPT !.pages = Len(servedAt)]
    BY <1>9 DEF RestartApplication
  <2>2. forgotten'.signIns = forgotten.signIns
    BY <2>1, Types
  <2> QED
    BY <1>1, <1>2, <2>1, <2>2 DEF issues
<1>10. ASSUME \/ Tick \/ UNCHANGED vars
              \/ \E t \in Tabs : PageArrives(t) \/ Send(t) \/ Accept(t) \/ Drop(t)
       PROVE  SignInsKept'
  <2>1. UNCHANGED <<signIns, signedAt, loggedOut, forgotten>> /\ clock' \in {clock, clock + 1}
    BY <1>10 DEF Tick, PageArrives, Send, Accept, Drop, vars, tables, issues, history
  <2> QED
    BY <1>1, <1>2, <2>1
<1> QED
  BY <1>3, <1>5, <1>6, <1>7, <1>8, <1>9, <1>10 DEF Next

\* A page session that is alive stays in the table until it is pushed out.
LEMMA PagesStep == ASSUME Sound, PagesKept, [Next]_vars PROVE PagesKept'
<1>1. /\ Len(servedAt) \in Nat /\ servedAt \in Seq(Time) /\ pages \subseteq 1..Len(servedAt)
      /\ clock \in Time /\ Time \subseteq Nat /\ forgotten.pages \in Nat
  BY Types, BoundAssumption DEF Pages, Time
<1>2. ASSUME UNCHANGED servedAt, clock' \in {clock, clock + 1},
             forgotten.pages <= forgotten'.pages, forgotten'.pages \in Nat,
             \A n \in pages \ pages' : ~ Alive(n)'
      PROVE  PagesKept'
  <2> SUFFICES ASSUME NEW n \in Pages, Alive(n)'
               PROVE  n \in pages' \/ Outnumbered(n, servedAt)
    BY <1>2 DEF PagesKept, Pages, Outnumbered
  <2>1. Alive(n)
    BY <1>1, <1>2, AliveBefore
  <2> QED
    BY <1>2, <2>1 DEF PagesKept
<1>3. ASSUME NEW t \in Tabs, LoadPage(t), Actor(cookies[BrowserOf[t]].auth) PROVE PagesKept'
  <2> DEFINE k == Len(servedAt)
  <2>1. /\ pages' = Kept(pages, servedAt) \cup {k + 1} /\ servedAt' = Append(servedAt, clock)
        /\ UNCHANGED <<clock, forgotten>>
    BY <1>3 DEF LoadPage, history
  <2>2. /\ Len(servedAt') = k + 1 /\ Pages' = 1..(k + 1)
        /\ \A n \in 1..k : servedAt'[n] = servedAt[n]
    BY <1>1, <2>1, AppendProperties DEF Pages
  <2> SUFFICES ASSUME NEW n \in 1..(k + 1), Alive(n)'
               PROVE  n \in pages' \/ k + 1 - n >= MaxSessions
    BY <2>2 DEF PagesKept, Outnumbered
  <2>3. CASE n = k + 1
    BY <2>1, <2>3
  <2>4. CASE n \in 1..k
    <3>1. Alive(n) /\ Young(servedAt[n])
      BY <2>1, <2>2, <2>4 DEF Alive, Young, Pages
    <3>2. CASE n \in pages
      BY <1>1, <2>1, <3>1, <3>2, KeptDrops
    <3>3. CASE n \notin pages
      <4>1. k - n >= MaxSessions
        BY <2>4, <3>1, <3>3 DEF PagesKept, Pages, Outnumbered
      <4> QED
        BY <1>1, <2>4, <4>1, TableAssumption
    <3> QED
      BY <3>2, <3>3
  <2> QED
    BY <1>1, <2>3, <2>4
<1>4. ASSUME NEW t \in Tabs, LoadPage(t), ~ Actor(cookies[BrowserOf[t]].auth) PROVE PagesKept'
  <2>1. UNCHANGED <<clock, pages, servedAt, forgotten>>
    BY <1>4 DEF LoadPage, history
  <2> QED
    BY <1>1, <1>2, <2>1
<1>5. CASE RestartApplication
  <2>1. /\ UNCHANGED <<clock, issues>>
        /\ forgotten' = [forgotten EXCEPT !.pages = Len(servedAt)]
    BY <1>5 DEF RestartApplication
  <2>2. forgotten'.pages = Len(servedAt) /\ forgotten.pages <= Len(servedAt)
    BY <2>1, Types DEF Sound, Enrolled
  <2>3. \A n \in pages : ~ Alive(n)'
    BY <1>1, <2>2 DEF Alive
  <2> QED
    BY <1>1, <1>2, <2>1, <2>2, <2>3 DEF issues
<1>6. CASE RestartRelay
  <2>1. /\ UNCHANGED <<clock, issues, pages>>
        /\ forgotten' = [forgotten EXCEPT !.signIns = Len(signedAt)]
    BY <1>6 DEF RestartRelay
  <2>2. forgotten'.pages = forgotten.pages
    BY <2>1, Types
  <2> QED
    BY <1>1, <1>2, <2>1, <2>2 DEF issues
<1>7. ASSUME \/ Tick \/ UNCHANGED vars
             \/ \E b \in Browsers : Login(b) \/ Logout(b)
             \/ \E t \in Tabs : PageArrives(t) \/ Send(t) \/ Admit(t) \/ Accept(t) \/ Drop(t)
      PROVE  PagesKept'
  <2>1. UNCHANGED <<pages, servedAt, forgotten>> /\ clock' \in {clock, clock + 1}
    BY <1>7 DEF Tick, Login, Logout, PageArrives, Send, Admit, Accept, Drop, vars, tables, issues,
               history
  <2> QED
    BY <1>1, <1>2, <2>1
<1> QED
  BY <1>3, <1>4, <1>5, <1>6, <1>7 DEF Next

\* A page whose cookie is replaced is remembered.
LEMMA CookiesStep == ASSUME Sound, CookiesKept, [Next]_vars PROVE CookiesKept'
<1>1. /\ tab \in [Tabs -> TabStates] /\ \A t \in Tabs : BrowserOf[t] \in Browsers
      /\ cookies \in [Browsers -> [auth : SignIns \cup {None}, page : Pages \cup {None}]]
  BY Types, TabsAssumption
<1>2. ASSUME UNCHANGED <<tab, displaced>>, \A b \in Browsers : cookies'[b].page = cookies[b].page
      PROVE  CookiesKept'
  BY <1>1, <1>2 DEF CookiesKept
<1>3. ASSUME NEW t \in Tabs, UNCHANGED <<cookies, displaced>>,
             \A u \in Tabs \ {t} : tab'[u] = tab[u],
             tab'[t].page \in {tab[t].page, None},
             tab'[t].stage \in {"sent", "admitted"}
               => tab'[t].page \in {tab'[t].request.page} \cup displaced
      PROVE  CookiesKept'
  BY <1>3 DEF CookiesKept
<1>4. ASSUME NEW t \in Tabs, NEW answer, Answer(t, answer), UNCHANGED <<cookies, displaced>>
      PROVE  CookiesKept'
  <2>1. tab' = [tab EXCEPT ![t].stage = "idle", ![t].request = NoCookies] /\ tab[t] \in TabStates
    BY <1>1, <1>4 DEF Answer
  <2>2. /\ tab'[t].stage = "idle" /\ tab'[t].page = tab[t].page
        /\ \A u \in Tabs \ {t} : tab'[u] = tab[u]
    BY <1>1, <2>1 DEF TabStates
  <2> QED
    BY <1>3, <1>4, <2>2
<1>5. ASSUME NEW b \in Browsers, Login(b) \/ Logout(b) PROVE CookiesKept'
  <2>1. UNCHANGED <<tab, displaced>>
    BY <1>5 DEF Login, Logout, history
  <2>2. \/ UNCHANGED cookies
        \/ \E n : cookies' = [cookies EXCEPT ![b].auth = n]
    BY <1>5 DEF Login, Logout
  <2>3. \A c \in Browsers : cookies'[c].page = cookies[c].page
    BY <1>1, <2>2
  <2> QED
    BY <1>2, <2>1, <2>3
<1>6. ASSUME NEW t \in Tabs, LoadPage(t) PROVE CookiesKept'
  <2>1. UNCHANGED <<cookies, displaced>> /\ tab[t].stage = "idle" /\ tab[t] \in TabStates
    BY <1>1, <1>6 DEF LoadPage, history, At
  <2>2. CASE Actor(cookies[BrowserOf[t]].auth)
    <3> DEFINE r == [NoCookies EXCEPT !.page = Len(servedAt) + 1]
    <3>1. tab' = [tab EXCEPT ![t].stage = "arriving", ![t].request = r]
      BY <1>6, <2>2 DEF LoadPage
    <3> HIDE DEF r
    <3>2. /\ tab'[t].stage = "arriving" /\ tab'[t].page = tab[t].page
          /\ \A u \in Tabs \ {t} : tab'[u] = tab[u]
      BY <1>1, <2>1, <3>1 DEF TabStates
    <3> QED
      BY <1>3, <2>1, <3>2
  <2>3. CASE ~ Actor(cookies[BrowserOf[t]].auth)
    <3>1. tab' = [tab EXCEPT ![t].page = None]
      BY <1>6, <2>3 DEF LoadPage
    <3>2. /\ tab'[t].stage = "idle" /\ tab'[t].page = None
          /\ \A u \in Tabs \ {t} : tab'[u] = tab[u]
      BY <1>1, <2>1, <3>1 DEF TabStates
    <3> QED
      BY <1>3, <2>1, <3>2
  <2> QED
    BY <2>2, <2>3
<1>7. ASSUME NEW t \in Tabs, PageArrives(t) PROVE CookiesKept'
  <2> DEFINE b == BrowserOf[t]
             n == tab[t].request.page
  <2>1. CASE /\ cookies' = [cookies EXCEPT ![b].page = n]
             /\ tab' = [tab EXCEPT ![t] = [stage |-> "idle", page |-> n, request |-> NoCookies]]
             /\ displaced' = displaced \cup ({cookies[b].page} \ {None})
    <3>1. /\ tab'[t].stage = "idle" /\ tab'[t].page = n /\ cookies'[b].page = n
          /\ \A u \in Tabs \ {t} : tab'[u] = tab[u]
          /\ \A c \in Browsers \ {b} : cookies'[c] = cookies[c]
      BY <1>1, <2>1
    <3> SUFFICES ASSUME NEW u \in Tabs \ {t}
                 PROVE  /\ tab[u].page # None
                             => tab[u].page \in {cookies'[BrowserOf[u]].page} \cup displaced'
                        /\ tab[u].stage \in {"sent", "admitted"}
                             => tab[u].page \in {tab[u].request.page} \cup displaced'
      BY <3>1 DEF CookiesKept
    <3>2. /\ tab[u].page # None => tab[u].page \in {cookies[BrowserOf[u]].page} \cup displaced
          /\ tab[u].stage \in {"sent", "admitted"}
               => tab[u].page \in {tab[u].request.page} \cup displaced
      BY DEF CookiesKept
    <3>3. CASE BrowserOf[u] = b
      BY <2>1, <3>2, <3>3
    <3>4. CASE BrowserOf[u] # b
      BY <1>1, <2>1, <3>1, <3>2, <3>4
    <3> QED
      BY <3>3, <3>4
  <2>2. CASE Answer(t, "unavailable") /\ UNCHANGED <<cookies, displaced>>
    BY <1>4, <2>2
  <2> QED
    BY <1>7, <2>1, <2>2 DEF PageArrives
<1>8. ASSUME NEW t \in Tabs, Send(t) PROVE CookiesKept'
  <2>1. /\ UNCHANGED <<cookies, displaced>> /\ tab[t] \in TabStates /\ tab[t].page # None
        /\ tab' = [tab EXCEPT ![t].stage = "sent", ![t].request = cookies[BrowserOf[t]]]
    BY <1>1, <1>8 DEF Send, history
  <2>2. /\ tab'[t].page = tab[t].page /\ tab'[t].request = cookies[BrowserOf[t]]
        /\ \A u \in Tabs \ {t} : tab'[u] = tab[u]
    BY <1>1, <2>1 DEF TabStates
  <2>3. tab[t].page \in {cookies[BrowserOf[t]].page} \cup displaced
    BY <2>1 DEF CookiesKept
  <2> QED
    BY <1>3, <2>1, <2>2, <2>3
<1>9. ASSUME NEW t \in Tabs, Admit(t) PROVE CookiesKept'
  <2>1. UNCHANGED <<cookies, displaced>> /\ tab[t].stage = "sent" /\ tab[t] \in TabStates
    BY <1>1, <1>9 DEF Admit, history, At
  <2>2. CASE Move(t, "admitted")
    <3>1. /\ tab'[t].page = tab[t].page /\ tab'[t].request = tab[t].request
          /\ \A u \in Tabs \ {t} : tab'[u] = tab[u]
      BY <1>1, <2>1, <2>2 DEF Move, TabStates
    <3> QED
      BY <1>3, <2>1, <3>1 DEF CookiesKept
  <2>3. CASE Answer(t, "no_session") \/ Answer(t, "signed_out")
    BY <1>4, <2>1, <2>3
  <2> QED
    BY <1>9, <2>2, <2>3 DEF Admit
<1>10. ASSUME NEW t \in Tabs, Accept(t) \/ Drop(t) PROVE CookiesKept'
  <2>1. UNCHANGED <<cookies, displaced>> /\ \E answer : Answer(t, answer)
    BY <1>10 DEF Accept, Drop, history
  <2> QED
    BY <1>4, <2>1
<1>11. CASE RestartRelay \/ RestartApplication \/ Tick \/ UNCHANGED vars
  BY <1>2, <1>11 DEF RestartRelay, RestartApplication, Tick, vars, history
<1> QED
  BY <1>5, <1>6, <1>7, <1>8, <1>9, <1>10, <1>11 DEF Next

\* What is refused has its cause.
LEMMA RefusesForCause ==
    ASSUME Sound, SignInsKept, PagesKept, CookiesKept, [Next]_vars, NEW t \in Tabs
    PROVE  LET r == tab[t].request IN
           /\ Answered(t, "signed_out") => ~ InForce(r.auth) \/ Outnumbered(r.auth, signedAt)
           /\ Answered(t, "no_session") => ~ Alive(r.page) \/ Outnumbered(r.page, servedAt)
           /\ Answered(t, "forbidden") => tab[t].page \in displaced
<1> DEFINE r == tab[t].request
<1>1. ASSUME Answered(t, "signed_out")
      PROVE  ~ InForce(r.auth) \/ Outnumbered(r.auth, signedAt)
  <2>1. Admit(t) \/ Accept(t) \/ Drop(t)
    BY <1>1, RequestStep DEF Answered
  <2>2. Admit(t) /\ ~ Actor(r.auth)
    BY <1>1, <2>1 DEF Answered, Admit, Accept, Drop, Move, Silent, Answer
  <2> QED
    BY <2>2 DEF Actor, InForce, SignInsKept
<1>2. ASSUME Answered(t, "no_session")
      PROVE  ~ Alive(r.page) \/ Outnumbered(r.page, servedAt)
  <2>1. Admit(t) \/ Accept(t) \/ Drop(t)
    BY <1>2, RequestStep DEF Answered
  <2>2. CASE Admit(t)
    <3>1. r.page = None
      BY <1>2, <2>2 DEF Answered, Admit, Move, Silent, Answer
    <3> QED
      BY <3>1 DEF Alive, Pages, None
  <2>3. CASE Accept(t)
    <3>1. ~ (r.page \in pages /\ Young(servedAt[r.page]))
      BY <1>2, <2>3 DEF Answered, Accept, Answer
    <3> QED
      BY <3>1 DEF Alive, PagesKept
  <2>4. CASE Drop(t)
    BY <1>2, <2>4 DEF Answered, Drop, Answer
  <2> QED
    BY <2>1, <2>2, <2>3, <2>4
<1>3. ASSUME Answered(t, "forbidden")
      PROVE  tab[t].page \in displaced
  <2>1. Admit(t) \/ Accept(t) \/ Drop(t)
    BY <1>3, RequestStep DEF Answered
  <2>2. Accept(t) /\ tab[t].page # r.page
    BY <1>3, <2>1 DEF Answered, Admit, Accept, Drop, Move, Silent, Answer
  <2> QED
    BY <2>2 DEF Accept, At, CookiesKept
<1> QED
  BY <1>1, <1>2, <1>3

\* Nobody is refused without a cause, for every size and lifetime of the tables: a
\* sign-in or a page session that is not in its table was logged out, has expired, was
\* forgotten in a restart or pushed out, and a page that is refused has lost its cookie.
THEOREM RefusalsHaveCause == Spec => RefusedForCause
<1> DEFINE Accounted == Sound /\ SignInsKept /\ PagesKept /\ CookiesKept
<1>1. Init => Accounted
  <2> SUFFICES ASSUME Init PROVE Accounted
    OBVIOUS
  <2>1. SignIns = {} /\ Pages = {}
    BY EmptySeq DEF Init, SignIns, Pages
  <2>2. CookiesKept
    BY DEF Init, CookiesKept
  <2> QED
    BY <2>1, <2>2, SoundInit DEF SignInsKept, PagesKept
<1>2. Accounted /\ [Next]_vars => Accounted'
  BY SoundStep, SignInsStep, PagesStep, CookiesStep
<1>3. Accounted /\ [Next]_vars =>
        \A t \in Tabs :
          LET r == tab[t].request IN
          /\ Answered(t, "signed_out") => ~ InForce(r.auth) \/ Outnumbered(r.auth, signedAt)
          /\ Answered(t, "no_session") => ~ Alive(r.page) \/ Outnumbered(r.page, servedAt)
          /\ Answered(t, "forbidden") => tab[t].page \in displaced
  BY RefusesForCause
<1> HIDE DEF Accounted
<1> QED
  BY <1>1, <1>2, <1>3, PTL DEF RefusedForCause, Spec

===============================================================================
