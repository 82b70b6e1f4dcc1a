---------------------------- MODULE OperatorSessions ----------------------------
(***************************************************************************)
(* Who may act.  The relay keeps the sign-ins of the operator              *)
(* (scripts/operator_auth.py, called by scripts/rate_limit_proxy.py), the  *)
(* application behind it a session for every page that it has served       *)
(* (awg_cita/app.py).  Both tables are in memory, bounded, and forget an   *)
(* entry after an hour.  A request must pass both: the relay looks at the  *)
(* cookie of the sign-in before it reads the request's body, the           *)
(* application at the cookie of the page, and for an action at the CSRF    *)
(* token in the page itself.                                               *)
(*                                                                         *)
(* A browser has one cookie of each kind for all its tabs, and a page load *)
(* replaces the second: answers that set it arrive in any order.  Entries  *)
(* are numbered in the order in which they were entered in their table;    *)
(* the token in a page is represented by the number of its session.        *)
(***************************************************************************)
EXTENDS Integers, Sequences, FiniteSets, FiniteSetsExt

CONSTANTS
    Browsers,
    Tabs,
    BrowserOf,      \* the browser of each tab
    Lifetime,       \* 3600 s, in both tables
    MaxSessions,    \* 128 entries, in both tables
    MaxClock,       \* bound: the time that passes
    MaxSignIns,     \* bound: sign-ins
    MaxPages,       \* bound: pages served
    MaxRestarts     \* bound: restarts of the relay and of the application

ASSUME TabsAssumption == BrowserOf \in [Tabs -> Browsers]
ASSUME TableAssumption == Lifetime \in Nat \ {0} /\ MaxSessions \in Nat \ {0}
ASSUME BoundAssumption == {MaxClock, MaxSignIns, MaxPages, MaxRestarts} \subseteq Nat

VARIABLES
    clock,
    signIns,    \* OperatorAuth.sessions: the sign-ins that are in the table
    pages,      \* _Handler.sessions: the page sessions that are in the table
    signedAt,   \* when each sign-in was entered; history, once it has left the table
    servedAt,   \* when each page session was entered; likewise
    cookies,    \* what every browser sends
    tab,        \* what every tab shows and waits for
    reply,      \* the answer to the request that was answered last, for one step
    loggedOut,  \* history: the sign-ins that were revoked
    displaced,  \* history: the page sessions whose cookie was replaced in its browser
    forgotten,  \* history: the sign-ins and the pages entered before the last restart
    restarts

tables == <<signIns, pages>>
issues == <<signedAt, servedAt>>
history == <<loggedOut, displaced, forgotten>>
vars == <<clock, tables, issues, cookies, tab, reply, history, restarts>>

Time == 0..MaxClock
SignIns == 1..Len(signedAt)
Pages == 1..Len(servedAt)
None == 0

NoCookies == [auth |-> None, page |-> None]

Stages == {"idle", "arriving", "sent", "admitted"}
Replies == {"none", "done", "signed_out", "no_session", "forbidden", "unavailable"}

At(t, stage) == tab[t].stage = stage
Silent == reply' = "none"
Move(t, stage) == tab' = [tab EXCEPT ![t].stage = stage] /\ Silent
Answer(t, answer) ==
    /\ tab' = [tab EXCEPT ![t].stage = "idle", ![t].request = NoCookies]
    /\ reply' = answer

Init ==
    /\ clock = 0
    /\ signIns = {} /\ pages = {} /\ signedAt = <<>> /\ servedAt = <<>>
    /\ cookies = [b \in Browsers |-> NoCookies]
    /\ tab = [t \in Tabs |-> [stage |-> "idle", page |-> None, request |-> NoCookies]]
    /\ reply = "none"
    /\ loggedOut = {} /\ displaced = {} /\ forgotten = [signIns |-> 0, pages |-> 0]
    /\ restarts = 0

-----------------------------------------------------------------------------
(* The tables                                                              *)

Young(created) == clock - created < Lifetime

\* Mutant: the newest entry is popped.
KeptAllButNewest(table, created) ==
    LET living == {n \in table : Young(created[n])} IN
    IF Cardinality(living) >= MaxSessions THEN living \ {Max(living)} ELSE living

\* What is left of a table when an entry is about to be added: the expired ones
\* go, and if it is still full the one that was entered first.
Kept(table, created) ==
    LET living == {n \in table : Young(created[n])} IN
    IF Cardinality(living) >= MaxSessions THEN living \ {Min(living)} ELSE living

-----------------------------------------------------------------------------
(* The relay                                                               *)

\* actor: the operator, for a sign-in that is in the table and not expired.
Actor(n) == n \in signIns /\ Young(signedAt[n])

\* login and authenticate, with the right password; a sign-in that the browser had
\* stays in the table.
Login(b) ==
    /\ Len(signedAt) < MaxSignIns
    /\ signIns' = Kept(signIns, signedAt) \cup {Len(signedAt) + 1}
    /\ signedAt' = Append(signedAt, clock)
    /\ cookies' = [cookies EXCEPT ![b].auth = Len(signedAt) + 1]
    /\ Silent
    /\ UNCHANGED <<clock, pages, servedAt, tab, history, restarts>>

\* It takes an expired one out of the table.
Looked(n) == IF n \in signIns /\ ~Actor(n) THEN signIns \ {n} ELSE signIns

\* The relay checks the sign-in, and that there is the cookie of a page; then it
\* reads the body.
Admit(t) ==
    LET r == tab[t].request IN
    /\ At(t, "sent")
    /\ signIns' = Looked(r.auth)
    /\ IF Actor(r.auth) /\ r.page # None
         THEN Move(t, "admitted")
         ELSE Answer(t, IF Actor(r.auth) THEN "no_session" ELSE "signed_out")
    /\ UNCHANGED <<clock, pages, issues, cookies, history, restarts>>

\* Mutant: only the browser forgets the sign-in.
LogoutClearsCookie(b) ==
    LET n == cookies[b].auth IN
    /\ n \in signIns /\ Actor(n)
    /\ loggedOut' = loggedOut \cup {n}
    /\ cookies' = [cookies EXCEPT ![b].auth = None]
    /\ Silent
    /\ UNCHANGED <<clock, tables, issues, tab, displaced, forgotten, restarts>>

\* logout, which clears the cookie.
Logout(b) ==
    LET n == cookies[b].auth IN
    /\ n # None
    /\ IF Actor(n)
         THEN /\ signIns' = signIns \ {n}
              /\ loggedOut' = loggedOut \cup {n}
              /\ cookies' = [cookies EXCEPT ![b].auth = None]
         ELSE signIns' = Looked(n) /\ UNCHANGED <<loggedOut, cookies>>
    /\ Silent
    /\ UNCHANGED <<clock, pages, issues, tab, displaced, forgotten, restarts>>

-----------------------------------------------------------------------------
(* The application                                                         *)

\* GET / passes the relay and enters a new session, or is sent to the login page.
LoadPage(t) ==
    LET n == cookies[BrowserOf[t]].auth IN
    /\ At(t, "idle")
    /\ signIns' = Looked(n)
    /\ IF Actor(n)
         THEN /\ Len(servedAt) < MaxPages
              /\ pages' = Kept(pages, servedAt) \cup {Len(servedAt) + 1}
              /\ servedAt' = Append(servedAt, clock)
              /\ tab' = [tab EXCEPT ![t].stage = "arriving",
                                    ![t].request = [NoCookies EXCEPT !.page = Len(servedAt) + 1]]
         ELSE tab' = [tab EXCEPT ![t].page = None] /\ UNCHANGED <<pages, servedAt>>
    /\ Silent
    /\ UNCHANGED <<clock, signedAt, cookies, history, restarts>>

\* The page arrives with its cookie, or not at all.
PageArrives(t) ==
    LET b == BrowserOf[t]  n == tab[t].request.page IN
    /\ At(t, "arriving")
    /\ \/ /\ cookies' = [cookies EXCEPT ![b].page = n]
          /\ tab' = [tab EXCEPT ![t] = [stage |-> "idle", page |-> n, request |-> NoCookies]]
          /\ Silent
          /\ displaced' = displaced \cup ({cookies[b].page} \ {None})
       \/ Answer(t, "unavailable") /\ UNCHANGED <<cookies, displaced>>
    /\ UNCHANGED <<clock, tables, issues, loggedOut, forgotten, restarts>>

\* _session_token, which leaves an expired session in the table, and the
\* comparison of the token.  (A read does without the comparison.)
Accept(t) ==
    LET r == tab[t].request IN
    /\ At(t, "admitted")
    /\ Answer(t, IF ~ (r.page \in pages /\ Young(servedAt[r.page])) THEN "no_session"
                 ELSE IF tab[t].page # r.page THEN "forbidden" ELSE "done")
    /\ UNCHANGED <<clock, tables, issues, cookies, history, restarts>>

-----------------------------------------------------------------------------
(* The browser and the machine                                             *)

\* A request carries the cookies of its browser, and the token of its page.
Send(t) ==
    /\ At(t, "idle") /\ tab[t].page # None
    /\ tab' = [tab EXCEPT ![t].stage = "sent", ![t].request = cookies[BrowserOf[t]]]
    /\ Silent
    /\ UNCHANGED <<clock, tables, issues, cookies, history, restarts>>

\* After the check: no token of the bucket, no slot, a short body, no backend.
Drop(t) ==
    /\ At(t, "admitted")
    /\ Answer(t, "unavailable")
    /\ UNCHANGED <<clock, tables, issues, cookies, history, restarts>>

RestartRelay ==
    /\ restarts < MaxRestarts /\ restarts' = restarts + 1
    /\ signIns' = {}
    /\ forgotten' = [forgotten EXCEPT !.signIns = Len(signedAt)]
    /\ Silent
    /\ UNCHANGED <<clock, pages, issues, cookies, tab, loggedOut, displaced>>

RestartApplication ==
    /\ restarts < MaxRestarts /\ restarts' = restarts + 1
    /\ pages' = {}
    /\ forgotten' = [forgotten EXCEPT !.pages = Len(servedAt)]
    /\ Silent
    /\ UNCHANGED <<clock, signIns, issues, cookies, tab, loggedOut, displaced>>

Tick ==
    /\ clock < MaxClock /\ clock' = clock + 1
    /\ Silent
    /\ UNCHANGED <<tables, issues, cookies, tab, history, restarts>>

Next ==
    \/ \E b \in Browsers : Login(b) \/ Logout(b)
    \/ \E t \in Tabs : LoadPage(t) \/ PageArrives(t) \/ Send(t) \/ Admit(t) \/ Accept(t) \/ Drop(t)
    \/ RestartRelay \/ RestartApplication \/ Tick

Spec == Init /\ [][Next]_vars

-----------------------------------------------------------------------------
(* Properties                                                              *)

\* The tables hold issued entries and never more than MaxSessions.
TypeOK ==
    /\ clock \in Time
    /\ signedAt \in Seq(Time) /\ servedAt \in Seq(Time)
    /\ signIns \subseteq SignIns /\ Cardinality(signIns) <= MaxSessions
    /\ pages \subseteq Pages /\ Cardinality(pages) <= MaxSessions
    /\ cookies \in [Browsers -> [auth : SignIns \cup {None}, page : Pages \cup {None}]]
    /\ tab \in [Tabs -> [stage : Stages, page : Pages \cup {None},
                         request : [auth : SignIns \cup {None}, page : Pages \cup {None}]]]
    /\ reply \in Replies
    /\ loggedOut \subseteq SignIns /\ displaced \subseteq Pages
    /\ forgotten \in [signIns : Nat, pages : Nat]
    /\ restarts \in 0..MaxRestarts

\* The step answers the request of a tab.
Answered(t, answer) ==
    tab[t].stage \in {"sent", "admitted"} /\ tab'[t].stage = "idle" /\ reply' = answer

\* What history says of a sign-in and of a page session.
InForce(n) == n \in SignIns /\ Young(signedAt[n]) /\ n \notin loggedOut /\ n > forgotten.signIns
Alive(n) == n \in Pages /\ Young(servedAt[n]) /\ n > forgotten.pages

\* The two looks at a request, each of its own table.  It passes the relay only with
\* a sign-in that at that time has been neither logged out, nor forgotten in a
\* restart, and is younger than its lifetime, also if it was sent before the logout;
\* and it is carried out only for a page session that is alive at that later time,
\* and from the very page that this session was made for.  A logout does not stop
\* what has passed the relay: the application does not look at the sign-in again.
\* (And the state is well typed.)
AdmittedWhileInForce ==
    /\ []TypeOK
    /\ [][\A t \in Tabs :
            LET r == tab[t].request IN
            /\ At(t, "sent") /\ tab'[t].stage = "admitted" => InForce(r.auth)
            /\ Answered(t, "done") => Alive(r.page) /\ r.page = tab[t].page]_vars

\* Pushed out: as many have been entered since as the table holds.
Outnumbered(n, issued) == Len(issued) - n >= MaxSessions

\* Nobody is refused without a cause.  A sign-in ends before its time only by a
\* logout, a restart or MaxSessions newer sign-ins; a page session only by a
\* restart or MaxSessions newer pages; and a page is told that its token is wrong
\* only when its cookie has been replaced by that of a page that arrived later in
\* the same browser.
RefusedForCause ==
    [][\A t \in Tabs :
          LET r == tab[t].request IN
          /\ Answered(t, "signed_out") => ~InForce(r.auth) \/ Outnumbered(r.auth, signedAt)
          /\ Answered(t, "no_session") => ~Alive(r.page) \/ Outnumbered(r.page, servedAt)
          /\ Answered(t, "forbidden") => tab[t].page \in displaced]_vars

=============================================================================
