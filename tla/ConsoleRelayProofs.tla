--------------------------- MODULE ConsoleRelayProofs ---------------------------
(***************************************************************************)
(* The two components between the operator and the application.            *)
(*                                                                         *)
(* The console, for any clients, profiles and calls: what it displays is   *)
(* current, its gates are shut exactly while their calls are in flight,    *)
(* and no save overwrites what was not shown.                              *)
(*                                                                         *)
(* The relay, for any number of requests, slots, tokens and ticks: the     *)
(* types, the bound on the tokens it hands out, and the conservation of    *)
(* its slots.                                                              *)
(***************************************************************************)
EXTENDS Console, RelayAdmission, FiniteSetTheorems, TLAPS

-----------------------------------------------------------------------------
(* The console: the invariant                                              *)

\* The calls that each gate stands for.
Loads == Awaited("loadClients")
Refreshes == Awaited("refreshStatus")
Switches == Pending({"enable", "disable"})
Creations == Pending({"create", "readback"})
Openings == {k \in Awaited("getConfiguration") : k.dialog = configPreview.token}
Savings == {k \in Awaited("updateConfiguration") : k.dialog = configPreview.token}

\* A gate is shut while one call is in flight and open while none is.
Guards(closed, pending) == IF closed THEN \E k : pending = {k} ELSE pending = {}

\* The calls about one client.
OnClient == {"enable", "disable", "delete", "updateConfiguration", "getConfiguration"}

\* A call about a client names one, and so does an open dialog; a token is not newer than
\* the calls.
Addressed ==
    /\ \A k \in calls \cup late : k.function \in OnClient => k.client \in Clients
    /\ \A k \in calls : k.dialog <= made
    /\ configPreview.open => configPreview.client \in Clients
    /\ configPreview.token <= made

\* The list shows clients of the selected profile, an answer lists clients of the profile
\* that the call was for, and that profile is still selected when the answer arrives.
Homed ==
    /\ \A c \in DOMAIN shown : Home[c] = selected
    /\ \A k \in calls : \A c \in DOMAIN k.answer.list : Home[c] = k.profile
    /\ \A k \in calls : k.function \in Listings \cup {"create"} => k.profile = selected

\* Each gate guards its calls; the dialog of a creation stays open until the creation has been
\* read back, and the configuration is shown, and can be saved, only once it is loaded.
Gated ==
    /\ Guards(loading, Loads)
    /\ Guards(refreshing, Refreshes)
    /\ Guards(statusClient.submitting, Switches)
    /\ Guards(createPreview.submitting, Creations)
    /\ createPreview.submitting => createPreview.open
    /\ configPreview.open =>
          /\ Guards(configPreview.loading, Openings)
          /\ Guards(configPreview.saving, Savings)
          /\ configPreview.loading => configPreview.result = 0 /\ ~ configPreview.saving

\* What the configuration dialog shows, or will show, is of its client and no older than
\* the dialog.
Opened ==
    /\ configPreview.open => version[configPreview.client] >= openedAt
    /\ configPreview.open =>
          \A k \in Openings \cup Savings :
             /\ k.client = configPreview.client
             /\ k.answer.done /\ k.answer.ok => k.answer.version >= openedAt
    /\ configPreview.result # 0 =>
          /\ configPreview.open
          /\ configPreview.result >= openedAt
          /\ <<configPreview.client, configPreview.result>> \in seen

\* A save carries the revision of a configuration that was shown.
Based ==
    \A k \in calls \cup late :
        k.function = "updateConfiguration" => <<k.client, k.version>> \in seen

Settled == TypeOK /\ Addressed /\ Homed /\ Gated /\ Opened /\ Based

-----------------------------------------------------------------------------
(* The console: lemmas about the operators                                 *)

\* A list shows some clients.
LEMMA ListView ==
    ASSUME NEW l \in Lists
    PROVE  DOMAIN l \subseteq Clients /\ \A c \in DOMAIN l : l[c] \in Live
BY DEF Lists

\* A function from clients to what a client may be is a list.
LEMMA ListsAre ==
    ASSUME NEW S \in SUBSET Clients, NEW l \in [S -> Live]
    PROVE  l \in Lists /\ DOMAIN l = S
BY DEF Lists

\* So is the empty one.
LEMMA EmptyList == <<>> \in Lists /\ DOMAIN <<>> = {}
<1>1. <<>> \in [{} -> Live] /\ DOMAIN <<>> = {}
  OBVIOUS
<1> QED BY <1>1, ListsAre

\* What the service lists of a profile.
LEMMA ListOfView ==
    ASSUME TypeOK, NEW p \in Profiles
    PROVE  ListOf(p) \in Lists /\ \A c \in DOMAIN ListOf(p) : Home[c] = p
<1> DEFINE S == {d \in Clients : Home[d] = p /\ status[d] \in Live}
<1>1. ListOf(p) \in [S -> Live]
  BY DEF ListOf
<1>2. S \in SUBSET Clients /\ \A c \in S : Home[c] = p
  OBVIOUS
<1> HIDE DEF S
<1> QED BY <1>1, <1>2, ListsAre

\* An answer, and an answer with a field replaced.
LEMMA AnswerRecord ==
    ASSUME NEW d \in BOOLEAN, NEW o \in BOOLEAN, NEW l \in Lists, NEW v \in Nat
    PROVE  [done |-> d, ok |-> o, list |-> l, version |-> v] \in Answers
BY DEF Answers

\* An answer with one field replaced.
LEMMA AnswerReplaced ==
    ASSUME NEW d, NEW o, NEW l, NEW v, NEW x
    PROVE  LET a == [done |-> d, ok |-> o, list |-> l, version |-> v]
           IN  /\ [a EXCEPT !.done = x] = [done |-> x, ok |-> o, list |-> l, version |-> v]
               /\ [a EXCEPT !.ok = x] = [done |-> d, ok |-> x, list |-> l, version |-> v]
               /\ [a EXCEPT !.list = x] = [done |-> d, ok |-> o, list |-> x, version |-> v]
               /\ [a EXCEPT !.version = x] = [done |-> d, ok |-> o, list |-> l, version |-> x]
OBVIOUS

\* The answers that the service gives.
LEMMA AnswerView ==
    ASSUME NEW ok \in BOOLEAN, NEW v \in Nat, NEW l \in Lists
    PROVE  /\ [done |-> TRUE, ok |-> ok, list |-> <<>>, version |-> v] \in Answers
           /\ [Success EXCEPT !.list = l] \in Answers
           /\ [Success EXCEPT !.list = l].list = l
           /\ [Success EXCEPT !.version = v] \in Answers
           /\ [Success EXCEPT !.version = v].list = <<>>
           /\ [Success EXCEPT !.version = v].version = v
           /\ NoAnswer \in Answers /\ NoAnswer.list = <<>> /\ ~ NoAnswer.done
           /\ Failure \in Answers /\ Failure.list = <<>> /\ ~ Failure.ok
<1>0. <<>> \in Lists
  BY EmptyList
<1>1. [done |-> TRUE, ok |-> ok, list |-> <<>>, version |-> v] \in Answers
  BY <1>0, AnswerRecord
<1>2. NoAnswer \in Answers /\ NoAnswer.list = <<>> /\ ~ NoAnswer.done
  <2>1. NoAnswer \in Answers
    BY <1>0, AnswerRecord DEF NoAnswer
  <2> QED BY <2>1, Zenon DEF NoAnswer
<1> DEFINE none == <<>>
           no == FALSE
           yes == TRUE
<1>a. NoAnswer = [done |-> no, ok |-> no, list |-> none, version |-> 0]
  BY Zenon DEF NoAnswer
<1>b. Failure = [NoAnswer EXCEPT !.done = yes] /\ Success = [Failure EXCEPT !.ok = yes]
  BY Zenon DEF Failure, Success
<1>c. yes \in BOOLEAN /\ no \in BOOLEAN /\ none \in Lists
  BY <1>0
<1> HIDE DEF none, no, yes
<1>3. Failure = [done |-> yes, ok |-> no, list |-> none, version |-> 0]
  BY <1>a, <1>b
<1>4. Success = [done |-> yes, ok |-> yes, list |-> none, version |-> 0]
  <2>1. Success = [Failure EXCEPT !.ok = yes]
    BY <1>b
  <2> QED BY <1>3, <2>1
<1>5. Failure \in Answers /\ Failure.list = <<>> /\ ~ Failure.ok
  <2>1. Failure \in Answers
    BY <1>c, <1>3, AnswerRecord
  <2> QED BY <1>3, <2>1, Zenon DEF none, no
<1>6. [Success EXCEPT !.list = l] = [done |-> yes, ok |-> yes, list |-> l, version |-> 0]
  BY <1>4
<1>7. [Success EXCEPT !.version = v] = [done |-> yes, ok |-> yes, list |-> none, version |-> v]
  BY <1>4
<1>8. [Success EXCEPT !.list = l] \in Answers /\ [Success EXCEPT !.list = l].list = l
  <2>1. [Success EXCEPT !.list = l] \in Answers
    BY <1>c, <1>6, AnswerRecord
  <2> QED BY <1>6, <2>1, Zenon
<1>9. /\ [Success EXCEPT !.version = v] \in Answers
      /\ [Success EXCEPT !.version = v].list = <<>>
      /\ [Success EXCEPT !.version = v].version = v
  <2>1. [Success EXCEPT !.version = v] \in Answers
    BY <1>c, <1>7, AnswerRecord
  <2> QED BY <1>7, <2>1, Zenon DEF none
<1> QED BY <1>1, <1>2, <1>5, <1>8, <1>9

\* A call is what it was issued for.
LEMMA NewCallView ==
    ASSUME TypeOK, NEW f \in Functions, NEW p \in Profiles, NEW c \in AnyClient, NEW v \in Nat,
           NEW d \in Nat
    PROVE  /\ NewCall(f, p, c, v, d) \in Calls
           /\ NewCall(f, p, c, v, d).function = f /\ NewCall(f, p, c, v, d).profile = p
           /\ NewCall(f, p, c, v, d).client = c /\ NewCall(f, p, c, v, d).version = v
           /\ NewCall(f, p, c, v, d).dialog = d /\ NewCall(f, p, c, v, d).answer = NoAnswer
<1>1. made + 1 \in Nat
  BY DEF TypeOK
<1>2. NoAnswer \in Answers
  BY AnswerView, EmptyList
<1> QED BY <1>1, <1>2 DEF NewCall, Calls

\* The call that a function issues, and what it adds to the calls that wait.
LEMMA IssueView ==
    ASSUME TypeOK, NEW f \in Functions, NEW p \in Profiles, NEW c \in AnyClient, NEW v \in Nat,
           NEW d \in Nat, Issue(f, p, c, v, d)
    PROVE  \E n \in Calls :
              /\ n.function = f /\ n.profile = p /\ n.client = c /\ n.version = v
              /\ n.dialog = d /\ n.answer.list = <<>> /\ ~ n.answer.done
              /\ calls' = calls \cup {n} /\ made' = made + 1
<1> DEFINE n == NewCall(f, p, c, v, d)
<1>1. /\ n \in Calls /\ n.function = f /\ n.profile = p /\ n.client = c /\ n.version = v
      /\ n.dialog = d /\ n.answer = NoAnswer
  BY NewCallView
<1>2. calls' = calls \cup {n} /\ made' = made + 1
  BY DEF Issue
<1>3. NoAnswer.list = <<>> /\ ~ NoAnswer.done
  BY DEF NoAnswer
<1> QED BY <1>1, <1>2, <1>3

\* What a new call adds to the calls of each gate.
LEMMA IssueSets ==
    ASSUME NEW n, calls' = calls \cup {n}
    PROVE  /\ Loads' = IF n.function = "loadClients" THEN Loads \cup {n} ELSE Loads
           /\ Refreshes' = IF n.function = "refreshStatus" THEN Refreshes \cup {n} ELSE Refreshes
           /\ Switches' = IF n.function \in {"enable", "disable"} THEN Switches \cup {n}
                                                                   ELSE Switches
           /\ Creations' = IF n.function \in {"create", "readback"} THEN Creations \cup {n}
                                                                     ELSE Creations
           /\ configPreview'.token = configPreview.token =>
                 /\ n.function # "getConfiguration" => Openings' = Openings
                 /\ Savings' = IF n.function = "updateConfiguration"
                                  /\ n.dialog = configPreview.token
                                 THEN Savings \cup {n} ELSE Savings
<1>1. /\ Loads' = IF n.function = "loadClients" THEN Loads \cup {n} ELSE Loads
      /\ Refreshes' = IF n.function = "refreshStatus" THEN Refreshes \cup {n} ELSE Refreshes
  BY DEF Loads, Refreshes, Awaited
<1>2. /\ Switches' = IF n.function \in {"enable", "disable"} THEN Switches \cup {n} ELSE Switches
      /\ Creations' = IF n.function \in {"create", "readback"} THEN Creations \cup {n}
                                                                ELSE Creations
  BY DEF Switches, Creations, Pending
<1>3. ASSUME configPreview'.token = configPreview.token
      PROVE  /\ n.function # "getConfiguration" => Openings' = Openings
             /\ Savings' = IF n.function = "updateConfiguration"
                              /\ n.dialog = configPreview.token
                             THEN Savings \cup {n} ELSE Savings
  BY <1>3 DEF Openings, Savings, Awaited
<1> QED BY <1>1, <1>2, <1>3

\* The answer to a call replaces it by one that waits for the same.
LEMMA ReplyView ==
    ASSUME NEW k \in Calls, NEW a \in Answers, Reply(k, a)
    PROVE  \E n \in Calls :
              /\ n.function = k.function /\ n.profile = k.profile /\ n.client = k.client
              /\ n.version = k.version /\ n.dialog = k.dialog /\ n.answer = a
              /\ calls' = (calls \ {k}) \cup {n}
<1> DEFINE n == [k EXCEPT !.answer = a]
<1>1. /\ n \in Calls /\ n.function = k.function /\ n.profile = k.profile /\ n.client = k.client
      /\ n.version = k.version /\ n.dialog = k.dialog /\ n.answer = a
  BY DEF Calls
<1>2. calls' = (calls \ {k}) \cup {n}
  BY DEF Reply
<1> QED BY <1>1, <1>2

\* An answered call stands where the call stood.
LEMMA ReplySets ==
    ASSUME NEW k \in calls, NEW n, n.function = k.function, n.dialog = k.dialog,
           calls' = (calls \ {k}) \cup {n}, configPreview' = configPreview
    PROVE  /\ Loads' = IF k \in Loads THEN (Loads \ {k}) \cup {n} ELSE Loads
           /\ Refreshes' = IF k \in Refreshes THEN (Refreshes \ {k}) \cup {n} ELSE Refreshes
           /\ Switches' = IF k \in Switches THEN (Switches \ {k}) \cup {n} ELSE Switches
           /\ Creations' = IF k \in Creations THEN (Creations \ {k}) \cup {n} ELSE Creations
           /\ Openings' = IF k \in Openings THEN (Openings \ {k}) \cup {n} ELSE Openings
           /\ Savings' = IF k \in Savings THEN (Savings \ {k}) \cup {n} ELSE Savings
<1>1. /\ Loads' = IF k \in Loads THEN (Loads \ {k}) \cup {n} ELSE Loads
      /\ Refreshes' = IF k \in Refreshes THEN (Refreshes \ {k}) \cup {n} ELSE Refreshes
  BY DEF Loads, Refreshes, Awaited
<1>2. /\ Switches' = IF k \in Switches THEN (Switches \ {k}) \cup {n} ELSE Switches
      /\ Creations' = IF k \in Creations THEN (Creations \ {k}) \cup {n} ELSE Creations
  BY DEF Switches, Creations, Pending
<1>3. /\ Openings' = IF k \in Openings THEN (Openings \ {k}) \cup {n} ELSE Openings
      /\ Savings' = IF k \in Savings THEN (Savings \ {k}) \cup {n} ELSE Savings
  BY DEF Openings, Savings, Awaited
<1> QED BY <1>1, <1>2, <1>3

\* A gate that guards a call guards the answered one.
LEMMA GuardsSwapped ==
    ASSUME NEW x, NEW S, NEW T, NEW k, NEW n, Guards(x, S),
           T = IF k \in S THEN (S \ {k}) \cup {n} ELSE S
    PROVE  Guards(x, T)
<1>1. CASE k \in S
  <2>1. x /\ S = {k}
    BY <1>1 DEF Guards
  <2>2. T = {n}
    BY <1>1, <2>1
  <2> QED BY <2>1, <2>2 DEF Guards
<1>2. CASE k \notin S
  BY <1>2 DEF Guards
<1> QED BY <1>1, <1>2

\* A continuation takes its call out of those that wait.
LEMMA ReturnSets ==
    ASSUME NEW k \in calls, calls' = calls \ {k}, configPreview'.token = configPreview.token
    PROVE  /\ Loads' = Loads \ {k} /\ Refreshes' = Refreshes \ {k}
           /\ Switches' = Switches \ {k} /\ Creations' = Creations \ {k}
           /\ Openings' = Openings \ {k} /\ Savings' = Savings \ {k}
BY DEF Loads, Refreshes, Switches, Creations, Openings, Savings, Awaited, Pending

\* The sets that a call is in.
LEMMA Membership ==
    ASSUME NEW k \in calls
    PROVE  /\ k \in Loads <=> k.function = "loadClients"
           /\ k \in Refreshes <=> k.function = "refreshStatus"
           /\ k \in Switches <=> k.function \in {"enable", "disable"}
           /\ k \in Creations <=> k.function \in {"create", "readback"}
           /\ k \in Openings <=> k.function = "getConfiguration" /\ k.dialog = configPreview.token
           /\ k \in Savings <=> k.function = "updateConfiguration"
                                /\ k.dialog = configPreview.token
BY DEF Loads, Refreshes, Switches, Creations, Openings, Savings, Awaited, Pending

\* What a change does to the service: it makes a revision newer, and only the revision of

\* the client whose configuration it was sent for, if that still is the one it names.
LEMMA EffectView ==
    ASSUME TypeOK, NEW k \in Calls, k.function \in OnClient => k.client \in Clients,
           NEW ok \in BOOLEAN, Effect(k, ok)
    PROVE  /\ status' \in [Clients -> Live \cup {"unborn", "gone"}]
           /\ version' \in [Clients -> Nat]
           /\ \A c \in Clients : version'[c] >= version[c]
           /\ \A c \in Clients : version'[c] # version[c] =>
                 k.function = "updateConfiguration" /\ c = k.client /\ version[c] = k.version
<1>0. status \in [Clients -> Live \cup {"unborn", "gone"}] /\ version \in [Clients -> Nat]
  BY DEF TypeOK
<1> DEFINE States == Live \cup {"unborn", "gone"}
<1>v. version' = version => /\ version' \in [Clients -> Nat]
                            /\ \A c \in Clients : version'[c] >= version[c]
  BY <1>0
<1>s. \A c, s : s \in States /\ status' = [status EXCEPT ![c] = s] =>
                 status' \in [Clients -> States]
  <2> HIDE DEF States
  <2>1. status \in [Clients -> States]
    BY <1>0 DEF States
  <2> QED BY <2>1
<1>l. Live \subseteq States /\ "gone" \in States /\ "ONLINE" \in States
  BY DEF Live
<1> HIDE DEF States
<1>1. CASE UNCHANGED service
  <2>1. status' = status /\ version' = version
    BY <1>1 DEF service
  <2> QED BY <1>0, <1>v, <2>1
<1>2. CASE /\ k.function \in {"enable", "disable"}
           /\ status' = [status EXCEPT ![k.client] =
                            IF k.function = "enable" THEN "ONLINE" ELSE "DISABLED"]
           /\ UNCHANGED version
  <2> DEFINE s == IF k.function = "enable" THEN "ONLINE" ELSE "DISABLED"
  <2>1. s \in Live
    BY DEF Live
  <2>2. status' = [status EXCEPT ![k.client] = s] /\ version' = version
    BY <1>2
  <2> HIDE DEF s
  <2> QED BY <1>v, <1>s, <1>l, <2>1, <2>2 DEF States
<1>3. CASE status' = [status EXCEPT ![k.client] = "gone"] /\ UNCHANGED version
  BY <1>v, <1>s, <1>l, <1>3 DEF States
<1>4. CASE /\ \E c \in Clients : status' = [status EXCEPT ![c] = "ONLINE"]
           /\ UNCHANGED version
  BY <1>v, <1>s, <1>l, <1>4 DEF States
<1>5. CASE /\ k.function = "updateConfiguration" /\ version[k.client] = k.version
           /\ version' = [version EXCEPT ![k.client] = @ + 1] /\ UNCHANGED status
  <2>1. k.client \in Clients
    BY <1>5 DEF OnClient
  <2>2. version' \in [Clients -> Nat] /\ \A c \in Clients \ {k.client} : version'[c] = version[c]
    BY <1>0, <1>5, <2>1
  <2>3. version'[k.client] = version[k.client] + 1
    BY <1>0, <1>5, <2>1
  <2> QED BY <1>0, <1>5, <2>1, <2>2, <2>3
<1> QED BY <1>1, <1>2, <1>3, <1>4, <1>5 DEF Effect

-----------------------------------------------------------------------------
(* The console: what every step does to the calls                          *)

\* A call that the step issues.
Fresh(n) ==
    /\ n \in Calls /\ n.answer.list = <<>> /\ ~ n.answer.done
    /\ n.profile = selected' /\ n.dialog <= made'
    /\ n.function \in OnClient => n.client \in Clients
    /\ n.function \in {"getConfiguration", "updateConfiguration"} =>
          n.client = configPreview'.client
    /\ n.function = "updateConfiguration" => <<n.client, n.version>> \in seen

\* A call that the step answers.
Answered(n, k) ==
    /\ n \in Calls /\ n.function = k.function /\ n.profile = k.profile /\ n.client = k.client
    /\ n.version = k.version /\ n.dialog = k.dialog
    /\ \A c \in DOMAIN n.answer.list : Home[c] = k.profile
    /\ n.answer.ok /\ k.function \in {"getConfiguration", "updateConfiguration"} =>
          n.answer.version = version'[k.client]

Traced == \A n \in calls' : n \in calls \/ Fresh(n) \/ \E k \in calls : Answered(n, k)

Carried ==
    /\ Traced /\ late' \subseteq late \cup calls
    /\ made' \in Nat /\ made' >= made
    /\ seen \subseteq seen' /\ seen' \subseteq Clients \X Nat
    /\ \A c \in Clients : version'[c] >= version[c]

\* Nothing is issued or answered.
LEMMA QuietCarried ==
    ASSUME Settled, calls' \subseteq calls, late' = late, made' = made, seen' = seen,
           version' = version
    PROVE  Carried
<1>1. Traced
  BY DEF Traced
<1>2. made \in Nat /\ seen \subseteq Clients \X Nat /\ \A c \in Clients : version[c] \in Nat
  BY DEF Settled, TypeOK
<1> QED BY <1>1, <1>2 DEF Carried

\* A handler issues a call.
LEMMA IssueCarried ==
    ASSUME Settled, NEW f \in Functions, NEW p \in Profiles, NEW c \in AnyClient, NEW v \in Nat,
           NEW d \in Nat, Issue(f, p, c, v, d), late' = late, seen' = seen, version' = version,
           p = selected', d <= made + 1, f \in OnClient => c \in Clients,
           f \in {"getConfiguration", "updateConfiguration"} => c = configPreview'.client,
           f = "updateConfiguration" => <<c, v>> \in seen
    PROVE  Carried
<1>1. PICK n \in Calls :
        /\ n.function = f /\ n.profile = p /\ n.client = c /\ n.version = v
        /\ n.dialog = d /\ n.answer.list = <<>> /\ ~ n.answer.done
        /\ calls' = calls \cup {n} /\ made' = made + 1
  BY IssueView DEF Settled
<1>2. Fresh(n)
  BY <1>1 DEF Fresh
<1>3. Traced
  BY <1>1, <1>2 DEF Traced
<1>4. made \in Nat /\ seen \subseteq Clients \X Nat /\ \A x \in Clients : version[x] \in Nat
  BY DEF Settled, TypeOK
<1> QED BY <1>1, <1>3, <1>4 DEF Carried

\* The service answers a call.
LEMMA ReplyCarried ==
    ASSUME Settled, NEW k \in calls, NEW a \in Answers, Reply(k, a),
           \A c \in DOMAIN a.list : Home[c] = k.profile,
           a.ok /\ k.function \in {"getConfiguration", "updateConfiguration"} =>
              a.version = version'[k.client],
           late' \subseteq late \cup calls, made' = made, seen' = seen,
           \A c \in Clients : version'[c] >= version[c]
    PROVE  Carried
<1>1. k \in Calls
  BY DEF Settled, TypeOK
<1>2. PICK n \in Calls :
        /\ n.function = k.function /\ n.profile = k.profile /\ n.client = k.client
        /\ n.version = k.version /\ n.dialog = k.dialog /\ n.answer = a
        /\ calls' = (calls \ {k}) \cup {n}
  BY <1>1, ReplyView
<1>3. Answered(n, k)
  <2>1. \A c \in DOMAIN n.answer.list : Home[c] = k.profile
    BY <1>2
  <2>2. n.answer.ok /\ k.function \in {"getConfiguration", "updateConfiguration"} =>
           n.answer.version = version'[k.client]
    BY <1>2, Zenon
  <2> QED BY <1>2, <2>1, <2>2, Zenon DEF Answered
<1>4. Traced
  BY <1>2, <1>3 DEF Traced
<1>5. made \in Nat /\ seen \subseteq Clients \X Nat
  BY DEF Settled, TypeOK
<1> QED BY <1>4, <1>5 DEF Carried

\* Every step carries the calls over, answers one or issues one.
LEMMA StepCarried ==
    ASSUME Settled, Next
    PROVE  Carried
<1>1. ASSUME Operator PROVE Carried
  <2>1. CASE RefreshStatus
    <3>1. /\ Issue("refreshStatus", selected, NoClient, 0, 0)
          /\ late' = late /\ seen' = seen /\ version' = version /\ selected' = selected
      BY <2>1 DEF RefreshStatus, service, ghosts, lists
    <3>2. /\ "refreshStatus" \in Functions /\ selected \in Profiles
          /\ NoClient \in AnyClient /\ 0 \in Nat
          /\ 0 <= made + 1
      BY <2>1 DEF RefreshStatus, Settled, TypeOK, Functions, Listings, Changes, AnyClient
    <3> QED BY <3>1, <3>2, IssueCarried DEF OnClient
  <2>2. CASE CloseDeleteClient
    BY <2>2, QuietCarried DEF CloseDeleteClient, service, ghosts, dialogs, lists
  <2>3. CASE SubmitDeleteClient
    <3>1. /\ Issue("delete", selected, deleteClient.client, 0, 0)
          /\ late' = late /\ seen' = seen /\ version' = version /\ selected' = selected
      BY <2>3 DEF SubmitDeleteClient, service, ghosts, lists
    <3>2. /\ "delete" \in Functions /\ selected \in Profiles
          /\ deleteClient.client \in AnyClient /\ 0 \in Nat
          /\ 0 <= made + 1
      BY <2>3 DEF SubmitDeleteClient, Settled, TypeOK, Functions, Listings, Changes,
         AnyClient
    <3>3. deleteClient.client \in Clients
      BY <2>3, ListView DEF SubmitDeleteClient, Settled, TypeOK, DeleteVisible
    <3> QED BY <3>1, <3>2, <3>3, IssueCarried DEF OnClient
  <2>4. CASE CloseConfigurationPreview
    BY <2>4, QuietCarried DEF CloseConfigurationPreview, service, ghosts, dialogs, lists
  <2>5. CASE SaveClientConfiguration
    <3>1. /\ Issue("updateConfiguration", selected, configPreview.client, configPreview.result,
                configPreview.token)
          /\ late' = late /\ seen' = seen /\ version' = version /\ selected' = selected
      BY <2>5 DEF SaveClientConfiguration, service, ghosts, lists
    <3>2. /\ "updateConfiguration" \in Functions /\ selected \in Profiles
          /\ configPreview.client \in AnyClient /\ configPreview.result \in Nat
          /\ configPreview.token \in Nat
          /\ configPreview.token <= made + 1
      BY <2>5 DEF SaveClientConfiguration, Settled, TypeOK, Functions, Listings, Changes,
         AnyClient, Addressed
    <3>3. /\ configPreview.client \in Clients /\ configPreview'.client = configPreview.client
          /\ <<configPreview.client, configPreview.result>> \in seen
      BY <2>5 DEF SaveClientConfiguration, Settled, TypeOK, Addressed, Opened
    <3> QED BY <3>1, <3>2, <3>3, IssueCarried DEF OnClient
  <2>6. CASE OpenCreatePreview
    BY <2>6, QuietCarried DEF OpenCreatePreview, service, ghosts, dialogs, lists
  <2>7. CASE CloseCreatePreview
    BY <2>7, QuietCarried DEF CloseCreatePreview, service, ghosts, dialogs, lists
  <2>8. CASE SubmitCreatePreview
    <3>1. /\ Issue("create", selected, NoClient, 0, 0)
          /\ late' = late /\ seen' = seen /\ version' = version /\ selected' = selected
      BY <2>8 DEF SubmitCreatePreview, service, ghosts, lists
    <3>2. "create" \in Functions /\ selected \in Profiles /\ NoClient \in AnyClient /\ 0 \in Nat
          /\ 0 <= made + 1
      BY <2>8 DEF SubmitCreatePreview, Settled, TypeOK, Functions, Listings, Changes,
         AnyClient
    <3> QED BY <3>1, <3>2, IssueCarried DEF OnClient
  <2>9. ASSUME NEW p \in Profiles, SwitchProfile(p) PROVE Carried
    <3>1. /\ Issue("loadClients", p, NoClient, 0, 0)
          /\ late' = late /\ seen' = seen /\ version' = version /\ selected' = p
      BY <2>9 DEF SwitchProfile, service, ghosts, lists
    <3>2. "loadClients" \in Functions /\ p \in Profiles /\ NoClient \in AnyClient /\ 0 \in Nat
          /\ 0 <= made + 1
      BY <2>9 DEF SwitchProfile, Settled, TypeOK, Functions, Listings, Changes, AnyClient
    <3> QED BY <3>1, <3>2, IssueCarried DEF OnClient
  <2>10. ASSUME NEW c \in Clients, SubmitStatusClient(c) PROVE Carried
    <3> DEFINE f == IF shown[c] = "DISABLED" THEN "enable" ELSE "disable"
    <3>1. /\ Issue(f, selected, c, 0, 0)
          /\ late' = late /\ seen' = seen /\ version' = version /\ selected' = selected
      BY <2>10 DEF SubmitStatusClient, service, ghosts, lists
    <3>2. f \in {"enable", "disable"}
      OBVIOUS
    <3> HIDE DEF f
    <3>3. f \in Functions /\ selected \in Profiles /\ c \in AnyClient /\ 0 <= made + 1
      BY <3>2 DEF Settled, TypeOK, Functions, Changes, AnyClient
    <3> QED BY <3>1, <3>2, <3>3, IssueCarried DEF OnClient
  <2>11. ASSUME NEW c \in Clients, OpenDeleteClient(c) PROVE Carried
    BY <2>11, QuietCarried DEF OpenDeleteClient, service, ghosts, dialogs, lists
  <2>12. ASSUME NEW c \in Clients, OpenConfigurationPreview(c) PROVE Carried
    <3>1. /\ Issue("getConfiguration", selected, c, 0, made + 1)
          /\ late' = late /\ seen' = seen /\ version' = version /\ selected' = selected
      BY <2>12 DEF OpenConfigurationPreview, service, ghosts, lists
    <3>2. /\ "getConfiguration" \in Functions /\ selected \in Profiles
          /\ c \in AnyClient /\ 0 \in Nat /\ made + 1 \in Nat
          /\ made + 1 <= made + 1
      BY <2>12 DEF OpenConfigurationPreview, Settled, TypeOK, Functions, Listings, Changes,
         AnyClient
    <3>3. configPreview'.client = c
      BY <2>12 DEF OpenConfigurationPreview, ClosedPreview
    <3> QED BY <3>1, <3>2, <3>3, IssueCarried DEF OnClient
  <2> QED BY <1>1, <2>1, <2>2, <2>3, <2>4, <2>5, <2>6, <2>7, <2>8, <2>9, <2>10, <2>11, <2>12
             DEF Operator
<1>2. ASSUME NEW k \in calls, Settle(k) PROVE Carried
  <2>1. CASE Change(k)
    <3>0. k \in Calls /\ TypeOK /\ (k.function \in OnClient => k.client \in Clients)
      BY DEF Settled, TypeOK, Addressed
    <3>1. PICK ok \in BOOLEAN :
            /\ Effect(k, ok)
            /\ Reply(k, [done |-> TRUE, ok |-> ok, list |-> <<>>,
                         version |-> IF k.client = NoClient THEN 0 ELSE version'[k.client]])
      BY <2>1 DEF Change
    <3> DEFINE v == IF k.client = NoClient THEN 0 ELSE version'[k.client]
               a == [done |-> TRUE, ok |-> ok, list |-> <<>>, version |-> v]
    <3>2. version' \in [Clients -> Nat] /\ \A c \in Clients : version'[c] >= version[c]
      BY <3>0, <3>1, EffectView
    <3>3. v \in Nat /\ (k.client \in Clients => v = version'[k.client])
      <4>1. k.client \in Clients \/ k.client = NoClient
        BY <3>0 DEF Calls, AnyClient
      <4> QED BY <3>2, <4>1, HomeAssumption
    <3>4. late' = late /\ made' = made /\ seen' = seen
      BY <2>1 DEF Change, ghosts
    <3>5. Reply(k, a)
      BY <3>1
    <3> HIDE DEF v
    <3>6. a \in Answers /\ a.list = <<>> /\ a.version = v
      BY <3>3, AnswerView, EmptyList
    <3> HIDE DEF a
    <3>7. \A c \in DOMAIN a.list : Home[c] = k.profile
      BY <3>6, EmptyList
    <3>8. k.function \in {"getConfiguration", "updateConfiguration"} =>
             a.version = version'[k.client]
      BY <3>0, <3>3, <3>6 DEF OnClient
    <3> QED BY <3>2, <3>4, <3>5, <3>6, <3>7, <3>8, ReplyCarried
  <2>2. CASE Read(k)
    <3>0. k \in Calls /\ TypeOK /\ (k.function \in OnClient => k.client \in Clients)
      BY DEF Settled, TypeOK, Addressed
    <3>1. late' = late /\ made' = made /\ seen' = seen /\ version' = version
      BY <2>2 DEF Read, ghosts, service
    <3>2. \A c \in Clients : version'[c] >= version[c]
      BY <3>0, <3>1 DEF TypeOK
    <3>3. CASE k.function \in Listings
      <4> DEFINE l == ListOf(k.profile)
                 a == [Success EXCEPT !.list = l]
      <4>1. Reply(k, a) /\ k.profile \in Profiles
        BY <2>2, <3>0, <3>3 DEF Read, Calls
      <4>2. l \in Lists /\ \A c \in DOMAIN l : Home[c] = k.profile
        BY <3>0, <4>1, ListOfView
      <4> HIDE DEF l
      <4>3. a \in Answers /\ a.list = l
        BY <4>2, AnswerView
      <4> HIDE DEF a
      <4>4. k.function \notin {"getConfiguration", "updateConfiguration"}
        BY <3>3 DEF Listings
      <4> QED BY <3>1, <3>2, <4>1, <4>2, <4>3, <4>4, ReplyCarried
    <3>4. CASE k.function \notin Listings
      <4> DEFINE v == version[k.client]
                 a == [Success EXCEPT !.version = v]
      <4>1. Reply(k, a) /\ k.function = "getConfiguration"
        BY <2>2, <3>0, <3>4 DEF Read, Calls, Functions
      <4>2. v \in Nat
        BY <3>0, <4>1 DEF TypeOK, OnClient
      <4> HIDE DEF v
      <4>3. a \in Answers /\ a.list = <<>> /\ a.version = v
        BY <4>2, AnswerView, EmptyList
      <4> HIDE DEF a
      <4>4. \A c \in DOMAIN a.list : Home[c] = k.profile
        BY <4>3, EmptyList
      <4>5. a.version = version'[k.client]
        BY <3>1, <4>3 DEF v
      <4> QED BY <3>1, <3>2, <4>1, <4>3, <4>4, <4>5, ReplyCarried
    <3> QED BY <3>3, <3>4
  <2>3. CASE Fail(k)
    <3>1. made' = made /\ seen' = seen /\ version' = version /\ late' \subseteq late \cup calls
      BY <2>3 DEF Fail, ghosts, service
    <3>2. \A c \in Clients : version'[c] >= version[c]
      BY <3>1 DEF Settled, TypeOK
    <3>3. Failure \in Answers /\ Failure.list = <<>> /\ ~ Failure.ok
      BY AnswerView, EmptyList
    <3>4. \A c \in DOMAIN Failure.list : Home[c] = k.profile
      BY <3>3, EmptyList
    <3>5. Reply(k, Failure)
      BY <2>3 DEF Fail
    <3> QED BY <3>1, <3>2, <3>3, <3>4, <3>5, ReplyCarried
  <2> QED BY <1>2, <2>1, <2>2, <2>3 DEF Settle
<1>3. ASSUME NEW k \in calls, Continue(k) PROVE Carried
  <2>1. CASE LoadArrives(k)
    BY <2>1, QuietCarried DEF LoadArrives, Return, service, ghosts
  <2>2. CASE RefreshArrives(k)
    BY <2>2, QuietCarried DEF RefreshArrives, Return, service, ghosts
  <2>3. CASE StatusArrives(k)
    BY <2>3, QuietCarried DEF StatusArrives, Return, service, ghosts
  <2>4. CASE DeleteArrives(k)
    BY <2>4, QuietCarried DEF DeleteArrives, Return, service, ghosts
  <2>5. CASE ConfigurationArrives(k)
    <3>1. calls' \subseteq calls /\ late' = late /\ made' = made /\ version' = version
      BY <2>5 DEF ConfigurationArrives, Return, service
    <3>2. Traced
      BY <3>1 DEF Traced
    <3>3. made \in Nat /\ seen \subseteq Clients \X Nat /\ \A c \in Clients : version[c] \in Nat
      BY DEF Settled, TypeOK
    <3>4. k.client \in Clients /\ k.answer.version \in Nat
      BY <2>5 DEF Settled, Addressed, TypeOK, Calls, Answers, ConfigurationArrives, Awaited,
         OnClient
    <3>5. seen' = seen \/ seen' = seen \cup {<<k.client, k.answer.version>>}
      BY <2>5 DEF ConfigurationArrives, Show
    <3> QED BY <3>1, <3>2, <3>3, <3>4, <3>5 DEF Carried
  <2>6. CASE SaveArrives(k)
    <3>1. calls' \subseteq calls /\ late' = late /\ made' = made /\ version' = version
      BY <2>6 DEF SaveArrives, Return, service
    <3>2. Traced
      BY <3>1 DEF Traced
    <3>3. made \in Nat /\ seen \subseteq Clients \X Nat /\ \A c \in Clients : version[c] \in Nat
      BY DEF Settled, TypeOK
    <3>4. k.client \in Clients /\ k.answer.version \in Nat
      BY <2>6 DEF Settled, Addressed, TypeOK, Calls, Answers, SaveArrives, Awaited, OnClient
    <3>5. seen' = seen \/ seen' = seen \cup {<<k.client, k.answer.version>>}
      BY <2>6 DEF SaveArrives, Show
    <3> QED BY <3>1, <3>2, <3>3, <3>4, <3>5 DEF Carried
  <2>7. CASE CreateArrives(k)
    <3> DEFINE n == NewCall("readback", selected, NoClient, 0, 0)
    <3>1. /\ late' = late /\ seen' = seen /\ version' = version /\ selected' = selected
          /\ made' = made + 1 /\ calls' = (calls \ {k}) \cup {n}
      BY <2>7 DEF CreateArrives, service, ghosts, lists
    <3>2. made \in Nat /\ seen \subseteq Clients \X Nat /\ \A c \in Clients : version[c] \in Nat
      BY DEF Settled, TypeOK
    <3>3. /\ n \in Calls /\ n.function = "readback" /\ n.profile = selected /\ n.dialog = 0
          /\ n.answer.list = <<>> /\ ~ n.answer.done
      <4>1. /\ "readback" \in Functions /\ selected \in Profiles /\ NoClient \in AnyClient
        BY DEF Settled, TypeOK, Functions, Listings, AnyClient
      <4>2. NoAnswer.list = <<>> /\ ~ NoAnswer.done
        BY DEF NoAnswer
      <4>3. /\ n \in Calls /\ n.function = "readback" /\ n.profile = selected /\ n.dialog = 0
            /\ n.answer = NoAnswer
        BY <4>1, NewCallView DEF Settled
      <4> HIDE DEF n
      <4> QED BY <4>2, <4>3
    <3> HIDE DEF n
    <3>4. Fresh(n)
      BY <3>1, <3>2, <3>3 DEF Fresh, OnClient
    <3>5. Traced
      BY <3>1, <3>4 DEF Traced
    <3> QED BY <3>1, <3>2, <3>5 DEF Carried
  <2>8. CASE ReadbackArrives(k)
    BY <2>8, QuietCarried DEF ReadbackArrives, Return, service, ghosts
  <2> QED BY <1>3, <2>1, <2>2, <2>3, <2>4, <2>5, <2>6, <2>7, <2>8 DEF Continue
<1>4. ASSUME NEW k \in late, Belated(k) PROVE Carried
  <2>1. k \in Calls /\ TypeOK /\ (k.function \in OnClient => k.client \in Clients)
    BY DEF Settled, TypeOK, Addressed
  <2>2. /\ Effect(k, TRUE) /\ late' \subseteq late /\ calls' = calls /\ made' = made
        /\ seen' = seen
    BY <1>4 DEF Belated, ghosts
  <2>3. \A c \in Clients : version'[c] >= version[c]
    BY <2>1, <2>2, EffectView
  <2>4. Traced
    BY <2>2 DEF Traced
  <2>5. made \in Nat /\ seen \subseteq Clients \X Nat
    BY DEF Settled, TypeOK
  <2> QED BY <2>2, <2>3, <2>4, <2>5 DEF Carried
<1>5. ASSUME NEW c \in Clients, OtherOperator(c) PROVE Carried
  <2>1. late' = late /\ calls' = calls /\ made' = made /\ seen' = seen
    BY <1>5 DEF OtherOperator, ghosts
  <2>2. made \in Nat /\ seen \subseteq Clients \X Nat /\ version \in [Clients -> Nat]
    BY DEF Settled, TypeOK
  <2>3. version' = version \/ version' = [version EXCEPT ![c] = @ + 1]
    BY <1>5 DEF OtherOperator
  <2>4. \A d \in Clients : version'[d] >= version[d]
    BY <2>2, <2>3
  <2>5. Traced
    BY <2>1 DEF Traced
  <2> QED BY <2>1, <2>2, <2>4, <2>5 DEF Carried
<1> QED BY <1>1, <1>2, <1>3, <1>4, <1>5 DEF Next

-----------------------------------------------------------------------------
(* The console: what every step does to the configuration dialog           *)

\* It leaves the dialog, opens it for a client with a new token, shows an answer to the
\* current one, or closes it.
Kept ==
    /\ configPreview'.open = configPreview.open /\ configPreview'.client = configPreview.client
    /\ configPreview'.token = configPreview.token
    /\ configPreview'.result = configPreview.result
    /\ openedAt' = openedAt
Reopened ==
    /\ configPreview'.open /\ configPreview'.client \in Clients
    /\ configPreview'.token = made + 1 /\ made' = made + 1
    /\ configPreview'.result = 0 /\ openedAt' = version'[configPreview'.client]
Revealed ==
    \E k \in Openings \cup Savings :
       /\ configPreview.open /\ configPreview'.open
       /\ configPreview'.client = configPreview.client
       /\ configPreview'.token = configPreview.token /\ openedAt' = openedAt
       /\ k.answer.done /\ k.answer.ok /\ configPreview'.result = k.answer.version
       /\ <<k.client, k.answer.version>> \in seen'
Closed == configPreview' = ClosedPreview /\ openedAt' = openedAt

\* Every step does one of the four.
LEMMA PreviewStep ==
    ASSUME Settled, Next
    PROVE  Kept \/ Reopened \/ Revealed \/ Closed
<1>1. ASSUME Operator PROVE Kept \/ Reopened \/ Revealed \/ Closed
  <2>1. CASE RefreshStatus
    <3>1. configPreview' = configPreview /\ openedAt' = openedAt
      BY <2>1 DEF RefreshStatus, dialogs, ghosts
    <3> QED BY <3>1 DEF Kept
  <2>2. CASE CloseDeleteClient
    <3>1. configPreview' = configPreview /\ openedAt' = openedAt
      BY <2>2 DEF CloseDeleteClient, dialogs, ghosts
    <3> QED BY <3>1 DEF Kept
  <2>3. CASE SubmitDeleteClient
    <3>1. configPreview' = configPreview /\ openedAt' = openedAt
      BY <2>3 DEF SubmitDeleteClient, dialogs, ghosts
    <3> QED BY <3>1 DEF Kept
  <2>4. CASE CloseConfigurationPreview
    BY <2>4 DEF CloseConfigurationPreview, Closed, ghosts
  <2>5. CASE SaveClientConfiguration
    <3>1. configPreview' = [configPreview EXCEPT !.saving = TRUE] /\ openedAt' = openedAt
      BY <2>5 DEF SaveClientConfiguration, ghosts
    <3>2. configPreview \in [open : BOOLEAN, client : AnyClient, token : Nat, loading : BOOLEAN,
                            saving : BOOLEAN, result : Nat]
      BY DEF Settled, TypeOK
    <3> QED BY <3>1, <3>2 DEF Kept
  <2>6. CASE OpenCreatePreview
    <3>1. configPreview' = configPreview /\ openedAt' = openedAt
      BY <2>6 DEF OpenCreatePreview, dialogs, ghosts
    <3> QED BY <3>1 DEF Kept
  <2>7. CASE CloseCreatePreview
    <3>1. configPreview' = configPreview /\ openedAt' = openedAt
      BY <2>7 DEF CloseCreatePreview, dialogs, ghosts
    <3> QED BY <3>1 DEF Kept
  <2>8. CASE SubmitCreatePreview
    <3>1. configPreview' = configPreview /\ openedAt' = openedAt
      BY <2>8 DEF SubmitCreatePreview, dialogs, ghosts
    <3> QED BY <3>1 DEF Kept
  <2>9. ASSUME NEW p \in Profiles, SwitchProfile(p) PROVE Kept \/ Reopened \/ Revealed \/ Closed
    <3>1. configPreview' = configPreview /\ openedAt' = openedAt
      BY <2>9 DEF SwitchProfile, dialogs, ghosts
    <3> QED BY <3>1 DEF Kept
  <2>10. ASSUME NEW c \in Clients, SubmitStatusClient(c)
         PROVE  Kept \/ Reopened \/ Revealed \/ Closed
    <3>1. configPreview' = configPreview /\ openedAt' = openedAt
      BY <2>10 DEF SubmitStatusClient, dialogs, ghosts
    <3> QED BY <3>1 DEF Kept
  <2>11. ASSUME NEW c \in Clients, OpenDeleteClient(c) PROVE Kept \/ Reopened \/ Revealed \/ Closed
    <3>1. configPreview' = configPreview /\ openedAt' = openedAt
      BY <2>11 DEF OpenDeleteClient, dialogs, ghosts
    <3> QED BY <3>1 DEF Kept
  <2>12. ASSUME NEW c \in Clients, OpenConfigurationPreview(c)
         PROVE  Kept \/ Reopened \/ Revealed \/ Closed
    <3>1. /\ configPreview' = [ClosedPreview EXCEPT !.open = TRUE, !.client = c, !.token = made + 1,
                                                !.loading = TRUE]
          /\ openedAt' = version[c] /\ version' = version /\ made' = made + 1
      BY <2>12 DEF OpenConfigurationPreview, Issue, service
    <3>2. /\ configPreview'.open /\ configPreview'.client = c /\ configPreview'.token = made + 1
          /\ configPreview'.result = 0
      BY <3>1 DEF ClosedPreview
    <3> QED BY <3>1, <3>2 DEF Reopened
  <2> QED BY <1>1, <2>1, <2>2, <2>3, <2>4, <2>5, <2>6, <2>7, <2>8, <2>9, <2>10, <2>11, <2>12
             DEF Operator
<1>2. ASSUME NEW k \in calls, Settle(k) PROVE Kept \/ Reopened \/ Revealed \/ Closed
  <2>1. CASE Change(k)
    <3>1. configPreview' = configPreview /\ openedAt' = openedAt
      BY <2>1 DEF Change, dialogs, ghosts
    <3> QED BY <3>1 DEF Kept
  <2>2. CASE Read(k)
    <3>1. configPreview' = configPreview /\ openedAt' = openedAt
      BY <2>2 DEF Read, dialogs, ghosts
    <3> QED BY <3>1 DEF Kept
  <2>3. CASE Fail(k)
    <3>1. configPreview' = configPreview /\ openedAt' = openedAt
      BY <2>3 DEF Fail, dialogs, ghosts
    <3> QED BY <3>1 DEF Kept
  <2> QED BY <1>2, <2>1, <2>2, <2>3 DEF Settle
<1>3. ASSUME NEW k \in calls, Continue(k) PROVE Kept \/ Reopened \/ Revealed \/ Closed
  <2>1. CASE LoadArrives(k)
    <3>1. configPreview' = configPreview /\ openedAt' = openedAt
      BY <2>1 DEF LoadArrives, dialogs, ghosts
    <3> QED BY <3>1 DEF Kept
  <2>2. CASE RefreshArrives(k)
    <3>1. configPreview' = configPreview /\ openedAt' = openedAt
      BY <2>2 DEF RefreshArrives, dialogs, ghosts
    <3> QED BY <3>1 DEF Kept
  <2>3. CASE StatusArrives(k)
    <3>1. configPreview' = configPreview /\ openedAt' = openedAt
      BY <2>3 DEF StatusArrives, dialogs, ghosts
    <3> QED BY <3>1 DEF Kept
  <2>4. CASE DeleteArrives(k)
    <3>1. configPreview' = configPreview /\ openedAt' = openedAt
      BY <2>4 DEF DeleteArrives, dialogs, ghosts
    <3> QED BY <3>1 DEF Kept
  <2>5. CASE ConfigurationArrives(k)
    <3>1. configPreview \in [open : BOOLEAN, client : AnyClient, token : Nat, loading : BOOLEAN,
                            saving : BOOLEAN, result : Nat]
      BY DEF Settled, TypeOK
    <3>2. openedAt' = openedAt /\ k.answer.done
      BY <2>5 DEF ConfigurationArrives
    <3>3. CASE UNCHANGED configPreview
      BY <3>2, <3>3 DEF Kept
    <3>4. CASE /\ configPreview.open /\ configPreview.token = k.dialog
               /\ Show(k) /\ ~ (k.answer.ok /\ k.client \in DOMAIN shown)
      <4>1. configPreview' = [configPreview EXCEPT !.loading = FALSE, !.saving = FALSE]
        BY <3>4, Zenon DEF Show
      <4> QED BY <3>1, <3>2, <4>1 DEF Kept
    <3>5. CASE /\ configPreview.open /\ configPreview.token = k.dialog
               /\ Show(k) /\ k.answer.ok /\ k.client \in DOMAIN shown
      <4>1. /\ configPreview' = [configPreview EXCEPT !.result = k.answer.version,
                                                  !.loading = FALSE, !.saving = FALSE]
            /\ seen' = seen \cup {<<k.client, k.answer.version>>}
        BY <3>5, Zenon DEF Show
      <4>2. k \in Openings \cup Savings
        BY <2>5, <3>5 DEF ConfigurationArrives, Openings, Savings
      <4>3. /\ configPreview'.open = configPreview.open
            /\ configPreview'.client = configPreview.client
            /\ configPreview'.token = configPreview.token
            /\ configPreview'.result = k.answer.version
        BY <3>1, <4>1
      <4> QED BY <3>2, <3>5, <4>1, <4>2, <4>3 DEF Revealed
    <3> QED BY <2>5, <3>3, <3>4, <3>5 DEF ConfigurationArrives, IsCurrentRequest
  <2>6. CASE SaveArrives(k)
    <3>1. configPreview \in [open : BOOLEAN, client : AnyClient, token : Nat, loading : BOOLEAN,
                            saving : BOOLEAN, result : Nat]
      BY DEF Settled, TypeOK
    <3>2. openedAt' = openedAt /\ k.answer.done
      BY <2>6 DEF SaveArrives
    <3>3. CASE UNCHANGED configPreview
      BY <3>2, <3>3 DEF Kept
    <3>4. CASE /\ configPreview.open /\ configPreview.token = k.dialog
               /\ Show(k) /\ ~ (k.answer.ok /\ k.client \in DOMAIN shown)
      <4>1. configPreview' = [configPreview EXCEPT !.loading = FALSE, !.saving = FALSE]
        BY <3>4, Zenon DEF Show
      <4> QED BY <3>1, <3>2, <4>1 DEF Kept
    <3>5. CASE /\ configPreview.open /\ configPreview.token = k.dialog
               /\ Show(k) /\ k.answer.ok /\ k.client \in DOMAIN shown
      <4>1. /\ configPreview' = [configPreview EXCEPT !.result = k.answer.version,
                                                  !.loading = FALSE, !.saving = FALSE]
            /\ seen' = seen \cup {<<k.client, k.answer.version>>}
        BY <3>5, Zenon DEF Show
      <4>2. k \in Openings \cup Savings
        BY <2>6, <3>5 DEF SaveArrives, Openings, Savings
      <4>3. /\ configPreview'.open = configPreview.open
            /\ configPreview'.client = configPreview.client
            /\ configPreview'.token = configPreview.token
            /\ configPreview'.result = k.answer.version
        BY <3>1, <4>1
      <4> QED BY <3>2, <3>5, <4>1, <4>2, <4>3 DEF Revealed
    <3> QED BY <2>6, <3>3, <3>4, <3>5 DEF SaveArrives, IsCurrentRequest
  <2>7. CASE CreateArrives(k)
    <3>1. configPreview' = configPreview /\ openedAt' = openedAt
      BY <2>7 DEF CreateArrives, dialogs, ghosts
    <3> QED BY <3>1 DEF Kept
  <2>8. CASE ReadbackArrives(k)
    <3>1. configPreview' = configPreview /\ openedAt' = openedAt
      BY <2>8 DEF ReadbackArrives, dialogs, ghosts
    <3> QED BY <3>1 DEF Kept
  <2> QED BY <1>3, <2>1, <2>2, <2>3, <2>4, <2>5, <2>6, <2>7, <2>8 DEF Continue
<1>4. ASSUME NEW k \in late, Belated(k) PROVE Kept \/ Reopened \/ Revealed \/ Closed
  <2>1. configPreview' = configPreview /\ openedAt' = openedAt
    BY <1>4 DEF Belated, dialogs, ghosts
  <2> QED BY <2>1 DEF Kept
<1>5. ASSUME NEW c \in Clients, OtherOperator(c) PROVE Kept \/ Reopened \/ Revealed \/ Closed
  <2>1. configPreview' = configPreview /\ openedAt' = openedAt
    BY <1>5 DEF OtherOperator, dialogs, ghosts
  <2> QED BY <2>1 DEF Kept
<1> QED BY <1>1, <1>2, <1>3, <1>4, <1>5 DEF Next

-----------------------------------------------------------------------------
(* The console: what follows for calls, saves and the configuration        *)

\* The calls stay of their type.
LEMMA CallsTyped ==
    ASSUME Settled, Carried
    PROVE  calls' \subseteq Calls /\ late' \subseteq Calls
<1>1. calls \subseteq Calls /\ late \subseteq Calls
  BY DEF Settled, TypeOK
<1>2. calls' \subseteq Calls
  BY <1>1 DEF Carried, Traced, Fresh, Answered
<1> QED BY <1>1, <1>2 DEF Carried

\* Every step keeps each call and the dialog about a client.
LEMMA NextAddressed ==
    ASSUME Settled, Next
    PROVE  Addressed'
<1>1. Carried /\ (Kept \/ Reopened \/ Revealed \/ Closed)
  BY StepCarried, PreviewStep
<1>2. made \in Nat /\ made' \in Nat /\ made' >= made /\ configPreview.token \in Nat
  BY <1>1 DEF Carried, Settled, TypeOK
<1>3. \A k \in calls' : k \in calls \/ Fresh(k) \/ \E d \in calls : Answered(k, d)
  BY <1>1 DEF Carried, Traced
<1>4. \A k \in calls \cup late : k.function \in OnClient => k.client \in Clients
  BY DEF Settled, Addressed
<1>5. \A k \in calls : k.dialog <= made /\ k.dialog \in Nat
  BY DEF Settled, Addressed, TypeOK, Calls
<1>6. \A k \in calls' \cup late' : k.function \in OnClient => k.client \in Clients
  BY <1>1, <1>3, <1>4 DEF Carried, Fresh, Answered
<1>7. \A k \in calls' : k.dialog <= made'
  <2>1. \A k : Fresh(k) => k.dialog <= made'
    BY DEF Fresh
  <2>2. \A k, d : Answered(k, d) => k.dialog = d.dialog
    BY DEF Answered
  <2> QED BY <1>2, <1>3, <1>5, <2>1, <2>2
<1>8. configPreview'.open => configPreview'.client \in Clients
  <2>1. configPreview.open => configPreview.client \in Clients
    BY DEF Settled, Addressed
  <2>2. Closed => ~ configPreview'.open
    BY DEF Closed, ClosedPreview
  <2>3. Kept \/ Revealed => (configPreview'.open => configPreview.open)
                            /\ configPreview'.client = configPreview.client
    BY DEF Kept, Revealed
  <2>4. Reopened => configPreview'.client \in Clients
    BY DEF Reopened
  <2> QED BY <1>1, <2>1, <2>2, <2>3, <2>4
<1>9. configPreview'.token <= made'
  <2>1. configPreview.token <= made
    BY DEF Settled, Addressed
  <2>2. Closed => configPreview'.token = 0
    BY DEF Closed, ClosedPreview
  <2>3. Kept \/ Revealed => configPreview'.token = configPreview.token
    BY DEF Kept, Revealed
  <2>4. Reopened => configPreview'.token = made'
    BY DEF Reopened
  <2> QED BY <1>1, <1>2, <2>1, <2>2, <2>3, <2>4
<1> QED BY <1>6, <1>7, <1>8, <1>9 DEF Addressed

\* Every step keeps a save on the revision that was shown.
LEMMA NextBased ==
    ASSUME Settled, Next
    PROVE  Based'
<1>1. Carried
  BY StepCarried
<1>2. \A k \in calls' : k \in calls \/ Fresh(k) \/ \E d \in calls : Answered(k, d)
  BY <1>1 DEF Carried, Traced
<1>3. seen \subseteq seen' /\ late' \subseteq late \cup calls
  BY <1>1 DEF Carried
<1>4. \A k \in calls \cup late :
        k.function = "updateConfiguration" => <<k.client, k.version>> \in seen
  BY DEF Settled, Based
<1>5. \A k \in calls' : k.function = "updateConfiguration" => <<k.client, k.version>> \in seen'
  BY <1>2, <1>3, <1>4 DEF Fresh, Answered
<1> QED BY <1>3, <1>4, <1>5 DEF Based

\* Every step keeps the dialog on its client, with nothing older than its opening.
LEMMA NextOpened ==
    ASSUME Settled, Next, TypeOK'
    PROVE  Opened'
<1>1. Carried /\ (Kept \/ Reopened \/ Revealed \/ Closed)
  BY StepCarried, PreviewStep
<1>2. /\ \A c \in Clients :
            version[c] \in Nat /\ version'[c] \in Nat /\ version'[c] >= version[c]
      /\ openedAt \in Nat /\ openedAt' \in Nat /\ made \in Nat
  BY <1>1 DEF Carried, Settled, TypeOK
<1>3. \A k \in calls' : k \in calls \/ Fresh(k) \/ \E d \in calls : Answered(k, d)
  BY <1>1 DEF Carried, Traced
<1>4. configPreview.open => configPreview.client \in Clients
                            /\ version[configPreview.client] >= openedAt
  BY DEF Settled, Addressed, Opened
<1>5. configPreview.open =>
        \A k \in Openings \cup Savings :
           /\ k.client = configPreview.client
           /\ k.answer.done /\ k.answer.ok => k.answer.version >= openedAt
  BY DEF Settled, Opened
<1>6. \A k \in calls : k.dialog <= made /\ k.dialog \in Nat
  BY DEF Settled, Addressed, TypeOK, Calls
<1>7. CASE Kept \/ Revealed
  <2>1. /\ configPreview'.open <=> configPreview.open
        /\ configPreview'.client = configPreview.client
        /\ configPreview'.token = configPreview.token /\ openedAt' = openedAt
    BY <1>7 DEF Kept, Revealed
  <2>2. configPreview'.open => version'[configPreview'.client] >= openedAt'
    BY <1>2, <1>4, <2>1
  <2>3. ASSUME configPreview'.open, NEW k \in Openings' \cup Savings'
        PROVE  /\ k.client = configPreview'.client
               /\ k.answer.done /\ k.answer.ok => k.answer.version >= openedAt'
    <3>1. /\ k \in calls' /\ k.dialog = configPreview.token
          /\ k.function \in {"getConfiguration", "updateConfiguration"}
      BY <2>1, <2>3 DEF Openings, Savings, Awaited
    <3>2. CASE k \in calls
      <4>1. k \in Openings \cup Savings
        BY <3>1, <3>2 DEF Openings, Savings, Awaited
      <4> QED BY <1>5, <2>1, <2>3, <4>1
    <3>3. CASE Fresh(k)
      BY <3>1, <3>3 DEF Fresh
    <3>4. ASSUME NEW d \in calls, Answered(k, d)
          PROVE  /\ k.client = configPreview'.client
                 /\ k.answer.done /\ k.answer.ok => k.answer.version >= openedAt'
      <4>1. k.client = d.client /\ d.dialog = configPreview.token /\ k.function = d.function
        BY <3>1, <3>4 DEF Answered
      <4>2. d \in Openings \cup Savings
        BY <3>1, <4>1 DEF Openings, Savings, Awaited
      <4>3. d.client = configPreview.client
        BY <1>5, <2>1, <2>3, <4>2
      <4>4. k.answer.ok => k.answer.version = version'[d.client]
        BY <3>1, <3>4, <4>1 DEF Answered
      <4>5. version'[d.client] >= openedAt'
        BY <2>1, <2>2, <2>3, <4>3
      <4> QED BY <2>1, <4>1, <4>3, <4>4, <4>5
    <3> QED BY <1>3, <3>1, <3>2, <3>3, <3>4
  <2>4. CASE Kept
    <3>1. configPreview'.result # 0 =>
             /\ configPreview'.open /\ configPreview'.result >= openedAt'
             /\ <<configPreview'.client, configPreview'.result>> \in seen'
      BY <1>1, <2>4 DEF Kept, Settled, Opened, Carried
    <3> QED BY <2>2, <2>3, <3>1 DEF Opened
  <2>5. CASE Revealed
    <3>1. PICK k \in Openings \cup Savings :
             /\ configPreview.open /\ configPreview'.open
             /\ k.answer.done /\ k.answer.ok /\ configPreview'.result = k.answer.version
             /\ <<k.client, k.answer.version>> \in seen'
      BY <2>5 DEF Revealed
    <3>2. k.client = configPreview.client /\ k.answer.version >= openedAt
      BY <1>5, <3>1
    <3> QED BY <2>1, <2>2, <2>3, <3>1, <3>2 DEF Opened
  <2> QED BY <1>7, <2>4, <2>5
<1>8. CASE Reopened
  <2>1. configPreview'.token = made + 1 /\ configPreview'.client \in Clients
        /\ configPreview'.result = 0 /\ openedAt' = version'[configPreview'.client]
    BY <1>8 DEF Reopened
  <2>2. ASSUME NEW k \in Openings' \cup Savings'
        PROVE  k.client = configPreview'.client /\ ~ k.answer.done
    <3>1. /\ k \in calls' /\ k.dialog = made + 1
          /\ k.function \in {"getConfiguration", "updateConfiguration"}
      BY <2>1 DEF Openings, Savings, Awaited
    <3>2. k \notin calls /\ \A d \in calls : ~ Answered(k, d)
      BY <1>2, <1>6, <3>1 DEF Answered
    <3> QED BY <1>3, <3>1, <3>2 DEF Fresh
  <2>3. version'[configPreview'.client] >= openedAt'
    BY <1>2, <2>1
  <2> QED BY <2>1, <2>2, <2>3 DEF Opened
<1>9. CASE Closed
  <2>1. ~ configPreview'.open /\ configPreview'.result = 0
    BY <1>9 DEF Closed, ClosedPreview
  <2> QED BY <2>1 DEF Opened
<1> QED BY <1>1, <1>7, <1>8, <1>9

-----------------------------------------------------------------------------
(* The console: the types                                                  *)

ServiceTyped == status \in [Clients -> Live \cup {"unborn", "gone"}] /\ version \in [Clients -> Nat]
ListTyped ==
    /\ selected \in Profiles /\ shown \in Lists
    /\ loading \in BOOLEAN /\ refreshing \in BOOLEAN
Previews == [open : BOOLEAN, client : AnyClient, token : Nat, loading : BOOLEAN,
             saving : BOOLEAN, result : Nat]
DialogsTyped ==
    /\ statusClient \in [client : AnyClient, submitting : BOOLEAN]
    /\ deleteClient \in [open : BOOLEAN, client : AnyClient, submitting : BOOLEAN]
    /\ configPreview \in Previews
    /\ createPreview \in [open : BOOLEAN, step : {"form", "result"}, submitting : BOOLEAN]
LimitsTyped == foreign \in 0..MaxForeign /\ openedAt \in Nat

\* The type invariant in parts, since most steps leave most parts alone.
LEMMA TypedParts ==
    TypeOK <=> /\ ServiceTyped /\ ListTyped /\ DialogsTyped /\ LimitsTyped
               /\ calls \subseteq Calls /\ late \subseteq Calls
               /\ made \in Nat /\ seen \subseteq Clients \X Nat
BY DEF TypeOK, ServiceTyped, ListTyped, DialogsTyped, LimitsTyped, Previews

\* A change keeps the types of the service.
LEMMA NextServiceTyped ==
    ASSUME Settled, Next
    PROVE  ServiceTyped'
<1>0. TypeOK /\ ServiceTyped /\ ListTyped /\ DialogsTyped /\ LimitsTyped
  BY TypedParts DEF Settled
<1>1. ASSUME Operator PROVE ServiceTyped'
  <2>1. CASE RefreshStatus
    <3>1. status' = status /\ version' = version
      BY <2>1 DEF RefreshStatus, service
    <3> QED BY <1>0, <3>1 DEF ServiceTyped
  <2>2. CASE CloseDeleteClient
    <3>1. status' = status /\ version' = version
      BY <2>2 DEF CloseDeleteClient, service
    <3> QED BY <1>0, <3>1 DEF ServiceTyped
  <2>3. CASE SubmitDeleteClient
    <3>1. status' = status /\ version' = version
      BY <2>3 DEF SubmitDeleteClient, service
    <3> QED BY <1>0, <3>1 DEF ServiceTyped
  <2>4. CASE CloseConfigurationPreview
    <3>1. status' = status /\ version' = version
      BY <2>4 DEF CloseConfigurationPreview, service
    <3> QED BY <1>0, <3>1 DEF ServiceTyped
  <2>5. CASE SaveClientConfiguration
    <3>1. status' = status /\ version' = version
      BY <2>5 DEF SaveClientConfiguration, service
    <3> QED BY <1>0, <3>1 DEF ServiceTyped
  <2>6. CASE OpenCreatePreview
    <3>1. status' = status /\ version' = version
      BY <2>6 DEF OpenCreatePreview, service
    <3> QED BY <1>0, <3>1 DEF ServiceTyped
  <2>7. CASE CloseCreatePreview
    <3>1. status' = status /\ version' = version
      BY <2>7 DEF CloseCreatePreview, service
    <3> QED BY <1>0, <3>1 DEF ServiceTyped
  <2>8. CASE SubmitCreatePreview
    <3>1. status' = status /\ version' = version
      BY <2>8 DEF SubmitCreatePreview, service
    <3> QED BY <1>0, <3>1 DEF ServiceTyped
  <2>9. ASSUME NEW p \in Profiles, SwitchProfile(p) PROVE ServiceTyped'
    <3>1. status' = status /\ version' = version
      BY <2>9 DEF SwitchProfile, service
    <3> QED BY <1>0, <3>1 DEF ServiceTyped
  <2>10. ASSUME NEW c \in Clients, SubmitStatusClient(c) PROVE ServiceTyped'
    <3>1. status' = status /\ version' = version
      BY <2>10 DEF SubmitStatusClient, service
    <3> QED BY <1>0, <3>1 DEF ServiceTyped
  <2>11. ASSUME NEW c \in Clients, OpenDeleteClient(c) PROVE ServiceTyped'
    <3>1. status' = status /\ version' = version
      BY <2>11 DEF OpenDeleteClient, service
    <3> QED BY <1>0, <3>1 DEF ServiceTyped
  <2>12. ASSUME NEW c \in Clients, OpenConfigurationPreview(c) PROVE ServiceTyped'
    <3>1. status' = status /\ version' = version
      BY <2>12 DEF OpenConfigurationPreview, service
    <3> QED BY <1>0, <3>1 DEF ServiceTyped
  <2> QED BY <1>1, <2>1, <2>2, <2>3, <2>4, <2>5, <2>6, <2>7, <2>8, <2>9, <2>10, <2>11, <2>12
             DEF Operator
<1>2. ASSUME NEW k \in calls, Settle(k) PROVE ServiceTyped'
  <2>1. CASE Change(k)
    <3>1. k \in Calls /\ (k.function \in OnClient => k.client \in Clients)
      BY DEF Settled, TypeOK, Addressed
    <3>2. \E ok \in BOOLEAN : Effect(k, ok)
      BY <2>1 DEF Change
    <3> QED BY <1>0, <3>1, <3>2, EffectView DEF ServiceTyped
  <2>2. CASE Read(k)
    <3>1. status' = status /\ version' = version
      BY <2>2 DEF Read, service
    <3> QED BY <1>0, <3>1 DEF ServiceTyped
  <2>3. CASE Fail(k)
    <3>1. status' = status /\ version' = version
      BY <2>3 DEF Fail, service
    <3> QED BY <1>0, <3>1 DEF ServiceTyped
  <2> QED BY <1>2, <2>1, <2>2, <2>3 DEF Settle
<1>3. ASSUME NEW k \in calls, Continue(k) PROVE ServiceTyped'
  <2>1. CASE LoadArrives(k)
    <3>1. status' = status /\ version' = version
      BY <2>1 DEF LoadArrives, service
    <3> QED BY <1>0, <3>1 DEF ServiceTyped
  <2>2. CASE RefreshArrives(k)
    <3>1. status' = status /\ version' = version
      BY <2>2 DEF RefreshArrives, service
    <3> QED BY <1>0, <3>1 DEF ServiceTyped
  <2>3. CASE StatusArrives(k)
    <3>1. status' = status /\ version' = version
      BY <2>3 DEF StatusArrives, service
    <3> QED BY <1>0, <3>1 DEF ServiceTyped
  <2>4. CASE DeleteArrives(k)
    <3>1. status' = status /\ version' = version
      BY <2>4 DEF DeleteArrives, service
    <3> QED BY <1>0, <3>1 DEF ServiceTyped
  <2>5. CASE ConfigurationArrives(k)
    <3>1. status' = status /\ version' = version
      BY <2>5 DEF ConfigurationArrives, service
    <3> QED BY <1>0, <3>1 DEF ServiceTyped
  <2>6. CASE SaveArrives(k)
    <3>1. status' = status /\ version' = version
      BY <2>6 DEF SaveArrives, service
    <3> QED BY <1>0, <3>1 DEF ServiceTyped
  <2>7. CASE CreateArrives(k)
    <3>1. status' = status /\ version' = version
      BY <2>7 DEF CreateArrives, service
    <3> QED BY <1>0, <3>1 DEF ServiceTyped
  <2>8. CASE ReadbackArrives(k)
    <3>1. status' = status /\ version' = version
      BY <2>8 DEF ReadbackArrives, service
    <3> QED BY <1>0, <3>1 DEF ServiceTyped
  <2> QED BY <1>3, <2>1, <2>2, <2>3, <2>4, <2>5, <2>6, <2>7, <2>8 DEF Continue
<1>4. ASSUME NEW k \in late, Belated(k) PROVE ServiceTyped'
  <2>1. k \in Calls /\ (k.function \in OnClient => k.client \in Clients)
    BY DEF Settled, TypeOK, Addressed
  <2>2. \E ok \in BOOLEAN : Effect(k, ok)
    BY <1>4 DEF Belated
  <2> QED BY <1>0, <2>1, <2>2, EffectView DEF ServiceTyped
<1>5. ASSUME NEW c \in Clients, OtherOperator(c) PROVE ServiceTyped'
  <2> DEFINE States == Live \cup {"unborn", "gone"}
  <2>1. "gone" \in States /\ "ONLINE" \in States /\ "DISABLED" \in States
    BY DEF Live
  <2> HIDE DEF States
  <2>2. status \in [Clients -> States] /\ version \in [Clients -> Nat]
    BY <1>0 DEF ServiceTyped, States
  <2>3. \/ status' = [status EXCEPT ![c] = "gone"] /\ version' = version
        \/ status' = [status EXCEPT ![c] = IF @ = "ONLINE" THEN "DISABLED" ELSE "ONLINE"]
           /\ version' = version
        \/ version' = [version EXCEPT ![c] = @ + 1] /\ status' = status
    BY <1>5 DEF OtherOperator
  <2>4. status' \in [Clients -> States]
    BY <2>1, <2>2, <2>3
  <2>5. version' \in [Clients -> Nat]
    BY <2>2, <2>3
  <2> QED BY <2>4, <2>5 DEF ServiceTyped, States
<1> QED BY <1>1, <1>2, <1>3, <1>4, <1>5 DEF Next

\* Every continuation keeps the type of the list.
LEMMA NextListTyped ==
    ASSUME Settled, Next
    PROVE  ListTyped'
<1>0. TypeOK /\ ServiceTyped /\ ListTyped /\ DialogsTyped /\ LimitsTyped
  BY TypedParts DEF Settled
<1>1. ASSUME Operator PROVE ListTyped'
  <2>1. CASE RefreshStatus
    BY <2>1, <1>0 DEF RefreshStatus, ListTyped
  <2>2. CASE CloseDeleteClient
    <3>1. UNCHANGED <<selected, shown, loading, refreshing>>
      BY <2>2 DEF CloseDeleteClient, lists
    <3> QED BY <1>0, <3>1 DEF ListTyped
  <2>3. CASE SubmitDeleteClient
    <3>1. UNCHANGED <<selected, shown, loading, refreshing>>
      BY <2>3 DEF SubmitDeleteClient, lists
    <3> QED BY <1>0, <3>1 DEF ListTyped
  <2>4. CASE CloseConfigurationPreview
    <3>1. UNCHANGED <<selected, shown, loading, refreshing>>
      BY <2>4 DEF CloseConfigurationPreview, lists
    <3> QED BY <1>0, <3>1 DEF ListTyped
  <2>5. CASE SaveClientConfiguration
    <3>1. UNCHANGED <<selected, shown, loading, refreshing>>
      BY <2>5 DEF SaveClientConfiguration, lists
    <3> QED BY <1>0, <3>1 DEF ListTyped
  <2>6. CASE OpenCreatePreview
    <3>1. UNCHANGED <<selected, shown, loading, refreshing>>
      BY <2>6 DEF OpenCreatePreview, lists
    <3> QED BY <1>0, <3>1 DEF ListTyped
  <2>7. CASE CloseCreatePreview
    <3>1. UNCHANGED <<selected, shown, loading, refreshing>>
      BY <2>7 DEF CloseCreatePreview, lists
    <3> QED BY <1>0, <3>1 DEF ListTyped
  <2>8. CASE SubmitCreatePreview
    <3>1. UNCHANGED <<selected, shown, loading, refreshing>>
      BY <2>8 DEF SubmitCreatePreview, lists
    <3> QED BY <1>0, <3>1 DEF ListTyped
  <2>9. ASSUME NEW p \in Profiles, SwitchProfile(p) PROVE ListTyped'
    BY <2>9, <1>0, EmptyList DEF SwitchProfile, ListTyped
  <2>10. ASSUME NEW c \in Clients, SubmitStatusClient(c) PROVE ListTyped'
    <3>1. UNCHANGED <<selected, shown, loading, refreshing>>
      BY <2>10 DEF SubmitStatusClient, lists
    <3> QED BY <1>0, <3>1 DEF ListTyped
  <2>11. ASSUME NEW c \in Clients, OpenDeleteClient(c) PROVE ListTyped'
    <3>1. UNCHANGED <<selected, shown, loading, refreshing>>
      BY <2>11 DEF OpenDeleteClient, lists
    <3> QED BY <1>0, <3>1 DEF ListTyped
  <2>12. ASSUME NEW c \in Clients, OpenConfigurationPreview(c) PROVE ListTyped'
    <3>1. UNCHANGED <<selected, shown, loading, refreshing>>
      BY <2>12 DEF OpenConfigurationPreview, lists
    <3> QED BY <1>0, <3>1 DEF ListTyped
  <2> QED BY <1>1, <2>1, <2>2, <2>3, <2>4, <2>5, <2>6, <2>7, <2>8, <2>9, <2>10, <2>11, <2>12
             DEF Operator
<1>2. ASSUME NEW k \in calls, Settle(k) PROVE ListTyped'
  <2>1. CASE Change(k)
    <3>1. UNCHANGED <<selected, shown, loading, refreshing>>
      BY <2>1 DEF Change, lists
    <3> QED BY <1>0, <3>1 DEF ListTyped
  <2>2. CASE Read(k)
    <3>1. UNCHANGED <<selected, shown, loading, refreshing>>
      BY <2>2 DEF Read, lists
    <3> QED BY <1>0, <3>1 DEF ListTyped
  <2>3. CASE Fail(k)
    <3>1. UNCHANGED <<selected, shown, loading, refreshing>>
      BY <2>3 DEF Fail, lists
    <3> QED BY <1>0, <3>1 DEF ListTyped
  <2> QED BY <1>2, <2>1, <2>2, <2>3 DEF Settle
<1>3. ASSUME NEW k \in calls, Continue(k) PROVE ListTyped'
  <2>1. CASE LoadArrives(k)
    <3>1. k.answer.list \in Lists
      BY <1>0 DEF TypeOK, Calls, Answers
    <3>2. \/ shown' = k.answer.list \/ shown' = <<>> \/ shown' = shown
      BY <2>1 DEF LoadArrives
    <3>3. selected' = selected /\ refreshing' = refreshing /\ loading' \in {FALSE, loading}
      BY <2>1 DEF LoadArrives
    <3>4. shown' \in Lists
      BY <1>0, <3>1, <3>2, EmptyList DEF ListTyped
    <3> QED BY <1>0, <3>3, <3>4 DEF ListTyped
  <2>2. CASE RefreshArrives(k)
    <3>1. k.answer.list \in Lists
      BY <1>0 DEF TypeOK, Calls, Answers
    <3>2. \/ shown' = k.answer.list \/ shown' = shown
      BY <2>2 DEF RefreshArrives
    <3>3. selected' = selected /\ refreshing' = FALSE /\ loading' = loading
      BY <2>2 DEF RefreshArrives
    <3>4. shown' \in Lists
      BY <1>0, <3>1, <3>2 DEF ListTyped
    <3> QED BY <1>0, <3>3, <3>4 DEF ListTyped
  <2>3. CASE StatusArrives(k)
    <3>1. PICK x \in Live : shown' = [shown EXCEPT ![k.client] = x] \/ shown' = shown
      <4> DEFINE x == IF k.function = "enable" THEN "ONLINE" ELSE "DISABLED"
      <4>1. x \in Live
        BY DEF Live
      <4>2. shown' = [shown EXCEPT ![k.client] = x] \/ shown' = shown
        BY <2>3 DEF StatusArrives
      <4> HIDE DEF x
      <4> QED BY <4>1, <4>2
    <3>2. shown' \in Lists
      BY <1>0, <3>1 DEF ListTyped, Lists
    <3>3. selected' = selected /\ refreshing' = refreshing /\ loading' = loading
      BY <2>3 DEF StatusArrives
    <3> QED BY <1>0, <3>2, <3>3 DEF ListTyped
  <2>4. CASE DeleteArrives(k)
    <3>1. \/ shown' = [c \in DOMAIN shown \ {k.client} |-> shown[c]] \/ shown' = shown
      BY <2>4 DEF DeleteArrives
    <3>2. [c \in DOMAIN shown \ {k.client} |-> shown[c]] \in Lists
      <4>1. [c \in DOMAIN shown \ {k.client} |-> shown[c]] \in [(DOMAIN shown \ {k.client}) -> Live]
        BY <1>0, ListView DEF ListTyped
      <4>2. (DOMAIN shown \ {k.client}) \in SUBSET Clients
        BY <1>0, ListView DEF ListTyped
      <4> QED BY <4>1, <4>2, ListsAre
    <3>3. selected' = selected /\ refreshing' = refreshing /\ loading' = loading
      BY <2>4 DEF DeleteArrives
    <3> QED BY <1>0, <3>1, <3>2, <3>3 DEF ListTyped
  <2>5. CASE ConfigurationArrives(k)
    <3>1. UNCHANGED <<selected, shown, loading, refreshing>>
      BY <2>5 DEF ConfigurationArrives, lists
    <3> QED BY <1>0, <3>1 DEF ListTyped
  <2>6. CASE SaveArrives(k)
    <3>1. UNCHANGED <<selected, shown, loading, refreshing>>
      BY <2>6 DEF SaveArrives, lists
    <3> QED BY <1>0, <3>1 DEF ListTyped
  <2>7. CASE CreateArrives(k)
    <3>1. UNCHANGED <<selected, shown, loading, refreshing>>
      BY <2>7 DEF CreateArrives, lists
    <3> QED BY <1>0, <3>1 DEF ListTyped
  <2>8. CASE ReadbackArrives(k)
    <3>1. k.answer.list \in Lists
      BY <1>0 DEF TypeOK, Calls, Answers
    <3>2. \/ shown' = k.answer.list \/ shown' = shown
      BY <2>8 DEF ReadbackArrives
    <3>3. selected' = selected /\ refreshing' = refreshing /\ loading' = loading
      BY <2>8 DEF ReadbackArrives
    <3>4. shown' \in Lists
      BY <1>0, <3>1, <3>2 DEF ListTyped
    <3> QED BY <1>0, <3>3, <3>4 DEF ListTyped
  <2> QED BY <1>3, <2>1, <2>2, <2>3, <2>4, <2>5, <2>6, <2>7, <2>8 DEF Continue
<1>4. ASSUME NEW k \in late, Belated(k) PROVE ListTyped'
  <2>1. UNCHANGED <<selected, shown, loading, refreshing>>
    BY <1>4 DEF Belated, lists
  <2> QED BY <1>0, <2>1 DEF ListTyped
<1>5. ASSUME NEW c \in Clients, OtherOperator(c) PROVE ListTyped'
  <2>1. UNCHANGED <<selected, shown, loading, refreshing>>
    BY <1>5 DEF OtherOperator, lists
  <2> QED BY <1>0, <2>1 DEF ListTyped
<1> QED BY <1>1, <1>2, <1>3, <1>4, <1>5 DEF Next

\* Every handler keeps the types of the dialogs.
LEMMA NextDialogsTyped ==
    ASSUME Settled, Next
    PROVE  DialogsTyped'
<1>0. TypeOK /\ ServiceTyped /\ ListTyped /\ DialogsTyped /\ LimitsTyped
  BY TypedParts DEF Settled
<1>1. ASSUME Operator PROVE DialogsTyped'
  <2>1. CASE RefreshStatus
    <3>1. UNCHANGED <<statusClient, deleteClient, configPreview, createPreview>>
      BY <2>1 DEF RefreshStatus, dialogs
    <3> QED BY <1>0, <3>1 DEF DialogsTyped
  <2>2. CASE CloseDeleteClient
    <3>1. /\ UNCHANGED <<statusClient, configPreview, createPreview>>
          /\ deleteClient' = ClosedDelete
      BY <2>2 DEF CloseDeleteClient
    <3> QED BY <1>0, <3>1 DEF DialogsTyped, AnyClient, ClosedDelete
  <2>3. CASE SubmitDeleteClient
    <3>1. /\ UNCHANGED <<statusClient, configPreview, createPreview>>
          /\ deleteClient' = [deleteClient EXCEPT !.submitting = TRUE]
      BY <2>3 DEF SubmitDeleteClient
    <3> QED BY <1>0, <3>1 DEF DialogsTyped, AnyClient
  <2>4. CASE CloseConfigurationPreview
    <3>1. /\ UNCHANGED <<statusClient, deleteClient, createPreview>>
          /\ configPreview' = ClosedPreview
      BY <2>4 DEF CloseConfigurationPreview
    <3> QED BY <1>0, <3>1 DEF DialogsTyped, AnyClient, ClosedPreview, Previews
  <2>5. CASE SaveClientConfiguration
    <3>1. /\ UNCHANGED <<statusClient, deleteClient, createPreview>>
          /\ configPreview' = [configPreview EXCEPT !.saving = TRUE]
      BY <2>5 DEF SaveClientConfiguration
    <3> QED BY <1>0, <3>1 DEF DialogsTyped, AnyClient, Previews
  <2>6. CASE OpenCreatePreview
    <3>1. /\ UNCHANGED <<statusClient, deleteClient, configPreview>>
          /\ createPreview' = [ClosedCreate EXCEPT !.open = TRUE]
      BY <2>6 DEF OpenCreatePreview
    <3> QED BY <1>0, <3>1 DEF DialogsTyped, ClosedCreate
  <2>7. CASE CloseCreatePreview
    <3>1. /\ UNCHANGED <<statusClient, deleteClient, configPreview>>
          /\ createPreview' = ClosedCreate
      BY <2>7 DEF CloseCreatePreview
    <3> QED BY <1>0, <3>1 DEF DialogsTyped, ClosedCreate
  <2>8. CASE SubmitCreatePreview
    <3>1. /\ UNCHANGED <<statusClient, deleteClient, configPreview>>
          /\ createPreview' = [createPreview EXCEPT !.submitting = TRUE]
      BY <2>8 DEF SubmitCreatePreview
    <3> QED BY <1>0, <3>1 DEF DialogsTyped, AnyClient
  <2>9. ASSUME NEW p \in Profiles, SwitchProfile(p) PROVE DialogsTyped'
    <3>1. UNCHANGED <<statusClient, deleteClient, configPreview, createPreview>>
      BY <2>9 DEF SwitchProfile, dialogs
    <3> QED BY <1>0, <3>1 DEF DialogsTyped
  <2>10. ASSUME NEW c \in Clients, SubmitStatusClient(c) PROVE DialogsTyped'
    <3>1. /\ UNCHANGED <<deleteClient, configPreview, createPreview>>
          /\ statusClient' = [client |-> c, submitting |-> TRUE]
      BY <2>10 DEF SubmitStatusClient
    <3> QED BY <1>0, <3>1 DEF DialogsTyped, AnyClient
  <2>11. ASSUME NEW c \in Clients, OpenDeleteClient(c) PROVE DialogsTyped'
    <3>1. /\ UNCHANGED <<statusClient, configPreview, createPreview>>
          /\ deleteClient' = [open |-> TRUE, client |-> c, submitting |-> FALSE]
      BY <2>11 DEF OpenDeleteClient
    <3> QED BY <1>0, <3>1 DEF DialogsTyped, AnyClient
  <2>12. ASSUME NEW c \in Clients, OpenConfigurationPreview(c) PROVE DialogsTyped'
    <3>1. /\ UNCHANGED <<statusClient, deleteClient, createPreview>>
          /\ configPreview' = [ClosedPreview EXCEPT !.open = TRUE, !.client = c, !.token = made + 1,
                                                  !.loading = TRUE]
      BY <2>12 DEF OpenConfigurationPreview
    <3>2. made + 1 \in Nat /\ c \in AnyClient
      BY <1>0 DEF TypeOK, AnyClient
    <3>3. ClosedPreview \in Previews
      BY DEF ClosedPreview, Previews, AnyClient
    <3>4. configPreview' \in Previews
      BY <3>1, <3>2, <3>3 DEF Previews
    <3> QED BY <1>0, <3>1, <3>4 DEF DialogsTyped
  <2> QED BY <1>1, <2>1, <2>2, <2>3, <2>4, <2>5, <2>6, <2>7, <2>8, <2>9, <2>10, <2>11, <2>12
             DEF Operator
<1>2. ASSUME NEW k \in calls, Settle(k) PROVE DialogsTyped'
  <2>1. CASE Change(k)
    <3>1. UNCHANGED <<statusClient, deleteClient, configPreview, createPreview>>
      BY <2>1 DEF Change, dialogs
    <3> QED BY <1>0, <3>1 DEF DialogsTyped
  <2>2. CASE Read(k)
    <3>1. UNCHANGED <<statusClient, deleteClient, configPreview, createPreview>>
      BY <2>2 DEF Read, dialogs
    <3> QED BY <1>0, <3>1 DEF DialogsTyped
  <2>3. CASE Fail(k)
    <3>1. UNCHANGED <<statusClient, deleteClient, configPreview, createPreview>>
      BY <2>3 DEF Fail, dialogs
    <3> QED BY <1>0, <3>1 DEF DialogsTyped
  <2> QED BY <1>2, <2>1, <2>2, <2>3 DEF Settle
<1>3. ASSUME NEW k \in calls, Continue(k) PROVE DialogsTyped'
  <2>1. CASE LoadArrives(k)
    <3>1. UNCHANGED <<statusClient, deleteClient, configPreview, createPreview>>
      BY <2>1 DEF LoadArrives, dialogs
    <3> QED BY <1>0, <3>1 DEF DialogsTyped
  <2>2. CASE RefreshArrives(k)
    <3>1. UNCHANGED <<statusClient, deleteClient, configPreview, createPreview>>
      BY <2>2 DEF RefreshArrives, dialogs
    <3> QED BY <1>0, <3>1 DEF DialogsTyped
  <2>3. CASE StatusArrives(k)
    <3>1. /\ UNCHANGED <<deleteClient, configPreview, createPreview>>
          /\ statusClient' = IdleStatus
      BY <2>3 DEF StatusArrives
    <3> QED BY <1>0, <3>1 DEF DialogsTyped, AnyClient, IdleStatus
  <2>4. CASE DeleteArrives(k)
    <3>1. UNCHANGED <<statusClient, configPreview, createPreview>>
      BY <2>4 DEF DeleteArrives
    <3>2. deleteClient' = ClosedDelete \/ deleteClient' = [deleteClient EXCEPT !.submitting = FALSE]
      BY <2>4 DEF DeleteArrives
    <3>3. ClosedDelete \in [open : BOOLEAN, client : AnyClient, submitting : BOOLEAN]
      BY DEF ClosedDelete, AnyClient
    <3> QED BY <1>0, <3>1, <3>2, <3>3 DEF DialogsTyped
  <2>5. CASE ConfigurationArrives(k)
    <3>1. UNCHANGED <<statusClient, deleteClient, createPreview>>
      BY <2>5 DEF ConfigurationArrives
    <3>2. k.answer.version \in Nat
      BY <1>0 DEF TypeOK, Calls, Answers
    <3>3. configPreview \in Previews
      BY <1>0 DEF DialogsTyped
    <3>4. \/ configPreview' = configPreview
          \/ configPreview' = [configPreview EXCEPT !.loading = FALSE, !.saving = FALSE]
          \/ configPreview' = [configPreview EXCEPT !.result = k.answer.version,
                                                   !.loading = FALSE, !.saving = FALSE]
      BY <2>5 DEF ConfigurationArrives, Show
    <3>5. configPreview' \in Previews
      BY <3>2, <3>3, <3>4 DEF Previews
    <3> QED BY <1>0, <3>1, <3>5 DEF DialogsTyped
  <2>6. CASE SaveArrives(k)
    <3>1. UNCHANGED <<statusClient, deleteClient, createPreview>>
      BY <2>6 DEF SaveArrives
    <3>2. k.answer.version \in Nat
      BY <1>0 DEF TypeOK, Calls, Answers
    <3>3. configPreview \in Previews
      BY <1>0 DEF DialogsTyped
    <3>4. \/ configPreview' = configPreview
          \/ configPreview' = [configPreview EXCEPT !.loading = FALSE, !.saving = FALSE]
          \/ configPreview' = [configPreview EXCEPT !.result = k.answer.version,
                                                   !.loading = FALSE, !.saving = FALSE]
      BY <2>6 DEF SaveArrives, Show
    <3>5. configPreview' \in Previews
      BY <3>2, <3>3, <3>4 DEF Previews
    <3> QED BY <1>0, <3>1, <3>5 DEF DialogsTyped
  <2>7. CASE CreateArrives(k)
    <3>1. UNCHANGED <<statusClient, deleteClient, configPreview>>
      BY <2>7 DEF CreateArrives
    <3>2. \/ createPreview' = [createPreview EXCEPT !.step = "result"]
          \/ createPreview' = createPreview
      BY <2>7 DEF CreateArrives
    <3> QED BY <1>0, <3>1, <3>2 DEF DialogsTyped
  <2>8. CASE ReadbackArrives(k)
    <3>1. /\ UNCHANGED <<statusClient, deleteClient, configPreview>>
          /\ createPreview' = [createPreview EXCEPT !.submitting = FALSE]
      BY <2>8 DEF ReadbackArrives
    <3> QED BY <1>0, <3>1 DEF DialogsTyped, AnyClient
  <2> QED BY <1>3, <2>1, <2>2, <2>3, <2>4, <2>5, <2>6, <2>7, <2>8 DEF Continue
<1>4. ASSUME NEW k \in late, Belated(k) PROVE DialogsTyped'
  <2>1. UNCHANGED <<statusClient, deleteClient, configPreview, createPreview>>
    BY <1>4 DEF Belated, dialogs
  <2> QED BY <1>0, <2>1 DEF DialogsTyped
<1>5. ASSUME NEW c \in Clients, OtherOperator(c) PROVE DialogsTyped'
  <2>1. UNCHANGED <<statusClient, deleteClient, configPreview, createPreview>>
    BY <1>5 DEF OtherOperator, dialogs
  <2> QED BY <1>0, <2>1 DEF DialogsTyped
<1> QED BY <1>1, <1>2, <1>3, <1>4, <1>5 DEF Next

\* The changes by others are counted up to their bound.
LEMMA NextLimitsTyped ==
    ASSUME Settled, Next
    PROVE  LimitsTyped'
<1>0. TypeOK /\ ServiceTyped /\ ListTyped /\ DialogsTyped /\ LimitsTyped
  BY TypedParts DEF Settled
<1>1. ASSUME Operator PROVE LimitsTyped'
  <2>1. CASE RefreshStatus
    <3>1. foreign' = foreign /\ openedAt' = openedAt
      BY <2>1 DEF RefreshStatus, ghosts, Return
    <3> QED BY <1>0, <3>1 DEF LimitsTyped
  <2>2. CASE CloseDeleteClient
    <3>1. foreign' = foreign /\ openedAt' = openedAt
      BY <2>2 DEF CloseDeleteClient, ghosts, Return
    <3> QED BY <1>0, <3>1 DEF LimitsTyped
  <2>3. CASE SubmitDeleteClient
    <3>1. foreign' = foreign /\ openedAt' = openedAt
      BY <2>3 DEF SubmitDeleteClient, ghosts, Return
    <3> QED BY <1>0, <3>1 DEF LimitsTyped
  <2>4. CASE CloseConfigurationPreview
    <3>1. foreign' = foreign /\ openedAt' = openedAt
      BY <2>4 DEF CloseConfigurationPreview, ghosts, Return
    <3> QED BY <1>0, <3>1 DEF LimitsTyped
  <2>5. CASE SaveClientConfiguration
    <3>1. foreign' = foreign /\ openedAt' = openedAt
      BY <2>5 DEF SaveClientConfiguration, ghosts, Return
    <3> QED BY <1>0, <3>1 DEF LimitsTyped
  <2>6. CASE OpenCreatePreview
    <3>1. foreign' = foreign /\ openedAt' = openedAt
      BY <2>6 DEF OpenCreatePreview, ghosts, Return
    <3> QED BY <1>0, <3>1 DEF LimitsTyped
  <2>7. CASE CloseCreatePreview
    <3>1. foreign' = foreign /\ openedAt' = openedAt
      BY <2>7 DEF CloseCreatePreview, ghosts, Return
    <3> QED BY <1>0, <3>1 DEF LimitsTyped
  <2>8. CASE SubmitCreatePreview
    <3>1. foreign' = foreign /\ openedAt' = openedAt
      BY <2>8 DEF SubmitCreatePreview, ghosts, Return
    <3> QED BY <1>0, <3>1 DEF LimitsTyped
  <2>9. ASSUME NEW p \in Profiles, SwitchProfile(p) PROVE LimitsTyped'
    <3>1. foreign' = foreign /\ openedAt' = openedAt
      BY <2>9 DEF SwitchProfile, ghosts, Return
    <3> QED BY <1>0, <3>1 DEF LimitsTyped
  <2>10. ASSUME NEW c \in Clients, SubmitStatusClient(c) PROVE LimitsTyped'
    <3>1. foreign' = foreign /\ openedAt' = openedAt
      BY <2>10 DEF SubmitStatusClient, ghosts, Return
    <3> QED BY <1>0, <3>1 DEF LimitsTyped
  <2>11. ASSUME NEW c \in Clients, OpenDeleteClient(c) PROVE LimitsTyped'
    <3>1. foreign' = foreign /\ openedAt' = openedAt
      BY <2>11 DEF OpenDeleteClient, ghosts, Return
    <3> QED BY <1>0, <3>1 DEF LimitsTyped
  <2>12. ASSUME NEW c \in Clients, OpenConfigurationPreview(c) PROVE LimitsTyped'
    <3>1. foreign' = foreign /\ openedAt' = version[c]
      BY <2>12 DEF OpenConfigurationPreview
    <3> QED BY <1>0, <3>1 DEF LimitsTyped, ServiceTyped
  <2> QED BY <1>1, <2>1, <2>2, <2>3, <2>4, <2>5, <2>6, <2>7, <2>8, <2>9, <2>10, <2>11, <2>12
             DEF Operator
<1>2. ASSUME NEW k \in calls, Settle(k) PROVE LimitsTyped'
  <2>1. CASE Change(k)
    <3>1. foreign' = foreign /\ openedAt' = openedAt
      BY <2>1 DEF Change, ghosts, Return
    <3> QED BY <1>0, <3>1 DEF LimitsTyped
  <2>2. CASE Read(k)
    <3>1. foreign' = foreign /\ openedAt' = openedAt
      BY <2>2 DEF Read, ghosts, Return
    <3> QED BY <1>0, <3>1 DEF LimitsTyped
  <2>3. CASE Fail(k)
    <3>1. foreign' = foreign /\ openedAt' = openedAt
      BY <2>3 DEF Fail, ghosts, Return
    <3> QED BY <1>0, <3>1 DEF LimitsTyped
  <2> QED BY <1>2, <2>1, <2>2, <2>3 DEF Settle
<1>3. ASSUME NEW k \in calls, Continue(k) PROVE LimitsTyped'
  <2>1. CASE LoadArrives(k)
    <3>1. foreign' = foreign /\ openedAt' = openedAt
      BY <2>1 DEF LoadArrives, ghosts, Return
    <3> QED BY <1>0, <3>1 DEF LimitsTyped
  <2>2. CASE RefreshArrives(k)
    <3>1. foreign' = foreign /\ openedAt' = openedAt
      BY <2>2 DEF RefreshArrives, ghosts, Return
    <3> QED BY <1>0, <3>1 DEF LimitsTyped
  <2>3. CASE StatusArrives(k)
    <3>1. foreign' = foreign /\ openedAt' = openedAt
      BY <2>3 DEF StatusArrives, ghosts, Return
    <3> QED BY <1>0, <3>1 DEF LimitsTyped
  <2>4. CASE DeleteArrives(k)
    <3>1. foreign' = foreign /\ openedAt' = openedAt
      BY <2>4 DEF DeleteArrives, ghosts, Return
    <3> QED BY <1>0, <3>1 DEF LimitsTyped
  <2>5. CASE ConfigurationArrives(k)
    <3>1. foreign' = foreign /\ openedAt' = openedAt
      BY <2>5 DEF ConfigurationArrives, ghosts, Return
    <3> QED BY <1>0, <3>1 DEF LimitsTyped
  <2>6. CASE SaveArrives(k)
    <3>1. foreign' = foreign /\ openedAt' = openedAt
      BY <2>6 DEF SaveArrives, ghosts, Return
    <3> QED BY <1>0, <3>1 DEF LimitsTyped
  <2>7. CASE CreateArrives(k)
    <3>1. foreign' = foreign /\ openedAt' = openedAt
      BY <2>7 DEF CreateArrives, ghosts, Return
    <3> QED BY <1>0, <3>1 DEF LimitsTyped
  <2>8. CASE ReadbackArrives(k)
    <3>1. foreign' = foreign /\ openedAt' = openedAt
      BY <2>8 DEF ReadbackArrives, ghosts, Return
    <3> QED BY <1>0, <3>1 DEF LimitsTyped
  <2> QED BY <1>3, <2>1, <2>2, <2>3, <2>4, <2>5, <2>6, <2>7, <2>8 DEF Continue
<1>4. ASSUME NEW k \in late, Belated(k) PROVE LimitsTyped'
  <2>1. foreign' = foreign /\ openedAt' = openedAt
    BY <1>4 DEF Belated, ghosts, Return
  <2> QED BY <1>0, <2>1 DEF LimitsTyped
<1>5. ASSUME NEW c \in Clients, OtherOperator(c) PROVE LimitsTyped'
  <2>1. foreign < MaxForeign /\ foreign' = foreign + 1 /\ openedAt' = openedAt
    BY <1>5 DEF OtherOperator, ghosts
  <2>2. MaxForeign \in Nat /\ foreign \in 0..MaxForeign /\ openedAt \in Nat
    BY <1>0, BoundAssumption DEF LimitsTyped
  <2> QED BY <2>1, <2>2 DEF LimitsTyped
<1> QED BY <1>1, <1>2, <1>3, <1>4, <1>5 DEF Next

\* Every step keeps the types.
LEMMA NextTyped ==
    ASSUME Settled, Next
    PROVE  TypeOK'
<1>1. Carried
  BY StepCarried
<1>2. ServiceTyped' /\ ListTyped' /\ DialogsTyped' /\ LimitsTyped'
  BY NextServiceTyped, NextListTyped, NextDialogsTyped, NextLimitsTyped
<1>3. calls' \subseteq Calls /\ late' \subseteq Calls
  BY <1>1, CallsTyped
<1>4. made' \in Nat /\ seen' \subseteq Clients \X Nat
  BY <1>1 DEF Carried
<1>5. TypeOK' <=> /\ ServiceTyped' /\ ListTyped' /\ DialogsTyped' /\ LimitsTyped'
                  /\ calls' \subseteq Calls /\ late' \subseteq Calls
                  /\ made' \in Nat /\ seen' \subseteq Clients \X Nat
  BY DEF TypeOK, ServiceTyped, ListTyped, DialogsTyped, LimitsTyped, Previews
<1> QED BY <1>2, <1>3, <1>4, <1>5

-----------------------------------------------------------------------------
(* The console: the list shows the selected profile                        *)

ShownHomed == \A c \in DOMAIN shown : Home[c] = selected

\* Whatever fills the list is of the selected profile.
LEMMA NextShownHomed ==
    ASSUME Settled, Next
    PROVE  ShownHomed'
<1>0. ShownHomed
  BY DEF Settled, Homed, ShownHomed
<1>1. ASSUME Operator PROVE ShownHomed'
  <2>1. CASE RefreshStatus
    <3>1. shown' = shown /\ selected' = selected
      BY <2>1 DEF RefreshStatus, lists
    <3> QED BY <1>0, <3>1 DEF ShownHomed
  <2>2. CASE CloseDeleteClient
    <3>1. shown' = shown /\ selected' = selected
      BY <2>2 DEF CloseDeleteClient, lists
    <3> QED BY <1>0, <3>1 DEF ShownHomed
  <2>3. CASE SubmitDeleteClient
    <3>1. shown' = shown /\ selected' = selected
      BY <2>3 DEF SubmitDeleteClient, lists
    <3> QED BY <1>0, <3>1 DEF ShownHomed
  <2>4. CASE CloseConfigurationPreview
    <3>1. shown' = shown /\ selected' = selected
      BY <2>4 DEF CloseConfigurationPreview, lists
    <3> QED BY <1>0, <3>1 DEF ShownHomed
  <2>5. CASE SaveClientConfiguration
    <3>1. shown' = shown /\ selected' = selected
      BY <2>5 DEF SaveClientConfiguration, lists
    <3> QED BY <1>0, <3>1 DEF ShownHomed
  <2>6. CASE OpenCreatePreview
    <3>1. shown' = shown /\ selected' = selected
      BY <2>6 DEF OpenCreatePreview, lists
    <3> QED BY <1>0, <3>1 DEF ShownHomed
  <2>7. CASE CloseCreatePreview
    <3>1. shown' = shown /\ selected' = selected
      BY <2>7 DEF CloseCreatePreview, lists
    <3> QED BY <1>0, <3>1 DEF ShownHomed
  <2>8. CASE SubmitCreatePreview
    <3>1. shown' = shown /\ selected' = selected
      BY <2>8 DEF SubmitCreatePreview, lists
    <3> QED BY <1>0, <3>1 DEF ShownHomed
  <2>9. ASSUME NEW p \in Profiles, SwitchProfile(p) PROVE ShownHomed'
    BY <2>9, EmptyList DEF SwitchProfile, ShownHomed
  <2>10. ASSUME NEW c \in Clients, SubmitStatusClient(c) PROVE ShownHomed'
    <3>1. shown' = shown /\ selected' = selected
      BY <2>10 DEF SubmitStatusClient, lists
    <3> QED BY <1>0, <3>1 DEF ShownHomed
  <2>11. ASSUME NEW c \in Clients, OpenDeleteClient(c) PROVE ShownHomed'
    <3>1. shown' = shown /\ selected' = selected
      BY <2>11 DEF OpenDeleteClient, lists
    <3> QED BY <1>0, <3>1 DEF ShownHomed
  <2>12. ASSUME NEW c \in Clients, OpenConfigurationPreview(c) PROVE ShownHomed'
    <3>1. shown' = shown /\ selected' = selected
      BY <2>12 DEF OpenConfigurationPreview, lists
    <3> QED BY <1>0, <3>1 DEF ShownHomed
  <2> QED BY <1>1, <2>1, <2>2, <2>3, <2>4, <2>5, <2>6, <2>7, <2>8, <2>9, <2>10, <2>11, <2>12
             DEF Operator
<1>2. ASSUME NEW k \in calls, Settle(k) PROVE ShownHomed'
  <2>1. CASE Change(k)
    <3>1. shown' = shown /\ selected' = selected
      BY <2>1 DEF Change, lists
    <3> QED BY <1>0, <3>1 DEF ShownHomed
  <2>2. CASE Read(k)
    <3>1. shown' = shown /\ selected' = selected
      BY <2>2 DEF Read, lists
    <3> QED BY <1>0, <3>1 DEF ShownHomed
  <2>3. CASE Fail(k)
    <3>1. shown' = shown /\ selected' = selected
      BY <2>3 DEF Fail, lists
    <3> QED BY <1>0, <3>1 DEF ShownHomed
  <2> QED BY <1>2, <2>1, <2>2, <2>3 DEF Settle
<1>3. ASSUME NEW k \in calls, Continue(k) PROVE ShownHomed'
  <2>1. CASE LoadArrives(k)
    <3>1. \A c \in DOMAIN k.answer.list : Home[c] = k.profile
      BY DEF Settled, Homed
    <3>2. k.profile = selected
      BY <2>1 DEF Settled, Homed, LoadArrives, Awaited, Listings
    <3>3. selected' = selected /\ (shown' = k.answer.list \/ shown' = <<>> \/ shown' = shown)
      BY <2>1 DEF LoadArrives
    <3> QED BY <1>0, <3>1, <3>2, <3>3, EmptyList DEF ShownHomed
  <2>2. CASE RefreshArrives(k)
    <3>1. \A c \in DOMAIN k.answer.list : Home[c] = k.profile
      BY DEF Settled, Homed
    <3>2. k.profile = selected
      BY <2>2 DEF Settled, Homed, RefreshArrives, Awaited, Listings
    <3>3. selected' = selected /\ (shown' = k.answer.list \/ shown' = shown)
      BY <2>2 DEF RefreshArrives
    <3> QED BY <1>0, <3>1, <3>2, <3>3 DEF ShownHomed
  <2>3. CASE StatusArrives(k)
    <3>1. selected' = selected /\ DOMAIN shown' = DOMAIN shown
      BY <2>3 DEF StatusArrives
    <3> QED BY <1>0, <3>1 DEF ShownHomed
  <2>4. CASE DeleteArrives(k)
    <3>1. selected' = selected /\ DOMAIN shown' \subseteq DOMAIN shown
      BY <2>4 DEF DeleteArrives
    <3> QED BY <1>0, <3>1 DEF ShownHomed
  <2>5. CASE ConfigurationArrives(k)
    <3>1. shown' = shown /\ selected' = selected
      BY <2>5 DEF ConfigurationArrives, lists
    <3> QED BY <1>0, <3>1 DEF ShownHomed
  <2>6. CASE SaveArrives(k)
    <3>1. shown' = shown /\ selected' = selected
      BY <2>6 DEF SaveArrives, lists
    <3> QED BY <1>0, <3>1 DEF ShownHomed
  <2>7. CASE CreateArrives(k)
    <3>1. shown' = shown /\ selected' = selected
      BY <2>7 DEF CreateArrives, lists
    <3> QED BY <1>0, <3>1 DEF ShownHomed
  <2>8. CASE ReadbackArrives(k)
    <3>1. \A c \in DOMAIN k.answer.list : Home[c] = k.profile
      BY DEF Settled, Homed
    <3>2. k.profile = selected
      BY <2>8 DEF Settled, Homed, ReadbackArrives, Awaited, Listings
    <3>3. selected' = selected /\ (shown' = k.answer.list \/ shown' = shown)
      BY <2>8 DEF ReadbackArrives
    <3> QED BY <1>0, <3>1, <3>2, <3>3 DEF ShownHomed
  <2> QED BY <1>3, <2>1, <2>2, <2>3, <2>4, <2>5, <2>6, <2>7, <2>8 DEF Continue
<1>4. ASSUME NEW k \in late, Belated(k) PROVE ShownHomed'
  <2>1. shown' = shown /\ selected' = selected
    BY <1>4 DEF Belated, lists
  <2> QED BY <1>0, <2>1 DEF ShownHomed
<1>5. ASSUME NEW c \in Clients, OtherOperator(c) PROVE ShownHomed'
  <2>1. shown' = shown /\ selected' = selected
    BY <1>5 DEF OtherOperator, lists
  <2> QED BY <1>0, <2>1 DEF ShownHomed
<1> QED BY <1>1, <1>2, <1>3, <1>4, <1>5 DEF Next

\* The profile is only switched while no list is awaited and no client is created.
LEMMA SwitchWaits ==
    ASSUME Settled, NEW p \in Profiles, SwitchProfile(p)
    PROVE  Loads = {} /\ Refreshes = {} /\ Creations = {}
<1>1. ~ loading /\ ~ refreshing /\ ~ createPreview.submitting
  BY DEF SwitchProfile, SwitchAllowed
<1>2. /\ Guards(loading, Loads) /\ Guards(refreshing, Refreshes)
      /\ Guards(createPreview.submitting, Creations)
  BY DEF Settled, Gated
<1> QED BY <1>1, <1>2 DEF Guards

\* So the profile stays selected under a list or a creation in flight.
LEMMA NextSelected ==
    ASSUME Settled, Next
    PROVE  \/ selected' = selected
           \/ \A k \in calls : k.function \notin Listings \cup {"create"}

<1> DEFINE Quiet == \A d \in calls : d.function \notin Listings \cup {"create"}
<1>1. ASSUME Operator PROVE selected' = selected \/ Quiet
  <2>1. CASE RefreshStatus
    BY <2>1 DEF RefreshStatus, lists
  <2>2. CASE CloseDeleteClient
    BY <2>2 DEF CloseDeleteClient, lists
  <2>3. CASE SubmitDeleteClient
    BY <2>3 DEF SubmitDeleteClient, lists
  <2>4. CASE CloseConfigurationPreview
    BY <2>4 DEF CloseConfigurationPreview, lists
  <2>5. CASE SaveClientConfiguration
    BY <2>5 DEF SaveClientConfiguration, lists
  <2>6. CASE OpenCreatePreview
    BY <2>6 DEF OpenCreatePreview, lists
  <2>7. CASE CloseCreatePreview
    BY <2>7 DEF CloseCreatePreview, lists
  <2>8. CASE SubmitCreatePreview
    BY <2>8 DEF SubmitCreatePreview, lists
  <2>9. ASSUME NEW p \in Profiles, SwitchProfile(p) PROVE selected' = selected \/ Quiet
    <3>1. Loads = {} /\ Refreshes = {} /\ Creations = {}
      BY <2>9, SwitchWaits
    <3> QED BY <3>1, Membership DEF Listings
  <2>10. ASSUME NEW c \in Clients, SubmitStatusClient(c) PROVE selected' = selected \/ Quiet
    BY <2>10 DEF SubmitStatusClient, lists
  <2>11. ASSUME NEW c \in Clients, OpenDeleteClient(c) PROVE selected' = selected \/ Quiet
    BY <2>11 DEF OpenDeleteClient, lists
  <2>12. ASSUME NEW c \in Clients, OpenConfigurationPreview(c) PROVE selected' = selected \/ Quiet
    BY <2>12 DEF OpenConfigurationPreview, lists
  <2> QED BY <1>1, <2>1, <2>2, <2>3, <2>4, <2>5, <2>6, <2>7, <2>8, <2>9, <2>10, <2>11, <2>12
             DEF Operator
<1>2. ASSUME NEW k \in calls, Settle(k) PROVE selected' = selected \/ Quiet
  <2>1. CASE Change(k)
    BY <2>1 DEF Change, lists
  <2>2. CASE Read(k)
    BY <2>2 DEF Read, lists
  <2>3. CASE Fail(k)
    BY <2>3 DEF Fail, lists
  <2> QED BY <1>2, <2>1, <2>2, <2>3 DEF Settle
<1>3. ASSUME NEW k \in calls, Continue(k) PROVE selected' = selected \/ Quiet
  <2>1. CASE LoadArrives(k)
    BY <2>1 DEF LoadArrives, lists
  <2>2. CASE RefreshArrives(k)
    BY <2>2 DEF RefreshArrives, lists
  <2>3. CASE StatusArrives(k)
    BY <2>3 DEF StatusArrives, lists
  <2>4. CASE DeleteArrives(k)
    BY <2>4 DEF DeleteArrives, lists
  <2>5. CASE ConfigurationArrives(k)
    BY <2>5 DEF ConfigurationArrives, lists
  <2>6. CASE SaveArrives(k)
    BY <2>6 DEF SaveArrives, lists
  <2>7. CASE CreateArrives(k)
    BY <2>7 DEF CreateArrives, lists
  <2>8. CASE ReadbackArrives(k)
    BY <2>8 DEF ReadbackArrives, lists
  <2> QED BY <1>3, <2>1, <2>2, <2>3, <2>4, <2>5, <2>6, <2>7, <2>8 DEF Continue
<1>4. ASSUME NEW k \in late, Belated(k) PROVE selected' = selected \/ Quiet
  BY <1>4 DEF Belated, lists
<1>5. ASSUME NEW c \in Clients, OtherOperator(c) PROVE selected' = selected \/ Quiet
  BY <1>5 DEF OtherOperator, lists
<1> QED BY <1>1, <1>2, <1>3, <1>4, <1>5 DEF Next

\* Every step keeps the list, the answers and the calls of the selected profile.
LEMMA NextHomed ==
    ASSUME Settled, Next
    PROVE  Homed'
<1>1. Carried
  BY StepCarried
<1>2. \A k \in calls' : k \in calls \/ Fresh(k) \/ \E d \in calls : Answered(k, d)
  BY <1>1 DEF Carried, Traced
<1>3. \A c \in DOMAIN shown' : Home[c] = selected'
  BY NextShownHomed DEF ShownHomed
<1>4. /\ \A k \in calls : \A c \in DOMAIN k.answer.list : Home[c] = k.profile
      /\ \A k \in calls : k.function \in Listings \cup {"create"} => k.profile = selected
  BY DEF Settled, Homed
<1>5. \A k \in calls' : \A c \in DOMAIN k.answer.list : Home[c] = k.profile
  <2>1. \A k : Fresh(k) => DOMAIN k.answer.list = {}
    BY EmptyList DEF Fresh
  <2>2. \A k, d : Answered(k, d) => \A c \in DOMAIN k.answer.list : Home[c] = k.profile
    BY DEF Answered
  <2> QED BY <1>2, <1>4, <2>1, <2>2
<1>6. \A k \in calls' : k.function \in Listings \cup {"create"} => k.profile = selected'
  <2>1. \A k : Fresh(k) => k.profile = selected'
    BY DEF Fresh
  <2>2. \A k, d : Answered(k, d) => k.profile = d.profile /\ k.function = d.function
    BY DEF Answered
  <2>3. \A k \in calls : k.function \in Listings \cup {"create"} => k.profile = selected'
    BY <1>4, NextSelected
  <2> QED BY <1>2, <2>1, <2>2, <2>3
<1> QED BY <1>3, <1>5, <1>6 DEF Homed

-----------------------------------------------------------------------------
(* The console: the gates                                                  *)

PageGates ==
    /\ Guards(loading, Loads)
    /\ Guards(refreshing, Refreshes)
    /\ Guards(statusClient.submitting, Switches)
    /\ Guards(createPreview.submitting, Creations)
    /\ createPreview.submitting => createPreview.open
PreviewGates ==
    configPreview.open =>
       /\ Guards(configPreview.loading, Openings)
       /\ Guards(configPreview.saving, Savings)
       /\ configPreview.loading => configPreview.result = 0 /\ ~ configPreview.saving

\* A gate that is shut is opened by the return of its call.
LEMMA GateOpens ==
    ASSUME NEW x, NEW y, NEW S, NEW T, NEW k, Guards(x, S), k \in S, ~ y, T = S \ {k}
    PROVE  Guards(y, T)
BY DEF Guards

\* What the page's gates guard depends on the calls alone.
LEMMA PageSets ==
    ASSUME calls' = calls
    PROVE  /\ Loads' = Loads /\ Refreshes' = Refreshes /\ Switches' = Switches
           /\ Creations' = Creations
BY DEF Loads, Refreshes, Switches, Creations, Awaited, Pending

\* And what those of the dialog guard, on the calls and its token.
LEMMA PreviewSets ==
    ASSUME calls' = calls, configPreview'.token = configPreview.token
    PROVE  Openings' = Openings /\ Savings' = Savings
BY DEF Openings, Savings, Awaited

\* What a call that is issued or answered does to them.
LEMMA AnsweredGates ==
    ASSUME NEW k \in calls, k \in Calls, NEW a \in Answers, Reply(k, a),
           configPreview' = configPreview, loading' = loading, refreshing' = refreshing,
           statusClient' = statusClient, createPreview' = createPreview, PageGates, PreviewGates
    PROVE  PageGates' /\ PreviewGates'
<1>1. PICK n \in Calls : n.function = k.function /\ n.dialog = k.dialog
                         /\ calls' = (calls \ {k}) \cup {n}
  BY ReplyView
<1>2. /\ Loads' = IF k \in Loads THEN (Loads \ {k}) \cup {n} ELSE Loads
      /\ Refreshes' = IF k \in Refreshes THEN (Refreshes \ {k}) \cup {n} ELSE Refreshes
      /\ Switches' = IF k \in Switches THEN (Switches \ {k}) \cup {n} ELSE Switches
      /\ Creations' = IF k \in Creations THEN (Creations \ {k}) \cup {n} ELSE Creations
      /\ Openings' = IF k \in Openings THEN (Openings \ {k}) \cup {n} ELSE Openings
      /\ Savings' = IF k \in Savings THEN (Savings \ {k}) \cup {n} ELSE Savings
  BY <1>1, ReplySets
<1>3. /\ Guards(loading, Loads) /\ Guards(refreshing, Refreshes)
      /\ Guards(statusClient.submitting, Switches)
      /\ Guards(createPreview.submitting, Creations)
  BY DEF PageGates
<1>4. /\ Guards(loading, Loads') /\ Guards(refreshing, Refreshes')
      /\ Guards(statusClient.submitting, Switches')
      /\ Guards(createPreview.submitting, Creations')
  BY <1>2, <1>3, GuardsSwapped
<1>5. PageGates'
  BY <1>4 DEF PageGates
<1>6. configPreview.open => /\ Guards(configPreview.loading, Openings')
                            /\ Guards(configPreview.saving, Savings')
  BY <1>2, GuardsSwapped DEF PreviewGates
<1>7. PreviewGates'
  BY <1>6 DEF PreviewGates
<1> QED BY <1>5, <1>7

\* An answer moves no gate: the continuation does.
LEMMA SettleGates ==
    ASSUME Settled, NEW k \in calls, Settle(k)
    PROVE  PageGates' /\ PreviewGates'
<1>0. TypeOK /\ PageGates /\ PreviewGates /\ Homed
  BY DEF Settled, Gated, PageGates, PreviewGates
<1>1. CASE Change(k)
  <2>1. \E d \in Answers : Reply(k, d)
    <3>0. k \in Calls /\ (k.function \in OnClient => k.client \in Clients)
      BY <1>0 DEF Settled, TypeOK, Addressed
    <3>1. PICK ok \in BOOLEAN :
            /\ Effect(k, ok)
            /\ Reply(k, [done |-> TRUE, ok |-> ok, list |-> <<>>,
                         version |-> IF k.client = NoClient THEN 0 ELSE version'[k.client]])
      BY <1>1 DEF Change
    <3> DEFINE v == IF k.client = NoClient THEN 0 ELSE version'[k.client]
    <3>2. version' \in [Clients -> Nat]
      BY <1>0, <3>0, <3>1, EffectView
    <3>3. v \in Nat
      BY <3>0, <3>2, HomeAssumption DEF Calls, AnyClient
    <3>4. Reply(k, [done |-> TRUE, ok |-> ok, list |-> <<>>, version |-> v])
      BY <3>1
    <3> HIDE DEF v
    <3>5. [done |-> TRUE, ok |-> ok, list |-> <<>>, version |-> v] \in Answers
      BY <3>3, AnswerView, EmptyList
    <3> QED BY <3>4, <3>5
  <2>2. /\ k \in Calls
        /\ UNCHANGED <<configPreview, loading, refreshing, statusClient, createPreview>>
    BY <1>1, <1>0 DEF Change, TypeOK, lists, dialogs
  <2> QED BY <1>0, <2>1, <2>2, AnsweredGates
<1>2. CASE Read(k)
  <2>1. \E d \in Answers : Reply(k, d)
    <3>0. k \in Calls /\ (k.function \in OnClient => k.client \in Clients)
      BY <1>0 DEF Settled, TypeOK, Addressed
    <3>1. CASE k.function \in Listings
      <4>1. Reply(k, [Success EXCEPT !.list = ListOf(k.profile)]) /\ k.profile \in Profiles
        BY <1>2, <3>0, <3>1 DEF Read, Calls
      <4>2. ListOf(k.profile) \in Lists
        BY <1>0, <4>1, ListOfView
      <4>3. [Success EXCEPT !.list = ListOf(k.profile)] \in Answers
        BY <4>2, AnswerView
      <4> QED BY <4>1, <4>3
    <3>2. CASE k.function \notin Listings
      <4>1. Reply(k, [Success EXCEPT !.version = version[k.client]])
        BY <1>2, <3>2 DEF Read
      <4>2. version[k.client] \in Nat
        BY <1>2, <1>0, <3>0, <3>2 DEF Read, TypeOK, OnClient, Calls, Functions
      <4>3. [Success EXCEPT !.version = version[k.client]] \in Answers
        BY <4>2, AnswerView, EmptyList
      <4> QED BY <4>1, <4>3
    <3> QED BY <3>1, <3>2
  <2>2. /\ k \in Calls
        /\ UNCHANGED <<configPreview, loading, refreshing, statusClient, createPreview>>
    BY <1>2, <1>0 DEF Read, TypeOK, lists, dialogs
  <2> QED BY <1>0, <2>1, <2>2, AnsweredGates
<1>3. CASE Fail(k)
  <2>1. \E d \in Answers : Reply(k, d)
    BY <1>3, AnswerView, EmptyList DEF Fail
  <2>2. /\ k \in Calls
        /\ UNCHANGED <<configPreview, loading, refreshing, statusClient, createPreview>>
    BY <1>3, <1>0 DEF Fail, TypeOK, lists, dialogs
  <2> QED BY <1>0, <2>1, <2>2, AnsweredGates
<1> QED BY <1>1, <1>2, <1>3 DEF Settle

\* Every step keeps the gates of the page.
LEMMA NextPageGates ==
    ASSUME Settled, Next
    PROVE  PageGates'
<1>0. TypeOK /\ PageGates /\ PreviewGates /\ Homed
  BY DEF Settled, Gated, PageGates, PreviewGates
<1>1. ASSUME Operator PROVE PageGates'
  <2>1. CASE RefreshStatus
    <3>1. PICK n \in Calls : n.function = "refreshStatus" /\ calls' = calls \cup {n}
      <4>1. Issue("refreshStatus", selected, NoClient, 0, 0)
        BY <2>1 DEF RefreshStatus
      <4>2. /\ "refreshStatus" \in Functions /\ selected \in Profiles
            /\ NoClient \in AnyClient /\ 0 \in Nat
        BY <1>0, <2>1 DEF RefreshStatus, TypeOK, Functions, Listings, Changes, AnyClient
      <4> QED BY <1>0, <4>1, <4>2, IssueView
    <3>2. /\ Loads' = Loads /\ Refreshes' = Refreshes \cup {n} /\ Switches' = Switches
          /\ Creations' = Creations
      BY <3>1, IssueSets
    <3>3. loading' = loading /\ statusClient' = statusClient /\ createPreview' = createPreview
      BY <2>1 DEF RefreshStatus, lists, dialogs
    <3>4. ~ refreshing /\ refreshing'
      BY <1>0, <2>1 DEF RefreshStatus, SwitchAllowed
    <3>5. Guards(refreshing', Refreshes')
      <4>1. Refreshes = {}
        BY <1>0, <3>4 DEF PageGates, Guards
      <4>2. Refreshes' = {n}
        BY <3>2, <4>1
      <4> QED BY <3>4, <4>2 DEF Guards
    <3> QED BY <1>0, <3>2, <3>3, <3>5 DEF PageGates
  <2>2. CASE CloseDeleteClient
    <3>1. /\ calls' = calls /\ loading' = loading /\ refreshing' = refreshing
          /\ statusClient' = statusClient /\ createPreview' = createPreview
      BY <2>2 DEF CloseDeleteClient, lists, dialogs
    <3>2. /\ Loads' = Loads /\ Refreshes' = Refreshes /\ Switches' = Switches
          /\ Creations' = Creations
      BY <3>1, PageSets
    <3> QED BY <1>0, <3>1, <3>2 DEF PageGates
  <2>3. CASE SubmitDeleteClient
    <3>1. PICK n \in Calls : n.function = "delete" /\ calls' = calls \cup {n}
      <4>1. Issue("delete", selected, deleteClient.client, 0, 0)
        BY <2>3 DEF SubmitDeleteClient
      <4>2. /\ "delete" \in Functions /\ selected \in Profiles
            /\ deleteClient.client \in AnyClient /\ 0 \in Nat
        BY <1>0, <2>3 DEF SubmitDeleteClient, TypeOK, Functions, Listings, Changes,
           AnyClient
      <4> QED BY <1>0, <4>1, <4>2, IssueView
    <3>2. /\ Loads' = Loads /\ Refreshes' = Refreshes /\ Switches' = Switches
          /\ Creations' = Creations
      BY <3>1, IssueSets
    <3>3. /\ loading' = loading /\ refreshing' = refreshing
          /\ statusClient' = statusClient /\ createPreview' = createPreview
      BY <2>3 DEF SubmitDeleteClient, lists, dialogs
    <3> QED BY <1>0, <3>2, <3>3 DEF PageGates
  <2>4. CASE CloseConfigurationPreview
    <3>1. /\ calls' = calls /\ loading' = loading /\ refreshing' = refreshing
          /\ statusClient' = statusClient /\ createPreview' = createPreview
      BY <2>4 DEF CloseConfigurationPreview, lists, dialogs
    <3>2. /\ Loads' = Loads /\ Refreshes' = Refreshes /\ Switches' = Switches
          /\ Creations' = Creations
      BY <3>1, PageSets
    <3> QED BY <1>0, <3>1, <3>2 DEF PageGates
  <2>5. CASE SaveClientConfiguration
    <3>1. PICK n \in Calls : n.function = "updateConfiguration" /\ calls' = calls \cup {n}
      <4>1. Issue("updateConfiguration", selected, configPreview.client, configPreview.result,
                configPreview.token)
        BY <2>5 DEF SaveClientConfiguration
      <4>2. /\ "updateConfiguration" \in Functions /\ selected \in Profiles
            /\ configPreview.client \in AnyClient /\ configPreview.result \in Nat
            /\ configPreview.token \in Nat
        BY <1>0, <2>5 DEF SaveClientConfiguration, TypeOK, Functions, Listings, Changes,
           AnyClient
      <4> QED BY <1>0, <4>1, <4>2, IssueView
    <3>2. /\ Loads' = Loads /\ Refreshes' = Refreshes /\ Switches' = Switches
          /\ Creations' = Creations
      BY <3>1, IssueSets
    <3>3. /\ loading' = loading /\ refreshing' = refreshing
          /\ statusClient' = statusClient /\ createPreview' = createPreview
      BY <2>5 DEF SaveClientConfiguration, lists, dialogs
    <3> QED BY <1>0, <3>2, <3>3 DEF PageGates
  <2>6. CASE OpenCreatePreview
    <3>1. /\ calls' = calls /\ loading' = loading /\ refreshing' = refreshing
          /\ statusClient' = statusClient /\ ~ createPreview.submitting
          /\ ~ createPreview'.submitting
      BY <2>6, <1>0 DEF OpenCreatePreview, lists, ClosedCreate, ActiveDialog, PageGates
    <3>2. /\ Loads' = Loads /\ Refreshes' = Refreshes /\ Switches' = Switches
          /\ Creations' = Creations
      BY <3>1, PageSets
    <3>3. Guards(createPreview'.submitting, Creations')
      BY <1>0, <3>1, <3>2 DEF PageGates, Guards
    <3> QED BY <1>0, <3>1, <3>2, <3>3 DEF PageGates
  <2>7. CASE CloseCreatePreview
    <3>1. /\ calls' = calls /\ loading' = loading /\ refreshing' = refreshing
          /\ statusClient' = statusClient /\ ~ createPreview.submitting
          /\ ~ createPreview'.submitting
      BY <2>7, <1>0 DEF CloseCreatePreview, lists, ClosedCreate, ActiveDialog, PageGates
    <3>2. /\ Loads' = Loads /\ Refreshes' = Refreshes /\ Switches' = Switches
          /\ Creations' = Creations
      BY <3>1, PageSets
    <3>3. Guards(createPreview'.submitting, Creations')
      BY <1>0, <3>1, <3>2 DEF PageGates, Guards
    <3> QED BY <1>0, <3>1, <3>2, <3>3 DEF PageGates
  <2>8. CASE SubmitCreatePreview
    <3>1. PICK n \in Calls : n.function = "create" /\ calls' = calls \cup {n}
      <4>1. Issue("create", selected, NoClient, 0, 0)
        BY <2>8 DEF SubmitCreatePreview
      <4>2. /\ "create" \in Functions /\ selected \in Profiles /\ NoClient \in AnyClient
            /\ 0 \in Nat
        BY <1>0, <2>8 DEF SubmitCreatePreview, TypeOK, Functions, Listings, Changes,
           AnyClient
      <4> QED BY <1>0, <4>1, <4>2, IssueView
    <3>2. /\ Loads' = Loads /\ Refreshes' = Refreshes /\ Switches' = Switches
          /\ Creations' = Creations \cup {n}
      BY <3>1, IssueSets
    <3>3. loading' = loading /\ refreshing' = refreshing /\ statusClient' = statusClient
      BY <2>8 DEF SubmitCreatePreview, lists, dialogs
    <3>4. ~ createPreview.submitting /\ createPreview'.submitting /\ createPreview'.open
      BY <1>0, <2>8 DEF SubmitCreatePreview, SwitchAllowed, TypeOK
    <3>5. Guards(createPreview'.submitting, Creations')
      <4>1. Creations = {}
        BY <1>0, <3>4 DEF PageGates, Guards
      <4>2. Creations' = {n}
        BY <3>2, <4>1
      <4> QED BY <3>4, <4>2 DEF Guards
    <3> QED BY <1>0, <3>2, <3>3, <3>4, <3>5 DEF PageGates
  <2>9. ASSUME NEW p \in Profiles, SwitchProfile(p) PROVE PageGates'
    <3>1. PICK n \in Calls : n.function = "loadClients" /\ calls' = calls \cup {n}
      <4>1. Issue("loadClients", p, NoClient, 0, 0)
        BY <2>9 DEF SwitchProfile
      <4>2. "loadClients" \in Functions /\ p \in Profiles /\ NoClient \in AnyClient /\ 0 \in Nat
        BY <1>0, <2>9 DEF SwitchProfile, TypeOK, Functions, Listings, Changes, AnyClient
      <4> QED BY <1>0, <4>1, <4>2, IssueView
    <3>2. /\ Loads' = Loads \cup {n} /\ Refreshes' = Refreshes /\ Switches' = Switches
          /\ Creations' = Creations
      BY <3>1, IssueSets
    <3>3. /\ refreshing' = refreshing /\ statusClient' = statusClient
          /\ createPreview' = createPreview
      BY <2>9 DEF SwitchProfile, lists, dialogs
    <3>4. ~ loading /\ loading'
      BY <1>0, <2>9 DEF SwitchProfile, SwitchAllowed
    <3>5. Guards(loading', Loads')
      <4>1. Loads = {}
        BY <1>0, <3>4 DEF PageGates, Guards
      <4>2. Loads' = {n}
        BY <3>2, <4>1
      <4> QED BY <3>4, <4>2 DEF Guards
    <3> QED BY <1>0, <3>2, <3>3, <3>5 DEF PageGates
  <2>10. ASSUME NEW c \in Clients, SubmitStatusClient(c) PROVE PageGates'
    <3> DEFINE f == IF shown[c] = "DISABLED" THEN "enable" ELSE "disable"
    <3>0. f \in {"enable", "disable"} /\ Issue(f, selected, c, 0, 0)
      BY <2>10 DEF SubmitStatusClient
    <3> HIDE DEF f
    <3>1. PICK n \in Calls : n.function = f /\ calls' = calls \cup {n}
      <4>1. f \in Functions /\ selected \in Profiles /\ c \in AnyClient
        BY <1>0, <3>0 DEF TypeOK, Functions, Changes, AnyClient
      <4> QED BY <1>0, <3>0, <4>1, IssueView
    <3>2. /\ Loads' = Loads /\ Refreshes' = Refreshes /\ Switches' = Switches \cup {n}
          /\ Creations' = Creations
      BY <3>0, <3>1, IssueSets
    <3>3. loading' = loading /\ refreshing' = refreshing /\ createPreview' = createPreview
      BY <2>10 DEF SubmitStatusClient, lists, dialogs
    <3>4. ~ statusClient.submitting /\ statusClient'.submitting
      BY <1>0, <2>10 DEF SubmitStatusClient, SwitchAllowed, TypeOK
    <3>5. Guards(statusClient'.submitting, Switches')
      <4>1. Switches = {}
        BY <1>0, <3>4 DEF PageGates, Guards
      <4>2. Switches' = {n}
        BY <3>2, <4>1
      <4> QED BY <3>4, <4>2 DEF Guards
    <3> QED BY <1>0, <3>2, <3>3, <3>5 DEF PageGates
  <2>11. ASSUME NEW c \in Clients, OpenDeleteClient(c) PROVE PageGates'
    <3>1. /\ calls' = calls /\ loading' = loading /\ refreshing' = refreshing
          /\ statusClient' = statusClient /\ createPreview' = createPreview
      BY <2>11 DEF OpenDeleteClient, lists, dialogs
    <3>2. /\ Loads' = Loads /\ Refreshes' = Refreshes /\ Switches' = Switches
          /\ Creations' = Creations
      BY <3>1, PageSets
    <3> QED BY <1>0, <3>1, <3>2 DEF PageGates
  <2>12. ASSUME NEW c \in Clients, OpenConfigurationPreview(c) PROVE PageGates'
    <3>1. PICK n \in Calls : n.function = "getConfiguration" /\ calls' = calls \cup {n}
      <4>1. Issue("getConfiguration", selected, c, 0, made + 1)
        BY <2>12 DEF OpenConfigurationPreview
      <4>2. /\ "getConfiguration" \in Functions /\ selected \in Profiles
            /\ c \in AnyClient /\ 0 \in Nat /\ made + 1 \in Nat
        BY <1>0, <2>12 DEF OpenConfigurationPreview, TypeOK, Functions, Listings, Changes,
           AnyClient
      <4> QED BY <1>0, <4>1, <4>2, IssueView
    <3>2. /\ Loads' = Loads /\ Refreshes' = Refreshes /\ Switches' = Switches
          /\ Creations' = Creations
      BY <3>1, IssueSets
    <3>3. /\ loading' = loading /\ refreshing' = refreshing
          /\ statusClient' = statusClient /\ createPreview' = createPreview
      BY <2>12 DEF OpenConfigurationPreview, lists, dialogs
    <3> QED BY <1>0, <3>2, <3>3 DEF PageGates
  <2> QED BY <1>1, <2>1, <2>2, <2>3, <2>4, <2>5, <2>6, <2>7, <2>8, <2>9, <2>10, <2>11, <2>12
             DEF Operator
<1>2. ASSUME NEW k \in calls, Settle(k) PROVE PageGates'
  <2>1. CASE Change(k)
    BY <2>1, SettleGates DEF Settle
  <2>2. CASE Read(k)
    BY <2>2, SettleGates DEF Settle
  <2>3. CASE Fail(k)
    BY <2>3, SettleGates DEF Settle
  <2> QED BY <1>2, <2>1, <2>2, <2>3 DEF Settle
<1>3. ASSUME NEW k \in calls, Continue(k) PROVE PageGates'
  <2>1. CASE LoadArrives(k)
    <3>1. calls' = calls \ {k}
      BY <2>1 DEF LoadArrives, Return
    <3>2. Loads' = Loads \ {k} /\ Refreshes' = Refreshes \ {k} /\ Switches' = Switches \ {k}
          /\ Creations' = Creations \ {k}
      BY <3>1 DEF Loads, Refreshes, Switches, Creations, Awaited, Pending
    <3>3. k \in Loads /\ k \notin Refreshes /\ k \notin Switches /\ k \notin Creations
      BY <2>1, Membership DEF LoadArrives, Awaited
    <3>4. Refreshes' = Refreshes /\ Switches' = Switches /\ Creations' = Creations
      BY <3>2, <3>3
    <3>5. /\ refreshing' = refreshing /\ statusClient' = statusClient
          /\ createPreview' = createPreview
      BY <2>1 DEF LoadArrives, lists, dialogs
    <3>6. ~ loading'
      <4>1. k.profile = selected
        BY <2>1, <1>0 DEF LoadArrives, Homed, Awaited, Listings
      <4> QED BY <2>1, <4>1 DEF LoadArrives
    <3>7. Guards(loading', Loads')
      BY <1>0, <3>2, <3>3, <3>6, GateOpens DEF PageGates
    <3> QED BY <1>0, <3>4, <3>5, <3>6, <3>7 DEF PageGates
  <2>2. CASE RefreshArrives(k)
    <3>1. calls' = calls \ {k}
      BY <2>2 DEF RefreshArrives, Return
    <3>2. Loads' = Loads \ {k} /\ Refreshes' = Refreshes \ {k} /\ Switches' = Switches \ {k}
          /\ Creations' = Creations \ {k}
      BY <3>1 DEF Loads, Refreshes, Switches, Creations, Awaited, Pending
    <3>3. k \notin Loads /\ k \in Refreshes /\ k \notin Switches /\ k \notin Creations
      BY <2>2, Membership DEF RefreshArrives, Awaited
    <3>4. Loads' = Loads /\ Switches' = Switches /\ Creations' = Creations
      BY <3>2, <3>3
    <3>5. loading' = loading /\ statusClient' = statusClient /\ createPreview' = createPreview
      BY <2>2 DEF RefreshArrives, lists, dialogs
    <3>6. ~ refreshing'
      BY <2>2 DEF RefreshArrives
    <3>7. Guards(refreshing', Refreshes')
      BY <1>0, <3>2, <3>3, <3>6, GateOpens DEF PageGates
    <3> QED BY <1>0, <3>4, <3>5, <3>6, <3>7 DEF PageGates
  <2>3. CASE StatusArrives(k)
    <3>1. calls' = calls \ {k}
      BY <2>3 DEF StatusArrives, Return
    <3>2. Loads' = Loads \ {k} /\ Refreshes' = Refreshes \ {k} /\ Switches' = Switches \ {k}
          /\ Creations' = Creations \ {k}
      BY <3>1 DEF Loads, Refreshes, Switches, Creations, Awaited, Pending
    <3>3. k \notin Loads /\ k \notin Refreshes /\ k \in Switches /\ k \notin Creations
      BY <2>3, Membership DEF StatusArrives, Awaited
    <3>4. Loads' = Loads /\ Refreshes' = Refreshes /\ Creations' = Creations
      BY <3>2, <3>3
    <3>5. loading' = loading /\ refreshing' = refreshing /\ createPreview' = createPreview
      BY <2>3 DEF StatusArrives, lists, dialogs
    <3>6. ~ statusClient'.submitting
      BY <2>3 DEF StatusArrives, IdleStatus
    <3>7. Guards(statusClient'.submitting, Switches')
      BY <1>0, <3>2, <3>3, <3>6, GateOpens DEF PageGates
    <3> QED BY <1>0, <3>4, <3>5, <3>6, <3>7 DEF PageGates
  <2>4. CASE DeleteArrives(k)
    <3>1. calls' = calls \ {k}
      BY <2>4 DEF DeleteArrives, Return
    <3>2. Loads' = Loads \ {k} /\ Refreshes' = Refreshes \ {k} /\ Switches' = Switches \ {k}
          /\ Creations' = Creations \ {k}
      BY <3>1 DEF Loads, Refreshes, Switches, Creations, Awaited, Pending
    <3>3. k \notin Loads /\ k \notin Refreshes /\ k \notin Switches /\ k \notin Creations
      BY <2>4, Membership DEF DeleteArrives, Awaited
    <3>4. /\ Loads' = Loads /\ Refreshes' = Refreshes /\ Switches' = Switches
          /\ Creations' = Creations
      BY <3>2, <3>3
    <3>5. /\ loading' = loading /\ refreshing' = refreshing
          /\ statusClient' = statusClient /\ createPreview' = createPreview
      BY <2>4 DEF DeleteArrives, lists, dialogs
    <3> QED BY <1>0, <3>4, <3>5 DEF PageGates
  <2>5. CASE ConfigurationArrives(k)
    <3>1. calls' = calls \ {k}
      BY <2>5 DEF ConfigurationArrives, Return
    <3>2. Loads' = Loads \ {k} /\ Refreshes' = Refreshes \ {k} /\ Switches' = Switches \ {k}
          /\ Creations' = Creations \ {k}
      BY <3>1 DEF Loads, Refreshes, Switches, Creations, Awaited, Pending
    <3>3. k \notin Loads /\ k \notin Refreshes /\ k \notin Switches /\ k \notin Creations
      BY <2>5, Membership DEF ConfigurationArrives, Awaited
    <3>4. /\ Loads' = Loads /\ Refreshes' = Refreshes /\ Switches' = Switches
          /\ Creations' = Creations
      BY <3>2, <3>3
    <3>5. /\ loading' = loading /\ refreshing' = refreshing
          /\ statusClient' = statusClient /\ createPreview' = createPreview
      BY <2>5 DEF ConfigurationArrives, lists, dialogs
    <3> QED BY <1>0, <3>4, <3>5 DEF PageGates
  <2>6. CASE SaveArrives(k)
    <3>1. calls' = calls \ {k}
      BY <2>6 DEF SaveArrives, Return
    <3>2. Loads' = Loads \ {k} /\ Refreshes' = Refreshes \ {k} /\ Switches' = Switches \ {k}
          /\ Creations' = Creations \ {k}
      BY <3>1 DEF Loads, Refreshes, Switches, Creations, Awaited, Pending
    <3>3. k \notin Loads /\ k \notin Refreshes /\ k \notin Switches /\ k \notin Creations
      BY <2>6, Membership DEF SaveArrives, Awaited
    <3>4. /\ Loads' = Loads /\ Refreshes' = Refreshes /\ Switches' = Switches
          /\ Creations' = Creations
      BY <3>2, <3>3
    <3>5. /\ loading' = loading /\ refreshing' = refreshing
          /\ statusClient' = statusClient /\ createPreview' = createPreview
      BY <2>6 DEF SaveArrives, lists, dialogs
    <3> QED BY <1>0, <3>4, <3>5 DEF PageGates
  <2>7. CASE CreateArrives(k)
    <3> DEFINE n == NewCall("readback", selected, NoClient, 0, 0)
    <3>1. calls' = (calls \ {k}) \cup {n} /\ n.function = "readback"
      BY <2>7 DEF CreateArrives, NewCall
    <3> HIDE DEF n
    <3>2. /\ Loads' = Loads \ {k} /\ Refreshes' = Refreshes \ {k} /\ Switches' = Switches \ {k}
          /\ Creations' = (Creations \ {k}) \cup {n}
      BY <3>1 DEF Loads, Refreshes, Switches, Creations, Awaited, Pending
    <3>3. k \notin Loads /\ k \notin Refreshes /\ k \notin Switches /\ k \in Creations
      BY <2>7, Membership DEF CreateArrives, Awaited
    <3>4. Loads' = Loads /\ Refreshes' = Refreshes /\ Switches' = Switches
      BY <3>2, <3>3
    <3>5. loading' = loading /\ refreshing' = refreshing /\ statusClient' = statusClient
      BY <2>7 DEF CreateArrives, lists
    <3>6. /\ createPreview'.submitting = createPreview.submitting
          /\ createPreview'.open = createPreview.open
      BY <2>7, <1>0 DEF CreateArrives, TypeOK
    <3>7. Guards(createPreview.submitting, Creations')
      BY <1>0, <3>2, <3>3, GuardsSwapped DEF PageGates
    <3> QED BY <1>0, <3>4, <3>5, <3>6, <3>7 DEF PageGates
  <2>8. CASE ReadbackArrives(k)
    <3>1. calls' = calls \ {k}
      BY <2>8 DEF ReadbackArrives, Return
    <3>2. Loads' = Loads \ {k} /\ Refreshes' = Refreshes \ {k} /\ Switches' = Switches \ {k}
          /\ Creations' = Creations \ {k}
      BY <3>1 DEF Loads, Refreshes, Switches, Creations, Awaited, Pending
    <3>3. k \notin Loads /\ k \notin Refreshes /\ k \notin Switches /\ k \in Creations
      BY <2>8, Membership DEF ReadbackArrives, Awaited
    <3>4. Loads' = Loads /\ Refreshes' = Refreshes /\ Switches' = Switches
      BY <3>2, <3>3
    <3>5. loading' = loading /\ refreshing' = refreshing /\ statusClient' = statusClient
      BY <2>8 DEF ReadbackArrives, lists, dialogs
    <3>6. ~ createPreview'.submitting
      BY <2>8, <1>0 DEF ReadbackArrives, TypeOK
    <3>7. Guards(createPreview'.submitting, Creations')
      BY <1>0, <3>2, <3>3, <3>6, GateOpens DEF PageGates
    <3> QED BY <1>0, <3>4, <3>5, <3>6, <3>7 DEF PageGates
  <2> QED BY <1>3, <2>1, <2>2, <2>3, <2>4, <2>5, <2>6, <2>7, <2>8 DEF Continue
<1>4. ASSUME NEW k \in late, Belated(k) PROVE PageGates'
  <2>1. /\ calls' = calls /\ loading' = loading /\ refreshing' = refreshing
        /\ statusClient' = statusClient /\ createPreview' = createPreview
    BY <1>4 DEF Belated, lists, dialogs
  <2>2. /\ Loads' = Loads /\ Refreshes' = Refreshes /\ Switches' = Switches
        /\ Creations' = Creations
    BY <2>1, PageSets
  <2> QED BY <1>0, <2>1, <2>2 DEF PageGates
<1>5. ASSUME NEW c \in Clients, OtherOperator(c) PROVE PageGates'
  <2>1. /\ calls' = calls /\ loading' = loading /\ refreshing' = refreshing
        /\ statusClient' = statusClient /\ createPreview' = createPreview
    BY <1>5 DEF OtherOperator, lists, dialogs
  <2>2. /\ Loads' = Loads /\ Refreshes' = Refreshes /\ Switches' = Switches
        /\ Creations' = Creations
    BY <2>1, PageSets
  <2> QED BY <1>0, <2>1, <2>2 DEF PageGates
<1> QED BY <1>1, <1>2, <1>3, <1>4, <1>5 DEF Next

\* Every step keeps those of the configuration dialog.
LEMMA NextPreviewGates ==
    ASSUME Settled, Next
    PROVE  PreviewGates'
<1>0. TypeOK /\ PreviewGates /\ Opened
  BY DEF Settled, Gated, PreviewGates
<1>1. ASSUME Operator PROVE PreviewGates'
  <2>1. CASE RefreshStatus
    <3>1. PICK n : n.function = "refreshStatus" /\ calls' = calls \cup {n}
      BY <2>1 DEF RefreshStatus, Issue, NewCall
    <3>2. configPreview' = configPreview
      BY <2>1 DEF RefreshStatus, dialogs
    <3>3. Openings' = Openings /\ Savings' = Savings
      BY <3>1, <3>2, IssueSets
    <3> QED BY <1>0, <3>2, <3>3 DEF PreviewGates
  <2>2. CASE CloseDeleteClient
    <3>1. calls' = calls /\ configPreview' = configPreview
      BY <2>2 DEF CloseDeleteClient, dialogs
    <3>2. Openings' = Openings /\ Savings' = Savings
      BY <3>1, PreviewSets
    <3> QED BY <1>0, <3>1, <3>2 DEF PreviewGates
  <2>3. CASE SubmitDeleteClient
    <3>1. PICK n : n.function = "delete" /\ calls' = calls \cup {n}
      BY <2>3 DEF SubmitDeleteClient, Issue, NewCall
    <3>2. configPreview' = configPreview
      BY <2>3 DEF SubmitDeleteClient, dialogs
    <3>3. Openings' = Openings /\ Savings' = Savings
      BY <3>1, <3>2, IssueSets
    <3> QED BY <1>0, <3>2, <3>3 DEF PreviewGates
  <2>4. CASE CloseConfigurationPreview
    BY <2>4 DEF CloseConfigurationPreview, ClosedPreview, PreviewGates
  <2>5. CASE SaveClientConfiguration
    <3>1. PICK n : /\ n.function = "updateConfiguration" /\ n.dialog = configPreview.token
                    /\ calls' = calls \cup {n}
      BY <2>5 DEF SaveClientConfiguration, Issue, NewCall
    <3>2. /\ configPreview.open /\ ~ configPreview.saving /\ configPreview.result # 0
          /\ configPreview' = [configPreview EXCEPT !.saving = TRUE]
      BY <2>5 DEF SaveClientConfiguration
    <3>3. /\ configPreview'.token = configPreview.token
          /\ configPreview'.loading = configPreview.loading
          /\ configPreview'.saving
      BY <1>0, <3>2 DEF TypeOK
    <3>4. ~ configPreview.loading /\ ~ configPreview'.loading /\ Openings = {} /\ Savings = {}
      BY <1>0, <3>2, <3>3 DEF PreviewGates, Guards
    <3>5. Openings' = {} /\ Savings' = {n}
      BY <3>1, <3>3, <3>4, IssueSets
    <3> QED BY <3>3, <3>4, <3>5 DEF PreviewGates, Guards
  <2>6. CASE OpenCreatePreview
    <3>1. calls' = calls /\ configPreview' = configPreview
      BY <2>6 DEF OpenCreatePreview, dialogs
    <3>2. Openings' = Openings /\ Savings' = Savings
      BY <3>1, PreviewSets
    <3> QED BY <1>0, <3>1, <3>2 DEF PreviewGates
  <2>7. CASE CloseCreatePreview
    <3>1. calls' = calls /\ configPreview' = configPreview
      BY <2>7 DEF CloseCreatePreview, dialogs
    <3>2. Openings' = Openings /\ Savings' = Savings
      BY <3>1, PreviewSets
    <3> QED BY <1>0, <3>1, <3>2 DEF PreviewGates
  <2>8. CASE SubmitCreatePreview
    <3>1. PICK n : n.function = "create" /\ calls' = calls \cup {n}
      BY <2>8 DEF SubmitCreatePreview, Issue, NewCall
    <3>2. configPreview' = configPreview
      BY <2>8 DEF SubmitCreatePreview, dialogs
    <3>3. Openings' = Openings /\ Savings' = Savings
      BY <3>1, <3>2, IssueSets
    <3> QED BY <1>0, <3>2, <3>3 DEF PreviewGates
  <2>9. ASSUME NEW p \in Profiles, SwitchProfile(p) PROVE PreviewGates'
    <3>1. PICK n : n.function = "loadClients" /\ calls' = calls \cup {n}
      BY <2>9 DEF SwitchProfile, Issue, NewCall
    <3>2. configPreview' = configPreview
      BY <2>9 DEF SwitchProfile, dialogs
    <3>3. Openings' = Openings /\ Savings' = Savings
      BY <3>1, <3>2, IssueSets
    <3> QED BY <1>0, <3>2, <3>3 DEF PreviewGates
  <2>10. ASSUME NEW c \in Clients, SubmitStatusClient(c) PROVE PreviewGates'
    <3> DEFINE f == IF shown[c] = "DISABLED" THEN "enable" ELSE "disable"
    <3>0. f \in {"enable", "disable"} /\ Issue(f, selected, c, 0, 0)
      BY <2>10 DEF SubmitStatusClient
    <3> HIDE DEF f
    <3>1. PICK n : n.function = f /\ calls' = calls \cup {n}
      BY <3>0 DEF Issue, NewCall
    <3>2. configPreview' = configPreview
      BY <2>10 DEF SubmitStatusClient
    <3>3. Openings' = Openings /\ Savings' = Savings
      BY <3>0, <3>1, <3>2, IssueSets
    <3> QED BY <1>0, <3>2, <3>3 DEF PreviewGates
  <2>11. ASSUME NEW c \in Clients, OpenDeleteClient(c) PROVE PreviewGates'
    <3>1. calls' = calls /\ configPreview' = configPreview
      BY <2>11 DEF OpenDeleteClient, dialogs
    <3>2. Openings' = Openings /\ Savings' = Savings
      BY <3>1, PreviewSets
    <3> QED BY <1>0, <3>1, <3>2 DEF PreviewGates
  <2>12. ASSUME NEW c \in Clients, OpenConfigurationPreview(c) PROVE PreviewGates'
    <3>1. PICK n : /\ n.function = "getConfiguration" /\ n.dialog = made + 1
                    /\ calls' = calls \cup {n}
      BY <2>12 DEF OpenConfigurationPreview, Issue, NewCall
    <3>2. configPreview' = [ClosedPreview EXCEPT !.open = TRUE, !.client = c, !.token = made + 1,
                                                 !.loading = TRUE]
      BY <2>12 DEF OpenConfigurationPreview
    <3>3. /\ configPreview'.token = made + 1 /\ configPreview'.loading
          /\ ~ configPreview'.saving
          /\ configPreview'.result = 0
      BY <3>2 DEF ClosedPreview
    <3>4. \A d \in calls : d.dialog # made + 1
      <4>1. \A d \in calls : d.dialog \in Nat /\ d.dialog <= made
        BY <1>0 DEF Settled, Addressed, TypeOK, Calls
      <4>2. made \in Nat
        BY <1>0 DEF TypeOK
      <4> QED BY <4>1, <4>2
    <3>5. Openings' = {n} /\ Savings' = {}
      BY <3>1, <3>3, <3>4 DEF Openings, Savings, Awaited
    <3> QED BY <3>3, <3>5 DEF PreviewGates, Guards
  <2> QED BY <1>1, <2>1, <2>2, <2>3, <2>4, <2>5, <2>6, <2>7, <2>8, <2>9, <2>10, <2>11, <2>12
             DEF Operator
<1>2. ASSUME NEW k \in calls, Settle(k) PROVE PreviewGates'
  <2>1. CASE Change(k)
    BY <2>1, SettleGates DEF Settle
  <2>2. CASE Read(k)
    BY <2>2, SettleGates DEF Settle
  <2>3. CASE Fail(k)
    BY <2>3, SettleGates DEF Settle
  <2> QED BY <1>2, <2>1, <2>2, <2>3 DEF Settle
<1>3. ASSUME NEW k \in calls, Continue(k) PROVE PreviewGates'
  <2>1. CASE LoadArrives(k)
    <3>1. calls' = calls \ {k} /\ configPreview' = configPreview
      BY <2>1 DEF LoadArrives, Return, dialogs
    <3>2. Openings' = Openings \ {k} /\ Savings' = Savings \ {k}
      BY <3>1 DEF Openings, Savings, Awaited
    <3>3. k \notin Openings /\ k \notin Savings
      BY <2>1 DEF LoadArrives, Openings, Savings, Awaited
    <3>4. Openings' = Openings /\ Savings' = Savings
      BY <3>2, <3>3
    <3> QED BY <1>0, <3>1, <3>4 DEF PreviewGates
  <2>2. CASE RefreshArrives(k)
    <3>1. calls' = calls \ {k} /\ configPreview' = configPreview
      BY <2>2 DEF RefreshArrives, Return, dialogs
    <3>2. Openings' = Openings \ {k} /\ Savings' = Savings \ {k}
      BY <3>1 DEF Openings, Savings, Awaited
    <3>3. k \notin Openings /\ k \notin Savings
      BY <2>2 DEF RefreshArrives, Openings, Savings, Awaited
    <3>4. Openings' = Openings /\ Savings' = Savings
      BY <3>2, <3>3
    <3> QED BY <1>0, <3>1, <3>4 DEF PreviewGates
  <2>3. CASE StatusArrives(k)
    <3>1. calls' = calls \ {k} /\ configPreview' = configPreview
      BY <2>3 DEF StatusArrives, Return, dialogs
    <3>2. Openings' = Openings \ {k} /\ Savings' = Savings \ {k}
      BY <3>1 DEF Openings, Savings, Awaited
    <3>3. k \notin Openings /\ k \notin Savings
      BY <2>3 DEF StatusArrives, Openings, Savings, Awaited
    <3>4. Openings' = Openings /\ Savings' = Savings
      BY <3>2, <3>3
    <3> QED BY <1>0, <3>1, <3>4 DEF PreviewGates
  <2>4. CASE DeleteArrives(k)
    <3>1. calls' = calls \ {k} /\ configPreview' = configPreview
      BY <2>4 DEF DeleteArrives, Return, dialogs
    <3>2. Openings' = Openings \ {k} /\ Savings' = Savings \ {k}
      BY <3>1 DEF Openings, Savings, Awaited
    <3>3. k \notin Openings /\ k \notin Savings
      BY <2>4 DEF DeleteArrives, Openings, Savings, Awaited
    <3>4. Openings' = Openings /\ Savings' = Savings
      BY <3>2, <3>3
    <3> QED BY <1>0, <3>1, <3>4 DEF PreviewGates
  <2>5. CASE ConfigurationArrives(k)
    <3>1. calls' = calls \ {k} /\ k.function = "getConfiguration"
      BY <2>5 DEF ConfigurationArrives, Return, Awaited
    <3>2. CASE configPreview.open /\ configPreview.token = k.dialog
      <4>1. k \in Openings
        BY <3>1, <3>2 DEF Openings, Awaited
      <4>2. k.client = configPreview.client
        BY <1>0, <3>2, <4>1 DEF Opened
      <4>3. Show(k)
        BY <2>5, <3>2, <4>2 DEF ConfigurationArrives, IsCurrentRequest
      <4>4. /\ ~ configPreview'.loading /\ ~ configPreview'.saving
            /\ configPreview'.token = configPreview.token
        BY <1>0, <4>3 DEF Show, TypeOK
      <4>5. Openings \subseteq {k} /\ Savings \subseteq {k}
        BY <1>0, <3>2, <4>1 DEF PreviewGates, Guards
      <4>6. Openings' = {} /\ Savings' = {}
        BY <3>1, <4>4, <4>5 DEF Openings, Savings, Awaited
      <4> QED BY <4>4, <4>6 DEF PreviewGates, Guards
    <3>3. CASE ~ (configPreview.open /\ configPreview.token = k.dialog)
      <4>1. configPreview' = configPreview
        BY <2>5, <3>3 DEF ConfigurationArrives, IsCurrentRequest
      <4>2. configPreview.open => Openings' = Openings /\ Savings' = Savings
        BY <3>1, <3>3, <4>1 DEF Openings, Savings, Awaited
      <4> QED BY <1>0, <4>1, <4>2 DEF PreviewGates
    <3> QED BY <3>2, <3>3
  <2>6. CASE SaveArrives(k)
    <3>1. calls' = calls \ {k} /\ k.function = "updateConfiguration"
      BY <2>6 DEF SaveArrives, Return, Awaited
    <3>2. CASE configPreview.open /\ configPreview.token = k.dialog
      <4>1. k \in Savings
        BY <3>1, <3>2 DEF Savings, Awaited
      <4>2. k.client = configPreview.client
        BY <1>0, <3>2, <4>1 DEF Opened
      <4>3. Show(k)
        BY <2>6, <3>2, <4>2 DEF SaveArrives, IsCurrentRequest
      <4>4. /\ ~ configPreview'.loading /\ ~ configPreview'.saving
            /\ configPreview'.token = configPreview.token
        BY <1>0, <4>3 DEF Show, TypeOK
      <4>5. Openings \subseteq {k} /\ Savings \subseteq {k}
        BY <1>0, <3>2, <4>1 DEF PreviewGates, Guards
      <4>6. Openings' = {} /\ Savings' = {}
        BY <3>1, <4>4, <4>5 DEF Openings, Savings, Awaited
      <4> QED BY <4>4, <4>6 DEF PreviewGates, Guards
    <3>3. CASE ~ (configPreview.open /\ configPreview.token = k.dialog)
      <4>1. configPreview' = configPreview
        BY <2>6, <3>3 DEF SaveArrives, IsCurrentRequest
      <4>2. configPreview.open => Openings' = Openings /\ Savings' = Savings
        BY <3>1, <3>3, <4>1 DEF Openings, Savings, Awaited
      <4> QED BY <1>0, <4>1, <4>2 DEF PreviewGates
    <3> QED BY <3>2, <3>3
  <2>7. CASE CreateArrives(k)
    <3>1. PICK n : n.function = "readback" /\ calls' = (calls \ {k}) \cup {n}
      BY <2>7 DEF CreateArrives, NewCall
    <3>2. configPreview' = configPreview /\ k.function = "create"
      BY <2>7 DEF CreateArrives, Awaited
    <3>3. Openings' = Openings /\ Savings' = Savings
      BY <3>1, <3>2 DEF Openings, Savings, Awaited
    <3> QED BY <1>0, <3>2, <3>3 DEF PreviewGates
  <2>8. CASE ReadbackArrives(k)
    <3>1. calls' = calls \ {k} /\ configPreview' = configPreview
      BY <2>8 DEF ReadbackArrives, Return, dialogs
    <3>2. Openings' = Openings \ {k} /\ Savings' = Savings \ {k}
      BY <3>1 DEF Openings, Savings, Awaited
    <3>3. k \notin Openings /\ k \notin Savings
      BY <2>8 DEF ReadbackArrives, Openings, Savings, Awaited
    <3>4. Openings' = Openings /\ Savings' = Savings
      BY <3>2, <3>3
    <3> QED BY <1>0, <3>1, <3>4 DEF PreviewGates
  <2> QED BY <1>3, <2>1, <2>2, <2>3, <2>4, <2>5, <2>6, <2>7, <2>8 DEF Continue
<1>4. ASSUME NEW k \in late, Belated(k) PROVE PreviewGates'
  <2>1. calls' = calls /\ configPreview' = configPreview
    BY <1>4 DEF Belated, dialogs
  <2>2. Openings' = Openings /\ Savings' = Savings
    BY <2>1, PreviewSets
  <2> QED BY <1>0, <2>1, <2>2 DEF PreviewGates
<1>5. ASSUME NEW c \in Clients, OtherOperator(c) PROVE PreviewGates'
  <2>1. calls' = calls /\ configPreview' = configPreview
    BY <1>5 DEF OtherOperator, dialogs
  <2>2. Openings' = Openings /\ Savings' = Savings
    BY <2>1, PreviewSets
  <2> QED BY <1>0, <2>1, <2>2 DEF PreviewGates
<1> QED BY <1>1, <1>2, <1>3, <1>4, <1>5 DEF Next

\* Every step keeps all gates.
LEMMA NextGated ==
    ASSUME Settled, Next
    PROVE  Gated'
BY NextPageGates, NextPreviewGates DEF Gated, PageGates, PreviewGates

-----------------------------------------------------------------------------
(* The console: the invariant and the theorems                             *)

\* The page opens with one list in flight.
LEMMA InitSettled == Init => Settled
<1> SUFFICES ASSUME Init PROVE Settled
  OBVIOUS
<1> DEFINE n == [id |-> 1, function |-> "loadClients", profile |-> FirstProfile,
                 client |-> NoClient, version |-> 0, dialog |-> 0, answer |-> NoAnswer]
<1>1. /\ NoAnswer \in Answers /\ NoAnswer.list = <<>> /\ DOMAIN NoAnswer.list = {}
      /\ ~ NoAnswer.done
  <2>1. NoAnswer \in Answers /\ NoAnswer.list = <<>> /\ ~ NoAnswer.done
    BY AnswerView, EmptyList
  <2> QED BY <2>1, EmptyList
<1>2. /\ n \in Calls /\ n.function = "loadClients" /\ n.profile = FirstProfile /\ n.dialog = 0
      /\ n.answer = NoAnswer
  BY <1>1, HomeAssumption DEF Calls, Functions, Listings, AnyClient
<1>3. calls = {n}
  BY DEF Init
<1> HIDE DEF n
<1>4. TypeOK
  <2>1. ServiceTyped
    <3>1. \A c \in Clients : status[c] \in Live \cup {"unborn", "gone"}
      BY DEF Init, Live
    <3>2. status = [c \in Clients |-> status[c]] /\ version = [c \in Clients |-> 1]
      BY DEF Init
    <3> QED BY <3>1, <3>2 DEF ServiceTyped
  <2>2. ListTyped
    BY HomeAssumption, EmptyList DEF Init, ListTyped
  <2>3. DialogsTyped
    BY DEF Init, DialogsTyped, IdleStatus, ClosedDelete, ClosedPreview, ClosedCreate,
       AnyClient, Previews
  <2>4. LimitsTyped
    BY BoundAssumption DEF Init, LimitsTyped
  <2>5. /\ calls \subseteq Calls /\ late \subseteq Calls /\ made \in Nat
        /\ seen \subseteq Clients \X Nat
    BY <1>2, <1>3 DEF Init
  <2> QED BY <2>1, <2>2, <2>3, <2>4, <2>5, TypedParts
<1>5. late = {} /\ made = 1 /\ shown = <<>> /\ selected = FirstProfile
  BY DEF Init
<1>6. /\ configPreview = ClosedPreview /\ ~ configPreview.open /\ configPreview.token = 0
      /\ configPreview.result = 0
  BY DEF Init, ClosedPreview
<1>7. Addressed
  BY <1>2, <1>3, <1>5, <1>6 DEF Addressed, OnClient
<1>8. Homed
  BY <1>1, <1>2, <1>3, <1>5, EmptyList DEF Homed
<1>9. Gated
  <2>1. loading /\ ~ refreshing /\ ~ statusClient.submitting /\ ~ createPreview.submitting
    BY DEF Init, IdleStatus, ClosedCreate
  <2>2. Loads = {n} /\ Refreshes = {} /\ Switches = {} /\ Creations = {}
    BY <1>2, <1>3 DEF Loads, Refreshes, Switches, Creations, Awaited, Pending
  <2> QED BY <1>6, <2>1, <2>2 DEF Gated, Guards
<1>10. Opened /\ Based
  BY <1>2, <1>3, <1>5, <1>6 DEF Opened, Based
<1> QED BY <1>4, <1>7, <1>8, <1>9, <1>10 DEF Settled

\* The invariant is inductive.
LEMMA NextSettled == Settled /\ [Next]_vars => Settled'
<1> SUFFICES ASSUME Settled, [Next]_vars PROVE Settled'
  OBVIOUS
<1>1. CASE Next
  <2>1. TypeOK'
    BY <1>1, NextTyped
  <2> QED BY <1>1, <2>1, NextAddressed, NextHomed, NextGated, NextOpened, NextBased DEF Settled
<1>2. CASE UNCHANGED vars
  <2>1. UNCHANGED <<status, version, selected, shown, loading, refreshing>>
    BY <1>2 DEF vars, service, lists
  <2>2. UNCHANGED <<statusClient, deleteClient, configPreview, createPreview>>
    BY <1>2 DEF vars, dialogs
  <2>3. UNCHANGED <<calls, late, made, foreign, openedAt, seen>>
    BY <1>2 DEF vars, ghosts
  <2>4. /\ Loads' = Loads /\ Refreshes' = Refreshes /\ Switches' = Switches
        /\ Creations' = Creations
    BY <2>3, PageSets
  <2>5. Openings' = Openings /\ Savings' = Savings
    BY <2>2, <2>3, PreviewSets
  <2>6. TypeOK'
    BY <2>1, <2>2, <2>3 DEF Settled, TypeOK
  <2>7. Addressed' /\ Homed' /\ Based'
    BY <2>1, <2>2, <2>3 DEF Settled, Addressed, Homed, Based
  <2>8. Gated'
    BY <2>1, <2>2, <2>4, <2>5 DEF Settled, Gated
  <2>9. Opened'
    BY <2>1, <2>2, <2>3, <2>5 DEF Settled, Opened
  <2> QED BY <2>6, <2>7, <2>8, <2>9 DEF Settled
<1> QED BY <1>1, <1>2

\* The invariant holds of every behaviour.
LEMMA SettledThroughout == Spec => []Settled
BY InitSettled, NextSettled, PTL DEF Spec

\* What the console displays is current: the list has only clients of the selected profile, and
\* the configuration in the dialog was read after the dialog was opened, although answers
\* arrive in any order and the read-back of a creation is not compared with the selection.
THEOREM DisplayStaysCurrent == Spec => []DisplayIsCurrent
<1>1. Settled => DisplayIsCurrent
  BY DEF Settled, Homed, Opened, DisplayIsCurrent
<1> QED BY <1>1, SettledThroughout, PTL

\* A gate that guards its calls is the gate of the property.
LEMMA GuardsGate ==
    ASSUME NEW x, NEW S, Guards(x, S)
    PROVE  Gate(x, S)
<1>1. CASE x
  <2>1. PICK k : S = {k}
    BY <1>1 DEF Guards
  <2>2. Cardinality({k}) = 1
    BY FS_Singleton
  <2> QED BY <1>1, <2>1, <2>2 DEF Gate
<1>2. CASE ~ x
  BY <1>2 DEF Guards, Gate
<1> QED BY <1>1, <1>2

\* A gate of the list, a refresh, the creation, enabling and disabling, or the open
\* configuration is shut exactly while the one call that it stands for is in flight: none of
\* these is sent twice, and none stays shut without a call that will open it.
THEOREM GatesHold == Spec => []GatesTrackCalls
<1>1. ASSUME Settled PROVE GatesTrackCalls
  <2>1. Loads = {k \in Awaited("loadClients") : k.profile = selected}
    BY <1>1 DEF Settled, Homed, Loads, Awaited, Listings
  <2>2. /\ Gate(loading, Loads) /\ Gate(refreshing, Refreshes)
        /\ Gate(statusClient.submitting, Switches) /\ Gate(createPreview.submitting, Creations)
    BY <1>1, GuardsGate DEF Settled, Gated
  <2>3. configPreview.open => /\ Gate(configPreview.loading, Openings)
                              /\ Gate(configPreview.saving, Savings)
    BY <1>1, GuardsGate DEF Settled, Gated
  <2>4. Gate(loading, {k \in Awaited("loadClients") : k.profile = selected})
    BY <2>1, <2>2
  <2> QED BY <2>2, <2>3, <2>4 DEF GatesTrackCalls, Refreshes, Switches, Creations, Openings,
             Savings
<1> QED BY <1>1, SettledThroughout, PTL

\* A save, a belated one too, only replaces a configuration that this console has shown.
THEOREM EditsNotLost == Spec => NoLostEdit
<1> DEFINE NoLost == \A c \in Clients : version'[c] # version[c] /\ foreign' = foreign
                                           => <<c, version[c]>> \in seen
<1>1. ASSUME Settled, [Next]_vars PROVE [NoLost]_vars
  <2> SUFFICES ASSUME Next PROVE NoLost
    BY <1>1
  <2>1. ASSUME Operator PROVE NoLost
    <3>1. CASE RefreshStatus
      BY <3>1 DEF RefreshStatus, service
    <3>2. CASE CloseDeleteClient
      BY <3>2 DEF CloseDeleteClient, service
    <3>3. CASE SubmitDeleteClient
      BY <3>3 DEF SubmitDeleteClient, service
    <3>4. CASE CloseConfigurationPreview
      BY <3>4 DEF CloseConfigurationPreview, service
    <3>5. CASE SaveClientConfiguration
      BY <3>5 DEF SaveClientConfiguration, service
    <3>6. CASE OpenCreatePreview
      BY <3>6 DEF OpenCreatePreview, service
    <3>7. CASE CloseCreatePreview
      BY <3>7 DEF CloseCreatePreview, service
    <3>8. CASE SubmitCreatePreview
      BY <3>8 DEF SubmitCreatePreview, service
    <3>9. ASSUME NEW p \in Profiles, SwitchProfile(p) PROVE NoLost
      BY <3>9 DEF SwitchProfile, service
    <3>10. ASSUME NEW c \in Clients, SubmitStatusClient(c) PROVE NoLost
      BY <3>10 DEF SubmitStatusClient, service
    <3>11. ASSUME NEW c \in Clients, OpenDeleteClient(c) PROVE NoLost
      BY <3>11 DEF OpenDeleteClient, service
    <3>12. ASSUME NEW c \in Clients, OpenConfigurationPreview(c) PROVE NoLost
      BY <3>12 DEF OpenConfigurationPreview, service
    <3> QED BY <2>1, <3>1, <3>2, <3>3, <3>4, <3>5, <3>6, <3>7, <3>8, <3>9, <3>10, <3>11, <3>12
               DEF Operator
  <2>2. ASSUME NEW k \in calls, Settle(k) PROVE NoLost
    <3>1. CASE Change(k)
      <4>1. k \in Calls /\ TypeOK /\ (k.function \in OnClient => k.client \in Clients)
        BY <1>1 DEF Settled, TypeOK, Addressed
      <4>2. \E ok \in BOOLEAN : Effect(k, ok)
        BY <3>1 DEF Change
      <4>3. \A c \in Clients : version'[c] # version[c] =>
               k.function = "updateConfiguration" /\ c = k.client /\ version[c] = k.version
        BY <4>1, <4>2, EffectView
      <4>4. k.function = "updateConfiguration" => <<k.client, k.version>> \in seen
        BY <1>1 DEF Settled, Based
      <4> QED BY <4>3, <4>4
    <3>2. CASE Read(k)
      BY <3>2 DEF Read, service
    <3>3. CASE Fail(k)
      BY <3>3 DEF Fail, service
    <3> QED BY <2>2, <3>1, <3>2, <3>3 DEF Settle
  <2>3. ASSUME NEW k \in calls, Continue(k) PROVE NoLost
    <3>1. CASE LoadArrives(k)
      BY <3>1 DEF LoadArrives, service
    <3>2. CASE RefreshArrives(k)
      BY <3>2 DEF RefreshArrives, service
    <3>3. CASE StatusArrives(k)
      BY <3>3 DEF StatusArrives, service
    <3>4. CASE DeleteArrives(k)
      BY <3>4 DEF DeleteArrives, service
    <3>5. CASE ConfigurationArrives(k)
      BY <3>5 DEF ConfigurationArrives, service
    <3>6. CASE SaveArrives(k)
      BY <3>6 DEF SaveArrives, service
    <3>7. CASE CreateArrives(k)
      BY <3>7 DEF CreateArrives, service
    <3>8. CASE ReadbackArrives(k)
      BY <3>8 DEF ReadbackArrives, service
    <3> QED BY <2>3, <3>1, <3>2, <3>3, <3>4, <3>5, <3>6, <3>7, <3>8 DEF Continue
  <2>4. ASSUME NEW k \in late, Belated(k) PROVE NoLost
    <3>1. k \in Calls /\ TypeOK /\ (k.function \in OnClient => k.client \in Clients)
      BY <1>1 DEF Settled, TypeOK, Addressed
    <3>2. \E ok \in BOOLEAN : Effect(k, ok)
      BY <2>4 DEF Belated
    <3>3. \A c \in Clients : version'[c] # version[c] =>
             k.function = "updateConfiguration" /\ c = k.client /\ version[c] = k.version
      BY <3>1, <3>2, EffectView
    <3>4. k.function = "updateConfiguration" => <<k.client, k.version>> \in seen
      BY <1>1 DEF Settled, Based
    <3> QED BY <3>3, <3>4
  <2>5. ASSUME NEW c \in Clients, OtherOperator(c) PROVE NoLost
    <3>1. foreign' = foreign + 1 /\ foreign \in Int
      BY <2>5, <1>1 DEF OtherOperator, Settled, TypeOK
    <3> QED BY <3>1
  <2> QED BY <2>1, <2>2, <2>3, <2>4, <2>5 DEF Next
<1> QED BY <1>1, SettledThroughout, PTL DEF Spec, NoLostEdit

-----------------------------------------------------------------------------
(* The relay: the tokens                                                   *)

\* What was handed out and what is left never exceed the burst and the refill up
\* to the last count.
Metered ==
    \A k \in Kinds : granted[k] * Cost[k] + bucket[k].units <= Full(k) + bucket[k].last

\* The types without the slots, whose bound needs SlotsConserved.
Typed ==
    /\ clock \in Nat
    /\ bucket \in [Kinds -> [units : Nat, last : Nat]]
    /\ \A k \in Kinds : bucket[k].units <= Full(k) /\ bucket[k].last <= clock
    /\ granted \in [Kinds -> Nat]
    /\ slots \in Nat
    /\ request \in [Requests -> Request]
    /\ backend \in [Requests -> {"idle", "working", "done"}]

\* A full bucket is a number of units.
LEMMA FullBucket == \A k \in Kinds : Full(k) \in Nat /\ Cost[k] \in Nat
<1> TAKE k \in Kinds
<1>1. Burst[k] \in Nat /\ Cost[k] \in Nat
  BY NumbersAssumption
<1> QED
  BY <1>1 DEF Full

\* Refilling gives a bucket no more units than it holds, and none that the time did

\* not bring.
LEMMA RefillIsBounded ==
    ASSUME Typed, NEW k \in Kinds
    PROVE  /\ Refilled(k) \in Nat /\ Refilled(k) <= Full(k)
           /\ Refilled(k) <= bucket[k].units + (clock - bucket[k].last)
<1>1. /\ bucket[k].units \in Nat /\ bucket[k].units <= Full(k)
      /\ bucket[k].last \in Nat /\ bucket[k].last <= clock
  BY DEF Typed
<1>2. clock \in Nat
  BY DEF Typed
<1> QED
  BY <1>1, <1>2, FullBucket DEF Refilled, Smaller

\* Moving and closing a request keep it a request.
LEMMA RequestsTyped ==
    ASSUME Typed, NEW r \in Requests,
           \/ \E s \in Stages : Move(r, s)
           \/ \E s \in Stages, p \in Replies :
                 request' = [request EXCEPT ![r].stage = s, ![r].reply = p]
    PROVE  request' \in [Requests -> Request]
<1>1. request \in [Requests -> Request]
  BY DEF Typed
<1>2. CASE \E s \in Stages : Move(r, s)
  <2>1. PICK s \in Stages : request' = [request EXCEPT ![r].stage = s]
    BY <1>2 DEF Move
  <2> QED
    BY <1>1, <2>1 DEF Request
<1>3. CASE \E s \in Stages, p \in Replies :
             request' = [request EXCEPT ![r].stage = s, ![r].reply = p]
  <2>1. PICK s \in Stages, p \in Replies :
               request' = [request EXCEPT ![r].stage = s, ![r].reply = p]
    BY <1>3
  <2>2. [request[r] EXCEPT !.stage = s, !.reply = p] \in Request
    BY <1>1 DEF Request
  <2>3. request' = [request EXCEPT ![r] = [request[r] EXCEPT !.stage = s, !.reply = p]]
    BY <1>1, <2>1
  <2> QED
    BY <1>1, <2>2, <2>3
<1> QED
  BY <1>2, <1>3

\* The state of the relay stays of its type, and the meter holds, over one step.
LEMMA MeteredStep ==
    ASSUME Typed, Metered, [RelayNext]_relayVars
    PROVE  Typed' /\ Metered'
<1> USE NumbersAssumption, FullBucket
<1>1. CASE Tick
  BY <1>1 DEF Tick, Typed, Metered
<1>2. ASSUME NEW r \in Requests, Permit(r)
      PROVE  Typed' /\ Metered'
  <2> DEFINE k == request[r].kind
  <2>1. k \in Kinds
    BY DEF Typed, Request
  <2>2. /\ Refilled(k) \in Nat /\ Refilled(k) <= Full(k)
        /\ Refilled(k) <= bucket[k].units + (clock - bucket[k].last)
    BY <2>1, RefillIsBounded
  <2>3. \A j \in Kinds : granted[j] \in Nat /\ bucket[j].units \in Nat /\ bucket[j].last \in Nat
    BY DEF Typed
  <2>4. Full(k) \in Nat /\ Cost[k] \in Nat /\ clock \in Nat
    BY <2>1, FullBucket DEF Typed
  <2>5. CASE Refilled(k) < Cost[k]
    <3>1. /\ bucket' = [bucket EXCEPT ![k] = [units |-> Refilled(k), last |-> clock]]
          /\ granted' = granted
          /\ request' = [request EXCEPT ![r].stage = "over", ![r].reply = "refused"]
          /\ clock' = clock /\ slots' = slots /\ backend' = backend
      BY <1>2, <2>5 DEF Permit, Close
    <3>2. Typed'
      <4>1. request' \in [Requests -> Request]
        BY <3>1, RequestsTyped DEF Stages, Replies
      <4> QED
        BY <2>1, <2>2, <3>1, <4>1 DEF Typed
    <3>3. ASSUME NEW j \in Kinds
          PROVE  granted'[j] * Cost[j] + bucket'[j].units <= Full(j) + bucket'[j].last
      <4>1. CASE j = k
        <5>1. bucket'[j].units = Refilled(k) /\ bucket'[j].last = clock
          BY <2>1, <3>1, <4>1 DEF Typed
        <5>2. granted[k] * Cost[k] + bucket[k].units <= Full(k) + bucket[k].last
          BY <2>1 DEF Metered
        <5>3. clock \in Nat /\ granted[k] * Cost[k] \in Nat
          BY <2>1, <2>3 DEF Typed
        <5> QED
          BY <2>1, <2>2, <2>3, <3>1, <4>1, <5>1, <5>2, <5>3
      <4>2. CASE j # k
        BY <3>1, <4>2 DEF Metered, Typed
      <4> QED
        BY <4>1, <4>2
    <3> QED
      BY <3>2, <3>3 DEF Metered
  <2>6. CASE Refilled(k) >= Cost[k]
    <3>1. /\ bucket' = [bucket EXCEPT ![k] = [units |-> Refilled(k) - Cost[k], last |-> clock]]
          /\ granted' = [granted EXCEPT ![k] = @ + 1]
          /\ request' = [request EXCEPT ![r].stage = "permitted"]
          /\ clock' = clock /\ slots' = slots /\ backend' = backend
      BY <1>2, <2>2, <2>6, <2>4 DEF Permit, Move
    <3>2. Typed'
      <4>1. request' \in [Requests -> Request]
        BY <3>1, RequestsTyped DEF Move, Stages
      <4>2. Refilled(k) - Cost[k] \in Nat /\ Refilled(k) - Cost[k] <= Full(k)
        BY <2>2, <2>6, <2>4
      <4> QED
        BY <2>1, <3>1, <4>1, <4>2 DEF Typed
    <3>3. ASSUME NEW j \in Kinds
          PROVE  granted'[j] * Cost[j] + bucket'[j].units <= Full(j) + bucket'[j].last
      <4>1. CASE j = k
        <5>1. bucket'[j].units = Refilled(k) - Cost[k] /\ bucket'[j].last = clock
          BY <2>1, <3>1, <4>1 DEF Typed
        <5>2. granted'[j] * Cost[j] = granted[k] * Cost[k] + Cost[k]
          BY <2>1, <2>3, <2>4, <3>1, <4>1 DEF Typed
        <5>3. granted[k] * Cost[k] + bucket[k].units <= Full(k) + bucket[k].last
          BY <2>1 DEF Metered
        <5>4. /\ granted[k] * Cost[k] \in Nat
              /\ bucket[k].units \in Nat /\ bucket[k].last \in Nat
          BY <2>1, <2>3, <2>4
        <5>5. granted[k] * Cost[k] + Refilled(k) <= Full(k) + clock
          BY <2>2, <2>4, <5>3, <5>4
        <5>6. granted'[j] * Cost[j] + bucket'[j].units = granted[k] * Cost[k] + Refilled(k)
          BY <2>2, <2>4, <5>1, <5>2, <5>4
        <5>7. Full(j) + bucket'[j].last = Full(k) + clock
          BY <2>1, <3>1, <4>1 DEF Typed
        <5> QED
          BY <5>5, <5>6, <5>7
      <4>2. CASE j # k
        BY <3>1, <4>2 DEF Metered, Typed
      <4> QED
        BY <4>1, <4>2
    <3> QED
      BY <3>2, <3>3 DEF Metered
  <2> QED
    BY <2>2, <2>5, <2>6, <2>4
<1>3. ASSUME NEW r \in Requests, Acquire(r)
      PROVE  Typed' /\ Metered'
  <2>1. request' \in [Requests -> Request]
    BY <1>3, RequestsTyped DEF Acquire, Close, Stages, Replies
  <2>2. slots' \in Nat
    BY <1>3 DEF Acquire, Typed
  <2> QED
    BY <1>3, <2>1, <2>2 DEF Acquire, Typed, Metered
<1>4. ASSUME NEW r \in Requests, NotForwarded(r) \/ GiveUp(r) \/ Conclude(r)
      PROVE  Typed' /\ Metered'
  <2>1. request' \in [Requests -> Request]
    BY <1>4, RequestsTyped DEF NotForwarded, GiveUp, Conclude, Close, Stages, Replies
  <2>2. slots' \in Nat
    BY <1>4 DEF NotForwarded, GiveUp, Conclude, Release, Typed
  <2> QED
    BY <1>4, <2>1, <2>2 DEF NotForwarded, GiveUp, Conclude, Typed, Metered
<1>5. ASSUME NEW r \in Requests, Forward(r) \/ Answer(r) \/ Respond(r)
      PROVE  Typed' /\ Metered'
  <2>1. request' \in [Requests -> Request]
    <3>1. CASE Forward(r)
      BY <3>1, RequestsTyped DEF Forward, Stages
    <3>2. CASE Respond(r)
      <4>1. request' = [request EXCEPT ![r].stage = "replying", ![r].reply = "backend"]
        BY <3>2 DEF Respond
      <4>2. "replying" \in Stages /\ "backend" \in Replies
        BY DEF Stages, Replies
      <4> QED
        BY <4>1, <4>2, RequestsTyped
    <3>3. CASE Answer(r)
      BY <3>3 DEF Answer, Typed
    <3> QED
      BY <1>5, <3>1, <3>2, <3>3
  <2>2. backend' \in [Requests -> {"idle", "working", "done"}]
    BY <1>5 DEF Forward, Answer, Respond, Typed
  <2> QED
    BY <1>5, <2>1, <2>2 DEF Forward, Answer, Respond, Typed, Metered
<1>6. ASSUME NEW r \in Requests, Admit(r) \/ Login(r)
      PROVE  Typed' /\ Metered'
  <2>1. request' \in [Requests -> Request]
    BY <1>6, RequestsTyped DEF Admit, Login, Close, Stages, Replies
  <2> QED
    BY <1>6, <2>1 DEF Admit, Login, Typed, Metered
<1>7. CASE UNCHANGED relayVars
  BY <1>7 DEF relayVars, Typed, Metered
<1> QED
  BY <1>1, <1>2, <1>3, <1>4, <1>5, <1>6, <1>7 DEF RelayNext, Serve

\* The initial state is typed and metered.
LEMMA MeteredInit == ASSUME RelayInit PROVE Typed /\ Metered
  BY NumbersAssumption, FullBucket DEF RelayInit, Typed, Metered, Request, Stages, Replies,
     Full

\* The meter bounds the tokens by the time.
LEMMA MeterBounds == ASSUME Typed, Metered PROVE RateBound
<1> SUFFICES ASSUME NEW k \in Kinds
             PROVE  granted[k] * Cost[k] <= Full(k) + clock
  BY DEF RateBound
<1>1. /\ granted[k] * Cost[k] \in Nat /\ bucket[k].units \in Nat /\ bucket[k].last \in Nat
      /\ bucket[k].last <= clock /\ clock \in Nat
  BY NumbersAssumption DEF Typed
<1>2. granted[k] * Cost[k] + bucket[k].units <= Full(k) + bucket[k].last
  BY DEF Metered
<1> QED
  BY <1>1, <1>2, FullBucket

-----------------------------------------------------------------------------
(* The relay: the slots                                                    *)

\* Each held slot is held once: one step changes the set of holders and the count of

\* free slots together.
LEMMA ConservedStep ==
    ASSUME Typed, SlotsConserved, [RelayNext]_relayVars
    PROVE  SlotsConserved'
<1> USE RequestsAssumption, NumbersAssumption
<1>1. IsFiniteSet(Holding) /\ Cardinality(Holding) \in Nat
  <2>1. Holding \subseteq Requests
    BY DEF Holding
  <2> QED
    BY <2>1, FS_Subset, FS_CardinalityType
<1>2. ASSUME Holding' = Holding, slots' = slots
      PROVE  SlotsConserved'
  BY <1>2 DEF SlotsConserved
<1>3. ASSUME NEW r \in Requests, request[r].kind \in Slotted => r \in Holding,
             Holding' = Holding \ {r}, Release(r)
      PROVE  SlotsConserved'
  <2>1. CASE request[r].kind \in Slotted
    <3>1. Cardinality(Holding \ {r}) = Cardinality(Holding) - 1
      BY <1>1, <1>3, <2>1, FS_RemoveElement
    <3> QED
      BY <1>1, <1>3, <2>1, <3>1 DEF Release, SlotsConserved, Typed
  <2>2. CASE request[r].kind \notin Slotted
    <3>1. Holding \ {r} = Holding
      BY <2>2 DEF Holding
    <3> QED
      BY <1>2, <1>3, <2>2, <3>1 DEF Release
  <2> QED
    BY <2>1, <2>2
<1>4. ASSUME NEW r \in Requests,
             \/ Permit(r) \/ Admit(r) \/ Login(r)
             \/ Forward(r) \/ Answer(r) \/ Respond(r)
      PROVE  Holding' = Holding /\ slots' = slots
  <2>1. request \in [Requests -> Request]
    BY DEF Typed
  <2>2. CASE Permit(r)
    <3>1. request[r].stage = "new" /\ slots' = slots
      BY <2>2 DEF Permit, At
    <3>2. /\ request'[r].stage \in {"permitted", "over"}
          /\ \A q \in Requests \ {r} : request'[q] = request[q]
      BY <2>1, <2>2 DEF Permit, Move, Close, Request
    <3> QED
      BY <3>1, <3>2 DEF Holding
  <2>3. CASE Forward(r) \/ Answer(r)
    BY <2>1, <2>3 DEF Forward, Answer, Move, At, Holding, Request
  <2>4. CASE Respond(r)
    BY <2>1, <2>4 DEF Respond, At, Holding, Request
  <2>5. CASE Admit(r)
    BY <2>1, <2>5 DEF Admit, Move, At, Holding, Request
  <2>6. CASE Login(r)
    BY <2>1, <2>6, KindsAssumption DEF Login, Close, At, Holding, Request
  <2> QED
    BY <1>4, <2>2, <2>3, <2>4, <2>5, <2>6
<1>5. ASSUME NEW r \in Requests, NotForwarded(r) \/ GiveUp(r) \/ Conclude(r)
      PROVE  /\ request[r].kind \in Slotted => r \in Holding
             /\ Holding' = Holding \ {r}
             /\ Release(r)
  <2>1. request \in [Requests -> Request]
    BY DEF Typed
  <2>2. PICK p \in Replies : Close(r, p)
    BY <1>5 DEF NotForwarded, GiveUp, Conclude, Replies
  <2>3. Release(r) /\ (request[r].kind \in Slotted => r \in Holding)
    BY <1>5 DEF NotForwarded, GiveUp, Conclude, At, Holding
  <2>4. /\ request'[r].stage = "over"
        /\ \A q \in Requests \ {r} : request'[q] = request[q]
    BY <2>1, <2>2 DEF Close, Request
  <2> QED
    BY <2>3, <2>4 DEF Holding
<1>6. ASSUME NEW r \in Requests, Acquire(r)
      PROVE  SlotsConserved'
  <2>1. CASE slots > 0
    <3>1. r \notin Holding /\ Holding' = Holding \cup {r} /\ slots' = slots - 1
      BY <1>6, <2>1 DEF Acquire, Move, At, Holding, Typed, Request
    <3>2. Cardinality(Holding \cup {r}) = Cardinality(Holding) + 1
      BY <1>1, <3>1, FS_AddElement
    <3> QED
      BY <1>1, <3>1, <3>2 DEF SlotsConserved, Typed
  <2>2. CASE ~ (slots > 0)
    <3>1. Close(r, "refused") /\ slots' = slots /\ request[r].stage = "permitted"
      BY <1>6, <2>2 DEF Acquire, At
    <3>2. request \in [Requests -> Request]
      BY DEF Typed
    <3>3. /\ request'[r].stage = "over"
          /\ \A q \in Requests \ {r} : request'[q] = request[q]
      BY <3>1, <3>2 DEF Close, Request
    <3>4. Holding' = Holding
      BY <3>1, <3>3 DEF Holding
    <3> QED
      BY <1>2, <3>1, <3>4
  <2> QED
    BY <2>1, <2>2
<1>7. CASE Tick \/ UNCHANGED relayVars
  BY <1>2, <1>7 DEF Tick, relayVars, Holding
<1> QED
  BY <1>2, <1>3, <1>4, <1>5, <1>6, <1>7 DEF RelayNext, Serve

\* No thread holds a slot at the start.
LEMMA ConservedInit == ASSUME RelayInit PROVE SlotsConserved
<1>1. Holding = {}
  BY DEF RelayInit, Holding
<1> QED
  BY <1>1, FS_EmptySet, NumbersAssumption DEF RelayInit, SlotsConserved

\* Conservation bounds the free slots, the only part of RelayTypeOK that Typed leaves open.
LEMMA TypedAndConserved == ASSUME Typed, SlotsConserved PROVE RelayTypeOK
<1>1. Holding \subseteq Requests
  BY DEF Holding
<1>2. Cardinality(Holding) \in Nat
  BY <1>1, RequestsAssumption, FS_Subset, FS_CardinalityType
<1>3. slots \in 0..Slots
  BY <1>2, NumbersAssumption DEF Typed, SlotsConserved
<1> QED
  BY <1>3 DEF Typed, RelayTypeOK

-----------------------------------------------------------------------------
(* The relay: the theorems                                                 *)

\* The three parts together are inductive.
Sound == Typed /\ Metered /\ SlotsConserved

\* They hold in every behaviour of the relay.
LEMMA SoundAlways == RelaySpec => []Sound
<1>1. RelayInit => Sound
  BY MeteredInit, ConservedInit DEF Sound
<1>2. Sound /\ [RelayNext]_relayVars => Sound'
  BY MeteredStep, ConservedStep DEF Sound
<1> QED
  BY <1>1, <1>2, PTL DEF RelaySpec

\* The relay's state stays of its type; its semaphore never exceeds its bound.
THEOREM TypeCorrect == RelaySpec => []RelayTypeOK
<1>1. Sound => RelayTypeOK
  BY TypedAndConserved DEF Sound
<1> QED
  BY <1>1, SoundAlways, PTL

\* For every burst, rate and number of requests, the tokens that are handed out stay
\* within the burst and the refill of the time that passed.
THEOREM TokensAreMetered == RelaySpec => []RateBound
<1>1. Sound => RateBound
  BY MeterBounds DEF Sound
<1> QED
  BY <1>1, SoundAlways, PTL

\* On every path of every request the slot is given back exactly once.
THEOREM SlotsAreConserved == RelaySpec => []SlotsConserved
<1>1. Sound => SlotsConserved
  BY DEF Sound
<1> QED
  BY <1>1, SoundAlways, PTL

===============================================================================
