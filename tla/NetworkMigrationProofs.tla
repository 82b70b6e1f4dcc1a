------------------------ MODULE NetworkMigrationProofs ------------------------
(***************************************************************************)
(* Theorems about NetworkMigration, for any settings, any number of        *)
(* clients and any number of failures, kills, reboots and edits by hand;   *)
(* and about AddressMapping, what a change of the server's address does to *)
(* the addresses of the clients, for every size of the network.            *)
(***************************************************************************)
EXTENDS NetworkMigration, AddressMapping, TLAPS

-----------------------------------------------------------------------------
(* The mapping of the addresses                                            *)

\* The networks before and after a change have no address in common: a file that
\* was rewritten and one that was not yet can be told apart.
LEMMA NetworksApart ==
    ASSUME NEW source \in Interfaces, NEW target \in Interfaces, ChangeIsValid(source, target)
    PROVE  Members(source) \cap Members(target) = {}
<1> DEFINE size == source.size
           a == source.network \div size
           b == target.network \div size
<1>1. /\ size \in Nat /\ size >= 3 /\ target.size = size
      /\ source.network \in Nat /\ target.network \in Nat
      /\ source.network % size = 0 /\ target.network % size = 0
      /\ source.network # target.network
  BY SizesAssumption DEF Interfaces, ChangeIsValid
<1>2. a \in Int /\ b \in Int /\ source.network = size * a /\ target.network = size * b
  BY <1>1
<1> HIDE DEF a, b, size
<1>3. a # b
  BY <1>1, <1>2
<1>4. CASE a < b
  <2>1. b = a + 1 + (b - a - 1) /\ b - a - 1 \in Nat
    BY <1>2, <1>4
  <2>2. size * b = size * a + size + size * (b - a - 1) /\ size * (b - a - 1) \in Nat
    BY <1>1, <1>2, <2>1
  <2>3. source.network + size <= target.network
    BY <1>1, <1>2, <2>2
  <2> QED
    BY <1>1, <2>3 DEF Members, size
<1>5. CASE b < a
  <2>1. a = b + 1 + (a - b - 1) /\ a - b - 1 \in Nat
    BY <1>2, <1>5
  <2>2. size * a = size * b + size + size * (a - b - 1) /\ size * (a - b - 1) \in Nat
    BY <1>1, <1>2, <2>1
  <2>3. target.network + size <= source.network
    BY <1>1, <1>2, <2>2
  <2> QED
    BY <1>1, <2>3 DEF Members, size
<1> QED
  BY <1>2, <1>3, <1>4, <1>5

\* A change refuses exactly the peers that have the address of the server, of its
\* network or for broadcasts: none that the service has created.
LEMMA PeersRefused ==
    ASSUME NEW source \in Interfaces, NEW target \in Interfaces, ChangeIsValid(source, target),
           NEW address \in Nat
    PROVE  PeerIsMapped(address, source, target)
             <=> address \in Hosts(source) /\ address # source.ip
  BY SizesAssumption
     DEF Interfaces, ChangeIsValid, PeerIsMapped, Translated, Members, Hosts

\* For every network and every set of clients with addresses of their own, a change
\* that is carried out leaves every client with an address of its own, in the new
\* network and not in the old one, that is not the server's and that its saved
\* configuration has as well; and the change back restores every address.
THEOREM AddressChangeIsSound ==
    ASSUME NEW source \in Interfaces, NEW target \in Interfaces, ChangeIsValid(source, target),
           NEW Group, NEW address \in [Group -> Nat],
           \A c, d \in Group : c # d => address[c] # address[d],
           \A c \in Group : PeerIsMapped(address[c], source, target),
           NEW mapped, mapped = [c \in Group |-> Translated(address[c], source, target)]
    PROVE  /\ \A c, d \in Group : c # d => mapped[c] # mapped[d]
           /\ \A c \in Group :
                 /\ mapped[c] \in Hosts(target) \ (Members(source) \cup {target.ip})
                 /\ ClientIsMapped(address[c], source, target)
                 /\ ChangeIsValid(target, source) /\ PeerIsMapped(mapped[c], target, source)
                 /\ Translated(mapped[c], target, source) = address[c]
<1>1. /\ source.network \in Nat /\ target.network \in Nat /\ source.size \in Nat
      /\ target.size \in Nat /\ source.ip \in Nat /\ target.ip \in Nat
  BY SizesAssumption DEF Interfaces
<1>2. ChangeIsValid(target, source)
  BY <1>1 DEF ChangeIsValid
<1>3. \A c \in Group : mapped[c] = target.network + (address[c] - source.network)
  BY DEF Translated
<1>4. ASSUME NEW c \in Group, NEW d \in Group, c # d
      PROVE  mapped[c] # mapped[d]
  <2>1. address[c] \in Nat /\ address[d] \in Nat /\ address[c] # address[d]
    BY <1>4
  <2>2. /\ mapped[c] = target.network + (address[c] - source.network)
        /\ mapped[d] = target.network + (address[d] - source.network)
    BY <1>3
  <2> QED
    BY <1>1, <2>1, <2>2
<1>5. ASSUME NEW c \in Group
      PROVE  /\ mapped[c] \in Hosts(target) \ (Members(source) \cup {target.ip})
             /\ ClientIsMapped(address[c], source, target)
             /\ PeerIsMapped(mapped[c], target, source)
             /\ Translated(mapped[c], target, source) = address[c]
  <2>1. mapped[c] \in Hosts(target) /\ mapped[c] # target.ip /\ mapped[c] \in Nat
    BY <1>1 DEF PeerIsMapped, Hosts
  <2>2. mapped[c] \notin Members(source)
    <3>1. mapped[c] \in Members(target)
      BY <1>1, <2>1 DEF Hosts, Members
    <3> QED
      BY <3>1, NetworksApart
  <2>3. ClientIsMapped(address[c], source, target)
    BY DEF PeerIsMapped, ClientIsMapped
  <2>4. PeerIsMapped(mapped[c], target, source)
    BY <1>2, <2>1, PeersRefused
  <2>5. Translated(mapped[c], target, source) = address[c]
    BY <1>1, <1>3 DEF Translated
  <2> QED
    BY <2>1, <2>2, <2>3, <2>4, <2>5
<1> QED
  BY <1>2, <1>4, <1>5

-----------------------------------------------------------------------------
(* The inductive invariant                                                 *)

\* A helper that works from its journal.
Working == {"stopping", "writing", "starting", "verifying", "finishing", "stopBack", "restoring",
            "startBack", "verifyBack", "finishBack"}

Uniform(contents) == \E s \in Settings : \A n \in Names : contents[n].setting = s

\* The journal on disk is the one the helper works from, and there is none before it is
\* written.
Journaled ==
    /\ helper.stage \in Working => journal = helper.entry
    /\ helper.stage \in {"planning", "journaling"} => ~ journal.pending

\* The interface is down while files are written, and no late stop or start can change
\* that; afterwards it runs with the configuration.
Halted ==
    /\ ~ journal.pending => late = "none"
    /\ helper.stage \in {"writing", "starting", "restoring", "startBack"} =>
          runtime = Down /\ late = "none"
    /\ helper.stage \in {"verifying", "finishing", "verifyBack", "finishBack"} =>
          runtime = files[Configuration].setting /\ late = "none"

\* Without edits by hand: the files have one setting, which the interface runs with, or
\* each is the old or the new one of the journal, whose old ones had one setting.
Accounted ==
    edits = 0 =>
        /\ ~ journal.pending => runtime \in Settings /\ Agree(runtime)
        /\ At("journaling") => helper.entry.before = files
        /\ journal.pending =>
              /\ Uniform(journal.before)
              /\ \A n \in Names :
                    files[n] \in {journal.before[n], Changed(journal.before[n], journal.target)}

\* How many files are written or restored.
Advanced ==
    edits = 0 =>
        /\ At("stopping") => \A n \in Names : files[n] = Before(n)
        /\ At("writing") =>
              \A n \in Names : files[n] = IF n < helper.next THEN After(n) ELSE Before(n)
        /\ helper.stage \in {"starting", "verifying", "finishing"} =>
              \A n \in Names : files[n] = After(n)
        /\ At("restoring") =>
              \A k \in Names : k < helper.next => files[Undone(k)] = Before(Undone(k))
        /\ helper.stage \in {"startBack", "verifyBack", "finishBack"} =>
              \A n \in Names : files[n] = Before(n)

\* TypeOK is not inductive: a helper that writes a file has an entry and a next file, and
\* every edit adds to one text, so no text is newer than the edits.
Typed ==
    /\ TypeOK
    /\ helper.next \in Names
    /\ \A n \in Names : files[n].text <= edits
    /\ helper.stage \in Working \cup {"journaling"} => helper.entry.pending

Inductive == Journaled /\ Halted /\ Accounted /\ Advanced

Outcomes == {"none", "ok", "failed", "rollback failed"}

-----------------------------------------------------------------------------
(* Lemmas about the operators                                              *)

\* The first two files are there whatever the number of clients.
LEMMA NamesView ==
    /\ Clients \in Nat /\ 1 \in Names /\ Configuration \in Names /\ Metadata \in Names
    /\ \A n \in Names : n \in Nat /\ 1 <= n /\ n <= Clients + 2
BY BoundAssumption DEF Names, Configuration, Metadata

\* The files are restored in another order, but all of them are.
LEMMA UndoneView ==
    /\ \A k \in Names : Undone(k) \in Names
    /\ \A n \in Names : \E k \in Names : Undone(k) = n
    /\ \A j, k \in Names : Undone(j) = Undone(k) => j = k
<1>1. \A k \in Names : Undone(k) \in Names
  BY BoundAssumption DEF Names, Undone
<1>2. ASSUME NEW n \in Names PROVE \E k \in Names : Undone(k) = n
  <2> DEFINE k == IF n >= 3 THEN n - 2 ELSE Clients + 3 - n
  <2>1. k \in Names /\ Undone(k) = n
    BY BoundAssumption DEF Names, Undone
  <2> QED BY <2>1
<1>3. \A j, k \in Names : Undone(j) = Undone(k) => j = k
  BY BoundAssumption DEF Names, Undone
<1> QED BY <1>1, <1>2, <1>3

\* Changing the setting of a file keeps its text.
LEMMA ChangedView ==
    ASSUME NEW c \in Content, NEW s \in Settings
    PROVE  /\ Changed(c, s) \in Content
           /\ Changed(c, s).setting = s /\ Changed(c, s).text = c.text
BY DEF Changed, Content

\* A file has a setting and a text.
LEMMA ContentView ==
    ASSUME NEW c \in Content
    PROVE  c.setting \in Settings /\ c.text \in Nat
BY BoundAssumption DEF Content, Text

\* Nothing is pending without a journal.
LEMMA NothingPending == ~ NoJournal.pending /\ NoJournal \in Journal
BY DEF NoJournal, Journal

\* A pending journal has the contents of every file and a setting.
LEMMA EntryView ==
    ASSUME NEW j \in Journal, j.pending
    PROVE  j.before \in [Names -> Content] /\ j.target \in Settings
<1>1. j # NoJournal
  BY NothingPending
<1> QED BY <1>1 DEF Journal

\* What a helper writes.
LEMMA AfterView ==
    ASSUME helper.entry \in Journal, helper.entry.pending, NEW n \in Names
    PROVE  /\ Before(n) \in Content /\ After(n) \in Content
           /\ After(n).setting = helper.entry.target /\ After(n).text = Before(n).text
<1>1. Before(n) \in Content /\ helper.entry.target \in Settings
  BY EntryView DEF Before
<1> QED BY <1>1, ChangedView DEF After

\* What a helper restores.
LEMMA RestoredView ==
    ASSUME helper.entry \in Journal, helper.entry.pending, NEW n \in Names,
           files \in [Names -> Content]
    PROVE  /\ Restored(n) \in [Names -> Content]
           /\ \A m \in Names : m # n => Restored(n)[m] = files[m]
           /\ files[n] = After(n) => Restored(n)[n] = Before(n)
           /\ files[n] # After(n) => Restored(n)[n] = files[n]
           /\ \A m \in Names : Restored(n)[m].text = files[m].text
<1>1. Before(n) \in Content /\ After(n).text = Before(n).text
  BY AfterView
<1>2. CASE files[n] = After(n)
  <2>1. Restored(n) = [files EXCEPT ![n] = Before(n)]
    BY <1>2 DEF Restored
  <2> QED BY <1>1, <1>2, <2>1
<1>3. CASE files[n] # After(n)
  <2>1. Restored(n) = files
    BY <1>3 DEF Restored
  <2> QED BY <1>3, <2>1
<1> QED BY <1>2, <1>3

\* The helper at rest.
LEMMA IdleTyped == Idle \in Helper /\ Idle.stage = "idle" /\ Idle.next = 1
BY BoundAssumption, NothingPending DEF Idle, Helper, Stages

\* The helper goes on to another stage.
LEMMA GotoView ==
    ASSUME helper \in Helper, NEW s \in Stages, Goto(s)
    PROVE  /\ helper' \in Helper /\ helper'.stage = s /\ helper'.next = 1
           /\ helper'.entry = helper.entry
<1>1. 1 \in 1..(Clients + 3)
  BY BoundAssumption
<1> QED BY <1>1 DEF Goto, Helper

\* The helper answers.
LEMMA AnswerView ==
    ASSUME NEW o, Answer(o)
    PROVE  /\ helper' \in Helper /\ helper'.stage = "idle" /\ helper'.next = 1
           /\ reply' = o
BY IdleTyped DEF Answer

\* The helper goes on to the next file.
LEMMA ContinueView ==
    ASSUME helper \in Helper, helper.next \in Names, NEW s \in Stages, Continue(Clients + 2, s)
    PROVE  /\ helper' \in Helper /\ helper'.entry = helper.entry /\ helper'.next \in Names
           /\ \/ helper.next = Clients + 2 /\ helper'.stage = s /\ helper'.next = 1
              \/ /\ helper.next # Clients + 2 /\ helper'.stage = helper.stage
                 /\ helper'.next = helper.next + 1
<1>1. Clients \in Nat /\ helper.next \in Nat /\ 1 <= helper.next /\ helper.next <= Clients + 2
  BY NamesView
<1>2. CASE helper.next = Clients + 2
  <2>1. helper' = [helper EXCEPT !.stage = s, !.next = 1]
    BY <1>2 DEF Continue
  <2>2. 1 \in 1..(Clients + 3) /\ 1 \in Names
    BY <1>1, NamesView
  <2>3. helper' \in Helper
    BY <2>1, <2>2 DEF Helper
  <2>4. helper'.entry = helper.entry /\ helper'.stage = s /\ helper'.next = 1
    BY <2>1 DEF Helper
  <2> QED BY <1>2, <2>2, <2>3, <2>4
<1>3. CASE helper.next # Clients + 2
  <2>1. helper' = [helper EXCEPT !.next = @ + 1]
    BY <1>3 DEF Continue
  <2>2. helper.next + 1 \in 1..(Clients + 3) /\ helper.next + 1 \in Names
    BY <1>1, <1>3 DEF Names
  <2> QED BY <1>1, <1>3, <2>1, <2>2 DEF Helper
<1> QED BY <1>2, <1>3

\* A failure, a kill and an edit stay within their bounds.
LEMMA FaultView ==
    ASSUME Typed
    PROVE  Fault => faults' \in 0..MaxFaults /\ kills' = kills /\ edits' = edits
<1>1. faults \in 0..MaxFaults
  BY DEF Typed, TypeOK
<1> QED BY <1>1, BoundAssumption DEF Fault

\* So is a kill.
LEMMA BudgetView ==
    ASSUME Typed
    PROVE  kills < MaxKills => kills + 1 \in 0..MaxKills
<1>1. kills \in 0..MaxKills
  BY DEF Typed, TypeOK
<1> QED BY <1>1, BoundAssumption

-----------------------------------------------------------------------------
(* The invariant is inductive                                              *)

\* The start satisfies it.
LEMMA InitInductive == Init => Typed /\ Inductive
<1> SUFFICES ASSUME Init PROVE Typed /\ Inductive
  OBVIOUS
<1>1. PICK s \in Settings : files = [n \in Names |-> [setting |-> s, text |-> 0]] /\ runtime = s
  BY DEF Init
<1>2. [setting |-> s, text |-> 0] \in Content
  BY BoundAssumption DEF Content, Text
<1>3. /\ files \in [Names -> Content] /\ runtime \in Settings /\ Agree(runtime)
      /\ \A n \in Names : files[n].text = 0
  BY <1>1, <1>2 DEF Agree
<1>4. /\ helper = Idle /\ helper.stage = "idle" /\ helper.next = 1 /\ helper \in Helper
      /\ journal = NoJournal /\ ~ journal.pending /\ journal \in Journal
      /\ late = "none" /\ reply = "none"
  BY IdleTyped, NothingPending DEF Init
<1>5. /\ faults \in 0..MaxFaults /\ kills \in 0..MaxKills /\ edits \in 0..MaxEdits
      /\ edits = 0
  BY BoundAssumption DEF Init
<1>6. Typed
  BY <1>3, <1>4, <1>5, NamesView DEF Typed, TypeOK, Working
<1>7. Journaled /\ Halted
  BY <1>4 DEF Journaled, Halted, Working
<1>8. Accounted /\ Advanced
  BY <1>3, <1>4 DEF Accounted, Advanced, At
<1> QED BY <1>6, <1>7, <1>8 DEF Inductive

\* Every step keeps it.
LEMMA NextInductive == Typed /\ Inductive /\ [Next]_vars => Typed' /\ Inductive'
<1> SUFFICES ASSUME Typed, Inductive, [Next]_vars PROVE Typed' /\ Inductive'
  OBVIOUS
<1> USE DEF system, budget
<1>0. /\ helper \in Helper /\ journal \in Journal /\ files \in [Names -> Content]
      /\ runtime \in Settings \cup {Down} /\ late \in {"none", "stop", "start"}
      /\ helper.next \in Names /\ helper.entry \in Journal
      /\ reply \in Outcomes
      /\ faults \in 0..MaxFaults /\ kills \in 0..MaxKills /\ edits \in 0..MaxEdits
      /\ edits \in Nat
      /\ \A n \in Names : files[n].text <= edits
      /\ helper.stage \in Working \cup {"journaling"} => helper.entry.pending
  <2>1. helper \in Helper
    BY DEF Typed, TypeOK
  <2>2. helper.entry \in Journal
    BY <2>1 DEF Helper
  <2>3. edits \in 0..MaxEdits
    BY DEF Typed, TypeOK
  <2>4. edits \in Nat
    BY <2>3, BoundAssumption
  <2> QED BY <2>1, <2>2, <2>3, <2>4 DEF Typed, TypeOK, Outcomes
<1>a. files[Configuration].setting \in Settings /\ Down \notin Settings
  BY <1>0, NamesView, ContentView, DownAssumption
<1>b. /\ helper.stage \in Working => journal = helper.entry /\ journal.pending
      /\ helper.stage \in {"planning", "journaling"} => ~ journal.pending
  BY <1>0 DEF Inductive, Journaled
<1>1. ASSUME NEW op \in {"list", "network"}, Call(op) PROVE Typed' /\ Inductive'
  <2>1. /\ helper.stage = "idle"
        /\ helper'.stage = "recovering" /\ helper'.next = 1 /\ helper' \in Helper
        /\ reply' \in Outcomes
        /\ UNCHANGED <<files, runtime, late, journal, faults, kills, edits>>
    BY <1>1, <1>0, NamesView, IdleTyped DEF Call, At, Idle, Helper, Stages, Outcomes
  <2>2. Typed'
    BY <1>0, NamesView, NothingPending, <1>a, <2>1 DEF Typed, TypeOK, Outcomes, Working
  <2>3. Journaled'
    BY <1>0, NamesView, NothingPending, <1>b, <2>1 DEF Inductive, Journaled, Working
  <2>4. Halted'
    BY <1>0, NamesView, NothingPending, <1>a, <1>b, <2>1 DEF Inductive, Halted, Working
  <2>5. Accounted'
    BY <1>0, NamesView, NothingPending, <1>a, <1>b, <2>1 DEF Inductive, Halted, Accounted,
       Uniform, Agree, At, Working
  <2>6. Advanced'
    BY <1>0, NamesView, NothingPending, <1>a, <1>b, <2>1 DEF Inductive, Advanced, Before,
       After, At, Working
  <2> QED BY <2>2, <2>3, <2>4, <2>5, <2>6 DEF Inductive
<1>2. ASSUME List PROVE Typed' /\ Inductive'
  <2>1. /\ helper.stage = "planning"
        /\ helper'.stage = "idle" /\ helper'.next = 1 /\ helper' \in Helper
        /\ reply' \in Outcomes
        /\ UNCHANGED <<files, runtime, late, journal, faults, kills, edits>>
    BY <1>2, <1>0, NamesView, AnswerView DEF List, At, Outcomes
  <2>2. Typed'
    BY <1>0, NamesView, NothingPending, <1>a, <2>1 DEF Typed, TypeOK, Outcomes, Working
  <2>3. Journaled'
    BY <1>0, NamesView, NothingPending, <1>b, <2>1 DEF Inductive, Journaled, Working
  <2>4. Halted'
    BY <1>0, NamesView, NothingPending, <1>a, <1>b, <2>1 DEF Inductive, Halted, Working
  <2>5. Accounted'
    BY <1>0, NamesView, NothingPending, <1>a, <1>b, <2>1 DEF Inductive, Halted, Accounted,
       Uniform, Agree, At, Working
  <2>6. Advanced'
    BY <1>0, NamesView, NothingPending, <1>a, <1>b, <2>1 DEF Inductive, Advanced, Before,
       After, At, Working
  <2> QED BY <2>2, <2>3, <2>4, <2>5, <2>6 DEF Inductive
<1>3. ASSUME NEW kind \in Kinds, NEW s \in Settings, NEW fresh \in BOOLEAN, Plan(kind, s, fresh)
      PROVE  Typed' /\ Inductive'
  <2>1. CASE fresh /\ s # runtime /\ Agree(runtime)
    <3> DEFINE e == [pending |-> TRUE, kind |-> kind, before |-> files, target |-> s]
    <3>a. e \in Journal /\ e.before = files
      BY <1>0 DEF Journal
    <3>b. e.pending
      OBVIOUS
    <3>c. /\ helper.stage = "planning"
          /\ helper' = [helper EXCEPT !.stage = "journaling", !.recovering = FALSE, !.entry = e]
      BY <1>3, <2>1 DEF Plan, At
    <3> HIDE DEF e
    <3>d. helper' \in Helper /\ helper'.entry = e /\ helper'.stage = "journaling"
          /\ helper'.next = helper.next
      BY <1>0, <3>a, <3>c DEF Helper, Stages
    <3>1. /\ helper.stage = "planning"
          /\ helper'.stage = "journaling" /\ helper'.next = helper.next /\ helper' \in Helper
          /\ helper'.entry.pending /\ helper'.entry.before = files
          /\ UNCHANGED <<files, runtime, late, journal, reply, faults, kills, edits>>
      BY <1>3, <2>1, <1>0, NamesView, <3>a, <3>b, <3>c, <3>d DEF Plan
    <3>2. Typed'
      BY <1>0, NamesView, NothingPending, <1>a, <3>1, <2>1 DEF Typed, TypeOK, Outcomes,
         Working
    <3>3. Journaled'
      BY <1>0, NamesView, NothingPending, <1>b, <3>1, <2>1 DEF Inductive, Journaled, Working
    <3>4. Halted'
      BY <1>0, NamesView, NothingPending, <1>a, <1>b, <3>1, <2>1 DEF Inductive, Halted,
         Working
    <3>5. Accounted'
      BY <1>0, NamesView, NothingPending, <1>a, <1>b, <3>1, <2>1 DEF Inductive, Halted,
         Accounted, Uniform, Agree, At, Working
    <3>6. Advanced'
      BY <1>0, NamesView, NothingPending, <1>a, <1>b, <3>1, <2>1 DEF Inductive, Advanced,
         Before, After, At, Working
    <3> QED BY <3>2, <3>3, <3>4, <3>5, <3>6 DEF Inductive
  <2>2. CASE ~ (fresh /\ s # runtime /\ Agree(runtime))
    <3>1. /\ helper.stage = "planning"
          /\ helper'.stage = "idle" /\ helper'.next = 1 /\ helper' \in Helper
          /\ reply' \in Outcomes
          /\ UNCHANGED <<files, runtime, late, journal, faults, kills, edits>>
      BY <1>3, <2>2, <1>0, NamesView, AnswerView DEF Plan, At, Outcomes
    <3>2. Typed'
      BY <1>0, NamesView, NothingPending, <1>a, <3>1, <2>2 DEF Typed, TypeOK, Outcomes,
         Working
    <3>3. Journaled'
      BY <1>0, NamesView, NothingPending, <1>b, <3>1, <2>2 DEF Inductive, Journaled, Working
    <3>4. Halted'
      BY <1>0, NamesView, NothingPending, <1>a, <1>b, <3>1, <2>2 DEF Inductive, Halted,
         Working
    <3>5. Accounted'
      BY <1>0, NamesView, NothingPending, <1>a, <1>b, <3>1, <2>2 DEF Inductive, Halted,
         Accounted, Uniform, Agree, At, Working
    <3>6. Advanced'
      BY <1>0, NamesView, NothingPending, <1>a, <1>b, <3>1, <2>2 DEF Inductive, Advanced,
         Before, After, At, Working
    <3> QED BY <3>2, <3>3, <3>4, <3>5, <3>6 DEF Inductive
  <2> QED BY <2>1, <2>2
<1>4. ASSUME PlanFails PROVE Typed' /\ Inductive'
  <2>1. /\ helper.stage = "planning"
        /\ helper'.stage = "idle" /\ helper'.next = 1 /\ helper' \in Helper
        /\ faults' \in 0..MaxFaults
        /\ reply' \in Outcomes
        /\ UNCHANGED <<files, runtime, late, journal, kills, edits>>
    BY <1>4, <1>0, NamesView, AnswerView, FaultView DEF PlanFails, At, Outcomes
  <2>2. Typed'
    BY <1>0, NamesView, NothingPending, <1>a, <2>1 DEF Typed, TypeOK, Outcomes, Working
  <2>3. Journaled'
    BY <1>0, NamesView, NothingPending, <1>b, <2>1 DEF Inductive, Journaled, Working
  <2>4. Halted'
    BY <1>0, NamesView, NothingPending, <1>a, <1>b, <2>1 DEF Inductive, Halted, Working
  <2>5. Accounted'
    BY <1>0, NamesView, NothingPending, <1>a, <1>b, <2>1 DEF Inductive, Halted, Accounted,
       Uniform, Agree, At, Working
  <2>6. Advanced'
    BY <1>0, NamesView, NothingPending, <1>a, <1>b, <2>1 DEF Inductive, Advanced, Before,
       After, At, Working
  <2> QED BY <2>2, <2>3, <2>4, <2>5, <2>6 DEF Inductive
<1>5. ASSUME WriteJournal PROVE Typed' /\ Inductive'
  <2>1. /\ helper.stage = "journaling"
        /\ helper'.stage = "stopping" /\ helper'.next = 1 /\ helper'.entry = helper.entry
           /\ helper' \in Helper
        /\ journal' = helper.entry
        /\ UNCHANGED <<files, runtime, late, reply, faults, kills, edits>>
    BY <1>5, <1>0, NamesView, GotoView DEF WriteJournal, At, Stages
  <2>w. helper.entry.pending /\ ~ journal.pending
    BY <1>0, <1>b, <2>1 DEF Working
  <2>x. edits = 0 => Uniform(helper.entry.before) /\ \A n \in Names : files[n] = Before(n)
    BY <2>1, <2>w DEF Inductive, Accounted, Agree, Uniform, Before, At
  <2>2. Typed'
    BY <1>0, NamesView, NothingPending, <1>a, <2>1 DEF Typed, TypeOK, Outcomes, Working
  <2>3. Journaled'
    BY <1>0, NamesView, NothingPending, <1>b, <2>1 DEF Inductive, Journaled, Working
  <2>4. Halted'
    BY <1>0, NamesView, NothingPending, <1>a, <1>b, <2>1 DEF Inductive, Halted, Working
  <2>5. Accounted'
    <3> SUFFICES ASSUME edits = 0 PROVE Accounted'
      BY <2>1 DEF Accounted
    <3>2. \A n \in Names : files'[n] = helper.entry.before[n]
      BY <2>1, <2>x DEF Before
    <3>3. Uniform(journal.before)'
      BY <2>1, <2>x DEF Uniform
    <3> QED BY <2>1, <2>w, <3>2, <3>3 DEF Accounted, At
  <2>6. Advanced'
    BY <1>0, NamesView, NothingPending, <1>a, <1>b, <2>1, <2>x DEF Inductive, Advanced,
       Before, After, At, Working
  <2> QED BY <2>2, <2>3, <2>4, <2>5, <2>6 DEF Inductive
<1>6. ASSUME WriteJournalFails PROVE Typed' /\ Inductive'
  <2>1. /\ helper.stage = "journaling"
        /\ helper'.stage = "idle" /\ helper'.next = 1 /\ helper' \in Helper
        /\ journal' \in {journal, helper.entry}
        /\ faults' \in 0..MaxFaults
        /\ reply' \in Outcomes
        /\ UNCHANGED <<files, runtime, late, kills, edits>>
    BY <1>6, <1>0, NamesView, AnswerView, FaultView DEF WriteJournalFails, At, Outcomes
  <2>2. Typed'
    BY <1>0, NamesView, NothingPending, <1>a, <2>1 DEF Typed, TypeOK, Outcomes, Working
  <2>3. Journaled'
    BY <1>0, NamesView, NothingPending, <1>b, <2>1 DEF Inductive, Journaled, Working
  <2>4. Halted'
    BY <1>0, NamesView, NothingPending, <1>a, <1>b, <2>1 DEF Inductive, Halted, Working
  <2>5. Accounted'
    BY <1>0, NamesView, NothingPending, <1>a, <1>b, <2>1 DEF Inductive, Halted, Accounted,
       Uniform, Agree, At, Working
  <2>6. Advanced'
    BY <1>0, NamesView, NothingPending, <1>a, <1>b, <2>1 DEF Inductive, Advanced, Before,
       After, At, Working
  <2> QED BY <2>2, <2>3, <2>4, <2>5, <2>6 DEF Inductive
<1>7. ASSUME Stop PROVE Typed' /\ Inductive'
  <2>1. /\ helper.stage = "stopping"
        /\ helper'.stage = "writing" /\ helper'.next = 1 /\ helper'.entry = helper.entry
           /\ helper' \in Helper
        /\ runtime' = Down /\ late' = "none"
        /\ UNCHANGED <<files, journal, reply, faults, kills, edits>>
    BY <1>7, <1>0, NamesView, GotoView DEF Stop, At, Stages, Stopped
  <2>2. Typed'
    BY <1>0, NamesView, NothingPending, <1>a, <2>1 DEF Typed, TypeOK, Outcomes, Working
  <2>3. Journaled'
    BY <1>0, NamesView, NothingPending, <1>b, <2>1 DEF Inductive, Journaled, Working
  <2>4. Halted'
    BY <1>0, NamesView, NothingPending, <1>a, <1>b, <2>1 DEF Inductive, Halted, Working
  <2>5. Accounted'
    BY <1>0, NamesView, NothingPending, <1>a, <1>b, <2>1 DEF Inductive, Halted, Accounted,
       Uniform, Agree, At, Working
  <2>6. Advanced'
    BY <1>0, NamesView, NothingPending, <1>a, <1>b, <2>1 DEF Inductive, Advanced, Before,
       After, At, Working
  <2> QED BY <2>2, <2>3, <2>4, <2>5, <2>6 DEF Inductive
<1>8. ASSUME StopFails PROVE Typed' /\ Inductive'
  <2>1. /\ helper.stage = "stopping"
        /\ helper'.stage = "recovering" /\ helper'.next = 1 /\ helper'.entry = helper.entry
           /\ helper' \in Helper
        /\ runtime' \in {runtime, Down} /\ late' \in {"none", "stop", "start"}
        /\ faults' \in 0..MaxFaults
        /\ UNCHANGED <<files, journal, reply, kills, edits>>
    BY <1>8, <1>0, NamesView, GotoView, FaultView DEF StopFails, At, Stages, StopFailed,
       RollBack
  <2>2. Typed'
    BY <1>0, NamesView, NothingPending, <1>a, <2>1 DEF Typed, TypeOK, Outcomes, Working
  <2>3. Journaled'
    BY <1>0, NamesView, NothingPending, <1>b, <2>1 DEF Inductive, Journaled, Working
  <2>4. Halted'
    BY <1>0, NamesView, NothingPending, <1>a, <1>b, <2>1 DEF Inductive, Halted, Working
  <2>5. Accounted'
    BY <1>0, NamesView, NothingPending, <1>a, <1>b, <2>1 DEF Inductive, Halted, Accounted,
       Uniform, Agree, At, Working
  <2>6. Advanced'
    BY <1>0, NamesView, NothingPending, <1>a, <1>b, <2>1 DEF Inductive, Advanced, Before,
       After, At, Working
  <2> QED BY <2>2, <2>3, <2>4, <2>5, <2>6 DEF Inductive
<1>9. ASSUME Write PROVE Typed' /\ Inductive'
  <2>1. /\ helper.stage = "writing"
        /\ helper'.entry = helper.entry /\ helper' \in Helper /\ helper'.next \in Names
        /\ \/ /\ helper.next = Clients + 2
              /\ helper'.stage = "starting" /\ helper'.next = 1
           \/ /\ helper.next # Clients + 2
              /\ helper'.stage = "writing" /\ helper'.next = helper.next + 1
        /\ files' = [files EXCEPT ![helper.next] = After(helper.next)]
        /\ UNCHANGED <<runtime, late, journal, reply, faults, kills, edits>>
    BY <1>9, <1>0, NamesView, ContinueView DEF Write, At, Stages
  <2>w. /\ helper.entry.pending /\ helper.next \in Names /\ journal = helper.entry
        /\ journal.pending
    BY <1>0, <1>b, <2>1 DEF Working
  <2>x. /\ After(helper.next) \in Content
        /\ files[helper.next] = Before(helper.next)
             => After(helper.next).text = files[helper.next].text
    BY <1>0, <2>w, AfterView
  <2>y. /\ files' \in [Names -> Content] /\ \A n \in Names : files'[n].text <= edits
        /\ \A n \in Names : files'[n] \in {files[n], After(n)}
    BY <1>0, <2>1, <2>x, <1>9 DEF Write
  <2>2. Typed'
    BY <1>0, NamesView, NothingPending, <1>a, <2>1, <2>w, <2>y DEF Typed, TypeOK, Outcomes,
       Working
  <2>3. Journaled'
    BY <1>0, NamesView, NothingPending, <1>b, <2>1, <2>w DEF Inductive, Journaled, Working
  <2>4. Halted'
    BY <1>0, NamesView, NothingPending, <1>a, <1>b, <2>1, <2>w DEF Inductive, Halted,
       Working
  <2>5. Accounted'
    <3> SUFFICES ASSUME edits = 0, NEW n \in Names
                 PROVE  files'[n] \in {journal.before[n], Changed(journal.before[n], journal.target)}
      BY <2>1, <2>w DEF Inductive, Accounted, At
    <3>1. files[n] \in {journal.before[n], Changed(journal.before[n], journal.target)}
      BY <2>w DEF Inductive, Accounted
    <3> QED BY <3>1, <2>w, <2>y DEF Before, After
  <2>6. Advanced'
    BY <1>0, NamesView, NothingPending, <1>a, <1>b, <2>1, <2>w, <2>y DEF Inductive,
       Advanced, Before, After, At, Working
  <2> QED BY <2>2, <2>3, <2>4, <2>5, <2>6 DEF Inductive
<1>10. ASSUME WriteFails PROVE Typed' /\ Inductive'
  <2>1. /\ helper.stage = "writing"
        /\ helper'.stage = "recovering" /\ helper'.next = 1 /\ helper'.entry = helper.entry
           /\ helper' \in Helper
        /\ \/ files' = files
           \/ /\ files[helper.next] = Before(helper.next)
              /\ files' = [files EXCEPT ![helper.next] = After(helper.next)]
        /\ faults' \in 0..MaxFaults
        /\ UNCHANGED <<runtime, late, journal, reply, kills, edits>>
    BY <1>10, <1>0, NamesView, GotoView, FaultView DEF WriteFails, At, Stages, RollBack
  <2>w. /\ helper.entry.pending /\ helper.next \in Names /\ journal = helper.entry
        /\ journal.pending
    BY <1>0, <1>b, <2>1 DEF Working
  <2>x. /\ After(helper.next) \in Content
        /\ files[helper.next] = Before(helper.next)
             => After(helper.next).text = files[helper.next].text
    BY <1>0, <2>w, AfterView
  <2>y. /\ files' \in [Names -> Content] /\ \A n \in Names : files'[n].text <= edits
        /\ \A n \in Names : files'[n] \in {files[n], After(n)}
    BY <1>0, <2>1, <2>x
  <2>2. Typed'
    BY <1>0, NamesView, NothingPending, <1>a, <2>1, <2>w, <2>y DEF Typed, TypeOK, Outcomes,
       Working
  <2>3. Journaled'
    BY <1>0, NamesView, NothingPending, <1>b, <2>1, <2>w DEF Inductive, Journaled, Working
  <2>4. Halted'
    BY <1>0, NamesView, NothingPending, <1>a, <1>b, <2>1, <2>w DEF Inductive, Halted,
       Working
  <2>5. Accounted'
    <3> SUFFICES ASSUME edits = 0, NEW n \in Names
                 PROVE  files'[n] \in {journal.before[n], Changed(journal.before[n], journal.target)}
      BY <2>1, <2>w DEF Inductive, Accounted, At
    <3>1. files[n] \in {journal.before[n], Changed(journal.before[n], journal.target)}
      BY <2>w DEF Inductive, Accounted
    <3> QED BY <3>1, <2>w, <2>y DEF Before, After
  <2>6. Advanced'
    BY <1>0, NamesView, NothingPending, <1>a, <1>b, <2>1, <2>w, <2>y DEF Inductive,
       Advanced, Before, After, At, Working
  <2> QED BY <2>2, <2>3, <2>4, <2>5, <2>6 DEF Inductive
<1>11. ASSUME Start PROVE Typed' /\ Inductive'
  <2>1. /\ helper.stage = "starting"
        /\ helper'.stage = "verifying" /\ helper'.next = 1 /\ helper'.entry = helper.entry
           /\ helper' \in Helper
        /\ runtime' = files[Configuration].setting /\ late' = "none"
        /\ UNCHANGED <<files, journal, reply, faults, kills, edits>>
    BY <1>11, <1>0, NamesView, GotoView DEF Start, At, Stages, Started, Inductive, Halted
  <2>2. Typed'
    BY <1>0, NamesView, NothingPending, <1>a, <2>1 DEF Typed, TypeOK, Outcomes, Working
  <2>3. Journaled'
    BY <1>0, NamesView, NothingPending, <1>b, <2>1 DEF Inductive, Journaled, Working
  <2>4. Halted'
    BY <1>0, NamesView, NothingPending, <1>a, <1>b, <2>1 DEF Inductive, Halted, Working
  <2>5. Accounted'
    BY <1>0, NamesView, NothingPending, <1>a, <1>b, <2>1 DEF Inductive, Halted, Accounted,
       Uniform, Agree, At, Working
  <2>6. Advanced'
    BY <1>0, NamesView, NothingPending, <1>a, <1>b, <2>1 DEF Inductive, Advanced, Before,
       After, At, Working
  <2> QED BY <2>2, <2>3, <2>4, <2>5, <2>6 DEF Inductive
<1>12. ASSUME StartFails PROVE Typed' /\ Inductive'
  <2>1. /\ helper.stage = "starting"
        /\ helper'.stage = "recovering" /\ helper'.next = 1 /\ helper'.entry = helper.entry
           /\ helper' \in Helper
        /\ runtime' \in {runtime, files[Configuration].setting} /\ late' \in {"none", "stop", "start"}
        /\ faults' \in 0..MaxFaults
        /\ UNCHANGED <<files, journal, reply, kills, edits>>
    BY <1>12, <1>0, NamesView, GotoView, FaultView DEF StartFails, At, Stages, StartFailed,
       Started, RollBack
  <2>2. Typed'
    BY <1>0, NamesView, NothingPending, <1>a, <2>1 DEF Typed, TypeOK, Outcomes, Working
  <2>3. Journaled'
    BY <1>0, NamesView, NothingPending, <1>b, <2>1 DEF Inductive, Journaled, Working
  <2>4. Halted'
    BY <1>0, NamesView, NothingPending, <1>a, <1>b, <2>1 DEF Inductive, Halted, Working
  <2>5. Accounted'
    BY <1>0, NamesView, NothingPending, <1>a, <1>b, <2>1 DEF Inductive, Halted, Accounted,
       Uniform, Agree, At, Working
  <2>6. Advanced'
    BY <1>0, NamesView, NothingPending, <1>a, <1>b, <2>1 DEF Inductive, Advanced, Before,
       After, At, Working
  <2> QED BY <2>2, <2>3, <2>4, <2>5, <2>6 DEF Inductive
<1>13. ASSUME Verify PROVE Typed' /\ Inductive'
  <2>1. /\ helper.stage = "verifying"
        /\ helper'.stage = "finishing" /\ helper'.next = 1 /\ helper'.entry = helper.entry
           /\ helper' \in Helper
        /\ UNCHANGED <<files, runtime, late, journal, reply, faults, kills, edits>>
    BY <1>13, <1>0, NamesView, GotoView DEF Verify, At, Stages
  <2>2. Typed'
    BY <1>0, NamesView, NothingPending, <1>a, <2>1 DEF Typed, TypeOK, Outcomes, Working
  <2>3. Journaled'
    BY <1>0, NamesView, NothingPending, <1>b, <2>1 DEF Inductive, Journaled, Working
  <2>4. Halted'
    BY <1>0, NamesView, NothingPending, <1>a, <1>b, <2>1 DEF Inductive, Halted, Working
  <2>5. Accounted'
    BY <1>0, NamesView, NothingPending, <1>a, <1>b, <2>1 DEF Inductive, Halted, Accounted,
       Uniform, Agree, At, Working
  <2>6. Advanced'
    BY <1>0, NamesView, NothingPending, <1>a, <1>b, <2>1 DEF Inductive, Advanced, Before,
       After, At, Working
  <2> QED BY <2>2, <2>3, <2>4, <2>5, <2>6 DEF Inductive
<1>14. ASSUME VerifyFails PROVE Typed' /\ Inductive'
  <2>1. /\ helper.stage = "verifying"
        /\ helper'.stage = "recovering" /\ helper'.next = 1 /\ helper'.entry = helper.entry
           /\ helper' \in Helper
        /\ faults' \in 0..MaxFaults
        /\ UNCHANGED <<files, runtime, late, journal, reply, kills, edits>>
    BY <1>14, <1>0, NamesView, GotoView, FaultView DEF VerifyFails, At, Stages, RollBack
  <2>2. Typed'
    BY <1>0, NamesView, NothingPending, <1>a, <2>1 DEF Typed, TypeOK, Outcomes, Working
  <2>3. Journaled'
    BY <1>0, NamesView, NothingPending, <1>b, <2>1 DEF Inductive, Journaled, Working
  <2>4. Halted'
    BY <1>0, NamesView, NothingPending, <1>a, <1>b, <2>1 DEF Inductive, Halted, Working
  <2>5. Accounted'
    BY <1>0, NamesView, NothingPending, <1>a, <1>b, <2>1 DEF Inductive, Halted, Accounted,
       Uniform, Agree, At, Working
  <2>6. Advanced'
    BY <1>0, NamesView, NothingPending, <1>a, <1>b, <2>1 DEF Inductive, Advanced, Before,
       After, At, Working
  <2> QED BY <2>2, <2>3, <2>4, <2>5, <2>6 DEF Inductive
<1>15. ASSUME Finish PROVE Typed' /\ Inductive'
  <2>1. /\ helper.stage = "finishing"
        /\ helper'.stage = "idle" /\ helper'.next = 1 /\ helper' \in Helper
        /\ journal' = NoJournal
        /\ reply' \in Outcomes
        /\ UNCHANGED <<files, runtime, late, faults, kills, edits>>
    BY <1>15, <1>0, NamesView, AnswerView DEF Finish, At, Outcomes
  <2>w. helper.entry.pending /\ journal = helper.entry /\ journal.pending
    BY <1>0, <1>b, <2>1 DEF Working
  <2>x. edits = 0 => runtime \in Settings /\ Agree(runtime)
    <3>1. \A n \in Names : After(n).setting = helper.entry.target
      BY <1>0, <2>w, AfterView
    <3> QED BY <1>a, <2>1, <3>1, NamesView DEF Inductive, Halted, Advanced, Agree
  <2>2. Typed'
    BY <1>0, NamesView, NothingPending, <1>a, <2>1, <2>w DEF Typed, TypeOK, Outcomes,
       Working
  <2>3. Journaled'
    BY <1>0, NamesView, NothingPending, <1>b, <2>1, <2>w DEF Inductive, Journaled, Working
  <2>4. Halted'
    BY <1>0, NamesView, NothingPending, <1>a, <1>b, <2>1, <2>w DEF Inductive, Halted,
       Working
  <2>5. Accounted'
    BY <1>0, NamesView, NothingPending, <1>a, <1>b, <2>1, <2>w, <2>x DEF Inductive, Halted,
       Accounted, Uniform, Agree, At, Working
  <2>6. Advanced'
    BY <1>0, NamesView, NothingPending, <1>a, <1>b, <2>1 DEF Inductive, Advanced, Before,
       After, At, Working
  <2> QED BY <2>2, <2>3, <2>4, <2>5, <2>6 DEF Inductive
<1>16. ASSUME FinishFails PROVE Typed' /\ Inductive'
  <2>1. /\ helper.stage = "finishing"
        /\ helper'.stage = "recovering" /\ helper'.next = 1 /\ helper'.entry = helper.entry
           /\ helper' \in Helper
        /\ journal' \in {journal, NoJournal}
        /\ faults' \in 0..MaxFaults
        /\ UNCHANGED <<files, runtime, late, reply, kills, edits>>
    BY <1>16, <1>0, NamesView, GotoView, FaultView DEF FinishFails, At, Stages, RollBack
  <2>w. helper.entry.pending /\ journal = helper.entry /\ journal.pending
    BY <1>0, <1>b, <2>1 DEF Working
  <2>x. edits = 0 => runtime \in Settings /\ Agree(runtime)
    <3>1. \A n \in Names : After(n).setting = helper.entry.target
      BY <1>0, <2>w, AfterView
    <3> QED BY <1>a, <2>1, <3>1, NamesView DEF Inductive, Halted, Advanced, Agree
  <2>2. Typed'
    BY <1>0, NamesView, NothingPending, <1>a, <2>1, <2>w DEF Typed, TypeOK, Outcomes,
       Working
  <2>3. Journaled'
    BY <1>0, NamesView, NothingPending, <1>b, <2>1, <2>w DEF Inductive, Journaled, Working
  <2>4. Halted'
    BY <1>0, NamesView, NothingPending, <1>a, <1>b, <2>1, <2>w DEF Inductive, Halted,
       Working
  <2>5. Accounted'
    BY <1>0, NamesView, NothingPending, <1>a, <1>b, <2>1, <2>w, <2>x DEF Inductive, Halted,
       Accounted, Uniform, Agree, At, Working
  <2>6. Advanced'
    BY <1>0, NamesView, NothingPending, <1>a, <1>b, <2>1 DEF Inductive, Advanced, Before,
       After, At, Working
  <2> QED BY <2>2, <2>3, <2>4, <2>5, <2>6 DEF Inductive
<1>17. ASSUME Inspect PROVE Typed' /\ Inductive'
  <2>1. CASE journal.pending
    <3>a. helper' = [helper EXCEPT !.stage = "stopBack", !.next = 1, !.entry = journal]
      BY <1>17, <2>1 DEF Inspect
    <3>b. /\ helper' \in Helper /\ helper'.entry = journal /\ helper'.stage = "stopBack"
          /\ helper'.next = 1
      <4>1. 1 \in 1..(Clients + 3)
        BY BoundAssumption
      <4> QED BY <1>0, <3>a, <4>1 DEF Helper, Stages
    <3>1. /\ helper.stage = "recovering"
          /\ helper'.stage = "stopBack" /\ helper'.next = 1 /\ helper'.entry = journal
          /\ helper' \in Helper
          /\ UNCHANGED <<files, runtime, late, journal, reply, faults, kills, edits>>
      BY <1>17, <2>1, <1>0, NamesView, <3>b DEF Inspect, At
    <3>2. Typed'
      BY <1>0, NamesView, NothingPending, <1>a, <3>1, <2>1 DEF Typed, TypeOK, Outcomes,
         Working
    <3>3. Journaled'
      BY <1>0, NamesView, NothingPending, <1>b, <3>1, <2>1 DEF Inductive, Journaled, Working
    <3>4. Halted'
      BY <1>0, NamesView, NothingPending, <1>a, <1>b, <3>1, <2>1 DEF Inductive, Halted,
         Working
    <3>5. Accounted'
      BY <1>0, NamesView, NothingPending, <1>a, <1>b, <3>1, <2>1 DEF Inductive, Halted,
         Accounted, Uniform, Agree, At, Working
    <3>6. Advanced'
      BY <1>0, NamesView, NothingPending, <1>a, <1>b, <3>1, <2>1 DEF Inductive, Advanced,
         Before, After, At, Working
    <3> QED BY <3>2, <3>3, <3>4, <3>5, <3>6 DEF Inductive
  <2>2. CASE ~ journal.pending
    <3>1. /\ helper.stage = "recovering"
          /\ helper'.stage \in {"planning", "idle"} /\ helper'.next = 1 /\ helper' \in Helper
          /\ reply' \in Outcomes
          /\ UNCHANGED <<files, runtime, late, journal, faults, kills, edits>>
      BY <1>17, <2>2, <1>0, NamesView, AnswerView, GotoView DEF Inspect, At, Stages,
         Outcomes
    <3>2. Typed'
      BY <1>0, NamesView, NothingPending, <1>a, <3>1, <2>2 DEF Typed, TypeOK, Outcomes,
         Working
    <3>3. Journaled'
      BY <1>0, NamesView, NothingPending, <1>b, <3>1, <2>2 DEF Inductive, Journaled, Working
    <3>4. Halted'
      BY <1>0, NamesView, NothingPending, <1>a, <1>b, <3>1, <2>2 DEF Inductive, Halted,
         Working
    <3>5. Accounted'
      BY <1>0, NamesView, NothingPending, <1>a, <1>b, <3>1, <2>2 DEF Inductive, Halted,
         Accounted, Uniform, Agree, At, Working
    <3>6. Advanced'
      BY <1>0, NamesView, NothingPending, <1>a, <1>b, <3>1, <2>2 DEF Inductive, Advanced,
         Before, After, At, Working
    <3> QED BY <3>2, <3>3, <3>4, <3>5, <3>6 DEF Inductive
  <2> QED BY <2>1, <2>2
<1>18. ASSUME InspectFails PROVE Typed' /\ Inductive'
  <2>1. /\ helper.stage = "recovering"
        /\ helper'.stage = "idle" /\ helper'.next = 1 /\ helper' \in Helper
        /\ faults' \in 0..MaxFaults
        /\ reply' \in Outcomes
        /\ UNCHANGED <<files, runtime, late, journal, kills, edits>>
    BY <1>18, <1>0, NamesView, AnswerView, FaultView DEF InspectFails, At, RecoveryFailed,
       Outcomes
  <2>2. Typed'
    BY <1>0, NamesView, NothingPending, <1>a, <2>1 DEF Typed, TypeOK, Outcomes, Working
  <2>3. Journaled'
    BY <1>0, NamesView, NothingPending, <1>b, <2>1 DEF Inductive, Journaled, Working
  <2>4. Halted'
    BY <1>0, NamesView, NothingPending, <1>a, <1>b, <2>1 DEF Inductive, Halted, Working
  <2>5. Accounted'
    BY <1>0, NamesView, NothingPending, <1>a, <1>b, <2>1 DEF Inductive, Halted, Accounted,
       Uniform, Agree, At, Working
  <2>6. Advanced'
    BY <1>0, NamesView, NothingPending, <1>a, <1>b, <2>1 DEF Inductive, Advanced, Before,
       After, At, Working
  <2> QED BY <2>2, <2>3, <2>4, <2>5, <2>6 DEF Inductive
<1>19. ASSUME StopBack PROVE Typed' /\ Inductive'
  <2>1. /\ helper.stage = "stopBack"
        /\ helper'.stage = "restoring" /\ helper'.next = 1 /\ helper'.entry = helper.entry
           /\ helper' \in Helper
        /\ runtime' = Down /\ late' = "none"
        /\ UNCHANGED <<files, journal, reply, faults, kills, edits>>
    BY <1>19, <1>0, NamesView, GotoView DEF StopBack, At, Stages, Stopped
  <2>2. Typed'
    BY <1>0, NamesView, NothingPending, <1>a, <2>1 DEF Typed, TypeOK, Outcomes, Working
  <2>3. Journaled'
    BY <1>0, NamesView, NothingPending, <1>b, <2>1 DEF Inductive, Journaled, Working
  <2>4. Halted'
    BY <1>0, NamesView, NothingPending, <1>a, <1>b, <2>1 DEF Inductive, Halted, Working
  <2>5. Accounted'
    BY <1>0, NamesView, NothingPending, <1>a, <1>b, <2>1 DEF Inductive, Halted, Accounted,
       Uniform, Agree, At, Working
  <2>6. Advanced'
    BY <1>0, NamesView, NothingPending, <1>a, <1>b, <2>1 DEF Inductive, Advanced, Before,
       After, At, Working
  <2> QED BY <2>2, <2>3, <2>4, <2>5, <2>6 DEF Inductive
<1>20. ASSUME StopBackFails PROVE Typed' /\ Inductive'
  <2>1. /\ helper.stage = "stopBack"
        /\ helper'.stage = "idle" /\ helper'.next = 1 /\ helper' \in Helper
        /\ runtime' \in {runtime, Down} /\ late' \in {"none", "stop", "start"}
        /\ faults' \in 0..MaxFaults
        /\ reply' \in Outcomes
        /\ UNCHANGED <<files, journal, kills, edits>>
    BY <1>20, <1>0, NamesView, AnswerView, FaultView DEF StopBackFails, At, StopFailed,
       RecoveryFailed, Outcomes
  <2>2. Typed'
    BY <1>0, NamesView, NothingPending, <1>a, <2>1 DEF Typed, TypeOK, Outcomes, Working
  <2>3. Journaled'
    BY <1>0, NamesView, NothingPending, <1>b, <2>1 DEF Inductive, Journaled, Working
  <2>4. Halted'
    BY <1>0, NamesView, NothingPending, <1>a, <1>b, <2>1 DEF Inductive, Halted, Working
  <2>5. Accounted'
    BY <1>0, NamesView, NothingPending, <1>a, <1>b, <2>1 DEF Inductive, Halted, Accounted,
       Uniform, Agree, At, Working
  <2>6. Advanced'
    BY <1>0, NamesView, NothingPending, <1>a, <1>b, <2>1 DEF Inductive, Advanced, Before,
       After, At, Working
  <2> QED BY <2>2, <2>3, <2>4, <2>5, <2>6 DEF Inductive
<1>21. ASSUME Restore PROVE Typed' /\ Inductive'
  <2>1. /\ helper.stage = "restoring"
        /\ helper'.entry = helper.entry /\ helper' \in Helper /\ helper'.next \in Names
        /\ \/ /\ helper.next = Clients + 2
              /\ helper'.stage = "startBack" /\ helper'.next = 1
           \/ /\ helper.next # Clients + 2
              /\ helper'.stage = "restoring" /\ helper'.next = helper.next + 1
        /\ files' = Restored(Undone(helper.next))
        /\ UNCHANGED <<runtime, late, journal, reply, faults, kills, edits>>
    BY <1>21, <1>0, NamesView, ContinueView DEF Restore, At, Stages
  <2>w. /\ helper.entry.pending /\ helper.next \in Names /\ journal = helper.entry
        /\ journal.pending
    BY <1>0, <1>b, <2>1 DEF Working
  <2>x. Undone(helper.next) \in Names
    BY <2>w, UndoneView
  <2>y. /\ files' \in [Names -> Content] /\ \A n \in Names : files'[n].text <= edits
        /\ \A n \in Names : files'[n] \in {files[n], Before(n)}
        /\ \A n \in Names \ {Undone(helper.next)} : files'[n] = files[n]
    BY <1>0, <2>1, <2>w, <2>x, RestoredView
  <2>2. Typed'
    BY <1>0, NamesView, NothingPending, <1>a, <2>1, <2>w, <2>y DEF Typed, TypeOK, Outcomes,
       Working
  <2>3. Journaled'
    BY <1>0, NamesView, NothingPending, <1>b, <2>1, <2>w DEF Inductive, Journaled, Working
  <2>4. Halted'
    BY <1>0, NamesView, NothingPending, <1>a, <1>b, <2>1, <2>w DEF Inductive, Halted,
       Working
  <2>5. Accounted'
    <3> SUFFICES ASSUME edits = 0, NEW n \in Names
                 PROVE  files'[n] \in {journal.before[n], Changed(journal.before[n], journal.target)}
      BY <2>1, <2>w DEF Inductive, Accounted, At
    <3>1. files[n] \in {journal.before[n], Changed(journal.before[n], journal.target)}
      BY <2>w DEF Inductive, Accounted
    <3> QED BY <3>1, <2>w, <2>y DEF Before, After
  <2>6. Advanced'
    <3> SUFFICES ASSUME edits = 0 PROVE Advanced'
      BY <2>1 DEF Advanced
    <3> DEFINE m == Undone(helper.next)
    <3>1. files[m] \in {Before(m), After(m)}
      BY <2>w, <2>x, <2>1 DEF Inductive, Accounted, Before, After
    <3>2. files'[m] = Before(m)
      BY <1>0, <2>1, <2>w, <2>x, <3>1, RestoredView
    <3>3. ASSUME NEW k \in Names, k <= helper.next
          PROVE  files'[Undone(k)] = Before(Undone(k))
      <4>1. CASE k = helper.next
        BY <3>2, <4>1
      <4>2. CASE k # helper.next
        <5>1. k < helper.next /\ Undone(k) \in Names /\ Undone(k) # m
          BY <2>w, <3>3, <4>2, NamesView, UndoneView
        <5>2. files[Undone(k)] = Before(Undone(k))
          BY <2>1, <3>3, <5>1 DEF Inductive, Advanced, At
        <5> QED BY <2>y, <5>1, <5>2
      <4> QED BY <4>1, <4>2
    <3>4. \A n \in Names : helper'.entry.before[n] = Before(n)
      BY <2>1 DEF Before
    <3>5. CASE helper.next = Clients + 2
      <4>1. ASSUME NEW n \in Names PROVE files'[n] = Before(n)
        <5>1. PICK k \in Names : Undone(k) = n
          BY UndoneView
        <5>2. k <= helper.next
          BY <3>5, NamesView
        <5> QED BY <3>3, <5>1, <5>2
      <4> QED BY <2>1, <3>5, <4>1 DEF Advanced, Before, At
    <3>6. CASE helper.next # Clients + 2
      <4>1. \A k \in Names : k < helper.next + 1 => k <= helper.next
        BY <2>w, NamesView
      <4>2. \A k \in Names : Undone(k) \in Names
        BY UndoneView
      <4> QED BY <2>1, <3>3, <3>4, <3>6, <4>1, <4>2 DEF Advanced, Before, At
    <3> QED BY <3>5, <3>6
  <2> QED BY <2>2, <2>3, <2>4, <2>5, <2>6 DEF Inductive
<1>22. ASSUME RestoreFails PROVE Typed' /\ Inductive'
  <2>1. /\ helper.stage = "restoring"
        /\ helper'.stage = "idle" /\ helper'.next = 1 /\ helper' \in Helper
        /\ files' \in {files, Restored(Undone(helper.next))}
        /\ faults' \in 0..MaxFaults
        /\ reply' \in Outcomes
        /\ UNCHANGED <<runtime, late, journal, kills, edits>>
    BY <1>22, <1>0, NamesView, AnswerView, FaultView DEF RestoreFails, At, RecoveryFailed,
       Outcomes
  <2>w. /\ helper.entry.pending /\ helper.next \in Names /\ journal = helper.entry
        /\ journal.pending
    BY <1>0, <1>b, <2>1 DEF Working
  <2>x. Undone(helper.next) \in Names
    BY <2>w, UndoneView
  <2>y. /\ files' \in [Names -> Content] /\ \A n \in Names : files'[n].text <= edits
        /\ \A n \in Names : files'[n] \in {files[n], Before(n)}
        /\ \A n \in Names \ {Undone(helper.next)} : files'[n] = files[n]
    BY <1>0, <2>1, <2>w, <2>x, RestoredView
  <2>2. Typed'
    BY <1>0, NamesView, NothingPending, <1>a, <2>1, <2>w, <2>y DEF Typed, TypeOK, Outcomes,
       Working
  <2>3. Journaled'
    BY <1>0, NamesView, NothingPending, <1>b, <2>1, <2>w DEF Inductive, Journaled, Working
  <2>4. Halted'
    BY <1>0, NamesView, NothingPending, <1>a, <1>b, <2>1, <2>w DEF Inductive, Halted,
       Working
  <2>5. Accounted'
    <3> SUFFICES ASSUME edits = 0, NEW n \in Names
                 PROVE  files'[n] \in {journal.before[n], Changed(journal.before[n], journal.target)}
      BY <2>1, <2>w DEF Inductive, Accounted, At
    <3>1. files[n] \in {journal.before[n], Changed(journal.before[n], journal.target)}
      BY <2>w DEF Inductive, Accounted
    <3> QED BY <3>1, <2>w, <2>y DEF Before, After
  <2>6. Advanced'
    BY <1>0, NamesView, NothingPending, <1>a, <1>b, <2>1 DEF Inductive, Advanced, Before,
       After, At, Working
  <2> QED BY <2>2, <2>3, <2>4, <2>5, <2>6 DEF Inductive
<1>23. ASSUME StartBack PROVE Typed' /\ Inductive'
  <2>1. /\ helper.stage = "startBack"
        /\ helper'.stage = "verifyBack" /\ helper'.next = 1 /\ helper'.entry = helper.entry
           /\ helper' \in Helper
        /\ runtime' = files[Configuration].setting /\ late' = "none"
        /\ UNCHANGED <<files, journal, reply, faults, kills, edits>>
    BY <1>23, <1>0, NamesView, GotoView DEF StartBack, At, Stages, Started, Inductive,
       Halted
  <2>2. Typed'
    BY <1>0, NamesView, NothingPending, <1>a, <2>1 DEF Typed, TypeOK, Outcomes, Working
  <2>3. Journaled'
    BY <1>0, NamesView, NothingPending, <1>b, <2>1 DEF Inductive, Journaled, Working
  <2>4. Halted'
    BY <1>0, NamesView, NothingPending, <1>a, <1>b, <2>1 DEF Inductive, Halted, Working
  <2>5. Accounted'
    BY <1>0, NamesView, NothingPending, <1>a, <1>b, <2>1 DEF Inductive, Halted, Accounted,
       Uniform, Agree, At, Working
  <2>6. Advanced'
    BY <1>0, NamesView, NothingPending, <1>a, <1>b, <2>1 DEF Inductive, Advanced, Before,
       After, At, Working
  <2> QED BY <2>2, <2>3, <2>4, <2>5, <2>6 DEF Inductive
<1>24. ASSUME StartBackFails PROVE Typed' /\ Inductive'
  <2>1. /\ helper.stage = "startBack"
        /\ helper'.stage = "idle" /\ helper'.next = 1 /\ helper' \in Helper
        /\ runtime' \in {runtime, files[Configuration].setting} /\ late' \in {"none", "stop", "start"}
        /\ faults' \in 0..MaxFaults
        /\ reply' \in Outcomes
        /\ UNCHANGED <<files, journal, kills, edits>>
    BY <1>24, <1>0, NamesView, AnswerView, FaultView DEF StartBackFails, At, StartFailed,
       Started, RecoveryFailed, Outcomes
  <2>2. Typed'
    BY <1>0, NamesView, NothingPending, <1>a, <2>1 DEF Typed, TypeOK, Outcomes, Working
  <2>3. Journaled'
    BY <1>0, NamesView, NothingPending, <1>b, <2>1 DEF Inductive, Journaled, Working
  <2>4. Halted'
    BY <1>0, NamesView, NothingPending, <1>a, <1>b, <2>1 DEF Inductive, Halted, Working
  <2>5. Accounted'
    BY <1>0, NamesView, NothingPending, <1>a, <1>b, <2>1 DEF Inductive, Halted, Accounted,
       Uniform, Agree, At, Working
  <2>6. Advanced'
    BY <1>0, NamesView, NothingPending, <1>a, <1>b, <2>1 DEF Inductive, Advanced, Before,
       After, At, Working
  <2> QED BY <2>2, <2>3, <2>4, <2>5, <2>6 DEF Inductive
<1>25. ASSUME VerifyBack PROVE Typed' /\ Inductive'
  <2>1. /\ helper.stage = "verifyBack"
        /\ helper'.stage = "finishBack" /\ helper'.next = 1 /\ helper'.entry = helper.entry
           /\ helper' \in Helper
        /\ UNCHANGED <<files, runtime, late, journal, reply, faults, kills, edits>>
    BY <1>25, <1>0, NamesView, GotoView DEF VerifyBack, At, Stages
  <2>2. Typed'
    BY <1>0, NamesView, NothingPending, <1>a, <2>1 DEF Typed, TypeOK, Outcomes, Working
  <2>3. Journaled'
    BY <1>0, NamesView, NothingPending, <1>b, <2>1 DEF Inductive, Journaled, Working
  <2>4. Halted'
    BY <1>0, NamesView, NothingPending, <1>a, <1>b, <2>1 DEF Inductive, Halted, Working
  <2>5. Accounted'
    BY <1>0, NamesView, NothingPending, <1>a, <1>b, <2>1 DEF Inductive, Halted, Accounted,
       Uniform, Agree, At, Working
  <2>6. Advanced'
    BY <1>0, NamesView, NothingPending, <1>a, <1>b, <2>1 DEF Inductive, Advanced, Before,
       After, At, Working
  <2> QED BY <2>2, <2>3, <2>4, <2>5, <2>6 DEF Inductive
<1>26. ASSUME VerifyBackFails PROVE Typed' /\ Inductive'
  <2>1. /\ helper.stage = "verifyBack"
        /\ helper'.stage = "idle" /\ helper'.next = 1 /\ helper' \in Helper
        /\ faults' \in 0..MaxFaults
        /\ reply' \in Outcomes
        /\ UNCHANGED <<files, runtime, late, journal, kills, edits>>
    BY <1>26, <1>0, NamesView, AnswerView, FaultView DEF VerifyBackFails, At,
       RecoveryFailed, Outcomes
  <2>2. Typed'
    BY <1>0, NamesView, NothingPending, <1>a, <2>1 DEF Typed, TypeOK, Outcomes, Working
  <2>3. Journaled'
    BY <1>0, NamesView, NothingPending, <1>b, <2>1 DEF Inductive, Journaled, Working
  <2>4. Halted'
    BY <1>0, NamesView, NothingPending, <1>a, <1>b, <2>1 DEF Inductive, Halted, Working
  <2>5. Accounted'
    BY <1>0, NamesView, NothingPending, <1>a, <1>b, <2>1 DEF Inductive, Halted, Accounted,
       Uniform, Agree, At, Working
  <2>6. Advanced'
    BY <1>0, NamesView, NothingPending, <1>a, <1>b, <2>1 DEF Inductive, Advanced, Before,
       After, At, Working
  <2> QED BY <2>2, <2>3, <2>4, <2>5, <2>6 DEF Inductive
<1>27. ASSUME FinishBack PROVE Typed' /\ Inductive'
  <2>1. /\ helper.stage = "finishBack"
        /\ helper'.stage \in {"planning", "idle"} /\ helper'.next = 1 /\ helper' \in Helper
        /\ journal' = NoJournal
        /\ reply' \in Outcomes
        /\ UNCHANGED <<files, runtime, late, faults, kills, edits>>
    BY <1>27, <1>0, NamesView, AnswerView, GotoView DEF FinishBack, At, Stages, Outcomes
  <2>w. helper.entry.pending /\ journal = helper.entry /\ journal.pending
    BY <1>0, <1>b, <2>1 DEF Working
  <2>x. edits = 0 => runtime \in Settings /\ Agree(runtime)
    <3> SUFFICES ASSUME edits = 0 PROVE runtime \in Settings /\ Agree(runtime)
      OBVIOUS
    <3>1. PICK s \in Settings : \A n \in Names : journal.before[n].setting = s
      BY <2>w DEF Inductive, Accounted, Uniform
    <3>2. \A n \in Names : files[n] = journal.before[n]
      BY <2>1, <2>w DEF Inductive, Advanced, Before
    <3>3. runtime = files[Configuration].setting
      BY <2>1 DEF Inductive, Halted
    <3> QED BY <3>1, <3>2, <3>3, NamesView DEF Agree
  <2>2. Typed'
    BY <1>0, NamesView, NothingPending, <1>a, <2>1, <2>w DEF Typed, TypeOK, Outcomes,
       Working
  <2>3. Journaled'
    BY <1>0, NamesView, NothingPending, <1>b, <2>1, <2>w DEF Inductive, Journaled, Working
  <2>4. Halted'
    BY <1>0, NamesView, NothingPending, <1>a, <1>b, <2>1, <2>w DEF Inductive, Halted,
       Working
  <2>5. Accounted'
    BY <1>0, NamesView, NothingPending, <1>a, <1>b, <2>1, <2>w, <2>x DEF Inductive, Halted,
       Accounted, Uniform, Agree, At, Working
  <2>6. Advanced'
    BY <1>0, NamesView, NothingPending, <1>a, <1>b, <2>1 DEF Inductive, Advanced, Before,
       After, At, Working
  <2> QED BY <2>2, <2>3, <2>4, <2>5, <2>6 DEF Inductive
<1>28. ASSUME FinishBackFails PROVE Typed' /\ Inductive'
  <2>1. /\ helper.stage = "finishBack"
        /\ helper'.stage = "idle" /\ helper'.next = 1 /\ helper' \in Helper
        /\ journal' \in {journal, NoJournal}
        /\ faults' \in 0..MaxFaults
        /\ reply' \in Outcomes
        /\ UNCHANGED <<files, runtime, late, kills, edits>>
    BY <1>28, <1>0, NamesView, AnswerView, FaultView DEF FinishBackFails, At,
       RecoveryFailed, Outcomes
  <2>w. helper.entry.pending /\ journal = helper.entry /\ journal.pending
    BY <1>0, <1>b, <2>1 DEF Working
  <2>x. edits = 0 => runtime \in Settings /\ Agree(runtime)
    <3> SUFFICES ASSUME edits = 0 PROVE runtime \in Settings /\ Agree(runtime)
      OBVIOUS
    <3>1. PICK s \in Settings : \A n \in Names : journal.before[n].setting = s
      BY <2>w DEF Inductive, Accounted, Uniform
    <3>2. \A n \in Names : files[n] = journal.before[n]
      BY <2>1, <2>w DEF Inductive, Advanced, Before
    <3>3. runtime = files[Configuration].setting
      BY <2>1 DEF Inductive, Halted
    <3> QED BY <3>1, <3>2, <3>3, NamesView DEF Agree
  <2>2. Typed'
    BY <1>0, NamesView, NothingPending, <1>a, <2>1, <2>w DEF Typed, TypeOK, Outcomes,
       Working
  <2>3. Journaled'
    BY <1>0, NamesView, NothingPending, <1>b, <2>1, <2>w DEF Inductive, Journaled, Working
  <2>4. Halted'
    BY <1>0, NamesView, NothingPending, <1>a, <1>b, <2>1, <2>w DEF Inductive, Halted,
       Working
  <2>5. Accounted'
    BY <1>0, NamesView, NothingPending, <1>a, <1>b, <2>1, <2>w, <2>x DEF Inductive, Halted,
       Accounted, Uniform, Agree, At, Working
  <2>6. Advanced'
    BY <1>0, NamesView, NothingPending, <1>a, <1>b, <2>1 DEF Inductive, Advanced, Before,
       After, At, Working
  <2> QED BY <2>2, <2>3, <2>4, <2>5, <2>6 DEF Inductive
<1>29. ASSUME Kill PROVE Typed' /\ Inductive'
  <2>1. /\ helper.stage # "idle"
        /\ helper'.stage = "idle" /\ helper'.next = 1 /\ helper' \in Helper
        /\ \/ late' = late
           \/ helper.stage \in Working /\ late' \in {"none", "stop", "start"}
        /\ kills' \in 0..MaxKills
        /\ reply' \in Outcomes
        /\ UNCHANGED <<files, runtime, journal, faults, edits>>
    BY <1>29, <1>0, NamesView, AnswerView, BudgetView DEF Kill, At, Outcomes, Working
  <2>2. Typed'
    BY <1>0, NamesView, NothingPending, <1>a, <2>1 DEF Typed, TypeOK, Outcomes, Working
  <2>3. Journaled'
    BY <1>0, NamesView, NothingPending, <1>b, <2>1 DEF Inductive, Journaled, Working
  <2>4. Halted'
    BY <1>0, NamesView, NothingPending, <1>a, <1>b, <2>1 DEF Inductive, Halted, Working
  <2>5. Accounted'
    BY <1>0, NamesView, NothingPending, <1>a, <1>b, <2>1 DEF Inductive, Halted, Accounted,
       Uniform, Agree, At, Working
  <2>6. Advanced'
    BY <1>0, NamesView, NothingPending, <1>a, <1>b, <2>1 DEF Inductive, Advanced, Before,
       After, At, Working
  <2> QED BY <2>2, <2>3, <2>4, <2>5, <2>6 DEF Inductive
<1>30. ASSUME Reboot PROVE Typed' /\ Inductive'
  <2>1. /\ helper'.stage = "idle" /\ helper'.next = 1 /\ helper' \in Helper
        /\ runtime' = files[Configuration].setting /\ late' = "none"
        /\ kills' \in 0..MaxKills
        /\ reply' \in Outcomes
        /\ UNCHANGED <<files, journal, faults, edits>>
    BY <1>30, <1>0, NamesView, AnswerView, BudgetView DEF Reboot, Outcomes
  <2>2. Typed'
    BY <1>0, NamesView, NothingPending, <1>a, <2>1 DEF Typed, TypeOK, Outcomes, Working
  <2>3. Journaled'
    BY <1>0, NamesView, NothingPending, <1>b, <2>1 DEF Inductive, Journaled, Working
  <2>4. Halted'
    BY <1>0, NamesView, NothingPending, <1>a, <1>b, <2>1 DEF Inductive, Halted, Working
  <2>5. Accounted'
    BY <1>0, NamesView, NothingPending, <1>a, <1>b, <2>1 DEF Inductive, Halted, Accounted,
       Uniform, Agree, At, Working
  <2>6. Advanced'
    BY <1>0, NamesView, NothingPending, <1>a, <1>b, <2>1 DEF Inductive, Advanced, Before,
       After, At, Working
  <2> QED BY <2>2, <2>3, <2>4, <2>5, <2>6 DEF Inductive
<1>31. ASSUME LateJob PROVE Typed' /\ Inductive'
  <2>1. /\ late # "none" /\ late' = "none" /\ helper' = helper
        /\ runtime' \in {runtime, Down, files[Configuration].setting}
        /\ UNCHANGED <<files, journal, reply, faults, kills, edits>>
    BY <1>31, <1>0, NamesView DEF LateJob, Stopped, Started
  <2>2. Typed'
    BY <1>0, NamesView, NothingPending, <1>a, <2>1 DEF Typed, TypeOK, Outcomes, Working
  <2>3. Journaled'
    BY <1>0, NamesView, NothingPending, <1>b, <2>1 DEF Inductive, Journaled, Working
  <2>4. Halted'
    BY <1>0, NamesView, NothingPending, <1>a, <1>b, <2>1 DEF Inductive, Halted, Working
  <2>5. Accounted'
    BY <1>0, NamesView, NothingPending, <1>a, <1>b, <2>1 DEF Inductive, Halted, Accounted,
       Uniform, Agree, At, Working
  <2>6. Advanced'
    BY <1>0, NamesView, NothingPending, <1>a, <1>b, <2>1 DEF Inductive, Advanced, Before,
       After, At, Working
  <2> QED BY <2>2, <2>3, <2>4, <2>5, <2>6 DEF Inductive
<1>32. ASSUME NEW n \in Names, Edit(n) PROVE Typed' /\ Inductive'
  <2>a. edits' = edits + 1 /\ edits < MaxEdits
    BY <1>32 DEF Edit
  <2>b. files' = [files EXCEPT ![n].text = @ + 1]
    BY <1>32 DEF Edit
  <2>c. edits' \in 1..MaxEdits /\ edits < edits'
    BY <1>0, <2>a, BoundAssumption
  <2>d. files[n] \in Content /\ files[n].text + 1 \in Text /\ files[n].text + 1 <= edits'
    BY <1>0, <2>a, ContentView, BoundAssumption DEF Text
  <2>e. files' \in [Names -> Content]
    BY <1>0, <2>b, <2>d DEF Content
  <2>f. \A m \in Names : files'[m].setting = files[m].setting /\ files'[m].text <= edits'
    BY <1>0, <2>b, <2>c, <2>d, ContentView DEF Content
  <2>1. /\ helper' = helper
        /\ edits' \in 1..MaxEdits
        /\ files' \in [Names -> Content]
        /\ \A m \in Names : files'[m].setting = files[m].setting /\ files'[m].text <= edits'
        /\ UNCHANGED <<runtime, late, journal, reply, faults, kills>>
    BY <1>32, <1>0, NamesView, <2>c, <2>e, <2>f DEF Edit
  <2>2. Typed'
    <3>1. edits' \in 0..MaxEdits
      BY <2>c
    <3>2. TypeOK'
      BY <1>0, <2>1, <3>1 DEF TypeOK, Outcomes
    <3>3. helper.stage \in Working \cup {"journaling"} => helper.entry.pending
      BY DEF Typed
    <3> QED BY <1>0, <2>1, <3>2, <3>3 DEF Typed
  <2>3. Journaled'
    BY <1>0, NamesView, NothingPending, <1>b, <2>1 DEF Inductive, Journaled, Working
  <2>4. Halted'
    BY <1>0, NamesView, NothingPending, <1>a, <1>b, <2>1 DEF Inductive, Halted, Working
  <2>5. Accounted'
    <3>1. edits' # 0
      BY <2>c
    <3> QED BY <3>1 DEF Accounted
  <2>6. Advanced'
    <3>1. edits' # 0
      BY <2>c
    <3> QED BY <3>1 DEF Advanced
  <2> QED BY <2>2, <2>3, <2>4, <2>5, <2>6 DEF Inductive
<1>33. ASSUME UNCHANGED vars PROVE Typed' /\ Inductive'
  <2>1. /\ helper' = helper
        /\ UNCHANGED <<files, runtime, late, journal, reply, faults, kills, edits>>
    BY <1>33, <1>0, NamesView DEF vars
  <2>2. Typed'
    BY <1>0, NamesView, NothingPending, <1>a, <2>1 DEF Typed, TypeOK, Outcomes, Working
  <2>3. Journaled'
    BY <1>0, NamesView, NothingPending, <1>b, <2>1 DEF Inductive, Journaled, Working
  <2>4. Halted'
    BY <1>0, NamesView, NothingPending, <1>a, <1>b, <2>1 DEF Inductive, Halted, Working
  <2>5. Accounted'
    BY <1>0, NamesView, NothingPending, <1>a, <1>b, <2>1 DEF Inductive, Halted, Accounted,
       Uniform, Agree, At, Working
  <2>6. Advanced'
    BY <1>0, NamesView, NothingPending, <1>a, <1>b, <2>1 DEF Inductive, Advanced, Before,
       After, At, Working
  <2> QED BY <2>2, <2>3, <2>4, <2>5, <2>6 DEF Inductive
<1> QED BY <1>1, <1>2, <1>3, <1>4, <1>5, <1>6, <1>7, <1>8, <1>9, <1>10, <1>11, <1>12,
    <1>13, <1>14, <1>15, <1>16, <1>17, <1>18, <1>19, <1>20, <1>21, <1>22, <1>23, <1>24,
    <1>25, <1>26, <1>27, <1>28, <1>29, <1>30, <1>31, <1>32, <1>33
    DEF Next, Work, Failure, Environment

\* The invariant holds in every reachable state.
LEMMA AlwaysInductive == Spec => [](Typed /\ Inductive)
BY InitInductive, NextInductive, PTL DEF Spec

-----------------------------------------------------------------------------
(* The theorems                                                            *)

\* With no journal, every file has the same setting, and once no helper works the
\* interface runs with it: until a file is edited by hand, no failure, no kill and no
\* reboot leaves a client's saved configuration behind.
THEOREM FilesStayInAgreement == Spec => []FilesAgree
<1>1. Typed /\ Inductive => FilesAgree
  <2> SUFFICES ASSUME Typed, Inductive PROVE FilesAgree
    OBVIOUS
  <2>1. runtime # Down \/ runtime \notin Settings
    BY DownAssumption
  <2>2. ASSUME edits = 0, ~ journal.pending
        PROVE  runtime \in Settings /\ Agree(runtime)
    BY <2>2 DEF Inductive, Accounted
  <2> QED BY <2>1, <2>2 DEF FilesAgree, Typed
<1> QED BY <1>1, AlwaysInductive, PTL

\* A rollback or a recovery that removes the journal has restored every file, of any
\* number of clients, that nobody has edited.
THEOREM RecoveriesRestore == Spec => RecoveryRestores
<1>1. Typed /\ Inductive /\ [Next]_vars =>
        [At("finishBack") /\ ~ journal'.pending /\ edits = 0
           => \A n \in Names : files'[n].setting = Before(n).setting]_vars
  <2> SUFFICES ASSUME Typed, Inductive, [Next]_vars, At("finishBack"), edits = 0,
                      NEW n \in Names
               PROVE  files'[n].setting = Before(n).setting
    OBVIOUS
  <2>1. files[n] = Before(n)
    BY DEF Inductive, Advanced, At
  <2>2. CASE \E m \in Names : Edit(m)
    <3>1. PICK m \in Names : files' = [files EXCEPT ![m].text = @ + 1]
      BY <2>2 DEF Edit
    <3>2. files \in [Names -> Content]
      BY DEF Typed, TypeOK
    <3>3. files'[n].setting = files[n].setting
      BY <3>1, <3>2 DEF Content
    <3> QED BY <2>1, <3>3
  <2>3. CASE ~ \E m \in Names : Edit(m)
    <3>1. files' = files
      BY <2>3 DEF Next, Work, Failure, Environment, At, Call, List, Plan, WriteJournal,
         Stop,
         Write, WriteFails, Start, Verify, VerifyFails, Finish, Inspect, InspectFails, StopBack,
         Restore, StartBack, VerifyBack, VerifyBackFails, FinishBack, PlanFails,
         WriteJournalFails, StopFails, StartFails, FinishFails, StopBackFails, RestoreFails,
         StartBackFails, FinishBackFails, Kill, Reboot, LateJob, vars
    <3> QED BY <2>1, <3>1
  <2> QED BY <2>2, <2>3
<1> QED BY <1>1, AlwaysInductive, PTL DEF Spec, RecoveryRestores

\* The helper changes a file only while the interface is down: a stop that systemd carries
\* out late never meets it, nor does a start.
THEOREM FilesWrittenWhileDown == Spec => WrittenWhileDown
<1>1. Typed /\ Inductive /\ [Next]_vars =>
        [~ At("idle") /\ edits' = edits /\ files' # files => runtime = Down]_vars
  <2> SUFFICES ASSUME Typed, Inductive, [Next]_vars, edits' = edits, files' # files
               PROVE  runtime = Down
    OBVIOUS
  <2>1. edits \in 0..MaxEdits
    BY DEF Typed, TypeOK
  <2>2. \A m \in Names : ~ Edit(m)
    BY <2>1, BoundAssumption DEF Edit
  <2>3. Write \/ WriteFails \/ Restore \/ RestoreFails
    BY <2>2 DEF Next, Work, Failure, Environment, Call, List, Plan, WriteJournal, Stop,
       Start, Verify, VerifyFails, Finish, Inspect, InspectFails, StopBack,
       StartBack, VerifyBack, VerifyBackFails, FinishBack, PlanFails,
       WriteJournalFails, StopFails, StartFails, FinishFails, StopBackFails,
       StartBackFails, FinishBackFails, Kill, Reboot, LateJob, vars
  <2> QED BY <2>3 DEF Inductive, Halted, Write, WriteFails, Restore, RestoreFails, At
<1> QED BY <1>1, AlwaysInductive, PTL DEF Spec, WrittenWhileDown

\* A step of the helper keeps the text of every file.
LEMMA TextsAreKept ==
    Typed /\ Inductive /\ [Next]_vars => \A n \in Names : files'[n].text >= files[n].text
<1> SUFFICES ASSUME Typed, Inductive, [Next]_vars, NEW n \in Names
             PROVE  files'[n].text >= files[n].text
  OBVIOUS
<1>0. files \in [Names -> Content] /\ files[n].text \in Nat /\ helper \in Helper
  BY ContentView DEF Typed, TypeOK
<1>1. helper.entry \in Journal
  BY <1>0 DEF Helper
<1>2. CASE UNCHANGED files
  BY <1>0, <1>2
<1>3. CASE Write \/ WriteFails
  <2> DEFINE k == helper.next
  <2>1. helper.entry.pending /\ k \in Names
    BY <1>3 DEF Typed, Working, Write, WriteFails, At
  <2>2. \/ files' = files
        \/ files[k] = Before(k) /\ files' = [files EXCEPT ![k] = After(k)]
    BY <1>3 DEF Write, WriteFails
  <2>3. After(k).text = Before(k).text
    BY <1>1, <2>1, AfterView
  <2>4. files'[n].text = files[n].text
    BY <1>0, <2>1, <2>2, <2>3
  <2> QED BY <1>0, <2>4
<1>4. CASE Restore \/ RestoreFails
  <2> DEFINE k == Undone(helper.next)
  <2>1. helper.entry.pending /\ k \in Names
    BY <1>4, UndoneView DEF Typed, Working, Restore, RestoreFails, At
  <2>2. files' = files \/ files' = Restored(k)
    BY <1>4 DEF Restore, RestoreFails
  <2>3. files'[n].text = files[n].text
    BY <1>0, <1>1, <2>1, <2>2, RestoredView
  <2> QED BY <1>0, <2>3
<1>5. CASE \E m \in Names : Edit(m)
  <2>1. PICK m \in Names : files' = [files EXCEPT ![m].text = @ + 1]
    BY <1>5 DEF Edit
  <2>2. files'[n].text = files[n].text \/ files'[n].text = files[n].text + 1
    BY <1>0, <2>1 DEF Content
  <2> QED BY <1>0, <2>2
<1>6. \/ UNCHANGED files \/ Write \/ WriteFails \/ Restore \/ RestoreFails
      \/ \E m \in Names : Edit(m)
  BY DEF Next, Work, Failure, Environment, Call, List, Plan, WriteJournal, Stop,
     Start, Verify, VerifyFails, Finish, Inspect, InspectFails, StopBack,
     StartBack, VerifyBack, VerifyBackFails, FinishBack, PlanFails,
     WriteJournalFails, StopFails, StartFails, FinishFails, StopBackFails,
     StartBackFails, FinishBackFails, Kill, Reboot, LateJob, vars
<1> QED BY <1>2, <1>3, <1>4, <1>5, <1>6

\* Nothing written by hand is undone by a migration, a rollback or a recovery, in any file
\* and at any moment.
THEOREM EditsAreKept == Spec => EditsSurvive
<1>1. Typed /\ Inductive /\ [Next]_vars =>
        [\A n \in Names : files'[n].text >= files[n].text]_vars
  BY TextsAreKept
<1> QED BY <1>1, AlwaysInductive, PTL DEF Spec, EditsSurvive

===============================================================================
