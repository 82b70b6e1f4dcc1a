---------------------------- MODULE SettingsPage ----------------------------
(***************************************************************************)
(* The server settings in the console (awg_cita/static/sector-console.js): *)
(* a card for each profile with a form for each setting, endpoint, port,   *)
(* address and obfuscation, which all carry the one revision that the      *)
(* server's settings had when they were filled in.                         *)
(*                                                                         *)
(* The page is single-threaded.  A load reads the profiles one after the   *)
(* other, and fills in the forms of each as its answer arrives; a save     *)
(* waits for its answer and then loads everything again, whatever the      *)
(* answer was.  Such an activation of loadServerSettings or of a save is a *)
(* task, and any number of them may wait at the same time.                 *)
(***************************************************************************)
EXTENDS Integers, Sequences

CONSTANTS
    Order,          \* the profiles, each once, in the order in which a load reads them
    Forms,          \* the forms of a profile
    MaxTasks,       \* bound: loads and saves
    MaxElsewhere    \* bound: changes by other operators

VARIABLES
    settings,   \* the service: the revision of each profile's settings
    card,       \* what the card of each profile says
    form,       \* of each form: what it shows, its revision, whether its button is open
    tasks,      \* the tasks that wait for an answer
    belated,    \* the saves whose caller was told of a failure, not yet carried out
    begun, elsewhere

page == <<card, form>>
pageVars == <<settings, page, tasks, belated, begun, elsewhere>>

\* A list of at least one profile.
ASSUME OrderAssumption ==
    /\ Len(Order) \in Nat \ {0} /\ DOMAIN Order = 1..Len(Order)
    /\ MaxTasks \in Nat /\ MaxElsewhere \in Nat

\* The profiles.
Cards == {Order[i] : i \in DOMAIN Order}
Owners == Cards \X Forms
Nobody == <<>>

Unanswered == [done |-> FALSE, ok |-> FALSE, revision |-> 0]

\* A task reads the profile at this place of the order, or waits for its save at 0.
Task(owner, at, f) ==
    [id |-> begun + 1, owner |-> owner, at |-> at,
     shown |-> f.shown, revision |-> f.revision, answer |-> Unanswered]
Blank == [shown |-> 0, revision |-> 0, open |-> TRUE]

BeginTask(k) ==
    /\ begun < MaxTasks /\ begun' = begun + 1
    /\ tasks' = tasks \cup {k}
Become(k, new) == tasks' = (tasks \ {k}) \cup {new}

PageInit ==
    /\ settings = [p \in Cards |-> 1]
    /\ card = [p \in Cards |-> "loading"]
    /\ form = [o \in Owners |-> Blank]
    /\ tasks = {} /\ belated = {}
    /\ begun = 0 /\ elsewhere = 0

-----------------------------------------------------------------------------
(* The page                                                                *)

\* The page opens at the settings, or the operator goes to them.
LoadAll ==
    /\ BeginTask(Task(Nobody, 1, Blank))
    /\ UNCHANGED <<settings, page, belated, elsewhere>>

\* Mutant: what the operator has typed is kept, and only the revision replaced.
FilledAroundTyping(f, revision) == [f EXCEPT !.revision = revision, !.open = TRUE]

\* What was in the form, typed or not, is replaced together with the revision.
Filled(f, revision) == [shown |-> revision, revision |-> revision, open |-> TRUE]

\* A load moves on to the next profile, or is over and opens the button of the
\* form that it was for.
SettingsArrive(k) ==
    LET p == Order[k.at]
        arrived == [o \in Owners |->
                      IF o[1] # p THEN form[o]
                      ELSE IF k.answer.ok THEN Filled(form[o], k.answer.revision)
                      ELSE [form[o] EXCEPT !.open = FALSE]]
    IN /\ k.at > 0 /\ k.answer.done
       /\ card' = [card EXCEPT ![p] = IF k.answer.ok THEN "shown" ELSE "unavailable"]
       /\ IF k.at < Len(Order)
            THEN /\ form' = arrived
                 /\ Become(k, [k EXCEPT !.at = @ + 1, !.answer = Unanswered])
            ELSE /\ form' = [o \in Owners |->
                               IF o = k.owner THEN [arrived[o] EXCEPT !.open = TRUE]
                               ELSE arrived[o]]
                 /\ tasks' = tasks \ {k}
       /\ UNCHANGED <<settings, belated, begun, elsewhere>>

\* The operator has changed what the form shows, and sends it.
Save(o) ==
    /\ form[o].open /\ form[o].revision # 0
    /\ form' = [form EXCEPT ![o].open = FALSE]
    /\ BeginTask(Task(o, 0, form[o]))
    /\ UNCHANGED <<settings, card, belated, elsewhere>>

SaveReturns(k) ==
    /\ k.at = 0 /\ k.answer.done
    /\ Become(k, [k EXCEPT !.at = 1, !.answer = Unanswered])
    /\ UNCHANGED <<settings, page, belated, begun, elsewhere>>

-----------------------------------------------------------------------------
(* The service and other operators                                         *)

ReplyTo(k, a) == Become(k, [k EXCEPT !.answer = a])

ReadSettings(k) ==
    /\ k.at > 0 /\ ~k.answer.done
    /\ ReplyTo(k, [done |-> TRUE, ok |-> TRUE, revision |-> settings[Order[k.at]]])
    /\ UNCHANGED <<settings, page, belated, begun, elsewhere>>

\* The settings have the revision that the form has.
SettingsEffect(k) ==
    /\ settings[k.owner[1]] = k.revision
    /\ settings' = [settings EXCEPT ![k.owner[1]] = @ + 1]

ChangeSettings(k) ==
    /\ k.at = 0 /\ ~k.answer.done
    /\ SettingsEffect(k)
    /\ ReplyTo(k, [done |-> TRUE, ok |-> TRUE, revision |-> settings'[k.owner[1]]])
    /\ UNCHANGED <<page, belated, begun, elsewhere>>

\* The call is refused, lost or too slow; a save may still be carried out.
FailTask(k) ==
    /\ ~k.answer.done
    /\ ReplyTo(k, [Unanswered EXCEPT !.done = TRUE])
    /\ belated' \in {belated} \cup (IF k.at = 0 THEN {belated \cup {k}} ELSE {})
    /\ UNCHANGED <<settings, page, begun, elsewhere>>

BelatedSave(k) ==
    /\ SettingsEffect(k)
    /\ belated' = belated \ {k}
    /\ UNCHANGED <<page, tasks, begun, elsewhere>>

OthersChange(p) ==
    /\ elsewhere < MaxElsewhere /\ elsewhere' = elsewhere + 1
    /\ settings' = [settings EXCEPT ![p] = @ + 1]
    /\ UNCHANGED <<page, tasks, belated, begun>>

PageNext ==
    \/ LoadAll
    \/ \E o \in Owners : Save(o)
    \/ \E k \in tasks : SettingsArrive(k) \/ SaveReturns(k)
    \/ \E k \in tasks : ReadSettings(k) \/ ChangeSettings(k) \/ FailTask(k)
    \/ \E k \in belated : BelatedSave(k)
    \/ \E p \in Cards : OthersChange(p)

PageSpec == PageInit /\ [][PageNext]_pageVars

-----------------------------------------------------------------------------

TaskAnswers == [done : BOOLEAN, ok : BOOLEAN, revision : Nat]
Tasks == [id : Nat, owner : Owners \cup {Nobody}, at : 0..Len(Order),
          shown : Nat, revision : Nat, answer : TaskAnswers]

\* Every variable has its type.
PageTypeOK ==
    /\ settings \in [Cards -> Nat]
    /\ card \in [Cards -> {"loading", "shown", "unavailable"}]
    /\ form \in [Owners -> [shown : Nat, revision : Nat, open : BOOLEAN]]
    /\ tasks \subseteq Tasks /\ belated \subseteq Tasks
    /\ begun \in 0..MaxTasks /\ elsewhere \in 0..MaxElsewhere

\* A save, a belated one too, only replaces the settings that its form showed when
\* it was sent, whichever loads, for other forms even, filled it in meanwhile, and
\* in whichever order they arrived.  And no button stays shut: a form waits for a
\* save of its own, or the card says that the settings are unavailable.
\* (And the state is well typed.)
SettingsSavedAsShown ==
    /\ [](/\ PageTypeOK
          /\ \A o \in Owners :
                form[o].open \/ card[o[1]] = "unavailable" \/ \E k \in tasks : k.owner = o)
    /\ [][\A k \in tasks \cup belated :
            settings' # settings /\ k \notin tasks' \cup belated'
              => k.shown = settings[k.owner[1]]]_pageVars

=============================================================================
