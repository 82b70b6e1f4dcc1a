------------------------------- MODULE MCConsole -------------------------------
(* Instances of Console and SettingsPage for TLC.  The two views share no state: *)
(* a behaviour is one of the clients or one of the settings.                     *)
EXTENDS Console, SettingsPage, TLC

CONSTANTS c1, c2, c3

VARIABLE view

EitherInit == view \in {"clients", "settings"} /\ Init /\ PageInit
EitherNext ==
    /\ UNCHANGED view
    /\ \/ view = "clients" /\ Next /\ UNCHANGED pageVars
       \/ view = "settings" /\ PageNext /\ UNCHANGED vars

EitherSpec == EitherInit /\ [][EitherNext]_<<view, vars, pageVars>>

\* Two clients on one profile, one on the other.
TwoProfiles == (c1 :> "awg3") @@ (c2 :> "awg3") @@ (c3 :> "wg")

\* The settings of two profiles.
TwoCards == <<"awg3", "wg">>

=============================================================================
