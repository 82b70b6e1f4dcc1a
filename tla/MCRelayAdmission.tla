--------------------------- MODULE MCRelayAdmission ---------------------------
(* Instances of RelayAdmission for TLC. *)
EXTENDS RelayAdmission

CONSTANTS r1, r2, r3

\* A login token takes longer to come back than the others.
MCBurst == [action |-> 2, status |-> 1, login |-> 1]
MCCost == [action |-> 1, status |-> 1, login |-> 2]

===============================================================================
