-------------------------- MODULE MCStatusRequests --------------------------
(* Instances of StatusRequests for TLC. *)
EXTENDS StatusRequests, TLC

CONSTANTS t1, t2, t3

=============================================================================
