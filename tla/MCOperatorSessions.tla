--------------------------- MODULE MCOperatorSessions ---------------------------
(* Instances of OperatorSessions for TLC. *)
EXTENDS OperatorSessions, TLC

CONSTANTS b1, b2, t1, t2

\* Two tabs in one browser; the operator signs in from another one, too.
OneBrowser == (t1 :> b1) @@ (t2 :> b1)

Interchangeable == Permutations({t1, t2})

=================================================================================
