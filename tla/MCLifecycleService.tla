------------------------- MODULE MCLifecycleService -------------------------
(* Instances of LifecycleService for TLC. *)
EXTENDS LifecycleService, TLC

CONSTANTS t1, t2, c1, c2, a1, a2, n1, n2, v1, v2

Interchangeable ==
    Permutations({t1, t2}) \cup Permutations({n1, n2}) \cup Permutations({a1, a2})
        \cup Permutations({v1, v2})

=============================================================================
