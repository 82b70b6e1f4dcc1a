--------------------------- MODULE MCPortMigration ---------------------------
(* Instances of PortMigration for TLC. *)
EXTENDS PortMigration, TLC

CONSTANTS p1, p2, p3

Interchangeable == Permutations({p1, p2, p3})

=============================================================================
