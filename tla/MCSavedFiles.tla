------------------------------ MODULE MCSavedFiles ------------------------------
(* Instances of SavedFiles for TLC. *)
EXTENDS SavedFiles, TLC

CONSTANTS h1, h2, c1, c2, f1, f2, f3

Interchangeable == Permutations({h1, h2}) \cup Permutations({c1, c2}) \cup Permutations({f1, f2, f3})

=================================================================================
