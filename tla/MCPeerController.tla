-------------------------- MODULE MCPeerController --------------------------
(* Instances of PeerController for TLC. *)
EXTENDS PeerController, TLC

CONSTANTS h1, h2, k0, k1, k2, n1, n2

Interchangeable == Permutations({h1, h2}) \cup Permutations({k1, k2}) \cup Permutations({n1, n2})

=============================================================================
