-------------------------- MODULE MCNetworkMigration --------------------------
(* Instances of NetworkMigration and of AddressMapping for TLC. *)
EXTENDS NetworkMigration, AddressMapping, TLC

CONSTANTS s1, s2, s3

Interchangeable == Permutations({s1, s2, s3})

\* Every interface in the first few networks of the smallest size.
SmallInterfaces == {[ip |-> n + k, network |-> n, size |-> 8] : n \in {0, 8, 24}, k \in 0..7}

\* What NetworkMigrationProofs proves of every network, here of all the clients that such
\* an interface may have.
ASSUME MappingOfSmallNetworks ==
    \A source, target \in SmallInterfaces :
        ChangeIsValid(source, target) =>
            LET peers == {a \in Members(source) : PeerIsMapped(a, source, target)} IN
            /\ peers = Hosts(source) \ {source.ip}
            /\ {Translated(a, source, target) : a \in peers} = Hosts(target) \ {target.ip}

===============================================================================
