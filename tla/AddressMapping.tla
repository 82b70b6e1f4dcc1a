---------------------------- MODULE AddressMapping ----------------------------
(***************************************************************************)
(* How a change of the server's address maps the addresses of its clients  *)
(* (awg_cita/server_network.py): every client keeps its offset in the      *)
(* network, in the configuration of the server and in its own saved        *)
(* configuration, which are rewritten apart and must agree.                *)
(*                                                                         *)
(* An address is a number.  An interface has an address and the network    *)
(* around it, which begins at a multiple of its size.                      *)
(***************************************************************************)
EXTENDS Integers

CONSTANTS
    Sizes       \* the sizes of a network, 2^3 to 2^8 in the code

ASSUME SizesAssumption == \A s \in Sizes : s \in Nat /\ s >= 3

Members(i) == i.network .. (i.network + i.size - 1)

\* Neither the address of the network nor the one for broadcasts.
Hosts(i) == (i.network + 1) .. (i.network + i.size - 2)

Interfaces == {i \in [ip : Nat, network : Nat, size : Sizes] : i.network % i.size = 0}

\* validate_address_change
ChangeIsValid(source, target) ==
    /\ source.size = target.size
    /\ source.ip # target.ip /\ source.network # target.network
    /\ source.ip \in Hosts(source) /\ target.ip \in Hosts(target)
    /\ source.ip - source.network = target.ip - target.network

Translated(address, source, target) == target.network + (address - source.network)

\* _map_peer: whether it maps the route of a peer; otherwise the change is refused.
PeerIsMapped(address, source, target) ==
    /\ address \in Members(source)
    /\ Translated(address, source, target) # target.ip
    /\ Translated(address, source, target) \in Hosts(target)

\* rewrite_client_address, which looks at the network alone.
ClientIsMapped(address, source, target) == address \in Members(source)

===============================================================================
