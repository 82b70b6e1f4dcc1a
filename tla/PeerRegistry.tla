---------------------------- MODULE PeerRegistry ----------------------------
(***************************************************************************)
(* What the helper of one interface promises, without files, locks,        *)
(* restarts or failures: a registry of peers that changes by one whole     *)
(* operation at a time.  Two peers never share an address, an idempotency  *)
(* key creates at most one peer, protected peers are never touched, a      *)
(* deleted key does not come back, and an answer is given only for a       *)
(* change that has happened.  PeerController implements it as long as      *)
(* nobody edits the file by hand.                                          *)
(***************************************************************************)
CONSTANTS Keys, Nonces, Hosts, Protected

VARIABLES
    peers,      \* the status and address of every peer
    nonces,     \* the idempotency keys that have been spent
    issued,     \* <<nonce, key>> of the configurations handed out
    gone        \* the keys reported deleted

vars == <<peers, nonces, issued, gone>>

Absent == [status |-> "absent", host |-> 0]
Present == {k \in Keys : peers[k] # Absent}

Init ==
    /\ \E p \in [Protected -> Hosts] :
          /\ peers = [k \in Keys |-> IF k \in Protected
                                       THEN [status |-> "enabled", host |-> p[k]]
                                       ELSE Absent]
          /\ \A k, l \in Protected : p[k] = p[l] => k = l
    /\ nonces = {}
    /\ issued = {}
    /\ gone = {}

\* A creation commits; its configuration is handed out, or the answer is lost.
Create(n, k, a) ==
    /\ n \notin nonces
    /\ k \notin Present \cup gone
    /\ \A l \in Present : peers[l].host # a
    /\ peers' = [peers EXCEPT ![k] = [status |-> "enabled", host |-> a]]
    /\ nonces' = nonces \cup {n}
    /\ issued' \in {issued, issued \cup {<<n, k>>}}
    /\ UNCHANGED gone

SetStatus(k, s) ==
    /\ k \in Present \ Protected
    /\ peers' = [peers EXCEPT ![k].status = s]
    /\ UNCHANGED <<nonces, issued, gone>>

Delete(k) ==
    /\ k \in Present \ Protected
    /\ peers' = [peers EXCEPT ![k] = Absent]
    /\ UNCHANGED <<nonces, issued, gone>>

ReportDeleted(k) ==
    /\ k \notin Present
    /\ gone' = gone \cup {k}
    /\ UNCHANGED <<peers, nonces, issued>>

Next ==
    \/ \E n \in Nonces, k \in Keys, a \in Hosts : Create(n, k, a)
    \/ \E k \in Keys : Delete(k) \/ ReportDeleted(k)
    \/ \E k \in Keys, s \in {"enabled", "disabled"} : SetStatus(k, s)

Spec == Init /\ [][Next]_vars

=============================================================================
