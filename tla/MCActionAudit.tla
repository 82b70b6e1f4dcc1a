----------------------------- MODULE MCActionAudit -----------------------------
(* Instances of ActionAudit for TLC. *)
EXTENDS ActionAudit, TLC

CONSTANTS r1, r2, r3

Interchangeable == Permutations({r1, r2, r3})

\* An operation whose record is valid, and one that the log does not know.
ValidAndUnknown == {<<"awg2", "create">>, <<"awg3", "config_update">>}
Valid == {<<"wg", "network_update">>}
Offered == {<<"awg3", "delete">>, <<"awg2", "config_update">>, <<"awg3", "config_update">>}

================================================================================
