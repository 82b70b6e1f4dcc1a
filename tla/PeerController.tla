--------------------------- MODULE PeerController ---------------------------
(***************************************************************************)
(* The root helper of one interface: every invocation of the helper is a   *)
(* process that takes the interface's lock, reads the persistent           *)
(* configuration and the running interface together, and changes peers by  *)
(* writing the configuration, restarting the interface and reading both    *)
(* back.  awg_cita/real_awg.py holds the controller, and                   *)
(* awg_cita/canary_helper.py (awg3) and awg_cita/profile_helper.py (awg2,  *)
(* wg) the processes that run it.                                          *)
(*                                                                         *)
(* A helper can be killed at any point and the host can reboot; a restart  *)
(* of the interface may be carried out late, after the helper that asked   *)
(* for it gave up; and the operator can edit the configuration by hand     *)
(* without taking the lock.                                                *)
(***************************************************************************)
EXTENDS Integers, FiniteSets

CONSTANTS
    Helpers,        \* concurrent invocations of the helper
    Keys,           \* public keys that peers may have
    Nonces,         \* idempotency keys of create requests
    Hosts,          \* host addresses of the interface's network
    Protected,      \* the awg3 original peer; empty for awg2 and wg
    MaxPeers,       \* 64 in the code
    MaxFaults,      \* bound: failing system calls and commands
    MaxKills,       \* bound: killed helpers and host reboots
    MaxEdits,       \* bound: edits of the configuration by hand
    NoOne, NoKey, NoNonce

ASSUME HostsAssumption == Hosts \subseteq Nat \ {0}
ASSUME NoneAssumption ==
    /\ NoOne \notin Helpers
    /\ NoKey \notin Keys
    /\ NoNonce \notin Nonces
ASSUME ProtectedAssumption == Protected \subseteq Keys /\ Hosts # {}
ASSUME BoundAssumption ==
    /\ MaxPeers \in Nat
    /\ MaxFaults \in Nat
    /\ MaxKills \in Nat
    /\ MaxEdits \in Nat

VARIABLES
    config,     \* the persistent configuration: peers and nonce ledger
    runtime,    \* the interface: whether it is up and the peers it serves
    stored,     \* keys whose client configuration file exists
    late,       \* a restart that systemd still has to carry out
    lock,       \* the helper that holds the flock, or NoOne
    proc,       \* the helper processes
    reply,      \* what each helper last reported: none, ok or failed
    drawn,      \* keys that have been generated or imported so far
    issued,     \* history: <<nonce, key>> of the creations reported ok
    gone,       \* history: keys whose deletion was reported ok
    byHand,     \* history: keys added by hand while no replace was under way
    damaged,    \* a kill, edit or second failure not yet repaired by a restart
    faults, kills, edits

vars == <<config, runtime, stored, late, lock, proc, reply, drawn, issued,
          gone, byHand, damaged, faults, kills, edits>>

history == <<issued, gone, byHand>>
budget == <<faults, kills, edits>>

-----------------------------------------------------------------------------
(* Persistent configuration and running interface                          *)

Absent == [status |-> "absent", host |-> 0]
Peer == [status : {"enabled", "disabled"}, host : Hosts] \cup {Absent}
Config == [peers : [Keys -> Peer], nonces : SUBSET Nonces]

Present(c) == {k \in Keys : c.peers[k] # Absent}
Enabled(c) == {k \in Keys : c.peers[k].status = "enabled"}

\* The peers that a restart of the interface loads: disabled peers are
\* comments of the file.
Active(c) == {<<k, c.peers[k].host>> : k \in Enabled(c)}

\* The part of list_clients that can raise: the interface must be up and serve
\* exactly the enabled peers of the file, each with the route of the file.
Listable(c, r) ==
    /\ r.up
    /\ r.peers = Active(c)
    /\ Cardinality(Present(c)) <= MaxPeers

\* _read_protected_config: the original peer is there and enabled.
Readable(c) == Protected \subseteq Enabled(c)

\* Mutant: only the enabled peers occupy their addresses.
UsedHostsEnabledOnly(c) == {c.peers[k].host : k \in Enabled(c)}

UsedHosts(c) == {c.peers[k].host : k \in Present(c)}
FreeHosts(c) == Hosts \ UsedHosts(c)
FirstFree(c) == CHOOSE a \in FreeHosts(c) : \A b \in FreeHosts(c) : a <= b

-----------------------------------------------------------------------------
(* The targets that the operations compute from the file they read         *)

\* Mutant: the nonce ledger is not written.
WithPeerUnledgered(c, k, n) ==
    [c EXCEPT !.peers[k] = [status |-> "enabled", host |-> FirstFree(c)]]

WithPeer(c, k, n) ==
    [peers |-> [c.peers EXCEPT ![k] = [status |-> "enabled", host |-> FirstFree(c)]],
     nonces |-> c.nonces \cup {n}]

WithStatus(c, k, s) == [c EXCEPT !.peers[k].status = s]

WithoutPeer(c, k) == [c EXCEPT !.peers[k] = Absent]

Target(op, c, k) ==
    CASE op = "enable"  -> WithStatus(c, k, "enabled")
      [] op = "disable" -> WithStatus(c, k, "disabled")
      [] op = "delete"  -> WithoutPeer(c, k)

Mutations == {"enable", "disable", "delete"}
Operations == Mutations \cup {"list", "create", "config"}

-----------------------------------------------------------------------------
(* Helper processes                                                        *)

Stages == {"idle", "waiting", "locked", "planning", "checking", "replacing",
           "syncing", "reading", "storing", "unlinking",
           "undoing", "unchecked", "unreplaced", "unsynced"}

\* The stages in which the file may hold a target whose operation is undecided.
Undecided == {"checking", "replacing", "syncing", "reading", "storing",
              "undoing", "unchecked", "unreplaced", "unsynced"}

EmptyConfig == [peers |-> [k \in Keys |-> Absent], nonces |-> {}]

Rest == [stage |-> "idle", op |-> "list", key |-> NoKey, nonce |-> NoNonce,
         mutable |-> {}, before |-> {},
         source |-> EmptyConfig, target |-> EmptyConfig]

Process == [stage : Stages, op : Operations, key : Keys \cup {NoKey},
            nonce : Nonces \cup {NoNonce},
            mutable : SUBSET Keys, before : SUBSET Keys,
            source : Config, target : Config]

At(h, stage) == proc[h].stage = stage

Goto(h, stage) == proc' = [proc EXCEPT ![h].stage = stage]

\* Leaving the helper closes the lock's descriptor, whatever the outcome.
Answer(h, outcome) ==
    /\ proc' = [proc EXCEPT ![h] = Rest]
    /\ reply' = [reply EXCEPT ![h] = outcome]
    /\ lock' = IF lock = h THEN NoOne ELSE lock

Fault == faults < MaxFaults /\ faults' = faults + 1 /\ UNCHANGED <<kills, edits>>

\* The interface after a restart command that failed: untouched or stopped.
\* A command that timed out leaves a restart that systemd performs later.
FailedRestart ==
    /\ runtime' \in {runtime, [up |-> FALSE, peers |-> {}]}
    /\ late' \in {late, TRUE}

Restarted(c) == [up |-> TRUE, peers |-> Active(c)]

Init ==
    /\ config \in {[peers |-> p, nonces |-> {}] :
                       p \in [Keys -> {Absent} \cup {[status |-> "enabled", host |-> a] : a \in Hosts}]}
    /\ Present(config) = Protected
    /\ \A k, l \in Protected : k # l => config.peers[k].host # config.peers[l].host
    /\ Cardinality(Protected) <= MaxPeers
    /\ runtime = Restarted(config)
    /\ stored = {}
    /\ late = FALSE
    /\ lock = NoOne
    /\ proc = [h \in Helpers |-> Rest]
    /\ reply = [h \in Helpers |-> "none"]
    /\ drawn = Protected
    /\ issued = {} /\ gone = {} /\ byHand = {}
    /\ damaged = FALSE
    /\ faults = 0 /\ kills = 0 /\ edits = 0

-----------------------------------------------------------------------------
(* Requests and the lock                                                   *)

\* main, up to _locked: the request is read before the lock is taken.
Request(h, op, k, n) ==
    /\ At(h, "idle")
    /\ k \in (IF op \in Mutations \cup {"config"} THEN Keys ELSE {NoKey})
    /\ n \in (IF op = "create" THEN Nonces ELSE {NoNonce})
    /\ proc' = [proc EXCEPT ![h] = [Rest EXCEPT !.stage = "waiting", !.op = op,
                                               !.key = k, !.nonce = n]]
    /\ reply' = [reply EXCEPT ![h] = "none"]
    /\ UNCHANGED <<config, runtime, stored, late, lock, drawn, history, damaged, budget>>

\* Mutant: a shared flock, which any number of helpers obtain.
AcquireShared(h) ==
    /\ At(h, "waiting")
    /\ lock' = h
    /\ Goto(h, "locked")
    /\ UNCHANGED <<config, runtime, stored, late, reply, drawn, history, damaged, budget>>

Acquire(h) ==
    /\ At(h, "waiting")
    /\ lock = NoOne
    /\ lock' = h
    /\ Goto(h, "locked")
    /\ UNCHANGED <<config, runtime, stored, late, reply, drawn, history, damaged, budget>>

\* Mutant: flock without LOCK_NB and a deadline.
GiveUpNever(h) == At(h, "waiting") /\ lock = h /\ UNCHANGED vars

\* The five-second deadline of _locked passes while another helper holds on.
GiveUp(h) ==
    /\ At(h, "waiting")
    /\ lock # NoOne
    /\ Answer(h, "failed")
    /\ UNCHANGED <<config, runtime, stored, late, drawn, history, damaged, budget>>

-----------------------------------------------------------------------------
(* Reading, checking and planning                                          *)

\* Mutant: the protected keys are not taken out of the mutable ones.
ListAllMutable(h) ==
    /\ At(h, "locked")
    /\ Readable(config) /\ Listable(config, runtime)
    /\ IF proc[h].op = "list"
          THEN Answer(h, "ok")
          ELSE /\ proc' = [proc EXCEPT ![h].stage = "planning",
                                       ![h].mutable = Present(config),
                                       ![h].before = Present(config)]
               /\ UNCHANGED <<lock, reply>>
    /\ UNCHANGED <<config, runtime, stored, late, drawn, history, damaged, budget>>

\* _controller fixes the keys that may be changed, then list_clients compares
\* the file with the interface.
List(h) ==
    /\ At(h, "locked")
    /\ Readable(config) /\ Listable(config, runtime)
    /\ IF proc[h].op = "list"
          THEN Answer(h, "ok")
          ELSE /\ proc' = [proc EXCEPT ![h].stage = "planning",
                                       ![h].mutable = Present(config) \ Protected,
                                       ![h].before = Present(config)]
               /\ UNCHANGED <<lock, reply>>
    /\ UNCHANGED <<config, runtime, stored, late, drawn, history, damaged, budget>>

ListFails(h) ==
    /\ At(h, "locked")
    /\ ~ (Readable(config) /\ Listable(config, runtime))
    /\ Answer(h, "failed")
    /\ UNCHANGED <<config, runtime, stored, late, drawn, history, damaged, budget>>

\* A key, route or profile command fails before anything is written.
PlanFails(h) ==
    /\ proc[h].stage \in {"locked", "planning"}
    /\ Fault
    /\ Answer(h, "failed")
    /\ UNCHANGED <<config, runtime, stored, late, drawn, history, damaged>>

\* Mutant: the ledger is not searched for the nonce.
MayCreateAgain(h) ==
    /\ Readable(config)
    /\ Cardinality(Present(config)) < MaxPeers
    /\ FreeHosts(config) # {}

MayCreate(h) ==
    /\ Readable(config)
    /\ Cardinality(Present(config)) < MaxPeers
    /\ proc[h].nonce \notin config.nonces
    /\ FreeHosts(config) # {}

\* create, up to the write: the key pair is new, the address is the first that
\* no peer of the file uses, enabled or disabled.
PlanCreate(h) ==
    /\ At(h, "planning") /\ proc[h].op = "create"
    /\ MayCreate(h)
    /\ \E k \in Keys \ drawn :
          /\ drawn' = drawn \cup {k}
          /\ proc' = [proc EXCEPT ![h].stage = "checking", ![h].key = k,
                                  ![h].source = config,
                                  ![h].target = WithPeer(config, k, proc[h].nonce)]
    /\ UNCHANGED <<config, runtime, stored, late, lock, reply, history, damaged, budget>>

MayMutate(h) ==
    /\ Readable(config)
    /\ proc[h].key \in Present(config) \cap proc[h].mutable \cap proc[h].before

\* mutate, up to the write; asking for the present state changes nothing.
PlanMutation(h) ==
    LET target == Target(proc[h].op, config, proc[h].key) IN
    /\ At(h, "planning") /\ proc[h].op \in Mutations
    /\ MayMutate(h)
    /\ IF target = config
          THEN Answer(h, "ok")
          ELSE /\ proc' = [proc EXCEPT ![h].stage = "checking",
                                       ![h].source = config, ![h].target = target]
               /\ UNCHANGED <<lock, reply>>
    /\ UNCHANGED <<config, runtime, stored, late, drawn, history, damaged, budget>>

\* _load_client_config lists again, then reads the stored file.
MayLoad(h) ==
    /\ Readable(config) /\ Listable(config, runtime)
    /\ proc[h].key \in Present(config) \cap proc[h].mutable \cap stored

Load(h) ==
    /\ At(h, "planning") /\ proc[h].op = "config"
    /\ MayLoad(h)
    /\ Answer(h, "ok")
    /\ UNCHANGED <<config, runtime, stored, late, drawn, history, damaged, budget>>

\* A check of the request against the file is false.  Keys bounds the key pairs:
\* a create that finds no new one left fails as if the generator had failed.
Refuse(h) ==
    /\ At(h, "planning")
    /\ CASE proc[h].op = "create" -> ~ MayCreate(h) \/ Keys \subseteq drawn
         [] proc[h].op = "config" -> ~ MayLoad(h)
         [] OTHER -> ~ MayMutate(h)
    /\ Answer(h, "failed")
    /\ UNCHANGED <<config, runtime, stored, late, drawn, history, damaged, budget>>

-----------------------------------------------------------------------------
(* Writing, restarting and reading back                                    *)

\* Mutant: the file is not compared with the expected contents.
CheckNothing(h) ==
    /\ At(h, "checking")
    /\ Goto(h, "replacing")
    /\ UNCHANGED <<config, runtime, stored, late, lock, reply, drawn, history, damaged, budget>>

\* _write_config, up to the last comparison with the expected contents.
Check(h) ==
    /\ At(h, "checking")
    /\ config = proc[h].source
    /\ Goto(h, "replacing")
    /\ UNCHANGED <<config, runtime, stored, late, lock, reply, drawn, history, damaged, budget>>

Drift(h) ==
    /\ At(h, "checking")
    /\ config # proc[h].source
    /\ Goto(h, "undoing")
    /\ UNCHANGED <<config, runtime, stored, late, lock, reply, drawn, history, damaged, budget>>

\* Mutant: a deletion removes the client's file before the peer.
ReplaceUnlinksFirst(h) ==
    /\ At(h, "replacing")
    /\ stored' = IF proc[h].op = "delete" THEN stored \ {proc[h].key} ELSE stored
    /\ config' = proc[h].target
    /\ Goto(h, "syncing")
    /\ UNCHANGED <<runtime, late, lock, reply, drawn, history, damaged, budget>>

\* os.replace and the synchronisation of the directory.
Replace(h) ==
    /\ At(h, "replacing")
    /\ config' = proc[h].target
    /\ Goto(h, "syncing")
    /\ UNCHANGED <<runtime, stored, late, lock, reply, drawn, history, damaged, budget>>

\* _write_config raises, before the rename or, from fsync, after it.
ReplaceFails(h) ==
    /\ At(h, "replacing")
    /\ Fault
    /\ config' \in {config, proc[h].target}
    /\ Goto(h, "undoing")
    /\ UNCHANGED <<runtime, stored, late, lock, reply, drawn, history, damaged>>

\* _sync_runtime; a restart that systemd still had to perform is merged.
Sync(h) ==
    /\ At(h, "syncing")
    /\ runtime' = Restarted(config)
    /\ late' = FALSE
    /\ Goto(h, "reading")
    /\ UNCHANGED <<config, stored, lock, reply, drawn, history, damaged, budget>>

\* Mutant: the restart is outside the "try", so its failure is not rolled back.
SyncFailsUnhandled(h) ==
    /\ At(h, "syncing")
    /\ Fault
    /\ FailedRestart
    /\ Answer(h, "failed")
    /\ UNCHANGED <<config, stored, drawn, history, damaged>>

SyncFails(h) ==
    /\ At(h, "syncing")
    /\ Fault
    /\ FailedRestart
    /\ Goto(h, "undoing")
    /\ UNCHANGED <<config, stored, lock, reply, drawn, history, damaged>>

\* The checks of create and mutate on what is listed after the restart.
ReadsBack(h) ==
    LET k == proc[h].key
        others == Keys \ {k}
    IN /\ Readable(config) /\ Listable(config, runtime)
       /\ CASE proc[h].op = "create" ->
                 /\ config = proc[h].target
                 /\ Present(config) = proc[h].before \cup {k}
                 /\ k \in Enabled(config)
            [] OTHER ->
                 /\ \A l \in others : config.peers[l] = proc[h].source.peers[l]
                 /\ Present(config) \ {k} = proc[h].before \ {k}
                 /\ CASE proc[h].op = "enable" -> k \in Enabled(config)
                      [] proc[h].op = "disable" -> k \in Present(config) \ Enabled(config)
                      [] proc[h].op = "delete" -> k \notin Present(config)

ReadBack(h) ==
    /\ At(h, "reading")
    /\ ReadsBack(h)
    /\ CASE proc[h].op = "create" -> Goto(h, "storing") /\ UNCHANGED <<lock, reply>>
         [] proc[h].op = "delete" -> Goto(h, "unlinking") /\ UNCHANGED <<lock, reply>>
         [] OTHER -> Answer(h, "ok")
    /\ UNCHANGED <<config, runtime, stored, late, drawn, history, damaged, budget>>

\* A check is false, or awg does not answer.
ReadBackFails(h) ==
    /\ At(h, "reading")
    /\ \/ ~ ReadsBack(h) /\ UNCHANGED budget
       \/ Fault
    /\ Goto(h, "undoing")
    /\ UNCHANGED <<config, runtime, stored, late, lock, reply, drawn, history, damaged>>

\* _store_client_config, the last step of create.
Store(h) ==
    /\ At(h, "storing")
    /\ stored' = stored \cup {proc[h].key}
    /\ issued' = issued \cup {<<proc[h].nonce, proc[h].key>>}
    /\ Answer(h, "ok")
    /\ UNCHANGED <<config, runtime, late, drawn, gone, byHand, damaged, budget>>

\* It removes the file when writing it fails, and leaves it when only the
\* directory cannot be synchronised.
StoreFails(h) ==
    /\ At(h, "storing")
    /\ Fault
    /\ stored' \in {stored, stored \cup {proc[h].key}}
    /\ Goto(h, "undoing")
    /\ UNCHANGED <<config, runtime, late, lock, reply, drawn, history, damaged>>

\* The helper removes the client's file after mutate has returned.
Unlink(h) ==
    /\ At(h, "unlinking")
    /\ stored' = stored \ {proc[h].key}
    /\ gone' = gone \cup {proc[h].key}
    /\ Answer(h, "ok")
    /\ UNCHANGED <<config, runtime, late, drawn, issued, byHand, damaged, budget>>

\* The deletion stands although the helper reports a failure.
UnlinkFails(h) ==
    /\ At(h, "unlinking")
    /\ Fault
    /\ Answer(h, "failed")
    /\ UNCHANGED <<config, runtime, stored, late, drawn, history, damaged>>

-----------------------------------------------------------------------------
(* _rollback_if_changed                                                    *)

\* The file still holds the source: nothing to undo.
NothingToUndo(h) ==
    /\ At(h, "undoing")
    /\ config = proc[h].source
    /\ Answer(h, "failed")
    /\ UNCHANGED <<config, runtime, stored, late, drawn, history, damaged, budget>>

\* Neither the source nor the target: somebody else's file is left alone.
ForeignFile(h) ==
    /\ At(h, "undoing")
    /\ config \notin {proc[h].source, proc[h].target}
    /\ damaged' = TRUE
    /\ Answer(h, "failed")
    /\ UNCHANGED <<config, runtime, stored, late, drawn, history, budget>>

Undo(h) ==
    /\ At(h, "undoing")
    /\ config = proc[h].target /\ config # proc[h].source
    /\ Goto(h, "unchecked")
    /\ UNCHANGED <<config, runtime, stored, late, lock, reply, drawn, history, damaged, budget>>

\* _write_config(target, source) compares before it replaces.
UndoCheck(h) ==
    /\ At(h, "unchecked")
    /\ IF config = proc[h].target
          THEN Goto(h, "unreplaced") /\ UNCHANGED <<lock, reply, damaged>>
          ELSE IF config = proc[h].source
                 THEN Goto(h, "unsynced") /\ UNCHANGED <<lock, reply, damaged>>
                 ELSE Answer(h, "failed") /\ damaged' = TRUE
    /\ UNCHANGED <<config, runtime, stored, late, drawn, history, budget>>

UndoReplace(h) ==
    /\ At(h, "unreplaced")
    /\ config' = proc[h].source
    /\ Goto(h, "unsynced")
    /\ UNCHANGED <<runtime, stored, late, lock, reply, drawn, history, damaged, budget>>

\* The write raises; when the file holds the source all the same, the
\* "finally" still restarts the interface.
UndoReplaceFails(h) ==
    /\ At(h, "unreplaced")
    /\ Fault
    /\ \/ /\ config' = proc[h].source
          /\ Goto(h, "unsynced")
          /\ UNCHANGED <<lock, reply, damaged>>
       \/ /\ UNCHANGED config
          /\ IF config = proc[h].source
               THEN Goto(h, "unsynced") /\ UNCHANGED <<lock, reply, damaged>>
               ELSE Answer(h, "failed") /\ damaged' = TRUE
    /\ UNCHANGED <<runtime, stored, late, drawn, history>>

\* Mutant: the rollback restores the file and does not restart the interface.
UndoSyncSkipped(h) ==
    /\ At(h, "unsynced")
    /\ Answer(h, "failed")
    /\ UNCHANGED <<config, runtime, late, stored, drawn, history, damaged, budget>>

UndoSync(h) ==
    /\ At(h, "unsynced")
    /\ IF config = proc[h].source
          THEN runtime' = Restarted(config) /\ late' = FALSE /\ UNCHANGED damaged
          ELSE damaged' = TRUE /\ UNCHANGED <<runtime, late>>
    /\ Answer(h, "failed")
    /\ UNCHANGED <<config, stored, drawn, history, budget>>

UndoSyncFails(h) ==
    /\ At(h, "unsynced")
    /\ config = proc[h].source
    /\ Fault
    /\ FailedRestart
    /\ damaged' = TRUE
    /\ Answer(h, "failed")
    /\ UNCHANGED <<config, stored, drawn, history>>

-----------------------------------------------------------------------------
(* The environment                                                         *)

\* A helper is killed; the kernel closes its lock.  A systemctl it had started
\* may have queued the restart.
Kill(h) ==
    /\ ~ At(h, "idle")
    /\ kills < MaxKills
    /\ kills' = kills + 1
    /\ late' \in (IF proc[h].stage \in {"syncing", "unsynced"} THEN {late, TRUE} ELSE {late})
    /\ damaged' = (damaged \/ (lock = h /\ proc[h].stage \in Undecided))
    /\ Answer(h, "none")
    /\ UNCHANGED <<config, runtime, stored, drawn, history, faults, edits>>

\* The host goes down and comes up: no helper survives, and the interface is
\* started from the file.
Reboot ==
    /\ kills < MaxKills
    /\ kills' = kills + 1
    /\ runtime' = Restarted(config)
    /\ late' = FALSE
    /\ damaged' = FALSE
    /\ lock' = NoOne
    /\ proc' = [h \in Helpers |-> Rest]
    /\ reply' = [h \in Helpers |-> "none"]
    /\ UNCHANGED <<config, stored, drawn, history, faults, edits>>

\* systemd carries out a restart whose requester is gone.
LateRestart ==
    /\ late
    /\ late' = FALSE
    /\ runtime' = Restarted(config)
    /\ UNCHANGED <<config, stored, lock, proc, reply, drawn, history, damaged, budget>>

\* The operator adds a peer to the file by hand, without the lock.
EditByHand(k) ==
    /\ edits < MaxEdits
    /\ edits' = edits + 1
    /\ k \in Keys \ drawn
    /\ FreeHosts(config) # {}
    /\ drawn' = drawn \cup {k}
    /\ config' = [config EXCEPT !.peers[k] = [status |-> "enabled", host |-> FirstFree(config)]]
    /\ byHand' = IF \E h \in Helpers : proc[h].stage \in {"replacing", "unreplaced"}
                   THEN byHand ELSE byHand \cup {k}
    /\ damaged' = TRUE
    /\ UNCHANGED <<runtime, stored, late, lock, proc, reply, issued, gone, faults, kills>>

\* The operator restarts the interface after an edit or a crash.
RestartByHand ==
    /\ damaged
    /\ lock = NoOne
    /\ runtime' = Restarted(config)
    /\ late' = FALSE
    /\ damaged' = FALSE
    /\ UNCHANGED <<config, stored, lock, proc, reply, drawn, history, budget>>

-----------------------------------------------------------------------------

Work(h) ==
    \/ Acquire(h) \/ GiveUp(h)
    \/ List(h) \/ ListFails(h) \/ PlanCreate(h) \/ PlanMutation(h) \/ Load(h) \/ Refuse(h)
    \/ Check(h) \/ Drift(h) \/ Replace(h) \/ Sync(h)
    \/ ReadBack(h) \/ ReadBackFails(h) \/ Store(h) \/ Unlink(h)
    \/ NothingToUndo(h) \/ ForeignFile(h) \/ Undo(h)
    \/ UndoCheck(h) \/ UndoReplace(h) \/ UndoSync(h)

Failure(h) ==
    \/ PlanFails(h) \/ ReplaceFails(h) \/ SyncFails(h) \/ StoreFails(h) \/ UnlinkFails(h)
    \/ UndoReplaceFails(h) \/ UndoSyncFails(h)

Environment ==
    \/ \E h \in Helpers : Kill(h)
    \/ Reboot \/ LateRestart \/ RestartByHand
    \/ \E k \in Keys : EditByHand(k)

Next ==
    \/ \E h \in Helpers, op \in Operations, k \in Keys \cup {NoKey}, n \in Nonces \cup {NoNonce} :
          Request(h, op, k, n)
    \/ \E h \in Helpers : Work(h) \/ Failure(h)
    \/ Environment

Spec == Init /\ [][Next]_vars

\* The operating system keeps scheduling a helper, and every command it waits
\* for has a timeout; nothing forces requests, failures, kills or edits.
FairSpec == Spec /\ \A h \in Helpers : WF_vars(Work(h))

(* Properties                                                              *)

\* Every variable stays in its domain, and only the holder of the lock is past
\* the wait for it (_locked is a context manager around all the work).
TypeOK ==
    /\ config \in Config
    /\ runtime \in [up : BOOLEAN, peers : SUBSET (Keys \X Hosts)]
    /\ stored \subseteq Keys
    /\ late \in BOOLEAN
    /\ lock \in Helpers \cup {NoOne}
    /\ proc \in [Helpers -> Process]
    /\ reply \in [Helpers -> {"none", "ok", "failed"}]
    /\ drawn \subseteq Keys
    /\ issued \subseteq Nonces \X Keys
    /\ gone \subseteq Keys
    /\ byHand \subseteq Keys
    /\ damaged \in BOOLEAN
    /\ faults \in 0..MaxFaults /\ kills \in 0..MaxKills /\ edits \in 0..MaxEdits

\* No two peers of the file have the same address, whatever was disabled,
\* deleted, rolled back or added in between: create looks for a free address
\* among the enabled and the disabled peers.  (And the state is well typed.)
AddressesDistinct ==
    /\ TypeOK
    /\ \A k, l \in Present(config) : config.peers[k].host = config.peers[l].host => k = l

\* After any one failure that was detected, the interface serves exactly the
\* enabled peers of the file by the time the lock is free: the rollback restored
\* both (THREAT_MODEL.md: "attempts to restore the prior configuration and
\* runtime").  Kills, hand edits and a second failure inside the rollback count
\* as damage until the interface is restarted.
DetectedFailureRepaired ==
    lock = NoOne /\ ~ damaged => runtime = Restarted(config)

\* A request nonce hands out at most one key, through restarts, rollbacks and
\* deletions ("Reusing it never reissues the private key"), and the nonce of a
\* configuration handed out stays in the ledger of the file.
NonceIssuesOnce ==
    /\ \A i, j \in issued : i[1] = j[1] => i = j
    /\ \A i \in issued : i[1] \in config.nonces

\* A peer whose creation was reported has its stored configuration for as long
\* as it is in the file: delete removes the peer first and the file after.
CreatedPeersKeepConfig ==
    \A i \in issued : i[2] \in Present(config) => i[2] \in stored

\* A peer reported deleted is never again in the file or on the interface, not
\* through the rollback of a later operation nor through a late restart.
DeletedStaysDeleted ==
    \A k \in gone : k \notin Present(config) /\ \A a \in Hosts : <<k, a>> \notin runtime.peers

\* A peer added by hand outside the window between the last comparison and the
\* rename is never overwritten: it leaves the file only when its own deletion is
\* under way or was done.
HandEditsSurvive ==
    [][\A k \in byHand : k \in Present(config) /\ k \notin Present(config)' =>
          lock # NoOne /\ proc[lock].op = "delete" /\ proc[lock].key = k]_vars

\* The protected peer is enabled in the file at every instant, also in the middle
\* of an operation, so that a crash at any point leaves it served.
ProtectedServed == Protected \subseteq Enabled(config)

\* An operation that reports a failure before its change was accepted has left
\* the file as it found it, unless the rollback itself was disturbed.
FailedLeavesNoTrace ==
    [][\A h \in Helpers :
          proc[h].stage \in Undecided /\ reply'[h] = "failed" /\ ~ damaged'
            => config' = proc[h].source]_vars

\* Every request is answered: the wait for the lock has a deadline, and each way
\* through an operation and its rollback ends by leaving the lock.
RequestsAnswered ==
    \A h \in Helpers : proc[h].stage = "waiting" ~> proc[h].stage = "idle"

-----------------------------------------------------------------------------
(* The registry that the helpers implement: an operation takes effect when *)
(* its outcome is decided, or when its helper dies with the file replaced. *)

Committed ==
    IF lock # NoOne /\ proc[lock].stage \in Undecided THEN proc[lock].source ELSE config

Registry == INSTANCE PeerRegistry WITH
    peers <- Committed.peers, nonces <- Committed.nonces

\* With the file left to the helpers, they implement the registry.
ImplementsRegistry == Registry!Spec

=============================================================================
