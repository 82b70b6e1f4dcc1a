# AWG-CITA: a TLA+ model

AWG-CITA is an operator console for an AmneziaWG/WireGuard server. A browser
page talks to a small HTTP application; the application calls root helpers; the
helpers change configuration files, the firewall and running interfaces. This
directory models the parts of it that keep state, checks them with TLC on small
instances, and proves the most important properties for every instance with
TLAPS. File names without a directory below are those of `awg_cita/`.

## 1. The system

    browser: static/sector-console.js ──► scripts/rate_limit_proxy.py ──► app.py
                  (dialogs, list)          (token buckets, slots)          │
                                                                           ├─► audit.py (action log, status log)
                                           lifecycle.py  ◄─────────────────┤
                                           (lock, caches)                  └─► SnapshotCollector (awg show)
                                                │ sudo, one process per call
                                                ▼
                              canary_helper.py / profile_helper.py   (flock per interface)
                                 │            │               │              │
                            real_awg.py  server_port.py  server_network.py  server_endpoint.py,
                             (peers)     (listen port)   (address, obfusc.) client_config_edit.py

| Part | State | Operations | What makes it hard | What makes it correct |
|---|---|---|---|---|
| Peer controller, root helpers (`real_awg.py`, `canary_helper.py`, `profile_helper.py`) | interface configuration with its nonce ledger, running interface, stored client configurations, interface lock | list, create, enable, disable, delete, config | processes that race for the lock; a kill between write and restart; a restart that systemd performs late; a failure inside a rollback; edits by hand, which take no lock | distinct addresses, one key per nonce, the protected peer always served, no resurrection of deleted peers, a failed operation leaves no trace |
| Lifecycle service (`lifecycle.py`) | mutation lock, result cache by idempotency key, create nonces, deleted clients; all in memory | create, enable, disable, delete, update of the server and of a saved configuration | retries, a cache of bounded size, lost answers, helpers that outlive their caller, restart | a key runs again only for a cause, a create is called once, answers are true, from memory and from the helper |
| Listen port migration (`server_port.py`) | configuration, metadata, journal, firewall rules, running port | apply_port, rollback, recover_pending | kills between any two steps, failures before or after their effect, edits by hand | the port that is served is open; no half migration without a journal; edits survive |
| Address and obfuscation migration (`server_network.py`) | configuration, metadata, every saved client configuration, journal, interface | apply_change, recover_pending | the same, over many files, with the interface stopped | files agree, recovery restores all of them, the next undisturbed call repairs an interruption |
| Endpoint and saved configurations (`server_endpoint.py`, `client_config_edit.py`) | metadata, backups, saved configurations | compare and replace by revision | stale pages, failures of verification and rollback, edits by hand | nothing unseen is overwritten, old settings are kept |
| Action audit (`audit.py`, `do_POST`) | append-only log, latch of the writer | INTENT, action, RESULT, open, reconcile | crashes inside an append, overlapping requests, a full or replaced file | nothing is done without a durable INTENT, nothing is answered as done without a RESULT |
| Relay (`scripts/rate_limit_proxy.py`) | a token bucket per kind of request, slots | permit, admit, forward, give up; a login is answered by the relay itself | the application goes on after the relay's time limit; every error path must give the slot back, once | bounded rate of each kind, slots conserved and returned |
| Console (`static/sector-console.js`) | selected profile, list, dialogs, gates; cards and forms of the server settings | switch, refresh, enable/disable, create, delete, configure; load and save settings | answers out of order, dialogs closed and reopened, one load that fills in the forms of another, changes by others | what is on display is current, gates track calls, no edit overwrites what was not shown |
| Snapshot collector (`app.py`) | cached result, flight | snapshot, _finish | simultaneous callers, an owner that breaks off | one command at a time, fresh answers |
| Operator sessions (`scripts/operator_auth.py`, `rate_limit_proxy.py`, `app.py`) | sign-ins in the relay, page sessions in the application, an hour and 128 entries each; the cookies of the browsers and the tokens in their pages | sign in, log out, load a page, act; expire, evict, restart | two tables checked at two times; tabs share cookies, pages arrive in any order; a request in flight across a logout | a request is admitted only while its sign-in is in force and carried out only for the living session of its page, nobody is refused without a cause |
| Status requests: log and history (`audit.py`, `history.py`, `_status` in `app.py`) | sampled records, latch, bounded history | check the log, collect, record, keep, answer | the log is checked before the command runs and written to after it, by several threads | no status is kept or shown without a recent record; every request ends |
| Client templates (`client_templates.py`) | one file per profile | read, replace | no revision: the last writer wins | not modelled, section 7 |

What is not modelled, and why, is section 7.

Interaction is by synchronous calls downwards. The only shared state across
processes is on disk, under a lock per interface (`_locked`), so a model of one
migration may treat its helper as alone, once `PeerController` has modelled the
lock. The service's view of the helper is the abstract `PeerRegistry`, which
`PeerController` is shown to implement and `LifecycleService` uses: the two
layers meet in that module.

## 2. Modules

| Module | Models | Its processes and actions |
|---|---|---|
| `PeerRegistry` | what a caller of the helper may rely on | atomic create, enable, disable, delete with a nonce ledger |
| `PeerController` | a helper per invocation: `Request`, `Acquire`/`GiveUp` (`_locked`), `List`, planning, `Check`, `Replace`, `Sync`, `Store`, `Unlink`, and the rollback (`Undo...`) | every call that can fail has a failing twin (before or after its effect); `Kill`, `Reboot`, `LateRestart`, `RestartByHand`, `EditByHand` |
| `LifecycleService` | a thread per request: wait for the lock (two seconds), look-up in the caches or comparison of a revision, call of the helper, confirmation, storing the result; the documents it edits (the server's settings, saved configurations) are contents whose revision is themselves | `CallFails`, `AnswerLost`, `CallTimesOut`, `LateEffect`, `LateFailure`, `Restart` |
| `PortMigration` | one helper that migrates, rolls back or recovers | one action per step of `apply_port` and `recover_pending`, with failures, `Kill`, `Reboot`, `LateRestart`, edits of the file and of the firewall |
| `NetworkMigration` | one helper that rewrites all the files with the interface stopped | as above for `apply_change`; a restoration per file |
| `AddressMapping` | the arithmetic of an address change: `validate_address_change`, `_map_peer`, `rewrite_client_address` | none, it is pure |
| `SavedFiles` | pages that hold revisions and one helper that compares and replaces | endpoint: read, backup, replace, verify, roll back; configuration: load, reread, replace, reload |
| `ActionAudit` | a thread per POST, the writer's latch, start and reconciliation | append that fails or tears, replaced file, crash |
| `RelayAdmission` | a thread per request, a bucket for each kind (client reads, actions, status, login), the slots, time in ticks | permit, acquire, admit, login, forward, respond, give up, break off |
| `Console` | the single-threaded page; a call in flight is a record | a handler up to its `await` is one action, its continuation another; the service answers, fails, or acts late |
| `SettingsPage` | the other view of the page: a task is an activation of `loadServerSettings` or of a save, which waits for one answer at a time | load, save, the arrival of each answer, the same service |
| `SnapshotCollector` | a thread per call, the flight | hit, own, join, read, publish, break off, wake |
| `StatusRequests` | the handler of `/api/status` around it: the log, its latch and its interval, the history | preflight, call, collect, record or fail to, keep; `Tamper` replaces the file |
| `OperatorSessions` | the two tables of sessions, the cookies of the browsers, the tabs | login, logout, load, arrival of a page, send, admit (relay), accept (application), drop, restarts |

`StatusRequests` extends `SnapshotCollector` and its steps are that module's or
leave its variables alone, which is proved (section 4); its run checks both. The
two tables of `OperatorSessions` are in different processes, and the composition
is the point of the module: a request is looked at by the relay before its body
has been read and by the application after that.

The two views of the page, `Console` and `SettingsPage`, share no state (every
call of the settings names its profile). Their run takes the behaviours of
either, since interleaving them shows nothing more.

The `MC*` modules give TLC its model values and symmetry sets. Definitions
whose comment begins with "Mutant" are faulty variants of the
definition that follows; they are no part of any specification, and show that
each property can be broken by a bug.

Choices that hold for all models:

- Text, keys and settings are model values or small numbers. What matters of a
  text is what the code compares: a port, a host, a revision, "edited by hand".
- A write is a compare followed by a rename. The peer controller keeps `Check`
  and `Replace` apart. The migrations and `SavedFiles` make them one step, so
  an edit by hand that falls between the two is outside these models (the code
  cannot detect it either, `canary_helper.py:96`).
- A failing write or command may fail before or after its effect. A command
  that timed out may be carried out by systemd later (`late`).
- `NetworkMigration` treats an address and an obfuscation alike, as a setting
  with a kind: `verify_runtime` can see only the address. What a change of the
  address does to the addresses of the clients is `AddressMapping`.
- A session or a sign-in is the number of its entry; its random name cannot be
  guessed. The token in a page is the number of the page's session.
- History variables (`issued`, `gone`, `byHand`, `drawn`, `unexcused`, `creates`,
  `performed`, `granted`, `seen`, `loggedOut`, `displaced`, `forgotten`; `shown` of a
  task of `SettingsPage`) and the marks `damaged` and `overtaken` are not in the
  code. No action but a property reads them, except `drawn`, which
  makes a key fresh as `awg genkey` does.

## 3. Runs

In most modules the first property of the run contains `TypeOK`; those of the
relay and of the peer controller are proved.

Every counter that is bounded has its bound in a guard and is a constant:
`MaxFaults`, `MaxKills`, `MaxEdits`, `MaxLost`, `MaxRestarts`, `MaxCrashes`,
`MaxReplaced`, `MaxCalls`, `MaxRequests`, `MaxForeign`, `MaxClock`,
`MaxFlights`, `MaxSignIns`, `MaxPages`, `MaxTasks`, `MaxElsewhere`. The code's own limits (`MaxPeers`,
`MaxResults`, `MaxRecords`, `MaxSessions`, `HistoryLimit`, `Slots`, `Burst`) are
small so that they are reached.

| Run | Instance | What it shows |
|---|---|---|
| `peer_crash` | 2 helpers, 3 keys (one protected), 2 addresses, 2 nonces, 1 failure, 1 kill or reboot, symmetry | addresses, nonces, deletions, stored configurations, the protected peer, the rollback, and that the helpers implement `PeerRegistry` |
| `peer_edits` | 2 helpers, 2 keys, at most one peer made by the panel, 1 failure, 1 edit by hand, fairness | an edit by hand is never overwritten outside the gap before the rename; every request is answered, through a failure in the operation or its rollback. No helper dies here: that the lock dies with its holder is a step of `peer_crash`, which assumes no fairness |
| `lifecycle` | 2 threads, 2 keys, 2 clients, a cache of one result, edits of the server and of one configuration with 2 contents, 4 requests, 1 lost call, 1 restart, symmetry | reuse and eviction of keys, lost answers, helpers that act late and survive a restart, stale pages: what makes a key run again, that memory is true, and that "ok" is |
| `port` | 3 ports, 2 failures, 3 kills, 2 edits, symmetry | see the properties; the failures that the rollback cannot cope with are named in `Tolerable` |
| `network` | 2 settings, 2 clients, 2 failures, 2 kills, 1 edit, fairness | the same for four files and the interface, and that one undisturbed call repairs an interruption; `MCNetworkMigration` also compares `AddressMapping` with all the clients that a small interface can have |
| `saved` | 2 hosts, 2 clients, 3 contents, 3 calls, 2 failures, 1 edit, symmetry | stale pages overwrite nothing; a failed endpoint change is undone; the backup holds the old settings |
| `audit` | 3 requests, a log of 5 records, 1 failure, 2 crashes, 1 replaced file, an operation the log knows and one it does not, symmetry | evidence before and after every action, across crashes and reconciliation |
| `audit_closed` | 2 requests, no failures | a violation, section 6 |
| `relay` | 3 requests among actions, status polls and logins; 2 slots; buckets of 2, 1 and 1 tokens, a login token worth 2 ticks; 2 ticks, fairness | rate of each kind and slots; every slot comes back |
| `console` | either the clients: 3 clients, 2 profiles, 4 calls, 1 change by another operator; or the settings: 2 profiles with 2 forms, 3 loads or saves, 1 change by another operator | late answers, gates, stale saves |
| `status` | 3 threads, 2 flights, a result kept for 2 ticks, a command of 1, a record every 2, a history of one, 3 ticks, fairness | coalescing, age, evidence before display, and that every request ends |
| `sessions` | 2 tabs of one browser, a second browser, tables of 2 entries, a lifetime of 1 tick, 3 sign-ins, 3 pages, 1 restart of either process, symmetry | nobody is admitted signed out, nobody is refused without a cause |

Why the bounds are enough. A clash under the lock needs two helpers or threads;
a third only repeats the second. Two kills interrupt a migration and then its
recovery; two failures are an operation's and its rollback's. The limits are
met: the host addresses run out in `peer_crash`, `MaxPeers` in `peer_edits`,
the cache of one result evicts on the second key, the log of five records is
full in the middle of the third action, the third request finds no slot, the
third sign-in and the third page push an entry out of a table of two. Four
requests of the service are enough to use a key, evict it and use it again with
an edit between. Four
calls of the page are the first list, a creation, its read-back and one more,
the shortest way to a read-back for the profile that was left.

Deadlock is checked where the system always has a next step. `ActionAudit`,
`Console`, `RelayAdmission`, `StatusRequests` and `OperatorSessions` end when the
bounded requests, calls or ticks are used up; their configurations say
`CHECK_DEADLOCK FALSE`. `LifecycleService` has a step of its own (`Rest`) for a
service that has answered everything, so that its run still finds a thread that
waits for ever.

Symmetry is used only in runs without liveness, on values the specifications
compare for equality alone. `Hosts` of the peer controller are numbers that
`FirstFree` orders, and are not symmetric.

### Fairness

- `PeerController` and `NetworkMigration`: weak fairness of the normal steps of
  a helper (`Work`). The operating system keeps scheduling it and every command
  has a timeout (`canary_helper.py`, `_run`, 20 s). Requests, failures, kills,
  late effects and edits are never forced.
- Nobody is assumed to call again. The page lists the clients of a profile when
  it is opened or switched, after a creation and on a click, and has no timer, so
  an interrupted migration that nobody touches stays interrupted. `NextCallRepairs`
  therefore speaks of one call: if it finds the journal, and no further failure,
  kill or edit by hand meets it, it removes the journal.
- `RelayAdmission`: weak fairness of what the relay's thread does, its time
  limit included; none of the application, which may never answer.
- `StatusRequests`: weak fairness of each thread's steps once its request has
  passed the check of the log (`Serve`); the command has a time limit. Nobody is
  forced to ask, and the log may be tampered with or not.

The other specifications assume no fairness and have no liveness property.

### Conditions inside the properties

Some properties carry a condition, because the code has a known limit, and
state what holds within it. `PortMigration!Tolerable`: any number of kills,
reboots and edits, or one failure. `NetworkMigration`: the file properties hold
until a file is edited by hand; `EditsSurvive` holds always. `SavedFiles`:
what `FailureIsClean` says of the rollback, and `EditReplacesShown` of client
configurations, hold until a file is edited by hand, and the former of one
failure, since a second one may be the rollback's own; what they say of the
endpoint's revision and of the backup, always. `LifecycleService!OkIsEffective`:
unless a helper that an earlier call left behind takes effect between the lock
and the answer. `PeerController`: the
properties that compare file and interface hold until `damaged`, which a kill,
an edit or a failed rollback sets and a restart of the interface clears; those
of `peer_crash` that speak of the file alone hold in all cases, and the theorems
about them allow edits.

## 4. Proofs

TLAPS checks the following for every value of the constants: any numbers of
processes, threads, clients, keys, ports and files, and any bounds. What is
assumed is what the `ASSUME`s of the modules say, nothing more. Every safety
invariant and action property that a run checks is the statement of a theorem.

Each module of proofs goes the same way. The property is seldom inductive; a
conjunction of named parts is, one lemma per action shows that it is kept, a
last one that it implies the property. Where several properties rest on what a
step may do, the lemmas say that first, once per action (`Turns` of the peer
controller, `Traced` and `Carried` of the console), and the properties follow
from the classes of steps.

`PeerControllerProofs`:

- `TypeCorrect`. The invariant `Typed` adds to `TypeOK` the types of what a
  process remembers (its source and target files), without which a rollback
  could write anything.
- `AddressesStayDistinct`. The file is only ever replaced by something a
  process carries. The invariant `SoundThroughout` says that the file, and each
  process's source and target, have no clash and enable every protected peer.
  Creation takes an address of `FreeHosts`; an edit by hand takes an address
  that nobody has.
- `ProtectedPeersServed`, from the same invariant: `mutable` never contains a
  protected key, so no target disables one.
- `NonceIssuesOneKey`. `Ledger` ties `issued` to the nonces of the file and of
  what a running process may write or restore; it needs `Exclusive` (only the
  holder of the lock is past the wait), since a second process could restore a
  file without the nonce.
- `DeletedNeverReturns`. `Deletions` says that a key in `gone` is in no file
  that can still be written, nor in the interface, nor drawn again.
- `HandEditsAreKept`. `Heeded`: what is about to be overwritten has no peer that
  was added by hand before it was compared. `Plan` says how the file to write
  comes from the file that was read, so that it lacks at most the deleted peer.
- `FailuresLeaveNoTrace`, a property of the step that reports. `Placed` says
  which file is there at each stage: the one that was read, the one to write, or
  any with damage.
- `CreatedPeersStayServable`. `Lodged`: a key handed out whose configuration is
  not stored is in no file that can still be written.
- `FailuresAreRepaired`. `Settled` adds to `Placed` what the interface serves
  at each stage (`Serves`).
- `HelpersImplementRegistry`, the refinement of `PeerRegistry`, under the
  hypothesis that nobody edits the file by hand, which the registry does not
  know of. `Committed` shows the registry the file, and while a change is
  undecided the file that it read. The step that decides a change, by completing
  it, giving it up, a kill or a reboot, is the registry's operation or nothing
  at all, according to which file is there; the report of a deletion is a step
  of its own; every other step is a stutter. The invariants above give the
  registry's guards. `UneditedImplementRegistry` is
  the same where the bound allows no edit, as in the run `peer_crash`.

`LifecycleServiceProofs`:

- `RepeatsAreExcused`. `unexcused` counts, by key, what the helper carried out,
  late effects and lost answers included, less the causes to do it again: an
  error answered though the helper had done it or may still, an eviction, a
  restart. `Accounted`: the count plus the helpers that were left behind with the
  key (the cardinality of `Of`) is at most one, and zero unless a success with the
  key is remembered or on its way into the cache (`Done`). It needs `Unstored`,
  that whoever holds the lock past the look-up has a key the cache does not know,
  and `Exclusive`, without which two threads could both run it. `Spent`: every
  call of a creation has spent its nonce.
- `DeletionsHold`. `Remembered`: a client that is remembered as deleted, or is
  about to be, was drawn and is not there. Since creations draw new clients,
  nothing brings it back, a helper that acts late included (`Settles`).
- `AnswersMeanIt`. `Effective`: what the helper did for the holder of the lock
  is there until it answers, or `overtaken` says why not.

`PortMigrationProofs`: `ServedPortsAreOpen`, `RestIsConsistent`,
`FailuresRestore` and `EditsAreKept` from one invariant. `Recorded` says what
the journal and the helper's memory are worth; `Ahead` and `Returning` how far a
change, a rollback or a recovery has come; `Reachable` that every port the
interface may come to listen on, late restarts included, is open, and that the
port a rollback closes is not one of them; `Restorable` that what is tolerable
leaves the files on one port where nothing is pending.

`NetworkMigrationProofs`:

- `AddressChangeIsSound`, about `AddressMapping`. A change that is carried out
  keeps the addresses of the clients distinct, off the server and in the new
  network, alike in the server's configuration and in the saved ones, and can be
  changed back. `NetworksApart`, that two networks of one size are equal or
  disjoint, is why a rewritten file can be told from an old one; `PeersRefused`
  says exactly which peers make the code refuse a change.
- `FilesStayInAgreement`, `RecoveriesRestore`, `FilesWrittenWhileDown` and
  `EditsAreKept`. `Journaled`: the journal on disk is the one the helper works
  from. `Halted`: the interface is down while files are written, and nothing
  late can change that. `Accounted`: without edits, each file is the old or the
  new one of the journal. `Advanced`: how many are written or restored.

`ActionAuditProofs`: `NothingUnintended` and `AnswersRecorded` from `Evident`,
that what has reached the service has its INTENT in the file; a crash may tear
the last record, never an earlier one. `QuietStopReopens` needs the order of the
records (`Matched`): as long as no write failed the file has for each request
nothing, one INTENT, or one INTENT and one RESULT after it.

`ConsoleRelayProofs` has the proofs of the two components in front of the
application; their names do not clash.

- `DisplayStaysCurrent`, `GatesHold` and `EditsNotLost`, of the console, from
  `Settled`. `Gated` ties each gate to the set of calls in flight that it stands
  for, one at most; it is why the read-back of a creation is harmless, which is
  not compared with the profile (`Homed`). `Opened` follows a configuration from
  the service through the call and the token of its dialog, `Based` the revision
  of a save.
- `TypeCorrect`, `TokensAreMetered` and `SlotsAreConserved`, of the relay, from
  `Sound`: for each kind the handed-out tokens plus those in the bucket never
  exceed the burst plus the refill of the elapsed time; and the free slots are
  counted by the cardinality of the set of threads that hold one.

`StatusRevisionProofs` has the collector and the requests for the status, then
the two ends of an edit that carries a revision; again their names do not clash.

- `RequestsImplementCollector`: a behaviour of `StatusRequests` is one of
  `SnapshotCollector`, step by step; what is proved of the collector therefore
  holds for the requests.
- `OneCommand` and `FreshAnswers`, from the invariant `Sound`. `OneOwner` says
  that whoever runs the command owns the flight that newcomers join, `InTheAir`
  that this flight has no result yet; `WaitsForFresh` bounds the age of the
  result of the flight that a thread waits for, `CachedInTime` that of the
  cache.
- `EvidenceFirst`, a property of two steps (recording, keeping): the invariant
  ties a thread that is about to keep a status to a record that was no older than
  the interval when it passed.
- `StalePagesOverwriteNothing` and `EndpointFailuresAreClean`, of `SavedFiles`,
  from `Careful`. `Restorable`: until its replacement the metadata are as the
  helper found them, afterwards it remembers them, and only a failure sends it
  into the rollback; a rollback that then fails is a second one. `BackedUp`: the
  backup comes first. `Compared`: between the comparison of a configuration and
  its replacement only a hand can have changed it or its endpoint.
- `SavesReplaceWhatTheyShow`, of `SettingsPage`, from `Faithful`. `Matching`: a
  form is only ever filled in together with its revision, so that what the
  service compares is what was on display, whichever load it came from.
  `Openable`: a form is shut by a save of its own, whose reload ends by opening
  it, or by a failed load, which the card shows.

`OperatorSessionsProofs`, from the invariant `Sound`:

- `AdmissionNeedsSignIn`. A sign-in in the table has been neither logged out nor
  forgotten (`SignInsKept`); the table never holds more than `MaxSessions`, by
  the cardinality of `Kept` and the least element of a set of numbers.
- `RefusalsHaveCause`. Conversely a sign-in or a page session that is in force
  is in its table unless `MaxSessions` newer ones were entered (`SignInsKept`,
  `PagesKept`): an entry is pushed out only when it is the first of a full
  table. `CookiesKept` says that a page whose cookie the browser no longer
  sends has been displaced.

Only model-checked: the four liveness properties (`RequestsAnswered`,
`NextCallRepairs`, `SlotsReturn`, `RequestsEnd`), since TLAPS has no way to
reason about `ENABLED`. That `LifecycleService` uses the registry as
`PeerController` implements it is by construction: its calls are the actions of
`PeerRegistry`. What a `RECURSIVE` definition computes could not be proved
either; there is none.

## 5. Assumptions about what is outside

`ufw`, `systemctl`, `awg`, the file system and the kernel's `flock` are
modelled from the way the code calls them: a rename is atomic, a lock dies with
its holder, a restart brings the interface up from its configuration file. A
directory synchronisation may fail after the rename has been done. The service
runs unprivileged and its helpers as root, so a kill of the helper by the
service may not succeed (`app.py:131`): `LifecycleService` lets it take effect
later. Signals and time limits are modelled as choices, except in
`RelayAdmission`, `StatusRequests` and `OperatorSessions`, which count ticks.

## 6. What the models show about the code

`audit_closed` is a run: editing the saved configuration of an AWG 3.1 client
records an operation name that the log does not know (`app.py:644` builds
`config_update`, `audit.py` knows `awg3_config_update`), so the request gets 503
and the action log stays closed to every later action until a restart.

The following behaviours are reachable in the models; the properties are stated
for what the code does guarantee, and these are outside of it.

- `server_port.py:267`. If `ufw` adds the rule and reports a failure or exceeds
  its time limit, `opened` is still false and the rollback leaves the rule,
  although `docs/MULTI_PROFILE_0_2_0.md:46-47` says that it removes it. The next
  request for that port is refused.
- `server_port.py:280`. If the replacement of the metadata fails after its
  rename and its own restoration fails too, `metadata_revision` is still `None`:
  the configuration goes back, the metadata keep the new port and the journal
  is removed.
- `server_port.py:276`. A journal that was unlinked but not synchronised makes a
  complete migration roll back and report "rollback failed"; a kill in that
  rollback leaves different ports and no journal.
- `server_port.py`. A write that failed after its rename, and an edit by hand
  before the rollback, make the rollback believe that nothing was written.
- `server_network.py:234`. The same failure of the last synchronisation leaves
  the new settings in force and reports the change as failed, against
  `docs/SERVER_NETWORK_CHANGES.md:17`.
- `server_network.py:331`. A file edited while a recovery runs keeps the new
  setting while the others go back, and the journal is removed;
  `docs/SERVER_NETWORK_CHANGES.md:17` says that recovery stops.
- `profile_helper.py:289`, `canary_helper.py:323`. The saved configuration is
  read twice; only the second text is compared at the replacement, so an edit
  by hand between the two is overwritten.
- `canary_helper.py:472`. The stored configuration of a deleted client is
  removed after the deletion was committed. If that fails it stays, and the
  retry is refused before it reaches the removal
  (`docs/CANARY_HTTP_CONTRACT.md:35-37` says it is removed). A creation whose
  directory synchronisation fails leaves a configuration of a peer that was
  rolled back.
- `lifecycle.py:569`. A key protects from repetition only while its success is
  remembered. After a lost answer, a failed read-back, a call that timed out and
  takes effect later, an eviction from the cache or a restart, a retry with the
  same key makes the helper run again; each such cause allows one repetition
  (`RepeatsHaveCause`). A creation is refused on the second attempt until the
  service restarts, and after that by the ledger in the file.
- `rate_limit_proxy.py:241`. The relay looks at the sign-in before it reads the
  body: a request that has passed is carried out though the operator logs out
  meanwhile, since the application looks at the session of the page only.
- `lifecycle.py:462`. A deletion whose read-back failed is not remembered; its
  retry fails although the client is gone. `lifecycle.py:569`: a nonce used by a
  creation is accepted as the key of another mutation.
- A kill between write and restart leaves `list` refusing to answer until the
  interface is restarted (`docs/THREAT_MODEL.md:48-52` says so).
- `server_endpoint.py:171`. The rollback of an endpoint overwrites an edit made
  by hand after the replacement.
- The page: an answer to an older refresh overwrites the result of a newer
  change; the answer to the deletion of one client changes the delete dialog of
  another (which `GatesTrackCalls` leaves out); the read-back after a creation
  is not compared with the profile, and is safe only because the switch is shut.
- The settings page: a load that was begun before a save and ends during it
  opens the button of the form again, so that a second save can be sent; the
  service refuses it by its revision.
- A stop of the service with requests in flight is a crash for the action log:
  the next start asks for reconciliation.

## 7. Not modelled

- Client templates (`client_templates.py`). A template is one file that is
  replaced by one rename under its own lock; it has no revision, no second file
  and no rollback. The last writer wins: there is nothing for a property to
  relate it to. The page sends a template unconditionally too, and a late load
  can fill in the form of a template that was saved meanwhile.
- Dossier, search, filters, menus and toasts of the console: presentation.
- The HTTP shell: header, host and body checks and routing have no shared state;
  the order of its calls is in `ActionAudit`, its sessions in `OperatorSessions`.
- The dump parser (`snapshot.py`): pure, and about text.
- Rendered pages, the mock adapter (tests only), installation and release
  scripts (run alone by an administrator or the release pipeline).

## 8. Plan

1. Liveness of the parts that have none yet: every lifecycle request is answered
   or dies with its process, a port migration ends, a gate of the page opens
   again, an audited request is answered. Of these the safety half can be proved
   (a step that is always possible, a measure that it lowers), the rest is TLC's.
2. Compose `LifecycleService` with `ActionAudit`: what RESULT records against
   what the registry did, and prove it from `Evident` and `Kept`.
3. Compose the page with the sessions: a save that meets a session that has
   ended.
