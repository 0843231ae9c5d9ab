# A TLA+ model of the network client

The repository is a Windows proxy client: a background service
(`service/network-service`, Rust, tokio) that drives an external proxy core,
the WinINET system proxy and an optional TUN adapter, and a WPF user interface
(`client/WindowsClient`, C#) that talks to it over a named pipe.  This
directory models the service's connection core, its node and subscription
catalogue, its routing engine, DNS cache, diagnostics and traffic accounting,
and the pipe and the reconnecting client between the two programs.  It checks
them with TLC on small instances and proves their main invariants with TLAPS.

Paths below are relative to `service/network-service/src/` unless they start
with `client/`.

## 1. Inventory

| Component | State | Operations | What makes it correct |
|---|---|---|---|
| Connection manager, `app/lifecycle.rs` | async mutex `guard`, `active_node`, `monitor` handle, `restart_count` | `connect`, in-place switch, `disconnect`, `recover`, `startup_recover`, `abort_start`, `cleanup_partial` | core, proxy, session and published state agree whenever nothing is in progress; a failure unwinds what was started; every request ends |
| State store, `app/state.rs` | state, node, mode, latency, error | `transition`, `set_context`, `fail`, `get` | the state only moves along the table |
| Health supervisor, `health/monitor.rs` | one task per session, its token, strikes | `supervise`, `tick_phase` | one supervisor per session; dead core noticed; recovers only a live session |
| System proxy, `route/manager.rs` | registry values, `saved`, `proxy_backup.json` | `set_system_proxy`, `clear_system_proxy`, `prime_from_backup`, `restore_after_crash`, `ensure_proxy_applied` | the user's settings are never lost and always restored; no redirect to a dead port |
| Proxy core adapter, `proxy/manager.rs` | child, status, orphan on the port | `start`, `stop`, `restart`, `health_check`, `reap_stale_cores` | status and child agree; an orphan is not taken for the child |
| Runtime file, `config/manager.rs` | `runtime_state.json` | `save_runtime`, `runtime` | what boot finds matches a session that may have left something behind |
| TUN manager, `tun/manager.rs` | adapter handle | `start`, `stop` | down when nothing is connected |
| Node catalogue, `nodes/` | nodes, selection, statistics, probes in flight | CRUD, `select`, `test_node`, `batch_test`, `smart_select`, `replace_subscription_nodes` | file and memory agree; statistics only of existing nodes; replacing is all or nothing |
| Subscriptions, `subscription/` | items, refreshes in flight | `add`, `update_fields`, `delete`, `refresh`, `refresh_due` | a failed refresh keeps the old nodes; no node outlives its subscription |
| Routing, `routing/` | rules, index, mode, GeoIP | rule CRUD, `set_mode`, `decide` | index and list agree; no edit is lost; the ladder of priorities decides |
| DNS, `dns/` | configuration, cache | `resolve`, `set_config`, `flush_cache` | no answer of an old configuration after a change; bounded cache |
| Statistics, `statistics/` | counters, session, last sample, SQLite | `start_session`, `end_session`, flush loop, poller | bytes are attributed to the session they belong to, once |
| Diagnostics, `diagnostics/`, `app/context.rs` | token of the run in progress | run, cancel | one run at a time, and it can be cancelled |
| IPC server and bus, `ipc/` | broadcast channel, writer queue per pipe | dispatch, event forwarding | one response per request; a slow reader blocks nobody else |
| IPC client, `client/.../NetworkServiceClient.cs`, `ServiceHost.cs` | pipe, pending calls, reconnect loops | `InvokeAsync`, receive loop, reconnect | every call completes; one reconnect loop |

How they interact.  A pipe request becomes a task that calls
`AppContext::dispatch`.  Connection requests go through `ConnectionManager`,
which calls the catalogue, the routing engine, the core adapter, the TUN
manager, the system proxy and the statistics in a fixed order, publishes each
state through the store (and so through the event bus) and spawns the
supervisor.  The supervisor calls back into `recover`, which works on the same
core, proxy and state **without the guard**.  At boot `main` spawns
`startup_recover`, which takes the guard, and then opens the pipe.

What is hard: `recover` against connect and disconnect, which await the
supervisor while they hold the guard; steps of connect that fail half-way; the
service being killed between the registry write and the files that describe
it; an orphaned core that keeps the port; catalogue and mode changes between
two steps of a connect; refreshes, deletes and probes that overlap; two files
that are written without a lock.  `PROJECT.json` lists each hazard at its line.

## 2. Modules

| Module | Models | Role |
|---|---|---|
| `Shared` | | `None` and the kinds of operation that may fail |
| `ConnState` | `app/state.rs` | transition table, and the abstract specification `StoreSpec` |
| `SystemProxy` | `route/manager.rs` | registry, snapshot, backup; its operations as action fragments |
| `ProxyCore` | `proxy/manager.rs` | child, status, orphan; its operations as action fragments |
| `Connection` | `app/lifecycle.rs`, `health/monitor.rs`, the connection part of `app/context.rs` | composes the three into processes: the specification `Spec` |
| `ConnectionProps` | | types, safety, action and liveness properties, the inductive invariant `Discipline`, `FairSpec` |
| `MCConnection` | | values for the constants |
| `ConnectionProofs` | | theorems on types, mutual exclusion and the state store |
| `SessionProofs` | | theorems on what a session promises and what it leaves behind |
| `NodeStore` | `nodes/manager.rs`, `nodes/health.rs` | catalogue, selection, statistics, probes in flight; operations as action fragments |
| `SubscriptionStore` | `subscription/manager.rs` | items and refreshes in flight; operations as action fragments |
| `Catalog` | the node and subscription part of `app/context.rs`, `refresh_due`, `persist`, `atomic_write_json` | composes the two stores, their files and the tasks that use them |
| `CatalogProps` | | types, invariants, action and liveness properties |
| `MCCatalog` | | values for the constants |
| `CatalogProofs` | | theorems |
| `Retain` | `Iterator::filter` and `collect` | the filtered list as a fold (`Kept`), used by rules and DNS |
| `RuleIndex` | `routing/matcher.rs`, `routing/rule.rs`, `routing/geoip.rs`, `decide` of `routing/engine.rs` | the index and the decision, as operators |
| `RuleBook` | what `routing/engine.rs` promises | abstract specification of the user's rules |
| `RuleStore` | `commit`, `load` and the edits of `routing/engine.rs` | the specification `RulesSpec` |
| `RuleProps`, `RuleProofs` | | properties, the reference reading of the rules, the refinement of `RuleBook`; theorems |
| `FoldFacts` | | lemmas on least and greatest elements, folds and `Kept`, which `RuleProofs` and `DiagnosticsProofs` cite |
| `Dns` | `dns/manager.rs`, `dns/cache.rs`, `select_servers` | cache, configuration, lookups; as action fragments |
| `Diagnostics` | `diagnostics/engine.rs`, the diagnostics part of `app/context.rs` | composes its runs with `Dns`: `NetSpec` |
| `DiagnosticsProps`, `DiagnosticsProofs` | | properties of both, theorems |
| `Statistics` | `statistics/`, the poller of `main.rs` | `StatsSpec` |
| `StatisticsProps`, `StatisticsProofs` | | properties, theorems |
| `Pipe` | `ipc/server.rs`, `ipc/events.rs`, `client/.../NetworkServiceClient.cs`, the state `HomeViewModel` shows | `PipeSpec` |
| `PipeProps` | | properties |
| `Host` | `client/.../ServiceHost.cs` | `HostSpec` |
| `HostProps` | | properties |
| `IpcProofs` | | theorems of `Pipe` and `Host` |
| `MCServices` | | values for the constants, and a `Next` that drives one of these components per behaviour |

`Connection`, `Catalog` and the five of `MCServices` are separate
specifications.  `Connection` sees of the catalogue only whether each node is
enabled, disabled or gone, and lets that change at any time, so that every
behaviour of `Catalog` is allowed there.  The other components take no part in
the decisions of these two: `Statistics` sees a connection as a start or an end
of a session at any time, `Pipe` sees the service as a source of events and a
state to ask for, `Host` sees a pipe as a dial that succeeds or fails and a
connection that ends.

### State and steps

`st` and `target` are the store; `guard`, `active`, `monitor`, `restarts` the
fields of `ConnectionManager`; `registry`, `saved`, `backup` those of
`RouteManager` and what it writes; `core` the child and status of the adapter;
`rt` the runtime file; `session`, `tun`, `catalog`, `routing` what the
connection sees of the other managers.

A *process* is the task of a request (`Clients`, reused one request after the
other) or the boot task (`Boot`).  `pc[p]` names the next step.  A *supervisor*
is a task of `Sups`, `spc[s]` its next step, `"none"` when there is no such
task.  A step is the code between two awaits.  Where another thread can run in
between and see the difference, the code is split further: registry write and
snapshot in `set_system_proxy`, node lookup and selection in
`connect_locked`, the `fail` and the `persist_runtime` of a recovery that gives
up; and each of the reads of the state in `disconnect`, which a supervisor may
move in between: it answers ok over a live session when a recovery succeeds
between the second and the third read (`IgnoreDisconnect`), and with an error
when one gives up before the transition (`RefuseDisconnect`).  Where it cannot,
consecutive calls are one action.  The start of a core is one step, observed
when it returns; a kill during it leaves its child behind or not (`CoreCrash`).

| Code | Steps of `pc` |
|---|---|
| `connect_locked` | `lock`, `entry`, (`join`, `switch`,) `node`, `select`, `start`, `proxy`, `remember`, `commit`, `spawn` |
| failing connect | `undo`, `undoCore`, `abort` |
| `disconnect` | `lock`, `entry`, (`again`, `third`, `leave`,) `join`, `undo`, `undoCore`, `finish` |
| `startup_recover` | `lock`, `reap`, `read`, (the steps of connect, `ensure`) or `restore` |
| `tick_phase` | `tick`, `probe` |
| `recover` | `recover`, `reconnect`, `start`, `health`, or `reselect`, `choose`, `startOther`, `healthOther`; `giveUp`, `giveUpCore`, `gone`; `verdict` |

The ordered shutdown of `main` is a disconnect request followed by `Crash`:
after the disconnect the process ends, and everything in memory is lost as in a
kill.

### The catalogue

`nodes`, `selected`, `measured`, `testing` are the fields of `NodeManager` and
the keys of its statistics table; `items`, `refreshing` those of
`SubscriptionManager`; `issued` the uuids already given out.  `files` and `tmps`
are nodes.json, subscriptions.json and their temporary files.  `job[j]` is a
task: its next step `pc` and the locals that survive a step.  It takes one
request after the other.

| Code | Steps of `pc` |
|---|---|
| `persist`, `atomic_write_json` | `snapshot`, `write`, `rename`, then the step in `then` |
| node `add`; `update`; `delete` | save; `check`, `put`, save; `deselect`, (`clear`,) save |
| `select` | `select`, `choose` |
| `test_node`, `batch_test` | `batch`, until `todo`, `spawned` and `dialing` are empty |
| `smart_select` and its caller | `rank`, `pick`, (`select`, `choose`) |
| subscription `add`, `update_fields`; `delete` | save; `disown`, save nodes, `saveItems`, save |
| `refresh`, `refresh_due` | `claim`, `fetch`, save nodes, `metadata`, save, `release`, `claim`, ... |

The code of these two managers has few awaits, but the runtime has several
threads: a step is therefore what runs under one lock.  A probe enters
`in_flight` (`Dial`), looks its node up and leaves again when it is unknown
(`LookUp`, `found`), stores its statistics and leaves (`Probed`).  Two locks taken
in a row are one step only where no other task can tell (entering `refreshing` and
looking up the item, storing statistics and leaving `in_flight`).

### The routing engine

`rules` and `index` are the two locks of `RoutingEngine`, `ruleFile` and
`ruleTmp` rules.json and its temporary file, `editor[e]` a request that edits
the list: `idle`, `write`, `rename`, `index`, `list`, one step per lock or file
operation of `commit`; write and rename may fail.  `RestartRules` is a kill at any step and the `load` of
the next start.

The tries, hash maps and lists of `RuleIndex` are operators on the list of
enabled rules: a map or a trie leaf keeps the last rule of a value (`Keyed`), a
trie walk the longest prefix (`Longest`), a list its order (`Candidates`, the
index restricted to the rules that match).  `Winner` follows
the pipeline of `decide`.  `RuleProps` states the same decision without any of
these structures (`Reference`): which rules apply, which rule hides which, and
the order of the rest.

### DNS and diagnostics

`dnsCfg`, `dnsCache` are the fields of `DnsManager`, `dnsFile` is dns.json,
`setter[k]` a `set_config` request (file, cache, configuration: three locks; several
may overlap, and leave the three of different requests; the write may fail), `lookup[t]` a task in `resolve`: `select`, `ask` once per server, `done`.  The
age of an entry is counted down by `Tick`.  `diagSlot` is `diag_running`,
`diag[r]` the task of a run, whose step `DnsStep` is a `resolve` of one fixed name.  A run that ends
empties the slot whatever is in it; `swept` is a history variable that says that
it has been the token of another run.

### Traffic accounting

One direction of the two.  `prev` and `poll` are the locals of the poller in
`main`, `count`, `last` and `session` the fields of `StatsManager`, `control` is
`start_session` or `end_session` between its locks, `flush` is `flush_once`
between its locks.  `sampled` and `closed` are the sums of what the database
holds.  `carried` and `recorded` are history variables: what all cores have
carried, and what was ever added to a counter.

### The pipe and the service host

`Pipe` follows frames: `requests`, then a handler in `server[c]`, then `outbox`
(the channel to the writer), `wire`, and the receive loop of the client, which
completes `call[c]` or updates `view`.  Events go from the bus (`ring`) through
the forwarder (`held`) into the same `outbox`.  Events are numbered; `changes` are
those that announce a connection state, the others (traffic, probes, logs) only
share the ring with them, and the state is named by the number of the event that
announced it.  `Drop` ends the connection from either side with all that was under
way.  The calls made on it (`asked`) stay pending: the receive loop never touches
`_pending` and no caller passes a deadline, so that such a call never completes.
`fresh` is a history variable: the last change of state was emitted on a served
connection while no reply was to come, and no lag has lost it.  A lag can lose it:
probes, logs and traffic fill the ring, and nothing repeats the state.

`Host` follows the client objects: `current` is the field `_client`, `client[c]`
whether the object is connected, how many handlers it has and how many pipes
were replaced under it, `task[t]` a `StartAsync` or a reconnect loop.

### Abstractions

* A registry value is `[on, spec]`: `ProxyServer` and `ProxyOverride` are one
  value, compared only with the service's own (`Ours`) and with the empty one.
  A failing write of the pair leaves the old or the new `spec`.
* The core's generated configuration is the node it serves.
* Health is an input: any of the three verdicts the adapter can give for the
  port and the status it sees.
* Latency, texts, events and timestamps are left out.
* Of a node its owner and its enabled flag are kept, of a subscription its
  enabled flag, the ids of its last refresh and whether there was one.  An item
  that was fetched may be due at any time.  Download, decoding and parsing give
  one of `Feeds` or fail.  Ids are hashes of the endpoint, so that two
  subscriptions, or a subscription and the user, can have the same one.
* A node that a client adds has no owner, and an updated record differs from the
  one that was read in its enabled flag: no client sets `subscription_id`.
* A domain is the sequence of its labels from the right, an address its family
  and bits: a sequence of `Symbols`, as are the values of suffix and
  ip rules.  What a keyword, regex or port range matches is the relation
  `Covers`, what the builder refuses the set `Malformed`.  Case and white space
  are left out.
* A DNS query gives addresses or fails; an answer is known by its server.
* What a diagnostics step finds is left out, only its end and the look at the
  token remain.  A run or a request that cannot take the slot changes nothing.
* Traffic rates and the traffic event are left out.
* A frame is the call it answers, or none for an event, and the state it tells.
  `Handle` makes a result, an error or the reply to a panic: all make one frame.
* The three attempts of `ConnectWithRetriesAsync` are one dial; that `StartAsync`
  launches the service between its two attempts is left out.
* Writing the temporary file is one step, so that a write torn by another one is
  not seen, and a write that fails leaves none.  A crash is a kill of the process:
  the fsync that the comment at config/manager.rs:91 names is not in the code, so
  that a loss of power is outside what the model says of the files.
* The poller reads the core of the session.  The code asks the first `xray.exe` of
  the task list (`find_xray_pid`), which may be an orphan or a foreign process.
* `flush_once` reads the counter before it takes `last`, and `start_session` may
  reset `last` in between.  The code then samples bytes twice; the model records
  it in `torn`, and the run and `SamplesAreBacked` end there.
* Failures of `core.start`, TUN, PowerShell and probes are always possible;
  registry and disk failures where the run puts them in `Faults`.

### Three scheduling extremes

`Races` admits three interleavings in which one task is descheduled for as long
as another spends seconds in I/O.  With `Races = {}` the model excludes them:

* `tail`: a supervisor has published ERROR but not yet written the runtime file
  (synchronous code, no await), and a client dials to CONNECTED meanwhile;
* `boot`: a client connects to the pipe, sends a request and gets the guard
  before the boot task, spawned earlier, has asked for it;
* `resume`: `spawn_monitor` has started a supervisor whose first probe (an HTTP
  request through the tunnel) fails and starts a recovery before boot recovery
  has run the registry check that follows immediately.

All runs of `Connection` use `Races = {}`; the theorem `Types` holds with any `Races`, the others
say that they assume `Races = {}`.  These are real possibilities of the code, not
claims that they cannot happen; `boot`, the likeliest, is listed as a hazard.

## 3. Runs

| Run | Instance | Shows |
|---|---|---|
| `core` | 2 clients, 2 nodes (one may change), 2 supervisors, `RestartMax = 1`, TUN on, the user browsing directly or through a proxy | `TypeOK`, `ExclusiveRecovery`, `OneSupervisor`, `ConnectedIsServed`, `StoppedIsClean`, `RedirectIsReversible`, `StoreSpec` |
| `crash` | 1 client, 2 nodes, restore on, `RestartMax = 0`, up to 2 crashes | `ExclusiveRecovery`, `ConnectedIsServed`, `StoppedIsClean`, `BootLeavesNoDeadProxy` |
| `faults` | 1 client, 1 node (may change), 2 modes, registry and disk failures | `ConnectedIsServed`, `StoreSpec` |
| `live` | 2 clients, 1 node, `FairSpec` | `RequestsFinish`, `DeadCoreHandled` |
| `restart` | 1 job, 2 nodes (one may be added by hand), 2 subscriptions, crashes at any step | `SettledIsSaved`, `OwnersOnDisk` |
| `overlap` | 2 jobs, 2 nodes, 1 subscription, 1 permit, fair | `CatalogTypeOK`, `SlotsAreHeld`, `RefreshListsItsNodes`, `JobsFinish` |
| `budget` | violated: `RestartBudgetSpent` | a session is given up after one failed restart of three |
| `unwind` | violated: `FailureUnwinds` | a connect that fails between lookup and selection leaves STARTING for ever |
| `error` | violated: `ErrorClearsProxy` | a failed in-place switch leaves the applications on a stopped core |
| `dangling` | violated: `CrashIsCleanedUp` | boot recovery ignores the backup when no node was persisted |
| `services` | the components of `MCServices`, one per behaviour (`Foci`) | rules: `RulesTypeOK`, `FileAlwaysLoads`, `DecisionFollowsRules`, `BookSpec`; DNS and diagnostics: `NetTypeOK`, `CacheInBounds`, `OneRunUnlessSwept`, `OldServersFade`, `SlotEmpties`; accounting: `StatsTypeOK`, `TotalsAreBacked`, `SamplesAreBacked`; pipe: `PipeTypeOK`, `OneReplyPerCall`, `EventsInOrder`, `CallsAnswered`, `LastStateIsShown`; host: `SingleUnlessOverlapped`, `LostIsRegained` |
| `single` | violated: `SingleConnection` | a page and a reconnect loop that overlap end with two open pipes |

Why the bounds are enough.  Two clients are what a race for the guard, a switch
under a recovery and a reconnect interrupted by another client need; the guard
makes a third client wait like the second.  Two supervisors are needed for a
second one to appear: `OneSupervisor` would fail by one being spawned while the
other is alive, and `SpawnMonitor` is never blocked for want of an identity
while one is free.  Two nodes distinguish the published, the active and the
served node.  `RestartMax` 0 leads to the smart switch, 1 to the restart.
`catalog` lets a node go and come back between any two steps.  `Strike = 3` is the code's.
The only counter without a bound in the code is `crashes`, bounded by
`MaxCrashes`; two crashes allow a crash of a boot recovery.

Nothing in `Catalog` is counted, and its runs are complete for their constants.
One subscription and one node too many for the permit are what a collision of
two jobs needs: two refreshes of one subscription, two probes of one node, a
batch that waits for its permit.  Two subscriptions and a feed that contains
the manual node are what a change of owner needs.  Requests are split between
the runs to keep them small: `overlap` has the requests that take slots and
that end a subscription, `restart` those that write.  No run has an edit of a node
overlap with a refresh: the theorems have `add` and `delete` there, and an `update`
breaks what `RefreshListsItsNodes` says (hazard at nodes/manager.rs:73).

`restart` has one job and no failing write.  With two, its properties are not the
code's: overlapping saves share a temporary file (hazard at config/manager.rs:98),
and a refresh may outlive its subscription (subscription/manager.rs:270).
`DiskNamesItsOwners` says that nothing else breaks them.  TLC agrees: with two
jobs, one subscription and `CONSTRAINTS OneChange FetchedStillLive` in the
configuration of `restart` it finds no error, and without either of the two
`OwnersOnDisk` is violated.  What a failing write leaves is not stated: memory
changes before the file, so that `SettledIsSaved` cannot hold.

The components of `services` share no variable, so that their product would only
repeat each of them: `focus` is chosen once and the other components keep
their initial state.  All are complete for their constants.

* Rules: one editor, one id (so that two rules share it), lists of two rules
  from nine shapes: enough for a trie leaf replaced, a longer prefix hiding a
  shorter one, a tie between a keyword and a suffix, a port in a range, a rule
  that is disabled and one that the builder refuses.  With one editor `BookSpec`
  is what the code promises; two editors break it (hazard at
  routing/engine.rs:125), and `FileAlwaysLoads` holds all the same, by proof.
* DNS and diagnostics: two names for a cache of one (`MinSize = 1`), three
  configurations (other servers, other order, switched off), two setters that
  overlap, two runs of two steps and a lookup of a client.  Setters and lookups of
  clients, and runs of the diagnostics, are driven in different behaviours; the
  theorems have them together, and any number of each.
* Accounting: two bytes, which give a restart of the core between two readings
  and a flush between two others.
* Pipe: two calls and two events, of either kind, on queues of one, so that every
  queue is full in some state and the bus loses an event, a change of state pushed
  out by another event included.
* Host: one page, two loops, three objects: a page and a loop that overlap, and
  an object for each next to the current one.  Behaviours of the focus `host`
  stop where two tasks overlap, as those of the accounting stop at a torn flush:
  what follows is outside the properties (`torn`, `overlapped`), and `Aside`
  lets the behaviour stutter there.

Fairness.  A ready task of the tokio runtime is eventually polled: weak
fairness for the steps of every process and supervisor.  `tokio::sync::Mutex`
is first come, first served: strong fairness for taking the guard.  Requests,
exits of the core, catalogue changes and crashes are not fair.  Every await in
these steps has a timeout in the code (`wait_for_port`, probes, PowerShell),
except the wait for the supervisor, which is modelled (`Joined`) and is what
`RequestsFinish` is about.  In `Catalog` the same holds for `Continue(j)`, any step
of a task: locks are held for a moment, a connect ends after 3 s and a download
after 20 s.  Requests are not fair.

In `DiagnosticsProps`, `NetFairness` has every task of a lookup or a run go on
(each query has a timeout), `set_config` end, and time pass.  In `PipeProps`,
`PipeFairness` has the tasks of the connection go on; the forwarder and the
replies wait for room in the channel to the writer, and tokio serves its
senders in order: strong fairness.  It assumes a client that goes on reading.
In `HostProps`, `HostFairness` has a dial that is tried again and again succeed
some time: the service is there, or `StartAsync` has launched it.  Nobody has
to call, to configure, to cancel or to drop a pipe.

### Findings

The five violated properties are disagreements between the code and its own
comments; `PROJECT.json` quotes them.  The property names say what was promised.

## 4. Theorems

For every value of the constants that satisfies the named assumptions of the
modules.

In `ConnectionProofs`:

* `Types`: `Spec => []TypeOK`.
* `Disciplined`: with `Races = {}`, `Spec => []Discipline`.
* `RecoveryIsExclusive`, `SupervisorIsUnique`: with `Races = {}`,
  `ExclusiveRecovery` and `OneSupervisor` always hold.
* `TableOrRestart`: with `Races = {}`, `Spec => StoreInit /\ [][StoreStep \/ Crash]_st`.
* `StoreRefinement`: with `Races = {}` and `MaxCrashes = 0`, `Spec => StoreSpec`.
  A crash resets the store outside the table, hence the second assumption.

In `SessionProofs`, all with `Races = {}`, for any number of crashes:

* `Reversible`: with `Faults = {}`, `RedirectIsReversible` always holds; it speaks
  of a service that has not crashed.
* `StoppedStops`: `Spec => [](st = "STOPPED" /\ Settled => NothingRuns)`, whatever
  writes fail.  `StoppedClean`: with `Faults = {}`, `StoppedIsClean` always holds,
  which adds the user's settings as long as the service has not crashed.
* `ConnectedServed`: `ConnectedIsServed` always holds, whatever writes fail.  That
  the registry points at the core is part of it until the first crash only: after
  one, `prime_from_backup` can leave a snapshot in memory while the registry is
  restored, and the next connect redirects nothing (hazard at app/lifecycle.rs:382,
  which a run of `crash` with the unrestricted property shows in 30 steps).
* `BootEndsWell`: with `Faults = {}`, `Spec => BootLeavesNoDeadProxy`.

In `CatalogProofs`, with crashes and failing writes:

* `CatalogTypes`: `Spec => []CatalogTypeOK`.
* `SlotsHeld`: `Spec => []SlotsAreHeld`.
* `RefreshLists`: if no client updates nodes, `Spec => RefreshListsItsNodes`.
* `DiskNamesItsOwners` and `RequestsReachDisk`: with no failing write and any number
  of jobs, `Spec /\ []OneChange /\ []FetchedStillLive` implies `[]OwnersOnDisk` and
  `[]SettledIsSaved`.  `OneChange` says that at most one task has changed a store
  and not yet saved it, `FetchedStillLive` that no subscription is deleted during
  its download.  The code guarantees neither, and each is needed (section 3); the
  theorems say that among all overlaps only these two do harm.

In `RuleProofs`, with failing writes and crashes:

* `RuleTypes`: `RulesSpec => []RulesTypeOK`, for any number of editors.
* `FilesLoad`: `RulesSpec => []FileAlwaysLoads`, for any number of editors.
* `RulesDecide`: `RulesSpec => []DecisionFollowsRules`: for any rules, flows,
  GeoIP table and relation `Covers`, the maps, tries and lists of the index
  decide as a reading of the rules does.
* `StoreKeepsTheBook`: with one editor, `RulesSpec => BookSpec`.

In `DiagnosticsProofs`: `NetTypes`, `SlotIsLive` and `CacheBounded`, that
`NetSpec` implies `[]NetTypeOK`, `[]OneRunUnlessSwept` and `[]CacheInBounds`.

In `StatisticsProofs`: `StatsTypes`, `TotalsBacked` and `SamplesBacked`, that
`StatsSpec` implies `[]StatsTypeOK`, `[]TotalsAreBacked` and
`[]SamplesAreBacked`.

In `IpcProofs`: `PipeTypes`, `RepliesMatch` and `OrderKept`, that `PipeSpec`
implies `[]PipeTypeOK`, `[]OneReplyPerCall` and `[]EventsInOrder`; `HostTypes`
and `HostSingle`, that `HostSpec` implies `[]HostTypeOK` and `[]SingleUnlessOverlapped`.

The argument for the connection.  `recover` takes no lock, so that mutual exclusion cannot be
read off the guard.  `Discipline` says why it holds all the same: a process past the lock
holds the guard (`GuardHeld`); every supervisor is either in the stored handle
or is being awaited by the guard's holder (`Owned`, `Awaited`); a supervisor
that nobody has stopped works on a session that is CONNECTED or RECONNECTING
(`Attached`); each step of a request knows the state it has published
(`Published`), and past the join no supervisor is left that still acts
(`Unwatched`); boot recovery comes before any supervisor (`BootFirst`).  From
`Attached`, `Published` and `Unwatched` a recovering supervisor and a working
process exclude each other, and from `Owned` and `Awaited` there is one
supervisor.  None of the parts is inductive alone: `Attached` needs `Unwatched`
when a connect publishes a state, and `Unwatched` needs `Owned` when a join ends.
TLC checked `Discipline` as an invariant of `core`, `crash` and `faults` before the proof.

`StoreRefinement` shows that the unchecked `fail` never leaves the table: every
caller of it is, by `Published` and `Attached`, in a state from which ERROR is
allowed.

The argument for the session.  Four more invariants, each inductive on top of
`TypeOK` and `Discipline`:

* `RedirectKept`: registry, snapshot and backup move together, in one of three
  forms: untouched, being taken over, taken over.  It rests on `BootQuiet`: the
  boot before the first crash finds nothing to restore.
* `CleanedUp`: what each step of a teardown has already put back, so that the
  last one, which publishes the state, finds everything done.
* `Serving`: what a connect has built so far, what a recovery must find again,
  and that a connected session is watched.
* `BootServes` and `NoneOfOurs`: what boot recovery has read and restored at each of
  its steps, and that neither snapshot nor backup ever holds our own setting, so
  that restoring never redirects.

`CleanedUp` and `Serving` hold after crashes as well: a restart begins with an
empty service, and only their conjuncts about registry and snapshot end with the
first crash.

They are needed because the properties speak of a published state only, and
every one of them is made true several steps before it is published.  TLC
checked all of them on the constants of `core`, `faults` and `crash` first.

The argument for the catalogue.  `SlotsAreHeld` is inductive given the types: it
ties each entry of `testing` and `refreshing` to the task that took it, and a
task keeps `sub` from `claim` to `release` through two saves.  `RefreshLists` needs
`StoredIsListed`: from the swap of its nodes to its metadata, a refresh has in
`got` every node its subscription owns.  Other tasks can only take nodes away from
the subscription (`OwnedSteps`): another refresh stores nodes of another
subscription, by `SlotsAreHeld`.  The one exception is a client that sends back an
old record, and the theorem excludes it by its assumption.  For the files,
`DiskInv` says, of the job that changes a store while no other does (`DiskOf`),
which file may differ from memory at each step of its save, and that what is being
written is what memory holds (`Synced`); and that a new owner is on the disk before
its nodes, and goes from it after them (`OwnersKnown`).  A step of another job
leaves memory and files alone as long as that job is not changing anything
(`QuietStep`); with two at work nothing is claimed, which is where `OneChange`
comes in.

The arguments for the other components.

* Rules: whatever an editor has in hand was built before (`EditsLoad`), so that
  it does not matter whose list the shared temporary file holds.  For the book,
  `EditInHand` follows the one edit from the list it was read from to the file;
  the rename is the abstract `Edit`, publishing the list or a restart `Serve`.
* The slot: a run that is cancelled leaves it in the same step, so that the run
  in it is never a cancelled one, and a run that ends empties it, its own or
  not; as long as it was its own or empty, the one run that nobody has cancelled is
  in it.  The cache: `put` makes room for one entry before it adds one.
* Accounting: `PollBacked` says that what was recorded, what the reading in hand
  will add and what the next reading can add stay within what the cores have
  carried; a restart only lowers the last.  `ClosedBacked` adds the open
  counter to the sessions that ended, `SampleBacked` what the flush loop holds
  and has yet to read to the samples.
* Pipe: `EventsInOrder` is inductive given the types; `RepliesMatch` rests on
  `Routed`, which says of each call in which one of four places its one message
  is, and of a call whose connection has ended that there is none.  A message that moves leaves its place and is alone in the next one.
* Host: `OneAtWork` says that one task works on the current object at a time, and
  only while no pipe is open, until an object is replaced under another task.

The argument for the decision.  `RulesDecide` needs nothing of a state but the
type of `index`; it is a theorem on the operators.

* The engine keeps the best candidate so far.  `First(idx, S, m)` says that m is
  the rule of S that comes `Before` all others: by priority, then stage, then
  position.  `Better` takes the first of each of two sets to the first of their
  union if, of one priority, the rules of the second are asked later (`Tie`,
  `BetterIsFirst`), and a fold
  of it does the same for a list (`BestOfIsFirst`): the strict comparison of
  `better` and `consider` is what makes a tie go to the earlier stage.
* Each lookup finds the rules of its stage that apply and that no other rule
  hides (`KeyedFinds`, `LongestFinds`, `PortFinds`, `DomainFinds`): the later of
  two values in a map, the longest prefix in a trie, the exact port before a
  range.
* The stages are asked in the order of `Rank` (`StagesInOrder`), so that `Winner`
  is first among all rules seen (`WinnerIsFirst`); `Before` is a strict order
  (`BeforeIsStrict`), so that the first is the one `Reference` chooses.

Folds.  The folds of the community modules are defined by recursion, and no
induction theorem with an operator parameter can be cited.  `FoldFacts`
therefore does its inductions over sets: a set of naturals that is not empty has
a least element (`NatMin`, from the well-foundedness of the order), hence a
property given as the set of its numbers can be proved step by step
(`Induction`).  `FoldExists` constructs the recursive function behind
`FoldLeft`, and `FoldInduction` says that a family of sets of positions which
contains the empty set, and a set whenever it contains the set without its last
position, contains all positions.  The positions may have gaps, as those of
`Candidates` do.  `Kept` replaces `SelectSeq`, a built-in operator of the
prover that it cannot expand.

The types.  `RuleTypes` rests on `EditsAreLists`: adding, replacing and filtering
give lists of rules within the bound.  `NetTypes` is proved from `CacheInv`,
which also says that a lookup that is asking has a server left to ask, and
types what a lookup has still to ask by `SelectServers`, two filters of the
configured servers.

Only model-checked: the liveness properties (`RequestsFinish`,
`DeadCoreHandled`, `JobsFinish`, `OldServersFade`, `SlotEmpties`,
`CallsAnswered`, `LastStateIsShown`, `LostIsRegained`), which need fairness and
are out of the prover's reach.  Every invariant and every refinement that a
passing run checks is a theorem, under the assumptions named above.

What the properties do not see.  `BootLeavesNoDeadProxy` asks for a child that
serves the published node, not that it is alive, and `DeadCoreHandled` counts a
port held by an orphan as open, as `health_check` does: a session that an orphan
serves, after a reap that failed, passes both.  After a crash `StoppedIsClean` says
that nothing runs, not what the registry holds.  `ExclusiveRecovery` against boot
recovery rests on `Races = {}`.  `SlotEmpties` holds with the slot emptied by the
wrong run, which `OneRunUnlessSwept` marks.  `OwnersOnDisk`, `SettledIsSaved`,
`SamplesAreBacked`, `SingleUnlessOverlapped`, `OneRunUnlessSwept` and `LastStateIsShown`
promise nothing of behaviours with the race they name; `PROJECT.json` lists each
race as a hazard with a note.

## 5. Plan

1. Done: the connection core, the catalogue.
2. Done: routing engine, DNS and diagnostics, accounting, pipe and service host.
3. Done: the session's promises and the files of the catalogue, proved.
4. Done: every invariant of the runs proved, the decision of the routing engine
   among them.
5. Left to prove: which backup survives a crash (`RedirectIsReversible` beyond the
   first crash), and what the catalogue's files keep of their promises when saves
   overlap.
6. Left to model: registry faults and crashes of `Connection` in one run; the
   catalogue in place of the `catalog` variable of `Connection`.

## 6. Not modelled

The configuration builders, the URI parsers, the DNS wire format and the
protobuf codec are pure conversions without state; DPAPI, wintun, ICMP and
WinINET broadcasts are calls of the operating system; the views and the tray icon
present the service's snapshot; installer, scripts and workflows package it.

Of the components that are modelled in part: requests that only read (settings,
logs, statistics queries), the log ring, app.json and routing.json as files, the
packet parser of the TUN manager, the launch of the service by the client and
the deadlines a caller sets on a call.  `PROJECT.json` has a note on each.
