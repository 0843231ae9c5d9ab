----------------------------- MODULE Connection -----------------------------
(***************************************************************************)
(* The connection manager (app/lifecycle.rs) and its health supervisor     *)
(* (health/monitor.rs), with the state store, the core adapter and the     *)
(* system proxy they drive.                                                *)
(*                                                                         *)
(* A process p of Procs is the task of an IPC request (Clients) or of the  *)
(* boot-time recovery (Boot).  connect, disconnect and boot recovery run   *)
(* under the async mutex `guard'; the supervisor does not take it.  A step *)
(* is the code between two awaits, split further where another thread can  *)
(* run in between and see the difference.                                  *)
(*                                                                         *)
(* Node contents, latencies, messages and the generated core configuration *)
(* are left out.  Every variable is bounded except by MaxCrashes.          *)
(***************************************************************************)
EXTENDS Naturals, ConnState, SystemProxy, ProxyCore

CONSTANTS
  Clients,          \* concurrent IPC requests
  Boot,             \* the boot-time recovery task
  Volatile,         \* the nodes whose catalogue entry may change
  Modes,            \* routing modes
  Smart,            \* the mode that allows an automatic switch
  Sups,             \* supervisor tasks; bound on those alive at once
  RestartMax,       \* core.restart_max
  TunEnabled,       \* tun.enabled
  RestorePrevious,  \* restore_previous_connection
  Races,            \* admitted scheduling extremes: a subset of RaceKinds
  MaxCrashes        \* bound on the number of service crashes

VARIABLES
  target,      \* StateStore: [node, mode]
  tun,         \* the TUN adapter is up
  session,     \* node of the statistics session
  guard,       \* holder of ConnectionManager.guard
  active,      \* active_node
  monitor,     \* supervisor whose handle `monitor' holds
  joining,     \* local of stop_monitor: the supervisor being awaited
  restarts,    \* restart_count
  rt,          \* runtime_state.json: [last, node, mode]
  pc, req,     \* per process: next step, and the request it serves
  bootRt,      \* local `runtime' of startup_recover
  spc,         \* per supervisor: next step, "none" when there is no such task
  cancelled,   \* per supervisor: its token is cancelled
  strikes,     \* per supervisor: consecutive uplink failures
  snode,       \* per supervisor: local `node' of recover
  scand,       \* per supervisor: local `new_node' of recover
  catalog,     \* NodeManager.nodes: "enabled", "disabled" or "gone"
  routing,     \* RoutingEngine.cfg.mode
  crashes

stateVars == <<st, target>>
linkVars == <<active, restarts, session, tun>>
joinVars == <<monitor, joining>>
procVars == <<guard, pc, req, bootRt>>
supVars == <<spc, cancelled, strikes, snode, scand>>
envVars == <<catalog, routing, crashes>>
vars == <<stateVars, proxyVars, coreVars, linkVars, joinVars, procVars, supVars,
          rt, envVars>>

Procs == Clients \cup {Boot}
Targets == [node : Nodes \cup {None}, mode : Modes]
Ops == {"connect", "disconnect", "reconnect", "boot", "none"}
Requests == [op : Ops, node : Nodes \cup {None}, mode : Modes]
Runtime == [last : States, node : Nodes \cup {None}, mode : Modes]

(***************************************************************************)
(* Three interleavings need one task to be descheduled for as long as      *)
(* another runs through seconds of work.  Races says which are admitted:   *)
(*   tail   -- a client dials to CONNECTED while a supervisor that has      *)
(*             published ERROR is still persisting it;                      *)
(*   boot   -- a client gets the guard before the boot task has asked for it *)
(*   resume -- a recovery starts between spawn_monitor and the registry     *)
(*             check that follows it in boot recovery.                      *)
(***************************************************************************)
RaceKinds == {"tail", "boot", "resume"}

ASSUME ConnectionAssumption ==
  /\ Boot \notin Clients
  /\ None \notin Nodes \cup Sups \cup Procs
  /\ Smart \in Modes
  /\ Volatile \subseteq Nodes
  /\ RestartMax \in Nat /\ MaxCrashes \in Nat
  /\ TunEnabled \in BOOLEAN /\ RestorePrevious \in BOOLEAN
  /\ Races \subseteq RaceKinds

Strike == 3

PcLabels == {"idle", "lock", "entry", "join", "switch", "node", "select", "start",
             "proxy", "remember", "commit", "spawn", "undo", "undoCore", "abort",
             "finish", "again", "third", "leave", "reap", "read", "ensure", "restore"}
SpcLabels == {"none", "tick", "probe", "recover", "reconnect", "start", "health",
              "reselect", "choose", "startOther", "healthOther", "giveUp",
              "giveUpCore", "gone", "verdict"}

NoReq == [op |-> "none", node |-> None, mode |-> Smart]
NoRuntime == [last |-> "STOPPED", node |-> None, mode |-> Smart]

-----------------------------------------------------------------------------
(* State store and runtime_state.json.                                      *)

\* transition(to), the error ignored or impossible
Goto(to) == st' = IF CanTransition(st, to) THEN to ELSE st

\* set_context(to, t): state and target change together or not at all
SetContext(to, t) ==
  IF CanTransition(st, to) THEN st' = to /\ target' = t ELSE UNCHANGED stateVars

\* persist_runtime: a failed write is only logged
Persist(last, n, m) ==
  \/ rt' = [last |-> last, node |-> n, mode |-> m]
  \/ "disk" \in Faults /\ rt' = rt

-----------------------------------------------------------------------------
(* Requests and the guard.                                                  *)

Goes(p, to) == pc' = [pc EXCEPT ![p] = to] /\ UNCHANGED <<guard, req, bootRt>>

Release(p) ==
  /\ guard' = None
  /\ pc' = [pc EXCEPT ![p] = "idle"]
  /\ req' = [req EXCEPT ![p] = NoReq]
  /\ UNCHANGED bootRt

\* connect_locked returns an error: the client gets it, boot cleans up instead.
Fail(p) == IF p = Boot THEN Goes(p, "restore") ELSE Release(p)

\* disconnect returns Ok; the reconnect handler goes on with its connect.
Disconnected(p) ==
  IF req[p].op = "reconnect"
  THEN /\ guard' = None
       /\ pc' = [pc EXCEPT ![p] = "lock"]
       /\ req' = [req EXCEPT ![p].op = "connect"]
       /\ UNCHANGED bootRt
  ELSE Release(p)

\* dispatch; reconnect without a node id reuses the published target.
Request(c) ==
  /\ pc[c] = "idle"
  /\ \/ \E t \in [node : Nodes, mode : Modes] :
          req' = [req EXCEPT ![c] = [op |-> "connect", node |-> t.node, mode |-> t.mode]]
     \/ \E t \in [node : Nodes, mode : Modes] \cup {target} :
          req' = [req EXCEPT ![c] = [op |-> "reconnect", node |-> t.node, mode |-> t.mode]]
     \/ req' = [req EXCEPT ![c].op = "disconnect"]
  /\ pc' = [pc EXCEPT ![c] = "lock"]
  /\ UNCHANGED <<stateVars, proxyVars, coreVars, linkVars, joinVars, guard, bootRt,
                 supVars, rt, envVars>>

\* The boot task is spawned before the pipe exists: unless the "boot" race is
\* admitted, it queues for the guard before any client.
Lock(p) ==
  /\ pc[p] = "lock"
  /\ guard = None
  /\ p = Boot \/ pc[Boot] # "lock" \/ "boot" \in Races
  /\ guard' = p
  /\ pc' = [pc EXCEPT ![p] = IF p = Boot THEN "reap" ELSE "entry"]
  /\ UNCHANGED <<stateVars, proxyVars, coreVars, linkVars, joinVars, req, bootRt,
                 supVars, rt, envVars>>

\* stop_monitor: take the handle and cancel the token; Joined awaits the task.
TakeMonitor ==
  /\ joining' = monitor
  /\ monitor' = None
  /\ cancelled' = [s \in Sups |-> cancelled[s] \/ s = monitor]
  /\ UNCHANGED <<spc, strikes, snode, scand>>

\* Mutant of Joined: the supervisor is cancelled but not awaited.
JoinedNever == TRUE
Joined == joining \in Sups => spc[joining] = "none"

-----------------------------------------------------------------------------
(* connect_locked.                                                          *)

Dialing(p) == req[p].op \in {"connect", "boot"}

SameTarget(p) == active # None /\ active = req[p].node /\ target.mode = req[p].mode

\* A live session with another node or mode: the core is torn down in place.
SwitchInPlace(p) ==
  /\ pc[p] = "entry" /\ Dialing(p)
  /\ st = "CONNECTED" /\ ~SameTarget(p)
  /\ Goto("STOPPING")
  /\ TakeMonitor
  /\ Goes(p, "join")
  /\ UNCHANGED <<target, proxyVars, coreVars, linkVars, rt, envVars>>

RejectConnect(p) ==
  /\ pc[p] = "entry" /\ Dialing(p)
  /\ \/ st = "CONNECTED" /\ SameTarget(p)
     \/ st \in {"STARTING", "CONNECTING", "STOPPING"}
     \/ st # "CONNECTED" /\ ~CanTransition(st, "STARTING")
  /\ Fail(p)
  /\ UNCHANGED <<stateVars, proxyVars, coreVars, linkVars, joinVars, supVars, rt, envVars>>

Dial(p) ==
  /\ pc[p] = "entry" /\ Dialing(p)
  /\ st \notin {"CONNECTED", "STARTING", "CONNECTING", "STOPPING"}
  /\ CanTransition(st, "STARTING")
  /\ Goto("STARTING")
  /\ Goes(p, "node")
  /\ UNCHANGED <<target, proxyVars, coreVars, linkVars, joinVars, supVars, rt, envVars>>

SwitchJoined(p) ==
  /\ pc[p] = "join" /\ Dialing(p)
  /\ Joined
  /\ joining' = None
  /\ Goes(p, "switch")
  /\ UNCHANGED <<stateVars, proxyVars, coreVars, linkVars, monitor, supVars, rt, envVars>>

SwitchTeardown(p) ==
  /\ pc[p] = "switch"
  /\ CoreStop
  /\ tun' = FALSE /\ session' = None /\ active' = None
  /\ Goto("STARTING")
  /\ IF CanTransition(st, "STARTING") THEN Goes(p, "node") ELSE Fail(p)
  /\ UNCHANGED <<target, proxyVars, restarts, joinVars, supVars, rt, envVars>>

\* What nodes.get finds under an id.
Listed(n) == IF n = None THEN "gone" ELSE catalog[n]

\* abort_start: ERROR, persisted with the node if it is known.
Abort(p, n) ==
  /\ st' = "ERROR"
  /\ Persist("ERROR", n, req[p].mode)
  /\ active' = None
  /\ Fail(p)
  /\ UNCHANGED <<target, restarts, session, tun>>

LookupFails(p) ==
  /\ pc[p] = "node"
  /\ Listed(req[p].node) # "enabled"
  /\ Abort(p, None)
  /\ UNCHANGED <<proxyVars, coreVars, joinVars, supVars, envVars>>

LookupNode(p) ==
  /\ pc[p] = "node"
  /\ Listed(req[p].node) = "enabled"
  /\ Goes(p, "select")
  /\ UNCHANGED <<stateVars, proxyVars, coreVars, linkVars, joinVars, supVars, rt, envVars>>

\* nodes.select and routing.set_mode are followed by a bare `?': no abort_start.
\* set_mode changes the mode before the file is written.
SelectFails(p) ==
  /\ pc[p] = "select"
  /\ IF catalog[req[p].node] = "gone" THEN UNCHANGED routing
     ELSE "disk" \in Faults /\ routing' = req[p].mode
  /\ Fail(p)
  /\ UNCHANGED <<stateVars, proxyVars, coreVars, linkVars, joinVars, supVars, rt,
                 catalog, crashes>>

SelectNode(p) ==
  /\ pc[p] = "select"
  /\ catalog[req[p].node] # "gone"
  /\ routing' = req[p].mode
  /\ IF CanTransition(st, "CONNECTING")
     THEN /\ SetContext("CONNECTING", [node |-> req[p].node, mode |-> req[p].mode])
          /\ Goes(p, "start")
          /\ UNCHANGED <<linkVars, rt>>
     ELSE Abort(p, req[p].node)
  /\ UNCHANGED <<proxyVars, coreVars, joinVars, supVars, catalog, crashes>>

\* The core starts, then the optional TUN adapter, whose failure is tolerated.
StartCore(p) ==
  /\ pc[p] = "start"
  /\ CoreStart(req[p].node, TRUE)
  /\ tun' \in IF TunEnabled THEN {TRUE, tun} ELSE {tun}
  /\ Goes(p, "proxy")
  /\ UNCHANGED <<stateVars, proxyVars, active, restarts, session, joinVars, supVars,
                 rt, envVars>>

StartFails(p) ==
  /\ pc[p] = "start"
  /\ CoreStart(req[p].node, FALSE)
  /\ Goes(p, "undo")
  /\ UNCHANGED <<stateVars, proxyVars, linkVars, joinVars, supVars, rt, envVars>>

\* A snapshot that is already held makes set_system_proxy a no-op.
KeepProxy(p) ==
  /\ pc[p] = "proxy"
  /\ KeepRedirect
  /\ Goes(p, "commit")
  /\ UNCHANGED <<stateVars, coreVars, linkVars, joinVars, supVars, rt, envVars>>

SetProxy(p) ==
  /\ pc[p] = "proxy"
  /\ \E ok \in BOOLEAN : Redirect(ok) /\ Goes(p, IF ok THEN "remember" ELSE "undo")
  /\ UNCHANGED <<stateVars, coreVars, linkVars, joinVars, supVars, rt, envVars>>

RememberProxy(p) ==
  /\ pc[p] = "remember"
  /\ RememberUser
  /\ Goes(p, "commit")
  /\ UNCHANGED <<stateVars, coreVars, linkVars, joinVars, supVars, rt, envVars>>

\* A supervisor that gave up on the previous session but has not exited yet.
Leaving(s) == spc[s] \in {"gone", "verdict"}

\* Publish CONNECTED.  Dialling takes longer than the last lines of a leaving
\* supervisor unless the "tail" race is admitted.
Commit(p) ==
  /\ pc[p] = "commit"
  /\ "tail" \in Races \/ \A s \in Sups : ~Leaving(s)
  /\ session' = req[p].node
  /\ active' = req[p].node
  /\ restarts' = 0
  /\ SetContext("CONNECTED", [node |-> req[p].node, mode |-> req[p].mode])
  /\ IF CanTransition(st, "CONNECTED")
     THEN Persist("CONNECTED", req[p].node, req[p].mode) /\ Goes(p, "spawn")
     ELSE UNCHANGED rt /\ Fail(p)
  /\ UNCHANGED <<proxyVars, coreVars, tun, joinVars, supVars, envVars>>

\* After the latency probe: spawn_monitor replaces whatever handle was stored.
SpawnMonitor(p) ==
  /\ pc[p] = "spawn"
  /\ \E s \in Sups :
       /\ spc[s] = "none"
       /\ monitor' = s
       /\ spc' = [spc EXCEPT ![s] = "tick"]
       /\ cancelled' = [cancelled EXCEPT ![s] = FALSE]
  /\ IF p = Boot THEN Goes(p, "ensure") ELSE Release(p)
  /\ UNCHANGED <<stateVars, proxyVars, coreVars, linkVars, joining,
                 strikes, snode, scand, rt, envVars>>

-----------------------------------------------------------------------------
(* cleanup_partial, shared by a failed connect and by disconnect.           *)

UndoProxy(p) ==
  /\ pc[p] = "undo"
  /\ tun' = FALSE
  /\ ClearProxy
  /\ Goes(p, "undoCore")
  /\ UNCHANGED <<stateVars, coreVars, active, restarts, session, joinVars, supVars,
                 rt, envVars>>

\* Mutant of UndoCore: the clean-up stops the core and leaves the session open.
UndoCoreKeepsSession(p) ==
  /\ pc[p] = "undoCore"
  /\ CoreStop
  /\ Goes(p, IF Dialing(p) THEN "abort" ELSE "finish")
  /\ UNCHANGED <<stateVars, proxyVars, linkVars, joinVars, supVars, rt, envVars>>

UndoCore(p) ==
  /\ pc[p] = "undoCore"
  /\ CoreStop
  /\ session' = None
  /\ Goes(p, IF Dialing(p) THEN "abort" ELSE "finish")
  /\ UNCHANGED <<stateVars, proxyVars, active, restarts, tun, joinVars, supVars,
                 rt, envVars>>

AbortStart(p) ==
  /\ pc[p] = "abort"
  /\ Abort(p, req[p].node)
  /\ UNCHANGED <<proxyVars, coreVars, joinVars, supVars, envVars>>

-----------------------------------------------------------------------------
(* disconnect.                                                              *)

\* It reads the published state up to three times; a supervisor that recovers may
\* move the state between two reads, and before the transition that follows them.
ReadState(p) ==
  /\ pc[p] = "entry" /\ ~Dialing(p)
  /\ st # "ERROR"
  /\ Goes(p, "again")
  /\ UNCHANGED <<stateVars, proxyVars, coreVars, linkVars, joinVars, supVars, rt, envVars>>

ReadAgain(p) ==
  /\ \/ pc[p] = "again" /\ Goes(p, IF st = "CONNECTED" THEN "leave" ELSE "third")
     \/ pc[p] = "third" /\ st = "RECONNECTING" /\ Goes(p, "leave")
  /\ UNCHANGED <<stateVars, proxyVars, coreVars, linkVars, joinVars, supVars, rt, envVars>>

\* Ok, with a live session if the supervisor recovered since the second read.
IgnoreDisconnect(p) ==
  /\ pc[p] = "third"
  /\ st # "RECONNECTING"
  /\ Disconnected(p)
  /\ UNCHANGED <<stateVars, proxyVars, coreVars, linkVars, joinVars, supVars, rt, envVars>>

\* The supervisor gave up since: the transition is refused.
RefuseDisconnect(p) ==
  /\ pc[p] = "leave"
  /\ ~CanTransition(st, "STOPPING")
  /\ Release(p)
  /\ UNCHANGED <<stateVars, proxyVars, coreVars, linkVars, joinVars, supVars, rt, envVars>>

BeginDisconnect(p) ==
  /\ \/ pc[p] = "entry" /\ ~Dialing(p) /\ st = "ERROR" /\ UNCHANGED st
     \/ pc[p] = "leave" /\ CanTransition(st, "STOPPING") /\ Goto("STOPPING")
  /\ TakeMonitor
  /\ Goes(p, "join")
  /\ UNCHANGED <<target, proxyVars, coreVars, linkVars, rt, envVars>>

DisconnectJoined(p) ==
  /\ pc[p] = "join" /\ ~Dialing(p)
  /\ Joined
  /\ joining' = None
  /\ Goes(p, "undo")
  /\ UNCHANGED <<stateVars, proxyVars, coreVars, linkVars, monitor, supVars, rt, envVars>>

FinishDisconnect(p) ==
  /\ pc[p] = "finish"
  /\ Persist("STOPPED", None, target.mode)
  /\ active' = None
  /\ Goto("STOPPED")
  /\ IF CanTransition(st, "STOPPED") THEN Disconnected(p) ELSE Release(p)
  /\ UNCHANGED <<target, proxyVars, coreVars, restarts, session, tun, joinVars,
                 supVars, envVars>>

-----------------------------------------------------------------------------
(* startup_recover; the guard is held from "reap" to the end.               *)

BootReap ==
  /\ pc[Boot] = "reap"
  /\ ReapStaleCores
  /\ Goes(Boot, "read")
  /\ UNCHANGED <<stateVars, proxyVars, linkVars, joinVars, supVars, rt, envVars>>

\* An empty node id ends the recovery here, whatever the registry holds.
BootNothing ==
  /\ pc[Boot] = "read"
  /\ rt.node = None
  /\ bootRt' = rt
  /\ guard' = None
  /\ pc' = [pc EXCEPT ![Boot] = "idle"]
  /\ req' = [req EXCEPT ![Boot] = NoReq]
  /\ UNCHANGED <<stateVars, proxyVars, coreVars, linkVars, joinVars, supVars, rt, envVars>>

Resumes == RestorePrevious /\ rt.last = "CONNECTED" /\ Listed(rt.node) = "enabled"

BootResume ==
  /\ pc[Boot] = "read"
  /\ rt.node # None
  /\ Resumes
  /\ bootRt' = rt
  /\ req' = [req EXCEPT ![Boot] = [op |-> "boot", node |-> rt.node, mode |-> rt.mode]]
  /\ PrimeFromBackup
  /\ pc' = [pc EXCEPT ![Boot] = "entry"]
  /\ UNCHANGED <<stateVars, coreVars, linkVars, joinVars, guard, supVars, rt, envVars>>

BootGiveUp ==
  /\ pc[Boot] = "read"
  /\ rt.node # None
  /\ ~Resumes
  /\ bootRt' = rt
  /\ pc' = [pc EXCEPT ![Boot] = "restore"]
  /\ UNCHANGED <<stateVars, proxyVars, coreVars, linkVars, joinVars, guard, req, supVars,
                 rt, envVars>>

BootEnsure ==
  /\ pc[Boot] = "ensure"
  /\ EnsureApplied
  /\ Release(Boot)
  /\ UNCHANGED <<stateVars, coreVars, linkVars, joinVars, supVars, rt, envVars>>

BootRestore ==
  /\ pc[Boot] = "restore"
  /\ RestoreAfterCrash
  /\ Persist("STOPPED", None, bootRt.mode)
  /\ Release(Boot)
  /\ UNCHANGED <<stateVars, coreVars, linkVars, joinVars, supVars, envVars>>

-----------------------------------------------------------------------------
(* The supervisor: tick_phase.                                              *)

\* Everything a supervisor step leaves alone besides its own task.
Becomes(s, to) == spc' = [spc EXCEPT ![s] = to]

Exit(s) ==
  /\ Becomes(s, "none")
  /\ cancelled' = [cancelled EXCEPT ![s] = FALSE]
  /\ strikes' = [strikes EXCEPT ![s] = 0]
  /\ snode' = [snode EXCEPT ![s] = None]
  /\ scand' = [scand EXCEPT ![s] = None]

\* select! picks either branch when both are ready.
TickExit(s) ==
  /\ spc[s] = "tick"
  /\ cancelled[s] \/ st # "CONNECTED"
  /\ Exit(s)
  /\ UNCHANGED <<stateVars, proxyVars, coreVars, linkVars, joinVars, procVars, rt, envVars>>

Tick(s) ==
  /\ spc[s] = "tick"
  /\ st = "CONNECTED"
  /\ Becomes(s, "probe")
  /\ UNCHANGED <<stateVars, proxyVars, coreVars, linkVars, joinVars, procVars,
                 cancelled, strikes, snode, scand, rt, envVars>>

\* Mutant of AfterProbe: a dead inbound is tolerated like a dead uplink.
AfterProbeTolerant(h, n) == IF n >= Strike THEN "recover" ELSE "tick"
AfterProbe(h, n) == IF h = "LocalDead" \/ n >= Strike THEN "recover" ELSE "tick"

Probe(s) ==
  /\ spc[s] = "probe"
  /\ \E h \in {"Healthy", "LocalDead", "UplinkDead"} :
       /\ Health(h)
       /\ strikes' = [strikes EXCEPT ![s] =
                        CASE h = "Healthy"    -> 0
                          [] h = "UplinkDead" -> strikes[s] + 1
                          [] OTHER            -> strikes[s]]
       /\ Becomes(s, AfterProbe(h, strikes'[s]))
  /\ UNCHANGED <<stateVars, proxyVars, coreVars, linkVars, joinVars, procVars,
                 cancelled, snode, scand, rt, envVars>>

-----------------------------------------------------------------------------
(* recover, run by the supervisor without the guard.                        *)

\* No active node or no live session: nothing to recover.
RecoverVoid(s) ==
  /\ spc[s] = "recover"
  /\ active = None \/ st # "CONNECTED"
  /\ Becomes(s, "verdict")
  /\ UNCHANGED <<stateVars, proxyVars, coreVars, linkVars, joinVars, procVars,
                 cancelled, strikes, snode, scand, rt, envVars>>

RecoverBegin(s) ==
  /\ spc[s] = "recover"
  /\ active # None /\ st = "CONNECTED"
  /\ pc[Boot] # "ensure" \/ "resume" \in Races
  /\ snode' = [snode EXCEPT ![s] = active]
  /\ restarts' = restarts + 1
  /\ Becomes(s, IF restarts' <= RestartMax THEN "reconnect" ELSE "reselect")
  /\ UNCHANGED <<stateVars, proxyVars, coreVars, active, session, tun, joinVars, procVars,
                 cancelled, strikes, scand, rt, envVars>>

\* The result of the transition is ignored; core.restart starts with a stop.
RecoverRestart(s) ==
  /\ spc[s] = "reconnect"
  /\ Goto("RECONNECTING")
  /\ CoreStop
  /\ Becomes(s, "start")
  /\ UNCHANGED <<target, proxyVars, linkVars, joinVars, procVars,
                 cancelled, strikes, snode, scand, rt, envVars>>

RecoverCore(s) ==
  /\ spc[s] = "start"
  /\ \E ok \in BOOLEAN :
       CoreStart(snode[s], ok) /\ Becomes(s, IF ok THEN "health" ELSE "giveUp")
  /\ UNCHANGED <<stateVars, proxyVars, linkVars, joinVars, procVars,
                 cancelled, strikes, snode, scand, rt, envVars>>

\* mark_recovered: the restart budget is reset and the session persisted as
\* CONNECTED even when the published state could not be moved.
MarkRecovered(n) ==
  /\ restarts' = 0
  /\ SetContext("CONNECTED", [target EXCEPT !.node = n])
  /\ Persist("CONNECTED", n, target.mode)

RecoverHealth(s) ==
  /\ spc[s] = "health"
  /\ \E h \in {"Healthy", "LocalDead", "UplinkDead"} :
       /\ Health(h)
       /\ IF h = "Healthy"
          THEN MarkRecovered(snode[s]) /\ Becomes(s, "verdict")
          ELSE UNCHANGED <<stateVars, restarts, rt>> /\ Becomes(s, "giveUp")
  /\ UNCHANGED <<proxyVars, coreVars, active, session, tun, joinVars, procVars,
                 cancelled, strikes, snode, scand, envVars>>

\* Out of restarts: only smart mode, as it is routed now, tries another node.
RecoverReselect(s) ==
  /\ spc[s] = "reselect"
  /\ Goto("RECONNECTING")
  /\ Becomes(s, IF routing = Smart THEN "choose" ELSE "giveUp")
  /\ UNCHANGED <<target, proxyVars, coreVars, linkVars, joinVars, procVars,
                 cancelled, strikes, snode, scand, rt, envVars>>

\* smart_select returns any measured node; its final list is not filtered by
\* `enabled'.  No candidate, the same node or a node deleted meanwhile: give up.
SmartChoice(s) ==
  /\ spc[s] = "choose"
  /\ \/ /\ \E n \in Nodes \ {snode[s]} :
             catalog[n] # "gone" /\ scand' = [scand EXCEPT ![s] = n]
        /\ CoreStop
        /\ Becomes(s, "startOther")
     \/ Becomes(s, "giveUp") /\ UNCHANGED <<scand, coreVars>>
  /\ UNCHANGED <<stateVars, proxyVars, linkVars, joinVars, procVars,
                 cancelled, strikes, snode, rt, envVars>>

SmartCore(s) ==
  /\ spc[s] = "startOther"
  /\ \E ok \in BOOLEAN :
       CoreStart(scand[s], ok) /\ Becomes(s, IF ok THEN "healthOther" ELSE "giveUp")
  /\ UNCHANGED <<stateVars, proxyVars, linkVars, joinVars, procVars,
                 cancelled, strikes, snode, scand, rt, envVars>>

\* The statistics session keeps the node it was opened for.
SmartHealth(s) ==
  /\ spc[s] = "healthOther"
  /\ \E h \in {"Healthy", "LocalDead", "UplinkDead"} :
       /\ Health(h)
       /\ IF h = "Healthy"
          THEN /\ active' = scand[s]
               /\ MarkRecovered(scand[s])
               /\ Becomes(s, "verdict")
          ELSE UNCHANGED <<stateVars, active, restarts, rt>> /\ Becomes(s, "giveUp")
  /\ UNCHANGED <<proxyVars, coreVars, session, tun, joinVars, procVars,
                 cancelled, strikes, snode, scand, envVars>>

\* Mutant of GiveUpProxy: the clean-up first takes the guard.
GiveUpProxyLocked(s) ==
  /\ spc[s] = "giveUp"
  /\ guard = None
  /\ tun' = FALSE
  /\ ClearProxy
  /\ Becomes(s, "giveUpCore")
  /\ UNCHANGED <<stateVars, coreVars, active, restarts, session, joinVars, procVars,
                 cancelled, strikes, snode, scand, rt, envVars>>

GiveUpProxy(s) ==
  /\ spc[s] = "giveUp"
  /\ tun' = FALSE
  /\ ClearProxy
  /\ Becomes(s, "giveUpCore")
  /\ UNCHANGED <<stateVars, coreVars, active, restarts, session, joinVars, procVars,
                 cancelled, strikes, snode, scand, rt, envVars>>

\* StateStore::fail does not consult the transition table.
GiveUpCore(s) ==
  /\ spc[s] = "giveUpCore"
  /\ CoreStop
  /\ session' = None
  /\ active' = None
  /\ st' = "ERROR"
  /\ Becomes(s, "gone")
  /\ UNCHANGED <<target, proxyVars, restarts, tun, joinVars, procVars,
                 cancelled, strikes, snode, scand, rt, envVars>>

GiveUpPersist(s) ==
  /\ spc[s] = "gone"
  /\ Persist("ERROR", snode[s], target.mode)
  /\ Becomes(s, "verdict")
  /\ UNCHANGED <<stateVars, proxyVars, coreVars, linkVars, joinVars, procVars,
                 cancelled, strikes, snode, scand, envVars>>

\* Back in supervise: leave, or start a fresh tick phase.
Verdict(s) ==
  /\ spc[s] = "verdict"
  /\ IF st # "CONNECTED" THEN Exit(s)
     ELSE /\ Becomes(s, "tick")
          /\ strikes' = [strikes EXCEPT ![s] = 0]
          /\ snode' = [snode EXCEPT ![s] = None]
          /\ scand' = [scand EXCEPT ![s] = None]
          /\ UNCHANGED cancelled
  /\ UNCHANGED <<stateVars, proxyVars, coreVars, linkVars, joinVars, procVars, rt, envVars>>

-----------------------------------------------------------------------------
(* The environment.                                                         *)

CoreExits ==
  /\ CoreDies
  /\ UNCHANGED <<stateVars, proxyVars, linkVars, joinVars, procVars, supVars, rt, envVars>>

CatalogChanges ==
  /\ \E n \in Volatile, s \in {"enabled", "disabled", "gone"} :
       s # catalog[n] /\ catalog' = [catalog EXCEPT ![n] = s]
  /\ UNCHANGED <<stateVars, proxyVars, coreVars, linkVars, joinVars, procVars, supVars,
                 rt, routing, crashes>>

\* routing.setMode of a client, while connected or not.
SetMode ==
  /\ \E m \in Modes \ {routing} : routing' = m
  /\ UNCHANGED <<stateVars, proxyVars, coreVars, linkVars, joinVars, procVars, supVars,
                 rt, catalog, crashes>>

\* A core may be on its way: spawned, its port not open yet.
Spawning ==
  \/ \E p \in Procs : pc[p] = "start"
  \/ \E s \in Sups : spc[s] \in {"start", "startOther"}

\* Everything in memory is lost; main starts again and spawns boot recovery.
Crash ==
  /\ crashes < MaxCrashes
  /\ crashes' = crashes + 1
  /\ ProxyCrash /\ CoreCrash(Spawning)
  /\ st' = "STOPPED" /\ target' = [node |-> None, mode |-> Smart]
  /\ active' = None /\ restarts' = 0 /\ session' = None /\ tun' = FALSE
  /\ monitor' = None /\ joining' = None
  /\ guard' = None
  /\ pc' = [p \in Procs |-> IF p = Boot THEN "lock" ELSE "idle"]
  /\ req' = [p \in Procs |-> NoReq]
  /\ bootRt' = NoRuntime
  /\ spc' = [s \in Sups |-> "none"]
  /\ cancelled' = [s \in Sups |-> FALSE]
  /\ strikes' = [s \in Sups |-> 0]
  /\ snode' = [s \in Sups |-> None] /\ scand' = [s \in Sups |-> None]
  /\ UNCHANGED <<rt, catalog, routing>>

-----------------------------------------------------------------------------
Init ==
  /\ StoreInit /\ ProxyInit /\ CoreInit
  /\ target = [node |-> None, mode |-> Smart]
  /\ active = None /\ restarts = 0 /\ session = None /\ tun = FALSE
  /\ monitor = None /\ joining = None
  /\ guard = None
  /\ pc = [p \in Procs |-> IF p = Boot THEN "lock" ELSE "idle"]
  /\ req = [p \in Procs |-> NoReq]
  /\ rt = NoRuntime /\ bootRt = NoRuntime
  /\ spc = [s \in Sups |-> "none"]
  /\ cancelled = [s \in Sups |-> FALSE]
  /\ strikes = [s \in Sups |-> 0]
  /\ snode = [s \in Sups |-> None] /\ scand = [s \in Sups |-> None]
  /\ catalog = [n \in Nodes |-> "enabled"]
  /\ routing = Smart
  /\ crashes = 0

ConnectStep(p) ==
  \/ SwitchInPlace(p) \/ RejectConnect(p) \/ Dial(p) \/ SwitchJoined(p)
  \/ SwitchTeardown(p) \/ LookupFails(p) \/ LookupNode(p) \/ SelectFails(p)
  \/ SelectNode(p) \/ StartCore(p) \/ StartFails(p) \/ KeepProxy(p) \/ SetProxy(p)
  \/ RememberProxy(p) \/ Commit(p) \/ SpawnMonitor(p)
  \/ UndoProxy(p) \/ UndoCore(p) \/ AbortStart(p)

DisconnectStep(p) ==
  \/ ReadState(p) \/ ReadAgain(p) \/ IgnoreDisconnect(p) \/ RefuseDisconnect(p)
  \/ BeginDisconnect(p) \/ DisconnectJoined(p) \/ FinishDisconnect(p)

BootStep ==
  BootReap \/ BootNothing \/ BootResume \/ BootGiveUp \/ BootEnsure \/ BootRestore

SupStep(s) ==
  \/ TickExit(s) \/ Tick(s) \/ Probe(s) \/ RecoverVoid(s) \/ RecoverBegin(s)
  \/ RecoverRestart(s) \/ RecoverCore(s) \/ RecoverHealth(s) \/ RecoverReselect(s)
  \/ SmartChoice(s) \/ SmartCore(s) \/ SmartHealth(s)
  \/ GiveUpProxy(s) \/ GiveUpCore(s) \/ GiveUpPersist(s) \/ Verdict(s)

EnvStep == CoreExits \/ CatalogChanges \/ SetMode \/ Crash

Next ==
  \/ \E c \in Clients : Request(c)
  \/ \E p \in Procs : Lock(p) \/ ConnectStep(p) \/ DisconnectStep(p)
  \/ BootStep
  \/ \E s \in Sups : SupStep(s)
  \/ EnvStep

Spec == Init /\ [][Next]_vars
=============================================================================
