--------------------------- MODULE ConnectionProps ---------------------------
(***************************************************************************)
(* What the connection manager promises, stated over Connection.           *)
(***************************************************************************)
EXTENDS Connection

StoreTypeOK == st \in States /\ target \in Targets

LinkTypeOK ==
  /\ active \in Nodes \cup {None} /\ session \in Nodes \cup {None}
  /\ restarts \in Nat
  /\ tun \in BOOLEAN

JoinTypeOK == monitor \in Sups \cup {None} /\ joining \in Sups \cup {None}

ProcTypeOK ==
  /\ guard \in Procs \cup {None}
  /\ pc \in [Procs -> PcLabels] /\ req \in [Procs -> Requests]
  /\ bootRt \in Runtime

SupTypeOK ==
  /\ spc \in [Sups -> SpcLabels]
  /\ cancelled \in [Sups -> BOOLEAN]
  /\ strikes \in [Sups -> Nat]
  /\ snode \in [Sups -> Nodes \cup {None}] /\ scand \in [Sups -> Nodes \cup {None}]

EnvTypeOK ==
  /\ catalog \in [Nodes -> {"enabled", "disabled", "gone"}]
  /\ routing \in Modes
  /\ crashes \in Nat

\* Every variable of the connection manager, the core and proxy adapters and the
\* supervisors holds a value of its type, whatever the interleaving.
TypeOK ==
  /\ StoreTypeOK /\ ProxyTypeOK /\ CoreTypeOK
  /\ LinkTypeOK /\ JoinTypeOK /\ ProcTypeOK /\ SupTypeOK
  /\ rt \in Runtime /\ EnvTypeOK

-----------------------------------------------------------------------------
(* Concurrency.                                                             *)

\* Steps of recover that touch the core process or the system proxy.
Recovering(s) == spc[s] \in {"reconnect", "start", "health", "reselect", "choose",
                             "startOther", "healthOther", "giveUp", "giveUpCore"}

\* Steps under the guard that touch them.
Mutating(p) == pc[p] \in {"reap", "switch", "start", "proxy", "remember", "commit",
                          "spawn", "ensure", "undo", "undoCore", "abort", "finish",
                          "restore"}

\* recover runs without the guard, yet never while a connect, a disconnect or
\* the boot recovery is at work on the core or the system proxy.
ExclusiveRecovery == \A s \in Sups, p \in Procs : ~(Recovering(s) /\ Mutating(p))

\* One supervisor task at a time: a new one is spawned only after the task of
\* the previous connection has left its loop.
OneSupervisor ==
  \A s, t \in Sups : spc[s] # "none" /\ spc[t] # "none" => s = t

\* Nothing is in progress: no guard holder and no recovery.
Settled == guard = None /\ \A s \in Sups : spc[s] \in {"none", "tick", "probe"}

\* CONNECTED, once settled, means the published node is the one the core and
\* active_node serve, the user's settings can be put back, and a supervisor the
\* manager can still cancel is watching (lifecycle.rs connect_locked, recover); and,
\* until a crash, that applications are sent to it.  After one the snapshot may be
\* the primed one of a boot recovery that failed, and set_system_proxy does nothing.
ConnectedIsServed ==
  st = "CONNECTED" /\ Settled =>
    /\ active # None /\ active = target.node
    /\ core.child = active /\ core.status = "RUNNING"
    /\ crashes = 0 => Redirected(registry)
    /\ saved # None
    /\ session # None
    /\ monitor # None /\ spc[monitor] # "none" /\ ~cancelled[monitor]

\* Two registry values that send applications the same way.
SameEffect(a, b) == a.on = b.on /\ (a.on => a.spec = b.spec)

\* No core, adapter or session, and no supervisor that still works.
NothingRuns ==
  /\ core.child = None /\ ~tun /\ session = None /\ active = None
  /\ \A s \in Sups : spc[s] \in {"none", "tick"}

\* STOPPED, once settled, leaves nothing behind: nothing runs; and until a crash the
\* user's own proxy settings are in force, and neither a snapshot nor a backup is left
\* (lifecycle.rs disconnect, cleanup_partial).
StoppedIsClean ==
  st = "STOPPED" /\ Settled =>
    /\ NothingRuns
    /\ crashes = 0 => SameEffect(registry, user) /\ saved = None /\ backup = None

\* While applications are redirected the user's settings are held in memory, so
\* that the next disconnect can restore them, and on disk, for a crash.
RedirectIsReversible ==
  Redirected(registry) /\ crashes = 0 =>
    \/ /\ saved # None /\ SameEffect(saved, user)
       /\ backup # None /\ SameEffect(backup, user)
    \/ /\ guard # None /\ pc[guard] = "remember"
       /\ SameEffect(base, user)

-----------------------------------------------------------------------------
(* Why the three properties above hold: what is true of the guard, of the   *)
(* supervisors and of the published state at every step of a request.  The  *)
(* conjunction is inductive as long as no extreme scheduling is admitted.    *)

Quiet(s) == spc[s] \in {"none", "gone", "verdict"}
NoSupervisor == \A s \in Sups : spc[s] = "none"

\* Past the lock, a request holds the guard.
GuardHeld == \A p \in Procs : pc[p] \notin {"idle", "lock"} => guard = p

\* Every supervisor task can still be cancelled, or is being awaited.
Owned == \A s \in Sups : spc[s] # "none" => monitor = s \/ joining = s

\* stop_monitor awaits one task, with the guard held and no handle stored.
Awaited == joining # None => monitor = None /\ guard \in Procs /\ pc[guard] = "join"

\* A supervisor that nobody stopped works on a live session.
Attached ==
  \A s \in Sups : monitor = s /\ ~Quiet(s) => st \in {"CONNECTED", "RECONNECTING"}

\* A connect or a disconnect past its first step: the state it has published, and
\* the supervisor it has got rid of.
Working(p) == pc[p] \in {"switch", "node", "select", "start", "proxy", "remember",
                        "commit", "undo", "undoCore", "abort", "finish"}

Published ==
  \A p \in Procs :
    /\ pc[p] \in {"join", "switch"} => st \in {"STOPPING", "ERROR"}
    /\ pc[p] \in {"node", "select"} => st = "STARTING"
    /\ pc[p] \in {"start", "proxy", "remember", "commit"} => st = "CONNECTING"
    /\ pc[p] \in {"undo", "undoCore", "abort", "finish"} =>
         st \in {"CONNECTING", "STOPPING", "ERROR"}
    /\ pc[p] = "spawn" => st = "CONNECTED"

Unwatched ==
  \A p \in Procs : /\ Working(p) => \A s \in Sups : Quiet(s)
                   /\ pc[p] = "spawn" => NoSupervisor

\* Boot recovery comes first, and nothing is supervised before it is through.
BootFirst ==
  /\ pc[Boot] = "lock" => guard = None
  /\ pc[Boot] \notin {"idle", "ensure"} => NoSupervisor
  /\ pc[Boot] = "ensure" => \A s \in Sups : ~Recovering(s)
  /\ req[Boot].op # "reconnect"
  /\ \A c \in Clients : pc[c] \notin {"reap", "read", "ensure", "restore"}

Discipline ==
  /\ GuardHeld /\ Owned /\ Awaited /\ Attached
  /\ Published /\ Unwatched /\ BootFirst

-----------------------------------------------------------------------------
(* As long as the service has not crashed: what the registry, the snapshot  *)
(* and the backup hold together, and what each step of a connect or of a    *)
(* recovery knows of the core and of the session.  For the proofs.          *)

\* The first boot finds no session to restore.
BootQuiet ==
  crashes = 0 => /\ pc[Boot] \in {"lock", "reap", "read", "idle"}
                 /\ pc[Boot] # "idle" => rt.node = None

\* Registry, snapshot and backup change together.  No failing writes.
Untouched == saved = None /\ backup = None /\ base = None /\ SameEffect(registry, user)
Taken ==
  /\ saved # None /\ backup = saved /\ base = None /\ SameEffect(saved, user)
  /\ Redirected(registry)
Taking ==
  /\ saved = None /\ backup = None /\ base # None /\ SameEffect(base, user)
  /\ Redirected(registry)
  /\ guard # None /\ pc[guard] = "remember"
RedirectKept ==
  crashes = 0 => /\ Untouched \/ Taken \/ Taking
                 /\ \A p \in Procs : pc[p] = "remember" => Taking

\* What the clean-up has got rid of, step by step.
Emptied == core.child = None /\ ~tun /\ session = None /\ (crashes = 0 => saved = None)
CleanedUp ==
  /\ st = "STOPPED" => Emptied /\ active = None
  /\ \A p \in Procs : /\ pc[p] = "undoCore" => ~tun /\ (crashes = 0 => saved = None)
                      /\ pc[p] \in {"abort", "finish"} => Emptied

Serves(n) == core.child = n /\ core.status = "RUNNING"

\* A connect from the lookup on, and what CONNECTED promises.
Connecting ==
  /\ crashes = 0 /\ saved # None => Redirected(registry)
  /\ \A p \in Procs :
       /\ pc[p] \in {"select", "start", "proxy", "remember", "commit", "spawn"} =>
            req[p].node # None
       /\ pc[p] \in {"proxy", "remember", "commit", "spawn"} => Serves(req[p].node)
       /\ pc[p] = "remember" => base # None /\ saved = None /\ Redirected(registry)
       /\ pc[p] \in {"commit", "spawn"} => saved # None
  /\ st = "CONNECTED" =>
       active # None /\ active = target.node /\ Serves(active) /\ saved # None /\ session # None

\* A recovery: the session it recovers, and what it has started.
Recovers ==
  \A s \in Sups :
    /\ spc[s] \in {"reconnect", "start", "health", "reselect", "choose", "startOther",
                   "healthOther"} =>
         active # None /\ snode[s] = active /\ saved # None /\ session # None
    /\ spc[s] = "health" => Serves(snode[s])
    /\ spc[s] \in {"startOther", "healthOther"} => scand[s] # None
    /\ spc[s] = "healthOther" => Serves(scand[s])
    /\ spc[s] \in {"start", "health", "choose", "startOther", "healthOther", "giveUp",
                   "giveUpCore"} => st # "CONNECTED"

\* The stored handle is that of a supervisor nobody has cancelled.
Watched ==
  /\ \A s \in Sups : monitor = s => ~cancelled[s]
  /\ st = "CONNECTED" => \/ \E p \in Procs : pc[p] = "spawn"
                         \/ \E s \in Sups : monitor = s /\ spc[s] # "none"

Serving == Connecting /\ Recovers /\ Watched

\* The session that boot recovery dials, and what is kept aside for the registry.
BootServes ==
  /\ pc[Boot] \notin {"idle", "lock", "reap", "read", "ensure", "restore"} =>
       req[Boot].op = "boot" /\ req[Boot].node # None
  /\ pc[Boot] \notin {"again", "third", "leave", "finish"}
  /\ pc[Boot] \in {"proxy", "remember", "commit"} => core.child = req[Boot].node
  /\ pc[Boot] \in {"spawn", "ensure"} =>
       st = "CONNECTED" /\ core.child = active /\ active # None

NoneOfOurs == \A reg \in {saved, backup, base} : reg # None => ~Redirected(reg)

-----------------------------------------------------------------------------
(* Failure.                                                                 *)

\* A finished request leaves no state in which every later connect is refused
\* with ALREADY_RUNNING and every disconnect is a no-op.
FailureUnwinds == guard = None => st \notin {"STARTING", "CONNECTING", "STOPPING"}

\* ERROR, once settled, never leaves applications redirected to a dead inbound.
ErrorClearsProxy == st = "ERROR" /\ Settled => ~Redirected(registry)

\* The supervisor gives a session up only after restart_max restarts.
RestartBudgetSpent == \A s \in Sups : spc[s] = "giveUp" => restarts >= RestartMax

\* Boot recovery of a session that was persisted with a node ends either in a
\* live session or with the applications no longer redirected.
BootLeavesNoDeadProxy ==
  [][guard = Boot /\ guard' # Boot /\ crashes' = crashes /\ bootRt'.node # None
       => \/ ~Redirected(registry')
          \/ st' = "CONNECTED" /\ core'.child = active' /\ active' # None]_vars

\* After boot recovery has run, a stopped service does not leave applications
\* redirected to its inbound, whenever the previous instance died.
CrashIsCleanedUp ==
  st = "STOPPED" /\ Settled /\ pc[Boot] = "idle" => ~Redirected(registry)

-----------------------------------------------------------------------------
(* Liveness.  The runtime schedules every ready task; the async mutex is     *)
(* first come first served, so that a task that waits for the guard is not   *)
(* overtaken for ever.  Requests and the environment are not fair.           *)

Fairness ==
  /\ \A p \in Procs : SF_vars(Lock(p)) /\ WF_vars(ConnectStep(p) \/ DisconnectStep(p))
  /\ WF_vars(BootStep)
  /\ \A s \in Sups : WF_vars(SupStep(s))

FairSpec == Spec /\ Fairness

\* Every request is answered, although disconnect and the in-place switch wait,
\* with the guard held, for a supervisor that may be in the middle of recover.
RequestsFinish == \A p \in Procs : pc[p] # "idle" ~> pc[p] = "idle"

\* A dead core is noticed: the session is recovered, given up or ended.
DeadCoreHandled ==
  st = "CONNECTED" /\ Settled /\ ~PortOpen ~> st # "CONNECTED" \/ PortOpen
=============================================================================
