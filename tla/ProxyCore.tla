------------------------------ MODULE ProxyCore ------------------------------
(***************************************************************************)
(* The proxy core process and its adapter (proxy/manager.rs).  The core is *)
(* a child process that listens on the local inbound port; a child left    *)
(* behind by a killed service instance (an orphan) keeps the port.          *)
(***************************************************************************)
EXTENDS Shared

CONSTANT Nodes

VARIABLES
  core,     \* [child: node the child serves or None, alive: it runs, status]
  orphan    \* a core of an earlier service instance holds the port

coreVars == <<core, orphan>>

CoreTypeOK ==
  /\ core \in [child : Nodes \cup {None}, alive : BOOLEAN,
               status : {"STOPPED", "RUNNING", "ERROR"}]
  /\ orphan \in BOOLEAN

\* Mutant of StoppedCore: stop leaves the status of the start behind.
StoppedCoreStale == [child |-> None, alive |-> FALSE, status |-> "STARTING"]
StoppedCore == [child |-> None, alive |-> FALSE, status |-> "STOPPED"]

CoreInit == core = StoppedCore /\ orphan \in BOOLEAN

PortOpen == (core.child # None /\ core.alive) \/ orphan

CoreStop == core' = StoppedCore /\ UNCHANGED orphan

(***************************************************************************)
(* start, observed when it returns (nobody reads STARTING).  An error      *)
(* before the spawn leaves the status alone, a later one sets ERROR.  With *)
(* an orphan on the port wait_for_port succeeds at once, and try_wait may  *)
(* still miss the child's bind error: start then reports success for a     *)
(* child that is about to exit.                                            *)
(***************************************************************************)
CoreStart(n, ok) ==
  /\ UNCHANGED orphan
  /\ IF ok
     THEN /\ core.child = None
          /\ core' = [child |-> n, alive |-> ~orphan, status |-> "RUNNING"]
     ELSE core' \in IF core.child # None THEN {core}
                    ELSE {core, [core EXCEPT !.status = "ERROR"]}

\* health_check.  The one-second connect may time out on a live port, too.
Health(h) ==
  /\ h \in {"Healthy", "LocalDead", "UplinkDead"}
  /\ (core.status # "RUNNING" \/ ~PortOpen) => h = "LocalDead"

\* Reaping kills every core started with this service's config file, a child
\* of this instance included; it is best effort (PowerShell may fail).
ReapStaleCores ==
  /\ orphan' \in {FALSE, orphan}
  /\ core' \in {core, [core EXCEPT !.alive = FALSE]}

\* The child exits on its own: no one tells the adapter.
CoreDies ==
  /\ core.alive
  /\ core' = [core EXCEPT !.alive = FALSE]
  /\ UNCHANGED orphan

\* The service is killed: kill_on_drop never runs, a live child becomes an orphan,
\* and so does one that a start under way has just spawned.
CoreCrash(spawning) ==
  /\ core' = StoppedCore
  /\ \E up \in {core.alive, core.alive \/ (spawning /\ core.child = None)} :
       orphan' = (orphan \/ up)
=============================================================================
