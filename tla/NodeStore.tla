----------------------------- MODULE NodeStore -----------------------------
(***************************************************************************)
(* The memory of the node manager (nodes/manager.rs, nodes/health.rs): the *)
(* catalogue, the selected node, which nodes have runtime statistics, and  *)
(* the probes in flight.                                                   *)
(*                                                                         *)
(* A node is its id; of its record the owner and the enabled flag are      *)
(* kept.  Scores are left out: any ranking of the measured nodes is        *)
(* possible.                                                               *)
(***************************************************************************)
EXTENDS Shared

CONSTANTS
  Nodes,   \* node ids
  Subs     \* subscription ids

VARIABLES
  nodes,      \* NodeManager.nodes: a record, or None for an unknown id
  selected,   \* NodeManager.selected
  measured,   \* keys of the StatsTable
  testing     \* NodeManager.in_flight

nodeVars == <<nodes, selected, measured, testing>>

\* The owner None is the user
NodeRecord == [owner : Subs \cup {None}, enabled : BOOLEAN]
NodeTable == [Nodes -> NodeRecord \cup {None}]

\* load: only the table comes from the disk
NodesLoaded(table) ==
  nodes = table /\ selected = None /\ measured = {} /\ testing = {}

Known == {n \in Nodes : nodes[n] # None}
Enabled == {n \in Known : nodes[n].enabled}
Owned(s) == {n \in Known : nodes[n].owner = s}

Insert(n, r) ==
  /\ nodes' = [nodes EXCEPT ![n] = r]
  /\ UNCHANGED <<selected, measured, testing>>

\* delete, up to the selection: the node and its statistics
Remove(n) ==
  /\ nodes' = [nodes EXCEPT ![n] = None]
  /\ measured' = measured \ {n}
  /\ UNCHANGED <<selected, testing>>

SetSelected(n) == selected' = n /\ UNCHANGED <<nodes, measured, testing>>

\* replace_subscription_nodes: retain and insert under one write lock.  An
\* incoming id that another subscription owns changes hands, every incoming
\* node is enabled, selection and statistics stay.
Replace(s, incoming) ==
  /\ nodes' = [n \in Nodes |->
                 IF n \in incoming THEN [owner |-> s, enabled |-> TRUE]
                 ELSE IF n \in Owned(s) THEN None ELSE nodes[n]]
  /\ UNCHANGED <<selected, measured, testing>>

\* Mutant of CanProbe: the entry is not looked at.
CanProbeTwice(n) == TRUE

\* test_node rejects a node under test
CanProbe(n) == n \notin testing

StartProbe(n) == testing' = testing \cup {n} /\ UNCHANGED <<nodes, selected, measured>>

\* The node is unknown: only the entry goes
ForgetProbe(n) == testing' = testing \ {n} /\ UNCHANGED <<nodes, selected, measured>>

\* The connect has ended either way.  The statistics are created even when the
\* node was deleted meanwhile.
EndProbe(n) ==
  /\ testing' = testing \ {n}
  /\ measured' = measured \cup {n}
  /\ UNCHANGED <<nodes, selected>>

\* What smart_select may return: the best of the measured nodes, or the selected
\* one, whatever has become of it, when the best is not better enough
Choices ==
  LET fresh == Known \cap measured
  IN IF fresh = {} THEN {} ELSE fresh \cup ({selected} \ {None})
=============================================================================
