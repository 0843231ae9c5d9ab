----------------------------- MODULE ConnState -----------------------------
(***************************************************************************)
(* The connection state machine of the service (app/state.rs): the nine    *)
(* states, the table of legal moves, and the abstract promise the rest of  *)
(* the service is written against: the published state starts STOPPED and  *)
(* only ever moves along the table.                                        *)
(***************************************************************************)

VARIABLE st   \* Inner.state, the state every client sees

States == {"STOPPED", "INITIALIZING", "READY", "STARTING", "CONNECTING",
           "CONNECTED", "RECONNECTING", "STOPPING", "ERROR"}

\* Mutant of Successors: a connect is accepted while a recovery runs.
SuccessorsDialWhileRecovering ==
  [STOPPED      |-> {"STARTING"},
   INITIALIZING |-> {"READY", "ERROR"},
   READY        |-> {"STARTING"},
   STARTING     |-> {"CONNECTING", "ERROR", "STOPPING"},
   CONNECTING   |-> {"CONNECTED", "RECONNECTING", "ERROR", "STOPPING"},
   CONNECTED    |-> {"RECONNECTING", "STOPPING", "ERROR"},
   RECONNECTING |-> {"CONNECTED", "ERROR", "STOPPING", "STARTING"},
   STOPPING     |-> {"STARTING", "STOPPED", "ERROR"},
   ERROR        |-> {"STARTING", "STOPPED"}]

Successors ==
  [STOPPED      |-> {"STARTING"},
   INITIALIZING |-> {"READY", "ERROR"},
   READY        |-> {"STARTING"},
   STARTING     |-> {"CONNECTING", "ERROR", "STOPPING"},
   CONNECTING   |-> {"CONNECTED", "RECONNECTING", "ERROR", "STOPPING"},
   CONNECTED    |-> {"RECONNECTING", "STOPPING", "ERROR"},
   RECONNECTING |-> {"CONNECTED", "ERROR", "STOPPING"},
   STOPPING     |-> {"STARTING", "STOPPED", "ERROR"},
   ERROR        |-> {"STARTING", "STOPPED"}]

\* `transition` and `set_context` accept a self-move without consulting the table.
CanTransition(from, to) == to = from \/ to \in Successors[from]

StoreInit == st = "STOPPED"

StoreStep == CanTransition(st, st')

(***************************************************************************)
(* What docs/ARCHITECTURE.md promises of the store.  StateStore::fail       *)
(* assigns the state without the check, so that a user of the store keeps   *)
(* this promise is a property of the user, not of the store.                *)
(***************************************************************************)
StoreSpec == StoreInit /\ [][StoreStep]_st
=============================================================================
