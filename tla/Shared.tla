------------------------------- MODULE Shared -------------------------------
(***************************************************************************)
(* Constants every component of the service model refers to.               *)
(***************************************************************************)
CONSTANTS
  None,    \* absence of a value: Option::None, an empty string or id
  Faults   \* kinds of operation that may fail: a subset of {"registry", "disk"}

ASSUME FaultsAssumption == Faults \subseteq {"registry", "disk"}
=============================================================================
