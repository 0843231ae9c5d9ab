------------------------------ MODULE RuleBook ------------------------------
(***************************************************************************)
(* What the routing engine promises about the user's rules: an edit is     *)
(* applied to the list in force, reaches the disk as a whole, and is then  *)
(* taken into use; a restart takes into use what is on the disk.  No edit  *)
(* is lost, half applied or invented, and a list that cannot be indexed is *)
(* never on the disk.                                                      *)
(***************************************************************************)
CONSTANTS
  Edits(_),    \* the lists one edit can make of a list
  Builds(_)    \* a list can be indexed

VARIABLES
  book,    \* the list a restart finds
  served   \* the list in use

bookVars == <<book, served>>

BookInit == book = <<>> /\ served = <<>>

Edit ==
  /\ served = book
  /\ book' \in {l \in Edits(book) : Builds(l)}
  /\ UNCHANGED served

Serve == served' = book /\ UNCHANGED book

BookSpec == BookInit /\ [][Edit \/ Serve]_bookVars
=============================================================================
