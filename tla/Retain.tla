------------------------------- MODULE Retain -------------------------------
(***************************************************************************)
(* The filter of a list that is a list again, for the models that keep     *)
(* rules and servers.                                                      *)
(***************************************************************************)
EXTENDS SequencesExt

\* Iterator::filter and collect: the elements of the list that are in S, in their order
Kept(list, S) ==
  FoldLeft(LAMBDA kept, r : IF r \in S THEN Append(kept, r) ELSE kept, <<>>, list)
=============================================================================
