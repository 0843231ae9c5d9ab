---------------------------- MODULE MCConnection ----------------------------
(***************************************************************************)
(* Small instances of Connection for TLC.                                  *)
(***************************************************************************)
EXTENDS ConnectionProps, TLC

CONSTANTS c1, c2, n1, n2, s1, s2, corp, Global

\* The user browses directly, or through a proxy of their own.
MCSettings == {[on |-> FALSE, spec |-> NoSpec], [on |-> TRUE, spec |-> corp]}
ProxyOnly == {[on |-> TRUE, spec |-> corp]}

OneClient == {c1}
TwoClients == {c1, c2}
TwoNodes == {n1, n2}
OneNode == {n1}
OneSup == {s1}
TwoSups == {s1, s2}
Symmetric == Permutations(TwoClients) \cup Permutations(TwoSups)
TwoModes == {Smart, Global}
SmartOnly == {Smart}
=============================================================================
