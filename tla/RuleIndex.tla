----------------------------- MODULE RuleIndex -----------------------------
(***************************************************************************)
(* The matching index of the routing engine and the decision pipeline.     *)
(*                                                                         *)
(* A name is the sequence of its labels from the right, an address its     *)
(* family and bits, so that the tries are one longest-prefix lookup.       *)
(* What a keyword, a regex or a range of ports matches is the relation     *)
(* Covers.  Case, white space and the syntax of values are abstracted:     *)
(* Malformed is the set of values the builder of their kind refuses.       *)
(***************************************************************************)
EXTENDS Integers, FiniteSets, Sequences, Retain, Shared

CONSTANTS
  Covers,      \* pairs <<keyword, regex or range, name or port it matches>>
  Malformed,   \* pairs <<kind, value>> that RuleIndex::build rejects
  Geo,         \* the GeoIP table: a set of [net, country], one country per net
  Symbols,     \* labels of names, families and bits of addresses
  RuleIds,     \* ids of rules, generated or sent by the client
  Shapes,      \* the other fields of a rule a client may send
  MaxRules     \* bound of the model on the length of the list

\* A port rule whose value has a dash is of kind "range".
Ladder == [process |-> 900,
           domain |-> 800, suffix |-> 800, keyword |-> 800, regex |-> 800,
           ip |-> 700, port |-> 700, range |-> 700, protocol |-> 700,
           geoip |-> 600]

Priority(r) == IF r.priority > 0 THEN r.priority ELSE Ladder[r.kind]

Authored(id, s) ==
  [id |-> id, kind |-> s.kind, value |-> s.value, action |-> s.action,
   enabled |-> s.enabled, priority |-> s.priority]

\* build: the enabled rules at their places in the list, unless one of them is malformed
Builds(list) ==
  \A i \in DOMAIN list : list[i].enabled => <<list[i].kind, list[i].value>> \notin Malformed
Indexed(list) == RestrictValues(list, LAMBDA r : r.enabled)

-----------------------------------------------------------------------------
(* Edits of the list: add_rule, update_rule and delete_rule.                *)

Kinds == DOMAIN Ladder
Rule ==
  {r \in [id : RuleIds, kind : Kinds, value : {s.value : s \in Shapes},
          action : {"direct", "proxy", "block"}, enabled : BOOLEAN, priority : Nat] :
     r.kind \in {"suffix", "ip"} => r.value \in Seq(Symbols)}

\* An empty value, which only an update lets in, is a value like another: None is the
\* absence of a field of a flow.
ASSUME RuleAssumption ==
  /\ \A id \in RuleIds, s \in Shapes : Authored(id, s) \in Rule
  /\ \A g, h \in Geo : g.net = h.net => g = h
  /\ None \notin Rule \cup {s.value : s \in Shapes}
  /\ MaxRules \in Nat

\* Mutant of Added: the new rule goes just below the ladder it was sent with.
AddedBelow(list, r) == Append(list, [r EXCEPT !.priority = @ - 1])

\* A new rule goes to the end of the list, at the top of the ladder; nobody
\* checks that its id is new
Added(list, r) == Append(list, [r EXCEPT !.priority = 1000])

\* The first rule of that id is replaced, and keeps the priority the client sent
Replaced(list, r) ==
  LET same == {i \in DOMAIN list : list[i].id = r.id}
  IN  [list EXCEPT ![CHOOSE i \in same : \A k \in same : i <= k] = r]

Without(list, id) == Kept(list, {r \in ToSet(list) : r.id # id})

\* The lists one edit can make of a list
Edits(list) ==
  {l \in {Added(list, Authored(id, s)) : id \in RuleIds, s \in Shapes}
         \cup {Replaced(list, Authored(list[i].id, s)) : i \in DOMAIN list, s \in Shapes}
         \cup {Without(list, id) : id \in RuleIds} : Len(l) <= MaxRules}

-----------------------------------------------------------------------------
(* Lookups.  All return a rule of the index, or None.                       *)

\* A hash map or a trie leaf: a later rule of the same value replaces an earlier one
Keyed(idx, kind, v) ==
  LET S == {i \in DOMAIN idx : idx[i].kind = kind /\ idx[i].value = v}
  IN  IF S = {} THEN None ELSE idx[Max(S)]

\* The deepest leaf on a path
Longest(idx, kind, path) ==
  LET depths == {n \in 0 .. Len(path) : Keyed(idx, kind, SubSeq(path, 1, n)) # None}
  IN  IF depths = {} THEN None ELSE Keyed(idx, kind, SubSeq(path, 1, Max(depths)))

\* Mutant of Better: a tie goes to the later candidate.
BetterTies(cur, cand) ==
  IF cand = None \/ (cur # None /\ Priority(cur) > Priority(cand)) THEN cur ELSE cand

\* better and consider: the candidate wins on a strictly greater priority only
Better(cur, cand) ==
  IF cand = None \/ (cur # None /\ Priority(cur) >= Priority(cand)) THEN cur ELSE cand
BestOf(cur, candidates) == FoldLeft(Better, cur, candidates)

\* The rules of a kind kept in a list: those that match, at their places
Candidates(idx, kind, v) ==
  RestrictValues(idx, LAMBDA r : r.kind = kind /\ <<r.value, v>> \in Covers)

MatchDomain(idx, name) ==
  LET looked == Better(Keyed(idx, "domain", name), Longest(idx, "suffix", name))
  IN  BestOf(BestOf(looked, Candidates(idx, "keyword", name)), Candidates(idx, "regex", name))

\* The exact port, else the first range that holds it
MatchPort(idx, p) ==
  LET ranges == DOMAIN Candidates(idx, "range", p)
  IN  IF Keyed(idx, "port", p) # None THEN Keyed(idx, "port", p)
      ELSE IF ranges = {} THEN None ELSE idx[Min(ranges)]

-----------------------------------------------------------------------------
(* The decision.  A flow has the fields process, domain, ip, port and       *)
(* protocol; an absent one is None.                                         *)

Country(ip) ==
  LET nets == {g \in Geo : IsPrefix(g.net, ip)}
  IN  IF nets = {} THEN None
      ELSE (CHOOSE g \in nets : \A h \in nets : Len(h.net) <= Len(g.net)).country

OfIp(flow, m) == IF flow.ip = None THEN None ELSE m

\* The pipeline, stage by stage
Stages(idx, flow) ==
  << Keyed(idx, "process", flow.process),
     IF flow.domain = None THEN None ELSE MatchDomain(idx, flow.domain),
     OfIp(flow, Longest(idx, "ip", flow.ip)),
     IF flow.port = None THEN None ELSE MatchPort(idx, flow.port),
     Keyed(idx, "protocol", flow.protocol),
     OfIp(flow, Keyed(idx, "geoip", Country(flow.ip))) >>

Winner(idx, flow) == BestOf(None, Stages(idx, flow))
=============================================================================
