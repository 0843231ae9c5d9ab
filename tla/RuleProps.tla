----------------------------- MODULE RuleProps -----------------------------
(***************************************************************************)
(* Correctness properties of the routing engine.                           *)
(***************************************************************************)
EXTENDS RuleStore

CONSTANT Flows   \* flows to decide

ASSUME FlowAssumption ==
  /\ None \notin Seq(Symbols)
  /\ \A f \in Flows : {f.domain, f.ip} \subseteq Seq(Symbols) \cup {None}

Lists == {l \in Seq(Rule) : Len(l) <= MaxRules}

\* Every variable of the routing engine has its type.
RulesTypeOK ==
  /\ rules \in Lists /\ ruleFile \in Lists
  /\ DOMAIN index \subseteq 1 .. MaxRules /\ index \in [DOMAIN index -> Rule]
  /\ ruleTmp \in Lists \cup {None}
  /\ editor \in [Editors -> [pc : {"idle", "write", "rename", "index", "list"},
                             list : Lists]]

\* Whatever is on the disk, or about to get there, can be indexed: load fails on a
\* rules.json that cannot, and the service would not start again (engine.rs load,
\* commit).  Holds for any number of concurrent edits and any crash.
FileAlwaysLoads ==
  /\ Builds(ruleFile)
  /\ ruleTmp # None => Builds(ruleTmp)
  /\ Builds(rules)

-----------------------------------------------------------------------------
(* The reference definition of the pipeline, rule by rule.                  *)

Applies(r, f) ==
  \/ r.kind = "process" /\ r.value = f.process
  \/ r.kind = "domain" /\ r.value = f.domain
  \/ r.kind = "suffix" /\ f.domain # None /\ IsPrefix(r.value, f.domain)
  \/ r.kind \in {"keyword", "regex"} /\ f.domain # None /\ <<r.value, f.domain>> \in Covers
  \/ r.kind = "ip" /\ f.ip # None /\ IsPrefix(r.value, f.ip)
  \/ r.kind = "port" /\ r.value = f.port
  \/ r.kind = "range" /\ f.port # None /\ <<r.value, f.port>> \in Covers
  \/ r.kind = "protocol" /\ r.value = f.protocol
  \/ r.kind = "geoip" /\ f.ip # None /\ r.value = Country(f.ip)

\* Rule j of a list hides rule i: it says more about the flow, or says the same later
Hides(list, j, i) ==
  LET a == list[j]
      b == list[i]
  IN  \/ a.kind = b.kind /\ a.kind \notin {"keyword", "regex", "range"} /\ a.value = b.value /\ j > i
      \/ a.kind = b.kind /\ a.kind \in {"suffix", "ip"} /\ Len(a.value) > Len(b.value)
      \/ b.kind = "range" /\ (a.kind = "port" \/ (a.kind = "range" /\ j < i))

\* The order in which rules of one priority are asked
Rank == [process |-> 1, domain |-> 2, suffix |-> 3, keyword |-> 4, regex |-> 5, ip |-> 6,
         port |-> 7, range |-> 8, protocol |-> 9, geoip |-> 10]

Before(list, i, k) ==
  LET a == list[i]
      b == list[k]
  IN  \/ Priority(a) > Priority(b)
      \/ Priority(a) = Priority(b) /\ Rank[a.kind] < Rank[b.kind]
      \/ Priority(a) = Priority(b) /\ Rank[a.kind] = Rank[b.kind] /\ i < k

Reference(list, f) ==
  LET all == {i \in DOMAIN list : Applies(list[i], f)}
      seen == {i \in all : ~\E j \in all : Hides(list, j, i)}
  IN  IF all = {} THEN None
      ELSE list[CHOOSE i \in seen : \A k \in seen \ {i} : Before(list, i, k)]

\* The decision of the tries, maps and lists is the one a reading of the rules
\* gives: among the rules that apply and that no more specific rule hides, the
\* first in the order of priority, stage and position (engine.rs decide,
\* matcher.rs match_*).
DecisionFollowsRules == \A f \in Flows : Winner(index, f) = Reference(index, f)

-----------------------------------------------------------------------------
Book == INSTANCE RuleBook WITH Edits <- Edits, Builds <- Builds,
                                   book <- ruleFile, served <- rules

\* Edits served one at a time are atomic, durable before they are used, and none is
\* lost over crashes and failed writes (engine.rs commit): the store implements
\* RuleBook.
BookSpec == Book!BookSpec

-----------------------------------------------------------------------------
(* The invariants behind FileAlwaysLoads and BookSpec, for the proofs.      *)

\* Whatever an editor has in hand has been built.
EditsLoad ==
  /\ FileAlwaysLoads
  /\ \A e \in Editors : editor[e].pc # "idle" => Builds(editor[e].list)

\* A single editor: until its rename the edit is one of the list in force, which is
\* the one on the disk; from then on it is what the disk holds.
EditInHand ==
  /\ \A e \in Editors :
       /\ editor[e].pc \in {"write", "rename"} => editor[e].list \in Commits(rules)
       /\ editor[e].pc = "rename" => ruleTmp = editor[e].list
       /\ editor[e].pc \in {"index", "list"} => ruleFile = editor[e].list
  /\ (\A e \in Editors : editor[e].pc \notin {"index", "list"}) => rules = ruleFile
=============================================================================
