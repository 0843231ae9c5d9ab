----------------------------- MODULE RuleProofs -----------------------------
(***************************************************************************)
(* Theorems about the routing engine, for any rules, lists of any length,  *)
(* any flows, and crashes and failing writes at any step.                  *)
(***************************************************************************)
EXTENDS RuleProps, FoldFacts

-----------------------------------------------------------------------------
(* Rules.                                                                   *)

LEMMA KindsAre ==
  Kinds = {"process", "domain", "suffix", "keyword", "regex", "ip", "port", "range",
           "protocol", "geoip"}
BY DEF Kinds, Ladder

LEMMA RuleFacts ==
  ASSUME NEW r \in Rule
  PROVE  /\ Priority(r) \in Nat /\ r.kind \in Kinds
         /\ r.value \in {s.value : s \in Shapes}
         /\ r.kind \in {"suffix", "ip"} => r.value \in Seq(Symbols)
         /\ r.enabled \in BOOLEAN
<1>1. r.kind \in Kinds /\ r.priority \in Nat
  BY DEF Rule
<1>2. \A k \in Kinds : Ladder[k] \in Nat
  BY KindsAre DEF Ladder
<1>3. Priority(r) \in Nat
  BY <1>1, <1>2 DEF Priority
<1> QED  BY <1>1, <1>3 DEF Rule

LEMMA RankFacts ==
  /\ Rank["process"] = 1 /\ Rank["domain"] = 2 /\ Rank["suffix"] = 3
  /\ Rank["keyword"] = 4 /\ Rank["regex"] = 5 /\ Rank["ip"] = 6 /\ Rank["port"] = 7
  /\ Rank["range"] = 8 /\ Rank["protocol"] = 9 /\ Rank["geoip"] = 10
BY DEF Rank

-----------------------------------------------------------------------------
(* Types.                                                                   *)

\* Built from a list, an index is a function on places of the list.
IsIndex(idx) == DOMAIN idx \subseteq 1 .. MaxRules /\ idx \in [DOMAIN idx -> Rule]

LEMMA IndexedIs ==
  ASSUME NEW list \in Lists
  PROVE  IsIndex(Indexed(list))
<1> DEFINE D == {i \in DOMAIN list : list[i].enabled}
<1>1. Indexed(list) = [i \in D |-> list[i]]
  BY Zenon DEF Indexed, RestrictValues, Restrict
<1>2. list \in Seq(Rule) /\ Len(list) <= MaxRules
  BY DEF Lists
<1>3. D \subseteq 1 .. MaxRules /\ \A i \in D : list[i] \in Rule
  BY <1>2, RuleAssumption
<1> HIDE DEF D
<1> QED  BY <1>1, <1>3 DEF IsIndex

\* What is added to a list, replaced in it or left of it is a list of rules.
LEMMA EditsAreLists ==
  ASSUME NEW list \in Lists
  PROVE  Edits(list) \subseteq Lists
<1>0. list \in Seq(Rule)
  BY DEF Lists
<1>1. ASSUME NEW id \in RuleIds, NEW s \in Shapes
      PROVE  Added(list, Authored(id, s)) \in Seq(Rule)
  <2> DEFINE r == Authored(id, s)
             top == [r EXCEPT !.priority = 1000]
  <2>1. r \in Rule
    BY RuleAssumption
  <2> HIDE DEF r
  <2>2. top \in Rule
    BY <2>1 DEF Rule
  <2> HIDE DEF top
  <2>3. Append(list, top) \in Seq(Rule)
    BY <1>0, <2>2
  <2> QED  BY <2>3 DEF Added, r, top
<1>2. ASSUME NEW i \in DOMAIN list, NEW s \in Shapes
      PROVE  Replaced(list, Authored(list[i].id, s)) \in Seq(Rule)
  <2> DEFINE r == Authored(list[i].id, s)
  <2>1. list[i].id \in RuleIds
    BY <1>0 DEF Rule
  <2>2. r \in Rule
    BY <2>1, RuleAssumption
  <2> HIDE DEF r
  <2>3. ASSUME NEW p PROVE [list EXCEPT ![p] = r] \in Seq(Rule)
    <3> DEFINE n == Len(list)
               l == [list EXCEPT ![p] = r]
    <3>1. n \in Nat /\ list \in [1 .. n -> Rule]
      BY <1>0
    <3> HIDE DEF n
    <3>2. l \in [1 .. n -> Rule]
      BY <2>2, <3>1
    <3> HIDE DEF l
    <3>3. l \in Seq(Rule)
      BY <3>1, <3>2
    <3> QED  BY <3>3 DEF l
  <2>4. Replaced(list, r) \in Seq(Rule)
    BY <2>3, Zenon DEF Replaced
  <2> QED  BY <2>4 DEF r
<1>3. ASSUME NEW id \in RuleIds PROVE Without(list, id) \in Seq(Rule)
  <2> DEFINE S == {r \in ToSet(list) : r.id # id}
  <2> HIDE DEF S
  <2>1. Kept(list, S) \in Seq(Rule \cap S)
    BY <1>0, KeptIs
  <2>2. Kept(list, S) \in Seq(Rule)
    BY <2>1
  <2> QED  BY <2>2 DEF Without, S
<1> QED  BY <1>1, <1>2, <1>3 DEF Edits, Lists

EditorRecord == [pc : {"idle", "write", "rename", "index", "list"}, list : Lists]

LEMMA NoEditIsTyped == <<>> \in Lists /\ NoEdit \in EditorRecord
BY RuleAssumption DEF Lists, NoEdit, EditorRecord

\* A step to another label, or to no edit at all.
LEMMA MovesAreTyped ==
  ASSUME RulesTypeOK, NEW e \in Editors, NEW label \in {"idle", "rename", "index", "list"},
         EditGoes(e, label)
  PROVE  editor' \in [Editors -> EditorRecord]
<1>1. editor \in [Editors -> EditorRecord]
  BY DEF RulesTypeOK, EditorRecord
<1> DEFINE r == IF label = "idle" THEN NoEdit ELSE [editor[e] EXCEPT !.pc = label]
<1>2. r \in EditorRecord
  BY <1>1, NoEditIsTyped DEF EditorRecord
<1>3. editor' = [editor EXCEPT ![e] = r]
  BY DEF EditGoes
<1> HIDE DEF r
<1> QED  BY <1>1, <1>2, <1>3

LEMMA RulesTypesStep ==
  ASSUME RulesTypeOK, [RulesNext]_ruleVars
  PROVE  RulesTypeOK'
<1> USE DEF RulesTypeOK
<1>0. editor \in [Editors -> EditorRecord]
  BY DEF EditorRecord
<1>1. \A e \in Editors : editor[e].list \in Lists
  BY <1>0 DEF EditorRecord
<1>2. ASSUME NEW e \in Editors, EditorStep(e) PROVE RulesTypeOK'
  <2>1. CASE ReadList(e)
    <3>1. PICK l \in Commits(rules) : editor' = [editor EXCEPT ![e] = [pc |-> "write", list |-> l]]
      BY <2>1 DEF ReadList
    <3>2. l \in Lists
      BY EditsAreLists DEF Commits
    <3>3. editor' \in [Editors -> EditorRecord]
      BY <1>0, <3>1, <3>2 DEF EditorRecord
    <3> QED  BY <2>1, <3>3 DEF ReadList, EditorRecord
  <2>2. CASE WriteRules(e)
    <3>1. editor' \in [Editors -> EditorRecord]
      BY <2>2, MovesAreTyped DEF WriteRules
    <3> QED  BY <1>1, <2>2, <3>1 DEF WriteRules, EditorRecord
  <2>3. CASE RenameRules(e)
    <3>1. editor' \in [Editors -> EditorRecord]
      BY <2>3, MovesAreTyped DEF RenameRules
    <3> QED  BY <2>3, <3>1 DEF RenameRules, EditorRecord
  <2>4. CASE PublishIndex(e)
    <3>1. editor' \in [Editors -> EditorRecord]
      BY <2>4, MovesAreTyped DEF PublishIndex
    <3>2. IsIndex(index')
      BY <1>1, <2>4, IndexedIs DEF PublishIndex
    <3> QED  BY <2>4, <3>1, <3>2 DEF PublishIndex, EditorRecord, IsIndex
  <2>5. CASE PublishList(e)
    <3>1. editor' \in [Editors -> EditorRecord]
      BY <2>5, MovesAreTyped DEF PublishList
    <3> QED  BY <1>1, <2>5, <3>1 DEF PublishList, EditorRecord
  <2> QED  BY <1>2, <2>1, <2>2, <2>3, <2>4, <2>5 DEF EditorStep
<1>3. CASE RestartRules
  <2>1. editor' \in [Editors -> EditorRecord]
    BY <1>3, NoEditIsTyped DEF RestartRules
  <2>2. IsIndex(index')
    BY <1>3, IndexedIs DEF RestartRules
  <2> QED  BY <1>3, <2>1, <2>2 DEF RestartRules, EditorRecord, IsIndex
<1>4. CASE UNCHANGED ruleVars
  BY <1>4 DEF ruleVars
<1> QED  BY <1>2, <1>3, <1>4 DEF RulesNext

\* The list, the index, the file and what every editor has in hand are well typed:
\* an edit never leaves a list with something else than a rule in it, nor the index
\* with a rule at a place the list does not have (engine.rs add_rule to commit).
THEOREM RuleTypes == RulesSpec => []RulesTypeOK
<1>1. RulesInit => RulesTypeOK
  <2> SUFFICES ASSUME RulesInit PROVE RulesTypeOK
    OBVIOUS
  <2>1. IsIndex(index)
    BY NoEditIsTyped, IndexedIs DEF RulesInit, Loaded
  <2> QED  BY <2>1, NoEditIsTyped DEF RulesInit, Loaded, RulesTypeOK, IsIndex, EditorRecord
<1> QED  BY <1>1, RulesTypesStep, PTL DEF RulesSpec

-----------------------------------------------------------------------------
(* Steps of an editor, for the invariants that only ask what a list is an   *)
(* edit of.                                                                 *)

EditorShape ==
  editor = [e \in Editors |-> [pc |-> editor[e].pc, list |-> editor[e].list]]

LEMMA Shape == RulesTypeOK => EditorShape
BY DEF RulesTypeOK, EditorShape

\* What a step to another label leaves in the editors.
LEMMA Moves ==
  ASSUME EditorShape, NEW e \in Editors, NEW label \in {"idle", "rename", "index", "list"},
         EditGoes(e, label)
  PROVE  /\ \A d \in Editors \ {e} : editor'[d] = editor[d]
         /\ editor'[e].pc = label
         /\ label # "idle" => editor'[e].list = editor[e].list
BY DEF EditGoes, EditorShape, NoEdit

\* What an edit leaves in the editors.
LEMMA Reads ==
  ASSUME EditorShape, NEW e \in Editors, ReadList(e)
  PROVE  /\ \A d \in Editors \ {e} : editor'[d] = editor[d]
         /\ editor'[e].pc = "write"
         /\ editor'[e].list \in Commits(rules)
         /\ UNCHANGED <<rules, index, ruleFile, ruleTmp>>
BY DEF ReadList, EditorShape

-----------------------------------------------------------------------------
(* The file.                                                                *)

LEMMA EditsLoadStep ==
  ASSUME EditorShape, EditsLoad, [RulesNext]_ruleVars
  PROVE  EditsLoad'
<1> USE DEF EditsLoad, FileAlwaysLoads
<1>1. ASSUME NEW e \in Editors, EditorStep(e) PROVE EditsLoad'
  <2>1. CASE ReadList(e)
    BY <2>1, Reads DEF Commits, Builds
  <2>2. CASE WriteRules(e)
    BY <2>2, Moves DEF WriteRules, Builds, Editing
  <2>3. CASE RenameRules(e)
    BY <2>3, Moves DEF RenameRules, Builds, Editing
  <2>4. CASE PublishIndex(e)
    BY <2>4, Moves DEF PublishIndex, Builds, Editing
  <2>5. CASE PublishList(e)
    BY <2>5, Moves DEF PublishList, Builds, Editing
  <2> QED  BY <1>1, <2>1, <2>2, <2>3, <2>4, <2>5 DEF EditorStep
<1>2. CASE RestartRules
  BY <1>2 DEF RestartRules, NoEdit, Builds
<1>3. CASE UNCHANGED ruleVars
  BY <1>3 DEF ruleVars, Builds
<1> QED  BY <1>1, <1>2, <1>3 DEF RulesNext

\* Whatever the number of concurrent edits, a rules.json that load refuses never gets
\* to the disk, nor into the temporary file they share (engine.rs commit and load).
THEOREM FilesLoad == RulesSpec => []FileAlwaysLoads
<1>1. RulesInit => EditsLoad
  BY DEF RulesInit, Loaded, EditsLoad, FileAlwaysLoads, Builds, NoEdit
<1>2. EditsLoad => FileAlwaysLoads
  BY DEF EditsLoad
<1>3. RulesTypeOK /\ EditsLoad /\ [RulesNext]_ruleVars => EditsLoad'
  BY Shape, EditsLoadStep
<1> QED  BY <1>1, <1>2, <1>3, RuleTypes, PTL DEF RulesSpec

-----------------------------------------------------------------------------
(* The refinement, for one editor.                                          *)

LEMMA EditInHandStep ==
  ASSUME \A d, e \in Editors : d = e, EditorShape, EditInHand, [RulesNext]_ruleVars
  PROVE  EditInHand'
<1> USE DEF EditInHand
<1>1. ASSUME NEW e \in Editors, EditorStep(e) PROVE EditInHand'
  <2> SUFFICES
        /\ (editor[e].pc \in {"write", "rename"} => editor[e].list \in Commits(rules))'
        /\ (editor[e].pc = "rename" => ruleTmp = editor[e].list)'
        /\ (editor[e].pc \in {"index", "list"} => ruleFile = editor[e].list)'
        /\ (editor[e].pc \notin {"index", "list"} => rules = ruleFile)'
    OBVIOUS
  <2>0. editor[e].pc \notin {"index", "list"} => rules = ruleFile
    OBVIOUS
  <2>1. CASE ReadList(e)
    BY <2>0, <2>1, Reads DEF ReadList, Editing, Commits
  <2>2. CASE WriteRules(e)
    BY <2>0, <2>2, Moves DEF WriteRules, Editing, Commits
  <2>3. CASE RenameRules(e)
    BY <2>0, <2>3, Moves DEF RenameRules, Editing, Commits
  <2>4. CASE PublishIndex(e)
    BY <2>0, <2>4, Moves DEF PublishIndex, Editing, Commits
  <2>5. CASE PublishList(e)
    BY <2>0, <2>5, Moves DEF PublishList, Editing, Commits
  <2> QED  BY <1>1, <2>1, <2>2, <2>3, <2>4, <2>5 DEF EditorStep
<1>2. CASE RestartRules
  BY <1>2 DEF RestartRules, NoEdit
<1>3. CASE UNCHANGED ruleVars
  BY <1>3 DEF ruleVars, Commits
<1> QED  BY <1>1, <1>2, <1>3 DEF RulesNext

LEMMA BookStep ==
  ASSUME \A d, e \in Editors : d = e, EditInHand, [RulesNext]_ruleVars
  PROVE  [Book!Edit \/ Book!Serve]_(Book!bookVars)
<1> USE DEF EditInHand, Book!bookVars
<1>1. ASSUME NEW e \in Editors, EditorStep(e)
      PROVE  Book!Edit \/ Book!Serve \/ UNCHANGED <<rules, ruleFile>>
  <2>1. CASE RenameRules(e)
    <3>1. rules = ruleFile /\ editor[e].list \in Commits(rules) /\ ruleTmp = editor[e].list
      BY <2>1 DEF RenameRules, Editing
    <3>2. CASE ruleTmp = None
      BY <2>1, <3>2 DEF RenameRules
    <3>3. CASE ruleTmp # None
      BY <2>1, <3>1, <3>3 DEF RenameRules, Book!Edit, Commits
    <3> QED  BY <3>2, <3>3
  <2>2. CASE PublishList(e)
    BY <2>2 DEF PublishList, Editing, Book!Serve
  <2> QED
    BY <1>1, <2>1, <2>2 DEF EditorStep, ReadList, WriteRules, PublishIndex
<1>2. CASE RestartRules
  BY <1>2 DEF RestartRules, Book!Serve
<1>3. CASE UNCHANGED ruleVars
  BY <1>3 DEF ruleVars
<1> QED  BY <1>1, <1>2, <1>3 DEF RulesNext

\* Edits made one at a time are atomic and durable before they are used, and none is
\* lost or invented, over crashes and failed writes (engine.rs commit).
THEOREM StoreKeepsTheBook ==
  ASSUME \A d, e \in Editors : d = e
  PROVE  RulesSpec => BookSpec
<1>1. RulesInit => EditInHand /\ Book!BookInit
  BY DEF RulesInit, Loaded, NoEdit, EditInHand, Book!BookInit
<1>2. RulesTypeOK /\ EditInHand /\ [RulesNext]_ruleVars => EditInHand'
  BY Shape, EditInHandStep
<1> QED
  BY <1>1, <1>2, RuleTypes, BookStep, PTL DEF RulesSpec, BookSpec, Book!BookSpec

-----------------------------------------------------------------------------
(* The first of some rules of an index, in the order of the pipeline.       *)

\* m is the rule of S that comes before all others of S.
First(idx, S, m) ==
  IF S = {} THEN m = None
  ELSE \E i \in S : m = idx[i] /\ \A k \in S \ {i} : Before(idx, i, k)

\* Of one priority, the rules of S are asked before those of T.
Tie(idx, S, T) ==
  \A i \in S, k \in T : Priority(idx[i]) = Priority(idx[k]) => Before(idx, i, k)

\* better keeps the first of the earlier and of the later rules.
LEMMA BetterIsFirst ==
  ASSUME NEW idx, IsIndex(idx), NEW S \in SUBSET DOMAIN idx, NEW T \in SUBSET DOMAIN idx,
         NEW a, NEW b, First(idx, S, a), First(idx, T, b), Tie(idx, S, T)
  PROVE  First(idx, S \cup T, Better(a, b))
<1>0. \A i \in DOMAIN idx : idx[i] # None /\ Priority(idx[i]) \in Nat
  BY RuleAssumption, RuleFacts DEF IsIndex
<1>1. CASE T = {}
  BY <1>1 DEF First, Better
<1>2. CASE S = {} /\ T # {}
  BY <1>0, <1>2 DEF First, Better
<1>3. CASE S # {} /\ T # {}
  <2>1. PICK i \in S : a = idx[i] /\ \A k \in S \ {i} : Before(idx, i, k)
    BY <1>3 DEF First
  <2>2. PICK k \in T : b = idx[k] /\ \A j \in T \ {k} : Before(idx, k, j)
    BY <1>3 DEF First
  <2> DEFINE p(j) == Priority(idx[j])
  <2>3. \A j \in S : p(j) <= p(i)
    BY <1>0, <2>1 DEF Before
  <2>4. \A j \in T : p(j) <= p(k)
    BY <1>0, <2>2 DEF Before
  <2>5. CASE p(i) >= p(k)
    <3>1. Better(a, b) = idx[i]
      BY <1>0, <2>1, <2>2, <2>5 DEF Better
    <3>2. ASSUME NEW j \in T PROVE Before(idx, i, j)
      <4>1. p(j) \in Nat /\ p(i) \in Nat /\ p(k) \in Nat /\ p(j) <= p(k)
        BY <1>0, <2>4
      <4>2. CASE p(i) = p(j)
        BY <4>2 DEF Tie
      <4>3. CASE p(i) # p(j)
        BY <2>5, <4>1, <4>3 DEF Before
      <4> QED  BY <4>2, <4>3
    <3> QED  BY <2>1, <3>1, <3>2 DEF First
  <2>6. CASE ~(p(i) >= p(k))
    <3>1. Better(a, b) = idx[k]
      BY <1>0, <2>1, <2>2, <2>6 DEF Better
    <3>2. ASSUME NEW j \in S PROVE Before(idx, k, j)
      <4>1. p(j) \in Nat /\ p(i) \in Nat /\ p(k) \in Nat /\ p(j) <= p(i)
        BY <1>0, <2>3
      <4> QED  BY <2>6, <4>1 DEF Before
    <3> QED  BY <2>2, <3>1, <3>2 DEF First
  <2> QED  BY <2>5, <2>6
<1> QED  BY <1>1, <1>2, <1>3

\* Rules of an earlier kind.
LEMMA EarlierKinds ==
  ASSUME NEW idx, NEW S, NEW T, \A i \in S, k \in T : Rank[idx[i].kind] < Rank[idx[k].kind]
  PROVE  Tie(idx, S, T)
BY DEF Tie, Before

\* A fold of better over candidates, each the first of a part of the rules, keeps the
\* first of all of them.
LEMMA BestOfIsFirst ==
  ASSUME NEW idx, IsIndex(idx), NEW n \in Nat, NEW D \in SUBSET (1 .. n),
         NEW candidates, DOMAIN candidates = D, NEW part \in [D -> SUBSET DOMAIN idx],
         \A c \in D : First(idx, part[c], candidates[c]),
         \A c, d \in D : c < d => Tie(idx, part[c], part[d]),
         NEW S0 \in SUBSET DOMAIN idx, NEW cur, First(idx, S0, cur),
         \A c \in D : Tie(idx, S0, part[c]),
         NEW S, \A i : i \in S <=> i \in S0 \/ \E c \in D : i \in part[c]
  PROVE  First(idx, S, BestOf(cur, candidates))
<1> DEFINE V == Rule \cup {None}
           step == [p \in V \X D |-> Better(p[1], candidates[p[2]])]
           IsIter(h) == h = [s \in SUBSET D |->
              IF s = {} THEN cur ELSE Better(h[s \ {Max(s)}], candidates[Max(s)])]
           iter == CHOOSE h : h = [s \in SUBSET DOMAIN candidates |->
              IF s = {} THEN cur ELSE Better(h[s \ {Max(s)}], candidates[Max(s)])]
<1>1. cur \in V /\ \A c \in D : candidates[c] \in V
  BY DEF First, IsIndex
<1>2. step \in [V \X D -> V]
  BY <1>1 DEF Better
<1>3. PICK g \in [SUBSET D -> V] : IsFold(g, D, cur, step)
  <2> HIDE DEF step, V
  <2> QED  BY <1>1, <1>2, FoldExists
<1>4. ASSUME NEW s \in SUBSET D, s # {}
      PROVE  /\ Max(s) \in s /\ \A x \in s : x <= Max(s)
             /\ s \ {Max(s)} \in SUBSET D
  <2>1. s \in SUBSET (0 .. n)
    OBVIOUS
  <2>2. Max(s) \in s /\ \A x \in s : x <= Max(s)
    BY <1>4, <2>1, MaxIs
  <2> QED  BY <2>2
<1>5. IsIter(g)
  <2>1. ASSUME NEW s \in SUBSET D, s # {}
        PROVE  step[<<g[s \ {Max(s)}], Max(s)>>] = Better(g[s \ {Max(s)}], candidates[Max(s)])
    <3>1. g[s \ {Max(s)}] \in V /\ Max(s) \in D
      BY <1>4, <2>1
    <3> QED  BY <3>1
  <2> HIDE DEF step
  <2> QED  BY <1>3, <2>1 DEF IsFold
<1>6. BestOf(cur, candidates) = iter[DOMAIN candidates]
  BY Zenon DEF BestOf, FoldLeft, MapThenFoldSet
<1>7. IsIter(iter)
  BY <1>5, Zenon
<1> HIDE DEF iter, step, V
<1> DEFINE Of(s) == S0 \cup UNION {part[c] : c \in s}
           R == {s \in SUBSET D : First(idx, Of(s), iter[s])}
<1>8. {} \in R
  <2>1. iter[{}] = cur
    BY <1>7
  <2>2. Of({}) = S0
    OBVIOUS
  <2> QED  BY <2>1, <2>2
<1>9. ASSUME NEW s \in SUBSET D, s # {}, s \ {Max(s)} \in R PROVE s \in R
  <2> DEFINE m == Max(s)
             r == s \ {m}
  <2>1. m \in s /\ \A x \in s : x <= m
    BY <1>4, <1>9
  <2>2. iter[s] = Better(iter[r], candidates[m])
    BY <1>7, <1>9
  <2>3. First(idx, Of(r), iter[r])
    BY <1>9
  <2> HIDE DEF m
  <2>4. \A c \in r : c \in D /\ c < m
    BY <2>1
  <2>5. Tie(idx, Of(r), part[m])
    <3>1. m \in D
      BY <2>1
    <3>2. \A c \in r : Tie(idx, part[c], part[m])
      BY <2>4, <3>1
    <3> QED  BY <3>1, <3>2 DEF Tie
  <2>6. Of(s) = Of(r) \cup part[m]
    BY <2>1
  <2>7. Of(r) \in SUBSET DOMAIN idx /\ part[m] \in SUBSET DOMAIN idx /\ m \in D
    BY <2>1
  <2> HIDE DEF Of, r
  <2>8. First(idx, Of(s), iter[s])
    BY <2>2, <2>3, <2>5, <2>6, <2>7, BetterIsFirst
  <2> QED  BY <2>8
<1>10. D \in R
  <2> HIDE DEF R
  <2> QED  BY <1>8, <1>9, FoldInduction
<1>11. Of(D) = S
  OBVIOUS
<1> QED  BY <1>6, <1>10, <1>11

-----------------------------------------------------------------------------
(* What each stage of the pipeline finds.                                   *)

Applying(idx, f, kinds) == {i \in DOMAIN idx : Applies(idx[i], f) /\ idx[i].kind \in kinds}
Seen(idx, f, kinds) ==
  {i \in Applying(idx, f, kinds) : ~\E j \in Applying(idx, f, Kinds) : Hides(idx, j, i)}

\* m is the first of the rules of these kinds that apply and are not hidden, and not
\* all of those that apply are hidden.
Finds(idx, f, kinds, m) ==
  /\ First(idx, Seen(idx, f, kinds), m)
  /\ Applying(idx, f, kinds) # {} => Seen(idx, f, kinds) # {}

\* A map entry: the last of the rules of that kind and value.
Under(idx, kind, v) == {i \in DOMAIN idx : idx[i].kind = kind /\ idx[i].value = v}

LEMMA KeyedIs ==
  ASSUME NEW idx, IsIndex(idx), NEW kind, NEW v
  PROVE  \/ Under(idx, kind, v) = {} /\ Keyed(idx, kind, v) = None
         \/ \E l \in Under(idx, kind, v) :
              /\ Keyed(idx, kind, v) = idx[l] /\ Keyed(idx, kind, v) # None
              /\ \A i \in Under(idx, kind, v) : i <= l
<1> USE DEF Under
<1> DEFINE S == Under(idx, kind, v)
<1>1. CASE S = {}
  BY <1>1, Zenon DEF Keyed
<1>2. CASE S # {}
  <2>1. S \in SUBSET (0 .. MaxRules) /\ MaxRules \in Nat
    BY RuleAssumption DEF IsIndex
  <2> DEFINE l == Max(S)
  <2>2. l \in S /\ \A i \in S : i <= l
    BY <1>2, <2>1, MaxIs
  <2>3. Keyed(idx, kind, v) = idx[l]
    BY <1>2, Zenon DEF Keyed
  <2>4. idx[l] # None
    BY <2>2, RuleAssumption DEF IsIndex
  <2> HIDE DEF l
  <2> QED  BY <2>2, <2>3, <2>4
<1> QED  BY <1>1, <1>2

\* A single rule that hides the others of its kinds.
LEMMA OneSeen ==
  ASSUME NEW idx, NEW f, NEW kinds, NEW l \in Applying(idx, f, kinds),
         \A j \in Applying(idx, f, Kinds) : ~Hides(idx, j, l),
         \A i \in Applying(idx, f, kinds) \ {l} : Hides(idx, l, i),
         kinds \subseteq Kinds
  PROVE  Finds(idx, f, kinds, idx[l])
<1>1. l \in Applying(idx, f, Kinds)
  BY DEF Applying
<1>2. Seen(idx, f, kinds) = {l}
  BY <1>1 DEF Seen
<1> QED  BY <1>2 DEF Finds, First

LEMMA NoneSeen ==
  ASSUME NEW idx, NEW f, NEW kinds, Applying(idx, f, kinds) = {}
  PROVE  Finds(idx, f, kinds, None)
BY DEF Finds, First, Seen

\* A map finds the rule it holds under the value of the flow.
LEMMA KeyedFinds ==
  ASSUME NEW idx, IsIndex(idx), NEW f, NEW v,
         NEW kind \in {"process", "domain", "port", "protocol", "geoip"},
         \A r \in Rule : r.kind = kind => (Applies(r, f) <=> r.value = v)
  PROVE  Finds(idx, f, {kind}, Keyed(idx, kind, v))
<1> DEFINE S == Under(idx, kind, v)
<1>1. \A i \in DOMAIN idx : idx[i] \in Rule
  BY DEF IsIndex
<1>2. S = Applying(idx, f, {kind})
  BY <1>1 DEF Applying, Under
<1>3. CASE S = {}
  <2>1. Keyed(idx, kind, v) = None
    BY <1>3, KeyedIs
  <2> QED  BY <1>2, <1>3, <2>1, NoneSeen
<1>4. ASSUME NEW l \in S, \A i \in S : i <= l, Keyed(idx, kind, v) = idx[l]
      PROVE  Finds(idx, f, {kind}, Keyed(idx, kind, v))
  <2>1. \A j \in Applying(idx, f, Kinds) : ~Hides(idx, j, l)
    <3> SUFFICES ASSUME NEW j \in Applying(idx, f, Kinds), Hides(idx, j, l) PROVE FALSE
      OBVIOUS
    <3>1. j \in DOMAIN idx /\ idx[j].kind = idx[l].kind /\ idx[j].value = idx[l].value /\ j > l
      BY DEF Hides, Applying, Under
    <3>2. j \in S
      BY <3>1 DEF Under
    <3>3. j <= l
      BY <1>4, <3>2
    <3>4. j \in Nat /\ l \in Nat
      BY <3>1, RuleAssumption DEF IsIndex, Under
    <3> QED  BY <3>1, <3>3, <3>4
  <2>2. \A i \in S \ {l} : Hides(idx, l, i)
    BY <1>4, RuleAssumption DEF Hides, IsIndex, Under
  <2>3. {kind} \subseteq Kinds
    BY KindsAre
  <2> HIDE DEF S
  <2> QED  BY <1>2, <1>4, <2>1, <2>2, <2>3, OneSeen
<1> QED  BY <1>3, <1>4, KeyedIs

LEMMA PrefixIs ==
  ASSUME NEW path \in Seq(Symbols), NEW v \in Seq(Symbols)
  PROVE  IsPrefix(v, path) <=> Len(v) \in 0 .. Len(path) /\ v = SubSeq(path, 1, Len(v))
<1>1. SubSeq(v, 1, Len(v)) = v
  OBVIOUS
<1> QED  BY <1>1 DEF IsPrefix

\* A trie finds the last of the rules with the longest prefix of the path.
LEMMA LongestFinds ==
  ASSUME NEW idx, IsIndex(idx), NEW f, NEW path \in Seq(Symbols), NEW kind \in {"suffix", "ip"},
         \A r \in Rule : r.kind = kind => (Applies(r, f) <=> IsPrefix(r.value, path))
  PROVE  Finds(idx, f, {kind}, Longest(idx, kind, path))
<1> DEFINE at(n) == Keyed(idx, kind, SubSeq(path, 1, n))
           depths == {n \in 0 .. Len(path) : at(n) # None}
           S(n) == Under(idx, kind, SubSeq(path, 1, n))
           A == Applying(idx, f, {kind})
<1>1. \A i \in DOMAIN idx : /\ idx[i] \in Rule
                            /\ idx[i].kind = kind => idx[i].value \in Seq(Symbols)
  BY RuleFacts DEF IsIndex
<1>2. ASSUME NEW n \in 0 .. Len(path)
      PROVE  \/ S(n) = {} /\ at(n) = None
             \/ \E l \in S(n) : at(n) = idx[l] /\ at(n) # None /\ \A i \in S(n) : i <= l
  BY KeyedIs
<1>3. ASSUME NEW i \in A
      PROVE  /\ i \in DOMAIN idx /\ idx[i].kind = kind
             /\ Len(idx[i].value) \in depths /\ i \in S(Len(idx[i].value))
  <2>1. i \in DOMAIN idx /\ idx[i].kind = kind /\ idx[i].value \in Seq(Symbols)
        /\ IsPrefix(idx[i].value, path)
    BY <1>1 DEF Applying
  <2>2. Len(idx[i].value) \in 0 .. Len(path) /\ i \in S(Len(idx[i].value))
    BY <2>1, PrefixIs DEF Under
  <2>3. at(Len(idx[i].value)) # None
    BY <1>2, <2>2
  <2> QED  BY <2>1, <2>2, <2>3
<1>4. ASSUME NEW n \in 0 .. Len(path), NEW i \in S(n) PROVE i \in A /\ Len(idx[i].value) = n
  <2>1. Len(SubSeq(path, 1, n)) = n
    OBVIOUS
  <2>2. idx[i].value \in Seq(Symbols) /\ Len(idx[i].value) = n
    BY <1>1, <2>1 DEF Under
  <2>3. IsPrefix(idx[i].value, path)
    BY <2>2, PrefixIs DEF Under
  <2> QED  BY <1>1, <2>2, <2>3 DEF Applying, Under
<1>5. CASE depths = {}
  <2>1. A = {}
    BY <1>3, <1>5
  <2>2. Longest(idx, kind, path) = None
    BY <1>5, Zenon DEF Longest
  <2> QED  BY <2>1, <2>2, NoneSeen
<1>6. CASE depths # {}
  <2> DEFINE d == Max(depths)
  <2>1. d \in depths /\ \A n \in depths : n <= d
    <3>1. depths \in SUBSET (0 .. Len(path)) /\ Len(path) \in Nat
      OBVIOUS
    <3> HIDE DEF depths
    <3> QED  BY <1>6, <3>1, MaxIs
  <2>2. Longest(idx, kind, path) = at(d)
    BY <1>6, Zenon DEF Longest
  <2> HIDE DEF d
  <2>3. d \in 0 .. Len(path) /\ at(d) # None
    BY <2>1
  <2>4. PICK l \in S(d) : at(d) = idx[l] /\ \A i \in S(d) : i <= l
    BY <1>2, <2>3
  <2>5. l \in A /\ Len(idx[l].value) = d
    BY <1>4, <2>3, <2>4
  <2> HIDE DEF depths, at
  <2>6. \A j \in Applying(idx, f, Kinds) : ~Hides(idx, j, l)
    <3> SUFFICES ASSUME NEW j \in Applying(idx, f, Kinds), Hides(idx, j, l) PROVE FALSE
      OBVIOUS
    <3>1. idx[l].kind = kind
      BY <1>3, <2>5
    <3>2. idx[j].kind = kind /\ (Len(idx[j].value) > d \/ (idx[j].value = idx[l].value /\ j > l))
      BY <2>5, <3>1 DEF Hides
    <3>3. j \in A
      BY <3>2 DEF Applying
    <3>4. Len(idx[j].value) \in depths /\ j \in S(Len(idx[j].value)) /\ j \in DOMAIN idx
      BY <1>3, <3>3
    <3>5. Len(idx[j].value) <= d /\ Len(idx[j].value) \in Nat
      BY <2>1, <3>4 DEF depths
    <3>6. idx[j].value = idx[l].value /\ j > l
      BY <2>3, <3>2, <3>5
    <3>7. j \in S(d)
      BY <2>5, <3>4, <3>6
    <3> QED  BY <2>4, <3>6, <3>7, RuleAssumption DEF IsIndex, Under
  <2>7. ASSUME NEW i \in A \ {l} PROVE Hides(idx, l, i)
    <3> DEFINE n == Len(idx[i].value)
    <3>1. i \in DOMAIN idx /\ idx[i].kind = kind /\ n \in depths /\ i \in S(n)
      BY <1>3, <2>7
    <3>0. idx[l].kind = kind
      BY <1>3, <2>5
    <3>2. n <= d /\ n \in Nat /\ idx[l].kind = kind
      <4>1. n \in 0 .. Len(path)
        BY <3>1 DEF depths
      <4> QED  BY <2>1, <3>0, <3>1, <4>1
    <3>3. CASE n = d
      <4>1. i <= l /\ i # l /\ idx[i].value = idx[l].value
        BY <2>4, <2>7, <3>1, <3>3 DEF Under
      <4>2. i \in Nat /\ l \in Nat
        BY <2>4, <3>1, RuleAssumption DEF IsIndex, Under
      <4> QED  BY <3>1, <3>2, <4>1, <4>2 DEF Hides
    <3>4. CASE n # d
      <4>1. Len(idx[l].value) > n
        BY <2>3, <2>5, <3>2, <3>4
      <4> QED  BY <3>1, <3>2, <4>1 DEF Hides
    <3> QED  BY <3>3, <3>4
  <2>8. {kind} \subseteq Kinds
    BY KindsAre
  <2> HIDE DEF A
  <2> QED  BY <2>2, <2>4, <2>5, <2>6, <2>7, <2>8, OneSeen DEF A
<1> QED  BY <1>5, <1>6

-----------------------------------------------------------------------------
(* The stages that ask several structures.                                  *)

LEMMA CandidatesAre ==
  ASSUME NEW idx, NEW kind, NEW v
  PROVE  Candidates(idx, kind, v) =
           [i \in {j \in DOMAIN idx : idx[j].kind = kind /\ <<idx[j].value, v>> \in Covers}
              |-> idx[i]]
BY Zenon DEF Candidates, RestrictValues, Restrict

\* The exact port hides the ranges, the first range the others.
LEMMA PortFinds ==
  ASSUME NEW idx, IsIndex(idx), NEW f, f.port # None
  PROVE  Finds(idx, f, {"port", "range"}, MatchPort(idx, f.port))
<1> DEFINE both == {"port", "range"}
           exact == Keyed(idx, "port", f.port)
           ranges == DOMAIN Candidates(idx, "range", f.port)
<1>0. \A i \in DOMAIN idx : idx[i] # None
  BY RuleAssumption DEF IsIndex
<1>1. Finds(idx, f, {"port"}, exact)
  BY KeyedFinds DEF Applies
<1>2. ranges = Applying(idx, f, {"range"})
  BY CandidatesAre DEF Applying, Applies
<1>3. both \subseteq Kinds
  BY KindsAre
<1>4. CASE Applying(idx, f, {"port"}) # {}
  <2>1. Seen(idx, f, both) = Seen(idx, f, {"port"})
    <3>1. PICK j \in Applying(idx, f, {"port"}) : TRUE
      BY <1>4
    <3>2. j \in Applying(idx, f, Kinds) /\ idx[j].kind = "port"
      BY <1>3 DEF Applying
    <3>3. \A i \in DOMAIN idx : idx[i].kind = "range" => Hides(idx, j, i)
      BY <3>2 DEF Hides
    <3> QED  BY <3>2, <3>3 DEF Seen, Applying
  <2>2. Seen(idx, f, {"port"}) # {} /\ First(idx, Seen(idx, f, {"port"}), exact)
    BY <1>1, <1>4 DEF Finds
  <2>3. exact # None
    BY <1>0, <2>2 DEF First, Seen, Applying
  <2>4. MatchPort(idx, f.port) = exact
    BY <2>3, Zenon DEF MatchPort
  <2> QED  BY <2>1, <2>2, <2>4 DEF Finds
<1>5. CASE Applying(idx, f, {"port"}) = {}
  <2>1. exact = None
    BY <1>1, <1>5 DEF Finds, First, Seen
  <2>2. Applying(idx, f, both) = ranges
    BY <1>2, <1>5 DEF Applying
  <2>3. CASE ranges = {}
    <3>1. MatchPort(idx, f.port) = None
      BY <2>1, <2>3, Zenon DEF MatchPort
    <3> QED  BY <2>2, <2>3, <3>1, NoneSeen
  <2>4. CASE ranges # {}
    <3> DEFINE l == Min(ranges)
    <3>1. ranges \subseteq DOMAIN idx /\ \A i \in ranges : idx[i].kind = "range"
      BY <1>2 DEF Applying
    <3>2. ranges \in SUBSET Nat
      BY <3>1, RuleAssumption DEF IsIndex
    <3>3. l \in ranges /\ \A i \in ranges : l <= i
      BY <2>4, <3>2, MinIs
    <3>4. MatchPort(idx, f.port) = idx[l]
      BY <2>1, <2>4, Zenon DEF MatchPort
    <3> HIDE DEF l, ranges
    <3>5. \A j \in Applying(idx, f, Kinds) : ~Hides(idx, j, l)
      <4> SUFFICES ASSUME NEW j \in Applying(idx, f, Kinds), Hides(idx, j, l) PROVE FALSE
        OBVIOUS
      <4>1. idx[j].kind = "port" \/ (idx[j].kind = "range" /\ j < l)
        BY <3>1, <3>3 DEF Hides
      <4>2. CASE idx[j].kind = "port"
        BY <1>5, <4>2 DEF Applying
      <4>3. CASE idx[j].kind = "range" /\ j < l
        <5>1. j \in ranges
          BY <1>2, <4>3 DEF Applying
        <5>2. l <= j /\ j \in Nat /\ l \in Nat
          BY <3>2, <3>3, <5>1
        <5> QED  BY <4>3, <5>2
      <4> QED  BY <4>1, <4>2, <4>3
    <3>6. ASSUME NEW i \in ranges \ {l} PROVE Hides(idx, l, i)
      <4>1. l < i
        BY <3>2, <3>3
      <4> QED  BY <3>1, <3>3, <4>1 DEF Hides
    <3> QED  BY <1>3, <2>2, <3>3, <3>4, <3>5, <3>6, OneSeen
  <2> QED  BY <2>3, <2>4
<1> QED  BY <1>4, <1>5

\* Two structures, one after the other.
LEMMA BetterFinds ==
  ASSUME NEW idx, IsIndex(idx), NEW f, NEW K, NEW L, NEW a, NEW b,
         Finds(idx, f, K, a), Finds(idx, f, L, b), \A x \in K, y \in L : Rank[x] < Rank[y]
  PROVE  Finds(idx, f, K \cup L, Better(a, b))
<1>1. /\ Seen(idx, f, K \cup L) = Seen(idx, f, K) \cup Seen(idx, f, L)
      /\ Applying(idx, f, K \cup L) = Applying(idx, f, K) \cup Applying(idx, f, L)
  BY DEF Seen, Applying
<1>2. Tie(idx, Seen(idx, f, K), Seen(idx, f, L))
  BY EarlierKinds DEF Seen, Applying
<1>3. Seen(idx, f, K) \in SUBSET DOMAIN idx /\ Seen(idx, f, L) \in SUBSET DOMAIN idx
  BY DEF Seen, Applying
<1>4. First(idx, Seen(idx, f, K) \cup Seen(idx, f, L), Better(a, b))
  BY <1>2, <1>3, BetterIsFirst DEF Finds
<1> QED  BY <1>1, <1>4 DEF Finds

\* The keywords or the regexes, after the structures before them.
LEMMA BestOfFinds ==
  ASSUME NEW idx, IsIndex(idx), NEW f, f.domain # None, NEW kind \in {"keyword", "regex"},
         NEW K, \A x \in K : Rank[x] < Rank[kind], NEW cur, Finds(idx, f, K, cur)
  PROVE  Finds(idx, f, K \cup {kind}, BestOf(cur, Candidates(idx, kind, f.domain)))
<1> DEFINE D == Applying(idx, f, {kind})
           candidates == Candidates(idx, kind, f.domain)
           part == [c \in D |-> {c}]
           S0 == Seen(idx, f, K)
<1>1. DOMAIN candidates = D /\ \A c \in D : candidates[c] = idx[c]
  BY CandidatesAre DEF Applying, Applies
<1>2. D \in SUBSET (1 .. MaxRules) /\ MaxRules \in Nat
  BY RuleAssumption DEF Applying, IsIndex
<1>3. Seen(idx, f, {kind}) = D
  BY DEF Seen, Applying, Hides
<1>4. part \in [D -> SUBSET DOMAIN idx] /\ \A c \in D : part[c] = {c}
  BY DEF Applying
<1>5. \A c \in D : First(idx, part[c], candidates[c])
  BY <1>1, <1>4 DEF First
<1>6. \A c, d \in D : c < d => Tie(idx, part[c], part[d])
  <2>1. \A c \in D : idx[c].kind = kind
    BY DEF Applying
  <2> HIDE DEF D, part
  <2> QED  BY <1>4, <2>1 DEF Tie, Before
<1>7. \A c \in D : Tie(idx, S0, part[c])
  BY <1>4 DEF Tie, Before, Seen, Applying
<1>8. S0 \in SUBSET DOMAIN idx /\ First(idx, S0, cur)
  BY DEF Seen, Applying, Finds
<1>9. \A i : i \in S0 \cup D <=> i \in S0 \/ \E c \in D : i \in part[c]
  BY <1>4
<1>10. /\ Seen(idx, f, K \cup {kind}) = S0 \cup Seen(idx, f, {kind})
       /\ Applying(idx, f, K \cup {kind}) = Applying(idx, f, K) \cup D
  BY DEF Seen, Applying
<1>11. First(idx, S0 \cup D, BestOf(cur, candidates))
  <2> DEFINE S == S0 \cup D
  <2>1. \A i : i \in S <=> i \in S0 \/ \E c \in D : i \in part[c]
    BY <1>9
  <2>2. DOMAIN candidates = D
    BY <1>1
  <2> HIDE DEF D, candidates, part, S0, S
  <2>3. First(idx, S, BestOf(cur, candidates))
    BY <1>2, <1>4, <1>5, <1>6, <1>7, <1>8, <2>1, <2>2, BestOfIsFirst
  <2> QED  BY <2>3 DEF S
<1> HIDE DEF candidates, part
<1> QED  BY <1>3, <1>10, <1>11 DEF Finds, candidates

LEMMA DomainFinds ==
  ASSUME NEW idx, IsIndex(idx), NEW f, f.domain # None, f.domain \in Seq(Symbols)
  PROVE  Finds(idx, f, {"domain", "suffix", "keyword", "regex"}, MatchDomain(idx, f.domain))
<1> DEFINE looked == Better(Keyed(idx, "domain", f.domain), Longest(idx, "suffix", f.domain))
           listed == BestOf(looked, Candidates(idx, "keyword", f.domain))
<1>1. Finds(idx, f, {"domain"}, Keyed(idx, "domain", f.domain))
  BY KeyedFinds DEF Applies
<1>2. Finds(idx, f, {"suffix"}, Longest(idx, "suffix", f.domain))
  BY LongestFinds DEF Applies
<1>3. Finds(idx, f, {"domain"} \cup {"suffix"}, looked)
  BY <1>1, <1>2, BetterFinds, RankFacts
<1> HIDE DEF looked
<1>4. Finds(idx, f, {"domain", "suffix"} \cup {"keyword"}, listed)
  <2>1. {"domain"} \cup {"suffix"} = {"domain", "suffix"}
    OBVIOUS
  <2>2. \A x \in {"domain", "suffix"} : Rank[x] < Rank["keyword"]
    BY RankFacts
  <2> QED  BY <1>3, <2>1, <2>2, BestOfFinds
<1> HIDE DEF listed
<1>5. Finds(idx, f, {"domain", "suffix", "keyword"} \cup {"regex"},
            BestOf(listed, Candidates(idx, "regex", f.domain)))
  <2>1. {"domain", "suffix"} \cup {"keyword"} = {"domain", "suffix", "keyword"}
    OBVIOUS
  <2>2. \A x \in {"domain", "suffix", "keyword"} : Rank[x] < Rank["regex"]
    BY RankFacts
  <2> QED  BY <1>4, <2>1, <2>2, BestOfFinds
<1>6. {"domain", "suffix", "keyword"} \cup {"regex"} = {"domain", "suffix", "keyword", "regex"}
  OBVIOUS
<1> QED  BY <1>5, <1>6 DEF MatchDomain, looked, listed

-----------------------------------------------------------------------------
(* The pipeline.                                                            *)

StageKinds ==
  <<{"process"}, {"domain", "suffix", "keyword", "regex"}, {"ip"}, {"port", "range"},
    {"protocol"}, {"geoip"}>>

LEMMA NothingApplies ==
  ASSUME NEW idx, IsIndex(idx), NEW f, NEW kinds,
         \A r \in Rule : r.kind \in kinds => ~Applies(r, f)
  PROVE  Finds(idx, f, kinds, None)
<1>1. Applying(idx, f, kinds) = {}
  BY DEF Applying, IsIndex
<1> QED  BY <1>1, NoneSeen

LEMMA StagesFind ==
  ASSUME NEW idx, IsIndex(idx), NEW f \in Flows, NEW c \in 1 .. 6
  PROVE  Finds(idx, f, StageKinds[c], Stages(idx, f)[c])
<1>0. \A r \in Rule : r.value # None
  BY RuleFacts, RuleAssumption
<1>1. CASE c = 1
  <2>1. Finds(idx, f, {"process"}, Keyed(idx, "process", f.process))
    BY KeyedFinds DEF Applies
  <2> QED  BY <1>1, <2>1 DEF StageKinds, Stages
<1>2. CASE c = 2
  <2> DEFINE K == {"domain", "suffix", "keyword", "regex"}
             m == IF f.domain = None THEN None ELSE MatchDomain(idx, f.domain)
  <2>1. CASE f.domain = None
    <3>1. \A r \in Rule : r.kind \in K => ~Applies(r, f)
      BY <1>0, <2>1 DEF Applies
    <3> QED  BY <1>2, <2>1, <3>1, NothingApplies DEF StageKinds, Stages
  <2>2. CASE f.domain # None
    <3>1. f.domain \in Seq(Symbols)
      BY <2>2, FlowAssumption
    <3>2. Finds(idx, f, K, m)
      BY <2>2, <3>1, DomainFinds
    <3> HIDE DEF m
    <3>3. Stages(idx, f)[2] = m
      BY DEF Stages, m
    <3> QED  BY <1>2, <3>2, <3>3 DEF StageKinds
  <2> QED  BY <2>1, <2>2
<1>3. CASE c = 3
  <2>1. CASE f.ip = None
    <3>1. \A r \in Rule : r.kind \in {"ip"} => ~Applies(r, f)
      BY <2>1 DEF Applies
    <3> QED  BY <1>3, <2>1, <3>1, NothingApplies DEF StageKinds, Stages, OfIp
  <2>2. CASE f.ip # None
    <3>1. f.ip \in Seq(Symbols)
      BY <2>2, FlowAssumption
    <3>2. Finds(idx, f, {"ip"}, Longest(idx, "ip", f.ip))
      BY <2>2, <3>1, LongestFinds DEF Applies
    <3> QED  BY <1>3, <2>2, <3>2 DEF StageKinds, Stages, OfIp
  <2> QED  BY <2>1, <2>2
<1>4. CASE c = 4
  <2>1. CASE f.port = None
    <3>1. \A r \in Rule : r.kind \in {"port", "range"} => ~Applies(r, f)
      BY <1>0, <2>1 DEF Applies
    <3> QED  BY <1>4, <2>1, <3>1, NothingApplies DEF StageKinds, Stages
  <2>2. CASE f.port # None
    <3>1. Finds(idx, f, {"port", "range"}, MatchPort(idx, f.port))
      BY <2>2, PortFinds
    <3> QED  BY <1>4, <2>2, <3>1 DEF StageKinds, Stages
  <2> QED  BY <2>1, <2>2
<1>5. CASE c = 5
  <2>1. Finds(idx, f, {"protocol"}, Keyed(idx, "protocol", f.protocol))
    BY KeyedFinds DEF Applies
  <2> QED  BY <1>5, <2>1 DEF StageKinds, Stages
<1>6. CASE c = 6
  <2>1. CASE f.ip = None
    <3>1. \A r \in Rule : r.kind \in {"geoip"} => ~Applies(r, f)
      BY <2>1 DEF Applies
    <3> QED  BY <1>6, <2>1, <3>1, NothingApplies DEF StageKinds, Stages, OfIp
  <2>2. CASE f.ip # None
    <3>1. Finds(idx, f, {"geoip"}, Keyed(idx, "geoip", Country(f.ip)))
      BY <2>2, KeyedFinds DEF Applies
    <3> QED  BY <1>6, <2>2, <3>1 DEF StageKinds, Stages, OfIp
  <2> QED  BY <2>1, <2>2
<1> QED  BY <1>1, <1>2, <1>3, <1>4, <1>5, <1>6

\* The rank of a stage's kinds is below that of the next one's.
LEMMA StagesInOrder ==
  ASSUME NEW c \in 1 .. 6, NEW d \in 1 .. 6, c < d, NEW x \in StageKinds[c], NEW y \in StageKinds[d]
  PROVE  Rank[x] < Rank[y]
<1> DEFINE lo == <<1, 2, 6, 7, 9, 10>>
           hi == <<1, 5, 6, 8, 9, 10>>
<1>1. ASSUME NEW e \in 1 .. 6, NEW z \in StageKinds[e]
      PROVE  lo[e] <= Rank[z] /\ Rank[z] <= hi[e] /\ Rank[z] \in Nat
  BY RankFacts DEF StageKinds
<1>2. hi[c] < lo[d]
  OBVIOUS
<1>3. lo[d] \in Nat /\ hi[c] \in Nat
  OBVIOUS
<1> HIDE DEF lo, hi
<1> QED  BY <1>1, <1>2, <1>3

\* The pipeline finds the first of all the rules that apply and are not hidden.
LEMMA WinnerIsFirst ==
  ASSUME NEW idx, IsIndex(idx), NEW f \in Flows
  PROVE  Finds(idx, f, Kinds, Winner(idx, f))
<1> DEFINE D == 1 .. 6
           candidates == Stages(idx, f)
           part == [c \in D |-> Seen(idx, f, StageKinds[c])]
           S == Seen(idx, f, Kinds)
<1>1. DOMAIN candidates = D
  BY DEF Stages
<1>2. D \in SUBSET (1 .. 6)
  OBVIOUS
<1>3. part \in [D -> SUBSET DOMAIN idx] /\ \A c \in D : part[c] = Seen(idx, f, StageKinds[c])
  BY DEF Seen, Applying
<1>4. \A c \in D : First(idx, part[c], candidates[c])
  <2> HIDE DEF candidates, part, D
  <2> QED  BY <1>3, StagesFind DEF Finds, candidates, D
<1>5. ASSUME NEW c \in D, NEW d \in D, c < d PROVE Tie(idx, part[c], part[d])
  <2> HIDE DEF part
  <2>1. \A i \in part[c], k \in part[d] :
          idx[i].kind \in StageKinds[c] /\ idx[k].kind \in StageKinds[d]
    BY <1>3 DEF Seen, Applying
  <2> QED  BY <1>5, <2>1, StagesInOrder, EarlierKinds
<1>6. {} \in SUBSET DOMAIN idx /\ First(idx, {}, None) /\ \A c \in D : Tie(idx, {}, part[c])
  BY DEF First, Tie
<1>7. \A x : x \in Kinds <=> \E c \in D : x \in StageKinds[c]
  <2>1. \A x \in Kinds : \E c \in D : x \in StageKinds[c]
    <3> SUFFICES ASSUME NEW x \in Kinds PROVE \E c \in D : x \in StageKinds[c]
      OBVIOUS
    <3>1. \/ x \in StageKinds[1] \/ x \in StageKinds[2] \/ x \in StageKinds[3]
          \/ x \in StageKinds[4] \/ x \in StageKinds[5] \/ x \in StageKinds[6]
      BY KindsAre DEF StageKinds
    <3> QED  BY <3>1
  <2>2. \A c \in D : StageKinds[c] \subseteq Kinds
    BY KindsAre DEF StageKinds
  <2> QED  BY <2>1, <2>2
<1>8. \A i : i \in S <=> i \in {} \/ \E c \in D : i \in part[c]
  <2> HIDE DEF part, D
  <2> QED  BY <1>3, <1>7 DEF Seen, Applying
<1>9. First(idx, S, BestOf(None, candidates))
  <2> DEFINE none == {}
  <2> HIDE DEF D, candidates, part, S, none
  <2>1. none \in SUBSET DOMAIN idx /\ First(idx, none, None) /\ \A c \in D : Tie(idx, none, part[c])
    BY <1>6 DEF none
  <2>2. \A i : i \in S <=> i \in none \/ \E c \in D : i \in part[c]
    BY <1>8 DEF none
  <2> QED  BY <1>1, <1>2, <1>3, <1>4, <1>5, <2>1, <2>2, BestOfIsFirst
<1>10. ASSUME NEW i \in Applying(idx, f, Kinds) PROVE S # {}
  <2>1. PICK c \in D : idx[i].kind \in StageKinds[c]
    BY <1>7 DEF Applying
  <2>2. Applying(idx, f, StageKinds[c]) # {}
    BY <2>1 DEF Applying
  <2>3. Seen(idx, f, StageKinds[c]) # {}
    BY <2>2, StagesFind DEF Finds
  <2> QED  BY <1>3, <1>8, <2>3
<1> QED  BY <1>9, <1>10 DEF Finds, Winner

\* Two rules never come before each other: what the reference chooses is unique.
LEMMA BeforeIsStrict ==
  ASSUME NEW idx, IsIndex(idx), NEW i \in DOMAIN idx, NEW k \in DOMAIN idx,
         Before(idx, i, k), Before(idx, k, i)
  PROVE  FALSE
<1>1. i \in Nat /\ k \in Nat
  BY RuleAssumption DEF IsIndex
<1>2. ASSUME NEW j \in DOMAIN idx
      PROVE  Priority(idx[j]) \in Nat /\ Rank[idx[j].kind] \in Nat
  <2> DEFINE r == idx[j]
             x == r.kind
  <2>1. r \in Rule
    BY DEF IsIndex
  <2> HIDE DEF r
  <2>2. Priority(r) \in Nat /\ x \in Kinds
    BY <2>1, RuleFacts, KindsAre
  <2> HIDE DEF x
  <2>3. Rank[x] \in Nat
    BY <2>2, RankFacts, KindsAre
  <2> QED  BY <2>2, <2>3 DEF r, x
<1> QED  BY <1>1, <1>2 DEF Before

\* For any index, whatever the rules and the flow.
LEMMA Decided ==
  ASSUME NEW idx, IsIndex(idx), NEW f \in Flows
  PROVE  Winner(idx, f) = Reference(idx, f)
<1> DEFINE all == {i \in DOMAIN idx : Applies(idx[i], f)}
           seen == {i \in all : ~\E j \in all : Hides(idx, j, i)}
           best(i) == \A k \in seen \ {i} : Before(idx, i, k)
<1>1. all = Applying(idx, f, Kinds)
  BY KindsAre, RuleFacts DEF Applying, IsIndex
<1>2. seen = Seen(idx, f, Kinds)
  BY <1>1 DEF Seen
<1> HIDE DEF all, seen
<1>3. Reference(idx, f) = IF all = {} THEN None ELSE idx[CHOOSE i \in seen : best(i)]
  BY DEF Reference, all, seen
<1>4. First(idx, seen, Winner(idx, f)) /\ (all # {} => seen # {})
  BY <1>1, <1>2, WinnerIsFirst DEF Finds
<1>5. CASE all = {}
  <2>1. seen = {}
    BY <1>5 DEF seen
  <2> QED  BY <1>3, <1>4, <1>5, <2>1 DEF First
<1>6. CASE all # {}
  <2>1. PICK i \in seen : Winner(idx, f) = idx[i] /\ best(i)
    BY <1>4, <1>6 DEF First
  <2>2. seen \subseteq DOMAIN idx
    BY DEF seen, all
  <2>3. ASSUME NEW k \in seen, best(k) PROVE k = i
    BY <2>1, <2>2, <2>3, BeforeIsStrict
  <2> HIDE DEF best
  <2>4. (CHOOSE k \in seen : best(k)) = i
    BY <2>1, <2>3
  <2> QED  BY <1>3, <1>6, <2>1, <2>4
<1> QED  BY <1>5, <1>6

\* For lists of any length and any flow, the tries, the maps and the folds of the
\* pipeline decide as a reading of the rules does: the rule of the highest priority
\* that applies and that no more specific rule hides, the first in the order of
\* stage and position (engine.rs decide, matcher.rs match_*).
THEOREM RulesDecide == RulesSpec => []DecisionFollowsRules
<1>1. RulesTypeOK => DecisionFollowsRules
  BY Decided DEF RulesTypeOK, DecisionFollowsRules, IsIndex
<1> QED  BY <1>1, RuleTypes, PTL
=============================================================================
