----------------------------- MODULE RuleStore -----------------------------
(***************************************************************************)
(* The edits of the user's rules: request tasks that read the list, write *)
(* rules.json and publish index and list, with no lock held across.       *)
(***************************************************************************)
EXTENDS RuleIndex

CONSTANTS
  Editors         \* request tasks

VARIABLES
  rules,       \* RoutingEngine.rules
  index,       \* RoutingEngine.index: the enabled rules it was built from
  ruleFile,    \* rules.json
  ruleTmp,     \* its temporary file, None when there is none
  editor       \* per task: its next step and the list it commits

ruleVars == <<rules, index, ruleFile, ruleTmp, editor>>

NoEdit == [pc |-> "idle", list |-> <<>>]

Loaded(list) == rules = list /\ index = Indexed(list)

RulesInit ==
  /\ ruleFile = <<>> /\ ruleTmp = None
  /\ Loaded(ruleFile)
  /\ editor = [e \in Editors |-> NoEdit]

-----------------------------------------------------------------------------

Editing(e, label) == editor[e].pc = label
EditGoes(e, label) ==
  editor' = [editor EXCEPT ![e] = IF label = "idle" THEN NoEdit ELSE [@ EXCEPT !.pc = label]]

\* Mutant of Commits: the set is written before it is built.
CommitsAny(list) == Edits(list)
Commits(list) == {l \in Edits(list) : Builds(l)}

\* add_rule, update_rule, delete_rule up to the write: the list as it is now, one
\* edit, and the build that validates the whole set.  An unknown id, an empty
\* value or a set that does not build is refused and changes nothing.
ReadList(e) ==
  /\ Editing(e, "idle")
  /\ \E l \in Commits(rules) : editor' = [editor EXCEPT ![e] = [pc |-> "write", list |-> l]]
  /\ UNCHANGED <<rules, index, ruleFile, ruleTmp>>

\* Mutant of WriteRules: a failed write is only logged.
WriteRulesLogged(e) ==
  /\ Editing(e, "write")
  /\ \/ ruleTmp' = editor[e].list /\ EditGoes(e, "rename")
     \/ "disk" \in Faults /\ EditGoes(e, "index") /\ UNCHANGED ruleTmp
  /\ UNCHANGED <<rules, index, ruleFile>>

\* atomic_write_json, first half; on an error the edit is refused
WriteRules(e) ==
  /\ Editing(e, "write")
  /\ \/ ruleTmp' = editor[e].list /\ EditGoes(e, "rename")
     \/ "disk" \in Faults /\ EditGoes(e, "idle") /\ UNCHANGED ruleTmp
  /\ UNCHANGED <<rules, index, ruleFile>>

\* second half: the rename takes whatever the temporary file holds, and fails when
\* another task has just renamed it; on an error the edit is refused
RenameRules(e) ==
  /\ Editing(e, "rename")
  /\ \/ /\ ruleTmp # None
        /\ ruleFile' = ruleTmp /\ ruleTmp' = None
        /\ EditGoes(e, "index")
     \/ /\ ruleTmp = None \/ "disk" \in Faults
        /\ EditGoes(e, "idle")
        /\ UNCHANGED <<ruleFile, ruleTmp>>
  /\ UNCHANGED <<rules, index>>

PublishIndex(e) ==
  /\ Editing(e, "index")
  /\ index' = Indexed(editor[e].list)
  /\ EditGoes(e, "list")
  /\ UNCHANGED <<rules, ruleFile, ruleTmp>>

PublishList(e) ==
  /\ Editing(e, "list")
  /\ rules' = editor[e].list
  /\ EditGoes(e, "idle")
  /\ UNCHANGED <<index, ruleFile, ruleTmp>>

\* The service is killed and started again: load reads both files
RestartRules ==
  /\ rules' = ruleFile /\ index' = Indexed(ruleFile)
  /\ editor' = [e \in Editors |-> NoEdit]
  /\ UNCHANGED <<ruleFile, ruleTmp>>

EditorStep(e) ==
  \/ ReadList(e) \/ WriteRules(e) \/ RenameRules(e) \/ PublishIndex(e) \/ PublishList(e)

RulesNext == (\E e \in Editors : EditorStep(e)) \/ RestartRules

RulesSpec == RulesInit /\ [][RulesNext]_ruleVars
=============================================================================
