--------------------------- MODULE CatalogProofs ---------------------------
(***************************************************************************)
(* Theorems about Catalog, for any number of jobs, nodes and subscriptions,*)
(* with crashes and failing writes; those about the files, for one job and *)
(* writes that succeed.                                                    *)
(***************************************************************************)
EXTENDS CatalogProps, TLAPS

-----------------------------------------------------------------------------
(* Types.                                                                   *)

\* A part whose variables do not change keeps its types.
LEMMA Frame ==
  ASSUME CatalogTypeOK
  PROVE  /\ UNCHANGED nodeVars => NodesTypeOK'
         /\ UNCHANGED itemVars => ItemsTypeOK'
         /\ UNCHANGED fileVars => FilesTypeOK'
         /\ UNCHANGED job => JobsTypeOK'
<1>1. UNCHANGED nodeVars => NodesTypeOK'
  BY DEF CatalogTypeOK, nodeVars, NodesTypeOK
<1>2. UNCHANGED itemVars => ItemsTypeOK'
  BY DEF CatalogTypeOK, itemVars, ItemsTypeOK
<1>3. UNCHANGED fileVars => FilesTypeOK'
  BY DEF CatalogTypeOK, fileVars, FilesTypeOK
<1>4. UNCHANGED job => JobsTypeOK'
  BY DEF CatalogTypeOK, JobsTypeOK
<1> QED BY <1>1, <1>2, <1>3, <1>4

\* A known node has a record.
LEMMA Records ==
  ASSUME NodesTypeOK, NEW n \in Known
  PROVE  n \in Nodes /\ nodes[n] \in NodeRecord
BY DEF NodesTypeOK, Known, NodeTable

LEMMA NoJobShape == NoJob \in JobRecord /\ Shape(NoJob)
<1>1. NoJob \in JobRecord
  BY DEF NoJob, JobRecord, Labels
<1>2. Shape(NoJob)
  BY DEF NoJob, Shape
<1> QED BY <1>1, <1>2

\* A save can begin in any job without probes.
LEMMA SavingShape ==
  ASSUME NEW r \in JobRecord, NEW f \in Store,
         NEW then \in {"idle", "saveItems", "metadata", "release"},
         then \in {"metadata", "release"} => r.sub \in Subs,
         r.todo = {}, r.spawned = {}, r.dialing = {}, r.found = {}
  PROVE  Saving(r, f, then) \in JobRecord /\ Shape(Saving(r, f, then))
<1>1. Saving(r, f, then) \in JobRecord
  BY DEF Saving, JobRecord, Labels
<1>2. /\ Saving(r, f, then).pc = "snapshot" /\ Saving(r, f, then).file = f
      /\ Saving(r, f, then).then = then /\ Saving(r, f, then).sub = r.sub
      /\ Saving(r, f, then).todo = {} /\ Saving(r, f, then).spawned = {}
      /\ Saving(r, f, then).dialing = {} /\ Saving(r, f, then).found = {}
  BY DEF Saving, JobRecord
<1>3. Shape(Saving(r, f, then))
  BY <1>2 DEF Shape
<1> QED BY <1>1, <1>3

\* One job changes, to a record of the right shape.
LEMMA JobStep ==
  ASSUME JobsTypeOK, NEW j \in Jobs, NEW r, Becomes(j, r), r \in JobRecord, Shape(r)
  PROVE  JobsTypeOK'
BY DEF JobsTypeOK, Becomes

\* The operations on the nodes keep their types.
LEMMA NodeSteps ==
  ASSUME NodesTypeOK
  PROVE  /\ \A n \in Nodes, r \in NodeRecord : Insert(n, r) => NodesTypeOK'
         /\ \A n \in Nodes : Remove(n) \/ StartProbe(n) \/ ForgetProbe(n) \/ EndProbe(n)
              => NodesTypeOK'
         /\ \A n \in Nodes \cup {None} : SetSelected(n) => NodesTypeOK'
         /\ \A s \in Subs, w \in SUBSET Nodes : Replace(s, w) => NodesTypeOK'
<1> USE DEF NodesTypeOK
<1>1. \A n \in Nodes, r \in NodeRecord : Insert(n, r) => NodesTypeOK'
  BY DEF Insert, NodeTable
<1>2. \A n \in Nodes : Remove(n) => NodesTypeOK'
  BY DEF Remove, NodeTable
<1>3. \A n \in Nodes : StartProbe(n) \/ ForgetProbe(n) \/ EndProbe(n) => NodesTypeOK'
  BY DEF StartProbe, ForgetProbe, EndProbe
<1>4. \A n \in Nodes \cup {None} : SetSelected(n) => NodesTypeOK'
  BY DEF SetSelected
<1>5. \A s \in Subs, w \in SUBSET Nodes : Replace(s, w) => NodesTypeOK'
  BY DEF Replace, NodeTable, NodeRecord
<1> QED BY <1>1, <1>2, <1>3, <1>4, <1>5

\* The operations on the items keep their types.
LEMMA ItemSteps ==
  ASSUME ItemsTypeOK
  PROVE  /\ \A s \in Subs, e \in BOOLEAN : AddItem(s, e) => ItemsTypeOK'
         /\ \A s \in Live, e \in BOOLEAN : SetEnabled(s, e) => ItemsTypeOK'
         /\ \A s \in Subs : RemoveItem(s) \/ TakeSlot(s) \/ FreeSlot(s) => ItemsTypeOK'
         /\ \A s \in Subs, w \in SUBSET Nodes : Record(s, w) => ItemsTypeOK'
<1> USE DEF ItemsTypeOK
<1>1. \A s \in Subs, e \in BOOLEAN : AddItem(s, e) => ItemsTypeOK'
  BY DEF AddItem, ItemTable, Item
<1>2. \A s \in Live, e \in BOOLEAN : SetEnabled(s, e) => ItemsTypeOK'
  BY DEF SetEnabled, ItemTable, Item, Live
<1>3. \A s \in Subs : RemoveItem(s) \/ TakeSlot(s) \/ FreeSlot(s) => ItemsTypeOK'
  BY DEF RemoveItem, TakeSlot, FreeSlot, ItemTable
<1>4. \A s \in Subs, w \in SUBSET Nodes : Record(s, w) => ItemsTypeOK'
  <2> SUFFICES ASSUME NEW s \in Subs, NEW w \in SUBSET Nodes, Record(s, w)
               PROVE  items' \in ItemTable /\ refreshing' = refreshing /\ issued' = issued
    BY DEF Record
  <2>1. CASE s \notin Live
    BY <2>1 DEF Record
  <2>2. CASE s \in Live
    <3> DEFINE v == [items[s] EXCEPT !.listed = w, !.fetched = TRUE]
    <3>1. v \in Item
      BY <2>2 DEF Live, ItemTable, Item
    <3>2. items' = [items EXCEPT ![s] = v]
      BY <2>2 DEF Record
    <3> HIDE DEF v
    <3> QED BY <3>1, <3>2 DEF Record, ItemTable
  <2> QED BY <2>1, <2>2 DEF Record
<1> QED BY <1>1, <1>2, <1>3, <1>4

\* Going on to another step without a save or a probe.
LEMMA GoesShape ==
  ASSUME JobsTypeOK, NEW j \in Jobs, NEW l \in {"idle", "put", "clear", "choose", "release"},
         Goes(j, l), job[j].pc \notin {"batch", "rank", "snapshot", "write", "rename"},
         l = "put" => job[j].node \in Nodes /\ job[j].rec \in NodeRecord,
         l \in {"clear", "choose"} => job[j].node \in Nodes,
         l = "release" => job[j].sub \in Subs
  PROVE  JobsTypeOK'
<1>1. CASE l = "idle"
  BY <1>1, NoJobShape, JobStep DEF Goes
<1>2. CASE l # "idle"
  <2> DEFINE r == [job[j] EXCEPT !.pc = l]
  <2>1. job[j] \in JobRecord /\ Shape(job[j])
    BY DEF JobsTypeOK
  <2>2. r \in JobRecord /\ Shape(r)
    BY <1>2, <2>1 DEF JobRecord, Shape, Labels
  <2> QED BY <1>2, <2>2, JobStep DEF Goes
<1> QED BY <1>1, <1>2

\* A step with a save, the three steps every request that writes ends with.
LEMMA SaveTyped ==
  ASSUME CatalogTypeOK, NEW j \in Jobs, Snapshot(j) \/ Write(j) \/ Rename(j)
  PROVE  CatalogTypeOK'
<1>1. job[j] \in JobRecord /\ Shape(job[j]) /\ JobsTypeOK /\ FilesTypeOK
  BY DEF CatalogTypeOK, JobsTypeOK
<1>2. NodesTypeOK' /\ ItemsTypeOK'
  BY Frame DEF Snapshot, Write, Rename
<1>3. ASSUME NEW l, Saved(j, l), job[j].pc \in {"write", "rename"},
             l = job[j].then \/ l = OnError(job[j].then)
      PROVE  JobsTypeOK'
  <2>1. l \in {"idle", "saveItems", "metadata", "release"}
    BY <1>1, <1>3 DEF Shape, OnError
  <2>2. CASE l = "idle"
    BY <1>1, <1>3, <2>2, NoJobShape, JobStep DEF Saved
  <2>3. CASE l # "idle"
    <3> DEFINE r == [job[j] EXCEPT !.pc = l, !.file = None, !.doc = None, !.then = "idle"]
    <3>1. r \in JobRecord
      BY <1>1, <2>1 DEF JobRecord, Labels
    <3>2. Shape(r)
      BY <1>1, <1>3, <2>1, <2>3 DEF Shape, JobRecord, OnError
    <3> QED BY <1>1, <1>3, <2>3, <3>1, <3>2, JobStep DEF Saved
  <2> QED BY <2>2, <2>3
<1>4. CASE Snapshot(j)
  <2> DEFINE d == IF job[j].file = "nodes" THEN nodes ELSE items
             r == [job[j] EXCEPT !.pc = "write", !.doc = d]
  <2>1. d \in Document(job[j].file)
    BY DEF CatalogTypeOK, NodesTypeOK, ItemsTypeOK, Document
  <2> HIDE DEF d
  <2>0. d \in NodeTable \cup ItemTable
    BY <2>1 DEF Document
  <2>2. r \in JobRecord
    BY <1>1, <2>0 DEF JobRecord, Labels
  <2> USE DEF d
  <2>3. Shape(r)
    BY <1>1, <1>4, <2>1 DEF Snapshot, At, Shape, JobRecord
  <2> QED BY <1>1, <1>2, <1>4, <2>2, <2>3, JobStep, Frame DEF Snapshot, CatalogTypeOK
<1>5. CASE Write(j)
  <2>1. job[j].pc = "write" /\ job[j].file \in Store /\ job[j].doc \in Document(job[j].file)
    BY <1>1, <1>5 DEF Write, At, Shape
  <2>2. CASE tmps' = [tmps EXCEPT ![job[j].file] = job[j].doc]
             /\ Becomes(j, [job[j] EXCEPT !.pc = "rename", !.doc = None])
    <3> DEFINE r == [job[j] EXCEPT !.pc = "rename", !.doc = None]
    <3>1. r \in JobRecord /\ Shape(r)
      <4>1. r \in JobRecord
        BY <1>1, <2>1, CatalogAssumption DEF JobRecord, Labels
      <4>2. Shape(r)
        BY <1>1, <2>1 DEF JobRecord, Shape
      <4> QED BY <4>1, <4>2
    <3>2. FilesTypeOK'
      BY <1>1, <1>5, <2>1, <2>2 DEF Write, FilesTypeOK, Store, Document
    <3> QED BY <1>1, <1>2, <2>2, <3>1, <3>2, JobStep DEF CatalogTypeOK
  <2>3. CASE Saved(j, OnError(job[j].then)) /\ UNCHANGED tmps
    BY <1>1, <1>2, <1>3, <1>5, <2>1, <2>3, Frame DEF Write, fileVars, CatalogTypeOK
  <2> QED BY <1>5, <2>2, <2>3 DEF Write
<1>6. CASE Rename(j)
  <2> DEFINE f == job[j].file
  <2>1. job[j].pc = "rename" /\ f \in Store
    BY <1>1, <1>6 DEF Rename, At, Shape
  <2>2. CASE /\ tmps[f] # None /\ files' = [files EXCEPT ![f] = tmps[f]]
             /\ tmps' = [tmps EXCEPT ![f] = None] /\ Saved(j, job[j].then)
    <3>1. FilesTypeOK'
      BY <1>1, <2>1, <2>2 DEF FilesTypeOK, Store
    <3> QED BY <1>2, <1>3, <2>1, <2>2, <3>1 DEF CatalogTypeOK
  <2>3. CASE Saved(j, OnError(job[j].then)) /\ UNCHANGED fileVars
    BY <1>2, <1>3, <2>1, <2>3, Frame DEF CatalogTypeOK
  <2> QED BY <1>6, <2>2, <2>3 DEF Rename
<1> QED BY <1>4, <1>5, <1>6

\* Requests on nodes.
LEMMA NodeRequestsTyped ==
  ASSUME CatalogTypeOK, NEW j \in Jobs,
         \/ AddNode(j) \/ UpdateNode(j) \/ Check(j) \/ Put(j) \/ DeleteNode(j)
         \/ Deselect(j) \/ Clear(j) \/ SelectNode(j) \/ Select(j) \/ Choose(j)
  PROVE  CatalogTypeOK'
<1>1. job[j] \in JobRecord /\ Shape(job[j]) /\ JobsTypeOK /\ NodesTypeOK
  BY DEF CatalogTypeOK, JobsTypeOK
<1>2. ItemsTypeOK' /\ FilesTypeOK'
  BY Frame DEF AddNode, UpdateNode, Check, Put, DeleteNode, Deselect, Clear, SelectNode,
               Select, Choose
<1>3. Becomes(j, Saving(NoJob, "nodes", "idle")) => JobsTypeOK'
  <2> DEFINE r == Saving(NoJob, "nodes", "idle")
  <2>1. r \in JobRecord /\ Shape(r)
    BY NoJobShape, SavingShape DEF Store, NoJob
  <2> QED BY <1>1, <2>1, JobStep
<1>4. CASE AddNode(j)
  <2>1. NodesTypeOK'
    BY <1>1, <1>4, NodeSteps, CatalogAssumption DEF AddNode, NodeRecord
  <2> QED BY <1>2, <1>3, <1>4, <2>1 DEF AddNode, CatalogTypeOK
<1>5. CASE UpdateNode(j)
  <2>1. PICK n \in Known : Becomes(j, [NoJob EXCEPT !.pc = "check", !.node = n,
                                         !.rec = [nodes[n] EXCEPT !.enabled = ~@]])
    BY <1>5 DEF UpdateNode
  <2>2. n \in Nodes /\ [nodes[n] EXCEPT !.enabled = ~@] \in NodeRecord
    BY <1>1, Records DEF NodeRecord
  <2> DEFINE rec == [nodes[n] EXCEPT !.enabled = ~@]
             r == [NoJob EXCEPT !.pc = "check", !.node = n, !.rec = rec]
  <2> HIDE DEF rec
  <2>3. r \in JobRecord /\ Shape(r)
    BY <2>2 DEF rec, NoJob, JobRecord, Shape, Labels
  <2>4. JobsTypeOK'
    BY <1>1, <2>1, <2>3, JobStep DEF rec
  <2> QED BY <1>2, <1>5, <2>4, Frame DEF UpdateNode, CatalogTypeOK
<1>6. CASE Check(j)
  <2>1. JobsTypeOK'
    BY <1>1, <1>6, GoesShape DEF Check, At, Shape
  <2> QED BY <1>2, <1>6, <2>1, Frame DEF Check, CatalogTypeOK
<1>7. CASE Put(j)
  <2>1. NodesTypeOK'
    BY <1>1, <1>7, NodeSteps DEF Put, At, Shape
  <2> QED BY <1>2, <1>3, <1>7, <2>1 DEF Put, CatalogTypeOK
<1>8. CASE DeleteNode(j)
  <2>1. PICK n \in Known : Remove(n) /\ Becomes(j, [NoJob EXCEPT !.pc = "deselect", !.node = n])
    BY <1>8 DEF DeleteNode
  <2> DEFINE r == [NoJob EXCEPT !.pc = "deselect", !.node = n]
  <2>2. n \in Nodes
    BY DEF Known
  <2>3. r \in JobRecord /\ Shape(r)
    BY <2>2 DEF NoJob, JobRecord, Shape, Labels
  <2>4. JobsTypeOK' /\ NodesTypeOK'
    BY <1>1, <2>1, <2>2, <2>3, JobStep, NodeSteps
  <2> QED BY <1>2, <2>4 DEF CatalogTypeOK
<1>9. CASE Deselect(j)
  <2>1. JobsTypeOK'
    BY <1>1, <1>3, <1>9, GoesShape DEF Deselect, At, Shape
  <2> QED BY <1>2, <1>9, <2>1, Frame DEF Deselect, CatalogTypeOK
<1>10. CASE Clear(j)
  <2>1. NodesTypeOK'
    BY <1>1, <1>10, NodeSteps DEF Clear
  <2> QED BY <1>2, <1>3, <1>10, <2>1 DEF Clear, CatalogTypeOK
<1>11. CASE SelectNode(j)
  <2>1. PICK n \in Nodes : Becomes(j, [NoJob EXCEPT !.pc = "select", !.node = n])
    BY <1>11 DEF SelectNode
  <2> DEFINE r == [NoJob EXCEPT !.pc = "select", !.node = n]
  <2>2. r \in JobRecord /\ Shape(r)
    BY DEF NoJob, JobRecord, Shape, Labels
  <2>3. JobsTypeOK'
    BY <1>1, <2>1, <2>2, JobStep
  <2> QED BY <1>2, <1>11, <2>3, Frame DEF SelectNode, CatalogTypeOK
<1>12. CASE Select(j)
  <2>1. JobsTypeOK'
    BY <1>1, <1>12, GoesShape DEF Select, At, Shape
  <2> QED BY <1>2, <1>12, <2>1, Frame DEF Select, CatalogTypeOK
<1>13. CASE Choose(j)
  <2>1. JobsTypeOK'
    BY <1>1, <1>13, GoesShape DEF Choose, At, Shape
  <2>2. NodesTypeOK'
    BY <1>1, <1>13, NodeSteps DEF Choose, At, Shape
  <2> QED BY <1>2, <2>1, <2>2 DEF CatalogTypeOK
<1> QED BY <1>4, <1>5, <1>6, <1>7, <1>8, <1>9, <1>10, <1>11, <1>12, <1>13

\* Probes.
LEMMA ProbesTyped ==
  ASSUME CatalogTypeOK, NEW j \in Jobs,
         \/ TestNode(j) \/ BatchTest(j) \/ SmartSelect(j) \/ Spawn(j) \/ Dial(j)
         \/ LookUp(j) \/ Probed(j) \/ BatchDone(j) \/ Pick(j)
  PROVE  CatalogTypeOK'
<1>1. job[j] \in JobRecord /\ Shape(job[j]) /\ JobsTypeOK /\ NodesTypeOK
  BY DEF CatalogTypeOK, JobsTypeOK
<1>2. ItemsTypeOK' /\ FilesTypeOK'
  BY Frame DEF TestNode, BatchTest, SmartSelect, Spawn, Dial, LookUp, Probed, BatchDone, Pick
<1>3. ASSUME NEW w \in SUBSET Nodes, NEW l \in {"batch", "rank"},
             Becomes(j, [NoJob EXCEPT !.pc = l, !.todo = w])
      PROVE  JobsTypeOK'
  <2> DEFINE r == [NoJob EXCEPT !.pc = l, !.todo = w]
  <2>1. r \in JobRecord /\ Shape(r)
    BY DEF NoJob, JobRecord, Shape, Labels
  <2> QED BY <1>1, <1>3, <2>1, JobStep
<1>4. CASE TestNode(j)
  <2>1. JobsTypeOK'
    BY <1>3, <1>4 DEF TestNode
  <2> QED BY <1>2, <1>4, <2>1, Frame DEF TestNode, CatalogTypeOK
<1>5. CASE BatchTest(j)
  <2>1. Enabled \in SUBSET Nodes
    BY DEF Enabled, Known
  <2>2. JobsTypeOK'
    BY <1>3, <1>5, <2>1 DEF BatchTest
  <2> QED BY <1>2, <1>5, <2>2, Frame DEF BatchTest, CatalogTypeOK
<1>6. CASE SmartSelect(j)
  <2>1. PICK w \in SUBSET (Enabled \cap measured) :
               Becomes(j, [NoJob EXCEPT !.pc = "rank", !.todo = w])
    BY <1>6 DEF SmartSelect
  <2>2. w \in SUBSET Nodes
    BY DEF Enabled, Known
  <2>3. JobsTypeOK'
    BY <1>3, <2>1, <2>2
  <2> QED BY <1>2, <1>6, <2>3, Frame DEF SmartSelect, CatalogTypeOK
<1>7. CASE Spawn(j)
  <2>1. PICK n \in job[j].todo :
               Becomes(j, [job[j] EXCEPT !.todo = @ \ {n}, !.spawned = @ \cup {n}])
    BY <1>7 DEF Spawn
  <2> DEFINE r == [job[j] EXCEPT !.todo = @ \ {n}, !.spawned = @ \cup {n}]
  <2>2. r \in JobRecord
    BY <1>1 DEF JobRecord
  <2>3. Shape(r)
    BY <1>1, <1>7 DEF Spawn, Shape, JobRecord
  <2>4. JobsTypeOK'
    BY <1>1, <2>1, <2>2, <2>3, JobStep
  <2> QED BY <1>2, <1>7, <2>4, Frame DEF Spawn, CatalogTypeOK
<1>8. CASE Dial(j)
  <2>1. PICK n \in job[j].spawned :
               IF CanProbe(n)
               THEN /\ StartProbe(n)
                    /\ Becomes(j, [job[j] EXCEPT !.spawned = @ \ {n}, !.dialing = @ \cup {n}])
               ELSE Becomes(j, PermitBack(job[j], n)) /\ UNCHANGED nodeVars
    BY <1>8 DEF Dial
  <2>2. n \in Nodes /\ job[j].pc \in {"batch", "rank"}
    BY <1>1 DEF JobRecord, Shape
  <2> DEFINE r == [job[j] EXCEPT !.spawned = @ \ {n}, !.dialing = @ \cup {n}]
             q == [job[j] EXCEPT !.spawned = @ \ {n}]
  <2>3. r \in JobRecord /\ Shape(r)
    BY <1>1, <2>2 DEF JobRecord, Shape
  <2>4. q \in JobRecord /\ Shape(q)
    BY <1>1, <2>2 DEF JobRecord, Shape
  <2>5. JobsTypeOK'
    BY <1>1, <2>1, <2>3, <2>4, JobStep DEF PermitBack
  <2>6. NodesTypeOK'
    BY <1>1, <2>1, <2>2, NodeSteps, Frame
  <2> QED BY <1>2, <2>5, <2>6 DEF CatalogTypeOK
<1>9. CASE LookUp(j) \/ Probed(j)
  <2>1. PICK n \in job[j].dialing :
          \/ Becomes(j, [job[j] EXCEPT !.found = @ \cup {n}]) /\ UNCHANGED nodeVars
          \/ ForgetProbe(n) /\ Becomes(j, [job[j] EXCEPT !.dialing = @ \ {n}])
             /\ n \notin job[j].found
          \/ EndProbe(n)
             /\ Becomes(j, [job[j] EXCEPT !.dialing = @ \ {n}, !.found = @ \ {n}])
    BY <1>1, <1>9 DEF LookUp, Probed, Shape
  <2>2. n \in Nodes /\ job[j].pc \in {"batch", "rank"}
    BY <1>1 DEF JobRecord, Shape
  <2> DEFINE r == [job[j] EXCEPT !.dialing = @ \ {n}, !.found = @ \ {n}]
             p == [job[j] EXCEPT !.dialing = @ \ {n}]
             q == [job[j] EXCEPT !.found = @ \cup {n}]
  <2>3. r \in JobRecord /\ Shape(r)
    BY <1>1, <2>2 DEF JobRecord, Shape
  <2>4. n \notin job[j].found => p \in JobRecord /\ Shape(p)
    BY <1>1, <2>2 DEF JobRecord, Shape
  <2>5. q \in JobRecord /\ Shape(q)
    BY <1>1, <2>1, <2>2 DEF JobRecord, Shape
  <2>6. JobsTypeOK'
    BY <1>1, <2>1, <2>3, <2>4, <2>5, JobStep
  <2>7. NodesTypeOK'
    BY <1>1, <2>1, <2>2, NodeSteps, Frame
  <2> QED BY <1>2, <1>9, <2>6, <2>7 DEF LookUp, Probed, CatalogTypeOK
<1>10. CASE BatchDone(j)
  <2> DEFINE r == [job[j] EXCEPT !.pc = "pick"]
  <2>1. r \in JobRecord /\ Shape(r)
    BY <1>1, <1>10 DEF BatchDone, JobRecord, Shape, Labels
  <2>2. JobsTypeOK'
    BY <1>1, <1>10, <2>1, NoJobShape, JobStep DEF BatchDone, Goes
  <2> QED BY <1>2, <1>10, <2>2, Frame DEF BatchDone, CatalogTypeOK
<1>11. CASE Pick(j)
  <2>1. ASSUME NEW n \in Known, Becomes(j, [NoJob EXCEPT !.pc = "select", !.node = n])
        PROVE  JobsTypeOK'
    <3> DEFINE r == [NoJob EXCEPT !.pc = "select", !.node = n]
    <3>1. n \in Nodes
      BY DEF Known
    <3>2. r \in JobRecord /\ Shape(r)
      BY <3>1 DEF NoJob, JobRecord, Shape, Labels
    <3> QED BY <1>1, <2>1, <3>2, JobStep
  <2>2. JobsTypeOK'
    BY <1>1, <1>11, <2>1, GoesShape DEF Pick, At
  <2> QED BY <1>2, <1>11, <2>2, Frame DEF Pick, CatalogTypeOK
<1> QED BY <1>4, <1>5, <1>6, <1>7, <1>8, <1>9, <1>10, <1>11

\* Requests on subscriptions, and the refresh.
LEMMA SubRequestsTyped ==
  ASSUME CatalogTypeOK, NEW j \in Jobs,
         \/ AddSub(j) \/ UpdateSub(j) \/ DeleteSub(j) \/ Disown(j) \/ SaveItems(j)
         \/ Refresh(j) \/ RefreshDue(j) \/ Claim(j) \/ AllRefreshed(j) \/ FetchFails(j)
         \/ Fetched(j) \/ Metadata(j) \/ Release(j)
  PROVE  CatalogTypeOK'
<1>1. job[j] \in JobRecord /\ Shape(job[j]) /\ JobsTypeOK /\ NodesTypeOK /\ ItemsTypeOK
  BY DEF CatalogTypeOK, JobsTypeOK
<1>2. FilesTypeOK'
  BY Frame DEF AddSub, UpdateSub, DeleteSub, Disown, SaveItems, Refresh, RefreshDue, Claim,
               AllRefreshed, FetchFails, Fetched, Metadata, Release
<1>3. Becomes(j, Saving(NoJob, "subscriptions", "idle")) => JobsTypeOK'
  <2> DEFINE r == Saving(NoJob, "subscriptions", "idle")
  <2>1. r \in JobRecord /\ Shape(r)
    BY NoJobShape, SavingShape DEF Store, NoJob
  <2> QED BY <1>1, <2>1, JobStep
<1>4. ASSUME NEW due \in SUBSET Subs,
             Becomes(j, [NoJob EXCEPT !.pc = "claim", !.due = due])
      PROVE  JobsTypeOK'
  <2> DEFINE r == [NoJob EXCEPT !.pc = "claim", !.due = due]
  <2>1. r \in JobRecord /\ Shape(r)
    BY DEF NoJob, JobRecord, Shape, Labels
  <2> QED BY <1>1, <1>4, <2>1, JobStep
<1>5. ASSUME NEW g \in SUBSET Nodes, NEW f \in Store, NEW then \in {"saveItems", "metadata", "release"},
             job[j].pc \in {"disown", "fetch", "metadata"},
             Becomes(j, Saving([job[j] EXCEPT !.got = g], f, then))
      PROVE  JobsTypeOK'
  <2> DEFINE q == [job[j] EXCEPT !.got = g]
             r == Saving(q, f, then)
  <2>1. /\ q \in JobRecord /\ q.sub \in Subs
        /\ q.todo = {} /\ q.spawned = {} /\ q.dialing = {} /\ q.found = {}
    BY <1>1, <1>5 DEF JobRecord, Shape
  <2> HIDE DEF q
  <2>2. r \in JobRecord /\ Shape(r)
    BY <2>1, SavingShape
  <2> QED BY <1>1, <1>5, <2>2, JobStep DEF q
<1>6. CASE AddSub(j)
  <2>1. ItemsTypeOK'
    BY <1>1, <1>6, ItemSteps DEF AddSub
  <2> QED BY <1>2, <1>3, <1>6, <2>1, Frame DEF AddSub, CatalogTypeOK
<1>7. CASE UpdateSub(j)
  <2>1. ItemsTypeOK'
    BY <1>1, <1>7, ItemSteps DEF UpdateSub
  <2> QED BY <1>2, <1>3, <1>7, <2>1, Frame DEF UpdateSub, CatalogTypeOK
<1>8. CASE DeleteSub(j)
  <2>1. PICK s \in Live : RemoveItem(s) /\ Becomes(j, Removing(s))
    BY <1>8 DEF DeleteSub
  <2>2. s \in Subs
    BY DEF Live
  <2> DEFINE r == Removing(s)
  <2>3. r \in JobRecord /\ Shape(r)
    BY <2>2 DEF Removing, NoJob, JobRecord, Shape, Labels
  <2>4. JobsTypeOK' /\ ItemsTypeOK'
    BY <1>1, <2>1, <2>2, <2>3, JobStep, ItemSteps
  <2> QED BY <1>2, <1>8, <2>4, Frame DEF DeleteSub, CatalogTypeOK
<1>9. CASE Disown(j)
  <2>1. job[j].pc = "disown" /\ job[j].sub \in Subs /\ job[j].got \in SUBSET Nodes
    BY <1>1, <1>9 DEF Disown, At, Shape, JobRecord
  <2>2. [job[j] EXCEPT !.got = job[j].got] = job[j]
    BY <1>1 DEF JobRecord
  <2>3. JobsTypeOK'
    BY <1>5, <1>9, <2>1, <2>2 DEF Disown, Store
  <2>4. NodesTypeOK'
    BY <1>1, <1>9, <2>1, NodeSteps DEF Disown
  <2> QED BY <1>2, <1>9, <2>3, <2>4, Frame DEF Disown, CatalogTypeOK
<1>10. CASE SaveItems(j)
  BY <1>2, <1>3, <1>10, Frame DEF SaveItems, CatalogTypeOK
<1>11. CASE Refresh(j)
  <2>1. JobsTypeOK'
    BY <1>4, <1>11 DEF Refresh
  <2> QED BY <1>2, <1>11, <2>1, Frame DEF Refresh, CatalogTypeOK
<1>12. CASE RefreshDue(j)
  <2>1. DueLists \subseteq SUBSET Subs
    BY DEF DueLists, Live
  <2>2. JobsTypeOK'
    BY <1>4, <1>12, <2>1 DEF RefreshDue
  <2> QED BY <1>2, <1>12, <2>2, Frame DEF RefreshDue, CatalogTypeOK
<1>13. CASE Claim(j)
  <2>1. PICK s \in job[j].due :
               IF CanRefresh(s)
               THEN /\ TakeSlot(s)
                    /\ Becomes(j, [job[j] EXCEPT !.due = @ \ {s}, !.sub = s,
                                     !.pc = IF s \in Live THEN "fetch" ELSE "release"])
               ELSE Becomes(j, [job[j] EXCEPT !.due = @ \ {s}]) /\ UNCHANGED itemVars
    BY <1>13 DEF Claim
  <2>2. s \in Subs /\ job[j].pc = "claim"
    BY <1>1, <1>13 DEF Claim, At, JobRecord
  <2> DEFINE r(l) == [job[j] EXCEPT !.due = @ \ {s}, !.sub = s, !.pc = l]
             q == [job[j] EXCEPT !.due = @ \ {s}]
  <2>3. ASSUME NEW l \in {"fetch", "release"}
        PROVE  r(l) \in JobRecord /\ Shape(r(l))
    <3>1. r(l) \in JobRecord
      BY <1>1, <2>2 DEF JobRecord, Labels
    <3>2. Shape(r(l))
      BY <1>1, <2>2 DEF JobRecord, Shape
    <3> QED BY <3>1, <3>2
  <2>4. q \in JobRecord /\ Shape(q)
    BY <1>1, <2>2 DEF JobRecord, Shape
  <2> DEFINE l == IF s \in Live THEN "fetch" ELSE "release"
  <2>5. r(l) \in JobRecord /\ Shape(r(l))
    BY <2>3
  <2>6. JobsTypeOK'
    BY <1>1, <2>1, <2>4, <2>5, JobStep
  <2>7. ItemsTypeOK'
    BY <1>1, <2>1, <2>2, ItemSteps, Frame
  <2> QED BY <1>2, <1>13, <2>6, <2>7, Frame DEF Claim, CatalogTypeOK
<1>14. CASE AllRefreshed(j)
  <2>1. JobsTypeOK'
    BY <1>1, <1>14, GoesShape DEF AllRefreshed, At
  <2> QED BY <1>2, <1>14, <2>1, Frame DEF AllRefreshed, CatalogTypeOK
<1>15. CASE FetchFails(j)
  <2>1. JobsTypeOK'
    BY <1>1, <1>15, GoesShape DEF FetchFails, At, Shape
  <2> QED BY <1>2, <1>15, <2>1, Frame DEF FetchFails, CatalogTypeOK
<1>16. CASE Fetched(j)
  <2>1. PICK w \in Feeds : /\ Replace(job[j].sub, w)
                           /\ Becomes(j, Saving([job[j] EXCEPT !.got = w], "nodes", "metadata"))
    BY <1>16 DEF Fetched
  <2>2. job[j].pc = "fetch" /\ job[j].sub \in Subs /\ w \in SUBSET Nodes
    BY <1>1, <1>16, CatalogAssumption DEF Fetched, At, Shape
  <2>3. JobsTypeOK'
    BY <1>5, <2>1, <2>2 DEF Store
  <2>4. NodesTypeOK'
    BY <1>1, <2>1, <2>2, NodeSteps
  <2> QED BY <1>2, <1>16, <2>3, <2>4, Frame DEF Fetched, CatalogTypeOK
<1>17. CASE Metadata(j)
  <2>1. job[j].pc = "metadata" /\ job[j].sub \in Subs /\ job[j].got \in SUBSET Nodes
    BY <1>1, <1>17 DEF Metadata, At, Shape, JobRecord
  <2>2. [job[j] EXCEPT !.got = job[j].got] = job[j]
    BY <1>1 DEF JobRecord
  <2>3. Becomes(j, Saving([job[j] EXCEPT !.got = job[j].got], "subscriptions", "release"))
    BY <1>17, <2>2 DEF Metadata
  <2>5. JobsTypeOK'
    BY <1>5, <2>1, <2>3 DEF Store
  <2>4. ItemsTypeOK'
    BY <1>1, <1>17, <2>1, ItemSteps DEF Metadata
  <2> QED BY <1>2, <1>17, <2>4, <2>5, Frame DEF Metadata, CatalogTypeOK
<1>18. CASE Release(j)
  <2>1. job[j].pc = "release" /\ job[j].sub \in Subs
    BY <1>1, <1>18 DEF Release, At, Shape
  <2> DEFINE r == [job[j] EXCEPT !.pc = "claim", !.sub = None, !.got = {}]
  <2>2. r \in JobRecord /\ Shape(r)
    <3>1. job[j] \in JobRecord /\ Shape(job[j])
      BY <1>1
    <3>2. r \in JobRecord
      BY <3>1 DEF JobRecord, Labels
    <3>3. /\ r.pc = "claim" /\ r.then = job[j].then /\ r.todo = job[j].todo
          /\ r.spawned = job[j].spawned /\ r.dialing = job[j].dialing
          /\ r.found = job[j].found
      BY <3>1 DEF JobRecord
    <3>4. /\ job[j].then = "idle" /\ job[j].todo = {} /\ job[j].spawned = {}
          /\ job[j].dialing = {} /\ job[j].found = {}
      BY <2>1, <3>1 DEF Shape
    <3> HIDE DEF r
    <3>5. Shape(r)
      BY <3>3, <3>4 DEF Shape
    <3> QED  BY <3>2, <3>5
  <2>3. Becomes(j, r) /\ FreeSlot(job[j].sub)
    BY <1>18 DEF Release
  <2> HIDE DEF r
  <2>4. JobsTypeOK'
    BY <1>1, <2>2, <2>3, JobStep
  <2>5. ItemsTypeOK'
    BY <1>1, <2>1, <2>3, ItemSteps
  <2> QED BY <1>2, <1>18, <2>4, <2>5, Frame DEF Release, CatalogTypeOK
<1> QED BY <1>6, <1>7, <1>8, <1>9, <1>10, <1>11, <1>12, <1>13, <1>14, <1>15, <1>16, <1>17, <1>18

LEMMA InitTyped == Init => CatalogTypeOK
<1> SUFFICES ASSUME Init PROVE CatalogTypeOK
  OBVIOUS
<1>1. JobsTypeOK
  BY NoJobShape DEF Init, JobsTypeOK
<1>2. FilesTypeOK
  BY DEF Init, FilesTypeOK, Store, NodeTable, ItemTable
<1>3. NodesTypeOK /\ ItemsTypeOK
  BY <1>2 DEF Init, NodesLoaded, ItemsLoaded, NodesTypeOK, ItemsTypeOK, FilesTypeOK
<1> QED BY <1>1, <1>2, <1>3 DEF CatalogTypeOK

LEMMA NextTyped == CatalogTypeOK /\ [Next]_vars => CatalogTypeOK'
<1> SUFFICES ASSUME CatalogTypeOK, [Next]_vars PROVE CatalogTypeOK'
  OBVIOUS
<1>1. ASSUME NEW j \in Jobs, Arrive(j) \/ Continue(j) PROVE CatalogTypeOK'
  BY <1>1, SaveTyped, NodeRequestsTyped, ProbesTyped, SubRequestsTyped DEF Arrive, Continue
<1>2. CASE Crash
  <2>1. JobsTypeOK'
    BY <1>2, NoJobShape DEF Crash, JobsTypeOK
  <2>2. NodesTypeOK' /\ ItemsTypeOK' /\ FilesTypeOK'
    BY <1>2, Frame DEF Crash, CatalogTypeOK, FilesTypeOK, NodesTypeOK, ItemsTypeOK
  <2> QED BY <2>1, <2>2 DEF CatalogTypeOK
<1>3. CASE UNCHANGED vars
  BY <1>3, Frame DEF vars, CatalogTypeOK
<1> QED BY <1>1, <1>2, <1>3 DEF Next

\* Every reachable state is well typed, and the locals of every job fit its step,
\* with any number of jobs, crashes and failing writes (nodes/manager.rs,
\* subscription/manager.rs).
THEOREM CatalogTypes == Spec => []CatalogTypeOK
BY InitTyped, NextTyped, PTL DEF Spec

-----------------------------------------------------------------------------
(* Slots.                                                                   *)

\* A step of a job that changes neither what it probes nor what it refreshes.
LEMMA SlotsKept ==
  ASSUME CatalogTypeOK, SlotsAreHeld, NEW j \in Jobs, NEW r, Becomes(j, r),
         UNCHANGED <<testing, refreshing>>,
         r.dialing = job[j].dialing, Refreshes(r) <=> Refreshes(job[j]),
         Refreshes(r) => r.sub = job[j].sub
  PROVE  SlotsAreHeld'
<1>1. /\ job'[j] = r
      /\ \A i \in Jobs : i # j => job'[i] = job[i]
  BY DEF Becomes, CatalogTypeOK, JobsTypeOK
<1>2. \A i \in Jobs : /\ job'[i].dialing = job[i].dialing
                      /\ Refreshes(job'[i]) <=> Refreshes(job[i])
                      /\ Refreshes(job'[i]) => job'[i].sub = job[i].sub
  BY <1>1
<1> QED BY <1>2 DEF SlotsAreHeld

\* A step without slots: before it and after it the job holds none.
LEMMA SlotsUnused ==
  ASSUME CatalogTypeOK, SlotsAreHeld, NEW j \in Jobs, NEW r, Becomes(j, r),
         UNCHANGED <<testing, refreshing>>,
         r.dialing = {}, job[j].dialing = {}, ~Refreshes(r), ~Refreshes(job[j])
  PROVE  SlotsAreHeld'
BY SlotsKept

LEMMA NodeRequestsKeepSlots ==
  ASSUME CatalogTypeOK, SlotsAreHeld, NEW j \in Jobs,
         \/ AddNode(j) \/ UpdateNode(j) \/ Check(j) \/ Put(j) \/ DeleteNode(j)
         \/ Deselect(j) \/ Clear(j) \/ SelectNode(j) \/ Select(j) \/ Choose(j)
  PROVE  SlotsAreHeld'
<1>1. UNCHANGED <<testing, refreshing>>
  BY DEF AddNode, UpdateNode, Check, Put, DeleteNode, Deselect, Clear, SelectNode, Select,
         Choose, Insert, Remove, SetSelected, nodeVars, itemVars
<1>2. /\ job[j].pc \in {"idle", "check", "put", "deselect", "clear", "select", "choose"}
      /\ job[j].dialing = {} /\ ~Refreshes(job[j])
  BY DEF AddNode, UpdateNode, Check, Put, DeleteNode, Deselect, Clear, SelectNode, Select,
         Choose, Arrives, At, CatalogTypeOK, JobsTypeOK, Shape, Refreshes
<1> DEFINE Bare(r) == /\ Becomes(j, r) /\ r.dialing = {}
                      /\ \/ r.pc \in {"idle", "check", "put", "deselect", "clear", "select", "choose"}
                         \/ r.pc = "snapshot" /\ r.then = "idle"
<1>3. PICK r : Bare(r)
  <2>1. Becomes(j, Saving(NoJob, "nodes", "idle")) => Bare(Saving(NoJob, "nodes", "idle"))
    BY DEF Saving, NoJob
  <2>2. ASSUME NEW l \in {"idle", "put", "clear", "choose"}, Goes(j, l)
        PROVE  \E r : Bare(r)
    <3>1. job[j] \in JobRecord
      BY DEF CatalogTypeOK, JobsTypeOK
    <3>2. CASE l = "idle"
      BY <2>2, <3>2 DEF Goes, NoJob
    <3>3. CASE l # "idle"
      <4> DEFINE r == [job[j] EXCEPT !.pc = l]
      <4>1. r.pc = l /\ r.dialing = {} /\ Becomes(j, r)
        BY <1>2, <2>2, <3>1, <3>3 DEF Goes, JobRecord
      <4>2. Bare(r)
        BY <4>1
      <4> QED BY <4>2
    <3> QED BY <3>2, <3>3
  <2>3. CASE UpdateNode(j)
    <3>1. PICK n \in Known : Becomes(j, [NoJob EXCEPT !.pc = "check", !.node = n,
                                           !.rec = [nodes[n] EXCEPT !.enabled = ~@]])
      BY <2>3 DEF UpdateNode
    <3> DEFINE rec == [nodes[n] EXCEPT !.enabled = ~@]
    <3> HIDE DEF rec
    <3>2. Becomes(j, [NoJob EXCEPT !.pc = "check", !.node = n, !.rec = rec])
      BY <3>1 DEF rec
    <3>3. Bare([NoJob EXCEPT !.pc = "check", !.node = n, !.rec = rec])
      BY <3>2 DEF NoJob
    <3> QED BY <3>3
  <2>4. CASE DeleteNode(j) \/ SelectNode(j)
    <3>1. PICK n \in Nodes, l \in {"deselect", "select"} : Becomes(j, [NoJob EXCEPT !.pc = l, !.node = n])
      BY <2>4 DEF DeleteNode, SelectNode, Known
    <3>2. Bare([NoJob EXCEPT !.pc = l, !.node = n])
      BY <3>1 DEF NoJob
    <3> QED BY <3>2
  <2>5. CASE AddNode(j) \/ Put(j) \/ Clear(j)
    BY <2>1, <2>5 DEF AddNode, Put, Clear
  <2>6. CASE Check(j) \/ Deselect(j) \/ Select(j) \/ Choose(j)
    BY <2>1, <2>2, <2>6 DEF Check, Deselect, Select, Choose
  <2> QED BY <2>3, <2>4, <2>5, <2>6
<1>4. ~Refreshes(r)
  BY <1>3 DEF Refreshes
<1> QED BY <1>1, <1>2, <1>3, <1>4, SlotsUnused

LEMMA SavesKeepSlots ==
  ASSUME CatalogTypeOK, SlotsAreHeld, NEW j \in Jobs, Snapshot(j) \/ Write(j) \/ Rename(j)
  PROVE  SlotsAreHeld'
<1>1. job[j] \in JobRecord /\ Shape(job[j])
  BY DEF CatalogTypeOK, JobsTypeOK
<1>2. UNCHANGED <<testing, refreshing>>
  BY DEF Snapshot, Write, Rename, nodeVars, itemVars
<1>3. job[j].pc \in {"snapshot", "write", "rename"} /\ job[j].dialing = {}
  BY <1>1 DEF Snapshot, Write, Rename, At, Shape
<1>4. ASSUME NEW l, Saved(j, l), l = job[j].then \/ l = OnError(job[j].then)
      PROVE  SlotsAreHeld'
  <2>1. /\ job[j].then \in {"idle", "saveItems", "metadata", "release"}
        /\ l \in {"idle", "saveItems", "metadata", "release"}
        /\ l \in {"metadata", "release"} <=> job[j].then \in {"metadata", "release"}
    BY <1>1, <1>4 DEF Shape, OnError
  <2>2. CASE l = "idle"
    <3>1. Becomes(j, NoJob) /\ ~Refreshes(NoJob) /\ NoJob.dialing = {} /\ ~Refreshes(job[j])
      BY <1>3, <1>4, <2>1, <2>2 DEF Saved, NoJob, Refreshes
    <3> QED BY <1>2, <1>3, <3>1, SlotsUnused
  <2>3. CASE l # "idle"
    <3> DEFINE r == [job[j] EXCEPT !.pc = l, !.file = None, !.doc = None, !.then = "idle"]
    <3>1. Becomes(j, r)
      BY <1>4, <2>3 DEF Saved
    <3>2. r.pc = l /\ r.then = "idle" /\ r.sub = job[j].sub /\ r.dialing = job[j].dialing
      BY <1>1 DEF JobRecord
    <3>3. Refreshes(r) <=> Refreshes(job[j])
      BY <1>3, <2>1, <3>2 DEF Refreshes
    <3> HIDE DEF r
    <3> QED BY <1>2, <3>1, <3>2, <3>3, SlotsKept
  <2> QED BY <2>2, <2>3
<1>5. CASE Snapshot(j)
  <2> DEFINE d == IF job[j].file = "nodes" THEN nodes ELSE items
             r == [job[j] EXCEPT !.pc = "write", !.doc = d]
  <2>1. Becomes(j, r)
    BY <1>5 DEF Snapshot
  <2> HIDE DEF d
  <2>2. r.pc = "write" /\ r.then = job[j].then /\ r.sub = job[j].sub /\ r.dialing = job[j].dialing
    BY <1>1 DEF JobRecord
  <2>3. Refreshes(r) <=> Refreshes(job[j])
    BY <1>3, <2>2 DEF Refreshes
  <2> HIDE DEF r
  <2> QED BY <1>2, <2>1, <2>2, <2>3, SlotsKept
<1>6. CASE Write(j)
  <2>1. CASE Becomes(j, [job[j] EXCEPT !.pc = "rename", !.doc = None])
    <3> DEFINE r == [job[j] EXCEPT !.pc = "rename", !.doc = None]
    <3>1. r.pc = "rename" /\ r.then = job[j].then /\ r.sub = job[j].sub /\ r.dialing = job[j].dialing
      BY <1>1 DEF JobRecord
    <3>2. Refreshes(r) <=> Refreshes(job[j])
      BY <1>3, <3>1 DEF Refreshes
    <3> HIDE DEF r
    <3>3. Becomes(j, r)
      BY <2>1 DEF r
    <3> QED BY <1>2, <3>1, <3>2, <3>3, SlotsKept
  <2>2. CASE Saved(j, OnError(job[j].then))
    BY <1>4, <2>2
  <2> QED BY <1>6, <2>1, <2>2 DEF Write
<1>7. CASE Rename(j)
  BY <1>4, <1>7 DEF Rename
<1> QED BY <1>5, <1>6, <1>7

LEMMA ProbesKeepSlots ==
  ASSUME CatalogTypeOK, SlotsAreHeld, NEW j \in Jobs,
         \/ TestNode(j) \/ BatchTest(j) \/ SmartSelect(j) \/ Spawn(j) \/ Dial(j)
         \/ LookUp(j) \/ Probed(j) \/ BatchDone(j) \/ Pick(j)
  PROVE  SlotsAreHeld'
<1>1. job \in [Jobs -> JobRecord] /\ job[j] \in JobRecord /\ Shape(job[j])
  BY DEF CatalogTypeOK, JobsTypeOK
<1>2. UNCHANGED refreshing
  BY DEF TestNode, BatchTest, SmartSelect, Spawn, Dial, LookUp, Probed, BatchDone, Pick, itemVars
<1>3. ASSUME NEW w, NEW l \in {"batch", "rank"}, At(j, "idle"), UNCHANGED testing,
             Becomes(j, [NoJob EXCEPT !.pc = l, !.todo = w])
      PROVE  SlotsAreHeld'
  <2> DEFINE r == [NoJob EXCEPT !.pc = l, !.todo = w]
  <2>1. r.dialing = {} /\ ~Refreshes(r) /\ ~Refreshes(job[j]) /\ job[j].dialing = {}
    BY <1>1, <1>3 DEF NoJob, Refreshes, At, Shape
  <2> QED BY <1>2, <1>3, <2>1, SlotsUnused
<1>4. CASE TestNode(j) \/ BatchTest(j) \/ SmartSelect(j)
  <2>1. At(j, "idle") /\ UNCHANGED testing
    BY <1>4 DEF TestNode, BatchTest, SmartSelect, Arrives, nodeVars
  <2> QED BY <1>3, <1>4, <2>1 DEF TestNode, BatchTest, SmartSelect
<1>5. CASE Spawn(j)
  <2>1. PICK n \in job[j].todo :
               Becomes(j, [job[j] EXCEPT !.todo = @ \ {n}, !.spawned = @ \cup {n}])
    BY <1>5 DEF Spawn
  <2> DEFINE r == [job[j] EXCEPT !.todo = @ \ {n}, !.spawned = @ \cup {n}]
  <2>2. r.dialing = job[j].dialing /\ r.sub = job[j].sub /\ r.pc = job[j].pc /\ r.then = job[j].then
    BY <1>1 DEF JobRecord
  <2> HIDE DEF r
  <2>3. Becomes(j, r) /\ UNCHANGED testing /\ (Refreshes(r) <=> Refreshes(job[j]))
    BY <1>5, <2>1, <2>2 DEF r, Spawn, nodeVars, Refreshes
  <2> QED BY <1>2, <2>2, <2>3, SlotsKept
<1>6. CASE Dial(j)
  <2>1. PICK n \in job[j].spawned :
               IF CanProbe(n)
               THEN /\ StartProbe(n)
                    /\ Becomes(j, [job[j] EXCEPT !.spawned = @ \ {n}, !.dialing = @ \cup {n}])
               ELSE Becomes(j, PermitBack(job[j], n)) /\ UNCHANGED nodeVars
    BY <1>6 DEF Dial
  <2>2. n \in Nodes
    BY <1>1 DEF JobRecord
  <2>3. CASE CanProbe(n)
    <3> DEFINE r == [job[j] EXCEPT !.spawned = @ \ {n}, !.dialing = @ \cup {n}]
    <3>1. /\ r.dialing = job[j].dialing \cup {n} /\ r.sub = job[j].sub
          /\ r.pc = job[j].pc /\ r.then = job[j].then
      BY <1>1 DEF JobRecord
    <3> HIDE DEF r
    <3>2. Becomes(j, r) /\ testing' = testing \cup {n} /\ n \notin testing
      BY <2>1, <2>3 DEF r, StartProbe, CanProbe
    <3>3. /\ job'[j].dialing = job[j].dialing \cup {n}
          /\ \A i \in Jobs : i # j => job'[i].dialing = job[i].dialing
          /\ \A i \in Jobs : /\ Refreshes(job'[i]) <=> Refreshes(job[i])
                             /\ job'[i].sub = job[i].sub
      BY <1>1, <3>1, <3>2 DEF Becomes, Refreshes
    <3>4. \A i \in Jobs : n \notin job[i].dialing
      BY <2>2, <3>2 DEF SlotsAreHeld
    <3>5. \A m \in Nodes : m \in testing' <=> \E i \in Jobs : m \in job'[i].dialing
      BY <3>2, <3>3 DEF SlotsAreHeld
    <3>6. \A i, k \in Jobs : i # k => job'[i].dialing \cap job'[k].dialing = {}
      BY <3>3, <3>4 DEF SlotsAreHeld
    <3> QED BY <1>2, <3>3, <3>5, <3>6 DEF SlotsAreHeld
  <2>4. CASE ~CanProbe(n)
    <3> DEFINE r == PermitBack(job[j], n)
    <3>1. r.dialing = job[j].dialing /\ r.sub = job[j].sub /\ r.pc = job[j].pc /\ r.then = job[j].then
      BY <1>1 DEF JobRecord, PermitBack
    <3> HIDE DEF r
    <3>2. Becomes(j, r) /\ UNCHANGED testing /\ (Refreshes(r) <=> Refreshes(job[j]))
      BY <2>1, <2>4, <3>1 DEF r, nodeVars, Refreshes
    <3> QED BY <1>2, <3>1, <3>2, SlotsKept
  <2> QED BY <2>3, <2>4
<1>7. ASSUME NEW n \in job[j].dialing, NEW r, Becomes(j, r), testing' = testing \ {n},
             r.dialing = job[j].dialing \ {n}, r.sub = job[j].sub, r.pc = job[j].pc,
             r.then = job[j].then
      PROVE  SlotsAreHeld'
  <2>1. /\ job'[j].dialing = job[j].dialing \ {n}
        /\ \A i \in Jobs : i # j => job'[i].dialing = job[i].dialing
        /\ \A i \in Jobs : /\ Refreshes(job'[i]) <=> Refreshes(job[i])
                           /\ job'[i].sub = job[i].sub
    BY <1>1, <1>7 DEF Becomes, Refreshes
  <2>2. \A i \in Jobs : i # j => n \notin job[i].dialing
    BY DEF SlotsAreHeld
  <2>3. \A m \in Nodes : m \in testing' <=> \E i \in Jobs : m \in job'[i].dialing
    BY <1>7, <2>1, <2>2 DEF SlotsAreHeld
  <2>4. \A i, k \in Jobs : i # k => job'[i].dialing \cap job'[k].dialing = {}
    BY <2>1 DEF SlotsAreHeld
  <2> QED BY <1>2, <2>1, <2>3, <2>4 DEF SlotsAreHeld
<1>8. CASE LookUp(j)
  <2>1. PICK n \in job[j].dialing :
          IF n \in Known
          THEN Becomes(j, [job[j] EXCEPT !.found = @ \cup {n}]) /\ UNCHANGED nodeVars
          ELSE ForgetProbe(n) /\ Becomes(j, [job[j] EXCEPT !.dialing = @ \ {n}])
    BY <1>8 DEF LookUp
  <2> DEFINE r == [job[j] EXCEPT !.found = @ \cup {n}]
             q == [job[j] EXCEPT !.dialing = @ \ {n}]
  <2>2. /\ r.dialing = job[j].dialing /\ r.sub = job[j].sub
        /\ r.pc = job[j].pc /\ r.then = job[j].then
        /\ q.dialing = job[j].dialing \ {n} /\ q.sub = job[j].sub
        /\ q.pc = job[j].pc /\ q.then = job[j].then
    BY <1>1 DEF JobRecord
  <2>3. \/ Becomes(j, r) /\ UNCHANGED testing
        \/ Becomes(j, q) /\ testing' = testing \ {n}
    BY <2>1 DEF ForgetProbe, nodeVars
  <2> HIDE DEF r, q
  <2>4. CASE Becomes(j, r) /\ UNCHANGED testing
    <3>1. Refreshes(r) <=> Refreshes(job[j])
      BY <2>2 DEF Refreshes
    <3> QED BY <1>2, <2>2, <2>4, <3>1, SlotsKept
  <2>5. CASE Becomes(j, q) /\ testing' = testing \ {n}
    BY <1>7, <2>2, <2>5
  <2> QED BY <2>3, <2>4, <2>5
<1>9. CASE Probed(j)
  <2>1. PICK n \in job[j].dialing :
          EndProbe(n) /\ Becomes(j, [job[j] EXCEPT !.dialing = @ \ {n}, !.found = @ \ {n}])
    BY <1>1, <1>9 DEF Probed, Shape
  <2> DEFINE r == [job[j] EXCEPT !.dialing = @ \ {n}, !.found = @ \ {n}]
  <2>2. /\ r.dialing = job[j].dialing \ {n} /\ r.sub = job[j].sub
        /\ r.pc = job[j].pc /\ r.then = job[j].then
    BY <1>1 DEF JobRecord
  <2> HIDE DEF r
  <2>3. Becomes(j, r) /\ testing' = testing \ {n}
    BY <2>1 DEF r, EndProbe
  <2> QED BY <1>7, <2>2, <2>3
<1>10. CASE BatchDone(j)
  <2>1. job[j].pc \in {"batch", "rank"} /\ job[j].dialing = {} /\ UNCHANGED testing
    BY <1>10 DEF BatchDone, nodeVars
  <2> DEFINE r == [job[j] EXCEPT !.pc = "pick"]
  <2>2. /\ Becomes(j, r) \/ Becomes(j, NoJob)
        /\ r.dialing = {} /\ ~Refreshes(r)
        /\ NoJob.dialing = {} /\ ~Refreshes(NoJob)
        /\ ~Refreshes(job[j])
    BY <1>1, <1>10, <2>1 DEF BatchDone, Goes, JobRecord, Refreshes, NoJob
  <2> QED BY <1>2, <2>1, <2>2, SlotsUnused
<1>11. CASE Pick(j)
  <2>1. /\ ~Refreshes(job[j]) /\ job[j].dialing = {} /\ UNCHANGED testing
        /\ ~Refreshes(NoJob) /\ NoJob.dialing = {}
    BY <1>1, <1>11 DEF Pick, At, Shape, nodeVars, Refreshes, NoJob
  <2>2. CASE Goes(j, "idle")
    BY <1>2, <2>1, <2>2, SlotsUnused DEF Goes
  <2>3. ASSUME NEW n, Becomes(j, [NoJob EXCEPT !.pc = "select", !.node = n])
        PROVE  SlotsAreHeld'
    <3> DEFINE r == [NoJob EXCEPT !.pc = "select", !.node = n]
    <3>1. r.dialing = {} /\ ~Refreshes(r)
      BY DEF NoJob, Refreshes
    <3> QED BY <1>2, <2>1, <2>3, <3>1, SlotsUnused
  <2> QED BY <1>11, <2>2, <2>3 DEF Pick
<1> QED BY <1>4, <1>5, <1>6, <1>8, <1>9, <1>10, <1>11

LEMMA SubRequestsKeepSlots ==
  ASSUME CatalogTypeOK, SlotsAreHeld, NEW j \in Jobs,
         \/ AddSub(j) \/ UpdateSub(j) \/ DeleteSub(j) \/ Disown(j) \/ SaveItems(j)
         \/ Refresh(j) \/ RefreshDue(j) \/ Claim(j) \/ AllRefreshed(j) \/ FetchFails(j)
         \/ Fetched(j) \/ Metadata(j) \/ Release(j)
  PROVE  SlotsAreHeld'
<1>1. job \in [Jobs -> JobRecord] /\ job[j] \in JobRecord /\ Shape(job[j])
  BY DEF CatalogTypeOK, JobsTypeOK
<1>2. UNCHANGED testing
  BY DEF AddSub, UpdateSub, DeleteSub, Disown, SaveItems, Refresh, RefreshDue, Claim,
         AllRefreshed, FetchFails, Fetched, Metadata, Release, Replace, nodeVars
<1>3. CASE AddSub(j) \/ UpdateSub(j) \/ SaveItems(j)
  <2>1. /\ job[j].dialing = {} /\ ~Refreshes(job[j]) /\ UNCHANGED refreshing
        /\ Becomes(j, Saving(NoJob, "subscriptions", "idle"))
    BY <1>1, <1>3 DEF AddSub, UpdateSub, SaveItems, Arrives, At, Shape, Refreshes, AddItem,
                      SetEnabled, itemVars
  <2> DEFINE r == Saving(NoJob, "subscriptions", "idle")
  <2>2. r.dialing = {} /\ ~Refreshes(r)
    BY DEF Saving, NoJob, Refreshes
  <2> QED BY <1>2, <2>1, <2>2, SlotsUnused
<1>4. CASE DeleteSub(j)
  <2>1. PICK s \in Live : RemoveItem(s) /\ Becomes(j, Removing(s))
    BY <1>4 DEF DeleteSub
  <2>2. job[j].dialing = {} /\ ~Refreshes(job[j]) /\ UNCHANGED refreshing
    BY <1>1, <1>4, <2>1 DEF DeleteSub, Arrives, At, Shape, Refreshes, RemoveItem
  <2>3. Removing(s).dialing = {} /\ ~Refreshes(Removing(s))
    BY DEF Removing, NoJob, Refreshes
  <2> QED BY <1>2, <2>1, <2>2, <2>3, SlotsUnused
<1>5. CASE Disown(j)
  <2> DEFINE r == Saving(job[j], "nodes", "saveItems")
  <2>1. job[j].dialing = {} /\ ~Refreshes(job[j]) /\ UNCHANGED refreshing /\ Becomes(j, r)
    BY <1>1, <1>5 DEF Disown, At, Shape, Refreshes, itemVars
  <2>2. r.dialing = {} /\ ~Refreshes(r)
    BY <1>1, <2>1 DEF Saving, JobRecord, Refreshes
  <2> QED BY <1>2, <2>1, <2>2, SlotsUnused
<1>6. CASE Refresh(j) \/ RefreshDue(j)
  <2>1. PICK due : Becomes(j, [NoJob EXCEPT !.pc = "claim", !.due = due])
    BY <1>6 DEF Refresh, RefreshDue
  <2> DEFINE r == [NoJob EXCEPT !.pc = "claim", !.due = due]
  <2>2. r.dialing = {} /\ ~Refreshes(r)
    BY DEF NoJob, Refreshes
  <2>3. job[j].dialing = {} /\ ~Refreshes(job[j]) /\ UNCHANGED refreshing
    BY <1>1, <1>6 DEF Refresh, RefreshDue, Arrives, At, Shape, Refreshes, itemVars
  <2> QED BY <1>2, <2>1, <2>2, <2>3, SlotsUnused
<1>7. CASE Claim(j)
  <2>1. PICK s \in job[j].due :
               IF CanRefresh(s)
               THEN /\ TakeSlot(s)
                    /\ Becomes(j, [job[j] EXCEPT !.due = @ \ {s}, !.sub = s,
                                     !.pc = IF s \in Live THEN "fetch" ELSE "release"])
               ELSE Becomes(j, [job[j] EXCEPT !.due = @ \ {s}]) /\ UNCHANGED itemVars
    BY <1>7 DEF Claim
  <2>2. job[j].pc = "claim" /\ job[j].dialing = {} /\ ~Refreshes(job[j]) /\ s \in Subs
    BY <1>1, <1>7 DEF Claim, At, Shape, Refreshes, JobRecord
  <2>3. CASE CanRefresh(s)
    <3> DEFINE l == IF s \in Live THEN "fetch" ELSE "release"
               r == [job[j] EXCEPT !.due = @ \ {s}, !.sub = s, !.pc = l]
    <3>1. Becomes(j, r) /\ refreshing' = refreshing \cup {s} /\ s \notin refreshing
      BY <2>1, <2>3 DEF TakeSlot, CanRefresh
    <3>2. r.pc \in {"fetch", "release"} /\ r.sub = s /\ r.dialing = {}
      BY <1>1, <2>2 DEF JobRecord
    <3> HIDE DEF r
    <3>3. job'[j] = r /\ \A i \in Jobs : i # j => job'[i] = job[i]
      BY <1>1, <3>1 DEF Becomes
    <3>4. Refreshes(r)
      BY <3>2 DEF Refreshes
    <3>5. \A i \in Jobs : Refreshes(job[i]) => job[i].sub # s
      BY <2>2, <3>1 DEF SlotsAreHeld
    <3>6. \A i \in Jobs : job'[i].dialing = job[i].dialing
      BY <2>2, <3>2, <3>3
    <3>7. \A t \in Subs : t \in refreshing' <=>
                          \E i \in Jobs : Refreshes(job'[i]) /\ job'[i].sub = t
      BY <2>2, <3>1, <3>2, <3>3, <3>4 DEF SlotsAreHeld
    <3>8. \A i, k \in Jobs : i # k /\ Refreshes(job'[i]) /\ Refreshes(job'[k])
                               => job'[i].sub # job'[k].sub
      BY <3>2, <3>3, <3>5 DEF SlotsAreHeld
    <3> QED BY <1>2, <3>6, <3>7, <3>8 DEF SlotsAreHeld
  <2>4. CASE ~CanRefresh(s)
    <3> DEFINE r == [job[j] EXCEPT !.due = @ \ {s}]
    <3>1. r.dialing = {} /\ ~Refreshes(r)
      BY <1>1, <2>2 DEF JobRecord, Refreshes
    <3>2. Becomes(j, r) /\ UNCHANGED refreshing
      BY <2>1, <2>4 DEF itemVars
    <3> QED BY <1>2, <2>2, <3>1, <3>2, SlotsUnused
  <2> QED BY <2>3, <2>4
<1>8. CASE AllRefreshed(j)
  <2>1. /\ job[j].dialing = {} /\ ~Refreshes(job[j]) /\ UNCHANGED refreshing
        /\ Becomes(j, NoJob) /\ NoJob.dialing = {} /\ ~Refreshes(NoJob)
    BY <1>1, <1>8 DEF AllRefreshed, At, Shape, Refreshes, itemVars, Goes, NoJob
  <2> QED BY <1>2, <2>1, SlotsUnused
<1>9. CASE FetchFails(j)
  <2> DEFINE r == [job[j] EXCEPT !.pc = "release"]
  <2>1. /\ Becomes(j, r) /\ UNCHANGED refreshing /\ Refreshes(job[j])
        /\ r.dialing = job[j].dialing /\ Refreshes(r) /\ r.sub = job[j].sub
    BY <1>1, <1>9 DEF FetchFails, At, Goes, itemVars, Refreshes, JobRecord
  <2> QED BY <1>2, <2>1, SlotsKept
<1>10. CASE Fetched(j)
  <2>1. PICK w \in Feeds : Becomes(j, Saving([job[j] EXCEPT !.got = w], "nodes", "metadata"))
    BY <1>10 DEF Fetched
  <2> DEFINE r == Saving([job[j] EXCEPT !.got = w], "nodes", "metadata")
  <2>2. r.dialing = job[j].dialing /\ Refreshes(r) /\ r.sub = job[j].sub
    BY <1>1 DEF Saving, Refreshes, JobRecord
  <2>3. UNCHANGED refreshing /\ Refreshes(job[j])
    BY <1>10 DEF Fetched, At, itemVars, Refreshes
  <2> QED BY <1>2, <2>1, <2>2, <2>3, SlotsKept
<1>11. CASE Metadata(j)
  <2> DEFINE r == Saving(job[j], "subscriptions", "release")
  <2>1. r.dialing = job[j].dialing /\ Refreshes(r) /\ r.sub = job[j].sub
    BY <1>1 DEF Saving, Refreshes, JobRecord
  <2>2. UNCHANGED refreshing /\ Refreshes(job[j]) /\ Becomes(j, r)
    BY <1>11 DEF Metadata, At, Record, Refreshes
  <2> QED BY <1>2, <2>1, <2>2, SlotsKept
<1>12. CASE Release(j)
  <2> DEFINE s == job[j].sub
             r == [job[j] EXCEPT !.pc = "claim", !.sub = None, !.got = {}]
  <2>1. /\ Becomes(j, r) /\ refreshing' = refreshing \ {s} /\ Refreshes(job[j])
        /\ job[j].pc = "release"
    BY <1>12 DEF Release, At, FreeSlot, Refreshes
  <2>2. r.dialing = job[j].dialing /\ ~Refreshes(r)
    BY <1>1, <2>1 DEF JobRecord, Refreshes
  <2> HIDE DEF r
  <2>3. job'[j] = r /\ \A i \in Jobs : i # j => job'[i] = job[i]
    BY <1>1, <2>1 DEF Becomes
  <2>4. \A i \in Jobs : i # j /\ Refreshes(job[i]) => job[i].sub # s
    BY <2>1 DEF SlotsAreHeld
  <2>5. \A i \in Jobs : job'[i].dialing = job[i].dialing
    BY <2>2, <2>3
  <2>6. \A t \in Subs : t \in refreshing' <=>
                        \E i \in Jobs : Refreshes(job'[i]) /\ job'[i].sub = t
    BY <2>1, <2>2, <2>3, <2>4 DEF SlotsAreHeld
  <2>7. \A i, k \in Jobs : i # k /\ Refreshes(job'[i]) /\ Refreshes(job'[k])
                             => job'[i].sub # job'[k].sub
    BY <2>2, <2>3 DEF SlotsAreHeld
  <2> QED BY <1>2, <2>5, <2>6, <2>7 DEF SlotsAreHeld
<1> QED BY <1>3, <1>4, <1>5, <1>6, <1>7, <1>8, <1>9, <1>10, <1>11, <1>12

LEMMA NextKeepsSlots == CatalogTypeOK /\ SlotsAreHeld /\ [Next]_vars => SlotsAreHeld'
<1> SUFFICES ASSUME CatalogTypeOK, SlotsAreHeld, [Next]_vars PROVE SlotsAreHeld'
  OBVIOUS
<1>1. ASSUME NEW j \in Jobs, Arrive(j) \/ Continue(j) PROVE SlotsAreHeld'
  BY <1>1, SavesKeepSlots, NodeRequestsKeepSlots, ProbesKeepSlots, SubRequestsKeepSlots
     DEF Arrive, Continue
<1>2. CASE Crash
  BY <1>2 DEF Crash, SlotsAreHeld, NoJob, Refreshes
<1>3. CASE UNCHANGED vars
  BY <1>3 DEF vars, nodeVars, itemVars, SlotsAreHeld
<1> QED BY <1>1, <1>2, <1>3 DEF Next

\* The in_flight sets of both managers work: no two tasks probe the same node or
\* refresh the same subscription, and no entry outlives its task
\* (nodes/manager.rs:133-143, subscription/manager.rs:194-202).
THEOREM SlotsHeld == Spec => []SlotsAreHeld
<1>1. Init => SlotsAreHeld
  BY DEF Init, NodesLoaded, ItemsLoaded, SlotsAreHeld, NoJob, Refreshes
<1> QED BY <1>1, InitTyped, NextTyped, NextKeepsSlots, PTL DEF Spec

-----------------------------------------------------------------------------
(* What a refresh records.                                                  *)

\* From the swap of its nodes to its metadata a refresh knows all the nodes the
\* catalogue holds for its subscription; no client is sending back an old record.
Storing(r) ==
  r.pc = "metadata" \/ (r.pc \in {"snapshot", "write", "rename"} /\ r.then = "metadata")

StoredIsListed ==
  \A j \in Jobs : /\ job[j].pc \notin {"check", "put"}
                  /\ Storing(job[j]) => Owned(job[j].sub) \subseteq job[j].got

\* Who takes nodes away from a subscription, and who gives it some.
LEMMA OwnedSteps ==
  ASSUME CatalogTypeOK, NEW s \in Subs
  PROVE  /\ UNCHANGED nodes => Owned(s)' \subseteq Owned(s)
         /\ \A n \in Nodes, e \in BOOLEAN :
              Insert(n, [owner |-> None, enabled |-> e]) => Owned(s)' \subseteq Owned(s)
         /\ \A n \in Nodes : Remove(n) => Owned(s)' \subseteq Owned(s)
         /\ \A t \in Subs, w \in SUBSET Nodes :
              Replace(t, w) /\ (t # s \/ w = {}) => Owned(s)' \subseteq Owned(s)
         /\ \A w \in SUBSET Nodes : Replace(s, w) => Owned(s)' \subseteq w
<1> USE DEF CatalogTypeOK, NodesTypeOK, Owned, Known
<1>1. UNCHANGED nodes => Owned(s)' \subseteq Owned(s)
  OBVIOUS
<1>2. \A n \in Nodes, e \in BOOLEAN :
        Insert(n, [owner |-> None, enabled |-> e]) => Owned(s)' \subseteq Owned(s)
  BY CatalogAssumption DEF Insert, NodeTable
<1>3. \A n \in Nodes : Remove(n) => Owned(s)' \subseteq Owned(s)
  BY DEF Remove, NodeTable
<1>4. \A t \in Subs, w \in SUBSET Nodes :
        Replace(t, w) /\ (t # s \/ w = {}) => Owned(s)' \subseteq Owned(s)
  BY DEF Replace
<1>5. \A w \in SUBSET Nodes : Replace(s, w) => Owned(s)' \subseteq w
  BY DEF Replace
<1> QED BY <1>1, <1>2, <1>3, <1>4, <1>5

\* A step of one job that gives no other storing refresh a node.
LEMMA ListedKept ==
  ASSUME CatalogTypeOK, StoredIsListed, NEW j \in Jobs, NEW r, Becomes(j, r),
         r.pc \notin {"check", "put"},
         Storing(r) => \A s \in Subs : s = r.sub => Owned(s)' \subseteq r.got,
         Storing(r) => r.sub \in Subs,
         \A s \in Subs, i \in Jobs : i # j /\ Storing(job[i]) /\ job[i].sub = s
                                  => Owned(s)' \subseteq Owned(s)
  PROVE  StoredIsListed'
<1>1. /\ job'[j] = r
      /\ \A i \in Jobs : i # j => job'[i] = job[i]
  BY DEF CatalogTypeOK, JobsTypeOK, Becomes
<1>2. ASSUME NEW i \in Jobs, i # j, Storing(job'[i]), NEW s, s = job[i].sub
      PROVE  Owned(s)' \subseteq job'[i].got
  <2>1. job'[i] = job[i] /\ Storing(job[i])
    BY <1>1, <1>2
  <2>2. s \in Subs
    BY <1>2, <2>1 DEF CatalogTypeOK, JobsTypeOK, Shape, Storing
  <2>3. Owned(s)' \subseteq Owned(s)
    BY <1>2, <2>1, <2>2
  <2>4. Owned(s) \subseteq job[i].got
    BY <1>2, <2>1 DEF StoredIsListed
  <2> QED BY <2>1, <2>3, <2>4
<1>3. ASSUME NEW i \in Jobs, i # j, Storing(job'[i])
      PROVE  (Owned(job[i].sub) \subseteq job[i].got)'
  BY <1>1, <1>2, <1>3 DEF Owned, Known
<1>4. ASSUME NEW i \in Jobs
      PROVE  (/\ job[i].pc \notin {"check", "put"}
              /\ Storing(job[i]) => Owned(job[i].sub) \subseteq job[i].got)'
  <2>1. CASE i = j
    <3>1. Storing(r) => \A n \in Known' : nodes'[n].owner = r.sub => n \in r.got
      BY DEF Owned
    <3> QED BY <1>1, <2>1, <3>1 DEF Storing, Owned
  <2>2. CASE i # j
    BY <1>1, <1>3, <2>2 DEF StoredIsListed, Storing
  <2> QED BY <2>1, <2>2
<1> QED BY <1>4 DEF StoredIsListed

\* Fresh locals: what a job becomes when a request arrives or makes its last steps.
LEMMA FreshLocals ==
  ASSUME NEW n, NEW w
  PROVE  /\ \A l \in {"deselect", "select"} :
              LET r == [NoJob EXCEPT !.pc = l, !.node = n]
              IN  r.pc \notin {"check", "put"} /\ ~Storing(r)
         /\ \A l \in {"batch", "rank"} :
              LET r == [NoJob EXCEPT !.pc = l, !.todo = w]
              IN  r.pc \notin {"check", "put"} /\ ~Storing(r)
         /\ LET r == [NoJob EXCEPT !.pc = "claim", !.due = w]
            IN  r.pc \notin {"check", "put"} /\ ~Storing(r)
         /\ \A f \in Store : LET r == Saving(NoJob, f, "idle")
                             IN  r.pc \notin {"check", "put"} /\ ~Storing(r)
         /\ LET r == Removing(n) IN r.pc \notin {"check", "put"} /\ ~Storing(r)
         /\ NoJob.pc \notin {"check", "put"} /\ ~Storing(NoJob)
BY DEF NoJob, Storing, Saving, Removing

LEMMA NodeRequestsKeepListed ==
  ASSUME CatalogTypeOK, StoredIsListed, NEW j \in Jobs, "updateNode" \notin Requests,
         \/ AddNode(j) \/ UpdateNode(j) \/ Check(j) \/ Put(j) \/ DeleteNode(j)
         \/ Deselect(j) \/ Clear(j) \/ SelectNode(j) \/ Select(j) \/ Choose(j)
  PROVE  StoredIsListed'
<1>1. job[j] \in JobRecord /\ job[j].pc \notin {"check", "put"}
  BY DEF CatalogTypeOK, JobsTypeOK, StoredIsListed
<1>2. \A s \in Subs : Owned(s)' \subseteq Owned(s)
  <2>1. CASE AddNode(j)
    BY <2>1, OwnedSteps, CatalogAssumption DEF AddNode
  <2>2. CASE DeleteNode(j)
    BY <2>2, OwnedSteps DEF DeleteNode, Known
  <2>3. CASE ~AddNode(j) /\ ~DeleteNode(j)
    <3>1. UNCHANGED nodes
      BY <1>1, <2>3 DEF UpdateNode, Check, Put, At, Deselect, Clear, SelectNode, Select,
                        Choose, nodeVars, SetSelected
    <3> QED BY <3>1, OwnedSteps
  <2> QED BY <2>1, <2>2, <2>3
<1>3. ASSUME NEW l \in {"idle", "clear", "choose"}, Goes(j, l),
             job[j].pc \in {"deselect", "select", "choose"}
      PROVE  StoredIsListed'
  <2>1. CASE l = "idle"
    BY <1>2, <1>3, <2>1, FreshLocals, ListedKept DEF Goes
  <2>2. CASE l # "idle"
    <3> DEFINE r == [job[j] EXCEPT !.pc = l]
    <3>1. Becomes(j, r) /\ r.pc \notin {"check", "put"} /\ ~Storing(r)
      BY <1>1, <1>3, <2>2 DEF Goes, JobRecord, Storing
    <3> HIDE DEF r
    <3> QED BY <1>2, <3>1, ListedKept
  <2> QED BY <2>1, <2>2
<1>4. CASE Becomes(j, Saving(NoJob, "nodes", "idle"))
  BY <1>2, <1>4, FreshLocals, ListedKept DEF Store
<1>5. CASE SelectNode(j) \/ DeleteNode(j)
  <2>1. ASSUME NEW n, NEW l \in {"deselect", "select"},
               Becomes(j, [NoJob EXCEPT !.pc = l, !.node = n])
        PROVE  StoredIsListed'
    BY <1>2, <2>1, FreshLocals, ListedKept
  <2> QED BY <1>5, <2>1 DEF SelectNode, DeleteNode
<1>6. CASE Deselect(j) \/ Select(j) \/ Choose(j)
  BY <1>3, <1>4, <1>6 DEF Deselect, Select, Choose, At
<1>7. ~UpdateNode(j) /\ ~Check(j) /\ ~Put(j)
  BY <1>1 DEF UpdateNode, Arrives, Check, Put, At
<1> QED BY <1>4, <1>5, <1>6, <1>7 DEF AddNode, Clear

LEMMA ProbesKeepListed ==
  ASSUME CatalogTypeOK, StoredIsListed, NEW j \in Jobs,
         \/ TestNode(j) \/ BatchTest(j) \/ SmartSelect(j) \/ Spawn(j) \/ Dial(j)
         \/ LookUp(j) \/ Probed(j) \/ BatchDone(j) \/ Pick(j)
  PROVE  StoredIsListed'
<1>1. job[j] \in JobRecord /\ Shape(job[j])
  BY DEF CatalogTypeOK, JobsTypeOK
<1>2. \A s \in Subs : Owned(s)' \subseteq Owned(s)
  <2>1. UNCHANGED nodes
    BY DEF TestNode, BatchTest, SmartSelect, Spawn, Dial, LookUp, Probed, BatchDone, Pick, nodeVars,
           StartProbe, ForgetProbe, EndProbe
  <2> QED BY <2>1, OwnedSteps
<1>3. CASE TestNode(j) \/ BatchTest(j) \/ SmartSelect(j)
  <2>1. ASSUME NEW w, NEW l \in {"batch", "rank"},
               Becomes(j, [NoJob EXCEPT !.pc = l, !.todo = w])
        PROVE  StoredIsListed'
    BY <1>2, <2>1, FreshLocals, ListedKept
  <2> QED BY <1>3, <2>1 DEF TestNode, BatchTest, SmartSelect
<1>4. ASSUME NEW q, q.pc = job[j].pc, job[j].pc \in {"batch", "rank"}, Becomes(j, q)
      PROVE  StoredIsListed'
  BY <1>2, <1>4, ListedKept DEF Storing
<1>5. CASE Spawn(j) \/ Dial(j) \/ LookUp(j) \/ Probed(j)
  <2>1. job[j].pc \in {"batch", "rank"}
    BY <1>1, <1>5 DEF Spawn, Dial, LookUp, Probed, Shape
  <2>2. PICK n : \/ Becomes(j, [job[j] EXCEPT !.todo = @ \ {n}, !.spawned = @ \cup {n}])
                \/ Becomes(j, [job[j] EXCEPT !.spawned = @ \ {n}, !.dialing = @ \cup {n}])
                \/ Becomes(j, [job[j] EXCEPT !.spawned = @ \ {n}])
                \/ Becomes(j, [job[j] EXCEPT !.dialing = @ \ {n}])
                \/ Becomes(j, [job[j] EXCEPT !.found = @ \cup {n}])
                \/ Becomes(j, [job[j] EXCEPT !.dialing = @ \ {n}, !.found = @ \ {n}])
    BY <1>5 DEF Spawn, Dial, LookUp, Probed, PermitBack
  <2>3. /\ [job[j] EXCEPT !.todo = @ \ {n}, !.spawned = @ \cup {n}].pc = job[j].pc
        /\ [job[j] EXCEPT !.spawned = @ \ {n}, !.dialing = @ \cup {n}].pc = job[j].pc
        /\ [job[j] EXCEPT !.spawned = @ \ {n}].pc = job[j].pc
        /\ [job[j] EXCEPT !.dialing = @ \ {n}].pc = job[j].pc
        /\ [job[j] EXCEPT !.found = @ \cup {n}].pc = job[j].pc
        /\ [job[j] EXCEPT !.dialing = @ \ {n}, !.found = @ \ {n}].pc = job[j].pc
    BY <1>1 DEF JobRecord
  <2> QED BY <1>4, <2>1, <2>2, <2>3
<1>6. CASE BatchDone(j)
  <2> DEFINE r == [job[j] EXCEPT !.pc = "pick"]
  <2>1. Becomes(j, r) \/ Becomes(j, NoJob)
    BY <1>6 DEF BatchDone, Goes
  <2>2. r.pc \notin {"check", "put"} /\ ~Storing(r)
    BY <1>1 DEF JobRecord, Storing
  <2> HIDE DEF r
  <2> QED BY <1>2, <2>1, <2>2, FreshLocals, ListedKept
<1>7. CASE Pick(j)
  <2>1. \/ Becomes(j, NoJob)
        \/ \E n : Becomes(j, [NoJob EXCEPT !.pc = "select", !.node = n])
    BY <1>7 DEF Pick, Goes
  <2> QED BY <1>2, <2>1, FreshLocals, ListedKept
<1> QED BY <1>3, <1>5, <1>6, <1>7

LEMMA SavesKeepListed ==
  ASSUME CatalogTypeOK, StoredIsListed, NEW j \in Jobs, Snapshot(j) \/ Write(j) \/ Rename(j)
  PROVE  StoredIsListed'
<1>1. /\ job[j] \in JobRecord /\ Shape(job[j])
      /\ job[j].pc \in {"snapshot", "write", "rename"}
  BY DEF CatalogTypeOK, JobsTypeOK, Snapshot, Write, Rename, At
<1>2. \A s \in Subs : Owned(s)' \subseteq Owned(s)
  BY OwnedSteps DEF Snapshot, Write, Rename, nodeVars
<1>3. ASSUME NEW r, Becomes(j, r), r.pc \notin {"check", "put"},
             Storing(r) => Storing(job[j]) /\ r.sub = job[j].sub /\ r.got = job[j].got
      PROVE  StoredIsListed'
  <2>1. Storing(r) => r.sub \in Subs /\ Owned(job[j].sub) \subseteq r.got
    BY <1>1, <1>3 DEF StoredIsListed, Storing, Shape
  <2>2. Storing(r) => \A s \in Subs : s = r.sub => Owned(s)' \subseteq r.got
    BY <1>2, <1>3, <2>1
  <2> QED BY <1>2, <1>3, <2>1, <2>2, ListedKept
<1>4. ASSUME NEW l, Saved(j, l), l = job[j].then \/ l = OnError(job[j].then)
      PROVE  StoredIsListed'
  <2>1. l \in {"idle", "saveItems", "metadata", "release"} /\ (l = "metadata" => Storing(job[j]))
    BY <1>1, <1>4 DEF Shape, OnError, Storing
  <2>2. CASE l = "idle"
    BY <1>3, <1>4, <2>2, FreshLocals DEF Saved
  <2>3. CASE l # "idle"
    <3> DEFINE r == [job[j] EXCEPT !.pc = l, !.file = None, !.doc = None, !.then = "idle"]
    <3>1. /\ Becomes(j, r) /\ r.pc = l /\ r.sub = job[j].sub /\ r.got = job[j].got
          /\ Storing(r) => l = "metadata"
      BY <1>1, <1>4, <2>1, <2>3 DEF Saved, JobRecord, Storing
    <3> HIDE DEF r
    <3> QED BY <1>3, <2>1, <3>1
  <2> QED BY <2>2, <2>3
<1>5. ASSUME NEW r \in JobRecord, Becomes(j, r), r.pc \in {"write", "rename"},
             r.sub = job[j].sub, r.got = job[j].got, r.then = job[j].then
      PROVE  StoredIsListed'
  <2>1. Storing(r) => Storing(job[j])
    BY <1>1, <1>5 DEF Storing
  <2> QED BY <1>3, <1>5, <2>1
<1>6. CASE Snapshot(j)
  <2>1. PICK d \in NodeTable \cup ItemTable :
               Becomes(j, [job[j] EXCEPT !.pc = "write", !.doc = d])
    BY <1>6 DEF Snapshot, CatalogTypeOK, NodesTypeOK, ItemsTypeOK
  <2> DEFINE r == [job[j] EXCEPT !.pc = "write", !.doc = d]
  <2>2. /\ r.pc = "write" /\ r.sub = job[j].sub /\ r.got = job[j].got
        /\ r.then = job[j].then
    BY <1>1 DEF JobRecord
  <2>3. r \in JobRecord
    BY <1>1, <2>1 DEF JobRecord, Labels
  <2> QED BY <1>5, <2>1, <2>2, <2>3
<1>7. CASE Write(j)
  <2> DEFINE r == [job[j] EXCEPT !.pc = "rename", !.doc = None]
  <2>1. /\ r \in JobRecord /\ r.pc = "rename" /\ r.sub = job[j].sub /\ r.got = job[j].got
        /\ r.then = job[j].then
    BY <1>1 DEF JobRecord, Labels
  <2>2. Becomes(j, r) \/ Saved(j, OnError(job[j].then))
    BY <1>7 DEF Write
  <2> QED BY <1>4, <1>5, <2>1, <2>2
<1>8. CASE Rename(j)
  BY <1>4, <1>8 DEF Rename
<1> QED BY <1>6, <1>7, <1>8

LEMMA SubRequestsKeepListed ==
  ASSUME CatalogTypeOK, SlotsAreHeld, StoredIsListed, NEW j \in Jobs,
         \/ AddSub(j) \/ UpdateSub(j) \/ DeleteSub(j) \/ Disown(j) \/ SaveItems(j)
         \/ Refresh(j) \/ RefreshDue(j) \/ Claim(j) \/ AllRefreshed(j) \/ FetchFails(j)
         \/ Fetched(j) \/ Metadata(j) \/ Release(j)
  PROVE  StoredIsListed'
<1>1. job[j] \in JobRecord /\ Shape(job[j])
  BY DEF CatalogTypeOK, JobsTypeOK
<1>2. UNCHANGED nodes => \A s \in Subs : Owned(s)' \subseteq Owned(s)
  BY OwnedSteps
<1>3. ASSUME NEW r, Becomes(j, r), r.pc \notin {"check", "put"}, ~Storing(r), UNCHANGED nodes
      PROVE  StoredIsListed'
  BY <1>2, <1>3, ListedKept
<1>4. CASE AddSub(j) \/ UpdateSub(j) \/ SaveItems(j)
  BY <1>3, <1>4, FreshLocals DEF AddSub, UpdateSub, SaveItems, nodeVars, Store
<1>5. CASE DeleteSub(j)
  BY <1>3, <1>5, FreshLocals DEF DeleteSub, nodeVars
<1>6. CASE Refresh(j) \/ RefreshDue(j)
  <2>1. PICK w : Becomes(j, [NoJob EXCEPT !.pc = "claim", !.due = w])
    BY <1>6 DEF Refresh, RefreshDue
  <2> QED BY <1>3, <1>6, <2>1, FreshLocals DEF Refresh, RefreshDue, nodeVars
<1>7. CASE Claim(j)
  <2>1. PICK s \in job[j].due :
          \/ \E l \in {"fetch", "release"} :
               Becomes(j, [job[j] EXCEPT !.due = @ \ {s}, !.sub = s, !.pc = l])
          \/ job[j].pc = "claim" /\ Becomes(j, [job[j] EXCEPT !.due = @ \ {s}])
    BY <1>7 DEF Claim, At
  <2>2. ASSUME NEW l \in {"fetch", "release"},
               Becomes(j, [job[j] EXCEPT !.due = @ \ {s}, !.sub = s, !.pc = l])
        PROVE  StoredIsListed'
    <3> DEFINE r == [job[j] EXCEPT !.due = @ \ {s}, !.sub = s, !.pc = l]
    <3>1. r.pc \notin {"check", "put"} /\ ~Storing(r)
      BY <1>1, <2>2 DEF JobRecord, Storing
    <3> QED BY <1>3, <1>7, <2>2, <3>1 DEF Claim, nodeVars
  <2>3. CASE job[j].pc = "claim" /\ Becomes(j, [job[j] EXCEPT !.due = @ \ {s}])
    <3> DEFINE r == [job[j] EXCEPT !.due = @ \ {s}]
    <3>1. r.pc \notin {"check", "put"} /\ ~Storing(r)
      BY <1>1, <2>3 DEF JobRecord, Storing
    <3> QED BY <1>3, <1>7, <2>3, <3>1 DEF Claim, nodeVars
  <2> QED BY <2>1, <2>2, <2>3
<1>8. CASE AllRefreshed(j)
  BY <1>3, <1>8, FreshLocals DEF AllRefreshed, Goes, nodeVars
<1>9. CASE FetchFails(j)
  <2> DEFINE r == [job[j] EXCEPT !.pc = "release"]
  <2>1. Becomes(j, r) /\ r.pc \notin {"check", "put"} /\ ~Storing(r)
    BY <1>1, <1>9 DEF FetchFails, Goes, JobRecord, Storing
  <2> QED BY <1>3, <1>9, <2>1 DEF FetchFails, nodeVars
<1>10. CASE Fetched(j)
  <2>1. PICK w \in Feeds : /\ Replace(job[j].sub, w)
                           /\ Becomes(j, Saving([job[j] EXCEPT !.got = w], "nodes", "metadata"))
    BY <1>10 DEF Fetched
  <2> DEFINE r == Saving([job[j] EXCEPT !.got = w], "nodes", "metadata")
             t == job[j].sub
  <2>2. w \in SUBSET Nodes /\ t \in Subs /\ Refreshes(job[j])
    BY <1>1, <1>10, CatalogAssumption DEF Fetched, At, Shape, Refreshes
  <2>3. r.pc = "snapshot" /\ r.sub = t /\ r.got = w
    BY <1>1 DEF Saving, JobRecord
  <2>4. ASSUME NEW s \in Subs PROVE Owned(s)' \subseteq Owned(s) \/ s = t
    BY <2>1, <2>2, OwnedSteps
  <2>5. \A s \in Subs : s = t => Owned(s)' \subseteq w
    BY <2>1, <2>2, OwnedSteps
  <2>6. \A i \in Jobs : i # j /\ Storing(job[i]) => job[i].sub # t
    BY <2>2 DEF SlotsAreHeld, Storing, Refreshes
  <2> HIDE DEF r
  <2> QED BY <2>1, <2>2, <2>3, <2>4, <2>5, <2>6, ListedKept DEF r
<1>11. CASE Disown(j)
  <2> DEFINE r == Saving(job[j], "nodes", "saveItems")
  <2>1. job[j].sub \in Subs /\ Replace(job[j].sub, {}) /\ Becomes(j, r)
    BY <1>1, <1>11 DEF Disown, At, Shape
  <2>2. r.pc = "snapshot" /\ ~Storing(r)
    BY <1>1 DEF Saving, JobRecord, Storing
  <2>3. \A s \in Subs : Owned(s)' \subseteq Owned(s)
    BY <2>1, OwnedSteps
  <2> HIDE DEF r
  <2> QED BY <2>1, <2>2, <2>3, ListedKept
<1>12. CASE Metadata(j)
  <2> DEFINE r == Saving(job[j], "subscriptions", "release")
  <2>1. Becomes(j, r) /\ r.pc = "snapshot" /\ ~Storing(r)
    BY <1>1, <1>12 DEF Metadata, Saving, JobRecord, Storing
  <2> QED BY <1>3, <1>12, <2>1 DEF Metadata, nodeVars
<1>13. CASE Release(j)
  <2> DEFINE r == [job[j] EXCEPT !.pc = "claim", !.sub = None, !.got = {}]
  <2>1. Becomes(j, r) /\ r.pc \notin {"check", "put"} /\ ~Storing(r)
    BY <1>1, <1>13 DEF Release, JobRecord, Storing
  <2> QED BY <1>3, <1>13, <2>1 DEF Release, nodeVars
<1> QED BY <1>4, <1>5, <1>6, <1>7, <1>8, <1>9, <1>10, <1>11, <1>12, <1>13

LEMMA NextKeepsListed ==
  ASSUME "updateNode" \notin Requests
  PROVE  CatalogTypeOK /\ SlotsAreHeld /\ StoredIsListed /\ [Next]_vars => StoredIsListed'
<1> SUFFICES ASSUME CatalogTypeOK, SlotsAreHeld, StoredIsListed, [Next]_vars
             PROVE  StoredIsListed'
  OBVIOUS
<1>1. ASSUME NEW j \in Jobs, Arrive(j) \/ Continue(j) PROVE StoredIsListed'
  BY <1>1, SavesKeepListed, NodeRequestsKeepListed, ProbesKeepListed, SubRequestsKeepListed
     DEF Arrive, Continue
<1>2. CASE Crash
  BY <1>2 DEF Crash, StoredIsListed, NoJob, Storing
<1>3. CASE UNCHANGED vars
  BY <1>3 DEF vars, nodeVars, StoredIsListed, Owned, Known, Storing
<1> QED BY <1>1, <1>2, <1>3 DEF Next

\* When a refresh records its metadata, the list it records covers the nodes the
\* catalogue holds for the subscription, unless a client has sent back a node
\* record it read before (subscription/manager.rs:264-278).
THEOREM RefreshLists == ASSUME "updateNode" \notin Requests PROVE Spec => RefreshListsItsNodes
<1>1. Init => StoredIsListed
  BY DEF Init, StoredIsListed, NoJob, Storing
<1>2. ASSUME CatalogTypeOK, StoredIsListed, [Next]_vars
      PROVE  [\A j \in Jobs :
                At(j, "metadata") /\ job'[j].pc = "snapshot" /\ items'[job[j].sub] # None
                  => Owned(job[j].sub) \subseteq items'[job[j].sub].listed]_vars
  <2> SUFFICES ASSUME Next, NEW j \in Jobs, At(j, "metadata"), job'[j].pc = "snapshot",
                      items'[job[j].sub] # None
               PROVE  Owned(job[j].sub) \subseteq items'[job[j].sub].listed
    BY <1>2
  <2>1. Owned(job[j].sub) \subseteq job[j].got /\ job[j].sub \in Subs
    BY <1>2 DEF StoredIsListed, Storing, At, CatalogTypeOK, JobsTypeOK, Shape
  <2>2. Metadata(j)
    <3>1. ~Crash
      BY DEF Crash, NoJob
    <3>2. PICK i \in Jobs : Arrive(i) \/ Continue(i)
      BY <3>1 DEF Next
    <3>3. CASE i # j
      <4>1. \E r : Becomes(i, r)
        <5>1. Arrive(i) => \E r : Becomes(i, r)
          BY DEF Arrive, AddNode, UpdateNode, DeleteNode, SelectNode, TestNode, BatchTest,
                 SmartSelect, AddSub, UpdateSub, DeleteSub, Refresh, RefreshDue
        <5>2. Continue(i) => \E r : Becomes(i, r)
          BY DEF Continue, Snapshot, Write, Rename, Saved, Goes, Check, Put, Deselect, Clear,
                 Select, Choose, Spawn, Dial, LookUp, Probed, BatchDone, Pick, Disown, SaveItems,
                 Claim, AllRefreshed, FetchFails, Fetched, Metadata, Release
        <5> QED BY <3>2, <5>1, <5>2
      <4>2. job'[j] = job[j]
        BY <1>2, <3>3, <4>1 DEF Becomes, CatalogTypeOK, JobsTypeOK
      <4> QED BY <4>2 DEF At
    <3>4. CASE i = j
      <4>1. job[j].spawned = {} /\ job[j].dialing = {} /\ job[j].found = {}
        BY <1>2 DEF At, CatalogTypeOK, JobsTypeOK, Shape
      <4>2. ~Arrive(j)
        BY DEF At, Arrive, Arrives, AddNode, UpdateNode, DeleteNode, SelectNode, TestNode,
               BatchTest, SmartSelect, AddSub, UpdateSub, DeleteSub, Refresh, RefreshDue
      <4> QED BY <3>2, <3>4, <4>1, <4>2
              DEF At, Continue, Snapshot, Write, Rename, Check, Put, Deselect, Clear,
                  Select, Choose, Spawn, Dial, LookUp, Probed, BatchDone, Pick, Disown, SaveItems,
                  Claim, AllRefreshed, FetchFails, Fetched, Release
    <3> QED BY <3>3, <3>4
  <2> QED BY <1>2, <2>1, <2>2 DEF Metadata, Record, CatalogTypeOK, ItemsTypeOK, ItemTable,
                                  Item, Live
<1> QED BY <1>1, <1>2, InitTyped, NextTyped, NextKeepsSlots, NextKeepsListed, SlotsHeld,
           PTL DEF Spec, RefreshListsItsNodes

-----------------------------------------------------------------------------
(* The disk, for one change at a time and no failing write.                  *)

\* The one job changes; what else a step has to show.
LEMMA DiskStep ==
  ASSUME CatalogTypeOK, NEW j \in Jobs, NEW r, Becomes(j, r)
  PROVE  /\ job'[j] = r
         /\ OwnersOnDisk' /\ (Synced(job[j]) /\ OwnersKnown(job[j]))' => DiskOf(j)'
BY DEF CatalogTypeOK, JobsTypeOK, Becomes, DiskOf

\* Between requests and saves, a step that leaves both stores alone.
LEMMA CalmStep ==
  ASSUME CatalogTypeOK, NEW j \in Jobs, DiskOf(j), NEW r, Becomes(j, r),
         UNCHANGED <<nodes, items, fileVars>>,
         job[j].pc \notin {"deselect", "clear", "disown", "saveItems", "snapshot", "write",
                           "rename"},
         r.pc \notin {"write", "rename"},
         r.pc \in {"check", "put"} => r.rec.owner \in {None} \cup Live,
         r.pc = "fetch" => r.sub \in Live
  PROVE  DiskOf(j)'
<1>1. job'[j] = r
  BY DiskStep
<1>2. Synced(job[j]) /\ OwnersKnown(job[j]) /\ OwnersOnDisk
  BY DEF DiskOf
<1>3. OwnersOnDisk'
  BY <1>2 DEF OwnersOnDisk, fileVars
<1>4. Synced(job[j])'
  BY <1>1, <1>2 DEF Synced, Writes, fileVars
<1>5. OwnersKnown(job[j])'
  BY <1>1, <1>2 DEF OwnersKnown, Writes, Known, Live, fileVars
<1> QED BY <1>3, <1>4, <1>5, DiskStep

\* A step that begins to save one store, the other one being in its file.
LEMMA SavingStep ==
  ASSUME CatalogTypeOK, NEW j \in Jobs, DiskOf(j), NEW r, NEW f \in Store,
         Becomes(j, r), r.pc = "snapshot", r.file = f, UNCHANGED fileVars,
         f = "nodes" => files["subscriptions"] = items' \/ r.then = "saveItems",
         f = "subscriptions" => files["nodes"] = nodes',
         \A n \in Known' : nodes'[n].owner \in {None} \cup Live',
         f = "nodes" => \A s \in Live' : files["subscriptions"][s] # None
  PROVE  DiskOf(j)'
<1>1. job'[j] = r
  BY DiskStep
<1>2. OwnersOnDisk'
  BY DEF DiskOf, OwnersOnDisk, fileVars
<1>3. Synced(job[j])'
  BY <1>1 DEF Synced, Writes, fileVars, Store
<1>4. OwnersKnown(job[j])'
  BY <1>1 DEF OwnersKnown, Writes, fileVars, Store
<1> QED BY <1>2, <1>3, <1>4, DiskStep

\* Outside a save and the steps just before it, memory is what the files hold.
LEMMA InFiles ==
  ASSUME NEW j \in Jobs, DiskOf(j)
  PROVE  /\ job[j].pc \notin {"snapshot", "write", "rename", "deselect", "clear"} =>
              files["nodes"] = nodes
         /\ job[j].pc \notin {"snapshot", "write", "rename", "disown", "saveItems"} =>
              files["subscriptions"] = items
         /\ job[j].pc # "disown" => \A n \in Known : nodes[n].owner \in {None} \cup Live
         /\ job[j].pc \notin {"snapshot", "write", "rename"} =>
              \A s \in Live : files["subscriptions"][s] # None
BY DEF DiskOf, Synced, OwnersKnown, Writes

\* The three steps of a save.
LEMMA SavesReachDisk ==
  ASSUME Faults = {}, CatalogTypeOK, NEW j \in Jobs, DiskOf(j),
         Snapshot(j) \/ Write(j) \/ Rename(j)
  PROVE  DiskOf(j)'
<1> USE DEF Writes, Store
<1>1. /\ job[j] \in JobRecord /\ Shape(job[j])
      /\ job[j].pc \in {"snapshot", "write", "rename"} /\ job[j].file \in Store
  BY DEF CatalogTypeOK, JobsTypeOK, Snapshot, Write, Rename, At, Shape
<1>2. Synced(job[j]) /\ OwnersKnown(job[j]) /\ OwnersOnDisk
  BY DEF DiskOf
<1>3. UNCHANGED <<nodes, items>>
  BY DEF Snapshot, Write, Rename, nodeVars, itemVars
<1>4. CASE Snapshot(j)
  <2> DEFINE r == [job[j] EXCEPT !.pc = "write", !.doc = Memory(job[j].file)]
  <2>1. Becomes(j, r)
    BY <1>4 DEF Snapshot, Memory
  <2>2. /\ r.pc = "write" /\ r.file = job[j].file /\ r.then = job[j].then
        /\ r.sub = job[j].sub /\ r.doc = Memory(job[j].file)
    BY <1>1 DEF JobRecord
  <2> HIDE DEF r
  <2>3. job'[j] = r /\ UNCHANGED fileVars
    BY <1>4, <2>1, DiskStep DEF Snapshot
  <2>4. OwnersOnDisk' /\ Synced(job[j])'
    BY <1>1, <1>2, <1>3, <2>2, <2>3 DEF OwnersOnDisk, fileVars, Synced, Memory
  <2>5. OwnersKnown(job[j])'
    BY <1>1, <1>2, <1>3, <2>2, <2>3 DEF OwnersKnown, Known, Live, fileVars
  <2> QED BY <2>1, <2>4, <2>5, DiskStep
<1>5. CASE Write(j)
  <2> DEFINE r == [job[j] EXCEPT !.pc = "rename", !.doc = None]
  <2>1. Becomes(j, r) /\ tmps' = [tmps EXCEPT ![job[j].file] = job[j].doc]
    BY <1>5 DEF Write
  <2>2. /\ r.pc = "rename" /\ r.file = job[j].file /\ r.then = job[j].then
        /\ r.sub = job[j].sub
    BY <1>1 DEF JobRecord
  <2>3. job[j].pc = "write" /\ UNCHANGED files
    BY <1>5 DEF Write, At
  <2>4. tmps'[job[j].file] = Memory(job[j].file)
    BY <1>1, <1>2, <2>1, <2>3 DEF CatalogTypeOK, FilesTypeOK, Synced
  <2> HIDE DEF r
  <2>5. job'[j] = r
    BY <2>1, DiskStep
  <2>6. OwnersOnDisk' /\ Synced(job[j])'
    BY <1>1, <1>2, <1>3, <2>2, <2>3, <2>4, <2>5 DEF OwnersOnDisk, Synced, Memory
  <2>7. OwnersKnown(job[j])'
    BY <1>1, <1>2, <1>3, <2>2, <2>3, <2>5 DEF OwnersKnown, Known, Live
  <2> QED BY <2>1, <2>6, <2>7, DiskStep
<1>6. CASE Rename(j)
  <2> DEFINE f == job[j].file
             l == job[j].then
             r == IF l = "idle" THEN NoJob
                  ELSE [job[j] EXCEPT !.pc = l, !.file = None, !.doc = None, !.then = "idle"]
  <2>1. job[j].pc = "rename" /\ tmps[f] = Memory(f)
    BY <1>2, <1>6 DEF Rename, At, Synced
  <2>2. Memory(f) # None
    BY CatalogAssumption DEF Memory, CatalogTypeOK, NodesTypeOK, ItemsTypeOK
  <2>3. files' = [files EXCEPT ![f] = Memory(f)] /\ Becomes(j, r)
    BY <1>6, <2>1, <2>2 DEF Rename, Saved
  <2>4. files'[f] = Memory(f) /\ \A g \in Store : g # f => files'[g] = files[g]
    BY <1>1, <2>3 DEF CatalogTypeOK, FilesTypeOK
  <2>5. r.pc = l /\ l \in {"idle", "saveItems", "metadata", "release"}
    BY <1>1 DEF Shape, JobRecord, NoJob
  <2> HIDE DEF r
  <2>6. job'[j] = r
    BY <2>3, DiskStep
  <2>7. CASE f = "nodes"
    <3>1. files'["nodes"] = nodes /\ files'["subscriptions"] = files["subscriptions"]
      BY <2>4, <2>7 DEF Memory
    <3>2. Synced(job[j])'
      BY <1>2, <1>3, <2>1, <2>5, <2>6, <2>7, <3>1 DEF Synced
    <3>3. OwnersKnown(job[j])'
      BY <1>2, <1>3, <2>1, <2>5, <2>6, <2>7, <3>1 DEF OwnersKnown, Known, Live
    <3>4. OwnersOnDisk'
      BY <1>2, <2>1, <2>7, <3>1 DEF OwnersOnDisk, OwnersKnown, Known, Live
    <3> QED BY <2>3, <3>2, <3>3, <3>4, DiskStep
  <2>8. CASE f = "subscriptions"
    <3>1. files'["subscriptions"] = items /\ files'["nodes"] = files["nodes"]
      BY <2>4, <2>8 DEF Memory
    <3>2. files["nodes"] = nodes
      BY <1>2, <2>1, <2>8 DEF Synced
    <3>3. Synced(job[j])'
      BY <1>3, <2>5, <2>6, <3>1, <3>2 DEF Synced
    <3>4. OwnersKnown(job[j])'
      BY <1>2, <1>3, <2>1, <2>5, <2>6, <3>1 DEF OwnersKnown, Known, Live
    <3>5. OwnersOnDisk'
      BY <1>2, <2>1, <3>1, <3>2 DEF OwnersOnDisk, OwnersKnown, Known, Live
    <3> QED BY <2>3, <3>3, <3>4, <3>5, DiskStep
  <2> QED BY <1>1, <2>7, <2>8
<1> QED BY <1>4, <1>5, <1>6

\* Requests on nodes.
LEMMA NodeRequestsReachDisk ==
  ASSUME CatalogTypeOK, NEW j \in Jobs, DiskOf(j),
         \/ AddNode(j) \/ UpdateNode(j) \/ Check(j) \/ Put(j) \/ DeleteNode(j)
         \/ Deselect(j) \/ Clear(j) \/ SelectNode(j) \/ Select(j) \/ Choose(j)
  PROVE  DiskOf(j)'
<1>1. /\ job[j] \in JobRecord /\ Shape(job[j])
      /\ NodesTypeOK /\ nodes \in NodeTable
  BY DEF CatalogTypeOK, JobsTypeOK, NodesTypeOK
<1>2. \A n, l : LET r == [NoJob EXCEPT !.pc = l, !.node = n] IN r.pc = l
  BY DEF NoJob
<1>3. \A f \in Store : LET r == Saving(NoJob, f, "idle") IN r.pc = "snapshot" /\ r.file = f
  BY DEF NoJob, Saving
<1>4. UNCHANGED <<items, fileVars>>
  BY DEF AddNode, UpdateNode, Check, Put, DeleteNode, Deselect, Clear, SelectNode, Select,
         Choose, itemVars
<1>5. ASSUME Becomes(j, Saving(NoJob, "nodes", "idle")),
             job[j].pc \in {"idle", "put", "deselect", "clear"},
             \A n \in Known' : nodes'[n].owner \in {None} \cup Live
      PROVE  DiskOf(j)'
  <2>1. files["subscriptions"] = items /\ \A s \in Live : files["subscriptions"][s] # None
    BY <1>5, InFiles
  <2>2. Live' = Live
    BY <1>4 DEF Live
  <2> QED BY <1>3, <1>4, <1>5, <2>1, <2>2, SavingStep DEF Store
<1>6. ASSUME NEW l \in {"idle", "put", "choose"}, Goes(j, l), UNCHANGED nodes,
             job[j].pc \in {"check", "select", "choose"}, l = "put" => job[j].pc = "check"
      PROVE  DiskOf(j)'
  <2>1. CASE l = "idle"
    BY <1>4, <1>6, <2>1, CalmStep DEF Goes, NoJob
  <2>2. CASE l # "idle"
    <3> DEFINE r == [job[j] EXCEPT !.pc = l]
    <3>1. Becomes(j, r) /\ r.pc = l /\ r.rec = job[j].rec
      BY <1>1, <1>6, <2>2 DEF Goes, JobRecord
    <3>2. l = "put" => job[j].rec.owner \in {None} \cup Live
      BY <1>6 DEF DiskOf, OwnersKnown
    <3> HIDE DEF r
    <3> QED BY <1>4, <1>6, <3>1, <3>2, CalmStep
  <2> QED BY <2>1, <2>2
<1>7. CASE AddNode(j)
  <2>1. PICK n \in Manual, e \in BOOLEAN : Insert(n, [owner |-> None, enabled |-> e])
    BY <1>7 DEF AddNode
  <2>2. job[j].pc = "idle"
    BY <1>7 DEF AddNode, Arrives, At
  <2>3. \A m \in Known' : nodes'[m].owner \in {None} \cup Live
    BY <1>1, <2>1, <2>2, InFiles, CatalogAssumption DEF Insert, Known, NodeTable
  <2> QED BY <1>5, <1>7, <2>2, <2>3 DEF AddNode
<1>8. CASE UpdateNode(j)
  <2>1. PICK n \in Known :
          Becomes(j, [NoJob EXCEPT !.pc = "check", !.node = n,
                        !.rec = [nodes[n] EXCEPT !.enabled = ~@]])
    BY <1>8 DEF UpdateNode
  <2> DEFINE r == [NoJob EXCEPT !.pc = "check", !.node = n,
                     !.rec = [nodes[n] EXCEPT !.enabled = ~@]]
  <2>2. job[j].pc = "idle" /\ UNCHANGED nodes
    BY <1>8 DEF UpdateNode, Arrives, At, nodeVars
  <2>3. r.pc = "check" /\ r.rec.owner = nodes[n].owner
    BY <1>1, Records DEF NoJob, NodeRecord
  <2>4. nodes[n].owner \in {None} \cup Live
    BY <2>2, InFiles
  <2> HIDE DEF r
  <2> QED BY <1>4, <2>1, <2>2, <2>3, <2>4, CalmStep DEF r
<1>9. CASE Check(j) \/ Select(j)
  BY <1>6, <1>9 DEF Check, Select, At, nodeVars
<1>10. CASE Choose(j)
  BY <1>6, <1>10 DEF Choose, At, SetSelected
<1>11. CASE Put(j)
  <2>1. job[j].pc = "put" /\ Insert(job[j].node, job[j].rec)
    BY <1>11 DEF Put, At
  <2>2. job[j].node \in Nodes /\ job[j].rec.owner \in {None} \cup Live
    BY <1>1, <2>1 DEF Shape, DiskOf, OwnersKnown
  <2>3. \A m \in Known' : nodes'[m].owner \in {None} \cup Live
    BY <1>1, <2>1, <2>2, InFiles DEF Insert, Known, NodeTable
  <2> QED BY <1>5, <1>11, <2>1, <2>3 DEF Put
<1>12. CASE DeleteNode(j)
  <2>1. PICK n \in Known : Remove(n) /\ Becomes(j, [NoJob EXCEPT !.pc = "deselect", !.node = n])
    BY <1>12 DEF DeleteNode
  <2> DEFINE r == [NoJob EXCEPT !.pc = "deselect", !.node = n]
  <2>2. r.pc = "deselect" /\ job[j].pc = "idle" /\ job'[j] = r
    BY <1>2, <1>12, <2>1, DiskStep DEF DeleteNode, Arrives, At
  <2>3. \A m \in Known' : nodes'[m].owner \in {None} \cup Live
    BY <1>1, <2>1, <2>2, InFiles DEF Remove, Known, NodeTable
  <2> HIDE DEF r
  <2>4. Synced(job[j])' /\ OwnersKnown(job[j])'
    BY <1>4, <2>2, <2>3, InFiles DEF Synced, OwnersKnown, Writes, Live, fileVars
  <2>5. OwnersOnDisk'
    BY <1>4 DEF DiskOf, OwnersOnDisk, fileVars
  <2> QED BY <2>1, <2>4, <2>5, DiskStep DEF r
<1>13. CASE Deselect(j)
  <2>1. job[j].pc = "deselect" /\ UNCHANGED nodes
    BY <1>13 DEF Deselect, At, nodeVars
  <2>2. \A m \in Known' : nodes'[m].owner \in {None} \cup Live
    BY <2>1, InFiles DEF Known
  <2>3. CASE Goes(j, "clear")
    <3> DEFINE r == [job[j] EXCEPT !.pc = "clear"]
    <3>1. Becomes(j, r) /\ r.pc = "clear"
      BY <1>1, <2>3 DEF Goes, JobRecord
    <3> HIDE DEF r
    <3>2. job'[j] = r
      BY <3>1, DiskStep
    <3>3. Synced(job[j])' /\ OwnersKnown(job[j])'
      BY <1>4, <2>1, <2>2, <3>1, <3>2, InFiles
         DEF Synced, OwnersKnown, Writes, Live, fileVars
    <3>4. OwnersOnDisk'
      BY <1>4 DEF DiskOf, OwnersOnDisk, fileVars
    <3> QED BY <3>1, <3>3, <3>4, DiskStep
  <2>4. CASE Becomes(j, Saving(NoJob, "nodes", "idle"))
    BY <1>5, <2>1, <2>2, <2>4
  <2> QED BY <1>13, <2>3, <2>4 DEF Deselect
<1>14. CASE Clear(j)
  <2>1. job[j].pc = "clear" /\ UNCHANGED nodes
    BY <1>14 DEF Clear, At, SetSelected
  <2>2. \A m \in Known' : nodes'[m].owner \in {None} \cup Live
    BY <2>1, InFiles DEF Known
  <2> QED BY <1>5, <1>14, <2>1, <2>2 DEF Clear
<1>15. CASE SelectNode(j)
  <2>1. PICK n : Becomes(j, [NoJob EXCEPT !.pc = "select", !.node = n])
    BY <1>15 DEF SelectNode
  <2>2. job[j].pc = "idle" /\ UNCHANGED nodes
    BY <1>15 DEF SelectNode, Arrives, At, nodeVars
  <2> QED BY <1>2, <1>4, <2>1, <2>2, CalmStep
<1> QED BY <1>7, <1>8, <1>9, <1>10, <1>11, <1>12, <1>13, <1>14, <1>15

\* Probes touch neither store.
LEMMA ProbesReachDisk ==
  ASSUME CatalogTypeOK, NEW j \in Jobs, DiskOf(j),
         \/ TestNode(j) \/ BatchTest(j) \/ SmartSelect(j) \/ Spawn(j) \/ Dial(j)
         \/ LookUp(j) \/ Probed(j) \/ BatchDone(j) \/ Pick(j)
  PROVE  DiskOf(j)'
<1>1. job[j] \in JobRecord /\ Shape(job[j])
  BY DEF CatalogTypeOK, JobsTypeOK
<1>2. UNCHANGED <<nodes, items, fileVars>>
  BY DEF TestNode, BatchTest, SmartSelect, Spawn, Dial, LookUp, Probed, BatchDone, Pick, nodeVars,
         itemVars, StartProbe, ForgetProbe, EndProbe
<1>3. job[j].pc \in {"idle", "batch", "rank", "pick"}
  BY <1>1 DEF TestNode, BatchTest, SmartSelect, Spawn, Dial, LookUp, Probed, BatchDone, Pick, Arrives,
              At, Shape
<1>4. ASSUME NEW r, Becomes(j, r), r.pc \in {"idle", "batch", "rank", "pick", "select"}
      PROVE  DiskOf(j)'
  BY <1>2, <1>3, <1>4, CalmStep
<1>5. CASE TestNode(j) \/ BatchTest(j) \/ SmartSelect(j)
  <2>1. ASSUME NEW w, NEW l \in {"batch", "rank"},
               Becomes(j, [NoJob EXCEPT !.pc = l, !.todo = w])
        PROVE  DiskOf(j)'
    <3>1. [NoJob EXCEPT !.pc = l, !.todo = w].pc = l
      BY DEF NoJob
    <3> QED BY <1>4, <2>1, <3>1
  <2> QED BY <1>5, <2>1 DEF TestNode, BatchTest, SmartSelect
<1>6. CASE Spawn(j) \/ Dial(j) \/ LookUp(j) \/ Probed(j)
  <2>1. PICK n : \/ Becomes(j, [job[j] EXCEPT !.todo = @ \ {n}, !.spawned = @ \cup {n}])
                \/ Becomes(j, [job[j] EXCEPT !.spawned = @ \ {n}, !.dialing = @ \cup {n}])
                \/ Becomes(j, [job[j] EXCEPT !.spawned = @ \ {n}])
                \/ Becomes(j, [job[j] EXCEPT !.dialing = @ \ {n}])
                \/ Becomes(j, [job[j] EXCEPT !.found = @ \cup {n}])
                \/ Becomes(j, [job[j] EXCEPT !.dialing = @ \ {n}, !.found = @ \ {n}])
    BY <1>6 DEF Spawn, Dial, LookUp, Probed, PermitBack
  <2>2. /\ [job[j] EXCEPT !.todo = @ \ {n}, !.spawned = @ \cup {n}].pc = job[j].pc
        /\ [job[j] EXCEPT !.spawned = @ \ {n}, !.dialing = @ \cup {n}].pc = job[j].pc
        /\ [job[j] EXCEPT !.spawned = @ \ {n}].pc = job[j].pc
        /\ [job[j] EXCEPT !.dialing = @ \ {n}].pc = job[j].pc
        /\ [job[j] EXCEPT !.found = @ \cup {n}].pc = job[j].pc
        /\ [job[j] EXCEPT !.dialing = @ \ {n}, !.found = @ \ {n}].pc = job[j].pc
    BY <1>1 DEF JobRecord
  <2> QED BY <1>3, <1>4, <2>1, <2>2
<1>7. CASE BatchDone(j) \/ Pick(j)
  <2>1. \/ Becomes(j, NoJob)
        \/ Becomes(j, [job[j] EXCEPT !.pc = "pick"])
        \/ \E n : Becomes(j, [NoJob EXCEPT !.pc = "select", !.node = n])
    BY <1>7 DEF BatchDone, Pick, Goes
  <2>2. /\ NoJob.pc = "idle" /\ [job[j] EXCEPT !.pc = "pick"].pc = "pick"
        /\ \A n : [NoJob EXCEPT !.pc = "select", !.node = n].pc = "select"
    BY <1>1 DEF NoJob, JobRecord
  <2> QED BY <1>4, <2>1, <2>2
<1> QED BY <1>5, <1>6, <1>7

\* Adding, switching or recording a subscription takes none away.
LEMMA LiveGrows ==
  ASSUME ItemsTypeOK, NEW s \in Subs,
         \/ \E e \in BOOLEAN : AddItem(s, e)
         \/ s \in Live /\ \E e \in BOOLEAN : SetEnabled(s, e)
         \/ \E w \in SUBSET Nodes : Record(s, w)
  PROVE  Live \subseteq Live'
<1>1. items \in [Subs -> Item \cup {None}] /\ None \notin Item
  BY CatalogAssumption DEF ItemsTypeOK, ItemTable, Item
<1>2. ASSUME NEW v \in Item, items' = [items EXCEPT ![s] = v]
      PROVE  Live \subseteq Live'
  <2>1. \A t \in Subs : items'[t] = IF t = s THEN v ELSE items[t]
    BY <1>1, <1>2
  <2> QED BY <1>1, <2>1 DEF Live
<1>3. ASSUME NEW e \in BOOLEAN, AddItem(s, e)
      PROVE  Live \subseteq Live'
  <2> DEFINE v == [enabled |-> e, listed |-> {}, fetched |-> FALSE]
  <2>1. v \in Item
    BY DEF Item
  <2>2. items' = [items EXCEPT ![s] = v]
    BY <1>3 DEF AddItem
  <2> QED BY <2>1, <2>2, <1>2
<1>4. ASSUME s \in Live, NEW e \in BOOLEAN, SetEnabled(s, e)
      PROVE  Live \subseteq Live'
  <2> DEFINE v == [items[s] EXCEPT !.enabled = e]
  <2>1. v \in Item
    BY <1>1, <1>4 DEF Item, Live
  <2>2. items' = [items EXCEPT ![s] = v]
    BY <1>4 DEF SetEnabled
  <2> QED BY <2>1, <2>2, <1>2
<1>5. ASSUME NEW w \in SUBSET Nodes, Record(s, w)
      PROVE  Live \subseteq Live'
  <2> DEFINE v == [items[s] EXCEPT !.listed = w, !.fetched = TRUE]
  <2>1. CASE s \notin Live
    BY <1>5, <2>1 DEF Record, Live
  <2>2. CASE s \in Live
    <3>1. v \in Item
      BY <1>1, <2>2 DEF Item, Live
    <3>2. items' = [items EXCEPT ![s] = v]
      BY <1>5, <2>2 DEF Record
    <3> QED BY <3>1, <3>2, <1>2
  <2> QED BY <2>1, <2>2
<1> QED BY <1>3, <1>4, <1>5

\* Requests on subscriptions, and the refresh.
LEMMA SubRequestsReachDisk ==
  ASSUME CatalogTypeOK, NEW j \in Jobs, DiskOf(j),
         \/ AddSub(j) \/ UpdateSub(j) \/ DeleteSub(j) \/ Disown(j) \/ SaveItems(j)
         \/ Refresh(j) \/ RefreshDue(j) \/ Claim(j) \/ AllRefreshed(j) \/ FetchFails(j)
         \/ Fetched(j) \/ Metadata(j) \/ Release(j)
  PROVE  DiskOf(j)'
<1>1. /\ job[j] \in JobRecord /\ Shape(job[j])
      /\ nodes \in NodeTable /\ items \in ItemTable
  BY DEF CatalogTypeOK, JobsTypeOK, NodesTypeOK, ItemsTypeOK
<1>2. UNCHANGED fileVars
  BY DEF AddSub, UpdateSub, DeleteSub, Disown, SaveItems, Refresh, RefreshDue, Claim,
         AllRefreshed, FetchFails, Fetched, Metadata, Release
<1>3. ASSUME Live \subseteq Live', NEW r, Becomes(j, r), r.pc = "snapshot",
             r.file = "subscriptions", job[j].pc \in {"idle", "saveItems", "metadata"},
             UNCHANGED nodes
      PROVE  DiskOf(j)'
  <2>1. files["nodes"] = nodes /\ \A n \in Known : nodes[n].owner \in {None} \cup Live
    BY <1>3, InFiles
  <2>2. \A n \in Known' : nodes'[n].owner \in {None} \cup Live'
    BY <1>3, <2>1 DEF Known
  <2> QED BY <1>2, <1>3, <2>1, <2>2, SavingStep DEF Store
<1>4. ASSUME NEW r, Becomes(j, r), r.pc \in {"idle", "claim", "release", "fetch"},
             r.pc = "fetch" => r.sub \in Live, UNCHANGED <<nodes, items>>,
             job[j].pc \in {"idle", "claim", "fetch", "release"}
      PROVE  DiskOf(j)'
  BY <1>2, <1>4, CalmStep
<1>5. CASE AddSub(j) \/ UpdateSub(j)
  <2>1. Live \subseteq Live'
    <3>1. CASE AddSub(j)
      <4>1. PICK s \in Subs, e \in BOOLEAN : AddItem(s, e)
        BY <3>1 DEF AddSub
      <4> QED BY <4>1, LiveGrows DEF CatalogTypeOK
    <3>2. CASE UpdateSub(j)
      <4>1. PICK s \in Live, e \in BOOLEAN : SetEnabled(s, e)
        BY <3>2 DEF UpdateSub
      <4>2. s \in Subs
        BY DEF Live
      <4> QED BY <4>1, <4>2, LiveGrows DEF CatalogTypeOK
    <3> QED BY <1>5, <3>1, <3>2
  <2>2. Becomes(j, Saving(NoJob, "subscriptions", "idle")) /\ UNCHANGED nodes
    BY <1>5 DEF AddSub, UpdateSub, nodeVars
  <2>3. Saving(NoJob, "subscriptions", "idle").pc = "snapshot"
        /\ Saving(NoJob, "subscriptions", "idle").file = "subscriptions"
    BY DEF Saving, NoJob
  <2> QED BY <1>3, <1>5, <2>1, <2>2, <2>3 DEF AddSub, UpdateSub, Arrives, At
<1>6. CASE DeleteSub(j)
  <2>1. PICK s \in Live : RemoveItem(s) /\ Becomes(j, Removing(s))
    BY <1>6 DEF DeleteSub
  <2> DEFINE r == Removing(s)
  <2>2. r.pc = "disown" /\ r.sub = s
    BY DEF Removing, NoJob
  <2>3. job[j].pc = "idle" /\ UNCHANGED nodes /\ job'[j] = r
    BY <1>6, <2>1, DiskStep DEF DeleteSub, Arrives, At, nodeVars
  <2>4. Live' = Live \ {s}
    BY <1>1, <2>1 DEF RemoveItem, Live, ItemTable
  <2> HIDE DEF r
  <2>5. Synced(job[j])' /\ OwnersKnown(job[j])'
    BY <1>2, <2>2, <2>3, <2>4, InFiles DEF Synced, OwnersKnown, Writes, Known, fileVars
  <2>6. OwnersOnDisk'
    BY <1>2 DEF DiskOf, OwnersOnDisk, fileVars
  <2> QED BY <2>1, <2>5, <2>6, DiskStep DEF r
<1>7. CASE Disown(j)
  <2> DEFINE r == Saving(job[j], "nodes", "saveItems")
             s == job[j].sub
  <2>1. job[j].pc = "disown" /\ s \in Subs /\ Replace(s, {}) /\ Becomes(j, r)
    BY <1>1, <1>7 DEF Disown, At, Shape
  <2>2. r.pc = "snapshot" /\ r.file = "nodes" /\ r.then = "saveItems"
    BY <1>1 DEF Saving, JobRecord
  <2>3. UNCHANGED items
    BY <1>7 DEF Disown, itemVars
  <2>4. \A n \in Known' : n \in Known /\ nodes'[n] = nodes[n] /\ nodes[n].owner # s
    BY <2>1 DEF Replace, Known, Owned
  <2>5. \A n \in Known' : nodes'[n].owner \in {None} \cup Live'
    BY <2>1, <2>3, <2>4 DEF DiskOf, OwnersKnown, Live
  <2>6. \A t \in Live' : files["subscriptions"][t] # None
    BY <2>1, <2>3, InFiles DEF Live
  <2> HIDE DEF r
  <2> QED BY <1>2, <2>1, <2>2, <2>5, <2>6, SavingStep DEF Store
<1>8. CASE SaveItems(j)
  <2>1. Becomes(j, Saving(NoJob, "subscriptions", "idle")) /\ UNCHANGED <<nodes, items>>
    BY <1>8 DEF SaveItems, nodeVars, itemVars
  <2>2. Saving(NoJob, "subscriptions", "idle").pc = "snapshot"
        /\ Saving(NoJob, "subscriptions", "idle").file = "subscriptions"
    BY DEF Saving, NoJob
  <2>3. Live \subseteq Live'
    BY <2>1 DEF Live
  <2> QED BY <1>3, <1>8, <2>1, <2>2, <2>3 DEF SaveItems, At
<1>9. CASE Refresh(j) \/ RefreshDue(j)
  <2>1. PICK w : Becomes(j, [NoJob EXCEPT !.pc = "claim", !.due = w])
    BY <1>9 DEF Refresh, RefreshDue
  <2>2. [NoJob EXCEPT !.pc = "claim", !.due = w].pc = "claim"
    BY DEF NoJob
  <2> QED BY <1>4, <1>9, <2>1, <2>2 DEF Refresh, RefreshDue, Arrives, At, nodeVars, itemVars
<1>10. CASE Claim(j)
  <2>1. UNCHANGED <<nodes, items>> /\ job[j].pc = "claim"
    BY <1>10 DEF Claim, At, nodeVars, itemVars, TakeSlot
  <2>2. PICK s \in job[j].due :
          \/ \E l \in {"fetch", "release"} :
               /\ l = "fetch" => s \in Live
               /\ Becomes(j, [job[j] EXCEPT !.due = @ \ {s}, !.sub = s, !.pc = l])
          \/ Becomes(j, [job[j] EXCEPT !.due = @ \ {s}])
    BY <1>10 DEF Claim
  <2>3. ASSUME NEW l \in {"fetch", "release"}, l = "fetch" => s \in Live,
               Becomes(j, [job[j] EXCEPT !.due = @ \ {s}, !.sub = s, !.pc = l])
        PROVE  DiskOf(j)'
    <3> DEFINE r == [job[j] EXCEPT !.due = @ \ {s}, !.sub = s, !.pc = l]
    <3>1. r.pc = l /\ r.sub = s
      BY <1>1 DEF JobRecord
    <3> QED BY <1>4, <2>1, <2>3, <3>1
  <2>4. CASE Becomes(j, [job[j] EXCEPT !.due = @ \ {s}])
    <3> DEFINE r == [job[j] EXCEPT !.due = @ \ {s}]
    <3>1. r.pc = "claim"
      BY <1>1, <2>1 DEF JobRecord
    <3> QED BY <1>4, <2>1, <2>4, <3>1
  <2> QED BY <2>2, <2>3, <2>4
<1>11. CASE AllRefreshed(j)
  BY <1>4, <1>11 DEF AllRefreshed, Goes, NoJob, At, nodeVars, itemVars
<1>12. CASE FetchFails(j)
  <2> DEFINE r == [job[j] EXCEPT !.pc = "release"]
  <2>1. Becomes(j, r) /\ r.pc = "release"
    BY <1>1, <1>12 DEF FetchFails, Goes, JobRecord
  <2> QED BY <1>4, <1>12, <2>1 DEF FetchFails, At, nodeVars, itemVars
<1>13. CASE Fetched(j)
  <2>1. PICK w \in Feeds : /\ Replace(job[j].sub, w)
                           /\ Becomes(j, Saving([job[j] EXCEPT !.got = w], "nodes", "metadata"))
    BY <1>13 DEF Fetched
  <2> DEFINE r == Saving([job[j] EXCEPT !.got = w], "nodes", "metadata")
             s == job[j].sub
  <2>2. r.pc = "snapshot" /\ r.file = "nodes"
    BY <1>1 DEF Saving, JobRecord
  <2>3. job[j].pc = "fetch" /\ UNCHANGED items
    BY <1>13 DEF Fetched, At, itemVars
  <2>4. s \in Live
    BY <2>3 DEF DiskOf, OwnersKnown
  <2>5. \A n \in Known' : nodes'[n].owner = s \/ (n \in Known /\ nodes'[n] = nodes[n])
    BY <2>1 DEF Replace, Known
  <2>6. \A n \in Known' : nodes'[n].owner \in {None} \cup Live'
    BY <2>3, <2>4, <2>5, InFiles DEF Live
  <2>7. files["subscriptions"] = items' /\ \A t \in Live' : files["subscriptions"][t] # None
    BY <2>3, InFiles DEF Live
  <2> HIDE DEF r
  <2> QED BY <1>2, <2>1, <2>2, <2>6, <2>7, SavingStep DEF r, Store
<1>14. CASE Metadata(j)
  <2> DEFINE r == Saving(job[j], "subscriptions", "release")
  <2>1. Becomes(j, r) /\ r.pc = "snapshot" /\ r.file = "subscriptions"
    BY <1>1, <1>14 DEF Metadata, Saving, JobRecord
  <2>2. Live \subseteq Live'
    <3>1. job[j].sub \in Subs /\ job[j].got \in SUBSET Nodes /\ Record(job[j].sub, job[j].got)
      BY <1>1, <1>14 DEF Metadata, At, Shape, JobRecord
    <3> QED BY <3>1, LiveGrows DEF CatalogTypeOK
  <2> HIDE DEF r
  <2> QED BY <1>3, <1>14, <2>1, <2>2 DEF Metadata, At, nodeVars
<1>15. CASE Release(j)
  <2> DEFINE r == [job[j] EXCEPT !.pc = "claim", !.sub = None, !.got = {}]
  <2>1. Becomes(j, r) /\ r.pc = "claim"
    BY <1>1, <1>15 DEF Release, JobRecord
  <2> QED BY <1>4, <1>15, <2>1 DEF Release, FreeSlot, At, nodeVars
<1> QED BY <1>5, <1>6, <1>7, <1>8, <1>9, <1>10, <1>11, <1>12, <1>13, <1>14, <1>15

\* A step of a job that changes no store, neither before nor after it.
LEMMA QuietStep ==
  ASSUME CatalogTypeOK, NEW j \in Jobs, Arrive(j) \/ Continue(j),
         ~Changing(job[j]), ~Changing(job'[j])
  PROVE  UNCHANGED <<nodes, items, fileVars>>
<1>1. job[j] \in JobRecord /\ Shape(job[j])
  BY DEF CatalogTypeOK, JobsTypeOK
<1>2. ASSUME NEW r, Becomes(j, r) PROVE job'[j] = r
  BY <1>2 DEF CatalogTypeOK, JobsTypeOK, Becomes
<1>3. ~(Snapshot(j) \/ Write(j) \/ Rename(j) \/ Check(j) \/ Put(j) \/ Deselect(j)
        \/ Clear(j) \/ Disown(j) \/ SaveItems(j) \/ Metadata(j))
  BY DEF Snapshot, Write, Rename, Check, Put, Deselect, Clear, Disown, SaveItems, Metadata,
         At, Changing
<1>4. /\ \A f \in Store : Saving(NoJob, f, "idle").pc = "snapshot"
      /\ \A w : Saving([job[j] EXCEPT !.got = w], "nodes", "metadata").pc = "snapshot"
      /\ \A s : Removing(s).pc = "disown"
      /\ \A n : [NoJob EXCEPT !.pc = "deselect", !.node = n].pc = "deselect"
  BY <1>1 DEF Saving, Removing, NoJob, JobRecord
<1>5. ASSUME AddNode(j) \/ AddSub(j) \/ UpdateSub(j) \/ Fetched(j) PROVE FALSE
  <2>1. \E r : Becomes(j, r) /\ r.pc = "snapshot"
    BY <1>4, <1>5 DEF AddNode, AddSub, UpdateSub, Fetched, Store
  <2>2. job'[j].pc = "snapshot"
    BY <1>2, <2>1
  <2> QED BY <2>2 DEF Changing
<1>6. ASSUME DeleteNode(j) \/ DeleteSub(j) PROVE FALSE
  <2>1. \E r : Becomes(j, r) /\ r.pc \in {"deselect", "disown"}
    BY <1>4, <1>6 DEF DeleteNode, DeleteSub
  <2>2. job'[j].pc \in {"deselect", "disown"}
    BY <1>2, <2>1
  <2> QED BY <2>2 DEF Changing
<1>7. ASSUME UpdateNode(j) PROVE FALSE
  <2>1. PICK n \in Known :
          Becomes(j, [NoJob EXCEPT !.pc = "check", !.node = n,
                        !.rec = [nodes[n] EXCEPT !.enabled = ~@]])
    BY <1>7 DEF UpdateNode
  <2> DEFINE r == [NoJob EXCEPT !.pc = "check", !.node = n,
                     !.rec = [nodes[n] EXCEPT !.enabled = ~@]]
  <2>2. r.pc = "check"
    BY DEF NoJob
  <2> HIDE DEF r
  <2>3. job'[j] = r
    BY <1>2, <2>1 DEF r
  <2> QED BY <2>2, <2>3 DEF Changing
<1>8. CASE SelectNode(j) \/ Select(j) \/ Choose(j)
  BY <1>8 DEF SelectNode, Select, Choose, SetSelected, nodeVars, itemVars
<1>9. CASE TestNode(j) \/ BatchTest(j) \/ SmartSelect(j) \/ Spawn(j) \/ Dial(j)
           \/ LookUp(j) \/ Probed(j) \/ BatchDone(j) \/ Pick(j)
  BY <1>9 DEF TestNode, BatchTest, SmartSelect, Spawn, Dial, LookUp, Probed, BatchDone, Pick,
              StartProbe, ForgetProbe, EndProbe, nodeVars, itemVars
<1>10. CASE Refresh(j) \/ RefreshDue(j) \/ Claim(j) \/ AllRefreshed(j) \/ FetchFails(j)
            \/ Release(j)
  BY <1>10 DEF Refresh, RefreshDue, Claim, AllRefreshed, FetchFails, Release, TakeSlot,
               FreeSlot, nodeVars, itemVars
<1> QED BY <1>3, <1>5, <1>6, <1>7, <1>8, <1>9, <1>10 DEF Arrive, Continue

\* A step of a job concerns no other one.
LEMMA OneSteps ==
  ASSUME CatalogTypeOK, NEW j \in Jobs, Arrive(j) \/ Continue(j)
  PROVE  \A i \in Jobs \ {j} : job'[i] = job[i]
<1>1. ASSUME NEW r, Becomes(j, r) PROVE \A i \in Jobs \ {j} : job'[i] = job[i]
  BY <1>1 DEF CatalogTypeOK, JobsTypeOK, Becomes
<1>2. \E r : Becomes(j, r)
  <2>1. CASE Arrive(j)
    BY <2>1 DEF Arrive, AddNode, UpdateNode, DeleteNode, SelectNode, TestNode, BatchTest,
                SmartSelect, AddSub, UpdateSub, DeleteSub, Refresh, RefreshDue
  <2>2. CASE Snapshot(j) \/ Write(j) \/ Rename(j) \/ Check(j) \/ Put(j) \/ Deselect(j)
             \/ Clear(j) \/ Select(j) \/ Choose(j) \/ Disown(j) \/ SaveItems(j)
    BY <2>2 DEF Snapshot, Write, Rename, Saved, Check, Put, Deselect, Clear, Select, Choose,
                Disown, SaveItems, Goes
  <2>3. CASE Spawn(j) \/ Dial(j) \/ LookUp(j) \/ Probed(j) \/ BatchDone(j) \/ Pick(j) \/ Claim(j)
             \/ AllRefreshed(j) \/ FetchFails(j) \/ Fetched(j) \/ Metadata(j) \/ Release(j)
    BY <2>3 DEF Spawn, Dial, LookUp, Probed, BatchDone, Pick, Claim, AllRefreshed, FetchFails,
                Fetched, Metadata, Release, Goes
  <2> QED BY <2>1, <2>2, <2>3 DEF Continue
<1> QED BY <1>1, <1>2

\* Between two changes one job sees the disk as any other does.
LEMMA DiskShared ==
  ASSUME NEW i \in Jobs, NEW j \in Jobs, DiskOf(i), FetchedStillLive,
         ~Changing(job[i]), ~Changing(job[j])
  PROVE  DiskOf(j)
BY DEF DiskOf, Synced, OwnersKnown, Writes, Changing, FetchedStillLive, At

\* The same after a step.
LEMMA DiskSharedNext ==
  ASSUME NEW i \in Jobs, NEW j \in Jobs, DiskOf(i)', FetchedStillLive',
         ~Changing(job'[i]), ~Changing(job'[j])
  PROVE  DiskOf(j)'
BY DEF DiskOf, Synced, OwnersKnown, Writes, Changing, FetchedStillLive, At

LEMMA JobReachesDisk ==
  ASSUME Faults = {}, CatalogTypeOK, NEW j \in Jobs, DiskOf(j), Arrive(j) \/ Continue(j)
  PROVE  DiskOf(j)'
BY SavesReachDisk, NodeRequestsReachDisk, ProbesReachDisk, SubRequestsReachDisk
   DEF Arrive, Continue

\* A step that leaves both stores, their files and a job alone.
LEMMA DiskAlone ==
  ASSUME NEW j \in Jobs, DiskOf(j), UNCHANGED <<nodes, items, fileVars>>, job'[j] = job[j]
  PROVE  DiskOf(j)'
BY DEF DiskOf, OwnersOnDisk, Synced, OwnersKnown, Writes, Memory, Known, Live, fileVars

\* While a job changes a store the others leave the disk alone, and when none does
\* all of them see it as it is.
LEMMA NextReachesDisk ==
  ASSUME Faults = {}
  PROVE  CatalogTypeOK /\ OneChange /\ OneChange' /\ FetchedStillLive' /\ DiskInv
           /\ [Next]_vars => DiskInv'
<1> SUFFICES ASSUME CatalogTypeOK, OneChange, OneChange', FetchedStillLive', DiskInv,
                    [Next]_vars
             PROVE  DiskInv'
  OBVIOUS
<1>1. ASSUME NEW j \in Jobs, Arrive(j) \/ Continue(j) PROVE DiskInv'
  <2>1. \A i \in Jobs \ {j} : job'[i] = job[i]
    BY <1>1, OneSteps
  <2>2. CASE \A i \in Jobs \ {j} : ~Changing(job[i])
    <3>1. DiskOf(j)'
      BY <1>1, <2>2, JobReachesDisk DEF DiskInv
    <3>2. OwnersOnDisk'
      BY <3>1 DEF DiskOf
    <3>3. ASSUME NEW i \in Jobs, i # j, \A k \in Jobs \ {i} : ~Changing(job'[k])
          PROVE  DiskOf(i)'
      BY <2>1, <2>2, <3>1, <3>3, DiskSharedNext
    <3> QED BY <3>1, <3>2, <3>3 DEF DiskInv
  <2>3. ASSUME NEW i \in Jobs \ {j}, Changing(job[i]) PROVE DiskInv'
    <3>1. ~Changing(job[j]) /\ \A k \in Jobs \ {i} : ~Changing(job[k])
      BY <2>3 DEF OneChange
    <3>2. ~Changing(job'[j])
      BY <2>1, <2>3 DEF OneChange
    <3>3. UNCHANGED <<nodes, items, fileVars>>
      BY <1>1, <3>1, <3>2, QuietStep
    <3>4. DiskOf(i)'
      BY <2>1, <3>1, <3>3, DiskAlone DEF DiskInv
    <3>5. OwnersOnDisk'
      BY <3>4 DEF DiskOf
    <3>6. ASSUME NEW k \in Jobs, \A l \in Jobs \ {k} : ~Changing(job'[l])
          PROVE  k = i
      BY <2>1, <2>3, <3>6
    <3> QED BY <3>4, <3>5, <3>6 DEF DiskInv
  <2> QED BY <2>2, <2>3
<1>2. CASE Crash
  <2>1. /\ \A j \in Jobs : job'[j].pc = "idle"
        /\ nodes' = files["nodes"] /\ items' = files["subscriptions"] /\ UNCHANGED files
    BY <1>2 DEF Crash, NoJob, fileVars
  <2>2. OwnersOnDisk'
    BY <2>1 DEF DiskInv, OwnersOnDisk
  <2>3. ASSUME NEW j \in Jobs PROVE Synced(job[j])'
    BY <2>1, <2>3 DEF Synced
  <2>4. ASSUME NEW j \in Jobs PROVE OwnersKnown(job[j])'
    BY <2>1, <2>4 DEF DiskInv, OwnersKnown, OwnersOnDisk, Known, Live
  <2>5. ASSUME NEW j \in Jobs PROVE DiskOf(j)'
    BY <2>2, <2>3, <2>4 DEF DiskOf
  <2> QED BY <2>2, <2>5 DEF DiskInv
<1>3. CASE UNCHANGED vars
  <2>1. UNCHANGED <<nodes, items, fileVars>> /\ job' = job
    BY <1>3 DEF vars, nodeVars, itemVars
  <2>2. ASSUME NEW j \in Jobs, DiskOf(j) PROVE DiskOf(j)'
    BY <2>1, <2>2, DiskAlone
  <2>3. OwnersOnDisk'
    BY <2>1 DEF DiskInv, OwnersOnDisk, fileVars
  <2>4. ASSUME NEW j \in Jobs, \A i \in Jobs \ {j} : ~Changing(job'[i])
        PROVE  DiskOf(j)'
    BY <2>1, <2>2, <2>4 DEF DiskInv
  <2> QED BY <2>3, <2>4 DEF DiskInv
<1> QED BY <1>1, <1>2, <1>3 DEF Next

LEMMA DiskKept ==
  ASSUME Faults = {}
  PROVE  Spec /\ []OneChange /\ []FetchedStillLive => [](CatalogTypeOK /\ DiskInv)
<1>1. Init => DiskInv
  BY DEF Init, NoJob, NodesLoaded, ItemsLoaded, DiskInv, DiskOf, OwnersOnDisk, Synced,
         OwnersKnown, Writes, Known, Live, Store
<1> QED BY <1>1, InitTyped, NextTyped, NextReachesDisk, PTL DEF Spec

\* If no write fails, then among any number of requests and background refreshes
\* only two things can leave on the disk a node of a subscription that is not on
\* it, whenever the service is killed: two changes that overlap, which share a
\* temporary file and save one another's halves (config/manager.rs:98), and the
\* deletion of a subscription during its download, whose nodes are then stored
\* without another look (subscription/manager.rs:218-270).
THEOREM DiskNamesItsOwners ==
  ASSUME Faults = {}
  PROVE  Spec /\ []OneChange /\ []FetchedStillLive => []OwnersOnDisk
<1>1. DiskInv => OwnersOnDisk
  BY DEF DiskInv
<1> QED BY <1>1, DiskKept, PTL

\* Under the same conditions both files hold what memory holds as soon as no
\* request is left (nodes/manager.rs:127-130).
THEOREM RequestsReachDisk ==
  ASSUME Faults = {}, Jobs # {}
  PROVE  Spec /\ []OneChange /\ []FetchedStillLive => []SettledIsSaved
<1>1. DiskInv => SettledIsSaved
  <2> SUFFICES ASSUME DiskInv, \A j \in Jobs : At(j, "idle")
               PROVE  files["nodes"] = nodes /\ files["subscriptions"] = items
    BY DEF SettledIsSaved
  <2>1. PICK j \in Jobs : TRUE
    OBVIOUS
  <2>2. DiskOf(j) /\ job[j].pc = "idle"
    BY DEF DiskInv, Changing, At
  <2> QED BY <2>2, InFiles
<1> QED BY <1>1, DiskKept, PTL
=============================================================================
