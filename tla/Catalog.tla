------------------------------ MODULE Catalog ------------------------------
(***************************************************************************)
(* Nodes and subscriptions: the requests that change them, the refresh     *)
(* pipeline, the probes, and the two files.                                *)
(*                                                                         *)
(* A job is the task of a request or the background refresh; it serves one *)
(* request after the other.  A step is what runs under one lock, or the    *)
(* code between two awaits where no other lock is taken.  Saving a store   *)
(* is three steps, snapshot, write of the temporary file and rename, and   *)
(* no lock is held across them; the write itself is one step.              *)
(*                                                                         *)
(* Nothing is counted, so that no bound is needed: a uuid is taken from    *)
(* Subs once, and a crash may come at any step.                            *)
(***************************************************************************)
EXTENDS FiniteSets, Naturals, SubscriptionStore

CONSTANTS
  Jobs,       \* concurrent tasks
  Manual,     \* ids of nodes clients add themselves
  Feeds,      \* what a download may contain: nonempty sets of nodes
  Permits,    \* width of the semaphore of batch_test
  Top,        \* number of candidates smart_select probes
  Requests,   \* the kinds of request that arrive: a subset of RequestKinds
  MayCrash    \* the service may be killed

VARIABLES
  files,   \* content of nodes.json and subscriptions.json
  tmps,    \* content of their temporary files, None when there is none
  job      \* per job: its next step and its locals

fileVars == <<files, tmps>>
vars == <<nodeVars, itemVars, fileVars, job>>

RequestKinds == {"addNode", "updateNode", "deleteNode", "selectNode", "testNode",
                 "batchTest", "smartSelect", "addSub", "updateSub", "deleteSub",
                 "refresh", "refreshDue"}

ASSUME CatalogAssumption ==
  /\ None \notin Nodes \cup Subs \cup NodeTable \cup ItemTable
  /\ None \notin NodeRecord \cup Item
  /\ Manual \subseteq Nodes
  /\ Feeds \subseteq (SUBSET Nodes) \ {{}}
  /\ Permits \in Nat \ {0} /\ Top \in Nat \ {0}
  /\ Requests \subseteq RequestKinds
  /\ MayCrash \in BOOLEAN

Labels == {"idle", "check", "put", "deselect", "clear", "select", "choose", "batch",
           "rank", "pick", "disown", "saveItems", "claim", "fetch", "metadata",
           "release", "snapshot", "write", "rename"}

\* node, rec: a node and its record; sub, got: a subscription and its downloaded
\* nodes; due: subscriptions still to refresh; todo, spawned, dialing, found: nodes
\* still to probe, probe tasks not yet run, probes in flight, those of them whose
\* node was found; file, doc, then: the store being saved, its snapshot, the step
\* that follows
NoJob == [pc |-> "idle", node |-> None, rec |-> None, sub |-> None, got |-> {},
          due |-> {}, todo |-> {}, spawned |-> {}, dialing |-> {}, found |-> {},
          file |-> None, doc |-> None, then |-> "idle"]

Store == {"nodes", "subscriptions"}

Init ==
  /\ files = [f \in Store |-> IF f = "nodes" THEN [n \in Nodes |-> None]
                                             ELSE [s \in Subs |-> None]]
  /\ tmps = [f \in Store |-> None]
  /\ NodesLoaded(files["nodes"])
  /\ ItemsLoaded(files["subscriptions"])
  /\ issued = {}
  /\ job = [j \in Jobs |-> NoJob]

-----------------------------------------------------------------------------
(* Control.                                                                 *)

At(j, label) == job[j].pc = label
Becomes(j, r) == job' = [job EXCEPT ![j] = r]
Goes(j, label) ==
  Becomes(j, IF label = "idle" THEN NoJob ELSE [job[j] EXCEPT !.pc = label])

\* A request of this kind arrives
Arrives(j, kind) == kind \in Requests /\ At(j, "idle")

\* r continues by saving store f, and then with step `then'
Saving(r, f, then) == [r EXCEPT !.pc = "snapshot", !.file = f, !.then = then]

\* The step after a failed save: delete of a subscription ignores that its nodes
\* were not saved, a refresh fails, any other request is answered with the error
OnError(then) == IF then = "metadata" THEN "release" ELSE then

Snapshot(j) ==
  /\ At(j, "snapshot")
  /\ Becomes(j, [job[j] EXCEPT !.pc = "write",
                   !.doc = IF job[j].file = "nodes" THEN nodes ELSE items])
  /\ UNCHANGED <<nodeVars, itemVars, fileVars>>

\* A save has ended, and the job forgets its locals
Saved(j, label) ==
  Becomes(j, IF label = "idle" THEN NoJob
             ELSE [job[j] EXCEPT !.pc = label, !.file = None, !.doc = None, !.then = "idle"])

Write(j) ==
  /\ At(j, "write")
  /\ \/ /\ tmps' = [tmps EXCEPT ![job[j].file] = job[j].doc]
        /\ Becomes(j, [job[j] EXCEPT !.pc = "rename", !.doc = None])
     \/ "disk" \in Faults /\ Saved(j, OnError(job[j].then)) /\ UNCHANGED tmps
  /\ UNCHANGED <<nodeVars, itemVars, files>>

\* The temporary file is shared: another job may have renamed it already
Rename(j) ==
  /\ At(j, "rename")
  /\ LET f == job[j].file
     IN \/ /\ tmps[f] # None
           /\ files' = [files EXCEPT ![f] = tmps[f]]
           /\ tmps' = [tmps EXCEPT ![f] = None]
           /\ Saved(j, job[j].then)
        \/ /\ tmps[f] = None \/ "disk" \in Faults
           /\ Saved(j, OnError(job[j].then))
           /\ UNCHANGED fileVars
  /\ UNCHANGED <<nodeVars, itemVars>>

-----------------------------------------------------------------------------
(* Requests on nodes.                                                       *)

AddNode(j) ==
  /\ Arrives(j, "addNode")
  /\ \E n \in Manual, e \in BOOLEAN : Insert(n, [owner |-> None, enabled |-> e])
  /\ Becomes(j, Saving(NoJob, "nodes", "idle"))
  /\ UNCHANGED <<itemVars, fileVars>>

\* The client sends back, changed, a record it has read
UpdateNode(j) ==
  /\ Arrives(j, "updateNode")
  /\ \E n \in Known :
       Becomes(j, [NoJob EXCEPT !.pc = "check", !.node = n,
                     !.rec = [nodes[n] EXCEPT !.enabled = ~@]])
  /\ UNCHANGED <<nodeVars, itemVars, fileVars>>

Check(j) ==
  /\ At(j, "check")
  /\ Goes(j, IF job[j].node \in Known THEN "put" ELSE "idle")
  /\ UNCHANGED <<nodeVars, itemVars, fileVars>>

Put(j) ==
  /\ At(j, "put")
  /\ Insert(job[j].node, job[j].rec)
  /\ Becomes(j, Saving(NoJob, "nodes", "idle"))
  /\ UNCHANGED <<itemVars, fileVars>>

DeleteNode(j) ==
  /\ Arrives(j, "deleteNode")
  /\ \E n \in Known :
       /\ Remove(n)
       /\ Becomes(j, [NoJob EXCEPT !.pc = "deselect", !.node = n])
  /\ UNCHANGED <<itemVars, fileVars>>

\* The selection is read and cleared under two locks
Deselect(j) ==
  /\ At(j, "deselect")
  /\ IF selected = job[j].node THEN Goes(j, "clear")
     ELSE Becomes(j, Saving(NoJob, "nodes", "idle"))
  /\ UNCHANGED <<nodeVars, itemVars, fileVars>>

Clear(j) ==
  /\ At(j, "clear")
  /\ SetSelected(None)
  /\ Becomes(j, Saving(NoJob, "nodes", "idle"))
  /\ UNCHANGED <<itemVars, fileVars>>

SelectNode(j) ==
  /\ Arrives(j, "selectNode")
  /\ \E n \in Nodes : Becomes(j, [NoJob EXCEPT !.pc = "select", !.node = n])
  /\ UNCHANGED <<nodeVars, itemVars, fileVars>>

Select(j) ==
  /\ At(j, "select")
  /\ Goes(j, IF job[j].node \in Known THEN "choose" ELSE "idle")
  /\ UNCHANGED <<nodeVars, itemVars, fileVars>>

Choose(j) ==
  /\ At(j, "choose")
  /\ SetSelected(job[j].node)
  /\ Goes(j, "idle")
  /\ UNCHANGED <<itemVars, fileVars>>

-----------------------------------------------------------------------------
(* Probes: one node, all enabled nodes with bounded concurrency, and one    *)
(* after the other the best candidates of a smart switch.                   *)

TestNode(j) ==
  /\ Arrives(j, "testNode")
  /\ \E n \in Nodes : Becomes(j, [NoJob EXCEPT !.pc = "batch", !.todo = {n}])
  /\ UNCHANGED <<nodeVars, itemVars, fileVars>>

BatchTest(j) ==
  /\ Arrives(j, "batchTest")
  /\ Becomes(j, [NoJob EXCEPT !.pc = "batch", !.todo = Enabled])
  /\ UNCHANGED <<nodeVars, itemVars, fileVars>>

\* Without a measured enabled node it returns at once
SmartSelect(j) ==
  /\ Arrives(j, "smartSelect")
  /\ LET scored == Enabled \cap measured
     IN /\ scored # {}
        /\ \E ranked \in SUBSET scored :
             /\ Cardinality(ranked) = Top \/ (Cardinality(ranked) < Top /\ ranked = scored)
             /\ Becomes(j, [NoJob EXCEPT !.pc = "rank", !.todo = ranked])
  /\ UNCHANGED <<nodeVars, itemVars, fileVars>>

Width(j) == IF At(j, "rank") THEN 1 ELSE Permits

\* A permit is free: the next probe is started as a task of its own
Spawn(j) ==
  /\ job[j].pc \in {"batch", "rank"}
  /\ Cardinality(job[j].spawned \cup job[j].dialing) < Width(j)
  /\ \E n \in job[j].todo :
       Becomes(j, [job[j] EXCEPT !.todo = @ \ {n}, !.spawned = @ \cup {n}])
  /\ UNCHANGED <<nodeVars, itemVars, fileVars>>

PermitKept(r, n) == r

\* The task has given up: it returns its permit
PermitBack(r, n) == [r EXCEPT !.spawned = @ \ {n}]

Dial(j) ==
  /\ \E n \in job[j].spawned :
       IF CanProbe(n)
       THEN /\ StartProbe(n)
            /\ Becomes(j, [job[j] EXCEPT !.spawned = @ \ {n}, !.dialing = @ \cup {n}])
       ELSE /\ Becomes(j, PermitBack(job[j], n))
            /\ UNCHANGED nodeVars
  /\ UNCHANGED <<itemVars, fileVars>>

\* The node is read once the probe is under way
LookUp(j) ==
  /\ \E n \in job[j].dialing \ job[j].found :
       IF n \in Known
       THEN /\ Becomes(j, [job[j] EXCEPT !.found = @ \cup {n}])
            /\ UNCHANGED nodeVars
       ELSE /\ ForgetProbe(n)
            /\ Becomes(j, [job[j] EXCEPT !.dialing = @ \ {n}])
  /\ UNCHANGED <<itemVars, fileVars>>

Probed(j) ==
  /\ \E n \in job[j].found :
       /\ EndProbe(n)
       /\ Becomes(j, [job[j] EXCEPT !.dialing = @ \ {n}, !.found = @ \ {n}])
  /\ UNCHANGED <<itemVars, fileVars>>

BatchSpawned(j) ==
  /\ job[j].pc \in {"batch", "rank"} /\ job[j].todo = {}
  /\ Goes(j, IF At(j, "rank") THEN "pick" ELSE "idle")
  /\ UNCHANGED <<nodeVars, itemVars, fileVars>>

\* All handles have been awaited
BatchDone(j) ==
  /\ job[j].pc \in {"batch", "rank"}
  /\ job[j].todo = {} /\ job[j].spawned = {} /\ job[j].dialing = {}
  /\ Goes(j, IF At(j, "rank") THEN "pick" ELSE "idle")
  /\ UNCHANGED <<nodeVars, itemVars, fileVars>>

\* The caller switches to the node if it still exists and its core comes up
Pick(j) ==
  /\ At(j, "pick")
  /\ \/ \E n \in Choices \cap Known :
          Becomes(j, [NoJob EXCEPT !.pc = "select", !.node = n])
     \/ Goes(j, "idle")
  /\ UNCHANGED <<nodeVars, itemVars, fileVars>>

-----------------------------------------------------------------------------
(* Subscriptions.                                                           *)

AddSub(j) ==
  /\ Arrives(j, "addSub")
  /\ \E s \in Subs, e \in BOOLEAN : AddItem(s, e)
  /\ Becomes(j, Saving(NoJob, "subscriptions", "idle"))
  /\ UNCHANGED <<nodeVars, fileVars>>

UpdateSub(j) ==
  /\ Arrives(j, "updateSub")
  /\ \E s \in Live, e \in BOOLEAN : SetEnabled(s, e)
  /\ Becomes(j, Saving(NoJob, "subscriptions", "idle"))
  /\ UNCHANGED <<nodeVars, fileVars>>

ItemsFirst(s) == Saving([NoJob EXCEPT !.sub = s], "subscriptions", "disown")

\* After the item, its nodes, and only then the file of the items
Removing(s) == [NoJob EXCEPT !.pc = "disown", !.sub = s]

DeleteSub(j) ==
  /\ Arrives(j, "deleteSub")
  /\ \E s \in Live : RemoveItem(s) /\ Becomes(j, Removing(s))
  /\ UNCHANGED <<nodeVars, fileVars>>

DisownUnsaved(j) ==
  /\ At(j, "disown")
  /\ Replace(job[j].sub, {})
  /\ Goes(j, "saveItems")
  /\ UNCHANGED <<itemVars, fileVars>>

Disown(j) ==
  /\ At(j, "disown")
  /\ Replace(job[j].sub, {})
  /\ Becomes(j, Saving(job[j], "nodes", "saveItems"))
  /\ UNCHANGED <<itemVars, fileVars>>

SaveItems(j) ==
  /\ At(j, "saveItems")
  /\ Becomes(j, Saving(NoJob, "subscriptions", "idle"))
  /\ UNCHANGED <<nodeVars, itemVars, fileVars>>

-----------------------------------------------------------------------------
(* Refresh: of one subscription on request, of all due ones by the          *)
(* background task.                                                         *)

Refresh(j) ==
  /\ Arrives(j, "refresh")
  /\ \E s \in Subs : Becomes(j, [NoJob EXCEPT !.pc = "claim", !.due = {s}])
  /\ UNCHANGED <<nodeVars, itemVars, fileVars>>

RefreshDue(j) ==
  /\ Arrives(j, "refreshDue")
  /\ \E due \in DueLists :
       due # {} /\ Becomes(j, [NoJob EXCEPT !.pc = "claim", !.due = due])
  /\ UNCHANGED <<nodeVars, itemVars, fileVars>>

Claim(j) ==
  /\ At(j, "claim")
  /\ \E s \in job[j].due :
       IF CanRefresh(s)
       THEN /\ TakeSlot(s)
            /\ Becomes(j, [job[j] EXCEPT !.due = @ \ {s}, !.sub = s,
                             !.pc = IF s \in Live THEN "fetch" ELSE "release"])
       ELSE /\ Becomes(j, [job[j] EXCEPT !.due = @ \ {s}])
            /\ UNCHANGED itemVars
  /\ UNCHANGED <<nodeVars, fileVars>>

AllRefreshed(j) ==
  /\ At(j, "claim") /\ job[j].due = {}
  /\ Goes(j, "idle")
  /\ UNCHANGED <<nodeVars, itemVars, fileVars>>

\* The download, the decoding or the parsing fails, or no node is left
FetchFails(j) ==
  /\ At(j, "fetch")
  /\ Goes(j, "release")
  /\ UNCHANGED <<nodeVars, itemVars, fileVars>>

\* The nodes are stored without another look at the item
Fetched(j) ==
  /\ At(j, "fetch")
  /\ \E feed \in Feeds :
       /\ Replace(job[j].sub, feed)
       /\ Becomes(j, Saving([job[j] EXCEPT !.got = feed], "nodes", "metadata"))
  /\ UNCHANGED <<itemVars, fileVars>>

Metadata(j) ==
  /\ At(j, "metadata")
  /\ Record(job[j].sub, job[j].got)
  /\ Becomes(j, Saving(job[j], "subscriptions", "release"))
  /\ UNCHANGED <<nodeVars, fileVars>>

Release(j) ==
  /\ At(j, "release")
  /\ FreeSlot(job[j].sub)
  /\ Becomes(j, [job[j] EXCEPT !.pc = "claim", !.sub = None, !.got = {}])
  /\ UNCHANGED <<nodeVars, fileVars>>

-----------------------------------------------------------------------------
(* Kill and restart: both stores are read back, everything else is lost.    *)

Crash ==
  /\ MayCrash
  /\ nodes' = files["nodes"] /\ selected' = None /\ measured' = {} /\ testing' = {}
  /\ items' = files["subscriptions"] /\ refreshing' = {}
  /\ job' = [j \in Jobs |-> NoJob]
  /\ UNCHANGED <<issued, fileVars>>

Arrive(j) ==
  \/ AddNode(j) \/ UpdateNode(j) \/ DeleteNode(j) \/ SelectNode(j)
  \/ TestNode(j) \/ BatchTest(j) \/ SmartSelect(j)
  \/ AddSub(j) \/ UpdateSub(j) \/ DeleteSub(j) \/ Refresh(j) \/ RefreshDue(j)

Continue(j) ==
  \/ Snapshot(j) \/ Write(j) \/ Rename(j)
  \/ Check(j) \/ Put(j) \/ Deselect(j) \/ Clear(j) \/ Select(j) \/ Choose(j)
  \/ Spawn(j) \/ Dial(j) \/ LookUp(j) \/ Probed(j) \/ BatchDone(j) \/ Pick(j)
  \/ Disown(j) \/ SaveItems(j)
  \/ Claim(j) \/ AllRefreshed(j) \/ FetchFails(j) \/ Fetched(j) \/ Metadata(j)
  \/ Release(j)

Next == (\E j \in Jobs : Arrive(j) \/ Continue(j)) \/ Crash

Spec == Init /\ [][Next]_vars

\* A ready task is polled again, a download or a connect ends or times out
FairSpec == Spec /\ \A j \in Jobs : WF_vars(Continue(j))
=============================================================================
