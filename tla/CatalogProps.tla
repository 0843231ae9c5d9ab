---------------------------- MODULE CatalogProps ----------------------------
(***************************************************************************)
(* What the node and subscription managers promise.                        *)
(***************************************************************************)
EXTENDS Catalog

JobRecord ==
  [pc : Labels, node : Nodes \cup {None}, rec : NodeRecord \cup {None},
   sub : Subs \cup {None}, got : SUBSET Nodes, due : SUBSET Subs,
   todo : SUBSET Nodes, spawned : SUBSET Nodes, dialing : SUBSET Nodes,
   found : SUBSET Nodes,
   file : Store \cup {None}, doc : NodeTable \cup ItemTable \cup {None}, then : Labels]

Document(f) == IF f = "nodes" THEN NodeTable ELSE ItemTable

\* Which locals a job has set at which step
Shape(r) ==
  /\ r.pc \in {"check", "put", "deselect", "clear", "select", "choose"} => r.node \in Nodes
  /\ r.pc \in {"check", "put"} => r.rec \in NodeRecord
  /\ r.pc \in {"snapshot", "write", "rename"} => r.file \in Store
  /\ r.pc = "write" => r.doc \in Document(r.file)
  /\ r.pc \in {"disown", "fetch", "metadata", "release"} => r.sub \in Subs
  /\ r.then \in {"metadata", "release"} => r.sub \in Subs
  /\ r.then \in {"idle", "saveItems", "metadata", "release"}
  /\ r.pc \notin {"snapshot", "write", "rename"} => r.then = "idle"
  /\ r.pc \notin {"batch", "rank"} => r.todo = {} /\ r.spawned = {} /\ r.dialing = {}
  /\ r.found \subseteq r.dialing

NodesTypeOK ==
  /\ nodes \in NodeTable /\ selected \in Nodes \cup {None}
  /\ measured \in SUBSET Nodes /\ testing \in SUBSET Nodes

ItemsTypeOK == items \in ItemTable /\ refreshing \in SUBSET Subs /\ issued \in SUBSET Subs

FilesTypeOK ==
  /\ files \in [Store -> NodeTable \cup ItemTable]
  /\ files["nodes"] \in NodeTable /\ files["subscriptions"] \in ItemTable
  /\ tmps \in [Store -> NodeTable \cup ItemTable \cup {None}]
  /\ tmps["nodes"] \in NodeTable \cup {None}
  /\ tmps["subscriptions"] \in ItemTable \cup {None}

JobsTypeOK == job \in [Jobs -> JobRecord] /\ \A j \in Jobs : Shape(job[j])

\* Every variable has its type, and the locals of a job fit its step: no probe of
\* a finished batch is left, and every save knows its store and its document.
CatalogTypeOK == NodesTypeOK /\ ItemsTypeOK /\ FilesTypeOK /\ JobsTypeOK

\* A job with these locals is refreshing r.sub with the slot taken
Refreshes(r) ==
  \/ r.pc \in {"fetch", "metadata", "release"}
  \/ r.pc \in {"snapshot", "write", "rename"} /\ r.then \in {"metadata", "release"}

\* in_flight of both managers (design doc section 65: no concurrent refresh of the
\* same subscription; nodes/manager.rs:134-139 for probes): an entry is held by
\* exactly one running task, so that no two work on the same id, and no error
\* path leaves an entry behind.
SlotsAreHeld ==
  /\ \A n \in Nodes : n \in testing <=> \E j \in Jobs : n \in job[j].dialing
  /\ \A s \in Subs : s \in refreshing <=> \E j \in Jobs : Refreshes(job[j]) /\ job[j].sub = s
  /\ \A i, j \in Jobs : i # j =>
       /\ job[i].dialing \cap job[j].dialing = {}
       /\ Refreshes(job[i]) /\ Refreshes(job[j]) => job[i].sub # job[j].sub

\* When a refresh records its metadata (subscription/manager.rs:270-277), every
\* node the catalogue holds for the subscription is in the recorded list, although
\* other requests ran while the nodes were being saved.
RefreshListsItsNodes ==
  [][\A j \in Jobs :
       At(j, "metadata") /\ job'[j].pc = "snapshot" /\ items'[job[j].sub] # None
         => Owned(job[j].sub) \subseteq items'[job[j].sub].listed]_vars

\* Every request is answered and every background refresh ends: the semaphore of
\* batch_test gets its permits back, and no slot makes a job wait.
JobsFinish == \A j \in Jobs : ~At(j, "idle") ~> At(j, "idle")

\* Once a request has been answered the two files hold what memory holds, whatever
\* the request did to either store (without overlapping requests: persist takes no
\* lock).
SettledIsSaved ==
  (\A j \in Jobs : At(j, "idle")) =>
    files["nodes"] = nodes /\ files["subscriptions"] = items

\* As long as changes do not overlap and no subscription is deleted during its
\* download, the disk holds no node of a subscription it does not hold: a crash
\* between the two files leaves no node that nothing would ever remove
\* (subscription/manager.rs:182-184, 268-278).
OwnersOnDisk ==
  \A n \in Nodes :
    files["nodes"][n] = None
    \/ files["nodes"][n].owner \in {None} \cup {s \in Subs : files["subscriptions"][s] # None}

-----------------------------------------------------------------------------
(* When and why the last two hold if no write fails.  For the proofs.        *)

\* A job with these locals is changing a store: it has changed memory, or is
\* about to put back a record it has read, and has not renamed its last file.
Changing(r) ==
  r.pc \in {"check", "put", "deselect", "clear", "disown", "saveItems", "metadata",
            "snapshot", "write", "rename"}

\* At most one task changes a store at a time; downloads, probes, selections and
\* the other refreshes go on meanwhile.
OneChange == \A i, j \in Jobs : Changing(job[i]) /\ Changing(job[j]) => i = j

\* No subscription is deleted while it is being downloaded.
FetchedStillLive == \A j \in Jobs : At(j, "fetch") => job[j].sub \in Live

Memory(f) == IF f = "nodes" THEN nodes ELSE items

\* A job with these locals is saving store f
Writes(r, f) == r.pc \in {"snapshot", "write", "rename"} /\ r.file = f

\* A file differs from memory only while the job that changed memory is on its
\* way to save it, and what is being saved is what memory holds.
Synced(r) ==
  /\ files["nodes"] = nodes \/ r.pc \in {"deselect", "clear"} \/ Writes(r, "nodes")
  /\ \/ files["subscriptions"] = items
     \/ r.pc \in {"disown", "saveItems"} \/ Writes(r, "subscriptions")
     \/ Writes(r, "nodes") /\ r.then = "saveItems"
  /\ r.pc = "write" => r.doc = Memory(r.file)
  /\ r.pc = "rename" => tmps[r.file] = Memory(r.file)

\* The owners of the nodes in memory, and that they are on the disk unless it is
\* their own file that is being written.
OwnersKnown(r) ==
  /\ \A n \in Known : \/ nodes[n].owner \in {None} \cup Live
                      \/ r.pc = "disown" /\ nodes[n].owner = r.sub
  /\ r.pc \in {"check", "put"} => r.rec.owner \in {None} \cup Live
  /\ r.pc = "fetch" => r.sub \in Live
  /\ \A s \in Live : files["subscriptions"][s] # None \/ Writes(r, "subscriptions")

\* The disk, as the one job that changes a store sees it
DiskOf(j) == OwnersOnDisk /\ Synced(job[j]) /\ OwnersKnown(job[j])

DiskInv ==
  /\ OwnersOnDisk
  /\ \A j \in Jobs : (\A i \in Jobs \ {j} : ~Changing(job[i])) => DiskOf(j)
=============================================================================
