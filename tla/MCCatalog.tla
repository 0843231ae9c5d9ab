----------------------------- MODULE MCCatalog -----------------------------
(***************************************************************************)
(* Small instances of Catalog for TLC.                                     *)
(***************************************************************************)
EXTENDS CatalogProps, TLC

CONSTANTS n1, n2, s1, s2, j1, j2

TwoNodes == {n1, n2}
OneNode == {n2}
TwoSubs == {s1, s2}
OneSub == {s1}
OneJob == {j1}
TwoJobs == {j1, j2}
SharedFeed == {{n1}, {n1, n2}}

Saves == {"addNode", "updateNode", "deleteNode", "selectNode", "addSub", "deleteSub",
          "refreshDue"}
Interleaved == {"testNode", "batchTest", "smartSelect", "addSub", "updateSub",
                "deleteSub", "refresh"}
=============================================================================
