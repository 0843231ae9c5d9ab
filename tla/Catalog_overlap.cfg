SPECIFICATION FairSpec
CONSTANTS
  n1 = n1  n2 = n2  s1 = s1  s2 = s2  j1 = j1  j2 = j2
  None = None
  Nodes <- TwoNodes
  Subs <- OneSub
  Jobs <- TwoJobs
  Manual = {}
  Feeds <- SharedFeed
  Permits = 1
  Top = 1
  Requests <- Interleaved
  MayCrash = FALSE
  Faults = {}
INVARIANTS CatalogTypeOK SlotsAreHeld
PROPERTIES RefreshListsItsNodes JobsFinish
