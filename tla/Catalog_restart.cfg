SPECIFICATION Spec
CONSTANTS
  n1 = n1  n2 = n2  s1 = s1  s2 = s2  j1 = j1  j2 = j2
  None = None
  Nodes <- TwoNodes
  Subs <- TwoSubs
  Jobs <- OneJob
  Manual <- OneNode
  Feeds <- SharedFeed
  Permits = 1
  Top = 1
  Requests <- Saves
  MayCrash = TRUE
  Faults = {}
INVARIANTS SettledIsSaved OwnersOnDisk
