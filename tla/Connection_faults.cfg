SPECIFICATION Spec
CONSTANTS
  c1 = c1  c2 = c2  n1 = n1  n2 = n2  s1 = s1  s2 = s2
  corp = corp  Smart = Smart  Global = Global
  Boot = Boot  Ours = Ours  NoSpec = NoSpec  None = None
  Clients <- OneClient
  Nodes <- OneNode
  Volatile = {n1}
  Modes <- TwoModes
  Sups <- OneSup
  RestartMax = 0
  TunEnabled = FALSE
  RestorePrevious = FALSE
  Races = {}
  MaxCrashes = 0
  UserSettings <- ProxyOnly
  Faults = {"disk", "registry"}
INVARIANTS ConnectedIsServed
PROPERTIES StoreSpec

