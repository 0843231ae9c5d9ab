SPECIFICATION Spec
CONSTANTS
  c1 = c1  c2 = c2  n1 = n1  n2 = n2  s1 = s1  s2 = s2
  corp = corp  Smart = Smart  Global = Global
  Boot = Boot  Ours = Ours  NoSpec = NoSpec  None = None
  Clients <- TwoClients
  Nodes <- TwoNodes
  Volatile = {n2}
  Modes <- SmartOnly
  Sups <- TwoSups
  RestartMax = 1
  TunEnabled = TRUE
  RestorePrevious = FALSE
  Races = {}
  MaxCrashes = 0
  UserSettings <- MCSettings
  Faults = {}
INVARIANTS TypeOK ExclusiveRecovery OneSupervisor ConnectedIsServed StoppedIsClean RedirectIsReversible
PROPERTIES StoreSpec
SYMMETRY Symmetric
