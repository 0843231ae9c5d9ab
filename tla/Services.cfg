SPECIFICATION Spec
CONSTANTS
  None = None
  Foci = {"rules", "dns", "diagnostics", "statistics", "pipe", "host"}
  r1 = r1  web = web com = com www = www api = api word = word low = low home = home away = away
  x = x y = y u1 = u1 u2 = u2 d1 = d1 d2 = d2 q1 = q1 m1 = m1 m2 = m2
  k1 = k1 k2 = k2 p1 = p1 l1 = l1 l2 = l2 o1 = o1 o2 = o2 o3 = o3
  Faults = {"disk"}
  Editors = {r1}
  RuleIds = {r1}
  MaxRules = 2
  Shapes <- MCShapes
  Symbols <- MCSymbols
  Covers <- MCCovers
  Malformed <- MCMalformed
  Geo <- MCGeo
  Flows <- MCFlows
  Names = {x, y}
  DnsConfigs <- MCConfigs
  Runs = {d1, d2}
  Askers = {q1}
  Setters = {m1, m2}
  Lookups = {d1, d2, q1}
  Ttl = 1
  MinSize = 1
  Steps = 2
  DnsStep = 1
  DnsName = x
  MaxBytes = 2
  Calls = {k1, k2}
  RingCap = 1
  OutCap = 1
  WireCap = 1
  MaxEvents = 2
  Starters = {p1}
  Loops = {l1, l2}
  Clients = {o1, o2, o3}
INVARIANTS RulesTypeOK FileAlwaysLoads DecisionFollowsRules NetTypeOK CacheInBounds OneRunUnlessSwept
INVARIANTS StatsTypeOK TotalsAreBacked SamplesAreBacked PipeTypeOK OneReplyPerCall EventsInOrder SingleUnlessOverlapped
PROPERTIES BookSpec OldServersFade SlotEmpties CallsAnswered LastStateIsShown LostIsRegained
