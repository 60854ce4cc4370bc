\* Two dispatches of one cistern at a time.
SPECIFICATION Spec
CONSTANTS
  t1 = t1  t2 = t2  t3 = t3  b1 = b1  b2 = b2  c1 = c1  c2 = c2
  s1 = s1  s2 = s2  u1 = u1  u2 = u2  r1 = r1  r2 = r2  None = None
  Requests = {r1, r2}
  Tokens = {t1, t2}
  Paper = {}
  PaperLeg <- NoPaper
  Batches = {b1}
  Cisterns = {c1}
  Stations = {s1}
  Tanked = {s1}
  Users = {u1}
  Role <- OneAdmin
  Volumes = {1}
  Measures = {1}
  Declared <- Litres2
  CisternCap <- Cap2
  InitDriver <- NoDriver
  TankCap <- TankCap2
  TankInit <- TankEmpty
  DepotInit = 2
  InitStatus = {"AUTHORIZED"}
  Audited = {}
INVARIANTS OneOpenTrip
CHECK_DEADLOCK FALSE
