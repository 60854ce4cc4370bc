\* One request at a time: richer data, crews and stations.
SPECIFICATION Spec
CONSTANTS
  t1 = t1  t2 = t2  t3 = t3  b1 = b1  b2 = b2  c1 = c1  c2 = c2
  s1 = s1  s2 = s2  u1 = u1  u2 = u2  r1 = r1  r2 = r2  None = None
  Requests = {r1}
  Tokens = {t1, t2}
  Paper = {}
  PaperLeg <- NoPaper
  Batches = {b1}
  Cisterns = {c1, c2}
  Stations = {s1, s2}
  Tanked = {s1}
  Users = {u1, u2}
  Role <- Crew
  Volumes = {1, 2}
  Measures <- LitresReported
  Declared <- Litres3
  CisternCap <- Cap2
  InitDriver <- Driver1
  TankCap <- TankCap2
  TankInit <- TankEmpty
  DepotInit = 4
  InitStatus = {"AUTHORIZED"}
  Audited = {b1}
INVARIANTS ReceptionIsWhole BooksExact OneOpenTrip OpenTripIsAboard QuotaRespected
PROPERTIES NeverBackToTransit
CHECK_DEADLOCK FALSE
