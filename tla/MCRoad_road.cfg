\* Two requests at a time over one trip: two stations, its driver, its logger.
SPECIFICATION Spec
CONSTANTS
  d1 = d1  c1 = c1  s1 = s1  s2 = s2  b1 = b1
  staff1 = staff1  staff2 = staff2  driver = driver
  r1 = r1  r2 = r2  n1 = n1  x1 = x1  x2 = x2  None = None
  Requests = {r1, r2}
  Trips = {d1}
  TripOf <- OneTrip
  Cisterns = {c1}
  Stations = {s1, s2}
  Batches = {b1}
  Tanked = {s1, s2}
  TankCap <- Room
  TankInit <- Empty
  Users = {staff1, staff2, driver}
  Role <- Crew
  StationOf <- Posts
  DriverOf <- Drives
  Buffer <- Loggers
  Notes <- OneNote
  Reported = {4}
  Latest = 9
SYMMETRY Symmetry
INVARIANTS OneReceptionPerPath SettledForTheFirst OwnStationOnly UploadIsComplete RoadBooksOnlyLag
PROPERTIES PaidIsFinal
CHECK_DEADLOCK FALSE
