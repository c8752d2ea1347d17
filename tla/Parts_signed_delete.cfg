SPECIFICATION SigningOnly
CONSTANTS
  r1 = r1
  r2 = r2
  x1 = x1
  x2 = x2
  k1 = k1
  h1 = h1
  h2 = h2
  Days <- MCDays
  Times <- MCTimes
  MaxRentals = 3
  StandIns = {x1, x2}
  Home = "home"
  Desks = {r1, r2}
  Shifts <- MCShifts
  Loaners = {k1}
  Dates = {1, 2}
  Clerks = {r1}
  Plans <- ResavedOnly
  Docs = {x1, x2}
  Jobs = {r1, r2}
  Hashes = {h1, h2}
  Rendered = {h1}
  NoFile = NoFile
  NoDoc = NoDoc
  NoJob = NoJob
  Versions = {1, 2}
  MaxCrashes = 1
  Bookings = {"b1"}
  NoId = NoId
  Officers = {r1}
  MaxRecords = 2
CHECK_DEADLOCK FALSE
PROPERTIES
  EvidenceStays
