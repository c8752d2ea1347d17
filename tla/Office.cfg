SPECIFICATION OfficeSpec
CONSTANTS
  p1 = p1
  p2 = p2
  r1 = r1
  r2 = r2
  c1 = c1
  Nobody = Nobody
  Rows = {r1}
  Procs = {p1, p2}
  Cars = {c1}
  Days = {2}
  Asked <- OneDay
  Routes = {"create", "edit", "status", "revert", "delete", "restore"}
  Patches <- StartOnly
  Entered = {"booked"}
  Mailbox <- MCMailbox
  AttachmentsOf <- MCAttached
  Poison = {"m1"}
  Files = {"f1"}
  Lines = 2
  Clerks = {"c1"}
  PerRun = 1
  Attempts = 3
  Faults = 2
CHECK_DEADLOCK FALSE
INVARIANTS
  InboxTypeOK
  BookedOnce
  BookedMeansSpent
PROPERTIES
  EveryRequestEnds
  EveryMailHandled
  ImplementsPostbox
