SPECIFICATION MovesSpec
CONSTANTS
  p1 = p1
  p2 = p2
  r1 = r1
  r2 = r2
  c1 = c1
  c2 = c2
  Nobody = Nobody
  Rows = {r1, r2}
  Procs = {p1, p2}
  Cars = {c1, c2}
  Days = {1, 2}
  Asked <- Apart
  Routes = {"create", "block", "edit"}
  Patches <- CarOrStart
  Entered = {"booked"}
SYMMETRY Symmetric
INVARIANTS
  TypeOK
  RowLocked
  OverlapsExplained
  VerdictStillHolds
  ChainsOfWaitingEnd
PROPERTIES
  ReopenedOnlyByRevert
  DatesBreakOnlyStale
  ImplementsCalendar
