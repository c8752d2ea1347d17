SPECIFICATION Spec
CONSTANTS
  p1 = p1
  p2 = p2
  r1 = r1
  r2 = r2
  c1 = c1
  Nobody = Nobody
  Rows = {r1}
  Cars = {c1}
  Procs = {p1, p2}
  Today = 5
  Dates = {5}
  Found = {"available"}
  Forced = {FALSE}
  ByHand = {"not_for_rental"}
  Plans <- OnePlan
  Routes = {"status", "staff"}
SYMMETRY Requests
PROPERTIES
  StaffDecisionStands
CHECK_DEADLOCK FALSE
