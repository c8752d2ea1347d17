SPECIFICATION Spec
CONSTANTS
  p1 = p1
  p2 = p2
  r1 = r1
  r2 = r2
  c1 = c1
  c2 = c2
  Nobody = Nobody
  Rows = {r1, r2}
  Procs = {p1, p2}
  Cars = {c1}
  Days = {2}
  Asked <- OneDay
  Routes = {"create", "delete", "restore"}
  Patches <- StartOnly
  Entered = {"booked"}
SYMMETRY Symmetric
INVARIANTS
  NoDoubleBooking
