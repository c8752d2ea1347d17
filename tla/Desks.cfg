SPECIFICATION DesksSpec
CONSTANTS
  p1 = p1
  p2 = p2
  r1 = r1
  r2 = r2
  c1 = c1
  Nobody = Nobody
  Rows = {r1, r2}
  Cars = {c1}
  Procs = {p1, p2}
  Today = 5
  Dates = {5}
  Found = {"available", "not_for_rental"}
  Forced = {FALSE, TRUE}
  ByHand = {"available", "not_for_rental"}
  Plans <- AllPlans
  Routes <- AllRoutes
SYMMETRY Requests
INVARIANTS
  TypeOK
  Settled
  OnlyDoomedRevertsDeadlock
PROPERTIES
  LaterDaysSurvive
  HandoversKeepStaffDecision
  GateStillHolds
  ImplementsHandovers
