--------------------------- MODULE MCBookingWrites ---------------------------
(* Two requests, one or two reservations and vehicles.  Periods that lie     *)
(* apart, are the same, contain one another, and meet in a turnover all fit  *)
(* in two days.                                                              *)
EXTENDS BookingWrites, TLC
CONSTANTS p1, p2, r1, r2, c1, c2

Day(d) == [day |-> d, time |-> NoTime]
From(d, e) == [start |-> Day(d), end |-> Day(e)]

Apart       == {From(1, 1), From(2, 2)}
Overlapping == {From(1, 2), From(2, 2)}
OneDay      == {From(2, 2)}

CarOrStart == {{"car"}, {"startDate"}}
StartOnly  == {{"startDate"}}
KindOnly   == {{"kind"}}
CarOrKind  == {{"car"}, {"kind"}}

Symmetric == Permutations({p1, p2}) \cup Permutations({r1, r2})
                \cup Permutations({c1, c2})
=============================================================================
