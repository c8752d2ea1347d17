----------------------------- MODULE Bookability -----------------------------
(***************************************************************************)
(* The one bookability predicate of the rental administration              *)
(* (server/services/bookability.ts and isVehicleBookable of                *)
(* server/database-storage.ts): which rows of the table `reservations`     *)
(* stand in the way of a requested period on a vehicle, and the verdict    *)
(* every writer acts on.  Pure operators, no state.                        *)
(*                                                                         *)
(* A day is a natural number in the order of the ISO date strings; a time  *)
(* of day is a natural number in the order of the HH:MM strings, or        *)
(* NoTime, the NULL column.                                                *)
(***************************************************************************)
EXTENDS Integers

NoTime  == -1

(* What a NULL (or 'undefined') end date is compared as: "9999-12-31".     *)
OpenEnd == 9999

Moments(Days, Times) == [day : Days, time : Times]

(* A period is a record with a start and an end moment.  WellFormed is the *)
(* date-order rule every route applies to the period it is sent.           *)
WellFormed(p) == p.start.day <= p.end.day

Periods(Days, Times) ==
    { p \in [start : Moments(Days \ {OpenEnd}, Times),
             end   : Moments(Days, Times)] : WellFormed(p) }

-----------------------------------------------------------------------------
(* Status sets: a row that is cancelled, completed or returned no longer   *)
(* occupies its vehicle.  "absent" stands for an id not yet given out.     *)
LiveStatuses   == {"booked", "picked_up"}
ClosedStatuses == {"returned", "completed", "cancelled"}
Statuses       == LiveStatuses \cup ClosedStatuses \cup {"absent"}
Kinds          == {"rental", "block"}

IsLive(row) == row.status \in LiveStatuses /\ ~row.deleted

(* Mutant: strict comparisons, so one-day ranges never meet.               *)
DaysMeetStrictly(e, n) == e.start.day < n.end.day /\ n.start.day < e.end.day

(* Do the day ranges touch?  The two comparisons of overlapWhere.          *)
DaysMeet(e, n) == e.start.day <= n.end.day /\ n.start.day <= e.end.day

(* p ends on the day q starts, and not later than q starts - as far as     *)
(* both times are on file.  An open end is no day at all, so it never      *)
(* makes a turnover.                                                       *)
EndsBefore(p, q) ==
    /\ p.end.day = q.start.day
    /\ \/ p.end.time = NoTime
       \/ q.start.time = NoTime
       \/ p.end.time <= q.start.time

(* Mutant: no start-day guard (BUG-107).                                   *)
TurnoverOnAnyDay(e, n) == EndsBefore(e, n) \/ EndsBefore(n, e)

(* Mutant: only the later rental may start on the day the other ends.      *)
TurnoverOneWay(e, n) == e.start.day # n.start.day /\ EndsBefore(e, n)

(* A turnover is a normal handover, not a double booking - unless both     *)
(* periods start on the same day.                                          *)
Turnover(e, n) ==
    /\ e.start.day # n.start.day
    /\ EndsBefore(e, n) \/ EndsBefore(n, e)

Overlaps(e, n) == DaysMeet(e, n) /\ ~Turnover(e, n)

(* The WHERE clause on a row and a request: same vehicle, live, overlap.   *)
InTheWay(row, req) == row.car = req.car /\ IsLive(row) /\ Overlaps(row, req)

(* A maintenance block is never a conflict, and has none.                  *)
Conflicts(row, req, asBlock) ==
    ~asBlock /\ row.kind # "block" /\ InTheWay(row, req)

-----------------------------------------------------------------------------
(* The order of the verdicts: a missing vehicle, a conflict, a vehicle     *)
(* that is marked not for rental (rentals only).                           *)
Verdict(rows, req, asBlock, vehicle) ==
    IF vehicle = "gone" THEN "VEHICLE_NOT_FOUND"
    ELSE IF \E row \in rows : Conflicts(row, req, asBlock) THEN "CONFLICT"
    ELSE IF ~asBlock /\ vehicle = "not_for_rental" THEN "NOT_FOR_RENTAL"
    ELSE "bookable"
=============================================================================
