----------------------------- MODULE Lifecycle -----------------------------
(***************************************************************************)
(* The state machine of reservations and vehicles                          *)
(* (server/services/lifecycle.ts, server/vehicle-status-helper.ts): which  *)
(* status may follow which, what a vehicle's availability is, when it may  *)
(* be handed over, and what staff may set by hand.  Pure operators.        *)
(*                                                                         *)
(* A maintenance block has a stage: planned, in (the car is in the         *)
(* workshop) or out.                                                       *)
(***************************************************************************)
EXTENDS Bookability

Horizon == 30

Availabilities == {"available", "scheduled", "rented", "needs_fixing", "not_for_rental"}

(* RESERVATION_TRANSITIONS of the state machine.                           *)
Transitions(status) ==
    CASE status = "booked"    -> {"picked_up", "cancelled"}
      [] status = "picked_up" -> {"completed", "returned", "cancelled"}
      [] status = "returned"  -> {"completed", "cancelled"}
      [] OTHER                -> {}

Covers(row, day) == row.start.day <= day /\ day <= row.end.day

LiveRentals(rows) == { row \in rows : IsLive(row) /\ row.kind = "rental" }

(* Live maintenance blocks over the day that have not ended yet.           *)
OpenBlocks(rows, day) ==
    { row \in rows : IsLive(row) /\ row.kind = "block" /\ Covers(row, day)
                        /\ row.stage # "out" }

(* Mutant: the status of the rental is written where its meaning belongs.  *)
DerivedRaw(vehicle, clear, rows, today) ==
    IF vehicle.availability = "not_for_rental" THEN "not_for_rental"
    ELSE IF \E row \in LiveRentals(rows) : row.status = "picked_up" THEN "picked_up"
    ELSE "available"

(* deriveVehicleAvailability: the one rule for the availability of a       *)
(* vehicle, in its order of precedence.  `rows` are the reservations on    *)
(* the vehicle; `clear` is set when a workshop job ends.                   *)
Derived(vehicle, clear, rows, today) ==
    IF vehicle.availability = "not_for_rental" THEN "not_for_rental"
    ELSE IF \/ vehicle.flagged
            \/ \E block \in OpenBlocks(rows, today) : block.stage = "in"
            \/ vehicle.availability = "needs_fixing" /\ ~clear
      THEN "needs_fixing"
    ELSE IF \E row \in LiveRentals(rows) : row.status = "picked_up" \/ Covers(row, today)
      THEN "rented"
    ELSE IF \/ OpenBlocks(rows, today) # {}
            \/ \E row \in LiveRentals(rows) : row.start.day \in (today + 1)..(today + Horizon)
      THEN "scheduled"
    ELSE "available"

(* The handover gate B-03: an administrator may force it.                  *)
HandoverRefused(vehicle) ==
    vehicle.availability \in {"not_for_rental", "needs_fixing"} \/ vehicle.flagged

(* What the vehicle form may not set by hand.                              *)
ManualChangeRefused(new, rows, today) ==
    LET out    == \E row \in LiveRentals(rows) : row.status = "picked_up"
        booked == \E row \in LiveRentals(rows) : row.status = "booked" /\ today <= row.end.day
    IN \/ new = "available" /\ (out \/ OpenBlocks(rows, today) # {})
       \/ new = "rented"    /\ ~out
       \/ new = "scheduled" /\ ~booked
=============================================================================
