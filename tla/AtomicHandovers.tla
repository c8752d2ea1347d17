--------------------------- MODULE AtomicHandovers ---------------------------
(***************************************************************************)
(* What the handovers promise of the reservations and the vehicles, with   *)
(* no locks and no requests: a pickup, a return and a revert are each one  *)
(* step on the row and its vehicle, whoever else is at work.  Beside them  *)
(* stand the writers that do not lock the vehicle, and from the first of   *)
(* those on nobody promises its availability any more.                     *)
(*                                                                         *)
(* A reading of the odometer is named by the handover it was taken at.     *)
(* The calendar does not move within a behaviour: today is a constant.     *)
(***************************************************************************)
EXTENDS Lifecycle

CONSTANTS
    Rows,       \* reservation ids
    Cars,       \* the vehicles
    Today,      \* isoToday()
    Dates,      \* the days a client may write on a handover
    Plans,      \* what is booked at first: a set of functions from Rows
    Found,      \* what a vehicle may be before the plan is booked
    Forced      \* may an administrator force a handover?

NoDay    == 0
Stages   == {"planned", "in", "out"}
Moment   == [day : Nat, time : Nat \cup {NoTime}]
PlanRows == [car : Cars, kind : Kinds, stage : Stages, start : Moment, end : Moment,
             out : Nat]   \* the day it was picked up, NoDay if it was not

ASSUME TodayAssumption  == Today \in Nat \ {0}
ASSUME DatesAssumption  == Dates \subseteq Nat \ {0}
ASSUME PlansAssumption  ==
    /\ Plans \subseteq [Rows -> PlanRows]
    /\ \A plan \in Plans : \A r, s \in Rows :      \* one rental has the vehicle
          plan[r].out # NoDay /\ plan[s].out # NoDay /\ plan[r].car = plan[s].car => r = s
ASSUME FoundAssumption  == Found \subseteq Availabilities
ASSUME ForcedAssumption == Forced \subseteq BOOLEAN

VARIABLES
    book,       \* [Rows -> row]: the committed reservations
    fleet,      \* [Cars -> vehicle]: the committed vehicles
    overruled   \* ghost: [Cars -> written without the vehicle's lock?]

-----------------------------------------------------------------------------
Handovers   == {"pickup", "return"}
NoReading   == <<"nowhere", "none">>
Factory     == <<"factory", "delivery">>
HandWritten == <<"office", "by hand">>
Readings    == {Factory, HandWritten} \cup (Rows \X Handovers)

BookRows == [car : Cars, kind : Kinds, stage : Stages, start : Moment, end : Moment,
             status : LiveStatuses \cup ClosedStatuses, deleted : BOOLEAN,
             pickedOn : Nat, returnedOn : Nat,
             beforePickup : Readings \cup {NoReading},
             beforeReturn : Readings \cup {NoReading}]

Vehicles == [availability : Availabilities, flagged : BOOLEAN, odometer : Readings]

Booked(plan) ==
    LET out == plan.out # NoDay IN
    [car |-> plan.car, kind |-> plan.kind, stage |-> plan.stage,
     start |-> plan.start, end |-> plan.end,
     status |-> IF out THEN "picked_up" ELSE "booked", deleted |-> FALSE,
     pickedOn |-> plan.out, returnedOn |-> NoDay,
     beforePickup |-> IF out THEN Factory ELSE NoReading, beforeReturn |-> NoReading]

Present(r)         == ~book[r].deleted
On(c, rows)        == { row \in rows : row.car = c }
BookWith(r, image) == { IF s = r THEN image ELSE book[s] : s \in Rows }

-----------------------------------------------------------------------------
(* An early pickup that was confirmed starts the rental today.             *)
Started(row, early) == IF early THEN [row EXCEPT !.start.day = Today] ELSE row

(* The row a pickup writes, and that of a return, without and with the     *)
(* reading it takes from the vehicle.                                      *)
PickedUp(row, early, day, before) ==
    [Started(row, early) EXCEPT !.status = "picked_up", !.pickedOn = day,
                                !.beforePickup = before]
BroughtBack(row, day)    == [row EXCEPT !.status = "completed", !.returnedOn = day]
WithReading(row, before) == [row EXCEPT !.beforeReturn = before]

(* stepFor: the handover that is undone, where the row goes back to and    *)
(* which columns are cleared.                                              *)
Undone(row) ==
    CASE row.status = "picked_up" -> {"pickup"}
      [] row.status \in {"returned", "completed"} /\ row.returnedOn # NoDay -> {"return"}
      [] OTHER -> {}

Reverted(row) ==
    CASE row.status = "picked_up" ->
           [row EXCEPT !.status = "booked", !.pickedOn = NoDay, !.beforePickup = NoReading]
      [] row.status \in {"returned", "completed"} /\ row.returnedOn # NoDay ->
           [row EXCEPT !.status = "picked_up", !.returnedOn = NoDay, !.beforeReturn = NoReading]
      [] OTHER ->
           [row EXCEPT !.status = IF row.pickedOn # NoDay THEN "picked_up" ELSE "booked"]

(* Mutant: only rentals that are still live count.                         *)
LaterHandoverLive(r, kind) ==
    LET day == IF kind = "pickup" THEN book[r].pickedOn ELSE book[r].returnedOn IN
    \/ day = NoDay
    \/ \E s \in Rows \ {r} :
          /\ book[s].car = book[r].car /\ IsLive(book[s])
          /\ \/ book[s].pickedOn > day
             \/ kind = "return" /\ book[s].pickedOn = day
             \/ book[s].returnedOn > day

(* laterHandoverExists: another reservation on the vehicle, deleted ones   *)
(* too, was handed over on a later day; on the same day only a pickup      *)
(* counts, and only against a return.                                      *)
LaterHandover(r, kind) ==
    LET day == IF kind = "pickup" THEN book[r].pickedOn ELSE book[r].returnedOn IN
    \/ day = NoDay
    \/ \E s \in Rows \ {r} :
          /\ book[s].car = book[r].car
          /\ \/ book[s].pickedOn > day
             \/ kind = "return" /\ book[s].pickedOn = day
             \/ book[s].returnedOn > day

(* planRevert: the reading that goes back to the vehicle, if any.          *)
RestoreTo(r) ==
    CASE "pickup" \in Undone(book[r]) /\ ~LaterHandover(r, "pickup") -> book[r].beforePickup
      [] "return" \in Undone(book[r]) /\ ~LaterHandover(r, "return") -> book[r].beforeReturn
      [] OTHER -> NoReading

-----------------------------------------------------------------------------
(* As long as a vehicle and its rows are written by handovers only, its    *)
(* availability is what the rule says of the rows, in every interleaving   *)
(* of pickups, returns and reverts (reservation-revert.ts: "can never      *)
(* disagree with the row that was written").                               *)
Settled ==
    \A c \in Cars : ~overruled[c] =>
        fleet[c].availability =
            Derived(fleet[c], FALSE, On(c, { book[r] : r \in Rows }), Today)

HandoversInit ==
    /\ \E plan \in Plans : book = [r \in Rows |-> Booked(plan[r])]
    /\ fleet \in [Cars -> Vehicles] /\ Settled
    /\ overruled = [c \in Cars |-> FALSE]

(* Row and vehicle together: the row becomes image, the odometer reading,  *)
(* and the availability what the rule says of the rows as they are now.    *)
(* After an unlocked write that may be an answer from before it, but even  *)
(* then no handover takes back a decision of staff.                        *)
Handled(r, image, reading) ==
    LET c == book[r].car IN
    /\ book' = [book EXCEPT ![r] = image]
    /\ \E answer \in Availabilities :
          /\ fleet' = [fleet EXCEPT ![c].availability = answer, ![c].odometer = reading]
          /\ fleet[c].availability = "not_for_rental" => answer = "not_for_rental"
          /\ ~overruled[c] =>
                answer = Derived(fleet[c], FALSE, On(c, BookWith(r, image)), Today)
    /\ UNCHANGED overruled

(* A pickup: of a booked row, through the gate; it keeps the very reading  *)
(* it overwrites and starts an early rental today.                         *)
HandOver(r, day) ==
    LET vehicle == fleet[book[r].car] IN
    /\ book[r].status = "booked"
    /\ ~HandoverRefused(vehicle) \/ TRUE \in Forced
    /\ Handled(r, PickedUp(book[r], Today < book[r].start.day, day, vehicle.odometer),
               <<r, "pickup">>)

(* A return, of a row that is out; it keeps the reading too.               *)
TakeBack(r, day) ==
    /\ book[r].status = "picked_up"
    /\ Handled(r, WithReading(BroughtBack(book[r], day), fleet[book[r].car].odometer),
               <<r, "return">>)

(* A revert, of a rental that is there and has something to undo: the      *)
(* reading it kept goes back unless a later handover is on the odometer.   *)
Undo(r) ==
    /\ Present(r) /\ book[r].kind = "rental"
    /\ book[r].status \in {"picked_up"} \cup ClosedStatuses
    /\ Handled(r, Reverted(book[r]),
               IF RestoreTo(r) = NoReading THEN fleet[book[r].car].odometer ELSE RestoreTo(r))

(* A status that is written, or a delete: the row only, not the vehicle.   *)
RowBehind(r) ==
    /\ UNCHANGED fleet /\ overruled' = [overruled EXCEPT ![book[r].car] = TRUE]
    /\ Present(r) /\ book[r].kind = "rental"
    /\ \/ \E to \in LiveStatuses \cup ClosedStatuses, early \in BOOLEAN :
             /\ early => to = "picked_up" /\ Today < book[r].start.day
             /\ book' = [book EXCEPT ![r] = [Started(@, early) EXCEPT !.status = to]]
       \/ book' = [book EXCEPT ![r].deleted = TRUE]

(* Workshop, staff and the recomputes: vehicles only, and of these not the *)
(* odometer.                                                               *)
VehiclesAlone ==
    /\ UNCHANGED book
    /\ \A c \in Cars :
          \/ fleet'[c] = fleet[c] /\ overruled'[c] = overruled[c]
          \/ fleet'[c].odometer = fleet[c].odometer /\ overruled'[c]

OdometerByHand(c) ==
    /\ fleet' = [fleet EXCEPT ![c].odometer = HandWritten]
    /\ UNCHANGED <<book, overruled>>

HandoversNext ==
    \/ VehiclesAlone
    \/ \E r \in Rows :
          \/ \E day \in Dates : HandOver(r, day) \/ TakeBack(r, day)
          \/ Undo(r) \/ RowBehind(r)
    \/ \E c \in Cars : OdometerByHand(c)

(* Every interleaving of the requests on rows and vehicles is a sequence   *)
(* of whole handovers and of the writes beside them: the pickup takes the  *)
(* vehicle's lock first, the return its row's and the revert all three,    *)
(* and still no handover is ever seen, or undone, by halves.               *)
ImplementsHandovers == HandoversInit /\ [][HandoversNext]_<<book, fleet, overruled>>
=============================================================================
