------------------------------- MODULE MCMoves -------------------------------
(* Two requests at one of four desks: rentals and blocks that are placed and *)
(* moved on two vehicles; handovers, early pickups and reverts of them with  *)
(* the recycle bin among them; blocks that become rentals and rentals that   *)
(* become blocks, around the bin; edits that send one of the two dates, and  *)
(* early pickups that bring the first of them forward.                       *)
EXTENDS MCBookingWrites

VARIABLE desk

Reversible == {From(1, 1), From(3, 3)}
OneDate    == {{"startDate"}, {"endDate"}}

Counter == INSTANCE BookingWrites WITH
    Asked <- Overlapping,
    Routes <- {"create", "pickup", "return", "revert", "delete", "restore"}

Workshop == INSTANCE BookingWrites WITH
    Days <- {2}, Asked <- OneDay, Patches <- KindOnly,
    Routes <- {"create", "block", "edit", "pickup", "delete", "restore"}

Dates == INSTANCE BookingWrites WITH
    Days <- {2}, Asked <- Reversible, Patches <- OneDate,
    Routes <- {"create", "edit", "pickup"}

MovesInit ==
    \/ desk = "moves" /\ Init
    \/ desk = "counter" /\ Counter!Init
    \/ desk = "workshop" /\ Workshop!Init
    \/ desk = "dates" /\ Dates!Init

MovesNext ==
    /\ UNCHANGED desk
    /\ \/ desk = "moves" /\ Next
       \/ desk = "counter" /\ Counter!Next
       \/ desk = "workshop" /\ Workshop!Next
       \/ desk = "dates" /\ Dates!Next

MovesSpec == MovesInit /\ [][MovesNext]_<<desk, vars>>
=============================================================================
