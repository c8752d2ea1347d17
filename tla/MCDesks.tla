------------------------------ MODULE MCDesks ------------------------------
(* Two requests on one vehicle at one of three places.  At the desk they     *)
(* hand over two rentals.  At the counter and in the workshop they are       *)
(* pickups against who writes without the vehicle's lock, for a rental of    *)
(* later this week beside a maintenance block: at the counter the status     *)
(* route and deletes, in the workshop its flag, the sweep and staff.         *)
EXTENDS MCFleet

VARIABLE place

RentalAndBlock ==
    { [r \in Rows |-> IF r = r1 THEN RentalLater ELSE block] :
          block \in {Block("planned"), Block("in"), BlockLater} }

AllPlans == TwoRentals \cup RentalAndBlock

Desk == INSTANCE Fleet WITH
    Plans <- TwoRentals, Forced <- {TRUE}, ByHand <- {"not_for_rental"},
    Routes <- {"pickup", "return", "revert"}

Counter == INSTANCE Fleet WITH
    Plans <- RentalAndBlock, Found <- {"available"}, Forced <- {FALSE},
    Routes <- {"pickup", "status", "delete", "mileage"}

Workplace == INSTANCE Fleet WITH
    Plans <- RentalAndBlock, Found <- {"available"}, Forced <- {FALSE},
    Routes <- {"pickup", "staff", "workshop", "sweep", "mileage"}

DesksInit ==
    \/ place = "desk" /\ Desk!Init
    \/ place = "counter" /\ Counter!Init
    \/ place = "workshop" /\ Workplace!Init

DesksNext ==
    /\ UNCHANGED place
    /\ \/ place = "desk" /\ Desk!Next
       \/ place = "counter" /\ Counter!Next
       \/ place = "workshop" /\ Workplace!Next

DesksSpec == DesksInit /\ [][DesksNext]_<<place, vars>>
=============================================================================
