------------------------------ MODULE MCFleet ------------------------------
(* Two requests at the desk of one vehicle: two rentals, the first one of    *)
(* today or out since yesterday; or a single reservation, a rental of later  *)
(* this week or a maintenance block of today, planned or in the workshop.    *)
EXTENDS Fleet, TLC
CONSTANTS p1, p2, r1, r2, c1

Plan(kind, stage, d, e, out) ==
    [car |-> c1, kind |-> kind, stage |-> stage, out |-> out,
     start |-> [day |-> d, time |-> NoTime], end |-> [day |-> e, time |-> NoTime]]

RentalNow   == Plan("rental", "planned", 5, 6, NoDay)
RentalOut   == Plan("rental", "planned", 4, 6, 4)
RentalLater == Plan("rental", "planned", 7, 8, NoDay)
Block(s)    == Plan("block", s, 5, 5, NoDay)
BlockLater  == Plan("block", "planned", 6, 6, NoDay)

TwoRentals == { [r \in Rows |-> IF r = r1 THEN first ELSE RentalLater] :
                    first \in {RentalNow, RentalOut} }
OnePlan    == { [r \in Rows |-> plan] :
                    plan \in {RentalLater, Block("planned"), Block("in")} }

Requests == Permutations({p1, p2})
=============================================================================
