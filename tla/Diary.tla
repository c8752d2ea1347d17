-------------------------------- MODULE Diary --------------------------------
(***************************************************************************)
(* The diary of one vehicle as a single clerk keeps it: bookings are       *)
(* accepted one after the other by the bookability predicate, in any       *)
(* order, and go away again when a rental is cancelled, returned or        *)
(* deleted.  Nothing is concurrent here; what is examined is the predicate *)
(* itself - its turnover exception, its open ends and its missing times -  *)
(* over every diary that can be accepted.                                  *)
(***************************************************************************)
EXTENDS Bookability, FiniteSets

CONSTANTS
    Days,       \* the days of the calendar; OpenEnd may be one of them
    Times,      \* the times of day on file; NoTime is the NULL column
    MaxRentals  \* bound: rentals standing in the diary at one time

ASSUME DaysAssumption  == Days \subseteq Nat
ASSUME TimesAssumption == Times \subseteq Nat \cup {NoTime}
ASSUME MaxAssumption   == MaxRentals \in Nat \ {0}

VARIABLE diary   \* the live rentals on the vehicle, as rows

vars == <<diary>>

-----------------------------------------------------------------------------
(* A row as createReservationChecked inserts it.                           *)
RowOf(p) == [car |-> "the car", status |-> "booked", deleted |-> FALSE,
             kind |-> "rental", start |-> p.start, end |-> p.end]

Requests == { RowOf(p) : p \in Periods(Days, Times) }

Init == diary = {}

(* Mutant: an end date of '' is stored as it came, not as NULL.            *)
AcceptEmptyEnd(req) ==
    /\ Cardinality(diary) < MaxRentals
    /\ Verdict(diary, req, FALSE, "ok") = "bookable"
    /\ diary' = diary \cup {[req EXCEPT !.end.day = 0]}

(* createReservationChecked, for whatever state the vehicle is in.         *)
Accept(req) ==
    /\ Cardinality(diary) < MaxRentals
    /\ \E vehicle \in {"ok", "not_for_rental", "gone"} :
          Verdict(diary, req, FALSE, vehicle) = "bookable"
    /\ diary' = diary \cup {req}

(* A rental is cancelled, returned or put in the recycle bin.              *)
Release(row) == diary' = diary \ {row}

Next == \/ \E req \in Requests : Accept(req)
        \/ \E row \in diary : Release(row)

Spec == Init /\ [][Next]_vars

-----------------------------------------------------------------------------
(* Reference definition, from the owner's rule and not from the SQL: two   *)
(* rentals clash unless one is over before the other starts - on an        *)
(* earlier day, or on the same day with a start day of its own and no      *)
(* times on file that contradict it.                                       *)
Over(p, q) ==
    \/ p.end.day < q.start.day
    \/ /\ p.end.day = q.start.day
       /\ p.start.day < q.start.day
       /\ ~(/\ p.end.time # NoTime
            /\ q.start.time # NoTime
            /\ p.end.time > q.start.time)

Clash(p, q) == ~Over(p, q) /\ ~Over(q, p)

Covers(row, d) == row.start.day <= d /\ d <= row.end.day

-----------------------------------------------------------------------------
(* The diary holds rental rows only.                                       *)
TypeOK == diary \subseteq Requests

(* The SQL refuses exactly what the rule forbids: for every diary that can *)
(* be reached and every request, the verdict is CONFLICT if and only if    *)
(* some accepted rental clashes with the request (overlapWhere).  An empty *)
(* diary has nothing to refuse a request for.                              *)
RefusesExactlyTheClashes ==
    diary # {} => \A req \in Requests :
        (Verdict(diary, req, FALSE, "ok") = "CONFLICT")
            <=> (\E row \in diary : Clash(row, req))

(* The turnover exception never adds up: however the rentals were          *)
(* accepted, no day is shared by three of them, and a day shared by two is *)
(* the last of the one and the first of the other (BUG-107: one-day        *)
(* requests on either edge of a rental, and identical one-day ranges).     *)
SharedDayIsATurnover ==
    diary # {} => \A d \in Days : LET onDay == { row \in diary : Covers(row, d) } IN
        /\ Cardinality(onDay) <= 2
        /\ \A a, b \in onDay : a # b =>
              \/ a.end.day = d /\ b.start.day = d /\ a.start.day < d
              \/ b.end.day = d /\ a.start.day = d /\ b.start.day < d

(* The order of acceptance does not matter: what stands in the diary would *)
(* be accepted again in any other order, so a rental that is edited in     *)
(* place (its own row excluded) is never refused for what it was.          *)
OrderIndependent ==
    \A row \in diary :
        Verdict(diary \ {row}, row, FALSE, "ok") = "bookable"
=============================================================================
