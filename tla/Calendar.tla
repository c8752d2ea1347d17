------------------------------ MODULE Calendar ------------------------------
(***************************************************************************)
(* What the table `reservations` promises as a calendar of the fleet,      *)
(* without transactions, locks or requests: one row changes at a time, and *)
(* a row that a guarded writer puts somewhere (or brings back to life)     *)
(* clashes at that moment with no live rental on the same vehicle, except  *)
(* with one that an unguarded writer put in its place before.              *)
(***************************************************************************)
EXTENDS Bookability

CONSTANTS
    Rows,       \* reservation ids
    Guarded,    \* kinds of write that are judged by the predicate
    Unguarded   \* kinds of write that are not, or that are judged too early

VARIABLES
    book,       \* [Rows -> row]
    placedBy    \* [Rows -> kind of write that put the row where it is]

SlotOf(row) == [car |-> row.car, kind |-> row.kind,
                start |-> row.start, end |-> row.end]

Occupies(row) == IsLive(row) /\ row.kind = "rental"

Init == /\ \A r \in Rows : ~Occupies(book[r])
        /\ \A r \in Rows : placedBy[r] = "none"

OnlyRowChanges(r) ==
    \A s \in Rows \ {r} : book'[s] = book[s] /\ placedBy'[s] = placedBy[s]

(* The row occupies nothing afterwards: closed, deleted, or a block.       *)
Vacate(r) == ~Occupies(book'[r]) /\ placedBy'[r] = "none"

(* It is picked up, or brought back to booked, where it stands.            *)
Stay(r) ==
    /\ Occupies(book[r]) /\ Occupies(book'[r])
    /\ SlotOf(book'[r]) = SlotOf(book[r])
    /\ placedBy'[r] = placedBy[r]

(* A judged write: whatever is in the way was put there by an unguarded    *)
(* write.                                                                  *)
PlaceGuarded(r) ==
    /\ Occupies(book'[r])
    /\ placedBy'[r] \in Guarded
    /\ \A s \in Rows \ {r} :
          Conflicts(book[s], book'[r], FALSE) => placedBy[s] \in Unguarded

PlaceUnguarded(r) == Occupies(book'[r]) /\ placedBy'[r] \in Unguarded

Next == \E r \in Rows :
           /\ OnlyRowChanges(r)
           /\ Vacate(r) \/ Stay(r) \/ PlaceGuarded(r) \/ PlaceUnguarded(r)

vars == <<book, placedBy>>

Spec == Init /\ [][Next]_vars
=============================================================================
