------------------------------- MODULE Spares -------------------------------
(***************************************************************************)
(* The cars that stand in for one rental while its own car is in the       *)
(* workshop, the maintenance block of that workshop visit, and the         *)
(* workshop flag of the car.  Six routes write these rows.  Each reads     *)
(* first and writes by id later; only the stand-in cars themselves are     *)
(* locked, so two requests on the same rental or the same block meet only  *)
(* in the conditions their UPDATEs carry.  All periods overlap.            *)
(***************************************************************************)
EXTENDS Naturals, FiniteSets

CONSTANTS
    StandIns,   \* cars of the fleet that may stand in
    Home,       \* the car of the rental, the one that goes to the workshop
    Desks,      \* requests of staff in flight
    Shifts      \* bound: routes the requests take, replacement rows written

Routes == {"plan", "assign", "hold", "fill", "complete", "bring_back",
           "delete", "check_in", "reopen"}

ASSUME SparesAssumption ==
    /\ Home \notin StandIns /\ IsFiniteSet(Desks)
    /\ \A s \in Shifts : s.routes \subseteq Routes /\ s.rows \in Nat

VARIABLES
    shift,      \* the shift the behaviour is about
    spare,      \* [row number -> replacement row]
    block,      \* the maintenance block
    workshop,   \* the car's flag, and whether it came from the block
    carLock,    \* [cars -> desk whose transaction holds the advisory lock]
    desk,       \* [Desks -> request]
    beside,     \* ghost: rows written while another desk was adding one
    adrift      \* ghost: the flag names a block that did not have the car, or
                \* whose delete was cut off before it freed the car

sparesVars == <<shift, spare, block, workshop, carLock, desk, beside, adrift>>

Ids   == 1..shift.rows
NoCar == "no car"
NoDesk  == "nobody"

NoSpare   == [status |-> "none", car |-> NoCar, tbd |-> FALSE, joins |-> FALSE]
SpareRows == [status : {"none", "booked", "picked_up", "completed",
                        "cancelled", "deleted"},
              car : StandIns \cup {NoCar}, tbd : {FALSE, TRUE},
              joins : {FALSE, TRUE}]
AtDesk    == [pc |-> "idle", car |-> NoCar, slot |-> 0, snap |-> {}, booked |-> {}, again |-> FALSE]

With(set)  == { i \in Ids : spare[i].status \in set }
Live       == With({"booked", "picked_up"})
Known      == Ids \ With({"none", "deleted"})
OpenBlock  == block \in {"scheduled", "in"}
Standing   == block \notin {"none", "gone"}

(* isVehicleBookable, seen from inside the transaction of desk d.          *)
Bookable(car, aside) == \A i \in Live \ aside : spare[i].car # car

(* The block may have been planned before.                                 *)
SparesInit ==
    /\ shift \in Shifts
    /\ spare = [i \in Ids |-> NoSpare] /\ block \in {"none", "scheduled"}
    /\ workshop = [flag |-> "ok", from |-> "nobody"]
    /\ carLock = [c \in StandIns \cup {Home} |-> NoDesk]
    /\ desk = [d \in Desks |-> AtDesk]
    /\ beside = {} /\ adrift = FALSE

-----------------------------------------------------------------------------
RowsAside  == UNCHANGED <<spare, beside>>
BlockAside == UNCHANGED <<block, workshop, adrift>>

Idle(d, route) == desk[d].pc = "idle" /\ route \in shift.routes
Leave(d)       == desk' = [desk EXCEPT ![d] = AtDesk]

(* What a request holds from its reads until its writes.                   *)
Enter(d, pc, car, slot, snap) ==
    desk' = [desk EXCEPT ![d] = [pc |-> pc, car |-> car, slot |-> slot,
                                 snap |-> snap, booked |-> With({"booked"}),
                                 again |-> Standing]]

Lock(d, cars)   == /\ \A c \in cars : carLock[c] = NoDesk
                   /\ carLock' = [c \in DOMAIN carLock |->
                                    IF c \in cars THEN d ELSE carLock[c]]
Unlock(d)       == carLock' = [c \in DOMAIN carLock |->
                                    IF carLock[c] = d THEN NoDesk ELSE carLock[c]]

Adding(d) == desk[d].pc \in {"plan", "assign", "hold"}

Unwritten == Cardinality(With({"none"}))
NewId     == shift.rows + 1 - Unwritten
Room      == Cardinality({ e \in Desks : Adding(e) }) < Unwritten

(* INSERT of one more replacement row.                                     *)
Insert(d, rows, new) ==
    /\ spare' = [rows EXCEPT ![NewId] = new]
    /\ beside' = IF \E e \in Desks \ {d} : Adding(e) THEN beside \cup {NewId}
                 ELSE beside

Cancelled(ids) ==
    [i \in Ids |-> IF i \in ids /\ spare[i].status # "deleted"
                   THEN [spare[i] EXCEPT !.status = "cancelled"] ELSE spare[i]]

(* A request that ends midway: its transaction, if it has one, and its     *)
(* locks are gone; what it has written without one stays written.          *)
CutOff(d) ==
    /\ desk[d].pc # "idle"
    /\ adrift' = (adrift \/ (desk[d].pc = "release" /\ workshop.from = "block"))
    /\ Unlock(d) /\ Leave(d)
    /\ UNCHANGED <<spare, block, workshop, beside>>

(* A placeholder, and the spare of a new block, replace nothing.           *)
NewRow(car, joins) == [status |-> "booked", car |-> car, tbd |-> car = NoCar,
                       joins |-> joins]

-----------------------------------------------------------------------------
(* Mutant: the status of the spares that stand in already is not read.     *)
AssignStartBlind(d, car) ==
    /\ Idle(d, "assign") /\ Room
    /\ Lock(d, {car})
    /\ Enter(d, "assign", car, 0, Live)
    /\ RowsAside /\ BlockAside

(* createReplacementReservation: the lock of the spare car, the rows that  *)
(* stand in now, and a refusal when one of them was handed over.           *)
AssignStart(d, car) ==
    /\ Idle(d, "assign") /\ Room
    /\ Lock(d, {car})
    /\ With({"picked_up"}) = {}
    /\ Enter(d, "assign", car, 0, Live)
    /\ RowsAside /\ BlockAside

(* Mutant: what stood in before is left alone.                             *)
AssignCommitBeside(d) ==
    /\ desk[d].pc = "assign"
    /\ IF Bookable(desk[d].car, {})
         THEN Insert(d, spare, NewRow(desk[d].car, FALSE))
         ELSE RowsAside
    /\ Unlock(d) /\ Leave(d) /\ BlockAside

(* The old ones are cancelled by id, the car is checked, the new row is    *)
(* inserted; a refusal undoes all of it.                                   *)
AssignCommit(d) ==
    /\ desk[d].pc = "assign"
    /\ IF Bookable(desk[d].car, desk[d].snap)
         THEN Insert(d, Cancelled(desk[d].snap), NewRow(desk[d].car, FALSE))
         ELSE RowsAside
    /\ Unlock(d) /\ Leave(d) /\ BlockAside

(* POST .../maintenance-with-spare: plan the block, or plan it again with  *)
(* another spare.  Every row of the block counts as replaced, also one     *)
(* that was returned; only one that is out refuses.                        *)
PlanStart(d, car) ==
    /\ Idle(d, "plan") /\ block # "gone" /\ Room
    /\ Lock(d, {Home, car})
    /\ Standing => With({"picked_up"}) = {}
    /\ Enter(d, "plan", car, 0, IF Standing THEN Known ELSE {})
    /\ RowsAside /\ BlockAside

PlanCommit(d) ==
    /\ desk[d].pc = "plan"
    /\ IF Bookable(desk[d].car, desk[d].snap)
         THEN /\ Insert(d, Cancelled(desk[d].snap),
                        NewRow(desk[d].car, ~desk[d].again))
              /\ block' = IF block = "none" THEN "scheduled" ELSE block
         ELSE RowsAside /\ UNCHANGED block
    /\ Unlock(d) /\ Leave(d) /\ UNCHANGED <<workshop, adrift>>

(* createPlaceholderReservation: one "to be decided" per rental.           *)
HoldStart(d) ==
    /\ Idle(d, "hold") /\ Room
    /\ \A i \in Known : ~spare[i].tbd
    /\ Enter(d, "hold", NoCar, 0, {})
    /\ UNCHANGED carLock /\ RowsAside /\ BlockAside

HoldCommit(d) ==
    /\ desk[d].pc = "hold"
    /\ Insert(d, spare, NewRow(NoCar, TRUE))
    /\ Leave(d) /\ UNCHANGED carLock /\ BlockAside

(* assignVehicleToPlaceholder reads the placeholder without a lock ...     *)
FillStart(d, i, car) ==
    /\ Idle(d, "fill")
    /\ spare[i].status = "booked" /\ spare[i].tbd
    /\ Enter(d, "fill", car, i, {})
    /\ UNCHANGED carLock /\ RowsAside /\ BlockAside

(* Mutant: the check runs before the transaction, so not at all in it.     *)
FillCommitUnchecked(d) ==
    /\ desk[d].pc = "fill" /\ carLock[desk[d].car] = NoDesk
    /\ LET i == desk[d].slot
       IN IF /\ spare[i].tbd /\ spare[i].status # "deleted"
          THEN spare' = [spare EXCEPT ![i].car = desk[d].car, ![i].tbd = FALSE]
          ELSE UNCHANGED spare
    /\ Leave(d) /\ UNCHANGED <<carLock, beside>> /\ BlockAside

(* ... and writes it under the lock of the car, if it is still one.        *)
FillCommit(d) ==
    /\ desk[d].pc = "fill" /\ carLock[desk[d].car] = NoDesk
    /\ LET i == desk[d].slot
       IN IF /\ Bookable(desk[d].car, {i})
             /\ spare[i].tbd /\ spare[i].status # "deleted"
          THEN spare' = [spare EXCEPT ![i].car = desk[d].car, ![i].tbd = FALSE]
          ELSE UNCHANGED spare
    /\ Leave(d) /\ UNCHANGED <<carLock, beside>> /\ BlockAside

(* The customer drives off in the spare, and brings it back.               *)
PickUpSpare(i) ==
    /\ spare[i].status = "booked" /\ ~spare[i].tbd
    /\ spare' = [spare EXCEPT ![i].status = "picked_up"]
    /\ UNCHANGED <<carLock, desk, beside>> /\ BlockAside

ReturnSpare(i) ==
    /\ spare[i].status = "picked_up"
    /\ spare' = [spare EXCEPT ![i].status = "completed"]
    /\ UNCHANGED <<carLock, desk, beside>> /\ BlockAside

-----------------------------------------------------------------------------
(* Requests on the block.  None of them takes an advisory lock.            *)
EnterBlock(d, pc, slot, snap) ==
    Enter(d, pc, NoCar, slot, snap) /\ UNCHANGED <<carLock, block>>

Go(d, pc) == desk' = [desk EXCEPT ![d].pc = pc]

Freed == [flag |-> "ok", from |-> "nobody"]

(* A flag by hand, or none; a flag that names the block.                   *)
SetFlag(flag)   == workshop' = flag /\ adrift' = FALSE
SetStamp(flag)  == workshop' = [flag EXCEPT !.from = "block"] /\ adrift' = (block # "in")
FlagAside       == UNCHANGED <<workshop, adrift>>

Completed(i) ==
    IF i \in Ids /\ spare[i].status # "deleted"
      THEN [spare EXCEPT ![i].status = "completed"] ELSE spare

(* completeMaintenance: the open spare is looked up before the             *)
(* transaction, the block is closed once, the flag is cleared.             *)
CompleteStart(d, i) ==
    /\ Idle(d, "complete") /\ OpenBlock
    /\ i \in Live \/ (i = 0 /\ Live = {})
    /\ EnterBlock(d, "complete", i, {})
    /\ FlagAside /\ RowsAside

CompleteCommit(d) ==
    /\ desk[d].pc = "complete"
    /\ IF OpenBlock
         THEN /\ block' = "out" /\ SetFlag(Freed)
              /\ spare' = Completed(desk[d].slot)
         ELSE UNCHANGED <<block, workshop, adrift, spare>>
    /\ Leave(d) /\ UNCHANGED <<carLock, beside>>

(* returnVehicleFromService: from the side of the spare.                   *)
BringBackStart(d, i) ==
    /\ Idle(d, "bring_back") /\ i \in Known
    /\ EnterBlock(d, "bring_back", i, IF OpenBlock THEN {i} ELSE {})
    /\ FlagAside /\ RowsAside

BringBackCommit(d) ==
    /\ desk[d].pc = "bring_back"
    /\ spare' = Completed(desk[d].slot)
    /\ block' = IF desk[d].snap # {} /\ block # "gone" THEN "out" ELSE block
    /\ SetFlag(Freed)
    /\ Leave(d) /\ UNCHANGED <<carLock, beside>>

(* DELETE of the block: its spares that are not out, one by one, then the  *)
(* block, then the flag if this block had raised it.                       *)
DeleteStart(d) ==
    /\ Idle(d, "delete") /\ Standing
    /\ EnterBlock(d, "sweep", 0, Known \ With({"picked_up"}))
    /\ FlagAside /\ RowsAside

SweepSpare(d, i) ==
    /\ desk[d].pc = "sweep" /\ i \in desk[d].snap
    /\ spare' = [spare EXCEPT ![i].status = "deleted"]
    /\ desk' = [desk EXCEPT ![d].snap = @ \ {i}]
    /\ UNCHANGED <<carLock, beside>> /\ BlockAside

DeleteBlock(d) ==
    /\ desk[d].pc = "sweep" /\ desk[d].snap = {}
    /\ IF Standing THEN block' = "gone" /\ Go(d, "release")
                   ELSE UNCHANGED block /\ Leave(d)
    /\ UNCHANGED carLock /\ FlagAside /\ RowsAside

(* Mutant: a flag that came from the deleted block stays.                  *)
ReleaseVehicleNever(d) ==
    /\ desk[d].pc = "release"
    /\ Leave(d) /\ UNCHANGED <<carLock, block>> /\ FlagAside /\ RowsAside

ReleaseVehicle(d) ==
    /\ desk[d].pc = "release"
    /\ IF workshop.from = "block" THEN SetFlag(Freed) ELSE FlagAside
    /\ Leave(d) /\ UNCHANGED <<carLock, block>> /\ RowsAside

(* PATCH .../maintenance-status: the flag, the block, the flag again.      *)
CheckInStart(d) ==
    /\ Idle(d, "check_in")
    /\ EnterBlock(d, "look", 0, {})
    /\ SetFlag([flag |-> "in_service", from |-> "nobody"])
    /\ RowsAside

CheckInLook(d) ==
    /\ desk[d].pc = "look"
    /\ IF OpenBlock THEN Go(d, "check_in") ELSE Leave(d)
    /\ UNCHANGED carLock /\ RowsAside /\ BlockAside

CheckInBlock(d) ==
    /\ desk[d].pc = "check_in"
    /\ block' = IF block = "gone" THEN block ELSE "in"
    /\ Go(d, "stamp")
    /\ UNCHANGED carLock /\ FlagAside /\ RowsAside

StampBlock(d) ==
    /\ desk[d].pc \in {"stamp", "reopened"}
    /\ IF desk[d].pc = "stamp" \/ workshop = Freed THEN SetStamp(workshop) ELSE FlagAside
    /\ Leave(d) /\ UNCHANGED <<carLock, block>> /\ RowsAside

(* The history's undo puts a finished block back in the workshop.          *)
Reopen(d) ==
    /\ Idle(d, "reopen") /\ block = "out"
    /\ block' = "in"
    /\ Enter(d, "reopened", NoCar, 0, {})
    /\ UNCHANGED carLock /\ FlagAside /\ RowsAside

-----------------------------------------------------------------------------
SparesStep ==
    \/ \E d \in Desks, c \in StandIns : AssignStart(d, c) \/ PlanStart(d, c)
    \/ \E d \in Desks, c \in StandIns, i \in Ids : FillStart(d, i, c)
    \/ \E d \in Desks : \/ AssignCommit(d) \/ PlanCommit(d) \/ HoldStart(d)
                        \/ HoldCommit(d) \/ FillCommit(d) \/ CompleteCommit(d)
                        \/ BringBackCommit(d) \/ DeleteStart(d) \/ DeleteBlock(d)
                        \/ ReleaseVehicle(d) \/ CheckInStart(d) \/ CheckInLook(d)
                        \/ CheckInBlock(d) \/ StampBlock(d) \/ Reopen(d)
                        \/ CutOff(d)
    \/ \E d \in Desks, i \in Ids \cup {0} : CompleteStart(d, i)
    \/ \E d \in Desks, i \in Ids : BringBackStart(d, i) \/ SweepSpare(d, i)
    \/ \E i \in Ids : PickUpSpare(i) \/ ReturnSpare(i)

SparesNext == SparesStep /\ UNCHANGED shift

SparesSpec == SparesInit /\ [][SparesNext]_sparesVars

-----------------------------------------------------------------------------
SparesTypeOK ==
    /\ shift \in Shifts /\ spare \in [Ids -> SpareRows]
    /\ block \in {"none", "scheduled", "in", "out", "gone"}
    /\ workshop \in [flag : {"ok", "in_service"}, from : {"nobody", "block"}]
    /\ carLock \in [StandIns \cup {Home} -> Desks \cup {NoDesk}]
    /\ beside \subseteq Ids /\ adrift \in {FALSE, TRUE}

(* No car stands in twice: whichever of the three writers puts a car on a  *)
(* replacement row, it is never on two live rows.                          *)
NoCarTwice ==
    \A i, j \in Live : i # j /\ spare[i].car # NoCar => spare[i].car # spare[j].car

(* The rental has one stand-in after an assignment: two live rows of which *)
(* the younger was assigned were written while another request was adding  *)
(* one, as the check and the INSERT are two statements and the lock is on  *)
(* the spare only.                                                         *)
OneStandIn ==
    \A i, j \in Live : i < j /\ ~spare[j].joins => {i, j} \cap beside # {}

(* A spare that is with the customer is not cancelled and not deleted,     *)
(* except by a request that saw it before it was handed over.              *)
HandedOverStays ==
    [][\A i \in With({"picked_up"}) :
          spare'[i].status \in {"cancelled", "deleted"} =>
             \E d \in Desks : desk[d].pc # "idle" /\ i \in desk[d].booked
      ]_sparesVars

(* The flag of the car names a block only while that block has the car in  *)
(* the workshop, or while the request that deleted the block is on its way *)
(* to free the car - however requests on the block cross - unless that     *)
(* request was cut off, or the stamp came after the block had been closed. *)
FlagHasItsBlock ==
    workshop.from = "block" =>
        block = "in" \/ adrift \/ \E d \in Desks : desk[d].pc = "release"
=============================================================================
