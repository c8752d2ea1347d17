---------------------------- MODULE Spares_proofs ----------------------------
(* Proofs about Spares, for any number of spare cars, requests and rows.    *)
EXTENDS Spares, FiniteSetTheorems, TLAPS

(* What a request is, row by row.                                          *)
Stages == {"idle", "plan", "assign", "hold", "fill", "complete", "bring_back",
           "sweep", "release", "look", "check_in", "stamp", "reopened"}

DeskRows == [pc : Stages, car : StandIns \cup {NoCar}, slot : Ids \cup {0},
             snap : SUBSET Ids, booked : SUBSET Ids, again : BOOLEAN]

DesksTyped == desk \in [Desks -> DeskRows]

(* Rows are written in the order of their ids.                             *)
InOrder == \E n \in 0..shift.rows :
               \A i \in Ids : spare[i].status = "none" <=> i > n

(* There is a row left for every request that is adding one.               *)
Adders   == { d \in Desks : Adding(d) }
RoomHeld == Cardinality(Adders) <= Unwritten

(* A row somebody looked at was written, and one that was not booked when  *)
(* the request looked is not out with the customer now.                    *)
LookedAt ==
    \A d \in Desks : \A i \in Ids :
        /\ desk[d].pc \in {"plan", "assign", "sweep"} /\ i \in desk[d].snap =>
              /\ spare[i].status # "none"
              /\ i \in desk[d].booked \/ spare[i].status \notin {"booked", "picked_up"}
        /\ desk[d].pc \in {"complete", "bring_back"} /\ i = desk[d].slot =>
              spare[i].status # "none"

(* A request that will replace the stand-ins knows all of them but those   *)
(* that were written while it was adding its own.                          *)
Replacing(d) == desk[d].pc = "assign" \/ (desk[d].pc = "plan" /\ desk[d].again)

AllSeen == \A d \in Desks : Replacing(d) => Live \subseteq desk[d].snap \cup beside

SparesInv ==
    /\ SparesTypeOK /\ DesksTyped /\ InOrder /\ RoomHeld /\ LookedAt /\ AllSeen
    /\ NoCarTwice /\ OneStandIn /\ FlagHasItsBlock

-----------------------------------------------------------------------------
(* What a request and a row may become.                                    *)
LEMMA IdleTyped == AtDesk \in DeskRows
BY DEF AtDesk, DeskRows, Stages

LEMMA DeskTyped ==
    ASSUME DesksTyped, NEW d \in Desks, NEW w \in DeskRows
    PROVE  [desk EXCEPT ![d] = w] \in [Desks -> DeskRows]
BY DEF DesksTyped

LEMMA LeaveTyped ==
    ASSUME DesksTyped, NEW d \in Desks, Leave(d)
    PROVE  desk' \in [Desks -> DeskRows]
BY IdleTyped, DeskTyped DEF Leave

LEMMA EnterTyped ==
    ASSUME DesksTyped, NEW d \in Desks, NEW pc \in Stages,
           NEW car \in StandIns \cup {NoCar}, NEW slot \in Ids \cup {0},
           NEW snap \in SUBSET Ids, Enter(d, pc, car, slot, snap)
    PROVE  desk' \in [Desks -> DeskRows]
<1>1. /\ With({"booked"}) \in SUBSET Ids
      /\ Standing \in BOOLEAN
    BY DEF With, Standing
<1>2. [pc |-> pc, car |-> car, slot |-> slot, snap |-> snap,
       booked |-> With({"booked"}), again |-> Standing] \in DeskRows
    BY <1>1 DEF DeskRows
<1>. QED BY <1>2, DeskTyped DEF Enter

LEMMA GoTyped ==
    ASSUME DesksTyped, NEW d \in Desks, NEW pc \in Stages, Go(d, pc)
    PROVE  desk' \in [Desks -> DeskRows]
<1>1. [desk[d] EXCEPT !.pc = pc] \in DeskRows BY DEF DesksTyped, DeskRows
<1>2. desk' = [desk EXCEPT ![d] = [desk[d] EXCEPT !.pc = pc]] BY DEF Go
<1>. QED BY <1>1, <1>2, DeskTyped

LEMMA LockTyped ==
    ASSUME carLock \in [StandIns \cup {Home} -> Desks \cup {NoDesk}],
           NEW d \in Desks, NEW cars, Lock(d, cars) \/ Unlock(d)
    PROVE  carLock' \in [StandIns \cup {Home} -> Desks \cup {NoDesk}]
BY DEF Lock, Unlock

LEMMA RowTyped ==
    ASSUME NEW row \in SpareRows, NEW status \in {"picked_up", "completed",
                 "cancelled", "deleted"}
    PROVE  [row EXCEPT !.status = status] \in SpareRows
BY DEF SpareRows

LEMMA SwapTyped ==
    ASSUME NEW row \in SpareRows, NEW car \in StandIns \cup {NoCar}
    PROVE  [row EXCEPT !.car = car, !.tbd = FALSE] \in SpareRows
BY DEF SpareRows

LEMMA NewTyped ==
    ASSUME NEW car \in StandIns \cup {NoCar}, NEW joins \in BOOLEAN
    PROVE  NewRow(car, joins) \in SpareRows
BY DEF NewRow, SpareRows

LEMMA CancelledTyped ==
    ASSUME spare \in [Ids -> SpareRows], NEW ids
    PROVE  Cancelled(ids) \in [Ids -> SpareRows]
BY RowTyped DEF Cancelled

LEMMA CompletedTyped ==
    ASSUME spare \in [Ids -> SpareRows], NEW i
    PROVE  Completed(i) \in [Ids -> SpareRows]
BY RowTyped DEF Completed

(* The rows are given out in order: the next one is the first unwritten.   *)
LEMMA NextRow ==
    ASSUME SparesTypeOK, InOrder
    PROVE  /\ shift.rows \in Nat /\ Unwritten \in Nat
           /\ \A i \in Ids : spare[i].status = "none" <=> i >= NewId
           /\ NewId \in 1..(shift.rows + 1)
           /\ Unwritten # 0 => NewId \in Ids
<1>1. shift.rows \in Nat
    BY SparesAssumption DEF SparesTypeOK
<1>2. PICK n \in 0..shift.rows : \A i \in Ids : spare[i].status = "none" <=> i > n
    BY DEF InOrder
<1>3. With({"none"}) = (n + 1)..shift.rows
    BY <1>1, <1>2 DEF With, Ids
<1>4. Cardinality(With({"none"})) = shift.rows - n
    <2>1. n + 1 \in Int /\ shift.rows \in Int BY <1>1, <1>2
    <2>. QED BY <1>1, <1>2, <1>3, <2>1, FS_Interval
<1>5. NewId = n + 1
    BY <1>1, <1>2, <1>4 DEF NewId, Unwritten
<1>. QED BY <1>1, <1>2, <1>4, <1>5 DEF Unwritten, Ids

(* The requests that are adding a row are counted like any finite set.     *)
LEMMA AddersFinite ==
    IsFiniteSet(Adders) /\ Cardinality(Adders) \in Nat
BY SparesAssumption, FS_Subset, FS_CardinalityType DEF Adders

LEMMA RowIsLeft ==
    ASSUME SparesTypeOK, InOrder, RoomHeld, NEW d \in Desks, Adding(d)
    PROVE  Unwritten # 0 /\ NewId \in Ids /\ spare[NewId].status = "none"
<1>1. Adders # {}
    BY DEF Adders
<1>2. Cardinality(Adders) # 0
    BY <1>1, AddersFinite, FS_EmptySet
<1>3. Unwritten # 0
    BY <1>2, AddersFinite, NextRow DEF RoomHeld
<1>. QED BY <1>3, NextRow DEF Ids
(* Types are kept: one step per action.                                    *)
LEMMA TypeStep ==
    ASSUME SparesTypeOK, DesksTyped, InOrder, RoomHeld, SparesNext
    PROVE  (SparesTypeOK /\ DesksTyped)'
<1>0. shift' = shift /\ Ids' = Ids
    BY DEF SparesNext, Ids
<1>. DEFINE Typed ==
                    /\ spare' \in [Ids -> SpareRows]
                    /\ block' \in {"none", "scheduled", "in", "out", "gone"}
                    /\ workshop' \in [flag : {"ok", "in_service"},
                                      from : {"nobody", "block"}]
                    /\ carLock' \in [StandIns \cup {Home} -> Desks \cup {NoDesk}]
                    /\ beside' \subseteq Ids /\ adrift' \in {FALSE, TRUE}
                    /\ desk' \in [Desks -> DeskRows]
<1>. SUFFICES Typed
    BY <1>0 DEF SparesNext, SparesTypeOK, DesksTyped, SpareRows, DeskRows
<1>. USE DEF SparesTypeOK
<1>a. Live \in SUBSET Ids /\ Known \in SUBSET Ids /\ {} \in SUBSET Ids
      /\ Known \ With({"picked_up"}) \in SUBSET Ids
      /\ 0 \in Ids \cup {0} /\ NoCar \in StandIns \cup {NoCar}
    BY DEF Live, Known, With
<1>b. Freed \in [flag : {"ok", "in_service"}, from : {"nobody", "block"}]
    BY DEF Freed
<1>c. ASSUME NEW d \in Desks, Adding(d), NEW rows \in [Ids -> SpareRows],
             NEW new \in SpareRows, Insert(d, rows, new)
      PROVE  spare' \in [Ids -> SpareRows] /\ beside' \subseteq Ids
    BY <1>c, RowIsLeft DEF Insert
<1>1. ASSUME NEW d \in Desks, NEW c \in StandIns, AssignStart(d, c) PROVE Typed
    BY <1>1, <1>a, EnterTyped, LockTyped DEF AssignStart, RowsAside, BlockAside, Stages
<1>2. ASSUME NEW d \in Desks, NEW c \in StandIns, PlanStart(d, c) PROVE Typed
    BY <1>2, <1>a, EnterTyped, LockTyped DEF PlanStart, RowsAside, BlockAside, Stages
<1>3. ASSUME NEW d \in Desks, NEW i \in Ids, NEW c \in StandIns, FillStart(d, i, c) PROVE Typed
    BY <1>3, <1>a, EnterTyped DEF FillStart, RowsAside, BlockAside, Stages
<1>4. ASSUME NEW d \in Desks, AssignCommit(d) PROVE Typed
    <2>1. desk[d].car \in StandIns \cup {NoCar} /\ Adding(d)
        BY <1>4 DEF AssignCommit, DesksTyped, DeskRows, Adding
    <2>2. NewRow(desk[d].car, FALSE) \in SpareRows
        BY <2>1, NewTyped
    <2>3. Cancelled(desk[d].snap) \in [Ids -> SpareRows]
        BY CancelledTyped
    <2>. QED BY <1>4, <1>c, <2>1, <2>2, <2>3, LeaveTyped, LockTyped
             DEF AssignCommit, RowsAside, BlockAside
<1>5. ASSUME NEW d \in Desks, PlanCommit(d) PROVE Typed
    <2>1. desk[d].car \in StandIns \cup {NoCar} /\ Adding(d) /\ (~desk[d].again) \in BOOLEAN
        BY <1>5 DEF PlanCommit, DesksTyped, DeskRows, Adding
    <2>2. NewRow(desk[d].car, ~desk[d].again) \in SpareRows
        BY <2>1, NewTyped
    <2>3. Cancelled(desk[d].snap) \in [Ids -> SpareRows]
        BY CancelledTyped
    <2>. QED BY <1>5, <1>c, <2>1, <2>2, <2>3, LeaveTyped, LockTyped
             DEF PlanCommit, RowsAside
<1>6. ASSUME NEW d \in Desks, HoldStart(d) PROVE Typed
    BY <1>6, <1>a, EnterTyped DEF HoldStart, RowsAside, BlockAside, Stages
<1>7. ASSUME NEW d \in Desks, HoldCommit(d) PROVE Typed
    BY <1>7, <1>a, <1>c, LeaveTyped, NewTyped DEF HoldCommit, BlockAside, Adding
<1>8. ASSUME NEW d \in Desks, FillCommit(d) PROVE Typed
    <2>1. desk[d].car \in StandIns \cup {NoCar} /\ desk[d].slot \in Ids \cup {0}
        BY DEF DesksTyped, DeskRows
    <2>2. [spare EXCEPT ![desk[d].slot].car = desk[d].car,
                        ![desk[d].slot].tbd = FALSE] \in [Ids -> SpareRows]
        BY <2>1, SwapTyped
    <2>. QED BY <1>8, <2>2, LeaveTyped DEF FillCommit, BlockAside
<1>9. ASSUME NEW d \in Desks, CompleteCommit(d) PROVE Typed
    <2>1. Completed(desk[d].slot) \in [Ids -> SpareRows]
        BY CompletedTyped
    <2>2. CASE OpenBlock
        BY <1>9, <1>b, <2>1, <2>2, LeaveTyped DEF CompleteCommit, SetFlag
    <2>3. CASE ~OpenBlock
        BY <1>9, <2>3, LeaveTyped DEF CompleteCommit
    <2>. QED BY <2>2, <2>3
<1>10. ASSUME NEW d \in Desks, BringBackCommit(d) PROVE Typed
    BY <1>10, <1>b, LeaveTyped, CompletedTyped DEF BringBackCommit, SetFlag
<1>11. ASSUME NEW d \in Desks, DeleteStart(d) PROVE Typed
    BY <1>11, <1>a, EnterTyped DEF DeleteStart, EnterBlock, FlagAside, RowsAside, Stages
<1>12. ASSUME NEW d \in Desks, DeleteBlock(d) PROVE Typed
    BY <1>12, LeaveTyped, GoTyped DEF DeleteBlock, FlagAside, RowsAside, Stages
<1>13. ASSUME NEW d \in Desks, ReleaseVehicle(d) PROVE Typed
    BY <1>13, <1>b, LeaveTyped DEF ReleaseVehicle, SetFlag, FlagAside, RowsAside
<1>14. ASSUME NEW d \in Desks, CheckInStart(d) PROVE Typed
    BY <1>14, <1>a, EnterTyped DEF CheckInStart, EnterBlock, SetFlag, RowsAside, Stages
<1>15. ASSUME NEW d \in Desks, CheckInLook(d) PROVE Typed
    BY <1>15, LeaveTyped, GoTyped DEF CheckInLook, RowsAside, BlockAside, Stages
<1>16. ASSUME NEW d \in Desks, CheckInBlock(d) PROVE Typed
    BY <1>16, GoTyped DEF CheckInBlock, FlagAside, RowsAside, Stages
<1>17. ASSUME NEW d \in Desks, StampBlock(d) PROVE Typed
    BY <1>17, LeaveTyped DEF StampBlock, SetStamp, FlagAside, RowsAside
<1>18. ASSUME NEW d \in Desks, Reopen(d) PROVE Typed
    BY <1>18, <1>a, EnterTyped DEF Reopen, FlagAside, RowsAside, Stages
<1>19. ASSUME NEW d \in Desks, NEW i \in Ids \cup {0}, CompleteStart(d, i) PROVE Typed
    BY <1>19, <1>a, EnterTyped DEF CompleteStart, EnterBlock, FlagAside, RowsAside, Stages
<1>20. ASSUME NEW d \in Desks, NEW i \in Ids, BringBackStart(d, i) PROVE Typed
    <2>1. (IF OpenBlock THEN {i} ELSE {}) \in SUBSET Ids
        OBVIOUS
    <2>. QED BY <1>20, <1>a, <2>1, EnterTyped
             DEF BringBackStart, EnterBlock, FlagAside, RowsAside, Stages
<1>21. ASSUME NEW d \in Desks, NEW i \in Ids, SweepSpare(d, i) PROVE Typed
    <2>1. [desk[d] EXCEPT !.snap = @ \ {i}] \in DeskRows
        BY DEF DesksTyped, DeskRows
    <2>2. desk' \in [Desks -> DeskRows]
        BY <1>21, <2>1, DeskTyped DEF SweepSpare
    <2>. QED BY <1>21, <2>2, RowTyped DEF SweepSpare, BlockAside
<1>22. ASSUME NEW i \in Ids, PickUpSpare(i) PROVE Typed
    BY <1>22, RowTyped DEF PickUpSpare, BlockAside, DesksTyped
<1>23. ASSUME NEW i \in Ids, ReturnSpare(i) PROVE Typed
    BY <1>23, RowTyped DEF ReturnSpare, BlockAside, DesksTyped
<1>24. ASSUME NEW d \in Desks, CutOff(d) PROVE Typed
    BY <1>24, LeaveTyped, LockTyped DEF CutOff
<1>. QED BY <1>1, <1>2, <1>3, <1>4, <1>5, <1>6, <1>7, <1>8, <1>9, <1>10, <1>11, <1>12,
            <1>13, <1>14, <1>15, <1>16, <1>17, <1>18, <1>19, <1>20, <1>21, <1>22,
            <1>23, <1>24 DEF SparesNext, SparesStep

-----------------------------------------------------------------------------
(* What a step does to the rows.  Either it adds none, and then a row that *)
(* stands in now has stood in before, only a request that saw a row before *)
(* its car was handed over takes it from the customer, and nobody else has *)
(* the car that was put on one of them, ...                                *)
Gentle ==
    /\ beside' = beside
    /\ \A i \in Ids :
          /\ spare'[i].status = "none" <=> spare[i].status = "none"
          /\ spare'[i].status = "booked" => spare[i].status = "booked"
          /\ spare'[i].status = "picked_up" => spare[i].status \in {"booked", "picked_up"}
          /\ spare'[i].joins = spare[i].joins
          /\ spare[i].status = "picked_up" /\ spare'[i].status \in {"cancelled", "deleted"}
                => \E d \in Desks : desk[d].pc # "idle" /\ i \in desk[d].booked
    /\ \/ \A i \in Ids : spare'[i].car = spare[i].car
       \/ \E i \in Ids : \A j \in Ids \ {i} :
             /\ spare'[j].car = spare[j].car
             /\ j \in Live => spare[j].car # spare'[i].car

(* ... and the request that took the step starts with all it has to know,  *)
Turn(d) ==
    /\ desk' = [desk EXCEPT ![d] = desk'[d]]
    /\ Adding(d)' => ~Adding(d) /\ Room /\ spare' = spare
    /\ \A i \in Ids :
          /\ desk'[d].pc \in {"plan", "assign", "sweep"} /\ i \in desk'[d].snap =>
                /\ spare[i].status # "none"
                /\ \/ i \in desk'[d].booked
                   \/ spare[i].status \notin {"booked", "picked_up"}
          /\ desk'[d].pc \in {"complete", "bring_back"} /\ i = desk'[d].slot =>
                spare[i].status # "none"
    /\ Replacing(d)' => Live \subseteq desk'[d].snap

(* ... or it is the last step of a request that adds one.                  *)
Added(d) ==
    /\ Adding(d) /\ Leave(d)
    /\ \E S \in SUBSET Ids, car \in StandIns \cup {NoCar}, joins \in BOOLEAN :
          /\ Insert(d, Cancelled(S), NewRow(car, joins))
          /\ S = {} \/ (S = desk[d].snap /\ desk[d].pc \in {"plan", "assign"})
          /\ car = NoCar \/ Bookable(car, S)
          /\ joins \/ (Replacing(d) /\ S = desk[d].snap)

LEMMA QuietRows ==
    ASSUME RowsAside PROVE Gentle
BY DEF RowsAside, Gentle

(* A request that leaves, or goes on without rows to look after.           *)
LEMMA LeavingTurn ==
    ASSUME DesksTyped, NEW d \in Desks, Leave(d)
    PROVE  Turn(d)
BY DEF Leave, AtDesk, Turn, Adding, Replacing, DesksTyped

LEMMA GoingTurn ==
    ASSUME DesksTyped, NEW d \in Desks,
           NEW pc \in {"release", "check_in", "stamp"}, Go(d, pc)
    PROVE  Turn(d)
BY DEF Go, Turn, Adding, Replacing, DesksTyped, DeskRows

(* A request that enters at a desk on the block.                           *)
LEMMA EnteringTurn ==
    ASSUME DesksTyped, NEW d \in Desks,
           NEW pc \in {"fill", "complete", "bring_back", "look", "reopened"},
           NEW car, NEW slot, NEW snap, Enter(d, pc, car, slot, snap),
           slot \in Ids => spare[slot].status # "none"
    PROVE  Turn(d)
BY DEF Enter, Turn, Adding, Replacing, DesksTyped

(* The rows of one status that a request takes along.                      *)
LEMMA ChosenTurn ==
    ASSUME DesksTyped, NEW d \in Desks, NEW pc \in {"plan", "assign", "sweep"},
           NEW car, NEW slot, NEW snap \in SUBSET Ids, Enter(d, pc, car, slot, snap),
           \A i \in snap : spare[i].status \notin {"none", "picked_up"},
           pc # "sweep" => Idle(d, pc) /\ Room /\ spare' = spare,
           pc = "assign" \/ (pc = "plan" /\ Standing) => Live \subseteq snap
    PROVE  Turn(d)
<1>1. desk' = [desk EXCEPT ![d] = [pc |-> pc, car |-> car, slot |-> slot,
                  snap |-> snap, booked |-> With({"booked"}), again |-> Standing]]
    BY DEF Enter
<1>2. desk'[d] = [pc |-> pc, car |-> car, slot |-> slot, snap |-> snap,
                  booked |-> With({"booked"}), again |-> Standing]
    BY <1>1 DEF DesksTyped
<1>3. \A i \in Ids : spare[i].status = "booked" => i \in desk'[d].booked
    BY <1>2 DEF With
<1>4. Adding(d)' => ~Adding(d) /\ Room /\ spare' = spare
    BY <1>2 DEF Adding, Idle
<1>5. Replacing(d)' => Live \subseteq desk'[d].snap
    BY <1>2 DEF Replacing
<1>6. desk' = [desk EXCEPT ![d] = desk'[d]]
    BY <1>1, <1>2
<1>7. \A i \in Ids :
         /\ i \in desk'[d].snap =>
               /\ spare[i].status # "none"
               /\ \/ i \in desk'[d].booked
                  \/ spare[i].status \notin {"booked", "picked_up"}
         /\ desk'[d].pc \notin {"complete", "bring_back"}
    BY <1>2, <1>3
<1>. QED BY <1>4, <1>5, <1>6, <1>7 DEF Turn

(* Every step is of one of the two kinds: one step per action.             *)
LEMMA Kinds ==
    ASSUME SparesTypeOK, DesksTyped, InOrder, RoomHeld, LookedAt, SparesNext
    PROVE  \/ Gentle /\ (desk' = desk \/ \E d \in Desks : Turn(d))
           \/ \E d \in Desks : Added(d)
<1>. DEFINE Kind == \/ Gentle /\ (desk' = desk \/ \E d \in Desks : Turn(d))
                    \/ \E d \in Desks : Added(d)
<1>. SUFFICES Kind OBVIOUS
<1>a. /\ Live \in SUBSET Ids /\ Known \in SUBSET Ids /\ {} \in SUBSET Ids
      /\ Known \ With({"picked_up"}) \in SUBSET Ids
      /\ 0 \notin Ids /\ Live \subseteq Known
    BY DEF Live, Known, With, Ids
<1>b. \A i \in Known : spare[i].status # "none"
    BY DEF Known, With
<1>1. ASSUME NEW d \in Desks, NEW c \in StandIns, AssignStart(d, c) PROVE Kind
    <2>1. \A i \in Live : spare[i].status \notin {"none", "picked_up"}
        BY <1>1 DEF AssignStart, Live, With
    <2>2. Turn(d)
        BY <1>1, <1>a, <2>1, ChosenTurn DEF AssignStart, RowsAside
    <2>. QED BY <1>1, <2>2, QuietRows DEF AssignStart
<1>2. ASSUME NEW d \in Desks, NEW c \in StandIns, PlanStart(d, c) PROVE Kind
    <2>. DEFINE snap == IF Standing THEN Known ELSE {}
    <2>1. /\ snap \in SUBSET Ids
          /\ \A i \in snap : spare[i].status \notin {"none", "picked_up"}
        BY <1>2, <1>a, <1>b DEF PlanStart, With
    <2>2. Standing => Live \subseteq snap
        BY <1>a
    <2>3. Idle(d, "plan") /\ Room /\ spare' = spare /\ Enter(d, "plan", c, 0, snap)
        BY <1>2 DEF PlanStart, RowsAside
    <2>. HIDE DEF snap
    <2>4. Turn(d)
        BY <2>1, <2>2, <2>3, ChosenTurn
    <2>. QED BY <1>2, <2>4, QuietRows DEF PlanStart
<1>3. ASSUME NEW d \in Desks, NEW i \in Ids, NEW c \in StandIns, FillStart(d, i, c)
      PROVE  Kind
    <2>1. Turn(d)
        BY <1>3, EnteringTurn DEF FillStart
    <2>. QED BY <1>3, <2>1, QuietRows DEF FillStart
<1>4. ASSUME NEW d \in Desks, AssignCommit(d) PROVE Kind
    <2>1. CASE ~Bookable(desk[d].car, desk[d].snap)
        BY <1>4, <2>1, LeavingTurn, QuietRows DEF AssignCommit
    <2>2. CASE Bookable(desk[d].car, desk[d].snap)
        <3>1. /\ desk[d].snap \in SUBSET Ids
              /\ desk[d].car \in StandIns \cup {NoCar}
              /\ FALSE \in BOOLEAN
            BY DEF DesksTyped, DeskRows
        <3>2. Insert(d, Cancelled(desk[d].snap), NewRow(desk[d].car, FALSE))
            BY <1>4, <2>2 DEF AssignCommit
        <3>3. Adding(d) /\ Leave(d) /\ Replacing(d) /\ desk[d].pc = "assign"
            BY <1>4 DEF AssignCommit, Adding, Replacing
        <3>4. Added(d)
            BY <2>2, <3>1, <3>2, <3>3 DEF Added
        <3>. QED BY <3>4
    <2>. QED BY <2>1, <2>2
<1>5. ASSUME NEW d \in Desks, PlanCommit(d) PROVE Kind
    <2>1. CASE ~Bookable(desk[d].car, desk[d].snap)
        BY <1>5, <2>1, LeavingTurn, QuietRows DEF PlanCommit
    <2>2. CASE Bookable(desk[d].car, desk[d].snap)
        <3>1. /\ desk[d].snap \in SUBSET Ids
              /\ desk[d].car \in StandIns \cup {NoCar}
              /\ (~desk[d].again) \in BOOLEAN
            BY DEF DesksTyped, DeskRows
        <3>2. Insert(d, Cancelled(desk[d].snap), NewRow(desk[d].car, ~desk[d].again))
            BY <1>5, <2>2 DEF PlanCommit
        <3>3. /\ Adding(d) /\ Leave(d) /\ desk[d].pc = "plan"
              /\ ~desk[d].again \/ Replacing(d)
            BY <1>5 DEF PlanCommit, Adding, Replacing
        <3>4. Added(d)
            BY <2>2, <3>1, <3>2, <3>3 DEF Added
        <3>. QED BY <3>4
    <2>. QED BY <2>1, <2>2
<1>6. ASSUME NEW d \in Desks, HoldStart(d) PROVE Kind
    <2>1. Turn(d)
        BY <1>6 DEF HoldStart, RowsAside, Idle, Enter, Turn, Adding, Replacing, DesksTyped
    <2>. QED BY <1>6, <2>1, QuietRows DEF HoldStart
<1>7. ASSUME NEW d \in Desks, HoldCommit(d) PROVE Kind
    <2>1. Cancelled({}) = spare
        BY DEF Cancelled, SparesTypeOK
    <2>2. Adding(d) /\ Leave(d) /\ Insert(d, Cancelled({}), NewRow(NoCar, TRUE))
        BY <1>7, <2>1 DEF HoldCommit, Adding
    <2>3. /\ {} \in SUBSET Ids /\ NoCar \in StandIns \cup {NoCar}
          /\ TRUE \in BOOLEAN
        OBVIOUS
    <2>4. Added(d)
        BY <2>2, <2>3 DEF Added
    <2>. QED BY <2>4
<1>8. ASSUME NEW d \in Desks, FillCommit(d) PROVE Kind
    <2>1. Turn(d)
        BY <1>8, LeavingTurn DEF FillCommit
    <2>2. CASE spare' = spare
        BY <1>8, <2>1, <2>2, QuietRows DEF FillCommit, RowsAside
    <2>3. CASE /\ Bookable(desk[d].car, {desk[d].slot})
               /\ spare' = [spare EXCEPT ![desk[d].slot].car = desk[d].car,
                                         ![desk[d].slot].tbd = FALSE]
        <3>1. CASE desk[d].slot \notin Ids
            <4>1. spare' = spare
                BY <2>3, <3>1 DEF SparesTypeOK
            <4>. QED BY <2>2, <4>1
        <3>2. CASE desk[d].slot \in Ids
            <4>1. \A j \in Ids : /\ spare'[j].status = spare[j].status
                                 /\ spare'[j].joins = spare[j].joins
                BY <2>3, <3>2 DEF SparesTypeOK, SpareRows
            <4>2. \A j \in Ids \ {desk[d].slot} :
                     /\ spare'[j].car = spare[j].car
                     /\ j \in Live => spare[j].car # spare'[desk[d].slot].car
                BY <2>3, <3>2 DEF SparesTypeOK, SpareRows, Bookable
            <4>3. Gentle
                BY <1>8, <3>2, <4>1, <4>2 DEF Gentle, FillCommit
            <4>. QED BY <2>1, <4>3
        <3>. QED BY <3>1, <3>2
    <2>. QED BY <1>8, <2>2, <2>3 DEF FillCommit
<1>c. ASSUME NEW i, i \in Ids => spare[i].status # "none",
             spare' = Completed(i), beside' = beside
      PROVE  Gentle
    BY <1>c DEF Completed, Gentle, SparesTypeOK, SpareRows
<1>9. ASSUME NEW d \in Desks, CompleteCommit(d) PROVE Kind
    <2>1. Turn(d)
        BY <1>9, LeavingTurn DEF CompleteCommit
    <2>2. Gentle
        BY <1>9, <1>c, QuietRows DEF CompleteCommit, LookedAt, RowsAside
    <2>. QED BY <2>1, <2>2
<1>10. ASSUME NEW d \in Desks, BringBackCommit(d) PROVE Kind
    <2>1. Turn(d)
        BY <1>10, LeavingTurn DEF BringBackCommit
    <2>2. Gentle
        BY <1>10, <1>c DEF BringBackCommit, LookedAt
    <2>. QED BY <2>1, <2>2
<1>11. ASSUME NEW d \in Desks, DeleteStart(d) PROVE Kind
    <2>1. \A i \in Known \ With({"picked_up"}) :
             spare[i].status \notin {"none", "picked_up"}
        BY <1>a, <1>b DEF With
    <2>2. Turn(d)
        BY <1>11, <1>a, <2>1, ChosenTurn DEF DeleteStart, EnterBlock
    <2>. QED BY <1>11, <2>2, QuietRows DEF DeleteStart
<1>12. ASSUME NEW d \in Desks, DeleteBlock(d) PROVE Kind
    BY <1>12, LeavingTurn, GoingTurn, QuietRows DEF DeleteBlock
<1>13. ASSUME NEW d \in Desks, ReleaseVehicle(d) PROVE Kind
    BY <1>13, LeavingTurn, QuietRows DEF ReleaseVehicle
<1>14. ASSUME NEW d \in Desks, CheckInStart(d) PROVE Kind
    <2>1. Turn(d)
        BY <1>14, <1>a, EnteringTurn DEF CheckInStart, EnterBlock
    <2>. QED BY <1>14, <2>1, QuietRows DEF CheckInStart
<1>15. ASSUME NEW d \in Desks, CheckInLook(d) PROVE Kind
    BY <1>15, LeavingTurn, GoingTurn, QuietRows DEF CheckInLook
<1>16. ASSUME NEW d \in Desks, CheckInBlock(d) PROVE Kind
    BY <1>16, GoingTurn, QuietRows DEF CheckInBlock
<1>17. ASSUME NEW d \in Desks, StampBlock(d) PROVE Kind
    BY <1>17, LeavingTurn, QuietRows DEF StampBlock
<1>18. ASSUME NEW d \in Desks, Reopen(d) PROVE Kind
    <2>1. Turn(d)
        BY <1>18, <1>a, EnteringTurn DEF Reopen
    <2>. QED BY <1>18, <2>1, QuietRows DEF Reopen
<1>19. ASSUME NEW d \in Desks, NEW i \in Ids \cup {0}, CompleteStart(d, i) PROVE Kind
    <2>1. i \in Ids => spare[i].status # "none"
        BY <1>19, <1>a DEF CompleteStart, Live, With
    <2>2. Turn(d)
        BY <1>19, <2>1, EnteringTurn DEF CompleteStart, EnterBlock
    <2>. QED BY <1>19, <2>2, QuietRows DEF CompleteStart
<1>20. ASSUME NEW d \in Desks, NEW i \in Ids, BringBackStart(d, i) PROVE Kind
    <2>1. Turn(d)
        BY <1>20, <1>b, EnteringTurn DEF BringBackStart, EnterBlock
    <2>. QED BY <1>20, <2>1, QuietRows DEF BringBackStart
<1>21. ASSUME NEW d \in Desks, NEW i \in Ids, SweepSpare(d, i) PROVE Kind
    <2>1. spare[i].status # "none"
        BY <1>21 DEF SweepSpare, LookedAt
    <2>2. Gentle
        <3>1. spare[i].status = "picked_up" => desk[d].pc # "idle" /\ i \in desk[d].booked
            BY <1>21 DEF SweepSpare, LookedAt
        <3>. QED BY <1>21, <2>1, <3>1 DEF SweepSpare, Gentle, SparesTypeOK, SpareRows
    <2>3. Turn(d)
        BY <1>21 DEF SweepSpare, Turn, LookedAt, DesksTyped, DeskRows, Adding, Replacing
    <2>. QED BY <2>2, <2>3
<1>22. ASSUME NEW i \in Ids, PickUpSpare(i) PROVE Kind
    <2>1. Gentle
        BY <1>22 DEF PickUpSpare, Gentle, SparesTypeOK, SpareRows
    <2>. QED BY <1>22, <2>1 DEF PickUpSpare
<1>23. ASSUME NEW i \in Ids, ReturnSpare(i) PROVE Kind
    <2>1. Gentle
        BY <1>23 DEF ReturnSpare, Gentle, SparesTypeOK, SpareRows
    <2>. QED BY <1>23, <2>1 DEF ReturnSpare
<1>24. ASSUME NEW d \in Desks, CutOff(d) PROVE Kind
    BY <1>24, LeavingTurn, QuietRows DEF CutOff, RowsAside
<1>. QED BY <1>1, <1>2, <1>3, <1>4, <1>5, <1>6, <1>7, <1>8, <1>9, <1>10, <1>11, <1>12,
            <1>13, <1>14, <1>15, <1>16, <1>17, <1>18, <1>19, <1>20, <1>21, <1>22,
            <1>23, <1>24 DEF SparesNext, SparesStep

-----------------------------------------------------------------------------
(* What the new row is, and what becomes of the others.                    *)
LEMMA NewAndOld ==
    ASSUME SparesTypeOK, DesksTyped, InOrder, RoomHeld, LookedAt,
           NEW d \in Desks, Added(d)
    PROVE  /\ NewId \in Ids /\ spare[NewId].status = "none"
           /\ spare'[NewId].status = "booked"
           /\ \A i \in Ids \ {NewId} :
                 /\ spare'[i].status = "none" <=> spare[i].status = "none"
                 /\ spare'[i].status = "booked" => spare[i].status = "booked"
                 /\ spare'[i].status = "picked_up" => spare[i].status = "picked_up"
                 /\ spare'[i].joins = spare[i].joins /\ spare'[i].car = spare[i].car
                 /\ spare'[i].status \in {"booked", "picked_up"} =>
                       /\ spare'[NewId].car # NoCar => spare[i].car # spare'[NewId].car
                       /\ ~spare'[NewId].joins => i \notin desk[d].snap
           /\ ~spare'[NewId].joins => Replacing(d)
           /\ \A i \in Ids : spare[i].status = "picked_up"
                               /\ spare'[i].status \in {"cancelled", "deleted"}
                             => i \in desk[d].booked
           /\ beside' = IF \E e \in Desks \ {d} : Adding(e)
                          THEN beside \cup {NewId} ELSE beside
<1>1. PICK S \in SUBSET Ids, car \in StandIns \cup {NoCar}, joins \in BOOLEAN :
         /\ Insert(d, Cancelled(S), NewRow(car, joins))
         /\ S = {} \/ (S = desk[d].snap /\ desk[d].pc \in {"plan", "assign"})
         /\ car = NoCar \/ Bookable(car, S)
         /\ joins \/ (Replacing(d) /\ S = desk[d].snap)
    BY DEF Added
<1>2. NewId \in Ids /\ spare[NewId].status = "none"
    BY RowIsLeft DEF Added
<1>3. \A i \in S : /\ spare[i].status # "none"
                   /\ i \in desk[d].booked \/ spare[i].status \notin {"booked", "picked_up"}
    BY <1>1 DEF LookedAt
<1>4. /\ spare' = [Cancelled(S) EXCEPT ![NewId] = NewRow(car, joins)]
      /\ beside' = IF \E e \in Desks \ {d} : Adding(e)
                     THEN beside \cup {NewId} ELSE beside
    BY <1>1 DEF Insert
<1>5. /\ spare'[NewId] = NewRow(car, joins)
      /\ \A i \in Ids \ {NewId} : spare'[i] = Cancelled(S)[i]
    BY <1>2, <1>4 DEF Cancelled
<1>6. \A i \in Ids :
         /\ Cancelled(S)[i].status =
               IF i \in S /\ spare[i].status # "deleted" THEN "cancelled" ELSE spare[i].status
         /\ Cancelled(S)[i].joins = spare[i].joins
         /\ Cancelled(S)[i].car = spare[i].car
    BY DEF Cancelled, SparesTypeOK, SpareRows
<1>7. /\ spare'[NewId].status = "booked" /\ spare'[NewId].car = car
      /\ spare'[NewId].joins = joins
    BY <1>5 DEF NewRow
<1>8. \A i \in Ids : spare[i].status \in {"booked", "picked_up"} /\ i \notin S /\ car # NoCar
                        => spare[i].car # car
    BY <1>1 DEF Bookable, Live, With
<1>9. ASSUME NEW i \in Ids \ {NewId}
      PROVE  /\ spare'[i].status = "none" <=> spare[i].status = "none"
             /\ spare'[i].status = "booked" => spare[i].status = "booked"
             /\ spare'[i].status = "picked_up" => spare[i].status = "picked_up"
             /\ spare'[i].joins = spare[i].joins /\ spare'[i].car = spare[i].car
             /\ spare'[i].status \in {"booked", "picked_up"} =>
                   /\ i \notin S
                   /\ spare[i].status \in {"booked", "picked_up"}
             /\ spare[i].status = "picked_up"
                   /\ spare'[i].status \in {"cancelled", "deleted"} => i \in S
    BY <1>3, <1>5, <1>6
<1>. QED BY <1>1, <1>2, <1>3, <1>4, <1>7, <1>8, <1>9

-----------------------------------------------------------------------------
(* One lemma per part of the invariant.                                    *)
LEMMA OrderStep ==
    ASSUME SparesTypeOK, DesksTyped, InOrder, RoomHeld, LookedAt, SparesNext
    PROVE  InOrder'
<1>1. shift' = shift /\ Ids' = Ids
    BY DEF SparesNext, Ids
<1>2. CASE Gentle
    BY <1>1, <1>2 DEF Gentle, InOrder
<1>3. ASSUME NEW d \in Desks, Added(d) PROVE InOrder'
    <2>1. /\ shift.rows \in Nat /\ NewId \in Ids
          /\ \A i \in Ids : spare[i].status = "none" <=> i >= NewId
        BY <1>3, NextRow, NewAndOld
    <2>2. \A i \in Ids : spare'[i].status = "none" <=> i > NewId
        BY <1>3, <2>1, NewAndOld DEF Ids
    <2>3. NewId \in 0..shift.rows
        BY <2>1 DEF Ids
    <2>. QED BY <1>1, <2>2, <2>3 DEF InOrder
<1>. QED BY <1>2, <1>3, Kinds

LEMMA RoomStep ==
    ASSUME SparesTypeOK, DesksTyped, InOrder, RoomHeld, LookedAt, SparesNext
    PROVE  RoomHeld'
<1>1. shift' = shift /\ Ids' = Ids
    BY DEF SparesNext, Ids
<1>2. /\ Cardinality(Adders) \in Nat /\ IsFiniteSet(Adders)
      /\ Unwritten \in Nat
      /\ Cardinality(Adders) <= Unwritten
    BY AddersFinite, NextRow DEF RoomHeld
<1>3. CASE Gentle /\ (desk' = desk \/ \E d \in Desks : Turn(d))
    <2>1. Unwritten' = Unwritten
        BY <1>1, <1>3 DEF Gentle, Unwritten, With
    <2>2. CASE desk' = desk
        BY <1>2, <2>1, <2>2 DEF RoomHeld, Adders, Adding
    <2>3. ASSUME NEW d \in Desks, Turn(d) PROVE RoomHeld'
        <3>1. \A e \in Desks \ {d} : desk'[e] = desk[e]
            BY <2>3 DEF Turn, DesksTyped
        <3>2. CASE ~Adding(d)'
            <4>1. Adders' \in SUBSET Adders
                BY <3>1, <3>2 DEF Adders, Adding
            <4>2. Cardinality(Adders') <= Cardinality(Adders) /\ Cardinality(Adders') \in Nat
                BY <1>2, <4>1, FS_Subset, FS_CardinalityType
            <4>. QED BY <1>2, <2>1, <4>2 DEF RoomHeld
        <3>3. CASE Adding(d)'
            <4>1. ~Adding(d) /\ Room
                BY <2>3, <3>3 DEF Turn
            <4>2. Adders' = Adders \cup {d} /\ d \notin Adders
                BY <3>1, <3>3, <4>1 DEF Adders, Adding
            <4>3. Cardinality(Adders') = Cardinality(Adders) + 1
                BY <1>2, <4>2, FS_AddElement
            <4>4. Cardinality(Adders) < Unwritten
                BY <4>1 DEF Room, Adders
            <4>. QED BY <1>2, <2>1, <4>3, <4>4 DEF RoomHeld
        <3>. QED BY <3>2, <3>3
    <2>. QED BY <1>3, <2>2, <2>3
<1>4. ASSUME NEW d \in Desks, Added(d) PROVE RoomHeld'
    <2>1. Adders' = Adders \ {d} /\ d \in Adders
        BY <1>4 DEF Added, Leave, AtDesk, Adders, Adding, DesksTyped
    <2>2. Cardinality(Adders') = Cardinality(Adders) - 1
        BY <1>2, <2>1, FS_RemoveElement
    <2>3. With({"none"})' = With({"none"}) \ {NewId} /\ NewId \in With({"none"})
        BY <1>1, <1>4, NewAndOld DEF With
    <2>4. IsFiniteSet(With({"none"}))
        <3>1. shift.rows \in Nat BY NextRow
        <3>2. IsFiniteSet(1..shift.rows) BY <3>1, FS_Interval
        <3>3. With({"none"}) \in SUBSET (1..shift.rows) BY DEF With, Ids
        <3>. QED BY <3>2, <3>3, FS_Subset
    <2>5. Unwritten' = Unwritten - 1
        BY <2>3, <2>4, FS_RemoveElement DEF Unwritten
    <2>. QED BY <1>2, <2>2, <2>5 DEF RoomHeld
<1>. QED BY <1>3, <1>4, Kinds

LEMMA LookedStep ==
    ASSUME SparesTypeOK, DesksTyped, InOrder, RoomHeld, LookedAt, SparesNext
    PROVE  LookedAt'
<1>1. Ids' = Ids
    BY DEF SparesNext, Ids
<1>2. CASE Gentle /\ desk' = desk
    BY <1>1, <1>2 DEF Gentle, LookedAt
<1>3. ASSUME Gentle, NEW d \in Desks, Turn(d) PROVE LookedAt'
    <2>1. \A e \in Desks \ {d} : desk'[e] = desk[e]
        BY <1>3 DEF Turn, DesksTyped
    <2>. SUFFICES ASSUME NEW e \in Desks, NEW i \in Ids
                  PROVE  /\ desk'[e].pc \in {"plan", "assign", "sweep"}
                               /\ i \in desk'[e].snap =>
                            /\ spare'[i].status # "none"
                            /\ \/ i \in desk'[e].booked
                               \/ spare'[i].status \notin {"booked", "picked_up"}
                         /\ desk'[e].pc \in {"complete", "bring_back"}
                               /\ i = desk'[e].slot => spare'[i].status # "none"
        BY <1>1 DEF LookedAt
    <2>2. CASE e = d
        BY <1>3, <2>2 DEF Turn, Gentle
    <2>3. CASE e # d
        BY <1>3, <2>1, <2>3 DEF LookedAt, Gentle
    <2>. QED BY <2>2, <2>3
<1>4. ASSUME NEW d \in Desks, Added(d) PROVE LookedAt'
    <2>1. /\ \A e \in Desks \ {d} : desk'[e] = desk[e]
          /\ desk'[d].pc = "idle"
        BY <1>4 DEF Added, Leave, AtDesk, DesksTyped
    <2>2. \A i \in Ids :
             spare[i].status # "none" =>
                /\ spare'[i].status # "none"
                /\ spare[i].status \notin {"booked", "picked_up"} =>
                      spare'[i].status \notin {"booked", "picked_up"}
        BY <1>4, NewAndOld
    <2>. QED BY <1>1, <2>1, <2>2 DEF LookedAt
<1>. QED BY <1>2, <1>3, <1>4, Kinds

LEMMA SeenStep ==
    ASSUME SparesTypeOK, DesksTyped, InOrder, RoomHeld, LookedAt, AllSeen, SparesNext
    PROVE  AllSeen'
<1>1. Ids' = Ids
    BY DEF SparesNext, Ids
<1>2. CASE Gentle
    <2>1. Live' \subseteq Live /\ beside' = beside
        BY <1>1, <1>2 DEF Gentle, Live, With
    <2>2. CASE desk' = desk
        BY <2>1, <2>2 DEF AllSeen, Replacing
    <2>3. ASSUME NEW d \in Desks, Turn(d) PROVE AllSeen'
        <3>1. \A e \in Desks \ {d} : desk'[e] = desk[e]
            BY <2>3 DEF Turn, DesksTyped
        <3>2. Replacing(d)' => Live \subseteq desk'[d].snap
            BY <2>3 DEF Turn
        <3>. QED BY <2>1, <3>1, <3>2 DEF AllSeen, Replacing
    <2>4. CASE \E d \in Desks : Added(d)
        <3>. SUFFICES ASSUME NEW d \in Desks, Added(d) PROVE FALSE
            BY <2>4
        <3>. QED BY <1>2, NewAndOld DEF Gentle
    <2>. QED BY <2>2, <2>3, <2>4, Kinds
<1>3. ASSUME NEW d \in Desks, Added(d) PROVE AllSeen'
    <2>1. /\ \A e \in Desks \ {d} : desk'[e] = desk[e]
          /\ desk'[d].pc = "idle"
        BY <1>3 DEF Added, Leave, AtDesk, DesksTyped
    <2>2. Live' \subseteq Live \cup {NewId} /\ beside \subseteq beside'
        BY <1>1, <1>3, NewAndOld DEF Live, With
    <2>. SUFFICES ASSUME NEW e \in Desks, Replacing(e)'
                  PROVE  Live' \subseteq desk'[e].snap \cup beside'
        BY DEF AllSeen
    <2>3. e # d /\ desk'[e] = desk[e] /\ Replacing(e)
        BY <2>1 DEF Replacing
    <2>4. Adding(e)
        BY <2>3 DEF Replacing, Adding
    <2>5. NewId \in beside'
        BY <1>3, <2>3, <2>4, NewAndOld
    <2>. QED BY <2>2, <2>3, <2>5 DEF AllSeen
<1>. QED BY <1>2, <1>3, Kinds

LEMMA CarStep ==
    ASSUME SparesTypeOK, DesksTyped, InOrder, RoomHeld, LookedAt, NoCarTwice, SparesNext
    PROVE  NoCarTwice'
<1>1. Ids' = Ids
    BY DEF SparesNext, Ids
<1>. SUFFICES ASSUME NEW i \in Live', NEW j \in Live', i # j, spare'[i].car # NoCar
              PROVE  spare'[i].car # spare'[j].car
    BY DEF NoCarTwice
<1>2. /\ i \in Ids /\ spare'[i].status \in {"booked", "picked_up"}
      /\ j \in Ids /\ spare'[j].status \in {"booked", "picked_up"}
    BY <1>1 DEF Live, With
<1>3. CASE Gentle
    <2>1. i \in Live /\ j \in Live
        BY <1>2, <1>3 DEF Gentle, Live, With
    <2>. QED BY <1>2, <1>3, <2>1 DEF Gentle, NoCarTwice
<1>4. ASSUME NEW d \in Desks, Added(d) PROVE spare'[i].car # spare'[j].car
    <2>1. CASE i = NewId
        BY <1>2, <1>4, <2>1, NewAndOld
    <2>2. CASE j = NewId
        BY <1>2, <1>4, <2>2, NewAndOld
    <2>3. CASE i # NewId /\ j # NewId
        <3>1. /\ spare'[i].car = spare[i].car /\ spare'[j].car = spare[j].car
              /\ i \in Live /\ j \in Live
            BY <1>2, <1>4, <2>3, NewAndOld DEF Live, With
        <3>. QED BY <3>1 DEF NoCarTwice
    <2>. QED BY <2>1, <2>2, <2>3
<1>. QED BY <1>3, <1>4, Kinds

LEMMA StandInStep ==
    ASSUME SparesTypeOK, DesksTyped, InOrder, RoomHeld, LookedAt, AllSeen, OneStandIn,
           SparesNext
    PROVE  OneStandIn'
<1>1. Ids' = Ids
    BY DEF SparesNext, Ids
<1>. SUFFICES ASSUME NEW i \in Live', NEW j \in Live', i < j, ~spare'[j].joins
              PROVE  {i, j} \cap beside' # {}
    BY DEF OneStandIn
<1>2. /\ i \in Ids /\ spare'[i].status \in {"booked", "picked_up"}
      /\ j \in Ids /\ spare'[j].status \in {"booked", "picked_up"}
    BY <1>1 DEF Live, With
<1>3. CASE Gentle
    <2>1. /\ i \in Live /\ j \in Live
          /\ spare'[j].joins = spare[j].joins /\ beside' = beside
        BY <1>2, <1>3 DEF Gentle, Live, With
    <2>. QED BY <2>1 DEF OneStandIn
<1>4. ASSUME NEW d \in Desks, Added(d) PROVE {i, j} \cap beside' # {}
    <2>1. beside \subseteq beside'
        BY <1>4, NewAndOld
    <2>2. CASE j = NewId
        <3>1. /\ i \in Ids \ {NewId} /\ Replacing(d) /\ i \notin desk[d].snap
              /\ spare[i].status \in {"booked", "picked_up"}
            BY <1>2, <1>4, <2>2, NewAndOld DEF Ids
        <3>2. i \in Live
            BY <3>1 DEF Live, With
        <3>. QED BY <2>1, <3>1, <3>2 DEF AllSeen
    <2>3. CASE i = NewId
        <3>1. spare[j].status = "none" /\ j # NewId
            BY <1>2, <2>3, NextRow DEF Ids
        <3>. QED BY <1>2, <1>4, <3>1, NewAndOld
    <2>4. CASE i # NewId /\ j # NewId
        <3>1. /\ spare'[j].joins = spare[j].joins
              /\ i \in Live /\ j \in Live
            BY <1>2, <1>4, <2>4, NewAndOld DEF Live, With
        <3>. QED BY <2>1, <3>1 DEF OneStandIn
    <2>. QED BY <2>2, <2>3, <2>4
<1>. QED BY <1>3, <1>4, Kinds

-----------------------------------------------------------------------------
(* The flag and its block: a step either leaves a flag that names no block *)
(* or one that has the car, or it leaves the flag, keeps the car where it  *)
(* is and keeps the request that is about to free it.                      *)
LEMMA FlagStep ==
    ASSUME SparesTypeOK, DesksTyped, FlagHasItsBlock, SparesNext
    PROVE  FlagHasItsBlock'
<1>a. ASSUME workshop'.from = "block" => block' = "in" \/ adrift'
      PROVE  FlagHasItsBlock'
    BY <1>a DEF FlagHasItsBlock
<1>b. ASSUME workshop' = workshop, adrift => adrift', block = "in" => block' = "in",
             \A e \in Desks : desk[e].pc = "release" => desk'[e].pc = "release"
      PROVE  FlagHasItsBlock'
    BY <1>b DEF FlagHasItsBlock
<1>c. ASSUME workshop' = workshop, adrift => adrift', block = "in" => block' = "in",
             NEW d \in Desks, desk[d].pc # "release",
             NEW w, desk' = [desk EXCEPT ![d] = w]
      PROVE  FlagHasItsBlock'
    <2>1. \A e \in Desks : desk[e].pc = "release" => desk'[e].pc = "release"
        BY <1>c DEF DesksTyped
    <2>. QED BY <1>b, <1>c, <2>1
<1>d. ASSUME BlockAside, NEW d \in Desks, desk[d].pc # "release",
             NEW w, desk' = [desk EXCEPT ![d] = w]
      PROVE  FlagHasItsBlock'
    BY <1>c, <1>d DEF BlockAside
<1>e. ASSUME FlagAside, block' = block, NEW d \in Desks, NEW pc, NEW slot, NEW snap,
             desk[d].pc = "idle", EnterBlock(d, pc, slot, snap)
      PROVE  FlagHasItsBlock'
    BY <1>c, <1>e DEF FlagAside, EnterBlock, Enter
<1>1. ASSUME NEW d \in Desks, NEW c \in StandIns, AssignStart(d, c) PROVE FlagHasItsBlock'
    BY <1>1, <1>d DEF AssignStart, Idle, Enter
<1>2. ASSUME NEW d \in Desks, NEW c \in StandIns, PlanStart(d, c) PROVE FlagHasItsBlock'
    BY <1>2, <1>d DEF PlanStart, Idle, Enter
<1>3. ASSUME NEW d \in Desks, NEW i \in Ids, NEW c \in StandIns, FillStart(d, i, c)
      PROVE  FlagHasItsBlock'
    BY <1>3, <1>d DEF FillStart, Idle, Enter
<1>4. ASSUME NEW d \in Desks, AssignCommit(d) PROVE FlagHasItsBlock'
    BY <1>4, <1>d DEF AssignCommit, Leave
<1>5. ASSUME NEW d \in Desks, PlanCommit(d) PROVE FlagHasItsBlock'
    <2>1. block = "in" => block' = "in"
        BY <1>5 DEF PlanCommit
    <2>. QED BY <1>5, <1>c, <2>1 DEF PlanCommit, Leave
<1>6. ASSUME NEW d \in Desks, HoldStart(d) PROVE FlagHasItsBlock'
    BY <1>6, <1>d DEF HoldStart, Idle, Enter
<1>7. ASSUME NEW d \in Desks, HoldCommit(d) PROVE FlagHasItsBlock'
    BY <1>7, <1>d DEF HoldCommit, Leave
<1>8. ASSUME NEW d \in Desks, FillCommit(d) PROVE FlagHasItsBlock'
    BY <1>8, <1>d DEF FillCommit, Leave
<1>9. ASSUME NEW d \in Desks, CompleteCommit(d) PROVE FlagHasItsBlock'
    <2>1. CASE OpenBlock
        BY <1>9, <1>a, <2>1 DEF CompleteCommit, SetFlag, Freed
    <2>2. CASE ~OpenBlock
        BY <1>9, <1>c, <2>2 DEF CompleteCommit, Leave
    <2>. QED BY <2>1, <2>2
<1>10. ASSUME NEW d \in Desks, BringBackCommit(d) PROVE FlagHasItsBlock'
    BY <1>10, <1>a DEF BringBackCommit, SetFlag, Freed
<1>11. ASSUME NEW d \in Desks, DeleteStart(d) PROVE FlagHasItsBlock'
    BY <1>11, <1>e DEF DeleteStart, Idle, EnterBlock
<1>12. ASSUME NEW d \in Desks, DeleteBlock(d) PROVE FlagHasItsBlock'
    <2>1. CASE Standing
        <3>1. desk'[d].pc = "release"
            BY <1>12, <2>1 DEF DeleteBlock, Go, DesksTyped, DeskRows
        <3>. QED BY <3>1 DEF FlagHasItsBlock
    <2>2. CASE ~Standing
        BY <1>12, <1>c, <2>2 DEF DeleteBlock, FlagAside, Leave
    <2>. QED BY <2>1, <2>2
<1>13. ASSUME NEW d \in Desks, ReleaseVehicle(d) PROVE FlagHasItsBlock'
    BY <1>13, <1>a DEF ReleaseVehicle, SetFlag, FlagAside, Freed
<1>14. ASSUME NEW d \in Desks, CheckInStart(d) PROVE FlagHasItsBlock'
    BY <1>14, <1>a DEF CheckInStart, SetFlag
<1>15. ASSUME NEW d \in Desks, CheckInLook(d) PROVE FlagHasItsBlock'
    BY <1>15, <1>d DEF CheckInLook, Go, Leave
<1>16. ASSUME NEW d \in Desks, CheckInBlock(d) PROVE FlagHasItsBlock'
    BY <1>16, <1>c DEF CheckInBlock, FlagAside, Go
<1>17. ASSUME NEW d \in Desks, StampBlock(d) PROVE FlagHasItsBlock'
    <2>1. CASE SetStamp(workshop)
        BY <1>17, <1>a, <2>1 DEF StampBlock, SetStamp
    <2>2. CASE FlagAside
        BY <1>17, <1>c, <2>2 DEF StampBlock, FlagAside, Leave
    <2>. QED BY <1>17, <2>1, <2>2 DEF StampBlock
<1>18. ASSUME NEW d \in Desks, Reopen(d) PROVE FlagHasItsBlock'
    BY <1>18, <1>a DEF Reopen
<1>19. ASSUME NEW d \in Desks, NEW i \in Ids \cup {0}, CompleteStart(d, i)
       PROVE  FlagHasItsBlock'
    BY <1>19, <1>e DEF CompleteStart, Idle, EnterBlock
<1>20. ASSUME NEW d \in Desks, NEW i \in Ids, BringBackStart(d, i) PROVE FlagHasItsBlock'
    BY <1>20, <1>e DEF BringBackStart, Idle, EnterBlock
<1>21. ASSUME NEW d \in Desks, NEW i \in Ids, SweepSpare(d, i) PROVE FlagHasItsBlock'
    BY <1>21, <1>d DEF SweepSpare
<1>22. ASSUME NEW i \in Ids, PickUpSpare(i) PROVE FlagHasItsBlock'
    BY <1>22, <1>b DEF PickUpSpare, BlockAside
<1>23. ASSUME NEW i \in Ids, ReturnSpare(i) PROVE FlagHasItsBlock'
    BY <1>23, <1>b DEF ReturnSpare, BlockAside
<1>24. ASSUME NEW d \in Desks, CutOff(d) PROVE FlagHasItsBlock'
    <2>1. CASE desk[d].pc = "release"
        BY <1>24, <1>a, <2>1 DEF CutOff
    <2>2. CASE desk[d].pc # "release"
        BY <1>24, <1>c, <2>2 DEF CutOff, Leave
    <2>. QED BY <2>1, <2>2
<1>. QED BY <1>1, <1>2, <1>3, <1>4, <1>5, <1>6, <1>7, <1>8, <1>9, <1>10, <1>11, <1>12,
            <1>13, <1>14, <1>15, <1>16, <1>17, <1>18, <1>19, <1>20, <1>21, <1>22,
            <1>23, <1>24 DEF SparesNext, SparesStep

-----------------------------------------------------------------------------
LEMMA InvInit ==
    ASSUME SparesInit
    PROVE  SparesInv
<1>1. shift.rows \in Nat /\ shift \in Shifts
    BY SparesAssumption DEF SparesInit
<1>2. \A i \in Ids : spare[i].status = "none"
    BY DEF SparesInit, NoSpare
<1>3. \A d \in Desks : desk[d] = AtDesk
    BY DEF SparesInit
<1>4. SparesTypeOK
    BY <1>1 DEF SparesInit, SparesTypeOK, NoSpare, SpareRows
<1>5. DesksTyped
    BY IdleTyped DEF SparesInit, DesksTyped
<1>6. InOrder
    <2>1. 0 \in 0..shift.rows /\ \A i \in Ids : i > 0
        BY <1>1 DEF Ids
    <2>. QED BY <1>2, <2>1 DEF InOrder
<1>7. RoomHeld
    <2>1. Adders = {}
        BY <1>3 DEF Adders, Adding, AtDesk
    <2>2. Cardinality(Adders) = 0 /\ Unwritten \in Nat
        BY <1>4, <1>6, <2>1, FS_EmptySet, NextRow
    <2>. QED BY <2>2 DEF RoomHeld
<1>8. LookedAt /\ AllSeen
    BY <1>3 DEF LookedAt, AllSeen, AtDesk, Replacing
<1>9. Live = {}
    BY <1>2 DEF Live, With
<1>10. NoCarTwice /\ OneStandIn
    BY <1>9 DEF NoCarTwice, OneStandIn
<1>11. FlagHasItsBlock
    BY DEF SparesInit, FlagHasItsBlock
<1>. QED BY <1>4, <1>5, <1>6, <1>7, <1>8, <1>10, <1>11 DEF SparesInv

LEMMA InvStep ==
    ASSUME SparesInv, [SparesNext]_sparesVars
    PROVE  SparesInv'
<1>1. CASE SparesNext
    <2>1. (SparesTypeOK /\ DesksTyped)'
        BY <1>1, TypeStep DEF SparesInv
    <2>2. InOrder' /\ RoomHeld' /\ LookedAt' /\ AllSeen'
        BY <1>1, OrderStep, RoomStep, LookedStep, SeenStep DEF SparesInv
    <2>3. NoCarTwice' /\ OneStandIn'
        BY <1>1, CarStep, StandInStep DEF SparesInv
    <2>4. FlagHasItsBlock'
        BY <1>1, FlagStep DEF SparesInv
    <2>. QED BY <2>1, <2>2, <2>3, <2>4 DEF SparesInv
<1>2. CASE UNCHANGED sparesVars
    <2>1. Ids' = Ids /\ Live' = Live
        BY <1>2 DEF sparesVars, Ids, Live, With
    <2>2. SparesTypeOK' /\ DesksTyped'
        BY <1>2, <2>1 DEF SparesInv, sparesVars, SparesTypeOK, DesksTyped, DeskRows
    <2>3. InOrder' /\ NoCarTwice' /\ OneStandIn'
        BY <1>2, <2>1 DEF SparesInv, sparesVars, InOrder, NoCarTwice, OneStandIn
    <2>4. Adders' = Adders /\ Unwritten' = Unwritten
        BY <1>2 DEF sparesVars, Adders, Adding, Unwritten, With, Ids
    <2>5. RoomHeld'
        BY <2>4 DEF SparesInv, RoomHeld
    <2>6. LookedAt' /\ AllSeen'
        BY <1>2 DEF SparesInv, sparesVars, LookedAt, AllSeen, Replacing, Live, With, Ids
    <2>7. FlagHasItsBlock'
        BY <1>2 DEF SparesInv, sparesVars, FlagHasItsBlock
    <2>. QED BY <2>2, <2>3, <2>5, <2>6, <2>7 DEF SparesInv
<1>. QED BY <1>1, <1>2

THEOREM InvHolds == SparesSpec => []SparesInv
<1>1. SparesInit => SparesInv
    BY InvInit
<1>2. SparesInv /\ [SparesNext]_sparesVars => SparesInv'
    BY InvStep
<1>. QED BY <1>1, <1>2, PTL DEF SparesSpec

-----------------------------------------------------------------------------
(* Whatever the six routes of the spare cars and the block do, the table   *)
(* keeps its shape; in particular no row is written past the last one.     *)
THEOREM SparesTyped == SparesSpec => []SparesTypeOK
<1>1. SparesInv => SparesTypeOK
    BY DEF SparesInv
<1>. QED BY <1>1, InvHolds, PTL

(* createReplacementReservation, maintenance-with-spare and                *)
(* assignVehicleToPlaceholder never put one car on two live rows, in any   *)
(* interleaving of any number of requests.                                 *)
THEOREM NeverTwice == SparesSpec => []NoCarTwice
<1>1. SparesInv => NoCarTwice
    BY DEF SparesInv
<1>. QED BY <1>1, InvHolds, PTL

(* An assignment leaves one stand-in for the rental, unless another        *)
(* request was adding one at the same moment.                              *)
THEOREM OneAtATime == SparesSpec => []OneStandIn
<1>1. SparesInv => OneStandIn
    BY DEF SparesInv
<1>. QED BY <1>1, InvHolds, PTL

(* However the requests on the block cross and end, the workshop flag      *)
(* names it only while it has the car or is about to free it, or where a   *)
(* delete was cut off or a stamp came too late (releaseVehicleFromRemoved- *)
(* Block, setMaintenanceStatusBlock).                                      *)
THEOREM FlagFollowsBlock == SparesSpec => []FlagHasItsBlock
<1>1. SparesInv => FlagHasItsBlock
    BY DEF SparesInv
<1>. QED BY <1>1, InvHolds, PTL

(* A spare that is with the customer is cancelled or deleted only by a     *)
(* request that saw it before it was handed over.                          *)
THEOREM CustomerKeepsSpare == SparesSpec => HandedOverStays
<1>1. ASSUME SparesInv, SparesNext
      PROVE  \A i \in With({"picked_up"}) :
                spare'[i].status \in {"cancelled", "deleted"} =>
                   \E d \in Desks : desk[d].pc # "idle" /\ i \in desk[d].booked
    <2>1. CASE Gentle
        BY <2>1 DEF Gentle, With
    <2>2. ASSUME NEW d \in Desks, Added(d)
          PROVE  \A i \in With({"picked_up"}) :
                    spare'[i].status \in {"cancelled", "deleted"} =>
                       desk[d].pc # "idle" /\ i \in desk[d].booked
        BY <1>1, <2>2, NewAndOld DEF SparesInv, Added, Adding, With
    <2>. QED BY <1>1, <2>1, <2>2, Kinds DEF SparesInv
<1>2. SparesInv /\ [SparesNext]_sparesVars =>
         [\A i \in With({"picked_up"}) :
             spare'[i].status \in {"cancelled", "deleted"} =>
                \E d \in Desks : desk[d].pc # "idle" /\ i \in desk[d].booked]_sparesVars
    BY <1>1
<1>. QED BY <1>2, InvHolds, PTL DEF SparesSpec, HandedOverStays
=============================================================================
