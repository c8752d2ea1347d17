------------------------ MODULE BookingWrites_proofs ------------------------
(***************************************************************************)
(* For any number of reservations, vehicles, requests and days, and for    *)
(* any set of open routes: the inductive invariant of BookingWrites, the   *)
(* refinement of Calendar, and the safety of the checked writers.          *)
(*                                                                         *)
(* Two lemmas carry the argument.  ReadStep covers every step that leaves  *)
(* the table alone, WriteStep every step that stores one row; each names   *)
(* what the step owes, and the lemma per action shows that the action pays *)
(* it.                                                                     *)
(***************************************************************************)
EXTENDS BookingWrites, TLAPS

-----------------------------------------------------------------------------
(* The predicate does not care which of two periods was there first.       *)
LEMMA OverlapsSymmetric ==
    ASSUME NEW e, NEW n
    PROVE  Overlaps(e, n) <=> Overlaps(n, e)
BY DEF Overlaps, DaysMeet, Turnover, EndsBefore

(* What a client can send is a well-typed slot.                            *)
LEMMA SlotsTyped == Slots \subseteq SlotType
BY AskedAssumption DEF Slots, SlotType, Moment, Periods, Moments

(* A column of a patch comes from the request, every other one from the    *)
(* row; with an empty patch the row is left as it is.                      *)
LEMMA MergedTyped ==
    ASSUME NEW old \in SlotType, NEW new \in SlotType, NEW patch
    PROVE  Merged(old, new, patch) \in SlotType
BY DEF Merged, Pick, SlotType, Moment

(* An UPDATE without columns leaves the slot as it is.                     *)
LEMMA MergedEmpty ==
    ASSUME NEW old \in SlotType, NEW new
    PROVE  Merged(old, new, {}) = old
BY DEF Merged, Pick, SlotType, Moment

(* Putting a row in a slot gives a row, and that slot.                     *)
LEMMA PutTyped ==
    ASSUME NEW row \in BookRows, NEW slot \in SlotType
    PROVE  /\ Put(row, slot) \in BookRows
           /\ Put(row, slot).car = slot.car
           /\ Put(row, slot).kind = slot.kind
           /\ Put(row, slot).status = row.status
           /\ Put(row, slot).deleted = row.deleted
           /\ Put(row, slot).data = row.data
           /\ SlotOf(Put(row, slot)) = slot
BY DEF Put, BookRows, SlotType, SlotOf

(* An id that is not given out is a row of the table too.                  *)
LEMMA AbsentTyped == Absent \in BookRows
BY DEF Absent, BookRows, Moment, Statuses, Data, Kinds

(* A row with a vehicle has a well-typed slot.                             *)
LEMMA SlotOfTyped ==
    ASSUME NEW row \in BookRows, row.car \in Cars
    PROVE  SlotOf(row) \in SlotType
BY DEF SlotOf, BookRows, SlotType

(* Putting a row back where it is changes nothing.                         *)
LEMMA PutSame ==
    ASSUME NEW row \in BookRows
    PROVE  Put(row, SlotOf(row)) = row
BY DEF Put, SlotOf, BookRows

(* The instance of Calendar speaks of the same rows in the same words.     *)
LEMMA SameWords ==
    ASSUME NEW e, NEW n
    PROVE  /\ Promise!Occupies(e) <=> Occupies(e)
           /\ Promise!SlotOf(e) = SlotOf(e)
           /\ Promise!Conflicts(e, n, FALSE) <=> Conflicts(e, n, FALSE)
<1>1. Promise!IsLive(e) <=> IsLive(e)
  BY DEF Promise!IsLive, IsLive, Promise!LiveStatuses, LiveStatuses
<1>2. Promise!Overlaps(e, n) <=> Overlaps(e, n)
  BY DEF Promise!Overlaps, Overlaps, Promise!DaysMeet, DaysMeet, Promise!Turnover,
         Turnover, Promise!EndsBefore, EndsBefore, Promise!NoTime, NoTime
<1> QED BY <1>1, <1>2
        DEF Promise!Occupies, Occupies, Promise!SlotOf, SlotOf, Promise!Conflicts,
            Conflicts, Promise!InTheWay, InTheWay

-----------------------------------------------------------------------------
(* What a step of request p leaves to the others: their record and every   *)
(* lock they hold.  p = Nobody is a write without a request of its own.    *)
Others(p) ==
    /\ tx' \in [Procs -> RequestType]
    /\ advisory' \in [Cars -> Procs \cup {Nobody}]
    /\ rowLock' \in [Rows -> Procs \cup {Nobody}]
    /\ \A q \in Procs \ {p} :
          /\ tx'[q] = tx[q]
          /\ \A c \in Cars : advisory[c] = q => advisory'[c] = q
          /\ \A r \in Rows : rowLock[r] = q => rowLock'[r] = q

(* A step that does not write keeps the invariant if request p still knows *)
(* and holds what its new step needs.                                      *)
LEMMA ReadStep ==
    ASSUME IInv, NEW p \in Procs,
           UNCHANGED <<book, placedBy>>, Others(p),
           Informed(p)', HoldsVehicle(p)', HoldsRow(p)', VerdictHolds(p)'
    PROVE  IInv'
<1>1. TypeOK'
  BY DEF IInv, TypeOK, Others
<1>2. RowsHaveCars' /\ PlacedExactlyTheLive'
  BY DEF IInv, RowsHaveCars, PlacedExactlyTheLive, Occupies, IsLive
<1>3. ASSUME NEW q \in Procs, q # p
      PROVE  Informed(q)' /\ HoldsVehicle(q)' /\ HoldsRow(q)' /\ VerdictHolds(q)'
  <2>1. tx'[q] = tx[q]
    BY <1>3 DEF Others
  <2>2. Informed(q) /\ HoldsVehicle(q) /\ HoldsRow(q) /\ VerdictHolds(q)
    BY DEF IInv, RequestsInformed, VehicleLocked, RowLocked, VerdictStillHolds
  <2>3. Informed(q)'
    BY <2>1, <2>2 DEF Informed
  <2>4. HoldsVehicle(q)'
    <3>1. tx[q].route \in Checked => tx[q].slot.car \in Cars
      BY <2>2 DEF Informed, SlotType, Checked
    <3> QED BY <1>3, <2>1, <2>2, <3>1 DEF HoldsVehicle, Others
  <2>5. HoldsRow(q)'
    <3>1. tx[q].route \in {"revert", "restore"} => tx[q].row \in Rows
      BY <2>2 DEF Informed
    <3> QED BY <1>3, <2>1, <2>2, <3>1 DEF HoldsRow, Others, Present, Revertible, SlotOf
  <2>6. VerdictHolds(q)'
    BY <2>1, <2>2 DEF VerdictHolds, Judged, Conflicts, InTheWay, IsLive
  <2> QED BY <2>3, <2>4, <2>5, <2>6
<1>4. RequestsInformed' /\ VehicleLocked' /\ RowLocked' /\ VerdictStillHolds'
  BY <1>3 DEF RequestsInformed, VehicleLocked, RowLocked, VerdictStillHolds
<1> QED BY <1>1, <1>2, <1>4 DEF IInv

(* Request q has row r in hand, and relies on what it has read of it.      *)
Owns(q, r) ==
    /\ tx[q].route \in {"revert", "restore"} /\ tx[q].pc \in {"check", "write"}
    /\ tx[q].row = r

(* Nobody else owns a row whose lock is free or one's own, nor a row that  *)
(* was never given out.                                                    *)
LEMMA NotOwned ==
    ASSUME IInv, NEW p, NEW r \in Rows,
           rowLock[r] \in {p, Nobody} \/ book[r].status = "absent"
    PROVE  \A q \in Procs \ {p} : ~Owns(q, r)
<1> SUFFICES ASSUME NEW q \in Procs \ {p}, Owns(q, r)
             PROVE  FALSE
  OBVIOUS
<1>1. HoldsRow(q)
  BY DEF IInv, RowLocked
<1>2. rowLock[r] = q
  BY <1>1 DEF HoldsRow, Owns
<1>3. book[r].status # "absent"
  BY <1>1 DEF HoldsRow, Owns, Present, IInv, RowsHaveCars
<1> QED BY <1>2, <1>3, NobodyAssumption

(* What a write owes the other rentals.                                    *)
Placed(p, r, row, tag) ==
    Occupies(row) =>
        \/ tag \in Unguarded
        \/ /\ Occupies(book[r])
           /\ SlotOf(row) = SlotOf(book[r])
           /\ tag = placedBy[r]
        \/ /\ tag \in Guarded
           /\ p \in Procs /\ advisory[row.car] = p
           /\ \A s \in Rows \ {r} :
                 Conflicts(book[s], row, FALSE) => placedBy[s] \in Unguarded

(* A step that stores one row and ends its request keeps the invariant,    *)
(* and is a step of the calendar: nobody else holds the row, and the row   *)
(* is placed with care.                                                    *)
LEMMA WriteStep ==
    ASSUME IInv, NEW p \in Procs \cup {Nobody}, NEW r \in Rows,
           NEW row \in BookRows, NEW tag,
           Store(r, row, tag), Others(p), p \in Procs => tx'[p] = Idle,
           row.status # "absent", row.car \in Cars,
           \A q \in Procs \ {p} : ~Owns(q, r),
           Placed(p, r, row, tag)
    PROVE  IInv' /\ Promise!Next
<1> USE NobodyAssumption
<1>1. /\ book \in [Rows -> BookRows]
      /\ placedBy \in [Rows -> Guarded \cup Unguarded \cup {"none"}]
  BY DEF IInv, TypeOK
<1>2. /\ book'[r] = row
      /\ placedBy'[r] = IF Occupies(row) THEN tag ELSE "none"
      /\ \A s \in Rows \ {r} : book'[s] = book[s] /\ placedBy'[s] = placedBy[s]
  BY <1>1 DEF Store
<1>3. Occupies(row) => tag \in Guarded \cup Unguarded
  BY DEF Placed, IInv, PlacedExactlyTheLive
<1>4. TypeOK'
  BY <1>1, <1>2, <1>3 DEF TypeOK, Store, Others
<1>5. RowsHaveCars'
  BY <1>1, <1>2 DEF RowsHaveCars, IInv, TypeOK
<1>6. PlacedExactlyTheLive'
  BY <1>1, <1>2, <1>3 DEF PlacedExactlyTheLive, IInv, TypeOK, Occupies, IsLive
<1>7. ASSUME NEW q \in Procs, q = p
      PROVE  Informed(q)' /\ HoldsVehicle(q)' /\ HoldsRow(q)' /\ VerdictHolds(q)'
  <2>1. tx'[q] = Idle
    BY <1>7
  <2>2. Idle.route = "none" /\ Idle.pc = "idle"
    BY DEF Idle
  <2> QED BY <2>1, <2>2 DEF Informed, HoldsVehicle, HoldsRow, VerdictHolds, Judged, Checked
<1>8. ASSUME NEW q \in Procs, q # p
      PROVE  Informed(q)' /\ HoldsVehicle(q)' /\ HoldsRow(q)' /\ VerdictHolds(q)'
  <2>1. tx'[q] = tx[q]
    BY <1>8 DEF Others
  <2>2. Informed(q) /\ HoldsVehicle(q) /\ HoldsRow(q) /\ VerdictHolds(q)
    BY DEF IInv, RequestsInformed, VehicleLocked, RowLocked, VerdictStillHolds
  <2>3. Informed(q)'
    BY <2>1, <2>2 DEF Informed
  <2>4. tx[q].route \in Checked => tx[q].slot.car \in Cars
    BY <2>2 DEF Informed, SlotType, Checked
  <2>5. HoldsVehicle(q)'
    BY <1>8, <2>1, <2>2, <2>4 DEF HoldsVehicle, Others
  <2>6. tx[q].route \in {"revert", "restore"} => tx[q].row \in Rows
    BY <2>2 DEF Informed
  <2>7. ASSUME tx[q].route \in {"revert", "restore"}, tx[q].pc \in {"check", "write"}
        PROVE  tx[q].row # r
    BY <1>8, <2>7 DEF Owns
  <2>8. HoldsRow(q)'
    BY <1>2, <1>8, <2>1, <2>2, <2>6, <2>7
    DEF HoldsRow, Others, Present, Revertible, SlotOf
  <2>9. VerdictHolds(q)'
    <3> SUFFICES ASSUME Judged(q)', NEW s \in Rows \ {tx[q].row},
                        Conflicts(book'[s], tx[q].slot, FALSE)
                 PROVE  placedBy'[s] \in Unguarded
      BY <2>1 DEF VerdictHolds
    <3>1. Judged(q)
      BY <1>2, <2>1, <2>6, <2>7 DEF Judged
    <3>2. CASE s # r
      BY <1>2, <2>2, <3>1, <3>2 DEF VerdictHolds
    <3>3. CASE s = r
      <4>1. Conflicts(row, tx[q].slot, FALSE)
        BY <1>2, <3>3
      <4>2. Occupies(row)
        BY <4>1 DEF Conflicts, InTheWay, Occupies, BookRows, Kinds
      <4>3. CASE tag \in Unguarded
        BY <1>2, <3>3, <4>2, <4>3
      <4>4. CASE /\ Occupies(book[r])
                 /\ SlotOf(row) = SlotOf(book[r])
                 /\ tag = placedBy[r]
        <5>1. /\ row.car = book[r].car /\ row.kind = book[r].kind
              /\ row.start = book[r].start /\ row.end = book[r].end
          BY <4>4 DEF SlotOf
        <5>2. Conflicts(book[r], tx[q].slot, FALSE)
          BY <4>1, <4>4, <5>1
          DEF Conflicts, InTheWay, Occupies, Overlaps, DaysMeet, Turnover, EndsBefore
        <5> QED BY <1>2, <2>2, <3>1, <3>3, <4>2, <4>4, <5>2 DEF VerdictHolds
      <4>5. CASE p \in Procs /\ advisory[row.car] = p
        <5>1. tx[q].slot.car = row.car
          BY <4>1 DEF Conflicts, InTheWay
        <5>2. tx[q].route \in Checked /\ tx[q].pc = "write"
          BY <3>1 DEF Judged, Checked
        <5> QED BY <1>8, <2>2, <4>5, <5>1, <5>2 DEF HoldsVehicle
      <4> QED BY <4>2, <4>3, <4>4, <4>5 DEF Placed
    <3> QED BY <3>2, <3>3
  <2> QED BY <2>3, <2>5, <2>8, <2>9
<1>9. RequestsInformed' /\ VehicleLocked' /\ RowLocked' /\ VerdictStillHolds'
  BY <1>7, <1>8 DEF RequestsInformed, VehicleLocked, RowLocked, VerdictStillHolds
<1>10. Promise!Next
  <2>1. Promise!OnlyRowChanges(r)
    BY <1>2 DEF Promise!OnlyRowChanges
  <2>2. Promise!Vacate(r) \/ Promise!Stay(r) \/ Promise!PlaceGuarded(r)
           \/ Promise!PlaceUnguarded(r)
    <3>1. CASE ~Occupies(row)
      BY <1>2, <3>1, SameWords DEF Promise!Vacate
    <3>2. CASE Occupies(row) /\ tag \in Unguarded
      BY <1>2, <3>2, SameWords DEF Promise!PlaceUnguarded
    <3>3. CASE /\ Occupies(row) /\ Occupies(book[r])
               /\ SlotOf(row) = SlotOf(book[r])
               /\ tag = placedBy[r]
      BY <1>2, <3>3, SameWords DEF Promise!Stay
    <3>4. CASE /\ Occupies(row) /\ tag \in Guarded
               /\ \A s \in Rows \ {r} :
                     Conflicts(book[s], row, FALSE) => placedBy[s] \in Unguarded
      BY <1>2, <3>4, SameWords DEF Promise!PlaceGuarded
    <3> QED BY <3>1, <3>2, <3>3, <3>4 DEF Placed
  <2> QED BY <2>1, <2>2 DEF Promise!Next
<1> QED BY <1>4, <1>5, <1>6, <1>9, <1>10 DEF IInv

-----------------------------------------------------------------------------
(* How requests begin and end.                                             *)
LEMMA IdleTyped == Idle \in RequestType
BY DEF Idle, RequestType, Steps

(* COMMIT and ROLLBACK make a request idle and take no lock of another.    *)
LEMMA FinishFrame ==
    ASSUME IInv, NEW p \in Procs, Finish(p)
    PROVE  Others(p) /\ tx'[p] = Idle
<1>1. /\ tx \in [Procs -> RequestType]
      /\ advisory \in [Cars -> Procs \cup {Nobody}]
      /\ rowLock \in [Rows -> Procs \cup {Nobody}]
  BY DEF IInv, TypeOK
<1> QED BY <1>1, IdleTyped, NobodyAssumption DEF Finish, Others

(* A request that begins leaves the others and the locks alone.            *)
LEMMA BeginFrame ==
    ASSUME IInv, NEW p \in Procs, NEW request \in RequestType, Begin(p, request),
           UNCHANGED advisory,
           rowLock' \in [Rows -> Procs \cup {Nobody}],
           \A q \in Procs \ {p}, r \in Rows : rowLock[r] = q => rowLock'[r] = q
    PROVE  Others(p) /\ tx'[p] = request
<1>1. /\ tx \in [Procs -> RequestType]
      /\ advisory \in [Cars -> Procs \cup {Nobody}]
  BY DEF IInv, TypeOK
<1> QED BY <1>1 DEF Begin, Others

(* A write outside any request leaves all requests and locks alone.        *)
LEMMA NoRequestFrame ==
    ASSUME IInv, UNCHANGED <<tx, advisory, rowLock>>
    PROVE  Others(Nobody)
BY DEF IInv, TypeOK, Others

(* The record a live row is judged by.                                     *)
LEMMA PresentTyped ==
    ASSUME IInv, NEW r \in Rows, book[r].status # "absent"
    PROVE  /\ book[r] \in BookRows /\ book[r].car \in Cars
           /\ SlotOf(book[r]) \in SlotType
BY SlotOfTyped DEF IInv, TypeOK, RowsHaveCars

-----------------------------------------------------------------------------
(* The actions that only read and take locks.                              *)
LEMMA BeginCreateStep ==
    ASSUME IInv, NEW p \in Procs, NEW slot \in Slots, BeginCreate(p, slot)
    PROVE  IInv'
<1> DEFINE request == Request("lock", "create", Nobody, slot, {}, FALSE, "booked")
<1>1. slot \in SlotType /\ slot.kind = "rental"
  BY SlotsTyped DEF BeginCreate
<1>2. request \in RequestType
  BY <1>1 DEF Request, RequestType, Steps, AllRoutes, Statuses, LiveStatuses
<1>3. Others(p) /\ tx'[p] = request
  BY <1>2, BeginFrame DEF BeginCreate, Unlocked, IInv, TypeOK
<1>4. /\ request.pc = "lock" /\ request.route = "create" /\ request.row = Nobody
      /\ request.slot = slot /\ request.asBlock = FALSE
  BY DEF Request
<1>5. Informed(p)' /\ HoldsVehicle(p)' /\ HoldsRow(p)' /\ VerdictHolds(p)'
  BY <1>1, <1>3, <1>4 DEF Informed, HoldsVehicle, HoldsRow, VerdictHolds, Judged
<1> QED BY <1>3, <1>5, ReadStep DEF BeginCreate, Unchanged

(* An edit that begins knows a well-typed effective slot.                  *)
LEMMA BeginEditStep ==
    ASSUME IInv, NEW p \in Procs, NEW r \in Rows, NEW new \in Slots,
           NEW patch \in Patches, BeginEdit(p, r, new, patch)
    PROVE  IInv'
<1> DEFINE effective == Merged(SlotOf(book[r]), new, patch)
           asBlock == "block" \in {effective.kind, book[r].kind}
           request == Request("lock", "edit", r, effective, patch, asBlock, "none")
<1>1. effective \in SlotType
  BY PresentTyped, SlotsTyped, MergedTyped DEF BeginEdit, Present
<1>2. request \in RequestType
  BY <1>1, PatchesAssumption DEF Request, RequestType, Steps, AllRoutes
<1>3. Others(p) /\ tx'[p] = request
  BY <1>2, BeginFrame DEF BeginEdit, Unlocked, IInv, TypeOK
<1>4. /\ request.pc = "lock" /\ request.route = "edit" /\ request.row = r
      /\ request.slot = effective
  BY DEF Request
<1>5. Informed(p)' /\ HoldsVehicle(p)' /\ HoldsRow(p)' /\ VerdictHolds(p)'
  BY <1>1, <1>3, <1>4 DEF Informed, HoldsVehicle, HoldsRow, VerdictHolds, Judged
<1> QED BY <1>3, <1>5, ReadStep DEF BeginEdit, Unchanged

(* A revert begins with the vehicle it peeked at.                          *)
LEMMA BeginRevertStep ==
    ASSUME IInv, NEW p \in Procs, NEW r \in Rows, BeginRevert(p, r)
    PROVE  IInv'
<1> DEFINE request == Request("lock", "revert", r, SlotOf(book[r]), {}, FALSE, "none")
<1>1. SlotOf(book[r]) \in SlotType
  BY PresentTyped DEF BeginRevert, Present
<1>2. request \in RequestType
  BY <1>1 DEF Request, RequestType, Steps, AllRoutes
<1>3. Others(p) /\ tx'[p] = request
  BY <1>2, BeginFrame DEF BeginRevert, Unlocked, IInv, TypeOK
<1>4. /\ request.pc = "lock" /\ request.route = "revert" /\ request.row = r
      /\ request.slot = SlotOf(book[r]) /\ request.asBlock = FALSE
  BY DEF Request
<1>5. Informed(p)' /\ HoldsVehicle(p)' /\ HoldsRow(p)' /\ VerdictHolds(p)'
  BY <1>1, <1>3, <1>4 DEF Informed, HoldsVehicle, HoldsRow, VerdictHolds, Judged
<1> QED BY <1>3, <1>5, ReadStep DEF BeginRevert, Unchanged

(* A restore begins with the row locked and its slot read.                 *)
LEMMA BeginRestoreStep ==
    ASSUME IInv, NEW p \in Procs, NEW r \in Rows, BeginRestore(p, r)
    PROVE  IInv'
<1> DEFINE request == Request("check", "restore", r, SlotOf(book[r]), {},
                              book[r].kind = "block", "none")
<1>1. book[r].status # "absent" /\ SlotOf(book[r]) \in SlotType
  BY PresentTyped DEF BeginRestore, IInv, RowsHaveCars
<1>2. request \in RequestType
  BY <1>1 DEF Request, RequestType, Steps, AllRoutes
<1>3. Others(p) /\ tx'[p] = request /\ rowLock'[r] = p
  BY <1>2, BeginFrame, NobodyAssumption DEF BeginRestore, IInv, TypeOK
<1>4. /\ request.pc = "check" /\ request.route = "restore" /\ request.row = r
      /\ request.slot = SlotOf(book[r])
  BY DEF Request
<1>5. Informed(p)' /\ HoldsVehicle(p)' /\ VerdictHolds(p)'
  BY <1>1, <1>3, <1>4 DEF Informed, HoldsVehicle, VerdictHolds, Judged, Checked
<1>6. HoldsRow(p)'
  BY <1>3, <1>4 DEF HoldsRow, BeginRestore, Unchanged, SlotOf
<1> QED BY <1>3, <1>5, <1>6, ReadStep DEF BeginRestore, Unchanged

(* The status route, the pickup and the return know the new status, and a  *)
(* slot only when the start moves.                                         *)
LEMMA ReadThenWriteStep ==
    ASSUME IInv, NEW p \in Procs, NEW r \in Rows, NEW route \in {"status", "pickup", "return"},
           NEW patch \in SUBSET Columns, NEW slot \in SlotType \cup {Nobody},
           patch # {} => slot \in SlotType,
           NEW to \in LiveStatuses \cup ClosedStatuses,
           ReadThenWrite(p, r, route, patch, slot, to)
    PROVE  IInv'
<1> DEFINE request == Request("write", route, r, slot, patch, FALSE, to)
<1>1. request \in RequestType
  BY DEF Request, RequestType, Steps, AllRoutes, Statuses
<1>2. Others(p) /\ tx'[p] = request
  BY <1>1, BeginFrame DEF ReadThenWrite, Unlocked, IInv, TypeOK
<1>3. /\ request.pc = "write" /\ request.route = route /\ request.row = r
      /\ request.slot = slot /\ request.patch = patch /\ request.to = to
  BY DEF Request
<1>4. Informed(p)' /\ HoldsVehicle(p)' /\ HoldsRow(p)' /\ VerdictHolds(p)'
  BY <1>2, <1>3 DEF Informed, HoldsVehicle, HoldsRow, VerdictHolds, Judged, Checked
<1> QED BY <1>2, <1>4, ReadStep DEF ReadThenWrite, Unchanged

(* A confirmed early pickup knows the moved slot.                          *)
LEMMA HandOutStep ==
    ASSUME IInv, NEW p \in Procs, NEW r \in Rows, NEW route \in {"status", "pickup"},
           NEW to \in LiveStatuses \cup ClosedStatuses, NEW today \in Days,
           Present(r), HandOut(p, r, route, to, today)
    PROVE  IInv'
<1> DEFINE slot == SlotOf(book[r])
<1>1. slot \in SlotType
  BY PresentTyped DEF Present
<1>2. [slot EXCEPT !.start.day = today] \in SlotType
  BY <1>1, DaysAssumption DEF SlotType, Moment
<1>3. CASE to = "picked_up" /\ Early(book[r], today)
  <2>1. ReadThenWrite(p, r, route, {"startDate"}, [slot EXCEPT !.start.day = today], to)
    BY <1>3 DEF HandOut
  <2> QED BY <1>2, <2>1, ReadThenWriteStep DEF Columns
<1>4. CASE ~(to = "picked_up" /\ Early(book[r], today))
  <2>1. ReadThenWrite(p, r, route, {}, Nobody, to)
    BY <1>4 DEF HandOut
  <2> QED BY <2>1, ReadThenWriteStep
<1> QED BY <1>3, <1>4

(* The status route begins with a status of the state machine.             *)
LEMMA BeginStatusStep ==
    ASSUME IInv, NEW p \in Procs, NEW r \in Rows, NEW to \in Statuses, NEW today \in Days,
           BeginStatus(p, r, to, today)
    PROVE  IInv'
<1>1. book[r] \in BookRows /\ book[r].status # "absent"
  BY PresentTyped DEF BeginStatus, Present
<1>2. to \in LiveStatuses \cup ClosedStatuses
  BY <1>1 DEF BeginStatus, Transitions, LiveStatuses, ClosedStatuses, BookRows, Statuses
<1> QED BY <1>2, HandOutStep DEF BeginStatus

(* A pickup begins like any hand-out.                                      *)
LEMMA BeginPickupStep ==
    ASSUME IInv, NEW p \in Procs, NEW r \in Rows, NEW today \in Days,
           BeginPickup(p, r, today)
    PROVE  IInv'
BY HandOutStep DEF BeginPickup, LiveStatuses

(* A return begins with the row it read.                                   *)
LEMMA BeginReturnStep ==
    ASSUME IInv, NEW p \in Procs, NEW r \in Rows, BeginReturn(p, r)
    PROVE  IInv'
BY ReadThenWriteStep DEF BeginReturn, ClosedStatuses

(* The lock of the vehicle is free when it is taken, so nobody loses it.   *)
LEMMA TakeLockStep ==
    ASSUME IInv, NEW p \in Procs, TakeLock(p)
    PROVE  IInv'
<1> DEFINE next == IF tx[p].route = "revert" THEN "row" ELSE "check"
<1>1. /\ tx \in [Procs -> RequestType]
      /\ advisory \in [Cars -> Procs \cup {Nobody}]
      /\ rowLock \in [Rows -> Procs \cup {Nobody}]
  BY DEF IInv, TypeOK
<1>2. Informed(p)
  BY DEF IInv, RequestsInformed
<1>3. tx[p].pc = "lock" /\ tx[p].route \in Checked /\ tx[p].slot \in SlotType
  BY <1>2 DEF TakeLock, Informed, Idle, Checked
<1>4. tx[p].slot.car \in Cars
  BY <1>3 DEF SlotType
<1>5. /\ tx'[p] = [tx[p] EXCEPT !.pc = next]
      /\ tx'[p].pc = next /\ tx'[p].route = tx[p].route /\ tx'[p].row = tx[p].row
      /\ tx'[p].slot = tx[p].slot /\ tx'[p].asBlock = tx[p].asBlock
      /\ tx'[p] \in RequestType
  BY <1>1 DEF TakeLock, RequestType, Steps
<1>6. advisory'[tx[p].slot.car] = p
  BY <1>1, <1>4 DEF TakeLock
<1>7. Others(p)
  BY <1>1, <1>4, <1>5, NobodyAssumption DEF TakeLock, Others
<1>8. Informed(p)'
  BY <1>2, <1>3, <1>5 DEF Informed, Checked
<1>9. HoldsVehicle(p)'
  BY <1>5, <1>6 DEF HoldsVehicle
<1>10. HoldsRow(p)' /\ VerdictHolds(p)'
  BY <1>3, <1>5 DEF HoldsRow, VerdictHolds, Judged, Checked
<1> QED BY <1>7, <1>8, <1>9, <1>10, ReadStep DEF TakeLock, Unchanged

(* A verdict of "bookable" on a rental says that nothing is in the way.    *)
LEMMA BookableMeansFree ==
    ASSUME NEW rows, NEW slot, NEW vehicle, Verdict(rows, slot, FALSE, vehicle) = "bookable"
    PROVE  \A e \in rows : ~Conflicts(e, slot, FALSE)
BY DEF Verdict

(* A verdict that lets a request pass is what VerdictHolds asks of it.     *)
LEMMA CheckPassesStep ==
    ASSUME IInv, NEW p \in Procs, NEW vehicle \in {"ok", "not_for_rental"},
           CheckPasses(p, vehicle)
    PROVE  IInv'
<1>1. /\ tx \in [Procs -> RequestType]
      /\ advisory \in [Cars -> Procs \cup {Nobody}]
      /\ rowLock \in [Rows -> Procs \cup {Nobody}]
  BY DEF IInv, TypeOK
<1>2. Informed(p) /\ HoldsVehicle(p) /\ HoldsRow(p)
  BY DEF IInv, RequestsInformed, VehicleLocked, RowLocked
<1>3. /\ tx'[p].pc = "write" /\ tx'[p].route = tx[p].route /\ tx'[p].row = tx[p].row
      /\ tx'[p].slot = tx[p].slot /\ tx'[p].asBlock = tx[p].asBlock
      /\ tx'[p].patch = tx[p].patch /\ tx'[p].to = tx[p].to
      /\ tx'[p] \in RequestType
  BY <1>1 DEF CheckPasses, RequestType, Steps
<1>4. Others(p)
  BY <1>1, <1>3 DEF CheckPasses, Others, Unlocked
<1>5. tx[p].pc = "check" /\ UNCHANGED <<book, placedBy, advisory, rowLock>>
  BY DEF CheckPasses, Unchanged, Unlocked
<1>6. Informed(p)'
  BY <1>2, <1>3, <1>5 DEF Informed, Idle
<1>7. HoldsVehicle(p)'
  BY <1>2, <1>3, <1>5 DEF HoldsVehicle
<1>8. HoldsRow(p)'
  BY <1>2, <1>3, <1>5 DEF HoldsRow, Present, Revertible, SlotOf
<1>9. VerdictHolds(p)'
  <2> SUFFICES ASSUME Judged(p)', NEW s \in Rows \ {tx[p].row},
                      Conflicts(book[s], tx[p].slot, FALSE)
               PROVE  FALSE
    BY <1>3, <1>5 DEF VerdictHolds
  <2>1. tx[p].asBlock = FALSE /\ tx[p].route # "restore"
    BY <1>1, <1>3 DEF Judged, RequestType
  <2>2. VerdictFor(p, vehicle) = "bookable"
    BY <2>1 DEF CheckPasses
  <2>3. \A e \in { book[r] : r \in Rows \ {tx[p].row} } : ~Conflicts(e, tx[p].slot, FALSE)
    BY <2>1, <2>2, BookableMeansFree DEF VerdictFor
  <2> QED BY <2>3
<1> QED BY <1>4, <1>5, <1>6, <1>7, <1>8, <1>9, ReadStep

(* A request that ends without a write leaves everything to the others.    *)
LEMMA FinishStep ==
    ASSUME IInv, NEW p \in Procs, Finish(p), Unchanged
    PROVE  IInv'
<1>1. Others(p) /\ tx'[p] = Idle
  BY FinishFrame
<1>2. Idle.route = "none" /\ Idle.pc = "idle"
  BY DEF Idle
<1>3. Informed(p)' /\ HoldsVehicle(p)' /\ HoldsRow(p)' /\ VerdictHolds(p)'
  BY <1>1, <1>2 DEF Informed, HoldsVehicle, HoldsRow, VerdictHolds, Judged, Checked
<1> QED BY <1>1, <1>3, ReadStep DEF Unchanged

(* The row is locked before its slot and its status are used.              *)
LEMMA TakeRowStep ==
    ASSUME IInv, NEW p \in Procs, TakeRow(p)
    PROVE  IInv'
<1> DEFINE r == tx[p].row
           next == IF book[r].status = "cancelled" THEN "check" ELSE "write"
<1>1. /\ tx \in [Procs -> RequestType]
      /\ advisory \in [Cars -> Procs \cup {Nobody}]
      /\ rowLock \in [Rows -> Procs \cup {Nobody}]
  BY DEF IInv, TypeOK
<1>2. Informed(p) /\ HoldsVehicle(p)
  BY DEF IInv, RequestsInformed, VehicleLocked
<1>3. /\ tx[p].pc = "row" /\ tx[p].route = "revert" /\ r \in Rows
      /\ tx[p].asBlock = FALSE
  BY <1>1, <1>2 DEF TakeRow, Informed, Idle, RequestType
<1>4. /\ rowLock[r] = Nobody /\ Present(r) /\ Revertible(book[r])
      /\ book[r].car = tx[p].slot.car
      /\ rowLock' = [rowLock EXCEPT ![r] = p]
      /\ tx' = [tx EXCEPT ![p].slot = SlotOf(book[r]), ![p].pc = next]
      /\ UNCHANGED <<book, placedBy, advisory>>
  BY DEF TakeRow, Unchanged
<1>5. SlotOf(book[r]) \in SlotType /\ SlotOf(book[r]).car = tx[p].slot.car
  BY <1>3, <1>4, PresentTyped DEF Present, SlotOf
<1>6. /\ tx'[p].pc = next /\ tx'[p].route = "revert" /\ tx'[p].row = r
      /\ tx'[p].slot = SlotOf(book[r]) /\ tx'[p].asBlock = FALSE
      /\ tx'[p] \in RequestType
  BY <1>1, <1>3, <1>4, <1>5 DEF RequestType, Steps
<1>7. Others(p)
  BY <1>1, <1>3, <1>4, <1>6, NobodyAssumption DEF Others
<1>8. Informed(p)'
  BY <1>3, <1>5, <1>6 DEF Informed
<1>9. HoldsVehicle(p)'
  BY <1>2, <1>3, <1>4, <1>5, <1>6 DEF HoldsVehicle, Checked
<1>10. HoldsRow(p)'
  <2>1. rowLock'[tx[p].row] = p /\ book'[tx[p].row] = book[tx[p].row]
    BY <1>1, <1>3, <1>4
  <2>2. /\ book'[tx[p].row].status # "absent" /\ ~book'[tx[p].row].deleted
        /\ Revertible(book'[tx[p].row])
    BY <1>4, <2>1 DEF Present
  <2>3. tx'[p].row = tx[p].row /\ tx'[p].slot = SlotOf(book'[tx[p].row])
    BY <1>6, <2>1
  <2>4. next = "check" => book'[tx[p].row].status = "cancelled"
    BY <2>1
  <2> QED BY <1>6, <2>1, <2>2, <2>3, <2>4 DEF HoldsRow, Present
<1>11. VerdictHolds(p)'
  BY <1>4, <1>6 DEF VerdictHolds, Judged
<1> QED BY <1>4, <1>7, <1>8, <1>9, <1>10, <1>11, ReadStep

-----------------------------------------------------------------------------
(* The actions that write a row.                                           *)

(* The predicate reads the vehicle and the period of a request, no more.   *)
LEMMA ConflictsBySlot ==
    ASSUME NEW e, NEW row, NEW slot,
           row.car = slot.car, row.start = slot.start, row.end = slot.end
    PROVE  Conflicts(e, row, FALSE) <=> Conflicts(e, slot, FALSE)
BY DEF Conflicts, InTheWay, Overlaps, DaysMeet, Turnover, EndsBefore

(* What a checked writer may place: the period it was judged on.           *)
LEMMA JudgedPlaces ==
    ASSUME IInv, NEW p \in Procs, NEW r \in Rows, NEW row, NEW tag \in Guarded,
           Judged(p), tx[p].route \in Checked, tx[p].row \in {r, Nobody},
           row.car = tx[p].slot.car, row.start = tx[p].slot.start,
           row.end = tx[p].slot.end
    PROVE  Placed(p, r, row, tag)
<1>1. advisory[row.car] = p
  BY DEF IInv, VehicleLocked, HoldsVehicle, Judged
<1>2. ASSUME NEW s \in Rows \ {r}, Conflicts(book[s], row, FALSE)
      PROVE  placedBy[s] \in Unguarded
  <2>1. Conflicts(book[s], tx[p].slot, FALSE)
    BY <1>2, ConflictsBySlot
  <2>2. s # tx[p].row
    BY NobodyAssumption
  <2> QED BY <2>1, <2>2 DEF IInv, VerdictStillHolds, VerdictHolds
<1> QED BY <1>1, <1>2 DEF Placed

(* The checked INSERT is a guarded placement.                              *)
LEMMA CreateWriteStep ==
    ASSUME IInv, NEW p \in Procs, CreateWrite(p)
    PROVE  IInv' /\ Promise!Next
<1>1. Informed(p) /\ At(p, "write", "create") /\ Finish(p)
  BY DEF IInv, RequestsInformed, CreateWrite
<1>2. /\ tx[p].row = Nobody /\ tx[p].slot \in SlotType /\ ~tx[p].asBlock
      /\ tx[p].route = "create" /\ tx[p].pc = "write"
  BY <1>1 DEF Informed, At
<1> DEFINE row == [Put(Absent, tx[p].slot) EXCEPT !.status = "booked"]
<1>3. PICK r \in Rows : book[r].status = "absent" /\ Store(r, row, "create")
  BY DEF CreateWrite
<1>4. /\ row \in BookRows /\ row.status = "booked" /\ row.car = tx[p].slot.car
      /\ row.start = tx[p].slot.start /\ row.end = tx[p].slot.end
  BY <1>2, AbsentTyped, PutTyped DEF BookRows, Put, Statuses, LiveStatuses
<1>5. row.car \in Cars
  BY <1>2, <1>4 DEF SlotType
<1>6. Placed(p, r, row, "create")
  BY <1>2, <1>4, JudgedPlaces DEF Judged, Guarded, Checked
<1>7. \A q \in Procs \ {p} : ~Owns(q, r)
  BY <1>3, NotOwned
<1>8. Others(p) /\ tx'[p] = Idle
  BY <1>1, FinishFrame
<1> QED BY <1>3, <1>4, <1>5, <1>6, <1>7, <1>8, WriteStep

(* A maintenance block occupies nothing.                                   *)
LEMMA AddBlockStep ==
    ASSUME IInv, NEW r \in Rows, NEW slot \in Slots,
           NEW status \in Entered, AddBlock(r, slot, status)
    PROVE  IInv' /\ Promise!Next
<1> DEFINE row == [Put(Absent, slot) EXCEPT !.status = status]
<1>1. slot \in SlotType /\ slot.kind = "block" /\ slot.car \in Cars
  BY SlotsTyped DEF AddBlock, SlotType
<1>2. /\ row \in BookRows /\ row.status = status /\ row.status # "absent"
      /\ row.car = slot.car /\ row.kind = "block"
  BY <1>1, AbsentTyped, PutTyped, EnteredAssumption
  DEF BookRows, Statuses, LiveStatuses, ClosedStatuses
<1>3. Placed(Nobody, r, row, "none")
  BY <1>2 DEF Placed, Occupies
<1>4. \A q \in Procs \ {Nobody} : ~Owns(q, r)
  BY NotOwned DEF AddBlock
<1>5. Others(Nobody)
  BY NoRequestFrame DEF AddBlock, Unlocked
<1>6. Store(r, row, "none")
  BY DEF AddBlock
<1> QED BY <1>1, <1>2, <1>3, <1>4, <1>5, <1>6, NobodyAssumption, WriteStep

(* The recycle bin vacates the vehicle.                                    *)
LEMMA SoftDeleteStep ==
    ASSUME IInv, NEW r \in Rows, SoftDelete(r)
    PROVE  IInv' /\ Promise!Next
<1> DEFINE row == [book[r] EXCEPT !.deleted = TRUE]
<1>1. book[r] \in BookRows /\ book[r].car \in Cars /\ book[r].status # "absent"
  BY PresentTyped DEF SoftDelete, Present
<1>2. row \in BookRows /\ row.deleted /\ row.car \in Cars /\ row.status # "absent"
  BY <1>1 DEF BookRows
<1>3. Placed(Nobody, r, row, "none")
  BY <1>2 DEF Placed, Occupies, IsLive
<1>4. \A q \in Procs \ {Nobody} : ~Owns(q, r)
  BY NotOwned DEF SoftDelete
<1>5. Others(Nobody)
  BY NoRequestFrame DEF SoftDelete, Unlocked
<1>6. Store(r, row, "none")
  BY DEF SoftDelete
<1> QED BY <1>2, <1>3, <1>4, <1>5, <1>6, NobodyAssumption, WriteStep

(* An edit of a row that is still there: the columns land on the judged    *)
(* slot (edit), or they do not (stale_edit), or nothing was judged         *)
(* (retype).                                                               *)
LEMMA EditWriteStep ==
    ASSUME IInv, NEW p \in Procs, EditWrite(p)
    PROVE  IInv' /\ (Promise!Next \/ Unchanged)
<1> DEFINE r == tx[p].row
           slot == Merged(SlotOf(book[r]), tx[p].slot, tx[p].patch)
           row == Put(book[r], slot)
           tag == EditTag(slot, tx[p])
<1>1. Informed(p) /\ At(p, "write", "edit") /\ Finish(p) /\ rowLock[r] = Nobody
  BY DEF IInv, RequestsInformed, EditWrite
<1>2. /\ r \in Rows /\ tx[p].slot \in SlotType
      /\ tx[p].route = "edit" /\ tx[p].pc = "write"
  BY <1>1 DEF Informed, At
<1>3. Others(p) /\ tx'[p] = Idle
  BY <1>1, FinishFrame
<1>4. CASE ~Present(r)
  <2>1. Unchanged
    BY <1>4 DEF EditWrite
  <2> QED BY <1>1, <2>1, FinishStep
<1>5. CASE Present(r)
  <2>1. Store(r, row, tag)
    BY <1>5 DEF EditWrite
  <2>2. book[r] \in BookRows /\ SlotOf(book[r]) \in SlotType /\ book[r].status # "absent"
    BY <1>2, <1>5, PresentTyped DEF Present
  <2>3. slot \in SlotType
    BY <1>2, <2>2, MergedTyped
  <2>4. /\ row \in BookRows /\ SlotOf(row) = slot
        /\ row.status = book[r].status /\ row.car = slot.car /\ row.kind = slot.kind
    BY <2>2, <2>3, PutTyped
  <2>5. row.car \in Cars /\ row.status # "absent"
    BY <2>2, <2>3, <2>4 DEF SlotType
  <2>6. \A q \in Procs \ {p} : ~Owns(q, r)
    BY <1>1, <1>2, NotOwned
  <2>7. Placed(p, r, row, tag)
    <3>1. CASE tag \in Unguarded
      BY <3>1 DEF Placed
    <3>2. CASE tag \notin Unguarded /\ Occupies(row)
      <4>1. tag = "edit" /\ slot = tx[p].slot
        BY <3>2 DEF EditTag, Unguarded
      <4>2. ~tx[p].asBlock
        BY <2>4, <3>2 DEF EditTag, Unguarded, Occupies
      <4>3. Judged(p)
        BY <1>2, <4>2 DEF Judged
      <4>4. row.start = slot.start /\ row.end = slot.end
        BY <2>4 DEF SlotOf
      <4> QED BY <1>2, <2>4, <4>1, <4>3, <4>4, JudgedPlaces DEF Guarded, Checked
    <3> QED BY <3>1, <3>2 DEF Placed
  <2> QED BY <1>2, <1>3, <2>1, <2>4, <2>5, <2>6, <2>7, WriteStep
<1> QED BY <1>4, <1>5

(* A revert brings the rental back to life where it stands.                *)
LEMMA RevertedTyped ==
    ASSUME NEW row \in BookRows
    PROVE  /\ Reverted(row) \in BookRows /\ Reverted(row).status \in LiveStatuses
           /\ SlotOf(Reverted(row)) = SlotOf(row)
           /\ Reverted(row).car = row.car
           /\ Reverted(row).start = row.start /\ Reverted(row).end = row.end
<1>1. CASE row.status = "picked_up"
  <2>1. Reverted(row) = [row EXCEPT !.status = "booked",
                                    !.data = @ \ {"pickup", "pickup_date"}]
    BY <1>1 DEF Reverted
  <2>2. "booked" \in LiveStatuses /\ "booked" \in Statuses
    BY DEF LiveStatuses, Statuses
  <2> QED BY <2>1, <2>2 DEF BookRows, SlotOf
<1>2. CASE row.status = "cancelled"
  <2> DEFINE out == OutIf("pickup_date" \in row.data)
  <2>1. Reverted(row) = [row EXCEPT !.status = out]
    BY <1>2 DEF Reverted
  <2>2. out \in LiveStatuses /\ out \in Statuses
    BY DEF OutIf, LiveStatuses, Statuses
  <2> HIDE DEF out
  <2> QED BY <2>1, <2>2 DEF BookRows, SlotOf
<1>3. CASE row.status \notin {"picked_up", "cancelled"}
  <2> DEFINE out == OutIf(row.data \cap {"pickup", "return"} # {})
  <2>1. Reverted(row) = [row EXCEPT !.status = out, !.data = @ \ {"return"}]
    BY <1>3 DEF Reverted
  <2>2. out \in LiveStatuses /\ out \in Statuses
    BY DEF OutIf, LiveStatuses, Statuses
  <2> HIDE DEF out
  <2> QED BY <2>1, <2>2 DEF BookRows, SlotOf
<1> QED BY <1>1, <1>2, <1>3

(* A revert places a cancelled rental with care, and leaves others where they are. *)
LEMMA RevertWriteStep ==
    ASSUME IInv, NEW p \in Procs, RevertWrite(p)
    PROVE  IInv' /\ Promise!Next
<1> DEFINE r == tx[p].row
           row == Reverted(book[r])
           tag == RevertTag(r)
<1>1. Informed(p) /\ HoldsRow(p) /\ At(p, "write", "revert") /\ Finish(p)
      /\ Store(r, row, tag)
  BY DEF IInv, RequestsInformed, RowLocked, RevertWrite
<1>2. /\ r \in Rows /\ ~tx[p].asBlock
      /\ tx[p].route = "revert" /\ tx[p].pc = "write"
  BY <1>1 DEF Informed, At
<1>3. /\ rowLock[r] = p /\ tx[p].slot = SlotOf(book[r])
      /\ Present(r) /\ Revertible(book[r])
  BY <1>1, <1>2 DEF HoldsRow
<1>4. book[r] \in BookRows /\ book[r].car \in Cars
  BY <1>2, <1>3, PresentTyped DEF Present
<1>5. /\ row \in BookRows /\ row.status \in LiveStatuses /\ row.car \in Cars
      /\ SlotOf(row) = SlotOf(book[r]) /\ row.car = book[r].car
      /\ row.start = book[r].start /\ row.end = book[r].end
  BY <1>4, RevertedTyped
<1>6. Placed(p, r, row, tag)
  <2>1. CASE book[r].status = "cancelled"
    <3>1. Judged(p) /\ tag = "revert"
      BY <1>2, <2>1 DEF Judged, RevertTag
    <3>2. row.car = tx[p].slot.car /\ row.start = tx[p].slot.start
          /\ row.end = tx[p].slot.end
      BY <1>3, <1>5 DEF SlotOf
    <3> HIDE DEF row
    <3> QED BY <1>2, <3>1, <3>2, JudgedPlaces DEF Guarded, Checked
  <2>2. CASE book[r].status \in {"returned", "completed"}
    <3>1. tag \in Unguarded
      BY <2>2 DEF RevertTag, Unguarded
    <3> QED BY <3>1 DEF Placed
  <2>3. CASE book[r].status = "picked_up"
    <3>1. tag = placedBy[r] /\ Occupies(book[r])
      BY <1>3, <2>3 DEF RevertTag, Occupies, IsLive, LiveStatuses, Present, Revertible
    <3> QED BY <1>5, <3>1 DEF Placed
  <2> QED BY <1>3, <2>1, <2>2, <2>3 DEF Revertible, ClosedStatuses
<1>7. \A q \in Procs \ {p} : ~Owns(q, r)
  BY <1>2, <1>3, NotOwned
<1>8. Others(p) /\ tx'[p] = Idle
  BY <1>1, FinishFrame
<1>9. row.status # "absent"
  BY <1>5 DEF LiveStatuses
<1> HIDE DEF row, tag
<1> QED BY <1>1, <1>2, <1>5, <1>6, <1>7, <1>8, <1>9, WriteStep

(* A restore is an unguarded placement of a row it has locked.             *)
LEMMA RestoreWriteStep ==
    ASSUME IInv, NEW p \in Procs, RestoreWrite(p)
    PROVE  IInv' /\ Promise!Next
<1> DEFINE r == tx[p].row
           row == [book[r] EXCEPT !.deleted = FALSE]
<1>1. Informed(p) /\ HoldsRow(p) /\ At(p, "write", "restore") /\ Finish(p)
      /\ Store(r, row, "restore")
  BY DEF IInv, RequestsInformed, RowLocked, RestoreWrite
<1>2. r \in Rows /\ rowLock[r] = p /\ book[r].deleted
  BY <1>1 DEF Informed, HoldsRow, At
<1>3. book[r] \in BookRows /\ book[r].car \in Cars /\ book[r].status # "absent"
  BY <1>2, PresentTyped DEF IInv, RowsHaveCars
<1>4. row \in BookRows /\ row.car \in Cars /\ row.status # "absent"
  BY <1>3 DEF BookRows
<1>5. Placed(p, r, row, "restore")
  BY DEF Placed, Unguarded
<1>6. \A q \in Procs \ {p} : ~Owns(q, r)
  BY <1>2, NotOwned
<1>7. Others(p) /\ tx'[p] = Idle
  BY <1>1, FinishFrame
<1> QED BY <1>1, <1>2, <1>4, <1>5, <1>6, <1>7, WriteStep

(* The handover writers: the row stays where it is, or its start moves     *)
(* without a new verdict; a row that had been closed is marked as such.    *)
LEMMA AdvanceStep ==
    ASSUME IInv, NEW p \in Procs, NEW applies \in BOOLEAN, NEW data \in SUBSET Data,
           tx[p].route \in {"status", "pickup", "return"},
           applies => book[tx[p].row].status # "absent",
           Advance(p, applies, data)
    PROVE  IInv' /\ (Promise!Next \/ Unchanged)
<1> DEFINE r == tx[p].row
           slot == Merged(SlotOf(book[r]), tx[p].slot, tx[p].patch)
           row == Advanced(p, book[r], data)
           tag == AdvanceTag(p, r)
<1>1. Informed(p) /\ Finish(p) /\ rowLock[r] = Nobody
  BY DEF IInv, RequestsInformed, Advance
<1>2. /\ r \in Rows /\ tx[p].to \in LiveStatuses \cup ClosedStatuses
      /\ tx[p].patch # {} => tx[p].slot \in SlotType
  BY <1>1 DEF Informed
<1>3. Others(p) /\ tx'[p] = Idle
  BY <1>1, FinishFrame
<1>4. CASE ~applies
  BY <1>1, <1>4, FinishStep DEF Advance
<1>5. CASE applies
  <2>1. Store(r, row, tag)
    BY <1>5 DEF Advance
  <2>2. book[r] \in BookRows /\ SlotOf(book[r]) \in SlotType
    BY <1>2, <1>5, PresentTyped
  <2>3. slot \in SlotType /\ (tx[p].patch = {} => slot = SlotOf(book[r]))
    BY <1>2, <2>2, MergedTyped, MergedEmpty
  <2>4. /\ row \in BookRows /\ SlotOf(row) = slot
        /\ row.status = tx[p].to /\ row.deleted = book[r].deleted
    <3>1. Put(book[r], slot) \in BookRows /\ SlotOf(Put(book[r], slot)) = slot
          /\ Put(book[r], slot).deleted = book[r].deleted
      BY <2>2, <2>3, PutTyped
    <3>2. row = [Put(book[r], slot) EXCEPT !.status = tx[p].to, !.data = @ \cup data]
      BY DEF Advanced
    <3>3. tx[p].to \in Statuses
      BY <1>2 DEF Statuses
    <3> HIDE DEF slot, row
    <3> QED BY <3>1, <3>2, <3>3 DEF BookRows, SlotOf
  <2>5. row.car \in Cars /\ row.status # "absent"
    <3>1. row.car = slot.car
      BY <2>4 DEF SlotOf
    <3> QED BY <1>2, <2>3, <2>4, <3>1 DEF SlotType, LiveStatuses, ClosedStatuses
  <2>6. \A q \in Procs \ {p} : ~Owns(q, r)
    BY <1>1, <1>2, NotOwned
  <2>7. Placed(p, r, row, tag)
    <3>1. CASE tag \in Unguarded
      BY <3>1 DEF Placed
    <3>2. CASE tag \notin Unguarded /\ Occupies(row)
      <4>1. tx[p].patch = {} /\ tag = placedBy[r] /\ book[r].status \in LiveStatuses
        BY <2>4, <3>2 DEF AdvanceTag, Unguarded, Occupies, IsLive
      <4>2. SlotOf(row) = SlotOf(book[r])
        BY <2>3, <2>4, <4>1
      <4>3. book[r].kind = row.kind
        BY <4>2 DEF SlotOf
      <4>4. Occupies(book[r])
        BY <2>4, <3>2, <4>1, <4>3 DEF Occupies, IsLive
      <4> QED BY <4>1, <4>2, <4>4 DEF Placed
    <3> QED BY <3>1, <3>2 DEF Placed
  <2> HIDE DEF row, tag, slot
  <2> QED BY <1>2, <1>3, <2>1, <2>4, <2>5, <2>6, <2>7, WriteStep
<1> QED BY <1>4, <1>5

(* The unconditional UPDATE of the status route.                           *)
LEMMA StatusWriteStep ==
    ASSUME IInv, NEW p \in Procs, StatusWrite(p)
    PROVE  IInv' /\ (Promise!Next \/ Unchanged)
<1>1. tx[p].route = "status"
  BY DEF StatusWrite, At
<1>2. PICK data \in SUBSET Data : Advance(p, Present(tx[p].row), data)
  BY DEF StatusWrite, Data
<1>3. Present(tx[p].row) \in BOOLEAN
      /\ (Present(tx[p].row) => book[tx[p].row].status # "absent")
  BY DEF Present
<1> QED BY <1>1, <1>2, <1>3, AdvanceStep

(* The conditional UPDATE of the pickup.                                   *)
LEMMA PickupWriteStep ==
    ASSUME IInv, NEW p \in Procs, PickupWrite(p)
    PROVE  IInv' /\ (Promise!Next \/ Unchanged)
BY AdvanceStep DEF PickupWrite, At, Data

(* The conditional UPDATE of the return.                                   *)
LEMMA ReturnWriteStep ==
    ASSUME IInv, NEW p \in Procs, ReturnWrite(p)
    PROVE  IInv' /\ (Promise!Next \/ Unchanged)
BY AdvanceStep DEF ReturnWrite, At, Data

-----------------------------------------------------------------------------
(* The invariant holds at the start and is kept by every step.             *)
LEMMA InitHolds == Init => IInv /\ Promise!Init
<1> SUFFICES ASSUME Init
             PROVE  IInv /\ Promise!Init
  OBVIOUS
<1>1. Absent.status = "absent" /\ Absent.deleted = FALSE /\ Absent.kind = "rental"
  BY DEF Absent
<1>2. TypeOK
  BY AbsentTyped, IdleTyped DEF TypeOK, Init
<1>3. \A r \in Rows : book[r] = Absent /\ placedBy[r] = "none" /\ ~Occupies(book[r])
  BY <1>1 DEF Init, Occupies, IsLive, LiveStatuses
<1>4. RowsHaveCars /\ PlacedExactlyTheLive
  BY <1>1, <1>3 DEF RowsHaveCars, PlacedExactlyTheLive
<1>5. \A p \in Procs : tx[p] = Idle
  BY DEF Init
<1>6. Idle.route = "none" /\ Idle.pc = "idle"
  BY DEF Idle
<1>7. RequestsInformed /\ VehicleLocked /\ RowLocked /\ VerdictStillHolds
  BY <1>5, <1>6 DEF RequestsInformed, Informed, VehicleLocked, HoldsVehicle, RowLocked,
                    HoldsRow, VerdictStillHolds, VerdictHolds, Judged, Checked
<1>8. Promise!Init
  BY <1>3, SameWords DEF Promise!Init
<1> QED BY <1>2, <1>4, <1>7, <1>8 DEF IInv

(* Every way a request can begin keeps the invariant.                      *)
LEMMA StartStep ==
    ASSUME IInv, NEW p \in Procs, Start(p)
    PROVE  IInv' /\ Unchanged
<1>1. ASSUME NEW slot \in Slots, BeginCreate(p, slot)
      PROVE  IInv' /\ Unchanged
  BY <1>1, BeginCreateStep DEF BeginCreate
<1>2. ASSUME NEW r \in Rows, NEW new \in Slots, NEW patch \in Patches,
             BeginEdit(p, r, new, patch)
      PROVE  IInv' /\ Unchanged
  BY <1>2, BeginEditStep DEF BeginEdit
<1>3. ASSUME NEW r \in Rows, BeginRevert(p, r)
      PROVE  IInv' /\ Unchanged
  BY <1>3, BeginRevertStep DEF BeginRevert
<1>4. ASSUME NEW r \in Rows, NEW to \in Statuses, NEW today \in Days,
             BeginStatus(p, r, to, today)
      PROVE  IInv' /\ Unchanged
  BY <1>4, BeginStatusStep DEF BeginStatus, HandOut, ReadThenWrite
<1>5. ASSUME NEW r \in Rows, NEW today \in Days, BeginPickup(p, r, today)
      PROVE  IInv' /\ Unchanged
  BY <1>5, BeginPickupStep DEF BeginPickup, HandOut, ReadThenWrite
<1>6. ASSUME NEW r \in Rows, BeginReturn(p, r)
      PROVE  IInv' /\ Unchanged
  BY <1>6, BeginReturnStep DEF BeginReturn, ReadThenWrite
<1>7. ASSUME NEW r \in Rows, BeginRestore(p, r)
      PROVE  IInv' /\ Unchanged
  BY <1>7, BeginRestoreStep DEF BeginRestore
<1> QED BY <1>1, <1>2, <1>3, <1>4, <1>5, <1>6, <1>7 DEF Start

(* Every way a request goes on keeps the invariant and is a calendar step. *)
LEMMA StepStep ==
    ASSUME IInv, NEW p \in Procs, Step(p)
    PROVE  IInv' /\ (Promise!Next \/ Unchanged)
<1>1. CASE TakeLock(p)
  BY <1>1, TakeLockStep DEF TakeLock
<1>2. ASSUME NEW vehicle \in {"ok", "not_for_rental"}, CheckPasses(p, vehicle)
      PROVE  IInv' /\ Unchanged
  BY <1>2, CheckPassesStep DEF CheckPasses
<1>3. ASSUME NEW vehicle \in {"ok", "not_for_rental"}, CheckRefuses(p, vehicle)
      PROVE  IInv' /\ Unchanged
  BY <1>3, FinishStep DEF CheckRefuses
<1>4. CASE TakeRow(p)
  BY <1>4, TakeRowStep DEF TakeRow
<1>5. CASE RefuseRevert(p)
  BY <1>5, FinishStep DEF RefuseRevert
<1>6. CASE CreateWrite(p)
  BY <1>6, CreateWriteStep
<1>7. CASE EditWrite(p)
  BY <1>7, EditWriteStep
<1>8. CASE RevertWrite(p)
  BY <1>8, RevertWriteStep
<1>9. CASE RestoreWrite(p)
  BY <1>9, RestoreWriteStep
<1>10. CASE StatusWrite(p)
  BY <1>10, StatusWriteStep
<1>11. CASE PickupWrite(p)
  BY <1>11, PickupWriteStep
<1>12. CASE ReturnWrite(p)
  BY <1>12, ReturnWriteStep
<1> QED BY <1>1, <1>2, <1>3, <1>4, <1>5, <1>6, <1>7, <1>8, <1>9, <1>10, <1>11, <1>12
        DEF Step

(* Every step keeps the invariant and is a step of the calendar or leaves  *)
(* the calendar alone.                                                     *)
LEMMA NextStep ==
    IInv /\ [Next]_vars => IInv' /\ [Promise!Next]_(Promise!vars)
<1> SUFFICES ASSUME IInv, [Next]_vars
             PROVE  IInv' /\ (Promise!Next \/ Unchanged)
  BY DEF Promise!vars, Unchanged
<1>1. CASE UNCHANGED vars
  BY <1>1 DEF vars, Unchanged, IInv, TypeOK, RowsHaveCars, PlacedExactlyTheLive, Occupies,
     IsLive, RequestsInformed, Informed, VehicleLocked, HoldsVehicle, RowLocked, HoldsRow,
     Present, Revertible, SlotOf, VerdictStillHolds, VerdictHolds, Judged, Conflicts, InTheWay
<1>2. ASSUME NEW p \in Procs, Start(p)
      PROVE  IInv' /\ (Promise!Next \/ Unchanged)
  BY <1>2, StartStep
<1>3. ASSUME NEW p \in Procs, Step(p)
      PROVE  IInv' /\ (Promise!Next \/ Unchanged)
  BY <1>3, StepStep
<1>4. ASSUME NEW p \in Procs, Crash(p)
      PROVE  IInv' /\ (Promise!Next \/ Unchanged)
  BY <1>4, FinishStep DEF Crash
<1>5. ASSUME NEW r \in Rows, SoftDelete(r)
      PROVE  IInv' /\ (Promise!Next \/ Unchanged)
  BY <1>5, SoftDeleteStep
<1>6. ASSUME NEW r \in Rows, NEW slot \in Slots,
             NEW status \in Entered, AddBlock(r, slot, status)
      PROVE  IInv' /\ (Promise!Next \/ Unchanged)
  BY <1>6, AddBlockStep
<1> QED BY <1>1, <1>2, <1>3, <1>4, <1>5, <1>6 DEF Next

(* The inductive invariant, for every number of rows, cars and requests.   *)
THEOREM Invariance == Spec => []IInv
<1>1. IInv /\ [Next]_vars => IInv'
  BY NextStep
<1> QED BY <1>1, InitHolds, PTL DEF Spec

(* Types are kept by every writer.                                         *)
THEOREM TypeCorrect == Spec => []TypeOK
<1>1. IInv => TypeOK
  BY DEF IInv
<1> QED BY <1>1, Invariance, PTL

(* A checked writer holds the advisory lock of the vehicle it is judged on *)
(* from the check to the COMMIT, however many requests are in flight.      *)
THEOREM LockDiscipline == Spec => []VehicleLocked
<1>1. IInv => VehicleLocked
  BY DEF IInv
<1> QED BY <1>1, Invariance, PTL

(* What a revert or a restore read of its row is still so when it writes.  *)
THEOREM RowDiscipline == Spec => []RowLocked
<1>1. IInv => RowLocked
  BY DEF IInv
<1> QED BY <1>1, Invariance, PTL

(* A verdict of isVehicleBookable survives until it is acted upon, unless  *)
(* an unguarded write comes in between.                                    *)
THEOREM VerdictsHold == Spec => []VerdictStillHolds
<1>1. IInv => VerdictStillHolds
  BY DEF IInv
<1> QED BY <1>1, Invariance, PTL

(* The table and its writers implement the calendar: every behaviour of    *)
(* the transactions is a behaviour of one-row-at-a-time placements.        *)
THEOREM Refinement == Spec => ImplementsCalendar
<1>1. Init => Promise!Init
  BY InitHolds
<1>2. IInv /\ [Next]_vars => [Promise!Next]_(Promise!vars)
  BY NextStep
<1> QED BY <1>1, <1>2, Invariance, PTL DEF Spec, ImplementsCalendar, Promise!Spec

-----------------------------------------------------------------------------
(* From the calendar to the double booking.                                *)

(* A clash is a clash from both sides.                                     *)
LEMMA ClashingSymmetric ==
    ASSUME NEW r, NEW s, Clashing(r, s)
    PROVE  Clashing(s, r)
BY OverlapsSymmetric DEF Clashing

(* A placement of one row cannot make it clash with a rental that was      *)
(* placed with care, if it is placed with care itself.                     *)
LEMMA PlacementIsExplained ==
    ASSUME OverlapsExplained, NEW r \in Rows, NEW s \in Rows, r # s,
           Promise!OnlyRowChanges(r),
           Promise!Vacate(r) \/ Promise!Stay(r) \/ Promise!PlaceGuarded(r)
              \/ Promise!PlaceUnguarded(r),
           Clashing(r, s)'
    PROVE  {placedBy'[r], placedBy'[s]} \cap Unguarded # {}
<1>1. book'[s] = book[s] /\ placedBy'[s] = placedBy[s]
  BY DEF Promise!OnlyRowChanges
<1>2. /\ Occupies(book'[r]) /\ Occupies(book[s])
      /\ book'[r].car = book[s].car /\ Overlaps(book'[r], book[s])
  BY <1>1 DEF Clashing
<1>3. CASE Promise!Vacate(r)
  BY <1>2, <1>3, SameWords DEF Promise!Vacate
<1>4. CASE Promise!Stay(r)
  <2>1. /\ Occupies(book[r]) /\ SlotOf(book'[r]) = SlotOf(book[r])
        /\ placedBy'[r] = placedBy[r]
    BY <1>4, SameWords DEF Promise!Stay
  <2>2. Overlaps(book[r], book[s]) /\ book[r].car = book[s].car
    BY <1>2, <2>1 DEF SlotOf, Overlaps, DaysMeet, Turnover, EndsBefore
  <2>3. Clashing(r, s)
    BY <1>2, <2>1, <2>2 DEF Clashing
  <2> QED BY <1>1, <2>1, <2>3 DEF OverlapsExplained
<1>5. CASE Promise!PlaceGuarded(r)
  <2>1. Conflicts(book[s], book'[r], FALSE)
    BY <1>2, OverlapsSymmetric DEF Conflicts, InTheWay, Occupies
  <2>2. placedBy[s] \in Unguarded
    BY <1>5, <2>1, SameWords DEF Promise!PlaceGuarded
  <2> QED BY <1>1, <2>2
<1>6. CASE Promise!PlaceUnguarded(r)
  BY <1>6 DEF Promise!PlaceUnguarded
<1> QED BY <1>3, <1>4, <1>5, <1>6

(* Two live rentals overlap on one vehicle only if one of them was put     *)
(* where it is by a write that is not judged behind the vehicle's lock:    *)
(* the checked writers never double-book against one another.              *)
THEOREM CheckedWritersNeverDoubleBook == Spec => []OverlapsExplained
<1>1. Init => OverlapsExplained
  <2> SUFFICES ASSUME Init
               PROVE  \A r \in Rows : ~Occupies(book[r])
    BY DEF OverlapsExplained, Clashing
  <2> QED BY InitHolds, SameWords DEF Promise!Init
<1>2. OverlapsExplained /\ [Promise!Next]_(Promise!vars) => OverlapsExplained'
  <2> SUFFICES ASSUME OverlapsExplained, [Promise!Next]_(Promise!vars),
                      NEW a \in Rows, NEW b \in Rows, Clashing(a, b)'
               PROVE  {placedBy'[a], placedBy'[b]} \cap Unguarded # {}
    BY DEF OverlapsExplained
  <2>1. CASE Promise!Next
    <3>1. PICK r \in Rows :
             /\ Promise!OnlyRowChanges(r)
             /\ Promise!Vacate(r) \/ Promise!Stay(r) \/ Promise!PlaceGuarded(r)
                   \/ Promise!PlaceUnguarded(r)
      BY <2>1 DEF Promise!Next
    <3>2. a # b
      BY DEF Clashing
    <3>3. CASE r = a
      BY <3>1, <3>2, <3>3, PlacementIsExplained
    <3>4. CASE r = b
      <4>1. Clashing(b, a)'
        BY OverlapsSymmetric DEF Clashing
      <4> QED BY <3>1, <3>2, <3>4, <4>1, PlacementIsExplained
    <3>5. CASE r \notin {a, b}
      <4>1. /\ book'[a] = book[a] /\ placedBy'[a] = placedBy[a]
            /\ book'[b] = book[b] /\ placedBy'[b] = placedBy[b]
        BY <3>1, <3>5 DEF Promise!OnlyRowChanges
      <4>2. Clashing(a, b)
        BY <4>1 DEF Clashing
      <4> QED BY <4>1, <4>2 DEF OverlapsExplained
    <3> QED BY <3>3, <3>4, <3>5
  <2>2. CASE UNCHANGED Promise!vars
    <3>1. book' = book /\ placedBy' = placedBy
      BY <2>2 DEF Promise!vars
    <3>2. Clashing(a, b)
      BY <3>1 DEF Clashing
    <3> QED BY <3>1, <3>2 DEF OverlapsExplained
  <2> QED BY <2>1, <2>2
<1>3. Promise!Spec => [][Promise!Next]_(Promise!vars)
  BY PTL DEF Promise!Spec
<1>4. Spec => [][Promise!Next]_(Promise!vars)
  BY Refinement, <1>3, PTL DEF ImplementsCalendar
<1> QED BY <1>1, <1>2, <1>4, PTL DEF Spec

-----------------------------------------------------------------------------
(* Who brings a closed rental back to life.                                *)

(* A request in flight came in through an open route.                      *)
CameThroughOpenRoute == \A p \in Procs : tx[p].route \in Routes \cup {"none"}

(* A step that begins a request names an open route.                       *)
LEMMA OpenRoutesStep ==
    IInv /\ CameThroughOpenRoute /\ [Next]_vars => CameThroughOpenRoute'
<1> SUFFICES ASSUME IInv, CameThroughOpenRoute, [Next]_vars, NEW q \in Procs
             PROVE  tx'[q].route \in Routes \cup {"none"}
  BY DEF CameThroughOpenRoute
<1>1. tx \in [Procs -> RequestType] /\ tx[q].route \in Routes \cup {"none"}
  BY DEF IInv, TypeOK, CameThroughOpenRoute
<1>2. CASE UNCHANGED tx
  BY <1>1, <1>2
<1>3. ASSUME NEW p \in Procs, Finish(p)
      PROVE  tx'[q].route \in Routes \cup {"none"}
  BY <1>1, <1>3 DEF Finish, Idle
<1>4. ASSUME NEW p \in Procs, TakeLock(p) \/ TakeRow(p)
      PROVE  tx'[q].route \in Routes \cup {"none"}
  BY <1>1, <1>4 DEF TakeLock, TakeRow, RequestType
<1>5. ASSUME NEW p \in Procs, NEW vehicle, CheckPasses(p, vehicle)
      PROVE  tx'[q].route \in Routes \cup {"none"}
  BY <1>1, <1>5 DEF CheckPasses, RequestType
<1>6. ASSUME NEW p \in Procs, Start(p)
      PROVE  tx'[q].route \in Routes \cup {"none"}
  BY <1>1, <1>6 DEF Start, BeginCreate, BeginEdit, BeginRevert, BeginStatus, BeginPickup,
     BeginReturn, BeginRestore, HandOut, ReadThenWrite, Begin, Request
<1> QED BY <1>2, <1>3, <1>4, <1>5, <1>6
        DEF Next, vars, Step, Crash, CheckRefuses, RefuseRevert, CreateWrite, EditWrite,
            RevertWrite, RestoreWrite, StatusWrite, PickupWrite, ReturnWrite, Advance,
            SoftDelete, AddBlock

(* The status of a row changes from closed to live in a revert, or in the  *)
(* status route.                                                           *)
LEMMA ReopeningStep ==
    ASSUME IInv, CameThroughOpenRoute, "status" \notin Routes, [Next]_vars,
           NEW r \in Rows,
           book[r].status \in ClosedStatuses, book'[r].status \in LiveStatuses
    PROVE  placedBy'[r] \in {"revert", "revert_return"}
<1> USE DEF ClosedStatuses, LiveStatuses
<1>1. /\ book \in [Rows -> BookRows]
      /\ placedBy \in [Rows -> Guarded \cup Unguarded \cup {"none"}]
  BY DEF IInv, TypeOK
<1>2. ~Unchanged
  BY DEF Unchanged
<1>3. \A s \in Rows : \A row, tag : Store(s, row, tag) =>
         /\ s = r /\ row.status \in LiveStatuses
         /\ placedBy'[r] = IF Occupies(row) THEN tag ELSE "none"
  BY <1>1 DEF Store
<1>4. ASSUME NEW p \in Procs, CreateWrite(p)
      PROVE  FALSE
  BY <1>3, <1>4 DEF CreateWrite
<1>5. ASSUME NEW p \in Procs, EditWrite(p)
      PROVE  FALSE
  <2>1. Informed(p) /\ tx[p].route = "edit"
    BY <1>5 DEF IInv, RequestsInformed, EditWrite, At
  <2>2. tx[p].row \in Rows /\ tx[p].slot \in SlotType
    BY <2>1 DEF Informed
  <2> DEFINE slot == Merged(SlotOf(book[r]), tx[p].slot, tx[p].patch)
  <2>3. tx[p].row = r /\ Put(book[r], slot).status \in LiveStatuses
    BY <1>2, <1>3, <1>5, <2>2 DEF EditWrite
  <2>4. slot \in SlotType
    BY <2>2, PresentTyped, MergedTyped
  <2> QED BY <1>1, <2>3, <2>4, PutTyped
<1>6. ASSUME NEW p \in Procs, RevertWrite(p)
      PROVE  placedBy'[r] \in {"revert", "revert_return"}
  <2>1. Informed(p) /\ HoldsRow(p) /\ tx[p].route = "revert" /\ tx[p].pc = "write"
    BY <1>6 DEF IInv, RequestsInformed, RowLocked, RevertWrite, At
  <2>2. tx[p].row \in Rows
    BY <2>1 DEF Informed
  <2>3. /\ tx[p].row = r
        /\ placedBy'[r] = IF Occupies(Reverted(book[r])) THEN RevertTag(r) ELSE "none"
    BY <1>3, <1>6, <2>2 DEF RevertWrite
  <2>4. Present(r) /\ Revertible(book[r])
    BY <2>1, <2>3 DEF HoldsRow
  <2>5. Occupies(Reverted(book[r]))
    <3>1. Reverted(book[r]).kind = book[r].kind
      BY <1>1, RevertedTyped DEF SlotOf
    <3>2. Reverted(book[r]).deleted = book[r].deleted
      BY <1>1 DEF Reverted, BookRows
    <3>3. Reverted(book[r]).status \in LiveStatuses
      BY <1>1, RevertedTyped
    <3> QED BY <2>4, <3>1, <3>2, <3>3 DEF Occupies, IsLive, Present, Revertible
  <2> QED BY <2>3, <2>5 DEF RevertTag
<1>7. ASSUME NEW p \in Procs, RestoreWrite(p)
      PROVE  FALSE
  <2>1. Informed(p) /\ tx[p].route = "restore"
    BY <1>7 DEF IInv, RequestsInformed, RestoreWrite, At
  <2>2. tx[p].row \in Rows
    BY <2>1 DEF Informed
  <2> QED BY <1>1, <1>3, <1>7, <2>2 DEF RestoreWrite, BookRows
<1>8. ASSUME NEW p \in Procs, StatusWrite(p)
      PROVE  FALSE
  BY <1>8 DEF StatusWrite, At, CameThroughOpenRoute
<1>9. ASSUME NEW p \in Procs, PickupWrite(p) \/ ReturnWrite(p)
      PROVE  FALSE
  <2>1. tx[p].route \in {"pickup", "return"} /\ Informed(p)
    BY <1>9 DEF IInv, RequestsInformed, PickupWrite, ReturnWrite, At
  <2>2. tx[p].row \in Rows
    BY <2>1 DEF Informed
  <2> QED BY <1>2, <1>3, <1>9, <2>2 DEF PickupWrite, ReturnWrite, Advance
<1>10. ASSUME NEW s \in Rows, SoftDelete(s)
       PROVE  FALSE
  BY <1>1, <1>3, <1>10 DEF SoftDelete, BookRows
<1>11. ASSUME NEW s \in Rows, NEW slot \in Slots, NEW status, AddBlock(s, slot, status)
       PROVE  FALSE
  BY <1>3, <1>11 DEF AddBlock
<1>12. ASSUME NEW p \in Procs, Start(p)
       PROVE  FALSE
  BY <1>2, <1>12, StartStep
<1> QED BY <1>2, <1>4, <1>5, <1>6, <1>7, <1>8, <1>9, <1>10, <1>11, <1>12
        DEF Next, Step, Crash, TakeLock, CheckPasses, CheckRefuses, TakeRow, RefuseRevert,
            vars, Unchanged

(* With the status route set aside, a closed rental comes back to life     *)
(* through the revert route only: the conditional UPDATEs of the pickup    *)
(* and the return (BUG-174) cannot reopen what was closed in between.      *)
THEOREM ClosedStaysClosed ==
    ASSUME "status" \notin Routes
    PROVE  Spec => ReopenedOnlyByRevert
<1>1. Init => CameThroughOpenRoute
  BY DEF Init, Idle, CameThroughOpenRoute
<1>2. IInv /\ CameThroughOpenRoute /\ [Next]_vars => CameThroughOpenRoute'
  BY OpenRoutesStep
<1>3. IInv /\ CameThroughOpenRoute /\ [Next]_vars =>
         [\A r \in Rows :
             book[r].status \in ClosedStatuses /\ book'[r].status \in LiveStatuses
                => placedBy'[r] \in {"revert", "revert_return"}]_vars
  BY ReopeningStep
<1> QED BY <1>1, <1>2, <1>3, Invariance, PTL DEF Spec, ReopenedOnlyByRevert

-----------------------------------------------------------------------------
(* The dates of what is placed.                                            *)

(* What a create or an edit has been judged on has its dates in order, and *)
(* so has every row that stands where such a request has put it.           *)
JudgedInOrder ==
    \A p \in Procs : tx[p].route \in {"create", "edit"} => WellFormed(tx[p].slot)

PlacedInOrder ==
    \A r \in Rows : placedBy[r] \in {"create", "edit"} => WellFormed(book[r])

(* The dates of a row are those of its slot.                               *)
LEMMA DatesOfSlot ==
    ASSUME NEW row, NEW slot, SlotOf(row) = slot
    PROVE  WellFormed(row) <=> WellFormed(slot)
<1>1. SlotOf(row).start = row.start /\ SlotOf(row).end = row.end
  BY DEF SlotOf
<1> QED BY <1>1 DEF WellFormed

(* Every step leaves the requests that are judged with dates in order.     *)
LEMMA JudgedInOrderStep ==
    ASSUME IInv, JudgedInOrder, [Next]_vars
    PROVE  JudgedInOrder'
<1> SUFFICES ASSUME NEW q \in Procs, tx'[q].route \in {"create", "edit"}
             PROVE  WellFormed(tx'[q].slot)
  BY DEF JudgedInOrder
<1>1. tx \in [Procs -> RequestType]
  BY DEF IInv, TypeOK
<1>2. CASE tx'[q] = tx[q]
  BY <1>2 DEF JudgedInOrder
<1>3. ASSUME NEW p \in Procs, Finish(p)
      PROVE  WellFormed(tx'[q].slot)
  BY <1>1, <1>2, <1>3 DEF Finish, Idle
<1>4. ASSUME NEW p \in Procs, TakeLock(p)
      PROVE  WellFormed(tx'[q].slot)
  BY <1>1, <1>4 DEF TakeLock, RequestType, JudgedInOrder
<1>5. ASSUME NEW p \in Procs, NEW vehicle, CheckPasses(p, vehicle)
      PROVE  WellFormed(tx'[q].slot)
  BY <1>1, <1>5 DEF CheckPasses, RequestType, JudgedInOrder
<1>6. ASSUME NEW p \in Procs, TakeRow(p)
      PROVE  WellFormed(tx'[q].slot)
  <2>1. tx[p].pc = "row" /\ Informed(p)
    BY <1>6 DEF TakeRow, IInv, RequestsInformed
  <2>2. tx[p].route = "revert"
    BY <2>1 DEF Informed, Idle
  <2>3. \A s \in Procs \ {p} : tx'[s] = tx[s]
    BY <1>1, <1>6 DEF TakeRow
  <2>4. tx'[p].route = "revert"
    BY <1>1, <1>6, <2>2 DEF TakeRow, RequestType
  <2> QED BY <1>2, <2>3, <2>4
<1>7. ASSUME NEW p \in Procs, NEW slot \in Slots, BeginCreate(p, slot)
      PROVE  WellFormed(tx'[q].slot)
  <2>1. WellFormed(slot)
    BY AskedAssumption DEF Slots, Periods, WellFormed
  <2> QED BY <1>1, <1>2, <1>7, <2>1 DEF BeginCreate, Begin, Request
<1>8. ASSUME NEW p \in Procs, NEW r \in Rows, NEW new \in Slots, NEW patch \in Patches,
             BeginEdit(p, r, new, patch)
      PROVE  WellFormed(tx'[q].slot)
  <2> DEFINE slot == Merged(SlotOf(book[r]), new, patch)
  <2>1. WellFormed(slot)
    BY <1>8 DEF BeginEdit, DatesAccepted
  <2>2. tx'[p].slot = slot /\ \A s \in Procs \ {p} : tx'[s] = tx[s]
    BY <1>1, <1>8 DEF BeginEdit, Begin, Request
  <2> QED BY <1>2, <2>1, <2>2
<1>9. ASSUME NEW p \in Procs, NEW r \in Rows, NEW route \in {"status", "pickup", "return"},
             NEW patch, NEW slot, NEW to, ReadThenWrite(p, r, route, patch, slot, to)
      PROVE  WellFormed(tx'[q].slot)
  BY <1>1, <1>2, <1>9 DEF ReadThenWrite, Begin, Request
<1>10. ASSUME NEW p \in Procs, NEW r \in Rows, BeginRevert(p, r) \/ BeginRestore(p, r)
       PROVE  WellFormed(tx'[q].slot)
  BY <1>1, <1>2, <1>10 DEF BeginRevert, BeginRestore, Begin, Request
<1>11. ASSUME NEW p \in Procs, Start(p)
       PROVE  WellFormed(tx'[q].slot)
  BY <1>7, <1>8, <1>9, <1>10, <1>11
     DEF Start, BeginStatus, BeginPickup, BeginReturn, HandOut
<1>12. CASE tx' = tx
  BY <1>2, <1>12
<1> QED BY <1>3, <1>4, <1>5, <1>6, <1>11, <1>12
        DEF Next, vars, Step, Crash, CheckRefuses, RefuseRevert, CreateWrite, EditWrite,
            RevertWrite, RestoreWrite, StatusWrite, PickupWrite, ReturnWrite, Advance,
            SoftDelete, AddBlock

(* A row that is stored keeps the dates in order.                          *)
LEMMA StoreInOrder ==
    ASSUME IInv, PlacedInOrder, NEW r \in Rows, NEW row, NEW tag, Store(r, row, tag),
           tag \in {"create", "edit"} => WellFormed(row)
    PROVE  PlacedInOrder'
BY DEF IInv, TypeOK, PlacedInOrder, Store

(* A row that stays where it is keeps its dates, whoever put it there.     *)
LEMMA StayInOrder ==
    ASSUME IInv, PlacedInOrder, NEW r \in Rows, NEW row, Store(r, row, placedBy[r]),
           SlotOf(row) = SlotOf(book[r])
    PROVE  PlacedInOrder'
<1>1. placedBy[r] \in {"create", "edit"} => WellFormed(row)
  BY DatesOfSlot DEF PlacedInOrder
<1> QED BY <1>1, StoreInOrder

(* A write that is neither a create nor an edit moves no row it does not   *)
(* mark as moved by somebody else.                                         *)
LEMMA AdvanceInOrder ==
    ASSUME IInv, PlacedInOrder, NEW p \in Procs, NEW applies \in BOOLEAN, NEW data \in SUBSET Data,
           tx[p].route \in {"status", "pickup", "return"},
           applies => book[tx[p].row].status # "absent",
           Advance(p, applies, data)
    PROVE  PlacedInOrder'
<1> DEFINE r == tx[p].row
           row == Advanced(p, book[r], data)
           tag == AdvanceTag(p, r)
<1>1. Informed(p)
  BY DEF IInv, RequestsInformed
<1>2. r \in Rows
  BY <1>1 DEF Informed
<1>3. CASE ~applies
  BY <1>3 DEF Advance, Unchanged, PlacedInOrder
<1>4. CASE applies /\ tag \in {"early_start", "stale_status"}
  <2>1. Store(r, row, tag)
    BY <1>4 DEF Advance
  <2> HIDE DEF row, tag, r
  <2> QED BY <1>2, <1>4, <2>1, StoreInOrder
<1>5. CASE applies /\ tag \notin {"early_start", "stale_status"}
  <2>1. tx[p].patch = {} /\ tag = placedBy[r]
    BY <1>5 DEF AdvanceTag
  <2>2. Store(r, row, placedBy[r])
    BY <1>5, <2>1 DEF Advance
  <2>3. book[r] \in BookRows /\ SlotOf(book[r]) \in SlotType
    BY <1>2, <1>5, PresentTyped
  <2>4. row = [Put(book[r], SlotOf(book[r])) EXCEPT !.status = tx[p].to, !.data = @ \cup data]
    BY <2>1, <2>3, MergedEmpty DEF Advanced
  <2>5. row = [book[r] EXCEPT !.status = tx[p].to, !.data = @ \cup data]
    BY <2>3, <2>4, PutSame
  <2> HIDE DEF row
  <2>6. SlotOf(row) = SlotOf(book[r])
    BY <2>3, <2>5 DEF SlotOf, BookRows
  <2> HIDE DEF r
  <2> QED BY <1>2, <2>2, <2>6, StayInOrder
<1> QED BY <1>3, <1>4, <1>5

(* The edit that lands where it was judged has its dates in order.         *)
LEMMA EditInOrder ==
    ASSUME IInv, JudgedInOrder, PlacedInOrder, NEW p \in Procs, EditWrite(p)
    PROVE  PlacedInOrder'
<1> DEFINE r == tx[p].row
           slot == Merged(SlotOf(book[r]), tx[p].slot, tx[p].patch)
           row == Put(book[r], slot)
           tag == EditTag(slot, tx[p])
<1>1. Informed(p) /\ tx[p].route = "edit" /\ tx[p].pc = "write"
  BY DEF IInv, RequestsInformed, EditWrite, At
<1>2. r \in Rows /\ tx[p].slot \in SlotType /\ WellFormed(tx[p].slot)
  BY <1>1 DEF Informed, JudgedInOrder
<1>3. CASE ~Present(r)
  BY <1>3 DEF EditWrite, Unchanged, PlacedInOrder
<1>4. CASE Present(r)
  <2>1. Store(r, row, tag)
    BY <1>4 DEF EditWrite
  <2>2. book[r] \in BookRows /\ SlotOf(book[r]) \in SlotType
    BY <1>2, <1>4, PresentTyped DEF Present
  <2>3. slot \in SlotType
    BY <1>2, <2>2, MergedTyped
  <2>4. tag \in {"create", "edit"} => slot = tx[p].slot
    BY DEF EditTag
  <2> HIDE DEF slot, tag
  <2>5. SlotOf(row) = slot
    BY <2>2, <2>3, PutTyped
  <2> HIDE DEF row
  <2>6. tag \in {"create", "edit"} => WellFormed(row)
    BY <1>2, <2>4, <2>5, DatesOfSlot
  <2> HIDE DEF r
  <2> QED BY <1>2, <2>1, <2>6, StoreInOrder
<1> QED BY <1>3, <1>4

LEMMA PlacedInOrderStep ==
    ASSUME IInv, JudgedInOrder, PlacedInOrder, [Next]_vars
    PROVE  PlacedInOrder'
<1>1. CASE Unchanged
  BY <1>1 DEF Unchanged, PlacedInOrder
<1>2. ASSUME NEW p \in Procs, CreateWrite(p)
      PROVE  PlacedInOrder'
  <2> DEFINE row == [Put(Absent, tx[p].slot) EXCEPT !.status = "booked"]
  <2>1. PICK r \in Rows : Store(r, row, "create")
    BY <1>2 DEF CreateWrite
  <2>2. Informed(p) /\ tx[p].route = "create"
    BY <1>2 DEF IInv, RequestsInformed, CreateWrite, At
  <2>3. tx[p].slot \in SlotType /\ WellFormed(tx[p].slot)
    BY <2>2 DEF Informed, JudgedInOrder
  <2>4. /\ Put(Absent, tx[p].slot) \in BookRows
        /\ SlotOf(Put(Absent, tx[p].slot)) = tx[p].slot
    BY <2>3, AbsentTyped, PutTyped
  <2>5. SlotOf(row) = tx[p].slot
    BY <2>4 DEF SlotOf, BookRows
  <2> HIDE DEF row
  <2>6. WellFormed(row)
    BY <2>3, <2>5, DatesOfSlot
  <2> QED BY <2>1, <2>6, StoreInOrder
<1>3. ASSUME NEW p \in Procs, EditWrite(p)
      PROVE  PlacedInOrder'
  BY <1>3, EditInOrder
<1>4. ASSUME NEW p \in Procs, RevertWrite(p)
      PROVE  PlacedInOrder'
  <2> DEFINE r == tx[p].row  row == Reverted(book[r])  tag == RevertTag(r)
  <2>1. Informed(p) /\ tx[p].route = "revert" /\ Store(r, row, tag)
    BY <1>4 DEF IInv, RequestsInformed, RevertWrite, At
  <2>2. r \in Rows
    BY <2>1 DEF Informed
  <2>3. SlotOf(row) = SlotOf(book[r])
    BY <2>2, RevertedTyped DEF IInv, TypeOK
  <2>4. tag \in {"revert", "revert_return", placedBy[r]}
    BY DEF RevertTag
  <2> HIDE DEF r, row, tag
  <2> QED BY <2>1, <2>2, <2>3, <2>4, StoreInOrder, StayInOrder
<1>5. ASSUME NEW p \in Procs, RestoreWrite(p)
      PROVE  PlacedInOrder'
  <2> DEFINE r == tx[p].row  row == [book[r] EXCEPT !.deleted = FALSE]
  <2>1. Informed(p) /\ tx[p].route = "restore" /\ Store(r, row, "restore")
    BY <1>5 DEF IInv, RequestsInformed, RestoreWrite, At
  <2>2. r \in Rows
    BY <2>1 DEF Informed
  <2> HIDE DEF r, row
  <2> QED BY <2>1, <2>2, StoreInOrder
<1>6. ASSUME NEW p \in Procs, StatusWrite(p) \/ PickupWrite(p) \/ ReturnWrite(p)
      PROVE  PlacedInOrder'
  <2>1. tx[p].route \in {"status", "pickup", "return"}
    BY <1>6 DEF StatusWrite, PickupWrite, ReturnWrite, At
  <2>2. CASE StatusWrite(p)
    <3>1. PICK data \in SUBSET Data : Advance(p, Present(tx[p].row), data)
      BY <2>2 DEF StatusWrite, Data
    <3>2. Present(tx[p].row) \in BOOLEAN
          /\ (Present(tx[p].row) => book[tx[p].row].status # "absent")
      BY DEF Present
    <3> QED BY <2>1, <3>1, <3>2, AdvanceInOrder
  <2>3. CASE PickupWrite(p)
    BY <2>1, <2>3, AdvanceInOrder DEF PickupWrite, Data
  <2>4. CASE ReturnWrite(p)
    BY <2>1, <2>4, AdvanceInOrder DEF ReturnWrite, Data
  <2> QED BY <1>6, <2>2, <2>3, <2>4
<1>7. ASSUME NEW r \in Rows, SoftDelete(r)
      PROVE  PlacedInOrder'
  BY <1>7, StoreInOrder DEF SoftDelete
<1>8. ASSUME NEW r \in Rows, NEW slot, NEW status, AddBlock(r, slot, status)
      PROVE  PlacedInOrder'
  BY <1>8, StoreInOrder DEF AddBlock
<1>9. ASSUME NEW p \in Procs, Start(p)
      PROVE  Unchanged
  BY <1>9, StartStep
<1> QED BY <1>1, <1>2, <1>3, <1>4, <1>5, <1>6, <1>7, <1>8, <1>9
        DEF Next, Step, Crash, TakeLock, CheckPasses, CheckRefuses, TakeRow, RefuseRevert,
            vars, Unchanged

(* Whatever routes are open: a rental that stands where a create or a      *)
(* judged edit has put it has its dates in order.                          *)
THEOREM JudgedRentalsInOrder == Spec => []PlacedInOrder
<1>1. Init => JudgedInOrder /\ PlacedInOrder
  BY DEF Init, Idle, JudgedInOrder, PlacedInOrder
<1>2. IInv /\ JudgedInOrder /\ PlacedInOrder /\ [Next]_vars => JudgedInOrder' /\ PlacedInOrder'
  BY JudgedInOrderStep, PlacedInOrderStep
<1> QED BY <1>1, <1>2, Invariance, PTL DEF Spec

(* Where rentals are only placed, moved and deleted, and no edit turns one *)
(* into a block or back.                                                   *)
Plain == {"create", "block", "edit", "delete"}

EditsKeepKinds ==
    /\ \A p \in Procs : tx[p].route = "edit" =>
          /\ "kind" \notin tx[p].patch
          /\ book[tx[p].row].status # "absent"
          /\ tx[p].asBlock => book[tx[p].row].kind = "block"
    /\ \A r \in Rows : placedBy[r] \in {"none", "create", "edit", "stale_edit"}

(* Nothing is written there but by a create, an edit or a delete.          *)
LEMMA PlainWriters ==
    ASSUME Routes \subseteq Plain, IInv, CameThroughOpenRoute, [Next]_vars
    PROVE  \/ Unchanged
           \/ \E p \in Procs : CreateWrite(p) \/ EditWrite(p)
           \/ \E r \in Rows : \/ SoftDelete(r)
                              \/ \E slot \in Slots, status \in Entered : AddBlock(r, slot, status)
<1>1. \A p \in Procs : tx[p].route \in {"none", "create", "block", "edit", "delete"}
  BY DEF CameThroughOpenRoute, Plain
<1>2. \A p \in Procs : Start(p) => Unchanged
  BY StartStep
<1> QED BY <1>1, <1>2
        DEF Next, Step, Crash, TakeLock, CheckPasses, CheckRefuses, TakeRow, RefuseRevert,
            RevertWrite, RestoreWrite, StatusWrite, PickupWrite, ReturnWrite, At,
            vars, Unchanged

(* What such a write does to a row that was given out.                     *)
LEMMA KindsStay ==
    ASSUME Routes \subseteq Plain, IInv, CameThroughOpenRoute, EditsKeepKinds, [Next]_vars,
           NEW r \in Rows
    PROVE  /\ book[r].status # "absent" =>
                 book'[r].status # "absent" /\ book'[r].kind = book[r].kind
           /\ placedBy'[r] \in {"none", "create", "edit", "stale_edit"}
<1>1. /\ book \in [Rows -> BookRows]
      /\ placedBy \in [Rows -> Guarded \cup Unguarded \cup {"none"}]
      /\ placedBy[r] \in {"none", "create", "edit", "stale_edit"}
  BY DEF IInv, TypeOK, EditsKeepKinds
<1>2. \A s \in Rows : \A row, tag : Store(s, row, tag) =>
         /\ s = r => book'[r] = row /\ placedBy'[r] \in {tag, "none"}
         /\ s # r => book'[r] = book[r] /\ placedBy'[r] = placedBy[r]
  BY <1>1 DEF Store
<1>3. ASSUME NEW p \in Procs, CreateWrite(p)
      PROVE  /\ book[r].status # "absent" => book'[r] = book[r]
             /\ placedBy'[r] \in {"none", "create", "edit", "stale_edit"}
  BY <1>1, <1>2, <1>3 DEF CreateWrite
<1>4. ASSUME NEW p \in Procs, EditWrite(p), ~Unchanged
      PROVE  /\ book[r].status # "absent" =>
                   book'[r].status # "absent" /\ book'[r].kind = book[r].kind
             /\ placedBy'[r] \in {"none", "create", "edit", "stale_edit"}
  <2> DEFINE s == tx[p].row
             slot == Merged(SlotOf(book[s]), tx[p].slot, tx[p].patch)
             row == Put(book[s], slot)
             tag == EditTag(slot, tx[p])
  <2>1. Informed(p) /\ tx[p].route = "edit" /\ Store(s, row, tag) /\ Present(s)
    BY <1>4 DEF IInv, RequestsInformed, EditWrite, At
  <2>2. /\ s \in Rows /\ tx[p].slot \in SlotType /\ "kind" \notin tx[p].patch
        /\ tx[p].asBlock => book[s].kind = "block"
    BY <2>1 DEF Informed, EditsKeepKinds
  <2>3. book[s] \in BookRows /\ SlotOf(book[s]) \in SlotType
    BY <2>1, <2>2, PresentTyped DEF Present
  <2>4. slot.kind = book[s].kind
    BY <2>2 DEF Merged, Pick, SlotOf
  <2>5. tag \in {"edit", "stale_edit"}
    BY <2>2, <2>4 DEF EditTag
  <2>6. slot \in SlotType
    BY <2>2, <2>3, MergedTyped
  <2> HIDE DEF slot, tag
  <2>7. row.status = book[s].status /\ row.kind = book[s].kind
    BY <2>3, <2>4, <2>6, PutTyped
  <2> HIDE DEF row, s
  <2> QED BY <1>1, <1>2, <2>1, <2>2, <2>5, <2>7
<1>5. ASSUME NEW s \in Rows, SoftDelete(s)
      PROVE  /\ book'[r].status = book[r].status /\ book'[r].kind = book[r].kind
             /\ placedBy'[r] \in {"none", "create", "edit", "stale_edit"}
  BY <1>1, <1>2, <1>5 DEF SoftDelete, BookRows
<1>6. ASSUME NEW s \in Rows, NEW slot, NEW status, AddBlock(s, slot, status)
      PROVE  /\ book[r].status # "absent" => book'[r] = book[r]
             /\ placedBy'[r] \in {"none", "create", "edit", "stale_edit"}
  BY <1>1, <1>2, <1>6 DEF AddBlock
<1> QED BY <1>1, <1>3, <1>4, <1>5, <1>6, PlainWriters DEF Unchanged

LEMMA EditsKeepKindsStep ==
    ASSUME Routes \subseteq Plain, \A patch \in Patches : "kind" \notin patch,
           IInv, CameThroughOpenRoute, EditsKeepKinds, [Next]_vars
    PROVE  EditsKeepKinds'
<1> SUFFICES ASSUME NEW q \in Procs, tx'[q].route = "edit"
             PROVE  /\ "kind" \notin tx'[q].patch
                    /\ book'[tx'[q].row].status # "absent"
                    /\ tx'[q].asBlock => book'[tx'[q].row].kind = "block"
  BY KindsStay DEF EditsKeepKinds
<1> DEFINE Same == /\ tx'[q].route = tx[q].route /\ tx'[q].patch = tx[q].patch
                   /\ tx'[q].row = tx[q].row /\ tx'[q].asBlock = tx[q].asBlock
           Begun == \E r \in Rows, new \in Slots, patch \in Patches : BeginEdit(q, r, new, patch)
<1>1. tx \in [Procs -> RequestType]
  BY DEF IInv, TypeOK
<1>2. CASE Same
  <2>1. tx[q].row \in Rows
    BY <1>2 DEF IInv, RequestsInformed, Informed
  <2> QED BY <1>2, <2>1, KindsStay DEF EditsKeepKinds
<1>3. CASE Begun
  <2>1. PICK r \in Rows, new \in Slots, patch \in Patches : BeginEdit(q, r, new, patch)
    BY <1>3
  <2>2. /\ tx'[q].patch = patch /\ tx'[q].row = r
        /\ tx'[q].asBlock = ("block" \in {Merged(SlotOf(book[r]), new, patch).kind, book[r].kind})
        /\ Present(r) /\ book' = book
    BY <1>1, <2>1 DEF BeginEdit, Begin, Request, Unchanged
  <2>3. Merged(SlotOf(book[r]), new, patch).kind = book[r].kind
    BY DEF Merged, Pick, SlotOf
  <2> QED BY <2>2, <2>3 DEF Present
<1>4. ASSUME NEW p \in Procs, Finish(p)
      PROVE  Same
  BY <1>1, <1>4 DEF Finish, Idle
<1>5. ASSUME NEW p \in Procs, TakeLock(p)
      PROVE  Same
  BY <1>1, <1>5 DEF TakeLock, RequestType
<1>6. ASSUME NEW p \in Procs, TakeRow(p)
      PROVE  Same
  BY <1>1, <1>6 DEF TakeRow, RequestType
<1>7. ASSUME NEW p \in Procs, NEW vehicle, CheckPasses(p, vehicle)
      PROVE  Same
  BY <1>1, <1>7 DEF CheckPasses, RequestType
<1>8. ASSUME NEW p \in Procs, Start(p)
      PROVE  Same \/ Begun
  <2>1. CASE p # q
    <3>1. \A request : Begin(p, request) => tx'[q] = tx[q]
      BY <1>1, <2>1 DEF Begin
    <3>2. tx'[q] = tx[q]
      BY <1>8, <3>1 DEF Start, BeginCreate, BeginEdit, BeginRevert, BeginStatus,
         BeginPickup, BeginReturn, BeginRestore, HandOut, ReadThenWrite
    <3> QED BY <3>2
  <2>2. CASE p = q
    BY <1>1, <1>8, <2>2 DEF Start, BeginCreate, BeginRevert, BeginStatus,
       BeginPickup, BeginReturn, BeginRestore, HandOut, ReadThenWrite, Begin, Request
  <2> QED BY <2>1, <2>2
<1>9. CASE tx' = tx
  BY <1>2, <1>9
<1> HIDE DEF Same, Begun
<1> QED BY <1>2, <1>3, <1>4, <1>5, <1>6, <1>7, <1>8, <1>9
        DEF Next, vars, Step, Crash, CheckRefuses, RefuseRevert, CreateWrite, EditWrite,
            RevertWrite, RestoreWrite, StatusWrite, PickupWrite, ReturnWrite, Advance,
            SoftDelete, AddBlock

(* The dates of a live rental, but for what an edit on a stale row left.   *)
DatesInOrder ==
    \A r \in Rows :
        Occupies(book[r]) => WellFormed(SlotOf(book[r])) \/ placedBy[r] = "stale_edit"

(* Where rentals are only created, moved and deleted, the dates of a live  *)
(* one are in order unless two edits crossed: each was judged in order on  *)
(* its own, and each brought one of the two dates (BUG-111).               *)
THEOREM EditsKeepDatesInOrder ==
    ASSUME Routes \subseteq {"create", "block", "edit", "delete"},
           \A patch \in Patches : "kind" \notin patch
    PROVE  Spec => []DatesInOrder
<1>1. Init => CameThroughOpenRoute /\ EditsKeepKinds
  BY DEF Init, Idle, CameThroughOpenRoute, EditsKeepKinds
<1>2. IInv /\ CameThroughOpenRoute /\ EditsKeepKinds /\ [Next]_vars
      => CameThroughOpenRoute' /\ EditsKeepKinds'
  <2>1. Routes \subseteq Plain
    BY DEF Plain
  <2> QED BY <2>1, OpenRoutesStep, EditsKeepKindsStep
<1>3. IInv /\ PlacedInOrder /\ EditsKeepKinds => DatesInOrder
  <2> SUFFICES ASSUME IInv, PlacedInOrder, EditsKeepKinds, NEW r \in Rows, Occupies(book[r]),
                      placedBy[r] # "stale_edit"
               PROVE  WellFormed(SlotOf(book[r]))
    BY DEF DatesInOrder
  <2>1. placedBy[r] # "none"
    BY DEF IInv, PlacedExactlyTheLive, Guarded, Unguarded
  <2>2. WellFormed(book[r])
    BY <2>1 DEF PlacedInOrder, EditsKeepKinds
  <2> QED BY <2>2, DatesOfSlot
<1> QED BY <1>1, <1>2, <1>3, Invariance, JudgedRentalsInOrder, PTL DEF Spec

-----------------------------------------------------------------------------
(* Whoever holds a vehicle is a checked writer that has passed its lock,   *)
(* and whoever holds a row is a revert or a restore that has taken it.     *)
VehicleHolder(p, c) ==
    /\ tx[p].route \in Checked /\ tx[p].pc \in {"row", "check", "write"}
    /\ tx[p].slot.car = c

RowHolder(p, r) ==
    /\ tx[p].route \in {"revert", "restore"} /\ tx[p].pc \in {"check", "write"}
    /\ tx[p].row = r

Holders ==
    /\ \A p \in Procs, c \in Cars : advisory[c] = p => VehicleHolder(p, c)
    /\ \A p \in Procs, r \in Rows : rowLock[r] = p => RowHolder(p, r)

(* A step of one request that gives it no lock it has not earned.          *)
LEMMA HoldersAfter ==
    ASSUME IInv, Holders, NEW p \in Procs,
           \A q \in Procs \ {p} : tx'[q] = tx[q],
           \A q \in Procs \ {p}, c \in Cars : advisory'[c] = q => advisory[c] = q,
           \A q \in Procs \ {p}, r \in Rows : rowLock'[r] = q => rowLock[r] = q,
           \A c \in Cars : advisory'[c] = p => VehicleHolder(p, c)',
           \A r \in Rows : rowLock'[r] = p => RowHolder(p, r)'
    PROVE  Holders'
<1>1. \A q \in Procs \ {p}, c \in Cars : VehicleHolder(q, c) => VehicleHolder(q, c)'
  BY DEF VehicleHolder
<1>2. \A q \in Procs \ {p}, r \in Rows : RowHolder(q, r) => RowHolder(q, r)'
  BY DEF RowHolder
<1> QED BY <1>1, <1>2 DEF Holders

LEMMA HoldersStep ==
    ASSUME IInv, Holders, [Next]_vars
    PROVE  Holders'
<1>1. /\ tx \in [Procs -> RequestType]
      /\ advisory \in [Cars -> Procs \cup {Nobody}]
      /\ rowLock \in [Rows -> Procs \cup {Nobody}]
  BY DEF IInv, TypeOK
(* COMMIT and ROLLBACK leave the request no lock.                          *)
<1>2. ASSUME NEW p \in Procs, Finish(p)
      PROVE  Holders'
  <2>1. \A q \in Procs \ {p} : tx'[q] = tx[q]
    BY <1>1, <1>2 DEF Finish
  <2>2. \A q \in Procs, c \in Cars : advisory'[c] = q => advisory[c] = q /\ q # p
    BY <1>1, <1>2, NobodyAssumption DEF Finish
  <2>3. \A q \in Procs, r \in Rows : rowLock'[r] = q => rowLock[r] = q /\ q # p
    BY <1>1, <1>2, NobodyAssumption DEF Finish
  <2> QED BY <2>1, <2>2, <2>3, HoldersAfter
(* A request that begins holds nothing yet, but for a restore its row.     *)
<1>3. ASSUME NEW p \in Procs, NEW request, Begin(p, request), UNCHANGED advisory,
             \A r \in Rows : rowLock'[r] # rowLock[r] =>
                /\ rowLock'[r] = p
                /\ request.route = "restore" /\ request.pc = "check" /\ request.row = r
      PROVE  Holders'
  <2>1. tx'[p] = request /\ \A q \in Procs \ {p} : tx'[q] = tx[q]
    BY <1>1, <1>3 DEF Begin
  <2>2. tx[p].pc = "idle"
    BY <1>3 DEF Begin
  <2>3. \A c \in Cars : advisory'[c] # p
    BY <1>3, <2>2 DEF Holders, VehicleHolder
  <2>4. \A r \in Rows : rowLock[r] # p
    BY <2>2 DEF Holders, RowHolder
  <2>5. \A r \in Rows : rowLock'[r] = p => RowHolder(p, r)'
    BY <1>3, <2>1, <2>4 DEF RowHolder
  <2> QED BY <1>3, <2>1, <2>3, <2>5, HoldersAfter
<1>4. ASSUME NEW p \in Procs, Start(p)
      PROVE  Holders'
  <2>1. ASSUME NEW request, Begin(p, request), Unlocked
        PROVE  Holders'
    BY <1>3, <2>1 DEF Unlocked
  <2>2. ASSUME NEW r \in Rows, BeginRestore(p, r)
        PROVE  Holders'
    <3> DEFINE request == Request("check", "restore", r, SlotOf(book[r]), {},
                                  book[r].kind = "block", "none")
    <3>1. Begin(p, request) /\ UNCHANGED advisory /\ rowLock' = [rowLock EXCEPT ![r] = p]
      BY <2>2 DEF BeginRestore
    <3>2. request.route = "restore" /\ request.pc = "check" /\ request.row = r
      BY DEF Request
    <3> HIDE DEF request
    <3>3. \A s \in Rows : rowLock'[s] # rowLock[s] => s = r /\ rowLock'[s] = p
      BY <1>1, <3>1
    <3> QED BY <1>3, <3>1, <3>2, <3>3
  <2>3. ASSUME NEW r \in Rows, NEW route, NEW patch, NEW slot, NEW to,
               ReadThenWrite(p, r, route, patch, slot, to)
        PROVE  Holders'
    BY <2>1, <2>3 DEF ReadThenWrite
  <2>4. ASSUME NEW r \in Rows, NEW route, NEW to, NEW today, HandOut(p, r, route, to, today)
        PROVE  Holders'
    BY <2>3, <2>4 DEF HandOut
  <2>5. ASSUME NEW slot, BeginCreate(p, slot)
        PROVE  Holders'
    BY <2>1, <2>5 DEF BeginCreate
  <2>6. ASSUME NEW r \in Rows, NEW new, NEW patch, BeginEdit(p, r, new, patch)
        PROVE  Holders'
    BY <2>1, <2>6 DEF BeginEdit
  <2>7. ASSUME NEW r \in Rows, BeginRevert(p, r)
        PROVE  Holders'
    BY <2>1, <2>7 DEF BeginRevert
  <2>8. ASSUME NEW r \in Rows, BeginReturn(p, r)
        PROVE  Holders'
    BY <2>3, <2>8 DEF BeginReturn
  <2> QED BY <1>4, <2>2, <2>4, <2>5, <2>6, <2>7, <2>8 DEF Start, BeginStatus, BeginPickup
(* The vehicle's lock goes to a checked writer, and the row to a revert.   *)
<1>5. ASSUME NEW p \in Procs, TakeLock(p)
      PROVE  Holders'
  <2>1. Informed(p) /\ tx[p].pc = "lock"
    BY <1>5 DEF TakeLock, IInv, RequestsInformed
  <2>2. tx[p].route \in Checked
    BY <2>1 DEF Informed, Idle, Checked
  <2>3. /\ tx'[p].route = tx[p].route /\ tx'[p].slot = tx[p].slot
        /\ tx'[p].pc \in {"row", "check"} /\ \A q \in Procs \ {p} : tx'[q] = tx[q]
    BY <1>1, <1>5 DEF TakeLock, RequestType
  <2>4. \A c \in Cars : advisory'[c] = IF c = tx[p].slot.car THEN p ELSE advisory[c]
    BY <1>1, <1>5 DEF TakeLock
  <2>5. (\A c \in Cars : advisory[c] # p) /\ (\A r \in Rows : rowLock[r] # p) /\ rowLock' = rowLock
    BY <1>5, <2>1 DEF Holders, VehicleHolder, RowHolder, TakeLock
  <2>6. \A c \in Cars : advisory'[c] = p => VehicleHolder(p, c)'
    BY <2>2, <2>3, <2>4, <2>5 DEF VehicleHolder
  <2> QED BY <2>3, <2>4, <2>5, <2>6, HoldersAfter
<1>6. ASSUME NEW p \in Procs, TakeRow(p)
      PROVE  Holders'
  <2>1. Informed(p) /\ tx[p].pc = "row"
    BY <1>6 DEF TakeRow, IInv, RequestsInformed
  <2>2. tx[p].route = "revert"
    BY <2>1 DEF Informed, Idle
  <2>3. /\ tx'[p].route = "revert" /\ tx'[p].row = tx[p].row
        /\ tx'[p].pc \in {"check", "write"} /\ tx'[p].slot.car = tx[p].slot.car
        /\ \A q \in Procs \ {p} : tx'[q] = tx[q]
    BY <1>1, <1>6, <2>2 DEF TakeRow, RequestType, SlotOf
  <2>4. \A r \in Rows : rowLock'[r] = IF r = tx[p].row THEN p ELSE rowLock[r]
    BY <1>1, <1>6 DEF TakeRow
  <2>5. (\A r \in Rows : rowLock[r] # p) /\ advisory' = advisory
    BY <1>6, <2>1 DEF Holders, RowHolder, TakeRow
  <2>6. \A r \in Rows : rowLock'[r] = p => RowHolder(p, r)'
    BY <2>3, <2>4, <2>5 DEF RowHolder
  <2>7. \A c \in Cars : advisory'[c] = p => VehicleHolder(p, c)'
    BY <2>3, <2>5 DEF Holders, VehicleHolder, Checked
  <2> QED BY <2>3, <2>4, <2>5, <2>6, <2>7, HoldersAfter
<1>7. ASSUME NEW p \in Procs, NEW vehicle, CheckPasses(p, vehicle)
      PROVE  Holders'
  <2>1. /\ tx'[p].route = tx[p].route /\ tx'[p].row = tx[p].row /\ tx'[p].slot = tx[p].slot
        /\ tx[p].pc = "check" /\ tx'[p].pc = "write"
        /\ \A q \in Procs \ {p} : tx'[q] = tx[q]
        /\ advisory' = advisory /\ rowLock' = rowLock
    BY <1>1, <1>7 DEF CheckPasses, RequestType, Unlocked
  <2>2. \A c \in Cars : VehicleHolder(p, c) => VehicleHolder(p, c)'
    BY <2>1 DEF VehicleHolder
  <2>3. \A r \in Rows : RowHolder(p, r) => RowHolder(p, r)'
    BY <2>1 DEF RowHolder
  <2> QED BY <2>1, <2>2, <2>3, HoldersAfter DEF Holders
<1>8. CASE UNCHANGED <<tx, advisory, rowLock>>
  BY <1>8 DEF Holders, VehicleHolder, RowHolder
<1> QED BY <1>2, <1>4, <1>5, <1>6, <1>7, <1>8
        DEF Next, vars, Step, Crash, CheckRefuses, RefuseRevert, CreateWrite, EditWrite,
            RevertWrite, RestoreWrite, StatusWrite, PickupWrite, ReturnWrite, Advance,
            SoftDelete, AddBlock, Unlocked

(* No circle of requests that wait for one another, however many there     *)
(* are: who waits for a vehicle waits for a checked writer, who at most    *)
(* waits for a row, and who holds a row waits for nobody.                  *)
THEOREM WaitingEnds == Spec => []ChainsOfWaitingEnd
<1>1. Init => Holders
  BY NobodyAssumption DEF Init, Holders
<1>2. IInv /\ Holders /\ [Next]_vars => Holders'
  BY HoldersStep
<1>3. IInv /\ Holders => ChainsOfWaitingEnd
  <2> SUFFICES ASSUME IInv, Holders, NEW p \in Procs, NEW q \in Procs, NEW r \in Procs,
                      NEW s \in Procs, WaitsFor(p, q), WaitsFor(q, r), WaitsFor(r, s)
               PROVE  FALSE
    BY DEF ChainsOfWaitingEnd
  <2>1. \A x \in Procs : Informed(x)
    BY DEF IInv, RequestsInformed
  <2>2. ASSUME NEW x \in Procs, NEW y \in Procs, WaitsFor(x, y)
        PROVE  \/ tx[x].pc = "lock" /\ tx[y].pc \in {"row", "check", "write"}
               \/ tx[x].pc # "lock" /\ RowHolder(y, tx[x].row)
    <3>1. tx[x].pc = "lock" => tx[x].slot.car \in Cars
      BY <2>1 DEF Informed, Idle, SlotType
    <3>2. tx[x].pc # "lock" => tx[x].row \in Rows
      BY <2>1, <2>2 DEF Informed, WaitsFor, Idle
    <3> QED BY <2>2, <3>1, <3>2 DEF Holders, VehicleHolder, WaitsFor
  <2>3. \A x \in Procs : \A row : RowHolder(x, row) => ~WaitsFor(x, s) /\ ~WaitsFor(x, r)
    BY DEF RowHolder, WaitsFor
  <2> QED BY <2>2, <2>3
<1> QED BY <1>1, <1>2, <1>3, Invariance, PTL DEF Spec

-----------------------------------------------------------------------------
(* A handover changes at most the day a rental starts.                     *)
StartsOnly ==
    \A p \in Procs :
        /\ tx[p].route \in {"pickup", "status"} => tx[p].patch \in {{}, {"startDate"}}
        /\ tx[p].route = "return" => tx[p].patch = {}

LEMMA StartsOnlyStep ==
    ASSUME IInv, StartsOnly, [Next]_vars
    PROVE  StartsOnly'
<1> SUFFICES ASSUME NEW q \in Procs
             PROVE  /\ tx'[q].route \in {"pickup", "status"} => tx'[q].patch \in {{}, {"startDate"}}
                    /\ tx'[q].route = "return" => tx'[q].patch = {}
  BY DEF StartsOnly
<1> DEFINE Good == /\ tx'[q].route \in {"pickup", "status"} => tx'[q].patch \in {{}, {"startDate"}}
                   /\ tx'[q].route = "return" => tx'[q].patch = {}
<1>1. tx \in [Procs -> RequestType]
  BY DEF IInv, TypeOK
<1>2. CASE tx'[q].route = tx[q].route /\ tx'[q].patch = tx[q].patch
  BY <1>2 DEF StartsOnly
<1>3. ASSUME NEW p \in Procs, Finish(p)
      PROVE  Good
  BY <1>1, <1>2, <1>3 DEF Finish, Idle
<1>4. ASSUME NEW p \in Procs, TakeLock(p) \/ TakeRow(p)
      PROVE  Good
  BY <1>1, <1>2, <1>4 DEF TakeLock, TakeRow, RequestType
<1>5. ASSUME NEW p \in Procs, NEW vehicle, CheckPasses(p, vehicle)
      PROVE  Good
  BY <1>1, <1>2, <1>5 DEF CheckPasses, RequestType
<1>6. ASSUME NEW p \in Procs, Start(p)
      PROVE  Good
  <2>1. ASSUME NEW request, Begin(p, request),
               /\ request.route \in {"pickup", "status"} => request.patch \in {{}, {"startDate"}}
               /\ request.route = "return" => request.patch = {}
        PROVE  Good
    BY <1>1, <1>2, <2>1 DEF Begin
  <2>2. ASSUME NEW r, NEW route, NEW patch \in {{}, {"startDate"}}, NEW slot, NEW to,
               route = "return" => patch = {},
               ReadThenWrite(p, r, route, patch, slot, to)
        PROVE  Good
    BY <2>1, <2>2 DEF ReadThenWrite, Request
  <2>3. ASSUME NEW r, NEW route \in {"pickup", "status"}, NEW to, NEW today,
               HandOut(p, r, route, to, today)
        PROVE  Good
    BY <2>2, <2>3 DEF HandOut
  <2>4. ASSUME NEW r, BeginReturn(p, r)
        PROVE  Good
    BY <2>2, <2>4 DEF BeginReturn
  <2>5. ASSUME NEW slot, BeginCreate(p, slot)
        PROVE  Good
    BY <2>1, <2>5 DEF BeginCreate, Request
  <2>6. ASSUME NEW r, NEW new, NEW patch, BeginEdit(p, r, new, patch)
        PROVE  Good
    <3> DEFINE slot == Merged(SlotOf(book[r]), new, patch)
               asBlock == "block" \in {slot.kind, book[r].kind}
    <3>1. Begin(p, Request("lock", "edit", r, slot, patch, asBlock, "none"))
      BY <2>6 DEF BeginEdit
    <3> HIDE DEF slot, asBlock
    <3> QED BY <2>1, <3>1 DEF Request
  <2>7. ASSUME NEW r, BeginRevert(p, r) \/ BeginRestore(p, r)
        PROVE  Good
    BY <2>1, <2>7 DEF BeginRevert, BeginRestore, Request
  <2> HIDE DEF Good
  <2> QED BY <1>6, <2>3, <2>4, <2>5, <2>6, <2>7 DEF Start, BeginStatus, BeginPickup
<1>7. CASE tx' = tx
  BY <1>2, <1>7
<1> QED BY <1>3, <1>4, <1>5, <1>6, <1>7
        DEF Next, vars, Step, Crash, CheckRefuses, RefuseRevert, CreateWrite, EditWrite,
            RevertWrite, RestoreWrite, StatusWrite, PickupWrite, ReturnWrite, Advance,
            SoftDelete, AddBlock

(* What a store does to the dates of each row.                             *)
LEMMA StoredDates ==
    ASSUME IInv, NEW s \in Rows, NEW row, NEW tag, Store(s, row, tag), NEW r \in Rows,
           WellFormed(book[r]), ~WellFormed(book'[r])
    PROVE  r = s /\ ~WellFormed(row)
BY DEF IInv, TypeOK, Store

(* An edit breaks the order only where it leaves what it was not judged on. *)
LEMMA EditBreaks ==
    ASSUME IInv, JudgedInOrder, NEW p \in Procs, EditWrite(p), NEW r \in Rows,
           WellFormed(book[r]), ~WellFormed(book'[r])
    PROVE  StaleWrite(p, r)
<1> DEFINE s == tx[p].row
           slot == Merged(SlotOf(book[s]), tx[p].slot, tx[p].patch)
           row == Put(book[s], slot)
           tag == EditTag(slot, tx[p])
<1>1. Informed(p) /\ tx[p].route = "edit" /\ tx[p].pc = "write"
  BY DEF IInv, RequestsInformed, EditWrite, At
<1>2. s \in Rows /\ tx[p].slot \in SlotType /\ WellFormed(tx[p].slot)
  BY <1>1 DEF Informed, JudgedInOrder
<1>3. Present(s) /\ Store(s, row, tag)
  BY DEF EditWrite, Unchanged
<1>4. book[s] \in BookRows /\ SlotOf(book[s]) \in SlotType
  BY <1>2, <1>3, PresentTyped DEF Present
<1>5. slot \in SlotType
  BY <1>2, <1>4, MergedTyped
<1> HIDE DEF tag
<1>6. SlotOf(row) = slot
  BY <1>4, <1>5, PutTyped
<1>7. r = s /\ ~WellFormed(row)
  BY <1>2, <1>3, StoredDates
<1>8. slot # tx[p].slot
  BY <1>2, <1>6, <1>7, DatesOfSlot
<1> QED BY <1>1, <1>7, <1>8 DEF StaleWrite

(* A handover breaks it only by starting the rental later.                 *)
LEMMA AdvanceBreaks ==
    ASSUME IInv, StartsOnly, NEW p \in Procs, NEW applies \in BOOLEAN, NEW data \in SUBSET Data,
           tx[p].pc = "write", tx[p].route \in {"status", "pickup", "return"},
           applies => book[tx[p].row].status # "absent",
           Advance(p, applies, data), NEW r \in Rows,
           WellFormed(book[r]), ~WellFormed(book'[r])
    PROVE  StaleWrite(p, r)
<1> DEFINE s == tx[p].row
           slot == Merged(SlotOf(book[s]), tx[p].slot, tx[p].patch)
           row == Advanced(p, book[s], data)
           tag == AdvanceTag(p, s)
<1>1. Informed(p)
  BY DEF IInv, RequestsInformed
<1>2. s \in Rows /\ (tx[p].patch # {} => tx[p].slot \in SlotType)
  BY <1>1 DEF Informed
<1>3. applies /\ Store(s, row, tag)
  BY DEF Advance, Unchanged
<1>4. book[s] \in BookRows /\ SlotOf(book[s]) \in SlotType
  BY <1>2, <1>3, PresentTyped
<1> HIDE DEF tag
<1>5. r = s /\ ~WellFormed(row)
  BY <1>2, <1>3, StoredDates
<1>6. row = [Put(book[s], slot) EXCEPT !.status = tx[p].to, !.data = @ \cup data]
  BY DEF Advanced
<1>7. CASE tx[p].patch = {}
  <2>1. slot = SlotOf(book[s])
    BY <1>4, <1>7, MergedEmpty
  <2>2. Put(book[s], slot) = book[s]
    BY <1>4, <2>1, PutSame
  <2> HIDE DEF slot, row, s
  <2>3. row.start = book[s].start /\ row.end = book[s].end
    BY <1>4, <1>6, <2>2 DEF BookRows
  <2> QED BY <1>5, <2>3 DEF WellFormed
<1>8. CASE tx[p].patch # {}
  <2>1. tx[p].patch = {"startDate"} /\ tx[p].route \in {"pickup", "status"}
    BY <1>8 DEF StartsOnly
  <2>2. slot.start.day = tx[p].slot.start.day /\ slot.end.day = book[s].end.day /\ slot \in SlotType
    <3>1. slot \in SlotType
      BY <1>2, <1>4, <1>8, MergedTyped
    <3> QED BY <2>1, <3>1 DEF Merged, Pick, SlotOf
  <2> HIDE DEF slot
  <2>3. /\ Put(book[s], slot) \in BookRows /\ SlotOf(Put(book[s], slot)) = slot
    BY <1>4, <2>2, PutTyped
  <2>4. row.start.day = tx[p].slot.start.day /\ row.end.day = book[s].end.day
    BY <1>6, <2>2, <2>3 DEF BookRows, SlotOf
  <2> HIDE DEF row
  <2>5. /\ tx[p].slot.start.day \in Nat /\ book[s].start.day \in Nat /\ book[s].end.day \in Nat
    BY <1>2, <1>4, <1>8 DEF SlotType, BookRows, Moment
  <2>6. book[s].start.day < tx[p].slot.start.day
    BY <1>5, <2>4, <2>5 DEF WellFormed
  <2> QED BY <1>5, <2>1, <2>6 DEF StaleWrite
<1> QED BY <1>7, <1>8

(* Every step, and nobody else breaks it.                                  *)
LEMMA DatesStep ==
    ASSUME IInv, JudgedInOrder, StartsOnly, [Next]_vars, NEW r \in Rows,
           WellFormed(book[r]), ~WellFormed(book'[r])
    PROVE  \E p \in Procs : StaleWrite(p, r) /\ tx'[p] = Idle
<1>1. ~Unchanged
  BY DEF Unchanged
<1>2. ASSUME NEW p \in Procs, CreateWrite(p)
      PROVE  FALSE
  <2> DEFINE row == [Put(Absent, tx[p].slot) EXCEPT !.status = "booked"]
  <2>1. PICK s \in Rows : Store(s, row, "create")
    BY <1>2 DEF CreateWrite
  <2>2. Informed(p) /\ tx[p].route = "create"
    BY <1>2 DEF IInv, RequestsInformed, CreateWrite, At
  <2>3. tx[p].slot \in SlotType /\ WellFormed(tx[p].slot)
    BY <2>2 DEF Informed, JudgedInOrder
  <2>4. /\ Put(Absent, tx[p].slot) \in BookRows
        /\ SlotOf(Put(Absent, tx[p].slot)) = tx[p].slot
    BY <2>3, AbsentTyped, PutTyped
  <2>5. SlotOf(row) = tx[p].slot
    BY <2>4 DEF SlotOf, BookRows
  <2> HIDE DEF row
  <2> QED BY <2>1, <2>3, <2>5, DatesOfSlot, StoredDates
<1>3. ASSUME NEW p \in Procs, RevertWrite(p)
      PROVE  FALSE
  <2> DEFINE s == tx[p].row  row == Reverted(book[s])  tag == RevertTag(s)
  <2>1. Informed(p) /\ tx[p].route = "revert" /\ Store(s, row, tag)
    BY <1>3 DEF IInv, RequestsInformed, RevertWrite, At
  <2>2. s \in Rows
    BY <2>1 DEF Informed
  <2>3. SlotOf(row) = SlotOf(book[s])
    BY <2>2, RevertedTyped DEF IInv, TypeOK
  <2> HIDE DEF s, row, tag
  <2>4. r = s /\ ~WellFormed(row)
    BY <2>1, <2>2, StoredDates
  <2> QED BY <2>3, <2>4, DatesOfSlot
<1>4. ASSUME NEW p \in Procs, RestoreWrite(p)
      PROVE  FALSE
  <2> DEFINE s == tx[p].row  row == [book[s] EXCEPT !.deleted = FALSE]
  <2>1. Informed(p) /\ tx[p].route = "restore" /\ Store(s, row, "restore")
    BY <1>4 DEF IInv, RequestsInformed, RestoreWrite, At
  <2>2. s \in Rows
    BY <2>1 DEF Informed
  <2>3. row.start = book[s].start /\ row.end = book[s].end
    BY <2>2 DEF IInv, TypeOK, BookRows
  <2> HIDE DEF s, row
  <2>4. r = s /\ ~WellFormed(row)
    BY <2>1, <2>2, StoredDates
  <2> QED BY <2>3, <2>4 DEF WellFormed
<1>5. ASSUME NEW s \in Rows, SoftDelete(s)
      PROVE  FALSE
  <2> DEFINE row == [book[s] EXCEPT !.deleted = TRUE]
  <2>1. Store(s, row, "none")
    BY <1>5 DEF SoftDelete
  <2>2. row.start = book[s].start /\ row.end = book[s].end
    BY DEF IInv, TypeOK, BookRows
  <2> HIDE DEF row
  <2>3. r = s /\ ~WellFormed(row)
    BY <2>1, StoredDates
  <2> QED BY <2>2, <2>3 DEF WellFormed
<1>6. ASSUME NEW s \in Rows, NEW slot \in Slots, NEW status, AddBlock(s, slot, status)
      PROVE  FALSE
  <2> DEFINE row == [Put(Absent, slot) EXCEPT !.status = status]
  <2>1. Store(s, row, "none")
    BY <1>6 DEF AddBlock
  <2>2. WellFormed(slot) /\ slot \in SlotType
    BY AskedAssumption, SlotsTyped DEF Slots, Periods, WellFormed
  <2>3. /\ Put(Absent, slot) \in BookRows /\ SlotOf(Put(Absent, slot)) = slot
    BY <2>2, AbsentTyped, PutTyped
  <2>4. SlotOf(row) = slot
    BY <2>3 DEF SlotOf, BookRows
  <2> HIDE DEF row
  <2> QED BY <2>1, <2>2, <2>4, DatesOfSlot, StoredDates
<1>7. ASSUME NEW p \in Procs, EditWrite(p)
      PROVE  StaleWrite(p, r)
  BY <1>7, EditBreaks
<1>8. ASSUME NEW p \in Procs, StatusWrite(p) \/ PickupWrite(p) \/ ReturnWrite(p)
      PROVE  StaleWrite(p, r)
  <2>1. tx[p].pc = "write" /\ tx[p].route \in {"status", "pickup", "return"}
    BY <1>8 DEF StatusWrite, PickupWrite, ReturnWrite, At
  <2>2. CASE StatusWrite(p)
    <3>1. PICK data \in SUBSET Data : Advance(p, Present(tx[p].row), data)
      BY <2>2 DEF StatusWrite, Data
    <3>2. Present(tx[p].row) \in BOOLEAN
          /\ (Present(tx[p].row) => book[tx[p].row].status # "absent")
      BY DEF Present
    <3> QED BY <2>1, <3>1, <3>2, AdvanceBreaks
  <2>3. CASE PickupWrite(p)
    BY <2>1, <2>3, AdvanceBreaks DEF PickupWrite, Data
  <2>4. CASE ReturnWrite(p)
    BY <2>1, <2>4, AdvanceBreaks DEF ReturnWrite, Data
  <2> QED BY <1>8, <2>2, <2>3, <2>4
<1>9. ASSUME NEW p \in Procs, Finish(p)
      PROVE  tx'[p] = Idle
  BY <1>9 DEF Finish, IInv, TypeOK
<1>10. ASSUME NEW p \in Procs, Start(p)
       PROVE  FALSE
  BY <1>1, <1>10, StartStep
<1>11. ASSUME NEW p \in Procs, EditWrite(p) \/ StatusWrite(p) \/ PickupWrite(p) \/ ReturnWrite(p)
       PROVE  tx'[p] = Idle
  BY <1>9, <1>11 DEF EditWrite, StatusWrite, PickupWrite, ReturnWrite, Advance
<1> QED BY <1>1, <1>2, <1>3, <1>4, <1>5, <1>6, <1>7, <1>8, <1>10, <1>11
        DEF Next, Step, Crash, TakeLock, CheckPasses, CheckRefuses, TakeRow, RefuseRevert,
            vars, Unchanged

(* For every set of open routes, every patch and every day: the dates of a *)
(* reservation go out of order only by a write decided on a stale row.     *)
THEOREM DatesBreakOnlyByStaleWrites == Spec => DatesBreakOnlyStale
<1>1. Init => JudgedInOrder /\ StartsOnly
  BY DEF Init, Idle, JudgedInOrder, StartsOnly
<1>2. IInv /\ JudgedInOrder /\ StartsOnly /\ [Next]_vars => JudgedInOrder' /\ StartsOnly'
  BY JudgedInOrderStep, StartsOnlyStep
<1>3. IInv /\ JudgedInOrder /\ StartsOnly /\ [Next]_vars =>
        \A r \in Rows :
          WellFormed(book[r]) /\ ~WellFormed(book'[r])
             => \E p \in Procs : StaleWrite(p, r) /\ tx'[p] = Idle
  BY DatesStep
<1> QED BY <1>1, <1>2, <1>3, Invariance, PTL DEF Spec, DatesBreakOnlyStale
=============================================================================
