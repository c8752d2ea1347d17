--------------------------- MODULE BookingWrites ---------------------------
(***************************************************************************)
(* The writers of the table `reservations`, each cut into the database     *)
(* calls it awaits, under PostgreSQL's READ COMMITTED isolation: what a    *)
(* request has read may be stale when it writes, a row lock and the        *)
(* advisory lock of a vehicle are held until the transaction ends, and a   *)
(* write becomes visible with the COMMIT.  Between its last write to the   *)
(* table and its COMMIT a transaction holds the lock of the row it wrote   *)
(* and reads nothing more, so the last write and the COMMIT are one step.  *)
(*                                                                         *)
(*   create   POST  /api/reservations           createReservationChecked   *)
(*   block    POST  /api/reservations           createReservation          *)
(*   edit     PATCH /api/reservations/:id       updateReservationChecked   *)
(*   status   PATCH /api/reservations/:id/status   updateReservation       *)
(*   pickup   POST  /api/reservations/:id/pickup   pickupReservation       *)
(*   return   POST  /api/reservations/:id/return   returnReservation       *)
(*   revert   POST  /api/reservations/:id/revert   applyRevert             *)
(*   delete   DELETE /api/reservations/:id      softDeleteReservation      *)
(*   restore  POST  /api/deleted-records/:id/restore                       *)
(*                                              restoreDeletedReservation  *)
(***************************************************************************)
EXTENDS Lifecycle, FiniteSets

CONSTANTS
    Rows,       \* reservation ids the table can hold (a bound for TLC only)
    Cars,       \* the vehicles; none is deleted here
    Procs,      \* requests in flight at one time
    Nobody,     \* no request, no row, no slot
    Days,       \* the days today can be
    Asked,      \* the periods the clients ask for
    Routes,     \* the routes that are open in this instance
    Patches,    \* the sets of columns an edit may send
    Entered     \* the statuses a maintenance block may be entered with

AllRoutes == {"create", "block", "edit", "status", "pickup", "return",
              "revert", "delete", "restore"}

(* SCHEDULING_FIELDS: an edit without any of these moves nothing.          *)
Columns == {"car", "kind", "startDate", "startTime", "endDate", "endTime"}

ASSUME DaysAssumption    == Days \subseteq Nat
ASSUME AskedAssumption   == Asked \subseteq Periods(Nat, Nat \cup {NoTime})
ASSUME RoutesAssumption  == Routes \subseteq AllRoutes
ASSUME PatchesAssumption == Patches \subseteq SUBSET Columns
ASSUME EnteredAssumption == Entered \subseteq LiveStatuses \cup ClosedStatuses
ASSUME NobodyAssumption  == Nobody \notin Rows /\ Nobody \notin Procs

VARIABLES
    book,       \* [Rows -> row]: the committed table
    placedBy,   \* ghost: which kind of write put the row where it is
    advisory,   \* [Cars -> request]: pg_advisory_xact_lock of the vehicle
    rowLock,    \* [Rows -> request]: SELECT ... FOR UPDATE of the row
    tx          \* [Procs -> what the request is doing and what it has read]

vars == <<book, placedBy, advisory, rowLock, tx>>

-----------------------------------------------------------------------------
(* What a client can send: a vehicle, rental or block, and a period.       *)
Slots == { [car |-> c, kind |-> k, start |-> a.start, end |-> a.end] :
             c \in Cars, k \in Kinds, a \in Asked }

(* Handover data on the row: readings of the pickup, its date, readings of  *)
(* the return.                                                              *)
Data == {"pickup", "pickup_date", "return"}

(* The columns of a row the properties tell apart.  vehicle_id is NULL     *)
(* only on an id that is not given out yet.                                *)
Moment   == [day : Nat, time : Nat \cup {NoTime}]
SlotType == [car : Cars, kind : Kinds, start : Moment, end : Moment]
BookRows == [status : Statuses, deleted : BOOLEAN, data : SUBSET Data,
             car : Cars \cup {Nobody}, kind : Kinds,
             start : Moment, end : Moment]

Absent == [status |-> "absent", deleted |-> FALSE, data |-> {},
           car |-> Nobody, kind |-> "rental",
           start |-> [day |-> 0, time |-> NoTime],
           end   |-> [day |-> 0, time |-> NoTime]]

Guarded   == {"create", "edit", "revert"}
Unguarded == {"stale_edit", "retype", "restore", "revert_return",
              "early_start", "stale_status"}

Steps == {"idle", "lock", "row", "check", "write"}

RequestType == [pc : Steps, route : AllRoutes \cup {"none"},
                row : Rows \cup {Nobody}, slot : SlotType \cup {Nobody},
                patch : SUBSET Columns, asBlock : BOOLEAN,
                to : Statuses \cup {"none"}]

Idle == [pc |-> "idle", route |-> "none", row |-> Nobody, slot |-> Nobody,
         patch |-> {}, asBlock |-> FALSE, to |-> "none"]

SlotOf(row) == [car |-> row.car, kind |-> row.kind,
                start |-> row.start, end |-> row.end]

Put(row, slot) == [row EXCEPT !.car = slot.car, !.kind = slot.kind,
                              !.start = slot.start, !.end = slot.end]

Pick(c, patch, new, old) == IF c \in patch THEN new ELSE old

(* Mutant: the columns of a moment are swapped in the UPDATE.              *)
MergedSwapped(old, new, patch) ==
    [car   |-> Pick("car", patch, new.car, old.car),
     kind  |-> Pick("kind", patch, new.kind, old.kind),
     start |-> [day  |-> Pick("startTime", patch, new.start.time, old.start.time),
                time |-> Pick("startDate", patch, new.start.day, old.start.day)],
     end   |-> [day  |-> Pick("endTime", patch, new.end.time, old.end.time),
                time |-> Pick("endDate", patch, new.end.day, old.end.day)]]

(* UPDATE ... SET of the columns in the patch: every other column keeps    *)
(* what the row holds.                                                     *)
Merged(old, new, patch) ==
    [car   |-> Pick("car", patch, new.car, old.car),
     kind  |-> Pick("kind", patch, new.kind, old.kind),
     start |-> [day  |-> Pick("startDate", patch, new.start.day, old.start.day),
                time |-> Pick("startTime", patch, new.start.time, old.start.time)],
     end   |-> [day  |-> Pick("endDate", patch, new.end.day, old.end.day),
                time |-> Pick("endTime", patch, new.end.time, old.end.time)]]

-----------------------------------------------------------------------------
Init ==
    /\ book     = [r \in Rows |-> Absent]
    /\ placedBy = [r \in Rows |-> "none"]
    /\ advisory = [c \in Cars |-> Nobody]
    /\ rowLock  = [r \in Rows |-> Nobody]
    /\ tx       = [p \in Procs |-> Idle]

-----------------------------------------------------------------------------
(* A request starts by reading what it needs; all it knows afterwards is   *)
(* in its record.  When its transaction ends every lock it holds is gone.  *)
Begin(p, request) == tx[p].pc = "idle" /\ tx' = [tx EXCEPT ![p] = request]

Request(pc, route, row, slot, patch, asBlock, to) ==
    [pc |-> pc, route |-> route, row |-> row, slot |-> slot,
     patch |-> patch, asBlock |-> asBlock, to |-> to]

(* Mutant: pg_advisory_lock of the session instead of the transaction.     *)
FinishLeaking(p) ==
    /\ tx' = [tx EXCEPT ![p] = Idle]
    /\ rowLock' = [r \in Rows |-> IF rowLock[r] = p THEN Nobody ELSE rowLock[r]]
    /\ UNCHANGED advisory

(* COMMIT or ROLLBACK.                                                     *)
Finish(p) ==
    /\ tx' = [tx EXCEPT ![p] = Idle]
    /\ advisory' = [c \in Cars |-> IF advisory[c] = p THEN Nobody ELSE advisory[c]]
    /\ rowLock'  = [r \in Rows |-> IF rowLock[r] = p THEN Nobody ELSE rowLock[r]]

At(p, pc, route) == tx[p].pc = pc /\ tx[p].route = route

(* A row that is no live rental occupies nothing and was placed by nobody. *)
Occupies(row) == IsLive(row) /\ row.kind = "rental"

Store(r, row, tag) ==
    /\ book'     = [book EXCEPT ![r] = row]
    /\ placedBy' = [placedBy EXCEPT ![r] = IF Occupies(row) THEN tag ELSE "none"]

Unchanged == UNCHANGED <<book, placedBy>>
Unlocked  == UNCHANGED <<advisory, rowLock>>

(* The row exists and is not in the recycle bin: WHERE deleted_at IS NULL. *)
Present(r) == book[r].status # "absent" /\ ~book[r].deleted

-----------------------------------------------------------------------------
(* Bound of an instance: an insert is asked for only while an id is left   *)
(* for it and for every insert under way.                                  *)
TableHasRoom ==
    Cardinality({ p \in Procs : tx[p].route = "create" })
        < Cardinality({ r \in Rows : book[r].status = "absent" })

(* POST /api/reservations.  A rental goes through the checked create; a    *)
(* maintenance block is inserted as it is, with the status it was sent     *)
(* with, whatever stands there.                                            *)
BeginCreate(p, slot) ==
    /\ "create" \in Routes
    /\ slot.kind = "rental"
    /\ TableHasRoom
    /\ Begin(p, Request("lock", "create", Nobody, slot, {}, FALSE, "booked"))
    /\ Unchanged /\ Unlocked

CreateWrite(p) ==
    /\ At(p, "write", "create")
    /\ \E r \in Rows :
          /\ book[r].status = "absent"
          /\ Store(r, [Put(Absent, tx[p].slot) EXCEPT !.status = "booked"], "create")
    /\ Finish(p)

AddBlock(r, slot, status) ==
    /\ "block" \in Routes
    /\ slot.kind = "block"
    /\ TableHasRoom
    /\ book[r].status = "absent"
    /\ Store(r, [Put(Absent, slot) EXCEPT !.status = status], "none")
    /\ Unlocked /\ UNCHANGED tx

-----------------------------------------------------------------------------
(* Mutant: the rule is applied to the dates of the body, not to the row.   *)
DatesAcceptedWhenSent(slot, patch) ==
    {"startDate", "endDate"} \subseteq patch => WellFormed(slot)

(* The date-order rule, on the row as it will be.                          *)
DatesAccepted(slot, patch) == WellFormed(slot)

(* PATCH /api/reservations/:id.  The route reads the row, lays the columns *)
(* it was sent over it, applies the date-order rule to the result, and     *)
(* hands that effective row to updateReservationChecked to be judged.  It  *)
(* is judged as a maintenance block when the row was one or becomes one.   *)
(* Clearing a time is left out: it is judged with the old time, which      *)
(* refuses more.                                                           *)
BeginEdit(p, r, new, patch) ==
    /\ "edit" \in Routes
    /\ Present(r)
    /\ patch # {}
    /\ "startTime" \in patch => new.start.time # NoTime
    /\ "endTime" \in patch => new.end.time # NoTime
    /\ LET effective == Merged(SlotOf(book[r]), new, patch)
           asBlock == "block" \in {effective.kind, book[r].kind}
       IN /\ DatesAccepted(effective, patch)
          /\ Begin(p, Request("lock", "edit", r, effective, patch, asBlock, "none"))
    /\ Unchanged /\ Unlocked

(* The UPDATE waits for the row, then sets the columns of the patch on     *)
(* what the row holds by then; a row deleted meanwhile is a 404.           *)
EditTag(slot, request) ==
    IF request.asBlock /\ slot.kind = "rental" THEN "retype"
    ELSE IF slot # request.slot THEN "stale_edit"
    ELSE "edit"

EditWrite(p) ==
    /\ At(p, "write", "edit")
    /\ LET r == tx[p].row
           slot == Merged(SlotOf(book[r]), tx[p].slot, tx[p].patch)
       IN /\ rowLock[r] = Nobody
          /\ IF Present(r)
               THEN Store(r, Put(book[r], slot), EditTag(slot, tx[p]))
               ELSE Unchanged
    /\ Finish(p)

-----------------------------------------------------------------------------
(* Mutant: pg_try_advisory_xact_lock, its answer ignored.                  *)
TakeLockUnheeded(p) ==
    /\ tx[p].pc = "lock"
    /\ advisory' = [advisory EXCEPT ![tx[p].slot.car] = p]
    /\ tx' = [tx EXCEPT ![p].pc = IF tx[p].route = "revert" THEN "row" ELSE "check"]
    /\ Unchanged /\ UNCHANGED rowLock

(* The two steps every checked writer shares: pg_advisory_xact_lock on the *)
(* vehicle of the judged period, and isVehicleBookable inside the same     *)
(* transaction.  A revert still has to take its row in between.  The       *)
(* recycle bin is refused by a CONFLICT only.                              *)
TakeLock(p) ==
    /\ tx[p].pc = "lock"
    /\ advisory[tx[p].slot.car] = Nobody
    /\ advisory' = [advisory EXCEPT ![tx[p].slot.car] = p]
    /\ tx' = [tx EXCEPT ![p].pc = IF tx[p].route = "revert" THEN "row" ELSE "check"]
    /\ Unchanged /\ UNCHANGED rowLock

(* Mutant: a rental that is out with the customer is overlooked.           *)
VerdictForBooked(p, vehicle) ==
    Verdict({ book[r] : r \in { s \in Rows \ {tx[p].row} : book[s].status = "booked" } },
            tx[p].slot, tx[p].asBlock, vehicle)

VerdictFor(p, vehicle) ==
    Verdict({ book[r] : r \in Rows \ {tx[p].row} }, tx[p].slot, tx[p].asBlock, vehicle)

CheckPasses(p, vehicle) ==
    /\ tx[p].pc = "check"
    /\ \/ VerdictFor(p, vehicle) = "bookable"
       \/ tx[p].route = "restore" /\ VerdictFor(p, vehicle) # "CONFLICT"
    /\ tx' = [tx EXCEPT ![p].pc = "write"]
    /\ Unchanged /\ Unlocked

(* BookingConflictError, RestoreAbort or a blocked plan: ROLLBACK.         *)
CheckRefuses(p, vehicle) ==
    /\ tx[p].pc = "check"
    /\ VerdictFor(p, vehicle) # "bookable"
    /\ tx[p].route = "restore" => VerdictFor(p, vehicle) = "CONFLICT"
    /\ Finish(p) /\ Unchanged

-----------------------------------------------------------------------------
(* POST /api/reservations/:id/revert.  applyRevert peeks at the vehicle of *)
(* the row to know which advisory lock to take, locks the row FOR UPDATE,  *)
(* and plans again.  The plan must be the one the client confirmed.        *)
BeginRevert(p, r) ==
    /\ "revert" \in Routes
    /\ Present(r)
    /\ Begin(p, Request("lock", "revert", r, SlotOf(book[r]), {}, FALSE, "none"))
    /\ Unchanged /\ Unlocked

Revertible(row) == row.kind = "rental" /\ row.status \in {"picked_up"} \cup ClosedStatuses

(* Mutant: the row is read without FOR UPDATE.                             *)
TakeRowUnlocked(p) ==
    /\ tx[p].pc = "row"
    /\ LET r == tx[p].row IN
          /\ Present(r) /\ Revertible(book[r])
          /\ book[r].car = tx[p].slot.car
          /\ tx' = [tx EXCEPT ![p].slot = SlotOf(book[r]),
                              ![p].pc = IF book[r].status = "cancelled"
                                        THEN "check" ELSE "write"]
    /\ Unchanged /\ Unlocked

(* Undoing a cancellation re-occupies the vehicle, so it needs the period  *)
(* to be free (needsFreeVehicle); undoing a pickup or a return does not.   *)
TakeRow(p) ==
    /\ tx[p].pc = "row"
    /\ LET r == tx[p].row IN
          /\ rowLock[r] = Nobody
          /\ Present(r) /\ Revertible(book[r])
          /\ book[r].car = tx[p].slot.car
          /\ rowLock' = [rowLock EXCEPT ![r] = p]
          /\ tx' = [tx EXCEPT ![p].slot = SlotOf(book[r]),
                              ![p].pc = IF book[r].status = "cancelled"
                                        THEN "check" ELSE "write"]
    /\ Unchanged /\ UNCHANGED advisory

(* Deleted, nothing to undo, moved to another vehicle, or a plan that is   *)
(* not the one the client was shown (any row may differ from its preview). *)
RefuseRevert(p) ==
    /\ tx[p].pc = "row"
    /\ rowLock[tx[p].row] = Nobody
    /\ Finish(p) /\ Unchanged

(* stepFor: where the undone row goes back to, and what is cleared.        *)
OutIf(known) == IF known THEN "picked_up" ELSE "booked"

Reverted(row) ==
    CASE row.status = "picked_up" ->
           [row EXCEPT !.status = "booked", !.data = @ \ {"pickup", "pickup_date"}]
      [] row.status = "cancelled" ->
           [row EXCEPT !.status = OutIf("pickup_date" \in row.data)]
      [] OTHER ->
           [row EXCEPT !.status = OutIf(row.data \cap {"pickup", "return"} # {}),
                       !.data = @ \ {"return"}]

RevertTag(r) ==
    CASE book[r].status = "cancelled" -> "revert"
      [] book[r].status \in {"returned", "completed"} -> "revert_return"
      [] OTHER -> placedBy[r]

RevertWrite(p) ==
    /\ At(p, "write", "revert")
    /\ Store(tx[p].row, Reverted(book[tx[p].row]), RevertTag(tx[p].row))
    /\ Finish(p)

-----------------------------------------------------------------------------
(* Writers that read the row, decide on what they read, and write later:   *)
(* the status route, the pickup and the return.  An early pickup that was  *)
(* confirmed moves the start date to today, and nothing is judged again.   *)
ReadThenWrite(p, r, route, patch, slot, to) ==
    /\ Begin(p, Request("write", route, r, slot, patch, FALSE, to))
    /\ Unchanged /\ Unlocked

Early(row, today) == row.status # "picked_up" /\ today < row.start.day

HandOut(p, r, route, to, today) ==
    LET slot == SlotOf(book[r]) IN
    IF to = "picked_up" /\ Early(book[r], today)
      THEN ReadThenWrite(p, r, route, {"startDate"}, [slot EXCEPT !.start.day = today], to)
      ELSE ReadThenWrite(p, r, route, {}, Nobody, to)

(* A step of the table, or the status the row has already.                 *)
BeginStatus(p, r, to, today) ==
    /\ "status" \in Routes
    /\ Present(r)
    /\ to \in Transitions(book[r].status) \cup {book[r].status}
    /\ HandOut(p, r, "status", to, today)

BeginPickup(p, r, today) ==
    /\ "pickup" \in Routes
    /\ Present(r) /\ book[r].status = "booked"
    /\ HandOut(p, r, "pickup", "picked_up", today)

BeginReturn(p, r) ==
    /\ "return" \in Routes
    /\ Present(r) /\ book[r].status = "picked_up"
    /\ ReadThenWrite(p, r, "return", {}, Nobody, "completed")

(* What the write puts in the row, and which kind of write that was.       *)
Advanced(p, row, data) ==
    [Put(row, Merged(SlotOf(row), tx[p].slot, tx[p].patch))
        EXCEPT !.status = tx[p].to, !.data = @ \cup data]

AdvanceTag(p, r) ==
    IF tx[p].patch # {} THEN "early_start"
    ELSE IF tx[p].to \in LiveStatuses /\ book[r].status \notin LiveStatuses
      THEN "stale_status"
    ELSE placedBy[r]

Advance(p, applies, data) ==
    LET r == tx[p].row IN
    /\ rowLock[r] = Nobody
    /\ IF applies
         THEN Store(r, Advanced(p, book[r], data), AdvanceTag(p, r))
         ELSE Unchanged
    /\ Finish(p)

(* updateReservation: no condition on the status the route has judged.     *)
(* The body may bring mileages and fuel levels along.                      *)
StatusWrite(p) ==
    /\ At(p, "write", "status")
    /\ \E data \in SUBSET {"pickup", "return"} : Advance(p, Present(tx[p].row), data)

(* Mutant: the status was asserted before the transaction, and only there. *)
PickupWriteAnyway(p) ==
    /\ At(p, "write", "pickup")
    /\ Advance(p, TRUE, {"pickup", "pickup_date"})

(* The precondition travels with the write (BUG-174); the recycle bin does *)
(* not: neither UPDATE looks at deleted_at.                                *)
PickupWrite(p) ==
    /\ At(p, "write", "pickup")
    /\ Advance(p, book[tx[p].row].status = "booked", {"pickup", "pickup_date"})

ReturnWrite(p) ==
    /\ At(p, "write", "return")
    /\ Advance(p, book[tx[p].row].status = "picked_up", {"return"})

-----------------------------------------------------------------------------
(* DELETE /api/reservations/:id: one conditional UPDATE.                   *)
SoftDelete(r) ==
    /\ "delete" \in Routes
    /\ Present(r) /\ rowLock[r] = Nobody
    /\ Store(r, [book[r] EXCEPT !.deleted = TRUE], "none")
    /\ Unlocked /\ UNCHANGED tx

(* Mutant: the restore takes the lock of the vehicle too, after its row.   *)
BeginRestoreRowFirst(p, r) ==
    /\ "restore" \in Routes
    /\ book[r].deleted /\ rowLock[r] = Nobody
    /\ Begin(p, Request("lock", "restore", r, SlotOf(book[r]), {},
                        book[r].kind = "block", "none"))
    /\ rowLock' = [rowLock EXCEPT ![r] = p]
    /\ Unchanged /\ UNCHANGED advisory

(* The recycle bin: the row FOR UPDATE, the predicate in the transaction,  *)
(* and no advisory lock.                                                   *)
BeginRestore(p, r) ==
    /\ "restore" \in Routes
    /\ book[r].deleted /\ rowLock[r] = Nobody
    /\ Begin(p, Request("check", "restore", r, SlotOf(book[r]), {},
                        book[r].kind = "block", "none"))
    /\ rowLock' = [rowLock EXCEPT ![r] = p]
    /\ Unchanged /\ UNCHANGED advisory

RestoreWrite(p) ==
    /\ At(p, "write", "restore")
    /\ Store(tx[p].row, [book[tx[p].row] EXCEPT !.deleted = FALSE], "restore")
    /\ Finish(p)

(* The server or the connection dies: ROLLBACK, every lock is released.    *)
Crash(p) == tx[p].pc # "idle" /\ Finish(p) /\ Unchanged

-----------------------------------------------------------------------------
(* What a request that is under way does next.                             *)
Step(p) ==
    \/ TakeLock(p)
    \/ \E vehicle \in {"ok", "not_for_rental"} :
          CheckPasses(p, vehicle) \/ CheckRefuses(p, vehicle)
    \/ TakeRow(p) \/ RefuseRevert(p)
    \/ CreateWrite(p) \/ EditWrite(p) \/ RevertWrite(p) \/ RestoreWrite(p)
    \/ StatusWrite(p) \/ PickupWrite(p) \/ ReturnWrite(p)

Start(p) ==
    \/ \E slot \in Slots : BeginCreate(p, slot)
    \/ \E r \in Rows :
          \/ \E new \in Slots, patch \in Patches : BeginEdit(p, r, new, patch)
          \/ BeginRevert(p, r)
          \/ \E to \in Statuses, today \in Days : BeginStatus(p, r, to, today)
          \/ \E today \in Days : BeginPickup(p, r, today)
          \/ BeginReturn(p, r)
          \/ BeginRestore(p, r)

Next ==
    \/ \E p \in Procs : Start(p) \/ Step(p) \/ Crash(p)
    \/ \E r \in Rows :
          \/ SoftDelete(r)
          \/ \E slot \in Slots, status \in Entered : AddBlock(r, slot, status)

Spec == Init /\ [][Next]_vars

(* PostgreSQL serves the queue of a lock in order, and a handler whose     *)
(* query has been answered goes on: a request that can go on again and     *)
(* again does.  Nothing is asked of the users, and a crash is never due.   *)
Fairness == \A p \in Procs : SF_vars(Step(p))

FairSpec == Spec /\ Fairness

-----------------------------------------------------------------------------
(* Every variable keeps its shape, and a request in flight names a row and *)
(* a slot exactly when its step needs them.                                *)
TypeOK ==
    /\ book \in [Rows -> BookRows]
    /\ placedBy \in [Rows -> Guarded \cup Unguarded \cup {"none"}]
    /\ advisory \in [Cars -> Procs \cup {Nobody}]
    /\ rowLock \in [Rows -> Procs \cup {Nobody}]
    /\ tx \in [Procs -> RequestType]

Clashing(r, s) ==
    /\ r # s
    /\ Occupies(book[r]) /\ Occupies(book[s])
    /\ book[r].car = book[s].car
    /\ Overlaps(book[r], book[s])

(* The double booking the predicate exists to prevent (BUG-006, BUG-159):  *)
(* two live rentals on one vehicle in overlapping periods.  It holds for   *)
(* the routes that go through the checked writers.                         *)
NoDoubleBooking == \A r, s \in Rows : ~Clashing(r, s)

(* With every route open, the checked writers are still safe against one   *)
(* another in every interleaving: two rentals clash only when one of the   *)
(* two was put where it is by a write that is not judged, or not behind    *)
(* the lock of the vehicle (revert of a return, early pickup, restore,     *)
(* retyped block, an edit or a status change decided on a stale row).      *)
OverlapsExplained ==
    \A r, s \in Rows :
        Clashing(r, s) => {placedBy[r], placedBy[s]} \cap Unguarded # {}

(* The row has changed since this request read it, so that its write does  *)
(* something else than it was decided to: an edit leaves another period    *)
(* than the one it was judged on, an early pickup starts the rental later. *)
StaleWrite(p, r) ==
    /\ tx[p].pc = "write" /\ tx[p].row = r
    /\ \/ tx[p].route = "edit" /\ Merged(SlotOf(book[r]), tx[p].slot, tx[p].patch) # tx[p].slot
       \/ /\ tx[p].route \in {"pickup", "status"} /\ "startDate" \in tx[p].patch
          /\ book[r].start.day < tx[p].slot.start.day

(* The dates of a reservation, rental or block, live, closed or deleted,   *)
(* go out of order in one way only: by the write of an edit or of an early *)
(* pickup that was decided on a row another write has moved since (the     *)
(* date-order rule of PATCH, BUG-111, reads the row before the update).    *)
DatesBreakOnlyStale ==
    [][\A r \in Rows :
          WellFormed(book[r]) /\ ~WellFormed(book'[r])
             => \E p \in Procs : StaleWrite(p, r) /\ tx'[p] = Idle]_vars

(* The table behaves as the calendar promises: one row at a time, and no   *)
(* guarded write lands on a rental another guarded write has placed.       *)
Promise == INSTANCE Calendar WITH
              Rows <- Rows, Guarded <- Guarded, Unguarded <- Unguarded,
              book <- book, placedBy <- placedBy
ImplementsCalendar == Promise!Spec

(* A closed rental comes back to life only through the revert route, which *)
(* asks for a preview, a confirmation and a right of its own               *)
(* (routes.ts: "is no longer a status change").                            *)
ReopenedOnlyByRevert ==
    [][\A r \in Rows :
          book[r].status \in ClosedStatuses /\ book'[r].status \in LiveStatuses
             => placedBy'[r] \in {"revert", "revert_return"}]_vars

(* The lock discipline the predicate relies on.  A checked writer holds    *)
(* the lock of the vehicle it is judged on from the check to its COMMIT.   *)
Checked == {"create", "edit", "revert"}

HoldsVehicle(p) ==
    tx[p].route \in Checked /\ tx[p].pc \in {"row", "check", "write"}
        => advisory[tx[p].slot.car] = p

VehicleLocked == \A p \in Procs : HoldsVehicle(p)

(* A revert and a restore hold their row from the moment they read it, so  *)
(* what they judge is what the row still says when they write.             *)
HoldsRow(p) ==
    tx[p].route \in {"revert", "restore"} /\ tx[p].pc \in {"check", "write"}
        => LET r == tx[p].row IN
           /\ rowLock[r] = p
           /\ tx[p].slot = SlotOf(book[r])
           /\ IF tx[p].route = "restore"
                THEN book[r].deleted
                ELSE /\ Present(r) /\ Revertible(book[r])
                     /\ tx[p].pc = "check" => book[r].status = "cancelled"

RowLocked == \A p \in Procs : HoldsRow(p)

(* Whom a request waits for: the holder of the vehicle it is to be judged  *)
(* on, or of the row that its SELECT ... FOR UPDATE or its UPDATE needs.   *)
WaitsFor(p, q) ==
    \/ tx[p].pc = "lock" /\ advisory[tx[p].slot.car] = q
    \/ /\ \/ tx[p].pc = "row"
          \/ tx[p].pc = "write" /\ tx[p].route \in {"edit", "status", "pickup", "return"}
       /\ rowLock[tx[p].row] = q

(* The vehicle is locked before the row (applyRevert: the advisory lock,   *)
(* then FOR UPDATE; updateReservationChecked: the lock, then the UPDATE),  *)
(* and who holds a row he did not just write asks for no lock any more: a  *)
(* chain of waiting requests ends with its third, and no circle of them    *)
(* can form, however many requests there are.                              *)
ChainsOfWaitingEnd ==
    \A p, q, r \in Procs :
        WaitsFor(p, q) /\ WaitsFor(q, r) => \A s \in Procs : ~WaitsFor(r, s)

(* Has the period of this request been judged against the other rentals?   *)
Judged(p) ==
    /\ tx[p].pc = "write" /\ ~tx[p].asBlock
    /\ \/ tx[p].route \in {"create", "edit"}
       \/ tx[p].route = "revert" /\ book[tx[p].row].status = "cancelled"

(* A verdict is still true when it is acted upon: between the check and    *)
(* the write of a checked writer only an unguarded write can get in its    *)
(* way (isVehicleBookable: "that, and not the check itself, is what stops  *)
(* two concurrent writers from both winning").                             *)
VerdictHolds(p) ==
    Judged(p) => \A s \in Rows \ {tx[p].row} :
        Conflicts(book[s], tx[p].slot, FALSE) => placedBy[s] \in Unguarded

VerdictStillHolds == \A p \in Procs : VerdictHolds(p)

(* The ghost says what it should: exactly the live rentals were placed.    *)
PlacedExactlyTheLive ==
    \A r \in Rows : IF Occupies(book[r])
                     THEN placedBy[r] \in Guarded \cup Unguarded
                     ELSE placedBy[r] = "none"

(* A row that was given out has a vehicle, and only such a row is deleted. *)
RowsHaveCars ==
    \A r \in Rows : IF book[r].status = "absent"
                     THEN ~book[r].deleted
                     ELSE book[r].car \in Cars

(* What a request knows at each of its steps.                              *)
Informed(p) ==
    CASE tx[p].route = "none" ->
           tx[p] = Idle
      [] tx[p].route = "create" ->
           /\ tx[p].pc \in {"lock", "check", "write"} /\ tx[p].row = Nobody
           /\ tx[p].slot \in SlotType /\ tx[p].slot.kind = "rental" /\ ~tx[p].asBlock
      [] tx[p].route = "edit" ->
           /\ tx[p].pc \in {"lock", "check", "write"} /\ tx[p].row \in Rows
           /\ tx[p].slot \in SlotType
      [] tx[p].route = "revert" ->
           /\ tx[p].pc \in {"lock", "row", "check", "write"} /\ tx[p].row \in Rows
           /\ tx[p].slot \in SlotType /\ ~tx[p].asBlock
      [] tx[p].route = "restore" ->
           /\ tx[p].pc \in {"check", "write"} /\ tx[p].row \in Rows
           /\ tx[p].slot \in SlotType
      [] OTHER ->
           /\ tx[p].pc = "write" /\ tx[p].row \in Rows
           /\ tx[p].patch # {} => tx[p].slot \in SlotType
           /\ tx[p].to \in LiveStatuses \cup ClosedStatuses

RequestsInformed == \A p \in Procs : Informed(p)

(* The inductive invariant of the table and its writers.                   *)
IInv ==
    /\ TypeOK
    /\ RowsHaveCars
    /\ PlacedExactlyTheLive
    /\ RequestsInformed
    /\ VehicleLocked
    /\ RowLocked
    /\ VerdictStillHolds

(* No request waits for ever: the locks are taken in one order (the        *)
(* advisory lock of the vehicle, then the reservation row), every          *)
(* transaction ends, and with it every lock it holds.  The row locks of    *)
(* the table `vehicles` are not part of this module.                       *)
EveryRequestEnds ==
    \A p \in Procs : tx[p].pc # "idle" ~> tx[p].pc = "idle"
=============================================================================
