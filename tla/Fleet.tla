------------------------------- MODULE Fleet -------------------------------
(***************************************************************************)
(* The vehicles and the requests that write them: the handovers, which     *)
(* read and write odometer and availability behind the row lock of the     *)
(* vehicle, and everybody else, who works the availability out from plain  *)
(* reads and writes the answer afterwards.  READ COMMITTED, as in          *)
(* BookingWrites; a transaction's own changes wait in tx until its COMMIT. *)
(*                                                                         *)
(*   pickup    POST  /api/reservations/:id/pickup    vehicle, then row     *)
(*   return    POST  /api/reservations/:id/return    row, then vehicle     *)
(*   revert    POST  /api/reservations/:id/revert    advisory, row, vehicle *)
(*   status    PATCH /api/reservations/:id/status    row, then recompute   *)
(*   delete    DELETE /api/reservations/:id          row, then recompute   *)
(*   workshop  PATCH /api/vehicles/:id/maintenance-status, then recompute  *)
(*   sweep     syncVehicleAvailabilityWithReservations, the whole fleet    *)
(*   staff     PATCH /api/vehicles/:id, availability set by hand           *)
(*   mileage   PATCH /api/vehicles/:id/mileage                             *)
(*                                                                         *)
(* Rows, vehicles and the odometer's readings are those of AtomicHandovers, *)
(* the specification these requests implement.                             *)
(***************************************************************************)
EXTENDS AtomicHandovers

CONSTANTS
    Procs,      \* requests in flight at one time
    Nobody,     \* no request, no row
    ByHand,     \* the values staff set by hand
    Routes      \* the routes that are open in this instance

AllRoutes == {"pickup", "return", "revert", "status", "delete", "workshop",
              "sweep", "staff", "mileage"}

ASSUME ByHandAssumption == ByHand \subseteq Availabilities
ASSUME RoutesAssumption == Routes \subseteq AllRoutes
ASSUME NobodyAssumption == Nobody \notin Rows /\ Nobody \notin Procs

VARIABLES
    advisory,   \* [Cars -> request]: pg_advisory_xact_lock
    rowLock,    \* [Rows -> request]: row lock on the reservation
    carLock,    \* [Cars -> request]: row lock on the vehicle
    tx,         \* [Procs -> what the request is doing and what it has read]
    trail       \* ghost: handovers on the odometer, not undone, and their order

vars == <<book, fleet, advisory, rowLock, carLock, tx, trail, overruled>>

-----------------------------------------------------------------------------
(* A mark on the trail of a vehicle: who wrote the odometer, at which      *)
(* handover and on which day, and which marks were there before it.        *)
Marks  == [by : Rows \cup {Nobody}, kind : Handovers \cup {"by hand"}, day : Nat,
           over : SUBSET ((Rows \cup {Nobody}) \X (Handovers \cup {"by hand"}))]
Key(m) == <<m.by, m.kind>>

Erased(marks, keys) ==
    { [m EXCEPT !.over = @ \ keys] : m \in { n \in marks : Key(n) \notin keys } }

(* A handover done again takes the place of what it wrote before.          *)
Written(marks, r, kind, day) ==
    LET rest == Erased(marks, {<<r, kind>>})
    IN rest \cup {[by |-> r, kind |-> kind, day |-> day, over |-> { Key(m) : m \in rest }]}

Latest(marks) == { m \in marks : \A n \in marks \ {m} : Key(n) \in m.over }

Views    == UNION { [S -> [availability : Availabilities, flagged : BOOLEAN]] :
                        S \in SUBSET Cars }
Answers  == UNION { [S -> Availabilities] : S \in SUBSET Cars }

Nothing  == [c \in {} |-> NoReading]

Steps == {"idle", "car", "row", "commit", "write", "read", "rows", "put", "staff"}

RequestType == [pc : Steps, route : AllRoutes \cup {"none", "rework"}, row : Rows \cup {Nobody},
                cars : SUBSET Cars, day : Nat, force : BOOLEAN, early : BOOLEAN,
                to : Statuses \cup Availabilities \cup {"none"},
                flag : {"keep", "raise", "lower"},
                image : BookRows \cup {Nobody}, before : Readings \cup {NoReading},
                reading : Readings \cup {NoReading}, views : Views, next : Answers]

Idle == [pc |-> "idle", route |-> "none", row |-> Nobody, cars |-> {}, day |-> NoDay,
         force |-> FALSE, early |-> FALSE, to |-> "none", flag |-> "keep",
         image |-> Nobody, before |-> NoReading, reading |-> NoReading,
         views |-> Nothing, next |-> Nothing]

-----------------------------------------------------------------------------
At(p, pc, route) == tx[p].pc = pc /\ tx[p].route = route
CarOf(p)         == book[tx[p].row].car

Begin(p, request) == tx[p].pc = "idle" /\ tx' = [tx EXCEPT ![p] = request]

(* COMMIT or ROLLBACK, and the end of the request.                         *)
Released(lock, p) == [x \in DOMAIN lock |-> IF lock[x] = p THEN Nobody ELSE lock[x]]

Finish(p) ==
    /\ tx'       = [tx EXCEPT ![p] = Idle]
    /\ advisory' = Released(advisory, p)
    /\ rowLock'  = Released(rowLock, p)
    /\ carLock'  = Released(carLock, p)

Unchanged == UNCHANGED <<book, fleet, trail, overruled>>
Unlocked  == UNCHANGED <<advisory, rowLock, carLock>>

Init ==
    /\ \E plan \in Plans : book = [r \in Rows |-> Booked(plan[r])]
    /\ trail = [c \in Cars |->
          UNION { Written({}, r, "pickup", book[r].pickedOn) :
                  r \in { s \in Rows : book[s].car = c /\ book[s].pickedOn # NoDay } }]
    /\ \E found \in [Cars -> Found] :
          fleet = [c \in Cars |->
              [availability |-> Derived([availability |-> found[c], flagged |-> FALSE], FALSE,
                                        On(c, { book[r] : r \in Rows }), Today),
               flagged |-> FALSE,
               odometer |-> IF trail[c] = {} THEN Factory
                            ELSE Key(CHOOSE m \in trail[c] : TRUE)]]
    /\ advisory  = [c \in Cars |-> Nobody]
    /\ rowLock   = [r \in Rows |-> Nobody]
    /\ carLock   = [c \in Cars |-> Nobody]
    /\ tx        = [p \in Procs |-> Idle]
    /\ overruled = [c \in Cars |-> FALSE]

-----------------------------------------------------------------------------
(* The end of every handover: recomputeVehicleAvailability on the          *)
(* transaction's own executor, so it sees the committed rows and its own.  *)
Prepared(p, image, reading) ==
    [tx EXCEPT ![p].pc = "commit", ![p].image = image, ![p].reading = reading,
               ![p].next = [c \in {CarOf(p)} |-> Derived(fleet[c], FALSE,
                   On(c, BookWith(tx[p].row, image)), Today)]]

Trail(p) ==
    LET r == tx[p].row  past == trail[CarOf(p)] IN
    IF tx[p].route = "revert" THEN Erased(past, {r} \X Undone(book[r]))
    ELSE Written(past, r, tx[p].route, tx[p].day)

Commit(p) ==
    /\ tx[p].pc = "commit"
    /\ LET c == CarOf(p) IN
          /\ book'  = [book EXCEPT ![tx[p].row] = tx[p].image]
          /\ fleet' = [fleet EXCEPT ![c].availability = tx[p].next[c],
                                    ![c].odometer = IF tx[p].reading = NoReading
                                                    THEN @ ELSE tx[p].reading]
          /\ trail' = [trail EXCEPT ![c] = Trail(p)]
    /\ Finish(p) /\ UNCHANGED overruled

-----------------------------------------------------------------------------
(* POST /api/reservations/:id/pickup.  The reservation is read before the  *)
(* transaction; the vehicle is locked FOR UPDATE and judged by the gate;   *)
(* the reservation is written only if it is still booked.                  *)
BeginPickup(p, r, day, force) ==
    /\ "pickup" \in Routes
    /\ Present(r) /\ book[r].status = "booked"
    /\ Begin(p, [Idle EXCEPT !.pc = "car", !.route = "pickup", !.row = r, !.day = day,
                             !.force = force, !.early = Today < book[r].start.day])
    /\ Unchanged /\ Unlocked

(* Mutant: SELECT without FOR UPDATE.                                      *)
PickupReadsCar(p) ==
    /\ At(p, "car", "pickup")
    /\ LET c == CarOf(p) IN
          /\ ~HandoverRefused(fleet[c]) \/ tx[p].force
          /\ tx' = [tx EXCEPT ![p].pc = "row", ![p].before = fleet[c].odometer]
    /\ Unchanged /\ Unlocked

PickupLocksCar(p) ==
    /\ At(p, "car", "pickup")
    /\ LET c == CarOf(p) IN
          /\ carLock[c] = Nobody
          /\ ~HandoverRefused(fleet[c]) \/ tx[p].force
          /\ carLock' = [carLock EXCEPT ![c] = p]
          /\ tx' = [tx EXCEPT ![p].pc = "row", ![p].before = fleet[c].odometer]
    /\ Unchanged /\ UNCHANGED <<advisory, rowLock>>

PickupRefused(p) ==
    /\ At(p, "car", "pickup")
    /\ carLock[CarOf(p)] = Nobody
    /\ HandoverRefused(fleet[CarOf(p)]) /\ ~tx[p].force
    /\ Finish(p) /\ Unchanged

(* An UPDATE waits for a row only while the row meets its condition: the   *)
(* row of another status is not locked, and the answer is a 409.           *)
ExpectedAny(p) == book[tx[p].row].status   \* mutant: an UPDATE with no condition

Expected(p) == IF tx[p].route = "pickup" THEN "booked" ELSE "picked_up"

Overtaken(p) ==
    /\ tx[p].pc = "row" /\ tx[p].route \in Handovers
    /\ book[tx[p].row].status # Expected(p)
    /\ Finish(p) /\ Unchanged

WritableRow(p) ==
    LET r == tx[p].row IN
    /\ book[r].status = Expected(p)
    /\ rowLock[r] = Nobody
    /\ rowLock' = [rowLock EXCEPT ![r] = p]

PickupWritesRow(p) ==
    /\ At(p, "row", "pickup")
    /\ WritableRow(p)
    /\ tx' = Prepared(p, PickedUp(book[tx[p].row], tx[p].early, tx[p].day, tx[p].before),
                      <<tx[p].row, "pickup">>)
    /\ Unchanged /\ UNCHANGED <<advisory, carLock>>

-----------------------------------------------------------------------------
(* POST /api/reservations/:id/return.  The reservation first, if it is     *)
(* still out; then the vehicle, FOR NO KEY UPDATE, and its reading.        *)
BeginReturn(p, r, day) ==
    /\ "return" \in Routes
    /\ Present(r) /\ book[r].status = "picked_up"
    /\ book[r].pickedOn <= day
    /\ Begin(p, [Idle EXCEPT !.pc = "row", !.route = "return", !.row = r, !.day = day])
    /\ Unchanged /\ Unlocked

ReturnWritesRow(p) ==
    /\ At(p, "row", "return")
    /\ WritableRow(p)
    /\ tx' = [tx EXCEPT ![p].pc = "car",
                        ![p].image = BroughtBack(book[tx[p].row], tx[p].day)]
    /\ Unchanged /\ UNCHANGED <<advisory, carLock>>

FreeCar(p) ==
    LET c == CarOf(p) IN
    /\ carLock[c] = Nobody
    /\ carLock' = [carLock EXCEPT ![c] = p]

ReturnLocksCar(p) ==
    /\ At(p, "car", "return")
    /\ FreeCar(p)
    /\ tx' = Prepared(p, WithReading(tx[p].image, fleet[CarOf(p)].odometer),
                      <<tx[p].row, "return">>)
    /\ Unchanged /\ UNCHANGED <<advisory, rowLock>>

-----------------------------------------------------------------------------
(* POST /api/reservations/:id/revert: the advisory lock of the vehicle,    *)
(* the reservation FOR UPDATE, the vehicle FOR UPDATE, and the plan.       *)
BeginRevert(p, r) ==
    /\ "revert" \in Routes
    /\ Present(r)
    /\ advisory[book[r].car] = Nobody
    /\ advisory' = [advisory EXCEPT ![book[r].car] = p]
    /\ Begin(p, [Idle EXCEPT !.pc = "row", !.route = "revert", !.row = r])
    /\ Unchanged /\ UNCHANGED <<rowLock, carLock>>

RevertLocksRow(p) ==
    /\ At(p, "row", "revert")
    /\ Present(tx[p].row) /\ rowLock[tx[p].row] = Nobody
    /\ rowLock' = [rowLock EXCEPT ![tx[p].row] = p]
    /\ tx' = [tx EXCEPT ![p].pc = "car"]
    /\ Unchanged /\ UNCHANGED <<advisory, carLock>>

(* Something to undo, and for a cancellation a vehicle that can be booked. *)
Revertible(r) ==
    /\ book[r].kind = "rental"
    /\ book[r].status \in {"picked_up"} \cup ClosedStatuses
    /\ book[r].status = "cancelled" =>
          Verdict({ book[s] : s \in Rows \ {r} }, book[r], FALSE,
                  fleet[book[r].car].availability) = "bookable"

(* Mutant: the vehicle is read without FOR UPDATE.                         *)
RevertReadsCar(p) ==
    /\ At(p, "car", "revert")
    /\ Revertible(tx[p].row)
    /\ tx' = Prepared(p, Reverted(book[tx[p].row]), RestoreTo(tx[p].row))
    /\ Unchanged /\ Unlocked

RevertLocksCar(p) ==
    /\ At(p, "car", "revert")
    /\ Revertible(tx[p].row)
    /\ FreeCar(p)
    /\ tx' = Prepared(p, Reverted(book[tx[p].row]), RestoreTo(tx[p].row))
    /\ Unchanged /\ UNCHANGED <<advisory, rowLock>>

(* Deleted meanwhile; nothing to undo; or a plan that is not the one the   *)
(* client was shown (any fact may differ from its preview).                *)
RevertRefused(p) ==
    /\ \/ At(p, "row", "revert") /\ ~Present(tx[p].row) /\ rowLock[tx[p].row] = Nobody
       \/ At(p, "car", "revert") /\ carLock[CarOf(p)] = Nobody
    /\ Finish(p) /\ Unchanged

-----------------------------------------------------------------------------
(* PATCH /api/reservations/:id/status: the transition and the gate are     *)
(* judged on plain reads, and the UPDATE has no condition.                 *)
BeginStatus(p, r, to, force) ==
    /\ "status" \in Routes
    /\ Present(r) /\ book[r].kind = "rental"
    /\ to \in Transitions(book[r].status) \cup {book[r].status}
    /\ LET out == to = "picked_up" /\ book[r].status # "picked_up" IN
          /\ out => ~HandoverRefused(fleet[book[r].car]) \/ force
          /\ Begin(p, [Idle EXCEPT !.pc = "write", !.route = "status", !.row = r, !.to = to,
                                   !.early = out /\ Today < book[r].start.day])
    /\ Unchanged /\ Unlocked

(* A row changes behind the vehicle's back; recompute follows later.       *)
WriteBehind(p, r, row) ==
    /\ rowLock[r] = Nobody
    /\ book' = [book EXCEPT ![r] = row]
    /\ overruled' = [overruled EXCEPT ![row.car] = TRUE]
    /\ UNCHANGED <<fleet, trail>> /\ Unlocked

Recompute(route, cars, clear) ==
    [Idle EXCEPT !.pc = "read", !.route = route, !.cars = cars,
                 !.flag = IF clear THEN "lower" ELSE "keep"]

StatusWrite(p) ==
    LET r == tx[p].row IN
    /\ At(p, "write", "status")
    /\ Present(r)
    /\ WriteBehind(p, r, [Started(book[r], tx[p].early) EXCEPT !.status = tx[p].to])
    /\ tx' = [tx EXCEPT ![p] = Recompute("status", {book[r].car}, FALSE)]

StatusGone(p) ==
    /\ At(p, "write", "status")
    /\ ~Present(tx[p].row)
    /\ Finish(p) /\ Unchanged

Delete(p, r) ==
    /\ "delete" \in Routes
    /\ Present(r) /\ book[r].kind = "rental"
    /\ WriteBehind(p, r, [book[r] EXCEPT !.deleted = TRUE])
    /\ Begin(p, Recompute("delete", {book[r].car}, FALSE))

(* The toggle of the workshop flag (markVehicleForService), for a vehicle  *)
(* without a maintenance block today.                                      *)
Workshop(p, c, flagged) ==
    /\ "workshop" \in Routes
    /\ OpenBlocks(On(c, { book[r] : r \in Rows }), Today) = {}
    /\ carLock[c] = Nobody
    /\ fleet' = [fleet EXCEPT ![c].flagged = flagged]
    /\ overruled' = [overruled EXCEPT ![c] = TRUE]
    /\ Begin(p, Recompute("workshop", {c}, ~flagged))
    /\ UNCHANGED <<book, trail>> /\ Unlocked

(* The fleet-wide sweep: at night, and after a create or an edit.          *)
Sweep(p) ==
    /\ "sweep" \in Routes
    /\ Begin(p, Recompute("sweep", Cars, FALSE))
    /\ Unchanged /\ Unlocked

(* recomputeVehicleAvailability outside a transaction, and the sweep: read *)
(* the vehicles, read the reservations, write where the answer differs     *)
(* from what was read - one UPDATE for each value, with no condition.      *)
ReadVehicles(p) ==
    /\ tx[p].pc = "read"
    /\ tx' = [tx EXCEPT ![p].pc = "rows",
                        ![p].views = [c \in tx[p].cars |->
                            [availability |-> fleet[c].availability,
                             flagged      |-> fleet[c].flagged]]]
    /\ Unchanged /\ Unlocked

(* The workshop toggle works the availability out twice.                   *)
Ended(p) ==
    IF tx[p].route = "workshop"
      THEN Recompute("rework", tx[p].cars, tx[p].flag = "lower")
      ELSE Idle

ReadReservations(p) ==
    /\ tx[p].pc = "rows"
    /\ LET answer == [c \in tx[p].cars |->
                        Derived(tx[p].views[c], tx[p].flag = "lower",
                                On(c, { book[r] : r \in Rows }), Today)]
           stale  == { c \in tx[p].cars : answer[c] # tx[p].views[c].availability }
       IN IF stale = {}
            THEN tx' = [tx EXCEPT ![p] = Ended(p)]
            ELSE tx' = [tx EXCEPT ![p].pc = "put", ![p].cars = stale, ![p].views = Nothing,
                                  ![p].next = [c \in stale |-> answer[c]]]
    /\ Unchanged /\ Unlocked

PutAvailability(p) ==
    /\ tx[p].pc = "put"
    /\ \E value \in Availabilities :
          LET bucket == { c \in tx[p].cars : tx[p].next[c] = value }
              left   == tx[p].cars \ bucket
          IN /\ bucket # {}
             /\ \A c \in bucket : carLock[c] = Nobody
             /\ fleet' = [c \in Cars |-> IF c \in bucket
                             THEN [fleet[c] EXCEPT !.availability = value] ELSE fleet[c]]
             /\ overruled' = [c \in Cars |-> overruled[c] \/ c \in bucket]
             /\ IF left = {}
                  THEN tx' = [tx EXCEPT ![p] = Ended(p)]
                  ELSE tx' = [tx EXCEPT ![p].cars = left,
                                        ![p].next = [c \in left |-> tx[p].next[c]]]
    /\ UNCHANGED <<book, trail>> /\ Unlocked

-----------------------------------------------------------------------------
(* PATCH /api/vehicles/:id by staff: judged on reads, then one UPDATE.     *)
(* needs_fixing raises the workshop flag, available lowers it.             *)
BeginStaff(p, c, new) ==
    /\ "staff" \in Routes
    /\ new # fleet[c].availability
    /\ ~ManualChangeRefused(new, On(c, { book[r] : r \in Rows }), Today)
    /\ Begin(p, [Idle EXCEPT !.pc = "staff", !.route = "staff", !.cars = {c}, !.to = new,
                    !.flag = CASE new = "needs_fixing" /\ ~fleet[c].flagged -> "raise"
                               [] new = "available" /\ fleet[c].flagged -> "lower"
                               [] OTHER -> "keep"])
    /\ Unchanged /\ Unlocked

StaffWrite(p) ==
    /\ tx[p].pc = "staff"
    /\ \E c \in tx[p].cars :
          /\ carLock[c] = Nobody
          /\ fleet' = [fleet EXCEPT ![c].availability = tx[p].to,
                                    ![c].flagged = IF tx[p].flag = "keep" THEN @
                                                   ELSE tx[p].flag = "raise"]
          /\ overruled' = [overruled EXCEPT ![c] = TRUE]
    /\ tx' = [tx EXCEPT ![p] = Idle]
    /\ UNCHANGED <<book, trail>> /\ Unlocked

(* A reading entered by hand: one UPDATE of the vehicle.                   *)
EnterMileage(c) ==
    /\ "mileage" \in Routes
    /\ carLock[c] = Nobody
    /\ fleet' = [fleet EXCEPT ![c].odometer = HandWritten]
    /\ trail' = [trail EXCEPT ![c] = Written(@, Nobody, "by hand", Today)]
    /\ UNCHANGED <<book, tx, overruled>> /\ Unlocked

(* Who waits for whom.  PostgreSQL finds the circle and aborts one of the  *)
(* transactions in it.                                                     *)
WaitsFor(p, q) ==
    \/ /\ tx[p].pc = "row"
       /\ tx[p].route = "revert" \/ book[tx[p].row].status = Expected(p)
       /\ rowLock[tx[p].row] = q
    \/ tx[p].pc = "car" /\ carLock[CarOf(p)] = q

Circle(p, q) == p # q /\ WaitsFor(p, q) /\ WaitsFor(q, p)

DeadlockAbort(p) == (\E q \in Procs : Circle(p, q)) /\ Finish(p) /\ Unchanged

(* The server or the connection dies.                                      *)
Crash(p) == tx[p].pc # "idle" /\ Finish(p) /\ Unchanged

-----------------------------------------------------------------------------
Step(p) ==
    \/ PickupLocksCar(p) \/ PickupRefused(p) \/ PickupWritesRow(p) \/ Overtaken(p)
    \/ ReturnWritesRow(p) \/ ReturnLocksCar(p)
    \/ RevertLocksRow(p) \/ RevertLocksCar(p) \/ RevertRefused(p)
    \/ Commit(p) \/ DeadlockAbort(p)
    \/ StatusWrite(p) \/ StatusGone(p) \/ StaffWrite(p)
    \/ ReadVehicles(p) \/ ReadReservations(p) \/ PutAvailability(p)

Start(p) ==
    \/ \E r \in Rows :
          \/ \E day \in Dates, force \in Forced : BeginPickup(p, r, day, force)
          \/ \E day \in Dates : BeginReturn(p, r, day)
          \/ \E to \in Statuses, force \in Forced : BeginStatus(p, r, to, force)
          \/ BeginRevert(p, r) \/ Delete(p, r)
    \/ \E c \in Cars :
          \/ \E flagged \in BOOLEAN : Workshop(p, c, flagged)
          \/ \E new \in ByHand : BeginStaff(p, c, new)
    \/ Sweep(p)

Next ==
    \/ \E p \in Procs : Start(p) \/ Step(p) \/ Crash(p)
    \/ \E c \in Cars : EnterMileage(c)

Spec == Init /\ [][Next]_vars

-----------------------------------------------------------------------------
(* Every variable keeps its shape.                                         *)
TypeOK ==
    /\ book \in [Rows -> BookRows]
    /\ fleet \in [Cars -> Vehicles]
    /\ advisory \in [Cars -> Procs \cup {Nobody}]
    /\ rowLock \in [Rows -> Procs \cup {Nobody}]
    /\ carLock \in [Cars -> Procs \cup {Nobody}]
    /\ tx \in [Procs -> RequestType]
    /\ trail \in [Cars -> SUBSET Marks]
    /\ overruled \in [Cars -> BOOLEAN]

(* `not_for_rental` is a decision of staff and nothing derived overwrites  *)
(* it (BUG-109, lifecycle.ts).                                             *)
StaffDecisionStands ==
    [][\A c \in Cars :
          fleet[c].availability = "not_for_rental" /\ fleet'[c].availability # "not_for_rental"
             => \E p \in Procs : tx[p].pc = "staff" /\ tx'[p] = Idle]_vars

(* No handover takes that decision back, whatever else goes on: only staff *)
(* do, and recomputes that started before the decision was made.           *)
HandoversKeepStaffDecision ==
    [][\A c \in Cars :
          fleet[c].availability = "not_for_rental" /\ fleet'[c].availability # "not_for_rental"
             => \E p \in Procs : tx[p].pc \in {"staff", "put"} /\ tx'[p] # tx[p]]_vars

Commits(p, route) ==
    At(p, "commit", route) /\ book'[tx[p].row] # book[tx[p].row]

(* B-03: at the moment a pickup commits its vehicle is still one that may  *)
(* be handed over, unless an administrator forced it; what the gate has    *)
(* seen is still true.                                                     *)
GateStillHolds ==
    [][\A p \in Procs :
          Commits(p, "pickup") => ~HandoverRefused(fleet[CarOf(p)]) \/ tx[p].force]_vars

(* A handover stores the very reading it overwrites (design of 2026-10-09, *)
(* section 2.1), so undoing it puts back what the vehicle had.             *)
StoresWhatItOverwrites ==
    [][\A p \in Procs :
          LET row == book'[tx[p].row]  reading == fleet[CarOf(p)].odometer IN
          /\ Commits(p, "pickup") => row.beforePickup = reading
          /\ Commits(p, "return") => row.beforeReturn = reading]_vars

Restores(p) == Commits(p, "revert") /\ tx[p].reading # NoReading

(* planRevert: the reading goes back "only when that handover is still     *)
(* the vehicle's latest mileage write".                                    *)
RestoresLatestOnly ==
    [][\A p \in Procs : Restores(p) =>
          \E m \in Latest(trail[CarOf(p)]) : m.by = tx[p].row]_vars

(* A restore never goes over a handover of another rental on a later day,  *)
(* whatever has been deleted, cancelled or undone in between.              *)
LaterDaysSurvive ==
    [][\A p \in Procs : Restores(p) =>
          LET past == trail[CarOf(p)]
              mine == { m \in past : m.by = tx[p].row
                                        /\ m.kind \in Undone(book[tx[p].row]) }
          IN \A e \in past : \A m \in mine :
                e.by \notin {tx[p].row, Nobody} => e.day <= m.day]_vars

(* A pickup takes the vehicle first and a return its row, and still they   *)
(* never wait for one another: the only circle is a pickup against a       *)
(* revert of a row that is not picked up yet, which is refused anyway.     *)
OnlyDoomedRevertsDeadlock ==
    \A p, q \in Procs : Circle(p, q) =>
        \E x \in {p, q} : tx[x].route = "revert" /\ ~Revertible(tx[x].row)
=============================================================================
