----------------------------- MODULE Fleet_proofs -----------------------------
(* Proofs about Fleet, for any number of vehicles, reservations and         *)
(* requests, any calendar and any set of open routes.                       *)
EXTENDS Fleet, TLAPS

BookStatuses == LiveStatuses \cup ClosedStatuses
Handling     == Handovers \cup {"revert"}

(* Who holds the row lock of a reservation, and who that of a vehicle.     *)
HoldsRow(p) ==
    \/ At(p, "commit", "pickup")
    \/ tx[p].pc \in {"car", "commit"} /\ tx[p].route \in {"return", "revert"}

HoldsCar(p) ==
    \/ At(p, "row", "pickup")
    \/ tx[p].pc = "commit" /\ tx[p].route \in Handling

Holds(p) ==
    /\ \A r \in Rows : rowLock[r] = p <=> HoldsRow(p) /\ tx[p].row = r
    /\ \A c \in Cars : carLock[c] = p <=> HoldsCar(p) /\ CarOf(p) = c

(* Which fields a request has filled in at which step.                     *)
Filled(p) ==
    /\ tx[p].pc \in {"car", "row", "commit"} <=> tx[p].route \in Handling
    /\ tx[p].pc = "idle" => tx[p] = Idle
    /\ tx[p].pc = "write" => tx[p].to \in BookStatuses
    /\ tx[p].route \in Handling \/ tx[p].pc = "write" => tx[p].row \in Rows
    /\ tx[p].route \in Handovers => tx[p].day \in Dates
    /\ At(p, "row", "pickup") => tx[p].before \in Readings
    /\ tx[p].pc = "rows" => tx[p].views \in
           [tx[p].cars -> [availability : Availabilities, flagged : BOOLEAN]]
    /\ tx[p].pc = "put" => tx[p].next \in [tx[p].cars -> Availabilities]
    /\ tx[p].pc = "staff" => tx[p].to \in Availabilities

(* A pickup that has locked the vehicle knows its odometer and has passed  *)
(* the gate; it will write the row that is still booked.                   *)
PickupKnows(p) ==
    /\ tx[p].pc \in {"row", "commit"} /\ tx[p].route = "pickup" =>
          /\ tx[p].before = fleet[CarOf(p)].odometer
          /\ ~HandoverRefused(fleet[CarOf(p)]) \/ tx[p].force
    /\ At(p, "commit", "pickup") =>
          /\ book[tx[p].row].status = "booked"
          /\ tx[p].reading = <<tx[p].row, "pickup">>
          /\ tx[p].image = PickedUp(book[tx[p].row], tx[p].early, tx[p].day, tx[p].before)

(* A return has locked the row of a rental that is out, and at its COMMIT  *)
(* the vehicle too.                                                        *)
ReturnKnows(p) ==
    /\ At(p, "car", "return") =>
          /\ book[tx[p].row].status = "picked_up"
          /\ tx[p].image = BroughtBack(book[tx[p].row], tx[p].day)
    /\ At(p, "commit", "return") =>
          /\ book[tx[p].row].status = "picked_up"
          /\ tx[p].reading = <<tx[p].row, "return">>
          /\ tx[p].image = WithReading(BroughtBack(book[tx[p].row], tx[p].day),
                                       fleet[CarOf(p)].odometer)

(* The plan of a revert is still the plan at its COMMIT.                   *)
RevertKnows(p) ==
    At(p, "commit", "revert") =>
        /\ tx[p].image = Reverted(book[tx[p].row])
        /\ tx[p].reading # NoReading =>
              \E kind \in Undone(book[tx[p].row]) : ~LaterHandover(tx[p].row, kind)

(* The availability a handover is about to write follows from the rows.    *)
AnswerHolds(p) ==
    tx[p].pc = "commit" =>
        LET c == CarOf(p) IN
        /\ tx[p].next \in [{c} -> Availabilities]
        /\ fleet[c].availability = "not_for_rental" => tx[p].next[c] = "not_for_rental"
        /\ ~overruled[c] => tx[p].next[c] =
              Derived(fleet[c], FALSE, On(c, BookWith(tx[p].row, tx[p].image)), Today)

Knows(p) == PickupKnows(p) /\ ReturnKnows(p) /\ RevertKnows(p) /\ AnswerHolds(p)

(* A mark is of a handover the row still has on record.                    *)
MarksTrue ==
    \A c \in Cars : \A m \in trail[c] : m.by \in Rows =>
        /\ book[m.by].car = c /\ m.kind \in Handovers /\ m.day # NoDay
        /\ m.day = IF m.kind = "pickup" THEN book[m.by].pickedOn ELSE book[m.by].returnedOn

FleetInv ==
    /\ TypeOK /\ MarksTrue /\ Settled
    /\ \A p \in Procs : Holds(p) /\ Filled(p) /\ Knows(p)
-----------------------------------------------------------------------------
(* The rule for the availability of a vehicle: its answer is an            *)
(* availability, it does not take back a decision of staff, and asked      *)
(* again it says the same.                                                 *)
LEMMA DerivedTyped ==
    ASSUME NEW v, NEW clear, NEW rows, NEW today
    PROVE  Derived(v, clear, rows, today) \in Availabilities
BY DEF Derived, Availabilities

LEMMA DerivedKeepsDecision ==
    ASSUME NEW v, NEW clear, NEW rows, NEW today, v.availability = "not_for_rental"
    PROVE  Derived(v, clear, rows, today) = "not_for_rental"
BY DEF Derived

LEMMA DerivedSettles ==
    ASSUME NEW v, NEW w, NEW rows, NEW today,
           w.flagged = v.flagged, w.availability = Derived(v, FALSE, rows, today)
    PROVE  Derived(w, FALSE, rows, today) = w.availability
BY DEF Derived

-----------------------------------------------------------------------------
(* What a row may become.                                                  *)
LEMMA StartedTyped ==
    ASSUME NEW row \in BookRows, NEW early
    PROVE  /\ Started(row, early) \in BookRows
           /\ Started(row, early).car = row.car
           /\ Started(row, early).pickedOn = row.pickedOn
           /\ Started(row, early).returnedOn = row.returnedOn
BY TodayAssumption DEF Started, BookRows, Moment

LEMMA PickedUpTyped ==
    ASSUME NEW row \in BookRows, NEW early, NEW day \in Nat, NEW before \in Readings
    PROVE  /\ PickedUp(row, early, day, before) \in BookRows
           /\ PickedUp(row, early, day, before).car = row.car
           /\ PickedUp(row, early, day, before).pickedOn = day
           /\ PickedUp(row, early, day, before).returnedOn = row.returnedOn
           /\ PickedUp(row, early, day, before).beforePickup = before
<1>. DEFINE started == Started(row, early)
<1>1. started \in BookRows /\ started.car = row.car /\ started.returnedOn = row.returnedOn
    BY StartedTyped
<1>. HIDE DEF started
<1>2. PickedUp(row, early, day, before) =
        [started EXCEPT !.status = "picked_up", !.pickedOn = day, !.beforePickup = before]
    BY DEF PickedUp, started
<1>. QED BY <1>1, <1>2 DEF BookRows, LiveStatuses

LEMMA BroughtBackTyped ==
    ASSUME NEW row \in BookRows, NEW day \in Nat
    PROVE  /\ BroughtBack(row, day) \in BookRows
           /\ BroughtBack(row, day).car = row.car
           /\ BroughtBack(row, day).pickedOn = row.pickedOn
           /\ BroughtBack(row, day).returnedOn = day
BY DEF BroughtBack, BookRows, ClosedStatuses

LEMMA WithReadingTyped ==
    ASSUME NEW row \in BookRows, NEW before \in Readings
    PROVE  /\ WithReading(row, before) \in BookRows
           /\ WithReading(row, before).car = row.car
           /\ WithReading(row, before).pickedOn = row.pickedOn
           /\ WithReading(row, before).returnedOn = row.returnedOn
           /\ WithReading(row, before).beforeReturn = before
BY DEF WithReading, BookRows

LEMMA RevertedTyped ==
    ASSUME NEW row \in BookRows
    PROVE  Reverted(row) \in BookRows /\ Reverted(row).car = row.car
BY DEF Reverted, BookRows, LiveStatuses, NoDay

LEMMA NothingTyped == Nothing \in Views /\ Nothing \in Answers
<1>1. Nothing \in Views
    <2>1. Nothing \in [{} -> [availability : Availabilities, flagged : BOOLEAN]]
        BY DEF Nothing
    <2>. QED BY <2>1 DEF Views
<1>2. Nothing \in Answers
    <2>1. Nothing \in [{} -> Availabilities]
        BY DEF Nothing
    <2>. QED BY <2>1 DEF Answers
<1>. QED BY <1>1, <1>2

LEMMA IdleTyped == Idle \in RequestType
BY NothingTyped DEF Idle, RequestType, Steps, NoDay
-----------------------------------------------------------------------------
(* What a step of request p leaves to the others: their record and every   *)
(* lock they hold.  p = Nobody is a write without a request of its own.    *)
Others(p) ==
    /\ tx' \in [Procs -> RequestType]
    /\ advisory' \in [Cars -> Procs \cup {Nobody}]
    /\ rowLock' \in [Rows -> Procs \cup {Nobody}]
    /\ carLock' \in [Cars -> Procs \cup {Nobody}]
    /\ \A q \in Procs \ {p} :
          /\ tx'[q] = tx[q]
          /\ \A r \in Rows : rowLock'[r] = q <=> rowLock[r] = q
          /\ \A c \in Cars : carLock'[c] = q <=> carLock[c] = q

(* What a request relies on stays as it is: the row it has locked, and of  *)
(* the vehicle it has locked its columns, its handovers, and all its rows  *)
(* unless the vehicle is overruled.                                        *)
Undisturbed(q) ==
    /\ HoldsRow(q) => book'[tx[q].row] = book[tx[q].row]
    /\ HoldsCar(q) =>
          /\ fleet'[CarOf(q)] = fleet[CarOf(q)]
          /\ \A r \in Rows : book[r].car = CarOf(q) =>
                /\ book'[r].pickedOn = book[r].pickedOn
                /\ book'[r].returnedOn = book[r].returnedOn
          /\ ~overruled'[CarOf(q)] =>
                /\ ~overruled[CarOf(q)]
                /\ \A r \in Rows : book[r].car = CarOf(q) => book'[r] = book[r]

CarsKept == \A r \in Rows : book'[r].car = book[r].car

(* The rows of a vehicle that do not change, with one of them replaced.    *)
LEMMA SameRows ==
    ASSUME CarsKept, NEW c, NEW r \in Rows, NEW image,
           \A s \in Rows : book[s].car = c => book'[s] = book[s]
    PROVE  On(c, BookWith(r, image))' = On(c, BookWith(r, image))
BY DEF On, BookWith, CarsKept

LEMMA SameHandovers ==
    ASSUME CarsKept, NEW r \in Rows, NEW kind,
           \A s \in Rows : book[s].car = book[r].car =>
                book'[s].pickedOn = book[s].pickedOn /\ book'[s].returnedOn = book[s].returnedOn
    PROVE  LaterHandover(r, kind)' <=> LaterHandover(r, kind)
BY DEF LaterHandover, CarsKept

(* A request that is left in peace still knows what it knew.               *)
LEMMA KeepsKnowing ==
    ASSUME FleetInv, CarsKept, NEW q \in Procs, tx'[q] = tx[q], Undisturbed(q)
    PROVE  Knows(q)'
<1>1. Filled(q) /\ Knows(q)
    BY DEF FleetInv
<1>2. PickupKnows(q)'
    <2>1. CASE tx[q].pc \in {"row", "commit"} /\ tx[q].route = "pickup"
        <3>1. tx[q].row \in Rows /\ HoldsCar(q) /\ CarOf(q)' = CarOf(q)
            BY <1>1, <2>1 DEF Filled, Handling, Handovers, HoldsCar, At, CarOf, CarsKept
        <3>2. At(q, "commit", "pickup") => HoldsRow(q)
            BY DEF HoldsRow
        <3>. QED BY <1>1, <3>1, <3>2 DEF Knows, PickupKnows, Undisturbed, At, HandoverRefused
    <2>. QED BY <2>1 DEF PickupKnows, At
<1>3. ReturnKnows(q)'
    <2>1. CASE tx[q].pc \in {"car", "commit"} /\ tx[q].route = "return"
        <3>1. tx[q].row \in Rows /\ HoldsRow(q) /\ CarOf(q)' = CarOf(q)
            BY <1>1, <2>1 DEF Filled, Handling, Handovers, HoldsRow, At, CarOf, CarsKept
        <3>2. At(q, "commit", "return") => HoldsCar(q)
            BY DEF HoldsCar, At, Handling, Handovers
        <3>. QED BY <1>1, <3>1, <3>2
                 DEF Knows, ReturnKnows, Undisturbed, At, HoldsCar, CarOf
    <2>. QED BY <2>1 DEF ReturnKnows, At
<1>4. RevertKnows(q)'
    <2>1. CASE At(q, "commit", "revert")
        <3>1. tx[q].row \in Rows /\ HoldsRow(q) /\ HoldsCar(q)
            BY <1>1, <2>1 DEF Filled, Handling, HoldsRow, HoldsCar, At
        <3>2. \A kind : LaterHandover(tx[q].row, kind)' <=> LaterHandover(tx[q].row, kind)
            BY <3>1, SameHandovers DEF Undisturbed, CarOf
        <3>. QED BY <1>1, <2>1, <3>1, <3>2 DEF Knows, RevertKnows, Undisturbed, At
    <2>. QED BY <2>1 DEF RevertKnows, At
<1>5. AnswerHolds(q)'
    <2>1. CASE tx[q].pc = "commit"
        <3>1. tx[q].row \in Rows /\ HoldsCar(q) /\ CarOf(q)' = CarOf(q)
            BY <1>1, <2>1 DEF Filled, HoldsCar, At, CarOf, CarsKept
        <3>2. ~overruled'[CarOf(q)] =>
                 On(CarOf(q), BookWith(tx[q].row, tx[q].image))'
                   = On(CarOf(q), BookWith(tx[q].row, tx[q].image))
            BY <3>1, SameRows DEF Undisturbed
        <3>. QED BY <1>1, <2>1, <3>1, <3>2 DEF Knows, AnswerHolds, Undisturbed
    <2>. QED BY <2>1 DEF AnswerHolds
<1>. QED BY <1>2, <1>3, <1>4, <1>5 DEF Knows

(* A step keeps the invariant if it keeps the types, the marks and the     *)
(* settled vehicles, disturbs nobody else, and leaves the request that     *)
(* takes it with what its new step needs.                                  *)
LEMMA WriteStep ==
    ASSUME FleetInv, NEW p \in Procs \cup {Nobody}, Others(p), CarsKept,
           book' \in [Rows -> BookRows], fleet' \in [Cars -> Vehicles],
           trail' \in [Cars -> SUBSET Marks], overruled' \in [Cars -> BOOLEAN],
           MarksTrue', Settled',
           \A q \in Procs \ {p} : Undisturbed(q),
           p \in Procs => Holds(p)' /\ Filled(p)' /\ Knows(p)'
    PROVE  FleetInv'
<1>1. TypeOK'
    BY DEF FleetInv, TypeOK, Others
<1>2. ASSUME NEW q \in Procs, q # p
      PROVE  Holds(q)' /\ Filled(q)' /\ Knows(q)'
    <2>1. tx'[q] = tx[q] /\ Undisturbed(q) /\ Holds(q) /\ Filled(q)
        BY <1>2 DEF Others, FleetInv
    <2>2. Filled(q)'
        BY <2>1 DEF Filled, At
    <2>3. HoldsRow(q)' = HoldsRow(q) /\ HoldsCar(q)' = HoldsCar(q)
        BY <2>1 DEF HoldsRow, HoldsCar, At
    <2>4. HoldsCar(q) => CarOf(q)' = CarOf(q)
        BY <2>1 DEF HoldsCar, At, Filled, CarOf, CarsKept
    <2>5. Holds(q)'
        BY <1>2, <2>1, <2>3, <2>4 DEF Holds, Others
    <2>. QED BY <2>1, <2>2, <2>5, KeepsKnowing
<1>. QED BY <1>1, <1>2 DEF FleetInv

(* A step that writes nothing.                                             *)
LEMMA ReadStep ==
    ASSUME FleetInv, NEW p \in Procs, Unchanged, Others(p),
           Holds(p)', Filled(p)', Knows(p)'
    PROVE  FleetInv'
<1>1. CarsKept /\ \A q \in Procs : Undisturbed(q)
    BY DEF Unchanged, CarsKept, Undisturbed
<1>2. MarksTrue'
    BY DEF Unchanged, FleetInv, MarksTrue
<1>3. Settled'
    BY DEF Unchanged, FleetInv, Settled, On
<1>. QED BY <1>1, <1>2, <1>3, WriteStep DEF Unchanged, FleetInv, TypeOK
-----------------------------------------------------------------------------
(* A handover in progress is about a row, and the row about a vehicle.     *)
LEMMA InHand ==
    ASSUME FleetInv, NEW p \in Procs
    PROVE  /\ tx[p] \in RequestType /\ Holds(p) /\ Filled(p) /\ Knows(p)
           /\ tx[p].route \in Handling \/ tx[p].pc = "write" =>
                 /\ tx[p].row \in Rows /\ book[tx[p].row] \in BookRows
                 /\ CarOf(p) \in Cars /\ fleet[CarOf(p)] \in Vehicles
<1>1. \A r \in Rows : book[r] \in BookRows /\ book[r].car \in Cars
    BY DEF FleetInv, TypeOK, BookRows
<1>. QED BY <1>1 DEF FleetInv, TypeOK, Filled, CarOf

(* A step of p that takes no lock and gives none back.                     *)
LEMMA Alone ==
    ASSUME FleetInv, NEW p \in Procs, NEW w \in RequestType,
           tx' = [tx EXCEPT ![p] = w], Unlocked
    PROVE  Others(p) /\ tx'[p] = w
BY DEF FleetInv, TypeOK, Others, Unlocked

LEMMA CommitOrRollback ==
    ASSUME FleetInv, NEW p \in Procs, Finish(p)
    PROVE  Others(p) /\ Holds(p)' /\ Filled(p)' /\ Knows(p)'
<1>1. tx'[p] = Idle /\ tx' \in [Procs -> RequestType]
    BY IdleTyped DEF FleetInv, TypeOK, Finish
<1>2. /\ advisory' \in [Cars -> Procs \cup {Nobody}]
      /\ rowLock' \in [Rows -> Procs \cup {Nobody}]
      /\ carLock' \in [Cars -> Procs \cup {Nobody}]
    BY DEF FleetInv, TypeOK, Finish, Released
<1>3. /\ \A q \in Procs \ {p} : tx'[q] = tx[q]
      /\ \A q \in Procs \ {p}, r \in Rows : rowLock'[r] = q <=> rowLock[r] = q
      /\ \A q \in Procs \ {p}, c \in Cars : carLock'[c] = q <=> carLock[c] = q
      /\ \A r \in Rows : rowLock'[r] # p
      /\ \A c \in Cars : carLock'[c] # p
    BY NobodyAssumption DEF FleetInv, TypeOK, Finish, Released
<1>4. Others(p)
    BY <1>1, <1>2, <1>3 DEF Others
<1>5. Holds(p)'
    BY <1>1, <1>3 DEF Holds, HoldsRow, HoldsCar, At, Idle
<1>6. Filled(p)' /\ Knows(p)'
    BY <1>1 DEF Filled, Knows, PickupKnows, ReturnKnows, RevertKnows, AnswerHolds, At,
                Idle, Handling, Handovers
<1>. QED BY <1>4, <1>5, <1>6

(* Every way to end a request without having written.                      *)
LEMMA GivingUp ==
    ASSUME FleetInv, NEW p \in Procs, Finish(p), Unchanged
    PROVE  FleetInv'
BY CommitOrRollback, ReadStep

(* A request that begins, or goes on without a transaction: it owes what   *)
(* its fields say and nothing else.                                        *)
LEMMA FreshStep ==
    ASSUME FleetInv, NEW p \in Procs, NEW w \in RequestType,
           tx' = [tx EXCEPT ![p] = w], ~HoldsRow(p), ~HoldsCar(p),
           rowLock' = rowLock, carLock' = carLock,
           \/ /\ w.pc \in {"idle", "write", "read", "rows", "put", "staff"}
              /\ w.route \notin Handling
           \/ w.pc = "car" /\ w.route = "pickup"
           \/ w.pc = "row" /\ w.route \in {"return", "revert"}
    PROVE  Holds(p)' /\ Knows(p)'
<1>1. tx'[p] = w
    BY DEF FleetInv, TypeOK
<1>2. ~HoldsRow(p)' /\ ~HoldsCar(p)'
    BY <1>1 DEF HoldsRow, HoldsCar, At, Handling, Handovers
<1>3. \A r \in Rows : rowLock[r] # p
    BY DEF FleetInv, Holds
<1>4. \A c \in Cars : carLock[c] # p
    BY DEF FleetInv, Holds
<1>5. Holds(p)'
    BY <1>2, <1>3, <1>4 DEF Holds
<1>6. Knows(p)'
    BY <1>1 DEF Knows, PickupKnows, ReturnKnows, RevertKnows, AnswerHolds, At, Handling, Handovers
<1>. QED BY <1>5, <1>6

-----------------------------------------------------------------------------
(* The pickup.                                                             *)
LEMMA BeginPickupStep ==
    ASSUME FleetInv, NEW p \in Procs, NEW r \in Rows, NEW day \in Dates, NEW force \in Forced,
           BeginPickup(p, r, day, force)
    PROVE  FleetInv'
<1>. DEFINE w == [Idle EXCEPT !.pc = "car", !.route = "pickup", !.row = r, !.day = day,
                              !.force = force, !.early = Today < book[r].start.day]
<1>1. w \in RequestType
    <2>1. day \in Nat /\ force \in BOOLEAN /\ (Today < book[r].start.day) \in BOOLEAN
        BY DatesAssumption, ForcedAssumption
    <2>. QED BY <2>1, NothingTyped DEF w, Idle, RequestType, Steps, AllRoutes, NoDay
<1>2. tx' = [tx EXCEPT ![p] = w] /\ tx[p].pc = "idle"
    BY DEF BeginPickup, Begin
<1>3. w.pc = "car" /\ w.route = "pickup" /\ w.row = r /\ w.day = day
    BY DEF Idle
<1>. HIDE DEF w
<1>4. ~HoldsRow(p) /\ ~HoldsCar(p)
    BY <1>2 DEF HoldsRow, HoldsCar, At
<1>5. Unchanged /\ Unlocked
    BY DEF BeginPickup
<1>6. Holds(p)' /\ Knows(p)'
    BY <1>1, <1>2, <1>3, <1>4, <1>5, FreshStep DEF Unlocked
<1>7. Filled(p)'
    BY <1>1, <1>2, <1>3, <1>5, Alone DEF Filled, Handling, Handovers, At
<1>. QED BY <1>1, <1>2, <1>5, <1>6, <1>7, Alone, ReadStep

LEMMA PickupLocksCarStep ==
    ASSUME FleetInv, NEW p \in Procs, PickupLocksCar(p)
    PROVE  FleetInv'
<1>. DEFINE w == [tx[p] EXCEPT !.pc = "row", !.before = fleet[CarOf(p)].odometer]
<1>1. At(p, "car", "pickup") /\ carLock[CarOf(p)] = Nobody
    BY DEF PickupLocksCar
<1>2. /\ tx[p].row \in Rows /\ CarOf(p) \in Cars /\ fleet[CarOf(p)] \in Vehicles
      /\ tx[p] \in RequestType /\ Filled(p) /\ Holds(p)
    BY <1>1, InHand DEF At, Handling, Handovers
<1>3. w \in RequestType
    BY <1>2 DEF RequestType, Steps, Vehicles
<1>4. /\ tx' = [tx EXCEPT ![p] = w]
      /\ carLock' = [carLock EXCEPT ![CarOf(p)] = p] /\ rowLock' = rowLock /\ advisory' = advisory
      /\ Unchanged
      /\ ~HandoverRefused(fleet[CarOf(p)]) \/ tx[p].force
    BY DEF PickupLocksCar
<1>5. /\ w.pc = "row" /\ w.route = "pickup" /\ w.row = tx[p].row /\ w.day = tx[p].day
      /\ w.before = fleet[CarOf(p)].odometer /\ w.force = tx[p].force
      /\ w.before \in Readings
    BY <1>1, <1>2 DEF At, RequestType, Vehicles
<1>. HIDE DEF w
<1>6. tx'[p] = w /\ CarOf(p)' = CarOf(p)
    BY <1>4, <1>5 DEF FleetInv, TypeOK, CarOf, Unchanged
<1>7. Others(p)
    BY <1>1, <1>2, <1>3, <1>4, NobodyAssumption DEF FleetInv, TypeOK, Others
<1>8. Holds(p)'
    <2>1. ~HoldsRow(p) /\ ~HoldsCar(p) /\ ~HoldsRow(p)' /\ HoldsCar(p)'
        BY <1>1, <1>5, <1>6 DEF HoldsRow, HoldsCar, At, Handling, Handovers
    <2>2. \A c \in Cars : carLock'[c] = p <=> c = CarOf(p)
        BY <1>2, <1>4, <2>1 DEF Holds, FleetInv, TypeOK
    <2>. QED BY <1>2, <1>4, <1>6, <2>1, <2>2 DEF Holds
<1>9. Filled(p)'
    BY <1>1, <1>2, <1>5, <1>6 DEF Filled, Handling, Handovers, At
<1>10. Knows(p)'
    BY <1>4, <1>5, <1>6 DEF Knows, PickupKnows, ReturnKnows, RevertKnows, AnswerHolds,
                             At, HandoverRefused, Unchanged
<1>. QED BY <1>4, <1>7, <1>8, <1>9, <1>10, ReadStep

LEMMA PickupRefusedStep ==
    ASSUME FleetInv, NEW p \in Procs, PickupRefused(p) \/ Overtaken(p)
    PROVE  FleetInv'
BY GivingUp DEF PickupRefused, Overtaken

(* The last thing before the COMMIT of a handover: the availability is     *)
(* worked out from the rows as they are and the one that is to be written. *)
LEMMA Preparing ==
    ASSUME FleetInv, NEW p \in Procs, tx[p].route \in Handling, Unchanged,
           NEW image \in BookRows, NEW reading \in Readings \cup {NoReading},
           tx' = Prepared(p, image, reading)
    PROVE  /\ tx' \in [Procs -> RequestType]
           /\ \A q \in Procs \ {p} : tx'[q] = tx[q]
           /\ tx'[p].pc = "commit" /\ tx'[p].image = image /\ tx'[p].reading = reading
           /\ tx'[p].route = tx[p].route /\ tx'[p].row = tx[p].row /\ tx'[p].day = tx[p].day
           /\ tx'[p].before = tx[p].before /\ tx'[p].force = tx[p].force
           /\ tx'[p].early = tx[p].early
           /\ CarOf(p)' = CarOf(p)
           /\ Filled(p)' /\ AnswerHolds(p)'
<1>. DEFINE c == CarOf(p)
            rows == On(c, BookWith(tx[p].row, image))
            next == [k \in {c} |-> Derived(fleet[k], FALSE, On(k, BookWith(tx[p].row, image)), Today)]
            w == [tx[p] EXCEPT !.pc = "commit", !.image = image, !.reading = reading, !.next = next]
<1>1. tx[p].row \in Rows /\ c \in Cars /\ tx[p] \in RequestType /\ Filled(p)
    BY InHand
<1>2. /\ next \in [{c} -> Availabilities] /\ next \in Answers
      /\ next[c] = Derived(fleet[c], FALSE, rows, Today)
    <2>1. next \in [{c} -> Availabilities]
        BY DerivedTyped
    <2>2. {c} \in SUBSET Cars
        BY <1>1
    <2>. QED BY <2>1, <2>2 DEF Answers
<1>3. tx' = [tx EXCEPT ![p] = w]
    BY DEF Prepared
<1>. HIDE DEF c, rows, next
<1>4. w \in RequestType
    BY <1>1, <1>2 DEF RequestType, Steps
<1>5. /\ w.pc = "commit" /\ w.image = image /\ w.reading = reading /\ w.next = next
      /\ w.route = tx[p].route /\ w.row = tx[p].row /\ w.day = tx[p].day
      /\ w.before = tx[p].before /\ w.force = tx[p].force /\ w.early = tx[p].early
    BY <1>1 DEF RequestType
<1>. HIDE DEF w
<1>6. tx' \in [Procs -> RequestType] /\ tx'[p] = w /\ \A q \in Procs \ {p} : tx'[q] = tx[q]
    BY <1>3, <1>4 DEF FleetInv, TypeOK
<1>7. CarOf(p)' = c
    BY <1>5, <1>6 DEF CarOf, Unchanged, c
<1>8. Filled(p)'
    BY <1>1, <1>5, <1>6 DEF Filled, At, Handling, Handovers
<1>9. AnswerHolds(p)'
    <2>1. On(CarOf(p), BookWith(tx[p].row, tx[p].image))' = rows
        BY <1>5, <1>6, <1>7 DEF On, BookWith, rows, Unchanged
    <2>2. fleet[c].availability = "not_for_rental" => next[c] = "not_for_rental"
        BY <1>2, DerivedKeepsDecision
    <2>. QED BY <1>2, <1>5, <1>6, <1>7, <2>1, <2>2 DEF AnswerHolds, Unchanged
<1>. QED BY <1>5, <1>6, <1>7, <1>8, <1>9 DEF c

LEMMA PickupWritesRowStep ==
    ASSUME FleetInv, NEW p \in Procs, PickupWritesRow(p)
    PROVE  FleetInv'
<1>. DEFINE row == book[tx[p].row]
            image == PickedUp(row, tx[p].early, tx[p].day, tx[p].before)
            reading == <<tx[p].row, "pickup">>
<1>1. At(p, "row", "pickup") /\ tx[p].route \in Handling
    BY DEF PickupWritesRow, At, Handling, Handovers
<1>2. /\ tx[p].row \in Rows /\ row \in BookRows /\ CarOf(p) \in Cars
      /\ tx[p].day \in Nat /\ tx[p].before \in Readings
      /\ tx[p] \in RequestType /\ Filled(p) /\ Holds(p) /\ Knows(p)
    BY <1>1, InHand DEF Filled, At, RequestType
<1>3. image \in BookRows
    BY <1>2, PickedUpTyped
<1>4. reading \in Readings \cup {NoReading}
    BY <1>2 DEF Readings, Handovers
<1>5. /\ tx' = Prepared(p, image, reading) /\ Unchanged
      /\ row.status = "booked" /\ rowLock[tx[p].row] = Nobody
      /\ rowLock' = [rowLock EXCEPT ![tx[p].row] = p]
      /\ advisory' = advisory /\ carLock' = carLock
    BY <1>1 DEF PickupWritesRow, PickedUp, WritableRow, Expected, At
<1>. HIDE DEF image, reading, row
<1>6. /\ tx' \in [Procs -> RequestType]
      /\ \A q \in Procs \ {p} : tx'[q] = tx[q]
      /\ At(p, "commit", "pickup")'
      /\ tx'[p].image = image /\ tx'[p].reading = reading
      /\ tx'[p].row = tx[p].row /\ tx'[p].day = tx[p].day /\ tx'[p].force = tx[p].force
      /\ tx'[p].before = tx[p].before /\ tx'[p].early = tx[p].early
      /\ CarOf(p)' = CarOf(p) /\ Filled(p)' /\ AnswerHolds(p)'
    BY <1>1, <1>3, <1>4, <1>5, Preparing DEF At
<1>7. Others(p)
    BY <1>2, <1>5, <1>6, NobodyAssumption DEF FleetInv, TypeOK, Others
<1>8. Holds(p)'
    <2>1. ~HoldsRow(p) /\ HoldsCar(p) /\ HoldsRow(p)' /\ HoldsCar(p)'
        BY <1>1, <1>6 DEF HoldsRow, HoldsCar, At, Handling, Handovers
    <2>2. \A r \in Rows : rowLock'[r] = p <=> r = tx[p].row
        BY <1>2, <1>5, <2>1 DEF Holds, FleetInv, TypeOK
    <2>. QED BY <1>2, <1>5, <1>6, <2>1, <2>2 DEF Holds
<1>9. PickupKnows(p)'
    BY <1>1, <1>2, <1>5, <1>6 DEF Knows, PickupKnows, At, HandoverRefused, Unchanged,
                                  image, reading, row
<1>10. ReturnKnows(p)' /\ RevertKnows(p)'
    BY <1>6 DEF ReturnKnows, RevertKnows, At
<1>. QED BY <1>5, <1>6, <1>7, <1>8, <1>9, <1>10, ReadStep DEF Knows

-----------------------------------------------------------------------------
(* The return.                                                             *)
LEMMA BeginReturnStep ==
    ASSUME FleetInv, NEW p \in Procs, NEW r \in Rows, NEW day \in Dates, BeginReturn(p, r, day)
    PROVE  FleetInv'
<1>. DEFINE w == [Idle EXCEPT !.pc = "row", !.route = "return", !.row = r, !.day = day]
<1>1. w \in RequestType
    <2>1. day \in Nat
        BY DatesAssumption
    <2>. QED BY <2>1, NothingTyped DEF w, Idle, RequestType, Steps, AllRoutes, NoDay
<1>2. tx' = [tx EXCEPT ![p] = w] /\ tx[p].pc = "idle"
    BY DEF BeginReturn, Begin
<1>3. w.pc = "row" /\ w.route = "return" /\ w.row = r /\ w.day = day
    BY DEF Idle
<1>. HIDE DEF w
<1>4. ~HoldsRow(p) /\ ~HoldsCar(p)
    BY <1>2 DEF HoldsRow, HoldsCar, At
<1>5. Unchanged /\ Unlocked
    BY DEF BeginReturn
<1>6. Holds(p)' /\ Knows(p)'
    BY <1>1, <1>2, <1>3, <1>4, <1>5, FreshStep DEF Unlocked
<1>7. Filled(p)'
    BY <1>1, <1>2, <1>3, <1>5, Alone DEF Filled, Handling, Handovers, At
<1>. QED BY <1>1, <1>2, <1>5, <1>6, <1>7, Alone, ReadStep

LEMMA ReturnWritesRowStep ==
    ASSUME FleetInv, NEW p \in Procs, ReturnWritesRow(p)
    PROVE  FleetInv'
<1>. DEFINE row == book[tx[p].row]
            w == [tx[p] EXCEPT !.pc = "car", !.image = BroughtBack(row, tx[p].day)]
<1>1. At(p, "row", "return") /\ tx[p].route \in Handling
    BY DEF ReturnWritesRow, At, Handling, Handovers
<1>2. /\ tx[p].row \in Rows /\ row \in BookRows /\ CarOf(p) \in Cars
      /\ tx[p].day \in Nat /\ tx[p].day \in Dates
      /\ tx[p] \in RequestType /\ Filled(p) /\ Holds(p) /\ Knows(p)
    BY <1>1, InHand DEF Filled, At, RequestType, Handovers
<1>3. w \in RequestType
    BY <1>2, BroughtBackTyped DEF RequestType, Steps
<1>4. /\ tx' = [tx EXCEPT ![p] = w] /\ Unchanged
      /\ row.status = "picked_up" /\ rowLock[tx[p].row] = Nobody
      /\ rowLock' = [rowLock EXCEPT ![tx[p].row] = p]
      /\ advisory' = advisory /\ carLock' = carLock
    BY <1>1 DEF ReturnWritesRow, BroughtBack, WritableRow, Expected, At
<1>5. /\ w.pc = "car" /\ w.route = "return" /\ w.row = tx[p].row /\ w.day = tx[p].day
      /\ w.image = BroughtBack(row, tx[p].day)
    BY <1>1, <1>2 DEF At, RequestType
<1>. HIDE DEF w, row
<1>6. tx'[p] = w /\ CarOf(p)' = CarOf(p)
    BY <1>4, <1>5 DEF FleetInv, TypeOK, CarOf, Unchanged
<1>7. Others(p)
    BY <1>2, <1>3, <1>4, NobodyAssumption DEF FleetInv, TypeOK, Others
<1>8. Holds(p)'
    <2>1. ~HoldsRow(p) /\ ~HoldsCar(p) /\ HoldsRow(p)' /\ ~HoldsCar(p)'
        BY <1>1, <1>5, <1>6 DEF HoldsRow, HoldsCar, At, Handling, Handovers
    <2>2. \A r \in Rows : rowLock'[r] = p <=> r = tx[p].row
        BY <1>2, <1>4, <2>1 DEF Holds, FleetInv, TypeOK
    <2>. QED BY <1>2, <1>4, <1>5, <1>6, <2>1, <2>2 DEF Holds
<1>9. Filled(p)'
    BY <1>1, <1>2, <1>5, <1>6 DEF Filled, Handling, Handovers, At
<1>10. Knows(p)'
    BY <1>4, <1>5, <1>6 DEF Knows, PickupKnows, ReturnKnows, RevertKnows, AnswerHolds,
                             At, Unchanged, row
<1>. QED BY <1>4, <1>7, <1>8, <1>9, <1>10, ReadStep

LEMMA ReturnLocksCarStep ==
    ASSUME FleetInv, NEW p \in Procs, ReturnLocksCar(p)
    PROVE  FleetInv'
<1>. DEFINE row == book[tx[p].row]
            image == WithReading(tx[p].image, fleet[CarOf(p)].odometer)
            reading == <<tx[p].row, "return">>
<1>1. At(p, "car", "return") /\ tx[p].route \in Handling
    BY DEF ReturnLocksCar, At, Handling, Handovers
<1>2. /\ tx[p].row \in Rows /\ row \in BookRows /\ CarOf(p) \in Cars
      /\ fleet[CarOf(p)] \in Vehicles /\ tx[p].day \in Nat
      /\ tx[p] \in RequestType /\ Filled(p) /\ Holds(p) /\ Knows(p)
    BY <1>1, InHand DEF Filled, At, RequestType
<1>3. tx[p].image = BroughtBack(row, tx[p].day) /\ row.status = "picked_up"
    BY <1>1, <1>2 DEF Knows, ReturnKnows
<1>4. image \in BookRows
    <2>1. BroughtBack(row, tx[p].day) \in BookRows
        BY <1>2, BroughtBackTyped
    <2>. QED BY <1>2, <1>3, <2>1, WithReadingTyped DEF Vehicles
<1>5. reading \in Readings \cup {NoReading}
    BY <1>2 DEF Readings, Handovers
<1>6. /\ tx' = Prepared(p, image, reading) /\ Unchanged
      /\ carLock[CarOf(p)] = Nobody /\ carLock' = [carLock EXCEPT ![CarOf(p)] = p]
      /\ advisory' = advisory /\ rowLock' = rowLock
    BY DEF ReturnLocksCar, WithReading, FreeCar
<1>. HIDE DEF image, reading, row
<1>7. /\ tx' \in [Procs -> RequestType]
      /\ \A q \in Procs \ {p} : tx'[q] = tx[q]
      /\ At(p, "commit", "return")'
      /\ tx'[p].image = image /\ tx'[p].reading = reading
      /\ tx'[p].row = tx[p].row /\ tx'[p].day = tx[p].day
      /\ CarOf(p)' = CarOf(p) /\ Filled(p)' /\ AnswerHolds(p)'
    BY <1>1, <1>4, <1>5, <1>6, Preparing DEF At
<1>8. Others(p)
    BY <1>2, <1>6, <1>7, NobodyAssumption DEF FleetInv, TypeOK, Others
<1>9. Holds(p)'
    <2>1. HoldsRow(p) /\ ~HoldsCar(p) /\ HoldsRow(p)' /\ HoldsCar(p)'
        BY <1>1, <1>7 DEF HoldsRow, HoldsCar, At, Handling, Handovers
    <2>2. \A c \in Cars : carLock'[c] = p <=> c = CarOf(p)
        BY <1>2, <1>6, <2>1 DEF Holds, FleetInv, TypeOK
    <2>. QED BY <1>2, <1>6, <1>7, <2>1, <2>2 DEF Holds
<1>10. ReturnKnows(p)'
    BY <1>3, <1>6, <1>7 DEF ReturnKnows, At, Unchanged, image, reading, row
<1>11. PickupKnows(p)' /\ RevertKnows(p)'
    BY <1>7 DEF PickupKnows, RevertKnows, At
<1>. QED BY <1>6, <1>7, <1>8, <1>9, <1>10, <1>11, ReadStep DEF Knows

-----------------------------------------------------------------------------
(* The revert.                                                             *)
LEMMA BeginRevertStep ==
    ASSUME FleetInv, NEW p \in Procs, NEW r \in Rows, BeginRevert(p, r)
    PROVE  FleetInv'
<1>. DEFINE w == [Idle EXCEPT !.pc = "row", !.route = "revert", !.row = r]
<1>1. w \in RequestType
    BY NothingTyped DEF w, Idle, RequestType, Steps, AllRoutes, NoDay
<1>2. /\ tx' = [tx EXCEPT ![p] = w] /\ tx[p].pc = "idle" /\ Unchanged
      /\ rowLock' = rowLock /\ carLock' = carLock
      /\ advisory' = [advisory EXCEPT ![book[r].car] = p]
    BY DEF BeginRevert, Begin
<1>3. w.pc = "row" /\ w.route = "revert" /\ w.row = r
    BY DEF Idle
<1>. HIDE DEF w
<1>4. ~HoldsRow(p) /\ ~HoldsCar(p)
    BY <1>2 DEF HoldsRow, HoldsCar, At
<1>5. Others(p) /\ tx'[p] = w
    BY <1>1, <1>2 DEF FleetInv, TypeOK, Others
<1>6. Holds(p)' /\ Knows(p)'
    BY <1>1, <1>2, <1>3, <1>4, FreshStep
<1>7. Filled(p)'
    BY <1>3, <1>5 DEF Filled, Handling, Handovers, At
<1>. QED BY <1>2, <1>5, <1>6, <1>7, ReadStep

LEMMA RevertLocksRowStep ==
    ASSUME FleetInv, NEW p \in Procs, RevertLocksRow(p)
    PROVE  FleetInv'
<1>. DEFINE w == [tx[p] EXCEPT !.pc = "car"]
<1>1. At(p, "row", "revert") /\ tx[p].route \in Handling
    BY DEF RevertLocksRow, At, Handling
<1>2. tx[p].row \in Rows /\ tx[p] \in RequestType /\ Filled(p) /\ Holds(p)
    BY <1>1, InHand
<1>3. w \in RequestType
    BY <1>2 DEF RequestType, Steps
<1>4. /\ tx' = [tx EXCEPT ![p] = w] /\ Unchanged
      /\ rowLock[tx[p].row] = Nobody /\ rowLock' = [rowLock EXCEPT ![tx[p].row] = p]
      /\ advisory' = advisory /\ carLock' = carLock
    BY DEF RevertLocksRow
<1>5. w.pc = "car" /\ w.route = "revert" /\ w.row = tx[p].row
    BY <1>1, <1>2 DEF At, RequestType
<1>. HIDE DEF w
<1>6. tx'[p] = w
    BY <1>4 DEF FleetInv, TypeOK
<1>7. Others(p)
    BY <1>2, <1>3, <1>4, NobodyAssumption DEF FleetInv, TypeOK, Others
<1>8. Holds(p)'
    <2>1. ~HoldsRow(p) /\ ~HoldsCar(p) /\ HoldsRow(p)' /\ ~HoldsCar(p)'
        BY <1>1, <1>5, <1>6 DEF HoldsRow, HoldsCar, At, Handling, Handovers
    <2>2. \A r \in Rows : rowLock'[r] = p <=> r = tx[p].row
        BY <1>2, <1>4, <2>1 DEF Holds, FleetInv, TypeOK
    <2>. QED BY <1>2, <1>4, <1>5, <1>6, <2>1, <2>2 DEF Holds
<1>9. Filled(p)'
    BY <1>2, <1>5, <1>6 DEF Filled, Handling, Handovers, At
<1>10. Knows(p)'
    BY <1>5, <1>6 DEF Knows, PickupKnows, ReturnKnows, RevertKnows, AnswerHolds, At
<1>. QED BY <1>4, <1>7, <1>8, <1>9, <1>10, ReadStep

(* A reading that goes back belongs to a handover nobody has followed.     *)
LEMMA RestoreFollows ==
    ASSUME TypeOK, NEW r \in Rows
    PROVE  /\ RestoreTo(r) \in Readings \cup {NoReading}
           /\ RestoreTo(r) # NoReading =>
                 \E kind \in Undone(book[r]) : ~LaterHandover(r, kind)
<1>1. book[r].beforePickup \in Readings \cup {NoReading}
      /\ book[r].beforeReturn \in Readings \cup {NoReading}
    BY DEF TypeOK, BookRows
<1>. QED BY <1>1 DEF RestoreTo

LEMMA RevertLocksCarStep ==
    ASSUME FleetInv, NEW p \in Procs, RevertLocksCar(p)
    PROVE  FleetInv'
<1>. DEFINE row == book[tx[p].row]
            image == Reverted(row)
            reading == RestoreTo(tx[p].row)
<1>1. At(p, "car", "revert") /\ tx[p].route \in Handling
    BY DEF RevertLocksCar, At, Handling
<1>2. /\ tx[p].row \in Rows /\ row \in BookRows /\ CarOf(p) \in Cars
      /\ tx[p] \in RequestType /\ Filled(p) /\ Holds(p) /\ Knows(p)
    BY <1>1, InHand
<1>3. image \in BookRows /\ reading \in Readings \cup {NoReading}
    BY <1>2, RevertedTyped, RestoreFollows DEF FleetInv
<1>4. /\ tx' = Prepared(p, image, reading) /\ Unchanged
      /\ carLock[CarOf(p)] = Nobody /\ carLock' = [carLock EXCEPT ![CarOf(p)] = p]
      /\ advisory' = advisory /\ rowLock' = rowLock
    BY DEF RevertLocksCar, FreeCar
<1>5. reading # NoReading => \E kind \in Undone(row) : ~LaterHandover(tx[p].row, kind)
    BY <1>2, RestoreFollows DEF FleetInv
<1>. HIDE DEF image, reading, row
<1>6. /\ tx' \in [Procs -> RequestType]
      /\ \A q \in Procs \ {p} : tx'[q] = tx[q]
      /\ At(p, "commit", "revert")'
      /\ tx'[p].image = image /\ tx'[p].reading = reading
      /\ tx'[p].row = tx[p].row /\ CarOf(p)' = CarOf(p) /\ Filled(p)' /\ AnswerHolds(p)'
    BY <1>1, <1>3, <1>4, Preparing DEF At
<1>7. Others(p)
    BY <1>2, <1>4, <1>6, NobodyAssumption DEF FleetInv, TypeOK, Others
<1>8. Holds(p)'
    <2>1. HoldsRow(p) /\ ~HoldsCar(p) /\ HoldsRow(p)' /\ HoldsCar(p)'
        BY <1>1, <1>6 DEF HoldsRow, HoldsCar, At, Handling, Handovers
    <2>2. \A c \in Cars : carLock'[c] = p <=> c = CarOf(p)
        BY <1>2, <1>4, <2>1 DEF Holds, FleetInv, TypeOK
    <2>. QED BY <1>2, <1>4, <1>6, <2>1, <2>2 DEF Holds
<1>9. RevertKnows(p)'
    <2>1. \A kind : LaterHandover(tx[p].row, kind)' <=> LaterHandover(tx[p].row, kind)
        BY <1>2, <1>4, <1>6, SameHandovers DEF Unchanged, CarsKept
    <2>. QED BY <1>4, <1>5, <1>6, <2>1 DEF RevertKnows, At, Unchanged, image, row
<1>10. PickupKnows(p)' /\ ReturnKnows(p)'
    BY <1>6 DEF PickupKnows, ReturnKnows, At
<1>. QED BY <1>4, <1>6, <1>7, <1>8, <1>9, <1>10, ReadStep DEF Knows

LEMMA RevertRefusedStep ==
    ASSUME FleetInv, NEW p \in Procs, RevertRefused(p)
    PROVE  FleetInv'
BY GivingUp DEF RevertRefused

-----------------------------------------------------------------------------
(* The trail of a vehicle: what is left when marks are erased, and what is *)
(* there when one is written.                                              *)
Like(e, m) == e.by = m.by /\ e.kind = m.kind /\ e.day = m.day

LEMMA ErasedMarks ==
    ASSUME NEW marks \in SUBSET Marks, NEW keys
    PROVE  /\ Erased(marks, keys) \in SUBSET Marks
           /\ \A e \in Erased(marks, keys) : \E m \in marks : Key(m) \notin keys /\ Like(e, m)
<1>. SUFFICES ASSUME NEW e \in Erased(marks, keys)
              PROVE  /\ e \in Marks
                     /\ \E m \in marks : Key(m) \notin keys /\ Like(e, m)
    OBVIOUS
<1>1. PICK m \in marks : Key(m) \notin keys /\ e = [m EXCEPT !.over = @ \ keys]
    BY DEF Erased
<1>2. m \in Marks
    OBVIOUS
<1>3. e \in Marks /\ Like(e, m)
    BY <1>1, <1>2 DEF Marks, Like
<1>. QED BY <1>1, <1>3

LEMMA WrittenMarks ==
    ASSUME NEW marks \in SUBSET Marks, NEW r \in Rows \cup {Nobody},
           NEW kind \in Handovers \cup {"by hand"}, NEW day \in Nat
    PROVE  /\ Written(marks, r, kind, day) \in SUBSET Marks
           /\ \A e \in Written(marks, r, kind, day) :
                 \/ e.by = r /\ e.kind = kind /\ e.day = day
                 \/ \E m \in marks : Key(m) # <<r, kind>> /\ Like(e, m)
<1>. DEFINE rest == Erased(marks, {<<r, kind>>})
            new == [by |-> r, kind |-> kind, day |-> day, over |-> { Key(m) : m \in rest }]
<1>1. /\ rest \in SUBSET Marks
      /\ \A e \in rest : \E m \in marks : Key(m) # <<r, kind>> /\ Like(e, m)
    <2>. DEFINE keys == {<<r, kind>>}
    <2>1. \A m : Key(m) \notin keys <=> Key(m) # <<r, kind>>
        OBVIOUS
    <2>2. rest = Erased(marks, keys)
        OBVIOUS
    <2>. HIDE DEF keys, rest
    <2>3. /\ Erased(marks, keys) \in SUBSET Marks
          /\ \A e \in Erased(marks, keys) : \E m \in marks : Key(m) \notin keys /\ Like(e, m)
        BY ErasedMarks
    <2>. QED BY <2>1, <2>2, <2>3
<1>. HIDE DEF rest
<1>2. { Key(m) : m \in rest } \in SUBSET ((Rows \cup {Nobody}) \X (Handovers \cup {"by hand"}))
    <2>1. \A m \in rest : Key(m) \in (Rows \cup {Nobody}) \X (Handovers \cup {"by hand"})
        BY <1>1 DEF Key, Marks
    <2>. QED BY <2>1
<1>3. new \in Marks /\ new.by = r /\ new.kind = kind /\ new.day = day
    BY <1>2 DEF Marks
<1>. HIDE DEF new
<1>4. Written(marks, r, kind, day) = rest \cup {new}
    BY DEF Written, rest, new
<1>. QED BY <1>1, <1>3, <1>4

(* Reverting a row clears the days of what is undone and no others.        *)
LEMMA RevertedDays ==
    ASSUME NEW row \in BookRows
    PROVE  /\ "pickup" \notin Undone(row) => Reverted(row).pickedOn = row.pickedOn
           /\ "return" \notin Undone(row) => Reverted(row).returnedOn = row.returnedOn
BY DEF Reverted, Undone, BookRows

(* What a handover commits: a row of the same vehicle, and marks that say  *)
(* what that row says.                                                     *)
LEMMA WhatIsCommitted ==
    ASSUME FleetInv, NEW p \in Procs, tx[p].pc = "commit"
    PROVE  /\ tx[p].image \in BookRows /\ tx[p].image.car = CarOf(p)
           /\ tx[p].reading \in Readings \cup {NoReading}
           /\ Trail(p) \in SUBSET Marks
           /\ \A m \in Trail(p) :
                 \/ /\ m.by = tx[p].row /\ m.kind \in Handovers /\ m.day # NoDay
                    /\ m.day = IF m.kind = "pickup" THEN tx[p].image.pickedOn
                               ELSE tx[p].image.returnedOn
                 \/ /\ m.by # tx[p].row
                    /\ \E n \in trail[CarOf(p)] : m.by = n.by /\ m.kind = n.kind /\ m.day = n.day
<1>. DEFINE r == tx[p].row
            past == trail[CarOf(p)]
            Good(m) ==
                 \/ /\ m.by = r /\ m.kind \in Handovers /\ m.day # NoDay
                    /\ m.day = IF m.kind = "pickup" THEN tx[p].image.pickedOn
                               ELSE tx[p].image.returnedOn
                 \/ /\ m.by # r
                    /\ \E n \in past : m.by = n.by /\ m.kind = n.kind /\ m.day = n.day
<1>1. /\ r \in Rows /\ book[r] \in BookRows /\ CarOf(p) \in Cars /\ fleet[CarOf(p)] \in Vehicles
      /\ tx[p] \in RequestType /\ Filled(p) /\ Knows(p) /\ tx[p].route \in Handling
    BY InHand DEF FleetInv, Filled
<1>2. past \in SUBSET Marks
    BY <1>1 DEF FleetInv, TypeOK
<1>3. \A m \in past : m.by = r =>
          /\ m.kind \in Handovers /\ m.day # NoDay
          /\ m.day = IF m.kind = "pickup" THEN book[r].pickedOn ELSE book[r].returnedOn
    BY <1>1 DEF FleetInv, MarksTrue
<1>4. tx[p].reading \in Readings \cup {NoReading} /\ CarOf(p) = book[r].car
    BY <1>1 DEF RequestType, CarOf
<1>5. CASE tx[p].route = "pickup"
    <2>1. /\ tx[p].day \in Nat /\ tx[p].day # NoDay
          /\ tx[p].before \in Readings
          /\ tx[p].image = PickedUp(book[r], tx[p].early, tx[p].day, tx[p].before)
        <3>1. tx[p].before = fleet[CarOf(p)].odometer
            BY <1>1, <1>5 DEF Knows, PickupKnows
        <3>. QED BY <1>1, <1>5, <3>1, DatesAssumption
                 DEF Knows, PickupKnows, At, Vehicles, Filled, Handovers, NoDay
    <2>2. /\ tx[p].image \in BookRows /\ tx[p].image.car = book[r].car
          /\ tx[p].image.pickedOn = tx[p].day /\ tx[p].image.returnedOn = book[r].returnedOn
        BY <1>1, <2>1, PickedUpTyped
    <2>3. Trail(p) = Written(past, r, "pickup", tx[p].day)
        BY <1>5 DEF Trail
    <2>4. /\ Trail(p) \in SUBSET Marks
          /\ \A e \in Trail(p) :
                \/ e.by = r /\ e.kind = "pickup" /\ e.day = tx[p].day
                \/ \E m \in past : Key(m) # <<r, "pickup">> /\ Like(e, m)
        <3>1. r \in Rows \cup {Nobody}
            BY <1>1
        <3>. DEFINE day == tx[p].day
        <3>2. day \in Nat
            BY <2>1
        <3>3. "pickup" \in Handovers \cup {"by hand"}
            BY DEF Handovers
        <3>. HIDE DEF past, day, r
        <3>4. /\ Written(past, r, "pickup", day) \in SUBSET Marks
              /\ \A e \in Written(past, r, "pickup", day) :
                    \/ e.by = r /\ e.kind = "pickup" /\ e.day = day
                    \/ \E m \in past : Key(m) # <<r, "pickup">> /\ Like(e, m)
            BY <1>2, <3>1, <3>2, <3>3, WrittenMarks
        <3>. QED BY <2>3, <3>4 DEF day
    <2>5. \A e \in Trail(p) : Good(e)
        BY <1>3, <2>1, <2>2, <2>4 DEF Handovers, Key, Like
    <2>. QED BY <1>4, <2>2, <2>4, <2>5
<1>6. CASE tx[p].route = "return"
    <2>1. /\ tx[p].day \in Nat /\ tx[p].day # NoDay
          /\ tx[p].image = WithReading(BroughtBack(book[r], tx[p].day), fleet[CarOf(p)].odometer)
        BY <1>1, <1>6, DatesAssumption DEF Knows, ReturnKnows, At, Filled, Handovers, NoDay
    <2>2. /\ tx[p].image \in BookRows /\ tx[p].image.car = book[r].car
          /\ tx[p].image.pickedOn = book[r].pickedOn /\ tx[p].image.returnedOn = tx[p].day
        <3>. DEFINE back == BroughtBack(book[r], tx[p].day)
        <3>1. /\ back \in BookRows /\ back.car = book[r].car
              /\ back.pickedOn = book[r].pickedOn /\ back.returnedOn = tx[p].day
            BY <1>1, <2>1, BroughtBackTyped
        <3>2. fleet[CarOf(p)].odometer \in Readings
            BY <1>1 DEF Vehicles
        <3>. HIDE DEF back
        <3>. QED BY <2>1, <3>1, <3>2, WithReadingTyped DEF back
    <2>3. Trail(p) = Written(past, r, "return", tx[p].day)
        BY <1>6 DEF Trail
    <2>4. /\ Trail(p) \in SUBSET Marks
          /\ \A e \in Trail(p) :
                \/ e.by = r /\ e.kind = "return" /\ e.day = tx[p].day
                \/ \E m \in past : Key(m) # <<r, "return">> /\ Like(e, m)
        <3>1. r \in Rows \cup {Nobody}
            BY <1>1
        <3>. DEFINE day == tx[p].day
        <3>2. day \in Nat
            BY <2>1
        <3>3. "return" \in Handovers \cup {"by hand"}
            BY DEF Handovers
        <3>. HIDE DEF past, day, r
        <3>4. /\ Written(past, r, "return", day) \in SUBSET Marks
              /\ \A e \in Written(past, r, "return", day) :
                    \/ e.by = r /\ e.kind = "return" /\ e.day = day
                    \/ \E m \in past : Key(m) # <<r, "return">> /\ Like(e, m)
            BY <1>2, <3>1, <3>2, <3>3, WrittenMarks
        <3>. QED BY <2>3, <3>4 DEF day
    <2>5. \A e \in Trail(p) : Good(e)
        BY <1>3, <2>1, <2>2, <2>4 DEF Handovers, Key, Like
    <2>. QED BY <1>4, <2>2, <2>4, <2>5
<1>7. CASE tx[p].route = "revert"
    <2>1. tx[p].image = Reverted(book[r])
        BY <1>1, <1>7 DEF Knows, RevertKnows, At
    <2>2. Trail(p) = Erased(past, {r} \X Undone(book[r]))
        BY <1>7 DEF Trail
    <2>3. /\ Trail(p) \in SUBSET Marks
          /\ \A e \in Trail(p) : \E m \in past :
                Key(m) \notin {r} \X Undone(book[r]) /\ Like(e, m)
        BY <1>2, <2>2, ErasedMarks
    <2>4. \A e \in Trail(p) : Good(e)
        <3>. SUFFICES ASSUME NEW e \in Trail(p) PROVE Good(e)
            OBVIOUS
        <3>1. PICK m \in past : Key(m) \notin {r} \X Undone(book[r]) /\ Like(e, m)
            BY <2>3
        <3>2. m.by = r => m.kind \notin Undone(book[r])
            BY <3>1 DEF Key
        <3>3. e.by = m.by /\ e.kind = m.kind /\ e.day = m.day
            BY <3>1 DEF Like
        <3>4. m.by = r => m.day = IF m.kind = "pickup" THEN tx[p].image.pickedOn
                                  ELSE tx[p].image.returnedOn
            BY <1>1, <1>3, <2>1, <3>2, RevertedDays DEF Handovers
        <3>. QED BY <1>3, <3>3, <3>4
    <2>. QED BY <1>1, <1>4, <2>1, <2>3, <2>4, RevertedTyped
<1>. QED BY <1>1, <1>5, <1>6, <1>7 DEF Handling, Handovers

(* No two requests have the lock of the same row or the same vehicle.      *)
LEMMA LocksApart ==
    ASSUME FleetInv, NEW p \in Procs, NEW q \in Procs, p # q,
           tx[p].pc = "commit"
    PROVE  /\ HoldsRow(q) => tx[q].row \in Rows /\ tx[q].row # tx[p].row
           /\ HoldsCar(q) => tx[q].row \in Rows /\ CarOf(q) # CarOf(p)
<1>1. HoldsRow(p) /\ HoldsCar(p)
    BY InHand DEF HoldsRow, HoldsCar, At, Filled, Handling, Handovers
<1>2. HoldsRow(q) \/ HoldsCar(q) => tx[q].row \in Rows /\ CarOf(q) \in Cars
    BY InHand DEF HoldsRow, HoldsCar, At, Handling, Handovers
<1>3. Holds(p) /\ Holds(q)
    BY DEF FleetInv
<1>4. HoldsRow(q) => rowLock[tx[q].row] = q /\ (tx[q].row = tx[p].row => rowLock[tx[q].row] = p)
    BY <1>1, <1>2, <1>3 DEF Holds
<1>5. HoldsCar(q) => carLock[CarOf(q)] = q /\ (CarOf(q) = CarOf(p) => carLock[CarOf(q)] = p)
    BY <1>1, <1>2, <1>3 DEF Holds
<1>. QED BY <1>2, <1>4, <1>5

LEMMA CommitStep ==
    ASSUME FleetInv, NEW p \in Procs, Commit(p)
    PROVE  FleetInv'
<1>. DEFINE r == tx[p].row
            c == CarOf(p)
            image == tx[p].image
<1>1. tx[p].pc = "commit" /\ Finish(p) /\ overruled' = overruled
    BY DEF Commit
<1>2. /\ r \in Rows /\ c \in Cars /\ c = book[r].car /\ fleet[c] \in Vehicles
      /\ tx[p] \in RequestType /\ Filled(p) /\ Knows(p)
    BY <1>1, InHand DEF FleetInv, Filled, CarOf
<1>3. /\ image \in BookRows /\ image.car = c
      /\ tx[p].reading \in Readings \cup {NoReading} /\ Trail(p) \in SUBSET Marks
    BY <1>1, WhatIsCommitted
<1>4. /\ tx[p].next[c] \in Availabilities
      /\ ~overruled[c] => tx[p].next[c] =
            Derived(fleet[c], FALSE, On(c, BookWith(r, image)), Today)
    BY <1>1, <1>2 DEF Knows, AnswerHolds
<1>5. /\ book' = [book EXCEPT ![r] = image]
      /\ book' \in [Rows -> BookRows]
      /\ \A s \in Rows \ {r} : book'[s] = book[s]
      /\ book'[r] = image
    BY <1>2, <1>3 DEF Commit, FleetInv, TypeOK
<1>6. /\ fleet' \in [Cars -> Vehicles]
      /\ \A d \in Cars \ {c} : fleet'[d] = fleet[d]
      /\ fleet'[c].availability = tx[p].next[c] /\ fleet'[c].flagged = fleet[c].flagged
    BY <1>2, <1>3, <1>4 DEF Commit, FleetInv, TypeOK, Vehicles
<1>7. /\ trail' \in [Cars -> SUBSET Marks]
      /\ \A d \in Cars \ {c} : trail'[d] = trail[d]
      /\ trail'[c] = Trail(p)
    BY <1>2, <1>3 DEF Commit, FleetInv, TypeOK
<1>8. CarsKept
    BY <1>2, <1>3, <1>5 DEF CarsKept
<1>9. Others(p) /\ Holds(p)' /\ Filled(p)' /\ Knows(p)'
    BY <1>1, CommitOrRollback
<1>10. MarksTrue'
    <2>. SUFFICES ASSUME NEW d \in Cars, NEW m \in trail'[d], m.by \in Rows
                  PROVE  /\ book'[m.by].car = d /\ m.kind \in Handovers /\ m.day # NoDay
                         /\ m.day = IF m.kind = "pickup" THEN book'[m.by].pickedOn
                                    ELSE book'[m.by].returnedOn
        BY DEF MarksTrue
    <2>1. CASE d # c
        <3>1. m \in trail[d] /\ book[m.by].car = d
            BY <1>7, <2>1 DEF FleetInv, MarksTrue
        <3>2. m.by # r
            BY <1>2, <2>1, <3>1
        <3>. QED BY <1>5, <3>1, <3>2 DEF FleetInv, MarksTrue
    <2>2. CASE d = c /\ m.by = r
        BY <1>1, <1>3, <1>5, <1>7, <2>2, WhatIsCommitted
    <2>3. CASE d = c /\ m.by # r
        <3>1. PICK n \in trail[c] : m.by = n.by /\ m.kind = n.kind /\ m.day = n.day
            BY <1>1, <1>7, <2>3, WhatIsCommitted
        <3>. QED BY <1>2, <1>5, <2>3, <3>1 DEF FleetInv, MarksTrue
    <2>. QED BY <2>1, <2>2, <2>3
<1>11. Settled'
    <2>. SUFFICES ASSUME NEW d \in Cars, ~overruled[d]
                  PROVE  fleet'[d].availability =
                            Derived(fleet'[d], FALSE, On(d, { book'[s] : s \in Rows }), Today)
        BY <1>1 DEF Settled, On
    <2>1. CASE d # c
        <3>1. On(d, { book'[s] : s \in Rows }) = On(d, { book[s] : s \in Rows })
            BY <1>2, <1>3, <1>5, <2>1 DEF On
        <3>. QED BY <1>6, <2>1, <3>1 DEF FleetInv, Settled
    <2>2. CASE d = c
        <3>1. { book'[s] : s \in Rows } = BookWith(r, image)
            BY <1>5 DEF BookWith
        <3>. DEFINE rows == On(c, BookWith(r, image))
        <3>2. /\ fleet'[c].flagged = fleet[c].flagged
              /\ fleet'[c].availability = Derived(fleet[c], FALSE, rows, Today)
            BY <1>1, <1>4, <1>6, <2>2
        <3>. DEFINE was == fleet[c]  is == fleet'[c]
        <3>. HIDE DEF rows, was, is
        <3>3. is.flagged = was.flagged /\ is.availability = Derived(was, FALSE, rows, Today)
            BY <3>2 DEF was, is
        <3>4. Derived(is, FALSE, rows, Today) = is.availability
            BY <3>3, DerivedSettles
        <3>. QED BY <2>2, <3>1, <3>4 DEF rows, is
    <2>. QED BY <2>1, <2>2
<1>12. \A q \in Procs \ {p} : Undisturbed(q)
    <2>. SUFFICES ASSUME NEW q \in Procs \ {p} PROVE Undisturbed(q)
        OBVIOUS
    <2>1. /\ HoldsRow(q) => tx[q].row \in Rows /\ tx[q].row # r
          /\ HoldsCar(q) => CarOf(q) \in Cars /\ CarOf(q) # c
        BY <1>1, LocksApart, InHand DEF HoldsCar, At, Handling, Handovers
    <2>. QED BY <1>1, <1>2, <1>5, <1>6, <2>1 DEF Undisturbed
<1>. QED BY <1>1, <1>5, <1>6, <1>7, <1>8, <1>9, <1>10, <1>11, <1>12, WriteStep
         DEF FleetInv, TypeOK

-----------------------------------------------------------------------------
(* The writers that do not lock the vehicle.                               *)
LEMMA RecomputeTyped ==
    ASSUME NEW route \in {"status", "delete", "workshop", "sweep", "rework"},
           NEW cars \in SUBSET Cars, NEW clear \in BOOLEAN
    PROVE  /\ Recompute(route, cars, clear) \in RequestType
           /\ Recompute(route, cars, clear).pc = "read"
           /\ Recompute(route, cars, clear).route \notin Handling
<1>1. Recompute(route, cars, clear) \in RequestType
    BY NothingTyped DEF Recompute, Idle, RequestType, Steps, AllRoutes, NoDay
<1>. QED BY <1>1 DEF Recompute, Idle, Handling, Handovers

(* A free lock is nobody's, so nobody relies on the row or the vehicle.    *)
LEMMA FreeRow ==
    ASSUME FleetInv, NEW r \in Rows, rowLock[r] = Nobody, NEW q \in Procs, HoldsRow(q)
    PROVE  tx[q].row # r
BY NobodyAssumption DEF FleetInv, Holds

LEMMA FreeVehicle ==
    ASSUME FleetInv, NEW c \in Cars, carLock[c] = Nobody, NEW q \in Procs, HoldsCar(q)
    PROVE  CarOf(q) # c
BY NobodyAssumption DEF FleetInv, Holds

LEMMA WriteBehindStep ==
    ASSUME FleetInv, NEW p \in Procs, NEW r \in Rows, NEW row \in BookRows,
           row.car = book[r].car, row.pickedOn = book[r].pickedOn,
           row.returnedOn = book[r].returnedOn, WriteBehind(p, r, row),
           NEW w \in RequestType, tx' = [tx EXCEPT ![p] = w],
           w.pc = "read", w.route \notin Handling, ~HoldsRow(p), ~HoldsCar(p)
    PROVE  FleetInv'
<1>1. /\ rowLock[r] = Nobody /\ fleet' = fleet /\ trail' = trail /\ Unlocked
      /\ book' = [book EXCEPT ![r] = row]
      /\ overruled' = [overruled EXCEPT ![row.car] = TRUE]
    BY DEF WriteBehind
<1>2. /\ book' \in [Rows -> BookRows] /\ book[r] \in BookRows /\ row.car \in Cars
      /\ \A s \in Rows : s # r => book'[s] = book[s]
      /\ book'[r] = row
      /\ overruled' \in [Cars -> BOOLEAN] /\ overruled'[row.car]
      /\ \A d \in Cars : d # row.car => overruled'[d] = overruled[d]
    BY <1>1 DEF FleetInv, TypeOK, BookRows
<1>3. /\ CarsKept
      /\ \A s \in Rows : book'[s].pickedOn = book[s].pickedOn
                           /\ book'[s].returnedOn = book[s].returnedOn
      /\ \A d \in Cars : d # row.car =>
            On(d, { book'[s] : s \in Rows }) = On(d, { book[s] : s \in Rows })
    <2>1. \A s \in Rows : /\ book'[s].car = book[s].car
                          /\ book'[s].car # row.car => book'[s] = book[s]
        BY <1>2
    <2>. QED BY <1>2, <2>1 DEF CarsKept, On
<1>4. MarksTrue'
    BY <1>1, <1>3 DEF FleetInv, MarksTrue, CarsKept
<1>5. Settled'
    <2>. SUFFICES ASSUME NEW d \in Cars, ~overruled'[d]
                  PROVE  fleet'[d].availability =
                            Derived(fleet'[d], FALSE, On(d, { book'[s] : s \in Rows }), Today)
        BY DEF Settled, On
    <2>. QED BY <1>1, <1>2, <1>3 DEF FleetInv, Settled
<1>6. \A q \in Procs : Undisturbed(q)
    <2>. SUFFICES ASSUME NEW q \in Procs PROVE Undisturbed(q)
        OBVIOUS
    <2>1. HoldsRow(q) => tx[q].row \in Rows /\ tx[q].row # r
        BY <1>1, FreeRow, InHand DEF HoldsRow, At, Handling, Handovers
    <2>2. HoldsCar(q) => CarOf(q) \in Cars
        BY InHand DEF HoldsCar, At, Handling, Handovers
    <2>. QED BY <1>1, <1>2, <1>3, <2>1, <2>2 DEF Undisturbed
<1>7. Holds(p)' /\ Knows(p)'
    BY <1>1, FreshStep DEF Unlocked
<1>8. Others(p) /\ tx'[p] = w
    BY <1>1, Alone
<1>9. Filled(p)'
    BY <1>8 DEF Filled, At, Handling, Handovers
<1>. QED BY <1>1, <1>2, <1>3, <1>4, <1>5, <1>6, <1>7, <1>8, <1>9, WriteStep
         DEF FleetInv, TypeOK

(* A write of vehicles that nobody has locked: they are overruled, or only *)
(* the odometer changes.                                                   *)
LEMMA FleetWriteStep ==
    ASSUME FleetInv, NEW p \in Procs \cup {Nobody}, Others(p), book' = book,
           fleet' \in [Cars -> Vehicles], overruled' \in [Cars -> BOOLEAN],
           trail' \in [Cars -> SUBSET Marks], MarksTrue',
           \A c \in Cars :
              \/ fleet'[c] = fleet[c] /\ overruled'[c] = overruled[c]
              \/ carLock[c] = Nobody /\ overruled'[c]
              \/ /\ carLock[c] = Nobody /\ overruled'[c] = overruled[c]
                 /\ fleet'[c].availability = fleet[c].availability
                 /\ fleet'[c].flagged = fleet[c].flagged,
           p \in Procs => Holds(p)' /\ Filled(p)' /\ Knows(p)'
    PROVE  FleetInv'
<1>1. CarsKept /\ book' \in [Rows -> BookRows]
    BY DEF CarsKept, FleetInv, TypeOK
<1>2. Settled'
    <2>. SUFFICES ASSUME NEW d \in Cars, ~overruled'[d]
                  PROVE  fleet'[d].availability =
                            Derived(fleet'[d], FALSE, On(d, { book[s] : s \in Rows }), Today)
        BY DEF Settled, On
    <2>. DEFINE was == fleet[d]  is == fleet'[d]  rows == On(d, { book[s] : s \in Rows })
    <2>1. is.availability = was.availability /\ is.flagged = was.flagged /\ ~overruled[d]
        OBVIOUS
    <2>2. was.availability = Derived(was, FALSE, rows, Today)
        BY <2>1 DEF FleetInv, Settled
    <2>. HIDE DEF was, is, rows
    <2>3. is.availability = Derived(is, FALSE, rows, Today)
        <3>1. Derived(is, FALSE, rows, Today) = Derived(was, FALSE, rows, Today)
            BY <2>1 DEF Derived
        <3>. QED BY <2>1, <2>2, <3>1
    <2>. QED BY <2>3 DEF is, rows
<1>3. \A q \in Procs : Undisturbed(q)
    <2>. SUFFICES ASSUME NEW q \in Procs PROVE Undisturbed(q)
        OBVIOUS
    <2>1. HoldsCar(q) => CarOf(q) \in Cars /\ carLock[CarOf(q)] # Nobody
        BY FreeVehicle, InHand DEF HoldsCar, At, Handling, Handovers
    <2>. QED BY <2>1 DEF Undisturbed
<1>. QED BY <1>1, <1>2, <1>3, WriteStep

-----------------------------------------------------------------------------
(* The status route and the recycle bin.                                   *)
LEMMA BeginStatusStep ==
    ASSUME FleetInv, NEW p \in Procs, NEW r \in Rows, NEW to \in Statuses,
           NEW force \in Forced, BeginStatus(p, r, to, force)
    PROVE  FleetInv'
<1>. DEFINE early == /\ to = "picked_up" /\ book[r].status # "picked_up"
                     /\ Today < book[r].start.day
            w == [Idle EXCEPT !.pc = "write", !.route = "status", !.row = r, !.to = to,
                              !.early = early]
<1>1. w \in RequestType
    <2>1. early \in BOOLEAN
        OBVIOUS
    <2>. HIDE DEF early
    <2>. QED BY <2>1, NothingTyped DEF w, Idle, RequestType, Steps, AllRoutes, NoDay
<1>2. tx' = [tx EXCEPT ![p] = w] /\ tx[p].pc = "idle" /\ Unchanged /\ Unlocked
    BY DEF BeginStatus, Begin
<1>3. w.pc = "write" /\ w.route = "status" /\ w.row = r /\ w.to = to
    BY DEF Idle
<1>. HIDE DEF w
<1>4. to \in BookStatuses
    <2>1. to \in Transitions(book[r].status) \cup {book[r].status}
        BY DEF BeginStatus
    <2>2. book[r].status \in BookStatuses
        BY DEF FleetInv, TypeOK, BookRows, BookStatuses
    <2>. QED BY <2>1, <2>2 DEF Transitions, BookStatuses, LiveStatuses, ClosedStatuses
<1>5. ~HoldsRow(p) /\ ~HoldsCar(p)
    BY <1>2 DEF HoldsRow, HoldsCar, At
<1>6. Holds(p)' /\ Knows(p)'
    BY <1>1, <1>2, <1>3, <1>5, FreshStep DEF Unlocked, Handling, Handovers
<1>7. Filled(p)'
    BY <1>1, <1>2, <1>3, <1>4, Alone DEF Filled, Handling, Handovers, At
<1>. QED BY <1>1, <1>2, <1>6, <1>7, Alone, ReadStep

LEMMA StatusWriteStep ==
    ASSUME FleetInv, NEW p \in Procs, StatusWrite(p)
    PROVE  FleetInv'
<1>. DEFINE r == tx[p].row
            started == Started(book[r], tx[p].early)
            row == [started EXCEPT !.status = tx[p].to]
            cars == {book[r].car}
            w == Recompute("status", cars, FALSE)
<1>1. At(p, "write", "status")
    BY DEF StatusWrite
<1>2. r \in Rows /\ book[r] \in BookRows /\ book[r].car \in Cars /\ tx[p].to \in BookStatuses
    BY <1>1, InHand DEF At, Filled, CarOf
<1>3. /\ started \in BookRows /\ started.car = book[r].car
      /\ started.pickedOn = book[r].pickedOn /\ started.returnedOn = book[r].returnedOn
    BY <1>2, StartedTyped
<1>4. WriteBehind(p, r, row) /\ tx' = [tx EXCEPT ![p] = w]
    BY DEF StatusWrite
<1>. HIDE DEF started
<1>5. /\ row \in BookRows /\ row.car = book[r].car
      /\ row.pickedOn = book[r].pickedOn /\ row.returnedOn = book[r].returnedOn
    BY <1>2, <1>3 DEF BookRows, BookStatuses
<1>6. w \in RequestType /\ w.pc = "read" /\ w.route \notin Handling
    <2>1. cars \in SUBSET Cars
        BY <1>2
    <2>. HIDE DEF cars
    <2>. QED BY <2>1, RecomputeTyped
<1>7. ~HoldsRow(p) /\ ~HoldsCar(p)
    BY <1>1 DEF HoldsRow, HoldsCar, At
<1>. HIDE DEF row, w, r
<1>. QED BY <1>2, <1>4, <1>5, <1>6, <1>7, WriteBehindStep

LEMMA StatusGoneStep ==
    ASSUME FleetInv, NEW p \in Procs, StatusGone(p)
    PROVE  FleetInv'
BY GivingUp DEF StatusGone

LEMMA DeleteStep ==
    ASSUME FleetInv, NEW p \in Procs, NEW r \in Rows, Delete(p, r)
    PROVE  FleetInv'
<1>. DEFINE row == [book[r] EXCEPT !.deleted = TRUE]
            cars == {book[r].car}
            w == Recompute("delete", cars, FALSE)
<1>1. WriteBehind(p, r, row) /\ tx' = [tx EXCEPT ![p] = w] /\ tx[p].pc = "idle"
    BY DEF Delete, Begin
<1>2. book[r] \in BookRows /\ book[r].car \in Cars
    BY DEF FleetInv, TypeOK, BookRows
<1>3. /\ row \in BookRows /\ row.car = book[r].car
      /\ row.pickedOn = book[r].pickedOn /\ row.returnedOn = book[r].returnedOn
    BY <1>2 DEF BookRows
<1>4. w \in RequestType /\ w.pc = "read" /\ w.route \notin Handling
    <2>1. cars \in SUBSET Cars
        BY <1>2
    <2>. HIDE DEF cars
    <2>. QED BY <2>1, RecomputeTyped
<1>5. ~HoldsRow(p) /\ ~HoldsCar(p)
    BY <1>1 DEF HoldsRow, HoldsCar, At
<1>. HIDE DEF row, w
<1>. QED BY <1>1, <1>3, <1>4, <1>5, WriteBehindStep

-----------------------------------------------------------------------------
(* The workshop flag, and the recompute of one vehicle or of the fleet.    *)
LEMMA WorkshopStep ==
    ASSUME FleetInv, NEW p \in Procs, NEW c \in Cars, NEW flagged \in BOOLEAN,
           Workshop(p, c, flagged)
    PROVE  FleetInv'
<1>. DEFINE cars == {c}  clear == ~flagged
            w == Recompute("workshop", cars, clear)
<1>1. /\ carLock[c] = Nobody /\ fleet' = [fleet EXCEPT ![c].flagged = flagged]
      /\ overruled' = [overruled EXCEPT ![c] = TRUE]
      /\ tx' = [tx EXCEPT ![p] = w] /\ tx[p].pc = "idle"
      /\ book' = book /\ trail' = trail /\ Unlocked
    BY DEF Workshop, Begin
<1>2. w \in RequestType /\ w.pc = "read" /\ w.route \notin Handling
    <2>1. cars \in SUBSET Cars /\ clear \in BOOLEAN
        OBVIOUS
    <2>. HIDE DEF cars, clear
    <2>. QED BY <2>1, RecomputeTyped
<1>. HIDE DEF w
<1>3. /\ fleet' \in [Cars -> Vehicles] /\ overruled' \in [Cars -> BOOLEAN]
      /\ overruled'[c]
      /\ \A d \in Cars : d # c => fleet'[d] = fleet[d] /\ overruled'[d] = overruled[d]
    BY <1>1 DEF FleetInv, TypeOK, Vehicles
<1>4. ~HoldsRow(p) /\ ~HoldsCar(p)
    BY <1>1 DEF HoldsRow, HoldsCar, At
<1>5. Holds(p)' /\ Knows(p)'
    BY <1>1, <1>2, <1>4, FreshStep DEF Unlocked
<1>6. Others(p) /\ tx'[p] = w
    BY <1>1, <1>2, Alone
<1>7. Filled(p)'
    BY <1>2, <1>6 DEF Filled, Handling, Handovers, At
<1>8. MarksTrue' /\ trail' \in [Cars -> SUBSET Marks]
    BY <1>1 DEF FleetInv, TypeOK, MarksTrue
<1>. QED BY <1>1, <1>3, <1>5, <1>6, <1>7, <1>8, FleetWriteStep

LEMMA SweepStep ==
    ASSUME FleetInv, NEW p \in Procs, Sweep(p)
    PROVE  FleetInv'
<1>. DEFINE w == Recompute("sweep", Cars, FALSE)
<1>1. tx' = [tx EXCEPT ![p] = w] /\ tx[p].pc = "idle" /\ Unchanged /\ Unlocked
    BY DEF Sweep, Begin
<1>2. w \in RequestType /\ w.pc = "read" /\ w.route \notin Handling
    BY RecomputeTyped
<1>. HIDE DEF w
<1>3. ~HoldsRow(p) /\ ~HoldsCar(p)
    BY <1>1 DEF HoldsRow, HoldsCar, At
<1>4. Holds(p)' /\ Knows(p)'
    BY <1>1, <1>2, <1>3, FreshStep DEF Unlocked
<1>5. Filled(p)'
    BY <1>1, <1>2, Alone DEF Filled, Handling, Handovers, At
<1>. QED BY <1>1, <1>2, <1>4, <1>5, Alone, ReadStep

(* A request that is past its transaction, or never had one.               *)
LEMMA OutsideTransaction ==
    ASSUME FleetInv, NEW p \in Procs, tx[p].pc \in {"read", "rows", "put", "staff"}
    PROVE  /\ ~HoldsRow(p) /\ ~HoldsCar(p) /\ tx[p].route \notin Handling
           /\ tx[p] \in RequestType /\ Filled(p)
BY InHand DEF HoldsRow, HoldsCar, At, Filled

LEMMA EndedTyped ==
    ASSUME FleetInv, NEW p \in Procs
    PROVE  /\ Ended(p) \in RequestType
           /\ Ended(p).pc = "idle" => Ended(p) = Idle
           /\ Ended(p).pc \in {"idle", "read"} /\ Ended(p).route \notin Handling
<1>1. CASE tx[p].route = "workshop"
    <2>1. tx[p].cars \in SUBSET Cars /\ (tx[p].flag = "lower") \in BOOLEAN
        BY InHand DEF RequestType
    <2>. QED BY <1>1, <2>1, RecomputeTyped DEF Ended
<1>2. CASE tx[p].route # "workshop"
    BY <1>2, IdleTyped DEF Ended, Idle, Handling, Handovers
<1>. QED BY <1>1, <1>2

LEMMA ReadVehiclesStep ==
    ASSUME FleetInv, NEW p \in Procs, ReadVehicles(p)
    PROVE  FleetInv'
<1>. DEFINE views == [c \in tx[p].cars |-> [availability |-> fleet[c].availability,
                                            flagged |-> fleet[c].flagged]]
            w == [tx[p] EXCEPT !.pc = "rows", !.views = views]
<1>1. tx[p].pc = "read" /\ tx' = [tx EXCEPT ![p] = w] /\ Unchanged /\ Unlocked
    BY DEF ReadVehicles
<1>2. /\ ~HoldsRow(p) /\ ~HoldsCar(p) /\ tx[p].route \notin Handling
      /\ tx[p] \in RequestType /\ Filled(p)
    BY <1>1, OutsideTransaction
<1>3. /\ tx[p].cars \in SUBSET Cars
      /\ views \in [tx[p].cars -> [availability : Availabilities, flagged : BOOLEAN]]
    BY <1>2 DEF RequestType, FleetInv, TypeOK, Vehicles
<1>4. views \in Views
    BY <1>3 DEF Views
<1>. HIDE DEF views
<1>5. w \in RequestType /\ w.pc = "rows" /\ w.route = tx[p].route /\ w.views = views
      /\ w.cars = tx[p].cars
    <2>1. w \in RequestType
        BY <1>2, <1>4 DEF RequestType, Steps
    <2>2. w.pc = "rows" /\ w.route = tx[p].route
        BY <1>2 DEF RequestType
    <2>3. w.views = views /\ w.cars = tx[p].cars
        BY <1>2 DEF RequestType
    <2>. HIDE DEF w
    <2>. QED BY <2>1, <2>2, <2>3
<1>. HIDE DEF w
<1>6. Holds(p)' /\ Knows(p)'
    BY <1>1, <1>2, <1>5, FreshStep DEF Unlocked
<1>7. Filled(p)'
    BY <1>1, <1>2, <1>3, <1>5, Alone DEF Filled, Handling, Handovers, At
<1>. QED BY <1>1, <1>5, <1>6, <1>7, Alone, ReadStep

LEMMA ReadReservationsStep ==
    ASSUME FleetInv, NEW p \in Procs, ReadReservations(p)
    PROVE  FleetInv'
<1>. DEFINE answer == [c \in tx[p].cars |->
                         Derived(tx[p].views[c], tx[p].flag = "lower",
                                 On(c, { book[r] : r \in Rows }), Today)]
            stale == { c \in tx[p].cars : answer[c] # tx[p].views[c].availability }
            next == [c \in stale |-> answer[c]]
            w == IF stale = {} THEN Ended(p)
                 ELSE [tx[p] EXCEPT !.pc = "put", !.cars = stale, !.views = Nothing, !.next = next]
<1>1. tx[p].pc = "rows" /\ tx' = [tx EXCEPT ![p] = w] /\ Unchanged /\ Unlocked
    BY DEF ReadReservations
<1>2. /\ ~HoldsRow(p) /\ ~HoldsCar(p) /\ tx[p].route \notin Handling
      /\ tx[p] \in RequestType /\ Filled(p)
    BY <1>1, OutsideTransaction
<1>3. /\ answer \in [tx[p].cars -> Availabilities]
      /\ stale \in SUBSET Cars /\ next \in [stale -> Availabilities]
    <2>1. answer \in [tx[p].cars -> Availabilities]
        BY DerivedTyped
    <2>. HIDE DEF answer
    <2>2. tx[p].cars \in SUBSET Cars
        BY <1>2 DEF RequestType
    <2>3. stale \subseteq tx[p].cars
        OBVIOUS
    <2>. HIDE DEF stale
    <2>4. next \in [stale -> Availabilities]
        BY <2>1, <2>3
    <2>. QED BY <2>1, <2>2, <2>3, <2>4
<1>4. next \in Answers
    BY <1>3 DEF Answers
<1>. HIDE DEF answer, stale, next
<1>5. /\ w \in RequestType /\ w.pc \in {"idle", "read", "put"} /\ w.route \notin Handling
      /\ w.pc = "idle" => w = Idle
      /\ w.pc = "put" => w.next \in [w.cars -> Availabilities]
    <2>1. CASE stale = {}
        BY <2>1, EndedTyped
    <2>2. CASE stale # {}
        <3>. DEFINE v == [tx[p] EXCEPT !.pc = "put", !.cars = stale, !.views = Nothing,
                                       !.next = next]
        <3>1. v \in RequestType /\ v.pc = "put" /\ v.route = tx[p].route
              /\ v.cars = stale /\ v.next = next
            <4>1. v \in RequestType
                BY <1>2, <1>3, <1>4, NothingTyped DEF RequestType, Steps
            <4>2. v.pc = "put" /\ v.route = tx[p].route
                BY <1>2 DEF RequestType
            <4>3. v.cars = stale /\ v.next = next
                BY <1>2 DEF RequestType
            <4>. HIDE DEF v
            <4>. QED BY <4>1, <4>2, <4>3
        <3>. HIDE DEF v
        <3>2. w = v
            BY <2>2 DEF v
        <3>. QED BY <1>2, <1>3, <3>1, <3>2
    <2>. QED BY <2>1, <2>2
<1>. HIDE DEF w
<1>6. Holds(p)' /\ Knows(p)'
    BY <1>1, <1>2, <1>5, FreshStep DEF Unlocked
<1>7. Filled(p)'
    BY <1>1, <1>2, <1>5, Alone DEF Filled, Handling, Handovers, At
<1>. QED BY <1>1, <1>5, <1>6, <1>7, Alone, ReadStep

LEMMA PutAvailabilityStep ==
    ASSUME FleetInv, NEW p \in Procs, PutAvailability(p)
    PROVE  FleetInv'
<1>1. PICK value \in Availabilities :
          LET bucket == { c \in tx[p].cars : tx[p].next[c] = value }
              left   == tx[p].cars \ bucket
          IN /\ \A c \in bucket : carLock[c] = Nobody
             /\ fleet' = [c \in Cars |-> IF c \in bucket
                             THEN [fleet[c] EXCEPT !.availability = value] ELSE fleet[c]]
             /\ overruled' = [c \in Cars |-> overruled[c] \/ c \in bucket]
             /\ IF left = {}
                  THEN tx' = [tx EXCEPT ![p] = Ended(p)]
                  ELSE tx' = [tx EXCEPT ![p].cars = left,
                                        ![p].next = [c \in left |-> tx[p].next[c]]]
    BY DEF PutAvailability
<1>. DEFINE bucket == { c \in tx[p].cars : tx[p].next[c] = value }
            left == tx[p].cars \ bucket
            next == [c \in left |-> tx[p].next[c]]
            w == IF left = {} THEN Ended(p)
                 ELSE [tx[p] EXCEPT !.cars = left, !.next = next]
<1>2. /\ tx[p].pc = "put" /\ tx' = [tx EXCEPT ![p] = w] /\ Unlocked
      /\ book' = book /\ trail' = trail
    <2>1. tx[p].pc = "put" /\ Unlocked /\ book' = book /\ trail' = trail
        BY DEF PutAvailability
    <2>2. IF left = {} THEN tx' = [tx EXCEPT ![p] = Ended(p)]
          ELSE tx' = [tx EXCEPT ![p].cars = left, ![p].next = next]
        BY <1>1
    <2>. HIDE DEF left, next, bucket
    <2>3. tx' = [tx EXCEPT ![p] = w]
        <3>1. CASE left = {}
            BY <2>2, <3>1
        <3>2. CASE left # {}
            BY <2>2, <3>2
        <3>. QED BY <3>1, <3>2
    <2>. QED BY <2>1, <2>3
<1>3. /\ ~HoldsRow(p) /\ ~HoldsCar(p) /\ tx[p].route \notin Handling
      /\ tx[p] \in RequestType /\ Filled(p)
    BY <1>2, OutsideTransaction
<1>4. /\ tx[p].next \in [tx[p].cars -> Availabilities] /\ tx[p].cars \in SUBSET Cars
      /\ left \in SUBSET Cars /\ next \in [left -> Availabilities]
    BY <1>2, <1>3 DEF Filled, RequestType
<1>5. next \in Answers
    BY <1>4 DEF Answers
<1>6. /\ fleet' \in [Cars -> Vehicles] /\ overruled' \in [Cars -> BOOLEAN]
      /\ \A c \in Cars : c \in bucket => carLock[c] = Nobody /\ overruled'[c]
      /\ \A c \in Cars : c \notin bucket => fleet'[c] = fleet[c] /\ overruled'[c] = overruled[c]
    <2>. HIDE DEF bucket
    <2>1. /\ fleet' = [c \in Cars |-> IF c \in bucket
                             THEN [fleet[c] EXCEPT !.availability = value] ELSE fleet[c]]
          /\ overruled' = [c \in Cars |-> overruled[c] \/ c \in bucket]
          /\ \A c \in bucket : carLock[c] = Nobody
        BY <1>1 DEF bucket
    <2>. QED BY <2>1 DEF FleetInv, TypeOK, Vehicles
<1>. HIDE DEF left, next, bucket
<1>7. /\ w \in RequestType /\ w.pc \in {"idle", "read", "put"} /\ w.route \notin Handling
      /\ w.pc = "idle" => w = Idle
      /\ w.pc = "put" => w.next \in [w.cars -> Availabilities]
    <2>1. CASE left = {}
        BY <2>1, EndedTyped
    <2>2. CASE left # {}
        <3>. DEFINE v == [tx[p] EXCEPT !.cars = left, !.next = next]
        <3>1. v \in RequestType /\ v.pc = "put" /\ v.route = tx[p].route
              /\ v.cars = left /\ v.next = next
            BY <1>2, <1>3, <1>4, <1>5 DEF RequestType
        <3>. HIDE DEF v
        <3>2. w = v
            BY <2>2 DEF v
        <3>. QED BY <1>3, <1>4, <3>1, <3>2
    <2>. QED BY <2>1, <2>2
<1>. HIDE DEF w
<1>8. Holds(p)' /\ Knows(p)'
    BY <1>2, <1>3, <1>7, FreshStep DEF Unlocked
<1>9. Others(p) /\ tx'[p] = w
    BY <1>2, <1>7, Alone
<1>10. Filled(p)'
    BY <1>7, <1>9 DEF Filled, Handling, Handovers, At
<1>11. MarksTrue' /\ trail' \in [Cars -> SUBSET Marks]
    BY <1>2 DEF FleetInv, TypeOK, MarksTrue
<1>. QED BY <1>2, <1>6, <1>8, <1>9, <1>10, <1>11, FleetWriteStep

-----------------------------------------------------------------------------
(* Staff, by hand.                                                         *)
LEMMA BeginStaffStep ==
    ASSUME FleetInv, NEW p \in Procs, NEW c \in Cars, NEW new \in ByHand, BeginStaff(p, c, new)
    PROVE  FleetInv'
<1>. DEFINE flag == CASE new = "needs_fixing" /\ ~fleet[c].flagged -> "raise"
                      [] new = "available" /\ fleet[c].flagged -> "lower"
                      [] OTHER -> "keep"
            w == [Idle EXCEPT !.pc = "staff", !.route = "staff", !.cars = {c}, !.to = new,
                              !.flag = flag]
<1>1. w \in RequestType
    <2>1. flag \in {"keep", "raise", "lower"}
        OBVIOUS
    <2>2. new \in Availabilities /\ {c} \in SUBSET Cars
        BY ByHandAssumption
    <2>. HIDE DEF flag
    <2>. QED BY <2>1, <2>2, NothingTyped DEF w, Idle, RequestType, Steps, AllRoutes, NoDay
<1>2. tx' = [tx EXCEPT ![p] = w] /\ tx[p].pc = "idle" /\ Unchanged /\ Unlocked
    BY DEF BeginStaff, Begin
<1>. HIDE DEF flag
<1>3. w.pc = "staff" /\ w.route = "staff" /\ w.to = new
    BY DEF Idle
<1>. HIDE DEF w
<1>4. ~HoldsRow(p) /\ ~HoldsCar(p)
    BY <1>2 DEF HoldsRow, HoldsCar, At
<1>5. Holds(p)' /\ Knows(p)'
    BY <1>1, <1>2, <1>3, <1>4, FreshStep DEF Unlocked, Handling, Handovers
<1>6. Filled(p)'
    BY <1>1, <1>2, <1>3, Alone, ByHandAssumption DEF Filled, Handling, Handovers, At
<1>. QED BY <1>1, <1>2, <1>5, <1>6, Alone, ReadStep

LEMMA StaffWriteStep ==
    ASSUME FleetInv, NEW p \in Procs, StaffWrite(p)
    PROVE  FleetInv'
<1>1. PICK c \in tx[p].cars :
          /\ carLock[c] = Nobody
          /\ fleet' = [fleet EXCEPT ![c].availability = tx[p].to,
                                    ![c].flagged = IF tx[p].flag = "keep" THEN @
                                                   ELSE tx[p].flag = "raise"]
          /\ overruled' = [overruled EXCEPT ![c] = TRUE]
    BY DEF StaffWrite
<1>2. /\ tx[p].pc = "staff" /\ tx' = [tx EXCEPT ![p] = Idle]
      /\ book' = book /\ trail' = trail /\ Unlocked
    BY DEF StaffWrite
<1>3. ~HoldsRow(p) /\ ~HoldsCar(p) /\ tx[p] \in RequestType /\ Filled(p)
    BY <1>2, OutsideTransaction
<1>4. c \in Cars /\ tx[p].to \in Availabilities
    BY <1>2, <1>3 DEF Filled, RequestType
<1>5. /\ fleet' \in [Cars -> Vehicles] /\ overruled' \in [Cars -> BOOLEAN] /\ overruled'[c]
      /\ \A d \in Cars : d # c => fleet'[d] = fleet[d] /\ overruled'[d] = overruled[d]
    <2>. DEFINE flag == IF tx[p].flag = "keep" THEN fleet[c].flagged ELSE tx[p].flag = "raise"
                now  == [fleet[c] EXCEPT !.availability = tx[p].to, !.flagged = flag]
    <2>1. flag \in BOOLEAN /\ fleet[c] \in Vehicles /\ fleet \in [Cars -> Vehicles]
        BY <1>4 DEF FleetInv, TypeOK, Vehicles
    <2>2. fleet' = [fleet EXCEPT ![c] = now]
        BY <1>1, <1>4, <2>1
    <2>. HIDE DEF flag
    <2>3. now \in Vehicles
        BY <1>4, <2>1 DEF Vehicles
    <2>. HIDE DEF now
    <2>4. fleet' \in [Cars -> Vehicles] /\ \A d \in Cars : d # c => fleet'[d] = fleet[d]
        BY <1>4, <2>1, <2>2, <2>3
    <2>5. /\ overruled' \in [Cars -> BOOLEAN] /\ overruled'[c]
          /\ \A d \in Cars : d # c => overruled'[d] = overruled[d]
        BY <1>1, <1>4 DEF FleetInv, TypeOK
    <2>. QED BY <2>4, <2>5
<1>6. Others(p) /\ tx'[p] = Idle
    BY <1>2, IdleTyped, Alone
<1>7. Holds(p)' /\ Knows(p)'
    BY <1>2, <1>3, IdleTyped, FreshStep DEF Unlocked, Idle, Handling, Handovers
<1>8. Filled(p)'
    BY <1>6 DEF Filled, Idle, Handling, Handovers, At
<1>9. MarksTrue' /\ trail' \in [Cars -> SUBSET Marks]
    BY <1>2 DEF FleetInv, TypeOK, MarksTrue
<1>. QED BY <1>1, <1>2, <1>5, <1>6, <1>7, <1>8, <1>9, FleetWriteStep

LEMMA EnterMileageStep ==
    ASSUME FleetInv, NEW c \in Cars, EnterMileage(c)
    PROVE  FleetInv'
<1>1. /\ carLock[c] = Nobody /\ fleet' = [fleet EXCEPT ![c].odometer = HandWritten]
      /\ trail' = [trail EXCEPT ![c] = Written(trail[c], Nobody, "by hand", Today)]
      /\ book' = book /\ tx' = tx /\ overruled' = overruled /\ Unlocked
    BY DEF EnterMileage
<1>2. trail[c] \in SUBSET Marks /\ Today \in Nat
    BY TodayAssumption DEF FleetInv, TypeOK
<1>3. /\ Written(trail[c], Nobody, "by hand", Today) \in SUBSET Marks
      /\ \A e \in Written(trail[c], Nobody, "by hand", Today) :
            \/ e.by = Nobody /\ e.kind = "by hand" /\ e.day = Today
            \/ \E m \in trail[c] : Key(m) # <<Nobody, "by hand">> /\ Like(e, m)
    <2>1. Nobody \in Rows \cup {Nobody} /\ "by hand" \in Handovers \cup {"by hand"}
        OBVIOUS
    <2>. QED BY <1>2, <2>1, WrittenMarks
<1>4. trail' \in [Cars -> SUBSET Marks] /\ MarksTrue'
    <2>1. trail' \in [Cars -> SUBSET Marks]
        BY <1>1, <1>3 DEF FleetInv, TypeOK
    <2>2. ASSUME NEW d \in Cars, NEW e \in trail'[d], e.by \in Rows
          PROVE  \E m \in trail[d] : Like(e, m)
        <3>1. CASE d = c
            BY <1>1, <1>3, <2>2, <3>1, NobodyAssumption DEF FleetInv, TypeOK
        <3>2. CASE d # c
            BY <1>1, <2>2, <3>2 DEF FleetInv, TypeOK, Like
        <3>. QED BY <3>1, <3>2
    <2>3. MarksTrue'
        <3>. SUFFICES ASSUME NEW d \in Cars, NEW e \in trail'[d], e.by \in Rows
                      PROVE  /\ book[e.by].car = d /\ e.kind \in Handovers /\ e.day # NoDay
                             /\ e.day = IF e.kind = "pickup" THEN book[e.by].pickedOn
                                        ELSE book[e.by].returnedOn
            BY <1>1 DEF MarksTrue
        <3>1. PICK m \in trail[d] : Like(e, m)
            BY <2>2
        <3>. QED BY <3>1 DEF FleetInv, MarksTrue, Like
    <2>. QED BY <2>1, <2>3
<1>5. /\ fleet' \in [Cars -> Vehicles]
      /\ fleet'[c].availability = fleet[c].availability /\ fleet'[c].flagged = fleet[c].flagged
      /\ \A d \in Cars : d # c => fleet'[d] = fleet[d]
    <2>1. fleet \in [Cars -> Vehicles]
        BY DEF FleetInv, TypeOK
    <2>2. fleet[c] \in Vehicles
        BY <2>1
    <2>3. [fleet[c] EXCEPT !.odometer = HandWritten] \in Vehicles
        BY <2>2 DEF Vehicles, Readings
    <2>4. fleet' = [fleet EXCEPT ![c] = [fleet[c] EXCEPT !.odometer = HandWritten]]
        BY <1>1
    <2>. QED BY <2>1, <2>2, <2>3, <2>4 DEF Vehicles
<1>6. Others(Nobody) /\ overruled' \in [Cars -> BOOLEAN]
    BY <1>1 DEF FleetInv, TypeOK, Others, Unlocked
<1>. QED BY <1>1, <1>4, <1>5, <1>6, NobodyAssumption, FleetWriteStep

LEMMA DeadlockAbortStep ==
    ASSUME FleetInv, NEW p \in Procs, DeadlockAbort(p) \/ Crash(p)
    PROVE  FleetInv'
BY GivingUp DEF DeadlockAbort, Crash
-----------------------------------------------------------------------------
(* What is booked at first.                                                *)
LEMMA BookedTyped ==
    ASSUME NEW plan \in PlanRows
    PROVE  Booked(plan) \in BookRows /\ Booked(plan).returnedOn = NoDay
BY DEF Booked, PlanRows, BookRows, LiveStatuses, NoDay, Readings

LEMMA FirstMarks ==
    ASSUME Init, book \in [Rows -> BookRows], NEW c \in Cars, NEW e \in trail[c]
    PROVE  /\ e \in Marks /\ e.by \in Rows /\ e.kind = "pickup"
           /\ book[e.by].car = c /\ e.day = book[e.by].pickedOn /\ e.day # NoDay
<1>1. PICK r \in Rows : /\ book[r].car = c /\ book[r].pickedOn # NoDay
                        /\ e \in Written({}, r, "pickup", book[r].pickedOn)
    BY DEF Init
<1>. DEFINE day == book[r].pickedOn  none == {}  kind == "pickup"
<1>2. /\ none \in SUBSET Marks /\ r \in Rows \cup {Nobody} /\ day \in Nat
      /\ kind \in Handovers \cup {"by hand"}
    BY DEF BookRows, Handovers
<1>3. e \in Written(none, r, kind, day)
    BY <1>1
<1>4. \A m : m \notin none
    OBVIOUS
<1>. HIDE DEF day, none, kind
<1>5. e \in Marks /\ e.by = r /\ e.kind = kind /\ e.day = day
    BY <1>2, <1>3, <1>4, WrittenMarks
<1>. QED BY <1>1, <1>5 DEF day, kind

LEMMA FirstVehicle ==
    ASSUME Init, book \in [Rows -> BookRows], NEW c \in Cars
    PROVE  fleet[c] \in Vehicles /\
           fleet[c].availability =
               Derived(fleet[c], FALSE, On(c, { book[r] : r \in Rows }), Today)
<1>. DEFINE reading == IF trail[c] = {} THEN Factory ELSE Key(CHOOSE m \in trail[c] : TRUE)
            rows == On(c, { book[r] : r \in Rows })
<1>1. PICK found \in [Cars -> Found] :
          fleet[c] = [availability |-> Derived([availability |-> found[c], flagged |-> FALSE],
                                               FALSE, rows, Today),
                      flagged |-> FALSE, odometer |-> reading]
    BY DEF Init
<1>2. reading \in Readings
    <2>1. CASE trail[c] = {}
        BY <2>1 DEF Readings
    <2>2. CASE trail[c] # {}
        <3>1. PICK m \in trail[c] : reading = Key(m)
            BY <2>2
        <3>2. m.by \in Rows /\ m.kind = "pickup"
            BY FirstMarks
        <3>. QED BY <3>1, <3>2 DEF Key, Readings, Handovers
    <2>. QED BY <2>1, <2>2
<1>. DEFINE was == [availability |-> found[c], flagged |-> FALSE]
            is  == fleet[c]
            answer == Derived(was, FALSE, rows, Today)
<1>3. was.flagged = FALSE
    OBVIOUS
<1>. HIDE DEF rows, was
<1>4. answer \in Availabilities
    BY DerivedTyped
<1>. HIDE DEF answer, reading
<1>5. is = [availability |-> answer, flagged |-> FALSE, odometer |-> reading]
    BY <1>1 DEF answer, was
<1>6. is \in Vehicles /\ is.flagged = was.flagged /\ is.availability = answer
    <2>1. is.availability = answer /\ is.flagged = FALSE /\ is.odometer = reading
        BY <1>5
    <2>2. is \in Vehicles
        BY <1>2, <1>4, <1>5 DEF Vehicles
    <2>. QED BY <1>3, <2>1, <2>2
<1>. HIDE DEF is
<1>7. Derived(is, FALSE, rows, Today) = is.availability
    BY <1>6, DerivedSettles DEF answer
<1>. QED BY <1>6, <1>7 DEF is, rows

LEMMA FleetBegins == Init => FleetInv
<1>. SUFFICES ASSUME Init PROVE FleetInv
    OBVIOUS
<1>1. book \in [Rows -> BookRows]
    <2>1. PICK plan \in Plans : book = [r \in Rows |-> Booked(plan[r])]
        BY DEF Init
    <2>2. \A r \in Rows : plan[r] \in PlanRows
        BY PlansAssumption
    <2>. QED BY <2>1, <2>2, BookedTyped
<1>2. fleet \in [Cars -> Vehicles] /\ Settled
    <2>1. \A c \in Cars : fleet[c] \in Vehicles
        BY <1>1, FirstVehicle
    <2>2. Settled
        BY <1>1, FirstVehicle DEF Settled
    <2>. QED BY <2>1, <2>2 DEF Init
<1>3. trail \in [Cars -> SUBSET Marks]
    <2>1. \A c \in Cars : \A e \in trail[c] : e \in Marks
        BY <1>1, FirstMarks
    <2>2. \A c \in Cars : trail[c] \in SUBSET Marks
        BY <2>1
    <2>. QED BY <2>2 DEF Init
<1>4. MarksTrue
    BY <1>1, FirstMarks DEF MarksTrue, Handovers
<1>5. TypeOK
    BY <1>1, <1>2, <1>3, IdleTyped DEF TypeOK, Init
<1>6. ASSUME NEW p \in Procs
      PROVE  Holds(p) /\ Filled(p) /\ Knows(p)
    <2>1. tx[p] = Idle
        BY DEF Init
    <2>2. Holds(p)
        BY <2>1, NobodyAssumption DEF Init, Holds, HoldsRow, HoldsCar, At, Idle
    <2>3. Filled(p) /\ Knows(p)
        BY <2>1 DEF Filled, Knows, PickupKnows, ReturnKnows, RevertKnows, AnswerHolds, At,
                    Idle, Handling, Handovers
    <2>. QED BY <2>2, <2>3
<1>. QED BY <1>2, <1>4, <1>5, <1>6 DEF FleetInv
-----------------------------------------------------------------------------
LEMMA StartKeeps ==
    ASSUME FleetInv, NEW p \in Procs, Start(p)
    PROVE  FleetInv'
BY BeginPickupStep, BeginReturnStep, BeginStatusStep, BeginRevertStep, DeleteStep,
   WorkshopStep, BeginStaffStep, SweepStep DEF Start

LEMMA StepKeeps ==
    ASSUME FleetInv, NEW p \in Procs, Step(p)
    PROVE  FleetInv'
<1>1. CASE PickupLocksCar(p) \/ PickupRefused(p) \/ PickupWritesRow(p) \/ Overtaken(p)
    BY <1>1, PickupLocksCarStep, PickupRefusedStep, PickupWritesRowStep
<1>2. CASE ReturnWritesRow(p) \/ ReturnLocksCar(p)
    BY <1>2, ReturnWritesRowStep, ReturnLocksCarStep
<1>3. CASE RevertLocksRow(p) \/ RevertLocksCar(p) \/ RevertRefused(p)
    BY <1>3, RevertLocksRowStep, RevertLocksCarStep, RevertRefusedStep
<1>4. CASE Commit(p) \/ DeadlockAbort(p)
    BY <1>4, CommitStep, DeadlockAbortStep
<1>5. CASE StatusWrite(p) \/ StatusGone(p) \/ StaffWrite(p)
    BY <1>5, StatusWriteStep, StatusGoneStep, StaffWriteStep
<1>6. CASE ReadVehicles(p) \/ ReadReservations(p) \/ PutAvailability(p)
    BY <1>6, ReadVehiclesStep, ReadReservationsStep, PutAvailabilityStep
<1>. QED BY <1>1, <1>2, <1>3, <1>4, <1>5, <1>6 DEF Step

LEMMA FleetKeeps == FleetInv /\ [Next]_vars => FleetInv'
<1>. SUFFICES ASSUME FleetInv, [Next]_vars PROVE FleetInv'
    OBVIOUS
<1>1. CASE UNCHANGED vars
    <2>1. TypeOK' /\ MarksTrue' /\ Settled'
        <3>1. TypeOK'
            BY <1>1 DEF vars, FleetInv, TypeOK
        <3>2. MarksTrue'
            BY <1>1 DEF vars, FleetInv, MarksTrue
        <3>3. Settled'
            BY <1>1 DEF vars, FleetInv, Settled, On
        <3>. QED BY <3>1, <3>2, <3>3
    <2>2. ASSUME NEW p \in Procs PROVE Holds(p)' /\ Filled(p)' /\ Knows(p)'
        <3>1. Holds(p)' /\ Filled(p)'
            BY <1>1 DEF vars, FleetInv, Holds, HoldsRow, HoldsCar, CarOf, Filled, At
        <3>2. CarsKept /\ Undisturbed(p) /\ tx'[p] = tx[p]
            BY <1>1 DEF vars, CarsKept, Undisturbed
        <3>. QED BY <3>1, <3>2, KeepsKnowing
    <2>. QED BY <2>1, <2>2 DEF FleetInv
<1>2. ASSUME NEW p \in Procs, Start(p) \/ Step(p) \/ Crash(p) PROVE FleetInv'
    BY <1>2, StartKeeps, StepKeeps, DeadlockAbortStep
<1>3. ASSUME NEW c \in Cars, EnterMileage(c) PROVE FleetInv'
    BY <1>3, EnterMileageStep
<1>. QED BY <1>1, <1>2, <1>3 DEF Next

(* Everything the requests in flight rely on holds in every state: who has *)
(* which lock, what each of them has read and what is on record of every   *)
(* handover.  The theorems below follow from it.                           *)
THEOREM FleetInvariance == Spec => []FleetInv
BY FleetBegins, FleetKeeps, PTL DEF Spec

(* Every variable keeps its shape.                                         *)
THEOREM FleetTyped == Spec => []TypeOK
<1>1. FleetInv => TypeOK
    BY DEF FleetInv
<1>. QED BY <1>1, FleetInvariance, PTL

(* As long as a vehicle and its rows are written by handovers only, its    *)
(* availability is what the rule says of its rows.                         *)
THEOREM VehiclesSettled == Spec => []Settled
<1>1. FleetInv => Settled
    BY DEF FleetInv
<1>. QED BY <1>1, FleetInvariance, PTL

(* A pickup and a return never wait for one another in a circle, nor two   *)
(* handovers of one kind: in every circle is a revert that is refused.     *)
THEOREM OnlyDoomedRevertsWaitInCircles == Spec => []OnlyDoomedRevertsDeadlock
<1>1. ASSUME FleetInv, NEW p \in Procs, NEW q \in Procs, WaitsFor(p, q), tx[p].pc = "row"
      PROVE  /\ HoldsRow(q) /\ tx[q].row = tx[p].row
             /\ tx[p].route = "revert" \/ book[tx[p].row].status = Expected(p)
             /\ tx[p].row \in Rows
    <2>1. tx[p].row \in Rows /\ rowLock[tx[p].row] = q
        BY <1>1, InHand DEF WaitsFor, Filled
    <2>2. Holds(q)
        BY <1>1 DEF FleetInv
    <2>3. tx[p].route = "revert" \/ book[tx[p].row].status = Expected(p)
        BY <1>1 DEF WaitsFor
    <2>. QED BY <2>1, <2>2, <2>3 DEF Holds
<1>2. ASSUME FleetInv, NEW p \in Procs, NEW q \in Procs, WaitsFor(p, q), tx[p].pc = "car"
      PROVE  HoldsCar(q) /\ CarOf(q) = CarOf(p)
    <2>1. CarOf(p) \in Cars /\ carLock[CarOf(p)] = q
        BY <1>2, InHand DEF WaitsFor, Filled
    <2>2. Holds(q)
        BY <1>2 DEF FleetInv
    <2>. QED BY <2>1, <2>2 DEF Holds
<1>3. ASSUME FleetInv, NEW p \in Procs, NEW q \in Procs, WaitsFor(p, q), WaitsFor(q, p),
             tx[p].pc = "row", tx[q].pc = "car"
      PROVE  tx[q].route = "revert" /\ ~Revertible(tx[q].row)
    <2>1. At(p, "row", "pickup")
        BY <1>2, <1>3 DEF HoldsCar, At
    <2>2. HoldsRow(q) /\ tx[q].row = tx[p].row /\ book[tx[p].row].status = "booked"
        BY <1>1, <1>3, <2>1 DEF Expected, At
    <2>3. tx[q].route \in {"return", "revert"} /\ ReturnKnows(q)
        BY <1>3, <2>2, InHand DEF HoldsRow, At, Knows
    <2>. QED BY <1>3, <2>2, <2>3 DEF ReturnKnows, At, Revertible, ClosedStatuses
<1>4. ASSUME FleetInv, NEW p \in Procs, NEW q \in Procs, WaitsFor(p, q), WaitsFor(q, p)
      PROVE  tx[p].pc # tx[q].pc /\ tx[p].pc \in {"row", "car"}
    <2>1. tx[p].pc \in {"row", "car"} /\ tx[q].pc \in {"row", "car"}
        BY <1>4 DEF WaitsFor
    <2>2. ~(tx[p].pc = "row" /\ tx[q].pc = "row")
        BY <1>1, <1>4 DEF HoldsRow, At
    <2>3. ~(tx[p].pc = "car" /\ tx[q].pc = "car")
        BY <1>2, <1>4 DEF HoldsCar, At
    <2>. QED BY <2>1, <2>2, <2>3
<1>5. FleetInv => OnlyDoomedRevertsDeadlock
    <2>. SUFFICES ASSUME FleetInv, NEW p \in Procs, NEW q \in Procs,
                         WaitsFor(p, q), WaitsFor(q, p)
                  PROVE  \E x \in {p, q} : tx[x].route = "revert" /\ ~Revertible(tx[x].row)
        BY DEF OnlyDoomedRevertsDeadlock, Circle
    <2>1. CASE tx[p].pc = "row"
        BY <1>3, <1>4, <2>1, InHand DEF WaitsFor
    <2>2. CASE tx[p].pc = "car"
        BY <1>3, <1>4, <2>2, InHand DEF WaitsFor
    <2>. QED BY <1>4, <2>1, <2>2
<1>. QED BY <1>5, FleetInvariance, PTL
-----------------------------------------------------------------------------
(* A step that changes the row of a handover at its COMMIT is that COMMIT. *)
LEMMA OnlyItsCommit ==
    ASSUME FleetInv, Next, NEW p \in Procs, tx[p].pc = "commit",
           book'[tx[p].row] # book[tx[p].row]
    PROVE  Commit(p)
<1>1. HoldsRow(p) /\ tx[p].row \in Rows
    BY InHand DEF HoldsRow, At, Filled, Handling, Handovers
<1>2. ASSUME NEW q \in Procs, Commit(q), q # p PROVE FALSE
    <2>1. tx[q].pc = "commit" /\ tx[p].row # tx[q].row
        BY <1>1, <1>2, LocksApart DEF Commit
    <2>. QED BY <1>1, <1>2, <2>1 DEF Commit, FleetInv, TypeOK
<1>3. ASSUME NEW q, NEW r \in Rows, NEW row, WriteBehind(q, r, row) PROVE FALSE
    <2>1. rowLock[r] = Nobody /\ book' = [book EXCEPT ![r] = row]
        BY <1>3 DEF WriteBehind
    <2>. QED BY <1>1, <2>1, FreeRow DEF FleetInv, TypeOK
<1>4. ASSUME NEW q \in Procs, Step(q), ~Commit(q) PROVE FALSE
    <2>1. ~Unchanged
        BY DEF Unchanged
    <2>2. StatusWrite(q)
        BY <1>4, <2>1 DEF Step, PickupLocksCar, PickupRefused, PickupWritesRow, Overtaken,
               ReturnWritesRow, ReturnLocksCar, RevertLocksRow, RevertLocksCar, RevertRefused,
               DeadlockAbort, StatusGone, StaffWrite, ReadVehicles, ReadReservations,
               PutAvailability
    <2>3. tx[q].row \in Rows
        BY <2>2, InHand DEF StatusWrite, At, Filled
    <2>. QED BY <1>3, <2>2, <2>3 DEF StatusWrite
<1>5. ASSUME NEW q \in Procs, Start(q) PROVE FALSE
    <2>1. ~Unchanged /\ book' # book
        BY DEF Unchanged
    <2>2. PICK r \in Rows : Delete(q, r)
        BY <1>5, <2>1 DEF Start, BeginPickup, BeginReturn, BeginStatus, BeginRevert,
                          Workshop, BeginStaff, Sweep
    <2>. QED BY <1>3, <2>2 DEF Delete
<1>6. ~(\E c \in Cars : EnterMileage(c)) /\ ~(\E q \in Procs : Crash(q))
    BY DEF EnterMileage, Crash, Unchanged
<1>. QED BY <1>2, <1>4, <1>5, <1>6 DEF Next

(* B-03: what the gate has seen of the vehicle is still true when the      *)
(* pickup commits, because the vehicle is locked from the gate on.         *)
THEOREM GateHoldsAtCommit == Spec => GateStillHolds
<1>1. FleetInv /\ [Next]_vars =>
         [\A p \in Procs : Commits(p, "pickup") =>
             ~HandoverRefused(fleet[CarOf(p)]) \/ tx[p].force]_vars
    BY DEF FleetInv, Knows, PickupKnows, Commits, At
<1>. QED BY <1>1, FleetInvariance, PTL DEF Spec, GateStillHolds

(* The reading a handover stores is the one it overwrites: nobody writes   *)
(* the odometer between the read and the COMMIT.                           *)
THEOREM StoresTheOverwritten == Spec => StoresWhatItOverwrites
<1>1. ASSUME FleetInv, Next, NEW p \in Procs, Commits(p, "pickup")
      PROVE  book'[tx[p].row].beforePickup = fleet[CarOf(p)].odometer
    <2>1. Commit(p) /\ At(p, "commit", "pickup")
        BY <1>1, OnlyItsCommit DEF Commits, At
    <2>2. /\ tx[p].row \in Rows /\ book[tx[p].row] \in BookRows /\ tx[p].day \in Nat
          /\ tx[p].before = fleet[CarOf(p)].odometer /\ tx[p].before \in Readings
          /\ tx[p].image = PickedUp(book[tx[p].row], tx[p].early, tx[p].day, tx[p].before)
        BY <1>1, <2>1, InHand
           DEF At, Handling, Handovers, Knows, PickupKnows, RequestType, Vehicles
    <2>3. book'[tx[p].row] = tx[p].image
        BY <1>1, <2>1, <2>2 DEF Commit, FleetInv, TypeOK
    <2>. QED BY <2>2, <2>3, PickedUpTyped
<1>2. ASSUME FleetInv, Next, NEW p \in Procs, Commits(p, "return")
      PROVE  book'[tx[p].row].beforeReturn = fleet[CarOf(p)].odometer
    <2>. DEFINE row == BroughtBack(book[tx[p].row], tx[p].day)
                reading == fleet[CarOf(p)].odometer
    <2>1. Commit(p) /\ At(p, "commit", "return")
        BY <1>2, OnlyItsCommit DEF Commits, At
    <2>2. /\ tx[p].row \in Rows /\ book[tx[p].row] \in BookRows /\ tx[p].day \in Nat
          /\ reading \in Readings /\ tx[p].image = WithReading(row, reading)
        BY <1>2, <2>1, InHand
           DEF At, Handling, Handovers, Knows, ReturnKnows, RequestType, Vehicles
    <2>3. book'[tx[p].row] = tx[p].image /\ row \in BookRows
        BY <1>2, <2>1, <2>2, BroughtBackTyped DEF Commit, FleetInv, TypeOK
    <2>. HIDE DEF row, reading
    <2>4. WithReading(row, reading).beforeReturn = reading
        BY <2>2, <2>3, WithReadingTyped
    <2>. QED BY <2>2, <2>3, <2>4 DEF reading
<1>3. FleetInv /\ [Next]_vars =>
         [\A p \in Procs :
             LET row == book'[tx[p].row]  reading == fleet[CarOf(p)].odometer IN
             /\ Commits(p, "pickup") => row.beforePickup = reading
             /\ Commits(p, "return") => row.beforeReturn = reading]_vars
    BY <1>1, <1>2
<1>. QED BY <1>3, FleetInvariance, PTL DEF Spec, StoresWhatItOverwrites

(* No handover takes back what staff decided of a vehicle, whatever the    *)
(* handover had read before the decision.                                  *)
THEOREM HandoversRespectStaff == Spec => HandoversKeepStaffDecision
<1>. DEFINE Lost(c) == fleet[c].availability = "not_for_rental"
                          /\ fleet'[c].availability # "not_for_rental"
            Excused == \E p \in Procs : tx[p].pc \in {"staff", "put"} /\ tx'[p] # tx[p]
<1>1. ASSUME FleetInv, NEW c \in Cars, Lost(c), NEW p \in Procs, Commit(p)
      PROVE  FALSE
    <2>1. /\ fleet' = [fleet EXCEPT ![CarOf(p)].availability = tx[p].next[CarOf(p)],
                                    ![CarOf(p)].odometer =
                           IF tx[p].reading = NoReading THEN fleet[CarOf(p)].odometer
                           ELSE tx[p].reading]
          /\ tx[p].pc = "commit"
        BY <1>1 DEF Commit
    <2>2. fleet[CarOf(p)].availability = "not_for_rental" =>
             tx[p].next[CarOf(p)] = "not_for_rental"
        BY <1>1, <2>1 DEF FleetInv, Knows, AnswerHolds
    <2>. QED BY <1>1, <2>1, <2>2 DEF FleetInv, TypeOK, Vehicles
<1>2. ASSUME FleetInv, NEW p \in Procs, StaffWrite(p)
      PROVE  Excused
    <2>1. tx[p].pc = "staff" /\ tx'[p] = Idle
        BY <1>2 DEF StaffWrite, FleetInv, TypeOK
    <2>. QED BY <2>1 DEF Idle
<1>3. ASSUME FleetInv, NEW p \in Procs, PutAvailability(p)
      PROVE  Excused
    <2>1. PICK value \in Availabilities :
             LET bucket == { d \in tx[p].cars : tx[p].next[d] = value }
                 left   == tx[p].cars \ bucket
             IN /\ bucket # {}
                /\ IF left = {}
                     THEN tx' = [tx EXCEPT ![p] = Ended(p)]
                     ELSE tx' = [tx EXCEPT ![p].cars = left,
                                           ![p].next = [d \in left |-> tx[p].next[d]]]
        BY <1>3 DEF PutAvailability
    <2>. DEFINE bucket == { d \in tx[p].cars : tx[p].next[d] = value }
                left == tx[p].cars \ bucket
                next == [d \in left |-> tx[p].next[d]]
    <2>2. tx[p].pc = "put" /\ tx[p] \in RequestType /\ left # tx[p].cars
        BY <1>3, <2>1, InHand DEF PutAvailability
    <2>. HIDE DEF next
    <2>3. CASE left = {}
        <3>1. tx'[p] = Ended(p)
            BY <1>3, <2>1, <2>3 DEF FleetInv, TypeOK
        <3>. QED BY <1>3, <2>2, <3>1, EndedTyped
    <2>4. CASE left # {}
        <3>1. tx'[p] = [tx[p] EXCEPT !.cars = left, !.next = next]
            BY <1>3, <2>1, <2>4 DEF FleetInv, TypeOK, next
        <3>2. tx'[p].cars = left
            BY <2>2, <3>1 DEF RequestType
        <3>. QED BY <2>2, <3>2
    <2>. QED BY <2>3, <2>4
<1>4. ASSUME FleetInv, NEW c \in Cars, Lost(c), Next
      PROVE  Excused
    <2>1. ~Unchanged /\ fleet' # fleet
        BY <1>4 DEF Unchanged
    <2>2. CASE \E p \in Procs : Start(p)
        <3>1. PICK p \in Procs : Start(p)
            BY <2>2
        <3>2. /\ \A r \in Rows, day \in Dates, force \in Forced : ~BeginPickup(p, r, day, force)
              /\ \A r \in Rows, day \in Dates : ~BeginReturn(p, r, day)
            BY <2>1 DEF BeginPickup, BeginReturn
        <3>3. /\ \A r \in Rows, to \in Statuses, force \in Forced : ~BeginStatus(p, r, to, force)
              /\ \A r \in Rows : ~BeginRevert(p, r)
            BY <2>1 DEF BeginStatus, BeginRevert
        <3>4. \A r \in Rows : ~Delete(p, r)
            BY <2>1 DEF Delete, WriteBehind
        <3>5. ~Sweep(p) /\ \A d \in Cars, new \in ByHand : ~BeginStaff(p, d, new)
            BY <2>1 DEF Sweep, BeginStaff
        <3>6. PICK d \in Cars, flagged \in BOOLEAN : Workshop(p, d, flagged)
            BY <3>1, <3>2, <3>3, <3>4, <3>5 DEF Start
        <3>. QED BY <1>4, <3>6 DEF Workshop, FleetInv, TypeOK, Vehicles
    <2>3. CASE \E p \in Procs : Step(p)
        <3>1. PICK p \in Procs : Commit(p) \/ StaffWrite(p) \/ PutAvailability(p)
            BY <2>1, <2>3 DEF Step, PickupLocksCar, PickupRefused, PickupWritesRow, Overtaken,
                   ReturnWritesRow, ReturnLocksCar, RevertLocksRow, RevertLocksCar, RevertRefused,
                   DeadlockAbort, StatusGone, StatusWrite, WriteBehind, ReadVehicles,
                   ReadReservations
        <3>. QED BY <1>1, <1>2, <1>3, <1>4, <3>1
    <2>4. CASE \E d \in Cars : EnterMileage(d)
        <3>1. PICK d \in Cars : fleet' = [fleet EXCEPT ![d].odometer = HandWritten]
            BY <2>4 DEF EnterMileage
        <3>. QED BY <1>4, <3>1 DEF FleetInv, TypeOK, Vehicles
    <2>5. ~(\E p \in Procs : Crash(p))
        BY <2>1 DEF Crash
    <2>. QED BY <1>4, <2>2, <2>3, <2>4, <2>5 DEF Next
<1>5. FleetInv /\ [Next]_vars =>
         [\A c \in Cars :
             fleet[c].availability = "not_for_rental"
                /\ fleet'[c].availability # "not_for_rental"
             => \E p \in Procs : tx[p].pc \in {"staff", "put"} /\ tx'[p] # tx[p]]_vars
    BY <1>4
<1>. QED BY <1>5, FleetInvariance, PTL DEF Spec, HandoversKeepStaffDecision

(* The plan of a revert looks at what is on record of every other rental   *)
(* of the vehicle, and nobody adds to it until the revert has committed:   *)
(* the reading it restores goes over no later day.                         *)
THEOREM LaterDaysAreKept == Spec => LaterDaysSurvive
<1>1. ASSUME FleetInv, NEW p \in Procs, Restores(p),
             NEW e \in trail[CarOf(p)], NEW m \in trail[CarOf(p)],
             m.by = tx[p].row, m.kind \in Undone(book[tx[p].row]),
             e.by \notin {tx[p].row, Nobody}
      PROVE  e.day <= m.day
    <2>. DEFINE r == tx[p].row
    <2>1. /\ r \in Rows /\ CarOf(p) \in Cars /\ CarOf(p) = book[r].car /\ RevertKnows(p)
          /\ At(p, "commit", "revert") /\ tx[p].reading # NoReading
        BY <1>1, InHand DEF Restores, Commits, At, Filled, Handling, CarOf, Knows
    <2>2. PICK kind \in Undone(book[r]) : ~LaterHandover(r, kind)
        BY <2>1 DEF RevertKnows
    <2>3. m.kind = kind /\ kind \in Handovers
        BY <1>1, <2>2 DEF Undone, Handovers
    <2>4. m.day = IF kind = "pickup" THEN book[r].pickedOn ELSE book[r].returnedOn
        BY <1>1, <2>1, <2>3 DEF FleetInv, MarksTrue
    <2>5. /\ e.by \in Rows \ {r} /\ book[e.by].car = book[r].car
          /\ e.day = book[e.by].pickedOn \/ e.day = book[e.by].returnedOn
        <3>1. e \in Marks
            BY <1>1, <2>1 DEF FleetInv, TypeOK
        <3>2. e.by \in Rows
            BY <1>1, <3>1 DEF Marks
        <3>. QED BY <1>1, <2>1, <3>2 DEF FleetInv, MarksTrue
    <2>6. /\ book[r].pickedOn \in Nat /\ book[r].returnedOn \in Nat
          /\ book[e.by].pickedOn \in Nat /\ book[e.by].returnedOn \in Nat
        BY <1>1, <2>1, <2>5 DEF FleetInv, TypeOK, BookRows
    <2>. QED BY <2>2, <2>4, <2>5, <2>6 DEF LaterHandover
<1>2. FleetInv /\ [Next]_vars =>
         [\A p \in Procs : Restores(p) =>
             LET past == trail[CarOf(p)]
                 mine == { m \in past : m.by = tx[p].row
                                           /\ m.kind \in Undone(book[tx[p].row]) }
             IN \A e \in past : \A m \in mine :
                   e.by \notin {tx[p].row, Nobody} => e.day <= m.day]_vars
    BY <1>1
<1>. QED BY <1>2, FleetInvariance, PTL DEF Spec, LaterDaysSurvive
-----------------------------------------------------------------------------
(* Fleet implements AtomicHandovers: a pickup, a return or a revert takes  *)
(* place at its COMMIT, whole.  Beyond FleetInv that needs two facts.      *)
(*                                                                         *)
(* At its COMMIT a revert is about a rental that is there and has          *)
(* something to undo, and the reading it puts back is the one the plan     *)
(* would choose now.                                                       *)
RevertPlanned(p) ==
    /\ At(p, "car", "revert") => Present(tx[p].row)
    /\ At(p, "commit", "revert") =>
          /\ Present(tx[p].row) /\ book[tx[p].row].kind = "rental"
          /\ book[tx[p].row].status \in {"picked_up"} \cup ClosedStatuses
          /\ tx[p].reading = RestoreTo(tx[p].row)

(* What was judged when the request began is still right: only an          *)
(* administrator forces a pickup, and early or not, the start is where it  *)
(* was or today by now.                                                    *)
StartJudged(p) ==
    LET start == book[tx[p].row].start.day IN
    /\ tx[p].route = "pickup" =>
          /\ tx[p].force => TRUE \in Forced
          /\ IF tx[p].early THEN Today <= start ELSE start <= Today
    /\ tx[p].pc = "write" =>
          /\ book[tx[p].row].kind = "rental"
          /\ tx[p].early => tx[p].to = "picked_up" /\ Today <= start

DeskInv == FleetInv /\ \A p \in Procs : RevertPlanned(p) /\ StartJudged(p)

(* A row that is written stays a row of its kind and of its vehicle, and   *)
(* its rental starts when it did or today.                                 *)
Continues(old, new) ==
    new.car = old.car /\ new.kind = old.kind /\ new.start.day \in {old.start.day, Today}

LEMMA StartedContinues ==
    ASSUME NEW row \in BookRows, NEW early
    PROVE  Continues(row, Started(row, early))
BY DEF Started, BookRows, Moment, Continues

LEMMA PickedUpContinues ==
    ASSUME NEW row \in BookRows, NEW early, NEW day, NEW before
    PROVE  Continues(row, PickedUp(row, early, day, before))
<1>. DEFINE started == Started(row, early)
<1>1. started \in BookRows /\ Continues(row, started)
    BY StartedTyped, StartedContinues
<1>. HIDE DEF started
<1>2. PickedUp(row, early, day, before) =
        [started EXCEPT !.status = "picked_up", !.pickedOn = day, !.beforePickup = before]
    BY DEF PickedUp, started
<1>. QED BY <1>1, <1>2 DEF BookRows, Continues

LEMMA RevertedContinues ==
    ASSUME NEW row \in BookRows
    PROVE  Continues(row, Reverted(row))
BY DEF Reverted, BookRows, Continues

LEMMA ReturnedContinues ==
    ASSUME NEW row \in BookRows, NEW day, NEW before
    PROVE  Continues(row, WithReading(BroughtBack(row, day), before))
BY DEF WithReading, BroughtBack, BookRows, Continues

(* A write that does not lock the vehicle: one row that nobody has locked, *)
(* and not its handovers.                                                  *)
WritesBehind(r) ==
    /\ rowLock[r] = Nobody
    /\ \A s \in Rows \ {r} : book'[s] = book[s]
    /\ Continues(book[r], book'[r])
    /\ book'[r].pickedOn = book[r].pickedOn /\ book'[r].returnedOn = book[r].returnedOn

LEMMA StatusWritesBehind ==
    ASSUME FleetInv, NEW p \in Procs, StatusWrite(p)
    PROVE  tx[p].row \in Rows /\ WritesBehind(tx[p].row)
<1>. DEFINE r == tx[p].row
            started == Started(book[r], tx[p].early)
<1>1. r \in Rows /\ book[r] \in BookRows /\ book \in [Rows -> BookRows]
    BY InHand DEF StatusWrite, At, FleetInv, TypeOK
<1>2. /\ started \in BookRows /\ Continues(book[r], started)
      /\ started.pickedOn = book[r].pickedOn /\ started.returnedOn = book[r].returnedOn
    BY <1>1, StartedTyped, StartedContinues
<1>3. rowLock[r] = Nobody /\ book' = [book EXCEPT ![r] = [started EXCEPT !.status = tx[p].to]]
    BY DEF StatusWrite, WriteBehind
<1>. HIDE DEF started
<1>4. book'[r] = [started EXCEPT !.status = tx[p].to]
    BY <1>1, <1>3
<1>5. Continues(book[r], book'[r])
    BY <1>2, <1>4 DEF BookRows, Continues
<1>6. book'[r].pickedOn = book[r].pickedOn /\ book'[r].returnedOn = book[r].returnedOn
    BY <1>2, <1>4 DEF BookRows
<1>7. \A s \in Rows \ {r} : book'[s] = book[s]
    BY <1>1, <1>3
<1>. QED BY <1>1, <1>3, <1>5, <1>6, <1>7 DEF WritesBehind

LEMMA DeleteWritesBehind ==
    ASSUME FleetInv, NEW p \in Procs, NEW r \in Rows, Delete(p, r)
    PROVE  WritesBehind(r)
<1>1. book[r] \in BookRows /\ book \in [Rows -> BookRows]
    BY DEF FleetInv, TypeOK
<1>2. rowLock[r] = Nobody /\ book' = [book EXCEPT ![r] = [book[r] EXCEPT !.deleted = TRUE]]
    BY DEF Delete, WriteBehind
<1>. QED BY <1>1, <1>2 DEF WritesBehind, Continues, BookRows

(* Who writes a row: a handover at its COMMIT, or one of these two.        *)
LEMMA WhoWritesRows ==
    ASSUME FleetInv, [Next]_vars
    PROVE  \/ book' = book
           \/ \E p \in Procs : Commit(p)
           \/ \E r \in Rows : WritesBehind(r)
<1>1. CASE \E p \in Procs : Step(p)
    <2>1. PICK p \in Procs : Step(p)
        BY <1>1
    <2>2. book' = book \/ Commit(p) \/ StatusWrite(p)
        BY <2>1 DEF Step, PickupLocksCar, PickupRefused, PickupWritesRow, Overtaken,
               ReturnWritesRow, ReturnLocksCar, RevertLocksRow, RevertLocksCar, RevertRefused,
               DeadlockAbort, StatusGone, StaffWrite, ReadVehicles, ReadReservations,
               PutAvailability, Unchanged
    <2>. QED BY <2>2, StatusWritesBehind
<1>2. CASE \E p \in Procs : Start(p)
    <2>1. PICK p \in Procs : Start(p)
        BY <1>2
    <2>2. book' = book \/ \E r \in Rows : Delete(p, r)
        BY <2>1 DEF Start, BeginPickup, BeginReturn, BeginStatus, BeginRevert, Workshop,
                    BeginStaff, Sweep, Unchanged
    <2>. QED BY <2>2, DeleteWritesBehind
<1>3. CASE (\E c \in Cars : EnterMileage(c)) \/ (\E p \in Procs : Crash(p)) \/ UNCHANGED vars
    BY <1>3 DEF EnterMileage, Crash, Unchanged, vars
<1>. QED BY <1>1, <1>2, <1>3 DEF Next

(* The row that a COMMIT writes.                                           *)
LEMMA CommitWrites ==
    ASSUME FleetInv, NEW p \in Procs, Commit(p)
    PROVE  /\ tx[p].row \in Rows /\ book'[tx[p].row] = tx[p].image
           /\ Continues(book[tx[p].row], tx[p].image)
           /\ \A s \in Rows \ {tx[p].row} : book'[s] = book[s]
<1>. DEFINE r == tx[p].row
<1>1. tx[p].pc = "commit"
    BY DEF Commit
<1>2. /\ r \in Rows /\ book[r] \in BookRows /\ fleet[CarOf(p)] \in Vehicles
      /\ tx[p].route \in Handling /\ Knows(p) /\ tx[p] \in RequestType
    BY <1>1, InHand DEF Filled
<1>3. Continues(book[r], tx[p].image)
    <2>1. CASE tx[p].route = "pickup"
        BY <1>1, <1>2, <2>1, PickedUpContinues DEF Knows, PickupKnows, At
    <2>2. CASE tx[p].route = "return"
        BY <1>1, <1>2, <2>2, ReturnedContinues DEF Knows, ReturnKnows, At
    <2>3. CASE tx[p].route = "revert"
        BY <1>1, <1>2, <2>3, RevertedContinues DEF Knows, RevertKnows, At
    <2>. QED BY <1>2, <2>1, <2>2, <2>3 DEF Handling, Handovers
<1>. QED BY <1>2, <1>3 DEF Commit, FleetInv, TypeOK

(* Every row goes on; and what a request holds, no other request writes:   *)
(* its row, and the handovers of its vehicle.                              *)
LEMMA RowsContinue ==
    ASSUME FleetInv, [Next]_vars, NEW r \in Rows
    PROVE  Continues(book[r], book'[r])
<1>1. book' = book => Continues(book[r], book'[r])
    BY DEF Continues
<1>2. \A s \in Rows : WritesBehind(s) => Continues(book[r], book'[r])
    BY DEF WritesBehind, Continues
<1>3. \A p \in Procs : Commit(p) => Continues(book[r], book'[r])
    BY CommitWrites DEF Continues
<1>. QED BY <1>1, <1>2, <1>3, WhoWritesRows

LEMMA HeldRows ==
    ASSUME FleetInv, [Next]_vars, NEW q \in Procs, ~Commit(q)
    PROVE  /\ HoldsRow(q) => book'[tx[q].row] = book[tx[q].row]
           /\ HoldsCar(q) => \A s \in Rows : book[s].car = CarOf(q) =>
                /\ book'[s].pickedOn = book[s].pickedOn
                /\ book'[s].returnedOn = book[s].returnedOn
<1>1. HoldsRow(q) \/ HoldsCar(q) => tx[q].row \in Rows
    BY InHand DEF HoldsRow, HoldsCar, At, Handling, Handovers
<1>2. CASE book' = book
    BY <1>2
<1>3. CASE \E r \in Rows : WritesBehind(r)
    <2>1. PICK r \in Rows : WritesBehind(r)
        BY <1>3
    <2>2. HoldsRow(q) => tx[q].row # r
        BY <2>1, FreeRow DEF WritesBehind
    <2>. QED BY <1>1, <2>1, <2>2 DEF WritesBehind
<1>4. CASE \E p \in Procs : Commit(p)
    <2>1. PICK p \in Procs : Commit(p)
        BY <1>4
    <2>2. tx[p].pc = "commit" /\ p # q
        BY <2>1 DEF Commit
    <2>3. /\ HoldsRow(q) => tx[q].row # tx[p].row
          /\ HoldsCar(q) => CarOf(q) # CarOf(p)
        BY <2>2, LocksApart
    <2>4. tx[p].row \in Rows /\ \A s \in Rows \ {tx[p].row} : book'[s] = book[s]
        BY <2>1, CommitWrites
    <2>. QED BY <1>1, <2>3, <2>4 DEF CarOf
<1>. QED BY <1>2, <1>3, <1>4, WhoWritesRows

(* A request that does not move keeps its plan and its judgement.          *)
LEMMA PlansKept ==
    ASSUME DeskInv, [Next]_vars, NEW q \in Procs, tx'[q] = tx[q]
    PROVE  RevertPlanned(q)' /\ StartJudged(q)'
<1>1. FleetInv /\ RevertPlanned(q) /\ StartJudged(q)
    BY DEF DeskInv
<1>2. /\ tx[q].row \in Rows => Continues(book[tx[q].row], book'[tx[q].row])
      /\ \A s \in Rows : book'[s].car = book[s].car
    BY <1>1, RowsContinue DEF Continues
<1>3. ~Commit(q)
    <2>1. Commit(q) => tx[q].pc = "commit" /\ tx'[q] = Idle
        BY <1>1 DEF Commit, Finish, FleetInv, TypeOK
    <2>. QED BY <2>1 DEF Idle
<1>4. StartJudged(q)'
    <2>1. tx[q].route = "pickup" \/ tx[q].pc = "write" =>
             /\ tx[q].row \in Rows /\ book[tx[q].row] \in BookRows
        BY <1>1, InHand DEF Handling, Handovers
    <2>2. Today \in Nat
        BY TodayAssumption
    <2>3. /\ tx[q].route = "pickup" \/ tx[q].pc = "write" =>
                /\ book'[tx[q].row].start.day \in {book[tx[q].row].start.day, Today}
                /\ book'[tx[q].row].kind = book[tx[q].row].kind
                /\ book[tx[q].row].start.day \in Nat
        BY <1>2, <2>1 DEF Continues, BookRows, Moment
    <2>. DEFINE old == book[tx[q].row].start.day  new == book'[tx[q].row].start.day
    <2>4. /\ tx[q].route = "pickup" \/ tx[q].pc = "write" =>
                /\ Today <= old => Today <= new
                /\ old <= Today => new <= Today
        BY <2>2, <2>3
    <2>. HIDE DEF old, new
    <2>5. /\ tx[q].route = "pickup" =>
                /\ tx[q].force => TRUE \in Forced
                /\ IF tx[q].early THEN Today <= old ELSE old <= Today
          /\ tx[q].pc = "write" =>
                /\ book[tx[q].row].kind = "rental"
                /\ tx[q].early => tx[q].to = "picked_up" /\ Today <= old
        BY <1>1 DEF StartJudged, old
    <2>6. /\ tx[q].route = "pickup" =>
                /\ tx[q].force => TRUE \in Forced
                /\ IF tx[q].early THEN Today <= new ELSE new <= Today
          /\ tx[q].pc = "write" =>
                /\ book'[tx[q].row].kind = "rental"
                /\ tx[q].early => tx[q].to = "picked_up" /\ Today <= new
        BY <2>3, <2>4, <2>5
    <2>. QED BY <2>6 DEF StartJudged, new
<1>5. CASE At(q, "car", "revert") \/ At(q, "commit", "revert")
    <2>1. tx[q].row \in Rows /\ HoldsRow(q) /\ book'[tx[q].row] = book[tx[q].row]
        BY <1>1, <1>3, <1>5, InHand, HeldRows DEF HoldsRow, At, Handling
    <2>2. CASE At(q, "car", "revert")
        BY <1>1, <1>4, <2>1, <2>2 DEF RevertPlanned, At, Present
    <2>3. CASE At(q, "commit", "revert")
        <3>1. HoldsCar(q)
            BY <2>3 DEF HoldsCar, At, Handling
        <3>2. \A kind : LaterHandover(tx[q].row, kind)' <=> LaterHandover(tx[q].row, kind)
            BY <1>1, <1>2, <1>3, <2>1, <3>1, HeldRows, SameHandovers DEF CarsKept, CarOf
        <3>3. RestoreTo(tx[q].row)' = RestoreTo(tx[q].row)
            BY <2>1, <3>2 DEF RestoreTo
        <3>. QED BY <1>1, <1>4, <2>1, <2>3, <3>3 DEF RevertPlanned, At, Present
    <2>. QED BY <1>5, <2>2, <2>3
<1>6. CASE ~At(q, "car", "revert") /\ ~At(q, "commit", "revert")
    BY <1>4, <1>6 DEF RevertPlanned, At
<1>. QED BY <1>5, <1>6

(* What a request has to know afterwards that goes on to a step of another *)
(* kind: nothing.                                                          *)
LEMMA NothingPlanned ==
    ASSUME NEW p \in Procs,
           \/ tx'[p].pc \notin {"car", "commit"} \/ tx'[p].route \in {"return", "pickup"},
           tx'[p].pc # "write", tx'[p].route # "pickup"
    PROVE  RevertPlanned(p)' /\ StartJudged(p)'
BY DEF RevertPlanned, StartJudged, At

LEMMA GaveUp ==
    ASSUME FleetInv, NEW p \in Procs, Finish(p)
    PROVE  RevertPlanned(p)' /\ StartJudged(p)'
<1>1. tx'[p] = Idle
    BY DEF Finish, FleetInv, TypeOK
<1>. QED BY <1>1, NothingPlanned DEF Idle

(* The step of a request itself, by what it does.                          *)
LEMMA PlansMade ==
    ASSUME DeskInv, NEW p \in Procs, Start(p) \/ Step(p) \/ Crash(p)
    PROVE  RevertPlanned(p)' /\ StartJudged(p)'
<1>1. FleetInv /\ RevertPlanned(p) /\ StartJudged(p) /\ tx[p] \in RequestType
      /\ DOMAIN tx = Procs
    BY InHand DEF DeskInv, FleetInv, TypeOK
<1>2. ASSUME NEW r \in Rows, NEW day \in Dates, NEW force \in Forced,
             BeginPickup(p, r, day, force)
      PROVE  RevertPlanned(p)' /\ StartJudged(p)'
    <2>1. /\ tx'[p].pc = "car" /\ tx'[p].route = "pickup" /\ tx'[p].row = r
          /\ tx'[p].early = (Today < book[r].start.day) /\ tx'[p].force = force /\ book' = book
        BY <1>1, <1>2 DEF BeginPickup, Begin, Unchanged, Idle
    <2>2. Today \in Nat /\ book[r].start.day \in Nat
        BY <1>1, TodayAssumption DEF FleetInv, TypeOK, BookRows, Moment
    <2>. DEFINE early == tx'[p].early  start == book[r].start.day
    <2>3. IF early THEN Today <= start ELSE start <= Today
        <3>1. early = (Today < start) /\ Today \in Nat /\ start \in Nat
            BY <2>1, <2>2
        <3>. HIDE DEF early, start
        <3>2. CASE Today < start
            <4>1. early
                BY <3>1, <3>2
            <4>. QED BY <3>1, <3>2, <4>1
        <3>3. CASE ~(Today < start)
            <4>1. ~early
                BY <3>1, <3>3
            <4>. QED BY <3>1, <3>3, <4>1
        <3>. QED BY <3>2, <3>3
    <2>4. force => TRUE \in Forced
        BY ForcedAssumption
    <2>. QED BY <2>1, <2>3, <2>4 DEF RevertPlanned, StartJudged, At
<1>3. ASSUME NEW r \in Rows, NEW to \in Statuses, NEW force \in Forced,
             BeginStatus(p, r, to, force)
      PROVE  RevertPlanned(p)' /\ StartJudged(p)'
    <2>. DEFINE early == /\ to = "picked_up" /\ book[r].status # "picked_up"
                         /\ Today < book[r].start.day
    <2>1. /\ tx'[p].pc = "write" /\ tx'[p].route = "status" /\ tx'[p].row = r
          /\ tx'[p].to = to /\ tx'[p].early = early /\ book' = book
        <3>1. tx' = [tx EXCEPT ![p] = [Idle EXCEPT !.pc = "write", !.route = "status",
                                   !.row = r, !.to = to, !.early = early]] /\ Unchanged
            BY <1>3 DEF BeginStatus, Begin
        <3>. HIDE DEF early
        <3>. QED BY <1>1, <3>1 DEF Unchanged, Idle
    <2>2. Today \in Nat /\ book[r].start.day \in Nat
        BY <1>1, TodayAssumption DEF FleetInv, TypeOK, BookRows, Moment
    <2>3. book[r].kind = "rental" /\ (early => to = "picked_up" /\ Today <= book[r].start.day)
        BY <1>3, <2>2 DEF BeginStatus
    <2>. HIDE DEF early
    <2>. QED BY <2>1, <2>3 DEF RevertPlanned, StartJudged, At
<1>4. ASSUME NEW r \in Rows,
             \/ \E day \in Dates : BeginReturn(p, r, day)
             \/ BeginRevert(p, r) \/ Delete(p, r)
      PROVE  RevertPlanned(p)' /\ StartJudged(p)'
    <2>1. tx'[p].pc \in {"row", "read"} /\ tx'[p].route # "pickup"
        <3>1. CASE \E day \in Dates : BeginReturn(p, r, day)
            BY <1>1, <3>1 DEF BeginReturn, Begin, Idle
        <3>2. CASE BeginRevert(p, r)
            BY <1>1, <3>2 DEF BeginRevert, Begin, Idle
        <3>3. CASE Delete(p, r)
            BY <1>1, <3>3 DEF Delete, Begin, Recompute, Idle
        <3>. QED BY <1>4, <3>1, <3>2, <3>3
    <2>. QED BY <2>1, NothingPlanned
<1>5. ASSUME NEW c \in Cars,
             \/ \E flagged \in BOOLEAN : Workshop(p, c, flagged)
             \/ \E new \in ByHand : BeginStaff(p, c, new)
      PROVE  RevertPlanned(p)' /\ StartJudged(p)'
    <2>1. tx'[p].pc \in {"read", "staff"} /\ tx'[p].route # "pickup"
        <3>1. CASE \E flagged \in BOOLEAN : Workshop(p, c, flagged)
            BY <1>1, <3>1 DEF Workshop, Begin, Recompute, Idle
        <3>2. CASE \E new \in ByHand : BeginStaff(p, c, new)
            BY <1>1, <3>2 DEF BeginStaff, Begin, Idle
        <3>. QED BY <1>5, <3>1, <3>2
    <2>. QED BY <2>1, NothingPlanned
<1>6. CASE Sweep(p)
    <2>1. tx'[p].pc = "read" /\ tx'[p].route = "sweep"
        BY <1>1, <1>6 DEF Sweep, Begin, Recompute, Idle
    <2>. QED BY <2>1, NothingPlanned
<1>7. CASE PickupLocksCar(p) \/ PickupWritesRow(p)
    <2>1. /\ tx'[p].route = "pickup" /\ tx'[p].row = tx[p].row /\ tx'[p].early = tx[p].early
          /\ tx'[p].force = tx[p].force /\ tx'[p].pc # "write" /\ book' = book /\ tx[p].route = "pickup"
        <3>1. CASE PickupLocksCar(p)
            BY <1>1, <3>1 DEF PickupLocksCar, At, Unchanged, RequestType
        <3>2. CASE PickupWritesRow(p)
            BY <1>1, <3>2 DEF PickupWritesRow, Prepared, At, Unchanged, RequestType
        <3>. QED BY <1>7, <3>1, <3>2
    <2>. QED BY <1>1, <2>1 DEF RevertPlanned, StartJudged, At
<1>8. CASE ReturnWritesRow(p) \/ ReturnLocksCar(p)
    <2>1. tx'[p].route = "return" /\ tx'[p].pc # "write"
        <3>1. CASE ReturnWritesRow(p)
            BY <1>1, <3>1 DEF ReturnWritesRow, At, RequestType
        <3>2. CASE ReturnLocksCar(p)
            BY <1>1, <3>2 DEF ReturnLocksCar, Prepared, At, RequestType
        <3>. QED BY <1>8, <3>1, <3>2
    <2>. QED BY <2>1, NothingPlanned
<1>9. CASE RevertLocksRow(p)
    <2>1. /\ tx'[p].route = "revert" /\ tx'[p].pc = "car" /\ tx'[p].row = tx[p].row
          /\ book' = book /\ Present(tx[p].row)
        BY <1>1, <1>9 DEF RevertLocksRow, At, Unchanged, RequestType
    <2>. QED BY <2>1 DEF RevertPlanned, StartJudged, At, Present
<1>10. CASE RevertLocksCar(p)
    <2>1. /\ tx'[p].route = "revert" /\ tx'[p].pc = "commit" /\ tx'[p].row = tx[p].row
          /\ tx'[p].reading = RestoreTo(tx[p].row)
        BY <1>1, <1>10 DEF RevertLocksCar, Prepared, At, RequestType
    <2>2. /\ book' = book /\ Revertible(tx[p].row) /\ Present(tx[p].row)
        BY <1>1, <1>10 DEF RevertLocksCar, Unchanged, RevertPlanned
    <2>3. RestoreTo(tx[p].row)' = RestoreTo(tx[p].row)
        BY <2>1, <2>2 DEF RestoreTo, LaterHandover
    <2>. QED BY <2>1, <2>2, <2>3 DEF RevertPlanned, StartJudged, At, Present, Revertible
<1>11. CASE PickupRefused(p) \/ Overtaken(p) \/ RevertRefused(p) \/ Commit(p)
            \/ DeadlockAbort(p) \/ StatusGone(p) \/ Crash(p)
    BY <1>1, <1>11, GaveUp DEF PickupRefused, Overtaken, RevertRefused, Commit,
                               DeadlockAbort, StatusGone, Crash
<1>12. CASE StatusWrite(p) \/ StaffWrite(p)
    <2>1. tx'[p].pc \in {"read", "idle"} /\ tx'[p].route # "pickup"
        <3>1. CASE StatusWrite(p)
            BY <1>1, <3>1 DEF StatusWrite, Recompute, Idle
        <3>2. CASE StaffWrite(p)
            BY <1>1, <3>2 DEF StaffWrite, Idle
        <3>. QED BY <1>12, <3>1, <3>2
    <2>. QED BY <2>1, NothingPlanned
<1>13. CASE ReadVehicles(p) \/ ReadReservations(p) \/ PutAvailability(p)
    <2>1. tx[p].pc \in {"read", "rows", "put"} /\ tx[p].route # "pickup"
        BY <1>1, <1>13, InHand DEF ReadVehicles, ReadReservations, PutAvailability, Filled,
                                   Handling, Handovers
    <2>2. tx'[p].pc \in {"idle", "read", "rows", "put"} /\ tx'[p].route # "pickup"
        <3>1. Ended(p).pc \in {"idle", "read"} /\ Ended(p).route # "pickup"
            BY DEF Ended, Recompute, Idle
        <3>2. CASE ReadVehicles(p)
            <4>1. PICK views : tx' = [tx EXCEPT ![p].pc = "rows", ![p].views = views]
                BY <3>2 DEF ReadVehicles
            <4>. QED BY <1>1, <2>1, <4>1 DEF RequestType
        <3>3. CASE ReadReservations(p)
            <4>1. PICK cars, next :
                     \/ tx' = [tx EXCEPT ![p] = Ended(p)]
                     \/ tx' = [tx EXCEPT ![p].pc = "put", ![p].cars = cars,
                                         ![p].views = Nothing, ![p].next = next]
                BY <3>3 DEF ReadReservations
            <4>. QED BY <1>1, <2>1, <3>1, <4>1 DEF RequestType
        <3>4. CASE PutAvailability(p)
            <4>1. PICK value \in Availabilities :
                     LET left == tx[p].cars \ { c \in tx[p].cars : tx[p].next[c] = value }
                     IN IF left = {}
                          THEN tx' = [tx EXCEPT ![p] = Ended(p)]
                          ELSE tx' = [tx EXCEPT ![p].cars = left,
                                                ![p].next = [c \in left |-> tx[p].next[c]]]
                BY <3>4 DEF PutAvailability
            <4>. DEFINE left == tx[p].cars \ { c \in tx[p].cars : tx[p].next[c] = value }
                        next == [c \in left |-> tx[p].next[c]]
            <4>2. \/ tx' = [tx EXCEPT ![p] = Ended(p)]
                  \/ tx' = [tx EXCEPT ![p].cars = left, ![p].next = next]
                BY <4>1
            <4>. HIDE DEF left, next
            <4>. QED BY <1>1, <2>1, <3>1, <4>2 DEF RequestType
        <3>. QED BY <1>13, <3>2, <3>3, <3>4
    <2>. QED BY <2>2, NothingPlanned
<1>14. CASE Start(p)
    BY <1>2, <1>3, <1>4, <1>5, <1>6, <1>14 DEF Start
<1>15. CASE Step(p)
    BY <1>7, <1>8, <1>9, <1>10, <1>11, <1>12, <1>13, <1>15 DEF Step
<1>. QED BY <1>11, <1>14, <1>15

LEMMA DeskBegins == Init => DeskInv
<1>. SUFFICES ASSUME Init, NEW p \in Procs PROVE RevertPlanned(p) /\ StartJudged(p)
    BY FleetBegins DEF DeskInv
<1>1. tx[p] = Idle
    BY DEF Init
<1>. QED BY <1>1 DEF RevertPlanned, StartJudged, At, Idle

(* A step is of one request, and the others stay as they are.              *)
LEMMA OneAtATime ==
    ASSUME FleetInv, [Next]_vars, NEW q \in Procs, tx'[q] # tx[q]
    PROVE  Start(q) \/ Step(q) \/ Crash(q)
<1>1. \E p \in Procs : Start(p) \/ Step(p) \/ Crash(p)
    BY DEF Next, EnterMileage, vars
<1>2. PICK p \in Procs : Start(p) \/ Step(p) \/ Crash(p)
    BY <1>1
<1>3. DOMAIN tx = Procs
    BY DEF FleetInv, TypeOK
<1>4. CASE Start(p)
    <2>1. \E w : tx' = [tx EXCEPT ![p] = w]
        BY <1>4 DEF Start, BeginPickup, BeginReturn, BeginStatus, BeginRevert, Delete,
                    Workshop, BeginStaff, Sweep, Begin
    <2>. QED BY <1>3, <1>4, <2>1
<1>5. CASE Step(p) \/ Crash(p)
    <2>1. \/ \E w : tx' = [tx EXCEPT ![p] = w]
          \/ PickupLocksCar(p) \/ PickupWritesRow(p) \/ ReturnWritesRow(p) \/ ReturnLocksCar(p)
          \/ RevertLocksRow(p) \/ RevertLocksCar(p)
          \/ ReadVehicles(p) \/ ReadReservations(p) \/ PutAvailability(p)
        BY <1>5 DEF Step, Crash, PickupRefused, Overtaken, RevertRefused, Commit, DeadlockAbort,
                    StatusWrite, StatusGone, StaffWrite, Finish
    <2>2. CASE PickupLocksCar(p) \/ PickupWritesRow(p) \/ ReturnWritesRow(p)
               \/ ReturnLocksCar(p) \/ RevertLocksRow(p) \/ RevertLocksCar(p)
        BY <1>3, <1>5, <2>2 DEF PickupLocksCar, PickupWritesRow, ReturnWritesRow,
               ReturnLocksCar, RevertLocksRow, RevertLocksCar, Prepared
    <2>3. CASE ReadVehicles(p) \/ ReadReservations(p) \/ PutAvailability(p)
        BY <1>3, <1>5, <2>3 DEF ReadVehicles, ReadReservations, PutAvailability
    <2>. QED BY <1>3, <1>5, <2>1, <2>2, <2>3
<1>. QED BY <1>2, <1>4, <1>5

LEMMA DeskKeeps == DeskInv /\ [Next]_vars => DeskInv'
<1>. SUFFICES ASSUME DeskInv, [Next]_vars PROVE DeskInv'
    OBVIOUS
<1>1. FleetInv'
    BY FleetKeeps DEF DeskInv
<1>2. ASSUME NEW q \in Procs PROVE RevertPlanned(q)' /\ StartJudged(q)'
    BY PlansKept, PlansMade, OneAtATime DEF DeskInv
<1>. QED BY <1>1, <1>2 DEF DeskInv

LEMMA DeskInvariance == Spec => []DeskInv
BY DeskBegins, DeskKeeps, PTL DEF Spec

-----------------------------------------------------------------------------
(* A COMMIT, seen from the rows and the vehicles.                          *)
LEMMA CommitIsWhole ==
    ASSUME FleetInv, NEW p \in Procs, Commit(p)
    PROVE  Handled(tx[p].row, tx[p].image,
                   IF tx[p].reading = NoReading THEN fleet[CarOf(p)].odometer
                   ELSE tx[p].reading)
<1>. DEFINE c == CarOf(p)
<1>1. c = book[tx[p].row].car /\ AnswerHolds(p) /\ tx[p].pc = "commit" /\ c \in Cars
    BY InHand DEF Commit, CarOf, Knows, Filled
<1>2. tx[p].next[c] \in Availabilities
    BY <1>1 DEF AnswerHolds
<1>3. /\ book' = [book EXCEPT ![tx[p].row] = tx[p].image]
      /\ fleet' = [fleet EXCEPT ![c].availability = tx[p].next[c],
                                ![c].odometer = IF tx[p].reading = NoReading
                                    THEN fleet[c].odometer ELSE tx[p].reading]
      /\ overruled' = overruled
    <2>1. fleet' = [fleet EXCEPT ![c] = [fleet[c] EXCEPT !.availability = tx[p].next[c],
                         !.odometer = IF tx[p].reading = NoReading
                                    THEN fleet[c].odometer ELSE tx[p].reading]]
        BY <1>1 DEF Commit, FleetInv, TypeOK, Vehicles
    <2>. QED BY <1>1, <2>1 DEF Commit, FleetInv, TypeOK, Vehicles
<1>. QED BY <1>1, <1>2, <1>3 DEF Handled, AnswerHolds

LEMMA JudgedEarly ==
    ASSUME NEW row \in BookRows, NEW early \in BOOLEAN,
           IF early THEN Today <= row.start.day ELSE row.start.day <= Today
    PROVE  Started(row, early) = Started(row, Today < row.start.day)
<1>1. Today \in Nat /\ row.start.day \in Nat
    BY TodayAssumption DEF BookRows, Moment
<1>2. CASE Today < row.start.day
    BY <1>1, <1>2 DEF Started
<1>3. CASE row.start.day < Today
    BY <1>1, <1>3 DEF Started
<1>4. CASE row.start.day = Today
    <2>1. [row EXCEPT !.start.day = Today] = row
        BY <1>4 DEF BookRows, Moment
    <2>2. ~(Today < row.start.day)
        BY <1>1, <1>4
    <2>. QED BY <2>1, <2>2 DEF Started
<1>. QED BY <1>1, <1>2, <1>3, <1>4

LEMMA CommitHandsOver ==
    ASSUME DeskInv, NEW p \in Procs, Commit(p)
    PROVE  HandoversNext
<1>. DEFINE r == tx[p].row
<1>1. /\ FleetInv /\ RevertPlanned(p) /\ StartJudged(p) /\ tx[p].pc = "commit"
      /\ Handled(r, tx[p].image, IF tx[p].reading = NoReading THEN fleet[CarOf(p)].odometer
                                 ELSE tx[p].reading)
    BY CommitIsWhole DEF DeskInv, Commit
<1>2. /\ r \in Rows /\ book[r] \in BookRows /\ CarOf(p) = book[r].car
      /\ tx[p].route \in Handling /\ Knows(p) /\ Filled(p) /\ tx[p] \in RequestType
    BY <1>1, InHand DEF Filled, CarOf
<1>3. \A kind \in Handovers : <<r, kind>> # NoReading
    BY DEF Handovers, NoReading
<1>4. CASE tx[p].route = "pickup"
    <2>1. /\ tx[p].reading = <<r, "pickup">> /\ book[r].status = "booked"
          /\ tx[p].image = PickedUp(book[r], tx[p].early, tx[p].day, fleet[CarOf(p)].odometer)
          /\ ~HandoverRefused(fleet[CarOf(p)]) \/ tx[p].force
        BY <1>1, <1>2, <1>4 DEF Knows, PickupKnows, At
    <2>2. tx[p].day \in Dates /\ (tx[p].force => TRUE \in Forced)
        BY <1>1, <1>2, <1>4 DEF Filled, Handovers, StartJudged
    <2>3. Started(book[r], tx[p].early) = Started(book[r], Today < book[r].start.day)
        BY <1>1, <1>2, <1>4, JudgedEarly DEF StartJudged, RequestType
    <2>4. tx[p].image = PickedUp(book[r], Today < book[r].start.day, tx[p].day,
                                 fleet[CarOf(p)].odometer)
        BY <2>1, <2>3 DEF PickedUp
    <2>5. tx[p].reading # NoReading
        BY <1>3, <2>1 DEF Handovers
    <2>6. HandOver(r, tx[p].day)
        BY <1>1, <1>2, <2>1, <2>2, <2>4, <2>5 DEF HandOver
    <2>. QED BY <1>2, <2>2, <2>6 DEF HandoversNext
<1>5. CASE tx[p].route = "return"
    <2>1. /\ tx[p].reading = <<r, "return">> /\ book[r].status = "picked_up"
          /\ tx[p].image = WithReading(BroughtBack(book[r], tx[p].day),
                                       fleet[CarOf(p)].odometer)
        BY <1>1, <1>2, <1>5 DEF Knows, ReturnKnows, At
    <2>2. tx[p].day \in Dates
        BY <1>2, <1>5 DEF Filled, Handovers
    <2>3. tx[p].reading # NoReading
        BY <1>3, <2>1 DEF Handovers
    <2>4. TakeBack(r, tx[p].day)
        BY <1>1, <1>2, <2>1, <2>3 DEF TakeBack
    <2>. QED BY <1>2, <2>2, <2>4 DEF HandoversNext
<1>6. CASE tx[p].route = "revert"
    <2>1. tx[p].image = Reverted(book[r]) /\ tx[p].reading = RestoreTo(r)
        BY <1>1, <1>2, <1>6 DEF Knows, RevertKnows, RevertPlanned, At
    <2>2. /\ Present(r) /\ book[r].kind = "rental"
          /\ book[r].status \in {"picked_up"} \cup ClosedStatuses
        BY <1>1, <1>6 DEF RevertPlanned, At
    <2>3. Undo(r)
        BY <1>1, <1>2, <2>1, <2>2 DEF Undo
    <2>. QED BY <1>2, <2>3 DEF HandoversNext
<1>. QED BY <1>2, <1>4, <1>5, <1>6 DEF Handling, Handovers

(* The writers beside the handovers.                                       *)
LEMMA StatusIsBehind ==
    ASSUME DeskInv, NEW p \in Procs, StatusWrite(p)
    PROVE  HandoversNext
<1>. DEFINE r == tx[p].row  to == tx[p].to
<1>1. /\ FleetInv /\ StartJudged(p) /\ At(p, "write", "status") /\ Present(r)
      /\ WriteBehind(p, r, [Started(book[r], tx[p].early) EXCEPT !.status = to])
    BY DEF DeskInv, StatusWrite
<1>2. /\ r \in Rows /\ book[r] \in BookRows /\ to \in BookStatuses /\ tx[p].early \in BOOLEAN
    BY <1>1, InHand DEF Filled, At, RequestType
<1>3. book[r].kind = "rental"
    BY <1>1 DEF StartJudged, At
<1>4. PICK early \in BOOLEAN :
         /\ early => to = "picked_up" /\ Today < book[r].start.day
         /\ Started(book[r], tx[p].early) = Started(book[r], early)
    <2>1. CASE ~tx[p].early
        BY <2>1 DEF Started
    <2>2. CASE tx[p].early
        <3>1. to = "picked_up" /\ Today <= book[r].start.day
            BY <1>1, <2>2 DEF StartJudged, At
        <3>2. Started(book[r], tx[p].early) = Started(book[r], Today < book[r].start.day)
            BY <1>2, <2>2, <3>1, JudgedEarly
        <3>3. CASE Today < book[r].start.day
            BY <2>2, <3>1, <3>3 DEF Started
        <3>4. CASE ~(Today < book[r].start.day)
            BY <3>2, <3>4 DEF Started
        <3>. QED BY <3>3, <3>4
    <2>. QED BY <2>1, <2>2
<1>5. /\ book' = [book EXCEPT ![r] = [Started(book[r], early) EXCEPT !.status = to]]
      /\ fleet' = fleet
      /\ overruled' = [overruled EXCEPT ![book[r].car] = TRUE]
    <2>1. [Started(book[r], tx[p].early) EXCEPT !.status = to].car = book[r].car
        BY <1>2, StartedTyped DEF BookRows
    <2>. QED BY <1>1, <1>4, <2>1 DEF WriteBehind
<1>6. RowBehind(r)
    BY <1>1, <1>2, <1>3, <1>4, <1>5 DEF RowBehind, BookStatuses
<1>. QED BY <1>2, <1>6 DEF HandoversNext

LEMMA DeleteIsBehind ==
    ASSUME FleetInv, NEW p \in Procs, NEW r \in Rows, Delete(p, r)
    PROVE  HandoversNext
<1>1. book[r] \in BookRows
    BY DEF FleetInv, TypeOK
<1>2. /\ Present(r) /\ book[r].kind = "rental"
      /\ book' = [book EXCEPT ![r].deleted = TRUE]
      /\ fleet' = fleet /\ overruled' = [overruled EXCEPT ![book[r].car] = TRUE]
    BY <1>1 DEF Delete, WriteBehind, BookRows
<1>. QED BY <1>2 DEF HandoversNext, RowBehind

LEMMA VehicleAlone ==
    ASSUME FleetInv, NEW p \in Procs,
           \/ \E c \in Cars, flagged \in BOOLEAN : Workshop(p, c, flagged)
           \/ StaffWrite(p) \/ PutAvailability(p)
    PROVE  HandoversNext
<1>1. /\ fleet \in [Cars -> Vehicles] /\ overruled \in [Cars -> BOOLEAN]
    BY DEF FleetInv, TypeOK
<1>2. ASSUME NEW c \in Cars, NEW flagged \in BOOLEAN, Workshop(p, c, flagged)
      PROVE  VehiclesAlone
    BY <1>1, <1>2 DEF Workshop, VehiclesAlone, Vehicles
<1>3. CASE StaffWrite(p)
    <2>1. PICK c \in tx[p].cars :
             /\ fleet' = [fleet EXCEPT ![c].availability = tx[p].to,
                                       ![c].flagged = IF tx[p].flag = "keep" THEN @
                                                      ELSE tx[p].flag = "raise"]
             /\ overruled' = [overruled EXCEPT ![c] = TRUE]
        BY <1>3 DEF StaffWrite
    <2>2. book' = book
        BY <1>3 DEF StaffWrite
    <2>3. ASSUME NEW d \in Cars
          PROVE  \/ fleet'[d] = fleet[d] /\ overruled'[d] = overruled[d]
                 \/ fleet'[d].odometer = fleet[d].odometer /\ overruled'[d]
        <3>1. CASE d = c
            BY <1>1, <2>1, <3>1 DEF Vehicles
        <3>2. CASE d # c
            BY <1>1, <2>1, <3>2
        <3>. QED BY <3>1, <3>2
    <2>. QED BY <2>2, <2>3 DEF VehiclesAlone, HandoversNext
<1>4. CASE PutAvailability(p)
    <2>1. PICK value \in Availabilities :
             LET bucket == { c \in tx[p].cars : tx[p].next[c] = value } IN
             /\ fleet' = [c \in Cars |-> IF c \in bucket
                             THEN [fleet[c] EXCEPT !.availability = value] ELSE fleet[c]]
             /\ overruled' = [c \in Cars |-> overruled[c] \/ c \in bucket]
        BY <1>4 DEF PutAvailability
    <2>2. book' = book
        BY <1>4 DEF PutAvailability
    <2>. DEFINE bucket == { c \in tx[p].cars : tx[p].next[c] = value }
    <2>3. ASSUME NEW c \in Cars
          PROVE  \/ fleet'[c] = fleet[c] /\ overruled'[c] = overruled[c]
                 \/ fleet'[c].odometer = fleet[c].odometer /\ overruled'[c]
        <3>1. CASE c \in bucket
            BY <1>1, <2>1, <3>1 DEF Vehicles
        <3>2. CASE c \notin bucket
            <4>1. fleet'[c] = fleet[c] /\ overruled'[c] = (overruled[c] \/ FALSE)
                BY <2>1, <3>2
            <4>2. overruled[c] \in BOOLEAN
                BY <1>1
            <4>. QED BY <4>1, <4>2
        <3>. QED BY <3>1, <3>2
    <2>. QED BY <2>2, <2>3 DEF VehiclesAlone, HandoversNext
<1>. QED BY <1>2, <1>3, <1>4 DEF HandoversNext

(* Every step is a step of AtomicHandovers or leaves rows and vehicles as  *)
(* they are.                                                               *)
LEMMA EveryStepWhole ==
    ASSUME DeskInv, [Next]_vars
    PROVE  [HandoversNext]_<<book, fleet, overruled>>
<1>. DEFINE Stutter == UNCHANGED <<book, fleet, overruled>>
<1>1. FleetInv
    BY DEF DeskInv
<1>2. ASSUME NEW p \in Procs, Step(p)
      PROVE  HandoversNext \/ Stutter
    <2>1. Stutter \/ Commit(p) \/ StatusWrite(p) \/ StaffWrite(p) \/ PutAvailability(p)
        BY <1>2 DEF Step, PickupLocksCar, PickupRefused, PickupWritesRow, Overtaken,
               ReturnWritesRow, ReturnLocksCar, RevertLocksRow, RevertLocksCar, RevertRefused,
               DeadlockAbort, StatusGone, ReadVehicles, ReadReservations, Unchanged
    <2>. QED BY <1>1, <2>1, CommitHandsOver, StatusIsBehind, VehicleAlone
<1>3. ASSUME NEW p \in Procs, Start(p)
      PROVE  HandoversNext \/ Stutter
    <2>1. \/ Stutter
          \/ \E r \in Rows : Delete(p, r)
          \/ \E c \in Cars, flagged \in BOOLEAN : Workshop(p, c, flagged)
        BY <1>3 DEF Start, BeginPickup, BeginReturn, BeginStatus, BeginRevert, BeginStaff,
                    Sweep, Unchanged
    <2>. QED BY <1>1, <2>1, DeleteIsBehind, VehicleAlone
<1>4. ASSUME NEW c \in Cars, EnterMileage(c)
      PROVE  HandoversNext
    BY <1>4 DEF EnterMileage, OdometerByHand, HandoversNext
<1>5. ASSUME NEW p \in Procs, Crash(p)
      PROVE  Stutter
    BY <1>5 DEF Crash, Unchanged
<1>6. UNCHANGED vars => Stutter
    BY DEF vars
<1>. QED BY <1>2, <1>3, <1>4, <1>5, <1>6 DEF Next

(* Every interleaving of pickups, returns and reverts, with the writers    *)
(* that do not lock the vehicle between them, is a sequence of whole       *)
(* handovers: what each of them judged, read and planned under its locks   *)
(* is still so at its COMMIT.                                              *)
THEOREM HandoversAreAtomic == Spec => ImplementsHandovers
<1>1. Init => HandoversInit
    BY FleetBegins DEF FleetInv, TypeOK, Init, HandoversInit
<1>. QED BY <1>1, DeskInvariance, EveryStepWhole, PTL DEF Spec, ImplementsHandovers
=============================================================================
