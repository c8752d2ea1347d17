----------------------------- MODULE Transports -----------------------------
(***************************************************************************)
(* The transports of one rental and the cars that stand in for a day while *)
(* a transport is under way.  A transport is changed by its own screen, by *)
(* the rental it delivers, and by the recycle bin; the booking of its      *)
(* stand-in car is a row of another table, linked by id.  Every request    *)
(* reads the transport once, without a lock, and writes it by id at its    *)
(* COMMIT; only the stand-in cars are locked.                              *)
(*                                                                         *)
(* The transports here have no breakdown flag, keep their own vehicle, and *)
(* that vehicle is not out on a rental; stand-in cars are of the fleet.    *)
(***************************************************************************)
EXTENDS Naturals

CONSTANTS
    Loaners,    \* cars that may stand in
    Dates,      \* bound: days a transport can be planned on
    Clerks,     \* requests in flight
    Plans       \* bound: routes the requests take, transports, stand-in rows

AllRoutes == {"plan", "status", "want", "car", "day", "delete", "restore",
              "rental", "rental_off", "handover"}

NoOne    == "nobody"
NoLoaner == "no car"

ASSUME TransportsAssumption ==
    /\ Dates # {} /\ NoLoaner \notin Loaners /\ NoOne \notin Clerks
    /\ \A j \in Plans : /\ j.routes \subseteq AllRoutes
                        /\ j.legs \in Nat /\ j.spares \in Nat

VARIABLES
    plan,       \* the routes and the bounds of this behaviour
    leg,        \* [transport ids -> row, in the table or in the bin]
    standIn,    \* [ids -> reservation of a stand-in car]
    hire,       \* what the rental asks of its delivery leg
    loanerLock, \* [Loaners -> request]: the advisory lock
    clerk,      \* [Clerks -> request]
    crossed,    \* ghost: transports two requests were on at once
    fromRental, \* ghost: transports moved or cancelled from the rental's side
    reopened,   \* ghost: transports that came back from the bin
    synced      \* ghost: two edits of the rental overlapped

transportVars == <<plan, leg, standIn, hire, loanerLock, clerk, crossed, fromRental,
                   reopened, synced>>

Legs   == 1..plan.legs
Spares == 1..plan.spares

Underway == {"scheduled", "in_progress"}
Closed   == {"completed", "cancelled"}

(* TRANSPORT_TRANSITIONS; the status a transport has is always accepted.   *)
Transitions(status) ==
    CASE status = "scheduled"   -> {"in_progress", "completed", "cancelled"}
      [] status = "in_progress" -> {"completed", "cancelled"}
      [] OTHER                  -> {}

LegRows == [place : {"none", "table", "bin"}, status : Underway \cup Closed,
            delivery : BOOLEAN, wants : BOOLEAN, car : Loaners \cup {NoLoaner},
            day : Dates, spare : Nat]

StandInRows == [status : {"none", "booked", "picked_up", "returned", "cancelled"},
                deleted : BOOLEAN, car : Loaners \cup {NoLoaner}, day : Dates,
                transport : Nat]

Planned(day) == [place |-> "table", status |-> "scheduled", delivery |-> FALSE,
                 wants |-> FALSE, car |-> NoLoaner, day |-> day, spare |-> 0]

SomeDay    == CHOOSE d \in Dates : TRUE
NoLeg      == [Planned(SomeDay) EXCEPT !.place = "none"]
NoBooking  == [status |-> "none", deleted |-> FALSE, car |-> NoLoaner, day |-> SomeDay,
               transport |-> 0]
ClerkIdle  == [pc |-> "idle", on |-> 0, cur |-> NoLeg, next |-> NoLeg,
               sets |-> {}, spare |-> 0, new |-> FALSE, verdict |-> "none"]

ClerkStates ==
    [pc : {"idle", "judge", "commit", "drop_spare", "drop", "restore", "sync", "sync_leg"},
     on : Nat, cur : LegRows, next : LegRows, sets : SUBSET AllRoutes, spare : Nat,
     new : BOOLEAN, verdict : {"none", "booked", "free", "taken"}]

TransportsInit ==
    /\ plan \in Plans
    /\ leg = [t \in Legs |-> NoLeg]
    /\ standIn = [i \in Spares |-> NoBooking]
    /\ hire = [live |-> TRUE, wants |-> FALSE, day |-> SomeDay]
    /\ loanerLock = [c \in Loaners |-> NoOne]
    /\ clerk = [c \in Clerks |-> ClerkIdle]
    /\ crossed = {} /\ fromRental = {} /\ reopened = {} /\ synced = FALSE

-----------------------------------------------------------------------------
StandInLive(i) == standIn[i].status \in {"booked", "picked_up"} /\ ~standIn[i].deleted

(* isVehicleBookable for one whole day (00:00 - 23:59).                    *)
FreeOn(car, day, aside) ==
    \A i \in Spares \ {aside} : StandInLive(i) => standIn[i].car # car \/ standIn[i].day # day

Busy(t)   == \E c \in Clerks : clerk[c].on = t
Booked(i) == i # 0 /\ standIn[i].status = "booked"

TakeOn(c, request) ==
    /\ clerk[c].pc = "idle"
    /\ clerk' = [clerk EXCEPT ![c] = request]
    /\ crossed' = IF Busy(request.on) THEN crossed \cup {request.on} ELSE crossed

LetGo(c) ==
    /\ clerk' = [clerk EXCEPT ![c] = ClerkIdle]
    /\ loanerLock' = [k \in Loaners |-> IF loanerLock[k] = c THEN NoOne ELSE loanerLock[k]]

SparesAside == UNCHANGED <<standIn, reopened>>
RentalAside == UNCHANGED <<hire, fromRental, synced>>

(* Bound: the rows that may still become a stand-in.                       *)
FreeRows == { i \in Spares : standIn[i].status = "none" }

-----------------------------------------------------------------------------
(* applyTransportUpdate: the row as it is, and the columns that are sent.  *)
BeginPlan(c, t, wants, car, day) ==
    /\ "plan" \in plan.routes
    /\ leg[t].place = "none" /\ ~Busy(t)
    /\ TakeOn(c, [ClerkIdle EXCEPT !.pc = "judge", !.on = t, !.cur = Planned(day),
                   !.next = [Planned(day) EXCEPT !.wants = wants, !.car = car],
                   !.sets = {"want", "car"}, !.new = TRUE])
    /\ UNCHANGED <<plan, leg, loanerLock>> /\ SparesAside /\ RentalAside

BeginUpdate(c, t, column, next) ==
    /\ column \in plan.routes
    /\ leg[t].place = "table"
    /\ next.status \in Transitions(leg[t].status) \cup {leg[t].status}
    /\ TakeOn(c, [ClerkIdle EXCEPT !.pc = "judge", !.on = t, !.cur = leg[t],
                   !.next = [next EXCEPT !.spare = leg[t].spare], !.sets = {column},
                   !.spare = leg[t].spare])
    /\ UNCHANGED <<plan, leg, loanerLock>> /\ SparesAside /\ RentalAside

(* One column differs from the row, or none does.                          *)
Sent(t, column) ==
    CASE column = "status" -> { [leg[t] EXCEPT !.status = s] : s \in Underway \cup Closed }
      [] column = "want"   -> { [leg[t] EXCEPT !.wants = w] : w \in BOOLEAN }
      [] column = "car"    -> { [leg[t] EXCEPT !.car = k] : k \in Loaners \cup {NoLoaner} }
      [] column = "day"    -> { [leg[t] EXCEPT !.day = d] : d \in Dates }

(* What the columns ask of the stand-in.                                   *)
Closing(w)  == w.next.status # w.cur.status /\ w.next.status \in Closed
Reassign(w) == w.spare # 0 /\ w.cur.car # w.next.car
TurnOff(w)  == w.spare # 0 /\ w.cur.wants /\ ~w.next.wants
Arrange(w)  == w.next.wants /\ ~Closing(w) /\ w.spare = 0
Shift(w)    == w.cur.day # w.next.day /\ (w.spare # 0 \/ Arrange(w))

(* The car that is locked and judged, if there is one, and for which days. *)
CarOf(w) == IF Arrange(w) \/ (Reassign(w) /\ ~TurnOff(w)) THEN w.next.car
            ELSE IF Shift(w) /\ Booked(w.spare) THEN standIn[w.spare].car ELSE NoLoaner

Judged(w) == (IF Arrange(w) \/ Reassign(w) THEN {w.cur.day} ELSE {})
                \cup (IF Shift(w) THEN {w.next.day} ELSE {})

(* A stand-in that is no longer "booked" is a handover on record.          *)
Refused(w) == (Reassign(w) \/ TurnOff(w) \/ (Shift(w) /\ w.spare # 0)) /\ ~Booked(w.spare)

(* Mutant: the check runs outside the transaction (BUG-160).               *)
JudgeAlone(c) ==
    LET w == clerk[c]
        car == CarOf(w)
        free == car = NoLoaner \/ \A d \in Judged(w) : FreeOn(car, d, w.spare)
    IN /\ w.pc = "judge"
       /\ IF Refused(w) \/ ~free
            THEN LetGo(c)
            ELSE /\ clerk' = [clerk EXCEPT ![c].pc = "commit",
                                           ![c].verdict = IF Booked(w.spare) THEN "booked" ELSE "none"]
                 /\ UNCHANGED loanerLock
       /\ UNCHANGED <<plan, leg, crossed>> /\ SparesAside /\ RentalAside

Judge(c) ==
    LET w == clerk[c]
        car == CarOf(w)
        free == car = NoLoaner \/ \A d \in Judged(w) : FreeOn(car, d, w.spare)
    IN /\ w.pc = "judge"
       /\ car # NoLoaner => loanerLock[car] = NoOne
       /\ IF Refused(w) \/ ~free
            THEN LetGo(c)
            ELSE /\ clerk' = [clerk EXCEPT ![c].pc = "commit",
                                           ![c].verdict = IF Booked(w.spare) THEN "booked" ELSE "none"]
                 /\ loanerLock' = [k \in Loaners |-> IF k = car THEN c ELSE loanerLock[k]]
       /\ UNCHANGED <<plan, leg, crossed>> /\ SparesAside /\ RentalAside

(* Mutant: only DELETE frees the stand-in (BUG-115).                       *)
DroppedByDelete(w) ==
    /\ w.verdict = "booked"
    /\ TurnOff(w) \/ (Closing(w) /\ standIn[w.spare].car = NoLoaner)

(* What becomes of the row of the stand-in: cancelled when it is turned    *)
(* off, or the transport is cancelled, or was never assigned and is done.  *)
Dropped(w) ==
    /\ w.verdict = "booked"
    /\ \/ TurnOff(w)
       \/ Closing(w) /\ (w.next.status = "cancelled" \/ standIn[w.spare].car = NoLoaner)

(* Mutant: the stand-in stays where it was (BUG-114).                      *)
SpareAfterStays(w) ==
    IF Dropped(w) THEN [standIn[w.spare] EXCEPT !.status = "cancelled"]
    ELSE [standIn[w.spare] EXCEPT !.car = IF Reassign(w) THEN w.next.car ELSE @]

SpareAfter(w) ==
    IF Dropped(w) THEN [standIn[w.spare] EXCEPT !.status = "cancelled"]
    ELSE [standIn[w.spare] EXCEPT !.car = IF Reassign(w) THEN w.next.car ELSE @,
                                !.day = IF Shift(w) THEN w.next.day ELSE @]

NewSpare == CHOOSE i \in FreeRows : TRUE

(* Mutant: the link of the new booking is not kept.                        *)
LinkAfterLost(w) == IF Dropped(w) \/ Arrange(w) THEN 0 ELSE w.spare

LinkAfter(w) == IF Arrange(w) THEN NewSpare ELSE IF Dropped(w) THEN 0 ELSE w.spare

(* The UPDATE sets what was sent, and from the old read also spareRequired, *)
(* relatedVehicleId and spareReservationId.  A transport that is gone by    *)
(* now matches no row, while the rest of the transaction stands.            *)
Commit(c) ==
    LET w == clerk[c]
        row == [leg[w.on] EXCEPT !.wants = w.next.wants, !.car = w.next.car,
                  !.spare = LinkAfter(w),
                  !.status = IF "status" \in w.sets THEN w.next.status ELSE @,
                  !.day = IF "day" \in w.sets THEN w.next.day ELSE @]
        old == IF w.spare # 0 THEN [standIn EXCEPT ![w.spare] = SpareAfter(w)] ELSE standIn
    IN /\ w.pc = "commit" /\ (Arrange(w) => FreeRows # {})
       /\ standIn' = IF Arrange(w)
                     THEN [old EXCEPT ![NewSpare] =
                              [status |-> "booked", deleted |-> FALSE,
                               car |-> w.next.car, day |-> w.next.day,
                               transport |-> w.on]]
                     ELSE old
       /\ leg' = [leg EXCEPT ![w.on] =
                     IF w.new THEN [w.next EXCEPT !.spare = LinkAfter(w)]
                     ELSE IF @.place = "table" THEN row ELSE @]
       /\ LetGo(c)
       /\ UNCHANGED <<plan, crossed, reopened>> /\ RentalAside

-----------------------------------------------------------------------------
(* DELETE /api/transports/:id: the stand-in goes to the bin if it was still *)
(* booked when the route looked, then the transport itself.                *)
BeginDelete(c, t) ==
    /\ "delete" \in plan.routes /\ leg[t].place = "table"
    /\ LET i == leg[t].spare
       IN TakeOn(c, [ClerkIdle EXCEPT !.pc = IF Booked(i) THEN "drop_spare" ELSE "drop",
                      !.on = t, !.cur = leg[t], !.spare = i,
                      !.verdict = IF Booked(i) THEN "booked" ELSE "none"])
    /\ UNCHANGED <<plan, leg, loanerLock>> /\ SparesAside /\ RentalAside

DropSpare(c) ==
    /\ clerk[c].pc = "drop_spare"
    /\ standIn' = [standIn EXCEPT ![clerk[c].spare].deleted = TRUE]
    /\ clerk' = [clerk EXCEPT ![c].pc = "drop"]
    /\ UNCHANGED <<plan, leg, loanerLock, crossed, reopened>> /\ RentalAside

DropLeg(c) ==
    /\ clerk[c].pc = "drop"
    /\ leg' = [leg EXCEPT ![clerk[c].on].place = "bin"]
    /\ LetGo(c)
    /\ UNCHANGED <<plan, crossed>> /\ SparesAside /\ RentalAside

(* restoreDeletedTransport: the stand-in is judged under its row lock, not *)
(* under the lock of the car; if it is taken it is cancelled in the bin.   *)
BeginRestore(c, t) ==
    /\ "restore" \in plan.routes /\ leg[t].place = "bin"
    /\ \A e \in Clerks : ~(clerk[e].pc = "restore" /\ clerk[e].on = t)
    /\ LET i == leg[t].spare
           free == i # 0 => standIn[i].car = NoLoaner \/ FreeOn(standIn[i].car, standIn[i].day, i)
       IN TakeOn(c, [ClerkIdle EXCEPT !.pc = "restore", !.on = t, !.cur = leg[t],
                      !.spare = IF i # 0 /\ standIn[i].deleted THEN i ELSE 0,
                      !.verdict = IF free THEN "free" ELSE "taken"])
    /\ UNCHANGED <<plan, leg, loanerLock>> /\ SparesAside /\ RentalAside

Restore(c) ==
    LET w == clerk[c] IN
    /\ w.pc = "restore"
    /\ leg' = [leg EXCEPT ![w.on].place = "table"]
    /\ standIn' = IF w.spare = 0 THEN standIn
                ELSE IF w.verdict = "free" THEN [standIn EXCEPT ![w.spare].deleted = FALSE]
                ELSE [standIn EXCEPT ![w.spare].status = "cancelled"]
    /\ reopened' = reopened \cup {w.on}
    /\ LetGo(c)
    /\ UNCHANGED <<plan, crossed>> /\ RentalAside

-----------------------------------------------------------------------------
(* An edit of the rental, and after it, outside any transaction, the sync   *)
(* of its delivery leg with the row that edit returned.                    *)
Syncing(c) == clerk[c].pc \in {"sync", "sync_leg"}

EditRental(c, wants, day) ==
    /\ "rental" \in plan.routes /\ hire.live
    /\ clerk[c].pc = "idle"
    /\ hire' = [hire EXCEPT !.wants = wants, !.day = day]
    /\ clerk' = [clerk EXCEPT ![c] = [ClerkIdle EXCEPT !.pc = "sync",
                   !.next = [Planned(day) EXCEPT !.delivery = TRUE, !.wants = wants]]]
    /\ synced' = (synced \/ \E e \in Clerks : Syncing(e))
    /\ UNCHANGED <<plan, leg, loanerLock, crossed, fromRental>> /\ SparesAside

DeliveryLegs == { t \in Legs : leg[t].place = "table" /\ leg[t].delivery }

(* The leg that is there, and the ids that are not given out.              *)
SyncRead(c, t) ==
    /\ clerk[c].pc = "sync"
    /\ IF DeliveryLegs # {} THEN t \in DeliveryLegs
       ELSE leg[t].place = "none" /\ ~Busy(t)
    /\ clerk' = [clerk EXCEPT ![c].pc = "sync_leg", ![c].on = t, ![c].cur = leg[t],
                              ![c].new = DeliveryLegs = {}]
    /\ crossed' = IF Busy(t) THEN crossed \cup {t} ELSE crossed
    /\ UNCHANGED <<plan, leg, loanerLock>> /\ SparesAside /\ RentalAside

(* Mutant: a delivery that is no longer wanted stays planned.              *)
SyncedRowKept(w) ==
    IF w.new THEN IF w.next.wants THEN [w.next EXCEPT !.wants = FALSE] ELSE leg[w.on]
    ELSE IF w.cur.status \in Closed \/ leg[w.on].place # "table" THEN leg[w.on]
    ELSE [leg[w.on] EXCEPT !.day = w.next.day]

(* Mutant: a leg that is done is cancelled when it is no longer wanted.     *)
SyncedRowOverClosed(w) ==
    IF w.new THEN IF w.next.wants THEN [w.next EXCEPT !.wants = FALSE] ELSE leg[w.on]
    ELSE IF leg[w.on].place # "table" THEN leg[w.on]
    ELSE IF w.next.wants THEN [leg[w.on] EXCEPT !.day = w.next.day]
    ELSE [leg[w.on] EXCEPT !.status = "cancelled"]

(* Inserted, moved, cancelled - or left alone when it was closed at the    *)
(* time of the read.                                                       *)
SyncedRow(w) ==
    IF w.new THEN IF w.next.wants THEN [w.next EXCEPT !.wants = FALSE] ELSE leg[w.on]
    ELSE IF w.cur.status \in Closed \/ leg[w.on].place # "table" THEN leg[w.on]
    ELSE IF w.next.wants THEN [leg[w.on] EXCEPT !.day = w.next.day]
    ELSE [leg[w.on] EXCEPT !.status = "cancelled"]

SyncWrite(c) ==
    LET w == clerk[c] IN
    /\ w.pc = "sync_leg"
    /\ leg' = [leg EXCEPT ![w.on] = SyncedRow(w)]
    /\ fromRental' = IF ~w.new /\ SyncedRow(w) # leg[w.on]
                       THEN fromRental \cup {w.on} ELSE fromRental
    /\ LetGo(c)
    /\ UNCHANGED <<plan, hire, synced, crossed>> /\ SparesAside

(* The rental is deleted, or cancelled with its transports: the open ones   *)
(* are cancelled in one conditional UPDATE.                                *)
RentalOff(live) ==
    /\ "rental_off" \in plan.routes /\ hire.live
    /\ LET gone == { t \in DeliveryLegs : leg[t].status \in Underway }
       IN /\ leg' = [t \in Legs |-> IF t \in gone THEN [leg[t] EXCEPT !.status = "cancelled"]
                                    ELSE leg[t]]
          /\ fromRental' = fromRental \cup gone
          /\ crossed' = crossed \cup { t \in gone : Busy(t) }
    /\ hire' = [hire EXCEPT !.live = live]
    /\ synced' = (synced \/ \E c \in Clerks : Syncing(c))
    /\ UNCHANGED <<plan, loanerLock, clerk>> /\ SparesAside

(* The stand-in is handed over, and comes back.                            *)
HandOver(i) ==
    /\ "handover" \in plan.routes /\ ~standIn[i].deleted
    /\ \/ /\ standIn[i].status = "booked" /\ standIn[i].car # NoLoaner
          /\ standIn' = [standIn EXCEPT ![i].status = "picked_up"]
       \/ /\ standIn[i].status = "picked_up"
          /\ standIn' = [standIn EXCEPT ![i].status = "returned"]
    /\ UNCHANGED <<plan, leg, loanerLock, clerk, crossed, reopened>> /\ RentalAside

-----------------------------------------------------------------------------
TransportsNext ==
    \/ \E c \in Clerks : Judge(c) \/ Commit(c) \/ DropSpare(c) \/ DropLeg(c)
                           \/ Restore(c) \/ SyncWrite(c)
    \/ \E c \in Clerks, t \in Legs :
          \/ \E wants \in BOOLEAN, car \in Loaners \cup {NoLoaner}, day \in Dates :
                BeginPlan(c, t, wants, car, day)
          \/ \E column \in {"status", "want", "car", "day"} :
                \E next \in Sent(t, column) : BeginUpdate(c, t, column, next)
          \/ BeginDelete(c, t) \/ BeginRestore(c, t) \/ SyncRead(c, t)
    \/ \E c \in Clerks, wants \in BOOLEAN, day \in Dates : EditRental(c, wants, day)
    \/ \E live \in BOOLEAN : RentalOff(live)
    \/ \E i \in Spares : HandOver(i)

TransportsSpec == TransportsInit /\ [][TransportsNext]_transportVars

-----------------------------------------------------------------------------
TransportsTypeOK ==
    /\ plan \in Plans /\ leg \in [Legs -> LegRows] /\ standIn \in [Spares -> StandInRows]
    /\ hire \in [live : BOOLEAN, wants : BOOLEAN, day : Dates]
    /\ loanerLock \in [Loaners -> Clerks \cup {NoOne}]
    /\ clerk \in [Clerks -> ClerkStates] /\ synced \in BOOLEAN
    /\ crossed \subseteq Legs /\ fromRental \subseteq Legs /\ reopened \subseteq Legs
    /\ \A t \in Legs : leg[t].spare \in Spares \cup {0}

(* Two transports never have the same stand-in on one day (BUG-160), but   *)
(* for a stand-in of a transport that two requests met on, whose car and    *)
(* day were judged apart; of one back from the bin, judged without the     *)
(* lock; or of one the rental moved, whose stand-in stays on its old day   *)
(* and gets its car judged for the new one.                                *)
NoLoanerTwice ==
    \A i, k \in Spares :
        /\ i # k /\ StandInLive(i) /\ StandInLive(k) /\ standIn[i].car # NoLoaner
        /\ standIn[i].car = standIn[k].car /\ standIn[i].day = standIn[k].day
        => \E t \in crossed \cup reopened \cup fromRental :
               t \in {standIn[i].transport, standIn[k].transport}

Alone(t) == t \notin crossed

(* No stand-in is booked for nothing: the transport a live booking names is *)
(* on record and names that booking, unless two requests met on it.        *)
EverySpareHasItsTransport ==
    \A i \in Spares :
        standIn[i].status = "booked" /\ ~standIn[i].deleted =>
            LET t == standIn[i].transport
            IN t \in Legs /\ (Alone(t) => leg[t].place # "none" /\ leg[t].spare = i)

(* A request that cancels a transport leaves no stand-in booked for it     *)
(* (BUG-115); one that is handed over stays, and so does the stand-in of a *)
(* transport that is cancelled from the side of its rental or that two     *)
(* requests met on.                                                        *)
CancellingFreesSpare ==
    [][\A t \in Legs :
          /\ leg[t].status # "cancelled" /\ leg'[t].status = "cancelled"
          /\ t \notin fromRental' \cup crossed /\ leg[t].spare # 0
          => standIn'[leg[t].spare].status # "booked" \/ standIn'[leg[t].spare].deleted
      ]_transportVars

(* The stand-in is booked on the day of its transport (BUG-114), unless    *)
(* the rental moved the transport or two requests met on it.               *)
SpareOnItsDay ==
    \A t \in Legs :
        /\ leg[t].place = "table" /\ leg[t].status \in Underway /\ Alone(t)
        /\ leg[t].spare # 0 /\ t \notin fromRental
        => standIn[leg[t].spare].day = leg[t].day \/ ~Booked(leg[t].spare)

(* A closed transport stays closed (BUG-136), unless a request that had    *)
(* read it before it was closed writes its own status over it.             *)
ClosedTransportStays ==
    [][\A t \in Legs :
          leg[t].status \in Closed /\ leg'[t].status # leg[t].status =>
             \E c \in Clerks : clerk[c].on = t /\ clerk[c].cur.status # leg[t].status
      ]_transportVars

(* The delivery follows its rental: at most one leg, open only while the    *)
(* rental stands and wants it - once no sync is under way, unless edits of *)
(* the rental overlapped, a leg is back from the bin, or two requests met  *)
(* on it.                                                                  *)
DeliveryFollowsRental ==
    \/ synced \/ \E c \in Clerks : Syncing(c)
    \/ \E t \in reopened : leg[t].delivery
    \/ /\ \A s, t \in DeliveryLegs : s = t
       /\ \A t \in DeliveryLegs :
              leg[t].status \in Underway /\ Alone(t) => hire.wants /\ hire.live

(* What the comments say of every transport (BUG-115, BUG-137): nothing is *)
(* booked for a trip that was cancelled.                                   *)
NothingForACancelledTrip ==
    \A t \in Legs :
        leg[t].place = "table" /\ leg[t].status = "cancelled" /\ leg[t].spare # 0
        => ~Booked(leg[t].spare)
=============================================================================
