------------------------------ MODULE RecycleBin ------------------------------
(***************************************************************************)
(* The recycle bin of one vehicle and its bookings.  Deleting a booking    *)
(* marks its row; deleting the vehicle takes its rows out of the table and *)
(* keeps a copy of them in the record.  A restore claims a record, a purge *)
(* locks it.  The delete of the vehicle locks the row of the vehicle, a    *)
(* new booking the advisory lock of its id: the two do not meet, as        *)
(* reservations.vehicle_id has no foreign key.                             *)
(***************************************************************************)
EXTENDS Naturals, FiniteSets

CONSTANTS
    Bookings,   \* ids of reservations on the vehicle
    NoId,       \* no reservation
    Officers,   \* requests in flight
    MaxRecords  \* bound: records the bin ever gets

ASSUME BinAssumption ==
    MaxRecords \in Nat /\ NoId \notin Bookings /\ IsFiniteSet(Officers)

VARIABLES
    vehicle,    \* whether its row is in the table
    booking,    \* [Bookings -> row of reservations]
    bin,        \* [Records -> row of deleted_records]
    officer,    \* [Officers -> request, with the locks its step implies]
    astray      \* ghost: bookings whose row and record went separate ways

binVars == <<vehicle, booking, bin, officer, astray>>

Records     == 1..MaxRecords
BookingRows == [status : {"none", "live", "closed", "gone"}, binned : BOOLEAN]
Unbooked    == [status |-> "none", binned |-> FALSE]
Copies      == [Bookings -> BookingRows]
BinRows     == [kind : {"none", "vehicle", "booking", "purged"},
                of : Bookings \cup {NoId}, open : BOOLEAN, kept : Copies]
NoCopy      == [b \in Bookings |-> Unbooked]
NoRecord    == [kind |-> "none", of |-> NoId, open |-> FALSE, kept |-> NoCopy]
AtRest      == [pc |-> "idle", rec |-> 0, kept |-> NoCopy, doomed |-> {}]
OfficerRows == [pc : {"idle", "book", "wipe", "drop", "restore", "purge"},
                rec : Records \cup {0}, kept : Copies, doomed : SUBSET Bookings]

InTable(row)  == row.status \in {"live", "closed"}
Here(b)       == InTable(booking[b])
(* blockingVehicleReservations                                             *)
InUse(b)      == booking[b].status = "live" /\ ~booking[b].binned

Deleting(o)   == officer[o].pc \in {"wipe", "drop"}
Writable(b)   == \A o \in Officers : b \notin officer[o].doomed
Untouched(r)  == \A o \in Officers : officer[o].rec # r
Blank         == { r \in Records : bin[r].kind = "none" }
RoomInBin     == Cardinality({ o \in Officers : Deleting(o) }) < Cardinality(Blank)
NewRecord     == CHOOSE r \in Blank : TRUE

(* The vehicle may have a booking that is over.                            *)
BinInit ==
    /\ vehicle = "here"
    /\ booking \in [Bookings -> {Unbooked, [status |-> "closed", binned |-> FALSE]}]
    /\ bin = [r \in Records |-> NoRecord]
    /\ officer = [o \in Officers |-> AtRest]
    /\ astray = {}

-----------------------------------------------------------------------------
Rest(o)     == officer' = [officer EXCEPT ![o] = AtRest]
Engage(o, row) == officer[o].pc = "idle" /\ officer' = [officer EXCEPT ![o] = row]
BinAside    == UNCHANGED <<bin, astray>>

(* What the delete of the vehicle has copied is no longer what is there.   *)
Stray(b) == astray' = IF \E o \in Officers : officer[o].pc = "wipe"
                      THEN astray \cup {b} ELSE astray

(* createReservationChecked, behind the advisory lock: the vehicle is      *)
(* looked up, the periods do not clash, ...                                *)
BeginBooking(o) ==
    /\ vehicle = "here" /\ \A e \in Officers : officer[e].pc # "book"
    /\ Engage(o, [AtRest EXCEPT !.pc = "book"])
    /\ UNCHANGED <<vehicle, booking>> /\ BinAside

(* ... and the row is inserted.                                            *)
LandBooking(o, b) ==
    /\ officer[o].pc = "book" /\ booking[b].status = "none"
    /\ booking' = [booking EXCEPT ![b].status = "live"]
    /\ Rest(o) /\ UNCHANGED vehicle /\ BinAside

(* It is cancelled, or returned.                                           *)
CloseBooking(b) ==
    /\ InUse(b) /\ Writable(b)
    /\ booking' = [booking EXCEPT ![b].status = "closed"]
    /\ UNCHANGED <<vehicle, officer>> /\ BinAside

(* Mutant: the delete does not ask whether the row was binned already.     *)
SoftDeleteTwice(b) ==
    /\ Here(b) /\ Writable(b) /\ RoomInBin
    /\ booking' = [booking EXCEPT ![b].binned = TRUE]
    /\ bin' = [bin EXCEPT ![NewRecord] =
                 [kind |-> "booking", of |-> b, open |-> TRUE, kept |-> NoCopy]]
    /\ Stray(b) /\ UNCHANGED <<vehicle, officer>>

(* softDeleteReservation: one conditional UPDATE and its record.           *)
SoftDeleteBooking(b) ==
    /\ Here(b) /\ ~booking[b].binned /\ Writable(b) /\ RoomInBin
    /\ booking' = [booking EXCEPT ![b].binned = TRUE]
    /\ bin' = [bin EXCEPT ![NewRecord] =
                 [kind |-> "booking", of |-> b, open |-> TRUE, kept |-> NoCopy]]
    /\ Stray(b) /\ UNCHANGED <<vehicle, officer>>

-----------------------------------------------------------------------------
(* deleteVehicle: the row of the vehicle is locked, everything on it is    *)
(* copied, and a booking that runs or is planned refuses it.               *)
DeleteJudge(o) ==
    /\ vehicle = "here" /\ RoomInBin
    /\ \A e \in Officers : ~Deleting(e)
    /\ \A b \in Bookings : ~InUse(b)
    /\ Engage(o, [AtRest EXCEPT !.pc = "wipe", !.kept = booking])
    /\ UNCHANGED <<vehicle, booking>> /\ BinAside

(* DELETE FROM reservations: whatever is committed by now, locked.         *)
DeleteRows(o) ==
    /\ officer[o].pc = "wipe"
    /\ officer' = [officer EXCEPT ![o].pc = "drop",
                                  ![o].doomed = { b \in Bookings : Here(b) }]
    /\ UNCHANGED <<vehicle, booking>> /\ BinAside

(* The vehicle itself, and COMMIT.                                         *)
DeleteVehicle(o) ==
    /\ officer[o].pc = "drop"
    /\ vehicle' = "gone"
    /\ booking' = [b \in Bookings |-> IF b \in officer[o].doomed
                     THEN [status |-> "gone", binned |-> FALSE] ELSE booking[b]]
    /\ bin' = [bin EXCEPT ![NewRecord] =
                 [kind |-> "vehicle", of |-> NoId, open |-> TRUE,
                  kept |-> officer[o].kept]]
    /\ Rest(o) /\ UNCHANGED astray

-----------------------------------------------------------------------------
(* Mutant: the claim does not wait for the lock of the record.             *)
ClaimAlongside(o, r) ==
    /\ bin[r].open
    /\ Engage(o, [AtRest EXCEPT !.pc = "restore", !.rec = r])
    /\ UNCHANGED <<vehicle, booking>> /\ BinAside

(* restoreDeletedRecord: the record is claimed, in the transaction ...     *)
Claim(o, r) ==
    /\ bin[r].open /\ Untouched(r)
    /\ Engage(o, [AtRest EXCEPT !.pc = "restore", !.rec = r])
    /\ UNCHANGED <<vehicle, booking>> /\ BinAside

(* ... that puts the row back if it is still there and still deleted, ...  *)
RestoreBooking(o) ==
    LET r == officer[o].rec  b == bin[r].of IN
    /\ officer[o].pc = "restore" /\ bin[r].kind = "booking" /\ Writable(b)
    /\ IF Here(b) /\ booking[b].binned
         THEN /\ booking' = [booking EXCEPT ![b].binned = FALSE]
              /\ bin' = [bin EXCEPT ![r].open = FALSE] /\ Stray(b)
         ELSE UNCHANGED <<booking, bin, astray>>
    /\ Rest(o) /\ UNCHANGED vehicle

(* ... or the vehicle with the copies, if its id and plate are free.       *)
RestoreVehicle(o) ==
    LET r == officer[o].rec IN
    /\ officer[o].pc = "restore" /\ bin[r].kind = "vehicle"
    /\ IF vehicle = "gone"
         THEN /\ vehicle' = "here"
              /\ booking' = [b \in Bookings |-> IF InTable(bin[r].kept[b])
                               THEN bin[r].kept[b] ELSE booking[b]]
              /\ bin' = [bin EXCEPT ![r].open = FALSE]
         ELSE UNCHANGED <<vehicle, booking, bin>>
    /\ Rest(o) /\ UNCHANGED astray

(* purgeReservationRows: the row goes if it is still there and deleted.    *)
RowGoes(r) ==
    bin[r].kind = "booking" /\ bin[r].open /\ Here(bin[r].of) /\ booking[bin[r].of].binned

(* purgeOne: behind the lock of the record the deleted row goes for good,  *)
(* unless it is restored; of a vehicle only the copies are left to go.     *)
BeginPurge(o, r) ==
    /\ bin[r].kind \in {"vehicle", "booking"} /\ Untouched(r)
    /\ Engage(o, [AtRest EXCEPT !.pc = "purge", !.rec = r])
    /\ UNCHANGED <<vehicle, booking>> /\ BinAside

Purge(o) ==
    LET r == officer[o].rec  b == bin[r].of IN
    /\ officer[o].pc = "purge"
    /\ bin[r].kind = "booking" => Writable(b)
    /\ booking' = IF RowGoes(r) THEN [booking EXCEPT ![b] = [status |-> "gone", binned |-> FALSE]]
                  ELSE booking
    /\ bin' = [bin EXCEPT ![r] = [NoRecord EXCEPT !.kind = "purged"]]
    /\ IF bin[r].kind = "booking" /\ bin[r].open /\ ~Here(b)
         THEN astray' = astray \cup {b} ELSE IF RowGoes(r) THEN Stray(b) ELSE UNCHANGED astray
    /\ Rest(o) /\ UNCHANGED vehicle

(* A refusal (a clash, a plate that is taken), an error or a restart.      *)
RollBack(o) ==
    /\ officer[o].pc # "idle"
    /\ Rest(o) /\ UNCHANGED <<vehicle, booking>> /\ BinAside

-----------------------------------------------------------------------------
BinNext ==
    \/ \E o \in Officers : \/ BeginBooking(o) \/ DeleteJudge(o) \/ DeleteRows(o)
                           \/ DeleteVehicle(o) \/ RestoreBooking(o)
                           \/ RestoreVehicle(o) \/ Purge(o) \/ RollBack(o)
    \/ \E o \in Officers, b \in Bookings : LandBooking(o, b)
    \/ \E o \in Officers, r \in Records : Claim(o, r) \/ BeginPurge(o, r)
    \/ \E b \in Bookings : CloseBooking(b) \/ SoftDeleteBooking(b)

BinSpec == BinInit /\ [][BinNext]_binVars

-----------------------------------------------------------------------------
BinTypeOK ==
    /\ vehicle \in {"here", "gone"} /\ booking \in Copies
    /\ bin \in [Records -> BinRows] /\ officer \in [Officers -> OfficerRows]
    /\ astray \subseteq Bookings

WaysBack(kind, b) ==
    { r \in Records : bin[r].open /\ bin[r].kind = kind /\ bin[r].of = b }

(* Whatever is deleted, restored and purged at once, a thing has one way   *)
(* back.  A vehicle that is there has no open record, and one that is not  *)
(* has one at most.  A booking in the table has one exactly when it is     *)
(* deleted - unless it was deleted, restored or purged while a delete of   *)
(* the vehicle had copied it, or its record purged while the vehicle was   *)
(* in the bin.                                                             *)
OneWayBack ==
    /\ \A r, s \in WaysBack("vehicle", NoId) : r = s /\ vehicle = "gone"
    /\ \A b \in Bookings \ astray : Here(b) =>
          /\ \A r, s \in WaysBack("booking", b) : r = s
          /\ booking[b].binned <=> WaysBack("booking", b) # {}

(* The comment of deleteVehicle: a booking that runs or is planned is not  *)
(* wiped by a delete that read "no bookings" before it.                    *)
LiveBookingStays ==
    [][\A b \in Bookings : InUse(b) => booking'[b].status # "gone"]_binVars
=============================================================================
