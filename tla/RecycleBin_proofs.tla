-------------------------- MODULE RecycleBin_proofs --------------------------
(* Proofs about RecycleBin, for any number of bookings, requests and        *)
(* records.                                                                 *)
EXTENDS RecycleBin, FiniteSetTheorems, TLAPS

(* A record says what it is of, and only a record that is there is open.   *)
RecordsSound ==
    \A r \in Records :
        /\ bin[r].open => bin[r].kind \in {"vehicle", "booking"}
        /\ bin[r].kind = "vehicle" => bin[r].of = NoId
        /\ bin[r].kind = "booking" => bin[r].of \in Bookings

(* A restore and a purge have the record they began with to themselves.    *)
RecordLocked ==
    /\ \A o \in Officers :
          /\ officer[o].pc \in {"restore", "purge"} =>
                officer[o].rec \in Records /\ bin[officer[o].rec].kind \in {"vehicle", "booking"}
          /\ officer[o].pc = "restore" => bin[officer[o].rec].open
          /\ officer[o].pc \notin {"restore", "purge"} => officer[o].rec = 0
          /\ officer[o].pc # "drop" => officer[o].doomed = {}
    /\ \A o, e \in Officers : officer[o].rec = officer[e].rec => o = e \/ officer[o].rec = 0

(* One request deletes the vehicle, while it is there, and has a record    *)
(* left to do so.                                                          *)
OneDeletes ==
    \A o \in Officers : Deleting(o) =>
        /\ vehicle = "here"
        /\ Blank # {}
        /\ \A e \in Officers : Deleting(e) => e = o

(* What the records say of a booking that is, or would be, in the table.   *)
Recorded(b, row) ==
    /\ \A r, s \in WaysBack("booking", b) : r = s
    /\ row.binned <=> WaysBack("booking", b) # {}

VehicleRecorded ==
    \A r, s \in WaysBack("vehicle", NoId) : r = s /\ vehicle = "gone"

RowsRecorded ==
    /\ \A b \in Bookings \ astray : Here(b) => Recorded(b, booking[b])
    /\ \A b \in Bookings : booking[b].status = "none" =>
          ~booking[b].binned /\ WaysBack("booking", b) = {}

(* The copy a request makes of a booking is as the records say, and the    *)
(* booking is there until the request removes it; ...                      *)
CopiedTrue ==
    \A o \in Officers : Deleting(o) =>
        /\ \A b \in Bookings \ astray : InTable(officer[o].kept[b]) =>
              /\ Recorded(b, officer[o].kept[b])
              /\ Here(b)
              /\ officer[o].pc = "drop" => b \in officer[o].doomed
        /\ \A b \in officer[o].doomed : Here(b)

(* ... and so is the copy in the record of the vehicle, while the booking  *)
(* itself is gone.                                                         *)
KeptTrue ==
    \A r \in WaysBack("vehicle", NoId) : \A b \in Bookings \ astray :
        InTable(bin[r].kept[b]) =>
           Recorded(b, bin[r].kept[b]) /\ booking[b].status = "gone"

BinInv ==
    /\ BinTypeOK /\ RecordsSound /\ RecordLocked /\ OneDeletes
    /\ VehicleRecorded /\ RowsRecorded /\ CopiedTrue /\ KeptTrue

-----------------------------------------------------------------------------
LEMMA RowsTyped ==
    /\ Unbooked \in BookingRows /\ NoCopy \in Copies
    /\ NoRecord \in BinRows /\ AtRest \in OfficerRows
<1>1. Unbooked \in BookingRows BY DEF Unbooked, BookingRows
<1>2. NoCopy \in Copies BY <1>1 DEF NoCopy, Copies
<1>3. NoRecord \in BinRows BY <1>2 DEF NoRecord, BinRows
<1>4. AtRest \in OfficerRows BY <1>2 DEF AtRest, OfficerRows
<1>. QED BY <1>1, <1>2, <1>3, <1>4

THEOREM BinStarts == BinInit => BinInv
<1>. SUFFICES ASSUME BinInit PROVE BinInv OBVIOUS
<1>1. /\ vehicle = "here" /\ astray = {}
      /\ \A r \in Records : bin[r] = NoRecord
      /\ \A o \in Officers : officer[o] = AtRest
    BY DEF BinInit
<1>0. booking \in Copies /\ \A b \in Bookings : ~booking[b].binned
    <2>. DEFINE over == [status |-> "closed", binned |-> FALSE]
    <2>1. /\ Unbooked \in BookingRows /\ ~Unbooked.binned
          /\ over \in BookingRows /\ ~over.binned
        BY DEF Unbooked, BookingRows
    <2>2. booking \in [Bookings -> {Unbooked, over}] BY DEF BinInit
    <2>. HIDE DEF over
    <2>. QED BY <2>1, <2>2 DEF Copies
<1>2. BinTypeOK
    BY <1>0, RowsTyped DEF BinInit, BinTypeOK
<1>3. \A r \in Records : ~bin[r].open /\ bin[r].kind = "none"
    BY <1>1 DEF NoRecord
<1>4. \A k, b : WaysBack(k, b) = {}
    BY <1>3 DEF WaysBack
<1>5. \A o \in Officers : officer[o].pc = "idle" /\ officer[o].rec = 0 /\ officer[o].doomed = {}
    BY <1>1 DEF AtRest
<1>6. RecordsSound BY <1>3 DEF RecordsSound
<1>7. RecordLocked BY <1>5 DEF RecordLocked
<1>8. OneDeletes /\ CopiedTrue BY <1>5 DEF OneDeletes, CopiedTrue, Deleting
<1>9. VehicleRecorded /\ KeptTrue BY <1>4 DEF VehicleRecorded, KeptTrue
<1>10. RowsRecorded BY <1>0, <1>1, <1>4 DEF RowsRecorded, Recorded
<1>. QED BY <1>2, <1>6, <1>7, <1>8, <1>9, <1>10 DEF BinInv

-----------------------------------------------------------------------------
(* A step of a request that writes nothing leaves everything but what the   *)
(* request itself has read, or locked.                                      *)
LEMMA Unwritten ==
    ASSUME BinInv, NEW o \in Officers, NEW row \in OfficerRows,
           officer' = [officer EXCEPT ![o] = row],
           UNCHANGED <<vehicle, booking, bin, astray>>
    PROVE  /\ BinTypeOK' /\ RecordsSound' /\ VehicleRecorded'
           /\ RowsRecorded' /\ KeptTrue'
           /\ officer'[o] = row
           /\ \A e \in Officers \ {o} : officer'[e] = officer[e]
           /\ \A b : Here(b)' = Here(b)
           /\ Blank' = Blank
           /\ \A b, r : Recorded(b, r)' = Recorded(b, r)
<1>1. BinTypeOK' BY DEF BinInv, BinTypeOK
<1>2. \A k, b : WaysBack(k, b)' = WaysBack(k, b) BY DEF WaysBack
<1>3. \A b, r : Recorded(b, r)' = Recorded(b, r) BY <1>2 DEF Recorded
<1>4. RecordsSound' BY DEF BinInv, RecordsSound
<1>5. VehicleRecorded' BY <1>2 DEF BinInv, VehicleRecorded
<1>6. \A b : Here(b)' = Here(b) BY DEF Here
<1>7. RowsRecorded' BY <1>2, <1>3, <1>6 DEF BinInv, RowsRecorded
<1>8. KeptTrue' BY <1>2, <1>3 DEF BinInv, KeptTrue
<1>9. /\ officer'[o] = row /\ \A e \in Officers \ {o} : officer'[e] = officer[e]
    BY DEF BinInv, BinTypeOK
<1>10. Blank' = Blank BY DEF Blank
<1>. QED BY <1>1, <1>3, <1>4, <1>5, <1>6, <1>7, <1>8, <1>9, <1>10

(* A request that begins to do something else, or gives up, has nothing to  *)
(* answer for but the record it locks.                                      *)
LEMMA Engaged ==
    ASSUME BinInv, NEW o \in Officers, NEW row \in OfficerRows,
           officer' = [officer EXCEPT ![o] = row],
           UNCHANGED <<vehicle, booking, bin, astray>>,
           row.pc \in {"idle", "book", "restore", "purge"}, row.doomed = {},
           row.pc \in {"idle", "book"} => row.rec = 0,
           row.pc \in {"restore", "purge"} =>
              /\ row.rec \in Records /\ Untouched(row.rec)
              /\ bin[row.rec].kind \in {"vehicle", "booking"},
           row.pc = "restore" => bin[row.rec].open
    PROVE  BinInv'
<1>1. /\ officer'[o] = row
      /\ \A e \in Officers \ {o} : officer'[e] = officer[e]
      /\ \A b : Here(b)' = Here(b)
      /\ Blank' = Blank
      /\ \A b, r : Recorded(b, r)' = Recorded(b, r)
    BY Unwritten
<1>2. BinTypeOK' /\ RecordsSound' /\ VehicleRecorded' /\ RowsRecorded' /\ KeptTrue'
    BY Unwritten
<1>3. RecordLocked'
    <2>1. \A e \in Officers \ {o} : officer[e].rec # row.rec \/ row.rec = 0
        BY DEF Untouched
    <2>2. \A e \in Officers :
            /\ officer'[e].pc \in {"restore", "purge"} =>
                  /\ officer'[e].rec \in Records
                  /\ bin[officer'[e].rec].kind \in {"vehicle", "booking"}
            /\ officer'[e].pc = "restore" => bin[officer'[e].rec].open
            /\ officer'[e].pc \notin {"restore", "purge"} => officer'[e].rec = 0
            /\ officer'[e].pc # "drop" => officer'[e].doomed = {}
        <3>. TAKE e \in Officers
        <3>1. CASE e = o BY <1>1, <3>1
        <3>2. CASE e # o BY <1>1, <3>2 DEF BinInv, RecordLocked
        <3>. QED BY <3>1, <3>2
    <2>3. \A d, e \in Officers : officer'[d].rec = officer'[e].rec =>
                                    d = e \/ officer'[d].rec = 0
        BY <1>1, <2>1 DEF BinInv, RecordLocked
    <2>. QED BY <2>2, <2>3 DEF RecordLocked
<1>4. \A e \in Officers : Deleting(e)' => e # o /\ Deleting(e)
    BY <1>1 DEF Deleting
<1>5. OneDeletes' BY <1>1, <1>4 DEF BinInv, OneDeletes
<1>6. CopiedTrue'
    <2>. SUFFICES ASSUME NEW e \in Officers, Deleting(e)'
                  PROVE  /\ \A b \in Bookings \ astray : InTable(officer[e].kept[b]) =>
                               /\ Recorded(b, officer[e].kept[b])'
                               /\ Here(b)'
                               /\ officer[e].pc = "drop" => b \in officer[e].doomed
                         /\ \A b \in officer[e].doomed : Here(b)'
        BY <1>1, <1>4 DEF CopiedTrue
    <2>. QED BY <1>1, <1>4 DEF BinInv, CopiedTrue
<1>. QED BY <1>2, <1>3, <1>5, <1>6 DEF BinInv

LEMMA Reads ==
    ASSUME BinInv, NEW o \in Officers,
           \/ BeginBooking(o) \/ RollBack(o)
           \/ \E r \in Records : Claim(o, r) \/ BeginPurge(o, r)
    PROVE  BinInv'
<1>1. CASE BeginBooking(o)
    <2>. DEFINE row == [AtRest EXCEPT !.pc = "book"]
    <2>1. /\ row \in OfficerRows /\ row.pc = "book" /\ row.rec = 0 /\ row.doomed = {}
        BY RowsTyped DEF AtRest, OfficerRows
    <2>2. /\ officer' = [officer EXCEPT ![o] = row]
          /\ UNCHANGED <<vehicle, booking, bin, astray>>
        BY <1>1 DEF BeginBooking, Engage, BinAside
    <2>. HIDE DEF row
    <2>. QED BY <2>1, <2>2, Engaged
<1>2. CASE RollBack(o)
    <2>1. /\ AtRest \in OfficerRows /\ AtRest.pc = "idle" /\ AtRest.rec = 0 /\ AtRest.doomed = {}
        BY RowsTyped DEF AtRest
    <2>2. /\ officer' = [officer EXCEPT ![o] = AtRest]
          /\ UNCHANGED <<vehicle, booking, bin, astray>>
        BY <1>2 DEF RollBack, Rest, BinAside
    <2>. QED BY <2>1, <2>2, Engaged
<1>3. CASE \E r \in Records : Claim(o, r)
    <2>1. PICK r \in Records : Claim(o, r) BY <1>3
    <2>. DEFINE row == [AtRest EXCEPT !.pc = "restore", !.rec = r]
    <2>2. /\ row \in OfficerRows /\ row.pc = "restore" /\ row.rec = r /\ row.doomed = {}
        BY RowsTyped DEF AtRest, OfficerRows
    <2>3. /\ officer' = [officer EXCEPT ![o] = row]
          /\ UNCHANGED <<vehicle, booking, bin, astray>>
          /\ bin[r].open /\ Untouched(r)
        BY <2>1 DEF Claim, Engage, BinAside
    <2>4. bin[r].kind \in {"vehicle", "booking"}
        BY <2>3 DEF BinInv, RecordsSound
    <2>. HIDE DEF row
    <2>. QED BY <2>2, <2>3, <2>4, Engaged
<1>4. CASE \E r \in Records : BeginPurge(o, r)
    <2>1. PICK r \in Records : BeginPurge(o, r) BY <1>4
    <2>. DEFINE row == [AtRest EXCEPT !.pc = "purge", !.rec = r]
    <2>2. /\ row \in OfficerRows /\ row.pc = "purge" /\ row.rec = r /\ row.doomed = {}
        BY RowsTyped DEF AtRest, OfficerRows
    <2>3. /\ officer' = [officer EXCEPT ![o] = row]
          /\ UNCHANGED <<vehicle, booking, bin, astray>>
          /\ bin[r].kind \in {"vehicle", "booking"} /\ Untouched(r)
        BY <2>1 DEF BeginPurge, Engage, BinAside
    <2>. HIDE DEF row
    <2>. QED BY <2>2, <2>3, Engaged
<1>. QED BY <1>1, <1>2, <1>3, <1>4

(* A new record is a blank one, and one is left for the request that is     *)
(* deleting the vehicle.                                                    *)
LEMMA Room ==
    ASSUME RoomInBin
    PROVE  /\ NewRecord \in Blank
           /\ (\E o \in Officers : Deleting(o)) => Blank \ {NewRecord} # {}
<1>. DEFINE D == { o \in Officers : Deleting(o) }
<1>1. IsFiniteSet(D) /\ Cardinality(D) \in Nat
    BY BinAssumption, FS_Subset, FS_CardinalityType
<1>2. IsFiniteSet(Blank)
    <2>1. IsFiniteSet(Records) BY BinAssumption, FS_Interval DEF Records
    <2>. QED BY <2>1, FS_Subset DEF Blank
<1>3. Cardinality(D) < Cardinality(Blank) BY DEF RoomInBin
<1>4. Cardinality(Blank) \in Nat BY <1>2, FS_CardinalityType
<1>5. Blank # {}
    BY <1>1, <1>3, <1>4, FS_EmptySet
<1>6. NewRecord \in Blank
    BY <1>5 DEF NewRecord
<1>7. ASSUME NEW o \in Officers, Deleting(o), Blank \ {NewRecord} = {}
      PROVE  FALSE
    <2>1. Blank = {NewRecord} BY <1>6, <1>7
    <2>2. Cardinality(Blank) = 1 BY <2>1, FS_Singleton
    <2>3. D # {} BY <1>7
    <2>4. Cardinality(D) # 0 BY <1>1, <2>3, FS_EmptySet
    <2>. QED BY <1>1, <1>3, <2>2, <2>4
<1>. QED BY <1>6, <1>7

LEMMA DeleteJudgeStep ==
    ASSUME BinInv, NEW o \in Officers, DeleteJudge(o)
    PROVE  BinInv'
<1>. DEFINE row == [AtRest EXCEPT !.pc = "wipe", !.kept = booking]
<1>1. /\ row \in OfficerRows /\ row.pc = "wipe" /\ row.rec = 0
      /\ row.doomed = {} /\ row.kept = booking
    BY RowsTyped DEF AtRest, OfficerRows, BinInv, BinTypeOK
<1>2. /\ officer' = [officer EXCEPT ![o] = row]
      /\ UNCHANGED <<vehicle, booking, bin, astray>>
      /\ vehicle = "here" /\ \A e \in Officers : ~Deleting(e)
      /\ Blank # {}
    BY Room DEF DeleteJudge, Engage, BinAside
<1>. HIDE DEF row
<1>3. /\ officer'[o] = row
      /\ \A e \in Officers \ {o} : officer'[e] = officer[e]
      /\ \A b : Here(b)' = Here(b)
      /\ Blank' = Blank
      /\ \A b, r : Recorded(b, r)' = Recorded(b, r)
    BY <1>1, <1>2, Unwritten
<1>4. BinTypeOK' /\ RecordsSound' /\ VehicleRecorded' /\ RowsRecorded' /\ KeptTrue'
    BY <1>1, <1>2, Unwritten
<1>5. RecordLocked' BY <1>1, <1>2, <1>3 DEF BinInv, RecordLocked
<1>6. \A e \in Officers : Deleting(e)' => e = o
    BY <1>2, <1>3 DEF Deleting
<1>7. OneDeletes' BY <1>2, <1>3, <1>6 DEF OneDeletes
<1>8. CopiedTrue'
    <2>. SUFFICES ASSUME NEW b \in Bookings \ astray, InTable(booking[b])
                  PROVE  Recorded(b, booking[b]) /\ Here(b)
        BY <1>1, <1>2, <1>3, <1>6 DEF CopiedTrue
    <2>. QED BY DEF BinInv, RowsRecorded, Here
<1>. QED BY <1>4, <1>5, <1>7, <1>8 DEF BinInv

LEMMA DeleteRowsStep ==
    ASSUME BinInv, NEW o \in Officers, DeleteRows(o)
    PROVE  BinInv'
<1>. DEFINE doomed == { b \in Bookings : Here(b) }
            row    == [officer[o] EXCEPT !.pc = "drop", !.doomed = doomed]
<1>1. /\ row \in OfficerRows /\ row.pc = "drop" /\ row.rec = officer[o].rec
      /\ row.doomed = doomed /\ row.kept = officer[o].kept
    BY DEF OfficerRows, BinInv, BinTypeOK
<1>2. /\ officer' = [officer EXCEPT ![o] = row]
      /\ UNCHANGED <<vehicle, booking, bin, astray>>
      /\ officer[o].pc = "wipe"
    BY DEF DeleteRows, BinAside
<1>. HIDE DEF row
<1>3. /\ officer'[o] = row
      /\ \A e \in Officers \ {o} : officer'[e] = officer[e]
      /\ \A b : Here(b)' = Here(b)
      /\ Blank' = Blank
      /\ \A b, r : Recorded(b, r)' = Recorded(b, r)
    BY <1>1, <1>2, Unwritten
<1>4. BinTypeOK' /\ RecordsSound' /\ VehicleRecorded' /\ RowsRecorded' /\ KeptTrue'
    BY <1>1, <1>2, Unwritten
<1>5. RecordLocked' BY <1>1, <1>2, <1>3 DEF BinInv, RecordLocked
<1>6. Deleting(o) /\ \A e \in Officers : Deleting(e)' => Deleting(e) /\ e = o
    BY <1>2, <1>3 DEF Deleting, BinInv, OneDeletes
<1>7. OneDeletes' BY <1>2, <1>3, <1>6 DEF OneDeletes, BinInv
<1>8. CopiedTrue'
    <2>. SUFFICES /\ \A b \in Bookings \ astray : InTable(officer[o].kept[b]) =>
                        Recorded(b, officer[o].kept[b]) /\ Here(b) /\ b \in doomed
                  /\ \A b \in doomed : Here(b)
        BY <1>1, <1>2, <1>3, <1>6 DEF CopiedTrue
    <2>. QED BY <1>6 DEF BinInv, CopiedTrue
<1>. QED BY <1>4, <1>5, <1>7, <1>8 DEF BinInv

-----------------------------------------------------------------------------
(* A booking that is made, or closed: the bin knows nothing of it.          *)
LEMMA BookingStep ==
    ASSUME BinInv, NEW b \in Bookings,
           \/ \E o \in Officers : LandBooking(o, b)
           \/ CloseBooking(b)
    PROVE  BinInv'
<1>1. /\ UNCHANGED <<vehicle, bin, astray>>
      /\ booking' \in Copies
      /\ \A c \in Bookings \ {b} : booking'[c] = booking[c]
      /\ booking'[b].binned = booking[b].binned
      /\ InTable(booking'[b])
      /\ booking[b].status = "none" \/ InTable(booking[b])
      /\ \A e \in Officers : booking[b].status # "none" => b \notin officer[e].doomed
    <2>. USE DEF InTable, BinAside, Copies, BookingRows, BinInv, BinTypeOK
    <2>1. CASE \E o \in Officers : LandBooking(o, b) BY <2>1 DEF LandBooking
    <2>2. CASE CloseBooking(b) BY <2>2 DEF CloseBooking, InUse, Writable
    <2>. QED BY <2>1, <2>2
<1>2. /\ officer' \in [Officers -> OfficerRows]
      /\ \A e \in Officers : \/ officer'[e] = officer[e]
                             \/ officer'[e] = AtRest
    <2>1. CASE UNCHANGED officer BY <2>1 DEF BinInv, BinTypeOK
    <2>2. CASE \E o \in Officers : Rest(o)
        BY <2>2, RowsTyped DEF Rest, BinInv, BinTypeOK
    <2>. QED BY <2>1, <2>2 DEF LandBooking, CloseBooking
<1>3. /\ \A k, c : WaysBack(k, c)' = WaysBack(k, c)
      /\ Blank' = Blank
    BY <1>1 DEF WaysBack, Blank
<1>4. \A c, r : Recorded(c, r)' = Recorded(c, r) BY <1>3 DEF Recorded
<1>5. \A e \in Officers : Deleting(e)' => Deleting(e) /\ officer'[e] = officer[e]
    BY <1>2 DEF Deleting, AtRest
<1>6. BinTypeOK' BY <1>1, <1>2 DEF BinInv, BinTypeOK
<1>7. RecordsSound' /\ VehicleRecorded'
    BY <1>1, <1>3 DEF BinInv, RecordsSound, VehicleRecorded
<1>8. RecordLocked'
    BY <1>1, <1>2 DEF BinInv, RecordLocked, AtRest
<1>9. OneDeletes' BY <1>1, <1>3, <1>5 DEF BinInv, OneDeletes
<1>10. RowsRecorded'
    <2>1. ASSUME NEW c \in Bookings \ astray, Here(c)'
          PROVE  Recorded(c, booking'[c])
        <3>1. CASE c = b
            BY <1>1, <3>1 DEF BinInv, RowsRecorded, Recorded, Here
        <3>2. CASE c # b
            BY <1>1, <2>1, <3>2 DEF BinInv, RowsRecorded, Here
        <3>. QED BY <3>1, <3>2
    <2>2. ASSUME NEW c \in Bookings, booking'[c].status = "none"
          PROVE  ~booking'[c].binned /\ WaysBack("booking", c) = {}
        BY <1>1, <2>2 DEF BinInv, RowsRecorded, InTable
    <2>. QED BY <1>1, <1>3, <1>4, <2>1, <2>2 DEF RowsRecorded
<1>11. CopiedTrue'
    <2>1. \A c \in Bookings : Here(c) => Here(c)'
        BY <1>1 DEF Here
    <2>2. \A e \in Officers : officer[e].doomed \subseteq Bookings
        BY DEF BinInv, BinTypeOK, OfficerRows
    <2>. SUFFICES ASSUME NEW e \in Officers, Deleting(e)
                  PROVE  /\ \A c \in Bookings \ astray : InTable(officer[e].kept[c]) =>
                               /\ Recorded(c, officer[e].kept[c])
                               /\ Here(c)'
                               /\ officer[e].pc = "drop" => c \in officer[e].doomed
                         /\ \A c \in officer[e].doomed : Here(c)'
        BY <1>1, <1>4, <1>5 DEF CopiedTrue
    <2>. QED BY <2>1, <2>2 DEF BinInv, CopiedTrue
<1>12. KeptTrue'
    <2>. SUFFICES ASSUME NEW r \in WaysBack("vehicle", NoId), NEW c \in Bookings \ astray,
                         InTable(bin[r].kept[c])
                  PROVE  Recorded(c, bin[r].kept[c]) /\ booking'[c].status = "gone"
        BY <1>1, <1>3, <1>4 DEF KeptTrue
    <2>1. Recorded(c, bin[r].kept[c]) /\ booking[c].status = "gone"
        BY DEF BinInv, KeptTrue
    <2>2. c # b BY <1>1, <2>1 DEF InTable
    <2>. QED BY <1>1, <2>1, <2>2
<1>. QED BY <1>6, <1>7, <1>8, <1>9, <1>10, <1>11, <1>12 DEF BinInv

-----------------------------------------------------------------------------
LEMMA SoftDeleteStep ==
    ASSUME BinInv, NEW b \in Bookings, SoftDeleteBooking(b)
    PROVE  BinInv'
<1>. DEFINE n == NewRecord
            new == [kind |-> "booking", of |-> b, open |-> TRUE, kept |-> NoCopy]
<1>1. /\ n \in Records /\ bin[n].kind = "none" /\ ~bin[n].open
      /\ (\E o \in Officers : Deleting(o)) => Blank \ {n} # {}
    BY Room DEF SoftDeleteBooking, Blank, BinInv, RecordsSound
<1>. HIDE DEF n
<1>2. /\ bin' = [bin EXCEPT ![n] = new]
      /\ booking' = [booking EXCEPT ![b].binned = TRUE]
      /\ UNCHANGED <<vehicle, officer>> /\ Stray(b)
      /\ InTable(booking[b]) /\ ~booking[b].binned /\ Writable(b)
    BY DEF SoftDeleteBooking, n, Here
<1>3. new \in BinRows BY RowsTyped DEF BinRows
<1>4. /\ bin' \in [Records -> BinRows] /\ bin'[n] = new
      /\ \A r \in Records \ {n} : bin'[r] = bin[r]
    BY <1>1, <1>2, <1>3 DEF BinInv, BinTypeOK
<1>. HIDE DEF new
<1>5. new.kind = "booking" /\ new.of = b /\ new.open BY DEF new
<1>6. /\ booking' \in Copies
      /\ \A c \in Bookings : booking'[c].status = booking[c].status
      /\ \A c \in Bookings \ {b} : booking'[c] = booking[c]
      /\ booking'[b].binned
    BY <1>2 DEF BinInv, BinTypeOK, Copies, BookingRows
<1>7. /\ astray \subseteq astray' /\ astray' \subseteq astray \cup {b}
      /\ (\E o \in Officers : officer[o].pc = "wipe") => b \in astray'
    BY <1>2 DEF Stray
<1>8. /\ WaysBack("vehicle", NoId)' = WaysBack("vehicle", NoId)
      /\ \A c \in Bookings \ {b} : WaysBack("booking", c)' = WaysBack("booking", c)
      /\ WaysBack("booking", b)' = WaysBack("booking", b) \cup {n}
    BY <1>1, <1>4, <1>5 DEF WaysBack
<1>9. \A c \in Bookings \ {b} : \A row : Recorded(c, row)' = Recorded(c, row)
    BY <1>8 DEF Recorded
<1>10. BinTypeOK'
    BY <1>2, <1>4, <1>6, <1>7 DEF BinInv, BinTypeOK
<1>11. RecordsSound'
    BY <1>4, <1>5 DEF BinInv, RecordsSound
<1>12. RecordLocked'
    <2>1. \A o \in Officers : officer[o].pc \in {"restore", "purge"} => officer[o].rec # n
        BY <1>1 DEF BinInv, RecordLocked
    <2>. QED BY <1>2, <1>4, <2>1 DEF BinInv, RecordLocked
<1>13. OneDeletes'
    <2>1. Blank' = Blank \ {n} BY <1>1, <1>4, <1>5 DEF Blank
    <2>2. \A o \in Officers : Deleting(o)' = Deleting(o) BY <1>2 DEF Deleting
    <2>. QED BY <1>1, <1>2, <2>1, <2>2 DEF BinInv, OneDeletes
<1>14. VehicleRecorded' BY <1>2, <1>8 DEF BinInv, VehicleRecorded
<1>15. RowsRecorded'
    <2>1. ASSUME NEW c \in Bookings \ astray', Here(c)'
          PROVE  Recorded(c, booking[c])'
        <3>1. CASE c # b
            BY <1>6, <1>7, <1>9, <2>1, <3>1 DEF BinInv, RowsRecorded, Here
        <3>2. CASE c = b
            <4>1. WaysBack("booking", b) = {}
                BY <1>2, <1>7, <3>2 DEF BinInv, RowsRecorded, Recorded, Here
            <4>. QED BY <1>6, <1>8, <3>2, <4>1 DEF Recorded
        <3>. QED BY <3>1, <3>2
    <2>2. ASSUME NEW c \in Bookings, booking'[c].status = "none"
          PROVE  ~booking'[c].binned /\ WaysBack("booking", c)' = {}
        <3>1. c # b BY <1>2, <1>6, <2>2 DEF InTable
        <3>. QED BY <1>6, <1>8, <2>2, <3>1 DEF BinInv, RowsRecorded
    <2>. QED BY <2>1, <2>2 DEF RowsRecorded
<1>16. \A c \in Bookings : Here(c)' = Here(c)
    BY <1>6 DEF Here, InTable
<1>17. CopiedTrue'
    <2>. SUFFICES ASSUME NEW e \in Officers, Deleting(e)
                  PROVE  /\ \A c \in Bookings \ astray' : InTable(officer[e].kept[c]) =>
                               /\ Recorded(c, officer[e].kept[c])'
                               /\ Here(c)'
                               /\ officer[e].pc = "drop" => c \in officer[e].doomed
                         /\ \A c \in officer[e].doomed : Here(c)'
        BY <1>2 DEF CopiedTrue, Deleting
    <2>1. officer[e].doomed \subseteq Bookings
        BY DEF BinInv, BinTypeOK, OfficerRows
    <2>2. \A c \in officer[e].doomed : Here(c)'
        BY <1>16, <2>1 DEF BinInv, CopiedTrue
    <2>3. ASSUME NEW c \in Bookings \ astray', InTable(officer[e].kept[c])
          PROVE  /\ Recorded(c, officer[e].kept[c])'
                 /\ Here(c)'
                 /\ officer[e].pc = "drop" => c \in officer[e].doomed
        <3>1. /\ Recorded(c, officer[e].kept[c]) /\ Here(c)
              /\ officer[e].pc = "drop" => c \in officer[e].doomed
            BY <1>7, <2>3 DEF BinInv, CopiedTrue
        <3>2. c # b
            BY <1>2, <1>7, <3>1 DEF Deleting, Writable
        <3>. QED BY <1>2, <1>9, <1>16, <3>1, <3>2
    <2>. QED BY <2>2, <2>3
<1>18. KeptTrue'
    <2>. SUFFICES ASSUME NEW r \in WaysBack("vehicle", NoId), NEW c \in Bookings \ astray',
                         InTable(bin'[r].kept[c])
                  PROVE  Recorded(c, bin[r].kept[c])' /\ booking'[c].status = "gone"
        BY <1>8 DEF KeptTrue
    <2>1. r \in Records /\ r # n BY <1>1 DEF WaysBack
    <2>2. Recorded(c, bin[r].kept[c]) /\ booking[c].status = "gone"
        BY <1>4, <1>7, <2>1 DEF BinInv, KeptTrue
    <2>3. c # b BY <1>2, <2>2 DEF InTable
    <2>. QED BY <1>4, <1>6, <1>9, <2>1, <2>2, <2>3
<1>. QED BY <1>10, <1>11, <1>12, <1>13, <1>14, <1>15, <1>17, <1>18 DEF BinInv

LEMMA DeleteVehicleStep ==
    ASSUME BinInv, NEW o \in Officers, DeleteVehicle(o)
    PROVE  BinInv'
<1>. DEFINE n == NewRecord
            new == [kind |-> "vehicle", of |-> NoId, open |-> TRUE, kept |-> officer[o].kept]
            gone == [status |-> "gone", binned |-> FALSE]
<1>1. Deleting(o) /\ officer[o].pc = "drop" /\ vehicle = "here"
      /\ \A e \in Officers : Deleting(e) => e = o
    BY DEF DeleteVehicle, Deleting, BinInv, OneDeletes
<1>2. n \in Records /\ bin[n].kind = "none" /\ ~bin[n].open
    <2>1. n \in Blank BY <1>1 DEF BinInv, OneDeletes, NewRecord
    <2>. QED BY <2>1 DEF Blank, BinInv, RecordsSound
<1>. HIDE DEF n
<1>3. /\ bin' = [bin EXCEPT ![n] = new]
      /\ booking' = [b \in Bookings |-> IF b \in officer[o].doomed THEN gone ELSE booking[b]]
      /\ vehicle' = "gone" /\ UNCHANGED astray
      /\ officer' = [officer EXCEPT ![o] = AtRest]
    BY DEF DeleteVehicle, n, Rest
<1>4. new \in BinRows BY DEF BinRows, BinInv, BinTypeOK, OfficerRows
<1>5. /\ bin' \in [Records -> BinRows] /\ bin'[n] = new
      /\ \A r \in Records \ {n} : bin'[r] = bin[r]
    BY <1>2, <1>3, <1>4 DEF BinInv, BinTypeOK
<1>. HIDE DEF new
<1>6. new.kind = "vehicle" /\ new.of = NoId /\ new.open /\ new.kept = officer[o].kept
    BY DEF new
<1>7. gone \in BookingRows /\ gone.status = "gone" BY DEF BookingRows
<1>. HIDE DEF gone
<1>8. /\ booking' \in Copies
      /\ \A b \in officer[o].doomed : booking'[b] = gone
      /\ \A b \in Bookings \ officer[o].doomed : booking'[b] = booking[b]
    BY <1>3, <1>7 DEF BinInv, BinTypeOK, Copies, OfficerRows
<1>9. /\ officer' \in [Officers -> OfficerRows] /\ officer'[o] = AtRest
      /\ \A e \in Officers \ {o} : officer'[e] = officer[e]
    BY <1>3, RowsTyped DEF BinInv, BinTypeOK
<1>10. WaysBack("vehicle", NoId) = {}
    BY <1>1 DEF BinInv, VehicleRecorded
<1>11. /\ WaysBack("vehicle", NoId)' = {n}
       /\ \A b : WaysBack("booking", b)' = WaysBack("booking", b)
    BY <1>2, <1>5, <1>6, <1>10 DEF WaysBack
<1>12. \A b, row : Recorded(b, row)' = Recorded(b, row)
    BY <1>11 DEF Recorded
<1>13. \A e \in Officers : ~Deleting(e)'
    BY <1>1, <1>9 DEF Deleting, AtRest
<1>14. BinTypeOK' BY <1>3, <1>5, <1>8, <1>9 DEF BinInv, BinTypeOK
<1>15. RecordsSound' BY <1>5, <1>6 DEF BinInv, RecordsSound
<1>16. RecordLocked'
    <2>1. \A e \in Officers : officer[e].pc \in {"restore", "purge"} => officer[e].rec # n
        BY <1>2 DEF BinInv, RecordLocked
    <2>. QED BY <1>5, <1>9, <2>1 DEF BinInv, RecordLocked, AtRest
<1>17. OneDeletes' /\ CopiedTrue' BY <1>13 DEF OneDeletes, CopiedTrue
<1>18. VehicleRecorded' BY <1>3, <1>11 DEF VehicleRecorded
<1>19. RowsRecorded'
    <2>1. ASSUME NEW b \in Bookings \ astray, Here(b)'
          PROVE  Recorded(b, booking[b])'
        <3>1. b \notin officer[o].doomed BY <1>7, <1>8, <2>1 DEF Here, InTable
        <3>. QED BY <1>8, <1>12, <2>1, <3>1 DEF BinInv, RowsRecorded, Here
    <2>2. ASSUME NEW b \in Bookings, booking'[b].status = "none"
          PROVE  ~booking'[b].binned /\ WaysBack("booking", b)' = {}
        <3>1. b \notin officer[o].doomed BY <1>7, <1>8, <2>2
        <3>. QED BY <1>8, <1>11, <2>2, <3>1 DEF BinInv, RowsRecorded
    <2>. QED BY <1>3, <2>1, <2>2 DEF RowsRecorded
<1>20. KeptTrue'
    <2>. SUFFICES ASSUME NEW b \in Bookings \ astray, InTable(officer[o].kept[b])
                  PROVE  Recorded(b, officer[o].kept[b]) /\ booking'[b].status = "gone"
        BY <1>3, <1>5, <1>6, <1>11, <1>12 DEF KeptTrue
    <2>1. Recorded(b, officer[o].kept[b]) /\ b \in officer[o].doomed
        BY <1>1 DEF BinInv, CopiedTrue
    <2>. QED BY <1>7, <1>8, <2>1
<1>. QED BY <1>14, <1>15, <1>16, <1>17, <1>18, <1>19, <1>20 DEF BinInv

-----------------------------------------------------------------------------
(* A request that leaves without having done anything.                      *)
LEMMA Leaves ==
    ASSUME BinInv, NEW o \in Officers, Rest(o),
           UNCHANGED <<vehicle, booking, bin, astray>>
    PROVE  BinInv'
<1>1. AtRest \in OfficerRows /\ AtRest.pc = "idle" /\ AtRest.rec = 0 /\ AtRest.doomed = {}
    BY RowsTyped DEF AtRest
<1>. QED BY <1>1, Engaged DEF Rest

(* When it leaves, the others are where they were.                          *)
LEMMA Resting ==
    ASSUME BinInv, NEW o \in Officers, Rest(o), officer[o].pc \in {"restore", "purge"}
    PROVE  /\ officer' \in [Officers -> OfficerRows] /\ officer'[o] = AtRest
           /\ \A e \in Officers \ {o} : /\ officer'[e] = officer[e]
                                        /\ officer[e].rec # officer[o].rec
           /\ \A e \in Officers : Deleting(e)' <=> Deleting(e)
           /\ \A e \in Officers : Deleting(e) => e # o
           /\ officer[o].rec \in Records /\ officer[o].rec # 0
           /\ bin[officer[o].rec].kind \in {"vehicle", "booking"}
<1>1. /\ officer' \in [Officers -> OfficerRows] /\ officer'[o] = AtRest
      /\ \A e \in Officers \ {o} : officer'[e] = officer[e]
    BY RowsTyped DEF Rest, BinInv, BinTypeOK
<1>2. /\ officer[o].rec \in Records /\ officer[o].rec # 0
      /\ bin[officer[o].rec].kind \in {"vehicle", "booking"}
    BY BinAssumption DEF BinInv, RecordLocked, Records
<1>3. \A e \in Officers \ {o} : officer[e].rec # officer[o].rec
    BY <1>2 DEF BinInv, RecordLocked
<1>4. \A e \in Officers : Deleting(e)' <=> Deleting(e)
    BY <1>1 DEF Deleting, AtRest
<1>5. \A e \in Officers : Deleting(e) => e # o
    BY DEF Deleting
<1>. QED BY <1>1, <1>2, <1>3, <1>4, <1>5

(* The record it had to itself may have been closed, or may be gone.        *)
LEMMA LocksKept ==
    ASSUME BinInv, NEW o \in Officers, Rest(o), officer[o].pc \in {"restore", "purge"},
           \A r \in Records \ {officer[o].rec} : bin'[r] = bin[r]
    PROVE  RecordLocked'
<1>1. /\ officer'[o] = AtRest
      /\ \A e \in Officers \ {o} : /\ officer'[e] = officer[e]
                                   /\ officer[e].rec # officer[o].rec
    BY Resting
<1>2. \A e \in Officers :
         /\ officer'[e].pc \in {"restore", "purge"} =>
               /\ officer'[e].rec \in Records
               /\ bin'[officer'[e].rec].kind \in {"vehicle", "booking"}
         /\ officer'[e].pc = "restore" => bin'[officer'[e].rec].open
         /\ officer'[e].pc \notin {"restore", "purge"} => officer'[e].rec = 0
         /\ officer'[e].pc # "drop" => officer'[e].doomed = {}
    <2>. TAKE e \in Officers
    <2>1. CASE e = o BY <1>1, <2>1 DEF AtRest
    <2>2. CASE e # o BY <1>1, <2>2 DEF BinInv, RecordLocked
    <2>. QED BY <2>1, <2>2
<1>3. \A d, e \in Officers : officer'[d].rec = officer'[e].rec =>
                                 d = e \/ officer'[d].rec = 0
    BY <1>1 DEF BinInv, RecordLocked, AtRest
<1>. QED BY <1>2, <1>3 DEF RecordLocked

LEMMA RestoreBookingStep ==
    ASSUME BinInv, NEW o \in Officers, RestoreBooking(o)
    PROVE  BinInv'
<1>0. PICK r \in Records, b \in Bookings : r = officer[o].rec /\ b = bin[r].of
    BY DEF RestoreBooking, BinInv, RecordLocked, RecordsSound
<1>1. CASE ~(Here(b) /\ booking[b].binned)
    BY <1>0, <1>1, Leaves DEF RestoreBooking
<1>2. CASE Here(b) /\ booking[b].binned
    <2>1. /\ officer[o].pc = "restore" /\ Rest(o)
          /\ bin[r].open /\ bin[r].kind = "booking"
          /\ Writable(b) /\ Stray(b) /\ UNCHANGED vehicle
          /\ booking' = [booking EXCEPT ![b].binned = FALSE]
          /\ bin' = [bin EXCEPT ![r].open = FALSE]
        BY <1>0, <1>2 DEF RestoreBooking, BinInv, RecordLocked
    <2>2. /\ bin' \in [Records -> BinRows] /\ ~bin'[r].open
          /\ \A s \in Records : /\ bin'[s].kind = bin[s].kind /\ bin'[s].of = bin[s].of
                                /\ bin'[s].kept = bin[s].kept
          /\ \A s \in Records \ {r} : bin'[s] = bin[s]
        BY <2>1 DEF BinInv, BinTypeOK, BinRows
    <2>3. /\ booking' \in Copies /\ ~booking'[b].binned
          /\ \A c \in Bookings : booking'[c].status = booking[c].status
          /\ \A c \in Bookings \ {b} : booking'[c] = booking[c]
        BY <2>1 DEF BinInv, BinTypeOK, Copies, BookingRows
    <2>4. /\ astray \subseteq astray' /\ astray' \subseteq astray \cup {b}
          /\ (\E e \in Officers : officer[e].pc = "wipe") => b \in astray'
        BY <2>1 DEF Stray
    <2>5. /\ officer' \in [Officers -> OfficerRows]
          /\ \A e \in Officers : Deleting(e)' <=> Deleting(e)
          /\ \A e \in Officers : Deleting(e) => officer'[e] = officer[e]
        BY <2>1, Resting
    <2>6. /\ WaysBack("vehicle", NoId)' = WaysBack("vehicle", NoId)
          /\ \A c \in Bookings \ {b} : WaysBack("booking", c)' = WaysBack("booking", c)
          /\ WaysBack("booking", b)' = WaysBack("booking", b) \ {r}
          /\ r \in WaysBack("booking", b)
        BY <1>0, <2>1, <2>2 DEF WaysBack
    <2>7. \A c \in Bookings \ {b} : \A row : Recorded(c, row)' = Recorded(c, row)
        BY <2>6 DEF Recorded
    <2>8. \A c \in Bookings : Here(c)' = Here(c) BY <2>3 DEF Here, InTable
    <2>9. BinTypeOK' BY <2>1, <2>2, <2>3, <2>4, <2>5 DEF BinInv, BinTypeOK
    <2>10. RecordsSound' BY <2>2 DEF BinInv, RecordsSound
    <2>11. RecordLocked' BY <1>0, <2>1, <2>2, LocksKept
    <2>12. OneDeletes'
        <3>1. Blank' = Blank BY <2>2 DEF Blank
        <3>. QED BY <2>1, <2>5, <3>1 DEF BinInv, OneDeletes
    <2>13. VehicleRecorded' BY <2>1, <2>6 DEF BinInv, VehicleRecorded
    <2>14. RowsRecorded'
        <3>1. ASSUME NEW c \in Bookings \ astray', Here(c)'
              PROVE  Recorded(c, booking[c])'
            <4>1. CASE c # b
                BY <2>3, <2>4, <2>7, <2>8, <3>1, <4>1 DEF BinInv, RowsRecorded
            <4>2. CASE c = b
                <5>1. \A s \in WaysBack("booking", b) : s = r
                    BY <1>2, <2>4, <2>6, <4>2 DEF BinInv, RowsRecorded, Recorded
                <5>2. WaysBack("booking", b)' = {} BY <2>6, <5>1
                <5>. QED BY <2>3, <4>2, <5>2 DEF Recorded
            <4>. QED BY <4>1, <4>2
        <3>2. ASSUME NEW c \in Bookings, booking'[c].status = "none"
              PROVE  ~booking'[c].binned /\ WaysBack("booking", c)' = {}
            <4>1. c # b BY <1>2, <2>3, <3>2 DEF Here, InTable
            <4>. QED BY <2>3, <2>6, <3>2, <4>1 DEF BinInv, RowsRecorded
        <3>. QED BY <3>1, <3>2 DEF RowsRecorded
    <2>15. CopiedTrue'
        <3>. SUFFICES ASSUME NEW e \in Officers, Deleting(e)
                      PROVE  /\ \A c \in Bookings \ astray' : InTable(officer[e].kept[c]) =>
                                   /\ Recorded(c, officer[e].kept[c])'
                                   /\ Here(c)'
                                   /\ officer[e].pc = "drop" => c \in officer[e].doomed
                             /\ \A c \in officer[e].doomed : Here(c)'
            BY <2>5 DEF CopiedTrue
        <3>1. officer[e].doomed \subseteq Bookings
            BY DEF BinInv, BinTypeOK, OfficerRows
        <3>2. \A c \in officer[e].doomed : Here(c)'
            BY <2>8, <3>1 DEF BinInv, CopiedTrue
        <3>3. ASSUME NEW c \in Bookings \ astray', InTable(officer[e].kept[c])
              PROVE  /\ Recorded(c, officer[e].kept[c])'
                     /\ Here(c)'
                     /\ officer[e].pc = "drop" => c \in officer[e].doomed
            <4>1. /\ Recorded(c, officer[e].kept[c]) /\ Here(c)
                  /\ officer[e].pc = "drop" => c \in officer[e].doomed
                BY <2>4, <3>3 DEF BinInv, CopiedTrue
            <4>2. c # b BY <2>1, <2>4, <4>1 DEF Deleting, Writable
            <4>. QED BY <2>5, <2>7, <2>8, <4>1, <4>2
        <3>. QED BY <3>2, <3>3
    <2>16. KeptTrue'
        <3>. SUFFICES ASSUME NEW s \in WaysBack("vehicle", NoId), NEW c \in Bookings \ astray',
                             InTable(bin[s].kept[c])
                      PROVE  Recorded(c, bin[s].kept[c])' /\ booking'[c].status = "gone"
            BY <2>2, <2>6 DEF KeptTrue, WaysBack
        <3>1. Recorded(c, bin[s].kept[c]) /\ booking[c].status = "gone"
            BY <2>4 DEF BinInv, KeptTrue
        <3>2. c # b BY <1>2, <3>1 DEF Here, InTable
        <3>. QED BY <2>2, <2>3, <2>7, <3>1, <3>2 DEF WaysBack
    <2>. QED BY <2>9, <2>10, <2>11, <2>12, <2>13, <2>14, <2>15, <2>16 DEF BinInv
<1>. QED BY <1>1, <1>2

LEMMA RestoreVehicleStep ==
    ASSUME BinInv, NEW o \in Officers, RestoreVehicle(o)
    PROVE  BinInv'
<1>. DEFINE r == officer[o].rec
<1>1. /\ officer[o].pc = "restore" /\ Rest(o)
      /\ r \in Records /\ bin[r].open /\ bin[r].kind = "vehicle" /\ bin[r].of = NoId
    BY DEF RestoreVehicle, BinInv, RecordLocked, RecordsSound
<1>2. r \in WaysBack("vehicle", NoId) BY <1>1 DEF WaysBack
<1>3. vehicle = "gone" BY <1>2 DEF BinInv, VehicleRecorded
<1>4. /\ vehicle' = "here" /\ UNCHANGED astray
      /\ booking' = [b \in Bookings |-> IF InTable(bin[r].kept[b])
                                        THEN bin[r].kept[b] ELSE booking[b]]
      /\ bin' = [bin EXCEPT ![r].open = FALSE]
    BY <1>3 DEF RestoreVehicle
<1>5. /\ bin' \in [Records -> BinRows] /\ ~bin'[r].open
      /\ \A s \in Records : bin'[s].kind = bin[s].kind /\ bin'[s].of = bin[s].of
      /\ \A s \in Records \ {r} : bin'[s] = bin[s]
    BY <1>1, <1>4 DEF BinInv, BinTypeOK, BinRows
<1>6. /\ booking' \in Copies
      /\ \A b \in Bookings : booking'[b] = IF InTable(bin[r].kept[b])
                                           THEN bin[r].kept[b] ELSE booking[b]
    BY <1>1, <1>4 DEF BinInv, BinTypeOK, BinRows, Copies
<1>7. /\ officer' \in [Officers -> OfficerRows]
      /\ \A e \in Officers : ~Deleting(e)'
    BY <1>1, <1>3, Resting DEF BinInv, OneDeletes
<1>. HIDE DEF r
<1>8. /\ WaysBack("vehicle", NoId)' = {}
      /\ \A b : WaysBack("booking", b)' = WaysBack("booking", b)
    <2>1. \A s \in WaysBack("vehicle", NoId) : s = r
        BY <1>2 DEF BinInv, VehicleRecorded
    <2>. QED BY <1>1, <1>5, <2>1 DEF WaysBack
<1>9. \A b, row : Recorded(b, row)' = Recorded(b, row) BY <1>8 DEF Recorded
<1>10. BinTypeOK' BY <1>4, <1>5, <1>6, <1>7 DEF BinInv, BinTypeOK
<1>11. RecordsSound' BY <1>5 DEF BinInv, RecordsSound
<1>12. RecordLocked' BY <1>1, <1>5, LocksKept DEF r
<1>13. OneDeletes' /\ CopiedTrue' BY <1>7 DEF OneDeletes, CopiedTrue
<1>14. VehicleRecorded' /\ KeptTrue' BY <1>8 DEF VehicleRecorded, KeptTrue
<1>15. RowsRecorded'
    <2>1. ASSUME NEW b \in Bookings \ astray, Here(b)'
          PROVE  Recorded(b, booking'[b])
        <3>1. CASE InTable(bin[r].kept[b])
            BY <1>2, <1>6, <3>1 DEF BinInv, KeptTrue
        <3>2. CASE ~InTable(bin[r].kept[b])
            BY <1>6, <2>1, <3>2 DEF BinInv, RowsRecorded, Here
        <3>. QED BY <3>1, <3>2
    <2>2. ASSUME NEW b \in Bookings, booking'[b].status = "none"
          PROVE  ~booking'[b].binned /\ WaysBack("booking", b) = {}
        BY <1>6, <2>2 DEF BinInv, RowsRecorded, InTable
    <2>. QED BY <1>4, <1>8, <1>9, <2>1, <2>2 DEF RowsRecorded
<1>. QED BY <1>10, <1>11, <1>12, <1>13, <1>14, <1>15 DEF BinInv

LEMMA PurgeStep ==
    ASSUME BinInv, NEW o \in Officers, Purge(o)
    PROVE  BinInv'
<1>. DEFINE spent == [NoRecord EXCEPT !.kind = "purged"]
            gone  == [status |-> "gone", binned |-> FALSE]
<1>1. PICK r \in Records : r = officer[o].rec /\ bin[r].kind \in {"vehicle", "booking"}
    BY DEF Purge, BinInv, RecordLocked
<1>2. PICK b : b = bin[r].of OBVIOUS
<1>3. bin[r].kind = "booking" => b \in Bookings
    BY <1>1, <1>2 DEF BinInv, RecordsSound
<1>4. /\ officer[o].pc = "purge" /\ Rest(o) /\ UNCHANGED vehicle
      /\ bin' = [bin EXCEPT ![r] = spent]
      /\ bin[r].kind = "booking" => Writable(b)
      /\ RowGoes(r) => /\ booking' = [booking EXCEPT ![b] = gone]
                       /\ Stray(b)
      /\ ~RowGoes(r) => /\ booking' = booking
                        /\ \/ UNCHANGED astray
                           \/ b \in Bookings /\ astray' = astray \cup {b}
                        /\ bin[r].kind = "booking" /\ bin[r].open =>
                              b \in astray' \/ (Here(b) /\ ~booking[b].binned)
    BY <1>1, <1>2, <1>3 DEF Purge, RowGoes
<1>5. spent \in BinRows /\ spent.kind = "purged" /\ ~spent.open
    BY RowsTyped DEF NoRecord, BinRows
<1>6. gone \in BookingRows /\ gone.status = "gone" BY DEF BookingRows
<1>. HIDE DEF spent, gone
<1>7. /\ bin' \in [Records -> BinRows] /\ bin'[r] = spent
      /\ \A s \in Records \ {r} : bin'[s] = bin[s]
    BY <1>4, <1>5 DEF BinInv, BinTypeOK
<1>8. RowGoes(r) =>
        /\ b \in Bookings /\ bin[r].kind = "booking" /\ bin[r].open /\ Here(b)
        /\ booking'[b] = gone /\ \A c \in Bookings \ {b} : booking'[c] = booking[c]
        /\ (\E e \in Officers : officer[e].pc = "wipe") => b \in astray'
    BY <1>2, <1>3, <1>4 DEF RowGoes, Stray, BinInv, BinTypeOK, Copies
<1>9. booking' \in Copies /\ astray \subseteq astray' /\ astray' \subseteq Bookings
    BY <1>4, <1>6, <1>8 DEF Stray, BinInv, BinTypeOK, Copies
<1>10. /\ officer' \in [Officers -> OfficerRows]
       /\ \A e \in Officers : Deleting(e)' <=> Deleting(e)
       /\ \A e \in Officers : Deleting(e) => officer'[e] = officer[e]
    BY <1>4, Resting
(* Nothing is open that was not, and what is closed was of one thing only.  *)
<1>11. \A k, c : WaysBack(k, c)' = WaysBack(k, c) \ {r}
    BY <1>5, <1>7 DEF WaysBack
<1>12. ASSUME NEW c \in Bookings, c # b \/ bin[r].kind # "booking" \/ ~bin[r].open
       PROVE  /\ WaysBack("booking", c)' = WaysBack("booking", c)
              /\ \A row : Recorded(c, row)' = Recorded(c, row)
    <2>1. r \notin WaysBack("booking", c) BY <1>2, <1>12 DEF WaysBack
    <2>. QED BY <1>11, <2>1 DEF Recorded
(* An open record is purged with its row, or of a row that has gone astray. *)
<1>13. ASSUME bin[r].kind = "booking", bin[r].open, ~RowGoes(r)
       PROVE  b \in astray'
    <2>1. r \in WaysBack("booking", b) BY <1>2, <1>13 DEF WaysBack
    <2>2. CASE Here(b) /\ ~booking[b].binned
        BY <1>3, <1>9, <1>13, <2>1, <2>2 DEF BinInv, RowsRecorded, Recorded
    <2>. QED BY <1>4, <1>13, <2>2
<1>14. BinTypeOK' BY <1>4, <1>7, <1>9, <1>10 DEF BinInv, BinTypeOK
<1>15. RecordsSound' BY <1>5, <1>7 DEF BinInv, RecordsSound
<1>16. RecordLocked' BY <1>1, <1>4, <1>7, LocksKept
<1>17. OneDeletes'
    <2>1. Blank' = Blank BY <1>1, <1>5, <1>7 DEF Blank
    <2>. QED BY <1>4, <1>10, <2>1 DEF BinInv, OneDeletes
<1>18. VehicleRecorded' BY <1>4, <1>11 DEF BinInv, VehicleRecorded
<1>19. RowsRecorded'
    <2>1. ASSUME NEW c \in Bookings \ astray', Here(c)'
          PROVE  Recorded(c, booking[c])'
        <3>1. booking'[c] = booking[c] /\ (c # b \/ bin[r].kind # "booking" \/ ~bin[r].open)
            BY <1>4, <1>6, <1>8, <1>13, <2>1 DEF Here, InTable
        <3>. QED BY <1>9, <1>12, <2>1, <3>1 DEF BinInv, RowsRecorded, Here
    <2>2. ASSUME NEW c \in Bookings, booking'[c].status = "none"
          PROVE  ~booking'[c].binned /\ WaysBack("booking", c)' = {}
        <3>1. booking'[c] = booking[c]
            BY <1>4, <1>6, <1>8, <2>2
        <3>. QED BY <1>11, <2>2, <3>1 DEF BinInv, RowsRecorded
    <2>. QED BY <2>1, <2>2 DEF RowsRecorded
<1>20. CopiedTrue'
    <2>. SUFFICES ASSUME NEW e \in Officers, Deleting(e)
                  PROVE  /\ \A c \in Bookings \ astray' : InTable(officer[e].kept[c]) =>
                               /\ Recorded(c, officer[e].kept[c])'
                               /\ Here(c)'
                               /\ officer[e].pc = "drop" => c \in officer[e].doomed
                         /\ \A c \in officer[e].doomed : Here(c)'
        BY <1>10 DEF CopiedTrue
    <2>1. ASSUME NEW c \in officer[e].doomed PROVE Here(c)'
        <3>1. c \in Bookings /\ Here(c) BY DEF BinInv, BinTypeOK, OfficerRows, CopiedTrue
        <3>2. RowGoes(r) => c # b BY <1>4, <1>8 DEF Writable
        <3>. QED BY <1>4, <1>8, <3>1, <3>2 DEF Here
    <2>2. ASSUME NEW c \in Bookings \ astray', InTable(officer[e].kept[c])
          PROVE  /\ Recorded(c, officer[e].kept[c])'
                 /\ Here(c)'
                 /\ officer[e].pc = "drop" => c \in officer[e].doomed
        <3>1. /\ Recorded(c, officer[e].kept[c]) /\ Here(c)
              /\ officer[e].pc = "drop" => c \in officer[e].doomed
            BY <1>9, <2>2 DEF BinInv, CopiedTrue
        <3>2. RowGoes(r) => c # b
            BY <1>4, <1>8, <3>1 DEF Deleting, Writable
        <3>3. c # b \/ bin[r].kind # "booking" \/ ~bin[r].open
            BY <1>13, <3>2
        <3>4. Here(c)' BY <1>4, <1>8, <3>1, <3>2 DEF Here
        <3>5. Recorded(c, officer[e].kept[c])' BY <1>10, <1>12, <3>1, <3>3
        <3>. QED BY <3>1, <3>4, <3>5
    <2>. QED BY <2>1, <2>2
<1>21. KeptTrue'
    <2>. SUFFICES ASSUME NEW s \in WaysBack("vehicle", NoId) \ {r}, NEW c \in Bookings \ astray',
                         InTable(bin[s].kept[c])
                  PROVE  Recorded(c, bin[s].kept[c])' /\ booking'[c].status = "gone"
        BY <1>7, <1>11 DEF KeptTrue, WaysBack
    <2>1. Recorded(c, bin[s].kept[c]) /\ booking[c].status = "gone"
        BY <1>9 DEF BinInv, KeptTrue
    <2>2. RowGoes(r) => c # b BY <1>8, <2>1 DEF Here, InTable
    <2>3. booking'[c] = booking[c] /\ (c # b \/ bin[r].kind # "booking" \/ ~bin[r].open)
        BY <1>4, <1>8, <1>13, <2>2
    <2>. QED BY <1>7, <1>12, <2>1, <2>3 DEF WaysBack
<1>. QED BY <1>14, <1>15, <1>16, <1>17, <1>18, <1>19, <1>20, <1>21 DEF BinInv

-----------------------------------------------------------------------------
(* Every step keeps the invariant.                                         *)
THEOREM BinKept == BinInv /\ [BinNext]_binVars => BinInv'
<1>. SUFFICES ASSUME BinInv, [BinNext]_binVars PROVE BinInv' OBVIOUS
<1>1. CASE UNCHANGED binVars
    <2>1. \A k, b : WaysBack(k, b)' = WaysBack(k, b) BY <1>1 DEF binVars, WaysBack
    <2>2. \A b, row : Recorded(b, row)' = Recorded(b, row) BY <2>1 DEF Recorded
    <2>3. Blank' = Blank /\ \A b : Here(b)' = Here(b)
        BY <1>1 DEF binVars, Blank, Here
    <2>4. \A o : Deleting(o)' = Deleting(o) BY <1>1 DEF binVars, Deleting
    <2>5. BinTypeOK' /\ RecordsSound' /\ RecordLocked'
        BY <1>1 DEF binVars, BinInv, BinTypeOK, RecordsSound, RecordLocked
    <2>6. OneDeletes' BY <1>1, <2>3, <2>4 DEF binVars, BinInv, OneDeletes
    <2>7. VehicleRecorded' BY <1>1, <2>1 DEF binVars, BinInv, VehicleRecorded
    <2>8. RowsRecorded' BY <1>1, <2>1, <2>2, <2>3 DEF binVars, BinInv, RowsRecorded
    <2>9. CopiedTrue' BY <1>1, <2>2, <2>3, <2>4 DEF binVars, BinInv, CopiedTrue
    <2>10. KeptTrue' BY <1>1, <2>1, <2>2 DEF binVars, BinInv, KeptTrue
    <2>. QED BY <2>5, <2>6, <2>7, <2>8, <2>9, <2>10 DEF BinInv
<1>2. ASSUME NEW o \in Officers, BeginBooking(o) \/ RollBack(o) PROVE BinInv'
    BY <1>2, Reads
<1>3. ASSUME NEW o \in Officers, NEW r \in Records, Claim(o, r) \/ BeginPurge(o, r)
      PROVE  BinInv'
    BY <1>3, Reads
<1>4. ASSUME NEW o \in Officers, DeleteJudge(o) PROVE BinInv' BY <1>4, DeleteJudgeStep
<1>5. ASSUME NEW o \in Officers, DeleteRows(o) PROVE BinInv' BY <1>5, DeleteRowsStep
<1>6. ASSUME NEW o \in Officers, DeleteVehicle(o) PROVE BinInv' BY <1>6, DeleteVehicleStep
<1>7. ASSUME NEW o \in Officers, RestoreBooking(o) PROVE BinInv' BY <1>7, RestoreBookingStep
<1>8. ASSUME NEW o \in Officers, RestoreVehicle(o) PROVE BinInv' BY <1>8, RestoreVehicleStep
<1>9. ASSUME NEW o \in Officers, Purge(o) PROVE BinInv' BY <1>9, PurgeStep
<1>10. ASSUME NEW o \in Officers, NEW b \in Bookings, LandBooking(o, b) PROVE BinInv'
    BY <1>10, BookingStep
<1>11. ASSUME NEW b \in Bookings, CloseBooking(b) PROVE BinInv' BY <1>11, BookingStep
<1>12. ASSUME NEW b \in Bookings, SoftDeleteBooking(b) PROVE BinInv' BY <1>12, SoftDeleteStep
<1>. QED BY <1>1, <1>2, <1>3, <1>4, <1>5, <1>6, <1>7, <1>8, <1>9, <1>10, <1>11, <1>12
         DEF BinNext

(* The inductive invariant of the vehicle, its bookings, their records and  *)
(* the requests on them: deletes, restores and purges in every interleaving.*)
THEOREM BinInvariance == BinSpec => []BinInv
BY BinStarts, BinKept, PTL DEF BinSpec

(* Rows, records, copies and locks stay well typed, and no record is asked  *)
(* for that is not there.                                                   *)
THEOREM BinTyped == BinSpec => []BinTypeOK
<1>1. BinInv => BinTypeOK BY DEF BinInv
<1>. QED BY <1>1, BinInvariance, PTL

(* However deletes, restores and purges of one vehicle and of its bookings  *)
(* overlap, what is deleted has one record to come back by, and what is     *)
(* there has none.                                                          *)
THEOREM OneRecordEach == BinSpec => []OneWayBack
<1>1. BinInv => OneWayBack
    BY DEF BinInv, VehicleRecorded, RowsRecorded, Recorded, OneWayBack
<1>. QED BY <1>1, BinInvariance, PTL
=============================================================================
