------------------------ MODULE Transports_proofs ------------------------
(* Proofs about Transports, for any number of requests, stand-in cars,     *)
(* days, transports and stand-in rows.                                     *)
EXTENDS Transports, TLAPS

(* Where a request is: on a transport from its first read on, and on a new  *)
(* one all by itself.                                                      *)
Placed(c) ==
    LET w == clerk[c]
    IN /\ w.pc \in {"idle", "sync"} => w.on = 0 /\ w.spare = 0 /\ ~w.new
       /\ w.pc \notin {"idle", "sync"} =>
             w.on \in Legs /\ (w.new <=> leg[w.on].place = "none")
       /\ w.new => /\ w.pc \in {"judge", "commit", "sync_leg"}
                   /\ \A e \in Clerks : clerk[e].on = w.on => e = c
       /\ w.pc = "drop_spare" => w.spare # 0

(* Two requests on one transport have crossed; a request that met no other  *)
(* one is still on the row it read.                                        *)
Read(c) ==
    LET w == clerk[c]
    IN w.on # 0 =>
          /\ \A e \in Clerks : clerk[e].on = w.on /\ e # c => w.on \in crossed
          /\ ~w.new /\ w.on \notin crossed => leg[w.on] = w.cur

(* The row an update sends: a legal status, and no column it does not name. *)
Drafted(c) ==
    LET w == clerk[c]
    IN w.pc \in {"judge", "commit"} =>
          /\ IF w.new THEN /\ w.cur = Planned(w.next.day)
                           /\ w.next = [w.cur EXCEPT !.wants = w.next.wants,
                                                     !.car = w.next.car]
             ELSE /\ w.cur.place = "table"
                  /\ w.next.status \in Transitions(w.cur.status) \cup {w.cur.status}
          /\ w.spare = w.cur.spare
          /\ "status" \notin w.sets => w.next.status = w.cur.status
          /\ "day" \notin w.sets => w.next.day = w.cur.day

(* What the stand-in was when it was judged binds until the COMMIT.         *)
Decided(c) ==
    LET w == clerk[c]
    IN w.pc = "commit" /\ w.spare # 0 =>
          /\ w.verdict \in {"booked", "none"}
          /\ w.verdict = "none" => standIn[w.spare].status # "booked"
          /\ Reassign(w) \/ TurnOff(w) \/ Shift(w) => w.verdict = "booked"

(* The delivery a sync writes is the one the edit of the rental returned.   *)
Returned(c) ==
    LET w == clerk[c]
    IN Syncing(c) => /\ w.next = [Planned(w.next.day) EXCEPT !.delivery = TRUE,
                                                            !.wants = w.next.wants]
                     /\ w.spare = 0

(* A request's stand-in is one of its own transport.                        *)
OwnSpare(c) ==
    LET i == clerk[c].spare
    IN i # 0 => /\ i \in Spares /\ standIn[i].status # "none"
                /\ standIn[i].transport = clerk[c].on

RequestInv(c) == Placed(c) /\ Read(c) /\ Drafted(c) /\ Decided(c) /\ Returned(c) /\ OwnSpare(c)

(* The rows: an id that is not given out is blank, a transport names only   *)
(* stand-ins of its own, and they share its day unless the rental moved it. *)
LegInv(t) ==
    /\ leg[t].place = "none" => leg[t] = NoLeg
    /\ t \in reopened => leg[t].place # "none"
    /\ leg[t].spare # 0 =>
          /\ leg[t].spare \in Spares
          /\ standIn[leg[t].spare].status # "none"
          /\ standIn[leg[t].spare].transport = t
          /\ t \notin crossed \cup fromRental => standIn[leg[t].spare].day = leg[t].day

SpareInv(i) ==
    LET t == standIn[i].transport
    IN /\ standIn[i].status = "none" => standIn[i] = NoBooking
       /\ standIn[i].status # "none" => t \in Legs
       /\ standIn[i].status = "booked" /\ t \notin crossed =>
             leg[t].place # "none" /\ leg[t].spare = i

RowsInv == (\A t \in Legs : LegInv(t)) /\ \A i \in Spares : SpareInv(i)

(* The stand-ins whose car and day were not judged together, under the lock. *)
Loose == crossed \cup reopened \cup fromRental

HeldCar(w) ==
    IF Arrange(w) \/ (Reassign(w) /\ ~TurnOff(w)) THEN w.next.car
    ELSE IF Shift(w) /\ w.spare # 0 THEN standIn[w.spare].car ELSE NoLoaner

(* The lock is held, and on the days that were judged the car is free but    *)
(* for stand-ins that are loose.                                            *)
Held(c) ==
    LET w == clerk[c]
        car == HeldCar(w)
    IN w.pc = "commit" /\ w.on \notin Loose /\ car # NoLoaner =>
          /\ loanerLock[car] = c
          /\ \A i \in Spares \ {w.spare} :
                /\ StandInLive(i) /\ standIn[i].car = car /\ standIn[i].day \in Judged(w)
                => standIn[i].transport \in Loose

LoanerInv == (\A c \in Clerks : Held(c)) /\ NoLoanerTwice

(* Edits of the rental overlapped, or a delivery is back from the bin.      *)
Adrift == synced \/ \E t \in reopened : leg[t].delivery

(* Otherwise one request at most is between the edit and its delivery, with *)
(* what the rental now wants; and only until it is done may a delivery that *)
(* nobody else is on be open for a rental that does not want it.           *)
Followed ==
    /\ \A s, t \in DeliveryLegs : s = t
    /\ \A c, e \in Clerks : Syncing(c) /\ Syncing(e) => c = e
    /\ \A c \in Clerks : Syncing(c) => hire.live /\ hire.wants = clerk[c].next.wants
    /\ \A c \in Clerks : clerk[c].pc = "sync_leg" =>
           \A t \in DeliveryLegs : t = clerk[c].on /\ ~clerk[c].new
    /\ (\E c \in Clerks : Syncing(c)) \/
           \A t \in DeliveryLegs :
               leg[t].status \in Underway /\ Alone(t) => hire.wants /\ hire.live

HireInv == Adrift \/ Followed

TransportsInv ==
    TransportsTypeOK /\ (\A c \in Clerks : RequestInv(c)) /\ RowsInv /\ LoanerInv /\ HireInv

-----------------------------------------------------------------------------
(* What a request and the rows may become.                                 *)
LEMMA SomeDayTyped == SomeDay \in Dates
BY TransportsAssumption DEF SomeDay

LEMMA PlannedTyped == ASSUME NEW d \in Dates PROVE Planned(d) \in LegRows
BY DEF Planned, LegRows, Underway

LEMMA IdleTyped == ClerkIdle \in ClerkStates
BY SomeDayTyped, PlannedTyped DEF ClerkIdle, NoLeg, Planned, ClerkStates, LegRows, Underway

LEMMA NoBookingTyped == NoBooking \in StandInRows
BY SomeDayTyped DEF NoBooking, StandInRows

LEMMA TakeOnTyped ==
    ASSUME TransportsTypeOK, plan' = plan, NEW c \in Clerks, NEW w \in ClerkStates,
           w.on \in Legs, TakeOn(c, w)
    PROVE  clerk' \in [Clerks -> ClerkStates] /\ crossed' \subseteq Legs
BY DEF TransportsTypeOK, TakeOn

LEMMA LetGoTyped ==
    ASSUME TransportsTypeOK, NEW c \in Clerks, LetGo(c)
    PROVE  /\ clerk' \in [Clerks -> ClerkStates]
           /\ loanerLock' \in [Loaners -> Clerks \cup {NoOne}]
BY IdleTyped DEF TransportsTypeOK, LetGo

(* A row that is free is found, and the choice of it is a row.             *)
LEMMA NewSpareFree ==
    ASSUME FreeRows # {}
    PROVE  NewSpare \in Spares /\ standIn[NewSpare].status = "none"
BY DEF NewSpare, FreeRows

LEMMA IdsAreNumbers ==
    ASSUME TransportsTypeOK PROVE Legs \subseteq Nat \ {0} /\ Spares \subseteq Nat \ {0}
BY TransportsAssumption DEF TransportsTypeOK, Legs, Spares

(* A request goes on with another stage, read or verdict.                  *)
LEMMA GoesOnTyped ==
    ASSUME TransportsTypeOK, NEW c \in Clerks,
           NEW pc \in {"commit", "drop", "sync_leg"},
           clerk' = [clerk EXCEPT ![c].pc = pc]
    PROVE  clerk' \in [Clerks -> ClerkStates]
<1>1. [clerk[c] EXCEPT !.pc = pc] \in ClerkStates BY DEF TransportsTypeOK, ClerkStates
<1>. QED BY <1>1 DEF TransportsTypeOK

(* The stand-in of an update is a row, before and after.                   *)
LEMMA SpareAfterTyped ==
    ASSUME TransportsTypeOK, NEW w \in ClerkStates, w.spare \in Spares
    PROVE  SpareAfter(w) \in StandInRows
<1>1. /\ standIn[w.spare] \in StandInRows /\ w.next.car \in Loaners \cup {NoLoaner}
      /\ w.next.day \in Dates
      BY DEF TransportsTypeOK, ClerkStates, LegRows
<1>2. CASE Dropped(w) BY <1>1, <1>2 DEF SpareAfter, StandInRows
<1>3. CASE ~Dropped(w)
  <2>1. PICK k \in Loaners \cup {NoLoaner}, d \in Dates :
           SpareAfter(w) = [standIn[w.spare] EXCEPT !.car = k, !.day = d]
    <3>1. /\ (IF Reassign(w) THEN w.next.car ELSE standIn[w.spare].car)
                \in Loaners \cup {NoLoaner}
          /\ (IF Shift(w) THEN w.next.day ELSE standIn[w.spare].day) \in Dates
          BY <1>1 DEF StandInRows
    <3>. QED BY <1>3, <3>1 DEF SpareAfter
  <2>. QED BY <1>1, <2>1 DEF StandInRows
<1>. QED BY <1>2, <1>3

LEMMA LinkTyped ==
    ASSUME NEW w, w.spare \in Spares \cup {0}, Arrange(w) => FreeRows # {}
    PROVE  LinkAfter(w) \in Spares \cup {0}
BY NewSpareFree DEF LinkAfter

-----------------------------------------------------------------------------
(* Every action keeps rows, locks and requests well typed.                 *)
LEMMA BeginsTyped ==
    ASSUME TransportsTypeOK, NEW c \in Clerks, NEW t \in Legs, NEW wants \in BOOLEAN,
           NEW car \in Loaners \cup {NoLoaner}, NEW day \in Dates,
           BeginPlan(c, t, wants, car, day)
    PROVE  TransportsTypeOK'
<1>1. Planned(day) \in LegRows BY PlannedTyped
<1>2. [Planned(day) EXCEPT !.wants = wants, !.car = car] \in LegRows
      BY <1>1 DEF LegRows
<1> DEFINE w == [ClerkIdle EXCEPT !.pc = "judge", !.on = t, !.cur = Planned(day),
                   !.next = [Planned(day) EXCEPT !.wants = wants, !.car = car],
                   !.sets = {"want", "car"}, !.new = TRUE]
<1>3. w \in ClerkStates /\ w.on = t
      BY <1>1, <1>2, IdleTyped, IdsAreNumbers DEF ClerkStates, AllRoutes
<1>4. TakeOn(c, w) /\ UNCHANGED <<plan, leg, loanerLock, standIn, reopened, hire,
                                  fromRental, synced>>
      BY DEF BeginPlan, SparesAside, RentalAside
<1> HIDE DEF w
<1>5. clerk' \in [Clerks -> ClerkStates] /\ crossed' \subseteq Legs
      BY <1>3, <1>4, TakeOnTyped
<1>. QED BY <1>4, <1>5 DEF TransportsTypeOK, Legs, Spares

(* The columns of a transport that are sent make a row.                    *)
LEMMA SentIs ==
    ASSUME TransportsTypeOK, NEW t \in Legs, NEW column \in {"status", "want", "car", "day"},
           NEW next \in Sent(t, column)
    PROVE  /\ next \in LegRows
           /\ column # "status" => next.status = leg[t].status
           /\ column # "day" => next.day = leg[t].day
<1>1. leg[t] \in LegRows BY DEF TransportsTypeOK
<1>2. CASE column = "status"
  <2>1. PICK x \in Underway \cup Closed : next = [leg[t] EXCEPT !.status = x]
        BY <1>2 DEF Sent
  <2>. QED BY <1>1, <1>2, <2>1 DEF LegRows
<1>3. CASE column = "want"
  <2>1. PICK x \in BOOLEAN : next = [leg[t] EXCEPT !.wants = x] BY <1>3 DEF Sent
  <2>. QED BY <1>1, <1>3, <2>1 DEF LegRows
<1>4. CASE column = "car"
  <2>1. PICK x \in Loaners \cup {NoLoaner} : next = [leg[t] EXCEPT !.car = x]
        BY <1>4 DEF Sent
  <2>. QED BY <1>1, <1>4, <2>1 DEF LegRows
<1>5. CASE column = "day"
  <2>1. PICK x \in Dates : next = [leg[t] EXCEPT !.day = x] BY <1>5 DEF Sent
  <2>. QED BY <1>1, <1>5, <2>1 DEF LegRows
<1>. QED BY <1>2, <1>3, <1>4, <1>5

LEMMA UpdatesTyped ==
    ASSUME TransportsTypeOK, NEW c \in Clerks, NEW t \in Legs,
           NEW column \in {"status", "want", "car", "day"}, NEW next \in Sent(t, column),
           BeginUpdate(c, t, column, next)
    PROVE  TransportsTypeOK'
<1>1. leg[t] \in LegRows BY DEF TransportsTypeOK
<1>2. next \in LegRows BY SentIs
<1>3. leg[t].spare \in Nat BY <1>1 DEF LegRows
<1>4. [next EXCEPT !.spare = leg[t].spare] \in LegRows BY <1>2, <1>3 DEF LegRows
<1> DEFINE w == [ClerkIdle EXCEPT !.pc = "judge", !.on = t, !.cur = leg[t],
                   !.next = [next EXCEPT !.spare = leg[t].spare], !.sets = {column},
                   !.spare = leg[t].spare]
<1>5. w \in ClerkStates /\ w.on = t
      BY <1>1, <1>3, <1>4, IdleTyped, IdsAreNumbers DEF ClerkStates, AllRoutes
<1>6. TakeOn(c, w) /\ UNCHANGED <<plan, leg, loanerLock, standIn, reopened, hire,
                                  fromRental, synced>>
      BY DEF BeginUpdate, SparesAside, RentalAside
<1> HIDE DEF w
<1>7. clerk' \in [Clerks -> ClerkStates] /\ crossed' \subseteq Legs
      BY <1>5, <1>6, TakeOnTyped
<1>. QED BY <1>6, <1>7 DEF TransportsTypeOK, Legs, Spares

LEMMA DeletesTyped ==
    ASSUME TransportsTypeOK, NEW c \in Clerks, NEW t \in Legs, BeginDelete(c, t)
    PROVE  TransportsTypeOK'
<1>1. leg[t] \in LegRows /\ leg[t].spare \in Nat BY DEF TransportsTypeOK, LegRows
<1> DEFINE i == leg[t].spare
           w == [ClerkIdle EXCEPT !.pc = IF Booked(i) THEN "drop_spare" ELSE "drop",
                      !.on = t, !.cur = leg[t], !.spare = i,
                      !.verdict = IF Booked(i) THEN "booked" ELSE "none"]
<1>2. w \in ClerkStates /\ w.on = t
      BY <1>1, IdleTyped, IdsAreNumbers DEF ClerkStates
<1>3. TakeOn(c, w) /\ UNCHANGED <<plan, leg, loanerLock, standIn, reopened, hire,
                                  fromRental, synced>>
      BY DEF BeginDelete, SparesAside, RentalAside
<1> HIDE DEF w
<1>4. clerk' \in [Clerks -> ClerkStates] /\ crossed' \subseteq Legs
      BY <1>2, <1>3, TakeOnTyped
<1>. QED BY <1>3, <1>4 DEF TransportsTypeOK, Legs, Spares

LEMMA RestoresTyped ==
    ASSUME TransportsTypeOK, NEW c \in Clerks, NEW t \in Legs, BeginRestore(c, t)
    PROVE  TransportsTypeOK'
<1>1. leg[t] \in LegRows /\ leg[t].spare \in Nat BY DEF TransportsTypeOK, LegRows
<1>2. PICK i \in {leg[t].spare, 0}, v \in {"free", "taken"} :
         TakeOn(c, [ClerkIdle EXCEPT !.pc = "restore", !.on = t, !.cur = leg[t],
                      !.spare = i, !.verdict = v])
      BY DEF BeginRestore
<1> DEFINE w == [ClerkIdle EXCEPT !.pc = "restore", !.on = t, !.cur = leg[t],
                      !.spare = i, !.verdict = v]
<1>3. w \in ClerkStates /\ w.on = t
  <2>1. i \in Nat /\ t \in Nat BY <1>1, IdsAreNumbers
  <2>. QED BY <1>1, <2>1, IdleTyped DEF ClerkStates
<1>4. UNCHANGED <<plan, leg, loanerLock, standIn, reopened, hire, fromRental, synced>>
      BY DEF BeginRestore, SparesAside, RentalAside
<1> HIDE DEF w
<1>5. clerk' \in [Clerks -> ClerkStates] /\ crossed' \subseteq Legs
      BY <1>2, <1>3, <1>4, TakeOnTyped DEF w
<1>. QED BY <1>4, <1>5 DEF TransportsTypeOK, Legs, Spares

LEMMA JudgeTyped ==
    ASSUME TransportsTypeOK, NEW c \in Clerks, Judge(c)
    PROVE  TransportsTypeOK'
<1>1. UNCHANGED <<plan, leg, crossed, standIn, reopened, hire, fromRental, synced>>
      BY DEF Judge, SparesAside, RentalAside
<1>2. CASE LetGo(c)
      BY <1>1, <1>2, LetGoTyped DEF TransportsTypeOK, Legs, Spares
<1>3. CASE ~LetGo(c)
  <2>1. PICK v \in {"booked", "none"} :
           clerk' = [clerk EXCEPT ![c].pc = "commit", ![c].verdict = v]
        BY <1>3 DEF Judge
  <2>2. [clerk[c] EXCEPT !.pc = "commit", !.verdict = v] \in ClerkStates
    <3>1. clerk[c] \in ClerkStates BY DEF TransportsTypeOK
    <3>. QED BY <3>1 DEF ClerkStates
  <2>3. clerk' = [clerk EXCEPT ![c] = [clerk[c] EXCEPT !.pc = "commit", !.verdict = v]]
        BY <2>1 DEF TransportsTypeOK
  <2>4. clerk' \in [Clerks -> ClerkStates] BY <2>2, <2>3 DEF TransportsTypeOK
  <2>5. loanerLock' = [k \in Loaners |-> IF k = CarOf(clerk[c]) THEN c ELSE loanerLock[k]]
        BY <1>3 DEF Judge
  <2>6. loanerLock' \in [Loaners -> Clerks \cup {NoOne}]
        BY <2>5 DEF TransportsTypeOK
  <2>. QED BY <1>1, <2>4, <2>6 DEF TransportsTypeOK, Legs, Spares
<1>. QED BY <1>2, <1>3

(* What COMMIT makes of the transport, and of the stand-ins.               *)
CommittedRow(w) ==
    [leg[w.on] EXCEPT !.wants = w.next.wants, !.car = w.next.car,
       !.spare = LinkAfter(w),
       !.status = IF "status" \in w.sets THEN w.next.status ELSE @,
       !.day = IF "day" \in w.sets THEN w.next.day ELSE @]

Booking(w) == [status |-> "booked", deleted |-> FALSE, car |-> w.next.car,
               day |-> w.next.day, transport |-> w.on]

LEMMA CommitIs ==
    ASSUME TransportsTypeOK, NEW c \in Clerks, RequestInv(c), Commit(c)
    PROVE  LET w == clerk[c]
           IN /\ w \in ClerkStates /\ w.pc = "commit" /\ w.on \in Legs
              /\ w.spare \in Spares \cup {0}
              /\ Arrange(w) => NewSpare \in Spares /\ standIn[NewSpare].status = "none"
              /\ Arrange(w) => w.spare = 0
              /\ leg' = [leg EXCEPT ![w.on] =
                            IF w.new THEN [w.next EXCEPT !.spare = LinkAfter(w)]
                            ELSE IF leg[w.on].place = "table" THEN CommittedRow(w)
                            ELSE leg[w.on]]
              /\ Arrange(w) => standIn' = [standIn EXCEPT ![NewSpare] = Booking(w)]
              /\ ~Arrange(w) /\ w.spare # 0 =>
                    standIn' = [standIn EXCEPT ![w.spare] = SpareAfter(w)]
              /\ ~Arrange(w) /\ w.spare = 0 => standIn' = standIn
              /\ LetGo(c) /\ UNCHANGED <<plan, crossed, reopened, hire, fromRental, synced>>
              /\ LinkAfter(w) \in Spares \cup {0}
<1> DEFINE w == clerk[c]
<1>1. w \in ClerkStates /\ w.pc = "commit" /\ w.on \in Legs /\ w.spare \in Spares \cup {0}
      BY DEF TransportsTypeOK, Commit, RequestInv, Placed, OwnSpare
<1>2. Arrange(w) => FreeRows # {} BY DEF Commit
<1>3. Arrange(w) => w.spare = 0 BY DEF Arrange
<1>4. LinkAfter(w) \in Spares \cup {0} BY <1>1, <1>2, LinkTyped
<1>5. leg' = [leg EXCEPT ![w.on] =
                            IF w.new THEN [w.next EXCEPT !.spare = LinkAfter(w)]
                            ELSE IF leg[w.on].place = "table" THEN CommittedRow(w)
                            ELSE leg[w.on]]
      BY <1>1 DEF Commit, CommittedRow, TransportsTypeOK
<1>6. /\ Arrange(w) => standIn' = [standIn EXCEPT ![NewSpare] = Booking(w)]
      /\ ~Arrange(w) /\ w.spare # 0 => standIn' = [standIn EXCEPT ![w.spare] = SpareAfter(w)]
      /\ ~Arrange(w) /\ w.spare = 0 => standIn' = standIn
      BY <1>3 DEF Commit, Booking
<1>7. LetGo(c) /\ UNCHANGED <<plan, crossed, reopened, hire, fromRental, synced>>
      BY DEF Commit, RentalAside
<1>. QED BY <1>1, <1>2, <1>3, <1>4, <1>5, <1>6, <1>7, NewSpareFree

LEMMA CommittedTyped ==
    ASSUME TransportsTypeOK, NEW w \in ClerkStates, w.on \in Legs,
           LinkAfter(w) \in Spares \cup {0}
    PROVE  /\ CommittedRow(w) \in LegRows /\ Booking(w) \in StandInRows
           /\ [w.next EXCEPT !.spare = LinkAfter(w)] \in LegRows
           /\ CommittedRow(w).spare = LinkAfter(w)
           /\ CommittedRow(w).place = leg[w.on].place
           /\ CommittedRow(w).delivery = leg[w.on].delivery
           /\ [w.next EXCEPT !.spare = LinkAfter(w)].spare = LinkAfter(w)
<1>1. leg[w.on] \in LegRows /\ w.next \in LegRows /\ LinkAfter(w) \in Nat /\ w.on \in Nat
      BY IdsAreNumbers DEF TransportsTypeOK, ClerkStates
<1>2. PICK s \in Underway \cup Closed, d \in Dates :
         CommittedRow(w) = [leg[w.on] EXCEPT !.wants = w.next.wants, !.car = w.next.car,
                              !.spare = LinkAfter(w), !.status = s, !.day = d]
  <2>1. /\ (IF "status" \in w.sets THEN w.next.status ELSE leg[w.on].status)
               \in Underway \cup Closed
        /\ (IF "day" \in w.sets THEN w.next.day ELSE leg[w.on].day) \in Dates
        BY <1>1 DEF LegRows
  <2>. QED BY <1>1, <2>1 DEF CommittedRow, LegRows
<1>3. w.next.wants \in BOOLEAN /\ w.next.car \in Loaners \cup {NoLoaner}
      /\ w.next.day \in Dates
      BY <1>1 DEF LegRows
<1>4. CommittedRow(w) \in LegRows BY <1>1, <1>2, <1>3 DEF LegRows
<1>5. Booking(w) \in StandInRows BY <1>1, <1>3 DEF Booking, StandInRows
<1>6. [w.next EXCEPT !.spare = LinkAfter(w)] \in LegRows BY <1>1 DEF LegRows
<1>. QED BY <1>1, <1>2, <1>4, <1>5, <1>6 DEF LegRows

LEMMA CommitTyped ==
    ASSUME TransportsTypeOK, NEW c \in Clerks, RequestInv(c), Commit(c)
    PROVE  TransportsTypeOK'
<1> DEFINE w == clerk[c]
<1>1. /\ w \in ClerkStates /\ w.on \in Legs /\ w.spare \in Spares \cup {0}
      /\ LinkAfter(w) \in Spares \cup {0}
      /\ LetGo(c) /\ UNCHANGED <<plan, crossed, reopened, hire, fromRental, synced>>
      BY CommitIs
<1>2. leg' \in [Legs -> LegRows] /\ \A t \in Legs : leg'[t].spare \in Spares \cup {0}
  <2>1. leg' = [leg EXCEPT ![w.on] =
                            IF w.new THEN [w.next EXCEPT !.spare = LinkAfter(w)]
                            ELSE IF leg[w.on].place = "table" THEN CommittedRow(w)
                            ELSE leg[w.on]]
        BY CommitIs
  <2>. QED BY <1>1, <2>1, CommittedTyped DEF TransportsTypeOK
<1>3. standIn' \in [Spares -> StandInRows]
  <2>1. CASE Arrange(w)
    <3>1. NewSpare \in Spares /\ standIn' = [standIn EXCEPT ![NewSpare] = Booking(w)]
          BY <2>1, CommitIs
    <3>. QED BY <1>1, <3>1, CommittedTyped DEF TransportsTypeOK
  <2>2. CASE ~Arrange(w) /\ w.spare # 0
    <3>1. standIn' = [standIn EXCEPT ![w.spare] = SpareAfter(w)] /\ w.spare \in Spares
          BY <1>1, <2>2, CommitIs
    <3>. QED BY <1>1, <3>1, SpareAfterTyped DEF TransportsTypeOK
  <2>3. CASE ~Arrange(w) /\ w.spare = 0 BY <2>3, CommitIs DEF TransportsTypeOK
  <2>. QED BY <2>1, <2>2, <2>3
<1>4. /\ clerk' \in [Clerks -> ClerkStates]
      /\ loanerLock' \in [Loaners -> Clerks \cup {NoOne}]
      BY <1>1, LetGoTyped
<1>. QED BY <1>1, <1>2, <1>3, <1>4 DEF TransportsTypeOK, Legs, Spares

LEMMA TouchedTyped ==
    ASSUME TransportsTypeOK
    PROVE  /\ \A t \in Legs : \A place \in {"table", "bin"} :
                 /\ [leg EXCEPT ![t].place = place] \in [Legs -> LegRows]
                 /\ \A u \in Legs : [leg EXCEPT ![t].place = place][u].spare \in Spares \cup {0}
           /\ \A i \in Spares :
                 /\ \A b \in BOOLEAN :
                       [standIn EXCEPT ![i].deleted = b] \in [Spares -> StandInRows]
                 /\ \A s \in {"cancelled", "picked_up", "returned"} :
                       [standIn EXCEPT ![i].status = s] \in [Spares -> StandInRows]
<1>1. ASSUME NEW t \in Legs, NEW place \in {"table", "bin"}
      PROVE  /\ [leg EXCEPT ![t].place = place] \in [Legs -> LegRows]
             /\ \A u \in Legs : [leg EXCEPT ![t].place = place][u].spare \in Spares \cup {0}
  <2>1. leg[t] \in LegRows /\ leg[t].spare \in Spares \cup {0} BY DEF TransportsTypeOK
  <2>2. [leg[t] EXCEPT !.place = place] \in LegRows
        /\ [leg[t] EXCEPT !.place = place].spare = leg[t].spare
        BY <2>1 DEF LegRows
  <2>. QED BY <2>1, <2>2 DEF TransportsTypeOK
<1>2. ASSUME NEW i \in Spares, NEW b \in BOOLEAN
      PROVE  [standIn EXCEPT ![i].deleted = b] \in [Spares -> StandInRows]
  <2>1. standIn[i] \in StandInRows BY DEF TransportsTypeOK
  <2>2. [standIn[i] EXCEPT !.deleted = b] \in StandInRows BY <2>1 DEF StandInRows
  <2>. QED BY <2>2 DEF TransportsTypeOK
<1>3. ASSUME NEW i \in Spares, NEW s \in {"cancelled", "picked_up", "returned"}
      PROVE  [standIn EXCEPT ![i].status = s] \in [Spares -> StandInRows]
  <2>1. standIn[i] \in StandInRows BY DEF TransportsTypeOK
  <2>2. [standIn[i] EXCEPT !.status = s] \in StandInRows BY <2>1 DEF StandInRows
  <2>. QED BY <2>2 DEF TransportsTypeOK
<1>. QED BY <1>1, <1>2, <1>3

LEMMA DropsTyped ==
    ASSUME TransportsTypeOK, NEW c \in Clerks, RequestInv(c),
           DropSpare(c) \/ DropLeg(c) \/ Restore(c)
    PROVE  TransportsTypeOK'
<1> DEFINE w == clerk[c]
<1>1. w.spare \in Spares \cup {0} BY DEF RequestInv, OwnSpare
<1>2. CASE DropSpare(c)
  <2>1. clerk' \in [Clerks -> ClerkStates] BY <1>2, GoesOnTyped DEF DropSpare
  <2>2. standIn' \in [Spares -> StandInRows]
        BY <1>2, TouchedTyped DEF DropSpare, RequestInv, Placed, OwnSpare
  <2>. QED BY <1>2, <2>1, <2>2 DEF DropSpare, RentalAside, TransportsTypeOK, Legs, Spares
<1>3. CASE DropLeg(c)
  <2>1. leg' \in [Legs -> LegRows] /\ \A t \in Legs : leg'[t].spare \in Spares \cup {0}
        BY <1>3, TouchedTyped DEF DropLeg, RequestInv, Placed
  <2>. QED BY <1>3, <2>1, LetGoTyped
           DEF DropLeg, SparesAside, RentalAside, TransportsTypeOK, Legs, Spares
<1>4. CASE Restore(c)
  <2>1. leg' \in [Legs -> LegRows] /\ \A t \in Legs : leg'[t].spare \in Spares \cup {0}
        BY <1>4, TouchedTyped DEF Restore, RequestInv, Placed
  <2>2. standIn' \in [Spares -> StandInRows]
        BY <1>1, <1>4, TouchedTyped DEF Restore, TransportsTypeOK
  <2>3. w.on \in Legs BY <1>4 DEF Restore, RequestInv, Placed
  <2>. QED BY <1>4, <2>1, <2>2, <2>3, LetGoTyped
           DEF Restore, RentalAside, TransportsTypeOK, Legs, Spares
<1>. QED BY <1>2, <1>3, <1>4

LEMMA EditTyped ==
    ASSUME TransportsTypeOK, NEW c \in Clerks, NEW wants \in BOOLEAN, NEW day \in Dates,
           EditRental(c, wants, day)
    PROVE  TransportsTypeOK'
<1>1. [Planned(day) EXCEPT !.delivery = TRUE, !.wants = wants] \in LegRows
  <2>1. Planned(day) \in LegRows BY PlannedTyped
  <2>. QED BY <2>1 DEF LegRows
<1>2. clerk' \in [Clerks -> ClerkStates]
      BY <1>1, IdleTyped DEF EditRental, ClerkStates, TransportsTypeOK
<1>3. hire' \in [live : BOOLEAN, wants : BOOLEAN, day : Dates] /\ synced' \in BOOLEAN
      BY DEF EditRental, TransportsTypeOK
<1>. QED BY <1>2, <1>3 DEF EditRental, SparesAside, TransportsTypeOK, Legs, Spares

LEMMA SyncReadTyped ==
    ASSUME TransportsTypeOK, NEW c \in Clerks, NEW t \in Legs, SyncRead(c, t)
    PROVE  TransportsTypeOK'
<1>1. PICK b \in BOOLEAN : clerk' = [clerk EXCEPT ![c].pc = "sync_leg", ![c].on = t,
                                       ![c].cur = leg[t], ![c].new = b]
      BY DEF SyncRead
<1>2. [clerk[c] EXCEPT !.pc = "sync_leg", !.on = t, !.cur = leg[t], !.new = b] \in ClerkStates
  <2>1. clerk[c] \in ClerkStates /\ leg[t] \in LegRows /\ t \in Nat
        BY IdsAreNumbers DEF TransportsTypeOK
  <2>. QED BY <2>1 DEF ClerkStates
<1>3. clerk' = [clerk EXCEPT ![c] =
                  [clerk[c] EXCEPT !.pc = "sync_leg", !.on = t, !.cur = leg[t], !.new = b]]
      BY <1>1 DEF TransportsTypeOK
<1>4. clerk' \in [Clerks -> ClerkStates] BY <1>2, <1>3 DEF TransportsTypeOK
<1>. QED BY <1>4 DEF SyncRead, SparesAside, RentalAside, TransportsTypeOK, Legs, Spares

(* A sync inserts, moves, cancels or leaves the leg; it never touches the  *)
(* link, and it does not bring a leg back.                                 *)
LEMMA SyncWriteIs ==
    ASSUME TransportsTypeOK, NEW c \in Clerks, RequestInv(c), SyncWrite(c)
    PROVE  LET w == clerk[c]
           IN /\ w \in ClerkStates /\ w.pc = "sync_leg" /\ w.on \in Legs
              /\ leg' = [leg EXCEPT ![w.on] = SyncedRow(w)]
              /\ SyncedRow(w) \in LegRows /\ SyncedRow(w).spare \in Spares \cup {0}
              /\ ~w.new => SyncedRow(w).spare = leg[w.on].spare
              /\ w.new <=> leg[w.on].place = "none"
              /\ LetGo(c) /\ UNCHANGED <<plan, hire, synced, crossed, standIn, reopened>>
<1> DEFINE w == clerk[c]
<1>1. w \in ClerkStates /\ w.pc = "sync_leg" /\ w.on \in Legs /\ leg[w.on] \in LegRows
      /\ leg[w.on].spare \in Spares \cup {0}
      BY DEF TransportsTypeOK, SyncWrite, RequestInv, Placed
<1>2. w.next \in LegRows /\ w.next.spare = 0 /\ w.next.day \in Dates
  <2>1. w.next \in LegRows BY <1>1 DEF ClerkStates
  <2>2. w.next = [Planned(w.next.day) EXCEPT !.delivery = TRUE, !.wants = w.next.wants]
        BY <1>1 DEF RequestInv, Returned, Syncing
  <2>3. Planned(w.next.day).spare = 0 BY DEF Planned
  <2>4. [Planned(w.next.day) EXCEPT !.delivery = TRUE, !.wants = w.next.wants].spare = 0
        BY DEF Planned
  <2>. QED BY <2>1, <2>2, <2>4 DEF LegRows
<1>3. /\ SyncedRow(w) \in LegRows /\ SyncedRow(w).spare \in Spares \cup {0}
      /\ ~w.new => SyncedRow(w).spare = leg[w.on].spare
      BY <1>1, <1>2 DEF SyncedRow, LegRows, Closed
<1>. QED BY <1>1, <1>3 DEF SyncWrite, SparesAside, RequestInv, Placed

LEMMA SyncWriteTyped ==
    ASSUME TransportsTypeOK, NEW c \in Clerks, RequestInv(c), SyncWrite(c)
    PROVE  TransportsTypeOK'
<1>1. /\ leg' \in [Legs -> LegRows]
      /\ \A t \in Legs : leg'[t].spare \in Spares \cup {0}
      BY SyncWriteIs DEF TransportsTypeOK
<1>2. fromRental' \subseteq Legs BY SyncWriteIs DEF SyncWrite, TransportsTypeOK
<1>. QED BY <1>1, <1>2, SyncWriteIs, LetGoTyped DEF TransportsTypeOK, Legs, Spares

LEMMA RentalOffTyped ==
    ASSUME TransportsTypeOK, NEW live \in BOOLEAN, RentalOff(live)
    PROVE  TransportsTypeOK'
<1>1. /\ leg' \in [Legs -> LegRows]
      /\ \A t \in Legs : leg'[t].spare \in Spares \cup {0}
      BY DEF RentalOff, TransportsTypeOK, LegRows, Closed
<1>2. hire' \in [live : BOOLEAN, wants : BOOLEAN, day : Dates] /\ synced' \in BOOLEAN
      BY DEF RentalOff, TransportsTypeOK
<1>3. fromRental' \subseteq Legs /\ crossed' \subseteq Legs
      BY DEF RentalOff, TransportsTypeOK, DeliveryLegs
<1>. QED BY <1>1, <1>2, <1>3 DEF RentalOff, SparesAside, TransportsTypeOK, Legs, Spares

LEMMA HandOverTyped ==
    ASSUME TransportsTypeOK, NEW i \in Spares, HandOver(i)
    PROVE  TransportsTypeOK'
<1>1. standIn' \in [Spares -> StandInRows]
      BY DEF HandOver, TransportsTypeOK, StandInRows
<1>. QED BY <1>1 DEF HandOver, RentalAside, TransportsTypeOK, Legs, Spares

-----------------------------------------------------------------------------
(* A request that did not move keeps what it knows when the rest of the    *)
(* step leaves its transport alone, or crosses it, and its stand-in a row. *)
LEMMA OthersStay ==
    ASSUME TransportsTypeOK, NEW e \in Clerks, RequestInv(e), clerk'[e] = clerk[e],
           plan' = plan, crossed \subseteq crossed',
           clerk[e].on # 0 => (leg'[clerk[e].on].place = "none"
                                 <=> leg[clerk[e].on].place = "none"),
           clerk[e].on # 0 /\ ~clerk[e].new /\ clerk[e].on \notin crossed' =>
               leg'[clerk[e].on] = leg[clerk[e].on],
           \A f \in Clerks : clerk'[f].on = clerk[e].on /\ clerk[e].on # 0 =>
               clerk[f].on = clerk[e].on \/ (clerk[e].on \in crossed' /\ ~clerk[e].new),
           clerk[e].spare # 0 =>
               /\ standIn'[clerk[e].spare].status # "none"
               /\ standIn'[clerk[e].spare].transport = standIn[clerk[e].spare].transport
               /\ standIn[clerk[e].spare].status # "booked" =>
                     standIn'[clerk[e].spare].status # "booked"
    PROVE  RequestInv(e)'
<1>1. Placed(e)' BY IdsAreNumbers DEF RequestInv, Placed, Legs
<1>2. Read(e)' BY DEF RequestInv, Read
<1>3. Drafted(e)'
      BY DEF RequestInv, Drafted, Transitions
<1>4. Decided(e)'
      BY DEF RequestInv, Decided, Reassign, TurnOff, Shift, Arrange, Closing
<1>5. Returned(e)' BY DEF RequestInv, Returned, Syncing
<1>6. OwnSpare(e)' BY DEF RequestInv, OwnSpare, Spares
<1>. QED BY <1>1, <1>2, <1>3, <1>4, <1>5, <1>6 DEF RequestInv

LEMMA IdleSound ==
    ASSUME NEW c \in Clerks, clerk'[c] = ClerkIdle PROVE RequestInv(c)'
BY DEF ClerkIdle, RequestInv, Placed, Read, Drafted, Decided, Returned, Syncing, OwnSpare

(* A request that writes moves only its own transport, which the others on  *)
(* it know to be crossed.                                                  *)
LEMMA WritersSound ==
    ASSUME TransportsTypeOK, \A e \in Clerks : RequestInv(e), NEW c \in Clerks,
           \A e \in Clerks \ {c} : clerk'[e] = clerk[e],
           clerk'[c].on \in {0, clerk[c].on}, RequestInv(c)',
           plan' = plan, crossed' = crossed, clerk[c].on \in Legs,
           \A t \in Legs \ {clerk[c].on} : leg'[t] = leg[t],
           ~clerk[c].new => (leg'[clerk[c].on].place = "none"
                               <=> leg[clerk[c].on].place = "none"),
           \A i \in Spares : standIn[i].status # "none" =>
               /\ standIn'[i].status # "none"
               /\ standIn'[i].transport = standIn[i].transport
               /\ standIn[i].status # "booked" => standIn'[i].status # "booked"
    PROVE  \A e \in Clerks : RequestInv(e)'
<1> SUFFICES ASSUME NEW e \in Clerks, e # c PROVE RequestInv(e)'
    OBVIOUS
<1>1. /\ clerk[e].on # 0 => clerk[e].on \in Legs
      /\ clerk[e].spare # 0 => clerk[e].spare \in Spares
                               /\ standIn[clerk[e].spare].status # "none"
      BY DEF RequestInv, Placed, OwnSpare
<1>2. clerk[e].on # 0 /\ clerk[e].on = clerk[c].on =>
         clerk[e].on \in crossed /\ ~clerk[c].new
      BY DEF RequestInv, Placed, Read
<1>3. \A f \in Clerks : clerk'[f].on = clerk[e].on /\ clerk[e].on # 0 =>
         clerk[f].on = clerk[e].on
      OBVIOUS
<1>. QED BY <1>1, <1>2, <1>3, OthersStay

(* A request that is new on a transport crosses whoever is there; nobody    *)
(* is on one that is not given out.                                        *)
LEMMA TakersSound ==
    ASSUME TransportsTypeOK, \A e \in Clerks : RequestInv(e), NEW c \in Clerks,
           NEW t \in Legs, \A e \in Clerks \ {c} : clerk'[e] = clerk[e],
           UNCHANGED <<plan, leg, standIn>>,
           clerk[c].on = 0, clerk'[c].on = t,
           crossed' = IF Busy(t) THEN crossed \cup {t} ELSE crossed,
           leg[t].place # "none" \/ ~Busy(t),
           clerk'[c].pc \notin {"idle", "sync"},
           clerk'[c].new <=> leg[t].place = "none",
           clerk'[c].new => clerk'[c].pc \in {"judge", "commit", "sync_leg"},
           clerk'[c].pc = "drop_spare" => clerk'[c].spare # 0,
           ~clerk'[c].new => clerk'[c].cur = leg[t],
           Drafted(c)', Decided(c)', Returned(c)', OwnSpare(c)'
    PROVE  \A e \in Clerks : RequestInv(e)'
<1>1. t # 0 BY IdsAreNumbers
<1>2. ASSUME NEW e \in Clerks, e # c PROVE RequestInv(e)'
  <2>1. clerk[e].on # 0 => clerk[e].on \in Legs BY DEF RequestInv, Placed
  <2>2. clerk[e].on = t => t \in crossed' /\ ~clerk[e].new
        BY <1>1 DEF Busy, RequestInv, Placed
  <2>3. \A f \in Clerks : clerk'[f].on = clerk[e].on /\ clerk[e].on # 0 =>
               clerk[f].on = clerk[e].on \/ (clerk[e].on \in crossed' /\ ~clerk[e].new)
        BY <2>2
  <2>4. clerk[e].spare # 0 => standIn[clerk[e].spare].status # "none"
        BY DEF RequestInv, OwnSpare
  <2>. QED BY <1>2, <2>1, <2>3, <2>4, OthersStay
<1>3. Placed(c)' /\ Read(c)'
  <2>1. \A e \in Clerks : e # c /\ clerk'[e].on = t => Busy(t) BY DEF Busy
  <2>2. Legs' = Legs BY DEF Legs
  <2>. QED BY <1>1, <2>1, <2>2 DEF Placed, Read
<1>. QED BY <1>2, <1>3 DEF RequestInv

-----------------------------------------------------------------------------
(* Every action keeps what the requests know.                              *)
LEMMA PlanSound ==
    ASSUME TransportsTypeOK, \A e \in Clerks : RequestInv(e), RowsInv,
           NEW c \in Clerks, NEW t \in Legs, NEW wants \in BOOLEAN,
           NEW car \in Loaners \cup {NoLoaner}, NEW day \in Dates,
           BeginPlan(c, t, wants, car, day)
    PROVE  \A e \in Clerks : RequestInv(e)'
<1> DEFINE w == [ClerkIdle EXCEPT !.pc = "judge", !.on = t, !.cur = Planned(day),
                   !.next = [Planned(day) EXCEPT !.wants = wants, !.car = car],
                   !.sets = {"want", "car"}, !.new = TRUE]
<1>1. /\ clerk[c].pc = "idle" /\ clerk' = [clerk EXCEPT ![c] = w]
      /\ crossed' = IF Busy(t) THEN crossed \cup {t} ELSE crossed
      /\ leg[t].place = "none" /\ ~Busy(t) /\ UNCHANGED <<plan, leg, standIn>>
      BY DEF BeginPlan, TakeOn, SparesAside, ClerkIdle
<1>2. clerk[c].on = 0 BY <1>1 DEF RequestInv, Placed
<1>3. /\ w.pc = "judge" /\ w.on = t /\ w.cur = Planned(day) /\ w.new
      /\ w.next = [Planned(day) EXCEPT !.wants = wants, !.car = car]
      /\ w.sets = {"want", "car"} /\ w.spare = 0
      BY DEF ClerkIdle
<1> HIDE DEF w
<1>4. clerk'[c] = w BY <1>1 DEF TransportsTypeOK
<1>5. /\ w.next.day = day /\ w.next.wants = wants /\ w.next.car = car
      /\ w.next.status = w.cur.status /\ w.cur.day = day /\ w.cur.spare = 0
      BY <1>3 DEF Planned
<1>6. Drafted(c)' BY <1>3, <1>4, <1>5 DEF Drafted
<1>7. Decided(c)' /\ Returned(c)' /\ OwnSpare(c)'
      BY <1>3, <1>4 DEF Decided, Returned, Syncing, OwnSpare
<1>. QED BY <1>1, <1>2, <1>3, <1>4, <1>6, <1>7, TakersSound DEF TransportsTypeOK

LEMMA UpdateSound ==
    ASSUME TransportsTypeOK, \A e \in Clerks : RequestInv(e), RowsInv,
           NEW c \in Clerks, NEW t \in Legs,
           NEW column \in {"status", "want", "car", "day"}, NEW next \in Sent(t, column),
           BeginUpdate(c, t, column, next)
    PROVE  \A e \in Clerks : RequestInv(e)'
<1> DEFINE w == [ClerkIdle EXCEPT !.pc = "judge", !.on = t, !.cur = leg[t],
                   !.next = [next EXCEPT !.spare = leg[t].spare], !.sets = {column},
                   !.spare = leg[t].spare]
<1>1. /\ clerk[c].pc = "idle" /\ clerk' = [clerk EXCEPT ![c] = w]
      /\ crossed' = IF Busy(t) THEN crossed \cup {t} ELSE crossed
      /\ leg[t].place = "table" /\ UNCHANGED <<plan, leg, standIn>>
      /\ next.status \in Transitions(leg[t].status) \cup {leg[t].status}
      BY DEF BeginUpdate, TakeOn, SparesAside, ClerkIdle
<1>2. clerk[c].on = 0 BY <1>1 DEF RequestInv, Placed
<1>3. /\ w.pc = "judge" /\ w.on = t /\ w.cur = leg[t] /\ ~w.new
      /\ w.next = [next EXCEPT !.spare = leg[t].spare]
      /\ w.sets = {column} /\ w.spare = leg[t].spare
      BY DEF ClerkIdle
<1> HIDE DEF w
<1>4. /\ column # "status" => w.next.status = leg[t].status
      /\ column # "day" => w.next.day = leg[t].day
      /\ w.next.status = next.status
      BY <1>3, SentIs DEF LegRows
<1>5. clerk'[c] = w BY <1>1 DEF TransportsTypeOK
<1>6. Drafted(c)'
  <2>1. w.cur.place = "table" /\ w.spare = w.cur.spare BY <1>1, <1>3
  <2>2. w.next.status \in Transitions(w.cur.status) \cup {w.cur.status} BY <1>1, <1>3, <1>4
  <2>3. /\ "status" \notin w.sets => w.next.status = w.cur.status
        /\ "day" \notin w.sets => w.next.day = w.cur.day
        BY <1>3, <1>4
  <2>4. ~w.new BY <1>3
  <2>. QED BY <1>5, <2>1, <2>2, <2>3, <2>4 DEF Drafted, Transitions
<1>7. OwnSpare(c)'
  <2>1. LegInv(t) BY DEF RowsInv
  <2>. QED BY <1>1, <1>3, <1>5, <2>1 DEF OwnSpare, LegInv, Spares
<1>8. Decided(c)' /\ Returned(c)'
      BY <1>3, <1>5 DEF Decided, Returned, Syncing
<1>. QED BY <1>1, <1>2, <1>3, <1>5, <1>6, <1>7, <1>8, TakersSound DEF TransportsTypeOK

LEMMA DeleteSound ==
    ASSUME TransportsTypeOK, \A e \in Clerks : RequestInv(e), RowsInv,
           NEW c \in Clerks, NEW t \in Legs, BeginDelete(c, t)
    PROVE  \A e \in Clerks : RequestInv(e)'
<1> DEFINE i == leg[t].spare
           w == [ClerkIdle EXCEPT !.pc = IF Booked(i) THEN "drop_spare" ELSE "drop",
                      !.on = t, !.cur = leg[t], !.spare = i,
                      !.verdict = IF Booked(i) THEN "booked" ELSE "none"]
<1>1. /\ clerk[c].pc = "idle" /\ clerk' = [clerk EXCEPT ![c] = w]
      /\ crossed' = IF Busy(t) THEN crossed \cup {t} ELSE crossed
      /\ leg[t].place = "table" /\ UNCHANGED <<plan, leg, standIn>>
      BY DEF BeginDelete, TakeOn, SparesAside, ClerkIdle
<1>2. clerk[c].on = 0 BY <1>1 DEF RequestInv, Placed
<1>3. /\ w.pc \in {"drop_spare", "drop"} /\ w.on = t /\ w.cur = leg[t] /\ ~w.new
      /\ w.spare = i /\ (w.pc = "drop_spare" => i # 0)
      BY DEF ClerkIdle, Booked
<1> HIDE DEF w
<1>4. clerk'[c] = w BY <1>1 DEF TransportsTypeOK
<1>5. OwnSpare(c)'
  <2>1. LegInv(t) BY DEF RowsInv
  <2>. QED BY <1>1, <1>3, <1>4, <2>1 DEF OwnSpare, LegInv, Spares
<1>6. Drafted(c)' /\ Decided(c)' /\ Returned(c)'
      BY <1>3, <1>4 DEF Drafted, Decided, Returned, Syncing
<1>. QED BY <1>1, <1>2, <1>3, <1>4, <1>5, <1>6, TakersSound DEF TransportsTypeOK

LEMMA RestoreBegunSound ==
    ASSUME TransportsTypeOK, \A e \in Clerks : RequestInv(e), RowsInv,
           NEW c \in Clerks, NEW t \in Legs, BeginRestore(c, t)
    PROVE  \A e \in Clerks : RequestInv(e)'
<1>0. PICK i \in {leg[t].spare, 0}, v \in {"free", "taken"} :
         TakeOn(c, [ClerkIdle EXCEPT !.pc = "restore", !.on = t, !.cur = leg[t],
                      !.spare = i, !.verdict = v])
      BY DEF BeginRestore
<1> DEFINE w == [ClerkIdle EXCEPT !.pc = "restore", !.on = t, !.cur = leg[t],
                      !.spare = i, !.verdict = v]
<1>1. /\ clerk[c].pc = "idle" /\ clerk' = [clerk EXCEPT ![c] = w]
      /\ crossed' = IF Busy(t) THEN crossed \cup {t} ELSE crossed
      /\ leg[t].place = "bin" /\ UNCHANGED <<plan, leg, standIn>>
      BY <1>0 DEF BeginRestore, TakeOn, SparesAside, ClerkIdle
<1>2. clerk[c].on = 0 BY <1>1 DEF RequestInv, Placed
<1>3. w.pc = "restore" /\ w.on = t /\ w.cur = leg[t] /\ ~w.new /\ w.spare = i
      BY DEF ClerkIdle
<1> HIDE DEF w
<1>4. clerk'[c] = w BY <1>1 DEF TransportsTypeOK
<1>5. OwnSpare(c)'
  <2>1. LegInv(t) BY DEF RowsInv
  <2>. QED BY <1>1, <1>3, <1>4, <2>1 DEF OwnSpare, LegInv, Spares
<1>6. Drafted(c)' /\ Decided(c)' /\ Returned(c)'
      BY <1>3, <1>4 DEF Drafted, Decided, Returned, Syncing
<1>. QED BY <1>1, <1>2, <1>3, <1>4, <1>5, <1>6, TakersSound DEF TransportsTypeOK

LEMMA SyncReadSound ==
    ASSUME TransportsTypeOK, \A e \in Clerks : RequestInv(e), RowsInv,
           NEW c \in Clerks, NEW t \in Legs, SyncRead(c, t)
    PROVE  \A e \in Clerks : RequestInv(e)'
<1> DEFINE w == [clerk[c] EXCEPT !.pc = "sync_leg", !.on = t, !.cur = leg[t],
                                 !.new = DeliveryLegs = {}]
<1>1. clerk[c].pc = "sync" /\ clerk[c] \in ClerkStates BY DEF SyncRead, TransportsTypeOK
<1>2. /\ clerk' = [clerk EXCEPT ![c] = w]
      /\ crossed' = IF Busy(t) THEN crossed \cup {t} ELSE crossed
      /\ UNCHANGED <<plan, leg, standIn>>
      BY DEF SyncRead, SparesAside, TransportsTypeOK
<1>3. /\ w.pc = "sync_leg" /\ w.on = t /\ w.cur = leg[t] /\ (w.new <=> DeliveryLegs = {})
      /\ w.spare = clerk[c].spare /\ w.next = clerk[c].next
      BY <1>1 DEF ClerkStates
<1> HIDE DEF w
<1>4. clerk'[c] = w BY <1>2 DEF TransportsTypeOK
<1>5. /\ clerk[c].on = 0 /\ clerk[c].spare = 0
      /\ w.next = [Planned(w.next.day) EXCEPT !.delivery = TRUE, !.wants = w.next.wants]
      BY <1>1, <1>3 DEF RequestInv, Placed, Returned, Syncing
<1>6. /\ leg[t].place # "none" \/ ~Busy(t)
      /\ w.new <=> leg[t].place = "none"
      BY <1>3 DEF SyncRead, DeliveryLegs
<1>7. Drafted(c)' /\ Decided(c)' /\ Returned(c)' /\ OwnSpare(c)'
      BY <1>3, <1>4, <1>5 DEF Drafted, Decided, Returned, OwnSpare, Planned
<1>. QED BY <1>2, <1>3, <1>4, <1>5, <1>6, <1>7, TakersSound DEF TransportsTypeOK

LEMMA EditSound ==
    ASSUME TransportsTypeOK, \A e \in Clerks : RequestInv(e),
           NEW c \in Clerks, NEW wants \in BOOLEAN, NEW day \in Dates,
           EditRental(c, wants, day)
    PROVE  \A e \in Clerks : RequestInv(e)'
<1> DEFINE w == [ClerkIdle EXCEPT !.pc = "sync",
                   !.next = [Planned(day) EXCEPT !.delivery = TRUE, !.wants = wants]]
<1>1. /\ clerk[c].pc = "idle" /\ clerk' = [clerk EXCEPT ![c] = w]
      /\ UNCHANGED <<plan, leg, standIn, crossed>>
      BY DEF EditRental, SparesAside
<1>2. /\ w.pc = "sync" /\ w.on = 0 /\ w.spare = 0 /\ ~w.new
      /\ w.next = [Planned(day) EXCEPT !.delivery = TRUE, !.wants = wants]
      BY DEF ClerkIdle
<1>3. w.next.day = day /\ w.next.wants = wants BY <1>2 DEF Planned
<1> HIDE DEF w
<1>4. clerk'[c] = w BY <1>1 DEF TransportsTypeOK
<1>5. RequestInv(c)'
      BY <1>2, <1>3, <1>4
      DEF RequestInv, Placed, Read, Drafted, Decided, Returned, Syncing, OwnSpare, Planned
<1>6. ASSUME NEW e \in Clerks, e # c PROVE RequestInv(e)'
  <2>1. clerk[e].spare # 0 => standIn[clerk[e].spare].status # "none"
        BY DEF RequestInv, OwnSpare
  <2>2. \A f \in Clerks : clerk'[f].on = clerk[e].on /\ clerk[e].on # 0 =>
           clerk[f].on = clerk[e].on
        BY <1>1, <1>2, <1>4 DEF TransportsTypeOK
  <2>. QED BY <1>1, <1>6, <2>1, <2>2, OthersStay DEF TransportsTypeOK
<1>. QED BY <1>5, <1>6

LEMMA JudgeSound ==
    ASSUME TransportsTypeOK, \A e \in Clerks : RequestInv(e), NEW c \in Clerks, Judge(c)
    PROVE  \A e \in Clerks : RequestInv(e)'
<1> DEFINE w == clerk[c]
<1>1. /\ w.pc = "judge" /\ w \in ClerkStates /\ UNCHANGED <<plan, leg, standIn, crossed>>
      /\ \A e \in Clerks \ {c} : clerk'[e] = clerk[e]
      BY DEF Judge, LetGo, SparesAside, TransportsTypeOK
<1>2. w.on \in Legs BY <1>1 DEF RequestInv, Placed
<1>3. RequestInv(c)' /\ clerk'[c].on \in {0, w.on}
  <2>1. CASE clerk'[c] = ClerkIdle
    <3>1. ClerkIdle.on = 0 BY DEF ClerkIdle
    <3>. QED BY <2>1, <3>1, IdleSound
  <2>2. CASE clerk'[c] # ClerkIdle
    <3>1. /\ ~Refused(w)
          /\ clerk'[c] = [w EXCEPT !.pc = "commit",
                                   !.verdict = IF Booked(w.spare) THEN "booked" ELSE "none"]
          BY <2>2 DEF Judge, LetGo, TransportsTypeOK
    <3>2. PICK v \in ClerkStates : v = clerk'[c] /\ v.pc = "commit" /\ v.on = w.on
               /\ v.cur = w.cur /\ v.next = w.next /\ v.sets = w.sets /\ v.spare = w.spare
               /\ v.new = w.new
               /\ v.verdict = IF Booked(w.spare) THEN "booked" ELSE "none"
          BY <1>1, <3>1 DEF ClerkStates
    <3>3. Placed(c)' BY <1>1, <3>2 DEF RequestInv, Placed, Legs
    <3>4. Read(c)' BY <1>1, <3>2 DEF RequestInv, Read
    <3>5. Drafted(c)'
      <4>1. Drafted(c) BY DEF RequestInv
      <4>2. v.cur = w.cur /\ v.next = w.next /\ v.sets = w.sets /\ v.spare = w.spare
            /\ v.new = w.new /\ clerk'[c] = v
            BY <3>2
      <4>3. /\ IF w.new THEN /\ w.cur = Planned(w.next.day)
                             /\ w.next = [w.cur EXCEPT !.wants = w.next.wants,
                                                       !.car = w.next.car]
               ELSE /\ w.cur.place = "table"
                    /\ w.next.status \in Transitions(w.cur.status) \cup {w.cur.status}
            /\ w.spare = w.cur.spare
            /\ "status" \notin w.sets => w.next.status = w.cur.status
            /\ "day" \notin w.sets => w.next.day = w.cur.day
            BY <1>1, <4>1 DEF Drafted
      <4> HIDE DEF w
      <4>. QED BY <4>2, <4>3 DEF Drafted, Transitions
    <3>6. Decided(c)'
      <4>1. Reassign(v) \/ TurnOff(v) \/ (Shift(v) /\ w.spare # 0) => Booked(w.spare)
            BY <3>1, <3>2 DEF Refused, Reassign, TurnOff, Shift, Arrange, Closing
      <4>. QED BY <1>1, <3>2, <4>1
               DEF Decided, Booked, Reassign, TurnOff, Shift, Arrange, Closing
    <3>7. Returned(c)' /\ OwnSpare(c)'
          BY <1>1, <3>2 DEF RequestInv, Returned, Syncing, OwnSpare, Spares
    <3>. QED BY <3>2, <3>3, <3>4, <3>5, <3>6, <3>7 DEF RequestInv
  <2>. QED BY <2>1, <2>2
<1>4. w.new \/ (leg'[w.on].place = "none" <=> leg[w.on].place = "none")
      BY <1>1
<1>. QED BY <1>1, <1>2, <1>3, <1>4, WritersSound

LEMMA LetGoIs ==
    ASSUME TransportsTypeOK, NEW c \in Clerks, LetGo(c)
    PROVE  /\ clerk'[c] = ClerkIdle /\ clerk'[c].on = 0 /\ RequestInv(c)'
           /\ \A e \in Clerks \ {c} : clerk'[e] = clerk[e]
<1>1. clerk'[c] = ClerkIdle /\ \A e \in Clerks \ {c} : clerk'[e] = clerk[e]
      BY DEF LetGo, TransportsTypeOK
<1>2. ClerkIdle.on = 0 BY DEF ClerkIdle
<1>. QED BY <1>1, <1>2, IdleSound

(* A booked stand-in is changed in place or cancelled.                     *)
LEMMA SpareAfterIs ==
    ASSUME TransportsTypeOK, NEW w \in ClerkStates, w.spare \in Spares
    PROVE  /\ SpareAfter(w).transport = standIn[w.spare].transport
           /\ SpareAfter(w).deleted = standIn[w.spare].deleted
           /\ SpareAfter(w).status = IF Dropped(w) THEN "cancelled"
                                     ELSE standIn[w.spare].status
           /\ ~Dropped(w) => /\ SpareAfter(w).car = IF Reassign(w) THEN w.next.car
                                                    ELSE standIn[w.spare].car
                             /\ SpareAfter(w).day = IF Shift(w) THEN w.next.day
                                                    ELSE standIn[w.spare].day
<1>1. standIn[w.spare] \in StandInRows BY DEF TransportsTypeOK
<1>. QED BY <1>1 DEF SpareAfter, StandInRows

(* No step but an insert gives a row to another transport, and none makes  *)
(* a stand-in booked again.                                                *)
LEMMA CommitKeepsSpares ==
    ASSUME TransportsTypeOK, NEW c \in Clerks, RequestInv(c), Commit(c),
           NEW i \in Spares, standIn[i].status # "none"
    PROVE  /\ standIn'[i].status # "none"
           /\ standIn'[i].transport = standIn[i].transport
           /\ standIn[i].status # "booked" => standIn'[i].status # "booked"
<1> DEFINE w == clerk[c]
<1>1. CASE Arrange(w)
  <2>1. NewSpare # i /\ standIn' = [standIn EXCEPT ![NewSpare] = Booking(w)]
        BY <1>1, CommitIs
  <2>. QED BY <2>1 DEF TransportsTypeOK
<1>2. CASE ~Arrange(w) /\ w.spare # 0
  <2>1. /\ w.spare \in Spares /\ w \in ClerkStates
        /\ standIn' = [standIn EXCEPT ![w.spare] = SpareAfter(w)]
        BY <1>2, CommitIs
  <2>. QED BY <2>1, SpareAfterIs DEF TransportsTypeOK
<1>3. CASE ~Arrange(w) /\ w.spare = 0 BY <1>3, CommitIs
<1>. QED BY <1>1, <1>2, <1>3

LEMMA CommitSound ==
    ASSUME TransportsTypeOK, \A e \in Clerks : RequestInv(e), NEW c \in Clerks, Commit(c)
    PROVE  \A e \in Clerks : RequestInv(e)'
<1> DEFINE w == clerk[c]
<1>1. /\ w \in ClerkStates /\ w.on \in Legs /\ LetGo(c) /\ UNCHANGED <<plan, crossed>>
      /\ LinkAfter(w) \in Spares \cup {0}
      /\ leg' = [leg EXCEPT ![w.on] =
                    IF w.new THEN [w.next EXCEPT !.spare = LinkAfter(w)]
                    ELSE IF leg[w.on].place = "table" THEN CommittedRow(w)
                    ELSE leg[w.on]]
      BY CommitIs
<1>2. \A t \in Legs \ {w.on} : leg'[t] = leg[t] BY <1>1 DEF TransportsTypeOK
<1>3. ~w.new => leg'[w.on].place = leg[w.on].place
      BY <1>1, CommittedTyped DEF TransportsTypeOK
<1>. QED BY <1>1, <1>2, <1>3, LetGoIs, CommitKeepsSpares, WritersSound

LEMMA SyncWriteSound ==
    ASSUME TransportsTypeOK, \A e \in Clerks : RequestInv(e), NEW c \in Clerks, SyncWrite(c)
    PROVE  \A e \in Clerks : RequestInv(e)'
<1> DEFINE w == clerk[c]
<1>1. /\ w \in ClerkStates /\ w.on \in Legs /\ LetGo(c)
      /\ UNCHANGED <<plan, crossed, standIn>>
      /\ leg' = [leg EXCEPT ![w.on] = SyncedRow(w)]
      BY SyncWriteIs
<1>2. \A t \in Legs \ {w.on} : leg'[t] = leg[t] BY <1>1 DEF TransportsTypeOK
<1>3. ~w.new => leg'[w.on].place = leg[w.on].place
  <2>1. leg[w.on] \in LegRows BY <1>1 DEF TransportsTypeOK
  <2>2. ~w.new => SyncedRow(w).place = leg[w.on].place BY <2>1 DEF SyncedRow, LegRows
  <2>. QED BY <1>1, <2>2 DEF TransportsTypeOK
<1>. QED BY <1>1, <1>2, <1>3, LetGoIs, WritersSound

(* A request from the bin's side goes on, or lets go.                      *)
LEMMA DropsSound ==
    ASSUME TransportsTypeOK, \A e \in Clerks : RequestInv(e), NEW c \in Clerks,
           DropSpare(c) \/ DropLeg(c) \/ Restore(c)
    PROVE  \A e \in Clerks : RequestInv(e)'
<1> DEFINE w == clerk[c]
<1>1. /\ w \in ClerkStates /\ w.pc \in {"drop_spare", "drop", "restore"} /\ w.on \in Legs
      /\ ~w.new /\ w.spare \in Spares \cup {0} /\ leg[w.on].place # "none"
      /\ w.pc = "drop_spare" => w.spare # 0
      BY DEF DropSpare, DropLeg, Restore, TransportsTypeOK, RequestInv, Placed, OwnSpare
<1>2. CASE DropSpare(c)
  <2>1. /\ standIn' = [standIn EXCEPT ![w.spare].deleted = TRUE]
        /\ clerk' = [clerk EXCEPT ![c].pc = "drop"]
        /\ UNCHANGED <<plan, leg, crossed>> /\ w.spare \in Spares
        BY <1>1, <1>2 DEF DropSpare
  <2>2. \A i \in Spares : standIn'[i].status = standIn[i].status
                          /\ standIn'[i].transport = standIn[i].transport
    <3>1. standIn[w.spare] \in StandInRows BY <2>1 DEF TransportsTypeOK
    <3>. QED BY <2>1, <3>1 DEF TransportsTypeOK, StandInRows
  <2>3. PICK v \in ClerkStates : v = clerk'[c] /\ v.pc = "drop" /\ v.on = w.on
               /\ v.cur = w.cur /\ v.spare = w.spare /\ ~v.new
        BY <1>1, <2>1 DEF ClerkStates, TransportsTypeOK
  <2>4. RequestInv(c)'
    <3>1. Placed(c)' BY <1>1, <2>1, <2>3 DEF Placed, Legs
    <3>2. Read(c)'
          BY <1>1, <2>1, <2>3 DEF RequestInv, Read, TransportsTypeOK
    <3>3. OwnSpare(c)' BY <2>1, <2>2, <2>3 DEF RequestInv, OwnSpare, Spares
    <3>4. Drafted(c)' /\ Decided(c)' /\ Returned(c)'
          BY <2>3 DEF Drafted, Decided, Returned, Syncing
    <3>. QED BY <3>1, <3>2, <3>3, <3>4 DEF RequestInv
  <2>5. \A e \in Clerks \ {c} : clerk'[e] = clerk[e] BY <2>1 DEF TransportsTypeOK
  <2>. QED BY <1>1, <2>1, <2>2, <2>3, <2>4, <2>5, WritersSound
<1>3. CASE DropLeg(c)
  <2>1. /\ leg' = [leg EXCEPT ![w.on].place = "bin"] /\ LetGo(c)
        /\ UNCHANGED <<plan, crossed, standIn>>
        BY <1>3 DEF DropLeg, SparesAside
  <2>2. /\ \A t \in Legs \ {w.on} : leg'[t] = leg[t]
        /\ leg'[w.on].place # "none"
        BY <1>1, <2>1 DEF TransportsTypeOK, LegRows
  <2>. QED BY <1>1, <2>1, <2>2, LetGoIs, WritersSound
<1>4. CASE Restore(c)
  <2>1. /\ leg' = [leg EXCEPT ![w.on].place = "table"] /\ LetGo(c)
        /\ UNCHANGED <<plan, crossed>>
        BY <1>4 DEF Restore
  <2>2. /\ \A t \in Legs \ {w.on} : leg'[t] = leg[t]
        /\ leg'[w.on].place # "none"
        BY <1>1, <2>1 DEF TransportsTypeOK, LegRows
  <2>3. \A i \in Spares :
           /\ standIn'[i].transport = standIn[i].transport
           /\ standIn'[i].status \in {standIn[i].status, "cancelled"}
    <3>1. w.spare # 0 => standIn[w.spare] \in StandInRows BY <1>1 DEF TransportsTypeOK
    <3>. QED BY <1>1, <1>4, <3>1 DEF Restore, TransportsTypeOK, StandInRows
  <2>. QED BY <1>1, <2>1, <2>2, <2>3, LetGoIs, WritersSound
<1>. QED BY <1>2, <1>3, <1>4

(* The rental's cascade crosses the requests it meets; a handover moves    *)
(* only a status that is not booked any more.                              *)
LEMMA RentalOffSound ==
    ASSUME TransportsTypeOK, \A e \in Clerks : RequestInv(e), NEW live, RentalOff(live)
    PROVE  \A e \in Clerks : RequestInv(e)'
<1>1. UNCHANGED <<plan, clerk, standIn>> /\ crossed \subseteq crossed'
      BY DEF RentalOff, SparesAside
<1>2. \A t \in Legs : leg'[t].place = leg[t].place
  <2> TAKE t \in Legs
  <2>1. leg[t] \in LegRows BY DEF TransportsTypeOK
  <2>. QED BY <2>1 DEF RentalOff, LegRows
<1>3. \A t \in Legs : leg'[t] = leg[t] \/ ~Busy(t) \/ t \in crossed'
      BY DEF RentalOff
<1>4. SUFFICES ASSUME NEW e \in Clerks PROVE RequestInv(e)'
      OBVIOUS
<1>5. /\ clerk[e].on # 0 => clerk[e].on \in Legs /\ Busy(clerk[e].on)
      /\ clerk[e].spare # 0 => standIn[clerk[e].spare].status # "none"
      BY DEF RequestInv, Placed, OwnSpare, Busy
<1>6. clerk'[e] = clerk[e] BY <1>1
<1>. QED BY <1>1, <1>2, <1>3, <1>5, <1>6, OthersStay

LEMMA HandOverIs ==
    ASSUME TransportsTypeOK, NEW i \in Spares, HandOver(i), NEW k \in Spares
    PROVE  /\ standIn'[k].transport = standIn[k].transport
           /\ standIn'[k].deleted = standIn[k].deleted
           /\ standIn'[k].car = standIn[k].car /\ standIn'[k].day = standIn[k].day
           /\ \/ standIn'[k] = standIn[k]
              \/ standIn[k].status = "booked" /\ standIn'[k].status = "picked_up"
              \/ standIn[k].status = "picked_up" /\ standIn'[k].status = "returned"
<1>1. standIn[i] \in StandInRows BY DEF TransportsTypeOK
<1>2. PICK s \in {"picked_up", "returned"} :
         /\ standIn' = [standIn EXCEPT ![i].status = s]
         /\ IF s = "picked_up" THEN standIn[i].status = "booked"
            ELSE standIn[i].status = "picked_up"
      BY DEF HandOver
<1>3. standIn' = [standIn EXCEPT ![i] = [standIn[i] EXCEPT !.status = s]]
      BY <1>2 DEF TransportsTypeOK
<1>4. /\ [standIn[i] EXCEPT !.status = s].transport = standIn[i].transport
      /\ [standIn[i] EXCEPT !.status = s].deleted = standIn[i].deleted
      /\ [standIn[i] EXCEPT !.status = s].car = standIn[i].car
      /\ [standIn[i] EXCEPT !.status = s].day = standIn[i].day
      /\ [standIn[i] EXCEPT !.status = s].status = s
      BY <1>1 DEF StandInRows
<1>5. CASE k = i
  <2>1. standIn'[k] = [standIn[i] EXCEPT !.status = s]
        BY <1>3, <1>5 DEF TransportsTypeOK
  <2>. QED BY <1>2, <1>4, <1>5, <2>1
<1>6. CASE k # i BY <1>3, <1>6 DEF TransportsTypeOK
<1>. QED BY <1>5, <1>6

LEMMA HandOverSound ==
    ASSUME TransportsTypeOK, \A e \in Clerks : RequestInv(e), NEW i \in Spares, HandOver(i)
    PROVE  \A e \in Clerks : RequestInv(e)'
<1>1. UNCHANGED <<plan, leg, clerk, crossed>> BY DEF HandOver
<1>2. SUFFICES ASSUME NEW e \in Clerks PROVE RequestInv(e)'
      OBVIOUS
<1>3. clerk[e].spare # 0 => clerk[e].spare \in Spares
                            /\ standIn[clerk[e].spare].status # "none"
      BY DEF RequestInv, OwnSpare
<1>4. clerk[e].spare # 0 =>
               /\ standIn'[clerk[e].spare].status # "none"
               /\ standIn'[clerk[e].spare].transport = standIn[clerk[e].spare].transport
               /\ standIn[clerk[e].spare].status # "booked" =>
                     standIn'[clerk[e].spare].status # "booked"
      BY <1>3, HandOverIs
<1>. QED BY <1>1, <1>4, OthersStay

-----------------------------------------------------------------------------
(* Every action keeps transports and stand-ins linked.                     *)
LEMMA RowsStay ==
    ASSUME RowsInv, UNCHANGED <<plan, leg, standIn, reopened>>,
           crossed \subseteq crossed', fromRental \subseteq fromRental'
    PROVE  RowsInv'
<1>1. \A t \in Legs : LegInv(t)' BY DEF RowsInv, LegInv, Spares
<1>2. \A i \in Spares : SpareInv(i)' BY DEF RowsInv, SpareInv, Legs
<1>. QED BY <1>1, <1>2 DEF RowsInv, Legs, Spares

(* Where COMMIT puts the row, its link and its day.                        *)
LEMMA CommitMoves ==
    ASSUME TransportsTypeOK, NEW c \in Clerks, RequestInv(c), Commit(c)
    PROVE  LET w == clerk[c]
           IN /\ \A t \in Legs \ {w.on} : leg'[t] = leg[t]
              /\ w.new => /\ leg'[w.on].place = "table" /\ w.spare = 0
                          /\ leg'[w.on].spare = LinkAfter(w)
                          /\ leg'[w.on].day = w.next.day
                          /\ leg'[w.on].status = "scheduled"
                          /\ leg'[w.on].delivery = FALSE
              /\ ~w.new => /\ leg'[w.on].place = leg[w.on].place
                           /\ leg'[w.on].delivery = leg[w.on].delivery
              /\ ~w.new /\ leg[w.on].place = "bin" => leg'[w.on] = leg[w.on]
              /\ ~w.new /\ leg[w.on].place = "table" => leg'[w.on].spare = LinkAfter(w)
              /\ ~w.new /\ w.on \notin crossed =>
                    /\ leg[w.on] = w.cur /\ w.cur.place = "table" /\ w.spare = w.cur.spare
                    /\ leg'[w.on].day = w.next.day /\ leg'[w.on].status = w.next.status
<1> DEFINE w == clerk[c]
<1>1. /\ w \in ClerkStates /\ w.on \in Legs /\ LinkAfter(w) \in Spares \cup {0}
      /\ leg' = [leg EXCEPT ![w.on] =
                    IF w.new THEN [w.next EXCEPT !.spare = LinkAfter(w)]
                    ELSE IF leg[w.on].place = "table" THEN CommittedRow(w)
                    ELSE leg[w.on]]
      /\ w.pc = "commit"
      BY CommitIs
<1>2. leg[w.on] \in LegRows /\ w.next \in LegRows /\ w.cur \in LegRows
      BY <1>1 DEF TransportsTypeOK, ClerkStates
<1>3. Drafted(c) /\ Read(c) BY DEF RequestInv
<1>4. \A t \in Legs \ {w.on} : leg'[t] = leg[t] BY <1>1 DEF TransportsTypeOK
<1>5. CASE w.new
  <2>1. leg'[w.on] = [w.next EXCEPT !.spare = LinkAfter(w)]
        BY <1>1, <1>5 DEF TransportsTypeOK
  <2>2. /\ w.cur = Planned(w.next.day) /\ w.spare = w.cur.spare
        /\ w.next = [w.cur EXCEPT !.wants = w.next.wants, !.car = w.next.car]
        BY <1>1, <1>3, <1>5 DEF Drafted
  <2>3. w.cur.spare = 0 /\ w.cur.place = "table" /\ w.cur.status = "scheduled"
        /\ w.cur.delivery = FALSE
        BY <2>2 DEF Planned
  <2>4. w.next.place = "table" /\ w.next.status = "scheduled" /\ w.next.delivery = FALSE
        BY <1>2, <2>2, <2>3 DEF LegRows
  <2>5. /\ leg'[w.on].place = "table" /\ leg'[w.on].spare = LinkAfter(w)
        /\ leg'[w.on].day = w.next.day /\ leg'[w.on].status = "scheduled"
        /\ leg'[w.on].delivery = FALSE
        BY <1>2, <2>1, <2>4 DEF LegRows
  <2>. QED BY <1>4, <1>5, <2>2, <2>3, <2>5
<1>6. CASE ~w.new
  <2>1. leg'[w.on] = IF leg[w.on].place = "table" THEN CommittedRow(w) ELSE leg[w.on]
        BY <1>1, <1>6 DEF TransportsTypeOK
  <2>2. /\ leg'[w.on].place = leg[w.on].place
        /\ leg'[w.on].delivery = leg[w.on].delivery
        /\ leg[w.on].place = "table" => leg'[w.on].spare = LinkAfter(w)
        /\ leg[w.on].place = "bin" => leg'[w.on] = leg[w.on]
        BY <1>1, <2>1, CommittedTyped
  <2>3. ASSUME w.on \notin crossed
        PROVE  /\ leg[w.on] = w.cur /\ w.cur.place = "table" /\ w.spare = w.cur.spare
               /\ leg'[w.on].day = w.next.day /\ leg'[w.on].status = w.next.status
    <3>1. /\ leg[w.on] = w.cur /\ w.cur.place = "table" /\ w.spare = w.cur.spare
          /\ "status" \notin w.sets => w.next.status = w.cur.status
          /\ "day" \notin w.sets => w.next.day = w.cur.day
          BY <1>1, <1>3, <1>6, <2>3, IdsAreNumbers DEF Drafted, Read
    <3>2. leg'[w.on] = CommittedRow(w) BY <2>1, <3>1
    <3>3. /\ CommittedRow(w).day = IF "day" \in w.sets THEN w.next.day ELSE leg[w.on].day
          /\ CommittedRow(w).status = IF "status" \in w.sets THEN w.next.status
                                      ELSE leg[w.on].status
          BY <1>2 DEF CommittedRow, LegRows
    <3>. QED BY <3>1, <3>2, <3>3
  <2>. QED BY <1>4, <1>6, <2>2, <2>3
<1>. QED BY <1>5, <1>6

(* The rows of stand-ins that COMMIT writes.                               *)
LEMMA CommitWrites ==
    ASSUME TransportsTypeOK, NEW c \in Clerks, RequestInv(c), Commit(c), NEW i \in Spares
    PROVE  LET w == clerk[c]
           IN \/ standIn'[i] = standIn[i] /\ i # w.spare /\ ~(Arrange(w) /\ i = NewSpare)
              \/ /\ Arrange(w) /\ i = NewSpare /\ standIn[i].status = "none"
                 /\ standIn'[i] = Booking(w)
              \/ /\ ~Arrange(w) /\ w.spare # 0 /\ i = w.spare
                 /\ standIn[i].status # "none" /\ standIn'[i] = SpareAfter(w)
<1> DEFINE w == clerk[c]
<1>1. CASE Arrange(w)
  <2>1. /\ NewSpare \in Spares /\ standIn[NewSpare].status = "none" /\ w.spare = 0
        /\ standIn' = [standIn EXCEPT ![NewSpare] = Booking(w)]
        BY <1>1, CommitIs
  <2>2. i # 0 BY IdsAreNumbers
  <2>. QED BY <1>1, <2>1, <2>2 DEF TransportsTypeOK
<1>2. CASE ~Arrange(w) /\ w.spare # 0
  <2>1. /\ w.spare \in Spares /\ standIn' = [standIn EXCEPT ![w.spare] = SpareAfter(w)]
        BY <1>2, CommitIs
  <2>2. standIn[w.spare].status # "none" BY <1>2 DEF RequestInv, OwnSpare
  <2>. QED BY <1>2, <2>1, <2>2 DEF TransportsTypeOK
<1>3. CASE ~Arrange(w) /\ w.spare = 0
  <2>1. standIn' = standIn BY <1>3, CommitIs
  <2>2. i # 0 BY IdsAreNumbers
  <2>. QED BY <1>3, <2>1, <2>2
<1>. QED BY <1>1, <1>2, <1>3

LEMMA CommitLinks ==
    ASSUME TransportsTypeOK, \A e \in Clerks : RequestInv(e), RowsInv,
           NEW c \in Clerks, Commit(c)
    PROVE  RowsInv'
<1> DEFINE w == clerk[c]
<1>1. /\ w \in ClerkStates /\ w.on \in Legs /\ w.spare \in Spares \cup {0} /\ w.pc = "commit"
      /\ UNCHANGED <<plan, crossed, reopened, fromRental>>
      /\ Arrange(w) => NewSpare \in Spares
      BY CommitIs
<1>2. Legs' = Legs /\ Spares' = Spares BY <1>1 DEF Legs, Spares
<1>3. /\ Placed(c) /\ OwnSpare(c) BY DEF RequestInv
<1>4. /\ Booking(w).status = "booked" /\ Booking(w).transport = w.on
      /\ Booking(w).day = w.next.day
      BY DEF Booking
<1>5. w.spare # 0 => /\ SpareAfter(w).transport = w.on
                     /\ SpareAfter(w).status # "none"
                     /\ Dropped(w) => SpareAfter(w).status = "cancelled"
                     /\ ~Dropped(w) => SpareAfter(w).status = standIn[w.spare].status
                     /\ ~Dropped(w) => SpareAfter(w).day = IF Shift(w) THEN w.next.day
                                                    ELSE standIn[w.spare].day
  <2>1. w.spare # 0 => w.spare \in Spares /\ standIn[w.spare].transport = w.on
                       /\ standIn[w.spare].status # "none"
        BY <1>3 DEF OwnSpare
  <2>. QED BY <1>1, <2>1, SpareAfterIs
<1>6. ASSUME NEW t \in Legs PROVE LegInv(t)'
  <2>1. LegInv(t) BY DEF RowsInv
  <2>2. CASE t # w.on
    <3>1. leg'[t] = leg[t] BY <2>2, CommitMoves
    <3>2. leg[t].spare # 0 => /\ leg[t].spare \in Spares
                              /\ standIn[leg[t].spare].status # "none"
                              /\ leg[t].spare # w.spare
          BY <2>1, <2>2, <1>3 DEF LegInv, OwnSpare
    <3>3. leg[t].spare # 0 => standIn'[leg[t].spare] = standIn[leg[t].spare]
          BY <3>2, CommitWrites
    <3>. QED BY <1>1, <1>2, <2>1, <3>1, <3>3 DEF LegInv
  <2>3. CASE t = w.on
    <3>1. leg'[t].place # "none"
          BY <1>1, <1>3, <2>3, CommitMoves DEF Placed
    <3>2. CASE ~w.new /\ leg[t].place = "bin"
      <4>1. leg'[t] = leg[t] /\ t \in crossed BY <2>3, <3>2, CommitMoves
      <4>2. leg[t].spare # 0 => leg[t].spare \in Spares
                                /\ standIn'[leg[t].spare].status # "none"
                                /\ standIn'[leg[t].spare].transport = t
            BY <2>1, CommitKeepsSpares DEF LegInv
      <4>. QED BY <1>1, <1>2, <3>1, <4>1, <4>2 DEF LegInv
    <3>3. CASE ~(~w.new /\ leg[t].place = "bin")
      <4>1. leg'[t].spare = LinkAfter(w)
        <5>1. leg[t].place \in {"none", "table", "bin"}
              BY DEF TransportsTypeOK, LegRows
        <5>2. ~w.new => leg[t].place # "none" BY <1>1, <1>3, <2>3 DEF Placed
        <5>. QED BY <2>3, <3>3, <5>1, <5>2, CommitMoves
      <4>2. t \notin crossed => leg'[t].day = w.next.day BY <2>3, CommitMoves
      <4>3. CASE Arrange(w)
        <5>1. leg'[t].spare = NewSpare /\ NewSpare \in Spares
              BY <1>1, <4>1, <4>3 DEF LinkAfter
        <5>2. standIn'[NewSpare] = Booking(w)
              BY <1>1, <4>3, <5>1, CommitWrites, IdsAreNumbers
        <5>. QED BY <1>1, <1>2, <1>4, <2>3, <3>1, <4>2, <5>1, <5>2 DEF LegInv
      <4>4. CASE ~Arrange(w) /\ (Dropped(w) \/ w.spare = 0)
        <5>1. leg'[t].spare = 0 BY <4>1, <4>4 DEF LinkAfter
        <5>. QED BY <1>1, <1>2, <3>1, <5>1 DEF LegInv
      <4>5. CASE ~Arrange(w) /\ ~Dropped(w) /\ w.spare # 0
        <5>1. leg'[t].spare = w.spare /\ w.spare \in Spares
              BY <1>1, <4>1, <4>5 DEF LinkAfter
        <5>2. standIn'[w.spare] = SpareAfter(w)
              BY <1>1, <4>5, CommitIs DEF TransportsTypeOK
        <5>3. ASSUME t \notin crossed \cup fromRental
              PROVE  standIn'[w.spare].day = leg'[t].day
          <6>1. ~w.new BY <4>5, CommitMoves
          <6>2. leg[t] = w.cur /\ w.spare = w.cur.spare
                BY <2>3, <5>3, <6>1, CommitMoves
          <6>3. standIn[w.spare].day = w.cur.day
                BY <2>1, <4>5, <5>3, <6>2 DEF LegInv
          <6>4. Shift(w) <=> w.cur.day # w.next.day BY <4>5 DEF Shift
          <6>. QED BY <1>5, <4>2, <4>5, <5>2, <5>3, <6>3, <6>4
        <5>4. standIn'[w.spare].status # "none" /\ standIn'[w.spare].transport = t
              BY <1>5, <2>3, <4>5, <5>2
        <5>. QED BY <1>1, <1>2, <3>1, <5>1, <5>3, <5>4 DEF LegInv
      <4>. QED BY <4>3, <4>4, <4>5
    <3>. QED BY <3>2, <3>3
  <2>. QED BY <2>2, <2>3
<1>7. ASSUME NEW i \in Spares PROVE SpareInv(i)'
  <2>1. SpareInv(i) BY DEF RowsInv
  <2>2. CASE standIn[i].status = "none" /\ ~(Arrange(w) /\ i = NewSpare)
    <3>1. standIn'[i] = standIn[i] BY <2>2, CommitWrites
    <3>. QED BY <1>2, <2>1, <2>2, <3>1 DEF SpareInv
  <2>3. CASE Arrange(w) /\ i = NewSpare
    <3>1. standIn'[i] = Booking(w)
          BY <1>1, <2>3, CommitWrites
    <3>2. w.on \notin crossed => leg'[w.on].place # "none" /\ leg'[w.on].spare = i
      <4>1. LinkAfter(w) = i BY <2>3 DEF LinkAfter
      <4>2. CASE w.new
            BY <4>1, <4>2, CommitMoves
      <4>3. ASSUME ~w.new, w.on \notin crossed
            PROVE  leg'[w.on].place = "table" /\ leg'[w.on].spare = i
        <5>1. leg[w.on].place = "table" BY <4>3, CommitMoves
        <5>. QED BY <4>1, <4>3, <5>1, CommitMoves
      <4>. QED BY <4>2, <4>3
    <3>. QED BY <1>1, <1>2, <1>4, <3>1, <3>2 DEF SpareInv
  <2>4. CASE standIn[i].status # "none"
    <3>1. /\ standIn'[i].status # "none"
          /\ standIn'[i].transport = standIn[i].transport
          /\ standIn[i].status # "booked" => standIn'[i].status # "booked"
          BY <2>4, CommitKeepsSpares
    <3>2. ASSUME standIn'[i].status = "booked", standIn[i].transport \notin crossed
          PROVE  /\ leg'[standIn[i].transport].place # "none"
                 /\ leg'[standIn[i].transport].spare = i
      <4> DEFINE t == standIn[i].transport
      <4>1. t \in Legs /\ leg[t].place # "none" /\ leg[t].spare = i
            BY <2>1, <2>4, <3>1, <3>2 DEF SpareInv
      <4>2. CASE t # w.on BY <4>1, <4>2, CommitMoves
      <4>3. CASE t = w.on
        <5>1. ~w.new BY <1>1, <1>3, <4>1, <4>3 DEF Placed
        <5>2. leg[t] = w.cur /\ w.cur.place = "table" /\ w.spare = i
              /\ leg'[t].place = leg[t].place /\ leg'[t].spare = LinkAfter(w)
          <6>1. w.on \notin crossed BY <3>2, <4>3
          <6>2. leg[w.on] = w.cur /\ w.cur.place = "table" /\ w.spare = w.cur.spare
                BY <5>1, <6>1, CommitMoves
          <6>3. leg'[w.on].place = leg[w.on].place /\ leg'[w.on].spare = LinkAfter(w)
                BY <5>1, <6>2, CommitMoves
          <6>. QED BY <4>1, <4>3, <6>2, <6>3
        <5>3. i # 0 BY IdsAreNumbers
        <5>4. ~Arrange(w) BY <5>2, <5>3 DEF Arrange
        <5>5. standIn'[i] = SpareAfter(w)
              BY <1>1, <5>2, <5>3, <5>4, CommitIs DEF TransportsTypeOK
        <5>6. ~Dropped(w) BY <1>5, <3>2, <5>2, <5>3, <5>5
        <5>. QED BY <4>1, <5>2, <5>4, <5>6 DEF LinkAfter
      <4>. QED BY <4>2, <4>3
    <3>3. standIn[i].transport \in Legs BY <2>1, <2>4 DEF SpareInv
    <3>. QED BY <1>1, <1>2, <3>1, <3>2, <3>3 DEF SpareInv
  <2>. QED BY <2>2, <2>3, <2>4
<1>. QED BY <1>2, <1>6, <1>7 DEF RowsInv

(* A step that leaves the links and the days where they are, and of the    *)
(* stand-ins changes only what is not theirs to be booked by.              *)
LEMMA LinksStay ==
    ASSUME TransportsTypeOK, RowsInv, plan' = plan, crossed' \subseteq Legs,
           crossed \subseteq crossed', fromRental \subseteq fromRental',
           \A t \in Legs :
              /\ leg[t].place = "none" => leg'[t] = leg[t]
              /\ leg[t].place # "none" => leg'[t].place # "none"
              /\ leg'[t].spare = leg[t].spare
              /\ leg'[t].day = leg[t].day \/ t \in fromRental',
           \A t \in reopened' : t \in reopened \/ leg[t].place # "none",
           \A i \in Spares :
              /\ standIn[i].status = "none" => standIn'[i] = standIn[i]
              /\ standIn[i].status # "none" => standIn'[i].status # "none"
              /\ standIn'[i].transport = standIn[i].transport
              /\ standIn'[i].day = standIn[i].day
              /\ standIn'[i].status = "booked" => standIn[i].status = "booked"
    PROVE  RowsInv'
<1>1. Legs' = Legs /\ Spares' = Spares BY DEF Legs, Spares
<1>2. ASSUME NEW t \in Legs PROVE LegInv(t)'
  <2>1. LegInv(t) BY DEF RowsInv
  <2>. QED BY <1>1, <2>1 DEF LegInv
<1>3. ASSUME NEW i \in Spares PROVE SpareInv(i)'
  <2>1. SpareInv(i) BY DEF RowsInv
  <2>. QED BY <1>1, <2>1 DEF SpareInv
<1>. QED BY <1>1, <1>2, <1>3 DEF RowsInv

LEMMA SyncWriteLinks ==
    ASSUME TransportsTypeOK, \A e \in Clerks : RequestInv(e), RowsInv,
           NEW c \in Clerks, SyncWrite(c)
    PROVE  RowsInv'
<1> DEFINE w == clerk[c]
<1>1. /\ w \in ClerkStates /\ w.pc = "sync_leg" /\ w.on \in Legs
      /\ leg' = [leg EXCEPT ![w.on] = SyncedRow(w)]
      /\ ~w.new => SyncedRow(w).spare = leg[w.on].spare
      /\ w.new <=> leg[w.on].place = "none"
      /\ UNCHANGED <<plan, crossed, standIn, reopened>>
      BY SyncWriteIs
<1>2. fromRental' = IF ~w.new /\ SyncedRow(w) # leg[w.on]
                       THEN fromRental \cup {w.on} ELSE fromRental
      BY DEF SyncWrite
<1>3. leg[w.on] \in LegRows BY <1>1 DEF TransportsTypeOK
<1>4. CASE ~w.new
  <2>1. SyncedRow(w).place = leg[w.on].place BY <1>3, <1>4 DEF SyncedRow, LegRows
  <2>2. \A t \in Legs :
              /\ leg[t].place = "none" => leg'[t] = leg[t]
              /\ leg[t].place # "none" => leg'[t].place # "none"
              /\ leg'[t].spare = leg[t].spare
              /\ leg'[t].day = leg[t].day \/ t \in fromRental'
        BY <1>1, <1>2, <1>4, <2>1 DEF TransportsTypeOK
  <2>3. fromRental \subseteq fromRental' /\ crossed' \subseteq Legs
        BY <1>1, <1>2 DEF TransportsTypeOK
  <2>. QED BY <1>1, <2>2, <2>3, LinksStay
<1>5. CASE w.new
  <2>1. w.next = [Planned(w.next.day) EXCEPT !.delivery = TRUE, !.wants = w.next.wants]
        BY <1>1 DEF RequestInv, Returned, Syncing
  <2>2. [Planned(w.next.day) EXCEPT !.delivery = TRUE, !.wants = w.next.wants].spare = 0
        /\ [Planned(w.next.day) EXCEPT !.delivery = TRUE, !.wants = w.next.wants].place = "table"
        BY DEF Planned
  <2>3. w.next.spare = 0 /\ w.next.place = "table" /\ w.next \in LegRows
        BY <1>1, <2>1, <2>2 DEF ClerkStates
  <2>4. \/ SyncedRow(w) = leg[w.on]
        \/ SyncedRow(w).spare = 0 /\ SyncedRow(w).place = "table"
        BY <1>5, <2>3 DEF SyncedRow, LegRows
  <2>5. \A t \in Legs \ {w.on} : leg'[t] = leg[t] BY <1>1 DEF TransportsTypeOK
  <2>6. \/ leg'[w.on] = leg[w.on]
        \/ leg'[w.on].spare = 0 /\ leg'[w.on].place = "table"
        BY <1>1, <2>4 DEF TransportsTypeOK
  <2>7. fromRental' = fromRental BY <1>2, <1>5
  <2>8. Legs' = Legs /\ Spares' = Spares BY <1>1 DEF Legs, Spares
  <2>9. ASSUME NEW t \in Legs PROVE LegInv(t)'
    <3>1. LegInv(t) BY DEF RowsInv
    <3>. QED BY <1>1, <2>5, <2>6, <2>7, <2>8, <3>1 DEF LegInv
  <2>10. ASSUME NEW i \in Spares PROVE SpareInv(i)'
    <3>1. SpareInv(i) BY DEF RowsInv
    <3>. QED BY <1>1, <1>5, <2>5, <2>8, <3>1 DEF SpareInv
  <2>. QED BY <2>8, <2>9, <2>10 DEF RowsInv
<1>. QED BY <1>4, <1>5

LEMMA DropsLink ==
    ASSUME TransportsTypeOK, \A e \in Clerks : RequestInv(e), RowsInv,
           NEW c \in Clerks, DropSpare(c) \/ DropLeg(c) \/ Restore(c)
    PROVE  RowsInv'
<1> DEFINE w == clerk[c]
<1>1. /\ w \in ClerkStates /\ w.on \in Legs /\ w.spare \in Spares \cup {0}
      /\ leg[w.on].place # "none" /\ leg[w.on] \in LegRows
      /\ w.pc = "drop_spare" => w.spare # 0
      /\ w.spare # 0 => standIn[w.spare].status # "none" /\ standIn[w.spare] \in StandInRows
      /\ UNCHANGED <<plan, crossed, fromRental>>
      BY DEF DropSpare, DropLeg, Restore, TransportsTypeOK, RequestInv, Placed, OwnSpare,
             RentalAside
<1>2. \A t \in Legs :
         /\ leg[t].place = "none" => leg'[t] = leg[t]
         /\ leg[t].place # "none" => leg'[t].place # "none"
         /\ leg'[t].spare = leg[t].spare /\ leg'[t].day = leg[t].day
  <2>1. CASE DropSpare(c) BY <2>1 DEF DropSpare
  <2>2. CASE DropLeg(c)
        BY <1>1, <2>2 DEF DropLeg, TransportsTypeOK, LegRows
  <2>3. CASE Restore(c)
        BY <1>1, <2>3 DEF Restore, TransportsTypeOK, LegRows
  <2>. QED BY <2>1, <2>2, <2>3
<1>3. \A i \in Spares :
         /\ standIn[i].status = "none" => standIn'[i] = standIn[i]
         /\ standIn'[i].status \in {standIn[i].status, "cancelled"}
         /\ standIn[i].status # "none" => standIn'[i].status # "none"
         /\ standIn'[i].transport = standIn[i].transport
         /\ standIn'[i].day = standIn[i].day
  <2>1. CASE DropSpare(c)
        BY <1>1, <2>1 DEF DropSpare, TransportsTypeOK, StandInRows
  <2>2. CASE DropLeg(c) BY <2>2 DEF DropLeg, SparesAside
  <2>3. CASE Restore(c)
        BY <1>1, <2>3 DEF Restore, TransportsTypeOK, StandInRows
  <2>. QED BY <2>1, <2>2, <2>3
<1>4. reopened' \subseteq reopened \cup {w.on}
      BY DEF DropSpare, DropLeg, Restore, SparesAside
<1>5. crossed' \subseteq Legs BY <1>1 DEF TransportsTypeOK
<1>. QED BY <1>1, <1>2, <1>3, <1>4, <1>5, LinksStay

LEMMA RentalOffIs ==
    ASSUME TransportsTypeOK, NEW live, RentalOff(live), NEW t \in Legs
    PROVE  /\ leg'[t].place = leg[t].place /\ leg'[t].spare = leg[t].spare
           /\ leg'[t].day = leg[t].day /\ leg'[t].delivery = leg[t].delivery
           /\ \/ leg'[t] = leg[t]
              \/ /\ t \in DeliveryLegs /\ t \in fromRental' /\ leg'[t].status = "cancelled"
                 /\ leg[t].status \in Underway
                 /\ Busy(t) => t \in crossed'
           /\ leg'[t].status \in Underway => leg'[t] = leg[t] /\ t \notin DeliveryLegs
<1>1. leg[t] \in LegRows BY DEF TransportsTypeOK
<1>2. leg'[t] = IF t \in DeliveryLegs /\ leg[t].status \in Underway
                THEN [leg[t] EXCEPT !.status = "cancelled"] ELSE leg[t]
      BY DEF RentalOff
<1>3. t \in DeliveryLegs /\ leg[t].status \in Underway =>
         t \in fromRental' /\ (Busy(t) => t \in crossed')
      BY DEF RentalOff
<1>. QED BY <1>1, <1>2, <1>3 DEF LegRows, Underway

LEMMA RentalOffLinks ==
    ASSUME TransportsTypeOK, RowsInv, NEW live, RentalOff(live)
    PROVE  RowsInv'
<1>1. /\ UNCHANGED <<plan, standIn, reopened>> /\ crossed \subseteq crossed'
      /\ fromRental \subseteq fromRental' /\ crossed' \subseteq Legs
      BY DEF RentalOff, SparesAside, DeliveryLegs, TransportsTypeOK
<1>2. \A t \in Legs :
         /\ leg[t].place = "none" => leg'[t] = leg[t]
         /\ leg[t].place # "none" => leg'[t].place # "none"
         /\ leg'[t].spare = leg[t].spare /\ leg'[t].day = leg[t].day
      BY RentalOffIs DEF DeliveryLegs
<1>. QED BY <1>1, <1>2, LinksStay

LEMMA HandOverLinks ==
    ASSUME TransportsTypeOK, RowsInv, NEW i \in Spares, HandOver(i)
    PROVE  RowsInv'
<1>1. UNCHANGED <<plan, leg, crossed, fromRental, reopened>> /\ crossed' \subseteq Legs
      BY DEF HandOver, RentalAside, TransportsTypeOK
<1>2. \A k \in Spares :
              /\ standIn[k].status = "none" => standIn'[k] = standIn[k]
              /\ standIn[k].status # "none" => standIn'[k].status # "none"
              /\ standIn'[k].transport = standIn[k].transport
              /\ standIn'[k].day = standIn[k].day
              /\ standIn'[k].status = "booked" => standIn[k].status = "booked"
      BY HandOverIs
<1>. QED BY <1>1, <1>2, LinksStay

LEMMA RowsStep ==
    ASSUME TransportsTypeOK, \A e \in Clerks : RequestInv(e), RowsInv,
           [TransportsNext]_transportVars
    PROVE  RowsInv'
<1>1. ASSUME UNCHANGED transportVars PROVE RowsInv'
      BY <1>1, RowsStay DEF transportVars
<1>2. ASSUME NEW c \in Clerks, NEW t \in Legs, NEW wants \in BOOLEAN,
             NEW car \in Loaners \cup {NoLoaner}, NEW day \in Dates,
             BeginPlan(c, t, wants, car, day)
      PROVE  RowsInv'
      BY <1>2, RowsStay DEF BeginPlan, TakeOn, SparesAside, RentalAside
<1>3. ASSUME NEW c \in Clerks, NEW t \in Legs, NEW column, NEW next,
             BeginUpdate(c, t, column, next)
      PROVE  RowsInv'
      BY <1>3, RowsStay DEF BeginUpdate, TakeOn, SparesAside, RentalAside
<1>4. ASSUME NEW c \in Clerks, NEW t \in Legs, BeginDelete(c, t) PROVE RowsInv'
      BY <1>4, RowsStay DEF BeginDelete, TakeOn, SparesAside, RentalAside
<1>5. ASSUME NEW c \in Clerks, NEW t \in Legs, BeginRestore(c, t) PROVE RowsInv'
      BY <1>5, RowsStay DEF BeginRestore, TakeOn, SparesAside, RentalAside
<1>6. ASSUME NEW c \in Clerks, NEW t \in Legs, SyncRead(c, t) PROVE RowsInv'
      BY <1>6, RowsStay DEF SyncRead, SparesAside, RentalAside
<1>7. ASSUME NEW c \in Clerks, NEW wants \in BOOLEAN, NEW day \in Dates,
             EditRental(c, wants, day)
      PROVE  RowsInv'
      BY <1>7, RowsStay DEF EditRental, SparesAside
<1>8. ASSUME NEW c \in Clerks, Judge(c) PROVE RowsInv'
      BY <1>8, RowsStay DEF Judge, SparesAside, RentalAside
<1>. QED BY <1>1, <1>2, <1>3, <1>4, <1>5, <1>6, <1>7, <1>8, CommitLinks, DropsLink,
            SyncWriteLinks, RentalOffLinks, HandOverLinks DEF TransportsNext

LEMMA RequestsStep ==
    ASSUME TransportsTypeOK, \A e \in Clerks : RequestInv(e), RowsInv,
           [TransportsNext]_transportVars
    PROVE  \A e \in Clerks : RequestInv(e)'
<1>1. ASSUME UNCHANGED transportVars PROVE \A e \in Clerks : RequestInv(e)'
  <2> SUFFICES ASSUME NEW e \in Clerks PROVE RequestInv(e)'
      OBVIOUS
  <2>1. clerk[e].spare # 0 => standIn[clerk[e].spare].status # "none"
        BY DEF RequestInv, OwnSpare
  <2>. QED BY <1>1, <2>1, OthersStay DEF transportVars
<1>. QED BY <1>1, PlanSound, UpdateSound, DeleteSound, RestoreBegunSound, SyncReadSound,
            EditSound, JudgeSound, CommitSound, DropsSound, SyncWriteSound,
            RentalOffSound, HandOverSound DEF TransportsNext

LEMMA TypeStep ==
    ASSUME TransportsTypeOK, \A e \in Clerks : RequestInv(e),
           [TransportsNext]_transportVars
    PROVE  TransportsTypeOK'
<1>1. ASSUME UNCHANGED transportVars PROVE TransportsTypeOK'
      BY <1>1 DEF transportVars, TransportsTypeOK, Legs, Spares
<1>. QED BY <1>1, BeginsTyped, UpdatesTyped, DeletesTyped, RestoresTyped, SyncReadTyped,
            EditTyped, JudgeTyped, CommitTyped, DropsTyped, SyncWriteTyped,
            RentalOffTyped, HandOverTyped DEF TransportsNext

LEMMA InitSound ==
    ASSUME TransportsInit
    PROVE  TransportsTypeOK /\ (\A c \in Clerks : RequestInv(c)) /\ RowsInv
<1>1. /\ ClerkIdle \in ClerkStates /\ ClerkIdle.pc = "idle" /\ ClerkIdle.on = 0
      /\ ClerkIdle.spare = 0 /\ ~ClerkIdle.new
      BY IdleTyped DEF ClerkIdle
<1>2. NoLeg \in LegRows /\ NoLeg.spare = 0 /\ NoLeg.place = "none"
      BY SomeDayTyped, PlannedTyped DEF NoLeg, Planned, LegRows
<1>3. NoBooking.status = "none" BY DEF NoBooking
<1>4. TransportsTypeOK
      BY <1>1, <1>2, NoBookingTyped, SomeDayTyped DEF TransportsInit, TransportsTypeOK
<1>5. ASSUME NEW c \in Clerks PROVE RequestInv(c)
      BY <1>1 DEF TransportsInit, RequestInv, Placed, Read, Drafted, Decided, Returned,
                  Syncing, OwnSpare
<1>6. RowsInv BY <1>2, <1>3 DEF TransportsInit, RowsInv, LegInv, SpareInv
<1>. QED BY <1>4, <1>5, <1>6

-----------------------------------------------------------------------------
(* What was judged under the lock of a car stays true until the COMMIT.    *)
LEMMA HeldCarTyped ==
    ASSUME TransportsTypeOK, NEW w \in ClerkStates, w.spare \in Spares \cup {0}
    PROVE  HeldCar(w) \in Loaners \cup {NoLoaner} /\ CarOf(w) \in Loaners \cup {NoLoaner}
<1>1. w.next.car \in Loaners \cup {NoLoaner} BY DEF ClerkStates, LegRows
<1>2. w.spare # 0 => standIn[w.spare].car \in Loaners \cup {NoLoaner}
      BY DEF TransportsTypeOK, StandInRows
<1>3. Booked(w.spare) => w.spare # 0 BY DEF Booked
<1>. QED BY <1>1, <1>2, <1>3 DEF HeldCar, CarOf

LEMMA HeldStays ==
    ASSUME TransportsTypeOK, NEW e \in Clerks, RequestInv(e), Held(e),
           clerk'[e] = clerk[e], plan' = plan, Loose \subseteq Loose',
           \A k \in Loaners : loanerLock[k] = e => loanerLock'[k] = e,
           clerk[e].spare # 0 /\ clerk[e].on \notin Loose' =>
               standIn'[clerk[e].spare].car = standIn[clerk[e].spare].car,
           \A i \in Spares : StandInLive(i)' =>
               \/ standIn'[i].transport \in Loose'
               \/ /\ StandInLive(i) /\ standIn'[i].car = standIn[i].car
                  /\ standIn'[i].day = standIn[i].day
                  /\ standIn'[i].transport = standIn[i].transport
               \/ standIn'[i].car = NoLoaner
               \/ standIn'[i].car \in Loaners /\ loanerLock[standIn'[i].car] # e
    PROVE  Held(e)'
<1> DEFINE w == clerk[e]
<1>1. w \in ClerkStates /\ w.spare \in Spares \cup {0}
      BY DEF TransportsTypeOK, RequestInv, OwnSpare
<1>2. SUFFICES ASSUME w.pc = "commit", w.on \notin Loose', HeldCar(w)' # NoLoaner
               PROVE  /\ loanerLock'[HeldCar(w)'] = e
                      /\ \A i \in Spares \ {w.spare} :
                            /\ StandInLive(i)' /\ standIn'[i].car = HeldCar(w)'
                            /\ standIn'[i].day \in Judged(w)
                            => standIn'[i].transport \in Loose'
      BY DEF Held, Spares, Judged, Arrange, Reassign, Shift, Closing
<1>3. HeldCar(w)' = HeldCar(w)
      BY <1>2 DEF HeldCar, Arrange, Reassign, Shift, TurnOff, Closing
<1>4. HeldCar(w) \in Loaners BY <1>1, <1>2, <1>3, HeldCarTyped
<1>5. /\ loanerLock[HeldCar(w)] = e
      /\ \A i \in Spares \ {w.spare} :
                /\ StandInLive(i) /\ standIn[i].car = HeldCar(w) /\ standIn[i].day \in Judged(w)
                => standIn[i].transport \in Loose
      BY <1>2, <1>3, <1>4, TransportsAssumption DEF Held
<1>6. HeldCar(w) # NoLoaner BY <1>4, TransportsAssumption
<1>. QED BY <1>3, <1>4, <1>5, <1>6

(* A step that books nothing keeps what was judged, and the cars apart.    *)
LEMMA LoanersStay ==
    ASSUME TransportsTypeOK, \A e \in Clerks : RequestInv(e), LoanerInv,
           plan' = plan, crossed \subseteq crossed', reopened \subseteq reopened',
           fromRental \subseteq fromRental',
           \A e \in Clerks : clerk'[e].pc = "commit" =>
               /\ clerk'[e] = clerk[e]
               /\ \A k \in Loaners : loanerLock[k] = e => loanerLock'[k] = e,
           \A i \in Spares : standIn'[i].car = standIn[i].car,
           \A i \in Spares : StandInLive(i)' =>
               /\ standIn'[i].day = standIn[i].day
               /\ standIn'[i].transport = standIn[i].transport
               /\ StandInLive(i) \/ standIn'[i].transport \in Loose'
    PROVE  LoanerInv'
<1>1. Loose \subseteq Loose' /\ Spares' = Spares BY DEF Loose, Spares
<1>2. ASSUME NEW e \in Clerks PROVE Held(e)'
  <2>1. CASE clerk'[e].pc # "commit" BY <2>1 DEF Held
  <2>2. CASE clerk'[e].pc = "commit"
    <3>1. clerk[e].spare # 0 => clerk[e].spare \in Spares BY DEF RequestInv, OwnSpare
    <3>2. Held(e) BY DEF LoanerInv
    <3>3. /\ clerk'[e] = clerk[e]
          /\ \A k \in Loaners : loanerLock[k] = e => loanerLock'[k] = e
          BY <2>2
    <3>. QED BY <1>1, <3>1, <3>2, <3>3, HeldStays
  <2>. QED BY <2>1, <2>2
<1>3. NoLoanerTwice'
  <2> SUFFICES ASSUME NEW i \in Spares, NEW k \in Spares, i # k, StandInLive(i)',
                      StandInLive(k)', standIn'[i].car # NoLoaner,
                      standIn'[i].car = standIn'[k].car, standIn'[i].day = standIn'[k].day
               PROVE  \E t \in Loose' : t \in {standIn'[i].transport, standIn'[k].transport}
      BY <1>1 DEF NoLoanerTwice, Loose
  <2>1. CASE StandInLive(i) /\ StandInLive(k)
        BY <1>1, <2>1 DEF LoanerInv, NoLoanerTwice, Loose
  <2>2. CASE ~(StandInLive(i) /\ StandInLive(k)) BY <2>2
  <2>. QED BY <2>1, <2>2
<1>. QED BY <1>2, <1>3 DEF LoanerInv

(* What COMMIT writes was judged: the car it locked, on a judged day.      *)
LEMMA WrittenIsJudged ==
    ASSUME TransportsTypeOK, NEW c \in Clerks, RequestInv(c), RowsInv, Commit(c),
           clerk[c].on \notin Loose, NEW i \in Spares, standIn'[i] # standIn[i],
           StandInLive(i)'
    PROVE  LET w == clerk[c]
           IN /\ standIn'[i].transport = w.on
              /\ \/ /\ StandInLive(i) /\ standIn'[i].car = standIn[i].car
                    /\ standIn'[i].day = standIn[i].day
                    /\ standIn'[i].transport = standIn[i].transport
                 \/ /\ standIn'[i].car = HeldCar(w) /\ standIn'[i].day \in Judged(w)
                    /\ i = w.spare \/ (Arrange(w) /\ i = NewSpare /\ w.spare = 0)
<1> DEFINE w == clerk[c]
<1>1. /\ w \in ClerkStates /\ w.pc = "commit" /\ w.on \in Legs
      /\ w.spare \in Spares \cup {0} /\ (Arrange(w) => w.spare = 0)
      BY CommitIs
<1>2. CASE Arrange(w) /\ i = NewSpare /\ standIn'[i] = Booking(w)
  <2>1. /\ standIn'[i].transport = w.on /\ standIn'[i].car = w.next.car
        /\ standIn'[i].day = w.next.day
        BY <1>2 DEF Booking
  <2>2. HeldCar(w) = w.next.car BY <1>2 DEF HeldCar
  <2>3. w.next.day \in Judged(w) BY <1>2 DEF Judged, Shift
  <2>. QED BY <1>1, <1>2, <2>1, <2>2, <2>3
<1>3. CASE ~Arrange(w) /\ w.spare # 0 /\ i = w.spare /\ standIn'[i] = SpareAfter(w)
  <2>1. ~Dropped(w) BY <1>1, <1>3, SpareAfterIs DEF StandInLive
  <2>2. /\ standIn'[i].transport = standIn[i].transport
        /\ standIn'[i].status = standIn[i].status /\ standIn'[i].deleted = standIn[i].deleted
        /\ standIn'[i].car = IF Reassign(w) THEN w.next.car ELSE standIn[i].car
        /\ standIn'[i].day = IF Shift(w) THEN w.next.day ELSE standIn[i].day
        BY <1>1, <1>3, <2>1, SpareAfterIs
  <2>3. StandInLive(i) BY <2>2 DEF StandInLive
  <2>4. standIn[i].transport = w.on BY <1>3 DEF RequestInv, OwnSpare
  <2>5. CASE ~Reassign(w) /\ ~Shift(w) BY <2>2, <2>3, <2>4, <2>5
  <2>6. CASE Reassign(w)
    <3>1. ~TurnOff(w)
          BY <1>1, <1>3, <2>1, <2>6 DEF RequestInv, Decided, Dropped
    <3>2. HeldCar(w) = w.next.car BY <2>6, <3>1 DEF HeldCar
    <3>3. standIn'[i].day \in Judged(w)
      <4>1. CASE Shift(w) BY <2>2, <4>1 DEF Judged
      <4>2. CASE ~Shift(w)
        <5>1. w.on \notin crossed /\ w.on \notin fromRental BY DEF Loose
        <5>2. ~w.new BY <1>3, CommitMoves
        <5>3. leg[w.on] = w.cur /\ w.spare = w.cur.spare
              BY <5>1, <5>2, CommitMoves
        <5>4. LegInv(w.on) BY <1>1 DEF RowsInv
        <5>5. standIn[i].day = w.cur.day BY <1>3, <5>1, <5>3, <5>4 DEF LegInv
        <5>. QED BY <2>2, <2>6, <4>2, <5>5 DEF Judged
      <4>. QED BY <4>1, <4>2
    <3>. QED BY <1>3, <2>2, <2>4, <2>6, <3>2, <3>3
  <2>7. CASE ~Reassign(w) /\ Shift(w)
    <3>1. HeldCar(w) = standIn[i].car BY <1>3, <2>7 DEF HeldCar
    <3>. QED BY <1>3, <2>2, <2>4, <2>7, <3>1 DEF Judged
  <2>. QED BY <2>5, <2>6, <2>7
<1>. QED BY <1>2, <1>3, CommitWrites

LEMMA CommitKeepsLoaners ==
    ASSUME TransportsTypeOK, \A e \in Clerks : RequestInv(e), RowsInv, LoanerInv,
           NEW c \in Clerks, Commit(c)
    PROVE  LoanerInv'
<1> DEFINE w == clerk[c]
<1>1. /\ w \in ClerkStates /\ w.pc = "commit" /\ w.on \in Legs /\ LetGo(c)
      /\ w.spare \in Spares \cup {0}
      /\ UNCHANGED <<plan, crossed, reopened, fromRental>>
      BY CommitIs
<1>2. Loose' = Loose /\ Spares' = Spares BY <1>1 DEF Loose, Spares
<1>3. /\ clerk'[c] = ClerkIdle /\ \A e \in Clerks \ {c} : clerk'[e] = clerk[e]
      BY <1>1, LetGoIs
<1>4. \A e \in Clerks \ {c} : \A k \in Loaners : loanerLock[k] = e => loanerLock'[k] = e
      BY <1>1 DEF LetGo
<1>5. Held(c) BY DEF LoanerInv
<1>6. ASSUME NEW i \in Spares, standIn'[i] # standIn[i], StandInLive(i)',
             standIn'[i].transport \notin Loose
      PROVE  w.on \notin Loose
  <2>1. standIn'[i].transport = w.on
    <3>1. CASE Arrange(w) /\ standIn'[i] = Booking(w) BY <3>1 DEF Booking
    <3>2. CASE w.spare # 0 /\ i = w.spare /\ standIn'[i] = SpareAfter(w)
      <4>1. standIn[i].transport = w.on BY <3>2 DEF RequestInv, OwnSpare
      <4>. QED BY <1>1, <3>2, <4>1, SpareAfterIs
    <3>. QED BY <1>6, <3>1, <3>2, CommitWrites
  <2>. QED BY <1>6, <2>1
<1>7. ASSUME NEW e \in Clerks PROVE Held(e)'
  <2>1. CASE e = c BY <1>3, <2>1 DEF Held, ClerkIdle
  <2>2. CASE e # c
    <3>1. clerk'[e] = clerk[e] BY <1>3, <2>2
    <3>2. ASSUME clerk[e].spare # 0, clerk[e].on \notin Loose
          PROVE  standIn'[clerk[e].spare].car = standIn[clerk[e].spare].car
      <4> DEFINE i == clerk[e].spare
      <4>1. i \in Spares /\ standIn[i].status # "none" /\ standIn[i].transport = clerk[e].on
            BY <3>2 DEF RequestInv, OwnSpare
      <4>2. i # w.spare
        <5>1. SUFFICES ASSUME i = w.spare PROVE FALSE OBVIOUS
        <5>2. clerk[e].on = w.on BY <3>2, <4>1, <5>1 DEF RequestInv, OwnSpare
        <5>3. w.on # 0 BY <1>1, IdsAreNumbers
        <5>4. w.on \in crossed BY <2>2, <5>2, <5>3 DEF RequestInv, Read
        <5>. QED BY <3>2, <5>2, <5>4 DEF Loose
      <4>. QED BY <4>1, <4>2, CommitWrites
    <3>3. ASSUME NEW i \in Spares, StandInLive(i)', standIn'[i].transport \notin Loose
          PROVE  \/ /\ StandInLive(i) /\ standIn'[i].car = standIn[i].car
                    /\ standIn'[i].day = standIn[i].day
                    /\ standIn'[i].transport = standIn[i].transport
                 \/ standIn'[i].car = NoLoaner
                 \/ standIn'[i].car \in Loaners /\ loanerLock[standIn'[i].car] # e
      <4>1. CASE standIn'[i] = standIn[i] BY <3>3, <4>1 DEF StandInLive
      <4>2. CASE standIn'[i] # standIn[i] /\ standIn'[i].car = HeldCar(w)
        <5>1. w.on \notin Loose BY <1>6, <3>3, <4>2
        <5>2. HeldCar(w) \in Loaners \cup {NoLoaner} BY <1>1, HeldCarTyped
        <5>3. HeldCar(w) # NoLoaner => loanerLock[HeldCar(w)] = c
              BY <1>1, <1>5, <5>1 DEF Held
        <5>. QED BY <2>2, <4>2, <5>2, <5>3
      <4>3. CASE standIn'[i] # standIn[i] /\ standIn'[i].car # HeldCar(w)
        <5>1. w.on \notin Loose BY <1>6, <3>3, <4>3
        <5>. QED BY <3>3, <4>3, <5>1, WrittenIsJudged
      <4>. QED BY <4>1, <4>2, <4>3
    <3>4. Held(e) /\ RequestInv(e) BY DEF LoanerInv
    <3>5. \A k \in Loaners : loanerLock[k] = e => loanerLock'[k] = e BY <1>4, <2>2
    <3>. QED BY <1>1, <1>2, <3>1, <3>2, <3>3, <3>4, <3>5, HeldStays
  <2>. QED BY <2>1, <2>2
<1>8. ASSUME NEW i \in Spares, NEW k \in Spares, i # k, StandInLive(i)', StandInLive(k)',
             standIn'[i].car # NoLoaner, standIn'[i].car = standIn'[k].car,
             standIn'[i].day = standIn'[k].day, standIn'[i].transport \notin Loose,
             standIn'[k].transport \notin Loose
      PROVE  FALSE
  <2>1. ASSUME NEW a \in Spares, NEW b \in Spares, a # b, StandInLive(a)', StandInLive(b)',
               standIn'[a].car # NoLoaner, standIn'[a].car = standIn'[b].car,
               standIn'[a].day = standIn'[b].day, standIn'[a].transport \notin Loose,
               standIn'[b].transport \notin Loose,
               standIn'[a].car = HeldCar(w), standIn'[a].day \in Judged(w),
               standIn'[a] # standIn[a],
               a = w.spare \/ (Arrange(w) /\ a = NewSpare /\ w.spare = 0)
        PROVE  FALSE
    <3>1. w.on \notin Loose BY <1>6, <2>1
    <3>2. b # w.spare /\ ~(Arrange(w) /\ b = NewSpare)
      <4>1. Arrange(w) => w.spare = 0 BY DEF Arrange
      <4>2. b # 0 /\ a # 0 BY IdsAreNumbers
      <4>3. CASE a = w.spare BY <2>1, <4>1, <4>2, <4>3
      <4>4. CASE Arrange(w) /\ a = NewSpare /\ w.spare = 0 BY <2>1, <4>2, <4>4
      <4>. QED BY <2>1, <4>3, <4>4
    <3>3. standIn'[b] = standIn[b] BY <3>2, CommitWrites
    <3>4. StandInLive(b) BY <2>1, <3>3 DEF StandInLive
    <3>. QED BY <1>1, <1>5, <2>1, <3>1, <3>2, <3>3, <3>4 DEF Held
  <2>2. ASSUME NEW a \in Spares, StandInLive(a)', standIn'[a].transport \notin Loose
        PROVE  \/ /\ StandInLive(a) /\ standIn'[a].car = standIn[a].car
                  /\ standIn'[a].day = standIn[a].day
                  /\ standIn'[a].transport = standIn[a].transport
               \/ /\ standIn'[a].car = HeldCar(w) /\ standIn'[a].day \in Judged(w)
                  /\ standIn'[a] # standIn[a]
                  /\ a = w.spare \/ (Arrange(w) /\ a = NewSpare /\ w.spare = 0)
    <3>1. CASE standIn'[a] = standIn[a] BY <2>2, <3>1 DEF StandInLive
    <3>2. CASE standIn'[a] # standIn[a]
      <4>1. w.on \notin Loose BY <1>6, <2>2, <3>2
      <4>. QED BY <2>2, <3>2, <4>1, WrittenIsJudged
    <3>. QED BY <3>1, <3>2
  <2>3. CASE /\ standIn'[i].car = HeldCar(w) /\ standIn'[i].day \in Judged(w)
             /\ standIn'[i] # standIn[i]
             /\ i = w.spare \/ (Arrange(w) /\ i = NewSpare /\ w.spare = 0)
        BY <1>8, <2>1, <2>3
  <2>4. CASE /\ standIn'[k].car = HeldCar(w) /\ standIn'[k].day \in Judged(w)
             /\ standIn'[k] # standIn[k]
             /\ k = w.spare \/ (Arrange(w) /\ k = NewSpare /\ w.spare = 0)
        BY <1>8, <2>1, <2>4
  <2>5. CASE /\ StandInLive(i) /\ standIn'[i].car = standIn[i].car
             /\ standIn'[i].day = standIn[i].day
             /\ standIn'[i].transport = standIn[i].transport
             /\ StandInLive(k) /\ standIn'[k].car = standIn[k].car
             /\ standIn'[k].day = standIn[k].day
             /\ standIn'[k].transport = standIn[k].transport
        BY <1>8, <2>5 DEF LoanerInv, NoLoanerTwice, Loose
  <2>. QED BY <1>8, <2>2, <2>3, <2>4, <2>5
<1>9. NoLoanerTwice'
  <2> SUFFICES ASSUME NEW i \in Spares, NEW k \in Spares, i # k, StandInLive(i)',
                      StandInLive(k)', standIn'[i].car # NoLoaner,
                      standIn'[i].car = standIn'[k].car, standIn'[i].day = standIn'[k].day
               PROVE  \E t \in Loose' : t \in {standIn'[i].transport, standIn'[k].transport}
      BY <1>2 DEF NoLoanerTwice, Loose
  <2>. QED BY <1>2, <1>8
<1>. QED BY <1>7, <1>9 DEF LoanerInv

LEMMA JudgeKeepsLoaners ==
    ASSUME TransportsTypeOK, \A e \in Clerks : RequestInv(e), LoanerInv,
           NEW c \in Clerks, Judge(c)
    PROVE  LoanerInv'
<1> DEFINE w == clerk[c]
           car == CarOf(w)
<1>1. /\ w.pc = "judge" /\ w \in ClerkStates /\ w.spare \in Spares \cup {0}
      /\ car # NoLoaner => loanerLock[car] = NoOne
      /\ UNCHANGED <<plan, leg, standIn, crossed, reopened, fromRental>>
      BY DEF Judge, SparesAside, RentalAside, TransportsTypeOK, RequestInv, OwnSpare
<1>2. car \in Loaners \cup {NoLoaner} BY <1>1, HeldCarTyped
<1>3. \A e \in Clerks \ {c} :
         /\ clerk'[e] = clerk[e]
         /\ \A k \in Loaners : loanerLock[k] = e => loanerLock'[k] = e
  <2>1. CASE LetGo(c) BY <2>1, LetGoIs DEF LetGo
  <2>2. CASE ~LetGo(c)
    <3>1. /\ loanerLock' = [k \in Loaners |-> IF k = car THEN c ELSE loanerLock[k]]
          /\ \A e \in Clerks \ {c} : clerk'[e] = clerk[e]
          BY <2>2 DEF Judge, TransportsTypeOK
    <3>. QED BY <1>1, <3>1, TransportsAssumption
  <2>. QED BY <2>1, <2>2
<1>4. Loose' = Loose /\ Spares' = Spares BY <1>1 DEF Loose, Spares
<1>5. ASSUME NEW e \in Clerks PROVE Held(e)'
  <2>1. CASE e # c
    <3>1. Held(e) /\ RequestInv(e) BY DEF LoanerInv
    <3>2. \A i \in Spares : StandInLive(i)' => StandInLive(i)
          BY <1>1 DEF StandInLive
    <3>. QED BY <1>1, <1>3, <1>4, <2>1, <3>1, <3>2, HeldStays
  <2>2. CASE e = c /\ LetGo(c) BY <2>2, LetGoIs DEF Held, ClerkIdle
  <2>3. CASE e = c /\ ~LetGo(c)
    <3>1. /\ ~Refused(w)
          /\ car = NoLoaner \/ \A d \in Judged(w) : FreeOn(car, d, w.spare)
          /\ loanerLock' = [k \in Loaners |-> IF k = car THEN c ELSE loanerLock[k]]
          /\ clerk'[c] = [w EXCEPT !.pc = "commit",
                                   !.verdict = IF Booked(w.spare) THEN "booked" ELSE "none"]
          BY <2>3 DEF Judge, TransportsTypeOK
    <3>2. PICK v \in ClerkStates : v = clerk'[c] /\ v.pc = "commit" /\ v.on = w.on
               /\ v.cur = w.cur /\ v.next = w.next /\ v.sets = w.sets /\ v.spare = w.spare
          BY <1>1, <3>1 DEF ClerkStates
    <3>3. HeldCar(v)' = car
      <4>1. Shift(w) /\ w.spare # 0 => Booked(w.spare) BY <3>1 DEF Refused
      <4>2. Booked(w.spare) => w.spare # 0 BY DEF Booked
      <4>3. (Arrange(w) \/ (Reassign(w) /\ ~TurnOff(w))) <=>
               (Arrange(v) \/ (Reassign(v) /\ ~TurnOff(v)))
            BY <3>2 DEF Arrange, Reassign, TurnOff, Closing
      <4>4. Shift(w) <=> Shift(v) BY <3>2 DEF Shift, Arrange, Closing
      <4>. QED BY <1>1, <3>2, <4>1, <4>2, <4>3, <4>4 DEF HeldCar, CarOf
    <3>4. Judged(v) = Judged(w)
          BY <3>2 DEF Judged, Arrange, Reassign, Shift, Closing
    <3>5. ASSUME car # NoLoaner
          PROVE  /\ loanerLock'[car] = c
                 /\ \A i \in Spares \ {w.spare} :
                       ~(StandInLive(i) /\ standIn[i].car = car /\ standIn[i].day \in Judged(w))
          BY <1>2, <3>1, <3>5 DEF FreeOn
    <3>6. \A i \in Spares : StandInLive(i)' <=> StandInLive(i)
          BY <1>1 DEF StandInLive
    <3>7. HeldCar(clerk[c])' = car
          BY <3>2, <3>3 DEF HeldCar, Arrange, Reassign, TurnOff, Shift, Closing
    <3>8. Judged(clerk[c])' = Judged(w)
          BY <3>2, <3>4 DEF Judged, Arrange, Reassign, Shift, Closing
    <3>9. clerk'[c].spare = w.spare BY <3>2
    <3>. QED BY <1>1, <1>4, <2>3, <3>5, <3>6, <3>7, <3>8, <3>9 DEF Held
  <2>. QED BY <2>1, <2>2, <2>3
<1>6. NoLoanerTwice' BY <1>1, <1>4 DEF LoanerInv, NoLoanerTwice, StandInLive
<1>. QED BY <1>5, <1>6 DEF LoanerInv

(* A request that only begins, reads, edits or goes on books nothing.       *)
LEMMA BeginKeepsLoaners ==
    ASSUME TransportsTypeOK, \A e \in Clerks : RequestInv(e), LoanerInv,
           NEW c \in Clerks, clerk'[c].pc # "commit",
           \A e \in Clerks \ {c} : clerk'[e] = clerk[e],
           UNCHANGED <<plan, standIn, loanerLock, reopened, fromRental>>,
           crossed \subseteq crossed'
    PROVE  LoanerInv'
<1>1. \A i \in Spares : StandInLive(i)' => StandInLive(i) BY DEF StandInLive
<1>. QED BY <1>1, LoanersStay

LEMMA TakeOnKeepsLoaners ==
    ASSUME TransportsTypeOK, \A e \in Clerks : RequestInv(e), LoanerInv,
           NEW c \in Clerks, NEW w, w.pc # "commit", TakeOn(c, w),
           UNCHANGED <<plan, standIn, loanerLock, reopened, fromRental>>
    PROVE  LoanerInv'
<1>1. /\ clerk'[c] = w /\ \A e \in Clerks \ {c} : clerk'[e] = clerk[e]
      /\ crossed \subseteq crossed'
      BY DEF TakeOn, TransportsTypeOK
<1>. QED BY <1>1, BeginKeepsLoaners

LEMMA BeginsKeepLoaners ==
    ASSUME TransportsTypeOK, \A e \in Clerks : RequestInv(e), LoanerInv,
           NEW c \in Clerks, NEW t \in Legs,
           \/ \E wants \in BOOLEAN, car \in Loaners \cup {NoLoaner}, day \in Dates :
                 BeginPlan(c, t, wants, car, day)
           \/ \E column \in {"status", "want", "car", "day"} :
                 \E next \in Sent(t, column) : BeginUpdate(c, t, column, next)
           \/ BeginDelete(c, t) \/ BeginRestore(c, t) \/ SyncRead(c, t)
    PROVE  LoanerInv'
<1>1. ASSUME NEW wants \in BOOLEAN, NEW car \in Loaners \cup {NoLoaner}, NEW day \in Dates,
             BeginPlan(c, t, wants, car, day)
      PROVE  LoanerInv'
  <2> DEFINE w == [ClerkIdle EXCEPT !.pc = "judge", !.on = t, !.cur = Planned(day),
                   !.next = [Planned(day) EXCEPT !.wants = wants, !.car = car],
                   !.sets = {"want", "car"}, !.new = TRUE]
  <2>1. w.pc = "judge" BY DEF ClerkIdle
  <2>2. TakeOn(c, w) /\ UNCHANGED <<plan, standIn, loanerLock, reopened, fromRental>>
        BY <1>1 DEF BeginPlan, SparesAside, RentalAside
  <2> HIDE DEF w
  <2>. QED BY <2>1, <2>2, TakeOnKeepsLoaners
<1>2. ASSUME NEW column, NEW next, BeginUpdate(c, t, column, next)
      PROVE  LoanerInv'
  <2> DEFINE w == [ClerkIdle EXCEPT !.pc = "judge", !.on = t, !.cur = leg[t],
                   !.next = [next EXCEPT !.spare = leg[t].spare], !.sets = {column},
                   !.spare = leg[t].spare]
  <2>1. w.pc = "judge" BY DEF ClerkIdle
  <2>2. TakeOn(c, w) /\ UNCHANGED <<plan, standIn, loanerLock, reopened, fromRental>>
        BY <1>2 DEF BeginUpdate, SparesAside, RentalAside
  <2> HIDE DEF w
  <2>. QED BY <2>1, <2>2, TakeOnKeepsLoaners
<1>3. ASSUME BeginDelete(c, t) PROVE LoanerInv'
  <2>1. PICK pc \in {"drop_spare", "drop"}, v \in {"booked", "none"} :
           TakeOn(c, [ClerkIdle EXCEPT !.pc = pc, !.on = t, !.cur = leg[t],
                        !.spare = leg[t].spare, !.verdict = v])
        BY <1>3 DEF BeginDelete
  <2> DEFINE w == [ClerkIdle EXCEPT !.pc = pc, !.on = t, !.cur = leg[t],
                        !.spare = leg[t].spare, !.verdict = v]
  <2>2. w.pc # "commit" BY DEF ClerkIdle
  <2>3. TakeOn(c, w) /\ UNCHANGED <<plan, standIn, loanerLock, reopened, fromRental>>
        BY <1>3, <2>1 DEF BeginDelete, SparesAside, RentalAside
  <2> HIDE DEF w
  <2>. QED BY <2>2, <2>3, TakeOnKeepsLoaners
<1>4. ASSUME BeginRestore(c, t) PROVE LoanerInv'
  <2>1. PICK i \in {leg[t].spare, 0}, v \in {"free", "taken"} :
           TakeOn(c, [ClerkIdle EXCEPT !.pc = "restore", !.on = t, !.cur = leg[t],
                        !.spare = i, !.verdict = v])
        BY <1>4 DEF BeginRestore
  <2> DEFINE w == [ClerkIdle EXCEPT !.pc = "restore", !.on = t, !.cur = leg[t],
                        !.spare = i, !.verdict = v]
  <2>2. w.pc # "commit" BY DEF ClerkIdle
  <2>3. TakeOn(c, w) /\ UNCHANGED <<plan, standIn, loanerLock, reopened, fromRental>>
        BY <1>4, <2>1 DEF BeginRestore, SparesAside, RentalAside
  <2> HIDE DEF w
  <2>. QED BY <2>2, <2>3, TakeOnKeepsLoaners
<1>5. ASSUME SyncRead(c, t) PROVE LoanerInv'
  <2>1. /\ clerk[c] \in ClerkStates
        /\ clerk' = [clerk EXCEPT ![c] = [clerk[c] EXCEPT !.pc = "sync_leg", !.on = t,
                        !.cur = leg[t], !.new = DeliveryLegs = {}]]
        /\ UNCHANGED <<plan, standIn, loanerLock, reopened, fromRental>>
        /\ crossed \subseteq crossed'
        BY <1>5 DEF SyncRead, SparesAside, RentalAside, TransportsTypeOK
  <2>2. clerk'[c].pc = "sync_leg" BY <2>1 DEF TransportsTypeOK, ClerkStates
  <2>3. \A e \in Clerks \ {c} : clerk'[e] = clerk[e] BY <2>1 DEF TransportsTypeOK
  <2>. QED BY <2>1, <2>2, <2>3, BeginKeepsLoaners
<1>. QED BY <1>1, <1>2, <1>3, <1>4, <1>5

(* A request that lets go frees the locks it holds, and no other.           *)
LEMMA LettingGoKeeps ==
    ASSUME TransportsTypeOK, NEW c \in Clerks, LetGo(c)
    PROVE  \A e \in Clerks : clerk'[e].pc = "commit" =>
               /\ clerk'[e] = clerk[e]
               /\ \A k \in Loaners : loanerLock[k] = e => loanerLock'[k] = e
<1>1. clerk'[c].pc = "idle" /\ \A e \in Clerks \ {c} : clerk'[e] = clerk[e]
      BY LetGoIs DEF ClerkIdle
<1>2. \A e \in Clerks \ {c} : \A k \in Loaners : loanerLock[k] = e => loanerLock'[k] = e
      BY DEF LetGo
<1>. QED BY <1>1, <1>2

(* The bin frees a car, or books it without its lock, which is known.       *)
LEMMA DropsKeepLoaners ==
    ASSUME TransportsTypeOK, \A e \in Clerks : RequestInv(e), LoanerInv,
           NEW c \in Clerks, DropSpare(c) \/ DropLeg(c) \/ Restore(c)
    PROVE  LoanerInv'
<1> DEFINE w == clerk[c]
<1>1. /\ w \in ClerkStates /\ w.spare \in Spares \cup {0} /\ w.on \in Legs
      /\ w.pc = "drop_spare" => w.spare # 0
      /\ w.spare # 0 => standIn[w.spare] \in StandInRows
                        /\ standIn[w.spare].transport = w.on
      /\ UNCHANGED <<plan, crossed, fromRental>>
      BY DEF DropSpare, DropLeg, Restore, TransportsTypeOK, RequestInv, Placed, OwnSpare,
             RentalAside
<1>2. CASE DropSpare(c)
  <2>1. /\ w.spare \in Spares /\ UNCHANGED <<loanerLock, reopened>>
        /\ standIn' = [standIn EXCEPT ![w.spare] = [standIn[w.spare] EXCEPT !.deleted = TRUE]]
        /\ clerk' = [clerk EXCEPT ![c] = [w EXCEPT !.pc = "drop"]]
        BY <1>1, <1>2 DEF DropSpare, TransportsTypeOK
  <2>2. clerk'[c].pc = "drop" /\ \A e \in Clerks \ {c} : clerk'[e] = clerk[e]
        BY <1>1, <2>1 DEF TransportsTypeOK, ClerkStates
  <2>3. \A i \in Spares : standIn'[i] = standIn[i]
                          \/ /\ standIn'[i].deleted /\ standIn'[i].car = standIn[i].car
        BY <1>1, <2>1 DEF TransportsTypeOK, StandInRows
  <2>4. \A i \in Spares : StandInLive(i)' => StandInLive(i) /\ standIn'[i] = standIn[i]
        BY <2>3 DEF StandInLive
  <2>5. \A i \in Spares : standIn'[i].car = standIn[i].car BY <2>3
  <2>. QED BY <1>1, <2>1, <2>2, <2>4, <2>5, LoanersStay
<1>3. CASE DropLeg(c)
  <2>1. LetGo(c) /\ UNCHANGED <<standIn, reopened>> BY <1>3 DEF DropLeg, SparesAside
  <2>2. \A i \in Spares : StandInLive(i)' => StandInLive(i)
        BY <2>1 DEF StandInLive
  <2>. QED BY <1>1, <2>1, <2>2, LettingGoKeeps, LoanersStay
<1>4. CASE Restore(c)
  <2>1. LetGo(c) /\ reopened' = reopened \cup {w.on} BY <1>4 DEF Restore
  <2>2. \A i \in Spares :
           /\ standIn'[i].car = standIn[i].car /\ standIn'[i].day = standIn[i].day
           /\ standIn'[i].transport = standIn[i].transport
           /\ \/ standIn'[i] = standIn[i] \/ standIn'[i].status = "cancelled"
              \/ i = w.spare /\ standIn[i].transport = w.on
    <3>1. CASE w.spare = 0 BY <1>4, <3>1 DEF Restore
    <3>2. CASE w.spare # 0 /\ w.verdict = "free"
      <4>1. standIn' = [standIn EXCEPT ![w.spare] = [standIn[w.spare] EXCEPT !.deleted = FALSE]]
            BY <1>1, <1>4, <3>2 DEF Restore, TransportsTypeOK
      <4>. QED BY <1>1, <3>2, <4>1 DEF TransportsTypeOK, StandInRows
    <3>3. CASE w.spare # 0 /\ w.verdict # "free"
      <4>1. standIn' = [standIn EXCEPT ![w.spare] = [standIn[w.spare] EXCEPT !.status = "cancelled"]]
            BY <1>1, <1>4, <3>3 DEF Restore, TransportsTypeOK
      <4>. QED BY <1>1, <3>3, <4>1 DEF TransportsTypeOK, StandInRows
    <3>. QED BY <3>1, <3>2, <3>3
  <2>3. \A i \in Spares : StandInLive(i)' =>
               StandInLive(i) \/ standIn'[i].transport \in Loose'
        BY <2>1, <2>2 DEF StandInLive, Loose
  <2>. QED BY <1>1, <2>1, <2>2, <2>3, LettingGoKeeps, LoanersStay
<1>. QED BY <1>2, <1>3, <1>4

LEMMA LoanersStep ==
    ASSUME TransportsTypeOK, \A e \in Clerks : RequestInv(e), RowsInv, LoanerInv,
           [TransportsNext]_transportVars
    PROVE  LoanerInv'
<1>1. ASSUME UNCHANGED <<plan, clerk, loanerLock, standIn, reopened>>,
             crossed \subseteq crossed', fromRental \subseteq fromRental'
      PROVE  LoanerInv'
  <2>1. \A i \in Spares : StandInLive(i)' => StandInLive(i) BY <1>1 DEF StandInLive
  <2>. QED BY <1>1, <2>1, LoanersStay
<1>2. ASSUME UNCHANGED transportVars PROVE LoanerInv'
      BY <1>1, <1>2 DEF transportVars
<1>3. ASSUME NEW live, RentalOff(live) PROVE LoanerInv'
      BY <1>1, <1>3 DEF RentalOff, SparesAside
<1>4. ASSUME NEW c \in Clerks, SyncWrite(c) PROVE LoanerInv'
  <2>1. LetGo(c) /\ UNCHANGED <<plan, crossed, standIn, reopened>>
        /\ fromRental \subseteq fromRental'
        BY <1>4, SyncWriteIs DEF SyncWrite
  <2>2. \A i \in Spares : StandInLive(i)' => StandInLive(i) BY <2>1 DEF StandInLive
  <2>. QED BY <2>1, <2>2, LettingGoKeeps, LoanersStay
<1>5. ASSUME NEW i \in Spares, HandOver(i) PROVE LoanerInv'
  <2>1. UNCHANGED <<plan, clerk, loanerLock, crossed, reopened, fromRental>>
        BY <1>5 DEF HandOver, RentalAside
  <2>2. \A k \in Spares :
           /\ standIn'[k].car = standIn[k].car /\ standIn'[k].day = standIn[k].day
           /\ standIn'[k].transport = standIn[k].transport
           /\ StandInLive(k)' => StandInLive(k)
        BY <1>5, HandOverIs DEF StandInLive
  <2>. QED BY <2>1, <2>2, LoanersStay
<1>6. ASSUME NEW c \in Clerks, NEW wants \in BOOLEAN, NEW day \in Dates,
             EditRental(c, wants, day)
      PROVE  LoanerInv'
  <2>1. /\ clerk'[c] = [ClerkIdle EXCEPT !.pc = "sync",
                   !.next = [Planned(day) EXCEPT !.delivery = TRUE, !.wants = wants]]
        /\ \A e \in Clerks \ {c} : clerk'[e] = clerk[e]
        /\ UNCHANGED <<plan, standIn, loanerLock, reopened, fromRental, crossed>>
        BY <1>6 DEF EditRental, SparesAside, TransportsTypeOK
  <2>2. clerk'[c].pc = "sync" BY <2>1 DEF ClerkIdle
  <2>. QED BY <2>1, <2>2, BeginKeepsLoaners
<1>. QED BY <1>2, <1>3, <1>4, <1>5, <1>6, BeginsKeepLoaners, CommitKeepsLoaners,
            JudgeKeepsLoaners, DropsKeepLoaners DEF TransportsNext

-----------------------------------------------------------------------------
(* The steps that leave the transports alone, and what they may mark.       *)
LEMMA QuietSteps ==
    ASSUME [TransportsNext]_transportVars,
           ~(\E c \in Clerks : Commit(c) \/ DropLeg(c) \/ Restore(c) \/ SyncWrite(c)),
           ~(\E live \in BOOLEAN : RentalOff(live))
    PROVE  leg' = leg /\ reopened' = reopened /\ (synced => synced')
<1>1. ASSUME NEW c \in Clerks, Judge(c) \/ DropSpare(c)
      PROVE  leg' = leg /\ reopened' = reopened /\ synced' = synced
      BY <1>1 DEF Judge, DropSpare, SparesAside, RentalAside
<1>2. ASSUME NEW c \in Clerks, NEW t \in Legs, NEW wants, NEW car, NEW day,
             BeginPlan(c, t, wants, car, day)
      PROVE  leg' = leg /\ reopened' = reopened /\ synced' = synced
      BY <1>2 DEF BeginPlan, SparesAside, RentalAside
<1>3. ASSUME NEW c \in Clerks, NEW t \in Legs, NEW column, NEW next,
             BeginUpdate(c, t, column, next)
      PROVE  leg' = leg /\ reopened' = reopened /\ synced' = synced
      BY <1>3 DEF BeginUpdate, SparesAside, RentalAside
<1>4. ASSUME NEW c \in Clerks, NEW t \in Legs, BeginDelete(c, t)
      PROVE  leg' = leg /\ reopened' = reopened /\ synced' = synced
      BY <1>4 DEF BeginDelete, SparesAside, RentalAside
<1>5. ASSUME NEW c \in Clerks, NEW t \in Legs, BeginRestore(c, t)
      PROVE  leg' = leg /\ reopened' = reopened /\ synced' = synced
      BY <1>5 DEF BeginRestore, SparesAside, RentalAside
<1>6. ASSUME NEW c \in Clerks, NEW t \in Legs, SyncRead(c, t)
      PROVE  leg' = leg /\ reopened' = reopened /\ synced' = synced
      BY <1>6 DEF SyncRead, SparesAside, RentalAside
<1>7. ASSUME NEW c \in Clerks, NEW wants, NEW day, EditRental(c, wants, day)
      PROVE  leg' = leg /\ reopened' = reopened /\ (synced => synced')
      BY <1>7 DEF EditRental, SparesAside
<1>8. ASSUME NEW i \in Spares, HandOver(i)
      PROVE  leg' = leg /\ reopened' = reopened /\ synced' = synced
      BY <1>8 DEF HandOver, RentalAside
<1>9. ASSUME UNCHANGED transportVars
      PROVE  leg' = leg /\ reopened' = reopened /\ synced' = synced
      BY <1>9 DEF transportVars
<1>. QED BY <1>1, <1>2, <1>3, <1>4, <1>5, <1>6, <1>7, <1>8, <1>9 DEF TransportsNext

(* The delivery and its rental.  A row on record never becomes, or stops   *)
(* being, a delivery.                                                      *)
LEMMA DeliveryStays ==
    ASSUME TransportsTypeOK, \A e \in Clerks : RequestInv(e),
           [TransportsNext]_transportVars, NEW t \in Legs, leg[t].place # "none"
    PROVE  leg'[t].delivery = leg[t].delivery
<1>1. ASSUME leg' = leg PROVE leg'[t].delivery = leg[t].delivery BY <1>1
<1>2. ASSUME NEW c \in Clerks, Commit(c) PROVE leg'[t].delivery = leg[t].delivery
  <2>1. Placed(c) /\ clerk[c].pc = "commit" BY <1>2 DEF RequestInv, Commit
  <2>2. CASE t # clerk[c].on BY <1>2, <2>2, CommitMoves
  <2>3. CASE t = clerk[c].on
    <3>1. ~clerk[c].new BY <2>1, <2>3 DEF Placed
    <3>. QED BY <1>2, <2>3, <3>1, CommitMoves
  <2>. QED BY <2>2, <2>3
<1>3. ASSUME NEW c \in Clerks, DropLeg(c) \/ Restore(c)
      PROVE  leg'[t].delivery = leg[t].delivery
      BY <1>3 DEF DropLeg, Restore, TransportsTypeOK, LegRows
<1>4. ASSUME NEW c \in Clerks, SyncWrite(c) PROVE leg'[t].delivery = leg[t].delivery
  <2>1. /\ leg' = [leg EXCEPT ![clerk[c].on] = SyncedRow(clerk[c])]
        /\ clerk[c].new <=> leg[clerk[c].on].place = "none"
        BY <1>4, SyncWriteIs
  <2>2. leg[t] \in LegRows BY DEF TransportsTypeOK
  <2>3. t = clerk[c].on => SyncedRow(clerk[c]).delivery = leg[t].delivery
        BY <2>1, <2>2 DEF SyncedRow, LegRows
  <2>. QED BY <2>1, <2>3 DEF TransportsTypeOK
<1>5. ASSUME NEW live, RentalOff(live) PROVE leg'[t].delivery = leg[t].delivery
      BY <1>5, RentalOffIs
<1>. QED BY <1>1, <1>2, <1>3, <1>4, <1>5, QuietSteps

LEMMA AdriftStays ==
    ASSUME TransportsTypeOK, \A e \in Clerks : RequestInv(e), RowsInv,
           [TransportsNext]_transportVars, Adrift
    PROVE  Adrift'
<1>1. (synced => synced') /\ reopened \subseteq reopened'
  <2>1. ASSUME NEW c \in Clerks, Commit(c) \/ Restore(c)
        PROVE  synced' = synced /\ reopened \subseteq reopened'
        BY <2>1 DEF Commit, Restore, RentalAside
  <2>2. ASSUME NEW c \in Clerks, DropLeg(c) \/ SyncWrite(c)
        PROVE  synced' = synced /\ reopened' = reopened
        BY <2>2 DEF DropLeg, SyncWrite, SparesAside, RentalAside
  <2>3. ASSUME NEW live, RentalOff(live)
        PROVE  (synced => synced') /\ reopened' = reopened
        BY <2>3 DEF RentalOff, SparesAside
  <2>. QED BY <2>1, <2>2, <2>3, QuietSteps
<1>3. ASSUME NEW t \in reopened, leg[t].delivery PROVE t \in reopened' /\ leg'[t].delivery
  <2>1. t \in Legs /\ leg[t].place # "none" BY DEF TransportsTypeOK, RowsInv, LegInv
  <2>. QED BY <1>1, <1>3, <2>1, DeliveryStays
<1>. QED BY <1>1, <1>3 DEF Adrift

(* A step that moves no sync keeps the delivery with its rental when it     *)
(* neither makes nor reopens one.                                          *)
LEMMA FollowedStays ==
    ASSUME Followed, plan' = plan, hire' = hire, crossed \subseteq crossed',
           \A e \in Clerks : Syncing(e) \/ Syncing(e)' => clerk'[e] = clerk[e],
           \A t \in Legs : leg'[t].place = "table" /\ leg'[t].delivery =>
               /\ leg[t].place = "table" /\ leg[t].delivery
               /\ leg'[t].status \in Underway /\ t \notin crossed' =>
                     leg[t].status \in Underway
    PROVE  Followed'
<1>1. \A e \in Clerks : Syncing(e)' <=> Syncing(e) BY DEF Syncing
<1>2. DeliveryLegs' \subseteq DeliveryLegs BY DEF DeliveryLegs, Legs
<1>3. \A e \in Clerks : (clerk[e].pc = "sync_leg")' =>
         clerk[e].pc = "sync_leg" /\ clerk'[e] = clerk[e]
      BY DEF Syncing
<1>4. \A t \in DeliveryLegs' :
         leg'[t].status \in Underway /\ t \notin crossed' =>
            leg[t].status \in Underway /\ t \notin crossed
      BY DEF DeliveryLegs, Legs
<1>. QED BY <1>1, <1>2, <1>3, <1>4 DEF Followed, Alone

LEMMA LegsAloneFollowed ==
    ASSUME Followed, UNCHANGED <<plan, hire, leg>>, crossed \subseteq crossed',
           \A e \in Clerks : Syncing(e) \/ Syncing(e)' => clerk'[e] = clerk[e]
    PROVE  Followed'
BY FollowedStays

(* A request that lets go after anything but a sync moves no sync.          *)
LEMMA LettingGoSyncs ==
    ASSUME TransportsTypeOK, NEW c \in Clerks, LetGo(c), ~Syncing(c)
    PROVE  \A e \in Clerks : Syncing(e) \/ Syncing(e)' => clerk'[e] = clerk[e]
<1>1. clerk'[c].pc = "idle" /\ \A e \in Clerks \ {c} : clerk'[e] = clerk[e]
      BY LetGoIs DEF ClerkIdle
<1>. QED BY <1>1 DEF Syncing

LEMMA TakeOnFollowed ==
    ASSUME TransportsTypeOK, Followed, NEW c \in Clerks, NEW w,
           w.pc \notin {"sync", "sync_leg"}, TakeOn(c, w), UNCHANGED <<plan, hire, leg>>
    PROVE  Followed'
<1>1. /\ clerk[c].pc = "idle" /\ clerk'[c] = w
      /\ \A e \in Clerks \ {c} : clerk'[e] = clerk[e] /\ crossed \subseteq crossed'
      BY DEF TakeOn, TransportsTypeOK
<1>2. \A e \in Clerks : Syncing(e) \/ Syncing(e)' => clerk'[e] = clerk[e]
      BY <1>1 DEF Syncing
<1>3. crossed \subseteq crossed' BY DEF TakeOn
<1>. QED BY <1>2, <1>3, LegsAloneFollowed

LEMMA BeginsFollowed ==
    ASSUME TransportsTypeOK, Followed, NEW c \in Clerks, NEW t \in Legs,
           \/ \E wants \in BOOLEAN, car \in Loaners \cup {NoLoaner}, day \in Dates :
                 BeginPlan(c, t, wants, car, day)
           \/ \E column \in {"status", "want", "car", "day"} :
                 \E next \in Sent(t, column) : BeginUpdate(c, t, column, next)
           \/ BeginDelete(c, t) \/ BeginRestore(c, t)
    PROVE  Followed'
<1>1. ASSUME NEW wants \in BOOLEAN, NEW car \in Loaners \cup {NoLoaner}, NEW day \in Dates,
             BeginPlan(c, t, wants, car, day)
      PROVE  Followed'
  <2> DEFINE w == [ClerkIdle EXCEPT !.pc = "judge", !.on = t, !.cur = Planned(day),
                   !.next = [Planned(day) EXCEPT !.wants = wants, !.car = car],
                   !.sets = {"want", "car"}, !.new = TRUE]
  <2>1. w.pc = "judge" BY DEF ClerkIdle
  <2>2. TakeOn(c, w) /\ UNCHANGED <<plan, hire, leg>>
        BY <1>1 DEF BeginPlan, RentalAside
  <2> HIDE DEF w
  <2>. QED BY <2>1, <2>2, TakeOnFollowed
<1>2. ASSUME NEW column, NEW next, BeginUpdate(c, t, column, next)
      PROVE  Followed'
  <2> DEFINE w == [ClerkIdle EXCEPT !.pc = "judge", !.on = t, !.cur = leg[t],
                   !.next = [next EXCEPT !.spare = leg[t].spare], !.sets = {column},
                   !.spare = leg[t].spare]
  <2>1. w.pc = "judge" BY DEF ClerkIdle
  <2>2. TakeOn(c, w) /\ UNCHANGED <<plan, hire, leg>>
        BY <1>2 DEF BeginUpdate, RentalAside
  <2> HIDE DEF w
  <2>. QED BY <2>1, <2>2, TakeOnFollowed
<1>3. ASSUME BeginDelete(c, t) PROVE Followed'
  <2>1. PICK pc \in {"drop_spare", "drop"}, v \in {"booked", "none"} :
           TakeOn(c, [ClerkIdle EXCEPT !.pc = pc, !.on = t, !.cur = leg[t],
                        !.spare = leg[t].spare, !.verdict = v])
        BY <1>3 DEF BeginDelete
  <2> DEFINE w == [ClerkIdle EXCEPT !.pc = pc, !.on = t, !.cur = leg[t],
                        !.spare = leg[t].spare, !.verdict = v]
  <2>2. w.pc = pc BY DEF ClerkIdle
  <2>3. TakeOn(c, w) /\ UNCHANGED <<plan, hire, leg>>
        BY <1>3, <2>1 DEF BeginDelete, RentalAside
  <2> HIDE DEF w
  <2>. QED BY <2>2, <2>3, TakeOnFollowed
<1>4. ASSUME BeginRestore(c, t) PROVE Followed'
  <2>1. PICK i \in {leg[t].spare, 0}, v \in {"free", "taken"} :
           TakeOn(c, [ClerkIdle EXCEPT !.pc = "restore", !.on = t, !.cur = leg[t],
                        !.spare = i, !.verdict = v])
        BY <1>4 DEF BeginRestore
  <2> DEFINE w == [ClerkIdle EXCEPT !.pc = "restore", !.on = t, !.cur = leg[t],
                        !.spare = i, !.verdict = v]
  <2>2. w.pc = "restore" BY DEF ClerkIdle
  <2>3. TakeOn(c, w) /\ UNCHANGED <<plan, hire, leg>>
        BY <1>4, <2>1 DEF BeginRestore, RentalAside
  <2> HIDE DEF w
  <2>. QED BY <2>2, <2>3, TakeOnFollowed
<1>. QED BY <1>1, <1>2, <1>3, <1>4

(* COMMIT opens no closed delivery again, unless requests met on it.        *)
LEMMA CommitFollowed ==
    ASSUME TransportsTypeOK, \A e \in Clerks : RequestInv(e), Followed,
           NEW c \in Clerks, Commit(c)
    PROVE  Followed'
<1> DEFINE w == clerk[c]
<1>1. /\ w \in ClerkStates /\ w.pc = "commit" /\ w.on \in Legs /\ LetGo(c)
      /\ UNCHANGED <<plan, crossed, hire>>
      BY CommitIs
<1>2. ASSUME NEW t \in Legs, leg'[t].place = "table", leg'[t].delivery
      PROVE  /\ leg[t].place = "table" /\ leg[t].delivery
             /\ leg'[t].status \in Underway /\ t \notin crossed' => leg[t].status \in Underway
  <2>1. CASE t # w.on BY <1>2, <2>1, CommitMoves
  <2>2. CASE t = w.on
    <3>1. /\ ~w.new /\ leg[t].place = "table" /\ leg[t].delivery
          BY <1>2, <2>2, CommitMoves
    <3>2. ASSUME leg'[t].status \in Underway, t \notin crossed
          PROVE  leg[t].status \in Underway
      <4>1. leg[t] = w.cur /\ leg'[t].status = w.next.status
            BY <2>2, <3>1, <3>2, CommitMoves
      <4>2. w.next.status \in Transitions(w.cur.status) \cup {w.cur.status}
            BY <1>1, <3>1 DEF RequestInv, Drafted
      <4>3. w.cur.status \in Underway \cup Closed BY <1>1 DEF ClerkStates, LegRows
      <4>. QED BY <3>2, <4>1, <4>2, <4>3 DEF Transitions, Underway, Closed
    <3>. QED BY <1>1, <3>1, <3>2
  <2>. QED BY <2>1, <2>2
<1>3. \A e \in Clerks : Syncing(e) \/ Syncing(e)' => clerk'[e] = clerk[e]
      BY <1>1, LettingGoSyncs DEF Syncing
<1>. QED BY <1>1, <1>2, <1>3, FollowedStays

LEMMA DropsFollowed ==
    ASSUME TransportsTypeOK, \A e \in Clerks : RequestInv(e), Followed, ~Adrift',
           NEW c \in Clerks, DropSpare(c) \/ DropLeg(c) \/ Restore(c)
    PROVE  Followed'
<1> DEFINE w == clerk[c]
<1>1. /\ w \in ClerkStates /\ w.pc \in {"drop_spare", "drop", "restore"} /\ w.on \in Legs
      /\ leg[w.on] \in LegRows /\ UNCHANGED <<plan, hire, crossed>>
      BY DEF DropSpare, DropLeg, Restore, TransportsTypeOK, RequestInv, Placed, RentalAside
<1>2. CASE DropSpare(c)
  <2>1. UNCHANGED leg /\ clerk' = [clerk EXCEPT ![c] = [w EXCEPT !.pc = "drop"]]
        BY <1>2 DEF DropSpare, TransportsTypeOK
  <2>2. clerk'[c].pc = "drop" /\ \A e \in Clerks \ {c} : clerk'[e] = clerk[e]
        BY <1>1, <2>1 DEF TransportsTypeOK, ClerkStates
  <2>3. \A e \in Clerks : Syncing(e) \/ Syncing(e)' => clerk'[e] = clerk[e]
        BY <1>1, <2>2 DEF Syncing
  <2>. QED BY <1>1, <2>1, <2>3, LegsAloneFollowed
<1>3. CASE DropLeg(c)
  <2>1. /\ leg' = [leg EXCEPT ![w.on] = [leg[w.on] EXCEPT !.place = "bin"]] /\ LetGo(c)
        BY <1>3 DEF DropLeg, TransportsTypeOK
  <2>2. \A t \in Legs : leg'[t] = leg[t] \/ leg'[t].place = "bin"
        BY <1>1, <2>1 DEF TransportsTypeOK, LegRows
  <2>3. \A e \in Clerks : Syncing(e) \/ Syncing(e)' => clerk'[e] = clerk[e]
        BY <1>1, <2>1, LettingGoSyncs DEF Syncing
  <2>. QED BY <1>1, <2>2, <2>3, FollowedStays
<1>4. CASE Restore(c)
  <2>1. /\ leg' = [leg EXCEPT ![w.on] = [leg[w.on] EXCEPT !.place = "table"]] /\ LetGo(c)
        /\ w.on \in reopened'
        BY <1>4 DEF Restore, TransportsTypeOK
  <2>2. ~leg'[w.on].delivery BY <2>1 DEF Adrift
  <2>3. \A t \in Legs \ {w.on} : leg'[t] = leg[t] BY <2>1 DEF TransportsTypeOK
  <2>4. \A e \in Clerks : Syncing(e) \/ Syncing(e)' => clerk'[e] = clerk[e]
        BY <1>1, <2>1, LettingGoSyncs DEF Syncing
  <2>. QED BY <1>1, <2>2, <2>3, <2>4, FollowedStays
<1>. QED BY <1>2, <1>3, <1>4

(* The edit and its sync.                                                  *)
LEMMA EditFollowed ==
    ASSUME TransportsTypeOK, Followed, ~Adrift', NEW c \in Clerks,
           NEW wants \in BOOLEAN, NEW day \in Dates, EditRental(c, wants, day)
    PROVE  Followed'
<1>1. \A e \in Clerks : ~Syncing(e) BY DEF EditRental, Adrift
<1>2. /\ clerk'[c] = [ClerkIdle EXCEPT !.pc = "sync",
                   !.next = [Planned(day) EXCEPT !.delivery = TRUE, !.wants = wants]]
      /\ \A e \in Clerks \ {c} : clerk'[e] = clerk[e]
      /\ UNCHANGED <<plan, leg, crossed>>
      BY DEF EditRental, SparesAside, TransportsTypeOK
<1>3. clerk'[c].pc = "sync" /\ clerk'[c].next.wants = wants
  <2> DEFINE drafted == [Planned(day) EXCEPT !.delivery = TRUE, !.wants = wants]
  <2>1. drafted.wants = wants BY DEF Planned
  <2> HIDE DEF drafted
  <2>2. clerk'[c] = [ClerkIdle EXCEPT !.pc = "sync", !.next = drafted] BY <1>2 DEF drafted
  <2>3. clerk'[c].pc = "sync" /\ clerk'[c].next = drafted BY <2>2 DEF ClerkIdle
  <2>. QED BY <2>1, <2>3
<1>4. hire'.wants = wants /\ hire'.live BY DEF EditRental, TransportsTypeOK
<1>5. \A e \in Clerks : Syncing(e)' <=> e = c BY <1>1, <1>2, <1>3 DEF Syncing
<1>6. DeliveryLegs' = DeliveryLegs BY <1>2 DEF DeliveryLegs, Legs
<1>7. \A e \in Clerks : (clerk[e].pc = "sync_leg")' => FALSE
      BY <1>3, <1>5 DEF Syncing
<1>. QED BY <1>3, <1>4, <1>5, <1>6, <1>7 DEF Followed

LEMMA SyncReadFollowed ==
    ASSUME TransportsTypeOK, Followed, NEW c \in Clerks, NEW t \in Legs, SyncRead(c, t)
    PROVE  Followed'
<1>1. /\ clerk[c] \in ClerkStates /\ clerk[c].pc = "sync"
      /\ clerk' = [clerk EXCEPT ![c] = [clerk[c] EXCEPT !.pc = "sync_leg", !.on = t,
                      !.cur = leg[t], !.new = DeliveryLegs = {}]]
      /\ UNCHANGED <<plan, leg, hire>>
      /\ DeliveryLegs # {} => t \in DeliveryLegs
      BY DEF SyncRead, SparesAside, RentalAside, TransportsTypeOK
<1>2. /\ clerk'[c].pc = "sync_leg" /\ clerk'[c].on = t
      /\ clerk'[c].next = clerk[c].next /\ clerk'[c].new = (DeliveryLegs = {})
      /\ \A e \in Clerks \ {c} : clerk'[e] = clerk[e]
      BY <1>1 DEF TransportsTypeOK, ClerkStates
<1>3. \A e \in Clerks : Syncing(e)' <=> Syncing(e) BY <1>1, <1>2 DEF Syncing
<1>4. DeliveryLegs' = DeliveryLegs BY <1>1 DEF DeliveryLegs, Legs
<1>5. Syncing(c) BY <1>1 DEF Syncing
<1>6. \A e \in Clerks : clerk'[e].pc = "sync_leg" =>
           \A s \in DeliveryLegs : s = clerk'[e].on /\ ~clerk'[e].new
  <2>1. ASSUME NEW s \in DeliveryLegs PROVE s = t /\ ~clerk'[c].new
    <3>1. DeliveryLegs # {} BY <2>1
    <3>. QED BY <1>1, <1>2, <3>1 DEF Followed
  <2>2. ASSUME NEW e \in Clerks, e # c, clerk'[e].pc = "sync_leg", NEW s \in DeliveryLegs
        PROVE  s = clerk'[e].on /\ ~clerk'[e].new
        BY <1>2, <2>2 DEF Followed
  <2>. QED BY <1>2, <2>1, <2>2
<1>7. \A e \in Clerks : Syncing(e) => hire.live /\ hire.wants = clerk'[e].next.wants
      BY <1>2 DEF Followed
<1>. QED BY <1>1, <1>3, <1>4, <1>5, <1>6, <1>7 DEF Followed

LEMMA SyncWriteFollowed ==
    ASSUME TransportsTypeOK, \A e \in Clerks : RequestInv(e), RowsInv, Followed,
           NEW c \in Clerks, SyncWrite(c)
    PROVE  Followed'
<1> DEFINE w == clerk[c]
<1>1. /\ w \in ClerkStates /\ w.pc = "sync_leg" /\ w.on \in Legs
      /\ leg' = [leg EXCEPT ![w.on] = SyncedRow(w)] /\ SyncedRow(w) \in LegRows
      /\ w.new <=> leg[w.on].place = "none"
      /\ LetGo(c) /\ UNCHANGED <<plan, hire, synced, crossed, standIn, reopened>>
      BY SyncWriteIs
<1>2. Syncing(c) /\ leg[w.on] \in LegRows BY <1>1 DEF Syncing, TransportsTypeOK
<1>3. /\ hire.live /\ hire.wants = w.next.wants
      /\ \A t \in DeliveryLegs : t = w.on
      BY <1>1, <1>2 DEF Followed
<1>4. \A e \in Clerks : ~Syncing(e)'
  <2>1. clerk'[c].pc = "idle" /\ \A e \in Clerks \ {c} : clerk'[e] = clerk[e]
        BY <1>1, LetGoIs DEF ClerkIdle
  <2>2. \A e \in Clerks \ {c} : ~Syncing(e) BY <1>2 DEF Followed
  <2>. QED BY <2>1, <2>2 DEF Syncing
<1>5. \A t \in DeliveryLegs' : t = w.on
      BY <1>1, <1>3 DEF DeliveryLegs, Legs, TransportsTypeOK
<1>6. ASSUME w.on \in DeliveryLegs', leg'[w.on].status \in Underway, w.on \notin crossed
      PROVE  hire.wants
  <2>1. SUFFICES ASSUME ~w.next.wants PROVE FALSE BY <1>3
  <2>2. leg'[w.on] = SyncedRow(w) BY <1>1 DEF TransportsTypeOK
  <2>3. leg'[w.on].place = "table" BY <1>6 DEF DeliveryLegs
  <2>4. CASE w.new
    <3>1. SyncedRow(w) = leg[w.on] BY <2>1, <2>4 DEF SyncedRow
    <3>. QED BY <1>1, <2>2, <2>3, <2>4, <3>1
  <2>5. CASE ~w.new
    <3>1. leg[w.on] = w.cur BY <1>1, <1>6, <2>5, IdsAreNumbers DEF RequestInv, Read
    <3>2. leg[w.on].status \in Closed \/ leg[w.on].place # "table" \/
             SyncedRow(w) = [leg[w.on] EXCEPT !.status = "cancelled"]
          BY <2>1, <2>5, <3>1 DEF SyncedRow
    <3>3. leg[w.on].status \in Closed \/ leg[w.on].place # "table" =>
             SyncedRow(w) = leg[w.on]
          BY <2>5, <3>1 DEF SyncedRow
    <3>. QED BY <1>2, <1>6, <2>2, <2>3, <3>2, <3>3 DEF LegRows, Underway, Closed
  <2>. QED BY <2>4, <2>5
<1>7. \A e \in Clerks : (clerk[e].pc = "sync_leg")' => FALSE BY <1>4 DEF Syncing
<1>. QED BY <1>1, <1>3, <1>4, <1>5, <1>6, <1>7 DEF Followed, Alone

LEMMA RentalOffFollowed ==
    ASSUME TransportsTypeOK, Followed, ~Adrift', NEW live, RentalOff(live)
    PROVE  Followed'
<1>1. /\ \A e \in Clerks : ~Syncing(e)
      /\ UNCHANGED <<plan, clerk>>
      BY DEF RentalOff, Adrift
<1>2. \A e \in Clerks : ~Syncing(e)' BY <1>1 DEF Syncing
<1>3. DeliveryLegs' = DeliveryLegs BY <1>1, RentalOffIs DEF DeliveryLegs, Legs
<1>4. \A t \in DeliveryLegs' : leg'[t].status \notin Underway
      BY <1>3, RentalOffIs DEF DeliveryLegs
<1>5. \A e \in Clerks : (clerk[e].pc = "sync_leg")' => FALSE BY <1>2 DEF Syncing
<1>. QED BY <1>2, <1>3, <1>4, <1>5 DEF Followed

LEMMA HireStep ==
    ASSUME TransportsTypeOK, \A e \in Clerks : RequestInv(e), RowsInv, HireInv,
           [TransportsNext]_transportVars
    PROVE  HireInv'
<1> SUFFICES ASSUME ~Adrift' PROVE Followed'
    BY DEF HireInv
<1>1. Followed BY AdriftStays DEF HireInv
<1>2. ASSUME UNCHANGED transportVars PROVE Followed'
      BY <1>1, <1>2, LegsAloneFollowed DEF transportVars
<1>3. ASSUME NEW i \in Spares, HandOver(i) PROVE Followed'
      BY <1>1, <1>3, LegsAloneFollowed DEF HandOver, RentalAside
<1>4. ASSUME NEW c \in Clerks, Judge(c) PROVE Followed'
  <2>1. UNCHANGED <<plan, leg, crossed, hire>> /\ clerk[c].pc = "judge"
        BY <1>4 DEF Judge, RentalAside
  <2>2. clerk'[c].pc \in {"idle", "commit"} /\ \A e \in Clerks \ {c} : clerk'[e] = clerk[e]
    <3>1. CASE LetGo(c) BY <3>1, LetGoIs DEF ClerkIdle
    <3>2. CASE ~LetGo(c)
      <4>1. PICK v : clerk' = [clerk EXCEPT ![c] = [clerk[c] EXCEPT !.pc = "commit", !.verdict = v]]
            BY <1>4, <3>2 DEF Judge, TransportsTypeOK
      <4>2. clerk[c] \in ClerkStates BY DEF TransportsTypeOK
      <4>. QED BY <4>1, <4>2 DEF TransportsTypeOK, ClerkStates
    <3>. QED BY <3>1, <3>2
  <2>3. \A e \in Clerks : Syncing(e) \/ Syncing(e)' => clerk'[e] = clerk[e]
        BY <2>1, <2>2 DEF Syncing
  <2>. QED BY <1>1, <2>1, <2>3, LegsAloneFollowed
<1>. QED BY <1>1, <1>2, <1>3, <1>4, BeginsFollowed, CommitFollowed, DropsFollowed,
            EditFollowed, SyncReadFollowed, SyncWriteFollowed, RentalOffFollowed
         DEF TransportsNext

-----------------------------------------------------------------------------
LEMMA InitInv == TransportsInit => TransportsInv
<1> SUFFICES ASSUME TransportsInit PROVE TransportsInv
    OBVIOUS
<1>1. TransportsTypeOK /\ (\A c \in Clerks : RequestInv(c)) /\ RowsInv
      BY InitSound
<1>2. \A c \in Clerks : clerk[c].pc = "idle" BY DEF TransportsInit, ClerkIdle
<1>3. LoanerInv
  <2>1. \A i \in Spares : ~StandInLive(i)
        BY DEF TransportsInit, StandInLive, NoBooking
  <2>. QED BY <1>2, <2>1 DEF LoanerInv, Held, NoLoanerTwice
<1>4. HireInv
  <2>1. DeliveryLegs = {} BY DEF TransportsInit, DeliveryLegs, NoLeg, Planned
  <2>. QED BY <1>2, <2>1 DEF HireInv, Followed, Syncing
<1>. QED BY <1>1, <1>3, <1>4 DEF TransportsInv

(* The invariant of the transports holds throughout: rows and requests are *)
(* of their types, every request knows what its route has read, transports *)
(* and stand-ins name each other, what was judged under the lock of a car  *)
(* is still so at the COMMIT, and the delivery is behind its rental by one *)
(* sync at most.                                                           *)
THEOREM TransportsInvariance == TransportsSpec => []TransportsInv
<1>1. TransportsInv /\ [TransportsNext]_transportVars => TransportsInv'
      BY TypeStep, RequestsStep, RowsStep, LoanersStep, HireStep DEF TransportsInv
<1>. QED BY <1>1, InitInv, PTL DEF TransportsSpec

(* The transports, the bookings of their stand-ins, the requests and the   *)
(* locks always have the columns and values the code gives them.           *)
THEOREM TransportsTyped == TransportsSpec => []TransportsTypeOK
<1>1. TransportsInv => TransportsTypeOK BY DEF TransportsInv
<1>. QED BY <1>1, TransportsInvariance, PTL

(* Two transports never have one stand-in car on one day: applyTransport-  *)
(* Update judges under the lock of the car and holds it until it has        *)
(* written (BUG-160), however many requests there are - but for a stand-in *)
(* of a transport two requests met on, of one that is back from the bin,   *)
(* or of one its rental moved.                                             *)
THEOREM LoanersApart == TransportsSpec => []NoLoanerTwice
<1>1. TransportsInv => NoLoanerTwice BY DEF TransportsInv, LoanerInv
<1>. QED BY <1>1, TransportsInvariance, PTL

(* The transport a live booking of a stand-in names is on record and names *)
(* that booking, through every update, delete, restore and sync, unless    *)
(* two requests met on the transport.                                      *)
THEOREM SparesHaveTransports == TransportsSpec => []EverySpareHasItsTransport
<1>1. ASSUME TransportsInv PROVE EverySpareHasItsTransport
  <2> SUFFICES ASSUME NEW i \in Spares, standIn[i].status = "booked"
               PROVE  LET t == standIn[i].transport
                      IN t \in Legs /\ (Alone(t) => leg[t].place # "none" /\ leg[t].spare = i)
      BY DEF EverySpareHasItsTransport
  <2>1. SpareInv(i) BY <1>1 DEF TransportsInv, RowsInv
  <2>. QED BY <2>1 DEF SpareInv, Alone
<1>. QED BY <1>1, TransportsInvariance, PTL

(* The stand-in of a transport under way is booked on the day of that       *)
(* transport (BUG-114), unless the rental moved it or two requests met.    *)
THEOREM SparesOnTheirDay == TransportsSpec => []SpareOnItsDay
<1>1. ASSUME TransportsInv PROVE SpareOnItsDay
  <2> SUFFICES ASSUME NEW t \in Legs, Alone(t), leg[t].spare # 0, t \notin fromRental
               PROVE  standIn[leg[t].spare].day = leg[t].day
      BY DEF SpareOnItsDay
  <2>1. LegInv(t) BY <1>1 DEF TransportsInv, RowsInv
  <2>. QED BY <2>1 DEF LegInv, Alone
<1>. QED BY <1>1, TransportsInvariance, PTL

(* syncDeliveryLeg leaves one delivery at most, open only for a rental that *)
(* stands and wants it, once no sync is under way - unless edits of the    *)
(* rental overlapped, a delivery is back from the bin, or two requests met *)
(* on the delivery.                                                        *)
THEOREM DeliveriesFollow == TransportsSpec => []DeliveryFollowsRental
<1>1. TransportsInv => DeliveryFollowsRental
      BY DEF TransportsInv, HireInv, Adrift, Followed, DeliveryFollowsRental
<1>. QED BY <1>1, TransportsInvariance, PTL

-----------------------------------------------------------------------------
(* How the status of a transport changes.                                  *)
LEMMA CommitSetsStatus ==
    ASSUME TransportsTypeOK, \A e \in Clerks : RequestInv(e), RowsInv,
           NEW c \in Clerks, Commit(c), NEW t \in Legs,
           leg'[t].status # leg[t].status
    PROVE  LET w == clerk[c]
           IN \/ leg[t] = NoLeg
              \/ /\ t = w.on /\ w.pc = "commit" /\ ~w.new /\ leg'[t].status = w.next.status
                 /\ w.next.status \in Transitions(w.cur.status) \cup {w.cur.status}
<1> DEFINE w == clerk[c]
<1>1. /\ w \in ClerkStates /\ w.pc = "commit" /\ w.on \in Legs
      /\ leg' = [leg EXCEPT ![w.on] =
                    IF w.new THEN [w.next EXCEPT !.spare = LinkAfter(w)]
                    ELSE IF leg[w.on].place = "table" THEN CommittedRow(w)
                    ELSE leg[w.on]]
      BY CommitIs
<1>2. t = w.on BY <1>1 DEF TransportsTypeOK
<1>3. CASE w.new
      BY <1>1, <1>2, <1>3 DEF RowsInv, LegInv, RequestInv, Placed
<1>4. CASE ~w.new
  <2>1. leg'[t] = CommittedRow(w) BY <1>1, <1>2, <1>4 DEF TransportsTypeOK
  <2>2. leg[t] \in LegRows BY DEF TransportsTypeOK
  <2>3. leg'[t].status = IF "status" \in w.sets THEN w.next.status ELSE leg[t].status
        BY <1>2, <2>1, <2>2 DEF CommittedRow, LegRows
  <2>. QED BY <1>1, <1>2, <1>4, <2>3 DEF RequestInv, Drafted
<1>. QED BY <1>3, <1>4

LEMMA SyncSetsStatus ==
    ASSUME TransportsTypeOK, \A e \in Clerks : RequestInv(e), RowsInv,
           NEW c \in Clerks, SyncWrite(c), NEW t \in Legs,
           leg'[t].status # leg[t].status
    PROVE  \/ leg[t] = NoLeg
           \/ t = clerk[c].on /\ clerk[c].cur.status \notin Closed /\ t \in fromRental'
<1> DEFINE w == clerk[c]
<1>1. /\ w.on \in Legs /\ leg' = [leg EXCEPT ![w.on] = SyncedRow(w)]
      /\ w.new <=> leg[w.on].place = "none"
      BY SyncWriteIs
<1>2. t = w.on /\ SyncedRow(w) # leg[w.on] BY <1>1 DEF TransportsTypeOK
<1>3. CASE w.new BY <1>1, <1>2, <1>3 DEF RowsInv, LegInv
<1>4. CASE ~w.new BY <1>2, <1>4 DEF SyncWrite, SyncedRow
<1>. QED BY <1>3, <1>4

LEMMA StatusMoves ==
    ASSUME TransportsInv, [TransportsNext]_transportVars, NEW t \in Legs,
           leg'[t].status # leg[t].status, leg[t] # NoLeg
    PROVE  \/ \E c \in Clerks : Commit(c)
           \/ \E c \in Clerks : /\ SyncWrite(c) /\ t = clerk[c].on /\ t \in fromRental'
                                /\ clerk[c].cur.status \notin Closed
           \/ leg[t].status \in Underway /\ t \in fromRental'
<1>1. TransportsTypeOK /\ (\A e \in Clerks : RequestInv(e)) /\ RowsInv
      BY DEF TransportsInv
<1>2. ASSUME NEW c \in Clerks, DropLeg(c) \/ Restore(c)
      PROVE  leg'[t].status = leg[t].status
      BY <1>1, <1>2 DEF DropLeg, Restore, TransportsTypeOK, LegRows
<1>3. ASSUME NEW live, RentalOff(live) PROVE leg[t].status \in Underway /\ t \in fromRental'
      BY <1>1, <1>3, RentalOffIs
<1>. QED BY <1>1, <1>2, <1>3, SyncSetsStatus, QuietSteps

(* A closed transport stays closed (BUG-136): TRANSPORT_TRANSITIONS and the *)
(* conditional writes of the rental's side see to it, unless a request that *)
(* had read the transport before it was closed writes its own status.      *)
THEOREM ClosedStaysClosed == TransportsSpec => ClosedTransportStays
<1>1. ASSUME TransportsInv, [TransportsNext]_transportVars, NEW t \in Legs,
             leg[t].status \in Closed, leg'[t].status # leg[t].status
      PROVE  \E c \in Clerks : clerk[c].on = t /\ clerk[c].cur.status # leg[t].status
  <2>1. TransportsTypeOK /\ (\A e \in Clerks : RequestInv(e)) /\ RowsInv
        BY <1>1 DEF TransportsInv
  <2>2. leg[t] # NoLeg BY <1>1 DEF NoLeg, Planned, Closed
  <2>3. ASSUME NEW c \in Clerks, Commit(c)
        PROVE  clerk[c].on = t /\ clerk[c].cur.status # leg[t].status
        BY <1>1, <2>1, <2>2, <2>3, CommitSetsStatus DEF Transitions, Closed
  <2>. QED BY <1>1, <2>2, <2>3, StatusMoves DEF Underway, Closed
<1>2. TransportsInv /\ [TransportsNext]_transportVars =>
         [\A t \in Legs :
             leg[t].status \in Closed /\ leg'[t].status # leg[t].status =>
                \E c \in Clerks : clerk[c].on = t /\ clerk[c].cur.status # leg[t].status
         ]_transportVars
      BY <1>1
<1>. QED BY <1>2, TransportsInvariance, PTL DEF TransportsSpec, ClosedTransportStays

(* A request that cancels a transport leaves no stand-in booked for it      *)
(* (BUG-115): it was judged to be booked and is cancelled in the same       *)
(* COMMIT, or it was already no booking and cannot have become one.        *)
THEOREM CancelledSparesAreFreed == TransportsSpec => CancellingFreesSpare
<1>1. ASSUME TransportsInv, [TransportsNext]_transportVars, NEW t \in Legs,
             leg[t].status # "cancelled", leg'[t].status = "cancelled",
             t \notin fromRental' \cup crossed, leg[t].spare # 0
      PROVE  standIn'[leg[t].spare].status # "booked"
  <2>1. TransportsTypeOK /\ (\A e \in Clerks : RequestInv(e)) /\ RowsInv
        BY <1>1 DEF TransportsInv
  <2>2. leg[t] # NoLeg BY <1>1 DEF NoLeg, Planned
  <2>3. PICK c \in Clerks : Commit(c) BY <1>1, <2>2, StatusMoves
  <2> DEFINE w == clerk[c]
             i == leg[t].spare
  <2>4. /\ t = w.on /\ w.pc = "commit" /\ ~w.new /\ w.next.status = "cancelled"
        /\ leg[t] = w.cur /\ i = w.spare
    <3>1. /\ t = w.on /\ w.pc = "commit" /\ ~w.new /\ leg'[t].status = w.next.status
          BY <1>1, <2>1, <2>2, <2>3, CommitSetsStatus
    <3>2. w.on \notin crossed BY <1>1, <3>1
    <3>. QED BY <1>1, <2>1, <2>3, <3>1, <3>2, CommitMoves
  <2>5. Closing(w) /\ ~Arrange(w) BY <1>1, <2>4 DEF Closing, Closed, Arrange
  <2>6. /\ i \in Spares /\ w \in ClerkStates
        /\ standIn' = [standIn EXCEPT ![i] = SpareAfter(w)]
        BY <1>1, <2>1, <2>3, <2>4, <2>5, CommitIs
  <2>7. standIn'[i] = SpareAfter(w) BY <2>1, <2>6 DEF TransportsTypeOK
  <2>8. \/ w.verdict = "booked" \/ standIn[i].status # "booked"
        BY <1>1, <2>1, <2>4 DEF RequestInv, Decided
  <2>9. w.verdict = "booked" => Dropped(w) BY <2>4, <2>5 DEF Dropped
  <2>. QED BY <2>1, <2>4, <2>6, <2>7, <2>8, <2>9, SpareAfterIs
<1>2. TransportsInv /\ [TransportsNext]_transportVars =>
         [\A t \in Legs :
             /\ leg[t].status # "cancelled" /\ leg'[t].status = "cancelled"
             /\ t \notin fromRental' \cup crossed /\ leg[t].spare # 0
             => standIn'[leg[t].spare].status # "booked" \/ standIn'[leg[t].spare].deleted
         ]_transportVars
      BY <1>1
<1>. QED BY <1>2, TransportsInvariance, PTL DEF TransportsSpec, CancellingFreesSpare
=============================================================================
