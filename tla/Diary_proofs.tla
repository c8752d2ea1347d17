---------------------------- MODULE Diary_proofs ----------------------------
(* Proofs about Diary, for every calendar: any set of days, any times on    *)
(* file and any number of rentals.                                          *)
EXTENDS Diary, FiniteSetTheorems, TLAPS

Apart == \A a, b \in diary : a # b => ~Overlaps(a, b)

DiaryInv == TypeOK /\ Apart

-----------------------------------------------------------------------------
LEMMA RequestsTyped ==
    ASSUME NEW row \in Requests
    PROVE  /\ row.car = "the car" /\ IsLive(row) /\ row.kind = "rental"
           /\ row.start.day \in Nat /\ row.end.day \in Nat
           /\ row.start.day <= row.end.day
           /\ row.start.time \in Nat \cup {NoTime}
           /\ row.end.time \in Nat \cup {NoTime}
<1>1. PICK p \in Periods(Days, Times) : row = RowOf(p) BY DEF Requests
<1>2. /\ p.start.day \in Nat /\ p.end.day \in Nat
      /\ p.start.time \in Nat \cup {NoTime} /\ p.end.time \in Nat \cup {NoTime}
      /\ p.start.day <= p.end.day
    BY DaysAssumption, TimesAssumption DEF Periods, Moments, WellFormed
<1>3. row.status = "booked" /\ row.deleted = FALSE BY <1>1 DEF RowOf
<1>. QED BY <1>1, <1>2, <1>3 DEF RowOf, IsLive, LiveStatuses

(* A request on the one car meets no other obstacle than an overlap.       *)
LEMMA ConflictIsOverlap ==
    ASSUME NEW row \in Requests, NEW req \in Requests
    PROVE  Conflicts(row, req, FALSE) <=> Overlaps(row, req)
BY RequestsTyped DEF Conflicts, InTheWay

LEMMA OverlapsBothWays ==
    ASSUME NEW a \in Requests, NEW b \in Requests
    PROVE  Overlaps(a, b) <=> Overlaps(b, a)
BY DEF Overlaps, DaysMeet, Turnover, EndsBefore

(* An end is a turnover in the SQL exactly when the rule calls it over.    *)
LEMMA OverlapIsClash ==
    ASSUME NEW row \in Requests, NEW req \in Requests
    PROVE  Overlaps(row, req) <=> Clash(row, req)
<1>1. /\ row.start.day \in Nat /\ row.end.day \in Nat
      /\ req.start.day \in Nat /\ req.end.day \in Nat
      /\ row.start.day <= row.end.day /\ req.start.day <= req.end.day
      /\ row.start.time \in Int /\ row.end.time \in Int
      /\ req.start.time \in Int /\ req.end.time \in Int
  <2>1. Nat \cup {NoTime} \subseteq Int BY DEF NoTime
  <2>. QED BY <2>1, RequestsTyped
<1>. QED
    BY <1>1 DEF Overlaps, DaysMeet, Turnover, EndsBefore, Clash, Over

(* The diary takes a request exactly when it overlaps nothing in it.       *)
LEMMA VerdictIsOverlap ==
    ASSUME NEW rows \in SUBSET Requests, NEW req \in Requests
    PROVE  /\ (Verdict(rows, req, FALSE, "ok") = "CONFLICT")
                 <=> \E row \in rows : Overlaps(row, req)
           /\ (Verdict(rows, req, FALSE, "ok") = "bookable")
                 <=> \A row \in rows : ~Overlaps(row, req)
<1>1. \A row \in rows : Conflicts(row, req, FALSE) <=> Overlaps(row, req)
    BY ConflictIsOverlap
<1>. QED BY <1>1 DEF Verdict

LEMMA AcceptKeeps ==
    ASSUME DiaryInv, NEW req \in Requests, Accept(req)
    PROVE  DiaryInv'
<1>1. diary' = diary \cup {req} BY DEF Accept
<1>2. ~ \E row \in diary : Conflicts(row, req, FALSE)
    BY DEF Accept, Verdict
<1>3. \A row \in diary : ~Overlaps(row, req)
    BY <1>2, ConflictIsOverlap DEF DiaryInv, TypeOK
<1>4. \A row \in diary : ~Overlaps(req, row)
    BY <1>3, OverlapsBothWays DEF DiaryInv, TypeOK
<1>5. TypeOK' BY <1>1 DEF DiaryInv, TypeOK
<1>6. Apart' BY <1>1, <1>3, <1>4 DEF DiaryInv, Apart
<1>. QED BY <1>5, <1>6 DEF DiaryInv

(* Whatever the calendar and the order of bookings and cancellations, no   *)
(* two rentals in the diary overlap.                                       *)
THEOREM DiaryInvariance == Spec => []DiaryInv
<1>1. Init => DiaryInv BY DEF Init, DiaryInv, TypeOK, Apart
<1>2. DiaryInv /\ [Next]_vars => DiaryInv'
  <2>. SUFFICES ASSUME DiaryInv, [Next]_vars PROVE DiaryInv' OBVIOUS
  <2>1. ASSUME NEW req \in Requests, Accept(req) PROVE DiaryInv'
    BY <2>1, AcceptKeeps
  <2>2. ASSUME NEW row \in diary, Release(row) PROVE DiaryInv'
    BY <2>2 DEF Release, DiaryInv, TypeOK, Apart
  <2>3. CASE UNCHANGED vars BY <2>3 DEF vars, DiaryInv, TypeOK, Apart
  <2>. QED BY <2>1, <2>2, <2>3 DEF Next
<1>. QED BY <1>1, <1>2, PTL DEF Spec

(* The diary of every calendar holds rental rows only.                     *)
THEOREM DiaryTyped == Spec => []TypeOK
<1>1. DiaryInv => TypeOK BY DEF DiaryInv
<1>. QED BY <1>1, DiaryInvariance, PTL

(* The SQL and the owner's rule agree on every diary and every request.    *)
THEOREM RuleMet == Spec => []RefusesExactlyTheClashes
<1>1. ASSUME DiaryInv PROVE RefusesExactlyTheClashes
  <2>1. ASSUME NEW req \in Requests
        PROVE  (Verdict(diary, req, FALSE, "ok") = "CONFLICT")
                 <=> (\E row \in diary : Clash(row, req))
    <3>1. \A row \in diary : Overlaps(row, req) <=> Clash(row, req)
        BY <1>1, OverlapIsClash DEF DiaryInv, TypeOK
    <3>. QED BY <1>1, <3>1, VerdictIsOverlap DEF DiaryInv, TypeOK
  <2>. QED BY <2>1 DEF RefusesExactlyTheClashes
<1>. QED BY <1>1, DiaryInvariance, PTL

(* What was accepted in some order is accepted again in any other.         *)
THEOREM AnyOrder == Spec => []OrderIndependent
<1>1. ASSUME DiaryInv PROVE OrderIndependent
  <2>1. ASSUME NEW row \in diary
        PROVE  Verdict(diary \ {row}, row, FALSE, "ok") = "bookable"
    <3>1. row \in Requests /\ diary \ {row} \in SUBSET Requests
        BY <1>1 DEF DiaryInv, TypeOK
    <3>2. \A other \in diary \ {row} : ~Overlaps(other, row)
        BY <1>1 DEF DiaryInv, Apart
    <3>. QED BY <3>1, <3>2, VerdictIsOverlap
  <2>. QED BY <2>1 DEF OrderIndependent
<1>. QED BY <1>1, DiaryInvariance, PTL

-----------------------------------------------------------------------------
LEMMA TurnoverDay ==
    ASSUME NEW a \in Requests, NEW b \in Requests, ~Overlaps(a, b),
           NEW d \in Nat, Covers(a, d), Covers(b, d)
    PROVE  \/ a.end.day = d /\ b.start.day = d /\ a.start.day < d
           \/ b.end.day = d /\ a.start.day = d /\ b.start.day < d
<1>1. /\ a.start.day \in Nat /\ a.end.day \in Nat
      /\ b.start.day \in Nat /\ b.end.day \in Nat
    BY RequestsTyped
<1>. QED BY <1>1 DEF Covers, Overlaps, DaysMeet, Turnover, EndsBefore

(* A set without three different elements.                                 *)
LEMMA AtMostTwo ==
    ASSUME NEW S, \A a, b, c \in S : a = b \/ a = c \/ b = c
    PROVE  Cardinality(S) <= 2
<1>1. CASE S = {} BY <1>1, FS_EmptySet
<1>2. CASE \E a \in S : S = {a}
  <2>1. PICK a \in S : S = {a} BY <1>2
  <2>2. Cardinality({a}) = 1 BY FS_Singleton
  <2>. QED BY <2>1, <2>2
<1>3. CASE S # {} /\ ~ \E a \in S : S = {a}
  <2>1. PICK a \in S : TRUE BY <1>3
  <2>2. PICK b \in S : b # a BY <1>3, <2>1
  <2>3. S = {a} \cup {b} BY <2>1, <2>2
  <2>4. IsFiniteSet({a}) /\ Cardinality({a}) = 1 BY FS_Singleton
  <2>. QED BY <2>2, <2>3, <2>4, FS_AddElement
<1>. QED BY <1>1, <1>2, <1>3

(* No day is ever shared by three rentals, and by two only as a turnover.  *)
THEOREM DaysShared == Spec => []SharedDayIsATurnover
<1>1. ASSUME DiaryInv, NEW d \in Days
      PROVE  LET onDay == { row \in diary : Covers(row, d) } IN
                /\ Cardinality(onDay) <= 2
                /\ \A a, b \in onDay : a # b =>
                      \/ a.end.day = d /\ b.start.day = d /\ a.start.day < d
                      \/ b.end.day = d /\ a.start.day = d /\ b.start.day < d
  <2>. DEFINE onDay == { row \in diary : Covers(row, d) }
  <2>1. d \in Nat BY DaysAssumption
  <2>2. ASSUME NEW a \in onDay, NEW b \in onDay, a # b
        PROVE  \/ a.end.day = d /\ b.start.day = d /\ a.start.day < d
               \/ b.end.day = d /\ a.start.day = d /\ b.start.day < d
    <3>1. a \in Requests /\ b \in Requests /\ ~Overlaps(a, b)
        BY <1>1, <2>2 DEF DiaryInv, TypeOK, Apart
    <3>. QED BY <2>1, <2>2, <3>1, TurnoverDay
  <2>3. ASSUME NEW a \in onDay, NEW b \in onDay, NEW c \in onDay,
               a # b, a # c, b # c
        PROVE  FALSE
    <3>1. /\ a.start.day \in Nat /\ b.start.day \in Nat /\ c.start.day \in Nat
        BY <1>1, RequestsTyped DEF DiaryInv, TypeOK
    <3>2. /\ \/ a.start.day < d /\ b.start.day = d
             \/ b.start.day < d /\ a.start.day = d
          /\ \/ a.start.day < d /\ c.start.day = d
             \/ c.start.day < d /\ a.start.day = d
          /\ \/ b.start.day < d /\ c.start.day = d
             \/ c.start.day < d /\ b.start.day = d
        BY <2>2, <2>3
    <3>. QED BY <2>1, <3>1, <3>2
  <2>4. Cardinality(onDay) <= 2 BY <2>3, AtMostTwo
  <2>. QED BY <2>2, <2>4
<1>2. DiaryInv => SharedDayIsATurnover BY <1>1 DEF SharedDayIsATurnover
<1>. QED BY <1>2, DiaryInvariance, PTL
=============================================================================
