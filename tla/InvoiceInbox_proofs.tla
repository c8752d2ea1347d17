------------------------- MODULE InvoiceInbox_proofs -------------------------
(* Proofs about InvoiceInbox, for any mailbox, number of requests, lines,   *)
(* failures and restarts.                                                   *)
EXTENDS InvoiceInbox, SequenceTheorems, TLAPS

AtFile   == {"look", "scan", "expenses", "finish", "create", "lines", "close"}
Writing  == {"lines", "close"}
Keys     == Files \cup Mails

RunRows ==
    [pc : {"idle", "mail", "mark"} \cup AtFile, mail : Mails \cup {"none"},
     todo : SUBSET Mails, left : Seq(Files),
     verdict : {"null", "book", "parse_failed", "other"}, line : Nat, done : Nat]

ClerkRows ==
    [pc : {"idle", "create", "expenses", "lines", "close", "heal", "again"},
     route : {"none", "book", "dismiss", "rescan", "insert", "takeover"},
     file : Files \cup {"none"}, reason : Reasons, line : Nat, done : Nat]

Typed == InboxTypeOK /\ run \in RunRows /\ clerk \in [Clerks -> ClerkRows]

(* An item stays an item, expenses are those of an item, and what says     *)
(* "booked" has them.                                                      *)
RowsSound ==
    /\ \A k \in Keys : item[k].status = "none" => item[k] = Nothing
    /\ \A f \in Files : Spent(f) => item[f] # Nothing
    /\ BookedMeansSpent

Present(hs) == \A h \in hs : item[h] # Nothing

(* Every attachment of the mail in hand is on file, or is still to come.   *)
LeftCoversRest ==
    /\ run.mail \notin Poison /\ AttachmentsOf[run.mail] # <<>>
    /\ run.left # <<>>
    /\ \A h \in CarriedBy[run.mail] :
          item[h] # Nothing \/ \E i \in 1..Len(run.left) : run.left[i] = h

(* The run has an unseen mail in hand, and what it remembers of a file is  *)
(* still so: items and expenses only come.                                 *)
RunSound ==
    run.pc # "idle" =>
       /\ run.mail \in Mails \ seen
       /\ run.todo \cap seen = {} /\ run.mail \notin run.todo
       /\ run.pc \in AtFile => LeftCoversRest
       /\ run.pc \in Writing \cup {"expenses", "finish"} =>
             item[Head(run.left)] # Nothing
       /\ run.pc = "lines" => run.line \in 1..Lines
       /\ run.pc \in Writing /\ run.done > 0 => Spent(Head(run.left))
       /\ run.pc \notin Writing => run.done = 0
       /\ run.pc = "finish" /\ run.verdict = "book" => Spent(Head(run.left))
       /\ run.pc = "mark" =>
             \/ item[run.mail] # Nothing
             \/ CarriedBy[run.mail] # {} /\ Present(CarriedBy[run.mail])

(* So for a request of staff.                                              *)
RequestSound(w) ==
    w.pc # "idle" =>
       /\ w.file \in Files
       /\ w.pc # "create" => item[w.file] # Nothing
       /\ w.pc \in {"create", "again"} => w.route \in {"insert", "takeover"}
       /\ w.pc \in {"expenses", "heal"} => w.route = "book"
       /\ w.pc = "heal" \/ w.done > 0 => Spent(w.file)
       /\ w.pc = "create" => w.done = 0
       /\ w.pc = "lines" => /\ w.line \in 1..Lines
                            /\ w.route \in {"book", "insert", "takeover"}

ClerksSound == \A c \in Clerks : RequestSound(clerk[c])

(* Nobody else writes expenses for the file, and its lines from here on    *)
(* have none.                                                              *)
Alone(f, w) == w.pc = "lines" => \A l \in w.line..Lines : ledger[f][l] = 0

(* Whoever books an item that was never crossed books it alone.            *)
OneBooks ==
    \A f \in Files \ crossed :
       /\ \A l \in 1..Lines : ledger[f][l] <= 1
       /\ BookingByPoller(f) => Alone(f, run) /\ ~BookingByClerk(f, Clerks)
       /\ \A c \in Clerks : BookingByClerk(f, {c}) =>
             Alone(f, clerk[c]) /\ ~BookingByClerk(f, Clerks \ {c})

InboxInv == Typed /\ RowsSound /\ RunSound /\ ClerksSound /\ OneBooks

Keeps == [Promised!PostNext]_(Promised!postVars)

-----------------------------------------------------------------------------
LEMMA IdleTyped == RunIdle \in RunRows /\ ClerkIdle \in ClerkRows
BY DEF RunIdle, RunRows, ClerkIdle, ClerkRows, Reasons

LEMMA TailShifts ==
    ASSUME NEW S, NEW s \in Seq(S), s # <<>>, Len(s) # 1
    PROVE  /\ Tail(s) \in Seq(S) /\ Tail(s) # <<>>
           /\ Len(Tail(s)) = Len(s) - 1
           /\ \A i \in 2..Len(s) : Tail(s)[i - 1] = s[i]
<1>1. Len(s) \in Nat /\ Len(s) > 1
    <2>. DEFINE n == Len(s)
    <2>1. n \in Nat \ {0} /\ n # 1 BY EmptySeq, Zenon
    <2>. HIDE DEF n
    <2>2. n \in Nat /\ n > 1 BY <2>1
    <2>. QED BY <2>2 DEF n
<1>2. /\ Tail(s) \in Seq(S) /\ Len(Tail(s)) = Len(s) - 1
      /\ \A i \in 1..Len(Tail(s)) : Tail(s)[i] = s[i + 1]
    BY HeadTailProperties
<1>3. Tail(s) # <<>>
    <2>1. Len(Tail(s)) # 0 BY <1>1, <1>2
    <2>2. Len(<<>>) = 0 BY EmptySeq, Zenon
    <2>. QED BY <2>1, <2>2, Zenon
<1>4. ASSUME NEW i \in 2..Len(s) PROVE Tail(s)[i - 1] = s[i]
    <2>1. i - 1 \in 1..Len(Tail(s)) /\ (i - 1) + 1 = i BY <1>1, <1>2
    <2>. QED BY <1>2, <2>1
<1>. QED BY <1>2, <1>3, <1>4

LEMMA SpentStays ==
    ASSUME NEW f \in Files, Spent(f), Typed, Typed',
           \A l \in 1..Lines : ledger'[f][l] >= ledger[f][l]
    PROVE  Spent(f)'
<1>1. PICK l \in 1..Lines : ledger[f][l] > 0 BY DEF Spent
<1>2. ledger[f][l] \in Nat /\ ledger'[f][l] \in Nat BY DEF Typed, InboxTypeOK
<1>. QED BY <1>1, <1>2 DEF Spent

(* Items and expenses only come.                                           *)
Grows ==
    /\ \A k \in Keys : item[k] # Nothing => item'[k] # Nothing
    /\ \A f \in Files : Spent(f) => Spent(f)'

(* What was true of a request, or of the run, stays so while items and     *)
(* expenses only come.                                                     *)
LEMMA RequestStaysSound ==
    ASSUME Grows, NEW w, RequestSound(w)
    PROVE  RequestSound(w)'
BY DEF Grows, RequestSound, Keys

LEMMA CarriedAreFiles ==
    ASSUME NEW m \in Mails
    PROVE  CarriedBy[m] \subseteq Files
BY InboxAssumption DEF CarriedBy

LEMMA RunStaysSound ==
    ASSUME InboxInv, Grows, UNCHANGED <<run, seen>>
    PROVE  RunSound'
<1>. SUFFICES ASSUME run.pc # "idle" PROVE RunSound' BY DEF RunSound
<1>1. run.mail \in Mails /\ CarriedBy[run.mail] \subseteq Files
    BY CarriedAreFiles DEF InboxInv, RunSound
<1>2. run.left \in Seq(Files) BY DEF InboxInv, Typed, RunRows
<1>3. LeftCoversRest => LeftCoversRest'
    BY <1>1 DEF Grows, Keys, LeftCoversRest
<1>4. ASSUME run.left # <<>>
      PROVE  Head(run.left) \in Files
    BY <1>2, <1>4
<1>5. Present(CarriedBy[run.mail]) => Present(CarriedBy[run.mail])'
    BY <1>1 DEF Grows, Keys, Present
<1>6. run.pc \in AtFile => LeftCoversRest' /\ Head(run.left) \in Files
    BY <1>3, <1>4 DEF InboxInv, RunSound, LeftCoversRest
<1>7. /\ run.pc \in Writing \cup {"expenses", "finish"} => item'[Head(run.left)] # Nothing
      /\ run.pc \in Writing /\ run.done > 0 => Spent(Head(run.left))'
      /\ run.pc = "finish" /\ run.verdict = "book" => Spent(Head(run.left))'
    BY <1>6 DEF InboxInv, RunSound, Grows, Keys, AtFile, Writing
<1>8. run.pc = "mark" => \/ item'[run.mail] # Nothing
                         \/ CarriedBy[run.mail] # {} /\ Present(CarriedBy[run.mail])'
    BY <1>1, <1>5 DEF InboxInv, RunSound, Grows, Keys
<1>. QED BY <1>6, <1>7, <1>8 DEF InboxInv, RunSound

(* A step that writes no item and no expense.                              *)
LEMMA Unwritten ==
    ASSUME InboxInv, UNCHANGED <<item, ledger>>
    PROVE  Grows /\ RowsSound'
BY DEF Grows, InboxInv, RowsSound, BookedMeansSpent, Spent

(* A run that is not writing expenses is nobody's rival.                   *)
LEMMA RunAside ==
    ASSUME OneBooks, UNCHANGED <<ledger, crossed, clerk>>, run'.pc \notin Writing
    PROVE  OneBooks'
<1>1. \A f \in Files : ~BookingByPoller(f)'
    BY DEF BookingByPoller, Writing
<1>2. \A f, cs : BookingByClerk(f, cs)' = BookingByClerk(f, cs)
    BY DEF BookingByClerk
<1>. QED BY <1>1, <1>2 DEF OneBooks, Alone

(* The run goes on, or ends, and writes no item and no expense.            *)
LEMMA RunMoves ==
    ASSUME InboxInv, UNCHANGED <<item, ledger, crossed, clerk>>,
           Typed', RunSound', run'.pc \notin Writing
    PROVE  InboxInv'
<1>1. RowsSound' BY Unwritten
<1>2. ClerksSound' BY Unwritten, RequestStaysSound DEF InboxInv, ClerksSound
<1>3. OneBooks' BY RunAside DEF InboxInv
<1>. QED BY <1>1, <1>2, <1>3 DEF InboxInv

LEMMA Stutters ==
    ASSUME UNCHANGED <<seen, item, unrecorded>>
    PROVE  Keeps
BY DEF Keeps, Promised!postVars, OnFile

(* The step to the next mail: one of the rest is in hand, or none.         *)
LEMMA ProceedSound ==
    ASSUME NEW rest \in SUBSET Mails, rest \cap seen' = {}, Proceed(rest)
    PROVE  run' \in RunRows /\ RunSound' /\ run'.pc \notin Writing
<1>1. CASE run' = RunIdle
    BY <1>1, IdleTyped DEF RunIdle, RunSound, Writing
<1>2. ASSUME NEW m \in rest,
             run' = [RunIdle EXCEPT !.pc = "mail", !.mail = m, !.todo = rest \ {m}]
      PROVE  run' \in RunRows /\ RunSound' /\ run'.pc \notin Writing
    <2>1. /\ run'.pc = "mail" /\ run'.mail = m /\ run'.todo = rest \ {m}
          /\ run' \in RunRows /\ run'.done = RunIdle.done
        BY <1>2, IdleTyped DEF RunRows
    <2>2. RunIdle.done = 0 BY DEF RunIdle
    <2>. QED BY <1>2, <2>1, <2>2 DEF RunSound, AtFile, Writing
<1>. QED BY <1>1, <1>2 DEF Proceed

LEMMA PollStartStep ==
    ASSUME InboxInv, PollStart
    PROVE  InboxInv' /\ Keeps
<1>1. Unread \in SUBSET Mails /\ Unread \cap seen' = {} /\ Proceed(Unread)
    BY DEF PollStart, Unread
<1>2. run' \in RunRows /\ RunSound' /\ run'.pc \notin Writing
    BY <1>1, ProceedSound
<1>3. UNCHANGED <<item, ledger, crossed, clerk, seen, attempts, unrecorded, faults>>
    BY DEF PollStart, StaffAside
<1>4. Typed' BY <1>2, <1>3 DEF InboxInv, Typed, InboxTypeOK
<1>. QED BY <1>2, <1>3, <1>4, RunMoves, Stutters

(* On to the next attachment, when the one in hand is on file.             *)
LEMMA NextAttachmentSound ==
    ASSUME InboxInv, run.pc \in AtFile, NextAttachment, Grows,
           item'[Head(run.left)] # Nothing, UNCHANGED seen
    PROVE  run' \in RunRows /\ RunSound' /\ run'.pc \notin Writing
<1>1. /\ run \in RunRows /\ run.mail \in Mails \ seen /\ LeftCoversRest
      /\ run.todo \cap seen = {} /\ run.mail \notin run.todo
      /\ run.left \in Seq(Files) /\ run.left # <<>>
    BY DEF InboxInv, Typed, RunSound, AtFile, RunRows, LeftCoversRest
<1>2. CarriedBy[run.mail] \subseteq Files BY <1>1, CarriedAreFiles
<1>3. \A h \in CarriedBy[run.mail] :
          item'[h] # Nothing \/ \E i \in 2..Len(run.left) : run.left[i] = h
    <2>. TAKE h \in CarriedBy[run.mail]
    <2>1. CASE item[h] # Nothing BY <1>2, <2>1 DEF Grows, Keys
    <2>2. ASSUME NEW i \in 1..Len(run.left), run.left[i] = h
          PROVE  item'[h] # Nothing \/ \E j \in 2..Len(run.left) : run.left[j] = h
        <3>1. CASE i = 1 BY <1>1, <2>2, <3>1
        <3>2. CASE i # 1 BY <1>1, <2>2, <3>2
        <3>. QED BY <3>1, <3>2
    <2>. QED BY <1>1, <2>1, <2>2 DEF LeftCoversRest
<1>4. CASE Len(run.left) = 1
    <2>0. RunIdle.done = 0 BY DEF RunIdle
    <2>1. /\ run'.pc = "mark" /\ run'.mail = run.mail /\ run'.todo = run.todo
          /\ run' \in RunRows /\ run'.done = 0
        BY <1>1, <1>4, <2>0, IdleTyped DEF NextAttachment, RunRows
    <2>2. Present(CarriedBy[run.mail])' BY <1>3, <1>4, <2>1 DEF Present
    <2>3. CarriedBy[run.mail] # {}
        <3>1. /\ AttachmentsOf[run.mail] \in Seq(Files) /\ AttachmentsOf[run.mail] # <<>>
              /\ run.mail \notin Poison
            BY <1>1, InboxAssumption DEF LeftCoversRest
        <3>2. 1 \in DOMAIN AttachmentsOf[run.mail] BY <3>1
        <3>. QED BY <1>1, <3>1, <3>2 DEF CarriedBy
    <2>. QED BY <1>1, <2>1, <2>2, <2>3 DEF RunSound, AtFile, Writing
<1>5. CASE Len(run.left) # 1
    <2>1. /\ run'.pc = "look" /\ run'.mail = run.mail /\ run'.todo = run.todo
          /\ run'.left = Tail(run.left) /\ run'.done = 0
        BY <1>5 DEF NextAttachment, RunIdle
    <2>2. /\ Tail(run.left) \in Seq(Files) /\ Tail(run.left) # <<>>
          /\ Len(Tail(run.left)) = Len(run.left) - 1
          /\ \A i \in 2..Len(run.left) : Tail(run.left)[i - 1] = run.left[i]
        BY <1>1, <1>5, TailShifts
    <2>3. run' \in RunRows
        BY <1>1, <1>5, <2>2, IdleTyped DEF NextAttachment, RunRows, AtFile
    <2>4. \A h \in CarriedBy[run.mail] :
             item'[h] # Nothing \/ \E i \in 1..Len(run'.left) : run'.left[i] = h
        <3>. TAKE h \in CarriedBy[run.mail]
        <3>1. ASSUME NEW i \in 2..Len(run.left), run.left[i] = h
              PROVE  \E j \in 1..Len(run'.left) : run'.left[j] = h
            <4>1. i - 1 \in 1..Len(run'.left) /\ run'.left[i - 1] = h
                BY <1>1, <2>1, <2>2, <3>1
            <4>. QED BY <4>1
        <3>. QED BY <1>3, <3>1
    <2>5. LeftCoversRest'
        BY <1>1, <2>1, <2>2, <2>4 DEF LeftCoversRest, CarriedBy
    <2>. QED BY <1>1, <2>1, <2>3, <2>5 DEF RunSound, Writing
<1>. QED BY <1>4, <1>5

(* What the run has in hand at a file.                                     *)
LEMMA InHand ==
    ASSUME InboxInv, run.pc \in AtFile
    PROVE  /\ run \in RunRows /\ run.mail \in Mails \ seen /\ LeftCoversRest
           /\ run.todo \cap seen = {} /\ run.mail \notin run.todo
           /\ run.left \in Seq(Files) /\ Head(run.left) \in Files
           /\ Head(run.left) \in Keys
<1>1. /\ run \in RunRows /\ run.mail \in Mails \ seen /\ LeftCoversRest
      /\ run.todo \cap seen = {} /\ run.mail \notin run.todo
      /\ run.left \in Seq(Files) /\ run.left # <<>>
    BY DEF InboxInv, Typed, RunSound, AtFile, RunRows, LeftCoversRest
<1>2. Head(run.left) \in Files BY <1>1
<1>. QED BY <1>1, <1>2 DEF Keys

(* The run stays with the file it has in hand.                             *)
LEMMA SameFile ==
    ASSUME InboxInv, run.pc \in AtFile, Grows, UNCHANGED seen,
           run'.mail = run.mail, run'.todo = run.todo, run'.left = run.left
    PROVE  /\ run'.mail \in Mails \ seen'
           /\ run'.todo \cap seen' = {} /\ run'.mail \notin run'.todo
           /\ LeftCoversRest'
           /\ item[Head(run.left)] # Nothing => item'[Head(run'.left)] # Nothing
           /\ Spent(Head(run.left)) => Spent(Head(run.left))'
<1>1. CarriedBy[run.mail] \subseteq Files /\ LeftCoversRest /\ Head(run.left) \in Files
    BY InHand, CarriedAreFiles
<1>2. LeftCoversRest' BY <1>1 DEF Grows, Keys, LeftCoversRest
<1>3. Spent(Head(run.left)) => Spent(Head(run.left))' BY <1>1 DEF Grows
<1>. QED BY <1>1, <1>2, <1>3, InHand DEF Grows, Keys

LEMMA AttemptsForgotten ==
    ASSUME InboxInv, run.pc \in AtFile, NextAttachment
    PROVE  attempts' \in [Mails -> 0..Attempts]
<1>1. attempts \in [Mails -> 0..Attempts] BY DEF InboxInv, Typed, InboxTypeOK
<1>2. run.mail \in Mails /\ 0 \in 0..Attempts BY InHand, InboxAssumption
<1>3. UNCHANGED attempts \/ attempts' = [attempts EXCEPT ![run.mail] = 0]
    BY DEF NextAttachment
<1>. QED BY <1>1, <1>2, <1>3

LEMMA LookUpHashStep ==
    ASSUME InboxInv, LookUpHash
    PROVE  InboxInv' /\ Keeps
<1>1. /\ run.pc = "look" /\ run.pc \in AtFile
      /\ UNCHANGED <<item, ledger, crossed, clerk, seen, unrecorded, faults>>
    BY DEF LookUpHash, StaffAside, AtFile
<1>2. Grows /\ Keeps BY <1>1, Unwritten, Stutters
<1>3. attempts' \in [Mails -> 0..Attempts]
    <2>1. UNCHANGED attempts \/ NextAttachment BY DEF LookUpHash
    <2>. QED BY <1>1, <2>1, AttemptsForgotten DEF InboxInv, Typed, InboxTypeOK
<1>4. run' \in RunRows /\ RunSound' /\ run'.pc \notin Writing
    <2>1. CASE NextAttachment /\ item[Head(run.left)] # Nothing
        BY <1>1, <1>2, <2>1, NextAttachmentSound
    <2>2. ASSUME NEW p \in {"scan", "expenses"}, run' = [run EXCEPT !.pc = p],
                 p = "expenses" => item[Head(run.left)] # Nothing
          PROVE  run' \in RunRows /\ RunSound' /\ run'.pc \notin Writing
        <3>1. /\ run' \in RunRows /\ run'.pc = p /\ run'.mail = run.mail
              /\ run'.todo = run.todo /\ run'.left = run.left
              /\ run'.done = run.done /\ run.done = 0
            BY <1>1, <2>2, InHand DEF RunRows, AtFile, InboxInv, RunSound, Writing
        <3>. QED BY <1>1, <1>2, <2>2, <3>1, SameFile DEF RunSound, Writing
    <2>. QED BY <2>1, <2>2 DEF LookUpHash, Interrupted, Nothing
<1>5. Typed' BY <1>1, <1>3, <1>4 DEF InboxInv, Typed, InboxTypeOK
<1>. QED BY <1>1, <1>2, <1>4, <1>5, RunMoves

LEMMA ReadExpensesStep ==
    ASSUME InboxInv, ReadExpenses
    PROVE  InboxInv' /\ Keeps
<1>1. /\ run.pc = "expenses" /\ run.pc \in AtFile
      /\ UNCHANGED <<item, ledger, crossed, clerk, seen, attempts, unrecorded, faults>>
    BY DEF ReadExpenses, StaffAside, AtFile
<1>2. Grows /\ Keeps BY <1>1, Unwritten, Stutters
<1>3. /\ run' \in RunRows /\ run'.pc = "finish" /\ run'.mail = run.mail
      /\ run'.todo = run.todo /\ run'.left = run.left
      /\ run'.verdict = "book" => Spent(Head(run.left))
      /\ run'.done = run.done /\ run.done = 0
    BY <1>1, InHand DEF ReadExpenses, RunRows, AtFile, InboxInv, RunSound, Writing
<1>4. item[Head(run.left)] # Nothing BY <1>1 DEF InboxInv, RunSound
<1>5. RunSound' /\ run'.pc \notin Writing
    BY <1>1, <1>2, <1>3, <1>4, SameFile DEF RunSound, Writing
<1>6. Typed' BY <1>1, <1>3 DEF InboxInv, Typed, InboxTypeOK
<1>. QED BY <1>1, <1>2, <1>5, <1>6, RunMoves

LEMMA ScanStep ==
    ASSUME InboxInv, Scan
    PROVE  InboxInv' /\ Keeps
<1>1. /\ run.pc = "scan" /\ run.pc \in AtFile
      /\ UNCHANGED <<item, ledger, crossed, clerk, seen, attempts, unrecorded, faults>>
    BY DEF Scan, StaffAside, AtFile
<1>2. Grows /\ Keeps BY <1>1, Unwritten, Stutters
<1>3. /\ run' \in RunRows /\ run'.pc = "create" /\ run'.mail = run.mail
      /\ run'.todo = run.todo /\ run'.left = run.left
      /\ run'.done = run.done /\ run.done = 0
    BY <1>1, InHand DEF Scan, RunRows, AtFile, InboxInv, RunSound, Writing
<1>4. RunSound' /\ run'.pc \notin Writing
    BY <1>1, <1>2, <1>3, SameFile DEF RunSound, Writing
<1>5. Typed' BY <1>1, <1>3 DEF InboxInv, Typed, InboxTypeOK
<1>. QED BY <1>1, <1>2, <1>4, <1>5, RunMoves

(* A mail that leaves the inbox is on record.                              *)
LEMMA MarkProcessedStep ==
    ASSUME InboxInv, MarkProcessed
    PROVE  InboxInv' /\ Keeps
<1>1. /\ run.pc = "mark" /\ seen' = seen \cup {run.mail} /\ Proceed(run.todo)
      /\ UNCHANGED <<item, ledger, crossed, clerk, attempts, unrecorded, faults>>
    BY DEF MarkProcessed, StaffAside, NextMail
<1>2. /\ run.mail \in Mails \ seen /\ run.todo \in SUBSET Mails
      /\ run.todo \cap seen' = {}
      /\ \/ item[run.mail] # Nothing
         \/ CarriedBy[run.mail] # {} /\ Present(CarriedBy[run.mail])
    BY <1>1 DEF InboxInv, Typed, RunRows, RunSound
<1>3. run' \in RunRows /\ RunSound' /\ run'.pc \notin Writing
    BY <1>1, <1>2, ProceedSound
<1>4. Typed' BY <1>1, <1>2, <1>3 DEF InboxInv, Typed, InboxTypeOK
<1>5. Promised!Take(run.mail)
    <2>1. CarriedBy[run.mail] \subseteq Files BY <1>2, CarriedAreFiles
    <2>2. Promised!OnRecord(run.mail, OnFile)
        BY <1>2, <2>1 DEF Promised!OnRecord, OnFile, Present
    <2>3. UNCHANGED OnFile BY <1>1 DEF OnFile
    <2>. QED BY <1>1, <1>2, <2>2, <2>3 DEF Promised!Take
<1>6. Keeps BY <1>2, <1>5 DEF Keeps, Promised!PostNext
<1>. QED BY <1>1, <1>3, <1>4, <1>6, RunMoves

-----------------------------------------------------------------------------
(* One item is written: it stays, or is one from now on, and the postbox    *)
(* has one more record at most.                                             *)
LEMMA ItemWritten ==
    ASSUME InboxInv, NEW k \in Keys, NEW row \in ItemRows, row.status # "none",
           k \in Files /\ row.status = "booked" => Spent(k),
           item' = [item EXCEPT ![k] = row],
           UNCHANGED <<seen, ledger, unrecorded>>
    PROVE  /\ Grows /\ RowsSound' /\ Keeps
           /\ item' \in [Keys -> ItemRows] /\ item'[k] # Nothing
<1>1. item \in [Keys -> ItemRows] BY DEF InboxInv, Typed, InboxTypeOK, Keys
<1>2. row # Nothing BY DEF Nothing
<1>3. item' \in [Keys -> ItemRows] /\ item'[k] # Nothing BY <1>1, <1>2
<1>4. Grows BY <1>1, <1>2 DEF Grows, Spent
<1>5. RowsSound'
    <2>1. \A h \in Keys : item'[h].status = "none" => item'[h] = Nothing
        BY <1>1 DEF InboxInv, RowsSound
    <2>2. \A f \in Files : Spent(f)' => item'[f] # Nothing
        BY <1>4 DEF InboxInv, RowsSound, Grows, Spent, Keys
    <2>3. BookedMeansSpent'
        BY <1>1 DEF InboxInv, RowsSound, BookedMeansSpent, Spent, Keys
    <2>. QED BY <2>1, <2>2, <2>3 DEF RowsSound
<1>6. Keeps
    <2>1. OnFile' = OnFile \cup {k}
        BY <1>1, <1>2 DEF OnFile, Keys
    <2>2. k \in Mails \cup Files BY DEF Keys
    <2>3. Promised!Record BY <2>1, <2>2 DEF Promised!Record
    <2>. QED BY <2>3 DEF Keeps, Promised!PostNext
<1>. QED BY <1>3, <1>4, <1>5, <1>6

(* The poller writes the item it has in hand and goes on.                  *)
LEMMA WrittenAndOn ==
    ASSUME InboxInv, run.pc \in AtFile, NextAttachment,
           NEW row \in ItemRows, row.status # "none",
           row.status = "booked" => Spent(Head(run.left)),
           item' = [item EXCEPT ![Head(run.left)] = row],
           UNCHANGED <<seen, ledger, unrecorded, crossed, clerk, faults>>
    PROVE  InboxInv' /\ Keeps
<1>1. /\ Grows /\ RowsSound' /\ Keeps /\ item'[Head(run.left)] # Nothing
      /\ item' \in [Keys -> ItemRows]
    BY InHand, ItemWritten
<1>2. run' \in RunRows /\ RunSound' /\ run'.pc \notin Writing
    BY <1>1, NextAttachmentSound
<1>3. Typed'
    BY <1>1, <1>2, AttemptsForgotten DEF InboxInv, Typed, InboxTypeOK, Keys
<1>4. ClerksSound' BY <1>1, RequestStaysSound DEF InboxInv, ClerksSound
<1>5. OneBooks' BY <1>2, RunAside DEF InboxInv
<1>. QED BY <1>1, <1>2, <1>3, <1>4, <1>5 DEF InboxInv

LEMMA RowInHand ==
    ASSUME InboxInv, NEW k \in Keys
    PROVE  /\ item[k] \in ItemRows
           /\ item[k] # Nothing => item[k].status # "none"
           /\ k \in Files /\ item[k].status = "booked" => Spent(k)
BY DEF InboxInv, Typed, InboxTypeOK, Keys, RowsSound, BookedMeansSpent

LEMMA FinishInterruptedStep ==
    ASSUME InboxInv, FinishInterrupted
    PROVE  InboxInv' /\ Keeps
<1>. DEFINE f == Head(run.left)
            row == IF run.verdict = "book" THEN [item[f] EXCEPT !.status = "booked"]
                   ELSE [item[f] EXCEPT !.reason = "parse_failed"]
<1>1. /\ run.pc = "finish" /\ run.pc \in AtFile /\ NextAttachment
      /\ UNCHANGED <<ledger, crossed, clerk, seen, unrecorded, faults>>
    BY DEF FinishInterrupted, StaffAside, AtFile
<1>2. item[f] # Nothing /\ (run.verdict = "book" => Spent(f))
    BY <1>1 DEF InboxInv, RunSound
<1>3. f \in Keys /\ f \in Files BY <1>1, InHand
<1>4. /\ item[f] \in ItemRows /\ item[f].status # "none"
      /\ item[f].status = "booked" => Spent(f)
    BY <1>2, <1>3, RowInHand
<1>5. item' = [item EXCEPT ![f] = row] BY DEF FinishInterrupted
<1>6. row \in ItemRows /\ row.status # "none" /\ (row.status = "booked" => Spent(f))
    BY <1>2, <1>4 DEF ItemRows, Reasons
<1>. HIDE DEF row
<1>. QED BY <1>1, <1>5, <1>6, WrittenAndOn

LEMMA CloseItemStep ==
    ASSUME InboxInv, CloseItem
    PROVE  InboxInv' /\ Keeps
<1>. DEFINE f == Head(run.left)
            row == IF run.done = 0 THEN [item[f] EXCEPT !.reason = "parse_failed"]
                   ELSE [status |-> "booked", reason |-> "null"]
<1>1. /\ run.pc = "close" /\ run.pc \in AtFile /\ NextAttachment
      /\ UNCHANGED <<ledger, crossed, clerk, seen, unrecorded, faults>>
    BY DEF CloseItem, StaffAside, AtFile
<1>2. item[f] # Nothing /\ (run.done # 0 => Spent(f))
    BY <1>1, InHand DEF InboxInv, RunSound, RunRows, Writing
<1>3. f \in Keys /\ f \in Files BY <1>1, InHand
<1>4. /\ item[f] \in ItemRows /\ item[f].status # "none"
      /\ item[f].status = "booked" => Spent(f)
    BY <1>2, <1>3, RowInHand
<1>5. item' = [item EXCEPT ![f] = row] BY DEF CloseItem
<1>6. row \in ItemRows /\ row.status # "none" /\ (row.status = "booked" => Spent(f))
    BY <1>2, <1>4 DEF ItemRows, Reasons
<1>. HIDE DEF row
<1>. QED BY <1>1, <1>5, <1>6, WrittenAndOn

(* A new item has no expenses, and nobody else is writing any.             *)
LEMMA CreateItemStep ==
    ASSUME InboxInv, CreateItem
    PROVE  InboxInv' /\ Keeps
<1>. DEFINE f == Head(run.left)
            row == [status |-> "review",
                    reason |-> IF run.verdict = "book" THEN "null" ELSE run.verdict]
<1>1. /\ run.pc = "create" /\ run.pc \in AtFile /\ item[f] = Nothing
      /\ UNCHANGED <<ledger, crossed, clerk, seen, unrecorded, faults>>
      /\ item' = [item EXCEPT ![f] = row]
    BY DEF CreateItem, StaffAside, AtFile
<1>2. f \in Keys /\ f \in Files /\ run \in RunRows BY <1>1, InHand
<1>3. row \in ItemRows /\ row.status = "review"
    BY <1>2 DEF RunRows, ItemRows, Reasons
<1>. HIDE DEF row
<1>4. CASE run.verdict # "book"
    <2>1. NextAttachment BY <1>4 DEF CreateItem
    <2>. QED BY <1>1, <1>3, <2>1, WrittenAndOn
<1>5. CASE run.verdict = "book"
    <2>1. /\ run' = [run EXCEPT !.pc = "lines", !.line = 1] /\ UNCHANGED attempts
        BY <1>5 DEF CreateItem
    <2>2. /\ Grows /\ RowsSound' /\ Keeps /\ item'[f] # Nothing
          /\ item' \in [Keys -> ItemRows]
        BY <1>1, <1>2, <1>3, ItemWritten
    <2>3. /\ run' \in RunRows /\ run'.pc = "lines" /\ run'.mail = run.mail
          /\ run'.todo = run.todo /\ run'.left = run.left
          /\ run'.line = 1 /\ run'.done = run.done /\ run.done = 0
        BY <1>1, <1>2, <2>1 DEF RunRows, AtFile, InboxInv, RunSound, Writing
    <2>4. 1 \in 1..Lines BY InboxAssumption
    <2>5. RunSound'
        BY <1>1, <2>2, <2>3, <2>4, SameFile DEF RunSound, Writing
    <2>6. Typed' BY <1>1, <2>1, <2>2, <2>3 DEF InboxInv, Typed, InboxTypeOK, Keys
    <2>7. ClerksSound' BY <1>1, <2>2, RequestStaysSound DEF InboxInv, ClerksSound
    <2>8. OneBooks'
        <3>1. \A l \in 1..Lines : ledger[f][l] = 0
            <4>1. ~Spent(f) BY <1>1, <1>2 DEF InboxInv, RowsSound
            <4>2. ledger[f] \in [1..Lines -> Nat]
                BY <1>2 DEF InboxInv, Typed, InboxTypeOK
            <4>. TAKE l \in 1..Lines
            <4>3. ledger[f][l] \in Nat BY <4>2
            <4>4. ~(ledger[f][l] > 0) BY <4>1 DEF Spent
            <4>. QED BY <4>3, <4>4
        <3>2. ~BookingByClerk(f, Clerks)
            BY <1>1 DEF BookingByClerk, InboxInv, ClerksSound, RequestSound
        <3>4. \A e \in Files : BookingByPoller(e)' => e = f
            BY <2>3 DEF BookingByPoller
        <3>5. \A e, cs : BookingByClerk(e, cs)' = BookingByClerk(e, cs)
            BY <1>1 DEF BookingByClerk
        <3>6. \A e : \A c \in Clerks : Alone(e, clerk[c])' = Alone(e, clerk[c])
            BY <1>1 DEF Alone
        <3>. SUFFICES ASSUME NEW e \in Files \ crossed
                      PROVE  /\ \A l \in 1..Lines : ledger[e][l] <= 1
                             /\ BookingByPoller(e)' =>
                                   Alone(e, run)' /\ ~BookingByClerk(e, Clerks)
                             /\ \A c \in Clerks : BookingByClerk(e, {c}) =>
                                   Alone(e, clerk[c]) /\ ~BookingByClerk(e, Clerks \ {c})
            BY <1>1, <3>5, <3>6 DEF OneBooks
        <3>7. ASSUME BookingByPoller(e)'
              PROVE  Alone(e, run)' /\ ~BookingByClerk(e, Clerks)
            <4>1. e = f BY <3>4, <3>7
            <4>. QED BY <1>1, <2>3, <3>1, <3>2, <4>1 DEF Alone
        <3>. QED BY <3>7 DEF InboxInv, OneBooks
    <2>. QED BY <2>2, <2>5, <2>6, <2>7, <2>8 DEF InboxInv
<1>. QED BY <1>4, <1>5

(* One line of a file is written, or passed over.                          *)
LineWritten(f, l) == ledger' = [ledger EXCEPT ![f][l] = @ + 1]

LEMMA LedgerGrows ==
    ASSUME InboxInv, NEW f \in Files, NEW l \in 1..Lines, item[f] # Nothing,
           UNCHANGED item, LineWritten(f, l)
    PROVE  /\ ledger' \in [Files -> [1..Lines -> Nat]]
           /\ Grows /\ RowsSound' /\ Spent(f)'
           /\ \A e \in Files : \A k \in 1..Lines :
                 ledger'[e][k] = IF e = f /\ k = l THEN ledger[e][k] + 1 ELSE ledger[e][k]
<1>1. /\ ledger \in [Files -> [1..Lines -> Nat]]
      /\ \A e \in Files : ledger[e] \in [1..Lines -> Nat]
    BY DEF InboxInv, Typed, InboxTypeOK
<1>2. ledger' = [ledger EXCEPT ![f] = [ledger[f] EXCEPT ![l] = ledger[f][l] + 1]]
    BY DEF LineWritten
<1>3. \A e \in Files : \A k \in 1..Lines : ledger[e][k] \in Nat
    BY <1>1
<1>4. [ledger[f] EXCEPT ![l] = ledger[f][l] + 1] \in [1..Lines -> Nat]
    BY <1>1, <1>3
<1>5. ledger' \in [Files -> [1..Lines -> Nat]] BY <1>1, <1>2, <1>4
<1>6. \A e \in Files : \A k \in 1..Lines :
         ledger'[e][k] = IF e = f /\ k = l THEN ledger[e][k] + 1 ELSE ledger[e][k]
    BY <1>1, <1>2
<1>7. \A e \in Files : Spent(e) => Spent(e)' BY <1>3, <1>6 DEF Spent
<1>8. Spent(f)'
    <2>1. ledger'[f][l] > 0 BY <1>3, <1>6
    <2>. QED BY <2>1 DEF Spent
<1>9. \A e \in Files : Spent(e)' => Spent(e) \/ e = f BY <1>6 DEF Spent
<1>10. Grows BY <1>7 DEF Grows
<1>11. RowsSound'
    BY <1>7, <1>9 DEF InboxInv, RowsSound, BookedMeansSpent
<1>. QED BY <1>5, <1>6, <1>8, <1>10, <1>11

LEMMA AddLineStep ==
    ASSUME InboxInv, AddLine
    PROVE  InboxInv' /\ Keeps
<1>1. /\ run.pc = "lines" /\ run.pc \in AtFile
      /\ UNCHANGED <<item, crossed, clerk, seen, attempts, unrecorded, faults>>
    BY DEF AddLine, StaffAside, AtFile
<1>2. PICK f \in Files, line \in 1..Lines : f = Head(run.left) /\ line = run.line
    BY <1>1, InHand DEF InboxInv, RunSound
<1>3. /\ run \in RunRows /\ item[f] # Nothing
      /\ run.done > 0 => Spent(f)
      /\ run.done \in Nat
    BY <1>1, <1>2, InHand DEF InboxInv, RunSound, RunRows, Writing
<1>4. PICK n \in {0, 1} : /\ run' = AfterLine(run, n)
                          /\ IF n = 1 THEN LineWritten(f, line) ELSE UNCHANGED ledger
    BY <1>2 DEF AddLine, LineWritten
<1>5. /\ run' \in RunRows /\ run'.pc = (IF line = Lines THEN "close" ELSE "lines")
      /\ run'.mail = run.mail /\ run'.todo = run.todo /\ run'.left = run.left
      /\ run'.line = line + 1 /\ run'.done = run.done + n
    <2>. USE <1>2, <1>3, <1>4
    <2>1. run' = [run EXCEPT !.pc = IF line = Lines THEN "close" ELSE "lines",
                             !.line = line + 1, !.done = run.done + n]
        BY DEF AfterLine
    <2>2. line + 1 \in Nat /\ run.done + n \in Nat OBVIOUS
    <2>. QED BY <2>1, <2>2 DEF RunRows, AtFile
<1>6. /\ ledger' \in [Files -> [1..Lines -> Nat]] /\ Grows /\ RowsSound'
      /\ n = 1 => Spent(f)'
      /\ \A e \in Files : \A k \in 1..Lines :
            ledger'[e][k] = IF n = 1 /\ e = f /\ k = line
                            THEN ledger[e][k] + 1 ELSE ledger[e][k]
    <2>1. CASE n = 1
        <3>1. LineWritten(f, line) /\ UNCHANGED item BY <1>1, <1>4, <2>1
        <3>. QED BY <1>2, <1>3, <2>1, <3>1, LedgerGrows
    <2>2. CASE n = 0
        BY <1>1, <1>4, <2>2, Unwritten DEF InboxInv, Typed, InboxTypeOK
    <2>. QED BY <2>1, <2>2
<1>7. Typed' BY <1>1, <1>5, <1>6 DEF InboxInv, Typed, InboxTypeOK
<1>8. RunSound'
    <2>1. run'.done > 0 => Spent(f)' BY <1>2, <1>3, <1>5, <1>6 DEF Grows
    <2>2. run'.pc = "lines" => run'.line \in 1..Lines
        BY <1>2, <1>3, <1>5, InboxAssumption
    <2>. QED BY <1>1, <1>2, <1>3, <1>5, <1>6, <2>1, <2>2, SameFile DEF RunSound, Writing
<1>9. ClerksSound' BY <1>1, <1>6, RequestStaysSound DEF InboxInv, ClerksSound
<1>10. OneBooks'
    <2>1. \A e \in Files : BookingByPoller(e)' <=> e = f
        BY <1>2, <1>5 DEF BookingByPoller
    <2>2. \A e \in Files : BookingByPoller(e) <=> e = f
        BY <1>1, <1>2 DEF BookingByPoller
    <2>3. \A e, cs : BookingByClerk(e, cs)' = BookingByClerk(e, cs)
        BY <1>1 DEF BookingByClerk
    <2>4. ASSUME NEW e \in Files \ crossed, e # f
          PROVE  /\ \A l \in 1..Lines : ledger'[e][l] <= 1
                 /\ \A c \in Clerks : BookingByClerk(e, {c}) =>
                      Alone(e, clerk[c])' /\ ~BookingByClerk(e, Clerks \ {c})
        <3>1. \A k \in 1..Lines : ledger'[e][k] = ledger[e][k] BY <1>6, <2>4
        <3>2. ASSUME NEW c \in Clerks, Alone(e, clerk[c])
              PROVE  Alone(e, clerk[c])'
            <4>1. clerk[c].pc = "lines" => clerk[c].line \in 1..Lines
                BY DEF InboxInv, ClerksSound, RequestSound
            <4>2. clerk[c].pc = "lines" =>
                    \A l \in clerk[c].line..Lines : l \in 1..Lines /\ ledger[e][l] = 0
                BY <3>2, <4>1, InboxAssumption DEF Alone
            <4>. QED BY <1>1, <3>1, <4>2 DEF Alone
        <3>. QED BY <2>4, <3>1, <3>2 DEF InboxInv, OneBooks
    <2>5. ASSUME f \notin crossed
          PROVE  /\ \A l \in 1..Lines : ledger'[f][l] <= 1
                 /\ Alone(f, run)' /\ ~BookingByClerk(f, Clerks)
        <3>1. /\ \A l \in 1..Lines : ledger[f][l] <= 1
              /\ Alone(f, run) /\ ~BookingByClerk(f, Clerks)
            BY <1>2, <1>3, <2>2, <2>5 DEF InboxInv, OneBooks
        <3>2. \A l \in line..Lines : ledger[f][l] = 0 BY <1>1, <1>2, <3>1 DEF Alone
        <3>3. \A l \in 1..Lines : ledger'[f][l] <= 1
            <4>. TAKE l \in 1..Lines
            <4>1. CASE l = line
                <5>1. ledger[f][l] = 0 BY <1>2, <1>3, <3>2, <4>1, InboxAssumption
                <5>. QED BY <1>2, <1>3, <1>6, <5>1
            <4>2. CASE l # line BY <1>2, <1>3, <1>6, <3>1, <4>2
            <4>. QED BY <4>1, <4>2
        <3>4. \A l \in (line + 1)..Lines : ledger'[f][l] = 0
            <4>. TAKE l \in (line + 1)..Lines
            <4>1. l \in 1..Lines /\ l \in line..Lines /\ l # line
                BY InboxAssumption
            <4>. QED BY <1>6, <3>2, <4>1
        <3>. QED BY <1>5, <3>1, <3>3, <3>4 DEF Alone
    <2>6. ASSUME ~BookingByClerk(f, Clerks), NEW c \in Clerks
          PROVE  ~BookingByClerk(f, {c})
        BY <2>6 DEF BookingByClerk
    <2>. SUFFICES ASSUME NEW e \in Files \ crossed
                  PROVE  /\ \A l \in 1..Lines : ledger'[e][l] <= 1
                         /\ e = f => Alone(f, run)' /\ ~BookingByClerk(e, Clerks)
                         /\ \A c \in Clerks : BookingByClerk(e, {c}) =>
                              Alone(e, clerk[c])' /\ ~BookingByClerk(e, Clerks \ {c})
        BY <1>1, <1>5, <2>1, <2>3 DEF OneBooks, Alone
    <2>. QED BY <2>4, <2>5, <2>6
<1>11. Keeps BY <1>1, Stutters
<1>. QED BY <1>6, <1>7, <1>8, <1>9, <1>10, <1>11 DEF InboxInv

(* A mail without attachments is put on file itself; of another one the     *)
(* attachments are still to come.                                          *)
LEMMA OpenMailStep ==
    ASSUME InboxInv, OpenMail
    PROVE  InboxInv' /\ Keeps
<1>1. /\ run.pc = "mail" /\ run.mail \notin Poison
      /\ UNCHANGED <<ledger, crossed, clerk, seen, unrecorded, faults>>
    BY DEF OpenMail, StaffAside
<1>2. /\ run \in RunRows /\ run.mail \in Mails \ seen /\ run.mail \in Keys
      /\ run.todo \cap seen = {} /\ run.mail \notin run.todo /\ run.done = 0
    BY <1>1 DEF InboxInv, Typed, RunSound, Keys, Writing
<1>3. /\ attempts \in [Mails -> 0..Attempts] /\ 0 \in 0..Attempts
      /\ item \in [Keys -> ItemRows]
    BY InboxAssumption DEF InboxInv, Typed, InboxTypeOK, Keys
<1>4. CASE AttachmentsOf[run.mail] = <<>>
    <2>. DEFINE row == IF item[run.mail] = Nothing
                       THEN [status |-> "review", reason |-> "other"]
                       ELSE item[run.mail]
    <2>1. /\ item' = [item EXCEPT ![run.mail] = row]
          /\ run' = [run EXCEPT !.pc = "mark"]
          /\ attempts' = [attempts EXCEPT ![run.mail] = 0]
        BY <1>4 DEF OpenMail
    <2>2. row \in ItemRows /\ row.status # "none"
        BY <1>2, <1>3, RowInHand DEF ItemRows, Reasons
    <2>3. run.mail \notin Files BY <1>2, InboxAssumption
    <2>. HIDE DEF row
    <2>4. /\ Grows /\ RowsSound' /\ Keeps /\ item'[run.mail] # Nothing
          /\ item' \in [Keys -> ItemRows]
        BY <1>1, <1>2, <2>1, <2>2, <2>3, ItemWritten
    <2>5. /\ run' \in RunRows /\ run'.pc = "mark" /\ run'.mail = run.mail
          /\ run'.todo = run.todo /\ run'.done = 0
        BY <1>2, <2>1 DEF RunRows
    <2>6. RunSound' BY <1>1, <1>2, <2>4, <2>5 DEF RunSound, AtFile, Writing
    <2>7. Typed'
        BY <1>1, <1>2, <1>3, <2>1, <2>4, <2>5 DEF InboxInv, Typed, InboxTypeOK, Keys
    <2>8. ClerksSound' BY <1>1, <2>4, RequestStaysSound DEF InboxInv, ClerksSound
    <2>9. OneBooks' BY <1>1, <2>5, RunAside DEF InboxInv, Writing
    <2>. QED BY <2>4, <2>6, <2>7, <2>8, <2>9 DEF InboxInv
<1>5. CASE AttachmentsOf[run.mail] # <<>>
    <2>1. /\ run' = [run EXCEPT !.pc = "look", !.left = AttachmentsOf[run.mail]]
          /\ UNCHANGED <<item, attempts>>
        BY <1>5 DEF OpenMail
    <2>2. AttachmentsOf[run.mail] \in Seq(Files) BY <1>2, InboxAssumption
    <2>3. /\ run' \in RunRows /\ run'.pc = "look" /\ run'.mail = run.mail
          /\ run'.todo = run.todo /\ run'.done = 0
          /\ run'.left = AttachmentsOf[run.mail]
        BY <1>2, <2>1, <2>2 DEF RunRows, AtFile
    <2>4. \A h \in CarriedBy[run.mail] :
             \E i \in 1..Len(AttachmentsOf[run.mail]) : AttachmentsOf[run.mail][i] = h
        BY <1>1, <1>2, <2>2 DEF CarriedBy
    <2>5. LeftCoversRest' BY <1>1, <1>5, <2>3, <2>4 DEF LeftCoversRest
    <2>6. RunSound' BY <1>1, <1>2, <2>3, <2>5 DEF RunSound, Writing
    <2>7. Typed' BY <1>1, <2>1, <2>3 DEF InboxInv, Typed, InboxTypeOK
    <2>8. Keeps BY <1>1, <2>1, Stutters
    <2>. QED BY <1>1, <2>1, <2>3, <2>6, <2>7, <2>8, RunMoves DEF Writing
<1>. QED BY <1>4, <1>5

(* The record of a mail that is given up: an item at most under the hash    *)
(* of the mail itself.                                                     *)
LEMMA GivenUpRecord ==
    ASSUME InboxInv, run.pc # "idle", NEW recorded \in BOOLEAN,
           UNCHANGED <<ledger, clerk>>,
           item' = [item EXCEPT ![run.mail] =
                      IF recorded /\ @ = Nothing
                        THEN [status |-> "review", reason |-> "parse_failed"] ELSE @]
    PROVE  /\ Grows /\ RowsSound' /\ ClerksSound' /\ item' \in [Keys -> ItemRows]
           /\ recorded => OnFile' = OnFile \cup {run.mail}
           /\ ~recorded => UNCHANGED OnFile
<1>1. run.mail \in Mails /\ run.mail \in Keys /\ run.mail \notin Files
    BY InboxAssumption DEF InboxInv, RunSound, Keys
<1>2. item \in [Keys -> ItemRows] BY DEF InboxInv, Typed, InboxTypeOK, Keys
<1>. DEFINE new == [status |-> "review", reason |-> "parse_failed"]
<1>3. new \in ItemRows /\ new # Nothing /\ new.status = "review"
    BY DEF ItemRows, Reasons, Nothing
<1>4. /\ item'[run.mail] = IF recorded /\ item[run.mail] = Nothing THEN new
                           ELSE item[run.mail]
      /\ \A k \in Keys \ {run.mail} : item'[k] = item[k]
      /\ item' \in [Keys -> ItemRows]
    BY <1>1, <1>2, <1>3
<1>. HIDE DEF new
<1>5. Grows BY <1>3, <1>4 DEF Grows, Spent
<1>6. RowsSound'
    <2>1. \A k \in Keys : item'[k].status = "none" => item'[k] = Nothing
        BY <1>1, <1>3, <1>4 DEF InboxInv, RowsSound
    <2>2. \A f \in Files : item'[f] = item[f] /\ Spent(f)' = Spent(f)
        BY <1>1, <1>4 DEF Keys, Spent
    <2>. QED BY <2>1, <2>2 DEF InboxInv, RowsSound, BookedMeansSpent
<1>7. ClerksSound' BY <1>5, RequestStaysSound DEF InboxInv, ClerksSound
<1>8. recorded => OnFile' = OnFile \cup {run.mail}
    BY <1>1, <1>3, <1>4 DEF OnFile, Keys
<1>9. ~recorded => UNCHANGED OnFile BY <1>4 DEF OnFile, Keys
<1>. QED BY <1>4, <1>5, <1>6, <1>7, <1>8, <1>9

LEMMA ThrownStep ==
    ASSUME InboxInv, run.pc # "idle", NEW fault \in {0, 1}, Thrown(fault)
    PROVE  InboxInv' /\ Keeps
<1>. DEFINE m == run.mail
<1>1. /\ m \in Mails \ seen /\ run.todo \in SUBSET Mails
      /\ run.todo \cap seen = {} /\ m \notin run.todo
      /\ attempts \in [Mails -> 0..Attempts] /\ 0 \in 0..Attempts
      /\ attempts[m] \in 0..Attempts /\ faults \in Nat
    BY InboxAssumption DEF InboxInv, RunSound, Typed, RunRows, InboxTypeOK
<1>2. faults' <= Faults /\ UNCHANGED <<ledger, crossed, clerk>> BY DEF Thrown
<1>3. CASE /\ attempts[m] + 1 < Attempts
           /\ attempts' = [attempts EXCEPT ![m] = @ + 1]
           /\ Proceed(run.todo) /\ faults' = faults + fault
           /\ UNCHANGED <<item, seen, unrecorded>>
    <2>1. run' \in RunRows /\ RunSound' /\ run'.pc \notin Writing
        BY <1>1, <1>3, ProceedSound
    <2>2. attempts' \in [Mails -> 0..Attempts] /\ faults' \in 0..Faults
        BY <1>1, <1>2, <1>3, InboxAssumption
    <2>3. Typed' BY <1>2, <1>3, <2>1, <2>2 DEF InboxInv, Typed, InboxTypeOK
    <2>. QED BY <1>2, <1>3, <2>1, <2>3, RunMoves, Stutters
<1>4. ASSUME NEW recorded \in BOOLEAN, faults' \in Nat,
             GiveUp(m, recorded) \/ GiveUpUnmarked(m, recorded)
      PROVE  InboxInv' /\ Keeps
    <2>1. /\ attempts' = [attempts EXCEPT ![m] = 0]
          /\ item' = [item EXCEPT ![m] =
                       IF recorded /\ @ = Nothing
                         THEN [status |-> "review", reason |-> "parse_failed"] ELSE @]
        BY <1>4 DEF GiveUp, GiveUpUnmarked
    <2>2. /\ Grows /\ RowsSound' /\ ClerksSound' /\ item' \in [Keys -> ItemRows]
          /\ recorded => OnFile' = OnFile \cup {m}
          /\ ~recorded => UNCHANGED OnFile
        BY <1>2, <2>1, GivenUpRecord
    <2>3. attempts' \in [Mails -> 0..Attempts] /\ faults' \in 0..Faults
        BY <1>1, <1>2, <1>4, <2>1, InboxAssumption
    <2>4. CASE GiveUp(m, recorded)
        <3>1. /\ seen' = seen \cup {m} /\ Proceed(run.todo)
              /\ unrecorded' = IF recorded THEN unrecorded ELSE unrecorded \cup {m}
            BY <2>4 DEF GiveUp, NextMail
        <3>2. run.todo \cap seen' = {} BY <1>1, <3>1
        <3>3. run' \in RunRows /\ RunSound' /\ run'.pc \notin Writing
            BY <1>1, <3>1, <3>2, ProceedSound
        <3>4. Typed'
            BY <1>1, <1>2, <2>2, <2>3, <3>1, <3>3 DEF InboxInv, Typed, InboxTypeOK, Keys
        <3>5. OneBooks' BY <1>2, <3>3, RunAside DEF InboxInv
        <3>6. CASE recorded
            <4>1. OnFile' = OnFile \cup {m} /\ UNCHANGED unrecorded BY <2>2, <3>1, <3>6
            <4>2. Promised!Take(m)
                BY <1>1, <3>1, <4>1 DEF Promised!Take, Promised!OnRecord
            <4>. QED BY <1>1, <2>2, <3>3, <3>4, <3>5, <4>2
                     DEF InboxInv, Keeps, Promised!PostNext
        <3>7. CASE ~recorded
            <4>1. UNCHANGED OnFile /\ unrecorded' = unrecorded \cup {m}
                BY <2>2, <3>1, <3>7
            <4>2. Promised!GiveUpOn(m) BY <1>1, <3>1, <4>1 DEF Promised!GiveUpOn
            <4>. QED BY <1>1, <2>2, <3>3, <3>4, <3>5, <4>2
                     DEF InboxInv, Keeps, Promised!PostNext
        <3>. QED BY <3>6, <3>7
    <2>5. CASE GiveUpUnmarked(m, recorded)
        <3>1. run' = RunIdle /\ UNCHANGED <<seen, unrecorded>>
            BY <2>5 DEF GiveUpUnmarked
        <3>2. run' \in RunRows /\ RunSound' /\ run'.pc \notin Writing
            BY <3>1, IdleTyped DEF RunIdle, RunSound, Writing
        <3>3. Typed'
            BY <1>2, <2>2, <2>3, <3>1, <3>2 DEF InboxInv, Typed, InboxTypeOK, Keys
        <3>4. OneBooks' BY <1>2, <3>2, RunAside DEF InboxInv
        <3>5. CASE recorded
            <4>1. m \in Mails \cup Files /\ OnFile' = OnFile \cup {m}
                BY <1>1, <2>2, <3>5
            <4>2. Promised!Record BY <3>1, <4>1 DEF Promised!Record
            <4>. QED BY <2>2, <3>2, <3>3, <3>4, <4>2
                     DEF InboxInv, Keeps, Promised!PostNext
        <3>6. CASE ~recorded
            BY <2>2, <3>1, <3>2, <3>3, <3>4, <3>6
               DEF InboxInv, Keeps, Promised!postVars
        <3>. QED BY <3>5, <3>6
    <2>. QED BY <1>4, <2>4, <2>5
<1>5. CASE attempts[m] + 1 < Attempts
    <2>1. /\ attempts' = [attempts EXCEPT ![m] = @ + 1] /\ NextMail
          /\ faults' = faults + fault /\ UNCHANGED <<item, seen, unrecorded>>
        BY <1>5 DEF Thrown
    <2>. QED BY <1>3, <1>5, <2>1 DEF NextMail
<1>6. CASE ~(attempts[m] + 1 < Attempts)
    <2>1. \E unrecordable, unmarked \in 0..1 :
             /\ faults' = faults + fault + unrecordable + unmarked
             /\ IF unmarked = 1 THEN GiveUpUnmarked(m, unrecordable = 0)
                                ELSE GiveUp(m, unrecordable = 0)
        BY <1>6 DEF Thrown
    <2>2. PICK unrecordable \in 0..1, unmarked \in 0..1 :
             /\ faults' = faults + fault + unrecordable + unmarked
             /\ IF unmarked = 1 THEN GiveUpUnmarked(m, unrecordable = 0)
                                ELSE GiveUp(m, unrecordable = 0)
        BY <2>1
    <2>3. faults' \in Nat BY <1>1, <2>2
    <2>4. PICK recorded \in BOOLEAN : recorded = (unrecordable = 0) OBVIOUS
    <2>5. GiveUp(m, recorded) \/ GiveUpUnmarked(m, recorded) BY <2>2, <2>4
    <2>. QED BY <1>4, <2>3, <2>5
<1>. QED BY <1>5, <1>6

LEMMA MailFailsStep ==
    ASSUME InboxInv, MailFails
    PROVE  InboxInv' /\ Keeps
<1>1. run.pc # "idle" /\ \E fault \in {0, 1} : Thrown(fault)
    BY DEF MailFails
<1>. QED BY <1>1, ThrownStep

-----------------------------------------------------------------------------
(* A request that writes no expenses is nobody's rival.                     *)
Books(w) == w.pc \in Writing /\ w.route \notin {"dismiss", "rescan"}

LEMMA BooksIs ==
    \A f, cs : BookingByClerk(f, cs) <=> \E c \in cs : clerk[c].file = f /\ Books(clerk[c])
BY DEF BookingByClerk, Books, Writing

LEMMA ClerkAside ==
    ASSUME OneBooks, clerk \in [Clerks -> ClerkRows],
           NEW c \in Clerks, NEW w \in ClerkRows, ~Books(w),
           clerk' = [clerk EXCEPT ![c] = w], UNCHANGED <<ledger, crossed, run>>
    PROVE  OneBooks'
<1>1. clerk'[c] = w /\ \A d \in Clerks \ {c} : clerk'[d] = clerk[d] OBVIOUS
<1>2. \A f, cs : BookingByClerk(f, cs)' <=>
                    \E d \in cs : clerk'[d].file = f /\ Books(clerk'[d])
    BY DEF BookingByClerk, Books, Writing
<1>3. \A f : \A cs \in SUBSET Clerks : BookingByClerk(f, cs)' => BookingByClerk(f, cs \ {c})
    BY <1>1, <1>2, BooksIs
<1>4. \A f : \A cs \in SUBSET Clerks : BookingByClerk(f, cs \ {c}) => BookingByClerk(f, cs)
    BY BooksIs
<1>. SUFFICES ASSUME NEW f \in Files \ crossed
              PROVE  /\ \A l \in 1..Lines : ledger[f][l] <= 1
                     /\ BookingByPoller(f) => Alone(f, run) /\ ~BookingByClerk(f, Clerks)'
                     /\ \A d \in Clerks : BookingByClerk(f, {d})' =>
                          Alone(f, clerk[d])' /\ ~BookingByClerk(f, Clerks \ {d})'
    BY DEF OneBooks, Alone, BookingByPoller
<1>5. BookingByPoller(f) => Alone(f, run) /\ ~BookingByClerk(f, Clerks)'
    BY <1>3, <1>4 DEF OneBooks
<1>6. ASSUME NEW d \in Clerks, BookingByClerk(f, {d})'
      PROVE  Alone(f, clerk[d])' /\ ~BookingByClerk(f, Clerks \ {d})'
    <2>1. d # c /\ BookingByClerk(f, {d}) BY <1>1, <1>2, <1>6, BooksIs
    <2>2. Alone(f, clerk[d]) /\ ~BookingByClerk(f, Clerks \ {d})
        BY <2>1 DEF OneBooks
    <2>3. clerk'[d] = clerk[d] BY <1>1, <2>1
    <2>. QED BY <1>3, <1>4, <2>2, <2>3 DEF Alone
<1>. QED BY <1>5, <1>6 DEF OneBooks

(* A request moves on without writing an expense.                          *)
LEMMA ClerkMoves ==
    ASSUME InboxInv, NEW c \in Clerks, NEW w \in ClerkRows, ~Books(w),
           RequestSound(w)', clerk' = [clerk EXCEPT ![c] = w],
           Grows, RowsSound', item' \in [Keys -> ItemRows], faults' \in 0..Faults,
           UNCHANGED <<ledger, crossed, run, seen, attempts, unrecorded>>
    PROVE  InboxInv'
<1>1. clerk \in [Clerks -> ClerkRows] BY DEF InboxInv, Typed
<1>2. clerk'[c] = w /\ \A d \in Clerks \ {c} : clerk'[d] = clerk[d] BY <1>1
<1>3. Typed' BY <1>1 DEF InboxInv, Typed, InboxTypeOK, Keys
<1>4. RunSound' BY RunStaysSound
<1>5. ClerksSound'
    <2>1. ASSUME NEW d \in Clerks PROVE RequestSound(clerk[d])'
        <3>1. CASE d = c BY <1>2, <3>1 DEF RequestSound
        <3>2. CASE d # c
            <4>1. RequestSound(clerk[d]) BY DEF InboxInv, ClerksSound
            <4>2. clerk'[d] = clerk[d] BY <1>2, <3>2
            <4>. QED BY <4>1, <4>2 DEF RequestSound, Grows, Keys
        <3>. QED BY <3>1, <3>2
    <2>. QED BY <2>1 DEF ClerksSound
<1>6. OneBooks' BY <1>1, ClerkAside DEF InboxInv
<1>. QED BY <1>3, <1>4, <1>5, <1>6 DEF InboxInv

LEMMA AskStep ==
    ASSUME InboxInv, NEW c \in Clerks, NEW f \in Files, Review(c, f) \/ ScanByHand(c, f)
    PROVE  InboxInv' /\ Keeps
<1>1. PICK route \in {"book", "dismiss", "rescan", "insert", "takeover"},
           pc \in {"expenses", "close", "create"} :
         /\ Ask(c, f, route, pc)
         /\ pc = "create" <=> route \in {"insert", "takeover"}
         /\ pc = "expenses" <=> route = "book"
         /\ pc # "create" => item[f].status = "review"
    <2>1. CASE Review(c, f) BY <2>1 DEF Review
    <2>2. CASE ScanByHand(c, f)
        <3>1. Ask(c, f, IF item[f] = Nothing THEN "insert" ELSE "takeover", "create")
            BY <2>2 DEF ScanByHand
        <3>2. PICK route \in {"insert", "takeover"} :
                 route = IF item[f] = Nothing THEN "insert" ELSE "takeover"
            OBVIOUS
        <3>. QED BY <3>1, <3>2
    <2>. QED BY <2>1, <2>2
<1>2. /\ UNCHANGED <<item, ledger, crossed, seen, attempts, run, faults, unrecorded>>
      /\ clerk' = [clerk EXCEPT ![c] = [ClerkIdle EXCEPT !.pc = pc, !.route = route,
                                           !.file = f, !.reason = item[f].reason]]
    BY <1>1 DEF Ask, PollerAside
<1>3. PICK w : w = [ClerkIdle EXCEPT !.pc = pc, !.route = route,
                                     !.file = f, !.reason = item[f].reason]
    OBVIOUS
<1>4. item[f] \in ItemRows BY RowInHand DEF Keys
<1>5. /\ w \in ClerkRows /\ w.pc = pc /\ w.route = route /\ w.file = f
      /\ w.done = 0
    BY <1>3, <1>4 DEF ClerkIdle, ClerkRows, ItemRows
<1>6. Grows /\ RowsSound' /\ Keeps BY <1>2, Unwritten, Stutters
<1>7. ~Books(w) BY <1>1, <1>5 DEF Books, Writing
<1>8. RequestSound(w)'
    BY <1>1, <1>2, <1>5 DEF RequestSound, Nothing
<1>9. item' \in [Keys -> ItemRows] /\ faults' \in 0..Faults
    BY <1>2 DEF InboxInv, Typed, InboxTypeOK, Keys
<1>. QED BY <1>2, <1>3, <1>5, <1>6, <1>7, <1>8, <1>9, ClerkMoves

(* A request ends.                                                         *)
LEMMA StopStep ==
    ASSUME InboxInv, NEW c \in Clerks, Stop(c), Grows, RowsSound',
           item' \in [Keys -> ItemRows], faults' \in 0..Faults,
           UNCHANGED <<ledger, crossed, run, seen, attempts, unrecorded>>
    PROVE  InboxInv'
<1>1. /\ ClerkIdle \in ClerkRows /\ ~Books(ClerkIdle) /\ RequestSound(ClerkIdle)'
    BY IdleTyped DEF ClerkIdle, Books, Writing, RequestSound
<1>. QED BY <1>1, ClerkMoves DEF Stop

(* A request starts to write expenses: of a file that nobody is writing     *)
(* any of and that has none - or the item is crossed.                      *)
LEMMA ClerkStarts ==
    ASSUME InboxInv, NEW c \in Clerks, NEW f \in Files, NEW w \in ClerkRows,
           clerk[c].file = f, ~Books(clerk[c]), clerk[c].pc # "idle",
           w.pc = "lines", w.line = 1, w.file = f, w.done = 0,
           w.route \in {"book", "insert", "takeover"},
           clerk' = [clerk EXCEPT ![c] = w],
           Cross(f, Spent(f) \/ BookingByPoller(f) \/ BookingByClerk(f, Clerks \ {c})),
           Grows, RowsSound', item' \in [Keys -> ItemRows], item'[f] # Nothing,
           UNCHANGED <<ledger, run, seen, attempts, unrecorded, faults>>
    PROVE  InboxInv'
<1>1. /\ clerk \in [Clerks -> ClerkRows] /\ crossed \subseteq Files
      /\ ledger \in [Files -> [1..Lines -> Nat]]
    BY DEF InboxInv, Typed, InboxTypeOK
<1>2. clerk'[c] = w /\ \A d \in Clerks \ {c} : clerk'[d] = clerk[d] BY <1>1
<1>3. /\ crossed \subseteq crossed' /\ crossed' \subseteq crossed \cup {f}
      /\ f \notin crossed' => /\ ~Spent(f) /\ ~BookingByPoller(f)
                              /\ ~BookingByClerk(f, Clerks \ {c})
    BY DEF Cross
<1>4. Typed' BY <1>1, <1>3 DEF InboxInv, Typed, InboxTypeOK, Keys
<1>5. RunSound' BY RunStaysSound
<1>6. ClerksSound'
    <2>1. ASSUME NEW d \in Clerks PROVE RequestSound(clerk[d])'
        <3>1. CASE d = c
            <4>1. 1 \in 1..Lines BY InboxAssumption
            <4>. QED BY <1>2, <3>1, <4>1 DEF RequestSound
        <3>2. CASE d # c
            <4>1. RequestSound(clerk[d]) BY DEF InboxInv, ClerksSound
            <4>2. clerk'[d] = clerk[d] BY <1>2, <3>2
            <4>. QED BY <4>1, <4>2 DEF RequestSound, Grows, Keys
        <3>. QED BY <3>1, <3>2
    <2>. QED BY <2>1 DEF ClerksSound
<1>7. OneBooks'
    <2>1. \A g, cs : BookingByClerk(g, cs)' <=>
                        \E d \in cs : clerk'[d].file = g /\ Books(clerk'[d])
        BY DEF BookingByClerk, Books, Writing
    <2>2. ASSUME NEW g \in Files \ crossed', g # f
          PROVE  \A cs \in SUBSET Clerks : BookingByClerk(g, cs)' <=> BookingByClerk(g, cs)
        BY <1>2, <2>1, <2>2, BooksIs
    <2>3. ASSUME NEW g \in Files \ crossed', g # f
          PROVE  /\ \A l \in 1..Lines : ledger[g][l] <= 1
                 /\ BookingByPoller(g) => Alone(g, run) /\ ~BookingByClerk(g, Clerks)'
                 /\ \A d \in Clerks : BookingByClerk(g, {d})' =>
                      Alone(g, clerk[d])' /\ ~BookingByClerk(g, Clerks \ {d})'
        <3>1. g \in Files \ crossed BY <1>3, <2>3
        <3>2. BookingByPoller(g) => Alone(g, run) /\ ~BookingByClerk(g, Clerks)'
            BY <2>2, <2>3, <3>1 DEF InboxInv, OneBooks
        <3>3. ASSUME NEW d \in Clerks, BookingByClerk(g, {d})'
              PROVE  Alone(g, clerk[d])' /\ ~BookingByClerk(g, Clerks \ {d})'
            <4>1. d # c /\ BookingByClerk(g, {d})
                BY <1>2, <2>1, <2>2, <2>3, <3>3
            <4>2. Alone(g, clerk[d]) /\ ~BookingByClerk(g, Clerks \ {d})
                BY <3>1, <4>1 DEF InboxInv, OneBooks
            <4>3. clerk'[d] = clerk[d] BY <1>2, <4>1
            <4>. QED BY <2>2, <2>3, <4>2, <4>3 DEF Alone
        <3>. QED BY <3>1, <3>2, <3>3 DEF InboxInv, OneBooks
    <2>4. ASSUME f \notin crossed'
          PROVE  /\ \A l \in 1..Lines : ledger[f][l] <= 1
                 /\ ~BookingByPoller(f)
                 /\ \A d \in Clerks : BookingByClerk(f, {d})' =>
                      Alone(f, clerk[d])' /\ ~BookingByClerk(f, Clerks \ {d})'
        <3>1. ASSUME NEW l \in 1..Lines PROVE ledger[f][l] = 0
            <4>1. ledger[f][l] \in Nat BY <1>1
            <4>2. ~(ledger[f][l] > 0) BY <1>3, <2>4 DEF Spent
            <4>. QED BY <4>1, <4>2
        <3>2. ASSUME NEW d \in Clerks, BookingByClerk(f, {d})' PROVE d = c
            BY <1>2, <1>3, <2>1, <2>4, <3>2, BooksIs
        <3>3. Alone(f, w)' BY <3>1 DEF Alone
        <3>4. ~BookingByClerk(f, Clerks \ {c})'
            BY <1>2, <1>3, <2>1, <2>4, BooksIs
        <3>5. Alone(f, clerk[c])' BY <1>2, <3>3 DEF Alone
        <3>. QED BY <1>3, <2>4, <3>1, <3>2, <3>4, <3>5
    <2>5. \A g \in Files : /\ BookingByPoller(g)' = BookingByPoller(g)
                           /\ Alone(g, run)' = Alone(g, run)
        BY DEF BookingByPoller, Alone
    <2>. SUFFICES ASSUME NEW g \in Files \ crossed'
                  PROVE  /\ \A l \in 1..Lines : ledger[g][l] <= 1
                         /\ BookingByPoller(g) => Alone(g, run) /\ ~BookingByClerk(g, Clerks)'
                         /\ \A d \in Clerks : BookingByClerk(g, {d})' =>
                              Alone(g, clerk[d])' /\ ~BookingByClerk(g, Clerks \ {d})'
        BY <2>5 DEF OneBooks
    <2>. QED BY <2>3, <2>4
<1>. QED BY <1>4, <1>5, <1>6, <1>7 DEF InboxInv

(* What a request of staff is, before its step.                            *)
LEMMA RequestInHand ==
    ASSUME InboxInv, NEW c \in Clerks
    PROVE  /\ clerk[c] \in ClerkRows /\ RequestSound(clerk[c])
           /\ clerk[c].pc # "idle" => clerk[c].file \in Files /\ clerk[c].file \in Keys
BY DEF InboxInv, Typed, ClerksSound, RequestSound, Keys

LEMMA BookOrHealStep ==
    ASSUME InboxInv, NEW c \in Clerks, BookOrHeal(c)
    PROVE  InboxInv' /\ Keeps
<1>1. /\ clerk[c].pc = "expenses"
      /\ UNCHANGED <<item, ledger, seen, attempts, run, faults, unrecorded>>
    BY DEF BookOrHeal, PollerAside
<1>2. PICK f \in Files : f = clerk[c].file BY <1>1, RequestInHand
<1>3. /\ clerk[c] \in ClerkRows /\ RequestSound(clerk[c]) /\ clerk[c].route = "book"
      /\ item[f] # Nothing
    BY <1>1, <1>2, RequestInHand DEF RequestSound
<1>4. /\ Grows /\ RowsSound' /\ Keeps
      /\ item' \in [Keys -> ItemRows] /\ faults' \in 0..Faults
    BY <1>1, Unwritten, Stutters DEF InboxInv, Typed, InboxTypeOK, Keys
<1>5. PICK pc \in {"heal", "lines"} : pc = IF Spent(f) THEN "heal" ELSE "lines"
    OBVIOUS
<1>6. clerk \in [Clerks -> ClerkRows] BY DEF InboxInv, Typed
<1>7. PICK w : w = [clerk[c] EXCEPT !.pc = pc, !.line = 1] OBVIOUS
<1>8. /\ w \in ClerkRows /\ w.pc = pc /\ w.line = 1 /\ w.file = f
      /\ w.route = "book" /\ w.done = clerk[c].done
    BY <1>2, <1>3, <1>7 DEF ClerkRows
<1>9. clerk' = [clerk EXCEPT ![c] = w]
    BY <1>2, <1>5, <1>6, <1>7 DEF BookOrHeal, StartOn
<1>10. clerk[c].done > 0 => Spent(f) BY <1>1, <1>2, <1>3 DEF RequestSound
<1>11. CASE Spent(f)
    <2>1. UNCHANGED crossed /\ w.pc = "heal"
        BY <1>2, <1>5, <1>8, <1>11 DEF BookOrHeal
    <2>2. ~Books(w) BY <2>1 DEF Books, Writing
    <2>3. Spent(f)' BY <1>4, <1>11 DEF Grows
    <2>4. RequestSound(w)' BY <1>1, <1>3, <1>8, <2>1, <2>3 DEF RequestSound
    <2>. QED BY <1>1, <1>4, <1>8, <1>9, <2>1, <2>2, <2>4, ClerkMoves
<1>12. CASE ~Spent(f)
    <2>1. /\ w.pc = "lines" /\ w.done = 0
          /\ Cross(f, BookingByPoller(f) \/ BookingByClerk(f, Clerks \ {c}))
        BY <1>2, <1>3, <1>5, <1>8, <1>10, <1>12 DEF BookOrHeal, ClerkRows
    <2>2. Cross(f, Spent(f) \/ BookingByPoller(f) \/ BookingByClerk(f, Clerks \ {c}))
        BY <1>12, <2>1 DEF Cross
    <2>3. ~Books(clerk[c]) BY <1>1 DEF Books, Writing
    <2>4. InboxInv' BY <1>1, <1>2, <1>3, <1>4, <1>8, <1>9, <2>1, <2>2, <2>3, ClerkStarts
    <2>. QED BY <1>4, <2>4
<1>. QED BY <1>11, <1>12

LEMMA CreateByHandStep ==
    ASSUME InboxInv, NEW c \in Clerks, CreateByHand(c)
    PROVE  InboxInv' /\ Keeps
<1>1. /\ clerk[c].pc = "create"
      /\ UNCHANGED <<ledger, seen, attempts, run, faults, unrecorded>>
    BY DEF CreateByHand, PollerAside
<1>2. PICK f \in Files : f = clerk[c].file BY <1>1, RequestInHand
<1>3. CASE Stop(c) /\ UNCHANGED <<item, crossed>>
    <2>1. /\ Grows /\ RowsSound' /\ Keeps
          /\ item' \in [Keys -> ItemRows] /\ faults' \in 0..Faults
        BY <1>1, <1>3, Unwritten, Stutters DEF InboxInv, Typed, InboxTypeOK, Keys
    <2>. QED BY <1>1, <1>3, <2>1, StopStep
<1>4. ASSUME item' = [item EXCEPT ![f] = [status |-> "review", reason |-> "null"]],
             clerk' = StartOn(c, "lines"),
             Cross(f, Spent(f) \/ BookingByPoller(f) \/ BookingByClerk(f, Clerks \ {c}))
      PROVE  InboxInv' /\ Keeps
    <2>1. /\ clerk[c] \in ClerkRows /\ clerk \in [Clerks -> ClerkRows]
          /\ clerk[c].route \in {"insert", "takeover"}
          /\ clerk[c].done \in Nat
        BY <1>1, RequestInHand DEF RequestSound, InboxInv, Typed, ClerkRows
    <2>2. clerk[c].done = 0
        BY <1>1, <2>1 DEF InboxInv, ClerksSound, RequestSound
    <2>3. PICK w : w = [clerk[c] EXCEPT !.pc = "lines", !.line = 1] OBVIOUS
    <2>4. /\ w \in ClerkRows /\ w.pc = "lines" /\ w.line = 1 /\ w.file = f
          /\ w.route \in {"insert", "takeover"} /\ w.done = 0
        BY <1>2, <2>1, <2>2, <2>3 DEF ClerkRows
    <2>5. clerk' = [clerk EXCEPT ![c] = w] BY <1>4, <2>1, <2>3 DEF StartOn
    <2>6. PICK row \in ItemRows : row = [status |-> "review", reason |-> "null"]
        BY DEF ItemRows, Reasons
    <2>7. /\ Grows /\ RowsSound' /\ Keeps /\ item'[f] # Nothing
          /\ item' \in [Keys -> ItemRows]
        BY <1>1, <1>4, <2>6, ItemWritten DEF Keys
    <2>8. ~Books(clerk[c]) BY <1>1 DEF Books, Writing
    <2>9. InboxInv'
        BY <1>1, <1>2, <1>4, <2>4, <2>5, <2>7, <2>8, ClerkStarts
    <2>. QED BY <2>7, <2>9
<1>. QED BY <1>2, <1>3, <1>4 DEF CreateByHand

LEMMA AddLineByHandStep ==
    ASSUME InboxInv, NEW c \in Clerks, AddLineByHand(c)
    PROVE  InboxInv' /\ Keeps
<1>1. /\ clerk[c].pc = "lines"
      /\ UNCHANGED <<item, crossed, seen, attempts, run, faults, unrecorded>>
    BY DEF AddLineByHand, PollerAside
<1>2. PICK f \in Files, line \in 1..Lines : f = clerk[c].file /\ line = clerk[c].line
    BY <1>1, RequestInHand DEF RequestSound
<1>3. /\ clerk \in [Clerks -> ClerkRows] /\ clerk[c] \in ClerkRows
      /\ RequestSound(clerk[c]) /\ item[f] # Nothing
      /\ clerk[c].done > 0 => Spent(f)
      /\ clerk[c].route \in {"book", "insert", "takeover"}
    BY <1>1, <1>2, RequestInHand DEF RequestSound, InboxInv, Typed
<1>4. PICK n \in {0, 1} :
         /\ clerk' = [clerk EXCEPT ![c] = AfterLine(clerk[c], n)]
         /\ IF n = 1 THEN LineWritten(f, line) ELSE UNCHANGED ledger
    BY <1>2 DEF AddLineByHand, LineWritten
<1>5. PICK w : w = AfterLine(clerk[c], n) OBVIOUS
<1>6. /\ w \in ClerkRows /\ w.pc = (IF line = Lines THEN "close" ELSE "lines")
      /\ w.line = line + 1 /\ w.done = clerk[c].done + n
      /\ w.file = f /\ w.route = clerk[c].route
    <2>. USE <1>2, <1>3, <1>5
    <2>1. w = [clerk[c] EXCEPT !.pc = IF line = Lines THEN "close" ELSE "lines",
                               !.line = line + 1, !.done = clerk[c].done + n]
        BY DEF AfterLine
    <2>2. line + 1 \in Nat /\ clerk[c].done + n \in Nat BY DEF ClerkRows
    <2>. QED BY <2>1, <2>2 DEF ClerkRows
<1>7. clerk'[c] = w /\ \A d \in Clerks \ {c} : clerk'[d] = clerk[d]
    BY <1>3, <1>4, <1>5
<1>8. /\ ledger' \in [Files -> [1..Lines -> Nat]] /\ Grows /\ RowsSound'
      /\ n = 1 => Spent(f)'
      /\ \A e \in Files : \A k \in 1..Lines :
            ledger'[e][k] = IF n = 1 /\ e = f /\ k = line
                            THEN ledger[e][k] + 1 ELSE ledger[e][k]
    <2>1. CASE n = 1
        <3>1. LineWritten(f, line) /\ UNCHANGED item BY <1>1, <1>4, <2>1
        <3>. QED BY <1>3, <2>1, <3>1, LedgerGrows
    <2>2. CASE n = 0
        BY <1>1, <1>4, <2>2, Unwritten DEF InboxInv, Typed, InboxTypeOK
    <2>. QED BY <2>1, <2>2
<1>9. Typed'
    <2>1. clerk' \in [Clerks -> ClerkRows] BY <1>3, <1>4, <1>5, <1>6
    <2>. QED BY <1>1, <1>8, <2>1 DEF InboxInv, Typed, InboxTypeOK
<1>10. RunSound' BY <1>1, <1>8, RunStaysSound
<1>11. ClerksSound'
    <2>1. RequestSound(w)'
        <3>1. w.done > 0 => Spent(f)'
            BY <1>3, <1>6, <1>8 DEF Grows, ClerkRows
        <3>2. w.pc = "lines" => w.line \in 1..Lines BY <1>6, InboxAssumption
        <3>. QED BY <1>1, <1>3, <1>6, <3>1, <3>2 DEF RequestSound
    <2>2. ASSUME NEW d \in Clerks PROVE RequestSound(clerk[d])'
        <3>1. CASE d = c BY <1>7, <2>1, <3>1 DEF RequestSound
        <3>2. CASE d # c
            <4>1. RequestSound(clerk[d]) BY DEF InboxInv, ClerksSound
            <4>2. clerk'[d] = clerk[d] BY <1>7, <3>2
            <4>. QED BY <1>8, <4>1, <4>2 DEF RequestSound, Grows, Keys
        <3>. QED BY <3>1, <3>2
    <2>. QED BY <2>2 DEF ClerksSound
<1>12. OneBooks'
    <2>1. Books(w) /\ Books(clerk[c])
        BY <1>1, <1>3, <1>6 DEF Books, Writing
    <2>2. \A g, cs : BookingByClerk(g, cs)' <=>
                        \E d \in cs : clerk'[d].file = g /\ Books(clerk'[d])
        BY DEF BookingByClerk, Books, Writing
    <2>3. \A g : \A cs \in SUBSET Clerks : BookingByClerk(g, cs)' <=> BookingByClerk(g, cs)
        BY <1>2, <1>6, <1>7, <2>1, <2>2, BooksIs
    <2>4. BookingByClerk(f, {c}) /\ BookingByClerk(f, Clerks)
        BY <1>2, <2>1, BooksIs
    <2>5. \A g \in Files : BookingByPoller(g)' = BookingByPoller(g)
        BY <1>1 DEF BookingByPoller
    <2>6. ASSUME NEW g \in Files \ crossed, g # f
          PROVE  /\ \A l \in 1..Lines : ledger'[g][l] <= 1
                 /\ BookingByPoller(g) => Alone(g, run)' /\ ~BookingByClerk(g, Clerks)
                 /\ \A d \in Clerks : BookingByClerk(g, {d}) =>
                      Alone(g, clerk[d])' /\ ~BookingByClerk(g, Clerks \ {d})
        <3>1. \A k \in 1..Lines : ledger'[g][k] = ledger[g][k] BY <1>8, <2>6
        <3>2. ASSUME BookingByPoller(g), Alone(g, run)
              PROVE  Alone(g, run)'
            <4>1. run.pc = "lines" => run.line \in 1..Lines
                BY DEF InboxInv, RunSound
            <4>2. run.pc = "lines" =>
                    \A l \in run.line..Lines : l \in 1..Lines /\ ledger[g][l] = 0
                BY <3>2, <4>1, InboxAssumption DEF Alone
            <4>. QED BY <1>1, <3>1, <4>2 DEF Alone
        <3>3. ASSUME NEW d \in Clerks, BookingByClerk(g, {d}), Alone(g, clerk[d])
              PROVE  Alone(g, clerk[d])'
            <4>1. clerk[d].pc = "lines" => clerk[d].line \in 1..Lines
                BY DEF InboxInv, ClerksSound, RequestSound
            <4>2. clerk[d].pc = "lines" =>
                    \A l \in clerk[d].line..Lines : l \in 1..Lines /\ ledger[g][l] = 0
                BY <3>3, <4>1, InboxAssumption DEF Alone
            <4>3. d # c BY <1>2, <2>6, <3>3, BooksIs
            <4>4. clerk'[d] = clerk[d] BY <1>7, <4>3
            <4>. QED BY <3>1, <4>2, <4>4 DEF Alone
        <3>. QED BY <2>6, <3>1, <3>2, <3>3 DEF InboxInv, OneBooks
    <2>7. ASSUME f \notin crossed
          PROVE  /\ \A l \in 1..Lines : ledger'[f][l] <= 1
                 /\ ~BookingByPoller(f)
                 /\ \A d \in Clerks : BookingByClerk(f, {d}) =>
                      Alone(f, clerk[d])' /\ ~BookingByClerk(f, Clerks \ {d})
        <3>1. /\ \A l \in 1..Lines : ledger[f][l] <= 1
              /\ Alone(f, clerk[c]) /\ ~BookingByClerk(f, Clerks \ {c})
              /\ ~BookingByPoller(f)
            BY <2>4, <2>7 DEF InboxInv, OneBooks
        <3>2. \A l \in line..Lines : ledger[f][l] = 0 BY <1>1, <1>2, <3>1 DEF Alone
        <3>3. \A l \in 1..Lines : ledger'[f][l] <= 1
            <4>. TAKE l \in 1..Lines
            <4>1. CASE l = line
                <5>1. ledger[f][l] = 0 BY <3>2, <4>1, InboxAssumption
                <5>. QED BY <1>8, <5>1
            <4>2. CASE l # line BY <1>8, <3>1, <4>2
            <4>. QED BY <4>1, <4>2
        <3>4. \A l \in (line + 1)..Lines : ledger'[f][l] = 0
            <4>. TAKE l \in (line + 1)..Lines
            <4>1. l \in 1..Lines /\ l \in line..Lines /\ l # line
                BY InboxAssumption
            <4>. QED BY <1>8, <3>2, <4>1
        <3>5. Alone(f, clerk[c])' BY <1>6, <1>7, <3>4 DEF Alone
        <3>6. ASSUME NEW d \in Clerks, BookingByClerk(f, {d}) PROVE d = c
            BY <3>1, <3>6, BooksIs
        <3>. QED BY <3>1, <3>3, <3>5, <3>6
    <2>. SUFFICES ASSUME NEW g \in Files \ crossed
                  PROVE  /\ \A l \in 1..Lines : ledger'[g][l] <= 1
                         /\ BookingByPoller(g) => Alone(g, run)' /\ ~BookingByClerk(g, Clerks)
                         /\ \A d \in Clerks : BookingByClerk(g, {d}) =>
                              Alone(g, clerk[d])' /\ ~BookingByClerk(g, Clerks \ {d})
        BY <1>1, <2>3, <2>5 DEF OneBooks
    <2>. QED BY <2>6, <2>7
<1>13. Keeps BY <1>1, Stutters
<1>. QED BY <1>8, <1>9, <1>10, <1>11, <1>12, <1>13 DEF InboxInv

LEMMA CloseByHandStep ==
    ASSUME InboxInv, NEW c \in Clerks, CloseByHand(c)
    PROVE  InboxInv' /\ Keeps
<1>1. /\ clerk[c].pc \in {"close", "heal", "again"} /\ Stop(c)
      /\ UNCHANGED <<ledger, crossed, seen, attempts, run, faults, unrecorded>>
    BY DEF CloseByHand, PollerAside
<1>2. PICK f \in Files : f = clerk[c].file BY <1>1, RequestInHand
<1>3. /\ clerk[c] \in ClerkRows /\ RequestSound(clerk[c]) /\ item[f] # Nothing
    BY <1>1, <1>2, RequestInHand DEF RequestSound
<1>4. f \in Keys BY DEF Keys
<1>5. /\ item[f] \in ItemRows /\ item[f].status # "none"
      /\ item[f].status = "booked" => Spent(f)
    BY <1>3, <1>4, RowInHand
<1>6. PICK row : row = LastWrite(item[f], clerk[c]) OBVIOUS
<1>7. item' = [item EXCEPT ![f] = row] BY <1>2, <1>6 DEF CloseByHand
<1>8. /\ clerk[c].pc = "heal" => clerk[c].route = "book" /\ Spent(f)
      /\ clerk[c].pc = "again" => clerk[c].route \in {"insert", "takeover"}
      /\ clerk[c].done # 0 => Spent(f)
      /\ clerk[c].reason \in Reasons
    BY <1>1, <1>2, <1>3 DEF RequestSound, ClerkRows
<1>9. /\ row \in ItemRows /\ row.status # "none"
      /\ row.status = "booked" => Spent(f)
    BY <1>1, <1>5, <1>6, <1>8 DEF LastWrite, ItemRows, Reasons
<1>10. /\ Grows /\ RowsSound' /\ Keeps /\ item' \in [Keys -> ItemRows]
    BY <1>1, <1>4, <1>7, <1>9, ItemWritten
<1>11. faults' \in 0..Faults BY <1>1 DEF InboxInv, Typed, InboxTypeOK
<1>. QED BY <1>1, <1>10, <1>11, StopStep

LEMMA ClerkFailsStep ==
    ASSUME InboxInv, NEW c \in Clerks, ClerkFails(c)
    PROVE  InboxInv' /\ Keeps
<1>1. /\ clerk[c].pc # "idle" /\ faults < Faults /\ faults' = faults + 1
      /\ UNCHANGED <<seen, attempts, item, ledger, run, crossed, unrecorded>>
    BY DEF ClerkFails
<1>2. /\ Grows /\ RowsSound' /\ Keeps /\ item' \in [Keys -> ItemRows]
    BY <1>1, Unwritten, Stutters DEF InboxInv, Typed, InboxTypeOK, Keys
<1>3. faults' \in 0..Faults
    BY <1>1, InboxAssumption DEF InboxInv, Typed, InboxTypeOK
<1>4. CASE Stop(c) BY <1>1, <1>2, <1>3, <1>4, StopStep
<1>5. CASE clerk[c].pc = "close" /\ clerk[c].route \in {"insert", "takeover"}
    <2>1. PICK f \in Files : f = clerk[c].file BY <1>1, RequestInHand
    <2>2. /\ clerk[c] \in ClerkRows /\ RequestSound(clerk[c]) /\ item[f] # Nothing
          /\ clerk \in [Clerks -> ClerkRows]
        BY <1>5, <2>1, RequestInHand DEF RequestSound, InboxInv, Typed
    <2>3. PICK n \in {0, 1} : n = IF Spent(f) THEN 1 ELSE 0 OBVIOUS
    <2>4. PICK w : w = [clerk[c] EXCEPT !.pc = "again", !.done = n] OBVIOUS
    <2>5. /\ w \in ClerkRows /\ w.pc = "again" /\ w.done = n /\ w.file = f
          /\ w.route = clerk[c].route
        <3>1. n \in Nat BY <2>3
        <3>. QED BY <2>1, <2>2, <2>4, <3>1 DEF ClerkRows
    <2>6. clerk' = [clerk EXCEPT ![c] = w]
        BY <1>5, <2>1, <2>2, <2>3, <2>4 DEF ClerkFails
    <2>7. ~Books(w) BY <2>5 DEF Books, Writing
    <2>8. w.done > 0 => Spent(f)' BY <1>2, <2>3, <2>5 DEF Grows
    <2>9. RequestSound(w)' BY <1>1, <1>5, <2>2, <2>5, <2>8 DEF RequestSound
    <2>. QED BY <1>1, <1>2, <1>3, <2>5, <2>6, <2>7, <2>9, ClerkMoves
<1>. QED BY <1>4, <1>5 DEF ClerkFails

LEMMA RestartStep ==
    ASSUME InboxInv, InboxRestart
    PROVE  InboxInv' /\ Keeps
<1>1. /\ faults < Faults /\ faults' = faults + 1 /\ run' = RunIdle
      /\ clerk' = [c \in Clerks |-> ClerkIdle] /\ attempts' = [m \in Mails |-> 0]
      /\ UNCHANGED <<seen, item, ledger, crossed, unrecorded>>
    BY DEF InboxRestart
<1>2. RowsSound' /\ Keeps BY <1>1, Unwritten, Stutters
<1>3. Typed'
    BY <1>1, IdleTyped, InboxAssumption DEF InboxInv, Typed, InboxTypeOK
<1>4. RunSound' BY <1>1 DEF RunIdle, RunSound
<1>5. ClerksSound' BY <1>1 DEF ClerkIdle, ClerksSound, RequestSound
<1>6. /\ \A f : ~BookingByPoller(f)'
      /\ \A f \in Files : \A cs \in SUBSET Clerks : ~BookingByClerk(f, cs)'
    BY <1>1 DEF BookingByPoller, BookingByClerk, RunIdle, ClerkIdle
<1>7. OneBooks' BY <1>1, <1>6 DEF InboxInv, OneBooks
<1>. QED BY <1>2, <1>3, <1>4, <1>5, <1>7 DEF InboxInv

-----------------------------------------------------------------------------
LEMMA InboxStarts ==
    ASSUME InboxInit
    PROVE  InboxInv /\ Promised!PostInit
<1>1. /\ ledger = [f \in Files |-> [l \in 1..Lines |-> 0]]
      /\ item = [k \in Keys |-> Nothing] /\ run = RunIdle
      /\ clerk = [c \in Clerks |-> ClerkIdle]
    BY DEF InboxInit, Keys
<1>2. \A f \in Files : \A l \in 1..Lines : ledger[f][l] = 0 BY <1>1
<1>3. \A f \in Files : ~Spent(f) BY <1>2 DEF Spent
<1>4. Typed
    <2>1. Nothing \in ItemRows BY DEF Nothing, ItemRows, Reasons
    <2>. QED BY <1>1, <2>1, IdleTyped, InboxAssumption
             DEF InboxInit, Typed, InboxTypeOK, Keys
<1>5. RowsSound
    BY <1>1, <1>3 DEF RowsSound, BookedMeansSpent, Nothing, Keys
<1>6. RunSound /\ ClerksSound
    BY <1>1 DEF RunSound, RunIdle, ClerksSound, RequestSound, ClerkIdle
<1>7. OneBooks
    BY <1>1, <1>2 DEF OneBooks, BookingByPoller, BookingByClerk, RunIdle, ClerkIdle
<1>8. Promised!PostInit BY DEF InboxInit, Promised!PostInit, OnFile
<1>. QED BY <1>4, <1>5, <1>6, <1>7, <1>8 DEF InboxInv

LEMMA InboxStep ==
    ASSUME InboxInv, [InboxNext]_inboxVars
    PROVE  InboxInv' /\ Keeps
<1>1. ASSUME PollStep PROVE InboxInv' /\ Keeps
    BY <1>1, OpenMailStep, LookUpHashStep, ReadExpensesStep, FinishInterruptedStep,
       ScanStep, CreateItemStep, AddLineStep, CloseItemStep, MarkProcessedStep,
       MailFailsStep DEF PollStep
<1>2. ASSUME NEW c \in Clerks, ClerkStep(c) \/ ClerkFails(c) PROVE InboxInv' /\ Keeps
    BY <1>2, BookOrHealStep, CreateByHandStep, AddLineByHandStep, CloseByHandStep,
       ClerkFailsStep DEF ClerkStep
<1>3. CASE UNCHANGED inboxVars
    <2>1. UNCHANGED <<seen, attempts, item, ledger, run, clerk, faults, crossed,
                      unrecorded>>
        BY <1>3 DEF inboxVars
    <2>2. Typed' BY <2>1 DEF InboxInv, Typed, InboxTypeOK
    <2>3. Grows /\ RowsSound' /\ Keeps BY <2>1, Unwritten, Stutters
    <2>4. RunSound' BY <2>1, <2>3, RunStaysSound
    <2>5. ClerksSound' BY <2>1, <2>3, RequestStaysSound DEF InboxInv, ClerksSound
    <2>6. OneBooks'
        BY <2>1 DEF InboxInv, OneBooks, BookingByPoller, BookingByClerk, Alone
    <2>. QED BY <2>2, <2>3, <2>4, <2>5, <2>6 DEF InboxInv
<1>. QED BY <1>1, <1>2, <1>3, PollStartStep, RestartStep, AskStep DEF InboxNext

(* The invariant of the inbox holds throughout.                            *)
THEOREM InboxInvariance == InboxSpec => []InboxInv
<1>1. InboxInit => InboxInv BY InboxStarts
<1>2. InboxInv /\ [InboxNext]_inboxVars => InboxInv' BY InboxStep
<1>. QED BY <1>1, <1>2, PTL DEF InboxSpec

(* Items, expenses, attempts and failures are well typed, and no mail fails *)
(* more often than the poller has patience for.                            *)
THEOREM InboxTyped == InboxSpec => []InboxTypeOK
<1>1. InboxInv => InboxTypeOK BY DEF InboxInv, Typed
<1>. QED BY <1>1, InboxInvariance, PTL

(* A line becomes one expense, unless bookings of its item have crossed.   *)
THEOREM OneExpenseEach == InboxSpec => []BookedOnce
<1>1. InboxInv => BookedOnce
    <2>. SUFFICES ASSUME InboxInv, NEW f \in Files \ crossed, NEW l \in 1..Lines,
                         ledger[f][l] > 1
                  PROVE  FALSE
        BY DEF BookedOnce
    <2>1. ledger[f][l] \in Nat BY DEF InboxInv, Typed, InboxTypeOK
    <2>2. ledger[f][l] <= 1 BY DEF InboxInv, OneBooks
    <2>. QED BY <2>1, <2>2
<1>. QED BY <1>1, InboxInvariance, PTL

(* What is booked has an expense behind it.                                *)
THEOREM NothingBookedForFree == InboxSpec => []BookedMeansSpent
<1>1. InboxInv => BookedMeansSpent BY DEF InboxInv, RowsSound
<1>. QED BY <1>1, InboxInvariance, PTL

(* The inbox implements the postbox: no mail leaves without a trace, and no *)
(* trace is wiped out.                                                     *)
THEOREM NoMailLost == InboxSpec => ImplementsPostbox
<1>1. InboxInit => Promised!PostInit BY InboxStarts
<1>2. InboxInv /\ [InboxNext]_inboxVars => [Promised!PostNext]_(Promised!postVars)
    BY InboxStep DEF Keeps
<1>. QED BY <1>1, <1>2, InboxInvariance, PTL
     DEF InboxSpec, ImplementsPostbox, Promised!PostSpec
=============================================================================
