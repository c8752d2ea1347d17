---------------------------- MODULE InvoiceInbox ----------------------------
(***************************************************************************)
(* Invoices by e-mail.  A poller reads unseen mail, one run at a time,     *)
(* turns every attachment into one inbox item, and books what it trusts as *)
(* expenses, a line at a time.  Staff book, rescan and dismiss what waits  *)
(* for review, and book a scanned file by hand.  Nothing here runs in a    *)
(* transaction: between any two statements another request may run, the    *)
(* server may stop, or the database may fail.                              *)
(***************************************************************************)
EXTENDS Naturals, Sequences, FiniteSets

CONSTANTS
    Mailbox,        \* sequence of mails, in the order listUnseen gives them
    AttachmentsOf,  \* [mail -> sequence of its usable attachments]
    Poison,         \* mails whose import throws whatever happens
    Files,          \* attachments, by the hash of their bytes
    Lines,          \* number of lines of an invoice
    Clerks,         \* requests of staff in flight
    PerRun,         \* MAX_MAILS_PER_RUN
    Attempts,       \* ATTEMPTS_BEFORE_GIVING_UP
    Faults          \* bound: database or mailbox failures and restarts

Mails == { Mailbox[i] : i \in DOMAIN Mailbox }

ASSUME InboxAssumption ==
    /\ Lines \in Nat \ {0} /\ PerRun \in Nat \ {0}
    /\ Attempts \in Nat \ {0} /\ Faults \in Nat
    /\ Mails \cap Files = {}
    /\ AttachmentsOf \in [Mails -> Seq(Files)]

VARIABLES
    seen,       \* mails marked processed
    attempts,   \* [Mails -> failed attempts], in the memory of the server
    item,       \* [attachment or mail hash -> row of invoice_inbox_items]
    ledger,     \* [Files -> [line -> expenses booked from that item]]
    run,        \* the poller's run
    clerk,      \* [Clerks -> request]
    faults,     \* failures so far
    crossed,    \* ghost: items booked while a booking was under way, or
                \* taken over with expenses of an earlier one
    unrecorded  \* ghost: mails given up on that could not be recorded

inboxVars == <<seen, attempts, item, ledger, run, clerk, faults, crossed,
               unrecorded>>

Nothing  == [status |-> "none", reason |-> "null"]
Reasons  == {"null", "parse_failed", "other"}
ItemRows == [status : {"none", "review", "booked", "dismissed"}, reason : Reasons]
Active   == {"booked", "review"}

RunIdle   == [pc |-> "idle", mail |-> "none", todo |-> {}, left |-> <<>>,
              verdict |-> "null", line |-> 0, done |-> 0]
ClerkIdle == [pc |-> "idle", route |-> "none", file |-> "none",
              reason |-> "null", line |-> 0, done |-> 0]

Spent(f) == \E l \in 1..Lines : ledger[f][l] > 0

(* Review without a reason: the mark of a booking that was interrupted.     *)
Interrupted(row) == row.status = "review" /\ row.reason = "null"

(* Somebody else is writing expenses for this item.                        *)
BookingByPoller(f) ==
    run.pc \in {"lines", "close"} /\ Head(run.left) = f
BookingByClerk(f, others) ==
    \E c \in others : /\ clerk[c].file = f /\ clerk[c].pc \in {"lines", "close"}
                      /\ clerk[c].route \notin {"dismiss", "rescan"}

Cross(f, when) == crossed' = IF when THEN crossed \cup {f} ELSE crossed

InboxInit ==
    /\ seen = {} /\ faults = 0 /\ crossed = {} /\ unrecorded = {}
    /\ attempts = [m \in Mails |-> 0]
    /\ item   = [k \in Files \cup Mails |-> Nothing]
    /\ ledger = [f \in Files |-> [l \in 1..Lines |-> 0]]
    /\ run    = RunIdle
    /\ clerk  = [c \in Clerks |-> ClerkIdle]

-----------------------------------------------------------------------------
(* The poller.  Overlapping calls share the run, so there is one.          *)
StaffAside == UNCHANGED <<clerk, faults, unrecorded>>

Before(k, m) ==
    \E i, j \in DOMAIN Mailbox : i < j /\ Mailbox[i] = k /\ Mailbox[j] = m

(* The first of the mails that are left is next; without one the run ends. *)
Proceed(rest) ==
    \/ rest = {} /\ run' = RunIdle
    \/ \E m \in rest :
          /\ \A k \in rest \ {m} : Before(m, k)
          /\ run' = [RunIdle EXCEPT !.pc = "mail", !.mail = m, !.todo = rest \ {m}]

(* The first PerRun mails that are unseen.                                 *)
Unread ==
    LET unseen == Mails \ seen
    IN { m \in unseen : Cardinality({ k \in unseen : Before(k, m) }) < PerRun }

PollStart ==
    /\ run.pc = "idle"
    /\ Unread # {} /\ Proceed(Unread)
    /\ UNCHANGED <<seen, attempts, item, ledger, crossed>> /\ StaffAside

NextMail == Proceed(run.todo)

(* On to the next attachment, or to marking the mail.  The count of failed *)
(* attempts is forgotten just before the mark.                             *)
NextAttachment ==
    IF Len(run.left) = 1
      THEN /\ run' = [RunIdle EXCEPT !.pc = "mark", !.mail = run.mail,
                                     !.todo = run.todo]
           /\ attempts' = [attempts EXCEPT ![run.mail] = 0]
      ELSE /\ run' = [RunIdle EXCEPT !.pc = "look", !.mail = run.mail,
                                     !.todo = run.todo, !.left = Tail(run.left)]
           /\ UNCHANGED attempts

(* A mail without a usable attachment leaves one item under its own hash.   *)
OpenMail ==
    /\ run.pc = "mail"
    /\ run.mail \notin Poison
    /\ LET m == run.mail
       IN IF AttachmentsOf[m] = <<>>
            THEN /\ item' = [item EXCEPT ![m] =
                        IF @ = Nothing THEN [status |-> "review", reason |-> "other"]
                        ELSE @]
                 /\ run' = [run EXCEPT !.pc = "mark"]
                 /\ attempts' = [attempts EXCEPT ![m] = 0]
            ELSE /\ run' = [run EXCEPT !.pc = "look", !.left = AttachmentsOf[m]]
                 /\ UNCHANGED <<item, attempts>>
    /\ UNCHANGED <<seen, ledger, crossed>> /\ StaffAside

(* The hash decides: new, interrupted before, or seen before.              *)
LookUpHash ==
    /\ run.pc = "look"
    /\ LET row == item[Head(run.left)]
       IN CASE row = Nothing     -> /\ run' = [run EXCEPT !.pc = "scan"]
                                    /\ UNCHANGED attempts
            [] Interrupted(row)  -> /\ run' = [run EXCEPT !.pc = "expenses"]
                                    /\ UNCHANGED attempts
            [] OTHER             -> NextAttachment
    /\ UNCHANGED <<seen, item, ledger, crossed>> /\ StaffAside

(* finishInterruptedBooking: read the expenses, then write what they say.  *)
ReadExpenses ==
    /\ run.pc = "expenses"
    /\ run' = [run EXCEPT !.pc = "finish",
                          !.verdict = IF Spent(Head(run.left)) THEN "book"
                                      ELSE "parse_failed"]
    /\ UNCHANGED <<seen, attempts, item, ledger, crossed>> /\ StaffAside

FinishInterrupted ==
    /\ run.pc = "finish"
    /\ item' = [item EXCEPT ![Head(run.left)] =
                  IF run.verdict = "book" THEN [@ EXCEPT !.status = "booked"]
                  ELSE [@ EXCEPT !.reason = "parse_failed"]]
    /\ NextAttachment
    /\ UNCHANGED <<seen, ledger, crossed>> /\ StaffAside

(* The scanner reads the file, and the first rule of decideInvoiceBooking  *)
(* that is not met is the reason for review.  That the same invoice is     *)
(* known from another file is one of those rules, not told apart here.     *)
Scan ==
    /\ run.pc = "scan"
    /\ \E verdict \in {"book", "parse_failed", "other"} :
          run' = [run EXCEPT !.pc = "create", !.verdict = verdict]
    /\ UNCHANGED <<seen, attempts, item, ledger, crossed>> /\ StaffAside

CreateItem ==
    /\ run.pc = "create"
    /\ item[Head(run.left)] = Nothing
    /\ item' = [item EXCEPT ![Head(run.left)] =
                  [status |-> "review",
                   reason |-> IF run.verdict = "book" THEN "null" ELSE run.verdict]]
    /\ IF run.verdict = "book"
         THEN /\ run' = [run EXCEPT !.pc = "lines", !.line = 1]
              /\ UNCHANGED attempts
         ELSE NextAttachment
    /\ UNCHANGED <<seen, ledger, crossed>> /\ StaffAside

(* bookInvoiceAsExpenses: a line is inserted, or reported and passed over. *)
AfterLine(w, inserted) ==
    [w EXCEPT !.pc = IF w.line = Lines THEN "close" ELSE "lines",
              !.line = @ + 1, !.done = @ + inserted]

AddLine ==
    /\ run.pc = "lines"
    /\ \/ /\ ledger' = [ledger EXCEPT ![Head(run.left)][run.line] = @ + 1]
          /\ run' = AfterLine(run, 1)
       \/ UNCHANGED ledger /\ run' = AfterLine(run, 0)
    /\ UNCHANGED <<seen, attempts, item, crossed>> /\ StaffAside

(* Mutant: an invoice none of whose lines was inserted counts as booked.   *)
CloseItemAnyway ==
    /\ run.pc = "close"
    /\ item' = [item EXCEPT ![Head(run.left)] = [status |-> "booked", reason |-> "null"]]
    /\ NextAttachment
    /\ UNCHANGED <<seen, ledger, crossed>> /\ StaffAside

CloseItem ==
    /\ run.pc = "close"
    /\ item' = [item EXCEPT ![Head(run.left)] =
                  IF run.done = 0 THEN [@ EXCEPT !.reason = "parse_failed"]
                  ELSE [status |-> "booked", reason |-> "null"]]
    /\ NextAttachment
    /\ UNCHANGED <<seen, ledger, crossed>> /\ StaffAside

MarkProcessed ==
    /\ run.pc = "mark"
    /\ seen' = seen \cup {run.mail}
    /\ NextMail
    /\ UNCHANGED <<attempts, item, ledger, crossed>> /\ StaffAside

(* Mutant: the poison mail stays in the inbox, however often it failed.    *)
GiveUpNever(m, recorded) ==
    /\ attempts' = [attempts EXCEPT ![m] = 0]
    /\ UNCHANGED <<item, seen, unrecorded>>
    /\ NextMail

(* Mutant: so does this one, and its failures are counted on.              *)
GiveUpCounting(m, recorded) ==
    /\ attempts' = [attempts EXCEPT ![m] = @ + 1]
    /\ UNCHANGED <<item, seen, unrecorded>>
    /\ NextMail

(* Mutant: the poison mail is marked, without an item that says so.        *)
GiveUpSilently(m, recorded) ==
    /\ attempts' = [attempts EXCEPT ![m] = 0]
    /\ seen' = seen \cup {m}
    /\ UNCHANGED <<item, unrecorded>>
    /\ NextMail

(* The third failure: one review item under the hash of the mail if that   *)
(* can be written, and the mail is marked processed either way.            *)
GiveUp(m, recorded) ==
    /\ attempts' = [attempts EXCEPT ![m] = 0]
    /\ item' = [item EXCEPT ![m] =
                  IF recorded /\ @ = Nothing
                    THEN [status |-> "review", reason |-> "parse_failed"] ELSE @]
    /\ unrecorded' = IF recorded THEN unrecorded ELSE unrecorded \cup {m}
    /\ seen' = seen \cup {m}
    /\ NextMail

(* Recorded or not, the mark itself fails: that ends the run, and the mail  *)
(* is unseen again with its failures forgotten.                            *)
GiveUpUnmarked(m, recorded) ==
    /\ attempts' = [attempts EXCEPT ![m] = 0]
    /\ item' = [item EXCEPT ![m] =
                  IF recorded /\ @ = Nothing
                    THEN [status |-> "review", reason |-> "parse_failed"] ELSE @]
    /\ run' = RunIdle
    /\ UNCHANGED <<seen, unrecorded>>

(* The import of this mail throws: it stays unseen for the next run, and   *)
(* the others go on.                                                       *)
Thrown(fault) ==
    LET m == run.mail
    IN /\ IF attempts[m] + 1 < Attempts
            THEN /\ attempts' = [attempts EXCEPT ![m] = @ + 1]
                 /\ NextMail
                 /\ faults' = faults + fault
                 /\ UNCHANGED <<item, seen, unrecorded>>
            ELSE \E unrecordable, unmarked \in 0..1 :
                    /\ faults' = faults + fault + unrecordable + unmarked
                    /\ IF unmarked = 1 THEN GiveUpUnmarked(m, unrecordable = 0)
                                       ELSE GiveUp(m, unrecordable = 0)
       /\ faults' <= Faults
       /\ UNCHANGED <<ledger, crossed, clerk>>

(* What throws: a poison mail, the unique hash when a request of staff was *)
(* first, or a statement that fails.                                       *)
MailFails ==
    \/ run.pc = "mail" /\ run.mail \in Poison /\ Thrown(0)
    \/ run.pc = "create" /\ item[Head(run.left)] # Nothing /\ Thrown(0)
    \/ run.pc \in {"mail", "look", "expenses", "finish", "create", "close", "mark"}
       /\ Thrown(1)

PollStep ==
    \/ OpenMail \/ LookUpHash \/ ReadExpenses \/ FinishInterrupted \/ Scan
    \/ CreateItem \/ AddLine \/ CloseItem \/ MarkProcessed \/ MailFails

-----------------------------------------------------------------------------
(* Staff.  Every route reads the item first and decides on what it read.   *)
PollerAside == UNCHANGED <<seen, attempts, run, faults, unrecorded>>

Ask(c, f, route, pc) ==
    /\ clerk[c].pc = "idle"
    /\ clerk' = [clerk EXCEPT ![c] = [ClerkIdle EXCEPT !.pc = pc, !.route = route,
                                         !.file = f, !.reason = item[f].reason]]
    /\ UNCHANGED <<item, ledger, crossed>> /\ PollerAside

(* POST .../items/:id/book, /dismiss and /rescan refuse what is not in     *)
(* review.                                                                 *)
Review(c, f) ==
    /\ item[f].status = "review"
    /\ \/ Ask(c, f, "book", "expenses")
       \/ Ask(c, f, "dismiss", "close")
       \/ Ask(c, f, "rescan", "close")

(* POST /api/expenses/from-invoice refuses a file that is booked or        *)
(* waiting, and takes a dismissed item over.                               *)
ScanByHand(c, f) ==
    /\ item[f].status \notin Active
    /\ Ask(c, f, IF item[f] = Nothing THEN "insert" ELSE "takeover", "create")

StartOn(c, pc) == [clerk EXCEPT ![c].pc = pc, ![c].line = 1]

Stop(c) == clerk' = [clerk EXCEPT ![c] = ClerkIdle]

(* Mutant: the expenses of an earlier attempt are not looked for.          *)
BookOrHealUnread(c) ==
    /\ clerk[c].pc = "expenses"
    /\ LET f == clerk[c].file
       IN /\ clerk' = StartOn(c, "lines")
          /\ Cross(f, BookingByPoller(f) \/ BookingByClerk(f, Clerks \ {c}))
    /\ UNCHANGED <<item, ledger>> /\ PollerAside

(* With expenses of an earlier attempt the booking is only finished.       *)
BookOrHeal(c) ==
    /\ clerk[c].pc = "expenses"
    /\ LET f == clerk[c].file
       IN IF Spent(f)
            THEN clerk' = StartOn(c, "heal") /\ UNCHANGED crossed
            ELSE /\ clerk' = StartOn(c, "lines")
                 /\ Cross(f, BookingByPoller(f) \/ BookingByClerk(f, Clerks \ {c}))
    /\ UNCHANGED <<item, ledger>> /\ PollerAside

(* The item of a file scanned by hand: new, unless its hash is there by    *)
(* now, or the dismissed one.                                              *)
CreateByHand(c) ==
    /\ clerk[c].pc = "create"
    /\ LET f == clerk[c].file
       IN IF clerk[c].route = "insert" /\ item[f] # Nothing
            THEN Stop(c) /\ UNCHANGED <<item, crossed>>
            ELSE /\ item' = [item EXCEPT ![f] = [status |-> "review", reason |-> "null"]]
                 /\ clerk' = StartOn(c, "lines")
                 /\ Cross(f, Spent(f) \/ BookingByPoller(f)
                               \/ BookingByClerk(f, Clerks \ {c}))
    /\ UNCHANGED ledger /\ PollerAside

AddLineByHand(c) ==
    /\ clerk[c].pc = "lines"
    /\ \/ /\ ledger' = [ledger EXCEPT ![clerk[c].file][clerk[c].line] = @ + 1]
          /\ clerk' = [clerk EXCEPT ![c] = AfterLine(clerk[c], 1)]
       \/ UNCHANGED ledger /\ clerk' = [clerk EXCEPT ![c] = AfterLine(clerk[c], 0)]
    /\ UNCHANGED <<item, crossed>> /\ PollerAside

(* The last write of each route: one UPDATE by id, whatever the item has   *)
(* become.  A rescan writes the reason it read, and none for a failed      *)
(* scan.  Nothing booked: the review dialog leaves the item as it is.      *)
LastWrite(row, w) ==
    IF w.route = "dismiss" THEN [row EXCEPT !.status = "dismissed"]
    ELSE IF w.route = "rescan" THEN [row EXCEPT !.reason = IF w.reason = "parse_failed"
                                                         THEN "null" ELSE w.reason]
    ELSE IF w.route = "book"
      THEN IF w.pc = "close" /\ w.done = 0 THEN row ELSE [row EXCEPT !.status = "booked"]
    ELSE IF w.done = 0 THEN [row EXCEPT !.reason = "parse_failed"]
    ELSE [status |-> "booked", reason |-> "null"]

CloseByHand(c) ==
    /\ clerk[c].pc \in {"close", "heal", "again"}
    /\ item' = [item EXCEPT ![clerk[c].file] = LastWrite(@, clerk[c])]
    /\ Stop(c)
    /\ UNCHANGED <<ledger, crossed>> /\ PollerAside

ClerkStep(c) ==
    BookOrHeal(c) \/ CreateByHand(c) \/ AddLineByHand(c) \/ CloseByHand(c)

(* A statement fails: the request ends where it is - but for the close of a *)
(* scan by hand, which looks for the expenses there are and tries again.   *)
ClerkFails(c) ==
    LET w == clerk[c] IN
    /\ w.pc # "idle" /\ faults < Faults
    /\ faults' = faults + 1
    /\ IF w.pc = "close" /\ w.route \in {"insert", "takeover"}
         THEN clerk' = [clerk EXCEPT ![c].pc = "again",
                                     ![c].done = IF Spent(w.file) THEN 1 ELSE 0]
         ELSE Stop(c)
    /\ UNCHANGED <<seen, attempts, item, ledger, run, crossed, unrecorded>>

(* The server stops: requests, the run and the counts in memory are gone.  *)
InboxRestart ==
    /\ faults < Faults
    /\ faults' = faults + 1
    /\ run' = RunIdle
    /\ clerk' = [c \in Clerks |-> ClerkIdle]
    /\ attempts' = [m \in Mails |-> 0]
    /\ UNCHANGED <<seen, item, ledger, crossed, unrecorded>>

InboxNext ==
    \/ PollStart \/ PollStep \/ InboxRestart
    \/ \E c \in Clerks : ClerkStep(c) \/ ClerkFails(c)
    \/ \E c \in Clerks, f \in Files : Review(c, f) \/ ScanByHand(c, f)

InboxSpec == InboxInit /\ [][InboxNext]_inboxVars

-----------------------------------------------------------------------------
InboxTypeOK ==
    /\ seen \subseteq Mails /\ unrecorded \subseteq Mails /\ crossed \subseteq Files
    /\ attempts \in [Mails -> 0..Attempts]
    /\ item \in [Files \cup Mails -> ItemRows]
    /\ ledger \in [Files -> [1..Lines -> Nat]]
    /\ faults \in 0..Faults

(* A line of an invoice becomes one expense, however often the mail is     *)
(* read again, the file is scanned or the server stops - unless a booking  *)
(* began while another one of the same item was under way, or a dismissed  *)
(* item that had expenses already was taken over by a scan by hand.        *)
BookedOnce ==
    \A f \in Files : \A l \in 1..Lines : ledger[f][l] > 1 => f \in crossed

(* What is booked has cost something: no item says "booked" without an     *)
(* expense behind it.                                                      *)
BookedMeansSpent ==
    \A f \in Files : item[f].status = "booked" => Spent(f)

(* A mail leaves the inbox with a trace - an item for every attachment, or *)
(* one for the mail itself - and no trace is ever wiped out, unless the    *)
(* very record of giving up failed: the inbox implements the postbox.      *)
(* Nothing that can be recorded is lost with a poison mail: its            *)
(* attachments are never looked at.                                        *)
CarriedBy == [m \in Mails |->
                IF m \in Poison THEN {}
                ELSE { AttachmentsOf[m][i] : i \in DOMAIN AttachmentsOf[m] }]

OnFile == { h \in Files \cup Mails : item[h] # Nothing }

Promised == INSTANCE Postbox WITH
                Carries <- CarriedBy, waiting <- Mails \ seen,
                recorded <- OnFile, given_up <- unrecorded

ImplementsPostbox == Promised!PostSpec

(* Once the poller runs, every mail is handled in the end, also behind     *)
(* mails that can never be imported, as the poller gives up on those.      *)
EveryMailHandled == \A m \in Mails : run.pc # "idle" ~> m \in seen
=============================================================================
