------------------------------ MODULE MCOffice ------------------------------
(* The promises that something happens at last: either the writers of the   *)
(* reservations on one vehicle and one day, or the invoice inbox with a      *)
(* mail that can never be imported in front of two that carry one file.      *)
(* The office is one of the two; the other one is as it began and stays so.  *)
EXTENDS BookingWrites, InvoiceInbox
CONSTANTS p1, p2, r1, r2, c1

VARIABLE office

OneDay    == { [start |-> [day |-> 2, time |-> NoTime],
                end   |-> [day |-> 2, time |-> NoTime]] }
StartOnly == {{"startDate"}}

MCMailbox  == <<"m1", "m2", "m3">>
MCAttached == [m \in {"m1", "m2", "m3"} |-> IF m = "m1" THEN <<>> ELSE <<"f1">>]

OfficeInit == office \in {"table", "inbox"} /\ Init /\ InboxInit

Table(step) == office = "table" /\ step /\ UNCHANGED <<office, inboxVars>>
Inbox(step) == office = "inbox" /\ step /\ UNCHANGED <<office, vars>>

OfficeNext == Table(Next) \/ Inbox(InboxNext)

officeVars == <<office, vars, inboxVars>>

(* The poller is called by a timer again and again, and a run that can go   *)
(* on does; of the staff nothing is asked.                                  *)
OfficeSpec ==
    /\ OfficeInit /\ [][OfficeNext]_officeVars
    /\ \A p \in Procs : SF_officeVars(Table(Step(p)))
    /\ WF_officeVars(Inbox(PollStart))
    /\ WF_officeVars(Inbox(PollStep))
=============================================================================
