------------------------------ MODULE Postbox ------------------------------
(***************************************************************************)
(* What the invoice inbox promises about the mail it is sent, without a    *)
(* poller, runs, failures or restarts: a mail waits until it is on record, *)
(* by an item for each of its attachments or by one for the mail itself;   *)
(* what is on record stays on record; and no mail comes back.              *)
(***************************************************************************)
CONSTANTS
    Mails,      \* the mails that are sent
    Files,      \* what else can be put on record
    Carries     \* [Mails -> set of the attachments that can be recorded]

VARIABLES
    waiting,    \* mails that have not left the inbox
    recorded,   \* attachments and mails on record
    given_up    \* mails the inbox admits it could not record

postVars == <<waiting, recorded, given_up>>

PostInit == waiting = Mails /\ recorded = {} /\ given_up = {}

(* One more attachment, or a mail, is put on record.                       *)
Record ==
    /\ \E h \in Mails \cup Files : recorded' = recorded \cup {h}
    /\ UNCHANGED <<waiting, given_up>>

OnRecord(m, record) ==
    m \in record \/ (Carries[m] # {} /\ Carries[m] \subseteq record)

(* A mail leaves when it is on record, with that record if need be.        *)
Take(m) ==
    /\ m \in waiting /\ waiting' = waiting \ {m}
    /\ recorded' \in {recorded, recorded \cup {m}}
    /\ OnRecord(m, recorded')
    /\ UNCHANGED given_up

(* The record itself failed: the mail leaves, and that is known.           *)
GiveUpOn(m) ==
    /\ m \in waiting /\ waiting' = waiting \ {m}
    /\ given_up' = given_up \cup {m}
    /\ UNCHANGED recorded

PostNext == Record \/ \E m \in waiting : Take(m) \/ GiveUpOn(m)

PostSpec == PostInit /\ [][PostNext]_postVars
=============================================================================
