------------------------------ MODULE Dossier ------------------------------
(***************************************************************************)
(* What the dossier of a reservation promises about its contracts and      *)
(* their signatures, with no requests, locks or restarts: a document keeps *)
(* the kind and the number it was filed under, and a number is never lower *)
(* than one that is there.  A document that is there is signed once, on    *)
(* the bytes that were shown; a signature gets one signed copy, that no    *)
(* other signature has, and only one without a copy is ever taken back.    *)
(***************************************************************************)
EXTENDS Naturals

CONSTANTS
    Docs,       \* document ids
    Hashes,     \* what a file may contain
    NoDoc       \* no document

VARIABLES
    doc,        \* [Docs -> row of documents]
    signature   \* [Docs -> signature of that document]

Filed(d)    == doc[d].version > 0
Pending(d)  == signature[d].exists /\ signature[d].copy = NoDoc
Kept(d)     == /\ doc'[d].exists = doc[d].exists /\ doc'[d].type = doc[d].type
               /\ doc'[d].version = doc[d].version
Others(set) == \A d \in Docs \ set : Kept(d)

DossierInit == \A d \in Docs : ~Filed(d) /\ ~doc[d].exists /\ ~signature[d].exists

(* A document is filed under an id and a number of its own.                *)
File(d) ==
    /\ ~Filed(d) /\ Filed(d)' /\ doc'[d].exists
    /\ \A e \in Docs : doc[e].exists /\ doc[e].type = doc'[d].type =>
          doc[e].version < doc'[d].version
    /\ Others({d}) /\ UNCHANGED signature

(* Marks and files change; numbers, kinds and signatures do not.           *)
Retouch == Others({}) /\ UNCHANGED signature

(* The first and only signature of a document that is there.               *)
Sign(d, h) ==
    /\ doc[d].exists /\ ~signature[d].exists
    /\ signature' = [signature EXCEPT ![d] =
          [exists |-> TRUE, of |-> d, copy |-> NoDoc, shown |-> h, original |-> h]]
    /\ Others({})

(* It gets its copy, a signed document that is no other signature's, ...   *)
Seal(d, c) ==
    /\ Pending(d) /\ doc[c].exists /\ doc[c].type = "signed"
    /\ \A s \in Docs : signature[s].copy # c
    /\ signature' = [signature EXCEPT ![d].copy = c]
    /\ Others({})

(* ... or it is taken back.                                                *)
TakeBack(d) ==
    /\ Pending(d) /\ ~signature'[d].exists
    /\ \A s \in Docs \ {d} : signature'[s] = signature[s]
    /\ Others({})

(* A document goes, and only the pointers to it go with it.                *)
Discard(d) ==
    /\ doc[d].exists /\ ~doc'[d].exists
    /\ doc'[d].type = doc[d].type /\ doc'[d].version = doc[d].version
    /\ signature' = [s \in Docs |->
          [signature[s] EXCEPT !.of   = IF @ = d THEN NoDoc ELSE @,
                               !.copy = IF @ = d THEN NoDoc ELSE @]]
    /\ Others({d})

DossierNext ==
    \/ Retouch
    \/ \E d \in Docs : \/ File(d) \/ TakeBack(d) \/ Discard(d)
                       \/ \E h \in Hashes : Sign(d, h)
                       \/ \E c \in Docs : Seal(d, c)

DossierSpec == DossierInit /\ [][DossierNext]_<<doc, signature>>
=============================================================================
