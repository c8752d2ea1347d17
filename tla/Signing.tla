------------------------------- MODULE Signing -------------------------------
(***************************************************************************)
(* The contracts of one reservation: the office generates versions, a      *)
(* customer signs one in the portal, and each signature leaves a signed    *)
(* copy.  A document is a row and a file, and the two are written and      *)
(* removed in different statements.  Requests are interleaved statement by *)
(* statement; the only lock is the one on the version number, the only     *)
(* constraint the unique index on the signed document.                     *)
(***************************************************************************)
EXTENDS Naturals

CONSTANTS
    Docs,       \* document ids
    Jobs,       \* requests in flight
    Hashes,     \* what a file may contain, by its SHA-256
    Rendered,   \* bound: those of them a generation may produce
    NoFile,     \* the hash of a file that is gone
    NoDoc,      \* no document
    NoJob,      \* holder of a free lock
    Versions,   \* bound: version numbers
    MaxCrashes  \* bound: restarts of the server

Types == {"unsigned", "signed"}

ASSUME SigningAssumption ==
    /\ NoFile \notin Hashes /\ NoDoc \notin Docs /\ NoJob \notin Jobs
    /\ Rendered \subseteq Hashes
    /\ Versions \subseteq Nat \ {0} /\ MaxCrashes \in Nat

VARIABLES
    doc,        \* [Docs -> row of documents, with the hash of its file]
    signature,  \* [Docs -> row of portal_contract_signatures for that original]
    rental,     \* whether the reservation is open
    versionLock,\* [Types -> job whose transaction numbers a version]
    job,        \* [Jobs -> request]
    crashes     \* restarts so far

signingVars == <<doc, signature, rental, versionLock, job, crashes>>

Rows       == [exists : BOOLEAN, type : Types, version : Nat, stale : BOOLEAN,
               file : Hashes \cup {NoFile}]
Signatures == [exists : BOOLEAN, of : Docs \cup {NoDoc}, copy : Docs \cup {NoDoc},
               shown : Hashes \cup {NoFile}, original : Hashes \cup {NoFile}]

Stages == {"idle", "opened", "checked", "read", "number", "insert", "undo",
           "link", "unlink", "drop"}
JobRows == [pc : Stages, on : Docs \cup {NoDoc}, new : Docs \cup {NoDoc},
            type : Types, version : Nat, shown : Hashes \cup {NoFile},
            hash : Hashes \cup {NoFile}]

NoRow       == [exists |-> FALSE, type |-> "unsigned", version |-> 0,
                stale |-> FALSE, file |-> NoFile]
NoSignature == [exists |-> FALSE, of |-> NoDoc, copy |-> NoDoc, shown |-> NoFile,
                original |-> NoFile]
JobIdle     == [pc |-> "idle", on |-> NoDoc, new |-> NoDoc, type |-> "unsigned",
                version |-> 0, shown |-> NoFile, hash |-> NoFile]

SigningInit ==
    /\ doc = [d \in Docs |-> NoRow]
    /\ signature = [d \in Docs |-> NoSignature]
    /\ rental = "open"
    /\ versionLock = [t \in Types |-> NoJob]
    /\ job = [j \in Jobs |-> JobIdle]
    /\ crashes = 0

-----------------------------------------------------------------------------
Of(t) == { d \in Docs : doc[d].exists /\ doc[d].type = t }

(* Where a document stands (currentUnsignedIds, signingStates).            *)
Current(d) ==
    /\ d \in Of("unsigned") /\ ~doc[d].stale
    /\ \A e \in Of("unsigned") : ~doc[e].stale => doc[e].version <= doc[d].version
Signed(d) == \E s \in Docs : signature[s].exists /\ signature[s].of = d
ToSign(d) == Current(d) /\ rental = "open" /\ ~Signed(d)

(* isDocumentLockedBySignature: an original or a signed copy.              *)
LockedBySignature(d) ==
    Signed(d) \/ \E s \in Docs : signature[s].exists /\ signature[s].copy = d

(* Ids are never used twice.                                               *)
Unused(d) == doc[d] = NoRow

Step(j, pc) == job' = [job EXCEPT ![j].pc = pc]
Done(j)     == job' = [job EXCEPT ![j] = JobIdle]

-----------------------------------------------------------------------------
(* Signing: the page shows a file, the POST judges the document, reads the *)
(* file again, and inserts the signature before it writes the copy.        *)
Open(j, d) ==
    /\ job[j].pc = "idle" /\ d \in Of("unsigned") /\ doc[d].file # NoFile
    /\ job' = [job EXCEPT ![j] = [JobIdle EXCEPT !.pc = "opened", !.on = d,
                                                 !.shown = doc[d].file]]
    /\ UNCHANGED <<doc, signature, rental, versionLock, crashes>>

CheckState(j) ==
    /\ job[j].pc = "opened"
    /\ IF ToSign(job[j].on) THEN Step(j, "checked") ELSE Done(j)
    /\ UNCHANGED <<doc, signature, rental, versionLock, crashes>>

ReadFile(j) ==
    /\ job[j].pc = "checked"
    /\ IF doc[job[j].on].file = job[j].shown
         THEN job' = [job EXCEPT ![j].pc = "read", ![j].hash = doc[job[j].on].file]
         ELSE Done(j)
    /\ UNCHANGED <<doc, signature, rental, versionLock, crashes>>

(* Mutant: no unique index on document_id.                                 *)
InsertSignatureAgain(j) ==
    LET d == job[j].on IN
    /\ job[j].pc = "read"
    /\ IF doc[d].exists
         THEN /\ signature' = [signature EXCEPT ![d] =
                    [exists |-> TRUE, of |-> d, copy |-> NoDoc,
                     shown |-> job[j].shown, original |-> job[j].hash]]
              /\ job' = [job EXCEPT ![j].pc = "number", ![j].type = "signed"]
         ELSE UNCHANGED signature /\ Done(j)
    /\ UNCHANGED <<doc, rental, versionLock, crashes>>

(* Mutant: the request goes on although the INSERT did nothing.            *)
InsertSignatureHeedless(j) ==
    LET d == job[j].on IN
    /\ job[j].pc = "read"
    /\ signature' = [signature EXCEPT ![d] =
          IF doc[d].exists /\ ~Signed(d)
            THEN [exists |-> TRUE, of |-> d, copy |-> NoDoc,
                  shown |-> job[j].shown, original |-> job[j].hash]
            ELSE @]
    /\ job' = [job EXCEPT ![j].pc = "number", ![j].type = "signed"]
    /\ UNCHANGED <<doc, rental, versionLock, crashes>>

(* INSERT ... ON CONFLICT DO NOTHING on the unique document_id; a row that *)
(* is gone by now is refused by the foreign key.                           *)
InsertSignature(j) ==
    LET d == job[j].on IN
    /\ job[j].pc = "read"
    /\ IF doc[d].exists /\ ~Signed(d)
         THEN /\ signature' = [signature EXCEPT ![d] =
                    [exists |-> TRUE, of |-> d, copy |-> NoDoc,
                     shown |-> job[j].shown, original |-> job[j].hash]]
              /\ job' = [job EXCEPT ![j].pc = "number", ![j].type = "signed"]
         ELSE UNCHANGED signature /\ Done(j)
    /\ UNCHANGED <<doc, rental, versionLock, crashes>>

(* Mutant: the signature stays when its copy could not be registered.      *)
UndoSignatureNever(j) ==
    /\ job[j].pc = "undo"
    /\ Done(j)
    /\ UNCHANGED <<doc, signature, rental, versionLock, crashes>>

(* The copy could not be registered: the signature is taken back.          *)
UndoSignature(j) ==
    /\ job[j].pc = "undo"
    /\ signature' = [signature EXCEPT ![job[j].on] = NoSignature]
    /\ Done(j)
    /\ UNCHANGED <<doc, rental, versionLock, crashes>>

LinkCopy(j) ==
    /\ job[j].pc = "link"
    /\ signature' = [signature EXCEPT ![job[j].on].copy =
                        IF doc[job[j].new].exists THEN job[j].new ELSE NoDoc]
    /\ Done(j)
    /\ UNCHANGED <<doc, rental, versionLock, crashes>>

-----------------------------------------------------------------------------
(* registerGeneratedDocument: the file is on disk, then one transaction    *)
(* numbers the version under a lock, supersedes and inserts.               *)
Generate(j, h) ==
    /\ job[j].pc = "idle"
    /\ job' = [job EXCEPT ![j] = [JobIdle EXCEPT !.pc = "number", !.hash = h]]
    /\ UNCHANGED <<doc, signature, rental, versionLock, crashes>>

Free(j) == versionLock' = [versionLock EXCEPT ![job[j].type] = NoJob]

(* Mutant: the number is read before the transaction, without the lock.    *)
NumberVersionUnlocked(j, n) ==
    /\ job[j].pc = "number"
    /\ \A d \in Of(job[j].type) : doc[d].version < n
    /\ n = 1 \/ \E d \in Of(job[j].type) : doc[d].version = n - 1
    /\ job' = [job EXCEPT ![j].pc = "insert", ![j].version = n]
    /\ UNCHANGED <<doc, signature, rental, versionLock, crashes>>

(* One more than the highest version of this type, under its lock.         *)
NumberVersion(j, n) ==
    /\ job[j].pc = "number" /\ versionLock[job[j].type] = NoJob
    /\ \A d \in Of(job[j].type) : doc[d].version < n
    /\ n = 1 \/ \E d \in Of(job[j].type) : doc[d].version = n - 1
    /\ versionLock' = [versionLock EXCEPT ![job[j].type] = j]
    /\ job' = [job EXCEPT ![j].pc = "insert", ![j].version = n]
    /\ UNCHANGED <<doc, signature, rental, crashes>>

(* The new version makes the older unsigned ones stale; a signed copy      *)
(* supersedes nothing.                                                     *)
Superseded(t) ==
    [d \in Docs |-> IF t = "unsigned" /\ d \in Of(t)
                    THEN [doc[d] EXCEPT !.stale = TRUE] ELSE doc[d]]

InsertDocument(j, d) ==
    LET w == job[j] IN
    /\ w.pc = "insert" /\ Unused(d)
    /\ doc' = [Superseded(w.type) EXCEPT ![d] =
                  [exists |-> TRUE, type |-> w.type, version |-> w.version,
                   stale |-> FALSE, file |-> w.hash]]
    /\ Free(j)
    /\ IF w.type = "signed"
         THEN job' = [job EXCEPT ![j].pc = "link", ![j].new = d]
         ELSE Done(j)
    /\ UNCHANGED <<signature, rental, crashes>>

(* The transaction fails: the file is removed, the caller is told.         *)
RegisterFails(j) ==
    /\ job[j].pc \in {"number", "insert"}
    /\ versionLock' = [t \in Types |-> IF versionLock[t] = j THEN NoJob
                                       ELSE versionLock[t]]
    /\ IF job[j].type = "signed" THEN Step(j, "undo") ELSE Done(j)
    /\ UNCHANGED <<doc, signature, rental, crashes>>

-----------------------------------------------------------------------------
(* DELETE of a document: judged, then the file, then the row.              *)
DeleteCheck(j, d) ==
    /\ job[j].pc = "idle" /\ doc[d].exists
    /\ ~LockedBySignature(d)
    /\ job' = [job EXCEPT ![j] = [JobIdle EXCEPT !.pc = "unlink", !.on = d]]
    /\ UNCHANGED <<doc, signature, rental, versionLock, crashes>>

Unlink(j) ==
    /\ job[j].pc = "unlink"
    /\ doc' = [doc EXCEPT ![job[j].on].file = NoFile]
    /\ Step(j, "drop")
    /\ UNCHANGED <<signature, rental, versionLock, crashes>>

(* The row goes; a signature that points at it keeps a NULL (schema).      *)
DropRow(j) ==
    LET d == job[j].on IN
    /\ job[j].pc = "drop"
    /\ doc' = [doc EXCEPT ![d].exists = FALSE]
    /\ signature' = [s \in Docs |->
          [signature[s] EXCEPT !.of   = IF @ = d THEN NoDoc ELSE @,
                               !.copy = IF @ = d THEN NoDoc ELSE @]]
    /\ Done(j)
    /\ UNCHANGED <<rental, versionLock, crashes>>

(* An edit of the reservation makes its documents stale; it is cancelled   *)
(* or deleted, and comes back; the file of a document is overwritten.      *)
MarkStale ==
    /\ doc' = Superseded("unsigned")
    /\ UNCHANGED <<signature, rental, versionLock, job, crashes>>

CloseOrReopen ==
    /\ rental' = IF rental = "open" THEN "closed" ELSE "open"
    /\ UNCHANGED <<doc, signature, versionLock, job, crashes>>

Overwrite(d, h) ==
    /\ doc[d].exists /\ doc[d].file # NoFile
    /\ doc' = [doc EXCEPT ![d].file = h]
    /\ UNCHANGED <<signature, rental, versionLock, job, crashes>>

(* The server stops: transactions roll back, requests are gone.            *)
Crash ==
    /\ crashes < MaxCrashes
    /\ crashes' = crashes + 1
    /\ job' = [j \in Jobs |-> JobIdle]
    /\ versionLock' = [t \in Types |-> NoJob]
    /\ UNCHANGED <<doc, signature, rental>>

-----------------------------------------------------------------------------
SigningNext ==
    \/ \E j \in Jobs :
          \/ CheckState(j) \/ ReadFile(j) \/ InsertSignature(j)
          \/ UndoSignature(j) \/ LinkCopy(j) \/ RegisterFails(j)
          \/ Unlink(j) \/ DropRow(j)
          \/ \E d \in Docs : Open(j, d) \/ InsertDocument(j, d) \/ DeleteCheck(j, d)
          \/ \E h \in Rendered : Generate(j, h)
          \/ \E n \in Versions : NumberVersion(j, n)
    \/ \E d \in Docs, h \in Hashes : Overwrite(d, h)
    \/ MarkStale \/ CloseOrReopen \/ Crash

SigningSpec == SigningInit /\ [][SigningNext]_signingVars
-----------------------------------------------------------------------------
SigningTypeOK ==
    /\ doc \in [Docs -> Rows] /\ signature \in [Docs -> Signatures]
    /\ rental \in {"open", "closed"}
    /\ versionLock \in [Types -> Jobs \cup {NoJob}]
    /\ job \in [Jobs -> JobRows] /\ crashes \in 0..MaxCrashes

(* However many versions are generated at once, no two documents of one    *)
(* kind have the same number, and the one that counts as current is the    *)
(* newest (BUG-190).                                                       *)
VersionsInOrder ==
    \A d, e \in Docs :
        /\ doc[d].exists /\ doc[e].exists /\ d # e /\ doc[d].type = doc[e].type
        => /\ doc[d].version # doc[e].version
           /\ doc[d].type = "unsigned" /\ ~doc[d].stale
                 => doc[e].stale /\ doc[e].version < doc[d].version

(* Nobody signs a file other than the one the page showed, however the     *)
(* files change while the page is open.                                    *)
SignedAsShown ==
    \A s \in Docs : signature[s].exists => signature[s].original = signature[s].shown

(* A signature has its signed copy, unless it is being made or taken back, *)
(* the server stopped in the middle, or a signed copy was deleted before   *)
(* it was linked to its signature.                                         *)
SignatureHasItsCopy ==
    \A s \in Docs :
        signature[s].exists /\ signature[s].copy = NoDoc =>
            \/ crashes > 0
            \/ \E j \in Jobs : /\ job[j].on = s /\ job[j].type = "signed"
                              /\ job[j].pc \in {"number", "insert", "undo", "link"}
            \/ \E d \in Docs : /\ doc[d].type = "signed" /\ doc[d].version > 0
                              /\ ~doc[d].exists

(* The signed copy and its original are evidence; they never leave         *)
(* (routes.ts, the delete of a document).  The code breaks this: the       *)
(* document may be judged unsigned, be signed, and then be deleted.        *)
EvidenceStays ==
    [][\A d \in Docs : doc[d].exists /\ LockedBySignature(d) => doc'[d].exists
      ]_signingVars

(* Sealed: the signature names its original and its copy, both on record,  *)
(* and no request is on its way to delete one of them.                     *)
BeingDeleted(x) == \E j \in Jobs : job[j].pc \in {"unlink", "drop"} /\ job[j].on = x
Sealed(d) ==
    LET copy == signature[d].copy IN
    /\ signature[d].exists /\ signature[d].of = d /\ copy # NoDoc
    /\ \A x \in {d, copy} : doc[x].exists /\ ~BeingDeleted(x)

(* What is sealed stays on record: no second signer who read the page in   *)
(* time, no undo of a failed copy, no delete and no restart rewrites the   *)
(* signature or takes its original or its copy away.                       *)
SealedContractStays ==
    [][\A d \in Docs : Sealed(d) => Sealed(d)' /\ signature'[d] = signature[d]
      ]_signingVars

(* However its requests interleave, fail and are cut off, the dossier of a *)
(* reservation keeps its promise: each document is signed at most once, on *)
(* the bytes that were shown, and no two signatures share a signed copy    *)
(* (the unique index: "a second signer stop here, before any file exists").*)
Promised == INSTANCE Dossier
ImplementsDossier == Promised!DossierSpec
=============================================================================
