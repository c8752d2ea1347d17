--------------------------- MODULE Signing_proofs ---------------------------
(* Proofs about Signing, for any number of documents, requests, file       *)
(* contents and restarts.                                                  *)
EXTENDS Signing, TLAPS

(* The transaction that numbers a version holds the lock of its kind, and  *)
(* its number is still above every number of that kind.                    *)
NumberIsFree ==
    \A j \in Jobs : job[j].pc = "insert" =>
        /\ versionLock[job[j].type] = j
        /\ job[j].version > 0
        /\ \A d \in Docs : doc[d].exists /\ doc[d].type = job[j].type =>
                              doc[d].version < job[j].version

(* What a request has read is what it was shown; it works on a document.   *)
JobsAreSound ==
    \A j \in Jobs :
        /\ job[j].pc = "read" => job[j].hash = job[j].shown
        /\ job[j].pc \in {"opened", "checked", "read", "undo", "link", "unlink", "drop"}
              => job[j].on \in Docs
        /\ job[j].pc \in {"number", "insert"} /\ job[j].type = "signed"
              => job[j].on \in Docs

(* Whatever a signature or a request calls a signed copy was once inserted *)
(* as one; a document that exists has a number.                            *)
CopiesAreCopies ==
    /\ \A d \in Docs : doc[d].exists => doc[d].version > 0
    /\ \A j \in Jobs : job[j].pc = "link" =>
          /\ job[j].type = "signed" /\ job[j].new \in Docs
          /\ doc[job[j].new].type = "signed" /\ doc[job[j].new].version > 0
    /\ \A s \in Docs : signature[s].copy # NoDoc =>
          /\ signature[s].copy \in Docs
          /\ doc[signature[s].copy].type = "signed"
          /\ doc[signature[s].copy].version > 0

SigningInv ==
    /\ SigningTypeOK /\ NumberIsFree /\ JobsAreSound /\ CopiesAreCopies
    /\ VersionsInOrder /\ SignedAsShown /\ SignatureHasItsCopy

-----------------------------------------------------------------------------
(* What a request may become, and what a row may become.                   *)
LEMMA IdleTyped == JobIdle \in JobRows
BY DEF JobIdle, JobRows, Stages, Types

LEMMA UnsignedTyped == NoSignature \in Signatures
BY DEF NoSignature, Signatures

LEMMA JobTyped ==
    ASSUME job \in [Jobs -> JobRows], NEW j \in Jobs, NEW w \in JobRows
    PROVE  [job EXCEPT ![j] = w] \in [Jobs -> JobRows]
OBVIOUS

LEMMA StageTyped ==
    ASSUME NEW w \in JobRows, NEW pc \in Stages
    PROVE  [w EXCEPT !.pc = pc] \in JobRows
BY DEF JobRows

LEMMA DoneTyped ==
    ASSUME job \in [Jobs -> JobRows], NEW j \in Jobs, Done(j)
    PROVE  job' \in [Jobs -> JobRows]
BY IdleTyped, JobTyped DEF Done

LEMMA StepTyped ==
    ASSUME job \in [Jobs -> JobRows], NEW j \in Jobs, NEW pc \in Stages, Step(j, pc)
    PROVE  job' \in [Jobs -> JobRows]
<1>1. job[j] \in JobRows OBVIOUS
<1>2. [job[j] EXCEPT !.pc = pc] \in JobRows BY <1>1, StageTyped
<1>3. job' = [job EXCEPT ![j] = [job[j] EXCEPT !.pc = pc]] BY DEF Step
<1>. QED BY <1>2, <1>3, JobTyped

LEMMA SignerTyped ==
    ASSUME NEW w \in JobRows
    PROVE  [w EXCEPT !.pc = "number", !.type = "signed"] \in JobRows
BY DEF JobRows, Stages, Types

LEMMA ReaderTyped ==
    ASSUME NEW w \in JobRows, NEW h \in Hashes \cup {NoFile}
    PROVE  [w EXCEPT !.pc = "read", !.hash = h] \in JobRows
BY DEF JobRows, Stages

LEMMA LinkerTyped ==
    ASSUME NEW w \in JobRows, NEW d \in Docs
    PROVE  [w EXCEPT !.pc = "link", !.new = d] \in JobRows
BY DEF JobRows, Stages

LEMMA NumbererTyped ==
    ASSUME NEW w \in JobRows, NEW n \in Nat
    PROVE  [w EXCEPT !.pc = "insert", !.version = n] \in JobRows
BY DEF JobRows, Stages

LEMMA DroppedTyped ==
    ASSUME NEW w \in Rows PROVE [w EXCEPT !.exists = FALSE] \in Rows
BY DEF Rows

LEMMA UnlinkedTyped ==
    ASSUME signature \in [Docs -> Signatures], NEW d
    PROVE  [s \in Docs |-> [signature[s] EXCEPT !.of   = IF @ = d THEN NoDoc ELSE @,
                                              !.copy = IF @ = d THEN NoDoc ELSE @]]
              \in [Docs -> Signatures]
<1> SUFFICES ASSUME NEW s \in Docs
             PROVE  [signature[s] EXCEPT !.of   = IF @ = d THEN NoDoc ELSE @,
                                         !.copy = IF @ = d THEN NoDoc ELSE @] \in Signatures
    OBVIOUS
<1>1. signature[s] \in Signatures OBVIOUS
<1>2. PICK a, b \in Docs \cup {NoDoc} :
         [signature[s] EXCEPT !.of   = IF @ = d THEN NoDoc ELSE @,
                              !.copy = IF @ = d THEN NoDoc ELSE @]
         = [signature[s] EXCEPT !.of = a, !.copy = b]
      BY <1>1 DEF Signatures
<1>. QED BY <1>1, <1>2 DEF Signatures

LEMMA SupersededTyped ==
    ASSUME doc \in [Docs -> Rows], NEW t \in Types
    PROVE  Superseded(t) \in [Docs -> Rows]
BY DEF Superseded, Rows

-----------------------------------------------------------------------------
(* Every action keeps rows, signatures, locks and requests well typed.     *)
LEMMA TypeStep == SigningTypeOK /\ JobsAreSound /\ CopiesAreCopies
                     /\ [SigningNext]_signingVars => SigningTypeOK'
<1> SUFFICES ASSUME SigningTypeOK, JobsAreSound, CopiesAreCopies,
                    [SigningNext]_signingVars
             PROVE  SigningTypeOK'
    OBVIOUS
<1> USE SigningAssumption DEF SigningTypeOK
<1>1. ASSUME NEW j \in Jobs, CheckState(j) PROVE SigningTypeOK'
  <2>1. "checked" \in Stages BY DEF Stages
  <2>2. job' \in [Jobs -> JobRows]
        BY <1>1, <2>1, StepTyped, DoneTyped DEF CheckState
  <2>. QED BY <1>1, <2>2 DEF CheckState
<1>2. ASSUME NEW j \in Jobs, ReadFile(j) PROVE SigningTypeOK'
  <2>1. job[j].pc = "checked" /\ job[j].on \in Docs
        BY <1>2 DEF ReadFile, JobsAreSound
  <2>2. doc[job[j].on].file \in Hashes \cup {NoFile}
        BY <2>1 DEF Rows
  <2>3. [job[j] EXCEPT !.pc = "read", !.hash = doc[job[j].on].file] \in JobRows
        BY <2>2, ReaderTyped
  <2>4. job' \in [Jobs -> JobRows]
    <3>1. CASE doc[job[j].on].file = job[j].shown
          BY <1>2, <2>3, <3>1, JobTyped DEF ReadFile
    <3>2. CASE doc[job[j].on].file # job[j].shown
          BY <1>2, <3>2, DoneTyped DEF ReadFile
    <3>. QED BY <3>1, <3>2
  <2>. QED BY <1>2, <2>4 DEF ReadFile
<1>3. ASSUME NEW j \in Jobs, InsertSignature(j) PROVE SigningTypeOK'
  <2>1. job[j].on \in Docs BY <1>3 DEF InsertSignature, JobsAreSound
  <2>2. [job[j] EXCEPT !.pc = "number", !.type = "signed"] \in JobRows
        BY SignerTyped
  <2>3. [exists |-> TRUE, of |-> job[j].on, copy |-> NoDoc,
         shown |-> job[j].shown, original |-> job[j].hash] \in Signatures
        BY <2>1 DEF Signatures, JobRows
  <2>4. CASE doc[job[j].on].exists /\ ~Signed(job[j].on)
    <3>1. signature' \in [Docs -> Signatures]
          BY <1>3, <2>1, <2>3, <2>4 DEF InsertSignature
    <3>2. job' = [job EXCEPT ![j] = [job[j] EXCEPT !.pc = "number", !.type = "signed"]]
          BY <1>3, <2>4 DEF InsertSignature
    <3>3. job' \in [Jobs -> JobRows] BY <2>2, <3>2, JobTyped
    <3>. QED BY <1>3, <3>1, <3>3 DEF InsertSignature
  <2>5. CASE ~(doc[job[j].on].exists /\ ~Signed(job[j].on))
        BY <1>3, <2>5, DoneTyped DEF InsertSignature
  <2>. QED BY <2>4, <2>5
<1>4. ASSUME NEW j \in Jobs, UndoSignature(j) PROVE SigningTypeOK'
      BY <1>4, DoneTyped, UnsignedTyped DEF UndoSignature
<1>5. ASSUME NEW j \in Jobs, LinkCopy(j) PROVE SigningTypeOK'
  <2>1. job[j].new \in Docs /\ job[j].on \in Docs
        BY <1>5 DEF LinkCopy, CopiesAreCopies, JobsAreSound
  <2>2. \A c \in Docs \cup {NoDoc} : [signature[job[j].on] EXCEPT !.copy = c] \in Signatures
        BY <2>1 DEF Signatures
  <2>3. signature' \in [Docs -> Signatures]
        BY <1>5, <2>1, <2>2 DEF LinkCopy
  <2>. QED BY <1>5, <2>3, DoneTyped DEF LinkCopy
<1>6. ASSUME NEW j \in Jobs, RegisterFails(j) PROVE SigningTypeOK'
  <2>1. "undo" \in Stages BY DEF Stages
  <2>2. job' \in [Jobs -> JobRows]
        BY <1>6, <2>1, StepTyped, DoneTyped DEF RegisterFails
  <2>. QED BY <1>6, <2>2 DEF RegisterFails
<1>7. ASSUME NEW j \in Jobs, Unlink(j) PROVE SigningTypeOK'
  <2>1. "drop" \in Stages BY DEF Stages
  <2>2. job' \in [Jobs -> JobRows] BY <1>7, <2>1, StepTyped DEF Unlink
  <2>3. job[j].on \in Docs BY <1>7 DEF Unlink, JobsAreSound
  <2>4. [doc[job[j].on] EXCEPT !.file = NoFile] \in Rows BY <2>3 DEF Rows
  <2>. QED BY <1>7, <2>2, <2>3, <2>4 DEF Unlink
<1>8. ASSUME NEW j \in Jobs, DropRow(j) PROVE SigningTypeOK'
  <2>1. job[j].on \in Docs BY <1>8 DEF DropRow, JobsAreSound
  <2>2. [doc[job[j].on] EXCEPT !.exists = FALSE] \in Rows BY <2>1, DroppedTyped
  <2>3. signature' \in [Docs -> Signatures]
        BY <1>8, UnlinkedTyped DEF DropRow
  <2>. QED BY <1>8, <2>1, <2>2, <2>3, DoneTyped DEF DropRow
<1>9. ASSUME NEW j \in Jobs, NEW d \in Docs, Open(j, d) PROVE SigningTypeOK'
  <2>1. [JobIdle EXCEPT !.pc = "opened", !.on = d, !.shown = doc[d].file] \in JobRows
        BY IdleTyped DEF JobRows, Rows, Stages
  <2>. QED BY <1>9, <2>1, JobTyped DEF Open
<1>10. ASSUME NEW j \in Jobs, NEW d \in Docs, InsertDocument(j, d) PROVE SigningTypeOK'
  <2>1. [exists |-> TRUE, type |-> job[j].type, version |-> job[j].version,
         stale |-> FALSE, file |-> job[j].hash] \in Rows
        BY DEF Rows, JobRows
  <2>2. job[j].type \in Types BY DEF JobRows
  <2>3. doc' \in [Docs -> Rows]
        BY <1>10, <2>1, <2>2, SupersededTyped DEF InsertDocument
  <2>4. [job[j] EXCEPT !.pc = "link", !.new = d] \in JobRows
        BY LinkerTyped
  <2>5. job' \in [Jobs -> JobRows]
    <3>1. CASE job[j].type = "signed"
          BY <1>10, <2>4, <3>1, JobTyped DEF InsertDocument
    <3>2. CASE job[j].type # "signed"
          BY <1>10, <3>2, DoneTyped DEF InsertDocument
    <3>. QED BY <3>1, <3>2
  <2>. QED BY <1>10, <2>3, <2>5 DEF InsertDocument, Free
<1>11. ASSUME NEW j \in Jobs, NEW d \in Docs, DeleteCheck(j, d) PROVE SigningTypeOK'
  <2>1. [JobIdle EXCEPT !.pc = "unlink", !.on = d] \in JobRows
        BY IdleTyped DEF JobRows, Stages
  <2>2. job' = [job EXCEPT ![j] = [JobIdle EXCEPT !.pc = "unlink", !.on = d]]
        BY <1>11 DEF DeleteCheck
  <2>. QED BY <1>11, <2>1, <2>2, JobTyped DEF DeleteCheck
<1>12. ASSUME NEW j \in Jobs, NEW h \in Rendered, Generate(j, h) PROVE SigningTypeOK'
  <2>1. [JobIdle EXCEPT !.pc = "number", !.hash = h] \in JobRows
        BY IdleTyped DEF JobRows, Stages
  <2>. QED BY <1>12, <2>1, JobTyped DEF Generate
<1>13. ASSUME NEW j \in Jobs, NEW n \in Versions, NumberVersion(j, n) PROVE SigningTypeOK'
  <2>1. [job[j] EXCEPT !.pc = "insert", !.version = n] \in JobRows
        BY NumbererTyped
  <2>. QED BY <1>13, <2>1, JobTyped DEF NumberVersion
<1>14. ASSUME NEW d \in Docs, NEW h \in Hashes, Overwrite(d, h) PROVE SigningTypeOK'
  <2>1. [doc[d] EXCEPT !.file = h] \in Rows BY DEF Rows
  <2>. QED BY <1>14, <2>1 DEF Overwrite
<1>15. ASSUME MarkStale PROVE SigningTypeOK'
  <2>1. "unsigned" \in Types BY DEF Types
  <2>. QED BY <1>15, <2>1, SupersededTyped DEF MarkStale
<1>16. ASSUME CloseOrReopen PROVE SigningTypeOK'
       BY <1>16 DEF CloseOrReopen
<1>17. ASSUME Crash PROVE SigningTypeOK'
       BY <1>17, IdleTyped DEF Crash
<1>18. ASSUME UNCHANGED signingVars PROVE SigningTypeOK'
       BY <1>18 DEF signingVars
<1>. QED BY <1>1, <1>2, <1>3, <1>4, <1>5, <1>6, <1>7, <1>8, <1>9, <1>10, <1>11,
            <1>12, <1>13, <1>14, <1>15, <1>16, <1>17, <1>18 DEF SigningNext

-----------------------------------------------------------------------------
(* Only InsertDocument gives a row a kind and a number; every other step    *)
(* leaves them alone, brings no row back and freshens no stale one.        *)
DocsKept ==
    \A d \in Docs : /\ doc'[d].type = doc[d].type
                    /\ doc'[d].version = doc[d].version
                    /\ doc'[d].exists => doc[d].exists
                    /\ doc[d].stale => doc'[d].stale

LEMMA KeptUnlessInserted ==
    ASSUME SigningTypeOK, JobsAreSound, [SigningNext]_signingVars
    PROVE  DocsKept \/ \E j \in Jobs, d \in Docs : InsertDocument(j, d)
<1>1. ASSUME doc' = doc PROVE DocsKept
      BY <1>1 DEF DocsKept
<1>2. ASSUME doc' = Superseded("unsigned") PROVE DocsKept
      BY <1>2 DEF DocsKept, Superseded, SigningTypeOK, Rows
<1>3. ASSUME NEW j \in Jobs, Unlink(j) PROVE DocsKept
  <2>1. job[j].on \in Docs BY <1>3 DEF Unlink, JobsAreSound
  <2>. QED BY <1>3, <2>1 DEF DocsKept, Unlink, SigningTypeOK, Rows
<1>4. ASSUME NEW j \in Jobs, DropRow(j) PROVE DocsKept
  <2>1. job[j].on \in Docs BY <1>4 DEF DropRow, JobsAreSound
  <2>. QED BY <1>4, <2>1 DEF DocsKept, DropRow, SigningTypeOK, Rows
<1>5. ASSUME NEW d \in Docs, NEW h \in Hashes, Overwrite(d, h) PROVE DocsKept
      BY <1>5 DEF DocsKept, Overwrite, SigningTypeOK, Rows
<1>. QED BY <1>1, <1>2, <1>3, <1>4, <1>5
         DEF SigningNext, signingVars, CheckState, ReadFile, InsertSignature,
             UndoSignature, LinkCopy, RegisterFails, Open, DeleteCheck, Generate,
             NumberVersion, MarkStale, CloseOrReopen, Crash

-----------------------------------------------------------------------------
(* What InsertDocument does to the rows: its own becomes a numbered row of *)
(* the kind of the request, the others stay, stale if they are superseded. *)
LEMMA Inserted ==
    ASSUME SigningTypeOK, NEW j \in Jobs, NEW d \in Docs, InsertDocument(j, d)
    PROVE  /\ doc'[d].exists /\ ~doc'[d].stale
           /\ doc'[d].type = job[j].type /\ doc'[d].version = job[j].version
           /\ \A e \in Docs \ {d} :
                 /\ doc'[e].exists <=> doc[e].exists
                 /\ doc'[e].type = doc[e].type /\ doc'[e].version = doc[e].version
                 /\ doc[e].stale => doc'[e].stale
                 /\ job[j].type = "unsigned" /\ doc[e].type = "unsigned" /\ doc[e].exists
                        => doc'[e].stale
<1>1. doc' = [Superseded(job[j].type) EXCEPT ![d] =
                  [exists |-> TRUE, type |-> job[j].type, version |-> job[j].version,
                   stale |-> FALSE, file |-> job[j].hash]]
      BY DEF InsertDocument
<1>2. doc'[d] = [exists |-> TRUE, type |-> job[j].type, version |-> job[j].version,
                 stale |-> FALSE, file |-> job[j].hash]
      BY <1>1 DEF Superseded
<1>3. ASSUME NEW e \in Docs \ {d}
      PROVE  doc'[e] = IF job[j].type = "unsigned" /\ doc[e].exists /\ doc[e].type = "unsigned"
                       THEN [doc[e] EXCEPT !.stale = TRUE] ELSE doc[e]
      BY <1>1 DEF Superseded, Of
<1>4. ASSUME NEW e \in Docs \ {d}
      PROVE  /\ doc'[e].exists <=> doc[e].exists
             /\ doc'[e].type = doc[e].type /\ doc'[e].version = doc[e].version
             /\ doc[e].stale => doc'[e].stale
             /\ job[j].type = "unsigned" /\ doc[e].type = "unsigned" /\ doc[e].exists
                   => doc'[e].stale
  <2>1. doc[e] \in Rows BY DEF SigningTypeOK
  <2>2. CASE job[j].type = "unsigned" /\ doc[e].exists /\ doc[e].type = "unsigned"
        BY <1>3, <2>1, <2>2 DEF Rows
  <2>3. CASE ~(job[j].type = "unsigned" /\ doc[e].exists /\ doc[e].type = "unsigned")
        BY <1>3, <2>1, <2>3
  <2>. QED BY <2>2, <2>3
<1>. QED BY <1>2, <1>4

LEMMA UnusedHasNoNumber ==
    ASSUME NEW j \in Jobs, NEW d \in Docs, InsertDocument(j, d)
    PROVE  doc[d].version = 0 /\ ~doc[d].exists /\ doc[d].type = "unsigned"
BY DEF InsertDocument, Unused, NoRow

-----------------------------------------------------------------------------
(* Requests: a step moves one request, or stops them all; only             *)
(* NumberVersion takes one into a numbering transaction.                   *)
OthersKept(j) == \A k \in Jobs \ {j} : job'[k] = job[k]

HoldersStay ==
    \A k \in Jobs : job'[k].pc = "insert" =>
        job'[k] = job[k] /\ versionLock'[job[k].type] = versionLock[job[k].type]

LEMMA IdleHoldsNothing == JobIdle.pc = "idle" /\ JobIdle.type = "unsigned"
BY DEF JobIdle

LEMMA DoneLeavesOthers ==
    ASSUME job \in [Jobs -> JobRows], NEW j \in Jobs, Done(j)
    PROVE  OthersKept(j) /\ job'[j] = JobIdle
BY DEF Done, OthersKept

LEMMA StepLeavesOthers ==
    ASSUME job \in [Jobs -> JobRows], NEW j \in Jobs, NEW pc \in Stages, Step(j, pc)
    PROVE  OthersKept(j) /\ job'[j] = [job[j] EXCEPT !.pc = pc] /\ job'[j].pc = pc
           /\ job'[j].on = job[j].on /\ job'[j].type = job[j].type
BY DEF Step, OthersKept, JobRows

LEMMA HoldersKept ==
    ASSUME SigningTypeOK, NumberIsFree, [SigningNext]_signingVars
    PROVE  \/ HoldersStay
           \/ \E j \in Jobs, d \in Docs : InsertDocument(j, d)
           \/ \E j \in Jobs, n \in Versions : NumberVersion(j, n)
<1> USE DEF SigningTypeOK
<1>1. ASSUME NEW j \in Jobs, OthersKept(j), job'[j].pc # "insert",
             versionLock' = versionLock
      PROVE  HoldersStay
      BY <1>1 DEF OthersKept, HoldersStay
<1>2. ASSUME NEW j \in Jobs, CheckState(j) \/ Unlink(j) PROVE HoldersStay
  <2>1. OthersKept(j) /\ job'[j].pc # "insert"
    <3>1. CASE Done(j) BY <3>1, DoneLeavesOthers, IdleHoldsNothing
    <3>2. CASE Step(j, "checked") BY <3>2, StepLeavesOthers DEF Stages
    <3>3. CASE Step(j, "drop") BY <3>3, StepLeavesOthers DEF Stages
    <3>. QED BY <1>2, <3>1, <3>2, <3>3 DEF CheckState, Unlink
  <2>. QED BY <1>1, <1>2, <2>1 DEF CheckState, Unlink
<1>3. ASSUME NEW j \in Jobs, ReadFile(j) PROVE HoldersStay
  <2>1. OthersKept(j) /\ job'[j].pc # "insert"
        BY <1>3, DoneLeavesOthers, IdleHoldsNothing DEF ReadFile, OthersKept, JobRows
  <2>. QED BY <1>1, <1>3, <2>1 DEF ReadFile
<1>4. ASSUME NEW j \in Jobs, InsertSignature(j) PROVE HoldersStay
  <2>1. OthersKept(j) /\ job'[j].pc # "insert"
        BY <1>4, DoneLeavesOthers, IdleHoldsNothing DEF InsertSignature, OthersKept, JobRows
  <2>. QED BY <1>1, <1>4, <2>1 DEF InsertSignature
<1>5. ASSUME NEW j \in Jobs, UndoSignature(j) \/ LinkCopy(j) \/ DropRow(j) PROVE HoldersStay
      BY <1>1, <1>5, DoneLeavesOthers, IdleHoldsNothing
         DEF UndoSignature, LinkCopy, DropRow
<1>6. ASSUME NEW j \in Jobs, RegisterFails(j) PROVE HoldersStay
  <2>1. OthersKept(j) /\ job'[j].pc # "insert"
    <3>1. CASE Done(j) BY <3>1, DoneLeavesOthers, IdleHoldsNothing
    <3>2. CASE Step(j, "undo") BY <3>2, StepLeavesOthers DEF Stages
    <3>. QED BY <1>6, <3>1, <3>2 DEF RegisterFails
  <2>2. ASSUME NEW k \in Jobs, job'[k].pc = "insert"
        PROVE  versionLock'[job[k].type] = versionLock[job[k].type]
    <3>1. k # j /\ job[k].pc = "insert" BY <2>1, <2>2 DEF OthersKept
    <3>2. versionLock[job[k].type] = k /\ job[k].type \in Types
          BY <3>1 DEF NumberIsFree, JobRows
    <3>. QED BY <1>6, <3>1, <3>2 DEF RegisterFails
  <2>. QED BY <2>1, <2>2 DEF OthersKept, HoldersStay
<1>7. ASSUME NEW j \in Jobs, NEW d \in Docs, Open(j, d) \/ DeleteCheck(j, d)
      PROVE  HoldersStay
  <2>1. CASE Open(j, d)
    <3>1. OthersKept(j) /\ job'[j].pc = "opened"
          BY <2>1 DEF Open, OthersKept, JobIdle
    <3>. QED BY <1>1, <2>1, <3>1 DEF Open
  <2>2. CASE DeleteCheck(j, d)
    <3>1. OthersKept(j) /\ job'[j].pc = "unlink"
          BY <2>2 DEF DeleteCheck, OthersKept, JobIdle
    <3>. QED BY <1>1, <2>2, <3>1 DEF DeleteCheck
  <2>. QED BY <1>7, <2>1, <2>2
<1>8. ASSUME NEW j \in Jobs, NEW h \in Rendered, Generate(j, h) PROVE HoldersStay
  <2>1. OthersKept(j) /\ job'[j].pc # "insert"
        BY <1>8 DEF Generate, OthersKept, JobIdle
  <2>. QED BY <1>1, <1>8, <2>1 DEF Generate
<1>9. ASSUME Crash PROVE HoldersStay
      BY <1>9, IdleHoldsNothing DEF Crash, HoldersStay
<1>10. ASSUME job' = job, versionLock' = versionLock PROVE HoldersStay
       BY <1>10 DEF HoldersStay
<1>. QED BY <1>2, <1>3, <1>4, <1>5, <1>6, <1>7, <1>8, <1>9, <1>10
         DEF SigningNext, signingVars, Overwrite, MarkStale, CloseOrReopen

-----------------------------------------------------------------------------
(* NumberIsFree: the numbers of a kind grow only under its lock.           *)
LEMMA NumberStep ==
    ASSUME SigningTypeOK, NumberIsFree, JobsAreSound, [SigningNext]_signingVars
    PROVE  NumberIsFree'
<1> USE SigningAssumption DEF NumberIsFree
<1>1. ASSUME NEW j \in Jobs, NEW d \in Docs, InsertDocument(j, d) PROVE NumberIsFree'
  <2> SUFFICES ASSUME NEW k \in Jobs, job'[k].pc = "insert"
               PROVE  /\ versionLock'[job'[k].type] = k
                      /\ job'[k].version > 0
                      /\ \A e \in Docs : doc'[e].exists /\ doc'[e].type = job'[k].type
                                             => doc'[e].version < job'[k].version
      OBVIOUS
  <2>1. k # j /\ job'[k] = job[k]
    <3>1. job'[j].pc # "insert"
          BY <1>1 DEF InsertDocument, Done, JobIdle, SigningTypeOK, JobRows
    <3>2. \A i \in Jobs \ {j} : job'[i] = job[i]
          BY <1>1 DEF InsertDocument, Done, SigningTypeOK
    <3>. QED BY <3>1, <3>2
  <2>2. job[k].type # job[j].type /\ versionLock[job[k].type] = k
        BY <1>1, <2>1 DEF InsertDocument
  <2>3. job[k].type \in Types BY DEF SigningTypeOK, JobRows
  <2>4. versionLock'[job[k].type] = k
        BY <1>1, <2>2, <2>3 DEF InsertDocument, Free, SigningTypeOK
  <2>. QED BY <1>1, <2>1, <2>2, <2>4, Inserted
<1>2. ASSUME NEW j \in Jobs, NEW n \in Versions, NumberVersion(j, n) PROVE NumberIsFree'
  <2>1. job[j].type \in Types /\ n > 0 BY DEF SigningTypeOK, JobRows
  <2>2. /\ job'[j].pc = "insert" /\ job'[j].type = job[j].type /\ job'[j].version = n
        /\ \A k \in Jobs \ {j} : job'[k] = job[k]
        BY <1>2 DEF NumberVersion, SigningTypeOK, JobRows
  <2>3. /\ versionLock'[job[j].type] = j
        /\ \A t \in Types \ {job[j].type} : versionLock'[t] = versionLock[t]
        BY <1>2, <2>1 DEF NumberVersion, SigningTypeOK
  <2>4. ASSUME NEW k \in Jobs \ {j}, job[k].pc = "insert" PROVE job[k].type # job[j].type
        BY <1>2, <2>4 DEF NumberVersion
  <2>5. \A k \in Jobs : job[k].type \in Types BY DEF SigningTypeOK, JobRows
  <2>6. doc' = doc /\ \A e \in Of(job[j].type) : doc[e].version < n
        BY <1>2 DEF NumberVersion
  <2>. QED BY <2>1, <2>2, <2>3, <2>4, <2>5, <2>6 DEF Of
<1>3. ASSUME DocsKept, HoldersStay PROVE NumberIsFree'
      BY <1>3 DEF DocsKept, HoldersStay
<1>. QED BY <1>1, <1>2, <1>3, KeptUnlessInserted, HoldersKept

-----------------------------------------------------------------------------
(* JobsAreSound: a request reads what it was shown.                        *)
Sound(w) ==
    /\ w.pc = "read" => w.hash = w.shown
    /\ w.pc \in {"opened", "checked", "read", "undo", "link", "unlink", "drop"}
          => w.on \in Docs
    /\ w.pc \in {"number", "insert"} /\ w.type = "signed" => w.on \in Docs

LEMMA SoundStep ==
    ASSUME SigningTypeOK, JobsAreSound, [SigningNext]_signingVars
    PROVE  JobsAreSound'
<1> USE DEF SigningTypeOK
<1>1. \A j \in Jobs : Sound(job[j]) BY DEF JobsAreSound, Sound
<1>2. Sound(JobIdle) BY DEF Sound, JobIdle
<1>3. ASSUME NEW j \in Jobs, OthersKept(j), Sound(job'[j]) PROVE JobsAreSound'
      BY <1>1, <1>3 DEF OthersKept, Sound, JobsAreSound
<1>4. ASSUME NEW j \in Jobs, Done(j) PROVE JobsAreSound'
      BY <1>2, <1>3, <1>4, DoneLeavesOthers
<1>5. ASSUME NEW j \in Jobs, CheckState(j) PROVE JobsAreSound'
  <2>1. CASE Step(j, "checked")
    <3>1. Sound(job'[j])
          BY <1>1, <1>5, <2>1, StepLeavesOthers DEF CheckState, Sound, Stages
    <3>. QED BY <1>3, <2>1, <3>1, StepLeavesOthers DEF Stages
  <2>. QED BY <1>4, <1>5, <2>1 DEF CheckState
<1>6. ASSUME NEW j \in Jobs, ReadFile(j) PROVE JobsAreSound'
  <2>1. CASE doc[job[j].on].file = job[j].shown
    <3>1. job' = [job EXCEPT ![j] = [job[j] EXCEPT !.pc = "read", !.hash = job[j].shown]]
          BY <1>6, <2>1 DEF ReadFile
    <3>2. Sound(job'[j]) BY <1>1, <1>6, <3>1 DEF ReadFile, Sound, JobRows
    <3>3. OthersKept(j) BY <3>1 DEF OthersKept
    <3>. QED BY <1>3, <3>2, <3>3
  <2>. QED BY <1>4, <1>6, <2>1 DEF ReadFile
<1>7. ASSUME NEW j \in Jobs, InsertSignature(j) PROVE JobsAreSound'
  <2>1. CASE doc[job[j].on].exists /\ ~Signed(job[j].on)
    <3>1. job' = [job EXCEPT ![j] = [job[j] EXCEPT !.pc = "number", !.type = "signed"]]
          BY <1>7, <2>1 DEF InsertSignature
    <3>2. Sound(job'[j]) BY <1>1, <1>7, <3>1 DEF InsertSignature, Sound, JobRows
    <3>3. OthersKept(j) BY <3>1 DEF OthersKept
    <3>. QED BY <1>3, <3>2, <3>3
  <2>. QED BY <1>4, <1>7, <2>1 DEF InsertSignature
<1>8. ASSUME NEW j \in Jobs, UndoSignature(j) \/ LinkCopy(j) \/ DropRow(j)
      PROVE  JobsAreSound'
      BY <1>4, <1>8 DEF UndoSignature, LinkCopy, DropRow
<1>9. ASSUME NEW j \in Jobs, RegisterFails(j) PROVE JobsAreSound'
  <2>1. CASE job[j].type = "signed"
    <3>1. Step(j, "undo") BY <1>9, <2>1 DEF RegisterFails
    <3>2. Sound(job'[j])
          BY <1>1, <1>9, <2>1, <3>1, StepLeavesOthers DEF RegisterFails, Sound, Stages
    <3>. QED BY <1>3, <3>1, <3>2, StepLeavesOthers DEF Stages
  <2>. QED BY <1>4, <1>9, <2>1 DEF RegisterFails
<1>10. ASSUME NEW j \in Jobs, Unlink(j) PROVE JobsAreSound'
  <2>1. Step(j, "drop") BY <1>10 DEF Unlink
  <2>2. Sound(job'[j])
        BY <1>1, <1>10, <2>1, StepLeavesOthers DEF Unlink, Sound, Stages
  <2>. QED BY <1>3, <2>1, <2>2, StepLeavesOthers DEF Stages
<1>11. ASSUME NEW j \in Jobs, NEW d \in Docs, Open(j, d) \/ DeleteCheck(j, d)
       PROVE  JobsAreSound'
  <2>1. OthersKept(j) BY <1>11 DEF Open, DeleteCheck, OthersKept
  <2>2. CASE Open(j, d)
    <3>1. job'[j].pc = "opened" /\ job'[j].on = d
          BY <2>2 DEF Open, JobIdle
    <3>2. Sound(job'[j]) BY <1>11, <3>1 DEF Sound
    <3>. QED BY <1>3, <2>1, <3>2
  <2>3. CASE DeleteCheck(j, d)
    <3>1. job' = [job EXCEPT ![j] = [JobIdle EXCEPT !.pc = "unlink", !.on = d]]
          BY <2>3 DEF DeleteCheck
    <3>2. job'[j].pc = "unlink" /\ job'[j].on = d
          BY <3>1 DEF JobIdle
    <3>3. Sound(job'[j]) BY <1>11, <3>2 DEF Sound
    <3>. QED BY <1>3, <2>1, <3>3
  <2>. QED BY <1>11, <2>2, <2>3
<1>12. ASSUME NEW j \in Jobs, NEW h \in Rendered, Generate(j, h) PROVE JobsAreSound'
  <2>1. OthersKept(j) BY <1>12 DEF Generate, OthersKept
  <2>2. Sound(job'[j]) BY <1>12 DEF Generate, Sound, JobIdle
  <2>. QED BY <1>3, <2>1, <2>2
<1>13. ASSUME NEW j \in Jobs, NEW n \in Versions, NumberVersion(j, n) PROVE JobsAreSound'
  <2>1. OthersKept(j) BY <1>13 DEF NumberVersion, OthersKept
  <2>2. Sound(job'[j]) BY <1>1, <1>13 DEF NumberVersion, Sound, JobRows
  <2>. QED BY <1>3, <2>1, <2>2
<1>14. ASSUME NEW j \in Jobs, NEW d \in Docs, InsertDocument(j, d) PROVE JobsAreSound'
  <2>1. CASE job[j].type = "signed"
    <3>1. job' = [job EXCEPT ![j] = [job[j] EXCEPT !.pc = "link", !.new = d]]
          BY <1>14, <2>1 DEF InsertDocument
    <3>2. Sound(job'[j]) BY <1>1, <1>14, <2>1, <3>1 DEF InsertDocument, Sound, JobRows
    <3>3. OthersKept(j) BY <3>1 DEF OthersKept
    <3>. QED BY <1>3, <3>2, <3>3
  <2>. QED BY <1>4, <1>14, <2>1 DEF InsertDocument
<1>15. ASSUME Crash PROVE JobsAreSound'
       BY <1>2, <1>15 DEF Crash, JobsAreSound, Sound
<1>16. ASSUME job' = job PROVE JobsAreSound'
       BY <1>16 DEF JobsAreSound
<1>. QED BY <1>5, <1>6, <1>7, <1>8, <1>9, <1>10, <1>11, <1>12, <1>13, <1>14, <1>15, <1>16
         DEF SigningNext, signingVars, Overwrite, MarkStale, CloseOrReopen

-----------------------------------------------------------------------------
(* VersionsInOrder: a new version is numbered above all of its kind, and   *)
(* the unsigned ones below it are superseded by it.                        *)
LEMMA VersionsStep ==
    ASSUME SigningTypeOK, NumberIsFree, JobsAreSound, VersionsInOrder,
           [SigningNext]_signingVars
    PROVE  VersionsInOrder'
<1>1. ASSUME NEW j \in Jobs, NEW d \in Docs, InsertDocument(j, d) PROVE VersionsInOrder'
  <2>1. \A e \in Docs : doc[e].exists /\ doc[e].type = job[j].type =>
                            doc[e].version < job[j].version
        BY <1>1 DEF InsertDocument, NumberIsFree
  <2>2. \A e \in Docs : doc[e].version \in Nat
        BY DEF SigningTypeOK, Rows
  <2>3. job[j].version \in Nat BY DEF SigningTypeOK, JobRows
  <2>. QED BY <1>1, <2>1, <2>2, <2>3, Inserted DEF VersionsInOrder
<1>2. ASSUME DocsKept PROVE VersionsInOrder'
      BY <1>2 DEF DocsKept, VersionsInOrder
<1>. QED BY <1>1, <1>2, KeptUnlessInserted

-----------------------------------------------------------------------------
(* SignedAsShown: a signature is inserted with what was read, which is     *)
(* what was shown, and its hashes are never written again.                 *)
LEMMA ShownStep ==
    ASSUME SigningTypeOK, JobsAreSound, SignedAsShown, [SigningNext]_signingVars
    PROVE  SignedAsShown'
<1> USE DEF SigningTypeOK
<1>1. ASSUME NEW j \in Jobs, InsertSignature(j) PROVE SignedAsShown'
  <2>1. job[j].pc = "read" /\ job[j].hash = job[j].shown
        BY <1>1 DEF InsertSignature, JobsAreSound
  <2>. QED BY <1>1, <2>1 DEF InsertSignature, SignedAsShown
<1>2. ASSUME NEW j \in Jobs, UndoSignature(j) PROVE SignedAsShown'
      BY <1>2 DEF UndoSignature, SignedAsShown, NoSignature
<1>3. ASSUME NEW j \in Jobs, LinkCopy(j) PROVE SignedAsShown'
      BY <1>3 DEF LinkCopy, SignedAsShown, Signatures
<1>4. ASSUME NEW j \in Jobs, DropRow(j) PROVE SignedAsShown'
      BY <1>4 DEF DropRow, SignedAsShown, Signatures
<1>5. ASSUME signature' = signature PROVE SignedAsShown'
      BY <1>5 DEF SignedAsShown
<1>. QED BY <1>1, <1>2, <1>3, <1>4, <1>5
         DEF SigningNext, signingVars, CheckState, ReadFile, RegisterFails, Unlink,
             Open, InsertDocument, DeleteCheck, Generate, NumberVersion, Overwrite,
             MarkStale, CloseOrReopen, Crash

-----------------------------------------------------------------------------
(* CopiesAreCopies: what is linked was inserted as a signed document.      *)
ACopy(d) == d \in Docs /\ doc[d].type = "signed" /\ doc[d].version > 0

LEMMA CopiesStayCopies ==
    ASSUME SigningTypeOK, JobsAreSound, [SigningNext]_signingVars,
           NEW d, ACopy(d)
    PROVE  d \in Docs /\ doc'[d].type = "signed" /\ doc'[d].version > 0
<1>1. ASSUME NEW j \in Jobs, NEW e \in Docs, InsertDocument(j, e)
      PROVE  doc'[d].type = "signed" /\ doc'[d].version > 0
  <2>1. e # d BY <1>1, UnusedHasNoNumber DEF ACopy
  <2>. QED BY <1>1, <2>1, Inserted DEF ACopy
<1>2. ASSUME DocsKept PROVE doc'[d].type = "signed" /\ doc'[d].version > 0
      BY <1>2 DEF DocsKept, ACopy
<1>. QED BY <1>1, <1>2, KeptUnlessInserted DEF ACopy

LEMMA LinkedByInsertOnly ==
    ASSUME SigningTypeOK, [SigningNext]_signingVars,
           NEW k \in Jobs, job'[k].pc = "link"
    PROVE  job'[k] = job[k] \/ \E d \in Docs : InsertDocument(k, d) /\ job[k].type = "signed"
<1> USE DEF SigningTypeOK
<1>1. ASSUME NEW j \in Jobs, OthersKept(j), job'[j].pc # "link" PROVE job'[k] = job[k]
      BY <1>1 DEF OthersKept
<1>2. ASSUME NEW j \in Jobs, Done(j) PROVE job'[k] = job[k]
      BY <1>1, <1>2, DoneLeavesOthers, IdleHoldsNothing
<1>3. ASSUME NEW j \in Jobs, NEW pc \in Stages \ {"link"}, Step(j, pc) PROVE job'[k] = job[k]
  <2>1. OthersKept(j) /\ job'[j].pc = pc BY <1>3, StepLeavesOthers
  <2>2. job'[j].pc # "link" BY <1>3, <2>1
  <2>. QED BY <1>1, <2>1, <2>2
<1>4. ASSUME NEW j \in Jobs, CheckState(j) \/ Unlink(j) \/ RegisterFails(j)
      PROVE  job'[k] = job[k]
  <2>1. {"checked", "drop", "undo"} \subseteq Stages \ {"link"} BY DEF Stages
  <2>. QED BY <1>2, <1>3, <1>4, <2>1 DEF CheckState, Unlink, RegisterFails
<1>5. ASSUME NEW j \in Jobs, ReadFile(j) PROVE job'[k] = job[k]
  <2>1. CASE job' = [job EXCEPT ![j].pc = "read", ![j].hash = doc[job[j].on].file]
        BY <1>1, <2>1 DEF OthersKept, JobRows
  <2>. QED BY <1>2, <1>5, <2>1 DEF ReadFile
<1>6. ASSUME NEW j \in Jobs, InsertSignature(j) PROVE job'[k] = job[k]
  <2>1. CASE job' = [job EXCEPT ![j].pc = "number", ![j].type = "signed"]
        BY <1>1, <2>1 DEF OthersKept, JobRows
  <2>. QED BY <1>2, <1>6, <2>1 DEF InsertSignature
<1>7. ASSUME NEW j \in Jobs, UndoSignature(j) \/ LinkCopy(j) \/ DropRow(j)
      PROVE  job'[k] = job[k]
      BY <1>2, <1>7 DEF UndoSignature, LinkCopy, DropRow
<1>8. ASSUME NEW j \in Jobs, NEW d \in Docs, Open(j, d) \/ DeleteCheck(j, d)
      PROVE  job'[k] = job[k]
  <2>1. OthersKept(j)
        BY <1>8 DEF Open, DeleteCheck, OthersKept
  <2>2. CASE Open(j, d)
        BY <1>1, <2>1, <2>2 DEF Open, JobIdle
  <2>3. CASE DeleteCheck(j, d)
        BY <1>1, <2>1, <2>3 DEF DeleteCheck, JobIdle
  <2>. QED BY <1>8, <2>2, <2>3
<1>9. ASSUME NEW j \in Jobs, NEW h \in Rendered, Generate(j, h) PROVE job'[k] = job[k]
  <2>1. OthersKept(j) /\ job'[j].pc # "link"
        BY <1>9 DEF Generate, OthersKept, JobIdle
  <2>. QED BY <1>1, <2>1
<1>10. ASSUME NEW j \in Jobs, NEW n \in Versions, NumberVersion(j, n)
       PROVE  job'[k] = job[k]
  <2>1. OthersKept(j) /\ job'[j].pc # "link"
        BY <1>10 DEF NumberVersion, OthersKept, JobRows
  <2>. QED BY <1>1, <2>1
<1>11. ASSUME NEW j \in Jobs, NEW d \in Docs, InsertDocument(j, d)
       PROVE  job'[k] = job[k] \/ (InsertDocument(k, d) /\ job[k].type = "signed")
  <2>1. CASE job[j].type = "signed" /\ k = j
        BY <1>11, <2>1
  <2>2. CASE job[j].type = "signed" /\ k # j
    <3>1. job' = [job EXCEPT ![j].pc = "link", ![j].new = d]
          BY <1>11, <2>2 DEF InsertDocument
    <3>2. job'[k] = job[k] BY <2>2, <3>1
    <3>. QED BY <3>2
  <2>3. CASE job[j].type # "signed"
    <3>1. Done(j) BY <1>11, <2>3 DEF InsertDocument
    <3>2. job'[k] = job[k] BY <1>2, <1>11, <3>1
    <3>. QED BY <3>2
  <2>. QED BY <2>1, <2>2, <2>3
<1>12. ASSUME Crash PROVE FALSE
       BY <1>12, IdleHoldsNothing DEF Crash
<1>. QED BY <1>4, <1>5, <1>6, <1>7, <1>8, <1>9, <1>10, <1>11, <1>12
         DEF SigningNext, signingVars, Overwrite, MarkStale, CloseOrReopen

LEMMA CopySetByLinkOnly ==
    ASSUME SigningTypeOK, [SigningNext]_signingVars,
           NEW s \in Docs, signature'[s].copy # NoDoc
    PROVE  \/ signature'[s].copy = signature[s].copy
           \/ \E j \in Jobs : job[j].pc = "link" /\ signature'[s].copy = job[j].new
<1> USE DEF SigningTypeOK
<1>1. ASSUME NEW j \in Jobs, InsertSignature(j)
      PROVE  signature'[s].copy = signature[s].copy
      BY <1>1 DEF InsertSignature
<1>2. ASSUME NEW j \in Jobs, UndoSignature(j)
      PROVE  signature'[s].copy = signature[s].copy
      BY <1>2 DEF UndoSignature, NoSignature
<1>3. ASSUME NEW j \in Jobs, LinkCopy(j)
      PROVE  \/ signature'[s].copy = signature[s].copy
             \/ job[j].pc = "link" /\ signature'[s].copy = job[j].new
      BY <1>3 DEF LinkCopy, Signatures
<1>4. ASSUME NEW j \in Jobs, DropRow(j)
      PROVE  signature'[s].copy = signature[s].copy
      BY <1>4 DEF DropRow, Signatures
<1>. QED BY <1>1, <1>2, <1>3, <1>4
         DEF SigningNext, signingVars, CheckState, ReadFile, RegisterFails, Unlink,
             Open, InsertDocument, DeleteCheck, Generate, NumberVersion, Overwrite,
             MarkStale, CloseOrReopen, Crash

LEMMA CopiesStep ==
    ASSUME SigningTypeOK, NumberIsFree, JobsAreSound, CopiesAreCopies,
           [SigningNext]_signingVars
    PROVE  CopiesAreCopies'
<1> USE DEF SigningTypeOK
<1>1. \A d \in Docs : doc'[d].exists => doc'[d].version > 0
  <2>1. ASSUME NEW j \in Jobs, NEW e \in Docs, InsertDocument(j, e)
        PROVE  \A d \in Docs : doc'[d].exists => doc'[d].version > 0
    <3>1. job[j].version > 0 BY <2>1 DEF InsertDocument, NumberIsFree
    <3>. QED BY <2>1, <3>1, Inserted DEF CopiesAreCopies
  <2>2. ASSUME DocsKept PROVE \A d \in Docs : doc'[d].exists => doc'[d].version > 0
        BY <2>2 DEF DocsKept, CopiesAreCopies
  <2>. QED BY <2>1, <2>2, KeptUnlessInserted
<1>2. ASSUME NEW k \in Jobs, job'[k].pc = "link"
      PROVE  /\ job'[k].type = "signed" /\ job'[k].new \in Docs
             /\ doc'[job'[k].new].type = "signed" /\ doc'[job'[k].new].version > 0
  <2>1. CASE job'[k] = job[k]
    <3>1. job[k].type = "signed" /\ ACopy(job[k].new)
          BY <1>2, <2>1 DEF CopiesAreCopies, ACopy
    <3>. QED BY <2>1, <3>1, CopiesStayCopies
  <2>2. ASSUME NEW d \in Docs, InsertDocument(k, d), job[k].type = "signed"
        PROVE  /\ job'[k].type = "signed" /\ job'[k].new \in Docs
               /\ doc'[job'[k].new].type = "signed" /\ doc'[job'[k].new].version > 0
    <3>1. job[k].version > 0 BY <2>2 DEF InsertDocument, NumberIsFree
    <3>2. job'[k] = [job[k] EXCEPT !.pc = "link", !.new = d]
          BY <2>2 DEF InsertDocument
    <3>3. job'[k].type = "signed" /\ job'[k].new = d
          BY <2>2, <3>2 DEF JobRows
    <3>. QED BY <2>2, <3>1, <3>3, Inserted
  <2>3. job'[k] = job[k] \/ \E d \in Docs : InsertDocument(k, d) /\ job[k].type = "signed"
        BY <1>2, LinkedByInsertOnly
  <2>. QED BY <2>1, <2>2, <2>3
<1>3. ASSUME NEW s \in Docs, signature'[s].copy # NoDoc
      PROVE  /\ signature'[s].copy \in Docs
             /\ doc'[signature'[s].copy].type = "signed"
             /\ doc'[signature'[s].copy].version > 0
  <2>1. ASSUME signature'[s].copy = signature[s].copy
        PROVE  ACopy(signature'[s].copy)
        BY <1>3, <2>1 DEF CopiesAreCopies, ACopy
  <2>2. ASSUME NEW j \in Jobs, job[j].pc = "link", signature'[s].copy = job[j].new
        PROVE  ACopy(signature'[s].copy)
        BY <2>2 DEF CopiesAreCopies, ACopy
  <2>3. ACopy(signature'[s].copy)
        BY <1>3, <2>1, <2>2, CopySetByLinkOnly
  <2>. QED BY <2>3, CopiesStayCopies
<1>. QED BY <1>1, <1>2, <1>3 DEF CopiesAreCopies

-----------------------------------------------------------------------------
(* SignatureHasItsCopy: whoever inserts a signature carries it on to its   *)
(* copy or takes it back, unless the server stops or the copy goes.        *)
Carried(s, w) == w.on = s /\ w.type = "signed"
                   /\ w.pc \in {"number", "insert", "undo", "link"}

CopyLost == \E d \in Docs : doc[d].type = "signed" /\ doc[d].version > 0 /\ ~doc[d].exists

LEMMA CopyStaysLost ==
    ASSUME SigningTypeOK, JobsAreSound, [SigningNext]_signingVars, CopyLost
    PROVE  CopyLost'
<1>1. PICK d \in Docs : doc[d].type = "signed" /\ doc[d].version > 0 /\ ~doc[d].exists
      BY DEF CopyLost
<1>2. CASE DocsKept BY <1>1, <1>2 DEF DocsKept, CopyLost
<1>3. ASSUME NEW j \in Jobs, NEW e \in Docs, InsertDocument(j, e) PROVE CopyLost'
  <2>1. e # d BY <1>1, <1>3, UnusedHasNoNumber
  <2>. QED BY <1>1, <1>3, <2>1, Inserted DEF CopyLost
<1>. QED BY <1>2, <1>3, KeptUnlessInserted

LEMMA CopyStep ==
    ASSUME SigningTypeOK, JobsAreSound, CopiesAreCopies, SignatureHasItsCopy,
           [SigningNext]_signingVars
    PROVE  SignatureHasItsCopy'
<1> USE SigningAssumption DEF SigningTypeOK
<1> SUFFICES ASSUME NEW s \in Docs, signature'[s].exists, signature'[s].copy = NoDoc
             PROVE  \/ crashes' > 0
                    \/ \E j \in Jobs : Carried(s, job'[j])
                    \/ CopyLost'
    BY DEF SignatureHasItsCopy, Carried, CopyLost
<1> DEFINE Kept == signature[s].exists /\ signature[s].copy = NoDoc
           Goal == crashes' > 0 \/ (\E j \in Jobs : Carried(s, job'[j])) \/ CopyLost'
<1>1. Kept => \/ crashes > 0
              \/ \E j \in Jobs : Carried(s, job[j])
              \/ CopyLost
      BY DEF SignatureHasItsCopy, Carried, CopyLost
<1>2. crashes > 0 => crashes' > 0
  <2>1. crashes' = crashes \/ crashes' = crashes + 1
        BY DEF SigningNext, signingVars, CheckState, ReadFile, InsertSignature,
               UndoSignature, LinkCopy, RegisterFails, Unlink, DropRow, Open,
               InsertDocument, DeleteCheck, Generate, NumberVersion, Overwrite,
               MarkStale, CloseOrReopen, Crash
  <2>2. crashes \in Nat OBVIOUS
  <2>. QED BY <2>1, <2>2
<1>3. ASSUME Kept, \A j \in Jobs : Carried(s, job[j]) => Carried(s, job'[j])
      PROVE  Goal
      BY <1>1, <1>2, <1>3, CopyStaysLost
<1>4. ASSUME Kept, NEW j \in Jobs, OthersKept(j), Carried(s, job[j]) => Carried(s, job'[j])
      PROVE  Goal
      BY <1>3, <1>4 DEF OthersKept
<1>5. ASSUME signature' = signature PROVE Kept
      BY <1>5
<1>6. ASSUME NEW j \in Jobs, ~Carried(s, job[j]), OthersKept(j), signature' = signature
      PROVE  Goal
      BY <1>4, <1>5, <1>6
<1>7. ASSUME NEW j \in Jobs, CheckState(j) \/ Unlink(j) PROVE Goal
  <2>1. ~Carried(s, job[j]) BY <1>7 DEF CheckState, Unlink, Carried
  <2>2. OthersKept(j)
        BY <1>7, DoneLeavesOthers, StepLeavesOthers DEF CheckState, Unlink, Stages
  <2>. QED BY <1>6, <1>7, <2>1, <2>2 DEF CheckState, Unlink
<1>8. ASSUME NEW j \in Jobs, ReadFile(j) PROVE Goal
  <2>1. ~Carried(s, job[j]) BY <1>8 DEF ReadFile, Carried
  <2>2. OthersKept(j) BY <1>8 DEF ReadFile, Done, OthersKept
  <2>. QED BY <1>6, <1>8, <2>1, <2>2 DEF ReadFile
<1>9. ASSUME NEW j \in Jobs, InsertSignature(j) PROVE Goal
  <2>1. ~Carried(s, job[j]) BY <1>9 DEF InsertSignature, Carried
  <2>2. OthersKept(j) BY <1>9 DEF InsertSignature, Done, OthersKept
  <2>3. CASE doc[job[j].on].exists /\ ~Signed(job[j].on) /\ s = job[j].on
    <3>1. job' = [job EXCEPT ![j] = [job[j] EXCEPT !.pc = "number", !.type = "signed"]]
          BY <1>9, <2>3 DEF InsertSignature
    <3>2. Carried(s, job'[j]) BY <1>9, <2>3, <3>1 DEF Carried, JobRows
    <3>. QED BY <1>9, <3>2
  <2>4. CASE doc[job[j].on].exists /\ ~Signed(job[j].on) /\ s # job[j].on
    <3>1. signature'[s] = signature[s] BY <1>9, <2>4 DEF InsertSignature
    <3>. QED BY <1>4, <1>9, <2>1, <2>2, <3>1
  <2>5. CASE ~(doc[job[j].on].exists /\ ~Signed(job[j].on))
        BY <1>6, <1>9, <2>1, <2>2, <2>5 DEF InsertSignature
  <2>. QED BY <2>3, <2>4, <2>5
<1>10. ASSUME NEW j \in Jobs, UndoSignature(j) PROVE Goal
  <2>1. s # job[j].on BY <1>10 DEF UndoSignature, NoSignature
  <2>2. signature'[s] = signature[s] BY <1>10, <2>1 DEF UndoSignature
  <2>3. ~Carried(s, job[j]) BY <2>1 DEF Carried
  <2>4. OthersKept(j) BY <1>10, DoneLeavesOthers DEF UndoSignature
  <2>. QED BY <1>4, <1>10, <2>2, <2>3, <2>4
<1>11. ASSUME NEW j \in Jobs, LinkCopy(j) PROVE Goal
  <2>1. OthersKept(j) BY <1>11, DoneLeavesOthers DEF LinkCopy
  <2>2. CASE s # job[j].on
    <3>1. signature'[s] = signature[s] BY <1>11, <2>2 DEF LinkCopy
    <3>2. ~Carried(s, job[j]) BY <2>2 DEF Carried
    <3>. QED BY <1>4, <1>11, <2>1, <3>1, <3>2
  <2>3. CASE s = job[j].on
    <3>1. /\ job[j].new \in Docs /\ doc[job[j].new].type = "signed"
          /\ doc[job[j].new].version > 0
          BY <1>11 DEF LinkCopy, CopiesAreCopies
    <3>2. ~doc[job[j].new].exists
          BY <1>11, <2>3, <3>1 DEF LinkCopy, Signatures
    <3>3. CopyLost BY <3>1, <3>2 DEF CopyLost
    <3>. QED BY <3>3, CopyStaysLost
  <2>. QED BY <2>2, <2>3
<1>12. ASSUME NEW j \in Jobs, RegisterFails(j) PROVE Goal
  <2>1. OthersKept(j)
        BY <1>12, DoneLeavesOthers, StepLeavesOthers DEF RegisterFails, Stages
  <2>2. Carried(s, job[j]) => Carried(s, job'[j])
    <3>1. CASE job[j].type = "signed"
      <4>1. Step(j, "undo") BY <1>12, <3>1 DEF RegisterFails
      <4>. QED BY <1>12, <4>1, StepLeavesOthers DEF Carried, Stages
    <3>2. CASE job[j].type # "signed" BY <3>2 DEF Carried
    <3>. QED BY <3>1, <3>2
  <2>. QED BY <1>4, <1>5, <1>12, <2>1, <2>2 DEF RegisterFails
<1>13. ASSUME NEW j \in Jobs, DropRow(j) PROVE Goal
  <2>1. ~Carried(s, job[j]) BY <1>13 DEF DropRow, Carried
  <2>2. OthersKept(j) BY <1>13, DoneLeavesOthers DEF DropRow
  <2>3. /\ signature'[s].exists = signature[s].exists
        /\ signature'[s].copy = IF signature[s].copy = job[j].on THEN NoDoc
                                ELSE signature[s].copy
    <3>1. signature[s] \in Signatures OBVIOUS
    <3>2. signature' = [t \in Docs |->
             [signature[t] EXCEPT
                !.of   = IF signature[t].of = job[j].on THEN NoDoc ELSE signature[t].of,
                !.copy = IF signature[t].copy = job[j].on THEN NoDoc ELSE signature[t].copy]]
          BY <1>13 DEF DropRow
    <3>3. signature'[s] =
             [signature[s] EXCEPT
                !.of   = IF signature[s].of = job[j].on THEN NoDoc ELSE signature[s].of,
                !.copy = IF signature[s].copy = job[j].on THEN NoDoc ELSE signature[s].copy]
          BY <3>2
    <3>. QED BY <3>1, <3>3 DEF Signatures
  <2>4. CASE signature[s].copy = NoDoc
    <3>1. Kept BY <2>3, <2>4
    <3>. QED BY <1>4, <1>13, <2>1, <2>2, <3>1
  <2>5. CASE signature[s].copy # NoDoc
    <3>1. ACopy(signature[s].copy) BY <2>5 DEF CopiesAreCopies, ACopy
    <3>2. signature[s].copy = job[j].on
          BY <2>3, <2>5
    <3>3. job[j].on \in Docs /\ ~doc'[job[j].on].exists
      <4>1. job[j].on \in Docs BY <3>1, <3>2 DEF ACopy
      <4>2. doc'[job[j].on] = [doc[job[j].on] EXCEPT !.exists = FALSE]
            BY <1>13, <4>1 DEF DropRow
      <4>3. doc[job[j].on] \in Rows BY <4>1
      <4>. QED BY <4>1, <4>2, <4>3 DEF Rows
    <3>4. doc'[job[j].on].type = "signed" /\ doc'[job[j].on].version > 0
          BY <3>1, <3>2, CopiesStayCopies
    <3>5. CopyLost' BY <3>3, <3>4 DEF CopyLost
    <3>. QED BY <3>5
  <2>. QED BY <2>4, <2>5
<1>14. ASSUME NEW j \in Jobs, NEW d \in Docs, Open(j, d) \/ DeleteCheck(j, d) PROVE Goal
  <2>1. ~Carried(s, job[j]) BY <1>14 DEF Open, DeleteCheck, Carried
  <2>2. OthersKept(j) BY <1>14 DEF Open, DeleteCheck, OthersKept
  <2>. QED BY <1>6, <1>14, <2>1, <2>2 DEF Open, DeleteCheck
<1>15. ASSUME NEW j \in Jobs, NEW h \in Rendered, Generate(j, h) PROVE Goal
  <2>1. ~Carried(s, job[j]) BY <1>15 DEF Generate, Carried
  <2>2. OthersKept(j) BY <1>15 DEF Generate, OthersKept
  <2>. QED BY <1>6, <1>15, <2>1, <2>2 DEF Generate
<1>16. ASSUME NEW j \in Jobs, NEW n \in Versions, NumberVersion(j, n) PROVE Goal
  <2>1. OthersKept(j) BY <1>16 DEF NumberVersion, OthersKept
  <2>2. Carried(s, job[j]) => Carried(s, job'[j])
        BY <1>16 DEF NumberVersion, Carried, JobRows
  <2>. QED BY <1>4, <1>5, <1>16, <2>1, <2>2 DEF NumberVersion
<1>17. ASSUME NEW j \in Jobs, NEW d \in Docs, InsertDocument(j, d) PROVE Goal
  <2>1. OthersKept(j) BY <1>17 DEF InsertDocument, Done, OthersKept
  <2>2. Carried(s, job[j]) => Carried(s, job'[j])
    <3>1. CASE job[j].type = "signed"
      <4>1. job' = [job EXCEPT ![j] = [job[j] EXCEPT !.pc = "link", !.new = d]]
            BY <1>17, <3>1 DEF InsertDocument
      <4>. QED BY <1>17, <4>1 DEF Carried, JobRows
    <3>2. CASE job[j].type # "signed" BY <3>2 DEF Carried
    <3>. QED BY <3>1, <3>2
  <2>. QED BY <1>4, <1>5, <1>17, <2>1, <2>2 DEF InsertDocument
<1>18. ASSUME Crash PROVE Goal
  <2>1. crashes' = crashes + 1 /\ crashes \in Nat BY <1>18 DEF Crash
  <2>. QED BY <2>1
<1>19. ASSUME signature' = signature, job' = job PROVE Goal
       BY <1>3, <1>5, <1>19
<1>. QED BY <1>7, <1>8, <1>9, <1>10, <1>11, <1>12, <1>13, <1>14, <1>15, <1>16, <1>17,
            <1>18, <1>19
         DEF SigningNext, signingVars, Overwrite, MarkStale, CloseOrReopen

-----------------------------------------------------------------------------
(* The invariant holds at the start and is kept by every step.             *)
LEMMA SigningStarts == SigningInit => SigningInv
<1> SUFFICES ASSUME SigningInit PROVE SigningInv
    OBVIOUS
<1>1. NoRow \in Rows BY DEF NoRow, Rows, Types
<1>2. SigningTypeOK
      BY <1>1, IdleTyped, UnsignedTyped, SigningAssumption DEF SigningInit, SigningTypeOK
<1>3. NumberIsFree /\ JobsAreSound
      BY DEF SigningInit, NumberIsFree, JobsAreSound, JobIdle
<1>4. CopiesAreCopies
      BY DEF SigningInit, CopiesAreCopies, NoRow, NoSignature, JobIdle
<1>5. VersionsInOrder /\ SignedAsShown /\ SignatureHasItsCopy
      BY DEF SigningInit, VersionsInOrder, SignedAsShown, SignatureHasItsCopy,
             NoRow, NoSignature
<1>. QED BY <1>2, <1>3, <1>4, <1>5 DEF SigningInv

LEMMA SigningKept == SigningInv /\ [SigningNext]_signingVars => SigningInv'
BY TypeStep, NumberStep, SoundStep, CopiesStep, VersionsStep, ShownStep, CopyStep
   DEF SigningInv

(* The inductive invariant of the contracts, for any number of documents,  *)
(* requests, file contents, versions and restarts.                         *)
THEOREM SigningInvariance == SigningSpec => []SigningInv
BY SigningStarts, SigningKept, PTL DEF SigningSpec

(* Rows, signatures, locks and requests keep their types.                  *)
THEOREM SigningTyped == SigningSpec => []SigningTypeOK
<1>1. SigningInv => SigningTypeOK BY DEF SigningInv
<1>. QED BY <1>1, SigningInvariance, PTL

(* Concurrent generations never share a version number, and the current    *)
(* contract is the newest (registerGeneratedDocument).                     *)
THEOREM NumbersNeverShared == SigningSpec => []VersionsInOrder
<1>1. SigningInv => VersionsInOrder BY DEF SigningInv
<1>. QED BY <1>1, SigningInvariance, PTL

(* What is signed is the file that was shown (signContract).               *)
THEOREM NobodySignsUnseen == SigningSpec => []SignedAsShown
<1>1. SigningInv => SignedAsShown BY DEF SigningInv
<1>. QED BY <1>1, SigningInvariance, PTL

(* A signature is never left without its copy, but by a restart or by a    *)
(* copy that was deleted before it was linked (signContract).              *)
THEOREM SignaturesKeepTheirCopy == SigningSpec => []SignatureHasItsCopy
<1>1. SigningInv => SignatureHasItsCopy BY DEF SigningInv
<1>. QED BY <1>1, SigningInvariance, PTL

-----------------------------------------------------------------------------
(* The dossier.  A request carries a signature from its insert to its copy *)
(* or its end; while it does, nobody else has a hand on that signature.    *)
Carries(w) == \/ w.pc \in {"undo", "link"}
              \/ w.pc \in {"number", "insert"} /\ w.type = "signed"

(* A signature points at documents that are there, at its original as long *)
(* as that is there.                                                       *)
PointersHold ==
    \A s \in Docs :
        /\ signature[s].of # NoDoc => signature[s].of = s /\ doc[s].exists
        /\ signature[s].copy # NoDoc => doc[signature[s].copy].exists
        /\ signature[s].exists => /\ doc[s].version > 0
                                  /\ doc[s].exists => signature[s].of = s

(* Two requests carry two signatures and link two copies, which no         *)
(* signature has yet.                                                      *)
SignersApart ==
    /\ \A k \in Jobs : Carries(job[k]) =>
          /\ job[k].on \in Docs
          /\ signature[job[k].on].exists /\ signature[job[k].on].copy = NoDoc
    /\ \A j, k \in Jobs :
          Carries(job[j]) /\ Carries(job[k]) /\ job[j].on = job[k].on => j = k
    /\ \A k \in Jobs, s \in Docs : job[k].pc = "link" => signature[s].copy # job[k].new
    /\ \A j, k \in Jobs :
          job[j].pc = "link" /\ job[k].pc = "link" /\ job[j].new = job[k].new => j = k

(* What a page shows is the content of a file.                             *)
FilesShown ==
    \A k \in Jobs : job[k].pc \in {"opened", "checked", "read"} => job[k].shown \in Hashes

DossierInv == PointersHold /\ SignersApart /\ FilesShown

(* Where a request that carries a signature comes from.                    *)
Goes(k) ==
    /\ Carries(job[k]) /\ job'[k].on = job[k].on
    /\ job'[k].pc = "link" => job[k].pc = "link" /\ job'[k].new = job[k].new
Links(k) ==
    /\ Carries(job[k]) /\ job'[k].on = job[k].on
    /\ \E d \in Docs : InsertDocument(k, d) /\ job'[k].new = d
Begins(k) ==
    /\ InsertSignature(k) /\ doc[job[k].on].exists /\ ~Signed(job[k].on)
    /\ job'[k].on = job[k].on /\ job'[k].pc = "number"

LEMMA CarriersComeFrom ==
    ASSUME SigningTypeOK, [SigningNext]_signingVars, NEW k \in Jobs, Carries(job'[k])
    PROVE  Goes(k) \/ Links(k) \/ Begins(k)
<1> USE DEF SigningTypeOK
<1>1. ASSUME job'[k] = job[k] PROVE Goes(k)
      BY <1>1 DEF Goes
<1>2. ASSUME NEW j \in Jobs, OthersKept(j), ~Carries(job'[j]) PROVE Goes(k)
      BY <1>1, <1>2 DEF OthersKept
<1>3. ~Carries(JobIdle) BY DEF Carries, JobIdle
<1>4. ASSUME NEW j \in Jobs, Done(j) PROVE Goes(k)
      BY <1>2, <1>3, <1>4, DoneLeavesOthers
<1>5. ASSUME NEW j \in Jobs, CheckState(j) \/ Unlink(j) PROVE Goes(k)
  <2>1. CASE Step(j, "checked")
        BY <1>2, <2>1, StepLeavesOthers DEF Stages, Carries
  <2>2. CASE Step(j, "drop")
        BY <1>2, <2>2, StepLeavesOthers DEF Stages, Carries
  <2>. QED BY <1>4, <1>5, <2>1, <2>2 DEF CheckState, Unlink
<1>6. ASSUME NEW j \in Jobs, ReadFile(j) PROVE Goes(k)
  <2>1. CASE job' = [job EXCEPT ![j].pc = "read", ![j].hash = doc[job[j].on].file]
        BY <1>2, <2>1 DEF OthersKept, JobRows, Carries
  <2>. QED BY <1>4, <1>6, <2>1 DEF ReadFile
<1>7. ASSUME NEW j \in Jobs, InsertSignature(j) PROVE Goes(k) \/ Begins(k)
  <2>1. CASE doc[job[j].on].exists /\ ~Signed(job[j].on)
    <3>1. job' = [job EXCEPT ![j] = [job[j] EXCEPT !.pc = "number", !.type = "signed"]]
          BY <1>7, <2>1 DEF InsertSignature
    <3>2. CASE k = j BY <1>7, <2>1, <3>1, <3>2 DEF Begins, JobRows
    <3>3. CASE k # j BY <1>1, <3>1, <3>3
    <3>. QED BY <3>2, <3>3
  <2>. QED BY <1>4, <1>7, <2>1 DEF InsertSignature
<1>8. ASSUME NEW j \in Jobs, UndoSignature(j) \/ LinkCopy(j) \/ DropRow(j) PROVE Goes(k)
  <2>1. CASE UndoSignature(j) BY <1>4, <2>1 DEF UndoSignature
  <2>2. CASE LinkCopy(j) BY <1>4, <2>2 DEF LinkCopy
  <2>3. CASE DropRow(j)
    <3>1. Done(j) BY <2>3, Zenon DEF DropRow
    <3>. QED BY <1>4, <3>1
  <2>. QED BY <1>8, <2>1, <2>2, <2>3
<1>9. ASSUME NEW j \in Jobs, RegisterFails(j) PROVE Goes(k)
  <2>1. CASE job[j].type = "signed"
    <3>1. Step(j, "undo") BY <1>9, <2>1 DEF RegisterFails
    <3>2. OthersKept(j) /\ job'[j].pc = "undo" /\ job'[j].on = job[j].on
          BY <3>1, StepLeavesOthers DEF Stages
    <3>3. Carries(job[j]) BY <1>9, <2>1 DEF RegisterFails, Carries
    <3>4. CASE k = j BY <3>2, <3>3, <3>4 DEF Goes
    <3>5. CASE k # j BY <1>1, <3>2, <3>5 DEF OthersKept
    <3>. QED BY <3>4, <3>5
  <2>. QED BY <1>4, <1>9, <2>1 DEF RegisterFails
<1>10. ASSUME NEW j \in Jobs, NEW d \in Docs, Open(j, d) \/ DeleteCheck(j, d) PROVE Goes(k)
  <2>1. OthersKept(j) BY <1>10 DEF Open, DeleteCheck, OthersKept
  <2>2. CASE Open(j, d)
    <3>1. job'[j].pc = "opened" BY <2>2 DEF Open, JobIdle
    <3>. QED BY <1>2, <2>1, <3>1 DEF Carries
  <2>3. CASE DeleteCheck(j, d)
    <3>1. job'[j].pc = "unlink" BY <2>3 DEF DeleteCheck, JobIdle
    <3>. QED BY <1>2, <2>1, <3>1 DEF Carries
  <2>. QED BY <1>10, <2>2, <2>3
<1>11. ASSUME NEW j \in Jobs, NEW h \in Rendered, Generate(j, h) PROVE Goes(k)
  <2>1. OthersKept(j) BY <1>11 DEF Generate, OthersKept
  <2>2. job'[j].pc = "number" /\ job'[j].type = "unsigned" BY <1>11 DEF Generate, JobIdle
  <2>. QED BY <1>2, <2>1, <2>2 DEF Carries
<1>12. ASSUME NEW j \in Jobs, NEW n \in Versions, NumberVersion(j, n) PROVE Goes(k)
  <2>1. job[j].pc = "number" BY <1>12 DEF NumberVersion
  <2>2. OthersKept(j) BY <1>12 DEF NumberVersion, OthersKept
  <2>3. /\ job'[j].pc = "insert" /\ job'[j].on = job[j].on
        /\ job'[j].type = job[j].type
        BY <1>12 DEF NumberVersion, JobRows
  <2>4. CASE k = j BY <2>1, <2>3, <2>4 DEF Goes, Carries
  <2>5. CASE k # j BY <1>1, <2>2, <2>5 DEF OthersKept
  <2>. QED BY <2>4, <2>5
<1>13. ASSUME NEW j \in Jobs, NEW d \in Docs, InsertDocument(j, d) PROVE Goes(k) \/ Links(k)
  <2>1. CASE job[j].type = "signed"
    <3>1. job' = [job EXCEPT ![j] = [job[j] EXCEPT !.pc = "link", !.new = d]]
          BY <1>13, <2>1 DEF InsertDocument
    <3>2. Carries(job[j]) BY <1>13, <2>1 DEF InsertDocument, Carries
    <3>3. CASE k = j BY <1>13, <3>1, <3>2, <3>3 DEF Links, JobRows
    <3>4. CASE k # j BY <1>1, <3>1, <3>4
    <3>. QED BY <3>3, <3>4
  <2>. QED BY <1>4, <1>13, <2>1 DEF InsertDocument
<1>14. ASSUME Crash PROVE FALSE
       BY <1>3, <1>14 DEF Crash
<1>. QED BY <1>1, <1>5, <1>6, <1>7, <1>8, <1>9, <1>10, <1>11, <1>12, <1>13, <1>14
         DEF SigningNext, signingVars, Overwrite, MarkStale, CloseOrReopen

-----------------------------------------------------------------------------
(* What the statements do to rows and signatures.                          *)
RowsKept ==
    \A d \in Docs : /\ doc'[d].exists = doc[d].exists /\ doc'[d].type = doc[d].type
                    /\ doc'[d].version = doc[d].version

LEMMA UnsignedMeansNone ==
    ASSUME PointersHold, NEW d \in Docs, doc[d].exists, ~Signed(d)
    PROVE  ~signature[d].exists
BY DEF PointersHold, Signed

LEMMA Dropped ==
    ASSUME SigningTypeOK, NEW j \in Jobs, DropRow(j), job[j].on \in Docs
    PROVE  /\ \A s \in Docs :
                 /\ signature'[s].exists = signature[s].exists
                 /\ signature'[s].of = IF signature[s].of = job[j].on THEN NoDoc
                                       ELSE signature[s].of
                 /\ signature'[s].copy = IF signature[s].copy = job[j].on THEN NoDoc
                                         ELSE signature[s].copy
           /\ ~doc'[job[j].on].exists
           /\ doc'[job[j].on].type = doc[job[j].on].type
           /\ doc'[job[j].on].version = doc[job[j].on].version
           /\ \A d \in Docs \ {job[j].on} : doc'[d] = doc[d]
<1> USE DEF SigningTypeOK
<1>1. ASSUME NEW s \in Docs
      PROVE  /\ signature'[s].exists = signature[s].exists
             /\ signature'[s].of = IF signature[s].of = job[j].on THEN NoDoc
                                   ELSE signature[s].of
             /\ signature'[s].copy = IF signature[s].copy = job[j].on THEN NoDoc
                                     ELSE signature[s].copy
  <2>1. signature' = [t \in Docs |->
           [signature[t] EXCEPT
              !.of   = IF signature[t].of = job[j].on THEN NoDoc ELSE signature[t].of,
              !.copy = IF signature[t].copy = job[j].on THEN NoDoc ELSE signature[t].copy]]
        BY DEF DropRow
  <2>2. signature'[s] =
           [signature[s] EXCEPT
              !.of   = IF signature[s].of = job[j].on THEN NoDoc ELSE signature[s].of,
              !.copy = IF signature[s].copy = job[j].on THEN NoDoc ELSE signature[s].copy]
        BY <2>1
  <2>. QED BY <2>2 DEF Signatures
<1>2. doc' = [doc EXCEPT ![job[j].on] = [doc[job[j].on] EXCEPT !.exists = FALSE]]
      BY DEF DropRow
<1>3. doc[job[j].on] \in Rows OBVIOUS
<1>4. doc'[job[j].on] = [doc[job[j].on] EXCEPT !.exists = FALSE]
      BY <1>2
<1>5. \A d \in Docs \ {job[j].on} : doc'[d] = doc[d]
      BY <1>2
<1>. QED BY <1>1, <1>3, <1>4, <1>5 DEF Rows

LEMMA Untouched ==
    ASSUME SigningTypeOK, JobsAreSound, [SigningNext]_signingVars
    PROVE  \/ RowsKept /\ signature' = signature
           \/ \E j \in Jobs : \/ InsertSignature(j) \/ UndoSignature(j)
                             \/ LinkCopy(j) \/ DropRow(j)
           \/ \E j \in Jobs, d \in Docs : InsertDocument(j, d)
<1> USE DEF SigningTypeOK
<1>1. ASSUME doc' = doc PROVE RowsKept BY <1>1 DEF RowsKept
<1>2. ASSUME NEW j \in Jobs, Unlink(j) PROVE RowsKept
  <2>1. job[j].on \in Docs BY <1>2 DEF Unlink, JobsAreSound
  <2>. QED BY <1>2, <2>1 DEF Unlink, RowsKept, Rows
<1>3. ASSUME NEW d \in Docs, NEW h \in Hashes, Overwrite(d, h) PROVE RowsKept
      BY <1>3 DEF Overwrite, RowsKept, Rows
<1>4. ASSUME MarkStale PROVE RowsKept
      BY <1>4 DEF MarkStale, Superseded, RowsKept, Rows
<1>. QED BY <1>1, <1>2, <1>3, <1>4
         DEF SigningNext, signingVars, CheckState, ReadFile, RegisterFails, Open,
             DeleteCheck, Generate, NumberVersion, Unlink, Overwrite, MarkStale,
             CloseOrReopen, Crash

-----------------------------------------------------------------------------
(* PointersHold: a pointer is written to a row that is there, and a row    *)
(* that goes takes the pointers to it along.                               *)
LEMMA PointersStep ==
    ASSUME SigningTypeOK, JobsAreSound, CopiesAreCopies, PointersHold,
           [SigningNext]_signingVars
    PROVE  PointersHold'
<1> USE SigningAssumption DEF SigningTypeOK
<1>1. ASSUME RowsKept, signature' = signature PROVE PointersHold'
      BY <1>1 DEF PointersHold, RowsKept, CopiesAreCopies
<1>2. ASSUME NEW j \in Jobs, InsertSignature(j) PROVE PointersHold'
  <2>1. doc' = doc /\ job[j].on \in Docs
        BY <1>2 DEF InsertSignature, JobsAreSound
  <2>2. CASE doc[job[j].on].exists /\ ~Signed(job[j].on)
    <3>1. /\ signature'[job[j].on].of = job[j].on
          /\ signature'[job[j].on].copy = NoDoc
          /\ \A s \in Docs \ {job[j].on} : signature'[s] = signature[s]
          BY <1>2, <2>1, <2>2 DEF InsertSignature
    <3>2. doc[job[j].on].version > 0 BY <2>1, <2>2 DEF CopiesAreCopies
    <3>. QED BY <2>1, <2>2, <3>1, <3>2 DEF PointersHold
  <2>3. CASE ~(doc[job[j].on].exists /\ ~Signed(job[j].on))
        BY <1>2, <2>1, <2>3 DEF InsertSignature, PointersHold
  <2>. QED BY <2>2, <2>3
<1>3. ASSUME NEW j \in Jobs, UndoSignature(j) PROVE PointersHold'
  <2>1. doc' = doc /\ job[j].on \in Docs
        BY <1>3 DEF UndoSignature, JobsAreSound
  <2>2. /\ signature'[job[j].on] = NoSignature
        /\ \A s \in Docs \ {job[j].on} : signature'[s] = signature[s]
        BY <1>3, <2>1 DEF UndoSignature
  <2>. QED BY <2>1, <2>2 DEF PointersHold, NoSignature
<1>4. ASSUME NEW j \in Jobs, LinkCopy(j) PROVE PointersHold'
  <2>1. doc' = doc /\ job[j].on \in Docs
        BY <1>4 DEF LinkCopy, JobsAreSound
  <2>2. /\ signature'[job[j].on].exists = signature[job[j].on].exists
        /\ signature'[job[j].on].of = signature[job[j].on].of
        /\ signature'[job[j].on].copy = IF doc[job[j].new].exists THEN job[j].new ELSE NoDoc
        /\ \A s \in Docs \ {job[j].on} : signature'[s] = signature[s]
        BY <1>4, <2>1 DEF LinkCopy, Signatures
  <2>. QED BY <2>1, <2>2 DEF PointersHold
<1>5. ASSUME NEW j \in Jobs, DropRow(j) PROVE PointersHold'
  <2>1. job[j].on \in Docs BY <1>5 DEF DropRow, JobsAreSound
  <2>. QED BY <1>5, <2>1, Dropped DEF PointersHold, CopiesAreCopies
<1>6. ASSUME NEW j \in Jobs, NEW d \in Docs, InsertDocument(j, d) PROVE PointersHold'
  <2>1. signature' = signature /\ doc[d].version = 0 /\ ~doc[d].exists
        BY <1>6, UnusedHasNoNumber DEF InsertDocument
  <2>2. \A e \in Docs \ {d} : /\ doc'[e].exists <=> doc[e].exists
                              /\ doc'[e].version = doc[e].version
        BY <1>6, Inserted
  <2>3. doc'[d].exists BY <1>6, Inserted
  <2>. QED BY <2>1, <2>2, <2>3 DEF PointersHold, CopiesAreCopies
<1>. QED BY <1>1, <1>2, <1>3, <1>4, <1>5, <1>6, Untouched

-----------------------------------------------------------------------------
(* SignersApart: the unique index lets one request begin on an original,   *)
(* and a fresh document is nobody's copy.                                  *)
LEMMA InsertsMoveOne ==
    ASSUME SigningTypeOK, NEW j \in Jobs,
           InsertSignature(j) \/ \E d \in Docs : InsertDocument(j, d)
    PROVE  OthersKept(j)
BY DEF InsertSignature, InsertDocument, Done, OthersKept, SigningTypeOK

LEMMA CarriedStays ==
    ASSUME SigningTypeOK, JobsAreSound, PointersHold, SignersApart,
           [SigningNext]_signingVars,
           NEW k \in Jobs, Carries(job[k]), Carries(job'[k])
    PROVE  signature'[job[k].on].exists /\ signature'[job[k].on].copy = NoDoc
<1> USE DEF SigningTypeOK
<1>1. /\ job[k].on \in Docs
      /\ signature[job[k].on].exists /\ signature[job[k].on].copy = NoDoc
      BY DEF SignersApart
<1>2. ASSUME NEW j \in Jobs, InsertSignature(j)
      PROVE  signature'[job[k].on] = signature[job[k].on]
  <2>1. CASE doc[job[j].on].exists /\ ~Signed(job[j].on)
    <3>1. job[j].on \in Docs BY <1>2 DEF InsertSignature, JobsAreSound
    <3>2. job[j].on # job[k].on BY <1>1, <2>1, <3>1, UnsignedMeansNone
    <3>. QED BY <1>1, <1>2, <2>1, <3>2 DEF InsertSignature
  <2>. QED BY <1>2, <2>1 DEF InsertSignature
<1>3. ASSUME NEW j \in Jobs, UndoSignature(j) \/ LinkCopy(j)
      PROVE  signature'[job[k].on] = signature[job[k].on]
  <2>1. job'[j] = JobIdle
        BY <1>3, DoneLeavesOthers DEF UndoSignature, LinkCopy
  <2>2. j # k BY <2>1 DEF Carries, JobIdle
  <2>3. Carries(job[j]) BY <1>3 DEF UndoSignature, LinkCopy, Carries
  <2>4. job[j].on # job[k].on BY <2>2, <2>3 DEF SignersApart
  <2>. QED BY <1>1, <1>3, <2>4 DEF UndoSignature, LinkCopy
<1>4. ASSUME NEW j \in Jobs, DropRow(j)
      PROVE  signature'[job[k].on].exists /\ signature'[job[k].on].copy = NoDoc
  <2>1. job[j].on \in Docs BY <1>4 DEF DropRow, JobsAreSound
  <2>. QED BY <1>1, <1>4, <2>1, Dropped
<1>5. ASSUME NEW j \in Jobs, NEW d \in Docs, InsertDocument(j, d)
      PROVE  signature' = signature
      BY <1>5 DEF InsertDocument
<1>. QED BY <1>1, <1>2, <1>3, <1>4, <1>5, Untouched

LEMMA CopyStaysFree ==
    ASSUME SigningTypeOK, JobsAreSound, CopiesAreCopies, SignersApart,
           [SigningNext]_signingVars, NEW s \in Docs,
           NEW k \in Jobs, job[k].pc = "link", job'[k].pc = "link"
    PROVE  signature'[s].copy # job[k].new
<1> USE SigningAssumption DEF SigningTypeOK
<1>1. signature[s].copy # job[k].new /\ job[k].new # NoDoc
      BY DEF SignersApart, CopiesAreCopies
<1>2. ASSUME NEW j \in Jobs, InsertSignature(j)
      PROVE  signature'[s].copy \in {signature[s].copy, NoDoc}
      BY <1>2 DEF InsertSignature
<1>3. ASSUME NEW j \in Jobs, UndoSignature(j)
      PROVE  signature'[s].copy \in {signature[s].copy, NoDoc}
      BY <1>3 DEF UndoSignature, NoSignature
<1>4. ASSUME NEW j \in Jobs, LinkCopy(j)
      PROVE  signature'[s].copy # job[k].new
  <2>1. job'[j] = JobIdle BY <1>4, DoneLeavesOthers DEF LinkCopy
  <2>2. j # k BY <2>1 DEF JobIdle
  <2>3. job[j].new # job[k].new BY <1>4, <2>2 DEF LinkCopy, SignersApart
  <2>4. signature'[s].copy \in {signature[s].copy, NoDoc, job[j].new}
        BY <1>4 DEF LinkCopy, Signatures
  <2>. QED BY <1>1, <2>3, <2>4
<1>5. ASSUME NEW j \in Jobs, DropRow(j)
      PROVE  signature'[s].copy \in {signature[s].copy, NoDoc}
  <2>1. job[j].on \in Docs BY <1>5 DEF DropRow, JobsAreSound
  <2>. QED BY <1>5, <2>1, Dropped
<1>6. ASSUME NEW j \in Jobs, NEW d \in Docs, InsertDocument(j, d)
      PROVE  signature' = signature
      BY <1>6 DEF InsertDocument
<1>. QED BY <1>1, <1>2, <1>3, <1>4, <1>5, <1>6, Untouched

LEMMA ApartStep ==
    ASSUME SigningTypeOK, JobsAreSound, CopiesAreCopies, PointersHold, SignersApart,
           [SigningNext]_signingVars
    PROVE  SignersApart'
<1> USE SigningAssumption DEF SigningTypeOK
<1>1. ASSUME NEW k \in Jobs, Begins(k)
      PROVE  /\ job'[k].on = job[k].on /\ job[k].on \in Docs /\ OthersKept(k)
             /\ ~signature[job[k].on].exists /\ ~Carries(job[k]) /\ job'[k].pc # "link"
             /\ signature'[job[k].on].exists /\ signature'[job[k].on].copy = NoDoc
  <2>1. InsertSignature(k) /\ job[k].on \in Docs
        BY <1>1 DEF Begins, InsertSignature, JobsAreSound
  <2>2. ~signature[job[k].on].exists
        BY <1>1, <2>1, UnsignedMeansNone DEF Begins
  <2>3. ~Carries(job[k]) BY <2>1 DEF InsertSignature, Carries
  <2>4. signature'[job[k].on].exists /\ signature'[job[k].on].copy = NoDoc
        BY <1>1, <2>1 DEF Begins, InsertSignature
  <2>. QED BY <1>1, <2>1, <2>2, <2>3, <2>4, InsertsMoveOne DEF Begins
<1>2. ASSUME NEW k \in Jobs, NEW d \in Docs, InsertDocument(k, d)
      PROVE  /\ OthersKept(k) /\ job[k].pc = "insert" /\ signature' = signature
             /\ \A s \in Docs : signature[s].copy # d
             /\ \A j \in Jobs : job[j].pc = "link" => job[j].new # d
  <2>1. doc[d].version = 0 /\ ~doc[d].exists /\ d # NoDoc
        BY <1>2, UnusedHasNoNumber
  <2>2. \A s \in Docs : signature[s].copy # d BY <2>1 DEF PointersHold
  <2>3. \A j \in Jobs : job[j].pc = "link" => job[j].new # d
        BY <2>1 DEF CopiesAreCopies
  <2>. QED BY <1>2, <2>2, <2>3, InsertsMoveOne DEF InsertDocument
<1>3. ASSUME NEW k \in Jobs, Carries(job'[k])
      PROVE  /\ job'[k].on \in Docs
             /\ signature'[job'[k].on].exists /\ signature'[job'[k].on].copy = NoDoc
  <2>1. CASE Goes(k) \/ Links(k)
    <3>1. Carries(job[k]) /\ job'[k].on = job[k].on BY <2>1 DEF Goes, Links
    <3>. QED BY <1>3, <3>1, CarriedStays DEF SignersApart
  <2>. QED BY <1>1, <1>3, <2>1, CarriersComeFrom
<1>4. ASSUME NEW j \in Jobs, NEW k \in Jobs, Carries(job'[j]), Carries(job'[k]),
             job'[j].on = job'[k].on, j # k
      PROVE  FALSE
  <2>1. ASSUME NEW x \in Jobs, NEW y \in Jobs, x # y, Begins(x), Carries(job'[y])
        PROVE  job'[x].on # job'[y].on
    <3>1. job'[y] = job[y] BY <1>1, <2>1 DEF OthersKept
    <3>2. signature[job[y].on].exists BY <2>1, <3>1 DEF SignersApart
    <3>. QED BY <1>1, <2>1, <3>1, <3>2
  <2>2. ~Begins(j) /\ ~Begins(k) BY <1>4, <2>1
  <2>3. /\ Carries(job[j]) /\ job'[j].on = job[j].on
        /\ Carries(job[k]) /\ job'[k].on = job[k].on
        BY <1>4, <2>2, CarriersComeFrom DEF Goes, Links
  <2>. QED BY <1>4, <2>3 DEF SignersApart
<1>5. \A k \in Jobs : job'[k].pc = "link" => Carries(job'[k])
      BY DEF Carries
<1>6. ASSUME NEW k \in Jobs, job'[k].pc = "link"
      PROVE  \/ job[k].pc = "link" /\ job'[k].new = job[k].new
             \/ \E d \in Docs : InsertDocument(k, d) /\ job'[k].new = d
      BY <1>1, <1>5, <1>6, CarriersComeFrom DEF Goes, Links
<1>7. ASSUME NEW k \in Jobs, job'[k].pc = "link", NEW s \in Docs
      PROVE  signature'[s].copy # job'[k].new
      BY <1>2, <1>6, <1>7, CopyStaysFree
<1>8. ASSUME NEW j \in Jobs, NEW k \in Jobs, job'[j].pc = "link", job'[k].pc = "link",
             job'[j].new = job'[k].new, j # k
      PROVE  FALSE
  <2>1. ASSUME NEW x \in Jobs, NEW y \in Jobs, x # y, NEW d \in Docs,
               InsertDocument(x, d), job'[x].new = d, job'[y].pc = "link"
        PROVE  job'[y].new # d
    <3>1. job'[y] = job[y] BY <1>2, <2>1 DEF OthersKept
    <3>. QED BY <1>2, <2>1, <3>1
  <2>2. /\ job[j].pc = "link" /\ job'[j].new = job[j].new
        /\ job[k].pc = "link" /\ job'[k].new = job[k].new
        BY <1>6, <1>8, <2>1
  <2>. QED BY <1>8, <2>2 DEF SignersApart
<1>. QED BY <1>3, <1>4, <1>7, <1>8 DEF SignersApart

(* FilesShown: only Open puts something on a page, a file that is there.   *)
Watching == {"opened", "checked", "read"}

LEMMA ShownFileStep ==
    ASSUME SigningTypeOK, JobsAreSound, FilesShown, [SigningNext]_signingVars
    PROVE  FilesShown'
<1> USE SigningAssumption DEF SigningTypeOK, Watching
<1>1. ASSUME NEW j \in Jobs, OthersKept(j),
             job'[j].pc \in Watching =>
                \/ job'[j].shown \in Hashes
                \/ job[j].pc \in Watching /\ job'[j].shown = job[j].shown
      PROVE  FilesShown'
      BY <1>1 DEF OthersKept, FilesShown
<1>2. ASSUME NEW j \in Jobs, Done(j) PROVE FilesShown'
      BY <1>1, <1>2, DoneLeavesOthers DEF JobIdle
<1>3. ASSUME NEW j \in Jobs, NEW pc \in Stages \ Watching, Step(j, pc) PROVE FilesShown'
  <2>1. OthersKept(j) /\ job'[j].pc = pc BY <1>3, StepLeavesOthers
  <2>. QED BY <1>1, <1>3, <2>1
<1>4. ASSUME NEW j \in Jobs, CheckState(j) PROVE FilesShown'
  <2>1. CASE Step(j, "checked")
    <3>1. OthersKept(j) BY <2>1, StepLeavesOthers DEF Stages
    <3>2. job'[j].shown = job[j].shown BY <2>1 DEF Step, JobRows
    <3>. QED BY <1>1, <1>4, <3>1, <3>2 DEF CheckState
  <2>. QED BY <1>2, <1>4, <2>1 DEF CheckState
<1>5. ASSUME NEW j \in Jobs, ReadFile(j) PROVE FilesShown'
  <2>1. CASE job' = [job EXCEPT ![j].pc = "read", ![j].hash = doc[job[j].on].file]
    <3>1. OthersKept(j) BY <2>1 DEF OthersKept
    <3>2. job'[j].shown = job[j].shown BY <2>1 DEF JobRows
    <3>. QED BY <1>1, <1>5, <3>1, <3>2 DEF ReadFile
  <2>. QED BY <1>2, <1>5, <2>1 DEF ReadFile
<1>6. ASSUME NEW j \in Jobs, InsertSignature(j) PROVE FilesShown'
  <2>1. CASE job' = [job EXCEPT ![j].pc = "number", ![j].type = "signed"]
    <3>1. OthersKept(j) BY <2>1 DEF OthersKept
    <3>2. job'[j].pc = "number" BY <2>1 DEF JobRows
    <3>. QED BY <1>1, <3>1, <3>2
  <2>. QED BY <1>2, <1>6, <2>1 DEF InsertSignature
<1>7. ASSUME NEW j \in Jobs, UndoSignature(j) \/ LinkCopy(j) \/ DropRow(j) PROVE FilesShown'
  <2>1. CASE UndoSignature(j) BY <1>2, <2>1 DEF UndoSignature
  <2>2. CASE LinkCopy(j) BY <1>2, <2>2 DEF LinkCopy
  <2>3. CASE DropRow(j)
    <3>1. Done(j) BY <2>3, Zenon DEF DropRow
    <3>. QED BY <1>2, <3>1
  <2>. QED BY <1>7, <2>1, <2>2, <2>3
<1>8. ASSUME NEW j \in Jobs, RegisterFails(j) \/ Unlink(j) PROVE FilesShown'
  <2>1. {"undo", "drop"} \subseteq Stages \ Watching BY DEF Stages
  <2>. QED BY <1>2, <1>3, <1>8, <2>1 DEF RegisterFails, Unlink
<1>9. ASSUME NEW j \in Jobs, NEW d \in Docs, Open(j, d) PROVE FilesShown'
  <2>1. OthersKept(j) /\ job'[j].shown = doc[d].file
        BY <1>9 DEF Open, OthersKept, JobIdle
  <2>2. doc[d].file \in Hashes BY <1>9 DEF Open, Rows
  <2>. QED BY <1>1, <2>1, <2>2
<1>10. ASSUME NEW j \in Jobs, NEW d \in Docs, DeleteCheck(j, d) PROVE FilesShown'
  <2>1. OthersKept(j) /\ job'[j].pc = "unlink"
        BY <1>10 DEF DeleteCheck, OthersKept, JobIdle
  <2>. QED BY <1>1, <2>1
<1>11. ASSUME NEW j \in Jobs, NEW h \in Rendered, Generate(j, h) PROVE FilesShown'
  <2>1. OthersKept(j) /\ job'[j].pc = "number"
        BY <1>11 DEF Generate, OthersKept, JobIdle
  <2>. QED BY <1>1, <2>1
<1>12. ASSUME NEW j \in Jobs, NEW n \in Versions, NumberVersion(j, n) PROVE FilesShown'
  <2>1. OthersKept(j) /\ job'[j].pc = "insert"
        BY <1>12 DEF NumberVersion, OthersKept, JobRows
  <2>. QED BY <1>1, <2>1
<1>13. ASSUME NEW j \in Jobs, NEW d \in Docs, InsertDocument(j, d) PROVE FilesShown'
  <2>1. CASE job' = [job EXCEPT ![j].pc = "link", ![j].new = d]
    <3>1. OthersKept(j) /\ job'[j].pc = "link"
          BY <2>1 DEF OthersKept, JobRows
    <3>. QED BY <1>1, <3>1
  <2>. QED BY <1>2, <1>13, <2>1 DEF InsertDocument
<1>14. ASSUME Crash PROVE FilesShown'
       BY <1>14 DEF Crash, FilesShown, JobIdle
<1>15. ASSUME job' = job PROVE FilesShown'
       BY <1>15 DEF FilesShown
<1>. QED BY <1>4, <1>5, <1>6, <1>7, <1>8, <1>9, <1>10, <1>11, <1>12, <1>13, <1>14, <1>15
         DEF SigningNext, signingVars, Overwrite, MarkStale, CloseOrReopen

-----------------------------------------------------------------------------
(* Every step of the requests is a step of the dossier, or none.           *)
LEMMA EveryStepIsPromised ==
    ASSUME SigningInv, DossierInv, [SigningNext]_signingVars
    PROVE  [Promised!DossierNext]_<<doc, signature>>
<1> USE SigningAssumption DEF SigningInv, DossierInv, SigningTypeOK
<1>0. \A d \in Docs : doc[d].exists \in BOOLEAN /\ doc'[d].exists \in BOOLEAN
  <2>1. SigningTypeOK' BY TypeStep
  <2>. QED BY <2>1 DEF Rows
<1>1. ASSUME RowsKept, signature' = signature PROVE Promised!DossierNext
      BY <1>1 DEF RowsKept, Promised!DossierNext, Promised!Retouch, Promised!Others,
                  Promised!Kept
<1>2. ASSUME doc' = doc PROVE Promised!Others({})
      BY <1>2 DEF Promised!Others, Promised!Kept
<1>3. ASSUME NEW j \in Jobs, InsertSignature(j), signature' # signature
      PROVE  Promised!DossierNext
  <2>1. /\ job[j].on \in Docs /\ job[j].hash = job[j].shown /\ job[j].shown \in Hashes
        BY <1>3 DEF InsertSignature, JobsAreSound, FilesShown
  <2>2. /\ doc[job[j].on].exists /\ ~Signed(job[j].on)
        /\ signature' = [signature EXCEPT ![job[j].on] =
               [exists |-> TRUE, of |-> job[j].on, copy |-> NoDoc,
                shown |-> job[j].shown, original |-> job[j].shown]]
        BY <1>3, <2>1 DEF InsertSignature
  <2>3. ~signature[job[j].on].exists BY <2>1, <2>2, UnsignedMeansNone
  <2>4. Promised!Others({}) BY <1>2, <1>3 DEF InsertSignature
  <2>5. Promised!Sign(job[j].on, job[j].shown)
        BY <2>2, <2>3, <2>4 DEF Promised!Sign
  <2>. QED BY <2>1, <2>5 DEF Promised!DossierNext
<1>4. ASSUME NEW j \in Jobs, Carries(job[j]), job[j].on \in Docs
      PROVE  Promised!Pending(job[j].on)
      BY <1>4 DEF SignersApart, Promised!Pending
<1>5. ASSUME NEW j \in Jobs, UndoSignature(j) PROVE Promised!DossierNext
  <2>1. job[j].on \in Docs /\ Carries(job[j])
        BY <1>5 DEF UndoSignature, JobsAreSound, Carries
  <2>2. /\ ~signature'[job[j].on].exists
        /\ \A s \in Docs \ {job[j].on} : signature'[s] = signature[s]
        BY <1>5, <2>1 DEF UndoSignature, NoSignature
  <2>3. Promised!Others({}) BY <1>2, <1>5 DEF UndoSignature
  <2>4. Promised!TakeBack(job[j].on) BY <1>4, <2>1, <2>2, <2>3 DEF Promised!TakeBack
  <2>. QED BY <2>1, <2>4 DEF Promised!DossierNext
<1>6. ASSUME NEW j \in Jobs, LinkCopy(j), signature' # signature
      PROVE  Promised!DossierNext
  <2>1. /\ job[j].pc = "link" /\ job[j].on \in Docs /\ Carries(job[j])
        /\ job[j].new \in Docs /\ doc[job[j].new].type = "signed"
        BY <1>6 DEF LinkCopy, JobsAreSound, CopiesAreCopies, Carries
  <2>2. signature[job[j].on].copy = NoDoc BY <2>1 DEF SignersApart
  <2>3. doc[job[j].new].exists
    <3>1. signature[job[j].on] = [signature[job[j].on] EXCEPT !.copy = NoDoc]
          BY <2>1, <2>2 DEF Signatures
    <3>2. signature = [signature EXCEPT ![job[j].on] =
                          [signature[job[j].on] EXCEPT !.copy = NoDoc]]
          BY <2>1, <3>1
    <3>. QED BY <1>6, <3>2 DEF LinkCopy
  <2>4. signature' = [signature EXCEPT ![job[j].on].copy = job[j].new]
        BY <1>6, <2>3 DEF LinkCopy
  <2>5. \A s \in Docs : signature[s].copy # job[j].new
        BY <2>1 DEF SignersApart
  <2>6. Promised!Others({}) BY <1>2, <1>6 DEF LinkCopy
  <2>7. Promised!Seal(job[j].on, job[j].new)
        BY <1>4, <2>1, <2>3, <2>4, <2>5, <2>6 DEF Promised!Seal
  <2>. QED BY <2>1, <2>7 DEF Promised!DossierNext
<1>7. ASSUME NEW j \in Jobs, DropRow(j) PROVE [Promised!DossierNext]_<<doc, signature>>
  <2> DEFINE d == job[j].on
  <2>1. d \in Docs BY <1>7 DEF DropRow, JobsAreSound
  <2>2. signature' = [s \in Docs |->
           [signature[s] EXCEPT !.of   = IF @ = d THEN NoDoc ELSE @,
                                !.copy = IF @ = d THEN NoDoc ELSE @]]
        BY <1>7, Zenon DEF DropRow
  <2>3. CASE doc[d].exists
    <3>1. Promised!Others({d})
          BY <1>7, <2>1, Dropped DEF Promised!Others, Promised!Kept
    <3>2. Promised!Discard(d)
          BY <1>7, <2>1, <2>2, <2>3, <3>1, Dropped DEF Promised!Discard
    <3>. QED BY <2>1, <3>2 DEF Promised!DossierNext
  <2>4. CASE ~doc[d].exists
    <3>1. RowsKept BY <1>0, <1>7, <2>1, <2>4, Dropped DEF RowsKept
    <3>2. ASSUME NEW s \in Docs PROVE signature'[s] = signature[s]
      <4>1. signature[s].of # d /\ signature[s].copy # d
            BY <2>1, <2>4 DEF PointersHold
      <4>2. signature'[s] = [signature[s] EXCEPT !.of = signature[s].of,
                                                 !.copy = signature[s].copy]
            BY <2>2, <4>1
      <4>. QED BY <4>2 DEF Signatures
    <3>3. signature' = signature BY <2>2, <3>2
    <3>. QED BY <1>1, <3>1, <3>3
  <2>. QED BY <2>3, <2>4
<1>8. ASSUME NEW j \in Jobs, NEW d \in Docs, InsertDocument(j, d) PROVE Promised!DossierNext
  <2>1. job[j].pc = "insert" /\ signature' = signature BY <1>8 DEF InsertDocument
  <2>2. /\ job[j].version > 0
        /\ \A e \in Docs : doc[e].exists /\ doc[e].type = job[j].type =>
               doc[e].version < job[j].version
        BY <2>1 DEF NumberIsFree
  <2>3. doc[d].version = 0 BY <1>8, UnusedHasNoNumber
  <2>4. /\ doc'[d].exists /\ doc'[d].type = job[j].type
        /\ doc'[d].version = job[j].version
        /\ \A e \in Docs \ {d} : /\ doc'[e].exists <=> doc[e].exists
                                 /\ doc'[e].type = doc[e].type
                                 /\ doc'[e].version = doc[e].version
        BY <1>8, Inserted
  <2>5. Promised!Others({d}) BY <1>0, <2>4 DEF Promised!Others, Promised!Kept
  <2>6. Promised!File(d)
        BY <2>1, <2>2, <2>3, <2>4, <2>5 DEF Promised!File, Promised!Filed
  <2>. QED BY <2>6 DEF Promised!DossierNext
<1>. QED BY <1>1, <1>3, <1>5, <1>6, <1>7, <1>8, Untouched
         DEF InsertSignature, LinkCopy

LEMMA DossierStarts == SigningInit => DossierInv /\ Promised!DossierInit
BY SigningAssumption
   DEF SigningInit, DossierInv, PointersHold, SignersApart, FilesShown, Carries,
       JobIdle, NoRow, NoSignature, Promised!DossierInit, Promised!Filed

(* However generations, signatures, deletes and restarts interleave, the   *)
(* dossier keeps its promise (signContract, registerGeneratedDocument).    *)
THEOREM TheDossierKeepsItsPromise == SigningSpec => ImplementsDossier
<1>1. SigningInit => SigningInv /\ DossierInv /\ Promised!DossierInit
      BY SigningStarts, DossierStarts
<1>2. SigningInv /\ DossierInv /\ [SigningNext]_signingVars => SigningInv' /\ DossierInv'
      BY SigningKept, PointersStep, ApartStep, ShownFileStep DEF SigningInv, DossierInv
<1>3. SigningInv /\ DossierInv /\ [SigningNext]_signingVars
         => [Promised!DossierNext]_<<doc, signature>>
      BY EveryStepIsPromised
<1>. QED BY <1>1, <1>2, <1>3, PTL DEF SigningSpec, ImplementsDossier, Promised!DossierSpec

-----------------------------------------------------------------------------
(* A sealed contract.  Only a request that is deleting already, or one     *)
(* that judges a document without a signature, is deleting afterwards.     *)
LEMMA DeletersComeFrom ==
    ASSUME SigningTypeOK, [SigningNext]_signingVars,
           NEW k \in Jobs, job'[k].pc \in {"unlink", "drop"}
    PROVE  \/ job[k].pc \in {"unlink", "drop"} /\ job'[k].on = job[k].on
           \/ \E d \in Docs : ~LockedBySignature(d) /\ job'[k].on = d
<1> USE DEF SigningTypeOK
<1> DEFINE Came == \/ job[k].pc \in {"unlink", "drop"} /\ job'[k].on = job[k].on
                   \/ \E d \in Docs : ~LockedBySignature(d) /\ job'[k].on = d
<1> SUFFICES Came OBVIOUS
<1>1. ASSUME job'[k] = job[k] PROVE Came
      BY <1>1
<1>2. ASSUME NEW j \in Jobs, OthersKept(j), job'[j].pc \notin {"unlink", "drop"}
      PROVE  Came
      BY <1>1, <1>2 DEF OthersKept
<1>3. ASSUME NEW j \in Jobs, Done(j) PROVE Came
      BY <1>2, <1>3, DoneLeavesOthers DEF JobIdle
<1>4. ASSUME NEW j \in Jobs, NEW pc \in {"checked", "undo"}, Step(j, pc) PROVE Came
      BY <1>2, <1>4, StepLeavesOthers DEF Stages
<1>5. ASSUME NEW j \in Jobs, Unlink(j) PROVE Came
  <2>1. Step(j, "drop") /\ job[j].pc = "unlink" BY <1>5 DEF Unlink
  <2>2. OthersKept(j) /\ job'[j].on = job[j].on
        BY <2>1, StepLeavesOthers DEF Stages
  <2>3. CASE k = j BY <2>1, <2>2, <2>3
  <2>4. CASE k # j BY <1>1, <2>2, <2>4 DEF OthersKept
  <2>. QED BY <2>3, <2>4
<1>6. ASSUME NEW j \in Jobs, NEW w \in JobRows, job' = [job EXCEPT ![j] = w],
             w.pc \notin {"unlink", "drop"}
      PROVE  Came
      BY <1>2, <1>6 DEF OthersKept
<1>7. ASSUME NEW j \in Jobs, ReadFile(j) PROVE Came
  <2>1. CASE doc[job[j].on].file = job[j].shown
    <3>1. OthersKept(j) /\ job'[j].pc = "read"
          BY <1>7, <2>1 DEF ReadFile, OthersKept, JobRows
    <3>. QED BY <1>2, <3>1
  <2>. QED BY <1>3, <1>7, <2>1 DEF ReadFile
<1>8. ASSUME NEW j \in Jobs, InsertSignature(j) PROVE Came
  <2>1. CASE doc[job[j].on].exists /\ ~Signed(job[j].on)
    <3>1. OthersKept(j) /\ job'[j].pc = "number"
          BY <1>8, <2>1 DEF InsertSignature, OthersKept, JobRows
    <3>. QED BY <1>2, <3>1
  <2>. QED BY <1>3, <1>8, <2>1 DEF InsertSignature
<1>9. ASSUME NEW j \in Jobs, UndoSignature(j) \/ LinkCopy(j) \/ DropRow(j) PROVE Came
  <2>1. CASE UndoSignature(j) BY <1>3, <2>1 DEF UndoSignature
  <2>2. CASE LinkCopy(j) BY <1>3, <2>2 DEF LinkCopy
  <2>3. CASE DropRow(j)
    <3>1. Done(j) BY <2>3, Zenon DEF DropRow
    <3>. QED BY <1>3, <3>1
  <2>. QED BY <1>9, <2>1, <2>2, <2>3
<1>10. ASSUME NEW j \in Jobs, NEW d \in Docs, InsertDocument(j, d) PROVE Came
  <2>1. CASE job[j].type = "signed"
    <3>1. OthersKept(j) /\ job'[j].pc = "link"
          BY <1>10, <2>1 DEF InsertDocument, OthersKept, JobRows
    <3>. QED BY <1>2, <3>1
  <2>. QED BY <1>3, <1>10, <2>1 DEF InsertDocument
<1>11. ASSUME NEW j \in Jobs, NEW d \in Docs, DeleteCheck(j, d) PROVE Came
  <2>1. OthersKept(j) /\ ~LockedBySignature(d)
        BY <1>11 DEF DeleteCheck, OthersKept
  <2>2. job'[j].on = d BY <1>11 DEF DeleteCheck, JobIdle
  <2>3. CASE k = j BY <2>1, <2>2, <2>3
  <2>4. CASE k # j BY <1>1, <2>1, <2>4 DEF OthersKept
  <2>. QED BY <2>3, <2>4
<1>12. ASSUME NEW j \in Jobs, NEW d \in Docs, Open(j, d) PROVE Came
  <2>1. OthersKept(j) /\ job'[j].pc = "opened"
        BY <1>12 DEF Open, OthersKept, JobIdle
  <2>. QED BY <1>2, <2>1
<1>13. ASSUME NEW j \in Jobs, NEW h \in Rendered, Generate(j, h) PROVE Came
  <2>1. OthersKept(j) /\ job'[j].pc = "number"
        BY <1>13 DEF Generate, OthersKept, JobIdle
  <2>. QED BY <1>2, <2>1
<1>14. ASSUME NEW j \in Jobs, NEW n \in Versions, NumberVersion(j, n) PROVE Came
  <2>1. OthersKept(j) /\ job'[j].pc = "insert"
        BY <1>14 DEF NumberVersion, OthersKept, JobRows
  <2>. QED BY <1>2, <2>1
<1>15. ASSUME Crash PROVE FALSE
       BY <1>15 DEF Crash, JobIdle
<1>. QED BY <1>1, <1>3, <1>4, <1>5, <1>7, <1>8, <1>9, <1>10, <1>11, <1>12, <1>13,
            <1>14, <1>15
         DEF SigningNext, signingVars, CheckState, RegisterFails, Overwrite, MarkStale,
             CloseOrReopen

LEMMA SameRow ==
    ASSUME signature \in [Docs -> Signatures], NEW d \in Docs
    PROVE  [signature[d] EXCEPT !.of = signature[d].of, !.copy = signature[d].copy]
              = signature[d]
<1>1. signature[d] \in Signatures OBVIOUS
<1>. QED BY <1>1 DEF Signatures

LEMMA SealedKept ==
    ASSUME SigningInv, DossierInv, [SigningNext]_signingVars, NEW d \in Docs, Sealed(d)
    PROVE  Sealed(d)' /\ signature'[d] = signature[d]
<1> USE SigningAssumption DEF SigningInv, DossierInv, SigningTypeOK
<1> DEFINE copy == signature[d].copy
<1>1. /\ signature[d].exists /\ signature[d].of = d
      /\ copy \in Docs /\ copy # NoDoc
      /\ \A x \in {d, copy} : doc[x].exists /\ ~BeingDeleted(x)
      BY DEF Sealed, Signatures
<1>2. Signed(d) /\ \A x \in {d, copy} : LockedBySignature(x)
      BY <1>1 DEF Signed, LockedBySignature
<1>3. ASSUME NEW j \in Jobs, DropRow(j)
      PROVE  /\ job[j].on \in Docs \ {d, copy}
             /\ signature'[d] = signature[d]
             /\ \A x \in {d, copy} : doc'[x] = doc[x]
  <2>1. job[j].on \in Docs /\ job[j].pc = "drop"
        BY <1>3 DEF DropRow, JobsAreSound
  <2>2. job[j].on \notin {d, copy} BY <1>1, <2>1 DEF BeingDeleted
  <2>3. signature'[d] =
           [signature[d] EXCEPT
              !.of   = IF signature[d].of = job[j].on THEN NoDoc ELSE signature[d].of,
              !.copy = IF signature[d].copy = job[j].on THEN NoDoc ELSE signature[d].copy]
        BY <1>3 DEF DropRow
  <2>4. signature'[d] = [signature[d] EXCEPT !.of = signature[d].of,
                                            !.copy = signature[d].copy]
        BY <1>1, <2>2, <2>3
  <2>5. signature'[d] = signature[d]
        BY <2>4, SameRow
  <2>. QED BY <1>1, <1>3, <2>1, <2>2, <2>5, Dropped
<1>4. ASSUME NEW j \in Jobs, UndoSignature(j) \/ LinkCopy(j)
      PROVE  signature'[d] = signature[d]
  <2>1. Carries(job[j]) BY <1>4 DEF UndoSignature, LinkCopy, Carries
  <2>2. job[j].on # d BY <1>1, <2>1 DEF SignersApart
  <2>. QED BY <1>4, <2>2 DEF UndoSignature, LinkCopy
<1>5. ASSUME NEW j \in Jobs, InsertSignature(j)
      PROVE  signature'[d] = signature[d]
      BY <1>2, <1>5 DEF InsertSignature
<1>6. ASSUME NEW j \in Jobs, NEW e \in Docs, InsertDocument(j, e)
      PROVE  /\ signature' = signature
             /\ \A x \in {d, copy} : doc'[x].exists
      BY <1>1, <1>6, Inserted DEF InsertDocument
<1>7. signature'[d] = signature[d]
      BY <1>3, <1>4, <1>5, <1>6, Untouched
<1>8. \A x \in {d, copy} : doc'[x].exists
  <2>1. CASE RowsKept BY <1>1, <2>1 DEF RowsKept
  <2>2. CASE doc' = doc BY <1>1, <2>2
  <2>3. CASE \E j \in Jobs : DropRow(j) BY <1>1, <1>3, <2>3
  <2>. QED BY <1>6, <2>1, <2>2, <2>3, Untouched
           DEF InsertSignature, UndoSignature, LinkCopy
<1>9. \A x \in {d, copy} : ~BeingDeleted(x)'
      BY <1>1, <1>2, DeletersComeFrom DEF BeingDeleted
<1>. QED BY <1>1, <1>7, <1>8, <1>9 DEF Sealed

(* A sealed contract stays: its signature is not touched, its original and *)
(* its copy are not deleted (the delete route, signContract).              *)
THEOREM SealedContractsStay == SigningSpec => SealedContractStays
<1>1. SigningInit => SigningInv /\ DossierInv
      BY SigningStarts, DossierStarts
<1>2. SigningInv /\ DossierInv /\ [SigningNext]_signingVars => SigningInv' /\ DossierInv'
      BY SigningKept, PointersStep, ApartStep, ShownFileStep DEF SigningInv, DossierInv
<1>3. SigningInv /\ DossierInv /\ [SigningNext]_signingVars =>
         [\A d \in Docs : Sealed(d) => Sealed(d)' /\ signature'[d] = signature[d]
         ]_signingVars
      BY SealedKept
<1>. QED BY <1>1, <1>2, <1>3, PTL DEF SigningSpec, SealedContractStays
=============================================================================
