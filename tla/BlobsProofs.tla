----------------------------- MODULE BlobsProofs -----------------------------
(***************************************************************************)
(* Theorems about Blobs, for any number of conversations and requests.     *)
(***************************************************************************)
EXTENDS Blobs, WellFoundedInduction, TLAPS

USE BoundsAssumption

\* A nonempty set of naturals has a least element, and Min names it.
LEMMA MinOfNats ==
    ASSUME NEW S \in SUBSET Nat, S # {}
    PROVE  Min(S) \in S /\ \A x \in S : Min(S) =< x
<1>1. \E x \in S : \A y \in S : ~(<<y, x>> \in OpToRel(<, Nat))
  BY WFMin, NatLessThanWellFounded
<1>2. \A x, y \in Nat : y < x => <<y, x>> \in OpToRel(<, Nat)
  BY DEF OpToRel
<1>3. \E x \in S : \A y \in S : x =< y
  <2>1. PICK x \in S : \A y \in S : ~(<<y, x>> \in OpToRel(<, Nat))
    BY <1>1
  <2>2. \A y \in S : ~(y < x)
    BY <2>1, <1>2
  <2> QED
    BY <2>2
<1> QED
  BY <1>3 DEF Min

Fields == {"pc", "op", "conv", "msg", "ref", "file", "stale", "drops", "from", "todo"}

Pending(q) == q.pc \in {"index", "import"}
Deletes(q) == q.pc \in {"purge", "drop"}

Handed == {f \in Nat : f < nextFile}

ShapeOK ==
    /\ nextFile \in Nat
    /\ DOMAIN req = Requests
    /\ \A r \in Requests : DOMAIN req[r] = Fields

\* What a request knows of files: one it has uploaded is not indexed yet; those it
\* is about to purge are no longer indexed, or go with the rows it drops.
KnowsFiles(q) ==
    /\ q.stale \subseteq Handed
    /\ Pending(q) => /\ q.file \in Handed \ DOMAIN files
                     /\ UseS3 => q.file \in objects
    /\ q.pc = "purge" => q.stale \cap DOMAIN files = {}
    /\ q.pc = "drop" => \A f \in q.stale \cap DOMAIN files : files[f] \in q.drops

\* No two requests upload one file, and none purges what another uploads.
Apart(p, q) == Pending(p) => p.file \notin q.stale

FileInv ==
    /\ ShapeOK
    /\ DOMAIN files \subseteq Handed
    /\ RowHasObject
    /\ \A r \in Requests : KnowsFiles(req[r])
    /\ \A r, s \in Requests : Apart(req[r], req[s])
    /\ \A r, s \in Requests :
          Pending(req[r]) /\ Pending(req[s]) /\ req[r].file = req[s].file => r = s

\* A step of the request r, as far as the others can tell.
StepOf(r) ==
    /\ DOMAIN req' = Requests
    /\ \A s \in Requests \ {r} : req'[s] = req[s]
    /\ DOMAIN req'[r] = Fields

\* One that leaves files and objects alone, and begins no upload and no purge.
Quiet(r) ==
    /\ StepOf(r)
    /\ ~Pending(req'[r]) /\ ~Deletes(req'[r])
    /\ req'[r].stale \subseteq req[r].stale
    /\ UNCHANGED <<files, objects, nextFile>>

LEMMA GotoStep ==
    ASSUME ShapeOK, NEW r \in Requests, NEW pc, Goto(r, pc)
    PROVE  /\ StepOf(r)
           /\ req'[r].pc = pc
           /\ req'[r].op = req[r].op /\ req'[r].conv = req[r].conv
           /\ req'[r].file = req[r].file
           /\ req'[r].stale = req[r].stale /\ req'[r].drops = req[r].drops
<1>1. req' = [req EXCEPT ![r] = [req[r] EXCEPT !.pc = pc]]
  BY DEF Goto
<1> QED
  BY <1>1 DEF ShapeOK, StepOf, Fields

LEMMA FinishStep ==
    ASSUME ShapeOK, NEW r \in Requests, Finish(r)
    PROVE  /\ StepOf(r)
           /\ req'[r].pc = "idle" /\ req'[r].op = "none" /\ req'[r].stale = {}
BY DEF Finish, ShapeOK, StepOf, Fields, Idle

LEMMA BeginStep ==
    ASSUME ShapeOK, NEW r \in Requests, NEW q, Begin(r, q), DOMAIN q = Fields
    PROVE  StepOf(r) /\ req'[r] = q
BY DEF Begin, ShapeOK, StepOf

LEMMA QuietStep ==
    ASSUME FileInv, NEW r \in Requests, Quiet(r)
    PROVE  FileInv'
<1>1. ShapeOK' /\ (DOMAIN files \subseteq Handed)' /\ RowHasObject'
  BY DEF FileInv, ShapeOK, Quiet, StepOf, Handed, RowHasObject
<1>2. ASSUME NEW s \in Requests
      PROVE  KnowsFiles(req[s])'
  BY DEF FileInv, Quiet, StepOf, KnowsFiles, Handed, Pending, Deletes
<1>3. ASSUME NEW s \in Requests, NEW t \in Requests
      PROVE  Apart(req'[s], req'[t])
  BY DEF FileInv, Quiet, StepOf, Apart, Pending
<1>4. ASSUME NEW s \in Requests, NEW t \in Requests,
             Pending(req'[s]), Pending(req'[t]), req'[s].file = req'[t].file
      PROVE  s = t
  BY <1>4 DEF FileInv, Quiet, StepOf, Pending
<1> QED
  BY <1>1, <1>2, <1>3, <1>4 DEF FileInv, Apart, Pending

\* The fields of a fresh request.
LEMMA IdleFields ==
    /\ DOMAIN Idle = Fields
    /\ Idle.pc = "idle" /\ Idle.op = "none" /\ Idle.stale = {}
BY DEF Idle, Fields

-----------------------------------------------------------------------------
(***************************************************************************)
(* Steps that are not quiet.                                               *)
(***************************************************************************)
LEMMA UploadKeeps ==
    ASSUME FileInv, NEW r \in Requests, Upload(r)
    PROVE  FileInv'
<1>1. req' = [req EXCEPT ![r] = [req[r] EXCEPT
                 !.pc = IF req[r].op = "import" THEN "import" ELSE "index", !.file = nextFile]]
  BY DEF Upload
<1>2. /\ StepOf(r) /\ Pending(req'[r])
      /\ req'[r].pc \notin {"purge", "drop"}
      /\ req'[r].file = nextFile /\ req'[r].stale = req[r].stale
  BY <1>1 DEF FileInv, ShapeOK, StepOf, Fields, Pending
<1>3. /\ nextFile \in Nat /\ nextFile' = nextFile + 1 /\ UNCHANGED files
      /\ objects \subseteq objects' /\ (UseS3 => nextFile \in objects')
  BY DEF Upload, FileInv, ShapeOK, rows
<1>4. Handed \subseteq Handed' /\ nextFile \in Handed' /\ nextFile \notin Handed
  BY <1>3 DEF Handed
<1>5. ShapeOK' /\ (DOMAIN files \subseteq Handed)' /\ RowHasObject'
  BY <1>2, <1>3, <1>4 DEF FileInv, ShapeOK, StepOf, RowHasObject
<1>6. KnowsFiles(req[r])'
  BY <1>2, <1>3, <1>4 DEF FileInv, KnowsFiles
<1>7. ASSUME NEW s \in Requests, s # r
      PROVE  KnowsFiles(req[s])'
  BY <1>2, <1>3, <1>4, <1>7 DEF FileInv, KnowsFiles, StepOf, Pending
<1>8. ASSUME NEW s \in Requests, NEW t \in Requests
      PROVE  Apart(req'[s], req'[t])
  BY <1>2, <1>4 DEF FileInv, StepOf, Apart, Pending, KnowsFiles
<1>9. ASSUME NEW s \in Requests, NEW t \in Requests,
             Pending(req'[s]), Pending(req'[t]), req'[s].file = req'[t].file
      PROVE  s = t
  BY <1>2, <1>4, <1>9 DEF FileInv, StepOf, Pending, KnowsFiles
<1> QED
  BY <1>5, <1>6, <1>7, <1>8, <1>9 DEF FileInv, Apart, Pending

\* Indexing what was uploaded.
LEMMA IndexKeeps ==
    ASSUME FileInv, NEW r \in Requests, NEW c, Pending(req[r]),
           files' = [f \in DOMAIN files \cup {req[r].file} |->
                       IF f = req[r].file THEN c ELSE files[f]],
           UNCHANGED <<objects, nextFile>>,
           StepOf(r), ~Pending(req'[r]), ~Deletes(req'[r]), req'[r].stale \subseteq req[r].stale
    PROVE  FileInv'
<1> DEFINE g == req[r].file
<1>1. /\ g \in Handed /\ g \notin DOMAIN files /\ (UseS3 => g \in objects)
      /\ DOMAIN files' = DOMAIN files \cup {g}
      /\ \A f \in DOMAIN files : files'[f] = files[f]
      /\ Handed' = Handed
  BY DEF FileInv, KnowsFiles, Handed
<1> HIDE DEF g
<1>2. ShapeOK' /\ (DOMAIN files \subseteq Handed)' /\ RowHasObject'
  BY <1>1 DEF FileInv, ShapeOK, StepOf, RowHasObject
<1>3. KnowsFiles(req[r])'
  BY <1>1 DEF FileInv, KnowsFiles, Pending, Deletes
<1>4. ASSUME NEW s \in Requests, s # r
      PROVE  KnowsFiles(req[s])'
  <2>1. req'[s] = req[s] /\ KnowsFiles(req[s]) /\ g \notin req[s].stale
    BY <1>4 DEF FileInv, StepOf, Apart, g
  <2>2. Pending(req[s]) => req[s].file # g
    BY <1>4 DEF FileInv, g
  <2> QED
    BY <1>1, <2>1, <2>2 DEF KnowsFiles, Pending
<1>5. ASSUME NEW s \in Requests, NEW t \in Requests
      PROVE  Apart(req'[s], req'[t])
  BY DEF FileInv, StepOf, Apart, Pending
<1>6. ASSUME NEW s \in Requests, NEW t \in Requests,
             Pending(req'[s]), Pending(req'[t]), req'[s].file = req'[t].file
      PROVE  s = t
  BY <1>6 DEF FileInv, StepOf, Pending
<1> QED
  BY <1>2, <1>3, <1>4, <1>5, <1>6 DEF FileInv, Apart, Pending

\* Removing rows, and remembering some of the files for a purge.
LEMMA RemovalKeeps ==
    ASSUME FileInv, NEW r \in Requests, NEW kept, kept \subseteq DOMAIN files,
           files' = Restrict(files, kept),
           UNCHANGED <<objects, nextFile>>,
           StepOf(r), ~Pending(req'[r]), Deletes(req'[r]),
           req'[r].stale \subseteq DOMAIN files \cup req[r].stale,
           req'[r].pc = "purge" => req'[r].stale \cap kept = {},
           req'[r].pc = "drop" =>
               \A f \in req'[r].stale \cap kept : files[f] \in req'[r].drops
    PROVE  FileInv'
<1>1. DOMAIN files' = kept /\ (\A f \in kept : files'[f] = files[f]) /\ Handed' = Handed
  BY DEF Restrict, Handed
<1>2. ShapeOK' /\ (DOMAIN files \subseteq Handed)' /\ RowHasObject'
  BY <1>1 DEF FileInv, ShapeOK, StepOf, RowHasObject
<1>3. KnowsFiles(req[r])'
  BY <1>1 DEF FileInv, KnowsFiles, Deletes
<1>4. ASSUME NEW s \in Requests, s # r
      PROVE  KnowsFiles(req[s])'
  BY <1>1, <1>4 DEF FileInv, KnowsFiles, StepOf, Pending
<1>5. ASSUME NEW s \in Requests, NEW t \in Requests
      PROVE  Apart(req'[s], req'[t])
  BY DEF FileInv, StepOf, Apart, Pending, KnowsFiles
<1>6. ASSUME NEW s \in Requests, NEW t \in Requests,
             Pending(req'[s]), Pending(req'[t]), req'[s].file = req'[t].file
      PROVE  s = t
  BY <1>6 DEF FileInv, StepOf, Pending
<1> QED
  BY <1>2, <1>3, <1>4, <1>5, <1>6 DEF FileInv, Apart, Pending

LEMMA TruncateKeeps ==
    ASSUME FileInv, NEW r \in Requests, NEW c, NEW left, TruncateTo(r, c, left),
           UNCHANGED <<objects, nextFile>>
    PROVE  FileInv'
<1> DEFINE stale == Garbage(c, left)
<1>1. req' = [req EXCEPT ![r] = [req[r] EXCEPT !.pc = "purge", !.stale = IF UseS3 THEN stale ELSE {}]]
  BY DEF TruncateTo
<1>2. /\ StepOf(r) /\ ~Pending(req'[r]) /\ Deletes(req'[r]) /\ req'[r].pc = "purge"
      /\ req'[r].stale \subseteq stale
  BY <1>1 DEF FileInv, ShapeOK, StepOf, Fields, Pending, Deletes
<1>3. stale \subseteq DOMAIN files
  BY DEF Garbage, FilesOf
<1>4. files' = Restrict(files, DOMAIN files \ stale)
  BY DEF TruncateTo
<1> HIDE DEF stale
<1> QED
  BY <1>2, <1>3, <1>4, RemovalKeeps

LEMMA PurgeKeeps ==
    ASSUME FileInv, NEW r \in Requests, NEW f \in req[r].stale, NEW fails, Purge(r, f, fails)
    PROVE  FileInv'
<1>1. req' = [req EXCEPT ![r] = [req[r] EXCEPT !.stale = req[r].stale \ {f}]]
  BY DEF Purge
<1>2. /\ StepOf(r) /\ req[r].pc = "purge" /\ req'[r].pc = "purge"
      /\ req'[r].stale = req[r].stale \ {f}
  BY <1>1 DEF FileInv, ShapeOK, StepOf, Fields, Purge
<1>3. objects' \subseteq objects /\ objects \ {f} \subseteq objects'
      /\ UNCHANGED <<files, nextFile>> /\ Handed' = Handed
  BY DEF Purge, rows, Handed
<1>4. f \notin DOMAIN files
  BY <1>2 DEF FileInv, KnowsFiles
<1>5. ShapeOK' /\ (DOMAIN files \subseteq Handed)' /\ RowHasObject'
  BY <1>2, <1>3, <1>4 DEF FileInv, ShapeOK, StepOf, RowHasObject
<1>6. KnowsFiles(req[r])'
  BY <1>2, <1>3 DEF FileInv, KnowsFiles, Pending
<1>7. ASSUME NEW s \in Requests, s # r
      PROVE  KnowsFiles(req[s])'
  <2>1. Pending(req[s]) => req[s].file # f
    BY DEF FileInv, Apart
  <2> QED
    BY <1>2, <1>3, <1>7, <2>1 DEF FileInv, KnowsFiles, StepOf, Pending
<1>8. ASSUME NEW s \in Requests, NEW t \in Requests
      PROVE  Apart(req'[s], req'[t])
  BY <1>2 DEF FileInv, StepOf, Apart, Pending
<1>9. ASSUME NEW s \in Requests, NEW t \in Requests,
             Pending(req'[s]), Pending(req'[t]), req'[s].file = req'[t].file
      PROVE  s = t
  BY <1>2, <1>9 DEF FileInv, StepOf, Pending
<1> QED
  BY <1>5, <1>6, <1>7, <1>8, <1>9 DEF FileInv, Apart, Pending

-----------------------------------------------------------------------------
(***************************************************************************)
(* Every step keeps the invariant.                                         *)
(***************************************************************************)
LEMMA StoreKeeps ==
    ASSUME FileInv, NEW r \in Requests, StoreNext(r)
    PROVE  FileInv'
<1>0. ShapeOK
  BY DEF FileInv
<1>1. CASE Upload(r)
  BY <1>1, UploadKeeps
<1>2. CASE UploadFails(r)
  BY <1>0, <1>2, FinishStep, QuietStep DEF UploadFails, rows, Quiet, Pending, Deletes
<1>3. CASE Index(r)
  <2>1. CASE ForeignKey(req[r].conv)
    <3>1. req' = [req EXCEPT ![r] = [req[r] EXCEPT !.pc = AfterIndex(req[r].op), !.ref = req[r].file]]
      BY <1>3, <2>1 DEF Index
    <3>2. AfterIndex(req[r].op) \in {"insert", "rewrite", "copy", "store"}
      BY DEF AfterIndex
    <3>3. /\ StepOf(r) /\ ~Pending(req'[r]) /\ ~Deletes(req'[r])
          /\ req'[r].stale = req[r].stale
      BY <1>0, <3>1, <3>2 DEF ShapeOK, StepOf, Fields, Pending, Deletes
    <3>4. Pending(req[r]) /\ UNCHANGED <<objects, nextFile>>
      BY <1>3 DEF Index, Pending, store
    <3>5. files' = [f \in DOMAIN files \cup {req[r].file} |->
                      IF f = req[r].file THEN req[r].conv ELSE files[f]]
      BY <1>3, <2>1 DEF Index
    <3> QED
      BY <3>3, <3>4, <3>5, IndexKeeps
  <2>2. CASE ~ForeignKey(req[r].conv)
    <3>1. Finish(r) /\ UNCHANGED <<files, objects, nextFile>>
      BY <1>3, <2>2 DEF Index, store
    <3> QED
      BY <1>0, <3>1, FinishStep, QuietStep DEF Quiet, Pending, Deletes
  <2> QED
    BY <2>1, <2>2
<1>4. CASE AfterPurge(r)
  <2>1. UNCHANGED <<files, objects, nextFile>>
    BY <1>4 DEF AfterPurge, rows, store
  <2>2. \/ Goto(r, "stream") \/ Goto(r, "archive") \/ Finish(r)
    BY <1>4 DEF AfterPurge
  <2> QED
    BY <1>0, <2>1, <2>2, GotoStep, FinishStep, QuietStep DEF Quiet, Pending, Deletes
<1>5. CASE \E f \in req[r].stale : \E fails \in BOOLEAN : Purge(r, f, fails)
  BY <1>5, PurgeKeeps
<1> QED
  BY <1>1, <1>2, <1>3, <1>4, <1>5 DEF StoreNext

LEMMA StreamKeeps ==
    ASSUME FileInv, NEW r \in Requests, StreamNext(r)
    PROVE  FileInv'
<1>0. ShapeOK
  BY DEF FileInv
<1>1. ASSUME NEW c \in Conversations, NEW image \in BOOLEAN, SendBegin(r, c, image)
      PROVE  FileInv'
  <2> DEFINE q == [Idle EXCEPT !.pc = IF image THEN "put" ELSE "insert", !.op = "send", !.conv = c]
  <2>1. DOMAIN q = Fields /\ q.pc \in {"put", "insert"} /\ q.stale = {}
    BY IdleFields DEF Fields
  <2>2. Begin(r, q) /\ UNCHANGED <<files, objects, nextFile>>
    BY <1>1 DEF SendBegin, rows, store
  <2> HIDE DEF q
  <2> QED
    BY <1>0, <2>1, <2>2, BeginStep, QuietStep DEF Quiet, Pending, Deletes
<1>2. CASE SendCommit(r)
  <2>1. UNCHANGED <<files, objects, nextFile>> /\ (Goto(r, "stream") \/ Finish(r))
    BY <1>2 DEF SendCommit, store
  <2> QED
    BY <1>0, <2>1, GotoStep, FinishStep, QuietStep DEF Quiet, Pending, Deletes
<1>3. ASSUME NEW image \in BOOLEAN, StreamEnds(r, image)
      PROVE  FileInv'
  <2>1. req' = [req EXCEPT ![r] = [req[r] EXCEPT
                   !.pc = IF image THEN "put" ELSE "store", !.op = "reply", !.ref = NoRef]]
    BY <1>3 DEF StreamEnds
  <2>2. StepOf(r) /\ req'[r].pc \in {"put", "store"} /\ req'[r].stale = req[r].stale
    BY <1>0, <2>1 DEF ShapeOK, StepOf, Fields
  <2>3. UNCHANGED <<files, objects, nextFile>>
    BY <1>3 DEF StreamEnds, rows, store
  <2> QED
    BY <2>2, <2>3, QuietStep DEF Quiet, Pending, Deletes
<1>4. CASE StreamEmpty(r) \/ StoreReply(r)
  <2>1. Finish(r) /\ UNCHANGED <<files, objects, nextFile>>
    BY <1>4 DEF StreamEmpty, StoreReply, store
  <2> QED
    BY <1>0, <2>1, FinishStep, QuietStep DEF Quiet, Pending, Deletes
<1> QED
  BY <1>1, <1>2, <1>3, <1>4 DEF StreamNext

LEMMA RewriteKeeps ==
    ASSUME FileInv, NEW r \in Requests, RewriteNext(r)
    PROVE  FileInv'
<1>0. ShapeOK
  BY DEF FileInv
<1>1. ASSUME NEW m \in DOMAIN msgs, NEW content \in {"image", "same", "text"},
             EditBegin(r, m, content)
      PROVE  FileInv'
  <2> DEFINE q == [Idle EXCEPT !.pc = IF content = "image" THEN "put" ELSE "rewrite",
                               !.op = "edit", !.conv = msgs[m].conv, !.msg = m,
                               !.ref = IF content = "same" THEN msgs[m].ref ELSE NoRef]
  <2>1. DOMAIN q = Fields /\ q.pc \in {"put", "rewrite"} /\ q.stale = {}
    BY IdleFields DEF Fields
  <2>2. Begin(r, q) /\ UNCHANGED <<files, objects, nextFile>>
    BY <1>1 DEF EditBegin, rows, store
  <2> HIDE DEF q
  <2> QED
    BY <1>0, <2>1, <2>2, BeginStep, QuietStep DEF Quiet, Pending, Deletes
<1>2. ASSUME NEW m \in DOMAIN msgs, DeleteBegin(r, m)
      PROVE  FileInv'
  <2> DEFINE q == [Idle EXCEPT !.pc = "cut", !.op = "delete", !.conv = msgs[m].conv, !.msg = m]
  <2>1. DOMAIN q = Fields /\ q.pc = "cut" /\ q.stale = {}
    BY IdleFields DEF Fields
  <2>2. Begin(r, q) /\ UNCHANGED <<files, objects, nextFile>>
    BY <1>2 DEF DeleteBegin, rows, store
  <2> HIDE DEF q
  <2> QED
    BY <1>0, <2>1, <2>2, BeginStep, QuietStep DEF Quiet, Pending, Deletes
<1>3. ASSUME NEW m \in DOMAIN msgs, NEW pc \in {"branch", "archive"}, RegenerateBegin(r, m, pc)
      PROVE  FileInv'
  <2> DEFINE q == [Idle EXCEPT !.pc = pc, !.op = "regenerate", !.conv = msgs[m].conv, !.msg = m]
  <2>1. DOMAIN q = Fields /\ q.pc \in {"branch", "archive"} /\ q.stale = {}
    BY IdleFields DEF Fields
  <2>2. Begin(r, q) /\ UNCHANGED <<files, objects, nextFile>>
    BY <1>3 DEF RegenerateBegin, rows, store
  <2> HIDE DEF q
  <2> QED
    BY <1>0, <2>1, <2>2, BeginStep, QuietStep DEF Quiet, Pending, Deletes
<1>4. CASE EditCommit(r) \/ DeleteCommit(r) \/ Branch(r)
  <2>1. \E left : TruncateTo(r, req[r].conv, left)
    BY <1>4 DEF EditCommit, DeleteCommit, Branch
  <2>2. UNCHANGED <<objects, nextFile>>
    BY <1>4 DEF EditCommit, DeleteCommit, Branch, store
  <2> QED
    BY <2>1, <2>2, TruncateKeeps
<1>5. CASE Archive(r)
  <2>1. Goto(r, "stream") /\ UNCHANGED <<files, objects, nextFile>>
    BY <1>5 DEF Archive, store
  <2> QED
    BY <1>0, <2>1, GotoStep, QuietStep DEF Quiet, Pending, Deletes
<1> QED
  BY <1>1, <1>2, <1>3, <1>4, <1>5 DEF RewriteNext

LEMMA DropBeginKeeps ==
    ASSUME FileInv, NEW r \in Requests, NEW cs, DropBegin(r, cs)
    PROVE  FileInv'
<1> DEFINE q == [Idle EXCEPT !.pc = "drop", !.op = "drop", !.drops = cs,
                             !.stale = IF UseS3 THEN FilesOf(cs) ELSE {}]
<1>1. /\ DOMAIN q = Fields /\ q.pc = "drop" /\ q.drops = cs
      /\ q.stale \subseteq FilesOf(cs)
  BY IdleFields DEF Fields
<1>2. Begin(r, q) /\ UNCHANGED <<files, objects, nextFile>>
  BY DEF DropBegin, rows, store
<1> HIDE DEF q
<1>3. StepOf(r) /\ req'[r] = q
  BY <1>1, <1>2, BeginStep DEF FileInv
<1>4. FilesOf(cs) \subseteq DOMAIN files /\ \A f \in FilesOf(cs) : files[f] \in cs
  BY DEF FilesOf
<1>5. KnowsFiles(req[r])' /\ Handed' = Handed
  BY <1>1, <1>2, <1>3, <1>4 DEF FileInv, KnowsFiles, Handed, Pending
<1>6. ASSUME NEW s \in Requests, s # r
      PROVE  KnowsFiles(req[s])'
  BY <1>2, <1>3, <1>5, <1>6 DEF FileInv, KnowsFiles, StepOf, Pending
<1>7. ASSUME NEW s \in Requests, NEW t \in Requests
      PROVE  Apart(req'[s], req'[t])
  BY <1>1, <1>3, <1>4 DEF FileInv, KnowsFiles, StepOf, Apart, Pending
<1>8. ASSUME NEW s \in Requests, NEW t \in Requests,
             Pending(req'[s]), Pending(req'[t]), req'[s].file = req'[t].file
      PROVE  s = t
  BY <1>1, <1>3, <1>8 DEF FileInv, StepOf, Pending
<1>9. ShapeOK' /\ (DOMAIN files \subseteq Handed)' /\ RowHasObject'
  BY <1>2, <1>3, <1>5 DEF FileInv, ShapeOK, StepOf, RowHasObject
<1> QED
  BY <1>5, <1>6, <1>7, <1>8, <1>9 DEF FileInv, Apart, Pending

LEMMA DropKeeps ==
    ASSUME FileInv, NEW r \in Requests, Drop(r)
    PROVE  FileInv'
<1>1. /\ StepOf(r) /\ req'[r].pc = "purge" /\ req'[r].stale = req[r].stale
  BY GotoStep DEF Drop, FileInv
<1> DEFINE kept == DOMAIN files \ FilesOf(req[r].drops)
<1>2. files' = Restrict(files, kept) /\ UNCHANGED <<objects, nextFile>>
  BY DEF Drop, store
<1>3. req[r].stale \cap kept = {}
  <2>1. \A f \in req[r].stale \cap DOMAIN files : files[f] \in req[r].drops
    BY DEF FileInv, KnowsFiles, Drop
  <2> QED
    BY <2>1 DEF FilesOf
<1>4. kept \subseteq DOMAIN files
  OBVIOUS
<1> HIDE DEF kept
<1> QED
  BY <1>1, <1>2, <1>3, <1>4, RemovalKeeps DEF Pending, Deletes

LEMMA ConversationKeeps ==
    ASSUME FileInv, NEW r \in Requests, ConversationNext(r)
    PROVE  FileInv'
<1>0. ShapeOK
  BY DEF FileInv
<1>1. CASE (\E c \in Conversations : Live(c) /\ DropBegin(r, {c})) \/ DropBegin(r, Conversations)
  BY <1>1, DropBeginKeeps
<1>2. CASE Drop(r)
  BY <1>2, DropKeeps
<1>3. ASSUME NEW c \in Conversations, NEW d \in Conversations, CloneBegin(r, c, d)
      PROVE  FileInv'
  <2> DEFINE q == [Idle EXCEPT !.pc = "load", !.op = "clone", !.conv = d, !.from = c,
                               !.todo = Restrict(msgs, {m \in Thread(c) : msgs[m].shown})]
  <2>1. DOMAIN q = Fields /\ q.pc = "load" /\ q.stale = {}
    BY IdleFields DEF Fields
  <2>2. Begin(r, q) /\ UNCHANGED <<files, objects, nextFile>>
    BY <1>3 DEF CloneBegin, store
  <2> HIDE DEF q
  <2> QED
    BY <1>0, <2>1, <2>2, BeginStep, QuietStep DEF Quiet, Pending, Deletes
<1>4. ASSUME NEW fails \in BOOLEAN, CloneLoad(r, fails)
      PROVE  FileInv'
  <2>1. UNCHANGED <<files, objects, nextFile>>
    BY <1>4 DEF CloneLoad, rows
  <2>2. \E pc \in {"put", "copy"} : \E f :
           req' = [req EXCEPT ![r] = [req[r] EXCEPT !.pc = pc, !.ref = f]]
    BY <1>4 DEF CloneLoad
  <2>3. StepOf(r) /\ req'[r].pc \in {"put", "copy"} /\ req'[r].stale = req[r].stale
    BY <1>0, <2>2 DEF ShapeOK, StepOf, Fields
  <2> QED
    BY <2>1, <2>3, QuietStep DEF Quiet, Pending, Deletes
<1>5. CASE CloneCopy(r)
  <2>1. UNCHANGED <<files, objects, nextFile>>
    BY <1>5 DEF CloneCopy, store
  <2>2. CASE Finish(r)
    BY <1>0, <2>1, <2>2, FinishStep, QuietStep DEF Quiet, Pending, Deletes
  <2>3. CASE ~Finish(r)
    <3>1. \E left : req' = [req EXCEPT ![r] = [req[r] EXCEPT !.pc = "load", !.todo = left]]
      BY <1>5, <2>3 DEF CloneCopy
    <3>2. StepOf(r) /\ req'[r].pc = "load" /\ req'[r].stale = req[r].stale
      BY <1>0, <3>1 DEF ShapeOK, StepOf, Fields
    <3> QED
      BY <2>1, <3>2, QuietStep DEF Quiet, Pending, Deletes
  <2> QED
    BY <2>2, <2>3
<1>6. CASE CloneDone(r)
  <2>1. Finish(r) /\ UNCHANGED <<files, objects, nextFile>>
    BY <1>6 DEF CloneDone, rows, store
  <2> QED
    BY <1>0, <2>1, FinishStep, QuietStep DEF Quiet, Pending, Deletes
<1>7. ASSUME NEW d \in Conversations, ImportBegin(r, d)
      PROVE  FileInv'
  <2> DEFINE q == [Idle EXCEPT !.pc = "put", !.op = "import", !.conv = d]
  <2>1. DOMAIN q = Fields /\ q.pc = "put" /\ q.stale = {}
    BY IdleFields DEF Fields
  <2>2. Begin(r, q) /\ UNCHANGED <<files, objects, nextFile>>
    BY <1>7 DEF ImportBegin, store
  <2> HIDE DEF q
  <2> QED
    BY <1>0, <2>1, <2>2, BeginStep, QuietStep DEF Quiet, Pending, Deletes
<1>8. CASE ImportCommit(r)
  <2>1. /\ Finish(r) /\ UNCHANGED <<objects, nextFile>> /\ Pending(req[r])
    BY <1>8 DEF ImportCommit, store, Pending
  <2>2. StepOf(r) /\ ~Pending(req'[r]) /\ ~Deletes(req'[r]) /\ req'[r].stale = {}
    BY <1>0, <2>1, FinishStep DEF Pending, Deletes
  <2>3. CASE UNCHANGED files
    BY <2>1, <2>2, <2>3, QuietStep DEF Quiet
  <2>4. CASE files' = [f \in DOMAIN files \cup {req[r].file} |->
                         IF f = req[r].file THEN req[r].conv ELSE files[f]]
    BY <2>1, <2>2, <2>4, IndexKeeps
  <2> QED
    BY <1>8, <2>3, <2>4 DEF ImportCommit, rows
<1> QED
  BY <1>1, <1>2, <1>3, <1>4, <1>5, <1>6, <1>7, <1>8 DEF ConversationNext

LEMMA FileInvStep ==
    ASSUME FileInv, [Next]_vars
    PROVE  FileInv'
<1>0. ShapeOK
  BY DEF FileInv
<1>1. CASE (\E c \in Conversations : CreateConversation(c)) \/ UNCHANGED vars
  <2>1. UNCHANGED <<files, objects, nextFile, req>>
    BY <1>1 DEF CreateConversation, vars, store
  <2> QED
    BY <2>1 DEF FileInv, ShapeOK, RowHasObject, KnowsFiles, Apart, Pending, Handed
<1>2. ASSUME NEW r \in Requests,
             StoreNext(r) \/ StreamNext(r) \/ RewriteNext(r) \/ ConversationNext(r)
      PROVE  FileInv'
  BY <1>2, StoreKeeps, StreamKeeps, RewriteKeeps, ConversationKeeps
<1>3. ASSUME NEW r \in Requests, TransactionFails(r)
      PROVE  FileInv'
  <2>1. Finish(r) /\ UNCHANGED <<files, objects, nextFile>>
    BY <1>3 DEF TransactionFails, rows, store
  <2> QED
    BY <1>0, <2>1, FinishStep, QuietStep DEF Quiet, Pending, Deletes
<1>4. CASE Crash
  <2>1. UNCHANGED <<files, objects, nextFile>> /\ Handed' = Handed
    BY <1>4 DEF Crash, rows, store, Handed
  <2>2. DOMAIN req' = Requests /\ \A r \in Requests : req'[r] = Idle
    BY <1>4 DEF Crash
  <2> QED
    BY <2>1, <2>2, IdleFields
    DEF FileInv, ShapeOK, RowHasObject, KnowsFiles, Apart, Pending
<1> QED
  BY <1>1, <1>2, <1>3, <1>4 DEF Next

LEMMA FileInvInit ==
    ASSUME Init
    PROVE  FileInv
<1>1. /\ nextFile \in Nat /\ DOMAIN files = {} /\ DOMAIN req = Requests
      /\ \A r \in Requests : req[r] = Idle
  BY DEF Init, Restrict
<1> QED
  BY <1>1, IdleFields DEF FileInv, ShapeOK, RowHasObject, KnowsFiles, Apart, Pending

\* Through rollbacks, failing calls and restarts, and however any number of
\* requests interleave, every row of files has its object in the store.
THEOREM RowsHaveObjects == Spec => []RowHasObject
<1>1. Init => FileInv
  BY FileInvInit
<1>2. FileInv /\ [Next]_vars => FileInv'
  BY FileInvStep
<1>3. FileInv => RowHasObject
  BY DEF FileInv
<1> QED
  BY <1>1, <1>2, <1>3, PTL DEF Spec

-----------------------------------------------------------------------------
(***************************************************************************)
(* Deleted conversations.                                                  *)
(***************************************************************************)
\* What a request is doing to a conversation, it does to one of them.
Bound(q) ==
    /\ q.pc \notin {"idle", "drop", "purge"} => q.conv \in Conversations
    /\ q.op \in {"edit", "regenerate"} => q.conv \in Conversations

AllBound == \A r \in Requests : Bound(req[r])

OwnedRows ==
    /\ DOMAIN convs = Conversations
    /\ \A m \in DOMAIN msgs : "conv" \in DOMAIN msgs[m] /\ msgs[m].conv \in Conversations
    /\ \A f \in DOMAIN files : files[f] \in Conversations
    /\ NothingOfDeleted

LiveStays ==
    /\ DOMAIN convs' = Conversations
    /\ \A c \in Conversations : Live(c) => convs'[c] = "live"

\* Rows may go, and change, but stay in their conversation.
MsgsShrink ==
    \A m \in DOMAIN msgs' :
        m \in DOMAIN msgs /\ "conv" \in DOMAIN msgs'[m] /\ msgs'[m].conv = msgs[m].conv

FilesShrink == \A f \in DOMAIN files' : f \in DOMAIN files /\ files'[f] = files[f]

LEMMA RowsUnchanged ==
    ASSUME OwnedRows
    PROVE  /\ UNCHANGED convs => LiveStays
           /\ UNCHANGED msgs => MsgsShrink
           /\ UNCHANGED files => FilesShrink
BY DEF OwnedRows, LiveStays, MsgsShrink, FilesShrink, Live

LEMMA ShrinkKeeps ==
    ASSUME OwnedRows, LiveStays, MsgsShrink, FilesShrink
    PROVE  OwnedRows'
BY DEF OwnedRows, LiveStays, MsgsShrink, FilesShrink, NothingOfDeleted, Live

LEMMA InsertKeeps ==
    ASSUME OwnedRows, LiveStays, FilesShrink,
           NEW c \in Conversations, convs'[c] = "live",
           NEW role, NEW ref, InsertMessage(c, role, ref)
    PROVE  OwnedRows'
<1>1. \A m \in DOMAIN msgs' :
         \/ m \in DOMAIN msgs /\ msgs'[m] = msgs[m]
         \/ msgs'[m] = [conv |-> c, role |-> role, shown |-> TRUE, ref |-> ref]
  BY DEF InsertMessage
<1>2. ASSUME NEW m \in DOMAIN msgs'
      PROVE  /\ "conv" \in DOMAIN msgs'[m] /\ msgs'[m].conv \in Conversations
             /\ convs'[msgs'[m].conv] = "live"
  <2>1. CASE m \in DOMAIN msgs /\ msgs'[m] = msgs[m]
    BY <2>1 DEF OwnedRows, NothingOfDeleted, LiveStays, Live
  <2>2. CASE msgs'[m] = [conv |-> c, role |-> role, shown |-> TRUE, ref |-> ref]
    BY <2>2
  <2> QED
    BY <1>1, <2>1, <2>2
<1>3. \A f \in DOMAIN files' : files'[f] \in Conversations /\ convs'[files'[f]] = "live"
  BY DEF OwnedRows, NothingOfDeleted, LiveStays, FilesShrink, Live
<1> QED
  BY <1>2, <1>3 DEF OwnedRows, NothingOfDeleted, LiveStays

LEMMA IndexOwned ==
    ASSUME OwnedRows, LiveStays, MsgsShrink, NEW c \in Conversations, convs'[c] = "live",
           NEW g, files' = [f \in DOMAIN files \cup {g} |-> IF f = g THEN c ELSE files[f]]
    PROVE  OwnedRows'
BY DEF OwnedRows, NothingOfDeleted, LiveStays, MsgsShrink, Live

LEMMA BoundStep ==
    ASSUME AllBound, NEW r \in Requests, StepOf(r), Bound(req'[r])
    PROVE  AllBound'
BY DEF AllBound, StepOf, Bound

LEMMA BoundGoto ==
    ASSUME ShapeOK, AllBound, NEW r \in Requests, NEW pc, Goto(r, pc),
           pc = "purge" \/ req[r].conv \in Conversations
    PROVE  AllBound'
<1>1. Bound(req'[r])
  BY GotoStep DEF AllBound, Bound
<1> QED
  BY <1>1, GotoStep, BoundStep

LEMMA BoundFinish ==
    ASSUME ShapeOK, AllBound, NEW r \in Requests, Finish(r)
    PROVE  AllBound'
<1>1. Bound(req'[r])
  BY FinishStep DEF Bound
<1> QED
  BY <1>1, FinishStep, BoundStep

LEMMA BoundBegin ==
    ASSUME ShapeOK, AllBound, NEW r \in Requests, NEW q, Begin(r, q), DOMAIN q = Fields,
           q.conv \in Conversations \/ (q.pc = "drop" /\ q.op = "drop")
    PROVE  AllBound'
<1>1. Bound(q)
  BY DEF Bound
<1> QED
  BY <1>1, BeginStep, BoundStep

\* An update of fields of the request r that leaves its conversation.
LEMMA BoundUpdate ==
    ASSUME ShapeOK, AllBound, NEW r \in Requests, NEW q,
           req' = [req EXCEPT ![r] = q], DOMAIN q = Fields,
           q.conv \in Conversations \/ (q.pc = "purge" /\ q.op = req[r].op /\ q.conv = req[r].conv)
    PROVE  AllBound'
<1>1. StepOf(r) /\ req'[r] = q
  BY DEF ShapeOK, StepOf
<1>2. Bound(q)
  BY DEF AllBound, Bound
<1> QED
  BY <1>1, <1>2, BoundStep

-----------------------------------------------------------------------------
\* With FileInv, inductive.
LiveInv == OwnedRows /\ AllBound

LEMMA StoreOwns ==
    ASSUME ShapeOK, LiveInv, NEW r \in Requests, StoreNext(r)
    PROVE  LiveInv'
<1>0. OwnedRows /\ AllBound
  BY DEF LiveInv
<1>1. CASE Upload(r)
  <2> DEFINE q == [req[r] EXCEPT !.pc = IF req[r].op = "import" THEN "import" ELSE "index",
                                 !.file = nextFile]
  <2>1. req' = [req EXCEPT ![r] = q] /\ UNCHANGED <<convs, msgs, files>>
    BY <1>1 DEF Upload, rows
  <2>2. DOMAIN q = Fields /\ q.conv \in Conversations
    BY <1>0, <1>1 DEF ShapeOK, Fields, Upload, AllBound, Bound
  <2> HIDE DEF q
  <2> QED
    BY <1>0, <2>1, <2>2, BoundUpdate, RowsUnchanged, ShrinkKeeps DEF LiveInv
<1>2. CASE UploadFails(r)
  BY <1>0, <1>2, BoundFinish, RowsUnchanged, ShrinkKeeps DEF UploadFails, rows, LiveInv
<1>3. CASE Index(r)
  <2>1. UNCHANGED <<convs, msgs>> /\ LiveStays /\ MsgsShrink /\ req[r].conv \in Conversations
    BY <1>0, <1>3, RowsUnchanged DEF Index, AllBound, Bound
  <2>2. CASE ForeignKey(req[r].conv)
    <3> DEFINE q == [req[r] EXCEPT !.pc = AfterIndex(req[r].op), !.ref = req[r].file]
    <3>1. /\ req' = [req EXCEPT ![r] = q]
          /\ files' = [f \in DOMAIN files \cup {req[r].file} |->
                         IF f = req[r].file THEN req[r].conv ELSE files[f]]
      BY <1>3, <2>2 DEF Index
    <3>2. DOMAIN q = Fields /\ q.conv \in Conversations
      BY <2>1 DEF ShapeOK, Fields
    <3>3. convs'[req[r].conv] = "live"
      BY <2>1, <2>2 DEF ForeignKey
    <3> HIDE DEF q
    <3>4. OwnedRows'
      BY <1>0, <2>1, <3>1, <3>3, IndexOwned
    <3> QED
      BY <1>0, <3>1, <3>2, <3>4, BoundUpdate DEF LiveInv
  <2>3. CASE ~ForeignKey(req[r].conv)
    <3>1. Finish(r) /\ UNCHANGED files
      BY <1>3, <2>3 DEF Index
    <3> QED
      BY <1>0, <2>1, <3>1, BoundFinish, RowsUnchanged, ShrinkKeeps DEF LiveInv
  <2> QED
    BY <2>2, <2>3
<1>4. CASE AfterPurge(r)
  <2>1. UNCHANGED <<convs, msgs, files>>
    BY <1>4 DEF AfterPurge, rows
  <2>2. \/ req[r].op \in {"edit", "regenerate"} /\ (Goto(r, "stream") \/ Goto(r, "archive"))
        \/ Finish(r)
    BY <1>4 DEF AfterPurge
  <2>3. req[r].op \in {"edit", "regenerate"} => req[r].conv \in Conversations
    BY <1>0 DEF AllBound, Bound
  <2>4. AllBound'
    BY <1>0, <2>2, <2>3, BoundGoto, BoundFinish
  <2> QED
    BY <1>0, <2>1, <2>4, RowsUnchanged, ShrinkKeeps DEF LiveInv
<1>5. ASSUME NEW f \in req[r].stale, NEW fails \in BOOLEAN, Purge(r, f, fails)
      PROVE  LiveInv'
  <2> DEFINE q == [req[r] EXCEPT !.stale = req[r].stale \ {f}]
  <2>1. req' = [req EXCEPT ![r] = q] /\ UNCHANGED <<convs, msgs, files>>
    BY <1>5 DEF Purge, rows
  <2>2. DOMAIN q = Fields /\ q.pc = "purge" /\ q.op = req[r].op /\ q.conv = req[r].conv
    BY <1>5 DEF ShapeOK, Fields, Purge
  <2> HIDE DEF q
  <2> QED
    BY <1>0, <2>1, <2>2, BoundUpdate, RowsUnchanged, ShrinkKeeps DEF LiveInv
<1> QED
  BY <1>1, <1>2, <1>3, <1>4, <1>5 DEF StoreNext

LEMMA StreamOwns ==
    ASSUME ShapeOK, LiveInv, NEW r \in Requests, StreamNext(r)
    PROVE  LiveInv'
<1>0. OwnedRows /\ AllBound
  BY DEF LiveInv
<1>1. ASSUME NEW c \in Conversations, NEW image \in BOOLEAN, SendBegin(r, c, image)
      PROVE  LiveInv'
  <2> DEFINE q == [Idle EXCEPT !.pc = IF image THEN "put" ELSE "insert", !.op = "send", !.conv = c]
  <2>1. DOMAIN q = Fields /\ q.conv \in Conversations
    BY IdleFields DEF Fields
  <2>2. Begin(r, q) /\ UNCHANGED <<convs, msgs, files>>
    BY <1>1 DEF SendBegin, rows
  <2> HIDE DEF q
  <2> QED
    BY <1>0, <2>1, <2>2, BoundBegin, RowsUnchanged, ShrinkKeeps DEF LiveInv
<1>2. CASE SendCommit(r)
  <2>1. UNCHANGED <<convs, files>> /\ LiveStays /\ FilesShrink /\ req[r].conv \in Conversations
    BY <1>0, <1>2, RowsUnchanged DEF SendCommit, AllBound, Bound
  <2>2. CASE ForeignKey(req[r].conv)
    <3>1. /\ InsertMessage(req[r].conv, "user", req[r].ref) /\ Goto(r, "stream")
          /\ convs'[req[r].conv] = "live"
      BY <1>2, <2>1, <2>2 DEF SendCommit, ForeignKey
    <3> QED
      BY <1>0, <2>1, <3>1, BoundGoto, InsertKeeps DEF LiveInv
  <2>3. CASE ~ForeignKey(req[r].conv)
    <3>1. Finish(r) /\ UNCHANGED msgs
      BY <1>2, <2>3 DEF SendCommit
    <3> QED
      BY <1>0, <2>1, <3>1, BoundFinish, RowsUnchanged, ShrinkKeeps DEF LiveInv
  <2> QED
    BY <2>2, <2>3
<1>3. ASSUME NEW image \in BOOLEAN, StreamEnds(r, image)
      PROVE  LiveInv'
  <2> DEFINE q == [req[r] EXCEPT !.pc = IF image THEN "put" ELSE "store", !.op = "reply",
                                 !.ref = NoRef]
  <2>1. req' = [req EXCEPT ![r] = q] /\ UNCHANGED <<convs, msgs, files>>
    BY <1>3 DEF StreamEnds, rows
  <2>2. DOMAIN q = Fields /\ q.conv \in Conversations
    BY <1>0, <1>3 DEF ShapeOK, Fields, StreamEnds, AllBound, Bound
  <2> HIDE DEF q
  <2> QED
    BY <1>0, <2>1, <2>2, BoundUpdate, RowsUnchanged, ShrinkKeeps DEF LiveInv
<1>4. CASE StreamEmpty(r)
  <2>1. UNCHANGED <<convs, files>> /\ Finish(r)
    BY <1>4 DEF StreamEmpty
  <2>2. MsgsShrink
    BY <1>0, <1>4 DEF StreamEmpty, MsgsShrink, OwnedRows
  <2> QED
    BY <1>0, <2>1, <2>2, BoundFinish, RowsUnchanged, ShrinkKeeps DEF LiveInv
<1>5. CASE StoreReply(r)
  <2>1. /\ UNCHANGED <<convs, files>> /\ LiveStays /\ FilesShrink
        /\ req[r].conv \in Conversations /\ AllBound'
    BY <1>0, <1>5, RowsUnchanged, BoundFinish DEF StoreReply, AllBound, Bound
  <2>2. CASE ForeignKey(req[r].conv)
    <3>1. /\ InsertMessage(req[r].conv, "assistant", req[r].ref)
          /\ convs'[req[r].conv] = "live"
      BY <1>5, <2>1, <2>2 DEF StoreReply, ForeignKey
    <3> QED
      BY <1>0, <2>1, <3>1, InsertKeeps DEF LiveInv
  <2>3. CASE ~ForeignKey(req[r].conv)
    BY <1>0, <1>5, <2>1, <2>3, RowsUnchanged, ShrinkKeeps DEF StoreReply, LiveInv
  <2> QED
    BY <2>2, <2>3
<1> QED
  BY <1>1, <1>2, <1>3, <1>4, <1>5 DEF StreamNext

LEMMA RewriteOwns ==
    ASSUME ShapeOK, LiveInv, NEW r \in Requests, RewriteNext(r)
    PROVE  LiveInv'
<1>0. OwnedRows /\ AllBound
  BY DEF LiveInv
<1>1. ASSUME NEW m \in DOMAIN msgs, NEW content \in {"image", "same", "text"},
             EditBegin(r, m, content)
      PROVE  LiveInv'
  <2> DEFINE q == [Idle EXCEPT !.pc = IF content = "image" THEN "put" ELSE "rewrite",
                               !.op = "edit", !.conv = msgs[m].conv, !.msg = m,
                               !.ref = IF content = "same" THEN msgs[m].ref ELSE NoRef]
  <2>1. DOMAIN q = Fields /\ q.conv \in Conversations
    BY <1>0, IdleFields DEF Fields, OwnedRows
  <2>2. Begin(r, q) /\ UNCHANGED <<convs, msgs, files>>
    BY <1>1 DEF EditBegin, rows
  <2> HIDE DEF q
  <2> QED
    BY <1>0, <2>1, <2>2, BoundBegin, RowsUnchanged, ShrinkKeeps DEF LiveInv
<1>2. ASSUME NEW m \in DOMAIN msgs, DeleteBegin(r, m)
      PROVE  LiveInv'
  <2> DEFINE q == [Idle EXCEPT !.pc = "cut", !.op = "delete", !.conv = msgs[m].conv, !.msg = m]
  <2>1. DOMAIN q = Fields /\ q.conv \in Conversations
    BY <1>0, IdleFields DEF Fields, OwnedRows
  <2>2. Begin(r, q) /\ UNCHANGED <<convs, msgs, files>>
    BY <1>2 DEF DeleteBegin, rows
  <2> HIDE DEF q
  <2> QED
    BY <1>0, <2>1, <2>2, BoundBegin, RowsUnchanged, ShrinkKeeps DEF LiveInv
<1>3. ASSUME NEW m \in DOMAIN msgs, NEW pc \in {"branch", "archive"}, RegenerateBegin(r, m, pc)
      PROVE  LiveInv'
  <2> DEFINE q == [Idle EXCEPT !.pc = pc, !.op = "regenerate", !.conv = msgs[m].conv, !.msg = m]
  <2>1. DOMAIN q = Fields /\ q.conv \in Conversations
    BY <1>0, IdleFields DEF Fields, OwnedRows
  <2>2. Begin(r, q) /\ UNCHANGED <<convs, msgs, files>>
    BY <1>3 DEF RegenerateBegin, rows
  <2> HIDE DEF q
  <2> QED
    BY <1>0, <2>1, <2>2, BoundBegin, RowsUnchanged, ShrinkKeeps DEF LiveInv
<1>4. ASSUME NEW left, TruncateTo(r, req[r].conv, left), UNCHANGED convs, MsgsShrink
      PROVE  LiveInv'
  <2> DEFINE stale == Garbage(req[r].conv, left)
             q == [req[r] EXCEPT !.pc = "purge", !.stale = IF UseS3 THEN stale ELSE {}]
  <2>1. req' = [req EXCEPT ![r] = q] /\ files' = Restrict(files, DOMAIN files \ stale)
    BY <1>4 DEF TruncateTo
  <2>2. DOMAIN q = Fields /\ q.pc = "purge" /\ q.op = req[r].op /\ q.conv = req[r].conv
    BY DEF ShapeOK, Fields
  <2> HIDE DEF stale, q
  <2>3. FilesShrink
    BY <2>1 DEF FilesShrink, Restrict
  <2> QED
    BY <1>0, <1>4, <2>1, <2>2, <2>3, BoundUpdate, RowsUnchanged, ShrinkKeeps DEF LiveInv
<1>5. CASE EditCommit(r)
  <2> DEFINE kept == {m \in DOMAIN msgs : m \in Thread(req[r].conv) => m =< req[r].msg}
             left == [m \in kept |-> IF m = req[r].msg
                                     THEN [msgs[m] EXCEPT !.ref = req[r].ref]
                                     ELSE msgs[m]]
  <2>1. TruncateTo(r, req[r].conv, left) /\ UNCHANGED convs
    BY <1>5 DEF EditCommit
  <2>2. MsgsShrink
    BY <1>0, <2>1 DEF TruncateTo, MsgsShrink, OwnedRows
  <2> HIDE DEF left
  <2> QED
    BY <1>4, <2>1, <2>2
<1>6. ASSUME NEW kept, kept \subseteq DOMAIN msgs,
             TruncateTo(r, req[r].conv, Restrict(msgs, kept)), UNCHANGED convs
      PROVE  LiveInv'
  <2>1. MsgsShrink
    BY <1>0, <1>6 DEF TruncateTo, MsgsShrink, OwnedRows, Restrict
  <2> QED
    BY <1>4, <1>6, <2>1
<1>7. CASE DeleteCommit(r)
  BY <1>6, <1>7 DEF DeleteCommit
<1>8. CASE Branch(r)
  BY <1>6, <1>8 DEF Branch
<1>9. CASE Archive(r)
  <2>1. UNCHANGED <<convs, files>> /\ Goto(r, "stream") /\ req[r].conv \in Conversations
    BY <1>0, <1>9 DEF Archive, AllBound, Bound
  <2>2. MsgsShrink
    BY <1>0, <1>9 DEF Archive, MsgsShrink, OwnedRows
  <2> QED
    BY <1>0, <2>1, <2>2, BoundGoto, RowsUnchanged, ShrinkKeeps DEF LiveInv
<1> QED
  BY <1>1, <1>2, <1>3, <1>5, <1>7, <1>8, <1>9 DEF RewriteNext

\* Deleting conversations deletes what they own in the same transaction.
LEMMA DropOwns ==
    ASSUME ShapeOK, LiveInv, NEW r \in Requests, Drop(r)
    PROVE  LiveInv'
<1>0. OwnedRows /\ AllBound
  BY DEF LiveInv
<1> DEFINE gone == req[r].drops
<1>1. /\ DOMAIN convs' = Conversations
      /\ \A c \in Conversations : c \notin gone => convs'[c] = convs[c]
  BY DEF Drop
<1>2. \A m \in DOMAIN msgs' : m \in DOMAIN msgs /\ msgs'[m] = msgs[m] /\ msgs[m].conv \notin gone
  BY DEF Drop, Restrict
<1>3. \A f \in DOMAIN files' : f \in DOMAIN files /\ files'[f] = files[f] /\ files[f] \notin gone
  BY DEF Drop, Restrict, FilesOf
<1> HIDE DEF gone
<1>4. OwnedRows'
  BY <1>0, <1>1, <1>2, <1>3 DEF OwnedRows, NothingOfDeleted
<1> QED
  BY <1>0, <1>4, BoundGoto DEF Drop, LiveInv

LEMMA ConversationOwns ==
    ASSUME ShapeOK, LiveInv, NEW r \in Requests, ConversationNext(r)
    PROVE  LiveInv'
<1>0. OwnedRows /\ AllBound
  BY DEF LiveInv
<1>1. ASSUME NEW cs, DropBegin(r, cs)
      PROVE  LiveInv'
  <2> DEFINE q == [Idle EXCEPT !.pc = "drop", !.op = "drop", !.drops = cs,
                               !.stale = IF UseS3 THEN FilesOf(cs) ELSE {}]
  <2>1. DOMAIN q = Fields /\ q.pc = "drop" /\ q.op = "drop"
    BY IdleFields DEF Fields
  <2>2. Begin(r, q) /\ UNCHANGED <<convs, msgs, files>>
    BY <1>1 DEF DropBegin, rows
  <2> HIDE DEF q
  <2> QED
    BY <1>0, <2>1, <2>2, BoundBegin, RowsUnchanged, ShrinkKeeps DEF LiveInv
<1>2. CASE Drop(r)
  BY <1>2, DropOwns
<1>3. ASSUME NEW c \in Conversations, NEW d \in Conversations, CloneBegin(r, c, d)
      PROVE  LiveInv'
  <2> DEFINE q == [Idle EXCEPT !.pc = "load", !.op = "clone", !.conv = d, !.from = c,
                               !.todo = Restrict(msgs, {m \in Thread(c) : msgs[m].shown})]
  <2>1. DOMAIN q = Fields /\ q.conv \in Conversations
    BY IdleFields DEF Fields
  <2>2. Begin(r, q) /\ UNCHANGED <<msgs, files>>
    BY <1>3 DEF CloneBegin
  <2>3. LiveStays
    BY <1>0, <1>3 DEF CloneBegin, LiveStays, OwnedRows, Live
  <2> HIDE DEF q
  <2> QED
    BY <1>0, <2>1, <2>2, <2>3, BoundBegin, RowsUnchanged, ShrinkKeeps DEF LiveInv
<1>4. ASSUME NEW fails \in BOOLEAN, CloneLoad(r, fails)
      PROVE  LiveInv'
  <2>1. \E pc \in {"put", "copy"} : \E f :
           req' = [req EXCEPT ![r] = [req[r] EXCEPT !.pc = pc, !.ref = f]]
    BY <1>4 DEF CloneLoad
  <2>2. ASSUME NEW pc \in {"put", "copy"}, NEW f
        PROVE  DOMAIN [req[r] EXCEPT !.pc = pc, !.ref = f] = Fields
               /\ [req[r] EXCEPT !.pc = pc, !.ref = f].conv \in Conversations
    BY <1>0, <1>4 DEF ShapeOK, Fields, CloneLoad, AllBound, Bound
  <2>3. AllBound'
    BY <1>0, <2>1, <2>2, BoundUpdate
  <2> QED
    BY <1>0, <1>4, <2>3, RowsUnchanged, ShrinkKeeps DEF LiveInv, CloneLoad, rows
<1>5. CASE CloneCopy(r)
  <2>1. UNCHANGED <<convs, files>> /\ LiveStays /\ FilesShrink /\ req[r].conv \in Conversations
    BY <1>0, <1>5, RowsUnchanged DEF CloneCopy, AllBound, Bound
  <2>2. CASE ForeignKey(req[r].conv)
    <3> DEFINE q == [req[r] EXCEPT !.pc = "load",
                        !.todo = Restrict(req[r].todo, DOMAIN req[r].todo \ {CopyOf(r)})]
    <3>1. /\ req' = [req EXCEPT ![r] = q]
          /\ InsertMessage(req[r].conv, req[r].todo[CopyOf(r)].role, req[r].ref)
          /\ convs'[req[r].conv] = "live"
      BY <1>5, <2>1, <2>2 DEF CloneCopy, ForeignKey
    <3>2. DOMAIN q = Fields /\ q.conv \in Conversations
      BY <2>1 DEF ShapeOK, Fields
    <3> HIDE DEF q
    <3> QED
      BY <1>0, <2>1, <3>1, <3>2, BoundUpdate, InsertKeeps DEF LiveInv
  <2>3. CASE ~ForeignKey(req[r].conv)
    <3>1. Finish(r) /\ UNCHANGED msgs
      BY <1>5, <2>3 DEF CloneCopy
    <3> QED
      BY <1>0, <2>1, <3>1, BoundFinish, RowsUnchanged, ShrinkKeeps DEF LiveInv
  <2> QED
    BY <2>2, <2>3
<1>6. CASE CloneDone(r)
  BY <1>0, <1>6, BoundFinish, RowsUnchanged, ShrinkKeeps DEF CloneDone, rows, LiveInv
<1>7. ASSUME NEW d \in Conversations, ImportBegin(r, d)
      PROVE  LiveInv'
  <2> DEFINE q == [Idle EXCEPT !.pc = "put", !.op = "import", !.conv = d]
  <2>1. DOMAIN q = Fields /\ q.conv \in Conversations
    BY IdleFields DEF Fields
  <2>2. Begin(r, q) /\ UNCHANGED <<msgs, files>>
    BY <1>7 DEF ImportBegin
  <2>3. LiveStays
    BY <1>0, <1>7 DEF ImportBegin, LiveStays, OwnedRows, Live
  <2> HIDE DEF q
  <2> QED
    BY <1>0, <2>1, <2>2, <2>3, BoundBegin, RowsUnchanged, ShrinkKeeps DEF LiveInv
<1>8. CASE ImportCommit(r)
  <2>1. Finish(r) /\ AllBound' /\ req[r].conv \in Conversations
    BY <1>0, <1>8, BoundFinish DEF ImportCommit, AllBound, Bound
  <2>2. CASE UNCHANGED rows
    BY <1>0, <2>1, <2>2, RowsUnchanged, ShrinkKeeps DEF ImportCommit, rows, LiveInv
  <2>3. CASE convs[req[r].conv] = "drawn"
    <3> DEFINE c == req[r].conv
               g == req[r].file
    <3>1. /\ convs' = [convs EXCEPT ![c] = "live"] /\ c \in Conversations
          /\ files' = [f \in DOMAIN files \cup {g} |-> IF f = g THEN c ELSE files[f]]
          /\ InsertMessage(c, "user", g)
      BY <1>8, <2>1, <2>3 DEF ImportCommit
    <3> HIDE DEF c, g
    <3>2. LiveStays /\ convs'[c] = "live"
      BY <1>0, <3>1 DEF LiveStays, OwnedRows, Live
    <3>3. \A f \in DOMAIN files' : files'[f] \in Conversations /\ convs'[files'[f]] = "live"
      BY <1>0, <3>1, <3>2 DEF OwnedRows, NothingOfDeleted, LiveStays, Live
    <3>4. \A m \in DOMAIN msgs' :
             \/ m \in DOMAIN msgs /\ msgs'[m] = msgs[m]
             \/ msgs'[m] = [conv |-> c, role |-> "user", shown |-> TRUE, ref |-> g]
      BY <3>1 DEF InsertMessage
    <3>5. ASSUME NEW m \in DOMAIN msgs'
          PROVE  /\ "conv" \in DOMAIN msgs'[m] /\ msgs'[m].conv \in Conversations
                 /\ convs'[msgs'[m].conv] = "live"
      <4>1. CASE m \in DOMAIN msgs /\ msgs'[m] = msgs[m]
        BY <1>0, <3>2, <4>1 DEF OwnedRows, NothingOfDeleted, LiveStays, Live
      <4>2. CASE msgs'[m] = [conv |-> c, role |-> "user", shown |-> TRUE, ref |-> g]
        BY <3>1, <3>2, <4>2
      <4> QED
        BY <3>4, <4>1, <4>2
    <3>6. OwnedRows'
      BY <3>2, <3>3, <3>5 DEF OwnedRows, NothingOfDeleted, LiveStays
    <3> QED
      BY <2>1, <3>6 DEF LiveInv
  <2> QED
    BY <1>8, <2>2, <2>3 DEF ImportCommit
<1> QED
  BY <1>1, <1>2, <1>3, <1>4, <1>5, <1>6, <1>7, <1>8 DEF ConversationNext

LEMMA LiveInvStep ==
    ASSUME ShapeOK, LiveInv, [Next]_vars
    PROVE  LiveInv'
<1>0. OwnedRows /\ AllBound
  BY DEF LiveInv
<1>1. CASE UNCHANGED vars
  BY <1>0, <1>1, RowsUnchanged, ShrinkKeeps DEF vars, LiveInv, AllBound, Bound
<1>2. ASSUME NEW c \in Conversations, CreateConversation(c)
      PROVE  LiveInv'
  <2>1. LiveStays /\ UNCHANGED <<msgs, files, req>>
    BY <1>0, <1>2 DEF CreateConversation, LiveStays, OwnedRows, Live, store
  <2> QED
    BY <1>0, <2>1, RowsUnchanged, ShrinkKeeps DEF LiveInv, AllBound, Bound
<1>3. ASSUME NEW r \in Requests,
             StoreNext(r) \/ StreamNext(r) \/ RewriteNext(r) \/ ConversationNext(r)
      PROVE  LiveInv'
  BY <1>3, StoreOwns, StreamOwns, RewriteOwns, ConversationOwns
<1>4. ASSUME NEW r \in Requests, TransactionFails(r)
      PROVE  LiveInv'
  BY <1>0, <1>4, BoundFinish, RowsUnchanged, ShrinkKeeps DEF TransactionFails, rows, LiveInv
<1>5. CASE Crash
  <2>1. UNCHANGED <<convs, msgs, files>> /\ \A r \in Requests : req'[r] = Idle
    BY <1>5 DEF Crash, rows
  <2>2. AllBound'
    BY <2>1, IdleFields DEF AllBound, Bound
  <2> QED
    BY <1>0, <2>1, <2>2, RowsUnchanged, ShrinkKeeps DEF LiveInv
<1> QED
  BY <1>1, <1>2, <1>3, <1>4, <1>5 DEF Next

LEMMA LiveInvInit ==
    ASSUME Init
    PROVE  LiveInv
<1>1. /\ DOMAIN files = {} /\ DOMAIN msgs = {} /\ DOMAIN convs = Conversations
      /\ \A r \in Requests : req[r] = Idle
  BY DEF Init, Restrict
<1> QED
  BY <1>1, IdleFields DEF LiveInv, OwnedRows, NothingOfDeleted, AllBound, Bound

\* Nothing is left of a deleted conversation, however many uploads, edits, clones,
\* imports and replies for it are under way when it goes.
THEOREM NothingIsLeft == Spec => []NothingOfDeleted
<1>1. Init => FileInv /\ LiveInv
  BY FileInvInit, LiveInvInit
<1>2. FileInv /\ LiveInv /\ [Next]_vars => FileInv' /\ LiveInv'
  BY FileInvStep, LiveInvStep DEF FileInv
<1>3. LiveInv => NothingOfDeleted
  BY DEF LiveInv, OwnedRows
<1> QED
  BY <1>1, <1>2, <1>3, PTL DEF Spec

-----------------------------------------------------------------------------
(***************************************************************************)
(* Requests that follow one another.  As long as none has begun while      *)
(* another was in flight, what the one request under way knows is still    *)
(* true when it acts on it.                                                *)
(***************************************************************************)
Undisturbed == ~overlapped /\ storeFaults = 0
Clean == Undisturbed /\ faults = 0

FileOf(f, c) == f = NoRef \/ (f \in DOMAIN files /\ files[f] = c)

\* Where a request holds a reference that no row has yet.
Holding == {"insert", "store", "rewrite", "copy"}
Holds(q, f) == q.pc \in Holding /\ q.ref = f

\* The conversation a request writes to is still there.
ConvOK(q) ==
    /\ q.pc \in {"put", "index", "insert", "stream", "store", "rewrite", "cut", "branch",
                 "archive", "load", "copy"} /\ q.op # "import" => Live(q.conv)
    /\ q.op = "import" /\ q.pc # "idle" => q.pc \in {"put", "import"} /\ convs[q.conv] = "drawn"
    /\ q.pc = "import" => q.op = "import"
    /\ q.pc = "rewrite" => q.op = "edit"
    /\ q.pc \in {"load", "copy"} => q.op = "clone"
    /\ q.pc = "purge" /\ q.op \in {"edit", "regenerate"} => Live(q.conv)
    /\ q.pc = "drop" => q.op = "drop" /\ (UseS3 => FilesOf(q.drops) \subseteq q.stale)

\* The references a request holds are files of the conversation it writes to, and
\* those of the rows a clone has still to copy are files of their own.
RefsHeld(q) ==
    /\ q.pc \in Holding => FileOf(q.ref, q.conv)
    /\ q.op = "edit" /\ q.pc \in {"put", "index", "rewrite"} =>
          q.msg \in DOMAIN msgs /\ msgs[q.msg].conv = q.conv
    /\ q.op = "clone" /\ q.pc \in {"put", "index", "load", "copy"} =>
          /\ DOMAIN q.todo \subseteq Nat
          /\ \A m \in DOMAIN q.todo : FileOf(q.todo[m].ref, q.from)
          /\ q.pc # "load" => DOMAIN q.todo # {}

\* Every file is referenced by a row, or the request is about to give it one; every
\* object has its row, or the request is about to give it one or to delete it.
Referenced(q) ==
    \A f \in DOMAIN files : (\E m \in DOMAIN msgs : msgs[m].ref = f) \/ Holds(q, f)
Known(q) ==
    UseS3 => \A f \in objects : \/ f \in DOMAIN files
                                \/ Pending(q) /\ q.file = f
                                \/ q.pc = "purge" /\ f \in q.stale

RefsOK(q) == RefsResolve /\ RefsHeld(q)
KeptOK(q) == Referenced(q) /\ Known(q)

\* What holds of the one request under way, and of the rows and objects beside it.
Local(q) ==
    /\ ~overlapped => ConvOK(q)
    /\ Undisturbed => RefsOK(q)
    /\ Clean => KeptOK(q)

RowInv ==
    /\ overlapped \in BOOLEAN /\ faults \in Nat /\ storeFaults \in Nat
    /\ nextMsg \in Nat /\ nextFile \in Nat \ {NoRef}
    /\ DOMAIN msgs \subseteq Nat /\ \A m \in DOMAIN msgs : m < nextMsg
    /\ \A m \in DOMAIN msgs : DOMAIN msgs[m] = {"conv", "role", "shown", "ref"}
    /\ NoRef \notin DOMAIN files
    /\ \A r \in Requests : Pending(req[r]) => req[r].file # NoRef

Others(r) == \A s \in Requests \ {r} : req[s].pc = "idle"

\* With FileInv and LiveInv, inductive.
AloneInv ==
    /\ RowInv
    /\ Requests = {} => DOMAIN files = {} /\ DOMAIN msgs = {} /\ objects = {}
    /\ ~overlapped /\ Requests # {} => \E r \in Requests : Others(r)
    /\ \A r \in Requests : Others(r) => Local(req[r])

\* A step of the request r, in its turn or as it begins.
Turn(r) ==
    /\ StepOf(r)
    /\ \/ UNCHANGED overlapped /\ req[r].pc # "idle"
       \/ /\ req[r].pc = "idle"
          /\ overlapped' = (overlapped \/ \E s \in Requests : req[s].pc # "idle")
    /\ storeFaults' \in {storeFaults, storeFaults + 1}
    /\ faults' \in {faults, faults + 1}



LEMMA TurnAlone ==
    ASSUME AloneInv, NEW r \in Requests, Turn(r), ~overlapped'
    PROVE  ~overlapped /\ Others(r) /\ Others(r)'
<1>1. ~overlapped
  <2>1. overlapped \in BOOLEAN
    BY DEF AloneInv, RowInv
  <2> QED
    BY <2>1, Zenon DEF Turn
<1>2. Others(r)
  <2>1. CASE UNCHANGED overlapped /\ req[r].pc # "idle"
    <3>1. PICK s \in Requests : Others(s)
      BY <1>1 DEF AloneInv
    <3>2. s = r
      BY <2>1, <3>1 DEF Others
    <3> QED
      BY <3>1, <3>2
  <2>2. CASE overlapped' = (overlapped \/ \E s \in Requests : req[s].pc # "idle")
    BY <2>2, Zenon DEF Others
  <2> QED
    BY <2>1, <2>2 DEF Turn
<1>3. Others(r)'
  BY <1>2 DEF Others, Turn, StepOf
<1> QED
  BY <1>1, <1>2, <1>3

LEMMA TurnCalm ==
    ASSUME RowInv, NEW r \in Requests, Turn(r)
    PROVE  /\ storeFaults' \in Nat /\ faults' \in Nat
           /\ storeFaults' = 0 => storeFaults = 0
           /\ faults' = 0 => faults = 0
           /\ overlapped' \in BOOLEAN
<1>1. storeFaults \in Nat /\ faults \in Nat /\ overlapped \in BOOLEAN
  BY DEF RowInv
<1>2. storeFaults' \in {storeFaults, storeFaults + 1} /\ faults' \in {faults, faults + 1}
  BY DEF Turn
<1>3. overlapped' \in BOOLEAN
  BY <1>1, Zenon DEF Turn
<1> QED
  BY <1>1, <1>2, <1>3

\* Two requests that are not under way know the same.
LEMMA IdleKnows ==
    ASSUME NEW r \in Requests, NEW s \in Requests, Local(req[r])',
           req'[r].pc = "idle", req'[s].pc = "idle"
    PROVE  Local(req[s])'
<1>1. ConvOK(req[s])'
  BY DEF ConvOK
<1>2. RefsOK(req[r])' => RefsOK(req[s])'
  BY DEF RefsOK, RefsHeld, Holding
<1>3. KeptOK(req[r])' => KeptOK(req[s])'
  BY DEF KeptOK, Referenced, Known, Holds, Holding, Pending
<1> QED
  BY <1>1, <1>2, <1>3 DEF Local

LEMMA Settle ==
    ASSUME AloneInv, NEW r \in Requests, Turn(r), RowInv',
           ~overlapped' /\ ConvOK(req[r]) => ConvOK(req[r])',
           Undisturbed' /\ ConvOK(req[r]) /\ RefsOK(req[r]) => RefsOK(req[r])',
           Clean' /\ ConvOK(req[r]) /\ RefsOK(req[r]) /\ KeptOK(req[r]) => KeptOK(req[r])'
    PROVE  AloneInv'
<1>1. (~overlapped /\ Requests # {} => \E s \in Requests : Others(s))'
  BY TurnAlone
<1>2. ASSUME NEW s \in Requests, Others(s)'
      PROVE  Local(req[s])'
  <2>1. CASE overlapped'
    BY <2>1 DEF Local, Undisturbed, Clean
  <2>2. CASE ~overlapped'
    <3>1. ~overlapped /\ Others(r) /\ Others(r)'
      BY <2>2, TurnAlone
    <3>2. Local(req[r])
      BY <3>1 DEF AloneInv
    <3>3. /\ ~overlapped' => ~overlapped
          /\ Undisturbed' => Undisturbed
          /\ Clean' => Clean
      BY <3>1, TurnCalm DEF Undisturbed, Clean, AloneInv
    <3>4. Local(req[r])'
      BY <3>2, <3>3 DEF Local, Undisturbed, Clean
    <3>5. CASE s = r
      BY <3>4, <3>5
    <3>6. CASE s # r
      <4>1. req'[r].pc = "idle" /\ req'[s].pc = "idle"
        BY <1>2, <3>1, <3>6 DEF Others
      <4>2. req'[s] = req[s] /\ req[s].pc = "idle"
        BY <3>1, <3>6 DEF Turn, StepOf, Others
      <4> QED
        BY <3>4, <4>1, <4>2, IdleKnows
    <3> QED
      BY <3>5, <3>6
  <2> QED
    BY <2>1, <2>2
<1> QED
  BY <1>1, <1>2 DEF AloneInv

LEMMA RowInvTurn ==
    ASSUME RowInv, NEW r \in Requests, Turn(r),
           nextMsg' \in Nat, nextFile' \in Nat \ {NoRef}, DOMAIN msgs' \subseteq Nat,
           \A m \in DOMAIN msgs' : m < nextMsg',
           \A m \in DOMAIN msgs' : DOMAIN msgs'[m] = {"conv", "role", "shown", "ref"},
           NoRef \notin DOMAIN files',
           Pending(req'[r]) => req'[r].file # NoRef
    PROVE  RowInv'
<1>1. overlapped' \in BOOLEAN /\ faults' \in Nat /\ storeFaults' \in Nat
  BY TurnCalm
<1>2. ASSUME NEW s \in Requests, Pending(req'[s])
      PROVE  req'[s].file # NoRef
  BY <1>2 DEF Turn, StepOf, RowInv, Pending
<1> QED
  BY <1>1, <1>2 DEF RowInv, Pending

\* A step that only moves the request on, and one that also begins a conversation.
LEMMA MoveSettles ==
    ASSUME AloneInv, NEW r \in Requests, Turn(r), NEW q, req'[r] = q,
           UNCHANGED <<msgs, files, objects, nextMsg, nextFile>>,
           ~Pending(q),
           ~overlapped' /\ ConvOK(req[r]) => ConvOK(req[r])',
           Undisturbed' /\ ConvOK(req[r]) /\ RefsOK(req[r]) => RefsHeld(q),
           Clean' /\ ConvOK(req[r]) =>
                     /\ ~Pending(req[r]) /\ req[r].pc \notin Holding
                     /\ req[r].pc = "purge" => req[r].stale = {}
    PROVE  AloneInv'
<1>1. RowInv /\ RowInv'
  BY RowInvTurn DEF AloneInv, RowInv
<1>2. RefsResolve /\ RefsHeld(q) => RefsOK(req[r])'
  BY DEF RefsOK, RefsResolve, RefsHeld, FileOf
<1>3. Clean' /\ ConvOK(req[r]) /\ KeptOK(req[r]) => KeptOK(req[r])'
  BY DEF KeptOK, Referenced, Known, Holds
<1> QED
  BY <1>1, <1>2, <1>3, Settle DEF RefsOK

LEMMA CalmSettles ==
    ASSUME AloneInv, NEW r \in Requests, Turn(r), NEW q, req'[r] = q,
           UNCHANGED <<convs, msgs, files, objects, nextMsg, nextFile>>,
           ~Pending(q),
           ~overlapped' /\ ConvOK(req[r]) => ConvOK(q),
           Undisturbed' /\ ConvOK(req[r]) /\ RefsOK(req[r]) => RefsHeld(q),
           Clean' /\ ConvOK(req[r]) =>
                     /\ ~Pending(req[r]) /\ req[r].pc \notin Holding
                     /\ req[r].pc = "purge" => req[r].stale = {}
    PROVE  AloneInv'
<1>1. ConvOK(q) => ConvOK(req[r])'
  BY DEF ConvOK, Live, FilesOf
<1> QED
  BY <1>1, MoveSettles

\* The three ways of moving on.
LEMMA BeginTurn ==
    ASSUME ShapeOK, NEW r \in Requests, NEW q, Begin(r, q), DOMAIN q = Fields,
           UNCHANGED <<faults, storeFaults>>
    PROVE  Turn(r) /\ req'[r] = q /\ req[r].pc = "idle"
BY BeginStep DEF Begin, Turn

LEMMA UpdateTurn ==
    ASSUME ShapeOK, NEW r \in Requests, NEW q, req' = [req EXCEPT ![r] = q], DOMAIN q = Fields,
           req[r].pc # "idle", UNCHANGED overlapped,
           faults' \in {faults, faults + 1}, storeFaults' \in {storeFaults, storeFaults + 1}
    PROVE  Turn(r) /\ req'[r] = q
BY DEF ShapeOK, Turn, StepOf

LEMMA FinishTurn ==
    ASSUME ShapeOK, NEW r \in Requests, Finish(r), req[r].pc # "idle", UNCHANGED overlapped,
           faults' \in {faults, faults + 1}, storeFaults' \in {storeFaults, storeFaults + 1}
    PROVE  Turn(r) /\ req'[r] = Idle
BY IdleFields, UpdateTurn DEF Finish

LEMMA GotoTurn ==
    ASSUME ShapeOK, NEW r \in Requests, NEW pc, Goto(r, pc), req[r].pc # "idle",
           UNCHANGED <<overlapped, faults, storeFaults>>
    PROVE  /\ Turn(r) /\ req'[r].pc = pc
           /\ \A x \in Fields \ {"pc"} : req'[r][x] = req[r][x]
<1> DEFINE q == [req[r] EXCEPT !.pc = pc]
<1>1. req' = [req EXCEPT ![r] = q]
  BY DEF Goto
<1>2. DOMAIN q = Fields /\ q.pc = pc /\ \A x \in Fields \ {"pc"} : q[x] = req[r][x]
  BY DEF ShapeOK, Fields
<1> HIDE DEF q
<1> QED
  BY <1>1, <1>2, UpdateTurn

LEMMA IdleHolds == ConvOK(Idle) /\ RefsHeld(Idle) /\ ~Pending(Idle)
<1>1. Idle.pc = "idle"
  BY IdleFields
<1> QED
  BY <1>1 DEF ConvOK, RefsHeld, Pending, Holding

\* A request that ends leaves nothing half done, unless a fault cut it short.
LEMMA EndSettles ==
    ASSUME AloneInv, ShapeOK, NEW r \in Requests, Finish(r), req[r].pc # "idle",
           UNCHANGED <<convs, msgs, files, objects, nextMsg, nextFile, overlapped>>,
           faults' \in {faults, faults + 1}, storeFaults' \in {storeFaults, storeFaults + 1},
           Clean' /\ ConvOK(req[r]) =>
                     /\ ~Pending(req[r]) /\ req[r].pc \notin Holding
                     /\ req[r].pc = "purge" => req[r].stale = {}
    PROVE  AloneInv'
BY FinishTurn, CalmSettles, IdleHolds

-----------------------------------------------------------------------------
(***************************************************************************)
(* What the steps of store_data_url and purge_objects keep.                *)
(***************************************************************************)
LEMMA UploadAlone ==
    ASSUME ShapeOK, AloneInv, NEW r \in Requests, Upload(r)
    PROVE  AloneInv'
<1> DEFINE q == [req[r] EXCEPT !.pc = IF req[r].op = "import" THEN "import" ELSE "index",
                               !.file = nextFile]
<1>1. /\ req[r].pc = "put" /\ req' = [req EXCEPT ![r] = q]
      /\ UNCHANGED <<convs, msgs, files, nextMsg, faults, storeFaults, overlapped>>
      /\ nextFile' = nextFile + 1
      /\ objects' = IF UseS3 THEN objects \cup {nextFile} ELSE objects
  BY DEF Upload, rows
<1>2. /\ DOMAIN q = Fields /\ q.file = nextFile /\ q.op = req[r].op /\ q.conv = req[r].conv
      /\ q.msg = req[r].msg /\ q.todo = req[r].todo /\ q.from = req[r].from
      /\ q.pc = (IF req[r].op = "import" THEN "import" ELSE "index")
  BY DEF ShapeOK, Fields
<1> HIDE DEF q
<1>3. Turn(r) /\ req'[r] = q
  BY <1>1, <1>2, UpdateTurn
<1>4. RowInv'
  <2>1. nextFile' \in Nat \ {NoRef} /\ q.file # NoRef
    BY <1>1, <1>2 DEF AloneInv, RowInv, NoRef
  <2> QED
    BY <1>1, <1>3, <2>1, RowInvTurn DEF AloneInv, RowInv
<1>5. ConvOK(req[r]) => ConvOK(req[r])'
  BY <1>1, <1>2, <1>3 DEF ConvOK, Live
<1>6. RefsOK(req[r]) => RefsOK(req[r])'
  BY <1>1, <1>2, <1>3 DEF RefsOK, RefsResolve, RefsHeld, Holding, FileOf
<1>7. KeptOK(req[r]) => KeptOK(req[r])'
  BY <1>1, <1>2, <1>3 DEF KeptOK, Referenced, Known, Holds, Holding, Pending
<1> QED
  BY <1>3, <1>4, <1>5, <1>6, <1>7, Settle

LEMMA UploadFailsAlone ==
    ASSUME ShapeOK, AloneInv, NEW r \in Requests, UploadFails(r)
    PROVE  AloneInv'
<1>1. /\ Finish(r) /\ req[r].pc = "put" /\ faults' = faults /\ storeFaults' = storeFaults + 1
      /\ UNCHANGED <<convs, msgs, files, objects, nextMsg, nextFile, overlapped>>
  BY DEF UploadFails, rows
<1> QED
  BY <1>1, EndSettles DEF Pending, Holding

LEMMA IndexAlone ==
    ASSUME FileInv, AloneInv, NEW r \in Requests, Index(r)
    PROVE  AloneInv'
<1>0. ShapeOK /\ RowInv
  BY DEF FileInv, AloneInv
<1>1. /\ req[r].pc = "index"
      /\ UNCHANGED <<convs, msgs, objects, nextMsg, nextFile, faults, storeFaults, overlapped>>
  BY DEF Index, store
<1>2. CASE ForeignKey(req[r].conv)
  <2> DEFINE q == [req[r] EXCEPT !.pc = AfterIndex(req[r].op), !.ref = req[r].file]
             g == req[r].file
  <2>1. /\ req' = [req EXCEPT ![r] = q]
        /\ files' = [f \in DOMAIN files \cup {g} |-> IF f = g THEN req[r].conv ELSE files[f]]
    BY <1>2 DEF Index
  <2>2. /\ DOMAIN q = Fields /\ q.op = req[r].op /\ q.conv = req[r].conv /\ q.ref = g
        /\ q.msg = req[r].msg /\ q.todo = req[r].todo /\ q.from = req[r].from
        /\ q.pc = AfterIndex(req[r].op)
    BY <1>0 DEF ShapeOK, Fields
  <2>3. /\ g \notin DOMAIN files /\ g # NoRef /\ Pending(req[r])
    BY <1>0, <1>1 DEF FileInv, KnowsFiles, RowInv, Pending
  <2> HIDE DEF q, g
  <2>4. /\ DOMAIN files' = DOMAIN files \cup {g} /\ files'[g] = req[r].conv
        /\ \A f \in DOMAIN files : files'[f] = files[f]
    BY <2>1, <2>3
  <2>5. /\ q.pc \in Holding /\ (q.pc = "rewrite" <=> q.op = "edit")
        /\ (q.pc = "copy" <=> q.op = "clone")
    BY <2>2 DEF AfterIndex, Holding
  <2>6. Turn(r) /\ req'[r] = q
    BY <1>0, <1>1, <2>1, <2>2, UpdateTurn
  <2>7. RowInv'
    BY <1>0, <1>1, <2>3, <2>4, <2>5, <2>6, RowInvTurn DEF RowInv, Pending, Holding
  <2>8. ConvOK(req[r]) => ConvOK(req[r])'
    BY <1>1, <2>2, <2>5, <2>6 DEF ConvOK, Live, Holding
  <2>9. \A f, c : FileOf(f, c) => FileOf(f, c)'
    BY <2>4 DEF FileOf
  <2>10. RefsOK(req[r]) => RefsOK(req[r])'
    <3>1. RefsResolve => RefsResolve'
      BY <1>1, <2>4 DEF RefsResolve
    <3>2. FileOf(req[r].ref, req[r].conv)'
      BY <2>2, <2>4, <2>6 DEF FileOf
    <3>3. RefsHeld(req[r]) => RefsHeld(req[r])'
      BY <1>1, <2>2, <2>5, <2>6, <2>9, <3>2 DEF RefsHeld, Holding
    <3> QED
      BY <3>1, <3>3 DEF RefsOK
  <2>11. KeptOK(req[r]) => KeptOK(req[r])'
    <3>1. Referenced(req[r]) => Referenced(req[r])'
      BY <1>1, <2>2, <2>4, <2>5, <2>6 DEF Referenced, Holds, Holding
    <3>2. Known(req[r]) => Known(req[r])'
      BY <1>1, <2>4, <2>5, <2>6 DEF Known, Pending, Holding, g
    <3> QED
      BY <3>1, <3>2 DEF KeptOK
  <2> QED
    BY <2>6, <2>7, <2>8, <2>10, <2>11, Settle
<1>3. CASE ~ForeignKey(req[r].conv)
  <2>1. Finish(r) /\ UNCHANGED files
    BY <1>3 DEF Index
  <2>2. ~ConvOK(req[r])
    BY <1>1, <1>3 DEF ConvOK, ForeignKey, Live
  <2> QED
    BY <1>0, <1>1, <2>1, <2>2, EndSettles
<1> QED
  BY <1>2, <1>3

LEMMA AfterPurgeAlone ==
    ASSUME ShapeOK, AloneInv, NEW r \in Requests, AfterPurge(r)
    PROVE  AloneInv'
<1>1. /\ req[r].pc = "purge" /\ req[r].stale = {}
      /\ UNCHANGED <<convs, msgs, files, objects, nextMsg, nextFile, faults, storeFaults, overlapped>>
  BY DEF AfterPurge, rows, store
<1>2. ~Pending(req[r]) /\ req[r].pc \notin Holding
  BY <1>1 DEF Pending, Holding
<1>3. CASE Finish(r)
  BY <1>1, <1>2, <1>3, EndSettles
<1>4. ASSUME NEW pc \in {"stream", "archive"}, Goto(r, pc), req[r].op \in {"edit", "regenerate"}
      PROVE  AloneInv'
  <2>1. /\ Turn(r) /\ req'[r].pc = pc
        /\ req'[r].op = req[r].op /\ req'[r].conv = req[r].conv
    BY <1>1, <1>4, GotoTurn DEF Fields
  <2>2. ConvOK(req[r]) => ConvOK(req'[r])
    BY <1>1, <1>4, <2>1 DEF ConvOK
  <2>3. RefsHeld(req'[r]) /\ ~Pending(req'[r])
    BY <1>4, <2>1 DEF RefsHeld, Holding, Pending
  <2> QED
    BY <1>1, <1>2, <2>1, <2>2, <2>3, CalmSettles
<1>5. \/ \E pc \in {"stream", "archive"} : Goto(r, pc) /\ req[r].op \in {"edit", "regenerate"}
      \/ Finish(r)
  BY DEF AfterPurge
<1> QED
  BY <1>3, <1>4, <1>5

LEMMA PurgeAlone ==
    ASSUME ShapeOK, AloneInv, NEW r \in Requests, NEW f \in req[r].stale, NEW fails \in BOOLEAN,
           Purge(r, f, fails)
    PROVE  AloneInv'
<1> DEFINE q == [req[r] EXCEPT !.stale = req[r].stale \ {f}]
<1>1. /\ req[r].pc = "purge" /\ req' = [req EXCEPT ![r] = q]
      /\ UNCHANGED <<convs, msgs, files, nextMsg, nextFile, faults, overlapped>>
      /\ storeFaults' = IF fails THEN storeFaults + 1 ELSE storeFaults
      /\ objects' = IF fails THEN objects ELSE objects \ {f}
  BY DEF Purge, rows
<1>2. /\ DOMAIN q = Fields /\ q.op = req[r].op /\ q.conv = req[r].conv /\ q.pc = "purge"
      /\ q.stale = req[r].stale \ {f}
  BY <1>1 DEF ShapeOK, Fields
<1> HIDE DEF q
<1>3. Turn(r) /\ req'[r] = q
  BY <1>1, <1>2, UpdateTurn
<1>4. RowInv'
  BY <1>1, <1>2, <1>3, RowInvTurn DEF AloneInv, RowInv, Pending
<1>5. ConvOK(req[r]) => ConvOK(req[r])'
  BY <1>1, <1>2, <1>3 DEF ConvOK, Live
<1>6. RefsOK(req[r]) => RefsOK(req[r])'
  BY <1>1, <1>2, <1>3 DEF RefsOK, RefsResolve, RefsHeld, Holding
<1>7. Clean' => ~fails
  BY <1>1 DEF Clean, Undisturbed, AloneInv, RowInv
<1>8. ~fails /\ KeptOK(req[r]) => KeptOK(req[r])'
  BY <1>1, <1>2, <1>3 DEF KeptOK, Referenced, Known, Holds, Holding, Pending
<1> QED
  BY <1>3, <1>4, <1>5, <1>6, <1>7, <1>8, Settle

-----------------------------------------------------------------------------
(***************************************************************************)
(* Sending, and the reply.                                                 *)
(***************************************************************************)
LEMMA InsertRow ==
    ASSUME RowInv, NEW c, NEW role, NEW ref, InsertMessage(c, role, ref)
    PROVE  /\ nextMsg' \in Nat /\ DOMAIN msgs' = DOMAIN msgs \cup {nextMsg}
           /\ DOMAIN msgs' \subseteq Nat /\ \A m \in DOMAIN msgs' : m < nextMsg'
           /\ msgs'[nextMsg] = [conv |-> c, role |-> role, shown |-> TRUE, ref |-> ref]
           /\ \A m \in DOMAIN msgs : msgs'[m] = msgs[m]
           /\ \A m \in DOMAIN msgs' : DOMAIN msgs'[m] = {"conv", "role", "shown", "ref"}
<1> DEFINE row == [conv |-> c, role |-> role, shown |-> TRUE, ref |-> ref]
<1>1. /\ nextMsg' = nextMsg + 1
      /\ msgs' = [m \in DOMAIN msgs \cup {nextMsg} |-> IF m = nextMsg THEN row ELSE msgs[m]]
  BY DEF InsertMessage
<1>2. DOMAIN row = {"conv", "role", "shown", "ref"}
  OBVIOUS
<1> HIDE DEF row
<1>3. /\ nextMsg \in Nat /\ DOMAIN msgs \subseteq Nat /\ \A m \in DOMAIN msgs : m < nextMsg
      /\ \A m \in DOMAIN msgs : DOMAIN msgs[m] = {"conv", "role", "shown", "ref"}
  BY DEF RowInv
<1>4. \A m \in DOMAIN msgs : m # nextMsg
  BY <1>3
<1>5. /\ DOMAIN msgs' = DOMAIN msgs \cup {nextMsg} /\ msgs'[nextMsg] = row
      /\ \A m \in DOMAIN msgs : msgs'[m] = msgs[m]
  BY <1>1, <1>4
<1>6. DOMAIN msgs' \subseteq Nat /\ (\A m \in DOMAIN msgs' : m < nextMsg') /\ nextMsg' \in Nat
  BY <1>1, <1>3, <1>5
<1>7. \A m \in DOMAIN msgs' : DOMAIN msgs'[m] = {"conv", "role", "shown", "ref"}
  BY <1>2, <1>3, <1>5
<1> QED
  BY <1>5, <1>6, <1>7 DEF row

\* The request gives the reference it holds to a new row.
LEMMA InsertSettles ==
    ASSUME AloneInv, NEW r \in Requests, Turn(r), NEW q, req'[r] = q, NEW role,
           InsertMessage(req[r].conv, role, req[r].ref),
           UNCHANGED <<convs, files, objects, nextFile>>,
           req[r].pc \in Holding, q.pc \notin Holding, ~Pending(q),
           ConvOK(req[r]) => ConvOK(q),
           RefsHeld(req[r]) => RefsHeld(q)
    PROVE  AloneInv'
<1>0. RowInv
  BY DEF AloneInv
<1>1. /\ DOMAIN msgs' = DOMAIN msgs \cup {nextMsg}
      /\ msgs'[nextMsg].conv = req[r].conv /\ msgs'[nextMsg].ref = req[r].ref
      /\ \A m \in DOMAIN msgs : msgs'[m] = msgs[m]
  <2>1. /\ DOMAIN msgs' = DOMAIN msgs \cup {nextMsg}
        /\ msgs'[nextMsg] = [conv |-> req[r].conv, role |-> role, shown |-> TRUE,
                             ref |-> req[r].ref]
        /\ \A m \in DOMAIN msgs : msgs'[m] = msgs[m]
    BY <1>0, InsertRow
  <2> QED
    BY <2>1
<1>2. RowInv'
  BY <1>0, InsertRow, RowInvTurn DEF RowInv
<1>3. ConvOK(q) => ConvOK(req[r])'
  BY DEF ConvOK, Live, FilesOf
<1>4. RefsOK(req[r]) => RefsOK(req[r])'
  <2>1. RefsOK(req[r]) => RefsResolve'
    <3>1. RefsOK(req[r]) => FileOf(req[r].ref, req[r].conv)
      BY DEF RefsOK, RefsHeld
    <3> QED
      BY <1>1, <3>1 DEF RefsOK, RefsResolve, FileOf
  <2>2. RefsHeld(q) => RefsHeld(req[r])'
    BY <1>1 DEF RefsHeld, FileOf
  <2> QED
    BY <2>1, <2>2 DEF RefsOK
<1>5. KeptOK(req[r]) => KeptOK(req[r])'
  <2>1. Referenced(req[r]) => Referenced(req[r])'
    BY <1>1 DEF Referenced, Holds
  <2>2. Known(req[r]) => Known(req[r])'
    BY DEF Known, Pending, Holding
  <2> QED
    BY <2>1, <2>2 DEF KeptOK
<1> QED
  BY <1>2, <1>3, <1>4, <1>5, Settle

\* Rows are archived or shown again.
LEMMA ReshowSettles ==
    ASSUME AloneInv, NEW r \in Requests, Turn(r), NEW q, req'[r] = q,
           DOMAIN msgs' = DOMAIN msgs,
           \A m \in DOMAIN msgs : /\ msgs'[m].conv = msgs[m].conv /\ msgs'[m].ref = msgs[m].ref
                                  /\ DOMAIN msgs'[m] = DOMAIN msgs[m],
           UNCHANGED <<convs, files, objects, nextMsg, nextFile>>,
           req[r].pc \notin Holding, req[r].pc # "purge", ~Pending(req[r]), ~Pending(q),
           ConvOK(req[r]) => ConvOK(q), RefsHeld(q)
    PROVE  AloneInv'
<1>1. RowInv'
  BY RowInvTurn DEF AloneInv, RowInv
<1>2. ConvOK(q) => ConvOK(req[r])'
  BY DEF ConvOK, Live, FilesOf
<1>3. RefsOK(req[r]) => RefsOK(req[r])'
  BY DEF RefsOK, RefsResolve, RefsHeld, FileOf
<1>4. KeptOK(req[r]) => KeptOK(req[r])'
  BY DEF KeptOK, Referenced, Known, Holds
<1> QED
  BY <1>1, <1>2, <1>3, <1>4, Settle

LEMMA StreamAlone ==
    ASSUME ShapeOK, LiveInv, AloneInv, NEW r \in Requests, StreamNext(r)
    PROVE  AloneInv'
<1>1. ASSUME NEW c \in Conversations, NEW image \in BOOLEAN, SendBegin(r, c, image)
      PROVE  AloneInv'
  <2> DEFINE q == [Idle EXCEPT !.pc = IF image THEN "put" ELSE "insert", !.op = "send", !.conv = c]
  <2>1. /\ DOMAIN q = Fields /\ q.pc \in {"put", "insert"} /\ q.op = "send" /\ q.conv = c
        /\ q.ref = NoRef
    BY DEF Fields, Idle
  <2>2. /\ Begin(r, q) /\ Live(c)
        /\ UNCHANGED <<convs, msgs, files, objects, nextMsg, nextFile, faults, storeFaults>>
    BY <1>1 DEF SendBegin, rows, store
  <2> HIDE DEF q
  <2>3. Turn(r) /\ req'[r] = q /\ req[r].pc = "idle"
    BY <2>1, <2>2, BeginTurn
  <2>4. ConvOK(q) /\ RefsHeld(q) /\ ~Pending(q)
    BY <2>1, <2>2 DEF ConvOK, RefsHeld, FileOf, Pending
  <2> QED
    BY <2>2, <2>3, <2>4, CalmSettles DEF Pending, Holding
<1>2. CASE SendCommit(r)
  <2>1. /\ req[r].pc = "insert"
        /\ UNCHANGED <<convs, files, objects, nextFile, faults, storeFaults, overlapped>>
    BY <1>2 DEF SendCommit, store
  <2>2. CASE ForeignKey(req[r].conv)
    <3>1. InsertMessage(req[r].conv, "user", req[r].ref) /\ Goto(r, "stream")
      BY <1>2, <2>2 DEF SendCommit
    <3>2. /\ Turn(r) /\ req'[r].pc = "stream"
          /\ req'[r].op = req[r].op /\ req'[r].conv = req[r].conv
      BY <2>1, <3>1, GotoTurn DEF Fields
    <3>3. ConvOK(req[r]) => ConvOK(req'[r])
      BY <2>1, <3>2 DEF ConvOK
    <3>4. RefsHeld(req'[r]) /\ req'[r].pc \notin Holding /\ ~Pending(req'[r])
      BY <3>2 DEF RefsHeld, Holding, Pending
    <3> QED
      BY <2>1, <3>1, <3>2, <3>3, <3>4, InsertSettles DEF Holding
  <2>3. CASE ~ForeignKey(req[r].conv)
    <3>1. Finish(r) /\ UNCHANGED <<msgs, nextMsg>>
      BY <1>2, <2>3 DEF SendCommit
    <3>2. ~ConvOK(req[r])
      BY <2>1, <2>3 DEF ConvOK, ForeignKey, Live
    <3> QED
      BY <2>1, <3>1, <3>2, EndSettles
  <2> QED
    BY <2>2, <2>3
<1>3. ASSUME NEW image \in BOOLEAN, StreamEnds(r, image)
      PROVE  AloneInv'
  <2> DEFINE q == [req[r] EXCEPT !.pc = IF image THEN "put" ELSE "store", !.op = "reply",
                                 !.ref = NoRef]
  <2>1. /\ req[r].pc = "stream" /\ req' = [req EXCEPT ![r] = q]
        /\ UNCHANGED <<convs, msgs, files, objects, nextMsg, nextFile, faults, storeFaults, overlapped>>
    BY <1>3 DEF StreamEnds, rows, store
  <2>2. /\ DOMAIN q = Fields /\ q.pc \in {"put", "store"} /\ q.op = "reply" /\ q.ref = NoRef
        /\ q.conv = req[r].conv
    BY DEF ShapeOK, Fields
  <2> HIDE DEF q
  <2>3. Turn(r) /\ req'[r] = q
    BY <2>1, <2>2, UpdateTurn
  <2>4. RefsHeld(q) /\ ~Pending(q)
    BY <2>2 DEF RefsHeld, FileOf, Pending
  <2>5. ConvOK(req[r]) => ConvOK(q)
    BY <2>1, <2>2 DEF ConvOK
  <2> QED
    BY <2>1, <2>3, <2>4, <2>5, CalmSettles DEF Pending, Holding
<1>4. CASE StreamEmpty(r)
  <2>1. /\ req[r].pc = "stream" /\ Finish(r)
        /\ UNCHANGED <<convs, files, objects, nextMsg, nextFile, faults, storeFaults, overlapped>>
    BY <1>4 DEF StreamEmpty, store
  <2>2. /\ DOMAIN msgs' = DOMAIN msgs
        /\ \A m \in DOMAIN msgs : /\ msgs'[m].conv = msgs[m].conv /\ msgs'[m].ref = msgs[m].ref
                                  /\ DOMAIN msgs'[m] = DOMAIN msgs[m]
    BY <1>4 DEF StreamEmpty, AloneInv, RowInv
  <2>3. Turn(r) /\ req'[r] = Idle
    BY <2>1, FinishTurn
  <2> QED
    BY <2>1, <2>2, <2>3, IdleHolds, ReshowSettles DEF Pending, Holding
<1>5. CASE StoreReply(r)
  <2>1. /\ req[r].pc = "store" /\ Finish(r)
        /\ UNCHANGED <<convs, files, objects, nextFile, faults, storeFaults, overlapped>>
    BY <1>5 DEF StoreReply, store
  <2>2. CASE ForeignKey(req[r].conv)
    <3>1. InsertMessage(req[r].conv, "assistant", req[r].ref)
      BY <1>5, <2>2 DEF StoreReply
    <3>2. Turn(r) /\ req'[r] = Idle
      BY <2>1, FinishTurn
    <3>3. Idle.pc \notin Holding
      BY IdleFields DEF Holding
    <3> QED
      BY <2>1, <3>1, <3>2, <3>3, IdleHolds, InsertSettles DEF Holding
  <2>3. CASE ~ForeignKey(req[r].conv)
    <3>1. UNCHANGED <<msgs, nextMsg>>
      BY <1>5, <2>3 DEF StoreReply
    <3>2. ~ConvOK(req[r])
      BY <2>1, <2>3 DEF ConvOK, ForeignKey, Live
    <3> QED
      BY <2>1, <3>1, <3>2, EndSettles
  <2> QED
    BY <2>2, <2>3
<1> QED
  BY <1>1, <1>2, <1>3, <1>4, <1>5 DEF StreamNext

-----------------------------------------------------------------------------
(***************************************************************************)
(* Editing, deleting and regenerating.                                     *)
(***************************************************************************)
LEMMA TruncateSettles ==
    ASSUME ShapeOK, AloneInv, NEW r \in Requests, NEW left, TruncateTo(r, req[r].conv, left),
           UNCHANGED <<convs, objects, nextMsg, nextFile, faults, storeFaults, overlapped>>,
           req[r].pc \in {"rewrite", "cut", "branch"},
           DOMAIN left \subseteq DOMAIN msgs,
           \A m \in DOMAIN left : DOMAIN left[m] = {"conv", "role", "shown", "ref"},
           ConvOK(req[r]) /\ RefsOK(req[r]) =>
               /\ \A m \in DOMAIN left : FileOf(left[m].ref, left[m].conv)
               /\ \A m \in DOMAIN msgs :
                     msgs[m].conv # req[r].conv => m \in DOMAIN left /\ left[m] = msgs[m]
    PROVE  AloneInv'
<1> DEFINE c == req[r].conv
           stale == Garbage(c, left)
           q == [req[r] EXCEPT !.pc = "purge", !.stale = IF UseS3 THEN stale ELSE {}]
<1>0. RowInv
  BY DEF AloneInv
<1>1. /\ req' = [req EXCEPT ![r] = q] /\ msgs' = left
      /\ files' = Restrict(files, DOMAIN files \ stale)
  BY DEF TruncateTo
<1>2. /\ DOMAIN q = Fields /\ q.pc = "purge" /\ q.op = req[r].op /\ q.conv = c
      /\ UseS3 => q.stale = stale
  BY DEF ShapeOK, Fields
<1>3. /\ \A f \in stale : f \in DOMAIN files /\ files[f] = c
      /\ \A f \in DOMAIN files : files[f] = c /\ f \notin stale =>
            \E m \in DOMAIN left : left[m].conv = c /\ left[m].ref = f
      /\ \A m \in DOMAIN left : left[m].conv = c => left[m].ref \notin stale
  BY DEF Garbage, FilesOf
<1>4. /\ DOMAIN files' = DOMAIN files \ stale
      /\ \A f \in DOMAIN files' : files'[f] = files[f]
  BY <1>1 DEF Restrict
<1> HIDE DEF q, stale
<1>5. Turn(r) /\ req'[r] = q
  BY <1>1, <1>2, UpdateTurn
<1>6. RowInv'
  <2>1. /\ DOMAIN msgs' \subseteq Nat /\ \A m \in DOMAIN msgs' : m < nextMsg'
        /\ NoRef \notin DOMAIN files'
    BY <1>0, <1>1, <1>4 DEF RowInv
  <2> QED
    BY <1>0, <1>1, <1>2, <1>5, <2>1, RowInvTurn DEF RowInv, Pending
<1>7. ConvOK(req[r]) => ConvOK(req[r])'
  BY <1>2, <1>5 DEF ConvOK, Live
<1>8. ConvOK(req[r]) /\ RefsOK(req[r]) => RefsOK(req[r])'
  <2>1. RefsHeld(req[r])'
    BY <1>2, <1>5 DEF RefsHeld, Holding
  <2>2. ASSUME ConvOK(req[r]), RefsOK(req[r]), NEW m \in DOMAIN left, left[m].ref # NoRef
        PROVE  left[m].ref \in DOMAIN files' /\ files'[left[m].ref] = left[m].conv
    <3>1. left[m].ref \in DOMAIN files /\ files[left[m].ref] = left[m].conv
      BY <2>2 DEF FileOf
    <3>2. left[m].ref \notin stale
      BY <1>3, <3>1
    <3> QED
      BY <1>4, <3>1, <3>2
  <2> QED
    BY <1>1, <2>1, <2>2 DEF RefsOK, RefsResolve
<1>9. ConvOK(req[r]) /\ RefsOK(req[r]) /\ KeptOK(req[r]) => KeptOK(req[r])'
  <2>1. ASSUME ConvOK(req[r]), RefsOK(req[r]), Referenced(req[r]), NEW f \in DOMAIN files'
        PROVE  \E m \in DOMAIN left : left[m].ref = f
    <3>1. f \in DOMAIN files /\ f \notin stale /\ f # NoRef
      BY <1>0, <1>4 DEF RowInv
    <3>2. CASE files[f] = c
      BY <1>3, <3>1, <3>2
    <3>3. CASE files[f] # c
      <4>1. ~Holds(req[r], f)
        BY <2>1, <3>1, <3>3 DEF Holds, RefsOK, RefsHeld, FileOf
      <4>2. PICK m \in DOMAIN msgs : msgs[m].ref = f
        BY <2>1, <3>1, <4>1 DEF Referenced
      <4>3. msgs[m].conv = files[f]
        BY <2>1, <3>1, <4>2 DEF RefsOK, RefsResolve
      <4>4. m \in DOMAIN left /\ left[m] = msgs[m]
        BY <2>1, <3>3, <4>3
      <4> QED
        BY <4>2, <4>4
    <3> QED
      BY <3>2, <3>3
  <2>2. Known(req[r]) => Known(req[r])'
    BY <1>2, <1>4, <1>5 DEF Known, Pending
  <2> QED
    BY <1>1, <2>1, <2>2 DEF KeptOK, Referenced
<1> QED
  BY <1>5, <1>6, <1>7, <1>8, <1>9, Settle

\* Rows are cut off the end of the conversation.
LEMMA CutSettles ==
    ASSUME ShapeOK, AloneInv, NEW r \in Requests, NEW kept, kept \subseteq DOMAIN msgs,
           TruncateTo(r, req[r].conv, Restrict(msgs, kept)),
           \A m \in DOMAIN msgs : msgs[m].conv # req[r].conv => m \in kept,
           UNCHANGED <<convs, objects, nextMsg, nextFile, faults, storeFaults, overlapped>>,
           req[r].pc \in {"cut", "branch"}
    PROVE  AloneInv'
<1> DEFINE left == Restrict(msgs, kept)
<1>1. DOMAIN left = kept /\ \A m \in kept : left[m] = msgs[m]
  BY DEF Restrict
<1>2. TruncateTo(r, req[r].conv, left)
  OBVIOUS
<1> HIDE DEF left
<1>3. \A m \in DOMAIN left : DOMAIN left[m] = {"conv", "role", "shown", "ref"}
  BY <1>1 DEF AloneInv, RowInv
<1>4. RefsOK(req[r]) => \A m \in DOMAIN left : FileOf(left[m].ref, left[m].conv)
  BY <1>1 DEF RefsOK, RefsResolve, FileOf
<1> QED
  BY <1>1, <1>2, <1>3, <1>4, TruncateSettles

LEMMA EditCommitAlone ==
    ASSUME ShapeOK, AloneInv, NEW r \in Requests, EditCommit(r)
    PROVE  AloneInv'
<1> DEFINE c == req[r].conv
           kept == {m \in DOMAIN msgs : m \in Thread(c) => m =< req[r].msg}
           left == [m \in kept |-> IF m = req[r].msg THEN [msgs[m] EXCEPT !.ref = req[r].ref]
                                   ELSE msgs[m]]
<1>1. /\ req[r].pc = "rewrite" /\ TruncateTo(r, c, left)
      /\ UNCHANGED <<convs, objects, nextMsg, nextFile, faults, storeFaults, overlapped>>
  BY DEF EditCommit, store
<1>2. \A m \in DOMAIN msgs : DOMAIN msgs[m] = {"conv", "role", "shown", "ref"}
  BY DEF AloneInv, RowInv
<1>3. /\ kept \subseteq DOMAIN msgs /\ DOMAIN left = kept
      /\ \A m \in DOMAIN msgs : msgs[m].conv # c => m \in kept
  BY DEF Thread
<1>4. \A m \in kept : /\ DOMAIN left[m] = {"conv", "role", "shown", "ref"}
                      /\ left[m].conv = msgs[m].conv
                      /\ m # req[r].msg => left[m] = msgs[m]
                      /\ m = req[r].msg => left[m].ref = req[r].ref
  BY <1>2
<1> HIDE DEF kept, left
<1>5. ConvOK(req[r]) /\ RefsOK(req[r]) =>
         /\ req[r].msg \in DOMAIN msgs /\ msgs[req[r].msg].conv = c
         /\ FileOf(req[r].ref, c)
  BY <1>1 DEF ConvOK, RefsOK, RefsHeld, Holding
<1>6. ConvOK(req[r]) /\ RefsOK(req[r]) =>
         \A m \in DOMAIN left : FileOf(left[m].ref, left[m].conv)
  BY <1>3, <1>4, <1>5 DEF RefsOK, RefsResolve, FileOf
<1>7. ConvOK(req[r]) /\ RefsOK(req[r]) =>
         \A m \in DOMAIN msgs : msgs[m].conv # c => m \in DOMAIN left /\ left[m] = msgs[m]
  BY <1>3, <1>4, <1>5
<1>8. /\ DOMAIN left \subseteq DOMAIN msgs
      /\ \A m \in DOMAIN left : DOMAIN left[m] = {"conv", "role", "shown", "ref"}
  BY <1>3, <1>4
<1> QED
  BY <1>1, <1>6, <1>7, <1>8, TruncateSettles

LEMMA RewriteAlone ==
    ASSUME ShapeOK, LiveInv, AloneInv, NEW r \in Requests, RewriteNext(r)
    PROVE  AloneInv'
<1>0. \A m \in DOMAIN msgs : Live(msgs[m].conv)
  BY DEF LiveInv, OwnedRows, NothingOfDeleted, Live
<1>1. ASSUME NEW m \in DOMAIN msgs, NEW content \in {"image", "same", "text"},
             EditBegin(r, m, content)
      PROVE  AloneInv'
  <2> DEFINE q == [Idle EXCEPT !.pc = IF content = "image" THEN "put" ELSE "rewrite",
                               !.op = "edit", !.conv = msgs[m].conv, !.msg = m,
                               !.ref = IF content = "same" THEN msgs[m].ref ELSE NoRef]
  <2>1. /\ DOMAIN q = Fields /\ q.pc \in {"put", "rewrite"} /\ q.op = "edit"
        /\ q.conv = msgs[m].conv /\ q.msg = m /\ q.ref \in {msgs[m].ref, NoRef}
    BY DEF Fields, Idle
  <2>2. /\ Begin(r, q)
        /\ UNCHANGED <<convs, msgs, files, objects, nextMsg, nextFile, faults, storeFaults>>
    BY <1>1 DEF EditBegin, rows, store
  <2> HIDE DEF q
  <2>3. Turn(r) /\ req'[r] = q /\ req[r].pc = "idle"
    BY <2>1, <2>2, BeginTurn
  <2>4. ConvOK(q) /\ ~Pending(q)
    BY <1>0, <2>1 DEF ConvOK, Pending
  <2>5. RefsOK(req[r]) => RefsHeld(q)
    BY <2>1 DEF RefsOK, RefsResolve, RefsHeld, FileOf
  <2> QED
    BY <2>2, <2>3, <2>4, <2>5, CalmSettles DEF Pending, Holding
<1>2. ASSUME NEW m \in DOMAIN msgs, DeleteBegin(r, m)
      PROVE  AloneInv'
  <2> DEFINE q == [Idle EXCEPT !.pc = "cut", !.op = "delete", !.conv = msgs[m].conv, !.msg = m]
  <2>1. DOMAIN q = Fields /\ q.pc = "cut" /\ q.op = "delete" /\ q.conv = msgs[m].conv
    BY DEF Fields, Idle
  <2>2. /\ Begin(r, q)
        /\ UNCHANGED <<convs, msgs, files, objects, nextMsg, nextFile, faults, storeFaults>>
    BY <1>2 DEF DeleteBegin, rows, store
  <2> HIDE DEF q
  <2>3. Turn(r) /\ req'[r] = q /\ req[r].pc = "idle"
    BY <2>1, <2>2, BeginTurn
  <2>4. ConvOK(q) /\ ~Pending(q) /\ RefsHeld(q)
    BY <1>0, <2>1 DEF ConvOK, Pending, RefsHeld, Holding
  <2> QED
    BY <2>2, <2>3, <2>4, CalmSettles DEF Pending, Holding
<1>3. ASSUME NEW m \in DOMAIN msgs, NEW pc \in {"branch", "archive"}, RegenerateBegin(r, m, pc)
      PROVE  AloneInv'
  <2> DEFINE q == [Idle EXCEPT !.pc = pc, !.op = "regenerate", !.conv = msgs[m].conv, !.msg = m]
  <2>1. DOMAIN q = Fields /\ q.pc = pc /\ q.op = "regenerate" /\ q.conv = msgs[m].conv
    BY DEF Fields, Idle
  <2>2. /\ Begin(r, q)
        /\ UNCHANGED <<convs, msgs, files, objects, nextMsg, nextFile, faults, storeFaults>>
    BY <1>3 DEF RegenerateBegin, rows, store
  <2> HIDE DEF q
  <2>3. Turn(r) /\ req'[r] = q /\ req[r].pc = "idle"
    BY <2>1, <2>2, BeginTurn
  <2>4. ConvOK(q) /\ ~Pending(q) /\ RefsHeld(q)
    BY <1>0, <1>3, <2>1 DEF ConvOK, Pending, RefsHeld, Holding
  <2> QED
    BY <2>2, <2>3, <2>4, CalmSettles DEF Pending, Holding
<1>4. CASE EditCommit(r)
  BY <1>4, EditCommitAlone
<1>5. CASE DeleteCommit(r)
  <2> DEFINE kept == {m \in DOMAIN msgs : m \in Thread(req[r].conv) => m < req[r].msg}
  <2>1. /\ req[r].pc = "cut" /\ TruncateTo(r, req[r].conv, Restrict(msgs, kept))
        /\ UNCHANGED <<convs, objects, nextMsg, nextFile, faults, storeFaults, overlapped>>
    BY <1>5 DEF DeleteCommit, store
  <2>2. kept \subseteq DOMAIN msgs /\ \A m \in DOMAIN msgs : msgs[m].conv # req[r].conv => m \in kept
    BY DEF Thread
  <2> HIDE DEF kept
  <2> QED
    BY <2>1, <2>2, CutSettles
<1>6. CASE Branch(r)
  <2> DEFINE kept == {m \in DOMAIN msgs : m \in Thread(req[r].conv) => m =< req[r].msg}
  <2>1. /\ req[r].pc = "branch" /\ TruncateTo(r, req[r].conv, Restrict(msgs, kept))
        /\ UNCHANGED <<convs, objects, nextMsg, nextFile, faults, storeFaults, overlapped>>
    BY <1>6 DEF Branch, store
  <2>2. kept \subseteq DOMAIN msgs /\ \A m \in DOMAIN msgs : msgs[m].conv # req[r].conv => m \in kept
    BY DEF Thread
  <2> HIDE DEF kept
  <2> QED
    BY <2>1, <2>2, CutSettles
<1>7. CASE Archive(r)
  <2>1. /\ req[r].pc = "archive" /\ Goto(r, "stream")
        /\ UNCHANGED <<convs, files, objects, nextMsg, nextFile, faults, storeFaults, overlapped>>
    BY <1>7 DEF Archive, store
  <2>2. /\ DOMAIN msgs' = DOMAIN msgs
        /\ \A m \in DOMAIN msgs : /\ msgs'[m].conv = msgs[m].conv /\ msgs'[m].ref = msgs[m].ref
                                  /\ DOMAIN msgs'[m] = DOMAIN msgs[m]
    BY <1>7 DEF Archive, AloneInv, RowInv
  <2>3. /\ Turn(r) /\ req'[r].pc = "stream"
        /\ req'[r].op = req[r].op /\ req'[r].conv = req[r].conv
    BY <2>1, GotoTurn DEF Fields
  <2>4. ConvOK(req[r]) => ConvOK(req'[r])
    BY <2>1, <2>3 DEF ConvOK
  <2>5. RefsHeld(req'[r]) /\ ~Pending(req'[r])
    BY <2>3 DEF RefsHeld, Holding, Pending
  <2> QED
    BY <2>1, <2>2, <2>3, <2>4, <2>5, ReshowSettles DEF Pending, Holding
<1> QED
  BY <1>1, <1>2, <1>3, <1>4, <1>5, <1>6, <1>7 DEF RewriteNext

-----------------------------------------------------------------------------
(***************************************************************************)
(* Deleting, cloning and importing conversations.                          *)
(***************************************************************************)
LEMMA DropAlone ==
    ASSUME ShapeOK, AloneInv, NEW r \in Requests, Drop(r)
    PROVE  AloneInv'
<1> DEFINE gone == req[r].drops
<1>0. RowInv
  BY DEF AloneInv
<1>1. /\ req[r].pc = "drop" /\ Goto(r, "purge")
      /\ UNCHANGED <<objects, nextMsg, nextFile, faults, storeFaults, overlapped>>
  BY DEF Drop, store
<1>2. /\ Turn(r) /\ req'[r].pc = "purge" /\ req'[r].op = req[r].op
      /\ req'[r].stale = req[r].stale
  BY <1>1, GotoTurn DEF Fields
<1>3. /\ DOMAIN files' = DOMAIN files \ FilesOf(gone)
      /\ \A f \in DOMAIN files' : files'[f] = files[f] /\ files[f] \notin gone
  BY DEF Drop, Restrict, FilesOf
<1>4. /\ DOMAIN msgs' = {m \in DOMAIN msgs : msgs[m].conv \notin gone}
      /\ \A m \in DOMAIN msgs' : msgs'[m] = msgs[m]
  BY DEF Drop, Restrict
<1>5. \A f \in DOMAIN files : files[f] \notin gone => f \in DOMAIN files'
  BY <1>3 DEF FilesOf
<1> HIDE DEF gone
<1>6. RowInv'
  BY <1>0, <1>1, <1>2, <1>3, <1>4, RowInvTurn DEF RowInv, Pending
<1>7. ConvOK(req[r]) => ConvOK(req[r])'
  BY <1>1, <1>2 DEF ConvOK
<1>8. RefsOK(req[r]) => RefsOK(req[r])'
  <2>1. RefsHeld(req[r])'
    BY <1>2 DEF RefsHeld, Holding
  <2>2. RefsResolve => RefsResolve'
    BY <1>3, <1>4, <1>5 DEF RefsResolve
  <2> QED
    BY <2>1, <2>2 DEF RefsOK
<1>9. ConvOK(req[r]) /\ RefsOK(req[r]) /\ KeptOK(req[r]) => KeptOK(req[r])'
  <2>1. ASSUME RefsOK(req[r]), Referenced(req[r]), NEW f \in DOMAIN files'
        PROVE  \E m \in DOMAIN msgs' : msgs'[m].ref = f
    <3>1. f \in DOMAIN files /\ f # NoRef /\ files[f] \notin gone /\ ~Holds(req[r], f)
      BY <1>0, <1>1, <1>3 DEF RowInv, Holds, Holding
    <3>2. PICK m \in DOMAIN msgs : msgs[m].ref = f
      BY <2>1, <3>1 DEF Referenced
    <3>3. msgs[m].conv = files[f]
      BY <2>1, <3>1, <3>2 DEF RefsOK, RefsResolve
    <3> QED
      BY <1>4, <3>1, <3>2, <3>3
  <2>2. ConvOK(req[r]) => (UseS3 => FilesOf(gone) \subseteq req[r].stale)
    BY <1>1 DEF ConvOK, gone
  <2>3. ConvOK(req[r]) /\ Known(req[r]) => Known(req[r])'
    BY <1>1, <1>2, <1>3, <2>2 DEF Known, Pending
  <2> QED
    BY <2>1, <2>3 DEF KeptOK, Referenced
<1> QED
  BY <1>2, <1>6, <1>7, <1>8, <1>9, Settle

\* A clone takes the rows it has still to copy as they were when it began.
LEMMA CloneBeginAlone ==
    ASSUME ShapeOK, LiveInv, AloneInv, NEW r \in Requests,
           NEW c \in Conversations, NEW d \in Conversations, CloneBegin(r, c, d)
    PROVE  AloneInv'
<1> DEFINE todo == Restrict(msgs, {m \in Thread(c) : msgs[m].shown})
           q == [Idle EXCEPT !.pc = "load", !.op = "clone", !.conv = d, !.from = c, !.todo = todo]
<1>1. /\ DOMAIN q = Fields /\ q.pc = "load" /\ q.op = "clone" /\ q.conv = d /\ q.from = c
      /\ q.todo = todo
  BY DEF Fields, Idle
<1>2. /\ Begin(r, q) /\ convs' = [convs EXCEPT ![d] = "live"]
      /\ UNCHANGED <<msgs, files, objects, nextMsg, nextFile, faults, storeFaults>>
  BY DEF CloneBegin, store
<1>3. /\ DOMAIN todo \subseteq DOMAIN msgs
      /\ \A m \in DOMAIN todo : todo[m] = msgs[m] /\ msgs[m].conv = c
  BY DEF Restrict, Thread
<1> HIDE DEF q, todo
<1>4. Turn(r) /\ req'[r] = q /\ req[r].pc = "idle"
  BY <1>1, <1>2, BeginTurn
<1>5. convs'[d] = "live"
  BY <1>2 DEF LiveInv, OwnedRows
<1>6. ConvOK(req[r])'
  BY <1>1, <1>4, <1>5 DEF ConvOK, Live
<1>7. RefsOK(req[r]) => RefsHeld(q)
  <2>1. DOMAIN todo \subseteq Nat
    BY <1>3 DEF AloneInv, RowInv
  <2>2. RefsResolve => \A m \in DOMAIN todo : FileOf(todo[m].ref, c)
    BY <1>3 DEF RefsResolve, FileOf
  <2> QED
    BY <1>1, <2>1, <2>2 DEF RefsOK, RefsHeld, Holding
<1> QED
  BY <1>1, <1>2, <1>4, <1>6, <1>7, MoveSettles DEF Pending, Holding

\* What is loaded to be copied is found, unless there is nothing to copy.
LEMMA CloneLoadAlone ==
    ASSUME FileInv, AloneInv, NEW r \in Requests, NEW fails \in BOOLEAN, CloneLoad(r, fails)
    PROVE  AloneInv'
<1> DEFINE f == req[r].todo[CopyOf(r)].ref
           found == f \in FilesOf({req[r].from}) /\ (UseS3 => f \in objects)
           q == [req[r] EXCEPT !.pc = IF found /\ ~fails THEN "put" ELSE "copy", !.ref = f]
<1>0. ShapeOK /\ RowHasObject
  BY DEF FileInv
<1>1. /\ req[r].pc = "load" /\ DOMAIN req[r].todo # {} /\ req' = [req EXCEPT ![r] = q]
      /\ storeFaults' = IF fails THEN storeFaults + 1 ELSE storeFaults
      /\ UNCHANGED <<convs, msgs, files, objects, nextMsg, nextFile, faults, overlapped>>
  BY DEF CloneLoad, rows
<1>2. /\ DOMAIN q = Fields /\ q.op = req[r].op /\ q.conv = req[r].conv /\ q.ref = f
      /\ q.from = req[r].from /\ q.todo = req[r].todo
      /\ q.pc = (IF found /\ ~fails THEN "put" ELSE "copy")
  BY <1>0 DEF ShapeOK, Fields
<1>3. FileOf(f, req[r].from) => found \/ f = NoRef
  BY <1>0 DEF FileOf, FilesOf, RowHasObject
<1> HIDE DEF q, found
<1>4. Turn(r) /\ req'[r] = q
  BY <1>0, <1>1, <1>2, UpdateTurn
<1>5. ConvOK(req[r]) => ConvOK(q)
  BY <1>1, <1>2 DEF ConvOK
<1>6. Undisturbed' => ~fails
  BY <1>1 DEF Undisturbed, AloneInv, RowInv
<1>7. ASSUME ~fails, ConvOK(req[r]), RefsOK(req[r])
      PROVE  RefsHeld(q)
  <2>1. /\ DOMAIN req[r].todo \subseteq Nat
        /\ \A m \in DOMAIN req[r].todo : FileOf(req[r].todo[m].ref, req[r].from)
    BY <1>1, <1>7 DEF ConvOK, RefsOK, RefsHeld
  <2>2. CopyOf(r) \in DOMAIN req[r].todo
    BY <1>1, <2>1, MinOfNats DEF CopyOf
  <2>3. found \/ f = NoRef
    BY <1>3, <2>1, <2>2
  <2>4. q.pc = "copy" => FileOf(q.ref, q.conv)
    BY <1>2, <1>7, <2>3 DEF FileOf
  <2>5. q.op = "clone" /\ q.pc \in {"put", "copy"}
    BY <1>1, <1>2, <1>7 DEF ConvOK
  <2> HIDE DEF f
  <2> QED
    BY <1>1, <1>2, <2>1, <2>4, <2>5 DEF RefsHeld, Holding
<1>8. ~Pending(q)
  BY <1>2 DEF Pending
<1> QED
  BY <1>1, <1>4, <1>5, <1>6, <1>7, <1>8, CalmSettles DEF Pending, Holding

LEMMA CloneCopyAlone ==
    ASSUME ShapeOK, AloneInv, NEW r \in Requests, CloneCopy(r)
    PROVE  AloneInv'
<1>1. /\ req[r].pc = "copy"
      /\ UNCHANGED <<convs, files, objects, nextFile, faults, storeFaults, overlapped>>
  BY DEF CloneCopy, store
<1>2. CASE ForeignKey(req[r].conv)
  <2> DEFINE left == Restrict(req[r].todo, DOMAIN req[r].todo \ {CopyOf(r)})
             q == [req[r] EXCEPT !.pc = "load", !.todo = left]
  <2>1. /\ req' = [req EXCEPT ![r] = q]
        /\ InsertMessage(req[r].conv, req[r].todo[CopyOf(r)].role, req[r].ref)
    BY <1>2 DEF CloneCopy
  <2>2. /\ DOMAIN q = Fields /\ q.op = req[r].op /\ q.conv = req[r].conv /\ q.pc = "load"
        /\ q.from = req[r].from /\ q.todo = left
    BY DEF ShapeOK, Fields
  <2>3. DOMAIN left \subseteq DOMAIN req[r].todo /\ \A m \in DOMAIN left : left[m] = req[r].todo[m]
    BY DEF Restrict
  <2> HIDE DEF q, left
  <2>4. Turn(r) /\ req'[r] = q
    BY <1>1, <2>1, <2>2, UpdateTurn
  <2>5. ConvOK(req[r]) => ConvOK(q)
    BY <1>1, <2>2 DEF ConvOK
  <2>6. RefsHeld(req[r]) => RefsHeld(q)
    BY <1>1, <2>2, <2>3 DEF RefsHeld, Holding
  <2>7. q.pc \notin Holding /\ ~Pending(q) /\ req[r].pc \in Holding
    BY <1>1, <2>2 DEF Holding, Pending
  <2> QED
    BY <1>1, <2>1, <2>4, <2>5, <2>6, <2>7, InsertSettles
<1>3. CASE ~ForeignKey(req[r].conv)
  <2>1. Finish(r) /\ UNCHANGED <<msgs, nextMsg>>
    BY <1>3 DEF CloneCopy
  <2>2. ~ConvOK(req[r])
    BY <1>1, <1>3 DEF ConvOK, ForeignKey, Live
  <2> QED
    BY <1>1, <2>1, <2>2, EndSettles
<1> QED
  BY <1>2, <1>3

\* The uuid an import has drawn is nobody else's until it commits.
LEMMA ImportCommitAlone ==
    ASSUME FileInv, LiveInv, AloneInv, NEW r \in Requests, ImportCommit(r)
    PROVE  AloneInv'
<1>0. ShapeOK /\ RowInv
  BY DEF FileInv, AloneInv
<1>1. /\ req[r].pc = "import" /\ Finish(r)
      /\ UNCHANGED <<objects, nextFile, faults, storeFaults, overlapped>>
  BY DEF ImportCommit, store
<1>2. CASE convs[req[r].conv] = "drawn"
  <2> DEFINE c == req[r].conv
             g == req[r].file
  <2>1. /\ files' = [f \in DOMAIN files \cup {g} |-> IF f = g THEN c ELSE files[f]]
        /\ InsertMessage(c, "user", g)
    BY <1>2 DEF ImportCommit
  <2>2. g \notin DOMAIN files /\ g # NoRef /\ Pending(req[r])
    BY <1>0, <1>1 DEF FileInv, KnowsFiles, RowInv, Pending
  <2>3. Turn(r) /\ req'[r] = Idle /\ Idle.pc = "idle"
    BY <1>0, <1>1, FinishTurn, IdleFields
  <2> HIDE DEF c, g
  <2>4. /\ DOMAIN files' = DOMAIN files \cup {g} /\ files'[g] = c
        /\ \A f \in DOMAIN files : files'[f] = files[f]
    BY <2>1, <2>2
  <2>5. /\ nextMsg' \in Nat /\ DOMAIN msgs' = DOMAIN msgs \cup {nextMsg}
        /\ msgs'[nextMsg] = [conv |-> c, role |-> "user", shown |-> TRUE, ref |-> g]
        /\ \A m \in DOMAIN msgs : msgs'[m] = msgs[m]
    BY <1>0, <2>1, InsertRow
  <2>6. msgs'[nextMsg].conv = c /\ msgs'[nextMsg].ref = g
    BY <2>5
  <2>7. RowInv'
    <3>1. NoRef \notin DOMAIN files'
      BY <1>0, <2>2, <2>4 DEF RowInv
    <3>2. ~Pending(req'[r])
      BY <2>3 DEF Pending
    <3> QED
      BY <1>0, <1>1, <2>1, <2>3, <3>1, <3>2, InsertRow, RowInvTurn DEF RowInv
  <2>8. ConvOK(req[r])'
    BY <2>3 DEF ConvOK
  <2>9. RefsOK(req[r]) => RefsOK(req[r])'
    <3>1. RefsHeld(req[r])'
      BY <2>3 DEF RefsHeld, Holding
    <3>2. RefsResolve => RefsResolve'
      BY <2>4, <2>5, <2>6 DEF RefsResolve
    <3> QED
      BY <3>1, <3>2 DEF RefsOK
  <2>10. KeptOK(req[r]) => KeptOK(req[r])'
    <3>1. Referenced(req[r]) => Referenced(req[r])'
      BY <1>1, <2>4, <2>5, <2>6 DEF Referenced, Holds, Holding
    <3>2. Known(req[r]) => Known(req[r])'
      BY <1>1, <2>4 DEF Known, g
    <3> QED
      BY <3>1, <3>2 DEF KeptOK
  <2> QED
    BY <2>3, <2>7, <2>8, <2>9, <2>10, Settle
<1>3. CASE convs[req[r].conv] # "drawn"
  <2>1. UNCHANGED <<convs, msgs, files, nextMsg>>
    BY <1>3 DEF ImportCommit, rows
  <2>2. ~ConvOK(req[r])
    BY <1>1, <1>3 DEF ConvOK
  <2> QED
    BY <1>0, <1>1, <2>1, <2>2, EndSettles
<1> QED
  BY <1>2, <1>3

LEMMA ConversationAlone ==
    ASSUME FileInv, LiveInv, AloneInv, NEW r \in Requests, ConversationNext(r)
    PROVE  AloneInv'
<1>0. ShapeOK
  BY DEF FileInv
<1>1. ASSUME NEW cs, DropBegin(r, cs)
      PROVE  AloneInv'
  <2> DEFINE q == [Idle EXCEPT !.pc = "drop", !.op = "drop", !.drops = cs,
                               !.stale = IF UseS3 THEN FilesOf(cs) ELSE {}]
  <2>1. /\ DOMAIN q = Fields /\ q.pc = "drop" /\ q.op = "drop" /\ q.drops = cs
        /\ UseS3 => q.stale = FilesOf(cs)
    BY DEF Fields, Idle
  <2>2. /\ Begin(r, q)
        /\ UNCHANGED <<convs, msgs, files, objects, nextMsg, nextFile, faults, storeFaults>>
    BY <1>1 DEF DropBegin, rows, store
  <2> HIDE DEF q
  <2>3. Turn(r) /\ req'[r] = q /\ req[r].pc = "idle"
    BY <1>0, <2>1, <2>2, BeginTurn
  <2>4. ConvOK(q) /\ ~Pending(q) /\ RefsHeld(q)
    BY <2>1 DEF ConvOK, Pending, RefsHeld, Holding
  <2> QED
    BY <2>2, <2>3, <2>4, CalmSettles DEF Pending, Holding
<1>2. CASE Drop(r)
  BY <1>0, <1>2, DropAlone
<1>3. ASSUME NEW c \in Conversations, NEW d \in Conversations, CloneBegin(r, c, d)
      PROVE  AloneInv'
  BY <1>0, <1>3, CloneBeginAlone
<1>4. ASSUME NEW fails \in BOOLEAN, CloneLoad(r, fails)
      PROVE  AloneInv'
  BY <1>4, CloneLoadAlone
<1>5. CASE CloneCopy(r)
  BY <1>0, <1>5, CloneCopyAlone
<1>6. CASE CloneDone(r)
  <2>1. /\ req[r].pc = "load" /\ Finish(r)
        /\ UNCHANGED <<convs, msgs, files, objects, nextMsg, nextFile, faults, storeFaults, overlapped>>
    BY <1>6 DEF CloneDone, rows, store
  <2> QED
    BY <1>0, <2>1, EndSettles DEF Pending, Holding
<1>7. ASSUME NEW d \in Conversations, ImportBegin(r, d)
      PROVE  AloneInv'
  <2> DEFINE q == [Idle EXCEPT !.pc = "put", !.op = "import", !.conv = d]
  <2>1. DOMAIN q = Fields /\ q.pc = "put" /\ q.op = "import" /\ q.conv = d
    BY DEF Fields, Idle
  <2>2. /\ Begin(r, q) /\ convs' = [convs EXCEPT ![d] = "drawn"]
        /\ UNCHANGED <<msgs, files, objects, nextMsg, nextFile, faults, storeFaults>>
    BY <1>7 DEF ImportBegin, store
  <2> HIDE DEF q
  <2>3. Turn(r) /\ req'[r] = q /\ req[r].pc = "idle"
    BY <1>0, <2>1, <2>2, BeginTurn
  <2>4. convs'[d] = "drawn"
    BY <2>2 DEF LiveInv, OwnedRows
  <2>5. ConvOK(req[r])'
    BY <2>1, <2>3, <2>4 DEF ConvOK
  <2>6. ~Pending(q) /\ RefsHeld(q)
    BY <2>1 DEF Pending, RefsHeld, Holding
  <2> QED
    BY <2>2, <2>3, <2>5, <2>6, MoveSettles DEF Pending, Holding
<1>8. CASE ImportCommit(r)
  BY <1>8, ImportCommitAlone
<1> QED
  BY <1>1, <1>2, <1>3, <1>4, <1>5, <1>6, <1>7, <1>8 DEF ConversationNext

-----------------------------------------------------------------------------
LEMMA CrashAlone ==
    ASSUME AloneInv, Crash
    PROVE  AloneInv'
<1>0. RowInv
  BY DEF AloneInv
<1>1. /\ UNCHANGED <<convs, msgs, files, objects, nextMsg, nextFile, storeFaults, overlapped>>
      /\ faults' = faults + 1 /\ \A r \in Requests : req'[r] = Idle
  BY DEF Crash, rows, store
<1>2. faults' \in Nat /\ faults' # 0
  BY <1>0, <1>1 DEF RowInv
<1>3. RowInv'
  BY <1>0, <1>1, <1>2, IdleHolds DEF RowInv, Pending
<1>4. \A r \in Requests : Others(r)'
  BY <1>1, IdleFields DEF Others
<1>5. ASSUME NEW r \in Requests
      PROVE  Local(req[r])'
  <2>1. ConvOK(req[r])' /\ RefsHeld(req[r])'
    BY <1>1, IdleFields DEF ConvOK, RefsHeld, Holding
  <2>2. Undisturbed' => RefsResolve
    <3>1. CASE ~overlapped
      BY <1>1, <3>1 DEF AloneInv, Local, Undisturbed, RefsOK
    <3>2. CASE overlapped
      BY <1>1, <3>2 DEF Undisturbed
    <3> QED
      BY <1>0, <3>1, <3>2 DEF RowInv
  <2>3. Undisturbed' => RefsResolve'
    BY <1>1, <2>2 DEF RefsResolve
  <2>4. ~Clean'
    BY <1>2 DEF Clean
  <2> QED
    BY <2>1, <2>3, <2>4 DEF Local, RefsOK
<1> QED
  BY <1>1, <1>3, <1>4, <1>5 DEF AloneInv

\* Steps that are no request's.
LEMMA CreateAlone ==
    ASSUME LiveInv, AloneInv, UNCHANGED vars \/ \E c \in Conversations : CreateConversation(c)
    PROVE  AloneInv'
<1>1. /\ UNCHANGED <<msgs, files, objects, nextMsg, nextFile, req, faults, storeFaults, overlapped>>
      /\ \A d \in Conversations : convs[d] \in {"live", "drawn"} => convs'[d] = convs[d]
  <2>1. CASE UNCHANGED vars
    BY <2>1 DEF vars
  <2>2. CASE \E c \in Conversations : CreateConversation(c)
    BY <2>2 DEF CreateConversation, LiveInv, OwnedRows, store
  <2> QED
    BY <2>1, <2>2
<1>2. RowInv'
  BY <1>1 DEF AloneInv, RowInv, Pending
<1>3. ASSUME NEW r \in Requests, ConvOK(req[r])
      PROVE  ConvOK(req[r])'
  <2>1. req[r].pc \notin {"idle", "drop", "purge"} => req[r].conv \in Conversations
    BY DEF LiveInv, AllBound, Bound
  <2>2. req[r].op \in {"edit", "regenerate"} => req[r].conv \in Conversations
    BY DEF LiveInv, AllBound, Bound
  <2> QED
    BY <1>1, <1>3, <2>1, <2>2 DEF ConvOK, Live, FilesOf
<1>4. ASSUME NEW r \in Requests, Local(req[r])
      PROVE  Local(req[r])'
  <2>1. RefsOK(req[r]) => RefsOK(req[r])'
    BY <1>1 DEF RefsOK, RefsResolve, RefsHeld, FileOf
  <2>2. KeptOK(req[r]) => KeptOK(req[r])'
    BY <1>1 DEF KeptOK, Referenced, Known, Holds
  <2> QED
    BY <1>1, <1>3, <1>4, <2>1, <2>2 DEF Local, Undisturbed, Clean
<1>5. \A r \in Requests : Others(r)' <=> Others(r)
  BY <1>1 DEF Others
<1> QED
  BY <1>1, <1>2, <1>4, <1>5 DEF AloneInv

LEMMA AloneInvStep ==
    ASSUME FileInv, LiveInv, AloneInv, [Next]_vars
    PROVE  AloneInv'
<1>0. ShapeOK
  BY DEF FileInv
<1>1. CASE UNCHANGED vars \/ \E c \in Conversations : CreateConversation(c)
  BY <1>1, CreateAlone
<1>2. ASSUME NEW r \in Requests, StoreNext(r)
      PROVE  AloneInv'
  BY <1>0, <1>2, UploadAlone, UploadFailsAlone, IndexAlone, AfterPurgeAlone, PurgeAlone
  DEF StoreNext
<1>3. ASSUME NEW r \in Requests, StreamNext(r) \/ RewriteNext(r) \/ ConversationNext(r)
      PROVE  AloneInv'
  BY <1>0, <1>3, StreamAlone, RewriteAlone, ConversationAlone
<1>4. ASSUME NEW r \in Requests, TransactionFails(r)
      PROVE  AloneInv'
  <2>1. /\ Finish(r) /\ req[r].pc # "idle" /\ faults' = faults + 1
        /\ UNCHANGED <<convs, msgs, files, objects, nextMsg, nextFile, storeFaults, overlapped>>
    BY <1>4 DEF TransactionFails, rows, store
  <2>2. ~Clean'
    BY <2>1 DEF Clean, AloneInv, RowInv
  <2> QED
    BY <1>0, <2>1, <2>2, EndSettles
<1>5. CASE Crash
  BY <1>5, CrashAlone
<1> QED
  BY <1>1, <1>2, <1>3, <1>4, <1>5 DEF Next

LEMMA AloneInvInit ==
    ASSUME Init
    PROVE  AloneInv
<1>1. /\ DOMAIN files = {} /\ DOMAIN msgs = {} /\ objects = {} /\ nextMsg = 1 /\ nextFile = 1
      /\ faults = 0 /\ storeFaults = 0 /\ overlapped = FALSE
      /\ \A r \in Requests : req[r] = Idle
  BY DEF Init, Restrict
<1>2. RowInv
  <2>1. overlapped \in BOOLEAN /\ faults \in Nat /\ storeFaults \in Nat
    BY <1>1
  <2>2. nextMsg \in Nat /\ nextFile \in Nat \ {NoRef}
    BY <1>1 DEF NoRef
  <2>3. \A r \in Requests : ~Pending(req[r])
    BY <1>1, IdleHolds
  <2> QED
    BY <1>1, <2>1, <2>2, <2>3 DEF RowInv
<1>3. \A r \in Requests : Others(r)
  BY <1>1, IdleFields DEF Others
<1>4. ASSUME NEW r \in Requests
      PROVE  Local(req[r])
  <2>1. ConvOK(req[r]) /\ RefsHeld(req[r])
    BY <1>1, IdleHolds
  <2>2. RefsResolve /\ Referenced(req[r]) /\ Known(req[r])
    BY <1>1 DEF RefsResolve, Referenced, Known
  <2> QED
    BY <2>1, <2>2 DEF Local, RefsOK, KeptOK
<1> QED
  BY <1>1, <1>2, <1>3, <1>4 DEF AloneInv

LEMMA AloneResolves ==
    ASSUME AloneInv
    PROVE  RefsResolveInOneTab
<1> SUFFICES ASSUME ~overlapped, storeFaults = 0
             PROVE  RefsResolve
  BY DEF RefsResolveInOneTab
<1>1. CASE Requests = {}
  BY <1>1 DEF AloneInv, RefsResolve
<1>2. CASE Requests # {}
  <2>1. PICK r \in Requests : Others(r)
    BY <1>2 DEF AloneInv
  <2> QED
    BY <2>1 DEF AloneInv, Local, Undisturbed, RefsOK
<1> QED
  BY <1>1, <1>2

LEMMA AloneStrandsNothing ==
    ASSUME FileInv, AloneInv
    PROVE  NothingStrandedInOneTab
<1> SUFFICES ASSUME ~overlapped, faults = 0, storeFaults = 0,
                    \A r \in Requests : req[r].pc = "idle"
             PROVE  /\ DOMAIN files = {msgs[m].ref : m \in DOMAIN msgs} \ {NoRef}
                    /\ UseS3 => objects = DOMAIN files
  BY DEF NothingStrandedInOneTab, NothingStranded
<1>1. CASE Requests = {}
  BY <1>1 DEF AloneInv
<1>2. ASSUME NEW r \in Requests
      PROVE  /\ DOMAIN files = {msgs[m].ref : m \in DOMAIN msgs} \ {NoRef}
             /\ UseS3 => objects = DOMAIN files
  <2>1. RefsResolve /\ Referenced(req[r]) /\ Known(req[r])
    <3>1. Others(r)
      BY DEF Others
    <3> QED
      BY <3>1 DEF AloneInv, Local, Undisturbed, Clean, RefsOK, KeptOK
  <2>2. NoRef \notin DOMAIN files /\ RowHasObject
    BY DEF AloneInv, RowInv, FileInv
  <2>3. \A f \in DOMAIN files : \E m \in DOMAIN msgs : msgs[m].ref = f
    BY <1>2, <2>1 DEF Referenced, Holds, Holding
  <2>4. UseS3 => objects = DOMAIN files
    BY <1>2, <2>1, <2>2 DEF Known, RowHasObject, Pending
  <2> QED
    BY <2>1, <2>2, <2>3, <2>4 DEF RefsResolve
<1> QED
  BY <1>1, <1>2

\* For any number of conversations and whatever sequence of sends, edits, deletions,
\* regenerations, clones and imports, rolled back or cut short by a restart anywhere:
\* as long as requests follow one another and the object store answers, what a
\* message references is a file of its own conversation.
THEOREM ReferencesResolve == Spec => []RefsResolveInOneTab
<1>1. Init => FileInv /\ LiveInv /\ AloneInv
  BY FileInvInit, LiveInvInit, AloneInvInit
<1>2. FileInv /\ LiveInv /\ AloneInv /\ [Next]_vars => FileInv' /\ LiveInv' /\ AloneInv'
  BY FileInvStep, LiveInvStep, AloneInvStep DEF FileInv
<1>3. AloneInv => RefsResolveInOneTab
  BY AloneResolves
<1> QED
  BY <1>1, <1>2, <1>3, PTL DEF Spec

\* Under the same condition, and when no request was cut short, exactly the files
\* that messages reference are left between requests, and exactly their objects.
THEOREM NothingIsStranded == Spec => []NothingStrandedInOneTab
<1>1. Init => FileInv /\ LiveInv /\ AloneInv
  BY FileInvInit, LiveInvInit, AloneInvInit
<1>2. FileInv /\ LiveInv /\ AloneInv /\ [Next]_vars => FileInv' /\ LiveInv' /\ AloneInv'
  BY FileInvStep, LiveInvStep, AloneInvStep DEF FileInv
<1>3. FileInv /\ AloneInv => NothingStrandedInOneTab
  BY AloneStrandsNothing
<1> QED
  BY <1>1, <1>2, <1>3, PTL DEF Spec
=============================================================================
