-------------------------------- MODULE Blobs --------------------------------
(***************************************************************************)
(* Images of messages (backend/app/files.py and its callers in             *)
(* conversations.py, account.py and admin_users.py).  A `data:` URL in a   *)
(* message becomes a row of `files` and, when an object store is           *)
(* configured, an object in S3; the message keeps a reference.  Database   *)
(* and store have no common transaction: an upload comes before its row,   *)
(* a purge after the commit that removed the row.                          *)
(*                                                                         *)
(* A message has at most one image.  Which rows form a turn, and who may   *)
(* follow whom, is Thread's matter; here a row is what it references.      *)
(***************************************************************************)
EXTENDS Naturals, FiniteSets, FiniteSetsExt, Functions

CONSTANTS
    Conversations,
    None,              \* no conversation
    Requests,          \* slots for requests in flight
    UseS3,             \* is an object store configured?
    MaxFile, MaxMsg,   \* bounds: file and message ids handed out
    MaxFaults,         \* bound: restarts and rolled back transactions
    MaxStoreFaults     \* bound: failing calls to the object store

ASSUME NoneAssumption == None \notin Conversations
ASSUME UseS3Assumption == UseS3 \in BOOLEAN
ASSUME BoundsAssumption == {MaxFile, MaxMsg, MaxFaults, MaxStoreFaults} \subseteq Nat

VARIABLES
    convs,         \* created ("drawn": an import has drawn its uuid), deleted?
    msgs,          \* the rows of messages, by id
    files,         \* the rows of files: the conversation each belongs to
    objects,       \* the objects in S3
    nextMsg, nextFile,
    req,           \* the requests in flight
    faults, storeFaults,
    overlapped     \* history: has a request begun while another was in flight?

vars == <<convs, msgs, files, objects, nextMsg, nextFile, req, faults, storeFaults, overlapped>>
rows == <<convs, msgs, files, nextMsg>>
store == <<objects, nextFile, storeFaults>>

NoRef == 0
Row == [conv : Conversations, role : {"user", "assistant"}, shown : BOOLEAN, ref : Nat]

Idle == [pc |-> "idle", op |-> "none", conv |-> None, msg |-> 0, ref |-> NoRef,
         file |-> 0, stale |-> {}, drops |-> {}, from |-> None, todo |-> <<>>]

Live(c) == convs[c] = "live"

\* Faulty variant, for mutation: the connection does not enforce foreign keys.
NoForeignKey(c) == TRUE

\* A row may be inserted when the conversation it refers to exists.
ForeignKey(c) == convs[c] = "live"

Thread(c) == {m \in DOMAIN msgs : msgs[m].conv = c}
FilesOf(cs) == {f \in DOMAIN files : files[f] \in cs}

\* Faulty variant, for mutation: archived variants do not count.
GarbageOfShown(c, left) ==
    {f \in FilesOf({c}) : \A m \in DOMAIN left :
        left[m].conv = c /\ left[m].shown => left[m].ref # f}

\* gc_orphan_files: the conversation's files that none of its rows references.
Garbage(c, left) ==
    {f \in FilesOf({c}) : \A m \in DOMAIN left : left[m].conv = c => left[m].ref # f}

Begin(r, fields) ==
    /\ req[r].pc = "idle"
    /\ req' = [req EXCEPT ![r] = fields]
    /\ overlapped' = (overlapped \/ \E s \in Requests : req[s].pc # "idle")

Goto(r, pc) == req' = [req EXCEPT ![r].pc = pc]
Finish(r) == req' = [req EXCEPT ![r] = Idle]

(***************************************************************************)
(* store_data_url: upload, then the index row.  Outside a transaction (on  *)
(* Postgres, whose statements commit one by one) both are visible at once. *)
(***************************************************************************)
Upload(r) ==
    /\ req[r].pc = "put"
    /\ nextFile =< MaxFile
    /\ nextFile' = nextFile + 1
    /\ objects' = IF UseS3 THEN objects \cup {nextFile} ELSE objects
    /\ req' = [req EXCEPT ![r].pc = IF req[r].op = "import" THEN "import" ELSE "index",
                          ![r].file = nextFile]
    /\ UNCHANGED <<rows, faults, storeFaults, overlapped>>

\* Faulty variant, for mutation: the failed upload is ignored.
UploadFailsQuietly(r) ==
    /\ req[r].pc = "put" /\ UseS3
    /\ storeFaults < MaxStoreFaults
    /\ storeFaults' = storeFaults + 1
    /\ nextFile =< MaxFile /\ nextFile' = nextFile + 1
    /\ req' = [req EXCEPT ![r].pc = "index", ![r].file = nextFile]
    /\ UNCHANGED <<rows, objects, faults, overlapped>>

UploadFails(r) ==
    /\ req[r].pc = "put" /\ UseS3
    /\ storeFaults < MaxStoreFaults
    /\ storeFaults' = storeFaults + 1
    /\ Finish(r)
    /\ UNCHANGED <<rows, objects, nextFile, faults, overlapped>>

\* Where a request goes on once its image has a row.
AfterIndex(op) ==
    CASE op = "send" -> "insert" [] op = "edit" -> "rewrite"
      [] op = "clone" -> "copy" [] OTHER -> "store"

Index(r) ==
    /\ req[r].pc = "index"
    /\ IF ForeignKey(req[r].conv)
       THEN /\ files' = [f \in DOMAIN files \cup {req[r].file} |->
                           IF f = req[r].file THEN req[r].conv ELSE files[f]]
            /\ req' = [req EXCEPT ![r].pc = AfterIndex(req[r].op), ![r].ref = req[r].file]
       ELSE Finish(r) /\ UNCHANGED files
    /\ UNCHANGED <<convs, msgs, nextMsg, store, faults, overlapped>>

InsertMessage(c, role, ref) ==
    /\ nextMsg =< MaxMsg
    /\ msgs' = [m \in DOMAIN msgs \cup {nextMsg} |->
                  IF m = nextMsg THEN [conv |-> c, role |-> role, shown |-> TRUE, ref |-> ref]
                  ELSE msgs[m]]
    /\ nextMsg' = nextMsg + 1

\* A transaction that leaves the rows `left` and collects the garbage of c.
TruncateTo(r, c, left) ==
    LET stale == Garbage(c, left)
    IN  /\ msgs' = left
        /\ files' = Restrict(files, DOMAIN files \ stale)
        /\ req' = [req EXCEPT ![r].pc = "purge", ![r].stale = IF UseS3 THEN stale ELSE {}]

(***************************************************************************)
(* send_message and the reply.                                             *)
(***************************************************************************)
CreateConversation(c) ==
    /\ convs[c] = "unborn"
    /\ convs' = [convs EXCEPT ![c] = "live"]
    /\ UNCHANGED <<msgs, files, nextMsg, store, req, faults, overlapped>>

SendBegin(r, c, image) ==
    /\ Live(c)
    /\ Begin(r, [Idle EXCEPT !.pc = IF image THEN "put" ELSE "insert", !.op = "send", !.conv = c])
    /\ UNCHANGED <<rows, store, faults>>

SendCommit(r) ==
    /\ req[r].pc = "insert"
    /\ IF ForeignKey(req[r].conv)
       THEN InsertMessage(req[r].conv, "user", req[r].ref) /\ Goto(r, "stream")
       ELSE Finish(r) /\ UNCHANGED <<msgs, nextMsg>>
    /\ UNCHANGED <<convs, files, store, faults, overlapped>>

\* The stream ends with text, or with generated images to store first.
StreamEnds(r, image) ==
    /\ req[r].pc = "stream"
    /\ req' = [req EXCEPT ![r].pc = IF image THEN "put" ELSE "store", ![r].op = "reply",
                          ![r].ref = NoRef]
    /\ UNCHANGED <<rows, store, faults, overlapped>>

\* Without output a regeneration shows the archived row again.
StreamEmpty(r) ==
    /\ req[r].pc = "stream"
    /\ msgs' = [m \in DOMAIN msgs |->
                  IF m = req[r].msg /\ req[r].op = "regenerate"
                  THEN [msgs[m] EXCEPT !.shown = TRUE] ELSE msgs[m]]
    /\ Finish(r)
    /\ UNCHANGED <<convs, files, nextMsg, store, faults, overlapped>>

StoreReply(r) ==
    /\ req[r].pc = "store"
    /\ IF ForeignKey(req[r].conv) THEN InsertMessage(req[r].conv, "assistant", req[r].ref)
       ELSE UNCHANGED <<msgs, nextMsg>>
    /\ Finish(r)
    /\ UNCHANGED <<convs, files, store, faults, overlapped>>

(***************************************************************************)
(* edit_message, delete_message and the two regenerations.                 *)
(***************************************************************************)
\* The new content has a new image, the old one by reference, or none.
EditBegin(r, m, content) ==
    /\ msgs[m].role = "user"
    /\ Begin(r, [Idle EXCEPT !.pc = IF content = "image" THEN "put" ELSE "rewrite",
                             !.op = "edit", !.conv = msgs[m].conv, !.msg = m,
                             !.ref = IF content = "same" THEN msgs[m].ref ELSE NoRef])
    /\ UNCHANGED <<rows, store, faults>>

EditCommit(r) ==
    /\ req[r].pc = "rewrite"
    /\ LET c == req[r].conv
           kept == {m \in DOMAIN msgs : m \in Thread(c) => m =< req[r].msg}
       IN  TruncateTo(r, c, [m \in kept |-> IF m = req[r].msg
                                            THEN [msgs[m] EXCEPT !.ref = req[r].ref]
                                            ELSE msgs[m]])
    /\ UNCHANGED <<convs, nextMsg, store, faults, overlapped>>

DeleteBegin(r, m) ==
    /\ Begin(r, [Idle EXCEPT !.pc = "cut", !.op = "delete", !.conv = msgs[m].conv, !.msg = m])
    /\ UNCHANGED <<rows, store, faults>>

DeleteCommit(r) ==
    /\ req[r].pc = "cut"
    /\ TruncateTo(r, req[r].conv,
          Restrict(msgs, {m \in DOMAIN msgs : m \in Thread(req[r].conv) => m < req[r].msg}))
    /\ UNCHANGED <<convs, nextMsg, store, faults, overlapped>>

\* regenerate_message truncates after its turn and then does what regenerate does.
RegenerateBegin(r, m, pc) ==
    /\ pc \in {"branch", "archive"}
    /\ msgs[m].role = "assistant" /\ msgs[m].shown
    /\ pc = "archive" => \A n \in Thread(msgs[m].conv) : msgs[n].shown => n =< m
    /\ Begin(r, [Idle EXCEPT !.pc = pc, !.op = "regenerate", !.conv = msgs[m].conv, !.msg = m])
    /\ UNCHANGED <<rows, store, faults>>

Branch(r) ==
    /\ req[r].pc = "branch"
    /\ TruncateTo(r, req[r].conv,
          Restrict(msgs, {m \in DOMAIN msgs : m \in Thread(req[r].conv) => m =< req[r].msg}))
    /\ UNCHANGED <<convs, nextMsg, store, faults, overlapped>>

Archive(r) ==
    /\ req[r].pc = "archive"
    /\ msgs' = [m \in DOMAIN msgs |-> IF m = req[r].msg THEN [msgs[m] EXCEPT !.shown = FALSE]
                                      ELSE msgs[m]]
    /\ Goto(r, "stream")
    /\ UNCHANGED <<convs, files, nextMsg, store, faults, overlapped>>

(***************************************************************************)
(* purge_objects: best effort, one object at a time.                       *)
(***************************************************************************)
Purge(r, f, fails) ==
    /\ req[r].pc = "purge"
    /\ fails => storeFaults < MaxStoreFaults
    /\ storeFaults' = IF fails THEN storeFaults + 1 ELSE storeFaults
    /\ objects' = IF fails THEN objects ELSE objects \ {f}
    /\ req' = [req EXCEPT ![r].stale = req[r].stale \ {f}]
    /\ UNCHANGED <<rows, nextFile, faults, overlapped>>

AfterPurge(r) ==
    /\ req[r].pc = "purge" /\ req[r].stale = {}
    /\ CASE req[r].op = "edit" -> Goto(r, "stream")
         [] req[r].op = "regenerate" -> Goto(r, "archive")
         [] OTHER -> Finish(r)
    /\ UNCHANGED <<rows, store, faults, overlapped>>

(***************************************************************************)
(* delete_conversation, and the deletion of the account that owns them:    *)
(* collect the object ids, delete the rows by cascade, purge.              *)
(***************************************************************************)
DropBegin(r, cs) ==
    /\ Begin(r, [Idle EXCEPT !.pc = "drop", !.op = "drop", !.drops = cs,
                             !.stale = IF UseS3 THEN FilesOf(cs) ELSE {}])
    /\ UNCHANGED <<rows, store, faults>>

\* Faulty variant, for mutation: the ids are collected when they are gone.
DropForgets(r) ==
    /\ req[r].pc = "drop"
    /\ convs' = [c \in Conversations |-> IF c \in req[r].drops THEN "gone" ELSE convs[c]]
    /\ msgs' = Restrict(msgs, {m \in DOMAIN msgs : msgs[m].conv \notin req[r].drops})
    /\ files' = Restrict(files, DOMAIN files \ FilesOf(req[r].drops))
    /\ req' = [req EXCEPT ![r].pc = "purge", ![r].stale = {}]
    /\ UNCHANGED <<nextMsg, store, faults, overlapped>>

Drop(r) ==
    /\ req[r].pc = "drop"
    /\ convs' = [c \in Conversations |-> IF c \in req[r].drops THEN "gone" ELSE convs[c]]
    /\ msgs' = Restrict(msgs, {m \in DOMAIN msgs : msgs[m].conv \notin req[r].drops})
    /\ files' = Restrict(files, DOMAIN files \ FilesOf(req[r].drops))
    /\ Goto(r, "purge")
    /\ UNCHANGED <<nextMsg, store, faults, overlapped>>

(***************************************************************************)
(* clone_conversation copies the shown rows, each with its own blob;       *)
(* import_conversation creates one in a single transaction.                *)
(***************************************************************************)
CloneBegin(r, c, d) ==
    /\ Live(c) /\ convs[d] = "unborn"
    /\ convs' = [convs EXCEPT ![d] = "live"]
    /\ Begin(r, [Idle EXCEPT !.pc = "load", !.op = "clone", !.conv = d, !.from = c,
                             !.todo = Restrict(msgs, {m \in Thread(c) : msgs[m].shown})])
    /\ UNCHANGED <<msgs, files, nextMsg, store, faults>>

CopyOf(r) == Min(DOMAIN req[r].todo)

\* clone_file_refs: without a row or an object to copy, the reference is kept.
CloneLoad(r, fails) ==
    /\ req[r].pc = "load" /\ DOMAIN req[r].todo # {}
    /\ fails => UseS3 /\ storeFaults < MaxStoreFaults
    /\ storeFaults' = IF fails THEN storeFaults + 1 ELSE storeFaults
    /\ LET f == req[r].todo[CopyOf(r)].ref
           found == f \in FilesOf({req[r].from}) /\ (UseS3 => f \in objects)
       IN  /\ fails => found
           /\ req' = [req EXCEPT ![r].pc = IF found /\ ~fails THEN "put" ELSE "copy", ![r].ref = f]
    /\ UNCHANGED <<rows, objects, nextFile, faults, overlapped>>

CloneCopy(r) ==
    /\ req[r].pc = "copy"
    /\ IF ForeignKey(req[r].conv)
       THEN /\ InsertMessage(req[r].conv, req[r].todo[CopyOf(r)].role, req[r].ref)
            /\ req' = [req EXCEPT ![r].pc = "load",
                                  ![r].todo = Restrict(req[r].todo, DOMAIN req[r].todo \ {CopyOf(r)})]
       ELSE Finish(r) /\ UNCHANGED <<msgs, nextMsg>>
    /\ UNCHANGED <<convs, files, store, faults, overlapped>>

CloneDone(r) ==
    /\ req[r].pc = "load" /\ DOMAIN req[r].todo = {}
    /\ Finish(r)
    /\ UNCHANGED <<rows, store, faults, overlapped>>

ImportBegin(r, d) ==
    /\ convs[d] = "unborn"
    /\ convs' = [convs EXCEPT ![d] = "drawn"]
    /\ Begin(r, [Idle EXCEPT !.pc = "put", !.op = "import", !.conv = d])
    /\ UNCHANGED <<msgs, files, nextMsg, store, faults>>

ImportCommit(r) ==
    /\ req[r].pc = "import"
    /\ IF convs[req[r].conv] = "drawn"
       THEN /\ convs' = [convs EXCEPT ![req[r].conv] = "live"]
            /\ files' = [f \in DOMAIN files \cup {req[r].file} |->
                           IF f = req[r].file THEN req[r].conv ELSE files[f]]
            /\ InsertMessage(req[r].conv, "user", req[r].file)
       ELSE UNCHANGED rows                        \* the account is gone
    /\ Finish(r)
    /\ UNCHANGED <<store, faults, overlapped>>

(***************************************************************************)
(* Failures.                                                               *)
(***************************************************************************)
\* A transaction is rolled back: nothing is purged.
TransactionFails(r) ==
    /\ req[r].pc \in {"insert", "rewrite", "cut", "branch", "archive", "drop", "import"}
    /\ faults < MaxFaults
    /\ faults' = faults + 1
    /\ Finish(r)
    /\ UNCHANGED <<rows, store, overlapped>>

Crash ==
    /\ faults < MaxFaults
    /\ faults' = faults + 1
    /\ req' = [r \in Requests |-> Idle]
    /\ UNCHANGED <<rows, store, overlapped>>

(***************************************************************************)
(* Specification.                                                          *)
(***************************************************************************)
Init ==
    /\ convs = [c \in Conversations |-> "unborn"]
    /\ msgs = Restrict(<<>>, {})
    /\ files = Restrict(<<>>, {})
    /\ objects = {}
    /\ nextMsg = 1 /\ nextFile = 1
    /\ req = [r \in Requests |-> Idle]
    /\ faults = 0 /\ storeFaults = 0 /\ overlapped = FALSE

StoreNext(r) ==
    \/ Upload(r) \/ UploadFails(r) \/ Index(r) \/ AfterPurge(r)
    \/ \E f \in req[r].stale, fails \in BOOLEAN : Purge(r, f, fails)

StreamNext(r) ==
    \/ \E c \in Conversations, image \in BOOLEAN : SendBegin(r, c, image)
    \/ SendCommit(r)
    \/ \E image \in BOOLEAN : StreamEnds(r, image)
    \/ StreamEmpty(r) \/ StoreReply(r)

RewriteNext(r) ==
    \/ \E m \in DOMAIN msgs :
          \/ \E content \in {"image", "same", "text"} : EditBegin(r, m, content)
          \/ DeleteBegin(r, m)
          \/ \E pc \in {"branch", "archive"} : RegenerateBegin(r, m, pc)
    \/ EditCommit(r) \/ DeleteCommit(r) \/ Branch(r) \/ Archive(r)

ConversationNext(r) ==
    \/ \E c \in Conversations : Live(c) /\ DropBegin(r, {c})
    \/ DropBegin(r, Conversations)
    \/ Drop(r)
    \/ \E c, d \in Conversations : CloneBegin(r, c, d)
    \/ \E fails \in BOOLEAN : CloneLoad(r, fails)
    \/ CloneCopy(r) \/ CloneDone(r)
    \/ \E d \in Conversations : ImportBegin(r, d)
    \/ ImportCommit(r)

Next ==
    \/ \E c \in Conversations : CreateConversation(c)
    \/ \E r \in Requests :
          StoreNext(r) \/ StreamNext(r) \/ RewriteNext(r) \/ ConversationNext(r)
          \/ TransactionFails(r)
    \/ Crash

Spec == Init /\ [][Next]_vars
-----------------------------------------------------------------------------
(***************************************************************************)
(* Properties.                                                             *)
(***************************************************************************)
Pcs == {"idle", "put", "index", "insert", "stream", "store", "rewrite", "cut", "branch",
        "archive", "purge", "drop", "load", "copy", "import"}
Ops == {"none", "send", "reply", "edit", "delete", "regenerate", "drop", "clone", "import"}

\* Rows belong to conversations, files have ids already handed out.
TypeOK ==
    /\ convs \in [Conversations -> {"unborn", "drawn", "live", "gone"}]
    /\ nextMsg \in Nat /\ nextFile \in Nat
    /\ DOMAIN msgs \subseteq 1..(nextMsg - 1) /\ \A m \in DOMAIN msgs : msgs[m] \in Row
    /\ DOMAIN files \subseteq 1..(nextFile - 1) /\ \A f \in DOMAIN files : files[f] \in Conversations
    /\ objects \subseteq 1..(nextFile - 1) /\ overlapped \in BOOLEAN
    /\ \A r \in Requests : req[r].pc \in Pcs /\ req[r].op \in Ops

\* "It can never leave a live row pointing at an object we already deleted": every
\* row of files has its object, through rollbacks, failing calls and restarts.
RowHasObject == UseS3 => DOMAIN files \subseteq objects

\* Rows go with their conversation, by cascade: nothing is left of a deleted one,
\* though uploads and replies for it may still be under way.
NothingOfDeleted ==
    /\ \A m \in DOMAIN msgs : convs[msgs[m].conv] = "live"
    /\ \A f \in DOMAIN files : convs[files[f]] = "live"

\* What a message references, archived or shown, is a file of its conversation.
RefsResolve ==
    \A m \in DOMAIN msgs : msgs[m].ref # NoRef =>
        msgs[m].ref \in DOMAIN files /\ files[msgs[m].ref] = msgs[m].conv

\* So it is as long as the requests of a user follow one another and the object
\* store answers (Blobs_race.cfg shows what two at once may do).
RefsResolveInOneTab == ~overlapped /\ storeFaults = 0 => RefsResolve

\* "So superseded image blobs don't accumulate forever": when no request is in
\* flight and none was cut short, exactly the referenced files and objects exist.
NothingStranded ==
    (faults = 0 /\ storeFaults = 0 /\ \A r \in Requests : req[r].pc = "idle") =>
        /\ DOMAIN files = {msgs[m].ref : m \in DOMAIN msgs} \ {NoRef}
        /\ UseS3 => objects = DOMAIN files

\* Under the same condition nothing is stranded: whatever sequence of uploads, edits,
\* regenerations, clones, imports and deletions led there.
NothingStrandedInOneTab == ~overlapped => NothingStranded
=============================================================================
