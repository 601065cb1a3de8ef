------------------------------- MODULE Thread -------------------------------
(***************************************************************************)
(* One conversation's message thread (backend/app/conversations.py): the   *)
(* rows of `messages`, and the request handlers that read and write them.  *)
(*                                                                         *)
(* A handler is a coroutine: between two awaits it runs alone, across an   *)
(* await any other handler may run.  Each action is one such stretch; a    *)
(* `async with db.transaction()` block is one action (database.py).  A     *)
(* request that streams ends in the `finally` of _stream_and_persist,      *)
(* which stores the reply, extends one, or restores the archived variant.  *)
(*                                                                         *)
(* Data is abstracted to what the handlers tell apart.  A body is "text",  *)
(* "blank" (nothing is left once <think> spans are stripped) or "image" (a *)
(* list of parts).                                                         *)
(***************************************************************************)
EXTENDS Naturals, FiniteSets, FiniteSetsExt, Functions

CONSTANTS
    Requests,    \* slots for requests in flight on this conversation
    MaxId,       \* bound: ids handed out by AUTOINCREMENT
    MaxFaults    \* bound: process restarts and failing database statements

ASSUME MaxIdAssumption == MaxId \in Nat
ASSUME MaxFaultsAssumption == MaxFaults \in Nat

VARIABLES
    msgs,      \* the rows of messages, by id
    nextId,    \* the AUTOINCREMENT counter
    alive,     \* does the conversations row exist?
    req,       \* the requests in flight
    faults,
    overlapped \* history: has a request begun while another was in flight?

vars == <<msgs, nextId, alive, req, faults, overlapped>>

NoParent == 0       \* parent_id IS NULL
Ids == DOMAIN msgs

Body == {"text", "blank", "image"}
Message == [role : {"user", "assistant"}, parent : Nat,
            active : BOOLEAN, body : Body]

Regenerations == {"regenerate", "regenerate_message"}
Ops == {"none", "send", "edit", "edit_assistant", "delete", "continue",
        "activate"} \cup Regenerations
Pcs == {"idle", "insert", "rewrite", "overwrite", "cut", "branch", "truncate",
        "chain", "archive", "history", "gather", "stream", "check", "switch"}

Idle == [pc |-> "idle", op |-> "none", msg |-> 0, chain |-> {}, tip |-> 0,
         hist |-> {}, was |-> {}]

(***************************************************************************)
(* Reads.                                                                  *)
(***************************************************************************)
ActiveIds == {m \in Ids : msgs[m].active}

\* The id of the trailing active row, 0 when there is none.
Trailing == IF ActiveIds = {} THEN 0 ELSE Max(ActiveIds)

\* _load_history: active rows, less the assistant turns that strip to "".
History == {m \in ActiveIds : ~(msgs[m].role = "assistant" /\ msgs[m].body = "blank")}

Children(m) == {c \in Ids : msgs[c].parent = m}

\* A set of rows the two loops of _variant_chain can return: from a row whose
\* parent row is missing, down through one child at a time.  With several
\* children the SELECT without ORDER BY may return any of them.
IsWalk(C) ==
    /\ \E root \in C :
          /\ msgs[root].parent \notin Ids
          /\ \A m \in C \ {root} : msgs[m].parent \in C
    /\ \A m \in C : \/ Children(m) = {}
                    \/ \E c \in Children(m) : Children(m) \cap C = {c}

Walks == {C \in SUBSET Ids : IsWalk(C)}

\* The possible results of _variant_chain(msg_id), as sets of ids: parents
\* precede their children, so the order of the list is the order of the ids.
VariantChain(m) ==
    LET all == Walks
    IN  IF m \in Ids THEN {C \in all : \E D \in all : m \in D /\ C \cap D # {}}
        ELSE {{}}

(***************************************************************************)
(* Writes.                                                                 *)
(***************************************************************************)
Row(role, parent, body) ==
    [role |-> role, parent |-> parent, active |-> TRUE, body |-> body]

\* Faulty variant, for mutation: ids taken as max(id) + 1, without AUTOINCREMENT.
InsertReusingIds(row) ==
    LET id == IF Ids = {} THEN 1 ELSE Max(Ids) + 1
    IN  /\ id =< MaxId
        /\ msgs' = [m \in Ids \cup {id} |-> IF m = id THEN row ELSE msgs[m]]
        /\ nextId' = id + 1

\* Faulty variant, for mutation: the counter is not advanced.
InsertSameId(row) ==
    /\ nextId =< MaxId
    /\ msgs' = [m \in Ids \cup {nextId} |-> IF m = nextId THEN row ELSE msgs[m]]
    /\ UNCHANGED nextId

Insert(row) ==
    /\ nextId =< MaxId
    /\ msgs' = [m \in Ids \cup {nextId} |-> IF m = nextId THEN row ELSE msgs[m]]
    /\ nextId' = nextId + 1

DeleteAfter(n) == msgs' = Restrict(msgs, {m \in Ids : m =< n})

SetActive(S, b) ==
    msgs' = [m \in Ids |-> IF m \in S THEN [msgs[m] EXCEPT !.active = b] ELSE msgs[m]]

SetBody(S, b) ==
    msgs' = [m \in Ids |-> IF m \in S THEN [msgs[m] EXCEPT !.body = b] ELSE msgs[m]]

\* A request that begins while another one is in flight overlaps with it.
Overlap == overlapped' = (overlapped \/ \E s \in Requests : req[s].pc # "idle")

Begin(r, op, pc, m) ==
    /\ alive
    /\ req[r].pc = "idle"
    /\ req' = [req EXCEPT ![r] = [Idle EXCEPT !.pc = pc, !.op = op, !.msg = m,
                                              !.was = ActiveIds]]
    /\ Overlap
    /\ UNCHANGED <<msgs, nextId, alive, faults>>

Goto(r, pc) == req' = [req EXCEPT ![r].pc = pc]
Finish(r) == req' = [req EXCEPT ![r] = Idle]

(***************************************************************************)
(* send_message: history first, then the user's row in a transaction.      *)
(***************************************************************************)
SendBegin(r) ==
    /\ alive
    /\ req[r].pc = "idle"
    /\ req' = [req EXCEPT ![r] = [Idle EXCEPT !.pc = "insert", !.op = "send",
                                              !.hist = History, !.was = ActiveIds]]
    /\ Overlap
    /\ UNCHANGED <<msgs, nextId, alive, faults>>

SendCommit(r) ==
    /\ req[r].pc = "insert"
    /\ alive
    /\ Insert(Row("user", NoParent, "text"))
    /\ req' = [req EXCEPT ![r].pc = "gather", ![r].msg = nextId,
                          ![r].hist = @ \cup {nextId}]
    /\ UNCHANGED <<alive, faults, overlapped>>

(***************************************************************************)
(* edit_message: rewrite a user row and drop every later row.              *)
(***************************************************************************)
EditBegin(r, m) ==
    /\ m \in Ids /\ msgs[m].role = "user"
    /\ Begin(r, "edit", "rewrite", m)

EditCommit(r) ==
    /\ req[r].pc = "rewrite"
    /\ DeleteAfter(req[r].msg)
    /\ Goto(r, "history")
    /\ UNCHANGED <<nextId, alive, faults, overlapped>>

(***************************************************************************)
(* regenerate and regenerate_message.                                      *)
(***************************************************************************)
RegenerateBegin(r) ==
    /\ Trailing # 0 /\ msgs[Trailing].role = "assistant"
    /\ Begin(r, "regenerate", "chain", Trailing)

RegenerateMessageBegin(r, m) ==
    /\ m \in ActiveIds /\ msgs[m].role = "assistant"
    /\ Begin(r, "regenerate_message", "branch", m)

\* The tip of the turn's chain, after which regenerate_message truncates.
ReadBranch(r) ==
    /\ req[r].pc = "branch"
    /\ \E C \in VariantChain(req[r].msg) :
         req' = [req EXCEPT ![r].pc = "truncate",
                            ![r].tip = IF C = {} THEN req[r].msg ELSE Max(C)]
    /\ UNCHANGED <<msgs, nextId, alive, faults, overlapped>>

\* Faulty variant, for mutation: truncates after the regenerated row, not the tip.
BranchAtRow(r) ==
    /\ req[r].pc = "truncate"
    /\ DeleteAfter(req[r].msg)
    /\ Goto(r, "chain")
    /\ UNCHANGED <<nextId, alive, faults, overlapped>>

Branch(r) ==
    /\ req[r].pc = "truncate"
    /\ DeleteAfter(req[r].tip)
    /\ Goto(r, "chain")
    /\ UNCHANGED <<nextId, alive, faults, overlapped>>

\* Faulty variant, for mutation: the new variant's parent is the shown variant.
ReadChainAtActive(r) ==
    /\ req[r].pc = "chain"
    /\ \E C \in VariantChain(req[r].msg) :
         req' = [req EXCEPT ![r].pc = "archive", ![r].tip = req[r].msg,
                            ![r].chain = IF C = {} THEN {req[r].msg} ELSE C]
    /\ UNCHANGED <<msgs, nextId, alive, faults, overlapped>>

\* _regenerate_assistant: read the chain, archive all of it, and parent the
\* new variant at its tip.
ReadChain(r) ==
    /\ req[r].pc = "chain"
    /\ \E C \in VariantChain(req[r].msg) :
         LET chain == IF C = {} THEN {req[r].msg} ELSE C
         IN  req' = [req EXCEPT ![r].pc = "archive", ![r].chain = chain,
                                ![r].tip = Max(chain)]
    /\ UNCHANGED <<msgs, nextId, alive, faults, overlapped>>

\* Faulty variant, for mutation: archives the tip only.
ArchiveTip(r) ==
    /\ req[r].pc = "archive"
    /\ SetActive({req[r].tip}, FALSE)
    /\ Goto(r, "history")
    /\ UNCHANGED <<nextId, alive, faults, overlapped>>

Archive(r) ==
    /\ req[r].pc = "archive"
    /\ SetActive(req[r].chain, FALSE)
    /\ Goto(r, "history")
    /\ UNCHANGED <<nextId, alive, faults, overlapped>>

(***************************************************************************)
(* continue_message extends the trailing text reply in place.              *)
(***************************************************************************)
ContinueBegin(r) ==
    /\ Trailing # 0
    /\ msgs[Trailing].role = "assistant" /\ msgs[Trailing].body = "text"
    /\ Begin(r, "continue", "history", Trailing)

(***************************************************************************)
(* The shared tail: load the history, then stream.  _gather_context (web   *)
(* search, embeddings) may raise: the request ends before its stream.       *)
(***************************************************************************)
LoadHistory(r) ==
    /\ req[r].pc = "history"
    /\ req' = [req EXCEPT ![r].pc = "gather", ![r].hist = History]
    /\ UNCHANGED <<msgs, nextId, alive, faults, overlapped>>

StreamStarts(r) ==
    /\ req[r].pc = "gather"
    /\ Goto(r, "stream")
    /\ UNCHANGED <<msgs, nextId, alive, faults, overlapped>>

ContextFails(r) ==
    /\ req[r].pc = "gather"
    /\ Finish(r)
    /\ UNCHANGED <<msgs, nextId, alive, faults, overlapped>>

\* A statement before the stream raises: an open transaction is rolled back, what
\* was written outside one stays.
StatementFails(r) ==
    /\ req[r].pc \notin {"idle", "stream"}
    /\ faults < MaxFaults
    /\ faults' = faults + 1
    /\ Finish(r)
    /\ UNCHANGED <<msgs, nextId, alive, overlapped>>

(***************************************************************************)
(* The finally block of _stream_and_persist.  The upstream finished, was   *)
(* cut off by the client's disconnect, or failed; the outlet may have      *)
(* emptied the text.  Only whether there is output, and its kind, matters. *)
(***************************************************************************)
StoreReply(r, body) ==
    /\ req[r].pc = "stream" /\ req[r].op # "continue"
    /\ alive
    /\ Insert(Row("assistant", req[r].tip, body))
    /\ Finish(r)
    /\ UNCHANGED <<alive, faults, overlapped>>

\* The row's foreign key refuses a reply to a deleted conversation: the
\* generator raises before the restore.
ReplyRefused(r) ==
    /\ req[r].pc = "stream" /\ req[r].op # "continue"
    /\ ~alive
    /\ Finish(r)
    /\ UNCHANGED <<msgs, nextId, alive, faults, overlapped>>

\* content || text: a row edited to a blank one meanwhile has an answer again;
\* a row deleted meanwhile is not written.
StoreContinuation(r) ==
    /\ req[r].pc = "stream" /\ req[r].op = "continue"
    /\ SetBody({m \in Ids \cap {req[r].msg} : msgs[m].body = "blank"}, "text")
    /\ Finish(r)
    /\ UNCHANGED <<nextId, alive, faults, overlapped>>

\* Faulty variant, for mutation: no restore.
StreamEmptyNoRestore(r) ==
    /\ req[r].pc = "stream"
    /\ Finish(r)
    /\ UNCHANGED <<msgs, nextId, alive, faults, overlapped>>

\* No output: a regeneration re-activates the tip of the chain it archived.
StreamEmpty(r) ==
    /\ req[r].pc = "stream"
    /\ SetActive(IF req[r].op \in Regenerations THEN {req[r].tip} ELSE {}, TRUE)
    /\ Finish(r)
    /\ UNCHANGED <<nextId, alive, faults, overlapped>>

(***************************************************************************)
(* Handlers that do not stream.                                            *)
(***************************************************************************)
EditAssistantBegin(r, m) ==
    /\ m \in Ids /\ msgs[m].role = "assistant"
    /\ Begin(r, "edit_assistant", "overwrite", m)

\* The parts other than text are kept: an image message stays one.
EditAssistantCommit(r, body) ==
    /\ req[r].pc = "overwrite"
    /\ SetBody({m \in Ids \cap {req[r].msg} : msgs[m].body # "image"}, body)
    /\ Finish(r)
    /\ UNCHANGED <<nextId, alive, faults, overlapped>>

DeleteBegin(r, m) ==
    /\ m \in Ids
    /\ Begin(r, "delete", "cut", m)

\* Faulty variant, for mutation: deletes the row alone.
DeleteRowOnly(r) ==
    /\ req[r].pc = "cut"
    /\ msgs' = Restrict(msgs, Ids \ {req[r].msg})
    /\ Finish(r)
    /\ UNCHANGED <<nextId, alive, faults, overlapped>>

DeleteCommit(r) ==
    /\ req[r].pc = "cut"
    /\ msgs' = Restrict(msgs, {m \in Ids : m < req[r].msg})
    /\ Finish(r)
    /\ UNCHANGED <<nextId, alive, faults, overlapped>>

\* activate_variant: read the chain, refuse when any row follows it, then one
\* UPDATE per variant, oldest first, outside a transaction.
ActivateBegin(r, m) ==
    /\ alive
    /\ req[r].pc = "idle"
    /\ \E C \in VariantChain(m) :
         /\ m \in C
         /\ req' = [req EXCEPT ![r] = [Idle EXCEPT !.pc = "check", !.op = "activate",
                                                   !.msg = m, !.chain = C]]
    /\ Overlap
    /\ UNCHANGED <<msgs, nextId, alive, faults>>

ActivateCheck(r) ==
    /\ req[r].pc = "check"
    /\ IF \E m \in Ids : m > Max(req[r].chain) THEN Finish(r) ELSE Goto(r, "switch")
    /\ UNCHANGED <<msgs, nextId, alive, faults, overlapped>>

\* Faulty variant, for mutation: the other variants stay shown.
ActivateWithoutArchiving(r) ==
    /\ req[r].pc = "switch"
    /\ SetActive({req[r].msg}, TRUE)
    /\ Finish(r)
    /\ UNCHANGED <<nextId, alive, faults, overlapped>>

ActivateSwitch(r) ==
    /\ req[r].pc = "switch"
    /\ LET v == Min(req[r].chain) IN
         /\ SetActive({v}, v = req[r].msg)
         /\ IF req[r].chain = {v} THEN Finish(r)
            ELSE req' = [req EXCEPT ![r].chain = @ \ {v}]
    /\ UNCHANGED <<nextId, alive, faults, overlapped>>

\* delete_conversation: the messages go by cascade.
DeleteConversation ==
    /\ alive
    /\ alive' = FALSE
    /\ msgs' = Restrict(msgs, {})
    /\ UNCHANGED <<nextId, req, faults, overlapped>>

\* The process stops: no finally block runs.
Crash ==
    /\ faults < MaxFaults
    /\ faults' = faults + 1
    /\ req' = [r \in Requests |-> Idle]
    /\ UNCHANGED <<msgs, nextId, alive, overlapped>>

(***************************************************************************)
(* Specification.                                                          *)
(***************************************************************************)
Init ==
    /\ msgs = Restrict(<<>>, {})
    /\ nextId = 1
    /\ alive = TRUE
    /\ req = [r \in Requests |-> Idle]
    /\ faults = 0
    /\ overlapped = FALSE

SendNext(r) == SendBegin(r) \/ SendCommit(r)

EditNext(r) == (\E m \in Ids : EditBegin(r, m)) \/ EditCommit(r)

RegenerateNext(r) ==
    \/ RegenerateBegin(r)
    \/ \E m \in Ids : RegenerateMessageBegin(r, m)
    \/ ReadBranch(r) \/ Branch(r) \/ ReadChain(r) \/ Archive(r)

StreamNext(r) ==
    \/ LoadHistory(r) \/ ContextFails(r) \/ StreamStarts(r)
    \/ \E body \in Body : StoreReply(r, body)
    \/ ReplyRefused(r) \/ StoreContinuation(r) \/ StreamEmpty(r)

RewriteNext(r) ==
    \/ \E m \in Ids : EditAssistantBegin(r, m) \/ DeleteBegin(r, m)
    \/ \E body \in {"text", "blank"} : EditAssistantCommit(r, body)
    \/ DeleteCommit(r)

ActivateNext(r) ==
    (\E m \in Ids : ActivateBegin(r, m)) \/ ActivateCheck(r) \/ ActivateSwitch(r)

Next ==
    \/ \E r \in Requests :
          \/ SendNext(r) \/ EditNext(r) \/ RegenerateNext(r) \/ ContinueBegin(r)
          \/ StreamNext(r) \/ RewriteNext(r) \/ ActivateNext(r) \/ StatementFails(r)
    \/ DeleteConversation
    \/ Crash

Spec == Init /\ [][Next]_vars
-----------------------------------------------------------------------------
(***************************************************************************)
(* Properties.                                                             *)
(***************************************************************************)
IsAssistant(m) == msgs[m].role = "assistant"
IsUser(m) == msgs[m].role = "user"

Request == [pc : Pcs, op : Ops, msg : Nat, chain : SUBSET Nat, tip : Nat,
            hist : SUBSET Nat, was : SUBSET Nat]

\* Rows are messages with ids below the counter; requests are well formed.
TypeOK ==
    /\ nextId \in 1..(MaxId + 1)
    /\ Ids \subseteq 1..(nextId - 1)
    /\ msgs \in [Ids -> Message]
    /\ alive \in BOOLEAN
    /\ req \in [Requests -> Request]
    /\ faults \in 0..MaxFaults
    /\ overlapped \in BOOLEAN

\* A parent_id names an older row, and as long as that row exists it is a reply:
\* ids are never reused (AUTOINCREMENT), so a deleted variant's id, still held by
\* a later row or by a request in flight, is never adopted by another message.
\* It is why the walks of _variant_chain end without their guard.
ParentIsVariant ==
    /\ \A m \in Ids : /\ msgs[m].parent < m
                      /\ msgs[m].parent \in Ids => IsAssistant(msgs[m].parent)
    /\ \A r \in Requests : /\ req[r].tip < nextId
                           /\ req[r].tip \in Ids => IsAssistant(req[r].tip)

\* The rows from one user row up to the next: the turn's variants.
SameTurn(m, n) == ~\E u \in Ids : IsUser(u) /\ u \in (m + 1)..n \cup (n + 1)..m

Before(m) == {i \in Ids : i < m}

\* "Keep the variant chain strictly linear": a reply follows either the user row
\* it answers, with no parent, or the variant it replaced, which is its parent.  So
\* every reply has a user row before it: deleting leaves "no dangling reply to a
\* removed turn".
ChainsLinear ==
    \A m \in Ids : IsAssistant(m) =>
        /\ Before(m) # {}
        /\ LET p == Max(Before(m))
           IN  msgs[m].parent = IF IsUser(p) THEN NoParent ELSE p

\* Reads filter active = 1: a turn shows at most one of its variants, and user
\* rows are never archived.  activate_variant commits one variant at a time, so
\* this holds outside a switch, as long as none was cut short.
OneActiveVariant ==
    /\ \A m \in Ids : IsUser(m) => msgs[m].active
    /\ (faults = 0 /\ \A r \in Requests : req[r].pc # "switch") => \A m, n \in ActiveIds :
          IsAssistant(m) /\ IsAssistant(n) /\ SameTurn(m, n) => m = n

\* Both, as long as requests follow one another, as those of one tab do: its page
\* claims a flag while a reply streams.
ThreadShape == ~overlapped => ChainsLinear /\ OneActiveVariant

\* A reply is stored under exactly the prompt it was generated from: the shown
\* rows up to the turn's user row, never the variant it replaces.
PromptKept ==
    \A r \in Requests : req[r].pc = "stream" /\ nextId' # nextId =>
        req[r].hist = {m \in History : \E u \in Ids : IsUser(u) /\ m =< u}
PromptIsThread == [][~overlapped => PromptKept]_vars

\* Regenerating mid-thread truncates the later turns and keeps every variant of
\* the regenerated turn.
VariantsKept ==
    \A r \in Requests : alive' /\ req[r].op = "regenerate_message" =>
        \A m \in Ids : m \notin Ids' => ~SameTurn(m, req[r].msg)

\* A regeneration whose stream ends leaves its turn with exactly one shown
\* variant, and the turns before it as they were, output or not, unless a switch
\* was cut short before.
StreamEnds(r) == req[r].pc = "stream" /\ req'[r].pc = "idle" /\ faults' = 0

TurnAnswered ==
    \A r \in Requests : StreamEnds(r) /\ req[r].op \in Regenerations /\ alive =>
        LET kept == {m \in Ids : \E u \in Ids : IsUser(u) /\ m =< u}
        IN  /\ ActiveIds' \cap kept = req[r].was \cap kept
            /\ Cardinality(ActiveIds' \ kept) = 1

\* Both, as long as requests follow one another.
RegenerationAnswers == [][~overlapped => VariantsKept /\ TurnAnswered]_vars

-----------------------------------------------------------------------------
(***************************************************************************)
(* What comments and docstrings of conversations.py say and the code does  *)
(* not do.                                                                 *)
(***************************************************************************)
\* "Re-activate the archived tip to restore the prior reply, leaving the thread
\* exactly as it was before regenerate": the shown rows are those shown when a
\* regenerate without output began.
RestoreIsExact ==
    [][\A r \in Requests :
          StreamEnds(r) /\ alive /\ req[r].op = "regenerate" /\ Ids' = Ids =>
          ActiveIds' = req[r].was]_vars
=============================================================================
