---------------------------- MODULE ThreadProofs ----------------------------
(***************************************************************************)
(* Theorems about Thread, for any number of requests in flight.            *)
(***************************************************************************)
EXTENDS Thread, FiniteSetTheorems, WellFoundedInduction, TLAPS

\* A nonempty set of naturals has a least element, and Min names it.
LEMMA MinOfNats ==
    ASSUME NEW S \in SUBSET Nat, S # {}
    PROVE  Min(S) \in S /\ \A x \in S : Min(S) =< x
<1>1. \E x \in S : \A y \in S : ~(<<y, x>> \in OpToRel(<, Nat))
  BY WFMin, NatLessThanWellFounded
<1>2. \A x, y \in Nat : y < x => <<y, x>> \in OpToRel(<, Nat)
  BY DEF OpToRel
<1>3. \E x \in S : \A y \in S : x =< y
  <2>1. PICK x \in S : \A y \in S : ~(<<y, x>> \in OpToRel(<, Nat))
    BY <1>1
  <2>2. \A y \in S : ~(y < x)
    BY <2>1, <1>2
  <2> QED
    BY <2>2
<1> QED
  BY <1>3 DEF Min

\* A nonempty bounded set of naturals has a greatest element, and Max names it.
LEMMA MaxOfNats ==
    ASSUME NEW S \in SUBSET Nat, S # {}, NEW n \in Nat, \A x \in S : x =< n
    PROVE  Max(S) \in S /\ \A x \in S : x =< Max(S)
<1> DEFINE D == {n - x : x \in S}
<1>1. D \in SUBSET Nat /\ D # {}
  <2>1. \A x \in S : n - x \in Nat
    OBVIOUS
  <2>2. D \in SUBSET Nat
    BY <2>1
  <2>3. PICK x \in S : TRUE
    OBVIOUS
  <2>4. n - x \in D
    OBVIOUS
  <2> QED
    BY <2>2, <2>4
<1>2. Min(D) \in D /\ \A d \in D : Min(D) =< d
  BY <1>1, MinOfNats
<1>3. PICK m \in S : Min(D) = n - m
  BY <1>2
<1>4. \A x \in S : m >= x
  <2>1. \A x \in S : n - m =< n - x
    BY <1>2, <1>3
  <2> QED
    BY <2>1
<1>5. \E x \in S : \A y \in S : x >= y
  BY <1>4
<1>6. Max(S) \in S /\ \A y \in S : Max(S) >= y
  BY <1>5 DEF Max
<1> QED
  BY <1>6

-----------------------------------------------------------------------------
(***************************************************************************)
(* Type correctness.                                                       *)
(***************************************************************************)
USE MaxIdAssumption, MaxFaultsAssumption

RowsOK ==
    /\ nextId \in 1..(MaxId + 1)
    /\ Ids \subseteq 1..(nextId - 1)
    /\ msgs \in [Ids -> Message]

\* Every way a handler writes the rows keeps them well typed.
LEMMA RowsPreserved ==
    ASSUME RowsOK,
           \/ UNCHANGED <<msgs, nextId>>
           \/ \E role \in {"user", "assistant"}, parent \in Nat, body \in Body :
                 Insert(Row(role, parent, body))
           \/ UNCHANGED nextId /\ \E n : DeleteAfter(n)
           \/ UNCHANGED nextId /\ \E S : S \subseteq Ids /\ msgs' = Restrict(msgs, S)
           \/ UNCHANGED nextId /\ \E S : \E b \in BOOLEAN : SetActive(S, b)
           \/ UNCHANGED nextId /\ \E S : \E b \in Body : SetBody(S, b)
    PROVE  RowsOK'
<1>1. CASE UNCHANGED <<msgs, nextId>>
  BY <1>1 DEF RowsOK, Ids
<1>2. CASE \E role \in {"user", "assistant"}, parent \in Nat, body \in Body :
             Insert(Row(role, parent, body))
  <2>1. PICK role \in {"user", "assistant"}, parent \in Nat, body \in Body :
          Insert(Row(role, parent, body))
    BY <1>2
  <2>2. Row(role, parent, body) \in Message
    BY DEF Row, Message
  <2> QED
    BY <2>1, <2>2 DEF RowsOK, Ids, Insert
<1>3. CASE UNCHANGED nextId /\ \E n : DeleteAfter(n)
  BY <1>3 DEF RowsOK, Ids, DeleteAfter, Restrict
<1>4. CASE UNCHANGED nextId /\ \E S : S \subseteq Ids /\ msgs' = Restrict(msgs, S)
  BY <1>4 DEF RowsOK, Ids, Restrict
<1>5. CASE UNCHANGED nextId /\ \E S : \E b \in BOOLEAN : SetActive(S, b)
  <2>1. PICK S : \E b \in BOOLEAN : SetActive(S, b)
    BY <1>5
  <2>2. PICK b \in BOOLEAN : SetActive(S, b)
    BY <2>1
  <2>3. \A m \in Ids : [msgs[m] EXCEPT !.active = b] \in Message
    BY DEF RowsOK, Message
  <2> QED
    BY <1>5, <2>2, <2>3 DEF RowsOK, Ids, SetActive
<1>6. CASE UNCHANGED nextId /\ \E S : \E b \in Body : SetBody(S, b)
  <2>1. PICK S : \E b \in Body : SetBody(S, b)
    BY <1>6
  <2>2. PICK b \in Body : SetBody(S, b)
    BY <2>1
  <2>3. \A m \in Ids : [msgs[m] EXCEPT !.body = b] \in Message
    BY DEF RowsOK, Message
  <2> QED
    BY <1>6, <2>2, <2>3 DEF RowsOK, Ids, SetBody
<1> QED
  BY <1>1, <1>2, <1>3, <1>4, <1>5, <1>6

IdleOK == Idle \in Request

LEMMA IdleIsRequest == IdleOK
BY DEF IdleOK, Idle, Request, Pcs, Ops

\* The requests stay well formed whatever well-formed record one is set to.
LEMMA RequestPreserved ==
    ASSUME NEW r \in Requests, req \in [Requests -> Request],
           \/ UNCHANGED req
           \/ Finish(r)
           \/ \E pc \in Pcs : Goto(r, pc)
           \/ \E q \in Request : req' = [req EXCEPT ![r] = q]
    PROVE  req' \in [Requests -> Request]
<1>1. \A pc \in Pcs : [req[r] EXCEPT !.pc = pc] \in Request
  BY DEF Request
<1>2. CASE UNCHANGED req
  BY <1>2
<1>3. CASE Finish(r)
  BY <1>3, IdleIsRequest DEF Finish, IdleOK
<1>4. CASE \E pc \in Pcs : Goto(r, pc)
  BY <1>4, <1>1 DEF Goto
<1>5. CASE \E q \in Request : req' = [req EXCEPT ![r] = q]
  BY <1>5
<1> QED
  BY <1>2, <1>3, <1>4, <1>5

LEMMA SetsOfIds ==
    ASSUME RowsOK
    PROVE  ActiveIds \subseteq Nat /\ History \subseteq Nat /\ nextId \in Nat /\ Ids \subseteq Nat
BY DEF RowsOK, ActiveIds, History, Ids

LEMMA TrailingIsId ==
    ASSUME RowsOK
    PROVE  Trailing \in Nat /\ (Trailing # 0 => Trailing \in ActiveIds)
<1>1. CASE ActiveIds = {}
  BY <1>1 DEF Trailing
<1>2. CASE ActiveIds # {}
  <2>1. ActiveIds \in SUBSET Nat /\ \A x \in ActiveIds : x =< nextId
    BY DEF RowsOK, ActiveIds, Ids
  <2>2. Max(ActiveIds) \in ActiveIds
    BY <1>2, <2>1, SetsOfIds, MaxOfNats
  <2> QED
    BY <1>2, <2>1, <2>2 DEF Trailing
<1> QED
  BY <1>1, <1>2

\* The chain a handler reads is a set of rows; if it is not empty its tip is one.
LEMMA ChainIsRows ==
    ASSUME RowsOK, NEW m, NEW C \in VariantChain(m)
    PROVE  /\ C \in SUBSET Nat /\ C \subseteq Ids
           /\ C # {} => Max(C) \in C /\ \A x \in C : x =< Max(C)
<1>1. C \subseteq Ids
  BY DEF VariantChain, Walks
<1>2. C \in SUBSET Nat /\ \A x \in C : x =< nextId
  BY <1>1 DEF RowsOK
<1> QED
  BY <1>1, <1>2, SetsOfIds, MaxOfNats

\* A request that begins, and no other step, decides whether requests overlapped.
LEMMA HistoryKept ==
    ASSUME [Next]_vars
    PROVE  Overlap \/ overlapped' = overlapped
<1> USE DEF Begin
<1>1. ASSUME NEW r \in Requests, SendNext(r) \/ EditNext(r)
      PROVE  Overlap \/ overlapped' = overlapped
  BY <1>1 DEF SendNext, SendBegin, SendCommit, EditNext, EditBegin, EditCommit
<1>2. ASSUME NEW r \in Requests, RegenerateNext(r) \/ ContinueBegin(r)
      PROVE  Overlap \/ overlapped' = overlapped
  BY <1>2 DEF RegenerateNext, RegenerateBegin, RegenerateMessageBegin, ReadBranch, Branch,
              ReadChain, Archive, ContinueBegin
<1>3. ASSUME NEW r \in Requests, StreamNext(r) \/ StatementFails(r)
      PROVE  Overlap \/ overlapped' = overlapped
  BY <1>3 DEF StreamNext, LoadHistory, ContextFails, StreamStarts, StoreReply, ReplyRefused,
              StoreContinuation, StreamEmpty, StatementFails
<1>4. ASSUME NEW r \in Requests, RewriteNext(r) \/ ActivateNext(r)
      PROVE  Overlap \/ overlapped' = overlapped
  BY <1>4 DEF RewriteNext, EditAssistantBegin, EditAssistantCommit, DeleteBegin, DeleteCommit,
              ActivateNext, ActivateBegin, ActivateCheck, ActivateSwitch
<1>5. CASE DeleteConversation \/ Crash \/ UNCHANGED vars
  BY <1>5 DEF DeleteConversation, Crash, vars
<1> QED
  BY <1>1, <1>2, <1>3, <1>4, <1>5 DEF Next

LEMMA OverlappedIsBoolean ==
    ASSUME TypeOK, Overlap \/ overlapped' = overlapped
    PROVE  overlapped' \in BOOLEAN
<1>1. overlapped \in BOOLEAN
  BY DEF TypeOK
<1>2. CASE Overlap
  BY <1>2, Zenon DEF Overlap
<1>3. CASE overlapped' = overlapped
  BY <1>1, <1>3
<1> QED
  BY <1>2, <1>3

LEMMA BeginOK ==
    ASSUME TypeOK, NEW r \in Requests, NEW op \in Ops, NEW pc \in Pcs, NEW m \in Nat,
           Begin(r, op, pc, m)
    PROVE  TypeOK'
<1>0. overlapped' \in BOOLEAN
  BY OverlappedIsBoolean DEF Begin
<1>1. RowsOK
  BY DEF TypeOK, RowsOK
<1>2. [Idle EXCEPT !.pc = pc, !.op = op, !.msg = m, !.was = ActiveIds] \in Request
  BY <1>1, SetsOfIds DEF Idle, Request
<1>3. req' \in [Requests -> Request]
  BY <1>2, RequestPreserved DEF TypeOK, Begin
<1> QED
  BY <1>0, <1>3 DEF TypeOK, Begin, Ids

\* A step is well typed when its rows, its requests and the scalars are.
LEMMA TypeOKParts ==
    ASSUME RowsOK', req' \in [Requests -> Request], alive' \in BOOLEAN, faults' \in 0..MaxFaults,
           overlapped' \in BOOLEAN
    PROVE  TypeOK'
BY DEF TypeOK, RowsOK, Ids

LEMMA TypeOKStep ==
    ASSUME TypeOK, [Next]_vars
    PROVE  TypeOK'
<1> USE DEF Pcs, Ops, Regenerations
<1>0. /\ RowsOK /\ req \in [Requests -> Request] /\ alive \in BOOLEAN /\ faults \in 0..MaxFaults
      /\ overlapped' \in BOOLEAN
  <2>1. overlapped' \in BOOLEAN
    BY HistoryKept, OverlappedIsBoolean
  <2> QED
    BY <2>1 DEF TypeOK, RowsOK
<1>a. /\ ActiveIds \subseteq Nat /\ History \subseteq Nat /\ nextId \in Nat /\ Ids \subseteq Nat
      /\ Trailing \in Nat
  BY <1>0, SetsOfIds, TrailingIsId
<1>1. ASSUME NEW r \in Requests, SendNext(r)
      PROVE  TypeOK'
  <2>1. CASE SendBegin(r)
    <3>1. [Idle EXCEPT !.pc = "insert", !.op = "send", !.hist = History, !.was = ActiveIds] \in Request
      BY <1>a DEF Idle, Request
    <3> QED
      BY <2>1, <3>1, <1>0, RowsPreserved, RequestPreserved, TypeOKParts DEF SendBegin
  <2>2. CASE SendCommit(r)
    <3>1. [req[r] EXCEPT !.pc = "gather", !.msg = nextId, !.hist = @ \cup {nextId}] \in Request
      BY <1>0, <1>a DEF Request
    <3>2. RowsOK'
      <4>1. "user" \in {"user", "assistant"} /\ NoParent \in Nat /\ "text" \in Body
        BY DEF NoParent, Body
      <4> QED
        BY <2>2, <4>1, <1>0, RowsPreserved DEF SendCommit
    <3>3. req' = [req EXCEPT ![r] = [req[r] EXCEPT !.pc = "gather", !.msg = nextId,
                                                   !.hist = @ \cup {nextId}]]
      BY <2>2 DEF SendCommit
    <3> QED
      BY <2>2, <3>1, <3>2, <3>3, <1>0, RequestPreserved, TypeOKParts DEF SendCommit
  <2> QED
    BY <1>1, <2>1, <2>2 DEF SendNext
<1>2. ASSUME NEW r \in Requests, EditNext(r)
      PROVE  TypeOK'
  <2>1. CASE \E m \in Ids : EditBegin(r, m)
    BY <2>1, <1>a, BeginOK DEF EditBegin
  <2>2. CASE EditCommit(r)
    BY <2>2, <1>0, RowsPreserved, RequestPreserved, TypeOKParts DEF EditCommit
  <2> QED
    BY <1>2, <2>1, <2>2 DEF EditNext
<1>3. ASSUME NEW r \in Requests, RegenerateNext(r)
      PROVE  TypeOK'
  <2>1. CASE RegenerateBegin(r)
    BY <2>1, <1>a, BeginOK DEF RegenerateBegin
  <2>2. CASE \E m \in Ids : RegenerateMessageBegin(r, m)
    BY <2>2, <1>a, BeginOK DEF RegenerateMessageBegin
  <2>3. CASE ReadBranch(r)
    <3>1. PICK C \in VariantChain(req[r].msg) :
            req' = [req EXCEPT ![r].pc = "truncate",
                               ![r].tip = IF C = {} THEN req[r].msg ELSE Max(C)]
      BY <2>3 DEF ReadBranch
    <3>2. (IF C = {} THEN req[r].msg ELSE Max(C)) \in Nat
      BY <1>0, ChainIsRows DEF Request
    <3>3. [req[r] EXCEPT !.pc = "truncate", !.tip = IF C = {} THEN req[r].msg ELSE Max(C)] \in Request
      BY <1>0, <3>2 DEF Request
    <3> QED
      BY <2>3, <3>1, <3>3, <1>0, RowsPreserved, RequestPreserved, TypeOKParts DEF ReadBranch
  <2>4. CASE Branch(r)
    BY <2>4, <1>0, RowsPreserved, RequestPreserved, TypeOKParts DEF Branch
  <2>5. CASE ReadChain(r)
    <3>1. PICK C \in VariantChain(req[r].msg) :
            LET chain == IF C = {} THEN {req[r].msg} ELSE C
            IN  req' = [req EXCEPT ![r].pc = "archive", ![r].chain = chain, ![r].tip = Max(chain)]
      BY <2>5 DEF ReadChain
    <3> DEFINE chain == IF C = {} THEN {req[r].msg} ELSE C
    <3>2. chain \in SUBSET Nat /\ Max(chain) \in Nat
      <4>1. CASE C = {}
        <5>1. req[r].msg \in Nat
          BY <1>0 DEF Request
        <5> QED
          BY <4>1, <5>1, MaxOfNats
      <4>2. CASE C # {}
        BY <4>2, <1>0, ChainIsRows
      <4> QED
        BY <4>1, <4>2
    <3>3. [req[r] EXCEPT !.pc = "archive", !.chain = chain, !.tip = Max(chain)] \in Request
      BY <1>0, <3>2 DEF Request
    <3> QED
      BY <2>5, <3>1, <3>3, <1>0, RowsPreserved, RequestPreserved, TypeOKParts DEF ReadChain
  <2>6. CASE Archive(r)
    BY <2>6, <1>0, RowsPreserved, RequestPreserved, TypeOKParts DEF Archive
  <2> QED
    BY <1>3, <2>1, <2>2, <2>3, <2>4, <2>5, <2>6 DEF RegenerateNext
<1>4. ASSUME NEW r \in Requests, ContinueBegin(r)
      PROVE  TypeOK'
  BY <1>4, <1>a, BeginOK DEF ContinueBegin
<1>5. ASSUME NEW r \in Requests, StreamNext(r)
      PROVE  TypeOK'
  <2>1. CASE LoadHistory(r)
    <3>1. [req[r] EXCEPT !.pc = "gather", !.hist = History] \in Request
      BY <1>0, <1>a DEF Request
    <3> QED
      BY <2>1, <3>1, <1>0, RowsPreserved, RequestPreserved, TypeOKParts DEF LoadHistory
  <2>2. CASE ContextFails(r) \/ StreamStarts(r) \/ ReplyRefused(r)
    BY <2>2, <1>0, RowsPreserved, RequestPreserved, TypeOKParts
    DEF ContextFails, StreamStarts, ReplyRefused
  <2>3. CASE \E body \in Body : StoreReply(r, body)
    <3>1. req[r].tip \in Nat
      BY <1>0 DEF Request
    <3> QED
      BY <2>3, <3>1, <1>0, RowsPreserved, RequestPreserved, TypeOKParts DEF StoreReply
  <2>4. CASE StoreContinuation(r)
    BY <2>4, <1>0, RowsPreserved, RequestPreserved, TypeOKParts DEF StoreContinuation, Body
  <2>5. CASE StreamEmpty(r)
    BY <2>5, <1>0, RowsPreserved, RequestPreserved, TypeOKParts DEF StreamEmpty
  <2> QED
    BY <1>5, <2>1, <2>2, <2>3, <2>4, <2>5 DEF StreamNext
<1>6. ASSUME NEW r \in Requests, RewriteNext(r)
      PROVE  TypeOK'
  <2>1. CASE \E m \in Ids : EditAssistantBegin(r, m)
    BY <2>1, <1>a, BeginOK DEF EditAssistantBegin
  <2>2. CASE \E m \in Ids : DeleteBegin(r, m)
    BY <2>2, <1>a, BeginOK DEF DeleteBegin
  <2>3. CASE \E body \in {"text", "blank"} : EditAssistantCommit(r, body)
    BY <2>3, <1>0, RowsPreserved, RequestPreserved, TypeOKParts DEF EditAssistantCommit, Body
  <2>4. CASE DeleteCommit(r)
    <3>1. {m \in Ids : m < req[r].msg} \subseteq Ids
      OBVIOUS
    <3> QED
      BY <2>4, <3>1, <1>0, RowsPreserved, RequestPreserved, TypeOKParts DEF DeleteCommit
  <2> QED
    BY <1>6, <2>1, <2>2, <2>3, <2>4 DEF RewriteNext
<1>7. ASSUME NEW r \in Requests, ActivateNext(r)
      PROVE  TypeOK'
  <2>1. CASE \E m \in Ids : ActivateBegin(r, m)
    <3>0. PICK m \in Ids : ActivateBegin(r, m)
      BY <2>1
    <3>1. PICK C \in VariantChain(m) :
            req' = [req EXCEPT ![r] = [Idle EXCEPT !.pc = "check", !.op = "activate",
                                                   !.msg = m, !.chain = C]]
      BY <3>0 DEF ActivateBegin
    <3>2. [Idle EXCEPT !.pc = "check", !.op = "activate", !.msg = m, !.chain = C] \in Request
      BY <1>0, <1>a, ChainIsRows DEF Idle, Request
    <3> QED
      BY <2>1, <3>1, <3>2, <1>0, RowsPreserved, RequestPreserved, TypeOKParts DEF ActivateBegin
  <2>2. CASE ActivateCheck(r)
    BY <2>2, <1>0, RowsPreserved, RequestPreserved, TypeOKParts DEF ActivateCheck
  <2>3. CASE ActivateSwitch(r)
    <3> DEFINE v == Min(req[r].chain)
    <3>1. [req[r] EXCEPT !.chain = req[r].chain \ {v}] \in Request
      BY <1>0 DEF Request
    <3>2. SetActive({v}, v = req[r].msg) /\ (v = req[r].msg) \in BOOLEAN
      BY <2>3 DEF ActivateSwitch
    <3>3. Finish(r) \/ req' = [req EXCEPT ![r] = [req[r] EXCEPT !.chain = req[r].chain \ {v}]]
      BY <2>3 DEF ActivateSwitch
    <3>4. req' \in [Requests -> Request]
      BY <3>1, <3>3, <1>0, RequestPreserved
    <3>5. RowsOK'
      BY <2>3, <3>2, <1>0, RowsPreserved DEF ActivateSwitch
    <3> QED
      BY <2>3, <3>4, <3>5, <1>0, TypeOKParts DEF ActivateSwitch
  <2> QED
    BY <1>7, <2>1, <2>2, <2>3 DEF ActivateNext
<1>8. ASSUME NEW r \in Requests, StatementFails(r)
      PROVE  TypeOK'
  <2>1. RowsOK'
    BY <1>8, <1>0, RowsPreserved DEF StatementFails
  <2> QED
    BY <1>8, <2>1, <1>0, RequestPreserved, TypeOKParts DEF StatementFails
<1>9. CASE DeleteConversation
  <2>1. RowsOK'
    BY <1>9, <1>0, RowsPreserved DEF DeleteConversation
  <2> QED
    BY <1>9, <2>1, <1>0, TypeOKParts DEF DeleteConversation
<1>10. CASE Crash
  <2>1. RowsOK'
    BY <1>10, <1>0, RowsPreserved DEF Crash
  <2>2. req' \in [Requests -> Request]
    BY <1>10, IdleIsRequest DEF Crash, IdleOK
  <2> QED
    BY <1>10, <2>1, <2>2, <1>0, TypeOKParts DEF Crash
<1>11. CASE UNCHANGED vars
  BY <1>11 DEF vars, TypeOK, Ids
<1> QED
  BY <1>1, <1>2, <1>3, <1>4, <1>5, <1>6, <1>7, <1>8, <1>9, <1>10, <1>11 DEF Next

LEMMA TypeOKInit ==
    ASSUME Init
    PROVE  TypeOK
<1>1. Ids = {} /\ msgs \in [Ids -> Message]
  BY DEF Init, Restrict, Ids
<1>2. req \in [Requests -> Request]
  BY IdleIsRequest DEF Init, IdleOK
<1>3. overlapped \in BOOLEAN
  BY DEF Init
<1> QED
  BY <1>1, <1>2, <1>3 DEF Init, TypeOK

\* Rows and requests keep their shape, and every row's id is below the counter,
\* whatever the interleaving of the handlers.
THEOREM TypeCorrect == Spec => []TypeOK
<1>1. Init => TypeOK
  BY TypeOKInit
<1>2. TypeOK /\ [Next]_vars => TypeOK'
  BY TypeOKStep
<1> QED
  BY <1>1, <1>2, PTL DEF Spec

-----------------------------------------------------------------------------
(***************************************************************************)
(* Parents are variants.                                                   *)
(*                                                                         *)
(* The invariant is strengthened with what makes it inductive: user rows   *)
(* have no parent, and a regeneration's target, read as a reply, stays one *)
(* or is gone, because its id is never given to another row.               *)
(***************************************************************************)
ReplyOrGone(m) == m < nextId /\ (m \in Ids => IsAssistant(m))

LinksOK ==
    \A m \in Ids : /\ msgs[m].parent < m
                   /\ msgs[m].parent \in Ids => IsAssistant(msgs[m].parent)
                   /\ IsUser(m) => msgs[m].parent = NoParent

RequestOK(q) ==
    /\ ReplyOrGone(q.tip)
    /\ q.pc \in {"branch", "truncate", "chain"} => ReplyOrGone(q.msg)

LinkInv == TypeOK /\ LinksOK /\ \A r \in Requests : RequestOK(req[r])

LEMMA LinkInvImplies == LinkInv => ParentIsVariant
BY DEF LinkInv, LinksOK, RequestOK, ReplyOrGone, ParentIsVariant

\* Rows may go and fields other than role and parent may change.
SameLinks ==
    /\ nextId' = nextId
    /\ Ids' \subseteq Ids
    /\ \A m \in Ids' : msgs'[m].role = msgs[m].role /\ msgs'[m].parent = msgs[m].parent

LEMMA WritesKeepLinks ==
    ASSUME TypeOK, nextId' = nextId,
           \/ msgs' = msgs
           \/ \E n : DeleteAfter(n)
           \/ \E S : S \subseteq Ids /\ msgs' = Restrict(msgs, S)
           \/ \E S : \E b \in BOOLEAN : SetActive(S, b)
           \/ \E S : \E b \in Body : SetBody(S, b)
    PROVE  SameLinks
<1>0. msgs \in [Ids -> Message]
  BY DEF TypeOK
<1>1. CASE msgs' = msgs
  BY <1>1 DEF SameLinks, Ids
<1>2. CASE \E n : DeleteAfter(n)
  BY <1>2 DEF SameLinks, Ids, DeleteAfter, Restrict
<1>3. CASE \E S : S \subseteq Ids /\ msgs' = Restrict(msgs, S)
  BY <1>3 DEF SameLinks, Ids, Restrict
<1>4. CASE \E S : \E b \in BOOLEAN : SetActive(S, b)
  <2>1. PICK S : \E b \in BOOLEAN : SetActive(S, b)
    BY <1>4
  <2>2. PICK b \in BOOLEAN : SetActive(S, b)
    BY <2>1
  <2>3. \A m \in Ids : /\ [msgs[m] EXCEPT !.active = b].role = msgs[m].role
                       /\ [msgs[m] EXCEPT !.active = b].parent = msgs[m].parent
    BY <1>0 DEF Message
  <2> QED
    BY <2>2, <2>3 DEF SameLinks, Ids, SetActive
<1>5. CASE \E S : \E b \in Body : SetBody(S, b)
  <2>1. PICK S : \E b \in Body : SetBody(S, b)
    BY <1>5
  <2>2. PICK b \in Body : SetBody(S, b)
    BY <2>1
  <2>3. \A m \in Ids : /\ [msgs[m] EXCEPT !.body = b].role = msgs[m].role
                       /\ [msgs[m] EXCEPT !.body = b].parent = msgs[m].parent
    BY <1>0 DEF Message
  <2> QED
    BY <2>2, <2>3 DEF SameLinks, Ids, SetBody
<1> QED
  BY <1>1, <1>2, <1>3, <1>4, <1>5

LEMMA SameLinksKeep ==
    ASSUME LinksOK, SameLinks
    PROVE  LinksOK' /\ \A m \in Nat : ReplyOrGone(m) => ReplyOrGone(m)'
BY DEF LinksOK, SameLinks, ReplyOrGone, IsAssistant, IsUser

\* The id of an inserted row is new: no row and no request refers to it.
LEMMA InsertKeepsLinks ==
    ASSUME TypeOK, LinksOK, NEW role \in {"user", "assistant"}, NEW parent \in Nat, NEW body,
           ReplyOrGone(parent), role = "user" => parent = NoParent,
           Insert(Row(role, parent, body))
    PROVE  LinksOK' /\ \A m \in Nat : ReplyOrGone(m) => ReplyOrGone(m)'
<1>1. /\ Ids' = Ids \cup {nextId} /\ nextId' = nextId + 1
      /\ msgs'[nextId].role = role /\ msgs'[nextId].parent = parent
      /\ \A m \in Ids : m # nextId => msgs'[m] = msgs[m]
  BY DEF Insert, Row, Ids
<1>2. nextId \in Nat /\ \A m \in Ids : m \in Nat /\ m < nextId
  BY DEF TypeOK
<1>3. ASSUME NEW m \in Nat, ReplyOrGone(m)
      PROVE  ReplyOrGone(m)'
  <2>1. m < nextId /\ m # nextId
    BY <1>2, <1>3 DEF ReplyOrGone
  <2> QED
    BY <1>1, <1>2, <1>3, <2>1 DEF ReplyOrGone, IsAssistant
<1>4. ASSUME NEW m \in Ids'
      PROVE  /\ msgs'[m].parent < m
             /\ msgs'[m].parent \in Ids' => IsAssistant(msgs[m].parent)'
             /\ IsUser(m)' => msgs'[m].parent = NoParent
  <2>1. CASE m = nextId
    BY <2>1, <1>1, <1>2, <1>3 DEF ReplyOrGone, IsUser
  <2>2. CASE m \in Ids
    <3>1. msgs'[m] = msgs[m] /\ m < nextId
      BY <2>2, <1>1, <1>2
    <3>2. msgs[m].parent < m /\ msgs[m].parent \in Nat
      BY <2>2 DEF LinksOK, TypeOK, Message
    <3>3. ReplyOrGone(msgs[m].parent)
      BY <2>2, <3>1, <3>2, <1>2 DEF ReplyOrGone, LinksOK
    <3> QED
      BY <2>2, <3>1, <3>2, <3>3, <1>3 DEF ReplyOrGone, LinksOK, IsUser
  <2> QED
    BY <2>1, <2>2, <1>1
<1> QED
  BY <1>3, <1>4 DEF LinksOK

\* What a request's step has to show: its rows keep the links, and it is the only
\* request that changes.
LEMMA RequestStep ==
    ASSUME LinkInv, TypeOK', LinksOK', NEW r \in Requests,
           \A m \in Nat : ReplyOrGone(m) => ReplyOrGone(m)',
           \A s \in Requests \ {r} : req'[s] = req[s],
           RequestOK(req[r])'
    PROVE  LinkInv'
<1>1. ASSUME NEW s \in Requests
      PROVE  RequestOK(req[s])'
  <2>1. CASE s = r
    BY <2>1
  <2>2. CASE s # r
    <3>1. req[s].tip \in Nat /\ req[s].msg \in Nat
      BY DEF LinkInv, TypeOK, Request
    <3>2. RequestOK(req[s]) /\ req'[s] = req[s]
      BY <2>2 DEF LinkInv
    <3> QED
      BY <3>1, <3>2 DEF RequestOK
  <2> QED
    BY <2>1, <2>2
<1> QED
  BY <1>1 DEF LinkInv

\* In a walk that holds one reply, every row is a reply: the rows other than the
\* root have a parent, so they are replies, and the root is the parent of the
\* least of them.
LEMMA WalkOfReplies ==
    ASSUME TypeOK, LinksOK, NEW C \in Walks, NEW m \in C, IsAssistant(m)
    PROVE  \A x \in C : IsAssistant(x)
<1>1. C \subseteq Ids /\ C \in SUBSET Nat /\ IsWalk(C)
  BY DEF Walks, TypeOK
<1>2. PICK root \in C : \A x \in C \ {root} : msgs[x].parent \in C
  BY <1>1 DEF IsWalk
<1>3. ASSUME NEW x \in C \ {root}
      PROVE  IsAssistant(x) /\ msgs[x].parent \in C
  <2>0. 0 \notin Ids
    BY DEF TypeOK
  <2>1. msgs[x].parent \in Ids /\ msgs[x].parent # NoParent
    BY <1>1, <1>2, <1>3, <2>0 DEF NoParent
  <2>2. msgs[x].role \in {"user", "assistant"}
    BY <1>1 DEF TypeOK, Message
  <2> QED
    BY <1>1, <1>2, <2>1, <2>2 DEF LinksOK, IsUser, IsAssistant
<1>4. CASE C \ {root} = {}
  BY <1>4
<1>5. CASE C \ {root} # {}
  <2> DEFINE k == Min(C \ {root})
  <2>1. k \in C \ {root} /\ \A x \in C \ {root} : k =< x
    BY <1>1, <1>5, MinOfNats
  <2>2. msgs[k].parent \in C /\ msgs[k].parent < k
    BY <1>1, <1>3, <2>1 DEF LinksOK
  <2>3. msgs[k].parent \in Nat /\ k \in Nat
    BY <1>1, <2>1, <2>2
  <2>4. msgs[k].parent = root
    BY <2>1, <2>2, <2>3
  <2>5. IsAssistant(root)
    BY <1>1, <2>1, <2>4 DEF LinksOK
  <2> QED
    BY <1>3, <2>5
<1> QED
  BY <1>4, <1>5

\* So the chain read for a reply, or for a reply that is gone, ends in one.
LEMMA ChainOfReplies ==
    ASSUME TypeOK, LinksOK, NEW m \in Nat, ReplyOrGone(m), NEW C \in VariantChain(m), C # {}
    PROVE  ReplyOrGone(Max(C))
<1>1. RowsOK
  BY DEF TypeOK, RowsOK
<1>2. Max(C) \in C /\ C \subseteq Ids
  BY <1>1, ChainIsRows
<1>3. m \in Ids /\ IsAssistant(m)
  BY DEF VariantChain, ReplyOrGone
<1>4. PICK D \in Walks : m \in D /\ C \cap D # {}
  BY <1>3 DEF VariantChain
<1>5. C \in Walks
  BY <1>3 DEF VariantChain
<1>6. \A x \in D : IsAssistant(x)
  BY <1>3, <1>4, WalkOfReplies
<1>7. \A x \in C : IsAssistant(x)
  BY <1>4, <1>5, <1>6, WalkOfReplies
<1> QED
  <2>1. \A x \in Ids : x < nextId
    BY DEF TypeOK
  <2> QED
    BY <1>2, <1>7, <2>1 DEF ReplyOrGone

\* The links are kept and a reply stays one or goes.
Kept == LinksOK' /\ \A m \in Nat : ReplyOrGone(m) => ReplyOrGone(m)'

LEMMA WritesKeep ==
    ASSUME LinkInv, nextId' = nextId,
           \/ msgs' = msgs
           \/ \E n : DeleteAfter(n)
           \/ \E S : S \subseteq Ids /\ msgs' = Restrict(msgs, S)
           \/ \E S : \E b \in BOOLEAN : SetActive(S, b)
           \/ \E S : \E b \in Body : SetBody(S, b)
    PROVE  Kept
BY WritesKeepLinks, SameLinksKeep DEF LinkInv, Kept

\* No row has the id 0.
LEMMA ZeroIsGone ==
    ASSUME TypeOK'
    PROVE  ReplyOrGone(0)'
<1>1. nextId' \in 1..(MaxId + 1) /\ Ids' \subseteq 1..(nextId' - 1)
  BY DEF TypeOK
<1>2. 0 < nextId'
  BY <1>1
<1>3. 0 \notin Ids'
  <2>1. 0 \notin 1..(nextId' - 1)
    BY <1>1
  <2> QED
    BY <1>1, <2>1
<1> QED
  BY <1>2, <1>3 DEF ReplyOrGone

\* A request outside the chain reads is well linked by its tip alone.
LEMMA TipSuffices ==
    ASSUME LinkInv, Kept, NEW r \in Requests,
           req'[r].pc \notin {"branch", "truncate", "chain"},
           req'[r].tip = req[r].tip \/ req'[r].tip = 0,
           TypeOK'
    PROVE  RequestOK(req[r])'
<1>1. ReplyOrGone(0)'
  BY ZeroIsGone
<1>2. req[r].tip \in Nat /\ ReplyOrGone(req[r].tip)
  BY DEF LinkInv, TypeOK, Request, RequestOK
<1> QED
  BY <1>1, <1>2 DEF Kept, RequestOK

\* Idle requests are.
LEMMA FinishKeeps ==
    ASSUME LinkInv, TypeOK', Kept, NEW r \in Requests, Finish(r)
    PROVE  LinkInv'
<1>1. req'[r] = Idle /\ \A s \in Requests \ {r} : req'[s] = req[s]
  BY DEF Finish, LinkInv, TypeOK
<1>2. RequestOK(req[r])'
  BY <1>1, TipSuffices DEF Idle
<1> QED
  BY <1>1, <1>2, RequestStep DEF Kept

LEMMA GotoKeeps ==
    ASSUME LinkInv, TypeOK', Kept, NEW r \in Requests, NEW pc, Goto(r, pc),
           pc \notin {"branch", "truncate", "chain"} \/ req[r].pc \in {"branch", "truncate", "chain"}
    PROVE  LinkInv'
<1>1. /\ req'[r].pc = pc /\ req'[r].tip = req[r].tip /\ req'[r].msg = req[r].msg
      /\ \A s \in Requests \ {r} : req'[s] = req[s]
  BY DEF Goto, LinkInv, TypeOK, Request
<1>2. CASE pc \notin {"branch", "truncate", "chain"}
  <2>1. RequestOK(req[r])'
    BY <1>1, <1>2, TipSuffices
  <2> QED
    BY <1>1, <2>1, RequestStep DEF Kept
<1>3. CASE req[r].pc \in {"branch", "truncate", "chain"}
  <2>1. req[r].tip \in Nat /\ req[r].msg \in Nat /\ RequestOK(req[r])
    BY DEF LinkInv, TypeOK, Request
  <2>2. RequestOK(req[r])'
    BY <1>1, <1>3, <2>1 DEF Kept, RequestOK
  <2> QED
    BY <1>1, <2>2, RequestStep DEF Kept
<1> QED
  BY <1>2, <1>3

LEMMA BeginKeeps ==
    ASSUME LinkInv, TypeOK', NEW r \in Requests, NEW op, NEW pc, NEW m \in Nat,
           Begin(r, op, pc, m),
           pc \in {"branch", "truncate", "chain"} => ReplyOrGone(m)
    PROVE  LinkInv'
<1>1. Kept
  BY WritesKeep DEF Begin
<1>2. /\ req'[r].pc = pc /\ req'[r].tip = 0 /\ req'[r].msg = m
      /\ \A s \in Requests \ {r} : req'[s] = req[s]
  BY DEF Begin, Idle, LinkInv, TypeOK
<1>3. RequestOK(req[r])'
  <2>1. CASE pc \notin {"branch", "truncate", "chain"}
    BY <1>1, <1>2, <2>1, TipSuffices
  <2>2. CASE pc \in {"branch", "truncate", "chain"}
    <3>1. ReplyOrGone(0)'
      BY ZeroIsGone
    <3>2. ReplyOrGone(m)'
      BY <1>1, <2>2 DEF Kept
    <3> QED
      BY <1>2, <3>1, <3>2 DEF RequestOK
  <2> QED
    BY <2>1, <2>2
<1> QED
  BY <1>1, <1>2, <1>3, RequestStep DEF Kept

LEMMA LinkInvStep ==
    ASSUME LinkInv, [Next]_vars
    PROVE  LinkInv'
<1>0. TypeOK /\ TypeOK' /\ LinksOK /\ RowsOK
  BY TypeOKStep DEF LinkInv, TypeOK, RowsOK
<1>a. /\ \A r \in Requests : RequestOK(req[r]) /\ req[r].msg \in Nat /\ req[r].tip \in Nat
      /\ Ids \subseteq Nat /\ Trailing \in Nat /\ (Trailing # 0 => Trailing \in ActiveIds)
  BY <1>0, SetsOfIds, TrailingIsId DEF LinkInv, TypeOK, Request
<1>b. \A m \in Ids : IsAssistant(m) => ReplyOrGone(m)
  <2>1. \A m \in Ids : m < nextId
    BY <1>0 DEF TypeOK
  <2> QED
    BY <2>1 DEF ReplyOrGone
<1>1. ASSUME NEW r \in Requests, SendNext(r)
      PROVE  LinkInv'
  <2>1. CASE SendBegin(r)
    <3>1. Kept
      BY <2>1, WritesKeep DEF SendBegin
    <3>2. /\ req'[r].pc = "insert" /\ req'[r].tip = 0
          /\ \A s \in Requests \ {r} : req'[s] = req[s]
      BY <2>1 DEF SendBegin, Idle, LinkInv, TypeOK
    <3>3. RequestOK(req[r])'
      BY <1>0, <3>1, <3>2, TipSuffices
    <3> QED
      BY <1>0, <3>1, <3>2, <3>3, RequestStep DEF Kept
  <2>2. CASE SendCommit(r)
    <3>1. Kept
      <4>1. NoParent \in Nat /\ ReplyOrGone(NoParent)
        BY <1>0 DEF NoParent, ReplyOrGone, TypeOK
      <4> QED
        BY <2>2, <1>0, <4>1, InsertKeepsLinks DEF SendCommit, Kept
    <3>2. req' = [req EXCEPT ![r] = [req[r] EXCEPT !.pc = "gather", !.msg = nextId,
                                                   !.hist = @ \cup {nextId}]]
      BY <2>2 DEF SendCommit
    <3>3. /\ req'[r].pc = "gather" /\ req'[r].tip = req[r].tip
          /\ \A s \in Requests \ {r} : req'[s] = req[s]
      BY <3>2 DEF LinkInv, TypeOK, Request
    <3>4. RequestOK(req[r])'
      BY <1>0, <3>1, <3>3, TipSuffices
    <3> QED
      BY <1>0, <3>1, <3>3, <3>4, RequestStep DEF Kept
  <2> QED
    BY <1>1, <2>1, <2>2 DEF SendNext
<1>2. ASSUME NEW r \in Requests, EditNext(r)
      PROVE  LinkInv'
  <2>1. CASE \E m \in Ids : EditBegin(r, m)
    BY <2>1, <1>0, <1>a, BeginKeeps DEF EditBegin
  <2>2. CASE EditCommit(r)
    BY <2>2, <1>0, WritesKeep, GotoKeeps DEF EditCommit
  <2> QED
    BY <1>2, <2>1, <2>2 DEF EditNext
<1>3. ASSUME NEW r \in Requests, RegenerateNext(r)
      PROVE  LinkInv'
  <2>1. CASE RegenerateBegin(r)
    <3>1. Trailing \in Nat /\ ReplyOrGone(Trailing)
      BY <2>1, <1>a, <1>b DEF RegenerateBegin, ActiveIds, IsAssistant
    <3> QED
      BY <2>1, <3>1, <1>0, BeginKeeps DEF RegenerateBegin
  <2>2. CASE \E m \in Ids : RegenerateMessageBegin(r, m)
    <3>1. PICK m \in Ids : RegenerateMessageBegin(r, m)
      BY <2>2
    <3>2. m \in Nat /\ ReplyOrGone(m)
      BY <3>1, <1>a, <1>b DEF RegenerateMessageBegin, IsAssistant
    <3> QED
      BY <3>1, <3>2, <1>0, BeginKeeps DEF RegenerateMessageBegin
  <2>3. CASE ReadBranch(r)
    <3>1. PICK C \in VariantChain(req[r].msg) :
            req' = [req EXCEPT ![r].pc = "truncate",
                               ![r].tip = IF C = {} THEN req[r].msg ELSE Max(C)]
      BY <2>3 DEF ReadBranch
    <3> DEFINE t == IF C = {} THEN req[r].msg ELSE Max(C)
    <3>2. ReplyOrGone(req[r].msg)
      BY <2>3, <1>a DEF ReadBranch, RequestOK
    <3>3. t \in Nat /\ ReplyOrGone(t)
      BY <3>2, <1>0, <1>a, ChainIsRows, ChainOfReplies
    <3>4. Kept
      BY <2>3, WritesKeep DEF ReadBranch
    <3>5. req' = [req EXCEPT ![r] = [req[r] EXCEPT !.pc = "truncate", !.tip = t]]
      BY <3>1
    <3>6. /\ req'[r].pc = "truncate" /\ req'[r].msg = req[r].msg /\ req'[r].tip = t
          /\ \A s \in Requests \ {r} : req'[s] = req[s]
      BY <3>5, <1>0 DEF TypeOK, Request
    <3>7. RequestOK(req[r])'
      BY <3>2, <3>3, <3>4, <3>6, <1>a DEF Kept, RequestOK
    <3> QED
      BY <3>4, <3>6, <3>7, <1>0, RequestStep DEF Kept
  <2>4. CASE Branch(r)
    BY <2>4, <1>0, WritesKeep, GotoKeeps DEF Branch
  <2>5. CASE ReadChain(r)
    <3>1. PICK C \in VariantChain(req[r].msg) :
            LET chain == IF C = {} THEN {req[r].msg} ELSE C
            IN  req' = [req EXCEPT ![r].pc = "archive", ![r].chain = chain, ![r].tip = Max(chain)]
      BY <2>5 DEF ReadChain
    <3> DEFINE chain == IF C = {} THEN {req[r].msg} ELSE C
    <3>2. ReplyOrGone(req[r].msg)
      BY <2>5, <1>a DEF ReadChain, RequestOK
    <3>3. Max(chain) \in Nat /\ ReplyOrGone(Max(chain))
      <4>1. CASE C = {}
        <5>1. chain = {req[r].msg} /\ req[r].msg \in Nat
          BY <4>1, <1>a
        <5>2. Max({req[r].msg}) = req[r].msg
          <6> DEFINE S == {req[r].msg}
          <6>1. S \in SUBSET Nat /\ S # {} /\ \A x \in S : x =< req[r].msg
            BY <5>1
          <6> HIDE DEF S
          <6>2. Max(S) \in S
            BY <5>1, <6>1, MaxOfNats
          <6> QED
            BY <6>2 DEF S
        <5> QED
          BY <5>1, <5>2, <3>2
      <4>2. CASE C # {}
        BY <4>2, <3>2, <1>0, <1>a, ChainIsRows, ChainOfReplies
      <4> QED
        BY <4>1, <4>2
    <3>4. Kept
      BY <2>5, WritesKeep DEF ReadChain
    <3>5. req' = [req EXCEPT ![r] = [req[r] EXCEPT !.pc = "archive", !.chain = chain,
                                                   !.tip = Max(chain)]]
      BY <3>1
    <3>6. /\ req'[r].pc = "archive" /\ req'[r].tip = Max(chain)
          /\ \A s \in Requests \ {r} : req'[s] = req[s]
      BY <3>5, <1>0 DEF TypeOK, Request
    <3>7. RequestOK(req[r])'
      BY <3>3, <3>4, <3>6 DEF Kept, RequestOK
    <3> QED
      BY <3>4, <3>6, <3>7, <1>0, RequestStep DEF Kept
  <2>6. CASE Archive(r)
    BY <2>6, <1>0, WritesKeep, GotoKeeps DEF Archive
  <2> QED
    BY <1>3, <2>1, <2>2, <2>3, <2>4, <2>5, <2>6 DEF RegenerateNext
<1>4. ASSUME NEW r \in Requests, ContinueBegin(r)
      PROVE  LinkInv'
  BY <1>4, <1>0, <1>a, BeginKeeps DEF ContinueBegin
<1>5. ASSUME NEW r \in Requests, StreamNext(r)
      PROVE  LinkInv'
  <2>1. CASE LoadHistory(r)
    <3>1. Kept
      BY <2>1, WritesKeep DEF LoadHistory
    <3>2. req' = [req EXCEPT ![r] = [req[r] EXCEPT !.pc = "gather", !.hist = History]]
      BY <2>1 DEF LoadHistory
    <3>3. /\ req'[r].pc = "gather" /\ req'[r].tip = req[r].tip
          /\ \A s \in Requests \ {r} : req'[s] = req[s]
      BY <3>2, <1>0 DEF TypeOK, Request
    <3>4. RequestOK(req[r])'
      BY <1>0, <3>1, <3>3, TipSuffices
    <3> QED
      BY <1>0, <3>1, <3>3, <3>4, RequestStep DEF Kept
  <2>2. CASE StreamStarts(r)
    BY <2>2, <1>0, WritesKeep, GotoKeeps DEF StreamStarts
  <2>3. CASE ContextFails(r) \/ ReplyRefused(r)
    BY <2>3, <1>0, WritesKeep, FinishKeeps DEF ContextFails, ReplyRefused
  <2>4. CASE \E body \in Body : StoreReply(r, body)
    <3>1. Kept
      <4>1. req[r].tip \in Nat /\ ReplyOrGone(req[r].tip)
        BY <1>a DEF RequestOK
      <4> QED
        BY <2>4, <4>1, <1>0, InsertKeepsLinks DEF StoreReply, Kept
    <3> QED
      BY <2>4, <3>1, <1>0, FinishKeeps DEF StoreReply
  <2>5. CASE StoreContinuation(r)
    BY <2>5, <1>0, WritesKeep, FinishKeeps DEF StoreContinuation, Body
  <2>6. CASE StreamEmpty(r)
    BY <2>6, <1>0, WritesKeep, FinishKeeps DEF StreamEmpty
  <2> QED
    BY <1>5, <2>1, <2>2, <2>3, <2>4, <2>5, <2>6 DEF StreamNext
<1>6. ASSUME NEW r \in Requests, RewriteNext(r)
      PROVE  LinkInv'
  <2>1. CASE \E m \in Ids : EditAssistantBegin(r, m) \/ DeleteBegin(r, m)
    BY <2>1, <1>0, <1>a, BeginKeeps DEF EditAssistantBegin, DeleteBegin
  <2>2. CASE \E body \in {"text", "blank"} : EditAssistantCommit(r, body)
    BY <2>2, <1>0, WritesKeep, FinishKeeps DEF EditAssistantCommit, Body
  <2>3. CASE DeleteCommit(r)
    <3>1. {m \in Ids : m < req[r].msg} \subseteq Ids
      OBVIOUS
    <3> QED
      BY <2>3, <3>1, <1>0, WritesKeep, FinishKeeps DEF DeleteCommit
  <2> QED
    BY <1>6, <2>1, <2>2, <2>3 DEF RewriteNext
<1>7. ASSUME NEW r \in Requests, ActivateNext(r)
      PROVE  LinkInv'
  <2>1. CASE \E m \in Ids : ActivateBegin(r, m)
    <3>0. PICK m \in Ids : ActivateBegin(r, m)
      BY <2>1
    <3>1. Kept
      BY <3>0, WritesKeep DEF ActivateBegin
    <3>2. /\ req'[r].pc = "check" /\ req'[r].tip = 0
          /\ \A s \in Requests \ {r} : req'[s] = req[s]
      BY <3>0, <1>0 DEF ActivateBegin, Idle, TypeOK
    <3>3. RequestOK(req[r])'
      BY <1>0, <3>1, <3>2, TipSuffices
    <3> QED
      BY <1>0, <3>1, <3>2, <3>3, RequestStep DEF Kept
  <2>2. CASE ActivateCheck(r)
    BY <2>2, <1>0, WritesKeep, FinishKeeps, GotoKeeps DEF ActivateCheck
  <2>3. CASE ActivateSwitch(r)
    <3> DEFINE v == Min(req[r].chain)
    <3>1. Kept
      <4>1. SetActive({v}, v = req[r].msg) /\ (v = req[r].msg) \in BOOLEAN
        BY <2>3 DEF ActivateSwitch
      <4> QED
        BY <2>3, <4>1, WritesKeep DEF ActivateSwitch
    <3>2. CASE Finish(r)
      BY <3>1, <3>2, <1>0, FinishKeeps
    <3>3. CASE ~Finish(r)
      <4>1. req' = [req EXCEPT ![r] = [req[r] EXCEPT !.chain = req[r].chain \ {v}]]
        BY <2>3, <3>3 DEF ActivateSwitch
      <4>2. /\ req'[r].pc = "switch" /\ req'[r].tip = req[r].tip
            /\ \A s \in Requests \ {r} : req'[s] = req[s]
        BY <2>3, <4>1, <1>0 DEF ActivateSwitch, TypeOK, Request
      <4>3. RequestOK(req[r])'
        BY <1>0, <3>1, <4>2, TipSuffices
      <4> QED
        BY <1>0, <3>1, <4>2, <4>3, RequestStep DEF Kept
    <3> QED
      BY <3>2, <3>3
  <2> QED
    BY <1>7, <2>1, <2>2, <2>3 DEF ActivateNext
<1>8. ASSUME NEW r \in Requests, StatementFails(r)
      PROVE  LinkInv'
  BY <1>8, <1>0, WritesKeep, FinishKeeps DEF StatementFails
<1>9. CASE DeleteConversation
  <2>1. Kept
    BY <1>9, WritesKeep DEF DeleteConversation
  <2> QED
    BY <1>9, <2>1, <1>0, <1>a DEF DeleteConversation, Kept, LinkInv, RequestOK
<1>10. CASE Crash
  <2>1. Kept
    BY <1>10, WritesKeep DEF Crash
  <2>2. ReplyOrGone(0)'
    BY <1>0, ZeroIsGone
  <2>3. \A r \in Requests : req'[r].tip = 0 /\ req'[r].pc = "idle"
    BY <1>10 DEF Crash, Idle
  <2>4. \A r \in Requests : RequestOK(req[r])'
    BY <2>2, <2>3 DEF RequestOK
  <2> QED
    BY <2>1, <2>4, <1>0 DEF Kept, LinkInv
<1>11. CASE UNCHANGED vars
  BY <1>11 DEF vars, LinkInv, LinksOK, RequestOK, ReplyOrGone, IsAssistant, IsUser, TypeOK, Ids
<1> QED
  BY <1>1, <1>2, <1>3, <1>4, <1>5, <1>6, <1>7, <1>8, <1>9, <1>10, <1>11 DEF Next

LEMMA LinkInvInit ==
    ASSUME Init
    PROVE  LinkInv
<1>1. TypeOK /\ Ids = {} /\ nextId = 1
  BY TypeOKInit DEF Init, Ids, Restrict
<1>2. \A r \in Requests : req[r].tip = 0 /\ req[r].pc = "idle"
  BY DEF Init, Idle
<1> QED
  BY <1>1, <1>2 DEF LinkInv, LinksOK, RequestOK, ReplyOrGone

\* However requests interleave, fail or are cut off, a parent_id names an older row
\* and, while that row is there, a reply: never a user row, never a row that took
\* a deleted variant's id.
THEOREM ParentsAreVariants == Spec => []ParentIsVariant
<1>1. Init => LinkInv
  BY LinkInvInit
<1>2. LinkInv /\ [Next]_vars => LinkInv'
  BY LinkInvStep
<1>3. LinkInv => ParentIsVariant
  BY LinkInvImplies
<1> QED
  BY <1>1, <1>2, <1>3, PTL DEF Spec
-----------------------------------------------------------------------------
(***************************************************************************)
(* Requests that follow one another.                                       *)
(*                                                                         *)
(* As long as no two requests overlap, what a request has read is still so *)
(* when it writes.  The invariant says so step by step: for each place a   *)
(* request may wait at, how what it holds relates to the rows.             *)
(***************************************************************************)
\* The replies of one turn, which are the variants of each; those of the last one;
\* the rows up to the last user row.
Turn(m) == {n \in Ids : IsAssistant(n) /\ SameTurn(m, n)}
Variants(m) == IF IsUser(m) THEN {m} ELSE Turn(m)
LastTurn == {m \in Ids : \A u \in Ids : IsUser(u) => u < m}
Asked == {m \in Ids : \E u \in Ids : IsUser(u) /\ m =< u}

\* p is the row before m; m is the last row.
Precedes(p, m) == p \in Ids /\ p < m /\ \A i \in Ids : i < m => i =< p
IsLast(m) == m \in Ids /\ \A n \in Ids : n =< m

LinearAt(m) ==
    \E p \in Ids : Precedes(p, m) /\ msgs[m].parent = IF IsUser(p) THEN NoParent ELSE p

RowsLinear ==
    /\ \A m \in Ids : IsAssistant(m) => LinearAt(m)
    /\ \A u \in Ids : IsUser(u) => msgs[u].active

\* A turn shows one variant, other than the last turn while it is switched.
ShownAt(pc) ==
    faults = 0 => \A m, n \in ActiveIds :
        IsAssistant(m) /\ IsAssistant(n) /\ SameTurn(m, n) =>
            m = n \/ (m \in LastTurn /\ pc = "switch")

WasKept(q) == q.was \cap Asked = ActiveIds \cap Asked

InsertOK(q) == q.op = "send" /\ q.tip = 0 /\ q.hist = History
RewriteOK(q) == q.op = "edit" /\ q.tip = 0 /\ q.msg \in Ids /\ IsUser(q.msg)
BranchOK(q) == q.op = "regenerate_message" /\ q.msg \in Ids /\ IsAssistant(q.msg) /\ WasKept(q)
TruncateOK(q) == BranchOK(q) /\ q.tip \in Turn(q.msg) /\ \A n \in Turn(q.msg) : n =< q.tip
ChainOK(q) == q.op \in Regenerations /\ q.msg \in LastTurn /\ WasKept(q)
ArchiveOK(q) ==
    q.op \in Regenerations /\ q.chain = LastTurn /\ q.tip \in LastTurn /\ IsLast(q.tip) /\ WasKept(q)

\* A reply to the last user row, or to the turn whose variants were archived.
AnswerOK(q) ==
    /\ q.op \in {"send", "edit"}
    /\ q.tip = 0
    /\ \E u \in Ids : IsUser(u) /\ IsLast(u)
VariantOK(q) ==
    /\ q.op \in Regenerations
    /\ q.tip \in LastTurn /\ IsLast(q.tip)
    /\ LastTurn \cap ActiveIds = {}
    /\ WasKept(q)
ReplyOK(q) == q.op = "continue" \/ AnswerOK(q) \/ VariantOK(q)
PromptOK(q) == q.op # "continue" => q.hist = History

CheckOK(q) == q.msg \in Ids /\ q.chain = Variants(q.msg)

\* The variants still to be switched, and what the others show.
SwitchOK(q) ==
    /\ q.chain # {}
    /\ \/ IsLast(q.msg) /\ IsUser(q.msg) /\ q.chain = {q.msg}
       \/ /\ q.chain \subseteq LastTurn /\ q.msg \in LastTurn
          /\ faults = 0 => \A m \in LastTurn \cap ActiveIds : m \in q.chain \/ m = q.msg

Phase(q) ==
    /\ q.pc = "idle" => q.op = "none"
    /\ q.pc = "insert" => InsertOK(q)
    /\ q.pc = "rewrite" => RewriteOK(q)
    /\ q.pc = "cut" => q.op = "delete"
    /\ q.pc = "branch" => BranchOK(q)
    /\ q.pc = "truncate" => TruncateOK(q)
    /\ q.pc = "chain" => ChainOK(q)
    /\ q.pc = "archive" => ArchiveOK(q)
    /\ q.pc \in {"history", "gather", "stream"} => ReplyOK(q)
    /\ q.pc \in {"gather", "stream"} => PromptOK(q)
    /\ q.pc = "check" => CheckOK(q)
    /\ q.pc = "switch" => SwitchOK(q)

AloneInv ==
    /\ LinkInv
    /\ ~alive => Ids = {}
    /\ ~overlapped =>
         /\ \A r, s \in Requests : req[r].pc # "idle" /\ req[s].pc # "idle" => r = s
         /\ RowsLinear
         /\ ShownAt("idle") \/ \E r \in Requests : req[r].pc = "switch" /\ ShownAt("switch")
         /\ alive => \A r \in Requests : Phase(req[r])

-----------------------------------------------------------------------------
\* What the rows are, without the model's intervals and maxima.
LEMMA RowFacts ==
    ASSUME TypeOK, LinksOK
    PROVE  /\ Ids \subseteq Nat /\ 0 \notin Ids /\ nextId \in Nat
           /\ \A m \in Ids : /\ m < nextId
                             /\ msgs[m].parent \in Nat
                             /\ IsUser(m) \/ IsAssistant(m)
                             /\ ~(IsUser(m) /\ IsAssistant(m))
                             /\ IsUser(m) => msgs[m].parent = 0
<1>1. Ids \subseteq 1..(nextId - 1) /\ nextId \in Nat /\ msgs \in [Ids -> Message]
  BY DEF TypeOK
<1>2. ASSUME NEW m \in Ids
      PROVE  /\ m \in Nat /\ m # 0 /\ m < nextId
             /\ msgs[m].parent \in Nat /\ msgs[m].role \in {"user", "assistant"}
             /\ IsUser(m) => msgs[m].parent = 0
  BY <1>1 DEF Message, LinksOK, NoParent
<1> QED
  BY <1>1, <1>2 DEF IsUser, IsAssistant

LEMMA SameTurnMeans ==
    ASSUME TypeOK, LinksOK, NEW m \in Nat, NEW n \in Nat
    PROVE  SameTurn(m, n) <=> \A u \in Ids : IsUser(u) => ~(m < u /\ u =< n) /\ ~(n < u /\ u =< m)
<1>1. Ids \subseteq Nat
  BY RowFacts
<1>2. \A u \in Ids : u \in (m + 1)..n \cup (n + 1)..m <=> (m < u /\ u =< n) \/ (n < u /\ u =< m)
  BY <1>1
<1> QED
  BY <1>2 DEF SameTurn

\* In a linear thread the rows reached from a row without a parent row, one child at
\* a time, are the replies of one turn.
LEMMA WalkIsTurn ==
    ASSUME TypeOK, LinksOK, RowsLinear, NEW C \in Walks, NEW m \in C
    PROVE  C = Variants(m)
<1>1. C \subseteq Ids /\ IsWalk(C) /\ C \in SUBSET Nat
  BY RowFacts DEF Walks
<1>2. PICK root \in C : /\ msgs[root].parent \notin Ids
                        /\ \A x \in C \ {root} : msgs[x].parent \in C
  BY <1>1 DEF IsWalk
<1>3. \A x \in C : Children(x) # {} => \E c \in Children(x) : Children(x) \cap C = {c}
  BY <1>1 DEF IsWalk
<1>4. ASSUME NEW x \in Ids, msgs[x].parent \in Ids
      PROVE  IsAssistant(x) /\ Precedes(msgs[x].parent, x) /\ IsAssistant(msgs[x].parent)
  <2>1. IsAssistant(x)
    BY <1>4, RowFacts
  <2>2. PICK p \in Ids : Precedes(p, x) /\ msgs[x].parent = IF IsUser(p) THEN NoParent ELSE p
    BY <2>1 DEF RowsLinear, LinearAt
  <2>3. msgs[x].parent = p /\ ~IsUser(p)
    BY <2>2, <1>4, RowFacts DEF NoParent
  <2> QED
    BY <2>1, <2>2, <2>3, RowFacts
<1>5. CASE IsUser(root)
  <2>1. C \ {root} = {}
    <3>1. SUFFICES ASSUME C \ {root} # {}
                   PROVE  FALSE
      OBVIOUS
    <3> DEFINE k == Min(C \ {root})
    <3>2. k \in C \ {root} /\ \A x \in C \ {root} : k =< x
      BY <1>1, <3>1, MinOfNats
    <3> HIDE DEF k
    <3>3. msgs[k].parent \in C /\ k \in Ids /\ msgs[k].parent \in Ids
      BY <1>1, <1>2, <3>2
    <3>4. msgs[k].parent < k /\ IsAssistant(msgs[k].parent)
      BY <3>3, <1>4 DEF Precedes
    <3>5. msgs[k].parent # root
      BY <3>3, <3>4, <1>5, RowFacts
    <3>6. k =< msgs[k].parent /\ k \in Nat /\ msgs[k].parent \in Nat
      BY <3>2, <3>3, <3>5, <1>1
    <3> QED
      BY <3>4, <3>6
  <2>2. m = root /\ C = {m}
    BY <2>1
  <2> QED
    BY <2>2, <1>5 DEF Variants
<1>6. CASE IsAssistant(root)
  <2>1. PICK q \in Ids : Precedes(q, root) /\ IsUser(q)
    <3>1. root \in Ids
      BY <1>1
    <3>2. PICK q \in Ids : Precedes(q, root) /\ msgs[root].parent = IF IsUser(q) THEN NoParent ELSE q
      BY <1>6, <3>1 DEF RowsLinear, LinearAt
    <3> QED
      BY <1>2, <3>2
  <2>2. ASSUME NEW x \in C
        PROVE  x \in Turn(root)
    <3>1. SUFFICES ASSUME C \ Turn(root) # {}
                   PROVE  FALSE
      BY <2>2
    <3> DEFINE k == Min(C \ Turn(root))
    <3>2. k \in C \ Turn(root) /\ \A y \in C \ Turn(root) : k =< y
      BY <1>1, <3>1, MinOfNats
    <3> HIDE DEF k
    <3>3. k # root /\ k \in Ids /\ k \in Nat /\ root \in Nat /\ root \in Ids
      <4>1. root \in Turn(root)
        <5>1. SameTurn(root, root)
          BY <1>1, SameTurnMeans
        <5> QED
          BY <5>1, <1>1, <1>6 DEF Turn
      <4> QED
        BY <4>1, <3>2, <1>1
    <3>4. msgs[k].parent \in C /\ msgs[k].parent \in Ids /\ msgs[k].parent \in Nat
      BY <1>1, <1>2, <3>2, <3>3
    <3> DEFINE p == msgs[k].parent
    <3>5. IsAssistant(k) /\ Precedes(p, k)
      BY <3>3, <3>4, <1>4
    <3>6. p < k
      BY <3>5 DEF Precedes
    <3>7. p \in Turn(root)
      BY <3>2, <3>4, <3>6, <1>1
    <3>8. ~IsUser(k) /\ \A u \in Ids : u \in Nat
      BY <3>5, <3>3, RowFacts
    <3>9. \A u \in Ids : u < k => u =< p
      BY <3>5 DEF Precedes
    <3>10. \A u \in Ids : IsUser(u) => ~(root < u /\ u =< p) /\ ~(p < u /\ u =< root)
      BY <3>7, <3>3, <3>4, SameTurnMeans DEF Turn
    <3>11. \A u \in Ids : IsUser(u) => ~(root < u /\ u =< k) /\ ~(k < u /\ u =< root)
      <4> SUFFICES ASSUME NEW u \in Ids, IsUser(u)
                   PROVE  ~(root < u /\ u =< k) /\ ~(k < u /\ u =< root)
        OBVIOUS
      <4>1. u # k /\ u \in Nat /\ p \in Nat
        BY <3>8, <3>4
      <4>2. (u < k => u =< p) /\ ~(root < u /\ u =< p) /\ ~(p < u /\ u =< root)
        BY <3>9, <3>10
      <4> HIDE DEF p
      <4> QED
        BY <4>1, <4>2, <3>3, <3>6
    <3>12. SameTurn(root, k)
      BY <3>11, <3>3, SameTurnMeans
    <3> QED
      BY <3>2, <3>3, <3>5, <3>12 DEF Turn
  <2>3. Turn(root) \subseteq C
    <3>1. SUFFICES ASSUME Turn(root) \ C # {}
                   PROVE  FALSE
      OBVIOUS
    <3> DEFINE k == Min(Turn(root) \ C)
    <3>2. k \in Turn(root) \ C /\ \A y \in Turn(root) \ C : k =< y
      <4>1. Turn(root) \ C \in SUBSET Nat
        BY RowFacts DEF Turn
      <4> QED
        BY <4>1, <3>1, MinOfNats
    <3> HIDE DEF k
    <3>3. /\ k # root /\ k \in Ids /\ IsAssistant(k) /\ SameTurn(root, k)
          /\ k \in Nat /\ root \in Nat /\ root \in Ids
      BY <3>2, <1>1, RowFacts DEF Turn
    <3>4. \A u \in Ids : IsUser(u) => ~(root < u /\ u =< k) /\ ~(k < u /\ u =< root)
      BY <3>3, SameTurnMeans
    <3>5. PICK p \in Ids : Precedes(p, k) /\ msgs[k].parent = IF IsUser(p) THEN NoParent ELSE p
      BY <3>3 DEF RowsLinear, LinearAt
    <3>6. p \in Nat /\ p < k /\ \A i \in Ids : i < k => i =< p
      BY <3>5, RowFacts DEF Precedes
    <3>7. ~(k < root)
      <4>1. q \in Nat /\ q < root /\ (k < root => k =< q)
        BY <2>1, <3>3, RowFacts DEF Precedes
      <4>2. k # q
        BY <2>1, <3>3, RowFacts
      <4> QED
        BY <4>1, <4>2, <3>3, <3>4, <2>1
    <3>8. root =< p
      BY <3>3, <3>6, <3>7
    <3>9. ~IsUser(p)
      <4>1. root # p \/ ~IsUser(p)
        BY <1>6, <3>3, RowFacts
      <4>2. IsUser(p) => ~(root < p)
        BY <3>3, <3>4, <3>5, <3>6
      <4> QED
        BY <4>1, <4>2, <3>8, <3>6, <3>3
    <3>10. msgs[k].parent = p /\ IsAssistant(p)
      BY <3>5, <3>9, RowFacts
    <3>11. SameTurn(root, p)
      <4>1. \A u \in Ids : IsUser(u) => ~(root < u /\ u =< p) /\ ~(p < u /\ u =< root)
        BY <3>4, <3>6, <3>8, <3>3, RowFacts
      <4> QED
        BY <4>1, <3>3, <3>6, SameTurnMeans
    <3>12. p \in C
      <4>1. p \in Turn(root)
        BY <3>10, <3>11 DEF Turn
      <4> QED
        BY <4>1, <3>2, <3>6, <3>3
    <3>13. k \in Children(p)
      BY <3>3, <3>10 DEF Children
    <3>14. PICK c \in Children(p) : Children(p) \cap C = {c}
      BY <1>3, <3>12, <3>13
    <3>15. c \in C /\ c \in Ids /\ msgs[c].parent = p
      BY <3>14 DEF Children
    <3>16. Precedes(p, c)
      BY <3>15, <1>4
    <3>17. c = k
      <4>1. c \in Nat /\ p < c /\ (k < c => k =< p) /\ (c < k => c =< p)
        BY <3>15, <3>16, <3>3, <3>6, RowFacts DEF Precedes
      <4> QED
        BY <4>1, <3>3, <3>6
    <3> QED
      BY <3>2, <3>15, <3>17
  <2>4. C = Turn(root)
    BY <2>2, <2>3
  <2>5. m \in Ids /\ IsAssistant(m) /\ SameTurn(root, m) /\ m \in Nat /\ root \in Nat
    BY <2>4, <1>1 DEF Turn
  <2>6. ~IsUser(m) /\ ~IsUser(root)
    BY <2>5, <1>1, <1>6, RowFacts
  <2>7. Turn(m) = Turn(root)
    <3>1. ASSUME NEW x \in Ids, IsAssistant(x)
          PROVE  SameTurn(m, x) <=> SameTurn(root, x)
      <4>1. x \in Nat /\ Ids \subseteq Nat
        BY RowFacts
      <4>2. \A u \in Ids : IsUser(u) => ~(root < u /\ u =< m) /\ ~(m < u /\ u =< root)
        BY <2>5, SameTurnMeans
      <4>3. \A u \in Ids : IsUser(u) =>
              ((~(root < u /\ u =< x) /\ ~(x < u /\ u =< root))
                 <=> (~(m < u /\ u =< x) /\ ~(x < u /\ u =< m)))
        BY <4>1, <4>2, <2>5
      <4>4. SameTurn(m, x) <=> \A u \in Ids : IsUser(u) => ~(m < u /\ u =< x) /\ ~(x < u /\ u =< m)
        BY <4>1, <2>5, SameTurnMeans
      <4>5. SameTurn(root, x) <=> \A u \in Ids : IsUser(u) => ~(root < u /\ u =< x) /\ ~(x < u /\ u =< root)
        BY <4>1, <2>5, SameTurnMeans
      <4> QED
        BY <4>3, <4>4, <4>5
    <3> QED
      BY <3>1 DEF Turn
  <2> QED
    BY <2>4, <2>6, <2>7 DEF Variants
<1> QED
  BY <1>1, <1>5, <1>6, RowFacts

\* So every result of _variant_chain is the turn of the message.
LEMMA ChainIsTurn ==
    ASSUME TypeOK, LinksOK, RowsLinear, NEW m \in Ids, NEW C \in VariantChain(m)
    PROVE  C = Variants(m)
<1>1. PICK D \in Walks : m \in D /\ C \cap D # {}
  BY DEF VariantChain
<1>2. C \in Walks
  BY DEF VariantChain
<1>3. PICK x \in C : x \in D
  BY <1>1
<1>4. C = Variants(x) /\ D = Variants(x) /\ D = Variants(m)
  BY <1>1, <1>2, <1>3, WalkIsTurn
<1> QED
  BY <1>4

\* The same facts about the state a step leads to.
RowsAreRows ==
    /\ Ids \subseteq Nat /\ 0 \notin Ids /\ nextId \in Nat
    /\ \A m \in Ids : /\ m < nextId
                      /\ msgs[m].parent \in Nat
                      /\ IsUser(m) \/ IsAssistant(m)
                      /\ ~(IsUser(m) /\ IsAssistant(m))
                      /\ IsUser(m) => msgs[m].parent = 0

Separated(m, n) == \E u \in Ids : IsUser(u) /\ ((m < u /\ u =< n) \/ (n < u /\ u =< m))

LEMMA FactsNext ==
    ASSUME NEW m \in Nat, NEW n \in Nat
    PROVE  (TypeOK /\ LinksOK => RowsAreRows /\ (SameTurn(m, n) <=> ~Separated(m, n)))'
<1>1. TypeOK /\ LinksOK => RowsAreRows /\ (SameTurn(m, n) <=> ~Separated(m, n))
  BY RowFacts, SameTurnMeans DEF RowsAreRows, Separated
<1> QED
  BY <1>1, PTL

\* The first rows of the thread are left, with their roles and parents.
ShapeKept ==
    /\ Ids' \subseteq Ids
    /\ \A m \in Ids', i \in Ids : i < m => i \in Ids'
    /\ \A m \in Ids' : msgs'[m].role = msgs[m].role /\ msgs'[m].parent = msgs[m].parent

LEMMA ShapeKeptMeans ==
    ASSUME TypeOK, LinksOK, TypeOK', LinksOK', ShapeKept
    PROVE  /\ \A m \in Ids' : (IsUser(m)' <=> IsUser(m)) /\ (IsAssistant(m)' <=> IsAssistant(m))
           /\ \A m \in Ids' : LinearAt(m) => LinearAt(m)'
           /\ \A m, n \in Ids' : SameTurn(m, n)' <=> SameTurn(m, n)
<1>1. \A m \in Ids' : (IsUser(m)' <=> IsUser(m)) /\ (IsAssistant(m)' <=> IsAssistant(m))
  BY DEF ShapeKept, IsUser, IsAssistant
<1>2. ASSUME NEW m \in Ids', LinearAt(m)
      PROVE  LinearAt(m)'
  <2>1. PICK p \in Ids : Precedes(p, m) /\ msgs[m].parent = IF IsUser(p) THEN NoParent ELSE p
    BY <1>2 DEF LinearAt
  <2>2. p \in Ids' /\ p < m
    BY <2>1 DEF ShapeKept, Precedes
  <2>3. Precedes(p, m)'
    BY <2>1, <2>2 DEF ShapeKept, Precedes
  <2>4. msgs'[m].parent = msgs[m].parent /\ (IsUser(p)' <=> IsUser(p))
    BY <1>1, <2>2 DEF ShapeKept
  <2>5. msgs'[m].parent = IF IsUser(p)' THEN NoParent ELSE p
    BY <2>1, <2>4
  <2> QED
    BY <2>2, <2>3, <2>5 DEF LinearAt
<1>3. ASSUME NEW m \in Ids', NEW n \in Ids'
      PROVE  SameTurn(m, n)' <=> SameTurn(m, n)
  <2>1. m \in Nat /\ n \in Nat /\ m \in Ids /\ n \in Ids /\ Ids \subseteq Nat /\ Ids' \subseteq Ids
    BY RowFacts DEF ShapeKept
  <2>2. SameTurn(m, n) <=> ~Separated(m, n)
    BY <2>1, SameTurnMeans DEF Separated
  <2>3. SameTurn(m, n)' <=> ~Separated(m, n)'
    BY <2>1, FactsNext
  <2>4. \A u \in Ids : (m < u /\ u =< n) \/ (n < u /\ u =< m) => u \in Ids'
    BY <2>1 DEF ShapeKept
  <2>5. Separated(m, n)' <=> Separated(m, n)
    BY <2>1, <2>4, <1>1 DEF Separated
  <2> QED
    BY <2>2, <2>3, <2>5
<1> QED
  BY <1>1, <1>2, <1>3

\* No row goes.
LEMMA AllKeptMeans ==
    ASSUME TypeOK, LinksOK, TypeOK', LinksOK', ShapeKept, Ids' = Ids
    PROVE  /\ LastTurn' = LastTurn /\ Asked' = Asked
           /\ \A m \in Nat : Turn(m)' = Turn(m) /\ (IsLast(m)' <=> IsLast(m))
<1>1. \A m \in Ids : (IsUser(m)' <=> IsUser(m)) /\ (IsAssistant(m)' <=> IsAssistant(m))
  BY ShapeKeptMeans
<1>2. LastTurn' = LastTurn
  BY <1>1 DEF LastTurn
<1>3. Asked' = Asked
  BY <1>1 DEF Asked
<1>4. ASSUME NEW m \in Nat
      PROVE  Turn(m)' = Turn(m) /\ (IsLast(m)' <=> IsLast(m))
  <2>1. ASSUME NEW n \in Ids
        PROVE  SameTurn(m, n)' <=> SameTurn(m, n)
    <3>1. n \in Nat
      BY RowFacts
    <3>2. SameTurn(m, n) <=> ~Separated(m, n)
      BY <3>1, SameTurnMeans DEF Separated
    <3>3. SameTurn(m, n)' <=> ~Separated(m, n)'
      BY <3>1, FactsNext
    <3>4. Separated(m, n)' <=> Separated(m, n)
      BY <1>1 DEF Separated
    <3> QED
      BY <3>2, <3>3, <3>4
  <2> QED
    BY <1>1, <2>1 DEF Turn, IsLast
<1> QED
  BY <1>2, <1>3, <1>4

\* What remains is shown as before.
ShownKept == ShapeKept /\ \A m \in Ids' : msgs'[m].active = msgs[m].active

LEMMA ShownKeptMeans ==
    ASSUME TypeOK, LinksOK, TypeOK', LinksOK', ShownKept, RowsLinear
    PROVE  RowsLinear' /\ ActiveIds' = ActiveIds \cap Ids'
<1>1. ShapeKept /\ \A m \in Ids' : m \in Ids /\ msgs'[m].active = msgs[m].active
  BY DEF ShownKept, ShapeKept
<1>2. ActiveIds' = ActiveIds \cap Ids'
  BY <1>1 DEF ActiveIds
<1>3. ASSUME NEW m \in Ids', IsAssistant(m)'
      PROVE  LinearAt(m)'
  BY <1>1, <1>3, ShapeKeptMeans DEF RowsLinear
<1>4. ASSUME NEW u \in Ids', IsUser(u)'
      PROVE  msgs'[u].active
  BY <1>1, <1>4, ShapeKeptMeans DEF RowsLinear
<1> QED
  BY <1>2, <1>3, <1>4 DEF RowsLinear

\* A turn that showed one variant shows one variant still.
LEMMA ShownStays ==
    ASSUME TypeOK, LinksOK, TypeOK', LinksOK', ShownKept, RowsLinear, NEW pc, ShownAt(pc),
           faults' = 0 => faults = 0,
           Ids' = Ids \/ pc # "switch"
    PROVE  ShownAt(pc)'
<1> SUFFICES ASSUME faults' = 0, NEW m \in ActiveIds', NEW n \in ActiveIds',
                    IsAssistant(m)', IsAssistant(n)', SameTurn(m, n)'
             PROVE  m = n \/ (m \in LastTurn' /\ pc = "switch")
  BY DEF ShownAt
<1>1. ShapeKept /\ m \in Ids' /\ n \in Ids' /\ m \in ActiveIds /\ n \in ActiveIds
  BY ShownKeptMeans DEF ShownKept
<1>2. IsAssistant(m) /\ IsAssistant(n) /\ SameTurn(m, n)
  BY <1>1, ShapeKeptMeans
<1>3. m = n \/ (m \in LastTurn /\ pc = "switch")
  BY <1>1, <1>2 DEF ShownAt
<1>4. CASE Ids' = Ids
  BY <1>1, <1>3, <1>4, AllKeptMeans
<1>5. CASE pc # "switch"
  BY <1>3, <1>5
<1> QED
  BY <1>4, <1>5

-----------------------------------------------------------------------------
\* What holds of the rows and of the one request in flight.
AloneAt(r) ==
    /\ RowsLinear
    /\ ShownAt("idle") \/ (req[r].pc = "switch" /\ ShownAt("switch"))
    /\ Phase(req[r])

\* What a request's step has to show: it keeps what holds of that request alone.
LEMMA AloneStep ==
    ASSUME AloneInv, LinkInv', NEW r \in Requests,
           \A s \in Requests \ {r} : req'[s] = req[s],
           alive' = alive, alive \/ Ids' \subseteq Ids,
           Overlap \/ (req[r].pc # "idle" /\ overlapped' = overlapped),
           alive /\ AloneAt(r) => AloneAt(r)'
    PROVE  AloneInv'
<1>1. ~alive' => Ids' = {}
  BY DEF AloneInv
<1>2. ASSUME ~overlapped'
      PROVE  ~overlapped /\ \A s \in Requests \ {r} : req[s].pc = "idle" /\ req'[s].pc = "idle"
  <2>1. CASE Overlap
    BY <1>2, <2>1 DEF Overlap
  <2>2. CASE req[r].pc # "idle" /\ overlapped' = overlapped
    BY <1>2, <2>2 DEF AloneInv
  <2> QED
    BY <2>1, <2>2
<1>3. ASSUME ~overlapped', alive'
      PROVE  AloneAt(r)' /\ \A s \in Requests : Phase(req[s])'
  <2>1. ~overlapped /\ alive
    BY <1>2, <1>3
  <2>2. \A s \in Requests : Phase(req[s])
    BY <2>1 DEF AloneInv
  <2>3. RowsLinear /\ (ShownAt("idle") \/ (req[r].pc = "switch" /\ ShownAt("switch")))
    BY <2>1, <1>2, <1>3 DEF AloneInv
  <2>4. AloneAt(r)'
    BY <2>1, <2>2, <2>3 DEF AloneAt
  <2>5. ASSUME NEW s \in Requests
        PROVE  Phase(req[s])'
    <3>1. CASE s = r
      BY <2>4, <3>1 DEF AloneAt
    <3>2. CASE s # r
      <4>1. req'[s].pc = "idle" /\ req'[s].op = "none"
        BY <1>2, <1>3, <2>2, <3>2 DEF Phase
      <4> QED
        BY <4>1 DEF Phase
    <3> QED
      BY <3>1, <3>2
  <2> QED
    BY <2>4, <2>5
<1>4. ASSUME ~overlapped'
      PROVE  /\ \A s, t \in Requests : req'[s].pc # "idle" /\ req'[t].pc # "idle" => s = t
             /\ RowsLinear'
             /\ ShownAt("idle")' \/ \E s \in Requests : req'[s].pc = "switch" /\ ShownAt("switch")'
  <2>1. \A s, t \in Requests : req'[s].pc # "idle" /\ req'[t].pc # "idle" => s = t
    BY <1>2, <1>4
  <2>2. CASE alive'
    BY <1>3, <1>4, <2>1, <2>2 DEF AloneAt
  <2>3. CASE ~alive'
    <3>1. Ids' = {}
      BY <1>1, <2>3
    <3>2. ActiveIds' = {}
      BY <3>1 DEF ActiveIds
    <3> QED
      BY <2>1, <3>1, <3>2 DEF RowsLinear, ShownAt
  <2> QED
    BY <2>2, <2>3
<1> QED
  BY <1>1, <1>3, <1>4 DEF AloneInv

\* Steps that do not write rows: what a request holds is read in the state it is in.
LEMMA RowsUnread ==
    ASSUME msgs' = msgs, faults' = faults
    PROVE  /\ RowsLinear' <=> RowsLinear
           /\ \A pc : ShownAt(pc)' <=> ShownAt(pc)
           /\ \A q : Phase(q)' <=> Phase(q)
<1>1. Ids' = Ids
  BY DEF Ids
<1>2. /\ \A m : (IsUser(m)' <=> IsUser(m)) /\ (IsAssistant(m)' <=> IsAssistant(m))
      /\ ActiveIds' = ActiveIds
      /\ \A m, n : SameTurn(m, n)' <=> SameTurn(m, n)
  BY <1>1 DEF IsUser, IsAssistant, ActiveIds, SameTurn
<1>3. History' = History
  BY <1>2 DEF History
<1>4. LastTurn' = LastTurn /\ Asked' = Asked
  BY <1>1, <1>2 DEF LastTurn, Asked
<1>5. \A m : (LinearAt(m)' <=> LinearAt(m)) /\ (IsLast(m)' <=> IsLast(m))
  BY <1>1, <1>2 DEF LinearAt, Precedes, IsLast
<1>6. \A m : Turn(m)' = Turn(m)
  BY <1>1, <1>2 DEF Turn
<1>7. \A m : Variants(m)' = Variants(m)
  BY <1>2, <1>6 DEF Variants
<1>8. RowsLinear' <=> RowsLinear
  BY <1>1, <1>2, <1>5 DEF RowsLinear
<1>9. \A pc : ShownAt(pc)' <=> ShownAt(pc)
  BY <1>1, <1>2, <1>4 DEF ShownAt
<1>10. ASSUME NEW q
       PROVE  Phase(q)' <=> Phase(q)
  <2>1. WasKept(q)' <=> WasKept(q)
    BY <1>2, <1>4 DEF WasKept
  <2>2. /\ InsertOK(q)' <=> InsertOK(q)
        /\ RewriteOK(q)' <=> RewriteOK(q)
        /\ BranchOK(q)' <=> BranchOK(q)
    BY <1>1, <1>2, <1>3, <2>1 DEF InsertOK, RewriteOK, BranchOK
  <2>3. TruncateOK(q)' <=> TruncateOK(q)
    BY <1>6, <2>2 DEF TruncateOK
  <2>4. /\ ChainOK(q)' <=> ChainOK(q)
        /\ ArchiveOK(q)' <=> ArchiveOK(q)
    BY <1>4, <1>5, <2>1 DEF ChainOK, ArchiveOK
  <2>5. AnswerOK(q)' <=> AnswerOK(q)
    BY <1>1, <1>2, <1>5 DEF AnswerOK
  <2>6. VariantOK(q)' <=> VariantOK(q)
    BY <1>2, <1>4, <1>5, <2>1 DEF VariantOK
  <2>7. (ReplyOK(q)' <=> ReplyOK(q)) /\ (PromptOK(q)' <=> PromptOK(q))
    BY <1>3, <2>5, <2>6 DEF ReplyOK, PromptOK
  <2>8. CheckOK(q)' <=> CheckOK(q)
    BY <1>1, <1>7 DEF CheckOK
  <2>9. SwitchOK(q)' <=> SwitchOK(q)
    BY <1>2, <1>4, <1>5 DEF SwitchOK
  <2> QED
    BY <2>2, <2>3, <2>4, <2>7, <2>8, <2>9 DEF Phase
<1> QED
  BY <1>8, <1>9, <1>10

LEMMA ReadStep ==
    ASSUME NEW r \in Requests, AloneAt(r), msgs' = msgs, faults' = faults,
           NEW q, req'[r] = q, Phase(q), ShownAt("idle") \/ q.pc = "switch"
    PROVE  AloneAt(r)'
<1>1. RowsLinear' /\ Phase(q)'
  BY RowsUnread DEF AloneAt
<1>2. ShownAt("idle")' \/ (q.pc = "switch" /\ ShownAt("switch")')
  <2>1. ShownAt("idle") => ShownAt("idle")'
    BY RowsUnread
  <2>2. ShownAt("switch") => ShownAt("switch")'
    BY RowsUnread
  <2>3. ShownAt("idle") \/ ShownAt("switch")
    BY DEF AloneAt
  <2>4. ShownAt("idle") => ShownAt("switch")
    BY DEF ShownAt
  <2> QED
    BY <2>1, <2>2, <2>3, <2>4
<1>3. Phase(req[r])'
  BY <1>1
<1> QED
  BY <1>1, <1>2, <1>3 DEF AloneAt

-----------------------------------------------------------------------------
\* The last turn.
LEMMA LastTurnMeans ==
    ASSUME TypeOK, LinksOK
    PROVE  /\ LastTurn \cap Asked = {} /\ LastTurn \cup Asked = Ids
           /\ \A m \in LastTurn : IsAssistant(m) /\ Turn(m) = LastTurn
<1>1. Ids \subseteq Nat /\ \A m \in Ids : IsUser(m) \/ IsAssistant(m)
  BY RowFacts
<1>2. LastTurn \cap Asked = {} /\ LastTurn \cup Asked = Ids
  <2>1. \A m, u \in Ids : u < m <=> ~(m =< u)
    BY <1>1
  <2>2. \A m \in Ids : m \in LastTurn <=> m \notin Asked
    BY <2>1 DEF LastTurn, Asked
  <2>3. LastTurn \subseteq Ids /\ Asked \subseteq Ids
    BY DEF LastTurn, Asked
  <2> QED
    BY <2>2, <2>3
<1>3. ASSUME NEW m \in LastTurn
      PROVE  IsAssistant(m) /\ Turn(m) = LastTurn
  <2>1. m \in Ids /\ m \in Nat /\ \A u \in Ids : IsUser(u) => u < m
    BY <1>1 DEF LastTurn
  <2>2. ~IsUser(m)
    BY <2>1
  <2>3. ASSUME NEW n \in Ids, IsAssistant(n)
        PROVE  SameTurn(m, n) <=> n \in LastTurn
    <3>1. SameTurn(m, n) <=> \A u \in Ids : IsUser(u) => ~(m < u /\ u =< n) /\ ~(n < u /\ u =< m)
      BY <1>1, <2>1, SameTurnMeans
    <3>2. ~IsUser(n) /\ n \in Nat
      BY <2>3, <1>1, RowFacts
    <3>3. \A u \in Ids : IsUser(u) => u \in Nat /\ u # n /\ u < m
      BY <1>1, <2>1, <3>2
    <3>4. (\A u \in Ids : IsUser(u) => u < n) => SameTurn(m, n)
      BY <3>1, <3>2, <3>3, <2>1
    <3>5. SameTurn(m, n) => \A u \in Ids : IsUser(u) => u < n
      <4> SUFFICES ASSUME SameTurn(m, n), NEW u \in Ids, IsUser(u)
                   PROVE  u < n
        OBVIOUS
      <4>1. ~(n < u /\ u =< m) /\ u \in Nat /\ u # n /\ u < m
        BY <3>1, <3>3
      <4> QED
        BY <4>1, <3>2, <2>1
    <3> QED
      BY <3>4, <3>5 DEF LastTurn
  <2>4. \A n \in LastTurn : n \in Ids /\ IsAssistant(n)
    <3>1. \A n \in LastTurn : n \in Ids /\ n \in Nat /\ ~IsUser(n)
      BY <1>1 DEF LastTurn
    <3> QED
      BY <3>1, <1>1
  <2> QED
    BY <1>1, <2>1, <2>2, <2>3, <2>4 DEF Turn
<1> QED
  BY <1>2, <1>3

LEMMA InItsTurn ==
    ASSUME TypeOK, LinksOK, NEW m \in Ids, IsAssistant(m)
    PROVE  m \in Turn(m) /\ Variants(m) = Turn(m)
<1>1. m \in Nat /\ ~IsUser(m)
  BY RowFacts
<1>2. SameTurn(m, m)
  BY <1>1, SameTurnMeans
<1> QED
  BY <1>1, <1>2 DEF Turn, Variants

\* The greatest row of the last turn is the last row.
LEMMA EndOfLastTurn ==
    ASSUME TypeOK, LinksOK, NEW m \in LastTurn, \A n \in LastTurn : n =< m
    PROVE  IsLast(m)
<1>1. m \in Ids /\ Ids \subseteq Nat
  BY RowFacts DEF LastTurn
<1>2. ASSUME NEW n \in Ids
      PROVE  n =< m
  <2>1. CASE n \in LastTurn
    BY <2>1
  <2>2. CASE n \in Asked
    <3>1. PICK u \in Ids : IsUser(u) /\ n =< u
      BY <2>2 DEF Asked
    <3>2. u < m
      BY <3>1 DEF LastTurn
    <3> QED
      BY <3>1, <3>2, <1>1
  <2> QED
    BY <2>1, <2>2, LastTurnMeans
<1> QED
  BY <1>1, <1>2 DEF IsLast

LEMMA BeginAlone ==
    ASSUME LinkInv, NEW r \in Requests, AloneAt(r), req[r].pc = "idle",
           NEW op, NEW pc, NEW m, Begin(r, op, pc, m),
           Phase([Idle EXCEPT !.pc = pc, !.op = op, !.msg = m, !.was = ActiveIds])
    PROVE  AloneAt(r)'
<1> DEFINE q == [Idle EXCEPT !.pc = pc, !.op = op, !.msg = m, !.was = ActiveIds]
<1>1. req'[r] = q /\ msgs' = msgs /\ faults' = faults
  BY DEF Begin, LinkInv, TypeOK
<1>2. ShownAt("idle")
  BY DEF AloneAt
<1>3. Phase(q)
  OBVIOUS
<1> HIDE DEF q
<1> QED
  BY <1>1, <1>2, <1>3, ReadStep

LEMMA EditBeginAlone ==
    ASSUME LinkInv, NEW r \in Requests, AloneAt(r), req[r].pc = "idle", NEW m \in Ids, EditBegin(r, m)
    PROVE  AloneAt(r)'
<1> DEFINE q == [Idle EXCEPT !.pc = "rewrite", !.op = "edit", !.msg = m, !.was = ActiveIds]
<1>1. q.pc = "rewrite" /\ q.op = "edit" /\ q.msg = m /\ q.tip = 0
  BY DEF Idle
<1>2. Begin(r, "edit", "rewrite", m) /\ IsUser(m)
  BY DEF EditBegin, IsUser
<1>3. Phase(q)
  <2> HIDE DEF q
  <2> QED
    BY <1>1, <1>2 DEF Phase, RewriteOK
<1> QED
  BY <1>2, <1>3, BeginAlone

LEMMA RewriteBeginAlone ==
    ASSUME LinkInv, NEW r \in Requests, AloneAt(r), req[r].pc = "idle", NEW m \in Ids,
           EditAssistantBegin(r, m) \/ DeleteBegin(r, m)
    PROVE  AloneAt(r)'
<1>1. CASE EditAssistantBegin(r, m)
  <2> DEFINE q == [Idle EXCEPT !.pc = "overwrite", !.op = "edit_assistant", !.msg = m, !.was = ActiveIds]
  <2>1. q.pc = "overwrite"
    BY DEF Idle
  <2>2. Begin(r, "edit_assistant", "overwrite", m)
    BY <1>1 DEF EditAssistantBegin
  <2>3. Phase(q)
    <3> HIDE DEF q
    <3> QED
      BY <2>1 DEF Phase
  <2> QED
    BY <2>2, <2>3, BeginAlone
<1>2. CASE DeleteBegin(r, m)
  <2> DEFINE q == [Idle EXCEPT !.pc = "cut", !.op = "delete", !.msg = m, !.was = ActiveIds]
  <2>1. q.pc = "cut" /\ q.op = "delete"
    BY DEF Idle
  <2>2. Begin(r, "delete", "cut", m)
    BY <1>2 DEF DeleteBegin
  <2>3. Phase(q)
    <3> HIDE DEF q
    <3> QED
      BY <2>1 DEF Phase
  <2> QED
    BY <2>2, <2>3, BeginAlone
<1> QED
  BY <1>1, <1>2

LEMMA ContinueBeginAlone ==
    ASSUME LinkInv, NEW r \in Requests, AloneAt(r), req[r].pc = "idle", ContinueBegin(r)
    PROVE  AloneAt(r)'
<1> DEFINE q == [Idle EXCEPT !.pc = "history", !.op = "continue", !.msg = Trailing, !.was = ActiveIds]
<1>1. q.pc = "history" /\ q.op = "continue"
  BY DEF Idle
<1>2. Begin(r, "continue", "history", Trailing)
  BY DEF ContinueBegin
<1>3. Phase(q)
  <2> HIDE DEF q
  <2> QED
    BY <1>1 DEF Phase, ReplyOK
<1> QED
  BY <1>2, <1>3, BeginAlone

\* User rows are shown, so the last row shown belongs to the last turn.
LEMMA TrailingInLastTurn ==
    ASSUME LinkInv, RowsLinear, Trailing # 0, IsAssistant(Trailing)
    PROVE  Trailing \in LastTurn
<1>0. TypeOK /\ LinksOK /\ RowsOK
  BY DEF LinkInv, TypeOK, RowsOK
<1>1. Trailing \in ActiveIds /\ Trailing \in Ids /\ Ids \subseteq Nat
  BY <1>0, TrailingIsId, RowFacts DEF ActiveIds
<1>2. \A x \in ActiveIds : x =< Trailing
  <2>1. ActiveIds \in SUBSET Nat /\ ActiveIds # {} /\ \A x \in ActiveIds : x =< nextId
    <3>1. ActiveIds \subseteq Ids /\ \A x \in Ids : x \in Nat /\ x =< nextId
      BY <1>0, RowFacts DEF ActiveIds
    <3> QED
      BY <3>1, <1>1
  <2>2. nextId \in Nat
    BY <1>0, RowFacts
  <2> QED
    BY <2>1, <2>2, MaxOfNats DEF Trailing
<1>3. ASSUME NEW u \in Ids, IsUser(u)
      PROVE  u < Trailing
  <2>1. u \in ActiveIds /\ u # Trailing
    BY <1>0, <1>1, <1>3, RowFacts DEF RowsLinear, ActiveIds
  <2> QED
    BY <2>1, <1>1, <1>2
<1> QED
  BY <1>1, <1>3 DEF LastTurn

LEMMA RegenerateBeginAlone ==
    ASSUME LinkInv, NEW r \in Requests, AloneAt(r), req[r].pc = "idle", RegenerateBegin(r)
    PROVE  AloneAt(r)'
<1> DEFINE q == [Idle EXCEPT !.pc = "chain", !.op = "regenerate", !.msg = Trailing, !.was = ActiveIds]
<1>1. q.pc = "chain" /\ q.op = "regenerate" /\ q.msg = Trailing /\ q.was = ActiveIds
  BY DEF Idle
<1>2. Begin(r, "regenerate", "chain", Trailing) /\ IsAssistant(Trailing) /\ Trailing # 0
  BY DEF RegenerateBegin, IsAssistant
<1>3. Trailing \in LastTurn
  BY <1>2, TrailingInLastTurn DEF AloneAt
<1>4. Phase(q)
  <2> HIDE DEF q
  <2> QED
    BY <1>1, <1>3 DEF Phase, ChainOK, WasKept, Regenerations
<1> QED
  BY <1>2, <1>4, BeginAlone

LEMMA RegenerateMessageBeginAlone ==
    ASSUME LinkInv, NEW r \in Requests, AloneAt(r), req[r].pc = "idle", NEW m \in Ids,
           RegenerateMessageBegin(r, m)
    PROVE  AloneAt(r)'
<1> DEFINE q == [Idle EXCEPT !.pc = "branch", !.op = "regenerate_message", !.msg = m, !.was = ActiveIds]
<1>1. q.pc = "branch" /\ q.op = "regenerate_message" /\ q.msg = m /\ q.was = ActiveIds
  BY DEF Idle
<1>2. Begin(r, "regenerate_message", "branch", m) /\ IsAssistant(m)
  BY DEF RegenerateMessageBegin, IsAssistant
<1>3. Phase(q)
  <2> HIDE DEF q
  <2> QED
    BY <1>1, <1>2 DEF Phase, BranchOK, WasKept
<1> QED
  BY <1>2, <1>3, BeginAlone

LEMMA SendBeginAlone ==
    ASSUME LinkInv, NEW r \in Requests, AloneAt(r), SendBegin(r)
    PROVE  AloneAt(r)'
<1> DEFINE q == [Idle EXCEPT !.pc = "insert", !.op = "send", !.hist = History, !.was = ActiveIds]
<1>1. q.pc = "insert" /\ q.op = "send" /\ q.hist = History /\ q.tip = 0
  BY DEF Idle
<1>2. req'[r] = q /\ msgs' = msgs /\ faults' = faults /\ req[r].pc = "idle"
  BY DEF SendBegin, LinkInv, TypeOK
<1>3. ShownAt("idle")
  BY <1>2 DEF AloneAt
<1> HIDE DEF q
<1>4. Phase(q)
  BY <1>1 DEF Phase, InsertOK
<1> QED
  BY <1>2, <1>3, <1>4, ReadStep

LEMMA ActivateBeginAlone ==
    ASSUME LinkInv, NEW r \in Requests, AloneAt(r), NEW m \in Ids, ActivateBegin(r, m)
    PROVE  AloneAt(r)'
<1>1. PICK C \in VariantChain(m) :
        req' = [req EXCEPT ![r] = [Idle EXCEPT !.pc = "check", !.op = "activate", !.msg = m, !.chain = C]]
  BY DEF ActivateBegin
<1> DEFINE q == [Idle EXCEPT !.pc = "check", !.op = "activate", !.msg = m, !.chain = C]
<1>2. q.pc = "check" /\ q.msg = m /\ q.chain = C
  BY DEF Idle
<1>3. req'[r] = q /\ msgs' = msgs /\ faults' = faults /\ req[r].pc = "idle"
  BY <1>1 DEF ActivateBegin, LinkInv, TypeOK
<1>4. C = Variants(m)
  BY ChainIsTurn DEF LinkInv, AloneAt
<1>5. ShownAt("idle")
  BY <1>3 DEF AloneAt
<1> HIDE DEF q
<1>6. Phase(q)
  BY <1>2, <1>4 DEF Phase, CheckOK
<1> QED
  BY <1>3, <1>5, <1>6, ReadStep

-----------------------------------------------------------------------------
LEMMA IdlePhase ==
    ASSUME NEW r \in Requests, req'[r] = Idle
    PROVE  Phase(req[r])'
<1>1. req'[r].pc = "idle" /\ req'[r].op = "none"
  BY DEF Idle
<1> QED
  BY <1>1 DEF Phase

\* A request ends, and what is left of the rows is shown as before.
LEMMA FinishAlone ==
    ASSUME LinkInv, LinkInv', NEW r \in Requests, AloneAt(r), Finish(r), ShownKept,
           \/ faults' # 0
           \/ faults' = faults /\ req[r].pc # "switch"
    PROVE  AloneAt(r)'
<1>1. req'[r] = Idle
  BY DEF Finish, LinkInv, TypeOK
<1>2. TypeOK /\ LinksOK /\ TypeOK' /\ LinksOK' /\ RowsLinear
  BY DEF LinkInv, AloneAt
<1>3. RowsLinear'
  BY <1>2, ShownKeptMeans
<1>4. ShownAt("idle")'
  <2>1. CASE faults' # 0
    BY <2>1 DEF ShownAt
  <2>2. CASE faults' = faults /\ req[r].pc # "switch"
    <3>1. ShownAt("idle")
      BY <2>2 DEF AloneAt
    <3> QED
      BY <1>2, <2>2, <3>1, ShownStays
  <2> QED
    BY <2>1, <2>2
<1> QED
  BY <1>1, <1>3, <1>4, IdlePhase DEF AloneAt

LEMMA RowsStay ==
    ASSUME msgs' = msgs
    PROVE  ShownKept
BY DEF ShownKept, ShapeKept, Ids

LEMMA ReadBranchAlone ==
    ASSUME LinkInv, NEW r \in Requests, AloneAt(r), ReadBranch(r)
    PROVE  AloneAt(r)'
<1>1. /\ req[r].pc = "branch" /\ msgs' = msgs /\ faults' = faults
      /\ TypeOK /\ LinksOK /\ RowsLinear /\ RowsOK /\ ShownAt("idle")
  BY DEF ReadBranch, LinkInv, AloneAt, TypeOK, RowsOK
<1>2. BranchOK(req[r])
  BY <1>1 DEF AloneAt, Phase
<1>3. req[r].msg \in Ids /\ IsAssistant(req[r].msg)
  BY <1>2 DEF BranchOK
<1>4. PICK C \in VariantChain(req[r].msg) :
        req' = [req EXCEPT ![r].pc = "truncate",
                           ![r].tip = IF C = {} THEN req[r].msg ELSE Max(C)]
  BY DEF ReadBranch
<1>5. C = Turn(req[r].msg) /\ C # {}
  BY <1>1, <1>3, ChainIsTurn, InItsTurn
<1>6. Max(C) \in C /\ \A x \in C : x =< Max(C)
  BY <1>1, <1>5, ChainIsRows
<1>7. req'[r].pc = "truncate" /\ req'[r].tip = Max(C) /\ req'[r].msg = req[r].msg
      /\ req'[r].op = req[r].op /\ req'[r].was = req[r].was
  BY <1>1, <1>4, <1>5 DEF TypeOK, Request
<1>8. ASSUME NEW p, p = req'[r]
      PROVE  Phase(p)
  <2>1. BranchOK(p)
    BY <1>2, <1>7, <1>8 DEF BranchOK, WasKept
  <2>2. p.pc = "truncate" /\ TruncateOK(p)
    BY <2>1, <1>5, <1>6, <1>7, <1>8 DEF TruncateOK
  <2> QED
    BY <2>2 DEF Phase
<1> QED
  BY <1>1, <1>8, ReadStep

LEMMA ReadChainAlone ==
    ASSUME LinkInv, NEW r \in Requests, AloneAt(r), ReadChain(r)
    PROVE  AloneAt(r)'
<1>1. /\ req[r].pc = "chain" /\ msgs' = msgs /\ faults' = faults
      /\ TypeOK /\ LinksOK /\ RowsLinear /\ RowsOK /\ ShownAt("idle")
  BY DEF ReadChain, LinkInv, AloneAt, TypeOK, RowsOK
<1>2. ChainOK(req[r])
  BY <1>1 DEF AloneAt, Phase
<1>3. req[r].msg \in LastTurn /\ req[r].msg \in Ids /\ IsAssistant(req[r].msg)
  BY <1>1, <1>2, LastTurnMeans DEF ChainOK
<1>4. PICK C \in VariantChain(req[r].msg) :
        LET chain == IF C = {} THEN {req[r].msg} ELSE C
        IN  req' = [req EXCEPT ![r].pc = "archive", ![r].chain = chain, ![r].tip = Max(chain)]
  BY DEF ReadChain
<1>5. C = LastTurn /\ C # {}
  BY <1>1, <1>3, ChainIsTurn, InItsTurn, LastTurnMeans
<1>6. Max(C) \in C /\ \A x \in C : x =< Max(C)
  BY <1>1, <1>5, ChainIsRows
<1>7. IsLast(Max(C))
  BY <1>1, <1>5, <1>6, EndOfLastTurn
<1>8. req'[r].pc = "archive" /\ req'[r].tip = Max(C) /\ req'[r].chain = C
      /\ req'[r].op = req[r].op /\ req'[r].was = req[r].was
  BY <1>1, <1>4, <1>5 DEF TypeOK, Request
<1>9. ASSUME NEW p, p = req'[r]
      PROVE  Phase(p)
  <2>1. p.pc = "archive" /\ ArchiveOK(p)
    BY <1>2, <1>5, <1>6, <1>7, <1>8, <1>9 DEF ChainOK, ArchiveOK, WasKept
  <2> QED
    BY <2>1 DEF Phase
<1> QED
  BY <1>1, <1>9, ReadStep

LEMMA LoadHistoryAlone ==
    ASSUME LinkInv, NEW r \in Requests, AloneAt(r), LoadHistory(r)
    PROVE  AloneAt(r)'
<1>1. /\ req[r].pc = "history" /\ msgs' = msgs /\ faults' = faults /\ ShownAt("idle")
      /\ req \in [Requests -> Request]
  BY DEF LoadHistory, LinkInv, AloneAt, TypeOK
<1>2. ReplyOK(req[r])
  BY <1>1 DEF AloneAt, Phase
<1>3. /\ req'[r].pc = "gather" /\ req'[r].hist = History /\ req'[r].op = req[r].op
      /\ req'[r].tip = req[r].tip /\ req'[r].was = req[r].was
  BY <1>1 DEF LoadHistory, Request
<1>4. ASSUME NEW p, p = req'[r]
      PROVE  Phase(p)
  <2>1. p.pc = "gather" /\ ReplyOK(p)
    BY <1>2, <1>3, <1>4 DEF ReplyOK, AnswerOK, VariantOK, WasKept
  <2>2. PromptOK(p)
    BY <1>3, <1>4 DEF PromptOK
  <2> QED
    BY <2>1, <2>2 DEF Phase
<1> QED
  BY <1>1, <1>4, ReadStep

LEMMA StreamStartsAlone ==
    ASSUME LinkInv, NEW r \in Requests, AloneAt(r), StreamStarts(r)
    PROVE  AloneAt(r)'
<1>1. /\ req[r].pc = "gather" /\ msgs' = msgs /\ faults' = faults /\ ShownAt("idle")
      /\ req \in [Requests -> Request]
  BY DEF StreamStarts, LinkInv, AloneAt, TypeOK
<1>2. ReplyOK(req[r]) /\ PromptOK(req[r])
  BY <1>1 DEF AloneAt, Phase
<1>3. /\ req'[r].pc = "stream" /\ req'[r].hist = req[r].hist /\ req'[r].op = req[r].op
      /\ req'[r].tip = req[r].tip /\ req'[r].was = req[r].was
  BY <1>1 DEF StreamStarts, Goto, Request
<1>4. ASSUME NEW p, p = req'[r]
      PROVE  Phase(p)
  <2>1. p.pc = "stream" /\ ReplyOK(p)
    BY <1>2, <1>3, <1>4 DEF ReplyOK, AnswerOK, VariantOK, WasKept
  <2>2. PromptOK(p)
    BY <1>2, <1>3, <1>4 DEF PromptOK
  <2> QED
    BY <2>1, <2>2 DEF Phase
<1> QED
  BY <1>1, <1>4, ReadStep

LEMMA ActivateCheckAlone ==
    ASSUME LinkInv, LinkInv', NEW r \in Requests, AloneAt(r), ActivateCheck(r)
    PROVE  AloneAt(r)'
<1>1. /\ req[r].pc = "check" /\ msgs' = msgs /\ faults' = faults /\ ShownAt("idle")
      /\ req \in [Requests -> Request] /\ TypeOK /\ LinksOK
  BY DEF ActivateCheck, LinkInv, AloneAt, TypeOK
<1>2. CheckOK(req[r])
  BY <1>1 DEF AloneAt, Phase
<1>3. CASE Finish(r)
  BY <1>1, <1>3, RowsStay, FinishAlone
<1>4. CASE Goto(r, "switch") /\ ~\E m \in Ids : m > Max(req[r].chain)
  <2> DEFINE m == req[r].msg
             C == req[r].chain
  <2>1. req'[r].pc = "switch" /\ req'[r].msg = m /\ req'[r].chain = C
    BY <1>1, <1>4 DEF Goto, Request
  <2>2. m \in Ids /\ C = Variants(m) /\ Ids \subseteq Nat
    BY <1>1, <1>2, RowFacts DEF CheckOK
  <2>3. C \subseteq Ids /\ m \in C
    <3>1. CASE IsUser(m)
      BY <2>2, <3>1 DEF Variants
    <3>2. CASE IsAssistant(m)
      BY <1>1, <2>2, <3>2, InItsTurn DEF Turn
    <3> QED
      BY <1>1, <2>2, <3>1, <3>2, RowFacts
  <2>4. Max(C) \in C /\ \A x \in C : x =< Max(C)
    <3>1. C \in SUBSET Nat /\ C # {} /\ \A x \in C : x =< nextId
      <4>1. \A x \in Ids : x \in Nat /\ x =< nextId
        BY <1>1, RowFacts
      <4> QED
        BY <2>3, <4>1
    <3>2. nextId \in Nat
      BY <1>1, RowFacts
    <3> HIDE DEF C
    <3> QED
      BY <3>1, <3>2, MaxOfNats
  <2> DEFINE e == Max(C)
  <2>5. e \in Nat /\ e \in Ids /\ \A x \in Ids : x \in Nat /\ x =< e
    <3>1. e \in Ids /\ \A x \in Ids : x \in Nat /\ ~(x > e)
      BY <1>4, <2>2, <2>3, <2>4
    <3> HIDE DEF e
    <3> QED
      BY <3>1
  <2> HIDE DEF e
  <2>6. IsLast(e)
    BY <2>5 DEF IsLast
  <2>7. CASE IsUser(m)
    <3>1. C = {m} /\ e = m
      BY <2>2, <2>4, <2>7 DEF Variants, e
    <3>2. ASSUME NEW p, p = req'[r]
          PROVE  Phase(p)
      <4>1. p.pc = "switch" /\ SwitchOK(p)
        BY <3>1, <3>2, <2>1, <2>6, <2>7 DEF SwitchOK
      <4> QED
        BY <4>1 DEF Phase
    <3> QED
      BY <1>1, <3>2, ReadStep
  <2>8. CASE IsAssistant(m)
    <3>1. C = Turn(m) /\ m \in C
      BY <1>1, <2>2, <2>8, InItsTurn
    <3>2. e \in C
      BY <2>4 DEF e
    <3>3. IsAssistant(e) /\ SameTurn(m, e)
      BY <3>1, <3>2 DEF Turn
    <3>4. ~IsUser(e) /\ ~IsUser(m) /\ m \in Nat
      BY <1>1, <2>2, <2>5, <2>8, <3>3, RowFacts
    <3>5. \A u \in Ids : IsUser(u) => ~(m < u /\ u =< e) /\ ~(e < u /\ u =< m)
      BY <1>1, <2>5, <3>3, <3>4, SameTurnMeans
    <3>6. ASSUME NEW u \in Ids, IsUser(u)
          PROVE  u < m
      <4>1. u =< e /\ u # m /\ u \in Nat
        BY <2>5, <3>4, <3>6
      <4>2. ~(m < u)
        BY <3>5, <3>6, <4>1
      <4> QED
        BY <4>1, <4>2, <3>4
    <3>7. m \in LastTurn
      BY <2>2, <3>6 DEF LastTurn
    <3>8. C = LastTurn
      BY <1>1, <3>1, <3>7, LastTurnMeans
    <3>9. ASSUME NEW p, p = req'[r]
          PROVE  Phase(p)
      <4>1. p.pc = "switch" /\ p.chain = LastTurn /\ p.msg \in LastTurn
        BY <3>7, <3>8, <3>9, <2>1
      <4>2. SwitchOK(p)
        BY <4>1 DEF SwitchOK
      <4> QED
        BY <4>1, <4>2 DEF Phase
    <3> QED
      BY <1>1, <3>9, ReadStep
  <2> QED
    BY <1>1, <2>2, <2>7, <2>8, RowFacts
<1> QED
  BY <1>3, <1>4 DEF ActivateCheck

-----------------------------------------------------------------------------
\* The writes.
LEMMA SetActiveMeans ==
    ASSUME TypeOK, NEW S, NEW b \in BOOLEAN, SetActive(S, b)
    PROVE  /\ ShapeKept /\ Ids' = Ids
           /\ \A m \in Ids : IF m \in S THEN msgs'[m].active = b
                                        ELSE msgs'[m].active = msgs[m].active
<1>1. Ids' = Ids
  BY DEF SetActive, Ids
<1>2. ASSUME NEW m \in Ids
      PROVE  /\ msgs'[m].role = msgs[m].role /\ msgs'[m].parent = msgs[m].parent
             /\ IF m \in S THEN msgs'[m].active = b ELSE msgs'[m].active = msgs[m].active
  <2>1. msgs[m] \in Message
    BY DEF TypeOK
  <2>2. msgs'[m] = IF m \in S THEN [msgs[m] EXCEPT !.active = b] ELSE msgs[m]
    BY DEF SetActive
  <2> QED
    BY <2>1, <2>2 DEF Message
<1> QED
  BY <1>1, <1>2 DEF ShapeKept

LEMMA SetBodyMeans ==
    ASSUME TypeOK, NEW S, NEW b, SetBody(S, b)
    PROVE  ShownKept
<1>1. Ids' = Ids
  BY DEF SetBody, Ids
<1>2. ASSUME NEW m \in Ids
      PROVE  /\ msgs'[m].role = msgs[m].role /\ msgs'[m].parent = msgs[m].parent
             /\ msgs'[m].active = msgs[m].active
  <2>1. msgs[m] \in Message
    BY DEF TypeOK
  <2>2. msgs'[m] = IF m \in S THEN [msgs[m] EXCEPT !.body = b] ELSE msgs[m]
    BY DEF SetBody
  <2> QED
    BY <2>1, <2>2 DEF Message
<1> QED
  BY <1>1, <1>2 DEF ShownKept, ShapeKept

LEMMA PrefixMeans ==
    ASSUME TypeOK, LinksOK, NEW n \in Nat,
           DeleteAfter(n) \/ msgs' = Restrict(msgs, {m \in Ids : m < n})
    PROVE  /\ ShownKept
           /\ DeleteAfter(n) => Ids' = {m \in Ids : m =< n}
<1>1. Ids \subseteq Nat
  BY RowFacts
<1>2. CASE DeleteAfter(n)
  <2>1. Ids' = {m \in Ids : m =< n} /\ \A m \in Ids' : msgs'[m] = msgs[m]
    BY <1>2 DEF DeleteAfter, Restrict, Ids
  <2>2. \A m \in Ids', i \in Ids : i < m => i \in Ids'
    BY <1>1, <2>1
  <2> QED
    BY <2>1, <2>2 DEF ShownKept, ShapeKept
<1>3. CASE msgs' = Restrict(msgs, {m \in Ids : m < n})
  <2>1. Ids' = {m \in Ids : m < n} /\ \A m \in Ids' : msgs'[m] = msgs[m]
    BY <1>3 DEF Restrict, Ids
  <2>2. \A m \in Ids', i \in Ids : i < m => i \in Ids'
    BY <1>1, <2>1
  <2> QED
    BY <2>1, <2>2 DEF ShownKept, ShapeKept, DeleteAfter, Restrict, Ids
<1> QED
  BY <1>2, <1>3

\* A new row comes last, and the rows before it are as they were.
LEMMA InsertMeans ==
    ASSUME TypeOK, LinksOK, TypeOK', LinksOK', NEW role, NEW parent, NEW body,
           Insert(Row(role, parent, body))
    PROVE  /\ Ids' = Ids \cup {nextId} /\ nextId \notin Ids
           /\ msgs'[nextId].role = role /\ msgs'[nextId].parent = parent
           /\ msgs'[nextId].active = TRUE
           /\ \A m \in Ids : /\ m < nextId /\ msgs'[m] = msgs[m]
                             /\ IsUser(m)' <=> IsUser(m)
                             /\ IsAssistant(m)' <=> IsAssistant(m)
                             /\ LinearAt(m) => LinearAt(m)'
           /\ \A m, n \in Ids : SameTurn(m, n)' <=> SameTurn(m, n)
           /\ ActiveIds' = ActiveIds \cup {nextId}
<1>1. /\ Ids' = Ids \cup {nextId}
      /\ msgs'[nextId] = Row(role, parent, body)
      /\ \A m \in Ids : m # nextId => msgs'[m] = msgs[m]
  BY DEF Insert, Ids
<1>2. nextId \in Nat /\ \A m \in Ids : m \in Nat /\ m < nextId
  BY RowFacts
<1>3. nextId \notin Ids /\ \A m \in Ids : msgs'[m] = msgs[m]
  BY <1>1, <1>2
<1>4. \A m \in Ids : (IsUser(m)' <=> IsUser(m)) /\ (IsAssistant(m)' <=> IsAssistant(m))
  BY <1>3 DEF IsUser, IsAssistant
<1>5. ASSUME NEW m \in Ids, LinearAt(m)
      PROVE  LinearAt(m)'
  <2>1. PICK p \in Ids : Precedes(p, m) /\ msgs[m].parent = IF IsUser(p) THEN NoParent ELSE p
    BY <1>5 DEF LinearAt
  <2>2. p \in Ids' /\ ~(nextId < m)
    BY <1>1, <1>2
  <2>3. Precedes(p, m)'
    BY <1>1, <2>1, <2>2 DEF Precedes
  <2>4. msgs'[m].parent = IF IsUser(p)' THEN NoParent ELSE p
    BY <1>3, <1>4, <2>1
  <2> QED
    BY <2>2, <2>3, <2>4 DEF LinearAt
<1>6. ASSUME NEW m \in Ids, NEW n \in Ids
      PROVE  SameTurn(m, n)' <=> SameTurn(m, n)
  <2>1. m \in Nat /\ n \in Nat
    BY <1>2
  <2>2. SameTurn(m, n) <=> ~Separated(m, n)
    BY <2>1, SameTurnMeans DEF Separated
  <2>3. SameTurn(m, n)' <=> ~Separated(m, n)'
    BY <2>1, FactsNext
  <2>4. ~(nextId =< n) /\ ~(nextId =< m)
    BY <1>2
  <2>5. Separated(m, n)' <=> Separated(m, n)
    BY <1>1, <1>4, <2>4 DEF Separated
  <2> QED
    BY <2>2, <2>3, <2>5
<1>7. ActiveIds' = ActiveIds \cup {nextId}
  BY <1>1, <1>3 DEF ActiveIds, Row
<1> QED
  BY <1>1, <1>2, <1>3, <1>4, <1>5, <1>6, <1>7 DEF Row

\* The new row is linear, and when it is a reply, its turn shows no other.
LEMMA InsertAlone ==
    ASSUME TypeOK, LinksOK, TypeOK', LinksOK', RowsLinear, ShownAt("idle"), faults' = faults,
           NEW role \in {"user", "assistant"}, NEW parent, NEW body,
           Insert(Row(role, parent, body)),
           role = "assistant" =>
               /\ LastTurn \cap ActiveIds = {}
               /\ \E p \in Ids : IsLast(p) /\ parent = IF IsUser(p) THEN NoParent ELSE p
    PROVE  RowsLinear' /\ ShownAt("idle")'
<1>1. /\ Ids' = Ids \cup {nextId} /\ nextId \notin Ids
      /\ msgs'[nextId].role = role /\ msgs'[nextId].parent = parent
      /\ msgs'[nextId].active = TRUE
      /\ \A m \in Ids : /\ m < nextId /\ msgs'[m] = msgs[m]
                        /\ IsUser(m)' <=> IsUser(m)
                        /\ IsAssistant(m)' <=> IsAssistant(m)
                        /\ LinearAt(m) => LinearAt(m)'
      /\ \A m, n \in Ids : SameTurn(m, n)' <=> SameTurn(m, n)
      /\ ActiveIds' = ActiveIds \cup {nextId}
  BY InsertMeans
<1>0. PICK id \in Nat : id = nextId
  BY RowFacts
<1>2. Ids \subseteq Nat /\ nextId \in Nat
  BY RowFacts
<1>3. ASSUME NEW m \in Ids', IsAssistant(m)'
      PROVE  LinearAt(m)'
  <2>1. CASE m \in Ids
    BY <1>1, <1>3, <2>1 DEF RowsLinear
  <2>2. CASE m = nextId
    <3>1. role = "assistant"
      BY <1>1, <1>3, <2>2 DEF IsAssistant
    <3>2. PICK p \in Ids : IsLast(p) /\ parent = IF IsUser(p) THEN NoParent ELSE p
      BY <3>1
    <3>3. Precedes(p, m)'
      BY <1>1, <1>2, <2>2, <3>2 DEF Precedes, IsLast
    <3>4. msgs'[m].parent = IF IsUser(p)' THEN NoParent ELSE p
      BY <1>1, <2>2, <3>2
    <3> QED
      BY <1>1, <3>3, <3>4 DEF LinearAt
  <2> QED
    BY <1>1, <2>1, <2>2
<1>4. \A u \in Ids' : IsUser(u)' => msgs'[u].active
  BY <1>1 DEF RowsLinear
<1>5. ASSUME NEW m \in ActiveIds, IsAssistant(m)', IsAssistant(id)',
             SameTurn(m, id)' \/ SameTurn(id, m)'
      PROVE  FALSE
  <2>1. role = "assistant" /\ m \in Ids /\ m \in Nat
    BY <1>0, <1>1, <1>2, <1>5 DEF IsAssistant, ActiveIds
  <2>2. PICK u \in Ids : IsUser(u) /\ m =< u
    <3>1. m \notin LastTurn
      BY <1>5, <2>1
    <3> QED
      BY <2>1, <3>1, LastTurnMeans DEF Asked
  <2>3. u # m /\ u \in Nat /\ u =< id /\ IsUser(u)' /\ u \in Ids'
    BY <1>0, <1>1, <1>2, <1>5, <2>1, <2>2, RowFacts
  <2>4. Separated(m, id)' /\ Separated(id, m)'
    <3>1. m < u /\ u =< id
      BY <2>1, <2>2, <2>3
    <3> QED
      BY <1>0, <1>1, <2>2, <2>3, <3>1 DEF Separated
  <2>5. ~Separated(m, id)' \/ ~Separated(id, m)'
    <3>1. SameTurn(m, id)' => ~Separated(m, id)'
      <4>1. \A n \in Nat : SameTurn(m, n)' => ~Separated(m, n)'
        BY <2>1, FactsNext
      <4> QED
        BY <4>1
    <3>2. SameTurn(id, m)' => ~Separated(id, m)'
      <4>1. \A n \in Nat : SameTurn(n, m)' => ~Separated(n, m)'
        BY <2>1, FactsNext
      <4> QED
        BY <4>1
    <3> QED
      BY <1>5, <3>1, <3>2
  <2> QED
    BY <2>4, <2>5
<1>6. ShownAt("idle")'
  <2> SUFFICES ASSUME faults' = 0, NEW m \in ActiveIds', NEW n \in ActiveIds',
                      IsAssistant(m)', IsAssistant(n)', SameTurn(m, n)'
               PROVE  m = n
    BY DEF ShownAt
  <2>1. CASE m \in ActiveIds /\ n \in ActiveIds
    <3>1. m \in Ids /\ n \in Ids
      BY <2>1 DEF ActiveIds
    <3> QED
      BY <1>1, <2>1, <3>1 DEF ShownAt
  <2>2. CASE m = id /\ n \in ActiveIds
    BY <1>5, <2>2
  <2>3. CASE m \in ActiveIds /\ n = id
    BY <1>5, <2>3
  <2> QED
    BY <1>0, <1>1, <2>1, <2>2, <2>3
<1> QED
  BY <1>3, <1>4, <1>6 DEF RowsLinear

-----------------------------------------------------------------------------
\* What was shown up to the last user row when the request began is shown still.
LEMMA WasStays ==
    ASSUME TypeOK, LinksOK, TypeOK', LinksOK', ShapeKept, RowsLinear,
           ActiveIds' \cap Asked = ActiveIds \cap Ids' \cap Asked,
           NEW q, WasKept(q)
    PROVE  WasKept(q)'
<1>1. Asked' \subseteq Asked /\ Asked' \subseteq Ids'
  BY ShapeKeptMeans DEF Asked, ShapeKept
<1> QED
  BY <1>1 DEF WasKept

LEMMA SendCommitAlone ==
    ASSUME LinkInv, LinkInv', NEW r \in Requests, AloneAt(r), SendCommit(r)
    PROVE  AloneAt(r)'
<1>1. /\ TypeOK /\ LinksOK /\ TypeOK' /\ LinksOK' /\ RowsLinear /\ ShownAt("idle")
      /\ req[r].pc = "insert" /\ faults' = faults
      /\ Insert(Row("user", NoParent, "text"))
  BY DEF LinkInv, AloneAt, SendCommit
<1>2. InsertOK(req[r])
  BY <1>1 DEF AloneAt, Phase
<1>3. RowsLinear' /\ ShownAt("idle")'
  BY <1>1, InsertAlone
<1>4. PICK id \in Nat : id = nextId
  BY <1>1, RowFacts
<1>5. /\ Ids' = Ids \cup {id} /\ id \notin Ids /\ msgs'[id].role = "user"
      /\ \A m \in Ids : m < id /\ msgs'[m] = msgs[m]
      /\ ActiveIds' = ActiveIds \cup {id}
  BY <1>1, <1>4, InsertMeans
<1>6. IsLast(id)' /\ IsUser(id)' /\ id \in Ids'
  <2>1. \A m \in Ids : m =< id
    BY <1>1, <1>5, RowFacts
  <2> QED
    BY <1>5, <2>1 DEF IsLast, IsUser
<1>7. History' = History \cup {id}
  BY <1>5 DEF History, ActiveIds
<1>8. /\ req'[r].pc = "gather" /\ req'[r].op = "send" /\ req'[r].tip = 0
      /\ req'[r].hist = req[r].hist \cup {id}
  BY <1>1, <1>2, <1>4 DEF SendCommit, InsertOK, TypeOK, Request
<1>9. AnswerOK(req[r])'
  BY <1>6, <1>8 DEF AnswerOK
<1>10. PromptOK(req[r])'
  BY <1>2, <1>7, <1>8 DEF PromptOK, InsertOK
<1>11. Phase(req[r])'
  BY <1>8, <1>9, <1>10 DEF Phase, ReplyOK
<1> QED
  BY <1>3, <1>11 DEF AloneAt

LEMMA EditCommitAlone ==
    ASSUME LinkInv, LinkInv', NEW r \in Requests, AloneAt(r), EditCommit(r)
    PROVE  AloneAt(r)'
<1>1. /\ TypeOK /\ LinksOK /\ TypeOK' /\ LinksOK' /\ RowsLinear /\ ShownAt("idle")
      /\ req[r].pc = "rewrite" /\ faults' = faults /\ DeleteAfter(req[r].msg)
      /\ req[r].msg \in Nat
  BY DEF LinkInv, AloneAt, EditCommit, TypeOK, Request
<1>2. RewriteOK(req[r])
  BY <1>1 DEF AloneAt, Phase
<1>3. PICK m \in Nat : m = req[r].msg
  BY <1>1
<1>4. ShownKept /\ Ids' = {i \in Ids : i =< m}
  BY <1>1, <1>3, PrefixMeans
<1>5. RowsLinear' /\ ShownAt("idle")'
  BY <1>1, <1>4, ShownKeptMeans, ShownStays
<1>6. m \in Ids' /\ IsUser(m)' /\ IsLast(m)'
  <2>1. m \in Ids' /\ IsUser(m)
    BY <1>2, <1>3, <1>4 DEF RewriteOK
  <2> QED
    BY <1>1, <1>4, <2>1, ShapeKeptMeans DEF IsLast, ShownKept
<1>7. req'[r].pc = "history" /\ req'[r].op = "edit" /\ req'[r].tip = 0
  BY <1>1, <1>2 DEF EditCommit, Goto, RewriteOK, TypeOK, Request
<1>8. AnswerOK(req[r])'
  BY <1>6, <1>7 DEF AnswerOK
<1>9. Phase(req[r])'
  BY <1>7, <1>8 DEF Phase, ReplyOK
<1> QED
  BY <1>5, <1>9 DEF AloneAt

LEMMA BranchAlone ==
    ASSUME LinkInv, LinkInv', NEW r \in Requests, AloneAt(r), Branch(r)
    PROVE  AloneAt(r)' /\ \A m \in Ids \ Ids' : ~SameTurn(m, req[r].msg)
<1>1. /\ TypeOK /\ LinksOK /\ TypeOK' /\ LinksOK' /\ RowsLinear /\ ShownAt("idle")
      /\ req[r].pc = "truncate" /\ faults' = faults /\ DeleteAfter(req[r].tip)
      /\ req[r].tip \in Nat
  BY DEF LinkInv, AloneAt, Branch, TypeOK, Request
<1>2. TruncateOK(req[r]) /\ BranchOK(req[r])
  BY <1>1 DEF AloneAt, Phase, TruncateOK
<1>3. PICK t \in Nat : t = req[r].tip
  BY <1>1
<1>4. PICK m \in Ids : m = req[r].msg /\ IsAssistant(m)
  BY <1>2 DEF BranchOK
<1>5. m \in Nat /\ ~IsUser(m) /\ t \in Turn(m) /\ \A n \in Turn(m) : n =< t
  BY <1>1, <1>2, <1>3, <1>4, RowFacts DEF TruncateOK
<1>6. ShownKept /\ ShapeKept /\ Ids' = {i \in Ids : i =< t}
  BY <1>1, <1>3, PrefixMeans DEF ShownKept
<1>7. RowsLinear' /\ ShownAt("idle")' /\ ActiveIds' = ActiveIds \cap Ids'
  BY <1>1, <1>6, ShownKeptMeans, ShownStays
<1>8. t \in Ids /\ IsAssistant(t) /\ SameTurn(m, t) /\ ~IsUser(t) /\ m =< t
  <2>1. t \in Ids /\ IsAssistant(t) /\ SameTurn(m, t)
    BY <1>5 DEF Turn
  <2>2. m =< t
    BY <1>1, <1>4, <1>5, InItsTurn
  <2> QED
    BY <1>1, <2>1, <2>2, RowFacts
<1>9. \A u \in Ids : IsUser(u) => u \in Nat /\ (u =< t => u < m)
  <2> SUFFICES ASSUME NEW u \in Ids, IsUser(u), u =< t
               PROVE  u < m
    BY <1>1, RowFacts
  <2>1. ~(m < u /\ u =< t) /\ u \in Nat /\ u # m
    BY <1>1, <1>3, <1>4, <1>5, <1>8, SameTurnMeans, RowFacts
  <2> QED
    BY <2>1, <1>5
<1>10. m \in LastTurn'
  <2>1. m \in Ids'
    BY <1>4, <1>6, <1>8
  <2>2. \A u \in Ids' : IsUser(u)' => u < m
    BY <1>1, <1>6, <1>9, ShapeKeptMeans
  <2> QED
    BY <2>1, <2>2 DEF LastTurn
<1>11. /\ req'[r].pc = "chain" /\ req'[r].op = "regenerate_message" /\ req'[r].msg = m
       /\ req'[r].was = req[r].was
  BY <1>1, <1>2, <1>4 DEF Branch, Goto, BranchOK, TypeOK, Request
<1>12. WasKept(req[r])'
  <2>1. ASSUME NEW q, WasKept(q)
        PROVE  WasKept(q)'
    BY <1>1, <1>6, <1>7, <2>1, WasStays
  <2>2. PICK q : q = req[r]
    OBVIOUS
  <2>3. WasKept(q)'
    BY <1>2, <2>1, <2>2 DEF BranchOK
  <2>4. req'[r].was = q.was
    BY <1>11, <2>2
  <2> QED
    BY <2>3, <2>4 DEF WasKept
<1>13. Phase(req[r])'
  BY <1>10, <1>11, <1>12 DEF Phase, ChainOK, Regenerations
<1>14. ASSUME NEW n \in Ids \ Ids'
       PROVE  ~SameTurn(n, req[r].msg)
  <2>1. n \in Nat /\ n > t
    BY <1>1, <1>6, RowFacts
  <2>2. CASE IsAssistant(n)
    <3>1. n \notin Turn(m)
      BY <2>1, <1>5
    <3>2. SameTurn(n, m) => SameTurn(m, n)
      BY <1>1, <1>5, <2>1, SameTurnMeans
    <3> QED
      BY <1>4, <2>2, <3>1, <3>2 DEF Turn
  <2>3. CASE IsUser(n)
    <3>1. m < n
      BY <1>3, <1>5, <1>8, <2>1
    <3>2. Separated(n, m)
      BY <2>1, <2>3, <3>1 DEF Separated
    <3>3. ~SameTurn(n, m)
      BY <1>1, <1>5, <2>1, <3>2, SameTurnMeans DEF Separated
    <3> QED
      BY <1>4, <3>3
  <2> QED
    BY <1>1, <2>2, <2>3, RowFacts
<1> QED
  BY <1>7, <1>13, <1>14 DEF AloneAt

LEMMA ArchiveAlone ==
    ASSUME LinkInv, LinkInv', NEW r \in Requests, AloneAt(r), Archive(r)
    PROVE  AloneAt(r)'
<1>1. /\ TypeOK /\ LinksOK /\ TypeOK' /\ LinksOK' /\ RowsLinear /\ ShownAt("idle")
      /\ req[r].pc = "archive" /\ faults' = faults /\ SetActive(req[r].chain, FALSE)
      /\ req[r].tip \in Nat
  BY DEF LinkInv, AloneAt, Archive, TypeOK, Request
<1>2. ArchiveOK(req[r])
  BY <1>1 DEF AloneAt, Phase
<1>3. PICK t \in Nat : t = req[r].tip
  BY <1>1
<1>4. PICK S : S = LastTurn
  OBVIOUS
<1>5. req[r].chain = S /\ t \in S /\ IsLast(t)
  BY <1>2, <1>3, <1>4 DEF ArchiveOK
<1>6. /\ ShapeKept /\ Ids' = Ids
      /\ \A m \in Ids : IF m \in S THEN msgs'[m].active = FALSE
                                   ELSE msgs'[m].active = msgs[m].active
  <2>1. SetActive(S, FALSE) /\ FALSE \in BOOLEAN
    BY <1>1, <1>5
  <2> QED
    BY <1>1, <2>1, SetActiveMeans
<1>7. LastTurn' = S /\ Asked' = Asked /\ IsLast(t)'
  BY <1>1, <1>4, <1>5, <1>6, AllKeptMeans
<1>8. ActiveIds' = ActiveIds \ S
  BY <1>6 DEF ActiveIds
<1>9. RowsLinear'
  <2>1. ASSUME NEW m \in Ids', IsAssistant(m)'
        PROVE  LinearAt(m)'
    BY <1>1, <1>6, <2>1, ShapeKeptMeans DEF RowsLinear
  <2>2. ASSUME NEW u \in Ids', IsUser(u)'
        PROVE  msgs'[u].active
    <3>1. IsUser(u) /\ u \in Ids
      BY <1>1, <1>6, <2>2, ShapeKeptMeans
    <3>2. u \notin S
      BY <1>1, <1>4, <3>1, LastTurnMeans, RowFacts
    <3> QED
      BY <1>1, <1>6, <3>1, <3>2 DEF RowsLinear
  <2> QED
    BY <2>1, <2>2 DEF RowsLinear
<1>10. ShownAt("idle")'
  <2> SUFFICES ASSUME faults' = 0, NEW m \in ActiveIds', NEW n \in ActiveIds',
                      IsAssistant(m)', IsAssistant(n)', SameTurn(m, n)'
               PROVE  m = n
    BY DEF ShownAt
  <2>1. m \in Ids' /\ n \in Ids' /\ m \in ActiveIds /\ n \in ActiveIds
    BY <1>8 DEF ActiveIds
  <2>2. IsAssistant(m) /\ IsAssistant(n) /\ SameTurn(m, n)
    BY <1>1, <1>6, <2>1, ShapeKeptMeans
  <2> QED
    BY <1>1, <2>1, <2>2 DEF ShownAt
<1>11. /\ req'[r].pc = "history" /\ req'[r].op = req[r].op /\ req'[r].tip = t
       /\ req'[r].was = req[r].was
  BY <1>1, <1>3 DEF Archive, Goto, TypeOK, Request
<1>12. req'[r].op \in Regenerations
  BY <1>2, <1>11 DEF ArchiveOK
<1>13. WasKept(req[r])'
  <2>1. ActiveIds' \cap Asked = ActiveIds \cap Asked
    BY <1>1, <1>4, <1>8, LastTurnMeans
  <2> QED
    BY <1>2, <1>7, <1>11, <2>1 DEF WasKept, ArchiveOK
<1>14. VariantOK(req[r])'
  BY <1>5, <1>7, <1>8, <1>11, <1>12, <1>13 DEF VariantOK
<1>15. Phase(req[r])'
  BY <1>11, <1>14 DEF Phase, ReplyOK
<1> QED
  BY <1>9, <1>10, <1>15 DEF AloneAt

-----------------------------------------------------------------------------
\* The ends of a stream.

\* When the last row is a user's, no turn is open.
LEMMA NoLastTurn ==
    ASSUME TypeOK, LinksOK, NEW u \in Ids, IsUser(u), IsLast(u)
    PROVE  LastTurn = {} /\ Asked = Ids
<1>1. \A m \in Ids : m =< u /\ m \in Nat /\ u \in Nat
  BY RowFacts DEF IsLast
<1>2. \A m \in Ids : ~(u < m)
  BY <1>1
<1> QED
  BY <1>1, <1>2 DEF LastTurn, Asked

\* What a request that is about to store a reply relies on.
ReplyPoint(parent) ==
    /\ LastTurn \cap ActiveIds = {}
    /\ \E p \in Ids : IsLast(p) /\ parent = IF IsUser(p) THEN NoParent ELSE p

LEMMA ReplyPointIsKnown ==
    ASSUME TypeOK, LinksOK, NEW q, ReplyOK(q), q.op # "continue"
    PROVE  ReplyPoint(q.tip)
<1>1. CASE AnswerOK(q)
  <2>1. PICK u \in Ids : IsUser(u) /\ IsLast(u)
    BY <1>1 DEF AnswerOK
  <2>2. LastTurn = {}
    BY <2>1, NoLastTurn
  <2> QED
    BY <1>1, <2>1, <2>2 DEF AnswerOK, ReplyPoint, NoParent
<1>2. CASE VariantOK(q)
  <2>1. q.tip \in LastTurn /\ IsLast(q.tip) /\ LastTurn \cap ActiveIds = {}
    BY <1>2 DEF VariantOK
  <2>2. IsAssistant(q.tip) /\ q.tip \in Ids
    BY <2>1, LastTurnMeans
  <2>3. ~IsUser(q.tip)
    BY <2>2, RowFacts
  <2> QED
    BY <2>1, <2>2, <2>3 DEF ReplyPoint
<1> QED
  BY <1>1, <1>2 DEF ReplyOK

\* Every shown row is then in the prompt, or is a blank reply.
LEMMA PromptIsAsked ==
    ASSUME TypeOK, LinksOK, LastTurn \cap ActiveIds = {}
    PROVE  History = {m \in History : \E u \in Ids : IsUser(u) /\ m =< u}
<1>1. ASSUME NEW m \in History
      PROVE  \E u \in Ids : IsUser(u) /\ m =< u
  <2>1. m \in ActiveIds /\ m \in Ids
    BY DEF History, ActiveIds
  <2>2. m \in Asked
    BY <2>1, LastTurnMeans
  <2> QED
    BY <2>2 DEF Asked
<1> QED
  BY <1>1

LEMMA StoreReplyAlone ==
    ASSUME LinkInv, LinkInv', NEW r \in Requests, AloneAt(r), NEW body, StoreReply(r, body)
    PROVE  /\ AloneAt(r)'
           /\ req[r].hist = {m \in History : \E u \in Ids : IsUser(u) /\ m =< u}
           /\ req[r].op \in Regenerations =>
                /\ ActiveIds' \cap Asked = req[r].was \cap Asked
                /\ \E id : ActiveIds' \ Asked = {id}
<1>1. /\ TypeOK /\ LinksOK /\ TypeOK' /\ LinksOK' /\ RowsLinear /\ ShownAt("idle")
      /\ req[r].pc = "stream" /\ req[r].op # "continue" /\ faults' = faults /\ Finish(r)
      /\ req'[r] = Idle /\ Insert(Row("assistant", req[r].tip, body))
  BY DEF LinkInv, AloneAt, StoreReply, Finish, TypeOK
<1>2. ReplyOK(req[r]) /\ PromptOK(req[r])
  BY <1>1 DEF AloneAt, Phase
<1>3. ReplyPoint(req[r].tip)
  BY <1>1, <1>2, ReplyPointIsKnown
<1>4. RowsLinear' /\ ShownAt("idle")'
  BY <1>1, <1>3, InsertAlone DEF ReplyPoint
<1>5. AloneAt(r)'
  BY <1>1, <1>4, IdlePhase DEF AloneAt
<1>6. req[r].hist = {m \in History : \E u \in Ids : IsUser(u) /\ m =< u}
  BY <1>1, <1>2, <1>3, PromptIsAsked DEF PromptOK, ReplyPoint
<1>7. ASSUME req[r].op \in Regenerations
      PROVE  /\ ActiveIds' \cap Asked = req[r].was \cap Asked
             /\ \E id : ActiveIds' \ Asked = {id}
  <2>1. WasKept(req[r]) /\ LastTurn \cap ActiveIds = {}
    BY <1>2, <1>7 DEF ReplyOK, AnswerOK, VariantOK, Regenerations
  <2>2. PICK id : id = nextId
    OBVIOUS
  <2>3. ActiveIds' = ActiveIds \cup {id} /\ id \notin Ids
    BY <1>1, <2>2, InsertMeans
  <2>4. ActiveIds \subseteq Asked /\ Asked \subseteq Ids
    BY <1>1, <2>1, LastTurnMeans DEF ActiveIds
  <2> QED
    BY <2>1, <2>3, <2>4 DEF WasKept
<1> QED
  BY <1>5, <1>6, <1>7

LEMMA StreamEmptyAlone ==
    ASSUME LinkInv, LinkInv', NEW r \in Requests, AloneAt(r), StreamEmpty(r)
    PROVE  /\ AloneAt(r)'
           /\ req[r].op \in Regenerations =>
                /\ ActiveIds' \cap Asked = req[r].was \cap Asked
                /\ \E id : ActiveIds' \ Asked = {id}
<1>1. /\ TypeOK /\ LinksOK /\ TypeOK' /\ LinksOK' /\ RowsLinear /\ ShownAt("idle")
      /\ req[r].pc = "stream" /\ faults' = faults /\ Finish(r) /\ req'[r] = Idle
      /\ SetActive(IF req[r].op \in Regenerations THEN {req[r].tip} ELSE {}, TRUE)
  BY DEF LinkInv, AloneAt, StreamEmpty, Finish, TypeOK
<1>2. CASE req[r].op \notin Regenerations
  <2>1. SetActive({}, TRUE) /\ TRUE \in BOOLEAN
    BY <1>1, <1>2
  <2>2. ShownKept
    <3>1. /\ ShapeKept /\ Ids' = Ids
          /\ \A m \in Ids : IF m \in {} THEN msgs'[m].active = TRUE
                                        ELSE msgs'[m].active = msgs[m].active
      BY <1>1, <2>1, SetActiveMeans
    <3> QED
      BY <3>1 DEF ShownKept
  <2>3. AloneAt(r)'
    BY <1>1, <2>2, FinishAlone
  <2> QED
    BY <1>2, <2>3
<1>3. CASE req[r].op \in Regenerations
  <2>1. ReplyOK(req[r])
    BY <1>1 DEF AloneAt, Phase
  <2>2. VariantOK(req[r])
    BY <1>3, <2>1 DEF ReplyOK, AnswerOK, Regenerations
  <2>3. PICK t : t = req[r].tip
    OBVIOUS
  <2>4. t \in LastTurn /\ t \in Ids /\ LastTurn \cap ActiveIds = {} /\ WasKept(req[r])
    BY <2>2, <2>3 DEF VariantOK, LastTurn
  <2>5. SetActive({t}, TRUE) /\ TRUE \in BOOLEAN
    BY <1>1, <1>3, <2>3
  <2>6. /\ ShapeKept /\ Ids' = Ids
        /\ \A m \in Ids : IF m \in {t} THEN msgs'[m].active = TRUE
                                       ELSE msgs'[m].active = msgs[m].active
    BY <1>1, <2>5, SetActiveMeans
  <2>7. ActiveIds' = ActiveIds \cup {t}
    BY <2>4, <2>6 DEF ActiveIds
  <2>8. RowsLinear'
    <3>1. ASSUME NEW m \in Ids', IsAssistant(m)'
          PROVE  LinearAt(m)'
      BY <1>1, <2>6, <3>1, ShapeKeptMeans DEF RowsLinear
    <3>2. ASSUME NEW u \in Ids', IsUser(u)'
          PROVE  msgs'[u].active
      <4>1. IsUser(u) /\ u \in Ids
        BY <1>1, <2>6, <3>2, ShapeKeptMeans
      <4>2. msgs[u].active
        BY <1>1, <4>1 DEF RowsLinear
      <4> QED
        BY <2>6, <4>1, <4>2
    <3> QED
      BY <3>1, <3>2 DEF RowsLinear
  <2>9. ShownAt("idle")'
    <3> SUFFICES ASSUME faults' = 0, NEW m \in ActiveIds', NEW n \in ActiveIds',
                        IsAssistant(m)', IsAssistant(n)', SameTurn(m, n)'
                 PROVE  m = n
      BY DEF ShownAt
    <3>1. m \in Ids' /\ n \in Ids' /\ m \in Ids /\ n \in Ids
      BY <2>6 DEF ActiveIds
    <3>2. IsAssistant(m) /\ IsAssistant(n) /\ SameTurn(m, n) /\ SameTurn(n, m)
      <4>1. IsAssistant(m) /\ IsAssistant(n) /\ SameTurn(m, n)
        BY <1>1, <2>6, <3>1, ShapeKeptMeans
      <4>2. m \in Nat /\ n \in Nat
        BY <1>1, <3>1, RowFacts
      <4> QED
        BY <1>1, <4>1, <4>2, SameTurnMeans
    <3>3. m \in LastTurn => n \in LastTurn
      BY <1>1, <3>1, <3>2, LastTurnMeans DEF Turn
    <3>4. n \in LastTurn => m \in LastTurn
      BY <1>1, <3>1, <3>2, LastTurnMeans DEF Turn
    <3>5. CASE m \in LastTurn
      BY <2>4, <2>7, <3>3, <3>5
    <3>6. CASE m \notin LastTurn
      <4>1. m \in ActiveIds /\ n \in ActiveIds
        BY <2>4, <2>7, <3>4, <3>6
      <4> QED
        BY <1>1, <4>1, <3>2 DEF ShownAt
    <3> QED
      BY <3>5, <3>6
  <2>10. AloneAt(r)'
    BY <1>1, <2>8, <2>9, IdlePhase DEF AloneAt
  <2>11. ActiveIds \subseteq Asked /\ t \notin Asked
    BY <1>1, <2>4, LastTurnMeans DEF ActiveIds
  <2>12. ActiveIds' \cap Asked = req[r].was \cap Asked /\ ActiveIds' \ Asked = {t}
    BY <2>4, <2>7, <2>11 DEF WasKept
  <2> QED
    BY <2>10, <2>12
<1> QED
  BY <1>2, <1>3

-----------------------------------------------------------------------------
\* One variant of a switch.
LEMMA ActivateSwitchAlone ==
    ASSUME LinkInv, LinkInv', NEW r \in Requests, AloneAt(r), ActivateSwitch(r)
    PROVE  AloneAt(r)'
<1>1. /\ TypeOK /\ LinksOK /\ TypeOK' /\ LinksOK' /\ RowsLinear /\ ShownAt("switch")
      /\ req[r].pc = "switch" /\ faults' = faults /\ req \in [Requests -> Request]
  <2>1. ShownAt("idle") => ShownAt("switch")
    BY DEF ShownAt
  <2> QED
    BY <2>1 DEF LinkInv, AloneAt, ActivateSwitch, TypeOK
<1>2. SwitchOK(req[r])
  BY <1>1 DEF AloneAt, Phase
<1>3. PICK C \in SUBSET Nat : C = req[r].chain
  BY <1>1 DEF Request
<1>4. PICK k \in Nat : k = req[r].msg
  BY <1>1 DEF Request
<1>5. PICK v : v = Min(C)
  OBVIOUS
<1>6. v \in C
  BY <1>2, <1>3, <1>5, MinOfNats DEF SwitchOK
<1>7. /\ SetActive({v}, v = k)
      /\ \/ C = {v} /\ Finish(r)
         \/ C # {v} /\ req' = [req EXCEPT ![r].chain = C \ {v}]
  BY <1>3, <1>4, <1>5 DEF ActivateSwitch
<1>8. PICK b \in BOOLEAN : b = (v = k)
  OBVIOUS
<1>9. /\ ShapeKept /\ Ids' = Ids
      /\ \A m \in Ids : IF m \in {v} THEN msgs'[m].active = b
                                     ELSE msgs'[m].active = msgs[m].active
  <2>1. SetActive({v}, b)
    BY <1>7, <1>8
  <2> QED
    BY <1>1, <2>1, SetActiveMeans
<1>10. /\ \A m \in Ids : m # v => (m \in ActiveIds' <=> m \in ActiveIds)
       /\ v \in ActiveIds' => v = k
       /\ ActiveIds' \subseteq Ids
  BY <1>8, <1>9 DEF ActiveIds
<1>11. \A m \in Ids', n \in Ids' :
         (IsAssistant(m)' <=> IsAssistant(m)) /\ (SameTurn(m, n)' <=> SameTurn(m, n))
  BY <1>1, <1>9, ShapeKeptMeans
<1>12. IsUser(v) => v = k
  <2>1. CASE IsUser(k) /\ C = {k}
    BY <1>6, <2>1
  <2>2. CASE C \subseteq LastTurn
    <3>1. IsAssistant(v) /\ v \in Ids
      BY <1>1, <1>6, <2>2, LastTurnMeans
    <3> QED
      BY <1>1, <3>1, RowFacts
  <2> QED
    BY <1>2, <1>3, <1>4, <2>1, <2>2 DEF SwitchOK
<1>13. RowsLinear'
  <2>1. ASSUME NEW m \in Ids', IsAssistant(m)'
        PROVE  LinearAt(m)'
    BY <1>1, <1>9, <2>1, ShapeKeptMeans DEF RowsLinear
  <2>2. ASSUME NEW u \in Ids', IsUser(u)'
        PROVE  msgs'[u].active
    <3>1. IsUser(u) /\ u \in Ids
      BY <1>1, <1>9, <2>2, ShapeKeptMeans
    <3>2. msgs[u].active
      BY <1>1, <3>1 DEF RowsLinear
    <3>3. CASE u = v
      BY <1>8, <1>9, <1>12, <3>1, <3>3
    <3>4. CASE u # v
      BY <1>9, <3>1, <3>2, <3>4
    <3> QED
      BY <3>3, <3>4
  <2> QED
    BY <2>1, <2>2 DEF RowsLinear
<1>14. LastTurn' = LastTurn
  BY <1>1, <1>9, AllKeptMeans
\* Outside the last turn nothing changes.
<1>15. ASSUME faults = 0, NEW m \in ActiveIds', NEW n \in ActiveIds',
              IsAssistant(m)', IsAssistant(n)', SameTurn(m, n)', m \notin LastTurn \/ n \notin LastTurn
       PROVE  m = n
  <2>1. m \in Ids' /\ n \in Ids' /\ m \in Ids /\ n \in Ids /\ m \in Nat /\ n \in Nat
    BY <1>1, <1>9, <1>10, RowFacts
  <2>2. IsAssistant(m) /\ IsAssistant(n) /\ SameTurn(m, n)
    BY <1>11, <1>15, <2>1
  <2>3. SameTurn(n, m)
    BY <1>1, <2>1, <2>2, SameTurnMeans
  <2>4. m \notin LastTurn /\ n \notin LastTurn
    BY <1>1, <1>15, <2>1, <2>2, <2>3, LastTurnMeans DEF Turn
  <2>5. v \in LastTurn \/ IsUser(v)
    BY <1>2, <1>3, <1>6 DEF SwitchOK
  <2>6. m # v /\ n # v
    BY <1>1, <2>1, <2>2, <2>4, <2>5, RowFacts
  <2>7. m \in ActiveIds /\ n \in ActiveIds
    BY <1>10, <2>1, <2>6
  <2> QED
    BY <1>1, <1>15, <2>2, <2>4, <2>7 DEF ShownAt
<1>16. CASE IsLast(k) /\ IsUser(k) /\ C = {k}
  <2>1. C = {v} /\ Finish(r) /\ req'[r] = Idle
    BY <1>1, <1>6, <1>7, <1>16 DEF Finish
  <2>2. LastTurn = {}
    BY <1>1, <1>16, NoLastTurn DEF IsLast
  <2>3. ShownAt("idle")'
    BY <1>1, <1>15, <2>2 DEF ShownAt
  <2> QED
    BY <1>13, <2>1, <2>3, IdlePhase DEF AloneAt
<1>17. CASE /\ C \subseteq LastTurn /\ k \in LastTurn
            /\ faults = 0 => \A m \in LastTurn \cap ActiveIds : m \in C \/ m = k
  <2>1. faults = 0 => \A m \in LastTurn \cap ActiveIds' : m \in C \ {v} \/ m = k
    <3> SUFFICES ASSUME faults = 0, NEW m \in LastTurn \cap ActiveIds'
                 PROVE  m \in C \ {v} \/ m = k
      OBVIOUS
    <3>1. CASE m = v
      BY <1>10, <3>1
    <3>2. CASE m # v
      <4>1. m \in ActiveIds
        BY <1>10, <3>2
      <4> QED
        BY <1>17, <3>2, <4>1
    <3> QED
      BY <3>1, <3>2
  <2>2. CASE C = {v} /\ Finish(r)
    <3>1. req'[r] = Idle
      BY <1>1, <2>2 DEF Finish
    <3>2. ShownAt("idle")'
      <4> SUFFICES ASSUME faults' = 0, NEW m \in ActiveIds', NEW n \in ActiveIds',
                          IsAssistant(m)', IsAssistant(n)', SameTurn(m, n)'
                   PROVE  m = n
        BY DEF ShownAt
      <4>1. CASE m \in LastTurn /\ n \in LastTurn
        BY <1>1, <2>1, <2>2, <4>1
      <4>2. CASE m \notin LastTurn \/ n \notin LastTurn
        BY <1>1, <1>15, <4>2
      <4> QED
        BY <4>1, <4>2
    <3> QED
      BY <1>13, <3>1, <3>2, IdlePhase DEF AloneAt
  <2>3. CASE C # {v} /\ req' = [req EXCEPT ![r].chain = C \ {v}]
    <3>1. req'[r].pc = "switch" /\ req'[r].chain = C \ {v} /\ req'[r].msg = k
      BY <1>1, <1>4, <2>3 DEF Request
    <3>2. ShownAt("switch")'
      <4> SUFFICES ASSUME faults' = 0, NEW m \in ActiveIds', NEW n \in ActiveIds',
                          IsAssistant(m)', IsAssistant(n)', SameTurn(m, n)', m \notin LastTurn
                   PROVE  m = n
        BY <1>14 DEF ShownAt
      <4> QED
        BY <1>1, <1>15
    <3>3. SwitchOK(req[r])'
      <4>1. C \ {v} # {}
        BY <1>6, <2>3
      <4> QED
        BY <1>1, <1>14, <1>17, <2>1, <3>1, <4>1 DEF SwitchOK
    <3>4. Phase(req[r])'
      BY <3>1, <3>3 DEF Phase
    <3> QED
      BY <1>13, <3>1, <3>2, <3>4 DEF AloneAt
  <2> QED
    BY <1>7, <2>2, <2>3
<1> QED
  BY <1>2, <1>3, <1>4, <1>16, <1>17 DEF SwitchOK

-----------------------------------------------------------------------------
\* The actions of one request.
Acts(r) ==
    \/ SendNext(r) \/ EditNext(r) \/ RegenerateNext(r) \/ ContinueBegin(r)
    \/ StreamNext(r) \/ RewriteNext(r) \/ ActivateNext(r) \/ StatementFails(r)

LEMMA OneRequestActs ==
    ASSUME TypeOK, NEW r \in Requests, Acts(r)
    PROVE  /\ \A s \in Requests \ {r} : req'[s] = req[s]
           /\ alive' = alive
           /\ \/ Overlap /\ req[r].pc = "idle"
              \/ req[r].pc # "idle" /\ overlapped' = overlapped
<1> DEFINE Goal == /\ \A s \in Requests \ {r} : req'[s] = req[s]
                   /\ alive' = alive
                   /\ \/ Overlap /\ req[r].pc = "idle"
                      \/ req[r].pc # "idle" /\ overlapped' = overlapped
<1>0. req \in [Requests -> Request]
  BY DEF TypeOK
<1> SUFFICES Goal
  OBVIOUS
<1> USE <1>0 DEF Begin, Goto, Finish
<1>1. CASE SendNext(r)
  BY <1>1 DEF SendNext, SendBegin, SendCommit
<1>2. CASE EditNext(r)
  BY <1>2 DEF EditNext, EditBegin, EditCommit
<1>3. CASE RegenerateNext(r)
  BY <1>3 DEF RegenerateNext, RegenerateBegin, RegenerateMessageBegin, ReadBranch, Branch,
              ReadChain, Archive
<1>4. CASE ContinueBegin(r)
  BY <1>4 DEF ContinueBegin
<1>5. CASE StreamNext(r)
  BY <1>5 DEF StreamNext, LoadHistory, ContextFails, StreamStarts, StoreReply, ReplyRefused,
              StoreContinuation, StreamEmpty
<1>6. CASE RewriteNext(r)
  BY <1>6 DEF RewriteNext, EditAssistantBegin, EditAssistantCommit, DeleteBegin, DeleteCommit
<1>7. CASE ActivateNext(r)
  BY <1>7 DEF ActivateNext, ActivateBegin, ActivateCheck, ActivateSwitch
<1>8. CASE StatementFails(r)
  BY <1>8 DEF StatementFails
<1> QED
  BY <1>1, <1>2, <1>3, <1>4, <1>5, <1>6, <1>7, <1>8 DEF Acts

\* Only a living conversation gets a row.
LEMMA OnlyTheLivingGrow ==
    ASSUME LinkInv, NEW r \in Requests, Acts(r)
    PROVE  alive \/ Ids' \subseteq Ids
<1>0. TypeOK /\ LinksOK /\ req[r].msg \in Nat /\ req[r].tip \in Nat
  BY DEF LinkInv, TypeOK, Request
<1>1. CASE msgs' = msgs
  BY <1>1 DEF Ids
<1>2. CASE EditCommit(r) \/ Branch(r) \/ DeleteCommit(r)
  <2>1. PICK n \in Nat : DeleteAfter(n) \/ msgs' = Restrict(msgs, {m \in Ids : m < n})
    BY <1>0, <1>2 DEF EditCommit, Branch, DeleteCommit
  <2> QED
    BY <1>0, <2>1, PrefixMeans DEF ShownKept, ShapeKept
<1>3. CASE Archive(r) \/ StreamEmpty(r) \/ ActivateSwitch(r)
  BY <1>3 DEF Archive, StreamEmpty, ActivateSwitch, SetActive, Ids
<1>4. CASE StoreContinuation(r) \/ \E body \in {"text", "blank"} : EditAssistantCommit(r, body)
  BY <1>4 DEF StoreContinuation, EditAssistantCommit, SetBody, Ids
<1>5. CASE SendCommit(r) \/ \E body \in Body : StoreReply(r, body)
  BY <1>5 DEF SendCommit, StoreReply
<1>6. CASE SendNext(r) \/ EditNext(r) \/ RegenerateNext(r) \/ ContinueBegin(r)
  BY <1>1, <1>2, <1>3, <1>5, <1>6
  DEF SendNext, SendBegin, EditNext, EditBegin, RegenerateNext, RegenerateBegin,
      RegenerateMessageBegin, ReadBranch, ReadChain, ContinueBegin, Begin
<1>7. CASE StreamNext(r) \/ StatementFails(r)
  BY <1>1, <1>3, <1>4, <1>5, <1>7
  DEF StreamNext, LoadHistory, ContextFails, StreamStarts, ReplyRefused, StatementFails
<1>8. CASE RewriteNext(r) \/ ActivateNext(r)
  BY <1>1, <1>2, <1>3, <1>4, <1>8
  DEF RewriteNext, EditAssistantBegin, DeleteBegin, Begin, ActivateNext, ActivateBegin, ActivateCheck
<1> QED
  BY <1>6, <1>7, <1>8 DEF Acts

\* Whatever a request does, what it relies on next holds.
LEMMA ActsAlone ==
    ASSUME LinkInv, LinkInv', NEW r \in Requests, Acts(r), alive, AloneAt(r)
    PROVE  AloneAt(r)'
<1>0. TypeOK /\ LinksOK /\ req[r].msg \in Nat
  BY DEF LinkInv, TypeOK, Request
<1>1. CASE SendNext(r)
  BY <1>1, SendBeginAlone, SendCommitAlone DEF SendNext
<1>2. CASE EditNext(r)
  <2>1. CASE \E m \in Ids : EditBegin(r, m)
    BY <2>1, EditBeginAlone DEF EditBegin, Begin
  <2>2. CASE EditCommit(r)
    BY <2>2, EditCommitAlone
  <2> QED
    BY <1>2, <2>1, <2>2 DEF EditNext
<1>3. CASE RegenerateNext(r)
  <2>1. CASE RegenerateBegin(r)
    BY <2>1, RegenerateBeginAlone DEF RegenerateBegin, Begin
  <2>2. CASE \E m \in Ids : RegenerateMessageBegin(r, m)
    BY <2>2, RegenerateMessageBeginAlone DEF RegenerateMessageBegin, Begin
  <2>3. CASE ReadBranch(r) \/ Branch(r)
    BY <2>3, ReadBranchAlone, BranchAlone
  <2>4. CASE ReadChain(r) \/ Archive(r)
    BY <2>4, ReadChainAlone, ArchiveAlone
  <2> QED
    BY <1>3, <2>1, <2>2, <2>3, <2>4 DEF RegenerateNext
<1>4. CASE ContinueBegin(r)
  BY <1>4, ContinueBeginAlone DEF ContinueBegin, Begin
<1>5. CASE StreamNext(r)
  <2>1. CASE LoadHistory(r) \/ StreamStarts(r)
    BY <2>1, LoadHistoryAlone, StreamStartsAlone
  <2>2. CASE ContextFails(r) \/ ReplyRefused(r)
    <3>1. /\ Finish(r) /\ msgs' = msgs /\ faults' = faults /\ req[r].pc # "switch"
      BY <2>2 DEF ContextFails, ReplyRefused
    <3> QED
      BY <3>1, RowsStay, FinishAlone
  <2>3. CASE \E body \in Body : StoreReply(r, body)
    BY <2>3, StoreReplyAlone
  <2>4. CASE StoreContinuation(r)
    <3>1. /\ Finish(r) /\ faults' = faults /\ req[r].pc # "switch"
          /\ \E S : SetBody(S, "text")
      BY <2>4 DEF StoreContinuation
    <3>2. ShownKept
      BY <1>0, <3>1, SetBodyMeans
    <3> QED
      BY <3>1, <3>2, FinishAlone
  <2>5. CASE StreamEmpty(r)
    BY <2>5, StreamEmptyAlone
  <2> QED
    BY <1>5, <2>1, <2>2, <2>3, <2>4, <2>5 DEF StreamNext
<1>6. CASE RewriteNext(r)
  <2>1. CASE \E m \in Ids : EditAssistantBegin(r, m) \/ DeleteBegin(r, m)
    BY <2>1, RewriteBeginAlone DEF EditAssistantBegin, DeleteBegin, Begin
  <2>2. CASE \E body \in {"text", "blank"} : EditAssistantCommit(r, body)
    <3>1. PICK body : EditAssistantCommit(r, body)
      BY <2>2
    <3>2. /\ Finish(r) /\ faults' = faults /\ req[r].pc # "switch"
          /\ \E S : SetBody(S, body)
      BY <3>1 DEF EditAssistantCommit
    <3>3. ShownKept
      BY <1>0, <3>2, SetBodyMeans
    <3> QED
      BY <3>2, <3>3, FinishAlone
  <2>3. CASE DeleteCommit(r)
    <3>1. /\ Finish(r) /\ faults' = faults /\ req[r].pc # "switch"
          /\ msgs' = Restrict(msgs, {m \in Ids : m < req[r].msg})
      BY <2>3 DEF DeleteCommit
    <3>2. ShownKept
      BY <1>0, <3>1, PrefixMeans
    <3> QED
      BY <3>1, <3>2, FinishAlone
  <2> QED
    BY <1>6, <2>1, <2>2, <2>3 DEF RewriteNext
<1>7. CASE ActivateNext(r)
  BY <1>7, ActivateBeginAlone, ActivateCheckAlone, ActivateSwitchAlone DEF ActivateNext
<1>8. CASE StatementFails(r)
  <2>1. Finish(r) /\ msgs' = msgs /\ faults' # 0
    <3>1. faults \in Nat
      BY <1>0, MaxFaultsAssumption DEF TypeOK
    <3> QED
      BY <1>8, <3>1 DEF StatementFails
  <2> QED
    BY <2>1, RowsStay, FinishAlone
<1> QED
  BY <1>1, <1>2, <1>3, <1>4, <1>5, <1>6, <1>7, <1>8 DEF Acts

LEMMA AloneInvStep ==
    ASSUME AloneInv, [Next]_vars
    PROVE  AloneInv'
<1>0. LinkInv /\ LinkInv' /\ TypeOK /\ LinksOK /\ TypeOK' /\ LinksOK'
  BY LinkInvStep DEF AloneInv, LinkInv
<1>1. ASSUME NEW r \in Requests, Acts(r)
      PROVE  AloneInv'
  <2>1. alive /\ AloneAt(r) => AloneAt(r)'
    BY <1>0, <1>1, ActsAlone
  <2> QED
    BY <1>0, <1>1, <2>1, OneRequestActs, OnlyTheLivingGrow, AloneStep
<1>2. CASE DeleteConversation
  <2>1. Ids' = {} /\ ~alive' /\ req' = req /\ overlapped' = overlapped /\ faults' = faults
    BY <1>2 DEF DeleteConversation, Restrict, Ids
  <2>2. RowsLinear' /\ ShownAt("idle")'
    BY <2>1 DEF RowsLinear, ShownAt, ActiveIds
  <2> QED
    BY <1>0, <2>1, <2>2 DEF AloneInv
<1>3. CASE Crash
  <2>1. /\ msgs' = msgs /\ alive' = alive /\ overlapped' = overlapped /\ faults' # 0
        /\ \A r \in Requests : req'[r] = Idle
    <3>1. faults \in Nat
      BY <1>0, MaxFaultsAssumption DEF TypeOK
    <3> QED
      BY <1>3, <3>1 DEF Crash
  <2>2. Ids' = Ids
    BY <2>1 DEF Ids
  <2>3. ShownAt("idle")'
    BY <2>1 DEF ShownAt
  <2>4. RowsLinear => RowsLinear'
    BY <1>0, <2>1, RowsStay, ShownKeptMeans
  <2>5. \A r \in Requests : req'[r].pc = "idle" /\ Phase(req[r])'
    BY <2>1, IdlePhase DEF Idle
  <2> QED
    BY <1>0, <2>1, <2>2, <2>3, <2>4, <2>5 DEF AloneInv
<1>4. CASE UNCHANGED vars
  <2>1. /\ msgs' = msgs /\ alive' = alive /\ overlapped' = overlapped /\ faults' = faults
        /\ req' = req /\ Ids' = Ids
    BY <1>4 DEF vars, Ids
  <2>2. /\ RowsLinear' <=> RowsLinear
        /\ ShownAt("idle")' <=> ShownAt("idle")
        /\ ShownAt("switch")' <=> ShownAt("switch")
        /\ \A q : Phase(q)' <=> Phase(q)
    BY <2>1, RowsUnread
  <2>3. \A r \in Requests : Phase(req[r])' <=> Phase(req[r])
    BY <2>1, <2>2
  <2> QED
    BY <1>0, <2>1, <2>2, <2>3 DEF AloneInv
<1> QED
  BY <1>1, <1>2, <1>3, <1>4 DEF Next, Acts

LEMMA AloneInvInit ==
    ASSUME Init
    PROVE  AloneInv
<1>1. LinkInv
  BY LinkInvInit
<1>2. Ids = {} /\ ActiveIds = {}
  BY DEF Init, Restrict, Ids, ActiveIds
<1>3. RowsLinear /\ ShownAt("idle")
  BY <1>2 DEF RowsLinear, ShownAt
<1>4. \A r \in Requests : req[r].pc = "idle" /\ req[r].op = "none"
  BY DEF Init, Idle
<1>5. \A r \in Requests : Phase(req[r])
  BY <1>4 DEF Phase
<1> QED
  BY <1>1, <1>2, <1>3, <1>4, <1>5 DEF AloneInv

LEMMA AloneInvImplies == AloneInv => ThreadShape
<1> SUFFICES ASSUME AloneInv, ~overlapped
             PROVE  ChainsLinear /\ OneActiveVariant
  BY DEF ThreadShape
<1>1. TypeOK /\ LinksOK /\ RowsLinear
  BY DEF AloneInv, LinkInv
<1>2. ChainsLinear
  <2> SUFFICES ASSUME NEW m \in Ids, IsAssistant(m)
               PROVE  /\ Before(m) # {}
                      /\ msgs[m].parent = IF IsUser(Max(Before(m))) THEN NoParent ELSE Max(Before(m))
    BY DEF ChainsLinear
  <2>1. PICK p \in Ids : Precedes(p, m) /\ msgs[m].parent = IF IsUser(p) THEN NoParent ELSE p
    BY <1>1 DEF RowsLinear, LinearAt
  <2>2. p \in Before(m) /\ \A i \in Before(m) : i =< p
    BY <2>1 DEF Before, Precedes
  <2>3. Before(m) \in SUBSET Nat /\ p \in Nat
    BY <1>1, RowFacts DEF Before
  <2>4. Max(Before(m)) \in Before(m) /\ \A i \in Before(m) : i =< Max(Before(m))
    BY <2>2, <2>3, MaxOfNats
  <2>5. Max(Before(m)) = p
    <3> DEFINE e == Max(Before(m))
    <3>1. e \in Nat /\ e =< p /\ p =< e
      BY <2>2, <2>3, <2>4
    <3> HIDE DEF e
    <3>2. e = p
      BY <2>3, <3>1
    <3> QED
      BY <3>2 DEF e
  <2> QED
    BY <2>1, <2>2, <2>5
<1>3. OneActiveVariant
  <2>1. \A m \in Ids : IsUser(m) => msgs[m].active
    BY <1>1 DEF RowsLinear
  <2>2. ASSUME \A r \in Requests : req[r].pc # "switch"
        PROVE  ShownAt("idle")
    BY <2>2 DEF AloneInv
  <2> QED
    BY <2>1, <2>2 DEF OneActiveVariant, ShownAt
<1> QED
  BY <1>2, <1>3

\* As long as requests follow one another, chains are linear and a turn shows one
\* variant, through any sequence of sends, edits, regenerations, switches, deletions
\* and faults, and for a thread of any length.
THEOREM ThreadKeepsItsShape == Spec => []ThreadShape
<1>1. Init => AloneInv
  BY AloneInvInit
<1>2. AloneInv /\ [Next]_vars => AloneInv'
  BY AloneInvStep
<1>3. AloneInv => ThreadShape
  BY AloneInvImplies
<1> QED
  BY <1>1, <1>2, <1>3, PTL DEF Spec

-----------------------------------------------------------------------------
(***************************************************************************)
(* What the steps of such a thread never do.                               *)
(***************************************************************************)
LEMMA AloneNow ==
    ASSUME AloneInv, ~overlapped, alive, NEW r \in Requests, req[r].pc # "idle"
    PROVE  LinkInv /\ AloneAt(r) /\ \A s \in Requests : req[s].pc # "idle" => s = r
BY DEF AloneInv, AloneAt

LEMMA CounterMoves ==
    ASSUME [Next]_vars, nextId' # nextId
    PROVE  \E r \in Requests : SendCommit(r) \/ \E body \in Body : StoreReply(r, body)
<1>1. ASSUME NEW r \in Requests, Acts(r)
      PROVE  SendCommit(r) \/ \E body \in Body : StoreReply(r, body)
  <2>1. CASE SendNext(r) \/ EditNext(r) \/ ContinueBegin(r)
    BY <2>1 DEF SendNext, SendBegin, EditNext, EditBegin, EditCommit, ContinueBegin, Begin
  <2>2. CASE RegenerateNext(r)
    BY <2>2 DEF RegenerateNext, RegenerateBegin, RegenerateMessageBegin, ReadBranch, Branch,
                ReadChain, Archive, Begin
  <2>3. CASE StreamNext(r) \/ StatementFails(r)
    BY <2>3 DEF StreamNext, LoadHistory, ContextFails, StreamStarts, ReplyRefused,
                StoreContinuation, StreamEmpty, StatementFails
  <2>4. CASE RewriteNext(r) \/ ActivateNext(r)
    BY <2>4 DEF RewriteNext, EditAssistantBegin, EditAssistantCommit, DeleteBegin, DeleteCommit,
                ActivateNext, ActivateBegin, ActivateCheck, ActivateSwitch, Begin
  <2> QED
    BY <1>1, <2>1, <2>2, <2>3, <2>4 DEF Acts
<1>2. ~(DeleteConversation \/ Crash \/ UNCHANGED vars)
  BY DEF DeleteConversation, Crash, vars
<1> QED
  BY <1>1, <1>2 DEF Next, Acts

LEMMA PromptStep ==
    ASSUME AloneInv, [Next]_vars, ~overlapped
    PROVE  PromptKept
<1> SUFFICES ASSUME NEW r \in Requests, req[r].pc = "stream", nextId' # nextId
             PROVE  req[r].hist = {m \in History : \E u \in Ids : IsUser(u) /\ m =< u}
  BY DEF PromptKept
<1>1. PICK s \in Requests : SendCommit(s) \/ \E body \in Body : StoreReply(s, body)
  BY CounterMoves
<1>2. alive /\ req[s].pc # "idle"
  BY <1>1 DEF SendCommit, StoreReply
<1>3. s = r /\ LinkInv /\ AloneAt(r)
  BY <1>2, AloneNow
<1>4. \E body \in Body : StoreReply(r, body)
  BY <1>1, <1>3 DEF SendCommit
<1>5. LinkInv'
  BY <1>3, LinkInvStep
<1> QED
  BY <1>3, <1>4, <1>5, StoreReplyAlone

LEMMA RowsGo ==
    ASSUME [Next]_vars, alive', NEW m \in Ids, m \notin Ids'
    PROVE  alive /\ \E r \in Requests : EditCommit(r) \/ Branch(r) \/ DeleteCommit(r)
<1>1. msgs' # msgs
  BY DEF Ids
<1>2. ASSUME NEW r \in Requests, Acts(r)
      PROVE  EditCommit(r) \/ Branch(r) \/ DeleteCommit(r)
  <2>1. CASE SendNext(r) \/ EditNext(r) \/ ContinueBegin(r)
    BY <1>1, <2>1 DEF SendNext, SendBegin, SendCommit, Insert, EditNext, EditBegin, ContinueBegin,
                      Begin, Ids
  <2>2. CASE RegenerateNext(r)
    BY <1>1, <2>2 DEF RegenerateNext, RegenerateBegin, RegenerateMessageBegin, ReadBranch,
                      ReadChain, Archive, SetActive, Begin, Ids
  <2>3. CASE StreamNext(r) \/ StatementFails(r)
    BY <1>1, <2>3 DEF StreamNext, LoadHistory, ContextFails, StreamStarts, StoreReply, Insert,
                      ReplyRefused, StoreContinuation, SetBody, StreamEmpty, SetActive,
                      StatementFails, Ids
  <2>4. CASE RewriteNext(r) \/ ActivateNext(r)
    BY <1>1, <2>4 DEF RewriteNext, EditAssistantBegin, EditAssistantCommit, SetBody, DeleteBegin,
                      ActivateNext, ActivateBegin, ActivateCheck, ActivateSwitch, SetActive,
                      Begin, Ids
  <2> QED
    BY <1>2, <2>1, <2>2, <2>3, <2>4 DEF Acts
<1>3. ~(DeleteConversation \/ Crash \/ UNCHANGED vars)
  BY <1>1 DEF DeleteConversation, Crash, vars
<1>4. PICK r \in Requests : EditCommit(r) \/ Branch(r) \/ DeleteCommit(r)
  BY <1>2, <1>3 DEF Next, Acts
<1>5. alive
  BY <1>4 DEF EditCommit, Branch, DeleteCommit
<1> QED
  BY <1>4, <1>5

LEMMA VariantsStep ==
    ASSUME AloneInv, [Next]_vars, ~overlapped
    PROVE  VariantsKept
<1> SUFFICES ASSUME NEW r \in Requests, alive', req[r].op = "regenerate_message",
                    NEW m \in Ids, m \notin Ids'
             PROVE  ~SameTurn(m, req[r].msg)
  BY DEF VariantsKept
<1>1. alive
  BY RowsGo
<1>2. PICK s \in Requests : EditCommit(s) \/ Branch(s) \/ DeleteCommit(s)
  BY RowsGo
<1>3. req[r].pc # "idle" /\ req[s].pc # "idle"
  <2>1. Phase(req[r])
    BY <1>1 DEF AloneInv
  <2> QED
    BY <1>2, <2>1 DEF Phase, EditCommit, Branch, DeleteCommit
<1>4. s = r /\ LinkInv /\ AloneAt(r)
  BY <1>1, <1>3, AloneNow
<1>5. Branch(r)
  <2>1. Phase(req[r])
    BY <1>4 DEF AloneAt
  <2>2. req[r].pc # "rewrite" /\ req[r].pc # "cut"
    BY <2>1 DEF Phase, RewriteOK
  <2> QED
    BY <1>2, <1>4, <2>2 DEF EditCommit, DeleteCommit
<1>6. LinkInv'
  BY <1>4, LinkInvStep
<1> QED
  BY <1>4, <1>5, <1>6, BranchAlone

LEMMA TurnStep ==
    ASSUME AloneInv, [Next]_vars, ~overlapped
    PROVE  TurnAnswered
<1> SUFFICES ASSUME NEW r \in Requests, req[r].pc = "stream", req'[r].pc = "idle", faults' = 0,
                    req[r].op \in Regenerations, alive
             PROVE  /\ ActiveIds' \cap Asked = req[r].was \cap Asked
                    /\ Cardinality(ActiveIds' \ Asked) = 1
  BY DEF TurnAnswered, StreamEnds, Asked
<1>1. LinkInv /\ LinkInv' /\ TypeOK /\ AloneAt(r)
  BY AloneNow, LinkInvStep DEF LinkInv
<1>2. req'[r] # req[r]
  OBVIOUS
<1>3. ~(DeleteConversation \/ Crash \/ UNCHANGED vars)
  <2>1. faults \in Nat
    BY <1>1, MaxFaultsAssumption DEF TypeOK
  <2>2. ~Crash
    <3>1. faults + 1 # 0
      BY <2>1
    <3> QED
      BY <3>1 DEF Crash
  <2> QED
    BY <1>2, <2>2 DEF DeleteConversation, vars
<1>4. PICK s \in Requests : Acts(s)
  BY <1>3 DEF Next, Acts
<1>5. s = r
  BY <1>1, <1>2, <1>4, OneRequestActs
<1>6. (\E body \in Body : StoreReply(r, body)) \/ StreamEmpty(r)
  <2>1. req[r].pc = "stream" /\ req[r].op # "continue" /\ req \in [Requests -> Request]
    BY <1>1 DEF Regenerations, TypeOK
  <2>2. ~SendNext(r) /\ ~EditNext(r) /\ ~ContinueBegin(r) /\ ~StatementFails(r)
    BY <2>1 DEF SendNext, SendBegin, SendCommit, EditNext, EditBegin, EditCommit, ContinueBegin,
                StatementFails, Begin
  <2>3. ~RegenerateNext(r)
    BY <2>1 DEF RegenerateNext, RegenerateBegin, RegenerateMessageBegin, ReadBranch, Branch,
                ReadChain, Archive, Begin
  <2>4. ~RewriteNext(r) /\ ~ActivateNext(r)
    BY <2>1 DEF RewriteNext, EditAssistantBegin, EditAssistantCommit, DeleteBegin, DeleteCommit,
                ActivateNext, ActivateBegin, ActivateCheck, ActivateSwitch, Begin
  <2>5. StreamNext(r)
    BY <1>4, <1>5, <2>2, <2>3, <2>4 DEF Acts
  <2> QED
    BY <2>1, <2>5 DEF StreamNext, LoadHistory, ContextFails, StreamStarts, ReplyRefused,
                      StoreContinuation
<1>7. /\ ActiveIds' \cap Asked = req[r].was \cap Asked
      /\ \E id : ActiveIds' \ Asked = {id}
  BY <1>1, <1>6, StoreReplyAlone, StreamEmptyAlone
<1>8. \A id : Cardinality({id}) = 1
  BY FS_Singleton
<1> QED
  BY <1>7, <1>8

\* As long as requests follow one another, a reply is stored under exactly the rows it
\* was generated from.
THEOREM RepliesFollowTheirPrompt == Spec => PromptIsThread
<1>1. Init => AloneInv
  BY AloneInvInit
<1>2. AloneInv /\ [Next]_vars => AloneInv'
  BY AloneInvStep
<1>3. AloneInv /\ [Next]_vars => [~overlapped => PromptKept]_vars
  BY PromptStep
<1> QED
  BY <1>1, <1>2, <1>3, PTL DEF Spec, PromptIsThread

\* As long as requests follow one another, regenerating mid-thread keeps every variant
\* of the turn, and when the stream ends the turn shows exactly one and the turns before
\* it show what they did.
THEOREM RegenerationsAnswerTheirTurn == Spec => RegenerationAnswers
<1>1. Init => AloneInv
  BY AloneInvInit
<1>2. AloneInv /\ [Next]_vars => AloneInv'
  BY AloneInvStep
<1>3. AloneInv /\ [Next]_vars => [~overlapped => VariantsKept /\ TurnAnswered]_vars
  BY VariantsStep, TurnStep
<1> QED
  BY <1>1, <1>2, <1>3, PTL DEF Spec, RegenerationAnswers
=============================================================================
