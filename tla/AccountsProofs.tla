---------------------------- MODULE AccountsProofs ----------------------------
(***************************************************************************)
(* Theorems about Accounts, for any number of users, cookies and requests  *)
(* in flight.                                                              *)
(***************************************************************************)
EXTENDS Accounts, FiniteSetTheorems, WellFoundedInduction, TLAPS

USE NoneAssumption

LEMMA MaxUserIsNat == MaxUser \in Nat
BY BoundsAssumption, Zenon

-----------------------------------------------------------------------------
(***************************************************************************)
(* Type correctness, with the provisioning lock and the links.             *)
(***************************************************************************)
Locked == {"setup", "find again", "insert first", "insert"}

Pcs == {"idle", "lock setup", "lock oidc", "issue", "find", "match", "link", "suspended",
        "logout all", "password", "reissue", "role", "count", "delete", "create", "read",
        "demote", "disable", "reset", "set role", "set flag"} \cup Locked

Request ==
    [pc : Pcs, me : Nat, uid : Nat, name : Names \cup {None}, role : {"same", "admin", "user"},
     flag : {"same", "on", "off"}, reset : BOOLEAN, sub : Subjects \cup {None}, version : Nat,
     row : [role : {"admin", "user"}, disabled : BOOLEAN]]

\* A request with a role to write has one.
Writing == {"lock setup", "setup", "insert first", "insert", "create", "set role"}

RequestOK(q) == q \in Request /\ (q.pc \in Writing => q.role \in {"admin", "user"})

RowsOK ==
    /\ nextId \in 1..(MaxUser + 1)
    /\ Ids \subseteq 1..(nextId - 1)
    /\ users \in [Ids -> Row]
    /\ \A u, v \in Ids : users[u].sub = users[v].sub /\ users[u].sub # None => u = v

Cookies == [uid : Nat, version : Nat, ends : Nat]

RequestsOK ==
    /\ DOMAIN req = Requests
    /\ \A r \in Requests : RequestOK(req[r])
    /\ lock \in Requests \cup {None}
    /\ \A r \in Requests : lock = r <=> req[r].pc \in Locked

TypeInv == RowsOK /\ RequestsOK /\ sessions \subseteq Cookies

LEMMA TypeInvImplies == TypeInv => TypeOK
BY DEF TypeInv, RowsOK, RequestsOK, TypeOK, Locked

LEMMA IdleOK == RequestOK(Idle) /\ Idle.pc = "idle"
BY DEF RequestOK, Request, Idle, Pcs, Locked, Writing

\* Every way a handler writes the rows keeps them well typed and singly linked.
LEMMA RowsPreserved ==
    ASSUME RowsOK,
           \/ UNCHANGED <<users, nextId>>
           \/ \E name \in Names \cup {None}, role \in {"admin", "user"}, sub \in Subjects \cup {None} :
                 /\ sub = None \/ Linked(sub) = {}
                 /\ Insert(NewRow(name, role, sub))
           \/ /\ UNCHANGED nextId
              /\ \E u \in Ids, row \in Row :
                    /\ row.sub = users[u].sub \/ Linked(row.sub) \subseteq {u}
                    /\ Update(u, row)
           \/ UNCHANGED nextId /\ \E S : S \subseteq Ids /\ users' = Restrict(users, S)
    PROVE  RowsOK'
<1>1. CASE UNCHANGED <<users, nextId>>
  BY <1>1 DEF RowsOK, Ids
<1>2. CASE \E name \in Names \cup {None}, role \in {"admin", "user"}, sub \in Subjects \cup {None} :
             /\ sub = None \/ Linked(sub) = {}
             /\ Insert(NewRow(name, role, sub))
  <2>1. PICK name \in Names \cup {None}, role \in {"admin", "user"}, sub \in Subjects \cup {None} :
          /\ sub = None \/ Linked(sub) = {}
          /\ Insert(NewRow(name, role, sub))
    BY <1>2
  <2>2. NewRow(name, role, sub) \in Row /\ NewRow(name, role, sub).sub = sub
    BY DEF NewRow, Row
  <2> DEFINE row == NewRow(name, role, sub)
  <2>3. /\ nextId \in Nat /\ nextId =< MaxUser /\ nextId' = nextId + 1
        /\ users' = [v \in Ids \cup {nextId} |-> IF v = nextId THEN row ELSE users[v]]
    BY <2>1 DEF Insert, RowsOK
  <2>4. Ids' = Ids \cup {nextId} /\ nextId \notin Ids
    BY <2>3 DEF Ids, RowsOK
  <2>5. row.sub = None \/ \A u \in Ids : users[u].sub # row.sub
    BY <2>1, <2>2 DEF Linked
  <2> HIDE DEF row
  <2>6. \A u \in Ids : users'[u] = users[u] /\ users'[nextId] = row
    BY <2>3, <2>4
  <2>7. users' \in [Ids' -> Row]
    BY <2>2, <2>3, <2>4 DEF RowsOK, row
  <2>8. \A u, v \in Ids' : users'[u].sub = users'[v].sub /\ users'[u].sub # None => u = v
    BY <2>3, <2>4, <2>5 DEF RowsOK
  <2>9. nextId' \in 1..(MaxUser + 1) /\ Ids' \subseteq 1..(nextId' - 1)
    <3>1. MaxUser \in Nat /\ \A u \in Ids : u \in Nat /\ 1 =< u /\ u =< nextId - 1
      BY MaxUserIsNat DEF RowsOK
    <3>2. 1 =< nextId
      BY DEF RowsOK
    <3>3. \A u \in Ids' : u \in Nat /\ 1 =< u /\ u =< nextId' - 1
      BY <2>3, <2>4, <3>1, <3>2
    <3> QED
      BY <2>3, <3>1, <3>2, <3>3
  <2> QED
    BY <2>7, <2>8, <2>9 DEF RowsOK
<1>3. CASE /\ UNCHANGED nextId
           /\ \E u \in Ids, row \in Row :
                /\ row.sub = users[u].sub \/ Linked(row.sub) \subseteq {u}
                /\ Update(u, row)
  <2>1. PICK u \in Ids, row \in Row :
          /\ row.sub = users[u].sub \/ Linked(row.sub) \subseteq {u}
          /\ Update(u, row)
    BY <1>3
  <2>2. Ids' = Ids
    BY <2>1 DEF Update, Ids
  <2>3. \A v, w \in Ids : users'[v].sub = users'[w].sub /\ users'[v].sub # None => v = w
    BY <2>1 DEF Update, RowsOK, Linked
  <2> QED
    BY <1>3, <2>1, <2>2, <2>3 DEF Update, RowsOK
<1>4. CASE UNCHANGED nextId /\ \E S : S \subseteq Ids /\ users' = Restrict(users, S)
  BY <1>4 DEF RowsOK, Ids, Restrict
<1> QED
  BY <1>1, <1>2, <1>3, <1>4

\* A step of one request that neither takes the lock nor keeps it.
LEMMA RequestsPreserved ==
    ASSUME RequestsOK, NEW r \in Requests, NEW q, req' = [req EXCEPT ![r] = q],
           RequestOK(q), q.pc \notin Locked,
           \/ UNCHANGED lock /\ req[r].pc \notin Locked
           \/ lock' = None /\ req[r].pc \in Locked
    PROVE  RequestsOK'
BY DEF RequestsOK

\* A step under the lock.
LEMMA LockKept ==
    ASSUME RequestsOK, NEW r \in Requests, NEW q, req' = [req EXCEPT ![r] = q],
           RequestOK(q), q.pc \in Locked, req[r].pc \in Locked, UNCHANGED lock
    PROVE  RequestsOK'
BY DEF RequestsOK

LEMMA BeginOK ==
    ASSUME TypeInv, NEW r \in Requests, NEW q, Begin(r, q), RequestOK(q), q.pc \notin Locked,
           UNCHANGED <<users, nextId, sessions, lock>>
    PROVE  TypeInv'
<1>1. RequestsOK'
  <2>1. req[r].pc \notin Locked
    BY DEF Begin, Locked
  <2> QED
    BY <2>1, RequestsPreserved DEF TypeInv, Begin
<1> QED
  BY <1>1, RowsPreserved DEF TypeInv, Cookies

LEMMA GotoOK ==
    ASSUME RequestsOK, NEW r \in Requests, NEW pc \in Pcs \ Locked, Goto(r, pc),
           pc \in Writing => req[r].role \in {"admin", "user"},
           \/ UNCHANGED lock /\ req[r].pc \notin Locked
           \/ lock' = None /\ req[r].pc \in Locked
    PROVE  RequestsOK'
<1> DEFINE q == [req[r] EXCEPT !.pc = pc]
<1>1. req' = [req EXCEPT ![r] = q]
  BY DEF Goto
<1>2. RequestOK(q) /\ q.pc \notin Locked
  BY DEF RequestsOK, RequestOK, Request
<1> QED
  BY <1>1, <1>2, RequestsPreserved

LEMMA FinishOK ==
    ASSUME RequestsOK, NEW r \in Requests, Finish(r),
           \/ UNCHANGED lock /\ req[r].pc \notin Locked
           \/ lock' = None /\ req[r].pc \in Locked
    PROVE  RequestsOK'
BY IdleOK, RequestsPreserved DEF Finish, Locked

LEMMA IssueOK ==
    ASSUME TypeInv, NEW u \in Nat, NEW version \in Nat, Issue(u, version)
    PROVE  (sessions \subseteq Cookies)'
<1>1. (IF u \in Ids THEN users[u].ends ELSE 0) \in Nat
  BY DEF TypeInv, RowsOK, Row
<1> QED
  BY <1>1 DEF TypeInv, Issue, Cookies

LEMMA EndSessionsOK ==
    ASSUME RowsOK, NEW u, NEW disabled \in BOOLEAN, EndSessions(u, disabled), UNCHANGED nextId
    PROVE  RowsOK'
<1>1. CASE u \in Ids
  <2> DEFINE row == [users[u] EXCEPT !.disabled = disabled, !.version = @ + 1, !.ends = @ + 1]
  <2>1. row \in Row /\ row.sub = users[u].sub
    <3>1. users[u] \in Row
      BY <1>1 DEF RowsOK
    <3>2. users[u].version + 1 \in Nat /\ users[u].ends + 1 \in Nat
      BY <3>1 DEF Row
    <3> QED
      BY <3>1, <3>2 DEF Row
  <2>2. Update(u, row)
    BY <1>1 DEF EndSessions
  <2> QED
    BY <1>1, <2>1, <2>2, RowsPreserved
<1>2. CASE u \notin Ids
  BY <1>2, RowsPreserved DEF EndSessions
<1> QED
  BY <1>1, <1>2

\* What a request may read of a row.
LEMMA RowFields ==
    ASSUME TypeInv, NEW u \in Ids
    PROVE  /\ u \in Nat /\ u < nextId
           /\ users[u] \in Row /\ users[u].version \in Nat /\ users[u].ends \in Nat
           /\ users[u].role \in {"admin", "user"} /\ users[u].disabled \in BOOLEAN
<1>1. nextId \in Nat /\ Ids \subseteq 1..(nextId - 1) /\ users[u] \in Row
  BY MaxUserIsNat DEF TypeInv, RowsOK
<1> QED
  BY <1>1 DEF Row

\* A sign-in whose row was found by subject goes on with it.
LEMMA FoundOK ==
    ASSUME TypeInv, NEW r \in Requests, NEW u \in Ids, Found(r, u),
           UNCHANGED <<users, nextId, sessions>>,
           \/ UNCHANGED lock /\ req[r].pc \notin Locked
           \/ lock' = None /\ req[r].pc \in Locked
    PROVE  TypeInv'
<1> DEFINE q == [req[r] EXCEPT !.pc = "suspended", !.uid = u, !.version = users[u].version]
<1>1. req' = [req EXCEPT ![r] = q]
  BY DEF Found
<1>2. u \in Nat /\ users[u].version \in Nat
  BY RowFields
<1>3. RequestOK(q) /\ q.pc \notin Locked
  <2>1. req[r] \in Request
    BY DEF TypeInv, RequestsOK, RequestOK
  <2> QED
    BY <1>2, <2>1 DEF RequestOK, Request, Pcs, Locked, Writing
<1>4. RequestsOK'
  BY <1>1, <1>3, RequestsPreserved DEF TypeInv
<1> QED
  BY <1>4, RowsPreserved DEF TypeInv, Cookies

LEMMA SignInTypes ==
    ASSUME TypeInv, NEW r \in Requests, SignInNext(r)
    PROVE  TypeInv'
<1> USE DEF Locked, Pcs, Writing
<1>0. RowsOK /\ RequestsOK /\ sessions \subseteq Cookies /\ req[r] \in Request
      /\ RequestOK(req[r]) /\ DOMAIN req = Requests
  BY DEF TypeInv, RequestsOK, RequestOK
<1>1. CASE \E name \in Names : SetupBegin(r, name)
  <2>1. PICK name \in Names : SetupBegin(r, name)
    BY <1>1
  <2> DEFINE q == [Idle EXCEPT !.pc = "lock setup", !.name = name, !.role = "admin"]
  <2>2. RequestOK(q) /\ q.pc = "lock setup"
    BY DEF RequestOK, Request, Idle
  <2> QED
    BY <2>1, <2>2, BeginOK DEF SetupBegin
<1>2. CASE \E sub \in Subjects, email \in Names \cup {None} : OidcBegin(r, sub, email)
  <2>1. PICK sub \in Subjects, email \in Names \cup {None} : OidcBegin(r, sub, email)
    BY <1>2
  <2> DEFINE q == [Idle EXCEPT !.pc = "find", !.sub = sub, !.name = email]
  <2>2. RequestOK(q) /\ q.pc = "find"
    BY DEF RequestOK, Request, Idle
  <2> QED
    BY <2>1, <2>2, BeginOK DEF OidcBegin
<1>3. CASE Lock(r)
  <2>1. PICK pc \in {"setup", "find again"} :
          /\ req' = [req EXCEPT ![r] = [req[r] EXCEPT !.pc = pc]]
          /\ pc = "setup" => req[r].pc = "lock setup"
    BY <1>3 DEF Lock, Goto
  <2>2. RequestOK([req[r] EXCEPT !.pc = pc]) /\ [req[r] EXCEPT !.pc = pc].pc \in Locked
    BY <1>0, <2>1 DEF RequestOK, Request
  <2>3. lock = None /\ lock' = r /\ req[r].pc \notin Locked
    BY <1>3 DEF Lock
  <2>4. RequestsOK'
    BY <1>0, <2>1, <2>2, <2>3 DEF RequestsOK
  <2> QED
    BY <1>0, <1>3, <2>4, RowsPreserved DEF Lock, TypeInv, Cookies
<1>4. CASE SetupCount(r)
  <2>1. RequestsOK'
    <3>1. CASE Ids # {}
      BY <1>0, <1>4, <3>1, FinishOK DEF SetupCount
    <3>2. CASE Ids = {}
      <4> DEFINE q == [req[r] EXCEPT !.pc = "insert first"]
      <4>1. req' = [req EXCEPT ![r] = q] /\ UNCHANGED lock
        BY <1>4, <3>2 DEF SetupCount, Goto
      <4>2. RequestOK(q) /\ q.pc \in Locked /\ req[r].pc \in Locked
        BY <1>0, <1>4 DEF RequestOK, Request, SetupCount
      <4> QED
        BY <1>0, <4>1, <4>2, LockKept
    <3> QED
      BY <3>1, <3>2
  <2> QED
    BY <1>0, <1>4, <2>1, RowsPreserved DEF SetupCount, TypeInv, Cookies
<1>5. CASE Provision(r)
  <2>1. req[r].pc \in Locked /\ lock' = None /\ req[r].role \in {"admin", "user"}
    BY <1>0, <1>5 DEF Provision, RequestOK
  <2>2. CASE req[r].sub # None /\ Linked(req[r].sub) # {}
    <3>1. PICK u \in Linked(req[r].sub) :
            req' = [req EXCEPT ![r] = [req[r] EXCEPT !.pc = "suspended", !.uid = u,
                                                     !.version = users[u].version]]
      BY <1>5, <2>2 DEF Provision
    <3>2. u \in Nat /\ users[u].version \in Nat
      BY <3>1, RowFields DEF Linked
    <3> DEFINE q == [req[r] EXCEPT !.pc = "suspended", !.uid = u, !.version = users[u].version]
    <3>3. RequestOK(q) /\ q.pc \notin Locked
      BY <1>0, <3>2 DEF RequestOK, Request
    <3>4. RequestsOK'
      BY <1>0, <2>1, <3>1, <3>3, RequestsPreserved
    <3>5. UNCHANGED <<users, nextId, sessions>>
      BY <1>5, <2>2 DEF Provision
    <3> QED
      BY <1>0, <3>4, <3>5, RowsPreserved DEF TypeInv, Cookies
  <2>3. CASE Taken(req[r].name) /\ ~(req[r].sub # None /\ Linked(req[r].sub) # {})
    <3>1. req' = [req EXCEPT ![r] = Idle] /\ UNCHANGED <<users, nextId, sessions>>
      BY <1>5, <2>3 DEF Provision
    <3>2. RequestsOK'
      BY <1>0, <2>1, <3>1, IdleOK, RequestsPreserved
    <3> QED
      BY <1>0, <3>1, <3>2, RowsPreserved DEF TypeInv, Cookies
  <2>4. CASE ~(Taken(req[r].name) \/ (req[r].sub # None /\ Linked(req[r].sub) # {}))
    <3> DEFINE pc == IF req[r].sub = None THEN "issue" ELSE "suspended"
               q == [req[r] EXCEPT !.pc = pc, !.uid = nextId, !.version = 0]
    <3>1. /\ Insert(NewRow(req[r].name, req[r].role, req[r].sub))
          /\ req' = [req EXCEPT ![r] = q] /\ UNCHANGED sessions
      BY <1>5, <2>4 DEF Provision
    <3>2. req[r].name \in Names \cup {None} /\ req[r].sub \in Subjects \cup {None}
      BY <1>0 DEF Request
    <3>3. nextId \in Nat
      BY <1>0, MaxUserIsNat DEF RowsOK
    <3>4. RequestOK(q) /\ q.pc \notin Locked
      BY <1>0, <3>3 DEF RequestOK, Request
    <3>5. RequestsOK'
      BY <1>0, <2>1, <3>1, <3>4, RequestsPreserved
    <3>6. RowsOK'
      BY <1>0, <2>1, <2>4, <3>1, <3>2, RowsPreserved
    <3> QED
      BY <1>0, <3>1, <3>5, <3>6 DEF TypeInv, Cookies
  <2> QED
    BY <2>2, <2>3, <2>4
<1>6. CASE IssueNext(r) \/ OidcEnd(r)
  <2>1. req[r].uid \in Nat /\ req[r].version \in Nat
    BY <1>0 DEF Request
  <2>2. Finish(r) /\ UNCHANGED <<users, nextId, lock>> /\ req[r].pc \notin Locked
    BY <1>6 DEF IssueNext, OidcEnd
  <2>3. UNCHANGED sessions \/ Issue(req[r].uid, req[r].version)
    BY <1>6 DEF IssueNext, OidcEnd
  <2>4. (sessions \subseteq Cookies)'
    BY <1>0, <2>1, <2>3, IssueOK DEF Cookies
  <2> QED
    BY <1>0, <2>2, <2>4, FinishOK, RowsPreserved DEF TypeInv
<1>7. CASE OidcFind(r)
  <2>1. CASE Linked(req[r].sub) # {}
    <3>1. PICK u \in Ids : Found(r, u)
      BY <1>7, <2>1 DEF OidcFind, Linked
    <3>2. UNCHANGED <<users, nextId, sessions, lock>> /\ req[r].pc \notin Locked
      BY <1>7 DEF OidcFind
    <3> QED
      BY <3>1, <3>2, FoundOK
  <2>2. CASE Linked(req[r].sub) = {}
    <3>1. PICK pc \in {"lock oidc", "match"} : req' = [req EXCEPT ![r] = [req[r] EXCEPT !.pc = pc]]
      BY <1>7, <2>2 DEF OidcFind
    <3>2. UNCHANGED <<users, nextId, sessions, lock>> /\ req[r].pc \notin Locked
      BY <1>7 DEF OidcFind
    <3>3. RequestOK([req[r] EXCEPT !.pc = pc]) /\ [req[r] EXCEPT !.pc = pc].pc \notin Locked
      BY <1>0, <3>1 DEF RequestOK, Request
    <3>4. RequestsOK'
      BY <1>0, <3>1, <3>2, <3>3, RequestsPreserved
    <3> QED
      BY <1>0, <3>2, <3>4, RowsPreserved DEF TypeInv, Cookies
  <2> QED
    BY <2>1, <2>2
<1>8. CASE OidcMatch(r)
  <2>1. UNCHANGED <<users, nextId, sessions, lock>> /\ req[r].pc \notin Locked
    BY <1>8 DEF OidcMatch
  <2>2. ASSUME \E u \in Ids :
               req' = [req EXCEPT ![r].pc = "link", ![r].uid = u, ![r].version = users[u].version]
        PROVE  RequestsOK'
    <3>1. PICK u \in Ids :
            req' = [req EXCEPT ![r] = [req[r] EXCEPT !.pc = "link", !.uid = u,
                                                     !.version = users[u].version]]
      BY <2>2
    <3>2. u \in Nat /\ users[u].version \in Nat
      BY RowFields
    <3> DEFINE q == [req[r] EXCEPT !.pc = "link", !.uid = u, !.version = users[u].version]
    <3>3. RequestOK(q) /\ q.pc \notin Locked
      BY <1>0, <3>2 DEF RequestOK, Request
    <3> QED
      BY <1>0, <2>1, <3>1, <3>3, RequestsPreserved
  <2>3. ASSUME req' = [req EXCEPT ![r].pc = "lock oidc"]
        PROVE  RequestsOK'
    <3> DEFINE q == [req[r] EXCEPT !.pc = "lock oidc"]
    <3>1. RequestOK(q) /\ q.pc \notin Locked /\ req' = [req EXCEPT ![r] = q]
      BY <1>0, <2>3 DEF RequestOK, Request
    <3> QED
      BY <1>0, <2>1, <3>1, RequestsPreserved
  <2>4. RequestsOK'
    BY <1>8, <2>2, <2>3 DEF OidcMatch
  <2> QED
    BY <1>0, <2>1, <2>4, RowsPreserved DEF TypeInv, Cookies
<1>9. CASE OidcLink(r)
  <2>1. RequestsOK'
    BY <1>0, <1>9, GotoOK DEF OidcLink
  <2>2. RowsOK'
    <3>1. CASE UNCHANGED users
      BY <1>0, <1>9, <3>1, RowsPreserved DEF OidcLink
    <3>2. CASE ~UNCHANGED users
      <4> DEFINE u == req[r].uid
                 row == [users[u] EXCEPT !.sub = req[r].sub]
      <4>1. u \in Ids /\ Linked(req[r].sub) \subseteq {u} /\ Update(u, row) /\ UNCHANGED nextId
        BY <1>9, <3>2 DEF OidcLink
      <4>2. users[u] \in Row /\ req[r].sub \in Subjects \cup {None}
        BY <1>0, <4>1 DEF RowsOK, Request
      <4>3. row \in Row /\ row.sub = req[r].sub
        BY <4>2 DEF Row
      <4> HIDE DEF u, row
      <4> QED
        BY <1>0, <4>1, <4>3, RowsPreserved
    <3> QED
      BY <3>1, <3>2
  <2> QED
    BY <1>0, <1>9, <2>1, <2>2 DEF OidcLink, TypeInv, Cookies
<1>10. CASE OidcFindAgain(r)
  <2>1. CASE Linked(req[r].sub) # {}
    <3>1. PICK u \in Ids : Found(r, u)
      BY <1>10, <2>1 DEF OidcFindAgain, Linked
    <3>2. UNCHANGED <<users, nextId, sessions>> /\ req[r].pc \in Locked /\ lock' = None
      BY <1>10, <2>1 DEF OidcFindAgain
    <3> QED
      BY <3>1, <3>2, FoundOK
  <2>2. CASE Linked(req[r].sub) = {}
    <3> DEFINE pc == IF Ids = {} THEN "insert first" ELSE "insert"
               role == IF Ids = {} \/ req[r].name \in AdminEmails THEN "admin" ELSE "user"
               name == IF Taken(req[r].name) THEN None ELSE req[r].name
               q == [req[r] EXCEPT !.pc = pc, !.role = role, !.name = name]
    <3>1. req' = [req EXCEPT ![r] = q] /\ UNCHANGED <<users, nextId, sessions, lock>>
      BY <1>10, <2>2 DEF OidcFindAgain
    <3>2. name \in Names \cup {None}
      BY <1>0 DEF Request
    <3>3. RequestOK(q) /\ q.pc \in Locked /\ req[r].pc \in Locked
      BY <1>0, <1>10, <3>2 DEF RequestOK, Request, OidcFindAgain
    <3>4. RequestsOK'
      BY <1>0, <3>1, <3>3, LockKept
    <3> QED
      BY <1>0, <3>1, <3>4, RowsPreserved DEF TypeInv, Cookies
  <2> QED
    BY <2>1, <2>2
<1> QED
  BY <1>1, <1>2, <1>3, <1>4, <1>5, <1>6, <1>7, <1>8, <1>9, <1>10 DEF SignInNext

\* What a user does to the own account, or an administrator when deleting one.
LEMMA AccountTypes ==
    ASSUME TypeInv, NEW r \in Requests, AccountNext(r)
    PROVE  TypeInv'
<1> USE DEF Locked, Pcs, Writing
<1>0. RowsOK /\ RequestsOK /\ sessions \subseteq Cookies /\ req[r] \in Request
      /\ RequestOK(req[r]) /\ DOMAIN req = Requests
  BY DEF TypeInv, RequestsOK, RequestOK
<1>1. CASE \E s \in sessions : LogoutAllBegin(r, s) \/ PasswordBegin(r, s)
  <2>1. PICK s \in sessions : LogoutAllBegin(r, s) \/ PasswordBegin(r, s)
    BY <1>1
  <2>2. s.uid \in Nat /\ s.version \in Nat
    BY <1>0 DEF Cookies
  <2>3. CASE LogoutAllBegin(r, s)
    <3> DEFINE q == [Idle EXCEPT !.pc = "logout all", !.me = s.uid]
    <3>1. RequestOK(q) /\ q.pc = "logout all"
      BY <2>2 DEF RequestOK, Request, Idle
    <3> QED
      BY <2>3, <3>1, BeginOK DEF LogoutAllBegin
  <2>4. CASE PasswordBegin(r, s)
    <3> DEFINE q == [Idle EXCEPT !.pc = "password", !.me = s.uid, !.version = s.version]
    <3>1. RequestOK(q) /\ q.pc = "password"
      BY <2>2 DEF RequestOK, Request, Idle
    <3> QED
      BY <2>4, <3>1, BeginOK DEF PasswordBegin
  <2> QED
    BY <2>1, <2>3, <2>4
<1>2. CASE \E s \in sessions, u \in Ids : DeleteBegin(r, s, u)
  <2>1. PICK s \in sessions, u \in Ids : DeleteBegin(r, s, u)
    BY <1>2
  <2>2. u \in Nat
    BY RowFields
  <2> DEFINE q == [Idle EXCEPT !.pc = "role", !.uid = u]
  <2>3. RequestOK(q) /\ q.pc = "role"
    BY <2>2 DEF RequestOK, Request, Idle
  <2> QED
    BY <2>1, <2>3, BeginOK DEF DeleteBegin
<1>3. CASE LogoutAll(r)
  <2>1. RequestsOK'
    BY <1>0, <1>3, FinishOK DEF LogoutAll
  <2>2. RowsOK'
    BY <1>0, <1>3, EndSessionsOK DEF LogoutAll
  <2> QED
    BY <1>0, <1>3, <2>1, <2>2 DEF LogoutAll, TypeInv, Cookies
<1>4. CASE PasswordChange(r)
  <2>1. RequestsOK'
    BY <1>0, <1>4, GotoOK DEF PasswordChange
  <2>2. RowsOK'
    BY <1>0, <1>4, EndSessionsOK DEF PasswordChange
  <2> QED
    BY <1>0, <1>4, <2>1, <2>2 DEF PasswordChange, TypeInv, Cookies
<1>5. CASE Reissue(r)
  <2>1. UNCHANGED <<users, nextId, lock>> /\ Finish(r) /\ req[r].pc \notin Locked
    BY <1>5 DEF Reissue
  <2>2. (sessions \subseteq Cookies)'
    <3>1. CASE req[r].me \in Ids
      <4>1. req[r].me \in Nat /\ users[req[r].me].version \in Nat
        BY <3>1, RowFields
      <4> QED
        BY <1>5, <3>1, <4>1, IssueOK DEF Reissue
    <3>2. CASE req[r].me \notin Ids
      BY <1>0, <1>5, <3>2 DEF Reissue, Cookies
    <3> QED
      BY <3>1, <3>2
  <2> QED
    BY <1>0, <2>1, <2>2, FinishOK, RowsPreserved DEF TypeInv
<1>6. CASE DeleteRole(r) \/ DeleteCount(r)
  <2>1. UNCHANGED <<users, nextId, sessions, lock>> /\ req[r].pc \notin Locked
    BY <1>6 DEF DeleteRole, DeleteCount
  <2>2. Finish(r) \/ Goto(r, "count") \/ Goto(r, "delete")
    BY <1>6 DEF DeleteRole, DeleteCount
  <2>3. RequestsOK'
    BY <1>0, <2>1, <2>2, FinishOK, GotoOK
  <2> QED
    BY <1>0, <2>1, <2>3, RowsPreserved DEF TypeInv, Cookies
<1>7. CASE Delete(r)
  <2>1. RequestsOK'
    BY <1>0, <1>7, IdleOK, RequestsPreserved DEF Delete, Locked
  <2>2. RowsOK'
    <3>1. Ids \ {req[r].uid} \subseteq Ids
      OBVIOUS
    <3> QED
      BY <1>0, <1>7, <3>1, RowsPreserved DEF Delete
  <2> QED
    BY <1>0, <1>7, <2>1, <2>2 DEF Delete, TypeInv, Cookies
<1> QED
  BY <1>1, <1>2, <1>3, <1>4, <1>5, <1>6, <1>7 DEF AccountNext

LEMMA ChecksAre ==
    ASSUME NEW j \in 1..5
    PROVE  Checks[j] \in {"demote", "disable", "reset", "set role", "set flag"}
<1>1. j = 1 \/ j = 2 \/ j = 3 \/ j = 4 \/ j = 5
  OBVIOUS
<1>2. /\ Checks[1] = "demote" /\ Checks[2] = "disable" /\ Checks[3] = "reset"
      /\ Checks[4] = "set role" /\ Checks[5] = "set flag"
  BY DEF Checks
<1> QED
  BY <1>1, <1>2

\* A nonempty set of naturals has a least element, and Min names it.
LEMMA MinOfNats ==
    ASSUME NEW S \in SUBSET Nat, S # {}
    PROVE  Min(S) \in S /\ \A x \in S : Min(S) =< x
<1>1. \E x \in S : \A y \in S : ~(<<y, x>> \in OpToRel(<, Nat))
  BY WFMin, NatLessThanWellFounded
<1>2. \A x, y \in Nat : y < x => <<y, x>> \in OpToRel(<, Nat)
  BY DEF OpToRel
<1>3. \E x \in S : \A y \in S : x =< y
  <2>1. PICK x \in S : \A y \in S : ~(<<y, x>> \in OpToRel(<, Nat))
    BY <1>1
  <2>2. \A y \in S : ~(y < x)
    BY <2>1, <1>2
  <2> QED
    BY <2>2
<1> QED
  BY <1>3 DEF Min

\* The statements ahead of an update are among those it needs.
LEMMA AheadOK ==
    ASSUME NEW q, NEW i \in Nat
    PROVE  \/ Ahead(q, i) = Idle
           \/ \E j \in 1..5 : Needed(q, Checks[j]) /\ Ahead(q, i) = [q EXCEPT !.pc = Checks[j]]
<1> DEFINE left == {j \in (i + 1)..5 : Needed(q, Checks[j])}
<1>1. CASE left = {}
  BY <1>1 DEF Ahead
<1>2. CASE left # {}
  <2>1. left \in SUBSET Nat
    OBVIOUS
  <2>2. Min(left) \in left
    BY <1>2, <2>1, MinOfNats
  <2>3. Min(left) \in 1..5 /\ Needed(q, Checks[Min(left)])
    BY <2>2
  <2>4. Ahead(q, i) = [q EXCEPT !.pc = Checks[Min(left)]]
    BY <1>2 DEF Ahead
  <2> QED
    BY <2>3, <2>4
<1> QED
  BY <1>1, <1>2

\* So what is left of an update is a request in order.
LEMMA ProceedOK ==
    ASSUME RequestsOK, NEW r \in Requests, NEW q \in Request, NEW i \in Nat,
           req' = [req EXCEPT ![r] = Ahead(q, i)],
           UNCHANGED lock, req[r].pc \notin Locked
    PROVE  RequestsOK'
<1> DEFINE a == Ahead(q, i)
<1>1. RequestOK(a) /\ a.pc \notin Locked
  <2>1. CASE a = Idle
    BY <2>1, IdleOK DEF Locked
  <2>2. CASE \E j \in 1..5 : Needed(q, Checks[j]) /\ a = [q EXCEPT !.pc = Checks[j]]
    <3>1. PICK j \in 1..5 : Needed(q, Checks[j]) /\ a = [q EXCEPT !.pc = Checks[j]]
      BY <2>2
    <3>2. Checks[j] \in {"demote", "disable", "reset", "set role", "set flag"}
      BY ChecksAre
    <3>3. Checks[j] = "set role" => q.role \in {"admin", "user"}
      BY <3>1 DEF Needed, Request
    <3> HIDE DEF a
    <3> QED
      BY <3>1, <3>2, <3>3 DEF RequestOK, Request, Pcs, Locked, Writing
  <2> QED
    BY <2>1, <2>2, AheadOK
<1>2. req' = [req EXCEPT ![r] = a]
  OBVIOUS
<1> HIDE DEF a
<1> QED
  BY <1>1, <1>2, RequestsPreserved

\* An administrator creates or updates an account.
LEMMA AdminTypes ==
    ASSUME TypeInv, NEW r \in Requests, AdminNext(r)
    PROVE  TypeInv'
<1> USE DEF Locked, Pcs, Writing
<1>0. RowsOK /\ RequestsOK /\ sessions \subseteq Cookies /\ req[r] \in Request
      /\ RequestOK(req[r]) /\ DOMAIN req = Requests
  BY DEF TypeInv, RequestsOK, RequestOK
<1>1. CASE \E s \in sessions, name \in Names, role \in {"admin", "user"} :
             CreateBegin(r, s, name, role)
  <2>1. PICK s \in sessions, name \in Names, role \in {"admin", "user"} :
          CreateBegin(r, s, name, role)
    BY <1>1
  <2> DEFINE q == [Idle EXCEPT !.pc = "create", !.name = name, !.role = role]
  <2>2. RequestOK(q) /\ q.pc = "create"
    BY DEF RequestOK, Request, Idle
  <2> QED
    BY <2>1, <2>2, BeginOK DEF CreateBegin
<1>2. CASE \E s \in sessions, u \in Ids, patch \in Patches : UpdateBegin(r, s, u, patch)
  <2>1. PICK s \in sessions, u \in Ids, patch \in Patches : UpdateBegin(r, s, u, patch)
    BY <1>2
  <2>2. u \in Nat /\ s.uid \in Nat /\ patch \in Patch
    BY <1>0, RowFields, PatchesAssumption DEF Cookies
  <2> DEFINE q == [Idle EXCEPT !.pc = "read", !.me = s.uid, !.uid = u, !.role = patch.role,
                               !.flag = patch.flag, !.reset = patch.reset]
  <2>3. RequestOK(q) /\ q.pc = "read"
    BY <2>2 DEF RequestOK, Request, Idle, Patch
  <2> QED
    BY <2>1, <2>3, BeginOK DEF UpdateBegin
<1>3. CASE Create(r)
  <2>1. RequestsOK'
    BY <1>0, <1>3, FinishOK DEF Create
  <2>2. RowsOK'
    <3>1. CASE UNCHANGED <<users, nextId>>
      BY <1>0, <3>1, RowsPreserved
    <3>2. CASE Insert(NewRow(req[r].name, req[r].role, None))
      <4>1. req[r].name \in Names \cup {None} /\ req[r].role \in {"admin", "user"}
        BY <1>0, <1>3 DEF Create, RequestOK, Request
      <4>2. None \in Subjects \cup {None}
        OBVIOUS
      <4> QED
        BY <1>0, <3>2, <4>1, <4>2, RowsPreserved
    <3> QED
      BY <1>3, <3>1, <3>2 DEF Create
  <2> QED
    BY <1>0, <1>3, <2>1, <2>2 DEF Create, TypeInv, Cookies
<1>4. CASE UpdateRead(r)
  <2>1. UNCHANGED <<users, nextId, sessions, lock>> /\ req[r].pc \notin Locked
    BY <1>4 DEF UpdateRead
  <2>2. RequestsOK'
    <3>1. CASE req[r].uid \in Ids
      <4> DEFINE row == users[req[r].uid]
                 q == [req[r] EXCEPT !.row = [role |-> row.role, disabled |-> row.disabled]]
      <4>1. q \in Request
        BY <1>0, <3>1, RowFields DEF Request
      <4>2. req' = [req EXCEPT ![r] = Ahead(q, 0)]
        BY <1>4, <3>1 DEF UpdateRead
      <4> QED
        BY <1>0, <2>1, <4>1, <4>2, ProceedOK
    <3>2. CASE req[r].uid \notin Ids
      BY <1>0, <1>4, <2>1, <3>2, IdleOK, RequestsPreserved DEF UpdateRead
    <3> QED
      BY <3>1, <3>2
  <2> QED
    BY <1>0, <2>1, <2>2, RowsPreserved DEF TypeInv, Cookies
<1>5. CASE UpdateDemote(r) \/ UpdateDisable(r)
  <2>1. UNCHANGED <<users, nextId, sessions, lock>> /\ req[r].pc \notin Locked
    BY <1>5 DEF UpdateDemote, UpdateDisable
  <2>2. Finish(r) \/ Proceed(r, 1) \/ Proceed(r, 2)
    BY <1>5 DEF UpdateDemote, UpdateDisable
  <2>3. RequestsOK'
    BY <1>0, <2>1, <2>2, FinishOK, ProceedOK DEF Proceed
  <2> QED
    BY <1>0, <2>1, <2>3, RowsPreserved DEF TypeInv, Cookies
<1>6. CASE UpdateReset(r)
  <2>1. RequestsOK'
    BY <1>0, <1>6, ProceedOK DEF UpdateReset, Proceed
  <2>2. RowsOK'
    <3>1. (req[r].uid \in Ids /\ users[req[r].uid].disabled) \in BOOLEAN
      BY RowFields
    <3> QED
      BY <1>0, <1>6, <3>1, EndSessionsOK DEF UpdateReset
  <2> QED
    BY <1>0, <1>6, <2>1, <2>2 DEF UpdateReset, TypeInv, Cookies
<1>7. CASE UpdateRole(r)
  <2>1. RequestsOK'
    BY <1>0, <1>7, ProceedOK DEF UpdateRole, Proceed
  <2>2. RowsOK'
    <3>1. CASE UNCHANGED users
      BY <1>0, <1>7, <3>1, RowsPreserved DEF UpdateRole
    <3>2. CASE ~UNCHANGED users
      <4> DEFINE u == req[r].uid
                 row == [users[u] EXCEPT !.role = req[r].role]
      <4>1. u \in Ids /\ Update(u, row) /\ UNCHANGED nextId
        BY <1>7, <3>2 DEF UpdateRole
      <4>2. users[u] \in Row /\ req[r].role \in {"admin", "user"}
        BY <1>0, <1>7, <4>1 DEF RowsOK, RequestOK, UpdateRole
      <4>3. row \in Row /\ row.sub = users[u].sub
        BY <4>2 DEF Row
      <4> HIDE DEF u, row
      <4> QED
        BY <1>0, <4>1, <4>3, RowsPreserved
    <3> QED
      BY <3>1, <3>2
  <2> QED
    BY <1>0, <1>7, <2>1, <2>2 DEF UpdateRole, TypeInv, Cookies
<1>8. CASE UpdateFlag(r)
  <2>1. RequestsOK'
    BY <1>0, <1>8, FinishOK DEF UpdateFlag
  <2>2. RowsOK'
    <3>1. CASE UNCHANGED users
      BY <1>0, <1>8, <3>1, RowsPreserved DEF UpdateFlag
    <3>2. CASE req[r].flag = "on"
      BY <1>0, <1>8, <3>2, EndSessionsOK DEF UpdateFlag
    <3>3. CASE req[r].flag # "on" /\ ~UNCHANGED users
      <4> DEFINE u == req[r].uid
                 row == [users[u] EXCEPT !.disabled = FALSE]
      <4>1. u \in Ids /\ Update(u, row) /\ UNCHANGED nextId
        BY <1>8, <3>3 DEF UpdateFlag
      <4>2. users[u] \in Row
        BY <1>0, <4>1 DEF RowsOK
      <4>3. row \in Row /\ row.sub = users[u].sub
        BY <4>2 DEF Row
      <4> HIDE DEF u, row
      <4> QED
        BY <1>0, <4>1, <4>3, RowsPreserved
    <3> QED
      BY <3>1, <3>2, <3>3
  <2> QED
    BY <1>0, <1>8, <2>1, <2>2 DEF UpdateFlag, TypeInv, Cookies
<1> QED
  BY <1>1, <1>2, <1>3, <1>4, <1>5, <1>6, <1>7, <1>8 DEF AdminNext

LEMMA InitTypes == Init => TypeInv
<1> SUFFICES ASSUME Init PROVE TypeInv
  OBVIOUS
<1>1. Ids = {}
  BY DEF Init, Ids, Restrict
<1>2. RowsOK
  BY <1>1, MaxUserIsNat DEF Init, RowsOK, Restrict, Ids
<1>3. RequestsOK
  <2>1. \A r \in Requests : req[r] = Idle
    BY DEF Init
  <2>2. DOMAIN req = Requests /\ lock = None /\ Idle.pc \notin Locked
    BY DEF Init, Idle, Locked
  <2> QED
    BY <2>1, <2>2, IdleOK DEF RequestsOK
<1> QED
  BY <1>2, <1>3 DEF TypeInv, Init

LEMMA NextTypes == TypeInv /\ [Next]_vars => TypeInv'
<1> SUFFICES ASSUME TypeInv, [Next]_vars PROVE TypeInv'
  OBVIOUS
<1>1. CASE UNCHANGED vars
  <2>1. RowsOK'
    BY <1>1, RowsPreserved DEF vars, TypeInv
  <2>2. RequestsOK'
    BY <1>1 DEF vars, TypeInv, RequestsOK
  <2> QED
    BY <1>1, <2>1, <2>2 DEF vars, TypeInv, Cookies
<1>2. CASE \E u \in Ids : Login(u)
  <2>1. PICK u \in Ids : Login(u)
    BY <1>2
  <2>2. (sessions \subseteq Cookies)'
    BY <2>1, RowFields, IssueOK DEF Login
  <2>3. RowsOK'
    BY <2>1, RowsPreserved DEF Login, TypeInv
  <2>4. RequestsOK'
    BY <2>1 DEF Login, TypeInv, RequestsOK
  <2> QED
    BY <2>2, <2>3, <2>4 DEF TypeInv
<1>3. CASE \E r \in Requests : SignInNext(r) \/ AccountNext(r) \/ AdminNext(r)
  BY <1>3, SignInTypes, AccountTypes, AdminTypes
<1> QED
  BY <1>1, <1>2, <1>3 DEF Next

\* The rows and cookies stay well typed, no identity is linked twice, and the
\* provisioning lock is held by a request that is under it: auth.py, oidc.py,
\* account.py and admin_users.py, however their requests interleave.
THEOREM TypeCorrect == Spec => []TypeOK
<1>1. Spec => []TypeInv
  BY InitTypes, NextTypes, PTL DEF Spec
<1> QED
  BY <1>1, TypeInvImplies, PTL
-----------------------------------------------------------------------------
(***************************************************************************)
(* Sessions end.  A cookie, or a request that will be given one, is of a   *)
(* version no later than the row's, and of no more ends than its version   *)
(* has seen: with the row's version equal to its ends, an accepted cookie  *)
(* has seen them all.  Ids are not used again, so a cookie of a deleted    *)
(* row never meets another.                                                *)
(***************************************************************************)
Carrying == {"link", "suspended", "issue"}

VersionsOK == \A u \in Ids : users[u].version = users[u].ends

CookiesOK ==
    \A s \in sessions :
       /\ s.uid < nextId
       /\ s.uid \in Ids => s.version =< s.ends /\ s.ends =< users[s.uid].ends

CarriedOK ==
    \A r \in Requests :
       req[r].pc \in Carrying =>
          /\ req[r].uid < nextId
          /\ req[r].uid \in Ids => req[r].version =< users[req[r].uid].version

SessionInv == VersionsOK /\ CookiesOK /\ CarriedOK

\* Rows of before are the rows of before, at versions no earlier.
Later ==
    /\ nextId =< nextId'
    /\ \A u \in Ids' : u < nextId => u \in Ids /\ users[u].version =< users'[u].version

\* The ways a handler writes the rows.
RowWrite ==
    \/ UNCHANGED <<users, nextId>>
    \/ \E row \in Row : row.version = row.ends /\ Insert(row)
    \/ /\ UNCHANGED nextId
       /\ \E u \in Ids, row \in Row :
             row.version = row.ends /\ users[u].version =< row.version /\ Update(u, row)
    \/ UNCHANGED nextId /\ \E S : S \subseteq Ids /\ users' = Restrict(users, S)

LEMMA LaterOK ==
    ASSUME TypeInv, VersionsOK, RowWrite
    PROVE  Later /\ VersionsOK'
<1>0. nextId \in Nat /\ \A u \in Ids : u \in Nat /\ users[u].version \in Nat
  BY MaxUserIsNat, RowFields DEF TypeInv, RowsOK
<1>1. CASE UNCHANGED <<users, nextId>>
  BY <1>0, <1>1 DEF Later, VersionsOK, Ids
<1>2. CASE \E row \in Row : row.version = row.ends /\ Insert(row)
  <2>1. PICK row \in Row : row.version = row.ends /\ Insert(row)
    BY <1>2
  <2>2. /\ Ids' = Ids \cup {nextId} /\ nextId' = nextId + 1 /\ users'[nextId] = row
        /\ \A u \in Ids : u # nextId => users'[u] = users[u]
    BY <2>1 DEF Insert, Ids
  <2> QED
    BY <1>0, <2>1, <2>2 DEF Later, VersionsOK
<1>3. CASE /\ UNCHANGED nextId
           /\ \E u \in Ids, row \in Row :
                row.version = row.ends /\ users[u].version =< row.version /\ Update(u, row)
  <2>1. PICK u \in Ids, row \in Row :
          row.version = row.ends /\ users[u].version =< row.version /\ Update(u, row)
    BY <1>3
  <2>2. /\ Ids' = Ids /\ nextId' = nextId /\ users'[u] = row
        /\ \A v \in Ids : v # u => users'[v] = users[v]
    BY <1>3, <2>1 DEF Update, Ids
  <2> QED
    BY <1>0, <2>1, <2>2 DEF Later, VersionsOK
<1>4. CASE UNCHANGED nextId /\ \E S : S \subseteq Ids /\ users' = Restrict(users, S)
  <2>1. Ids' \subseteq Ids /\ nextId' = nextId /\ \A u \in Ids' : users'[u] = users[u]
    BY <1>4 DEF Restrict, Ids
  <2> QED
    BY <1>0, <2>1 DEF Later, VersionsOK
<1> QED
  BY <1>1, <1>2, <1>3, <1>4 DEF RowWrite

LEMMA CookiesKept ==
    ASSUME TypeInv, SessionInv, Later, VersionsOK', UNCHANGED sessions, nextId' \in Nat,
           \A u \in Ids' : users'[u].version \in Nat
    PROVE  CookiesOK'
<1> SUFFICES ASSUME NEW s \in sessions
             PROVE  /\ s.uid < nextId'
                    /\ s.uid \in Ids' => s.version =< s.ends /\ s.ends =< users'[s.uid].ends
  BY DEF CookiesOK
<1>1. s.uid \in Nat /\ s.version \in Nat /\ s.ends \in Nat /\ nextId \in Nat
  BY MaxUserIsNat DEF TypeInv, RowsOK, Cookies
<1>2. s.uid < nextId /\ (s.uid \in Ids => s.version =< s.ends /\ s.ends =< users[s.uid].ends)
  BY DEF SessionInv, CookiesOK
<1>3. s.uid < nextId'
  BY <1>1, <1>2 DEF Later
<1>4. CASE s.uid \in Ids'
  <2>1. s.uid \in Ids /\ users[s.uid].version =< users'[s.uid].version
    BY <1>2, <1>4 DEF Later
  <2>2. users[s.uid].version = users[s.uid].ends /\ users'[s.uid].version = users'[s.uid].ends
    BY <1>4, <2>1 DEF SessionInv, VersionsOK
  <2>3. users[s.uid].version \in Nat /\ users'[s.uid].version \in Nat
    BY <1>4, <2>1, RowFields
  <2>4. s.version =< s.ends /\ s.ends =< users[s.uid].ends
    BY <1>2, <2>1
  <2> QED
    BY <1>1, <1>3, <2>1, <2>2, <2>3, <2>4
<1> QED
  BY <1>3, <1>4

\* Only request r takes a step, and what it carries is no later than the row.
LEMMA CarriedKept ==
    ASSUME TypeInv, TypeInv', SessionInv, Later, NEW r \in Requests, NEW q,
           req' = [req EXCEPT ![r] = q],
           q.pc \in Carrying =>
              q.uid < nextId' /\ (q.uid \in Ids' => q.version =< users'[q.uid].version)
    PROVE  CarriedOK'
<1> SUFFICES ASSUME NEW t \in Requests, req'[t].pc \in Carrying
             PROVE  /\ req'[t].uid < nextId'
                    /\ req'[t].uid \in Ids' => req'[t].version =< users'[req'[t].uid].version
  BY DEF CarriedOK
<1>1. CASE t = r
  <2>1. req'[t] = q
    BY <1>1 DEF TypeInv, RequestsOK
  <2> QED
    BY <2>1
<1>2. CASE t # r
  <2> DEFINE uid == req[t].uid
             version == req[t].version
  <2>1. req'[t] = req[t]
    BY <1>2 DEF TypeInv, RequestsOK
  <2>2. uid \in Nat /\ version \in Nat /\ nextId \in Nat /\ nextId' \in Nat
    BY MaxUserIsNat DEF TypeInv, RowsOK, RequestsOK, RequestOK, Request
  <2>3. uid < nextId /\ (uid \in Ids => version =< users[uid].version)
    BY <2>1 DEF SessionInv, CarriedOK
  <2>4. uid < nextId'
    BY <2>2, <2>3 DEF Later
  <2>5. CASE uid \in Ids'
    <3>1. uid \in Ids /\ users[uid].version =< users'[uid].version
      BY <2>3, <2>5 DEF Later
    <3>2. users[uid].version \in Nat /\ users'[uid].version \in Nat
      BY <2>5, <3>1, RowFields DEF TypeInv, RowsOK, Row
    <3>3. version =< users[uid].version
      BY <2>3, <3>1
    <3> HIDE DEF uid, version
    <3>4. version =< users'[uid].version
      BY <2>2, <3>1, <3>2, <3>3
    <3> QED
      BY <2>1, <2>4, <3>4 DEF uid, version
  <2> QED
    BY <2>1, <2>4, <2>5
<1> QED
  BY <1>1, <1>2

\* A step that gives no cookie and no version to carry.
LEMMA QuietStep ==
    ASSUME TypeInv, TypeInv', SessionInv, RowWrite, UNCHANGED sessions,
           NEW r \in Requests, NEW q, req' = [req EXCEPT ![r] = q], q.pc \notin Carrying
    PROVE  SessionInv'
<1>1. Later /\ VersionsOK'
  BY LaterOK DEF SessionInv
<1>2. nextId' \in Nat /\ \A u \in Ids' : users'[u].version \in Nat
  BY MaxUserIsNat DEF TypeInv, RowsOK, Row
<1>3. CookiesOK'
  BY <1>1, <1>2, CookiesKept
<1>4. CarriedOK'
  BY <1>1, CarriedKept
<1> QED
  BY <1>1, <1>3, <1>4 DEF SessionInv

\* A step that gives a request a version to carry.
LEMMA CarryStep ==
    ASSUME TypeInv, TypeInv', SessionInv, RowWrite, UNCHANGED sessions,
           NEW r \in Requests, NEW q, req' = [req EXCEPT ![r] = q],
           q.uid < nextId', q.uid \in Ids' => q.version =< users'[q.uid].version
    PROVE  SessionInv'
<1>1. Later /\ VersionsOK'
  BY LaterOK DEF SessionInv
<1>2. nextId' \in Nat /\ \A u \in Ids' : users'[u].version \in Nat
  BY MaxUserIsNat DEF TypeInv, RowsOK, Row
<1>3. CookiesOK'
  BY <1>1, <1>2, CookiesKept
<1>4. CarriedOK'
  BY <1>1, CarriedKept
<1> QED
  BY <1>1, <1>3, <1>4 DEF SessionInv

\* A cookie given out is of a version the row has reached.
LEMMA CookieIssued ==
    ASSUME TypeInv, SessionInv, UNCHANGED <<users, nextId>>,
           NEW u \in Nat, NEW version \in Nat, u < nextId,
           u \in Ids => version =< users[u].version, Issue(u, version)
    PROVE  CookiesOK'
<1> DEFINE ends == IF u \in Ids THEN users[u].ends ELSE 0
           cookie == [uid |-> u, version |-> version, ends |-> ends]
<1>1. sessions' = sessions \cup {cookie}
  BY DEF Issue
<1>2. Ids' = Ids /\ users' = users /\ nextId' = nextId
  BY DEF Ids
<1>3. u \in Ids => version =< ends /\ ends =< users[u].ends
  BY RowFields DEF SessionInv, VersionsOK
<1>4. cookie.uid = u /\ cookie.version = version /\ cookie.ends = ends
  OBVIOUS
<1> HIDE DEF cookie, ends
<1>5. \A s \in sessions' :
         /\ s.uid < nextId
         /\ s.uid \in Ids => s.version =< s.ends /\ s.ends =< users[s.uid].ends
  <2>1. \A s \in sessions :
           /\ s.uid < nextId
           /\ s.uid \in Ids => s.version =< s.ends /\ s.ends =< users[s.uid].ends
    BY DEF SessionInv, CookiesOK
  <2> QED
    BY <1>1, <1>3, <1>4, <2>1
<1> QED
  BY <1>2, <1>5 DEF CookiesOK

\* So a request that ends by giving out what it carries keeps the invariant.
LEMMA IssueStep ==
    ASSUME TypeInv, TypeInv', SessionInv, UNCHANGED <<users, nextId>>,
           NEW r \in Requests, Finish(r),
           NEW u \in Nat, NEW version \in Nat, u < nextId,
           u \in Ids => version =< users[u].version,
           UNCHANGED sessions \/ Issue(u, version)
    PROVE  SessionInv'
<1>1. Later /\ VersionsOK'
  BY LaterOK DEF SessionInv, RowWrite
<1>2. nextId' \in Nat /\ \A v \in Ids' : users'[v].version \in Nat
  BY MaxUserIsNat DEF TypeInv, RowsOK, Row
<1>3. CookiesOK'
  <2>1. CASE UNCHANGED sessions
    BY <1>1, <1>2, <2>1, CookiesKept
  <2>2. CASE Issue(u, version)
    BY <2>2, CookieIssued
  <2> QED
    BY <2>1, <2>2
<1>4. CarriedOK'
  <2>1. req' = [req EXCEPT ![r] = Idle] /\ Idle.pc \notin Carrying
    BY DEF Finish, Idle, Carrying
  <2> QED
    BY <1>1, <2>1, CarriedKept
<1> QED
  BY <1>1, <1>3, <1>4 DEF SessionInv

\* A password change or reset, a suspension and a logout everywhere count one end
\* and one version.
LEMMA EndSessionsWrites ==
    ASSUME TypeInv, VersionsOK, NEW u, NEW disabled \in BOOLEAN,
           EndSessions(u, disabled), UNCHANGED nextId
    PROVE  RowWrite
<1>1. CASE u \in Ids
  <2> DEFINE row == [users[u] EXCEPT !.disabled = disabled, !.version = @ + 1, !.ends = @ + 1]
  <2>1. users[u] \in Row /\ users[u].version \in Nat /\ users[u].version = users[u].ends
    BY <1>1, RowFields DEF VersionsOK
  <2> DEFINE next == users[u].version + 1
  <2>2. next \in Nat /\ users[u].version =< next /\ users[u].ends + 1 = next
    BY <2>1
  <2>3. row = [users[u] EXCEPT !.disabled = disabled, !.version = next, !.ends = next]
    BY <2>2
  <2> HIDE DEF next, row
  <2>4. row \in Row /\ row.version = next /\ row.ends = next
    BY <2>1, <2>2, <2>3 DEF Row
  <2>5. Update(u, row)
    BY <1>1 DEF EndSessions, row
  <2> QED
    BY <1>1, <2>2, <2>4, <2>5 DEF RowWrite
<1>2. CASE u \notin Ids
  BY <1>2 DEF EndSessions, RowWrite
<1> QED
  BY <1>1, <1>2

\* Nor does what is left of an update.
LEMMA AheadCarriesNothing ==
    ASSUME NEW q \in Request, NEW i \in Nat
    PROVE  Ahead(q, i).pc \notin Carrying
<1>1. CASE Ahead(q, i) = Idle
  BY <1>1 DEF Idle, Carrying
<1>2. CASE \E j \in 1..5 : Needed(q, Checks[j]) /\ Ahead(q, i) = [q EXCEPT !.pc = Checks[j]]
  <2>1. PICK j \in 1..5 : Ahead(q, i) = [q EXCEPT !.pc = Checks[j]]
    BY <1>2
  <2> QED
    BY <2>1, ChecksAre DEF Carrying, Request
<1> QED
  BY <1>1, <1>2, AheadOK

LEMMA BeginQuiet ==
    ASSUME TypeInv, TypeInv', SessionInv, NEW r \in Requests, NEW q, Begin(r, q),
           UNCHANGED <<users, nextId, sessions>>, q.pc \notin Carrying
    PROVE  SessionInv'
<1>1. RowWrite /\ req' = [req EXCEPT ![r] = q] /\ UNCHANGED sessions
  BY DEF Begin, RowWrite
<1> QED
  BY <1>1, QuietStep

LEMMA GotoQuiet ==
    ASSUME TypeInv, TypeInv', SessionInv, RowWrite, UNCHANGED sessions,
           NEW r \in Requests, NEW pc \in Pcs \ Carrying, Goto(r, pc)
    PROVE  SessionInv'
<1> DEFINE q == [req[r] EXCEPT !.pc = pc]
<1>1. req' = [req EXCEPT ![r] = q]
  BY DEF Goto
<1>2. q.pc = pc
  BY DEF TypeInv, RequestsOK, RequestOK, Request
<1> QED
  BY <1>1, <1>2, QuietStep

LEMMA FinishQuiet ==
    ASSUME TypeInv, TypeInv', SessionInv, RowWrite, UNCHANGED sessions,
           NEW r \in Requests, Finish(r)
    PROVE  SessionInv'
<1>1. req' = [req EXCEPT ![r] = Idle] /\ Idle.pc \notin Carrying
  BY DEF Finish, Idle, Carrying
<1> QED
  BY <1>1, QuietStep

LEMMA ProceedQuiet ==
    ASSUME TypeInv, TypeInv', SessionInv, RowWrite, UNCHANGED sessions,
           NEW r \in Requests, NEW q \in Request, NEW i \in Nat,
           req' = [req EXCEPT ![r] = Ahead(q, i)]
    PROVE  SessionInv'
<1> DEFINE a == Ahead(q, i)
<1>1. req' = [req EXCEPT ![r] = a] /\ a.pc \notin Carrying
  BY AheadCarriesNothing
<1> HIDE DEF a
<1> QED
  BY <1>1, QuietStep

\* A sign-in that has read a row carries the row's version.
LEMMA RowCarried ==
    ASSUME TypeInv, TypeInv', SessionInv, UNCHANGED <<users, nextId, sessions>>,
           NEW r \in Requests, NEW pc \in Pcs, NEW u \in Ids,
           req' = [req EXCEPT ![r] = [req[r] EXCEPT !.pc = pc, !.uid = u,
                                                    !.version = users[u].version]]
    PROVE  SessionInv'
<1> DEFINE q == [req[r] EXCEPT !.pc = pc, !.uid = u, !.version = users[u].version]
<1>1. q.uid = u /\ q.version = users[u].version
  BY DEF TypeInv, RequestsOK, RequestOK, Request
<1>2. u < nextId /\ users[u].version \in Nat
  BY RowFields
<1>3. req' = [req EXCEPT ![r] = q]
  OBVIOUS
<1> HIDE DEF q
<1>4. q.uid < nextId' /\ (q.uid \in Ids' => q.version =< users'[q.uid].version)
  BY <1>1, <1>2
<1> QED
  BY <1>3, <1>4, CarryStep DEF RowWrite

LEMMA SignInSessions ==
    ASSUME TypeInv, TypeInv', SessionInv, NEW r \in Requests, SignInNext(r)
    PROVE  SessionInv'
<1>0. req[r] \in Request
  BY DEF TypeInv, RequestsOK, RequestOK
<1>1. CASE \E name \in Names : SetupBegin(r, name)
  <2>1. PICK name \in Names : SetupBegin(r, name)
    BY <1>1
  <2> DEFINE q == [Idle EXCEPT !.pc = "lock setup", !.name = name, !.role = "admin"]
  <2>2. q.pc \notin Carrying
    BY DEF Idle, Carrying
  <2> QED
    BY <2>1, <2>2, BeginQuiet DEF SetupBegin
<1>2. CASE \E sub \in Subjects, email \in Names \cup {None} : OidcBegin(r, sub, email)
  <2>1. PICK sub \in Subjects, email \in Names \cup {None} : OidcBegin(r, sub, email)
    BY <1>2
  <2> DEFINE q == [Idle EXCEPT !.pc = "find", !.sub = sub, !.name = email]
  <2>2. q.pc \notin Carrying
    BY DEF Idle, Carrying
  <2> QED
    BY <2>1, <2>2, BeginQuiet DEF OidcBegin
<1>3. CASE Lock(r)
  <2>1. RowWrite /\ UNCHANGED sessions /\ (Goto(r, "setup") \/ Goto(r, "find again"))
    BY <1>3 DEF Lock, RowWrite
  <2> QED
    BY <2>1, GotoQuiet DEF Pcs, Locked, Carrying
<1>4. CASE SetupCount(r)
  <2>1. RowWrite /\ UNCHANGED sessions /\ (Finish(r) \/ Goto(r, "insert first"))
    BY <1>4 DEF SetupCount, RowWrite
  <2> QED
    BY <2>1, FinishQuiet, GotoQuiet DEF Pcs, Locked, Carrying
<1>5. CASE Provision(r)
  <2>1. CASE req[r].sub # None /\ Linked(req[r].sub) # {}
    <3>1. PICK u \in Ids :
            req' = [req EXCEPT ![r] = [req[r] EXCEPT !.pc = "suspended", !.uid = u,
                                                     !.version = users[u].version]]
      BY <1>5, <2>1 DEF Provision, Linked
    <3>2. UNCHANGED <<users, nextId, sessions>>
      BY <1>5, <2>1 DEF Provision
    <3> QED
      BY <3>1, <3>2, RowCarried DEF Pcs
  <2>2. CASE Taken(req[r].name) /\ ~(req[r].sub # None /\ Linked(req[r].sub) # {})
    <3>1. Finish(r) /\ UNCHANGED sessions /\ RowWrite
      BY <1>5, <2>2 DEF Provision, Finish, RowWrite
    <3> QED
      BY <3>1, FinishQuiet
  <2>3. CASE ~(Taken(req[r].name) \/ (req[r].sub # None /\ Linked(req[r].sub) # {}))
    <3> DEFINE pc == IF req[r].sub = None THEN "issue" ELSE "suspended"
               q == [req[r] EXCEPT !.pc = pc, !.uid = nextId, !.version = 0]
               row == NewRow(req[r].name, req[r].role, req[r].sub)
    <3>1. /\ Insert(row) /\ req' = [req EXCEPT ![r] = q] /\ UNCHANGED sessions
      BY <1>5, <2>3 DEF Provision
    <3>2. row \in Row /\ row.version = 0 /\ row.ends = 0
      <4>1. req[r].role \in {"admin", "user"} /\ req[r].name \in Names \cup {None}
            /\ req[r].sub \in Subjects \cup {None}
        BY <1>5 DEF Provision, TypeInv, RequestsOK, RequestOK, Writing, Request
      <4> QED
        BY <4>1 DEF NewRow, Row
    <3>3. RowWrite
      BY <3>1, <3>2 DEF RowWrite
    <3>4. q.uid = nextId /\ q.version = 0
      BY <1>0 DEF Request
    <3> HIDE DEF q, row
    <3>5. users'[nextId] = row /\ nextId \in Nat /\ nextId' = nextId + 1
      BY <3>1, MaxUserIsNat DEF Insert, TypeInv, RowsOK
    <3>6. q.uid < nextId' /\ (q.uid \in Ids' => q.version =< users'[q.uid].version)
      BY <3>2, <3>4, <3>5
    <3> QED
      BY <3>1, <3>3, <3>6, CarryStep
  <2> QED
    BY <2>1, <2>2, <2>3
<1>6. CASE IssueNext(r) \/ OidcEnd(r)
  <2>1. UNCHANGED <<users, nextId>> /\ Finish(r) /\ req[r].pc \in Carrying
    BY <1>6 DEF IssueNext, OidcEnd, Carrying
  <2>2. UNCHANGED sessions \/ Issue(req[r].uid, req[r].version)
    BY <1>6 DEF IssueNext, OidcEnd
  <2>3. req[r].uid \in Nat /\ req[r].version \in Nat
    BY <1>0 DEF Request
  <2>4. /\ req[r].uid < nextId
        /\ req[r].uid \in Ids => req[r].version =< users[req[r].uid].version
    BY <2>1 DEF SessionInv, CarriedOK
  <2> QED
    BY <2>1, <2>2, <2>3, <2>4, IssueStep
<1>7. CASE OidcFind(r)
  <2>1. UNCHANGED <<users, nextId, sessions>> /\ RowWrite
    BY <1>7 DEF OidcFind, RowWrite
  <2>2. CASE Linked(req[r].sub) # {}
    <3>1. PICK u \in Ids :
            req' = [req EXCEPT ![r] = [req[r] EXCEPT !.pc = "suspended", !.uid = u,
                                                     !.version = users[u].version]]
      BY <1>7, <2>2 DEF OidcFind, Found, Linked
    <3> QED
      BY <2>1, <3>1, RowCarried DEF Pcs
  <2>3. CASE Linked(req[r].sub) = {}
    <3>1. Goto(r, "lock oidc") \/ Goto(r, "match")
      BY <1>7, <2>3 DEF OidcFind, Goto
    <3> QED
      BY <2>1, <3>1, GotoQuiet DEF Pcs, Locked, Carrying
  <2> QED
    BY <2>2, <2>3
<1>8. CASE OidcMatch(r)
  <2>1. UNCHANGED <<users, nextId, sessions>> /\ RowWrite
    BY <1>8 DEF OidcMatch, RowWrite
  <2>2. CASE \E u \in Ids :
               req' = [req EXCEPT ![r] = [req[r] EXCEPT !.pc = "link", !.uid = u,
                                                        !.version = users[u].version]]
    BY <2>1, <2>2, RowCarried DEF Pcs
  <2>3. CASE Goto(r, "lock oidc")
    BY <2>1, <2>3, GotoQuiet DEF Pcs, Locked, Carrying
  <2> QED
    BY <1>8, <2>2, <2>3 DEF OidcMatch, Goto
<1>9. CASE OidcFindAgain(r)
  <2>1. UNCHANGED <<users, nextId, sessions>> /\ RowWrite
    BY <1>9 DEF OidcFindAgain, RowWrite
  <2>2. CASE Linked(req[r].sub) # {}
    <3>1. PICK u \in Ids :
            req' = [req EXCEPT ![r] = [req[r] EXCEPT !.pc = "suspended", !.uid = u,
                                                     !.version = users[u].version]]
      BY <1>9, <2>2 DEF OidcFindAgain, Found, Linked
    <3> QED
      BY <2>1, <3>1, RowCarried DEF Pcs
  <2>3. CASE Linked(req[r].sub) = {}
    <3> DEFINE pc == IF Ids = {} THEN "insert first" ELSE "insert"
               role == IF Ids = {} \/ req[r].name \in AdminEmails THEN "admin" ELSE "user"
               name == IF Taken(req[r].name) THEN None ELSE req[r].name
               q == [req[r] EXCEPT !.pc = pc, !.role = role, !.name = name]
    <3>1. req' = [req EXCEPT ![r] = q]
      BY <1>9, <2>3 DEF OidcFindAgain
    <3>2. q.pc \notin Carrying
      BY <1>0 DEF Request, Carrying
    <3> QED
      BY <2>1, <3>1, <3>2, QuietStep
  <2> QED
    BY <2>2, <2>3
<1>10. CASE OidcLink(r)
  <2> DEFINE q == [req[r] EXCEPT !.pc = "suspended"]
  <2>1. req' = [req EXCEPT ![r] = q] /\ UNCHANGED <<nextId, sessions>> /\ req[r].pc \in Carrying
    BY <1>10 DEF OidcLink, Goto, Carrying
  <2>2. q.uid = req[r].uid /\ q.version = req[r].version
    BY <1>0 DEF Request
  <2>3. /\ req[r].uid < nextId
        /\ req[r].uid \in Ids => req[r].version =< users[req[r].uid].version
    BY <2>1 DEF SessionInv, CarriedOK
  <2>4. CASE UNCHANGED users
    <3> HIDE DEF q
    <3>1. q.uid < nextId' /\ (q.uid \in Ids' => q.version =< users'[q.uid].version)
      BY <2>1, <2>2, <2>3, <2>4 DEF Ids
    <3> QED
      BY <2>1, <2>4, <3>1, CarryStep DEF RowWrite
  <2>5. CASE ~UNCHANGED users
    <3> DEFINE u == req[r].uid
               row == [users[u] EXCEPT !.sub = req[r].sub]
    <3>1. u \in Ids /\ Update(u, row)
      BY <1>10, <2>5 DEF OidcLink
    <3>2. users[u] \in Row /\ req[r].sub \in Subjects \cup {None}
      BY <1>0, <3>1, RowFields DEF Request
    <3>3. /\ row \in Row /\ row.version = users[u].version /\ row.ends = users[u].ends
      BY <3>2 DEF Row
    <3>4. users[u].version = users[u].ends /\ users[u].version \in Nat
      BY <3>1, RowFields DEF SessionInv, VersionsOK
    <3>5. req[r].version =< users[u].version
      BY <2>3, <3>1
    <3>6. q.uid = u /\ u < nextId
      BY <2>2, <2>3
    <3> HIDE DEF u, row, q
    <3>7. RowWrite
      BY <2>1, <3>1, <3>3, <3>4 DEF RowWrite
    <3>8. users'[u] = row
      BY <3>1 DEF Update
    <3>9. q.uid < nextId' /\ (q.uid \in Ids' => q.version =< users'[q.uid].version)
      BY <2>1, <2>2, <3>3, <3>5, <3>6, <3>8
    <3> QED
      BY <2>1, <3>7, <3>9, CarryStep
  <2> QED
    BY <2>4, <2>5
<1> QED
  BY <1>1, <1>2, <1>3, <1>4, <1>5, <1>6, <1>7, <1>8, <1>9, <1>10 DEF SignInNext

LEMMA AccountSessions ==
    ASSUME TypeInv, TypeInv', SessionInv, NEW r \in Requests, AccountNext(r)
    PROVE  SessionInv'
<1>0. req[r] \in Request /\ VersionsOK
  BY DEF TypeInv, RequestsOK, RequestOK, SessionInv
<1>1. CASE \E s \in sessions : LogoutAllBegin(r, s) \/ PasswordBegin(r, s)
  <2>1. PICK s \in sessions : LogoutAllBegin(r, s) \/ PasswordBegin(r, s)
    BY <1>1
  <2>2. CASE LogoutAllBegin(r, s)
    <3> DEFINE q == [Idle EXCEPT !.pc = "logout all", !.me = s.uid]
    <3>1. q.pc \notin Carrying
      BY DEF Idle, Carrying
    <3> QED
      BY <2>2, <3>1, BeginQuiet DEF LogoutAllBegin
  <2>3. CASE PasswordBegin(r, s)
    <3> DEFINE q == [Idle EXCEPT !.pc = "password", !.me = s.uid, !.version = s.version]
    <3>1. q.pc \notin Carrying
      BY DEF Idle, Carrying
    <3> QED
      BY <2>3, <3>1, BeginQuiet DEF PasswordBegin
  <2> QED
    BY <2>1, <2>2, <2>3
<1>2. CASE \E s \in sessions, u \in Ids : DeleteBegin(r, s, u)
  <2>1. PICK s \in sessions, u \in Ids : DeleteBegin(r, s, u)
    BY <1>2
  <2> DEFINE q == [Idle EXCEPT !.pc = "role", !.uid = u]
  <2>2. q.pc \notin Carrying
    BY DEF Idle, Carrying
  <2> QED
    BY <2>1, <2>2, BeginQuiet DEF DeleteBegin
<1>3. CASE LogoutAll(r)
  <2>1. RowWrite
    BY <1>0, <1>3, EndSessionsWrites DEF LogoutAll
  <2> QED
    BY <1>3, <2>1, FinishQuiet DEF LogoutAll
<1>4. CASE PasswordChange(r)
  <2>1. RowWrite
    BY <1>0, <1>4, EndSessionsWrites DEF PasswordChange
  <2> QED
    BY <1>4, <2>1, GotoQuiet DEF PasswordChange, Pcs, Locked, Carrying
<1>5. CASE Reissue(r)
  <2>1. Finish(r) /\ UNCHANGED <<users, nextId>>
    BY <1>5 DEF Reissue
  <2>2. CASE req[r].me \in Ids
    <3> DEFINE u == req[r].me
    <3>1. u \in Nat /\ u < nextId /\ users[u].version \in Nat
      BY <2>2, RowFields
    <3>2. Issue(u, users[u].version)
      BY <1>5, <2>2 DEF Reissue
    <3>3. users[u].version =< users[u].version
      BY <3>1
    <3> HIDE DEF u
    <3> QED
      BY <2>1, <3>1, <3>2, <3>3, IssueStep
  <2>3. CASE req[r].me \notin Ids
    <3>1. UNCHANGED sessions /\ RowWrite
      BY <1>5, <2>3 DEF Reissue, RowWrite
    <3> QED
      BY <2>1, <3>1, FinishQuiet
  <2> QED
    BY <2>2, <2>3
<1>6. CASE DeleteRole(r) \/ DeleteCount(r)
  <2>1. RowWrite /\ UNCHANGED sessions /\ (Finish(r) \/ Goto(r, "count") \/ Goto(r, "delete"))
    BY <1>6 DEF DeleteRole, DeleteCount, RowWrite
  <2> QED
    BY <2>1, FinishQuiet, GotoQuiet DEF Pcs, Locked, Carrying
<1>7. CASE Delete(r)
  <2>1. Ids \ {req[r].uid} \subseteq Ids
    OBVIOUS
  <2>2. RowWrite
    BY <1>7, <2>1 DEF Delete, RowWrite
  <2>3. req' = [req EXCEPT ![r] = Idle] /\ UNCHANGED sessions /\ Idle.pc \notin Carrying
    BY <1>7 DEF Delete, Idle, Carrying
  <2> QED
    BY <2>2, <2>3, QuietStep
<1> QED
  BY <1>1, <1>2, <1>3, <1>4, <1>5, <1>6, <1>7 DEF AccountNext

LEMMA AdminSessions ==
    ASSUME TypeInv, TypeInv', SessionInv, NEW r \in Requests, AdminNext(r)
    PROVE  SessionInv'
<1>0. req[r] \in Request /\ VersionsOK
  BY DEF TypeInv, RequestsOK, RequestOK, SessionInv
<1>1. CASE \E s \in sessions, name \in Names, role \in {"admin", "user"} :
             CreateBegin(r, s, name, role)
  <2>1. PICK s \in sessions, name \in Names, role \in {"admin", "user"} :
          CreateBegin(r, s, name, role)
    BY <1>1
  <2> DEFINE q == [Idle EXCEPT !.pc = "create", !.name = name, !.role = role]
  <2>2. q.pc \notin Carrying
    BY DEF Idle, Carrying
  <2> QED
    BY <2>1, <2>2, BeginQuiet DEF CreateBegin
<1>2. CASE \E s \in sessions, u \in Ids, patch \in Patches : UpdateBegin(r, s, u, patch)
  <2>1. PICK s \in sessions, u \in Ids, patch \in Patches : UpdateBegin(r, s, u, patch)
    BY <1>2
  <2> DEFINE q == [Idle EXCEPT !.pc = "read", !.me = s.uid, !.uid = u, !.role = patch.role,
                               !.flag = patch.flag, !.reset = patch.reset]
  <2>2. q.pc \notin Carrying
    BY DEF Idle, Carrying
  <2> QED
    BY <2>1, <2>2, BeginQuiet DEF UpdateBegin
<1>3. CASE Create(r)
  <2> DEFINE row == NewRow(req[r].name, req[r].role, None)
  <2>1. row \in Row /\ row.version = 0 /\ row.ends = 0
    <3>1. req[r].role \in {"admin", "user"} /\ req[r].name \in Names \cup {None}
      BY <1>3 DEF Create, TypeInv, RequestsOK, RequestOK, Writing, Request
    <3> QED
      BY <3>1 DEF NewRow, Row
  <2>2. UNCHANGED <<users, nextId>> \/ Insert(row)
    BY <1>3 DEF Create
  <2> HIDE DEF row
  <2>3. RowWrite
    BY <2>1, <2>2 DEF RowWrite
  <2> QED
    BY <1>3, <2>3, FinishQuiet DEF Create
<1>4. CASE UpdateRead(r)
  <2>1. RowWrite /\ UNCHANGED sessions
    BY <1>4 DEF UpdateRead, RowWrite
  <2>2. CASE req[r].uid \in Ids
    <3> DEFINE row == users[req[r].uid]
               q == [req[r] EXCEPT !.row = [role |-> row.role, disabled |-> row.disabled]]
    <3>1. q \in Request
      BY <1>0, <2>2, RowFields DEF Request
    <3>2. req' = [req EXCEPT ![r] = Ahead(q, 0)]
      BY <1>4, <2>2 DEF UpdateRead
    <3> QED
      BY <2>1, <3>1, <3>2, ProceedQuiet
  <2>3. CASE req[r].uid \notin Ids
    <3>1. Finish(r)
      BY <1>4, <2>3 DEF UpdateRead, Finish
    <3> QED
      BY <2>1, <3>1, FinishQuiet
  <2> QED
    BY <2>2, <2>3
<1>5. CASE UpdateDemote(r) \/ UpdateDisable(r)
  <2>1. RowWrite /\ UNCHANGED sessions /\ (Finish(r) \/ Proceed(r, 1) \/ Proceed(r, 2))
    BY <1>5 DEF UpdateDemote, UpdateDisable, RowWrite
  <2> QED
    BY <1>0, <2>1, FinishQuiet, ProceedQuiet DEF Proceed
<1>6. CASE UpdateReset(r)
  <2>1. (req[r].uid \in Ids /\ users[req[r].uid].disabled) \in BOOLEAN
    BY RowFields
  <2>2. RowWrite
    BY <1>0, <1>6, <2>1, EndSessionsWrites DEF UpdateReset
  <2> QED
    BY <1>0, <1>6, <2>2, ProceedQuiet DEF UpdateReset, Proceed
<1>7. CASE UpdateRole(r)
  <2>1. RowWrite
    <3>1. CASE UNCHANGED users
      BY <1>7, <3>1 DEF UpdateRole, RowWrite
    <3>2. CASE ~UNCHANGED users
      <4> DEFINE u == req[r].uid
                 row == [users[u] EXCEPT !.role = req[r].role]
      <4>1. u \in Ids /\ Update(u, row) /\ UNCHANGED nextId
        BY <1>7, <3>2 DEF UpdateRole
      <4>2. req[r].role \in {"admin", "user"}
        BY <1>7 DEF UpdateRole, TypeInv, RequestsOK, RequestOK, Writing
      <4>3. users[u] \in Row /\ users[u].version \in Nat /\ users[u].version = users[u].ends
        BY <4>1, RowFields, <1>0 DEF VersionsOK
      <4>4. row \in Row /\ row.version = users[u].version /\ row.ends = users[u].ends
        BY <4>2, <4>3 DEF Row
      <4> HIDE DEF u, row
      <4> QED
        BY <4>1, <4>3, <4>4 DEF RowWrite
    <3> QED
      BY <3>1, <3>2
  <2> QED
    BY <1>0, <1>7, <2>1, ProceedQuiet DEF UpdateRole, Proceed
<1>8. CASE UpdateFlag(r)
  <2>1. RowWrite
    <3>1. CASE UNCHANGED users
      BY <1>8, <3>1 DEF UpdateFlag, RowWrite
    <3>2. CASE req[r].flag = "on"
      BY <1>0, <1>8, <3>2, EndSessionsWrites DEF UpdateFlag
    <3>3. CASE req[r].flag # "on" /\ ~UNCHANGED users
      <4> DEFINE u == req[r].uid
                 row == [users[u] EXCEPT !.disabled = FALSE]
      <4>1. u \in Ids /\ Update(u, row) /\ UNCHANGED nextId
        BY <1>8, <3>3 DEF UpdateFlag
      <4>2. users[u] \in Row /\ users[u].version \in Nat /\ users[u].version = users[u].ends
        BY <4>1, RowFields, <1>0 DEF VersionsOK
      <4>3. row \in Row /\ row.version = users[u].version /\ row.ends = users[u].ends
        BY <4>2 DEF Row
      <4> HIDE DEF u, row
      <4> QED
        BY <4>1, <4>2, <4>3 DEF RowWrite
    <3> QED
      BY <3>1, <3>2, <3>3
  <2> QED
    BY <1>8, <2>1, FinishQuiet DEF UpdateFlag
<1> QED
  BY <1>1, <1>2, <1>3, <1>4, <1>5, <1>6, <1>7, <1>8 DEF AdminNext

LEMMA NextSessions == TypeInv /\ TypeInv' /\ SessionInv /\ [Next]_vars => SessionInv'
<1> SUFFICES ASSUME TypeInv, TypeInv', SessionInv, [Next]_vars PROVE SessionInv'
  OBVIOUS
<1>1. CASE UNCHANGED vars
  BY <1>1 DEF vars, SessionInv, VersionsOK, CookiesOK, CarriedOK, Ids
<1>2. CASE \E u \in Ids : Login(u)
  <2>1. PICK u \in Ids : Login(u)
    BY <1>2
  <2>2. u \in Nat /\ u < nextId /\ users[u].version \in Nat
    BY RowFields
  <2>3. users[u].version =< users[u].version
    BY <2>2
  <2>4. CookiesOK'
    BY <2>1, <2>2, <2>3, CookieIssued DEF Login
  <2>5. VersionsOK' /\ CarriedOK'
    BY <2>1 DEF Login, SessionInv, VersionsOK, CarriedOK, Ids
  <2> QED
    BY <2>4, <2>5 DEF SessionInv
<1>3. CASE \E r \in Requests : SignInNext(r) \/ AccountNext(r) \/ AdminNext(r)
  BY <1>3, SignInSessions, AccountSessions, AdminSessions
<1> QED
  BY <1>1, <1>2, <1>3 DEF Next

LEMMA InitSessions == Init => SessionInv
<1> SUFFICES ASSUME Init PROVE SessionInv
  OBVIOUS
<1>1. Ids = {} /\ sessions = {} /\ \A r \in Requests : req[r].pc = "idle"
  BY DEF Init, Ids, Restrict, Idle
<1> QED
  BY <1>1 DEF SessionInv, VersionsOK, CookiesOK, CarriedOK, Carrying

LEMMA SessionInvImplies == TypeInv /\ SessionInv => SessionsEnd
<1> SUFFICES ASSUME TypeInv, SessionInv, NEW s \in sessions, Accepted(s)
             PROVE  s.ends = users[s.uid].ends
  BY DEF SessionsEnd
<1>1. s.uid \in Ids /\ users[s.uid].version = s.version
  BY DEF Accepted
<1>2. s.version =< s.ends /\ s.ends =< users[s.uid].ends /\ users[s.uid].version = users[s.uid].ends
  BY <1>1 DEF SessionInv, CookiesOK, VersionsOK
<1>3. s.version \in Nat /\ s.ends \in Nat /\ users[s.uid].ends \in Nat
  BY <1>1, RowFields DEF TypeInv, Cookies
<1> QED
  BY <1>1, <1>2, <1>3

\* A password change or reset, a suspension and a logout everywhere end every
\* session of before, for good: a cookie made then is never accepted again, even
\* when the handler that made it had read the row before them (current_user in
\* auth.py, and every handler that bumps token_version).
THEOREM SessionsStayEnded == Spec => []SessionsEnd
<1>1. Spec => [](TypeInv /\ SessionInv)
  <2>1. TypeInv /\ SessionInv /\ [Next]_vars => (TypeInv /\ SessionInv)'
    BY NextTypes, NextSessions
  <2>2. Init => TypeInv /\ SessionInv
    BY InitTypes, InitSessions
  <2> QED
    BY <2>1, <2>2, PTL DEF Spec
<1> QED
  BY <1>1, SessionInvImplies, PTL
-----------------------------------------------------------------------------
(***************************************************************************)
(* The first administrator.  Until a row was inserted there is no cookie,  *)
(* so every request in flight is a sign-in; and the sign-in that counted   *)
(* no users holds the lock, so no other inserts.  With the accounts never  *)
(* all deleted, counting none means that none was ever inserted.           *)
(***************************************************************************)
Unborn == {"idle", "lock setup", "setup", "insert first", "find", "match", "lock oidc",
           "find again"}

FirstInv ==
    ~emptied =>
        /\ Ids = {} => nextId = 1
        /\ nextId = 1 => sessions = {} /\ \A r \in Requests : req[r].pc \in Unborn
        /\ \A r \in Requests : req[r].pc = "insert first" => nextId = 1

OthersStay(r) == \A t \in Requests \ {r} : req'[t].pc = req[t].pc

LEMMA ReqSet ==
    ASSUME DOMAIN req = Requests, NEW r \in Requests, NEW q, req' = [req EXCEPT ![r] = q]
    PROVE  OthersStay(r) /\ req'[r] = q
BY DEF OthersStay

LEMMA FinishSets ==
    ASSUME DOMAIN req = Requests, NEW r \in Requests, Finish(r)
    PROVE  OthersStay(r) /\ req'[r].pc = "idle" /\ UNCHANGED emptied
BY IdleOK DEF OthersStay, Finish, past

LEMMA GotoSets ==
    ASSUME TypeInv, NEW r \in Requests, NEW pc, Goto(r, pc)
    PROVE  OthersStay(r) /\ req'[r].pc = pc /\ UNCHANGED emptied
BY DEF OthersStay, Goto, past, TypeInv, RequestsOK, RequestOK, Request

LEMMA BeginSets ==
    ASSUME DOMAIN req = Requests, NEW r \in Requests, NEW q, Begin(r, q)
    PROVE  OthersStay(r) /\ req'[r] = q /\ UNCHANGED emptied
BY DEF OthersStay, Begin

LEMMA FoundSets ==
    ASSUME TypeInv, NEW r \in Requests, NEW u, Found(r, u)
    PROVE  OthersStay(r) /\ req'[r].pc = "suspended"
<1> DEFINE q == [req[r] EXCEPT !.pc = "suspended", !.uid = u, !.version = users[u].version]
<1>1. DOMAIN req = Requests /\ req[r] \in Request
  BY DEF TypeInv, RequestsOK, RequestOK
<1>2. req' = [req EXCEPT ![r] = q]
  BY DEF Found
<1>3. q.pc = "suspended"
  BY <1>1 DEF Request
<1> HIDE DEF q
<1> QED
  BY <1>1, <1>2, <1>3, ReqSet

LEMMA Born ==
    ASSUME RowsOK, FirstInv, ~emptied,
           \/ \E r \in Requests : req[r].pc \notin Unborn
           \/ sessions # {}
           \/ Ids # {}
    PROVE  nextId # 1
<1>1. CASE Ids # {}
  <2>1. PICK u \in Ids : u \in 1..(nextId - 1)
    BY <1>1 DEF RowsOK
  <2> QED
    BY <2>1 DEF RowsOK
<1> QED
  BY <1>1 DEF FirstInv

\* A step of a request that is not a sign-in waiting for the first account.
LEMMA FirstBorn ==
    ASSUME RowsOK, FirstInv, NEW r \in Requests,
           req[r].pc \notin Unborn \/ sessions # {} \/ Ids # {},
           OthersStay(r), req'[r].pc # "insert first",
           UNCHANGED nextId,
           \/ UNCHANGED emptied /\ Ids' = Ids
           \/ emptied' = (emptied \/ Ids' = {})
    PROVE  FirstInv'
<1> SUFFICES ASSUME ~emptied'
             PROVE  /\ Ids' = {} => nextId' = 1
                    /\ nextId' # 1
                    /\ \A t \in Requests : req'[t].pc = "insert first" => nextId' = 1
  BY DEF FirstInv
<1>1. ~emptied
  OBVIOUS
<1>2. nextId # 1
  BY <1>1, Born
<1>3. Ids' # {} \/ Ids' = Ids
  OBVIOUS
<1> QED
  BY <1>1, <1>2, <1>3 DEF FirstInv, OthersStay

\* A step of a sign-in that writes nothing.
LEMMA FirstWaits ==
    ASSUME FirstInv, NEW r \in Requests,
           UNCHANGED <<nextId, sessions, emptied>>, Ids' = Ids, OthersStay(r),
           req'[r].pc \in Unborn, req'[r].pc = "insert first" => Ids = {}
    PROVE  FirstInv'
BY DEF FirstInv, OthersStay

LEMMA InsertCounts ==
    ASSUME RowsOK, NEW row, Insert(row)
    PROVE  nextId' # 1
<1>1. MaxUser \in Nat
  BY MaxUserIsNat
<1>2. nextId \in 1..(MaxUser + 1) /\ nextId' = nextId + 1
  BY DEF RowsOK, Insert
<1>3. 1 =< nextId /\ nextId \in Nat
  BY <1>1, <1>2
<1> QED
  BY <1>2, <1>3

\* An insertion, by the sign-in that holds the lock or while there are accounts.
LEMMA FirstInserts ==
    ASSUME RowsOK, FirstInv, NEW r \in Requests,
           OthersStay(r), req'[r].pc # "insert first",
           NEW row, Insert(row), UNCHANGED emptied,
           \/ \A t \in Requests \ {r} : req[t].pc # "insert first"
           \/ req[r].pc \notin Unborn
    PROVE  FirstInv'
<1> SUFFICES ASSUME ~emptied
             PROVE  /\ Ids' # {}
                    /\ nextId' # 1
                    /\ \A t \in Requests : req'[t].pc # "insert first"
  BY DEF FirstInv
<1>2. nextId \in Ids'
  BY DEF Insert, Ids
<1>3. ASSUME req[r].pc \notin Unborn
      PROVE  \A t \in Requests : req[t].pc # "insert first"
  BY <1>3, Born DEF FirstInv
<1>4. \A t \in Requests : req'[t].pc # "insert first"
  BY <1>3 DEF OthersStay
<1>5. nextId' # 1
  BY InsertCounts
<1> QED
  BY <1>2, <1>4, <1>5

LEMMA UpdateKeepsIds ==
    ASSUME NEW u, NEW row, Update(u, row)
    PROVE  Ids' = Ids
BY DEF Update, Ids

LEMMA EndSessionsKeepsIds ==
    ASSUME NEW u, NEW disabled, EndSessions(u, disabled)
    PROVE  Ids' = Ids
BY UpdateKeepsIds DEF EndSessions, Ids

LEMMA FirstSignIn ==
    ASSUME TypeInv, FirstInv, NEW r \in Requests, SignInNext(r)
    PROVE  FirstInv'
<1> USE DEF Unborn, OthersStay
<1>0. RowsOK /\ DOMAIN req = Requests /\ req[r] \in Request
  BY DEF TypeInv, RequestsOK, RequestOK
<1>1. CASE \E name \in Names : SetupBegin(r, name)
  <2>1. OthersStay(r) /\ req'[r].pc = "lock setup"
                 /\ UNCHANGED <<users, nextId, sessions, emptied>>
    <3>1. PICK name \in Names : SetupBegin(r, name)
      BY <1>1
    <3> DEFINE q == [Idle EXCEPT !.pc = "lock setup", !.name = name, !.role = "admin"]
    <3>2. Begin(r, q) /\ UNCHANGED <<users, nextId, sessions>>
      BY <3>1 DEF SetupBegin
    <3>3. q.pc = "lock setup"
      BY DEF Idle
    <3> HIDE DEF q
    <3> QED
      BY <1>0, <3>2, <3>3, BeginSets
  <2> QED
    BY <1>0, <2>1, FirstWaits DEF Ids
<1>2. CASE \E sub \in Subjects, email \in Names \cup {None} : OidcBegin(r, sub, email)
  <2>1. OthersStay(r) /\ req'[r].pc = "find"
                 /\ UNCHANGED <<users, nextId, sessions, emptied>>
    <3>1. PICK sub \in Subjects, email \in Names \cup {None} : OidcBegin(r, sub, email)
      BY <1>2
    <3> DEFINE q == [Idle EXCEPT !.pc = "find", !.sub = sub, !.name = email]
    <3>2. Begin(r, q) /\ UNCHANGED <<users, nextId, sessions>>
      BY <3>1 DEF OidcBegin
    <3>3. q.pc = "find"
      BY DEF Idle
    <3> HIDE DEF q
    <3> QED
      BY <1>0, <3>2, <3>3, BeginSets
  <2> QED
    BY <1>0, <2>1, FirstWaits DEF Ids
<1>3. CASE Lock(r)
  <2>1. OthersStay(r) /\ req'[r].pc \in {"setup", "find again"}
                 /\ UNCHANGED <<users, nextId, sessions, emptied>>
    BY <1>0, <1>3 DEF Lock, Goto, past, Request
  <2> QED
    BY <1>0, <2>1, FirstWaits DEF Ids
<1>4. CASE SetupCount(r)
  <2>1. /\ Finish(r) \/ (Goto(r, "insert first") /\ Ids = {})
        /\ UNCHANGED <<users, nextId, sessions>>
    BY <1>4 DEF SetupCount
  <2>2. OthersStay(r) /\ (req'[r].pc = "idle" \/ (req'[r].pc = "insert first" /\ Ids = {}))
        /\ UNCHANGED emptied
    BY <1>0, <2>1, FinishSets, GotoSets
  <2>3. req'[r].pc \in Unborn /\ (req'[r].pc = "insert first" => Ids = {})
    BY <2>2
  <2> QED
    BY <1>0, <2>1, <2>2, <2>3, FirstWaits DEF Ids
<1>5. CASE Provision(r)
  <2>1. \A t \in Requests \ {r} : req[t].pc # "insert first"
    <3>1. lock = r
      BY <1>5 DEF Provision, TypeInv, RequestsOK, Locked
    <3> QED
      BY <3>1 DEF TypeInv, RequestsOK, Locked
  <2>2. CASE Taken(req[r].name) \/ (req[r].sub # None /\ Linked(req[r].sub) # {})
    <3>0. UNCHANGED <<users, nextId, sessions, emptied>>
      BY <1>5, <2>2 DEF Provision, past
    <3>1. OthersStay(r) /\ req'[r].pc \in {"idle", "suspended"}
      <4>1. \/ \E u \in Linked(req[r].sub) : Found(r, u)
            \/ req' = [req EXCEPT ![r] = Idle]
        BY <1>5, <2>2 DEF Provision, Found
      <4> QED
        BY <1>0, <4>1, FoundSets, ReqSet, IdleOK
    <3>2. Ids # {}
      BY <2>2 DEF Taken, Linked
    <3> QED
      BY <1>0, <3>0, <3>1, <3>2, FirstBorn DEF Ids
  <2>3. CASE ~(Taken(req[r].name) \/ (req[r].sub # None /\ Linked(req[r].sub) # {}))
    <3> DEFINE row == NewRow(req[r].name, req[r].role, req[r].sub)
    <3>1. Insert(row) /\ UNCHANGED emptied
      BY <1>5, <2>3 DEF Provision, past
    <3>2. OthersStay(r) /\ req'[r].pc \in {"issue", "suspended"}
      <4> DEFINE pc == IF req[r].sub = None THEN "issue" ELSE "suspended"
                 q == [req[r] EXCEPT !.pc = pc, !.uid = nextId, !.version = 0]
      <4>1. req' = [req EXCEPT ![r] = q]
        BY <1>5, <2>3 DEF Provision
      <4>2. q.pc \in {"issue", "suspended"}
        BY <1>0 DEF Request
      <4> QED
        BY <1>0, <4>1, <4>2, ReqSet
    <3> HIDE DEF row
    <3> QED
      BY <1>0, <2>1, <3>1, <3>2, FirstInserts
  <2> QED
    BY <2>2, <2>3
<1>6. CASE IssueNext(r) \/ OidcEnd(r)
  <2>1. Finish(r) /\ UNCHANGED <<users, nextId>> /\ req[r].pc \notin Unborn
    BY <1>6 DEF IssueNext, OidcEnd
  <2>2. OthersStay(r) /\ req'[r].pc = "idle" /\ UNCHANGED emptied
    BY <1>0, <2>1, FinishSets
  <2> QED
    BY <1>0, <2>1, <2>2, FirstBorn DEF Ids
<1>7. CASE OidcFind(r)
  <2>1. UNCHANGED <<users, nextId, sessions, emptied>>
    BY <1>7 DEF OidcFind, past
  <2>2. CASE Linked(req[r].sub) # {}
    <3>1. OthersStay(r) /\ req'[r].pc = "suspended"
      BY <1>7, <2>2, FoundSets DEF OidcFind
    <3>2. Ids # {}
      BY <2>2 DEF Linked
    <3> QED
      BY <1>0, <2>1, <3>1, <3>2, FirstBorn DEF Ids
  <2>3. CASE Linked(req[r].sub) = {}
    <3>1. OthersStay(r) /\ req'[r].pc \in {"lock oidc", "match"}
      <4> DEFINE q == [req[r] EXCEPT !.pc = IF req[r].name = None THEN "lock oidc" ELSE "match"]
      <4>1. req' = [req EXCEPT ![r] = q]
        BY <1>7, <2>3 DEF OidcFind
      <4>2. q.pc \in {"lock oidc", "match"}
        BY <1>0 DEF Request
      <4> HIDE DEF q
      <4> QED
        BY <1>0, <4>1, <4>2, ReqSet
    <3> QED
      BY <1>0, <2>1, <3>1, FirstWaits DEF Ids
  <2> QED
    BY <2>2, <2>3
<1>8. CASE OidcMatch(r)
  <2>1. UNCHANGED <<users, nextId, sessions, emptied>>
    BY <1>8 DEF OidcMatch, past
  <2> DEFINE match == {u \in Ids : users[u].name = req[r].name /\ users[u].sub = None}
  <2>2. CASE match # {}
    <3>1. OthersStay(r) /\ req'[r].pc = "link"
      <4>1. PICK u \in match : req' = [req EXCEPT ![r].pc = "link", ![r].uid = u,
                                                  ![r].version = users[u].version]
        BY <1>8, <2>2 DEF OidcMatch
      <4> DEFINE q == [req[r] EXCEPT !.pc = "link", !.uid = u, !.version = users[u].version]
      <4>2. req' = [req EXCEPT ![r] = q]
        BY <4>1
      <4>3. q.pc = "link"
        BY <1>0 DEF Request
      <4> HIDE DEF q
      <4> QED
        BY <1>0, <4>2, <4>3, ReqSet
    <3> QED
      BY <1>0, <2>1, <2>2, <3>1, FirstBorn DEF Ids
  <2>3. CASE match = {}
    <3>1. OthersStay(r) /\ req'[r].pc = "lock oidc"
      <4> DEFINE q == [req[r] EXCEPT !.pc = "lock oidc"]
      <4>1. req' = [req EXCEPT ![r] = q]
        BY <1>8, <2>3 DEF OidcMatch
      <4>2. q.pc = "lock oidc"
        BY <1>0 DEF Request
      <4> HIDE DEF q
      <4> QED
        BY <1>0, <4>1, <4>2, ReqSet
    <3> QED
      BY <1>0, <2>1, <3>1, FirstWaits DEF Ids
  <2> QED
    BY <2>2, <2>3
<1>9. CASE OidcLink(r)
  <2>1. OthersStay(r) /\ req'[r].pc = "suspended"
    BY <1>0, <1>9 DEF OidcLink, Goto, Request
  <2>2. UNCHANGED <<nextId, emptied>> /\ req[r].pc \notin Unborn
    BY <1>9 DEF OidcLink, Goto, past
  <2>3. Ids' = Ids
    BY <1>9, UpdateKeepsIds DEF OidcLink, Ids
  <2> QED
    BY <1>0, <2>1, <2>2, <2>3, FirstBorn
<1>10. CASE OidcFindAgain(r)
  <2>1. UNCHANGED <<users, nextId, sessions, emptied>>
    BY <1>10 DEF OidcFindAgain, past
  <2>2. CASE Linked(req[r].sub) # {}
    <3>1. OthersStay(r) /\ req'[r].pc = "suspended"
      BY <1>10, <2>2, FoundSets DEF OidcFindAgain
    <3>2. Ids # {}
      BY <2>2 DEF Linked
    <3> QED
      BY <1>0, <2>1, <3>1, <3>2, FirstBorn DEF Ids
  <2>3. CASE Linked(req[r].sub) = {}
    <3> DEFINE pc == IF Ids = {} THEN "insert first" ELSE "insert"
               role == IF Ids = {} \/ req[r].name \in AdminEmails THEN "admin" ELSE "user"
               name == IF Taken(req[r].name) THEN None ELSE req[r].name
               q == [req[r] EXCEPT !.pc = pc, !.role = role, !.name = name]
    <3>1. req' = [req EXCEPT ![r] = q]
      BY <1>0, <1>10, <2>3 DEF OidcFindAgain, Request
    <3>2. q.pc = pc
      BY <1>0 DEF Request
    <3> HIDE DEF q
    <3>5. OthersStay(r) /\ req'[r].pc = pc
      BY <1>0, <3>1, <3>2
    <3>3. CASE Ids = {}
      BY <1>0, <2>1, <3>5, <3>3, FirstWaits DEF Ids
    <3>4. CASE Ids # {}
      BY <1>0, <2>1, <3>5, <3>4, FirstBorn DEF Ids
    <3> QED
      BY <3>3, <3>4
  <2> QED
    BY <2>2, <2>3
<1> QED
  BY <1>1, <1>2, <1>3, <1>4, <1>5, <1>6, <1>7, <1>8, <1>9, <1>10 DEF SignInNext

LEMMA FirstAccount ==
    ASSUME TypeInv, FirstInv, NEW r \in Requests, AccountNext(r)
    PROVE  FirstInv'
<1> USE DEF Unborn, OthersStay
<1>0. RowsOK /\ DOMAIN req = Requests /\ req[r] \in Request
  BY DEF TypeInv, RequestsOK, RequestOK
<1>1. CASE \E s \in sessions : \/ LogoutAllBegin(r, s) \/ PasswordBegin(r, s)
                               \/ \E u \in Ids : DeleteBegin(r, s, u)
  <2>1. OthersStay(r) /\ req'[r].pc \in {"logout all", "password", "role"}
    <3>1. ASSUME NEW s \in sessions, LogoutAllBegin(r, s)
          PROVE  OthersStay(r) /\ req'[r].pc = "logout all"
      <4> DEFINE q == [Idle EXCEPT !.pc = "logout all", !.me = s.uid]
      <4>1. Begin(r, q)
        BY <3>1 DEF LogoutAllBegin
      <4>2. q.pc = "logout all"
        BY DEF Idle
      <4> HIDE DEF q
      <4> QED
        BY <1>0, <4>1, <4>2, BeginSets
    <3>2. ASSUME NEW s \in sessions, PasswordBegin(r, s)
          PROVE  OthersStay(r) /\ req'[r].pc = "password"
      <4> DEFINE q == [Idle EXCEPT !.pc = "password", !.me = s.uid, !.version = s.version]
      <4>1. Begin(r, q)
        BY <3>2 DEF PasswordBegin
      <4>2. q.pc = "password"
        BY DEF Idle
      <4> HIDE DEF q
      <4> QED
        BY <1>0, <4>1, <4>2, BeginSets
    <3>3. ASSUME NEW s \in sessions, NEW u \in Ids, DeleteBegin(r, s, u)
          PROVE  OthersStay(r) /\ req'[r].pc = "role"
      <4> DEFINE q == [Idle EXCEPT !.pc = "role", !.uid = u]
      <4>1. Begin(r, q)
        BY <3>3 DEF DeleteBegin
      <4>2. q.pc = "role"
        BY DEF Idle
      <4> HIDE DEF q
      <4> QED
        BY <1>0, <4>1, <4>2, BeginSets
    <3> QED
      BY <1>1, <3>1, <3>2, <3>3
  <2>2. UNCHANGED <<users, nextId, emptied>> /\ sessions # {}
    BY <1>1 DEF LogoutAllBegin, PasswordBegin, DeleteBegin, Begin
  <2> QED
    BY <1>0, <2>1, <2>2, FirstBorn DEF Ids
<1>2. CASE LogoutAll(r) \/ PasswordChange(r) \/ Reissue(r)
  <2>1. OthersStay(r) /\ req'[r].pc \in {"idle", "reissue"}
    BY <1>0, <1>2, FinishSets, GotoSets DEF LogoutAll, PasswordChange, Reissue
  <2>2. UNCHANGED <<nextId, emptied>> /\ req[r].pc \notin Unborn
    BY <1>2 DEF LogoutAll, PasswordChange, Reissue, Goto, Finish, past
  <2>3. Ids' = Ids
    BY <1>2, EndSessionsKeepsIds DEF LogoutAll, PasswordChange, Reissue, Ids
  <2> QED
    BY <1>0, <2>1, <2>2, <2>3, FirstBorn
<1>3. CASE DeleteRole(r) \/ DeleteCount(r)
  <2>1. OthersStay(r) /\ req'[r].pc \in {"idle", "count", "delete"}
    <3>1. Finish(r) \/ Goto(r, "count") \/ Goto(r, "delete")
      BY <1>3 DEF DeleteRole, DeleteCount
    <3> QED
      BY <1>0, <3>1, FinishSets, GotoSets
  <2>2. UNCHANGED <<users, nextId, emptied>> /\ req[r].pc \notin Unborn
    BY <1>3 DEF DeleteRole, DeleteCount, Goto, Finish, past
  <2> QED
    BY <1>0, <2>1, <2>2, FirstBorn DEF Ids
<1>4. CASE Delete(r)
  <2>1. OthersStay(r) /\ req'[r].pc = "idle"
    BY <1>0, <1>4, ReqSet, IdleOK DEF Delete
  <2>2. UNCHANGED nextId /\ emptied' = (emptied \/ Ids' = {}) /\ req[r].pc \notin Unborn
    BY <1>4 DEF Delete
  <2> QED
    BY <1>0, <2>1, <2>2, FirstBorn
<1> QED
  BY <1>1, <1>2, <1>3, <1>4 DEF AccountNext

\* An update that goes on is at one of its statements, or done.
LEMMA AheadPc ==
    ASSUME NEW q \in Request, NEW i \in Nat
    PROVE  Ahead(q, i).pc \in {"idle", "demote", "disable", "reset", "set role", "set flag"}
<1>1. CASE Ahead(q, i) = Idle
  BY <1>1 DEF Idle
<1>2. CASE \E j \in 1..5 : Needed(q, Checks[j]) /\ Ahead(q, i) = [q EXCEPT !.pc = Checks[j]]
  <2>1. PICK j \in 1..5 : Ahead(q, i) = [q EXCEPT !.pc = Checks[j]]
    BY <1>2
  <2> QED
    BY <2>1, ChecksAre DEF Request
<1> QED
  BY <1>1, <1>2, AheadOK

LEMMA FirstAdmin ==
    ASSUME TypeInv, FirstInv, NEW r \in Requests, AdminNext(r)
    PROVE  FirstInv'
<1> USE DEF Unborn, OthersStay
<1>0. RowsOK /\ DOMAIN req = Requests /\ req[r] \in Request
  BY DEF TypeInv, RequestsOK, RequestOK
<1>1. CASE \E s \in sessions :
              \/ \E name \in Names, role \in {"admin", "user"} : CreateBegin(r, s, name, role)
              \/ \E u \in Ids, patch \in Patches : UpdateBegin(r, s, u, patch)
  <2>1. OthersStay(r) /\ req'[r].pc \in {"create", "read"}
    <3>1. ASSUME NEW s \in sessions, NEW name \in Names, NEW role \in {"admin", "user"}, CreateBegin(r, s, name, role)
          PROVE  OthersStay(r) /\ req'[r].pc = "create"
      <4> DEFINE q == [Idle EXCEPT !.pc = "create", !.name = name, !.role = role]
      <4>1. Begin(r, q)
        BY <3>1 DEF CreateBegin
      <4>2. q.pc = "create"
        BY DEF Idle
      <4> HIDE DEF q
      <4> QED
        BY <1>0, <4>1, <4>2, BeginSets
    <3>2. ASSUME NEW s \in sessions, NEW u \in Ids, NEW patch \in Patches, UpdateBegin(r, s, u, patch)
          PROVE  OthersStay(r) /\ req'[r].pc = "read"
      <4> DEFINE q == [Idle EXCEPT !.pc = "read", !.me = s.uid, !.uid = u, !.role = patch.role,
                              !.flag = patch.flag, !.reset = patch.reset]
      <4>1. Begin(r, q)
        BY <3>2 DEF UpdateBegin
      <4>2. q.pc = "read"
        BY DEF Idle
      <4> HIDE DEF q
      <4> QED
        BY <1>0, <4>1, <4>2, BeginSets
    <3> QED
      BY <1>1, <3>1, <3>2
  <2>2. UNCHANGED <<users, nextId, emptied>> /\ sessions # {}
    BY <1>1 DEF CreateBegin, UpdateBegin, Begin
  <2> QED
    BY <1>0, <2>1, <2>2, FirstBorn DEF Ids
<1>2. CASE Create(r)
  <2>1. OthersStay(r) /\ req'[r].pc = "idle" /\ UNCHANGED emptied
        /\ req[r].pc \notin Unborn
    BY <1>0, <1>2, FinishSets DEF Create
  <2>4. req'[r].pc # "insert first"
    BY <2>1
  <2>2. CASE Taken(req[r].name)
    <3>1. UNCHANGED <<users, nextId>>
      BY <1>2, <2>2 DEF Create
    <3> QED
      BY <1>0, <2>1, <3>1, FirstBorn DEF Ids
  <2>3. CASE ~Taken(req[r].name)
    <3> DEFINE row == NewRow(req[r].name, req[r].role, None)
    <3>1. Insert(row)
      BY <1>2, <2>3 DEF Create
    <3> HIDE DEF row
    <3> QED
      BY <1>0, <2>1, <2>4, <3>1, FirstInserts
  <2> QED
    BY <2>2, <2>3
<1>3. CASE UpdateRead(r)
  <2>1. OthersStay(r) /\ req'[r].pc # "insert first"
    <3>1. CASE req[r].uid \in Ids
      <4> DEFINE row == users[req[r].uid]
                 q == [req[r] EXCEPT !.row = [role |-> row.role, disabled |-> row.disabled]]
      <4>1. req' = [req EXCEPT ![r] = Ahead(q, 0)]
        BY <1>3, <3>1 DEF UpdateRead
      <4>2. row.role \in {"admin", "user"} /\ row.disabled \in BOOLEAN
        BY <3>1, RowFields
      <4>3. q \in Request
        BY <1>0, <4>2 DEF Request
      <4> HIDE DEF q
      <4> QED
        BY <1>0, <4>1, <4>3, AheadPc, ReqSet
    <3>2. CASE req[r].uid \notin Ids
      BY <1>0, <1>3, <3>2, ReqSet, IdleOK DEF UpdateRead
    <3> QED
      BY <3>1, <3>2
  <2>2. UNCHANGED <<users, nextId, emptied>> /\ req[r].pc \notin Unborn
    BY <1>3 DEF UpdateRead, past
  <2> QED
    BY <1>0, <2>1, <2>2, FirstBorn DEF Ids
<1>4. CASE UpdateDemote(r) \/ UpdateDisable(r) \/ UpdateReset(r) \/ UpdateRole(r) \/ UpdateFlag(r)
  <2>1. Finish(r) \/ \E i \in 1..4 : Proceed(r, i)
    <3>1. 1 \in 1..4 /\ 2 \in 1..4 /\ 3 \in 1..4 /\ 4 \in 1..4
      OBVIOUS
    <3> QED
      BY <1>4, <3>1 DEF UpdateDemote, UpdateDisable, UpdateReset, UpdateRole, UpdateFlag
  <2>2. OthersStay(r) /\ req'[r].pc # "insert first"
    <3>1. CASE Finish(r)
      BY <1>0, <3>1, FinishSets
    <3>2. CASE \E i \in 1..4 : Proceed(r, i)
      <4>1. PICK i \in 1..4 : Proceed(r, i)
        BY <3>2
      <4>2. req' = [req EXCEPT ![r] = Ahead(req[r], i)] /\ i \in Nat
        BY <4>1 DEF Proceed
      <4> QED
        BY <1>0, <4>2, AheadPc, ReqSet
    <3> QED
      BY <2>1, <3>1, <3>2
  <2>3. UNCHANGED emptied
    BY <2>1 DEF Finish, Proceed, past
  <2>4. UNCHANGED nextId /\ req[r].pc \notin Unborn
    BY <1>4 DEF UpdateDemote, UpdateDisable, UpdateReset, UpdateRole, UpdateFlag
  <2>5. Ids' = Ids
    BY <1>4, UpdateKeepsIds, EndSessionsKeepsIds
       DEF UpdateDemote, UpdateDisable, UpdateReset, UpdateRole, UpdateFlag, Ids
  <2> QED
    BY <1>0, <2>2, <2>3, <2>4, <2>5, FirstBorn
<1> QED
  BY <1>1, <1>2, <1>3, <1>4 DEF AdminNext

LEMMA FirstNext == TypeInv /\ FirstInv /\ [Next]_vars => FirstInv'
<1> SUFFICES ASSUME TypeInv, FirstInv, [Next]_vars PROVE FirstInv'
  OBVIOUS
<1>1. CASE UNCHANGED vars
  BY <1>1 DEF FirstInv, vars, past, Ids
<1>2. CASE \E u \in Ids : Login(u)
  <2>1. UNCHANGED <<users, nextId, req, emptied>> /\ Ids # {}
    BY <1>2 DEF Login, past
  <2>2. ~emptied => nextId # 1
    BY <2>1, Born DEF TypeInv
  <2> QED
    BY <2>1, <2>2 DEF FirstInv, Ids
<1>3. CASE \E r \in Requests : SignInNext(r) \/ AccountNext(r) \/ AdminNext(r)
  BY <1>3, FirstSignIn, FirstAccount, FirstAdmin
<1> QED
  BY <1>1, <1>2, <1>3 DEF Next

LEMMA FirstInit == Init => FirstInv
<1> SUFFICES ASSUME Init PROVE FirstInv
  OBVIOUS
<1>1. \A r \in Requests : req[r].pc = "idle"
  BY DEF Init, Idle
<1> QED
  BY <1>1 DEF Init, FirstInv, Unborn

\* Whatever sign-ins overlap, the one that inserts the first administrator inserts the
\* first user: setup and _provision count and insert under the lock (auth.py, oidc.py).
THEOREM FirstAdministrator == Spec => []FirstAdminIsFirst
<1>1. Init => TypeInv /\ FirstInv
  BY InitTypes, FirstInit
<1>2. TypeInv /\ FirstInv /\ [Next]_vars => (TypeInv /\ FirstInv)'
  BY NextTypes, FirstNext
<1>3. TypeInv /\ FirstInv => FirstAdminIsFirst
  <2> SUFFICES ASSUME TypeInv, FirstInv, ~emptied,
                      NEW r \in Requests, req[r].pc = "insert first"
               PROVE  Ids = {}
    BY DEF FirstAdminIsFirst
  <2>1. nextId = 1
    BY DEF FirstInv
  <2> QED
    BY <2>1, Born DEF TypeInv
<1> QED
  BY <1>1, <1>2, <1>3, PTL DEF Spec
-----------------------------------------------------------------------------
(***************************************************************************)
(* Requests that come one at a time.  What a request has checked or read   *)
(* still holds when it acts: an administrator other than the one it        *)
(* deletes or demotes, and the version and standing of the account it      *)
(* gives a cookie to.                                                      *)
(***************************************************************************)
AdminsOf(rows) == {u \in DOMAIN rows : rows[u].role = "admin"}

Spare(u, rows) == \E v \in AdminsOf(rows) : v # u

\* What a request may rely on, with these rows.
Safe(q, rows) ==
    /\ q.pc \in {"lock setup", "setup", "insert first"} => q.role = "admin"
    /\ q.pc \in {"insert", "create"} => AdminsOf(rows) # {}
    /\ q.pc = "delete" => Spare(q.uid, rows)
    /\ q.pc \in {"disable", "reset", "set role"} /\ q.role = "user" /\ q.row.role = "admin"
          => Spare(q.uid, rows)
    /\ q.pc = "set role" => q.role # q.row.role
    /\ q.pc \in {"link", "suspended", "issue"}
          => q.uid \in DOMAIN rows /\ rows[q.uid].version = q.version
    /\ q.pc = "issue" => ~rows[q.uid].disabled
    /\ q.pc \in {"password", "reissue"} /\ q.me \in DOMAIN rows => ~rows[q.me].disabled

AloneInv ==
    ~overlapped =>
        /\ \A r, t \in Requests : req[r].pc # "idle" /\ req[t].pc # "idle" => r = t
        /\ Ids # {} => AdminsOf(users) # {}
        /\ \A r \in Requests : Safe(req[r], users)

Harmless == {"idle", "lock oidc", "find", "match", "find again", "logout all", "role", "count",
             "read", "demote", "set flag"}

LEMMA HarmlessSafe ==
    ASSUME NEW q, NEW rows, q.pc \in Harmless
    PROVE  Safe(q, rows)
BY DEF Harmless, Safe

\* The other requests are idle, so only what this one relies on must be looked at.
LEMMA AloneStep ==
    ASSUME AloneInv, DOMAIN req = Requests, NEW r \in Requests,
           NEW q, req' = [req EXCEPT ![r] = q],
           \/ req[r].pc # "idle" /\ UNCHANGED overlapped
           \/ overlapped' = (overlapped \/ \E s \in Requests : req[s].pc # "idle"),
           ~overlapped' => (Ids' # {} => AdminsOf(users') # {}) /\ Safe(q, users')
    PROVE  AloneInv'
<1> SUFFICES ASSUME ~overlapped'
             PROVE  /\ \A s, t \in Requests : req'[s].pc # "idle" /\ req'[t].pc # "idle" => s = t
                    /\ Ids' # {} => AdminsOf(users') # {}
                    /\ \A t \in Requests : Safe(req'[t], users')
  BY DEF AloneInv
<1>1. \A t \in Requests \ {r} : req[t].pc = "idle"
  BY DEF AloneInv
<1>2. \A t \in Requests \ {r} : req'[t] = req[t] /\ req'[t].pc \in Harmless
  BY <1>1 DEF Harmless
<1>3. req'[r] = q
  OBVIOUS
<1>4. \A t \in Requests : Safe(req'[t], users')
  BY <1>2, <1>3, HarmlessSafe
<1> QED
  BY <1>1, <1>2, <1>4

\* A step that leaves the rows alone.
LEMMA AloneQuiet ==
    ASSUME AloneInv, DOMAIN req = Requests, NEW r \in Requests,
           NEW q, req' = [req EXCEPT ![r] = q], UNCHANGED users,
           \/ req[r].pc # "idle" /\ UNCHANGED overlapped
           \/ overlapped' = (overlapped \/ \E s \in Requests : req[s].pc # "idle"),
           q.pc \in Harmless \/ (~overlapped => Safe(q, users))
    PROVE  AloneInv'
<1>1. ~overlapped' => ~overlapped
  OBVIOUS
<1>2. Safe(q, users') = Safe(q, users) /\ AdminsOf(users') = AdminsOf(users) /\ Ids' = Ids
  BY DEF Ids
<1>3. ~overlapped' => Safe(q, users')
  BY <1>1, <1>2, HarmlessSafe
<1>4. ~overlapped' => (Ids' # {} => AdminsOf(users') # {})
  BY <1>1, <1>2 DEF AloneInv
<1> QED
  BY <1>3, <1>4, AloneStep

LEMMA SafeNow ==
    ASSUME AloneInv, ~overlapped, NEW r \in Requests
    PROVE  Safe(req[r], users) /\ (Ids # {} => AdminsOf(users) # {})
BY DEF AloneInv

\* Two administrators: one is not the one at hand.
LEMMA TwoAdmins ==
    ASSUME RowsOK, ~(Cardinality(Admins) =< 1), NEW u
    PROVE  Spare(u, users)
<1> SUFFICES ASSUME ~Spare(u, users) PROVE FALSE
  OBVIOUS
<1>1. Admins \subseteq {u}
  BY DEF Spare, AdminsOf, Admins, Ids
<1>2. IsFiniteSet({u}) /\ Cardinality({u}) = 1
  BY FS_Singleton
<1>3. Cardinality(Admins) =< Cardinality({u})
  BY <1>1, <1>2, FS_Subset
<1> QED
  BY <1>2, <1>3

\* A row written in its place: the other administrators stay.
LEMMA UpdateAdmins ==
    ASSUME NEW u \in Ids, NEW row, Update(u, row)
    PROVE  /\ Ids' = Ids /\ users'[u] = row
           /\ \A v \in Ids \ {u} : users'[v] = users[v]
           /\ AdminsOf(users) \ {u} \subseteq AdminsOf(users')
           /\ row.role = users[u].role => AdminsOf(users') = AdminsOf(users)
           /\ row.role = "admin" => u \in AdminsOf(users')
BY DEF Update, Ids, AdminsOf

\* A reset, a suspension or a logout everywhere changes no role.
LEMMA EndSessionsAdmins ==
    ASSUME RowsOK, NEW u, NEW disabled \in BOOLEAN, EndSessions(u, disabled)
    PROVE  /\ Ids' = Ids /\ AdminsOf(users') = AdminsOf(users)
           /\ u \in Ids => users'[u].disabled = disabled
<1>1. CASE u \in Ids
  <2> DEFINE row == [users[u] EXCEPT !.disabled = disabled, !.version = @ + 1, !.ends = @ + 1]
  <2>1. Update(u, row)
    BY <1>1 DEF EndSessions
  <2>2. row.role = users[u].role /\ row.disabled = disabled
    BY <1>1 DEF RowsOK, Row
  <2> HIDE DEF row
  <2> QED
    BY <1>1, <2>1, <2>2, UpdateAdmins
<1>2. CASE u \notin Ids
  BY <1>2 DEF EndSessions, Ids
<1> QED
  BY <1>1, <1>2

LEMMA InsertAdmins ==
    ASSUME RowsOK, NEW row, Insert(row)
    PROVE  /\ AdminsOf(users) \subseteq AdminsOf(users')
           /\ nextId \in Ids' /\ users'[nextId] = row
           /\ row.role = "admin" => nextId \in AdminsOf(users')
<1>1. nextId \notin Ids
  BY RowFields, MaxUserIsNat DEF RowsOK
<1> QED
  BY <1>1 DEF Insert, AdminsOf, Ids

LEMMA AloneBegin ==
    ASSUME AloneInv, TypeInv, NEW r \in Requests, NEW q, Begin(r, q), UNCHANGED users,
           q.pc \in Harmless \/ (~overlapped => Safe(q, users))
    PROVE  AloneInv'
<1>1. DOMAIN req = Requests
  BY DEF TypeInv, RequestsOK
<1>2. /\ req' = [req EXCEPT ![r] = q]
      /\ overlapped' = (overlapped \/ \E s \in Requests : req[s].pc # "idle")
  BY DEF Begin
<1> QED
  BY <1>1, <1>2, AloneQuiet

LEMMA AloneGoto ==
    ASSUME AloneInv, TypeInv, NEW r \in Requests, NEW pc, Goto(r, pc), UNCHANGED users,
           req[r].pc # "idle",
           pc \in Harmless \/ (~overlapped => Safe([req[r] EXCEPT !.pc = pc], users))
    PROVE  AloneInv'
<1> DEFINE q == [req[r] EXCEPT !.pc = pc]
<1>1. DOMAIN req = Requests
  BY DEF TypeInv, RequestsOK
<1>2. req' = [req EXCEPT ![r] = q] /\ UNCHANGED overlapped
  BY DEF Goto, past
<1>3. q.pc = pc
  BY DEF TypeInv, RequestsOK, RequestOK, Request
<1>4. q.pc \in Harmless \/ (~overlapped => Safe(q, users))
  BY <1>3
<1> HIDE DEF q
<1> QED
  BY <1>1, <1>2, <1>4, AloneQuiet

LEMMA AloneFinish ==
    ASSUME AloneInv, TypeInv, NEW r \in Requests, Finish(r), req[r].pc # "idle",
           ~overlapped => (Ids' # {} => AdminsOf(users') # {})
    PROVE  AloneInv'
<1>0. Idle.pc \in Harmless
  BY IdleOK DEF Harmless
<1>1. DOMAIN req = Requests /\ Safe(Idle, users')
  BY <1>0, HarmlessSafe DEF TypeInv, RequestsOK
<1>2. req' = [req EXCEPT ![r] = Idle] /\ UNCHANGED overlapped
  BY DEF Finish, past
<1> QED
  BY <1>1, <1>2, AloneStep

LEMMA AloneFinishQuiet ==
    ASSUME AloneInv, TypeInv, NEW r \in Requests, Finish(r), req[r].pc # "idle", UNCHANGED users
    PROVE  AloneInv'
BY AloneFinish DEF AloneInv, Ids

\* A row found is the row a cookie will be made from.
LEMMA AloneFound ==
    ASSUME AloneInv, TypeInv, NEW r \in Requests, NEW u \in Ids,
           NEW pc \in {"suspended", "link"},
           req' = [req EXCEPT ![r] = [req[r] EXCEPT !.pc = pc, !.uid = u,
                                                    !.version = users[u].version]],
           req[r].pc # "idle", UNCHANGED <<users, overlapped>>
    PROVE  AloneInv'
<1> DEFINE q == [req[r] EXCEPT !.pc = pc, !.uid = u, !.version = users[u].version]
<1>1. DOMAIN req = Requests
  BY DEF TypeInv, RequestsOK
<1>2. q.pc = pc /\ q.uid = u /\ q.version = users[u].version
  BY DEF TypeInv, RequestsOK, RequestOK, Request
<1>3. req' = [req EXCEPT ![r] = q]
  OBVIOUS
<1> HIDE DEF q
<1>4. Safe(q, users)
  BY <1>2 DEF Safe, Ids
<1> QED
  BY <1>1, <1>3, <1>4, AloneQuiet

LEMMA AloneSignIn ==
    ASSUME TypeInv, AloneInv, NEW r \in Requests, SignInNext(r)
    PROVE  AloneInv'
<1>0. RowsOK /\ DOMAIN req = Requests /\ req[r] \in Request
  BY DEF TypeInv, RequestsOK, RequestOK
<1>1. ASSUME NEW name \in Names, SetupBegin(r, name) PROVE AloneInv'
  <2> DEFINE q == [Idle EXCEPT !.pc = "lock setup", !.name = name, !.role = "admin"]
  <2>1. Begin(r, q) /\ UNCHANGED users
    BY <1>1 DEF SetupBegin
  <2>2. q.pc = "lock setup" /\ q.role = "admin"
    BY DEF Idle
  <2> HIDE DEF q
  <2>3. Safe(q, users)
    BY <2>2 DEF Safe
  <2> QED
    BY <2>1, <2>3, AloneBegin
<1>2. ASSUME NEW sub \in Subjects, NEW email \in Names \cup {None}, OidcBegin(r, sub, email)
      PROVE  AloneInv'
  <2> DEFINE q == [Idle EXCEPT !.pc = "find", !.sub = sub, !.name = email]
  <2>1. Begin(r, q) /\ UNCHANGED users
    BY <1>2 DEF OidcBegin
  <2>2. q.pc \in Harmless
    BY DEF Idle, Harmless
  <2> HIDE DEF q
  <2> QED
    BY <2>1, <2>2, AloneBegin
<1>3. CASE Lock(r)
  <2>1. UNCHANGED users /\ req[r].pc # "idle"
    BY <1>3 DEF Lock
  <2>2. CASE req[r].pc = "lock setup"
    <3> DEFINE q == [req[r] EXCEPT !.pc = "setup"]
    <3>1. Goto(r, "setup")
      BY <1>3, <2>2 DEF Lock
    <3>2. q.pc = "setup" /\ q.role = req[r].role
      BY <1>0 DEF Request
    <3>3. ~overlapped => req[r].role = "admin"
      BY <2>2, SafeNow DEF Safe
    <3>4. ~overlapped => Safe(q, users)
      BY <3>2, <3>3 DEF Safe
    <3> QED
      BY <2>1, <3>1, <3>4, AloneGoto
  <2>3. CASE req[r].pc = "lock oidc"
    <3>1. Goto(r, "find again") /\ "find again" \in Harmless
      BY <1>3, <2>3 DEF Lock, Harmless
    <3> QED
      BY <2>1, <3>1, AloneGoto
  <2> QED
    BY <1>3, <2>2, <2>3 DEF Lock
<1>4. CASE SetupCount(r)
  <2>1. UNCHANGED users /\ req[r].pc = "setup" /\ (Finish(r) \/ Goto(r, "insert first"))
    BY <1>4 DEF SetupCount
  <2>2. CASE Finish(r)
    BY <2>1, <2>2, AloneFinishQuiet
  <2>3. CASE Goto(r, "insert first")
    <3> DEFINE q == [req[r] EXCEPT !.pc = "insert first"]
    <3>1. q.pc = "insert first" /\ q.role = req[r].role
      BY <1>0 DEF Request
    <3>2. ~overlapped => req[r].role = "admin"
      BY <2>1, SafeNow DEF Safe
    <3>3. ~overlapped => Safe(q, users)
      BY <3>1, <3>2 DEF Safe
    <3>4. req[r].pc # "idle"
      BY <2>1
    <3> QED
      BY <2>1, <2>3, <3>3, <3>4, AloneGoto
  <2> QED
    BY <2>1, <2>2, <2>3
<1>5. CASE Provision(r)
  <2>0. req[r].pc \in {"insert first", "insert"} /\ req[r].pc # "idle" /\ UNCHANGED overlapped
    BY <1>5 DEF Provision, past
  <2>1. CASE req[r].sub # None /\ Linked(req[r].sub) # {}
    <3>1. PICK u \in Ids :
            req' = [req EXCEPT ![r] = [req[r] EXCEPT !.pc = "suspended", !.uid = u,
                                                     !.version = users[u].version]]
      BY <1>5, <2>1 DEF Provision, Linked
    <3>2. UNCHANGED users
      BY <1>5, <2>1 DEF Provision
    <3> QED
      BY <2>0, <3>1, <3>2, AloneFound
  <2>2. CASE Taken(req[r].name) /\ ~(req[r].sub # None /\ Linked(req[r].sub) # {})
    <3>1. Finish(r) /\ UNCHANGED users
      BY <1>5, <2>2 DEF Provision, Finish
    <3> QED
      BY <2>0, <3>1, AloneFinishQuiet
  <2>3. CASE ~(Taken(req[r].name) \/ (req[r].sub # None /\ Linked(req[r].sub) # {}))
    <3> DEFINE pc == IF req[r].sub = None THEN "issue" ELSE "suspended"
               q == [req[r] EXCEPT !.pc = pc, !.uid = nextId, !.version = 0]
               row == NewRow(req[r].name, req[r].role, req[r].sub)
    <3>1. Insert(row) /\ req' = [req EXCEPT ![r] = q]
      BY <1>5, <2>3 DEF Provision
    <3>2. row.role = req[r].role /\ row.version = 0 /\ row.disabled = FALSE
      BY DEF NewRow
    <3>3. q.pc \in {"issue", "suspended"} /\ q.uid = nextId /\ q.version = 0
      BY <1>0 DEF Request
    <3> HIDE DEF q, row
    <3>4. /\ AdminsOf(users) \subseteq AdminsOf(users')
          /\ nextId \in Ids' /\ users'[nextId] = row
          /\ row.role = "admin" => nextId \in AdminsOf(users')
      BY <1>0, <3>1, InsertAdmins
    <3>5. Safe(q, users')
      BY <3>2, <3>3, <3>4 DEF Safe, Ids
    <3>6. ~overlapped => AdminsOf(users') # {}
      <4>1. CASE req[r].pc = "insert first"
        <5>1. ~overlapped => req[r].role = "admin"
          BY <4>1, SafeNow DEF Safe
        <5> QED
          BY <3>2, <3>4, <5>1
      <4>2. CASE req[r].pc = "insert"
        <5>1. ~overlapped => AdminsOf(users) # {}
          BY <4>2, SafeNow DEF Safe
        <5> QED
          BY <3>4, <5>1
      <4> QED
        BY <2>0, <4>1, <4>2
    <3> QED
      BY <1>0, <2>0, <3>1, <3>5, <3>6, AloneStep
  <2> QED
    BY <2>1, <2>2, <2>3
<1>6. CASE IssueNext(r) \/ OidcEnd(r)
  <2>1. Finish(r) /\ UNCHANGED users /\ req[r].pc # "idle"
    BY <1>6 DEF IssueNext, OidcEnd
  <2> QED
    BY <2>1, AloneFinishQuiet
<1>7. CASE OidcFind(r)
  <2>0. UNCHANGED <<users, overlapped>> /\ req[r].pc # "idle"
    BY <1>7 DEF OidcFind, past
  <2>1. CASE Linked(req[r].sub) # {}
    <3>1. PICK u \in Ids :
            req' = [req EXCEPT ![r] = [req[r] EXCEPT !.pc = "suspended", !.uid = u,
                                                     !.version = users[u].version]]
      BY <1>7, <2>1 DEF OidcFind, Found, Linked
    <3> QED
      BY <2>0, <3>1, AloneFound
  <2>2. CASE Linked(req[r].sub) = {}
    <3> DEFINE q == [req[r] EXCEPT !.pc = IF req[r].name = None THEN "lock oidc" ELSE "match"]
    <3>1. req' = [req EXCEPT ![r] = q]
      BY <1>7, <2>2 DEF OidcFind
    <3>2. q.pc \in Harmless
      BY <1>0 DEF Request, Harmless
    <3> HIDE DEF q
    <3> QED
      BY <1>0, <2>0, <3>1, <3>2, AloneQuiet
  <2> QED
    BY <2>1, <2>2
<1>8. CASE OidcMatch(r)
  <2> DEFINE match == {u \in Ids : users[u].name = req[r].name /\ users[u].sub = None}
  <2>0. UNCHANGED <<users, overlapped>> /\ req[r].pc # "idle"
    BY <1>8 DEF OidcMatch, past
  <2>1. CASE match # {}
    <3>1. PICK u \in match : req' = [req EXCEPT ![r].pc = "link", ![r].uid = u,
                                                ![r].version = users[u].version]
      BY <1>8, <2>1 DEF OidcMatch
    <3>2. req' = [req EXCEPT ![r] = [req[r] EXCEPT !.pc = "link", !.uid = u,
                                                   !.version = users[u].version]]
      BY <3>1
    <3> QED
      BY <2>0, <3>2, AloneFound
  <2>2. CASE match = {}
    <3> DEFINE q == [req[r] EXCEPT !.pc = "lock oidc"]
    <3>1. req' = [req EXCEPT ![r] = q]
      BY <1>8, <2>2 DEF OidcMatch
    <3>2. q.pc \in Harmless
      BY <1>0 DEF Request, Harmless
    <3> HIDE DEF q
    <3> QED
      BY <1>0, <2>0, <3>1, <3>2, AloneQuiet
  <2> QED
    BY <2>1, <2>2
<1>9. CASE OidcLink(r)
  <2> DEFINE u == req[r].uid
             q == [req[r] EXCEPT !.pc = "suspended"]
  <2>0. req[r].pc = "link" /\ req[r].pc # "idle" /\ UNCHANGED overlapped
        /\ req' = [req EXCEPT ![r] = q]
    BY <1>9 DEF OidcLink, Goto, past
  <2>1. q.pc = "suspended" /\ q.uid = u /\ q.version = req[r].version
    BY <1>0 DEF Request
  <2>2. ~overlapped => u \in Ids /\ users[u].version = req[r].version
    BY <2>0, SafeNow DEF Safe, Ids
  <2>3. /\ Ids' = Ids /\ AdminsOf(users') = AdminsOf(users)
        /\ u \in Ids => users'[u].version = users[u].version
    <3>1. CASE UNCHANGED users
      BY <3>1 DEF Ids
    <3>2. CASE u \in Ids /\ Update(u, [users[u] EXCEPT !.sub = req[r].sub])
      <4> DEFINE row == [users[u] EXCEPT !.sub = req[r].sub]
      <4>1. row.role = users[u].role /\ row.version = users[u].version
        BY <1>0, <3>2 DEF RowsOK, Row
      <4> HIDE DEF row
      <4> QED
        BY <3>2, <4>1, UpdateAdmins DEF row
    <3> QED
      BY <1>9, <3>1, <3>2 DEF OidcLink
  <2> HIDE DEF q
  <2>4. ~overlapped => Safe(q, users')
    BY <2>1, <2>2, <2>3 DEF Safe, Ids
  <2>5. ~overlapped => (Ids' # {} => AdminsOf(users') # {})
    BY <2>3 DEF AloneInv
  <2> QED
    BY <1>0, <2>0, <2>4, <2>5, AloneStep
<1>10. CASE OidcFindAgain(r)
  <2>0. UNCHANGED <<users, overlapped>> /\ req[r].pc # "idle"
    BY <1>10 DEF OidcFindAgain, past
  <2>1. CASE Linked(req[r].sub) # {}
    <3>1. PICK u \in Ids :
            req' = [req EXCEPT ![r] = [req[r] EXCEPT !.pc = "suspended", !.uid = u,
                                                     !.version = users[u].version]]
      BY <1>10, <2>1 DEF OidcFindAgain, Found, Linked
    <3> QED
      BY <2>0, <3>1, AloneFound
  <2>2. CASE Linked(req[r].sub) = {}
    <3> DEFINE pc == IF Ids = {} THEN "insert first" ELSE "insert"
               role == IF Ids = {} \/ req[r].name \in AdminEmails THEN "admin" ELSE "user"
               name == IF Taken(req[r].name) THEN None ELSE req[r].name
               q == [req[r] EXCEPT !.pc = pc, !.role = role, !.name = name]
    <3>1. req' = [req EXCEPT ![r] = q]
      BY <1>0, <1>10, <2>2 DEF OidcFindAgain, Request
    <3>2. q.pc = pc /\ q.role = role
      BY <1>0 DEF Request
    <3> HIDE DEF q
    <3>3. CASE Ids = {}
      <4>1. q.pc = "insert first" /\ q.role = "admin"
        BY <3>2, <3>3
      <4>2. Safe(q, users)
        BY <4>1 DEF Safe
      <4> QED
        BY <1>0, <2>0, <3>1, <4>2, AloneQuiet
    <3>4. CASE Ids # {}
      <4>1. q.pc = "insert" /\ (~overlapped => AdminsOf(users) # {})
        BY <3>2, <3>4, SafeNow
      <4>2. ~overlapped => Safe(q, users)
        BY <4>1 DEF Safe
      <4> QED
        BY <1>0, <2>0, <3>1, <4>2, AloneQuiet
    <3> QED
      BY <3>3, <3>4
  <2> QED
    BY <2>1, <2>2
<1> QED
  BY <1>1, <1>2, <1>3, <1>4, <1>5, <1>6, <1>7, <1>8, <1>9, <1>10 DEF SignInNext

LEMMA AloneAccount ==
    ASSUME TypeInv, AloneInv, NEW r \in Requests, AccountNext(r)
    PROVE  AloneInv'
<1>0. RowsOK /\ DOMAIN req = Requests /\ req[r] \in Request
  BY DEF TypeInv, RequestsOK, RequestOK
<1>1. ASSUME NEW s \in sessions, LogoutAllBegin(r, s) PROVE AloneInv'
  <2> DEFINE q == [Idle EXCEPT !.pc = "logout all", !.me = s.uid]
  <2>1. Begin(r, q) /\ UNCHANGED users
    BY <1>1 DEF LogoutAllBegin
  <2>2. q.pc \in Harmless
    BY DEF Idle, Harmless
  <2> HIDE DEF q
  <2> QED
    BY <2>1, <2>2, AloneBegin
<1>2. ASSUME NEW s \in sessions, PasswordBegin(r, s) PROVE AloneInv'
  <2> DEFINE q == [Idle EXCEPT !.pc = "password", !.me = s.uid, !.version = s.version]
  <2>1. Begin(r, q) /\ UNCHANGED users /\ ~users[s.uid].disabled
    BY <1>2 DEF PasswordBegin, Accepted
  <2>2. q.pc = "password" /\ q.me = s.uid
    BY DEF Idle
  <2> HIDE DEF q
  <2>3. Safe(q, users)
    BY <2>1, <2>2 DEF Safe
  <2> QED
    BY <2>1, <2>3, AloneBegin
<1>3. ASSUME NEW s \in sessions, NEW u \in Ids, DeleteBegin(r, s, u) PROVE AloneInv'
  <2> DEFINE q == [Idle EXCEPT !.pc = "role", !.uid = u]
  <2>1. Begin(r, q) /\ UNCHANGED users
    BY <1>3 DEF DeleteBegin
  <2>2. q.pc \in Harmless
    BY DEF Idle, Harmless
  <2> HIDE DEF q
  <2> QED
    BY <2>1, <2>2, AloneBegin
<1>4. CASE LogoutAll(r)
  <2> DEFINE disabled == req[r].me \in Ids /\ users[req[r].me].disabled
  <2>1. /\ EndSessions(req[r].me, disabled) /\ Finish(r) /\ req[r].pc # "idle"
        /\ disabled \in BOOLEAN
    BY <1>4 DEF LogoutAll
  <2> HIDE DEF disabled
  <2>2. Ids' = Ids /\ AdminsOf(users') = AdminsOf(users)
    BY <1>0, <2>1, EndSessionsAdmins
  <2> QED
    BY <2>1, <2>2, AloneFinish DEF AloneInv
<1>5. CASE PasswordChange(r)
  <2> DEFINE me == req[r].me
             disabled == me \in Ids /\ users[me].disabled
             q == [req[r] EXCEPT !.pc = "reissue"]
  <2>1. /\ EndSessions(me, disabled) /\ disabled \in BOOLEAN
        /\ req' = [req EXCEPT ![r] = q] /\ UNCHANGED overlapped
        /\ req[r].pc = "password" /\ req[r].pc # "idle"
    BY <1>5 DEF PasswordChange, Goto, past
  <2>2. q.pc = "reissue" /\ q.me = me
    BY <1>0 DEF Request
  <2>3. ~overlapped => ~disabled
    BY <2>1, SafeNow DEF Safe, Ids
  <2> HIDE DEF disabled, q
  <2>4. /\ Ids' = Ids /\ AdminsOf(users') = AdminsOf(users)
        /\ me \in Ids => users'[me].disabled = disabled
    BY <1>0, <2>1, EndSessionsAdmins
  <2>5. ~overlapped => Safe(q, users')
    BY <2>2, <2>3, <2>4 DEF Safe, Ids
  <2>6. ~overlapped => (Ids' # {} => AdminsOf(users') # {})
    BY <2>4 DEF AloneInv
  <2> QED
    BY <1>0, <2>1, <2>5, <2>6, AloneStep
<1>6. CASE Reissue(r)
  <2>1. Finish(r) /\ UNCHANGED users /\ req[r].pc # "idle"
    BY <1>6 DEF Reissue
  <2> QED
    BY <2>1, AloneFinishQuiet
<1>7. CASE DeleteRole(r)
  <2>0. UNCHANGED users /\ req[r].pc # "idle"
    BY <1>7 DEF DeleteRole
  <2>1. CASE Finish(r)
    BY <2>0, <2>1, AloneFinishQuiet
  <2>2. CASE Goto(r, "count")
    BY <2>0, <2>2, AloneGoto DEF Harmless
  <2>3. CASE req[r].uid \in Ids /\ users[req[r].uid].role # "admin" /\ Goto(r, "delete")
    <3> DEFINE q == [req[r] EXCEPT !.pc = "delete"]
    <3>1. ~overlapped => AdminsOf(users) # {}
      BY <2>3, SafeNow
    <3>2. req[r].uid \notin AdminsOf(users)
      BY <2>3 DEF AdminsOf
    <3>3. ~overlapped => Spare(req[r].uid, users)
      BY <3>1, <3>2 DEF Spare
    <3>4. q.pc = "delete" /\ q.uid = req[r].uid
      BY <1>0 DEF Request
    <3>5. ~overlapped => Safe(q, users)
      BY <3>3, <3>4 DEF Safe
    <3> QED
      BY <2>0, <2>3, <3>5, AloneGoto
  <2> QED
    BY <1>7, <2>1, <2>2, <2>3 DEF DeleteRole
<1>8. CASE DeleteCount(r)
  <2>0. UNCHANGED users /\ req[r].pc # "idle"
    BY <1>8 DEF DeleteCount
  <2>1. CASE Finish(r)
    BY <2>0, <2>1, AloneFinishQuiet
  <2>2. CASE ~(Cardinality(Admins) =< 1) /\ Goto(r, "delete")
    <3> DEFINE q == [req[r] EXCEPT !.pc = "delete"]
    <3>1. Spare(req[r].uid, users)
      BY <1>0, <2>2, TwoAdmins
    <3>2. q.pc = "delete" /\ q.uid = req[r].uid
      BY <1>0 DEF Request
    <3>3. Safe(q, users)
      BY <3>1, <3>2 DEF Safe
    <3> QED
      BY <2>0, <2>2, <3>3, AloneGoto
  <2> QED
    BY <1>8, <2>1, <2>2 DEF DeleteCount
<1>9. CASE Delete(r)
  <2>0. /\ users' = Restrict(users, Ids \ {req[r].uid}) /\ req[r].pc = "delete"
        /\ req[r].pc # "idle" /\ req' = [req EXCEPT ![r] = Idle] /\ UNCHANGED overlapped
    BY <1>9 DEF Delete
  <2>1. ~overlapped => Spare(req[r].uid, users)
    BY <2>0, SafeNow DEF Safe
  <2>2. AdminsOf(users) \ {req[r].uid} \subseteq AdminsOf(users')
    BY <2>0 DEF AdminsOf, Restrict, Ids
  <2>3. ~overlapped => AdminsOf(users') # {}
    BY <2>1, <2>2 DEF Spare
  <2>4. Idle.pc \in Harmless
    BY IdleOK DEF Harmless
  <2>5. Safe(Idle, users')
    BY <2>4, HarmlessSafe
  <2> QED
    BY <1>0, <2>0, <2>3, <2>5, AloneStep
<1> QED
  BY <1>1, <1>2, <1>3, <1>4, <1>5, <1>6, <1>7, <1>8, <1>9 DEF AccountNext

\* An update goes on with the first statement it needs of those ahead.
LEMMA AheadFirst ==
    ASSUME NEW q \in Request, NEW i \in Nat
    PROVE  \/ Ahead(q, i) = Idle
           \/ \E j \in (i + 1)..5 :
                 /\ Needed(q, Checks[j]) /\ Ahead(q, i) = [q EXCEPT !.pc = Checks[j]]
                 /\ \A k \in (i + 1)..5 : Needed(q, Checks[k]) => j =< k
<1> DEFINE left == {j \in (i + 1)..5 : Needed(q, Checks[j])}
<1>1. CASE left = {}
  BY <1>1 DEF Ahead
<1>2. CASE left # {}
  <2>1. left \in SUBSET Nat
    OBVIOUS
  <2>2. Min(left) \in left /\ \A k \in left : Min(left) =< k
    BY <1>2, <2>1, MinOfNats
  <2>3. Ahead(q, i) = [q EXCEPT !.pc = Checks[Min(left)]]
    BY <1>2 DEF Ahead
  <2> QED
    BY <2>2, <2>3
<1> QED
  BY <1>1, <1>2

\* What is ahead of an update is safe once there is another administrator, or the
\* update demotes none, or the check for that is still ahead.
LEMMA AheadSafe ==
    ASSUME NEW q \in Request, NEW i \in 0..4, NEW rows,
           \/ i = 0
           \/ q.role = "user" /\ q.row.role = "admin" => Spare(q.uid, rows)
           \/ i = 4
    PROVE  Safe(Ahead(q, i), rows)
<1>1. CASE Ahead(q, i) = Idle
  <2>1. Idle.pc \in Harmless
    BY IdleOK DEF Harmless
  <2> QED
    BY <1>1, <2>1, HarmlessSafe
<1>2. CASE \E j \in (i + 1)..5 :
              /\ Needed(q, Checks[j]) /\ Ahead(q, i) = [q EXCEPT !.pc = Checks[j]]
              /\ \A k \in (i + 1)..5 : Needed(q, Checks[k]) => j =< k
  <2>1. PICK j \in (i + 1)..5 :
              /\ Needed(q, Checks[j]) /\ Ahead(q, i) = [q EXCEPT !.pc = Checks[j]]
              /\ \A k \in (i + 1)..5 : Needed(q, Checks[k]) => j =< k
    BY <1>2
  <2> DEFINE a == [q EXCEPT !.pc = Checks[j]]
  <2>2. /\ a.pc = Checks[j] /\ a.role = q.role /\ a.row = q.row /\ a.uid = q.uid
    BY DEF Request
  <2>3. /\ Checks[1] = "demote" /\ Checks[2] = "disable" /\ Checks[3] = "reset"
        /\ Checks[4] = "set role" /\ Checks[5] = "set flag"
    BY DEF Checks
  <2> HIDE DEF a
  <2>4. j \in 1..5 /\ i + 1 =< j
    OBVIOUS
  <2>5. CASE j = 1 \/ j = 5
    <3>1. a.pc \in Harmless
      BY <2>2, <2>3, <2>5 DEF Harmless
    <3> QED
      BY <2>1, <3>1, HarmlessSafe DEF a
  <2>6. CASE j \in {2, 3, 4}
    <3>1. q.role = "user" /\ q.row.role = "admin" => Spare(q.uid, rows)
      <4>1. CASE i = 0
        <5>1. 1 \in (i + 1)..5 /\ ~(j =< 1)
          BY <2>6, <4>1
        <5>2. ~Needed(q, "demote")
          BY <2>1, <2>3, <5>1
        <5> QED
          BY <5>2 DEF Needed
      <4>2. i # 4
        BY <2>4, <2>6
      <4> QED
        BY <4>1, <4>2
    <3>2. Checks[j] \in {"disable", "reset", "set role"}
      BY <2>3, <2>6
    <3>3. Checks[j] = "set role" => q.role # q.row.role
      BY <2>1 DEF Needed
    <3>4. Safe(a, rows)
      BY <2>2, <3>1, <3>2, <3>3 DEF Safe
    <3> QED
      BY <2>1, <3>4 DEF a
  <2> QED
    BY <2>4, <2>5, <2>6
<1> QED
  BY <1>1, <1>2, AheadFirst

LEMMA AloneProceed ==
    ASSUME TypeInv, AloneInv, NEW r \in Requests, NEW i \in 1..4, Proceed(r, i),
           req[r].pc # "idle",
           ~overlapped =>
              /\ Ids' # {} => AdminsOf(users') # {}
              /\ \/ req[r].role = "user" /\ req[r].row.role = "admin"
                       => Spare(req[r].uid, users')
                 \/ i = 4
    PROVE  AloneInv'
<1> DEFINE q == Ahead(req[r], i)
<1>1. DOMAIN req = Requests /\ req[r] \in Request /\ i \in 0..4
  BY DEF TypeInv, RequestsOK, RequestOK
<1>2. req' = [req EXCEPT ![r] = q] /\ UNCHANGED overlapped
  BY DEF Proceed, past
<1>3. ~overlapped => Safe(q, users')
  BY <1>1, AheadSafe
<1> HIDE DEF q
<1> QED
  BY <1>1, <1>2, <1>3, AloneStep

LEMMA AloneAdmin ==
    ASSUME TypeInv, AloneInv, NEW r \in Requests, AdminNext(r)
    PROVE  AloneInv'
<1>0. RowsOK /\ DOMAIN req = Requests /\ req[r] \in Request /\ RequestOK(req[r])
  BY DEF TypeInv, RequestsOK, RequestOK
<1>1. ASSUME NEW s \in sessions, NEW name \in Names, NEW role \in {"admin", "user"},
             CreateBegin(r, s, name, role)
      PROVE  AloneInv'
  <2> DEFINE q == [Idle EXCEPT !.pc = "create", !.name = name, !.role = role]
  <2>1. Begin(r, q) /\ UNCHANGED users /\ IsAdmin(s)
    BY <1>1 DEF CreateBegin
  <2>2. q.pc = "create"
    BY DEF Idle
  <2> HIDE DEF q
  <2>3. AdminsOf(users) # {}
    BY <2>1 DEF IsAdmin, Accepted, AdminsOf, Ids
  <2>4. Safe(q, users)
    BY <2>2, <2>3 DEF Safe
  <2> QED
    BY <2>1, <2>4, AloneBegin
<1>2. ASSUME NEW s \in sessions, NEW u \in Ids, NEW patch \in Patches, UpdateBegin(r, s, u, patch)
      PROVE  AloneInv'
  <2> DEFINE q == [Idle EXCEPT !.pc = "read", !.me = s.uid, !.uid = u, !.role = patch.role,
                               !.flag = patch.flag, !.reset = patch.reset]
  <2>1. Begin(r, q) /\ UNCHANGED users
    BY <1>2 DEF UpdateBegin
  <2>2. q.pc \in Harmless
    BY DEF Idle, Harmless
  <2> HIDE DEF q
  <2> QED
    BY <2>1, <2>2, AloneBegin
<1>3. CASE Create(r)
  <2>0. Finish(r) /\ req[r].pc = "create" /\ req[r].pc # "idle"
    BY <1>3 DEF Create
  <2>1. CASE UNCHANGED users
    BY <2>0, <2>1, AloneFinishQuiet
  <2>2. CASE Insert(NewRow(req[r].name, req[r].role, None))
    <3> DEFINE row == NewRow(req[r].name, req[r].role, None)
    <3> HIDE DEF row
    <3>1. Insert(row)
      BY <2>2 DEF row
    <3>2. AdminsOf(users) \subseteq AdminsOf(users')
      BY <1>0, <3>1, InsertAdmins
    <3>3. ~overlapped => AdminsOf(users) # {}
      BY <2>0, SafeNow DEF Safe
    <3> QED
      BY <2>0, <3>2, <3>3, AloneFinish
  <2> QED
    BY <1>3, <2>1, <2>2 DEF Create
<1>4. CASE UpdateRead(r)
  <2>0. UNCHANGED <<users, overlapped>> /\ req[r].pc # "idle"
    BY <1>4 DEF UpdateRead, past
  <2>1. CASE req[r].uid \in Ids
    <3> DEFINE row == users[req[r].uid]
               q == [req[r] EXCEPT !.row = [role |-> row.role, disabled |-> row.disabled]]
               a == Ahead(q, 0)
    <3>1. req' = [req EXCEPT ![r] = a]
      BY <1>4, <2>1 DEF UpdateRead
    <3>2. q \in Request
      <4>1. row.role \in {"admin", "user"} /\ row.disabled \in BOOLEAN
        BY <2>1, RowFields
      <4> QED
        BY <1>0, <4>1 DEF Request
    <3>3. Safe(a, users)
      <4> HIDE DEF q
      <4>1. 0 \in 0..4
        OBVIOUS
      <4> QED
        BY <3>2, <4>1, AheadSafe
    <3> HIDE DEF a
    <3> QED
      BY <1>0, <2>0, <3>1, <3>3, AloneQuiet
  <2>2. CASE req[r].uid \notin Ids
    <3>1. Finish(r)
      BY <1>4, <2>2 DEF UpdateRead, Finish
    <3> QED
      BY <2>0, <3>1, AloneFinishQuiet
  <2> QED
    BY <2>1, <2>2
<1>5. CASE UpdateDemote(r)
  <2>0. UNCHANGED users /\ req[r].pc # "idle"
    BY <1>5 DEF UpdateDemote
  <2>1. CASE Finish(r)
    BY <2>0, <2>1, AloneFinishQuiet
  <2>2. CASE ~(Cardinality(Admins) =< 1) /\ Proceed(r, 1)
    <3>1. Spare(req[r].uid, users')
      BY <1>0, <2>0, <2>2, TwoAdmins
    <3>2. ~overlapped => (Ids' # {} => AdminsOf(users') # {})
      BY <2>0 DEF AloneInv, Ids
    <3> QED
      BY <2>0, <2>2, <3>1, <3>2, AloneProceed
  <2> QED
    BY <1>5, <2>1, <2>2 DEF UpdateDemote
<1>6. CASE UpdateDisable(r)
  <2>0. UNCHANGED users /\ req[r].pc = "disable" /\ req[r].pc # "idle"
    BY <1>6 DEF UpdateDisable
  <2>1. CASE Finish(r)
    BY <2>0, <2>1, AloneFinishQuiet
  <2>2. CASE Proceed(r, 2)
    <3>1. ~overlapped => /\ req[r].role = "user" /\ req[r].row.role = "admin"
                               => Spare(req[r].uid, users')
                         /\ Ids' # {} => AdminsOf(users') # {}
      BY <2>0, SafeNow DEF Safe, Ids
    <3> QED
      BY <2>0, <2>2, <3>1, AloneProceed
  <2> QED
    BY <1>6, <2>1, <2>2 DEF UpdateDisable
<1>7. CASE UpdateReset(r)
  <2> DEFINE disabled == req[r].uid \in Ids /\ users[req[r].uid].disabled
  <2>0. /\ EndSessions(req[r].uid, disabled) /\ disabled \in BOOLEAN /\ Proceed(r, 3)
        /\ req[r].pc = "reset" /\ req[r].pc # "idle"
    BY <1>7 DEF UpdateReset
  <2> HIDE DEF disabled
  <2>1. Ids' = Ids /\ AdminsOf(users') = AdminsOf(users)
    BY <1>0, <2>0, EndSessionsAdmins
  <2>2. ~overlapped => /\ req[r].role = "user" /\ req[r].row.role = "admin"
                             => Spare(req[r].uid, users)
                       /\ Ids # {} => AdminsOf(users) # {}
    BY <2>0, SafeNow DEF Safe
  <2>3. ~overlapped => /\ req[r].role = "user" /\ req[r].row.role = "admin"
                             => Spare(req[r].uid, users')
                       /\ Ids' # {} => AdminsOf(users') # {}
    BY <2>1, <2>2 DEF Spare
  <2> QED
    BY <2>0, <2>3, AloneProceed
<1>8. CASE UpdateRole(r)
  <2> DEFINE u == req[r].uid
             row == [users[u] EXCEPT !.role = req[r].role]
  <2>0. /\ Proceed(r, 4) /\ req[r].pc = "set role" /\ req[r].pc # "idle"
        /\ req[r].role \in {"admin", "user"} /\ req[r].row.role \in {"admin", "user"}
    BY <1>0, <1>8 DEF UpdateRole, RequestOK, Writing, Request
  <2>1. ~overlapped => /\ req[r].role = "user" => Spare(u, users)
                       /\ Ids # {} => AdminsOf(users) # {}
    BY <2>0, SafeNow DEF Safe
  <2>2. ~overlapped => (Ids' # {} => AdminsOf(users') # {})
    <3>1. CASE u \in Ids
      <4>1. Update(u, row)
        BY <1>8, <3>1 DEF UpdateRole
      <4>2. row.role = req[r].role
        BY <1>0, <3>1 DEF RowsOK, Row
      <4> HIDE DEF row
      <4>3. /\ AdminsOf(users) \ {u} \subseteq AdminsOf(users')
            /\ row.role = "admin" => u \in AdminsOf(users')
        BY <3>1, <4>1, UpdateAdmins
      <4>4. CASE req[r].role = "admin"
        BY <4>2, <4>3, <4>4
      <4>5. CASE req[r].role = "user"
        BY <2>1, <4>3, <4>5 DEF Spare
      <4> QED
        BY <2>0, <4>4, <4>5
    <3>2. CASE u \notin Ids
      BY <1>8, <2>1, <3>2 DEF UpdateRole, Ids
    <3> QED
      BY <3>1, <3>2
  <2>3. 4 \in 1..4
    OBVIOUS
  <2> QED
    BY <2>0, <2>2, <2>3, AloneProceed
<1>9. CASE UpdateFlag(r)
  <2>0. Finish(r) /\ req[r].pc # "idle"
    BY <1>9 DEF UpdateFlag
  <2>1. Ids' = Ids /\ AdminsOf(users') = AdminsOf(users)
    <3>1. CASE EndSessions(req[r].uid, TRUE)
      BY <1>0, <3>1, EndSessionsAdmins
    <3>2. CASE req[r].uid \in Ids /\ Update(req[r].uid, [users[req[r].uid] EXCEPT !.disabled = FALSE])
      <4> DEFINE row == [users[req[r].uid] EXCEPT !.disabled = FALSE]
      <4>1. row.role = users[req[r].uid].role
        BY <1>0, <3>2 DEF RowsOK, Row
      <4> HIDE DEF row
      <4> QED
        BY <3>2, <4>1, UpdateAdmins DEF row
    <3>3. CASE UNCHANGED users
      BY <3>3 DEF Ids
    <3> QED
      BY <1>9, <3>1, <3>2, <3>3 DEF UpdateFlag
  <2> QED
    BY <2>0, <2>1, AloneFinish DEF AloneInv
<1> QED
  BY <1>1, <1>2, <1>3, <1>4, <1>5, <1>6, <1>7, <1>8, <1>9 DEF AdminNext

LEMMA AloneNext == TypeInv /\ AloneInv /\ [Next]_vars => AloneInv'
<1> SUFFICES ASSUME TypeInv, AloneInv, [Next]_vars PROVE AloneInv'
  OBVIOUS
<1>1. CASE UNCHANGED vars \/ \E u \in Ids : Login(u)
  <2>1. UNCHANGED <<users, req, overlapped>>
    BY <1>1 DEF Login, vars, past
  <2> QED
    BY <2>1 DEF AloneInv, Ids
<1>2. CASE \E r \in Requests : SignInNext(r) \/ AccountNext(r) \/ AdminNext(r)
  BY <1>2, AloneSignIn, AloneAccount, AloneAdmin
<1> QED
  BY <1>1, <1>2 DEF Next

LEMMA AloneInit == Init => AloneInv
<1> SUFFICES ASSUME Init PROVE AloneInv
  OBVIOUS
<1>1. \A r \in Requests : req[r] = Idle
  BY DEF Init
<1>2. Idle.pc = "idle" /\ Idle.pc \in Harmless
  BY IdleOK DEF Harmless
<1>3. Ids = {}
  BY DEF Init, Ids, Restrict
<1> QED
  BY <1>1, <1>2, <1>3, HarmlessSafe DEF AloneInv

\* Requests that do not overlap leave an administrator as long as there are users,
\* whatever is deleted, demoted or suspended (delete_account, delete_user and
\* update_user, account.py and admin_users.py).
THEOREM AdministratorRemains == Spec => []AdminRemains
<1>1. Init => TypeInv /\ AloneInv
  BY InitTypes, AloneInit
<1>2. TypeInv /\ AloneInv /\ [Next]_vars => (TypeInv /\ AloneInv)'
  BY NextTypes, AloneNext
<1>3. AloneInv => AdminRemains
  BY DEF AloneInv, AdminRemains, AdminsOf, Admins, Ids
<1> QED
  BY <1>1, <1>2, <1>3, PTL DEF Spec

\* Every cookie issued is made from a row that accepts it.
LEMMA NewCookies ==
    ASSUME NEW u, NEW version, Issue(u, version), UNCHANGED users,
           u \in Ids /\ users[u].version = version /\ ~users[u].disabled
    PROVE  \A s \in sessions' \ sessions : Accepted(s)'
<1> DEFINE ends == IF u \in Ids THEN users[u].ends ELSE 0
           cookie == [uid |-> u, version |-> version, ends |-> ends]
<1>1. sessions' = sessions \cup {cookie}
  BY DEF Issue
<1>2. cookie.uid = u /\ cookie.version = version
  OBVIOUS
<1> HIDE DEF cookie
<1> QED
  BY <1>1, <1>2 DEF Accepted, Ids

LEMMA CookieAccepted ==
    ASSUME TypeInv, AloneInv, Next, ~overlapped
    PROVE  \A s \in sessions' \ sessions : Accepted(s)'
<1>1. CASE \E u \in Ids : Login(u)
  BY <1>1, NewCookies DEF Login
<1>2. ASSUME NEW r \in Requests, SignInNext(r)
      PROVE  \A s \in sessions' \ sessions : Accepted(s)'
  <2>0. Safe(req[r], users)
    BY SafeNow
  <2>1. CASE IssueNext(r)
    <3>1. /\ Issue(req[r].uid, req[r].version) /\ UNCHANGED users /\ req[r].pc = "issue"
      BY <2>1 DEF IssueNext
    <3>2. /\ req[r].uid \in Ids /\ users[req[r].uid].version = req[r].version
          /\ ~users[req[r].uid].disabled
      BY <2>0, <3>1 DEF Safe, Ids
    <3> QED
      BY <3>1, <3>2, NewCookies
  <2>2. CASE OidcEnd(r)
    <3>1. UNCHANGED users /\ req[r].pc = "suspended"
      BY <2>2 DEF OidcEnd
    <3>2. req[r].uid \in Ids /\ users[req[r].uid].version = req[r].version
      BY <2>0, <3>1 DEF Safe, Ids
    <3>3. UNCHANGED sessions \/ (~users[req[r].uid].disabled /\ Issue(req[r].uid, req[r].version))
      BY <2>2, <3>2 DEF OidcEnd
    <3> QED
      BY <3>1, <3>2, <3>3, NewCookies
  <2>3. CASE UNCHANGED sessions
    BY <2>3
  <2> QED
    BY <1>2, <2>1, <2>2, <2>3
       DEF SignInNext, SetupBegin, OidcBegin, Lock, SetupCount, Provision, OidcFind, OidcMatch,
           OidcLink, OidcFindAgain
<1>3. ASSUME NEW r \in Requests, AccountNext(r)
      PROVE  \A s \in sessions' \ sessions : Accepted(s)'
  <2>1. CASE Reissue(r)
    <3>1. UNCHANGED users /\ req[r].pc = "reissue"
      BY <2>1 DEF Reissue
    <3>2. req[r].me \in Ids => ~users[req[r].me].disabled
      BY <3>1, SafeNow DEF Safe, Ids
    <3>3. \/ UNCHANGED sessions
          \/ req[r].me \in Ids /\ Issue(req[r].me, users[req[r].me].version)
      BY <2>1 DEF Reissue
    <3> QED
      BY <3>1, <3>2, <3>3, NewCookies
  <2>2. CASE UNCHANGED sessions
    BY <2>2
  <2> QED
    BY <1>3, <2>1, <2>2
       DEF AccountNext, LogoutAllBegin, PasswordBegin, DeleteBegin, LogoutAll, PasswordChange,
           DeleteRole, DeleteCount, Delete
<1>4. ASSUME NEW r \in Requests, AdminNext(r)
      PROVE  \A s \in sessions' \ sessions : Accepted(s)'
  <2>1. UNCHANGED sessions
    BY <1>4 DEF AdminNext, CreateBegin, UpdateBegin, Create, UpdateRead, UpdateDemote,
                UpdateDisable, UpdateReset, UpdateRole, UpdateFlag
  <2> QED
    BY <2>1
<1> QED
  BY <1>1, <1>2, <1>3, <1>4 DEF Next

\* Whoever signs in, or changes the password, alone holds a cookie that is accepted:
\* it is made from the row as it stands (login, setup, the OIDC callback and
\* change_password, auth.py and account.py).
THEOREM SignInsWork == Spec => SignInWorks
<1>1. Init => TypeInv /\ AloneInv
  BY InitTypes, AloneInit
<1>2. TypeInv /\ AloneInv /\ [Next]_vars => (TypeInv /\ AloneInv)'
  BY NextTypes, AloneNext
<1>3. TypeInv /\ AloneInv /\ [Next]_vars
        => [~overlapped => \A s \in sessions' \ sessions : Accepted(s)']_vars
  BY CookieAccepted
<1> QED
  BY <1>1, <1>2, <1>3, PTL DEF Spec, SignInWorks
=============================================================================
