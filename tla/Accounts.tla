------------------------------ MODULE Accounts ------------------------------
(***************************************************************************)
(* Accounts and sessions (backend/app/auth.py, oidc.py, account.py and     *)
(* admin_users.py).  A session is a signed cookie holding the user's id    *)
(* and token_version: it is never stored, and is accepted as long as both  *)
(* match the row of `users` and the row is not disabled.                   *)
(*                                                                         *)
(* Handlers check and then act in separate statements.  Others see each    *)
(* write at once: with Postgres a bare statement commits itself, with      *)
(* SQLite all requests share the connection that the one commit() of a     *)
(* handler, as update_user's, ends.  Only the choice of the first          *)
(* administrator is under a lock.                                          *)
(* Passwords are abstracted: a handler that asks for one was given it.     *)
(***************************************************************************)
EXTENDS Naturals, FiniteSets, FiniteSetsExt, Functions

CONSTANTS
    Names,         \* user names; an email address is one
    AdminEmails,   \* those provisioned as administrators
    Subjects,      \* identities at the OIDC provider
    None,          \* no identity, no email, or a name made up from the identity
    Requests,      \* slots for requests in flight
    Patches,       \* bodies of update_user
    MaxUser, MaxVersion, MaxSessions   \* bounds: ids, token versions, cookies

ASSUME NoneAssumption == None \notin Names \cup Subjects \cup Requests
Patch == [role : {"same", "admin", "user"}, flag : {"same", "on", "off"}, reset : BOOLEAN]

ASSUME AdminEmailsAssumption == AdminEmails \subseteq Names
ASSUME PatchesAssumption == Patches \subseteq Patch
ASSUME BoundsAssumption == {MaxUser, MaxVersion, MaxSessions} \subseteq Nat

VARIABLES
    users,      \* the rows, by id
    nextId,     \* the AUTOINCREMENT counter
    sessions,   \* the cookies issued
    lock,       \* holder of the provisioning lock
    req,        \* the requests in flight
    overlapped, \* have two requests been in flight together?
    emptied     \* has the last account been deleted?

past == <<overlapped, emptied>>
vars == <<users, nextId, sessions, lock, req, past>>

Ids == DOMAIN users
Admins == {u \in Ids : users[u].role = "admin"}
EnabledAdmins == {u \in Admins : ~users[u].disabled}

\* `ends` counts what has to end the user's sessions; it is not in the code.
Row == [name : Names \cup {None}, role : {"admin", "user"}, disabled : BOOLEAN,
        version : Nat, ends : Nat, sub : Subjects \cup {None}]
NewRow(name, role, sub) ==
    [name |-> name, role |-> role, disabled |-> FALSE, version |-> 0, ends |-> 0, sub |-> sub]

Idle == [pc |-> "idle", me |-> 0, uid |-> 0, name |-> None, role |-> "same", flag |-> "same",
         reset |-> FALSE, sub |-> None, version |-> 0, row |-> [role |-> "user", disabled |-> FALSE]]

\* current_user.
Accepted(s) ==
    s.uid \in Ids /\ users[s.uid].version = s.version /\ ~users[s.uid].disabled

IsAdmin(s) == Accepted(s) /\ users[s.uid].role = "admin"

Begin(r, fields) ==
    /\ req[r].pc = "idle"
    /\ req' = [req EXCEPT ![r] = fields]
    /\ overlapped' = (overlapped \/ \E s \in Requests : req[s].pc # "idle")
    /\ UNCHANGED emptied

Goto(r, pc) == req' = [req EXCEPT ![r].pc = pc] /\ UNCHANGED past
Finish(r) == req' = [req EXCEPT ![r] = Idle] /\ UNCHANGED past

\* An UPDATE ... WHERE id = ?: nothing happens when the row is gone.
Update(u, row) == users' = [v \in Ids |-> IF v = u THEN row ELSE users[v]]

\* Faulty variant, for mutation: the cookies of before stay good.
EndWithoutBump(u, disabled) ==
    IF u \in Ids
    THEN Update(u, [users[u] EXCEPT !.disabled = disabled, !.ends = @ + 1])
    ELSE UNCHANGED users

EndSessions(u, disabled) ==
    IF u \in Ids
    THEN /\ users[u].version < MaxVersion
         /\ Update(u, [users[u] EXCEPT !.disabled = disabled, !.version = @ + 1, !.ends = @ + 1])
    ELSE UNCHANGED users

Insert(row) ==
    /\ nextId =< MaxUser
    /\ users' = [v \in Ids \cup {nextId} |-> IF v = nextId THEN row ELSE users[v]]
    /\ nextId' = nextId + 1

Issue(u, version) ==
    /\ Cardinality(sessions) < MaxSessions
    /\ sessions' = sessions \cup {[uid |-> u, version |-> version,
                                   ends |-> IF u \in Ids THEN users[u].ends ELSE 0]}

Taken(name) == name # None /\ \E u \in Ids : users[u].name = name
Linked(sub) == {u \in Ids : users[u].sub = sub}

(***************************************************************************)
(* login: the row is read once, and the cookie made from it.               *)
(***************************************************************************)
Login(u) ==
    /\ ~users[u].disabled
    /\ Issue(u, users[u].version)
    /\ UNCHANGED <<users, nextId, lock, req, past>>

(***************************************************************************)
(* setup, under the provisioning lock.                                     *)
(***************************************************************************)
SetupBegin(r, name) ==
    /\ Begin(r, [Idle EXCEPT !.pc = "lock setup", !.name = name, !.role = "admin"])
    /\ UNCHANGED <<users, nextId, sessions, lock>>

\* Faulty variant, for mutation: the lock does not exclude.
LockShared(r) ==
    /\ req[r].pc \in {"lock setup", "lock oidc"}
    /\ lock' = r
    /\ Goto(r, IF req[r].pc = "lock setup" THEN "setup" ELSE "find again")
    /\ UNCHANGED <<users, nextId, sessions>>

Lock(r) ==
    /\ req[r].pc \in {"lock setup", "lock oidc"}
    /\ lock = None
    /\ lock' = r
    /\ Goto(r, IF req[r].pc = "lock setup" THEN "setup" ELSE "find again")
    /\ UNCHANGED <<users, nextId, sessions>>

SetupCount(r) ==
    /\ req[r].pc = "setup"
    /\ IF Ids # {} THEN lock' = None /\ Finish(r) ELSE Goto(r, "insert first") /\ UNCHANGED lock
    /\ UNCHANGED <<users, nextId, sessions>>

\* The insert of setup or of an OIDC sign-in; the unique indexes may refuse it.
Provision(r) ==
    /\ req[r].pc \in {"insert first", "insert"}
    /\ lock' = None
    /\ LET q == req[r] IN
         IF Taken(q.name) \/ (q.sub # None /\ Linked(q.sub) # {})
         THEN /\ IF q.sub # None /\ Linked(q.sub) # {}
                 THEN \E u \in Linked(q.sub) :
                         req' = [req EXCEPT ![r].pc = "suspended", ![r].uid = u,
                                            ![r].version = users[u].version]
                 ELSE req' = [req EXCEPT ![r] = Idle]
              /\ UNCHANGED <<users, nextId>>
         ELSE /\ Insert(NewRow(q.name, q.role, q.sub))
              /\ req' = [req EXCEPT ![r].pc = IF q.sub = None THEN "issue" ELSE "suspended",
                                    ![r].uid = nextId, ![r].version = 0]
    /\ UNCHANGED <<sessions, past>>

IssueNext(r) ==
    /\ req[r].pc = "issue"
    /\ Issue(req[r].uid, req[r].version)
    /\ Finish(r)
    /\ UNCHANGED <<users, nextId, lock>>

(***************************************************************************)
(* OIDC sign-in: find by subject, link by verified email, or provision     *)
(* (oidc_allow_signup is on).                                              *)
(***************************************************************************)
OidcBegin(r, sub, email) ==
    /\ Begin(r, [Idle EXCEPT !.pc = "find", !.sub = sub, !.name = email])
    /\ UNCHANGED <<users, nextId, sessions, lock>>

\* A row found by subject goes on to the check of its `disabled`.
Found(r, u) ==
    req' = [req EXCEPT ![r].pc = "suspended", ![r].uid = u, ![r].version = users[u].version]

OidcFind(r) ==
    /\ req[r].pc = "find"
    /\ IF Linked(req[r].sub) # {} THEN \E u \in Linked(req[r].sub) : Found(r, u)
       ELSE req' = [req EXCEPT ![r].pc = IF req[r].name = None THEN "lock oidc" ELSE "match"]
    /\ UNCHANGED <<users, nextId, sessions, lock, past>>

OidcMatch(r) ==
    /\ req[r].pc = "match"
    /\ LET match == {u \in Ids : users[u].name = req[r].name /\ users[u].sub = None}
       IN  IF match # {}
           THEN \E u \in match : req' = [req EXCEPT ![r].pc = "link", ![r].uid = u,
                                                    ![r].version = users[u].version]
           ELSE req' = [req EXCEPT ![r].pc = "lock oidc"]
    /\ UNCHANGED <<users, nextId, sessions, lock, past>>

\* Refused by the unique index when the subject is linked elsewhere; either way
\* the sign-in goes on with the matched account.
OidcLink(r) ==
    /\ req[r].pc = "link"
    /\ IF req[r].uid \in Ids /\ Linked(req[r].sub) \subseteq {req[r].uid}
       THEN Update(req[r].uid, [users[req[r].uid] EXCEPT !.sub = req[r].sub])
       ELSE UNCHANGED users
    /\ Goto(r, "suspended")
    /\ UNCHANGED <<nextId, sessions, lock>>

OidcFindAgain(r) ==
    /\ req[r].pc = "find again"
    /\ IF Linked(req[r].sub) # {}
       THEN lock' = None /\ \E u \in Linked(req[r].sub) : Found(r, u)
       ELSE /\ req' = [req EXCEPT ![r].pc = IF Ids = {} THEN "insert first" ELSE "insert",
                                  ![r].role = IF Ids = {} \/ req[r].name \in AdminEmails
                                             THEN "admin" ELSE "user",
                                  ![r].name = IF Taken(@) THEN None ELSE @]
            /\ UNCHANGED lock
    /\ UNCHANGED <<users, nextId, sessions, past>>

\* The check of `disabled` and the cookie, with the version read at first.
OidcEnd(r) ==
    /\ req[r].pc = "suspended"
    /\ IF req[r].uid \in Ids /\ users[req[r].uid].disabled THEN UNCHANGED sessions
       ELSE Issue(req[r].uid, req[r].version)
    /\ Finish(r)
    /\ UNCHANGED <<users, nextId, lock>>

(***************************************************************************)
(* What a user does to the own account.                                    *)
(***************************************************************************)
LogoutAllBegin(r, s) ==
    /\ Accepted(s)
    /\ Begin(r, [Idle EXCEPT !.pc = "logout all", !.me = s.uid])
    /\ UNCHANGED <<users, nextId, sessions, lock>>

LogoutAll(r) ==
    /\ req[r].pc = "logout all"
    /\ EndSessions(req[r].me, req[r].me \in Ids /\ users[req[r].me].disabled)
    /\ Finish(r)
    /\ UNCHANGED <<nextId, sessions, lock>>

PasswordBegin(r, s) ==
    /\ Accepted(s)
    /\ Begin(r, [Idle EXCEPT !.pc = "password", !.me = s.uid, !.version = s.version])
    /\ UNCHANGED <<users, nextId, sessions, lock>>

PasswordChange(r) ==
    /\ req[r].pc = "password"
    /\ EndSessions(req[r].me, req[r].me \in Ids /\ users[req[r].me].disabled)
    /\ Goto(r, "reissue")
    /\ UNCHANGED <<nextId, sessions, lock>>

\* Faulty variant, for mutation: the cookie is made from the version of before.
ReissueOld(r) ==
    /\ req[r].pc = "reissue"
    /\ IF req[r].me \in Ids THEN Issue(req[r].me, req[r].version) ELSE UNCHANGED sessions
    /\ Finish(r)
    /\ UNCHANGED <<users, nextId, lock>>

\* The version is read back, and this tab gets a cookie with it.
Reissue(r) ==
    /\ req[r].pc = "reissue"
    /\ IF req[r].me \in Ids THEN Issue(req[r].me, users[req[r].me].version)
       ELSE UNCHANGED sessions
    /\ Finish(r)
    /\ UNCHANGED <<users, nextId, lock>>

\* delete_account, and an administrator's delete_user: role, count, delete.
DeleteBegin(r, s, u) ==
    /\ Accepted(s) /\ (u # s.uid => IsAdmin(s))
    /\ Begin(r, [Idle EXCEPT !.pc = "role", !.uid = u])
    /\ UNCHANGED <<users, nextId, sessions, lock>>

DeleteRole(r) ==
    /\ req[r].pc = "role"
    /\ IF req[r].uid \notin Ids THEN Finish(r)
       ELSE Goto(r, IF users[req[r].uid].role = "admin" THEN "count" ELSE "delete")
    /\ UNCHANGED <<users, nextId, sessions, lock>>

DeleteCount(r) ==
    /\ req[r].pc = "count"
    /\ IF Cardinality(Admins) =< 1 THEN Finish(r) ELSE Goto(r, "delete")
    /\ UNCHANGED <<users, nextId, sessions, lock>>

Delete(r) ==
    /\ req[r].pc = "delete"
    /\ users' = Restrict(users, Ids \ {req[r].uid})
    /\ emptied' = (emptied \/ Ids' = {})
    /\ req' = [req EXCEPT ![r] = Idle]
    /\ UNCHANGED <<nextId, sessions, lock, overlapped>>

(***************************************************************************)
(* An administrator creates or updates an account.                         *)
(***************************************************************************)
CreateBegin(r, s, name, role) ==
    /\ IsAdmin(s)
    /\ ~Taken(name)
    /\ Begin(r, [Idle EXCEPT !.pc = "create", !.name = name, !.role = role])
    /\ UNCHANGED <<users, nextId, sessions, lock>>

Create(r) ==
    /\ req[r].pc = "create"
    /\ IF Taken(req[r].name) THEN UNCHANGED <<users, nextId>>
       ELSE Insert(NewRow(req[r].name, req[r].role, None))
    /\ Finish(r)
    /\ UNCHANGED <<sessions, lock>>

\* update_user reads the row, checks what the patch needs checked, then writes
\* what it changes: the statements still ahead, in order.
Checks == <<"demote", "disable", "reset", "set role", "set flag">>

Needed(q, step) ==
    CASE step = "demote" -> q.row.role = "admin" /\ q.role = "user"
      [] step = "disable" -> q.flag = "on" /\ ~q.row.disabled
      [] step = "reset" -> q.reset
      [] step = "set role" -> q.role # "same" /\ q.role # q.row.role
      [] step = "set flag" -> \/ q.flag = "on" /\ ~q.row.disabled
                              \/ q.flag = "off" /\ q.row.disabled

\* The request after the first i steps of its update.
Ahead(q, i) ==
    LET left == {j \in (i + 1)..5 : Needed(q, Checks[j])}
    IN  IF left = {} THEN Idle
        ELSE [q EXCEPT !.pc = Checks[Min(left)]]

Proceed(r, i) == req' = [req EXCEPT ![r] = Ahead(req[r], i)] /\ UNCHANGED past

UpdateBegin(r, s, u, patch) ==
    /\ IsAdmin(s)
    /\ Begin(r, [Idle EXCEPT !.pc = "read", !.me = s.uid, !.uid = u, !.role = patch.role,
                             !.flag = patch.flag, !.reset = patch.reset])
    /\ UNCHANGED <<users, nextId, sessions, lock>>

UpdateRead(r) ==
    /\ req[r].pc = "read"
    /\ IF req[r].uid \in Ids
       THEN LET row == users[req[r].uid]
                q == [req[r] EXCEPT !.row = [role |-> row.role, disabled |-> row.disabled]]
            IN  req' = [req EXCEPT ![r] = Ahead(q, 0)]
       ELSE req' = [req EXCEPT ![r] = Idle]
    /\ UNCHANGED <<users, nextId, sessions, lock, past>>

\* Faulty variant, for mutation: the only administrator may be demoted.
DemoteUnchecked(r) ==
    /\ req[r].pc = "demote"
    /\ Proceed(r, 1)
    /\ UNCHANGED <<users, nextId, sessions, lock>>

UpdateDemote(r) ==
    /\ req[r].pc = "demote"
    /\ IF Cardinality(Admins) =< 1 THEN Finish(r) ELSE Proceed(r, 1)
    /\ UNCHANGED <<users, nextId, sessions, lock>>

UpdateDisable(r) ==
    /\ req[r].pc = "disable"
    /\ IF \/ req[r].uid = req[r].me
          \/ req[r].row.role = "admin" /\ Cardinality(EnabledAdmins) =< 1
       THEN Finish(r) ELSE Proceed(r, 2)
    /\ UNCHANGED <<users, nextId, sessions, lock>>

UpdateReset(r) ==
    /\ req[r].pc = "reset"
    /\ EndSessions(req[r].uid, req[r].uid \in Ids /\ users[req[r].uid].disabled)
    /\ Proceed(r, 3)
    /\ UNCHANGED <<nextId, sessions, lock>>

UpdateRole(r) ==
    /\ req[r].pc = "set role"
    /\ IF req[r].uid \in Ids THEN Update(req[r].uid, [users[req[r].uid] EXCEPT !.role = req[r].role])
       ELSE UNCHANGED users
    /\ Proceed(r, 4)
    /\ UNCHANGED <<nextId, sessions, lock>>

UpdateFlag(r) ==
    /\ req[r].pc = "set flag"
    /\ IF req[r].flag = "on" THEN EndSessions(req[r].uid, TRUE)
       ELSE IF req[r].uid \in Ids
       THEN Update(req[r].uid, [users[req[r].uid] EXCEPT !.disabled = FALSE])
       ELSE UNCHANGED users
    /\ Finish(r)
    /\ UNCHANGED <<nextId, sessions, lock>>

(***************************************************************************)
(* Specification.                                                          *)
(***************************************************************************)
Init ==
    /\ users = Restrict(<<>>, {})
    /\ nextId = 1
    /\ sessions = {}
    /\ lock = None
    /\ req = [r \in Requests |-> Idle]
    /\ overlapped = FALSE /\ emptied = FALSE

SignInNext(r) ==
    \/ \E name \in Names : SetupBegin(r, name)
    \/ \E sub \in Subjects, email \in Names \cup {None} : OidcBegin(r, sub, email)
    \/ Lock(r) \/ SetupCount(r) \/ Provision(r) \/ IssueNext(r)
    \/ OidcFind(r) \/ OidcMatch(r) \/ OidcLink(r) \/ OidcFindAgain(r) \/ OidcEnd(r)

AccountNext(r) ==
    \/ \E s \in sessions : LogoutAllBegin(r, s) \/ PasswordBegin(r, s)
    \/ \E s \in sessions, u \in Ids : DeleteBegin(r, s, u)
    \/ LogoutAll(r) \/ PasswordChange(r) \/ Reissue(r)
    \/ DeleteRole(r) \/ DeleteCount(r) \/ Delete(r)

AdminNext(r) ==
    \/ \E s \in sessions :
          \/ \E name \in Names, role \in {"admin", "user"} : CreateBegin(r, s, name, role)
          \/ \E u \in Ids, patch \in Patches : UpdateBegin(r, s, u, patch)
    \/ Create(r) \/ UpdateRead(r) \/ UpdateDemote(r) \/ UpdateDisable(r)
    \/ UpdateReset(r) \/ UpdateRole(r) \/ UpdateFlag(r)

Next ==
    \/ \E u \in Ids : Login(u)
    \/ \E r \in Requests : SignInNext(r) \/ AccountNext(r) \/ AdminNext(r)

Spec == Init /\ [][Next]_vars
-----------------------------------------------------------------------------
(***************************************************************************)
(* Properties.                                                             *)
(***************************************************************************)
\* Rows are rows with ids handed out, the lock is held by a request under it, and
\* no identity is linked twice.
TypeOK ==
    /\ nextId \in 1..(MaxUser + 1)
    /\ Ids \subseteq 1..(nextId - 1)
    /\ users \in [Ids -> Row]
    /\ \A u, v \in Ids : users[u].sub = users[v].sub /\ users[u].sub # None => u = v
    /\ lock \in Requests \cup {None}
    /\ \A r \in Requests : lock = r <=>
          req[r].pc \in {"setup", "find again", "insert first", "insert"}

\* "The count check + insert run as one critical section": who becomes the first
\* administrator is the first user, whatever overlaps.  Once every account was deleted
\* a creation begun before may slip in, as it does not take the lock.
FirstAdminIsFirst ==
    ~emptied => \A r \in Requests : req[r].pc = "insert first" => Ids = {}

\* "Don't let the last admin orphan the instance": once there are users, one is an
\* administrator, as long as no two requests overlapped.
AdminRemains == ~overlapped /\ Ids # {} => Admins # {}

\* "(else the instance has no reachable administrator)": once there are users, one
\* is an administrator who can log in.
EnabledAdminRemains == ~overlapped /\ Ids # {} => EnabledAdmins # {}

\* A password reset or change, a suspension and a logout everywhere end every
\* session of before: a cookie that is accepted was issued after the last of them.
SessionsEnd ==
    \A s \in sessions : Accepted(s) => s.ends = users[s.uid].ends

\* Whoever signs in or changes the password holds a cookie that is accepted.
SignInWorks ==
    [][~overlapped => \A s \in sessions' \ sessions : Accepted(s)']_vars
=============================================================================
