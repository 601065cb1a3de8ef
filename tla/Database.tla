----------------------------- MODULE Database -----------------------------
(***************************************************************************)
(* The database boundary (backend/app/database.py) under the Handlers.      *)
(* Every statement is awaited: requests interleave between any two.         *)
(*                                                                          *)
(* SQLite: one aiosqlite connection is shared by all requests.  A statement *)
(* acts on its uncommitted view; commit() and rollback() end whatever is    *)
(* pending on it, whoever wrote it.  Postgres: a statement outside a        *)
(* transaction takes a connection of the pool and commits by itself; a      *)
(* transaction keeps one connection, finds what is committed when a         *)
(* statement starts (READ COMMITTED) and waits for the rows another         *)
(* transaction has written.  The timeouts of acquire() and of the advisory  *)
(* lock (30 s) are left out: EveryoneIsServed says that nobody needs them.  *)
(***************************************************************************)
EXTENDS Handlers, FiniteSets, FiniteSetsExt

CONSTANTS
    Requests,       \* the requests in flight
    Homes,          \* the ways the requests may be spread over server processes
    PoolSize,       \* db_pool_max_size, per process
    Jobs,           \* Jobs[r]: the handlers request r may run
    Backends,       \* a subset of {"sqlite", "postgres"}
    Overlapping,    \* the backends on which requests overlap
    MaxFaults,      \* bound on statements that fail for no reason of their own
    None

VARIABLES
    backend,        \* "sqlite" or "postgres"
    home,           \* home[r]: the server process that serves request r
    committed,      \* committed[s]: the durable rows of scope s
    view,           \* view[s]: the rows as the shared SQLite connection sees them
    job,            \* job[r]: the handler r runs
    pc,             \* where request r is
    at,             \* at[r]: the next statement of its program
    snap,           \* snap[r]: the rows there when its statement started
    had,            \* had[r]: its last SELECT found the row it looked for
    tx,             \* tx[r]: what r's open Postgres transaction deleted and added
    serial,         \* serial[p]: the holder of process p's provision_lock
    advisory,       \* the holder of the advisory lock
    faults,
    clean,          \* history: r's unit is open and was alone on its scope
    seen            \* history: what a reader was told

vars == <<backend, home, committed, view, job, pc, at, snap, had, tx, serial, advisory,
          faults, clean, seen>>

-----------------------------------------------------------------------------
(* Where a request is. *)

NoJob == Handler(None, None, <<>>)
Postgres == backend = "postgres"
Scope(r) == job[r].scope
Kind(r) == job[r].kind
More(r) == at[r] <= Len(job[r].program)
Statement(r) == job[r].program[at[r]]
Goto(r, l) == pc' = [pc EXCEPT ![r] = l]

\* The other requests of r's process.
Peers(r) == {q \in Requests \ {r} : home[q] = home[r]}
Booting(q) == Kind(q) = "boot" /\ pc[q] \notin {"done", "failed"}

NoWrites == [del |-> {}, add |-> {}]
InTx(r) == Kind(r) = "tx" /\ pc[r] \in {"ready", "run"}

\* What a statement of r finds now.
Found(r) ==
    IF Postgres THEN (committed[Scope(r)] \ tx[r].del) \cup tx[r].add
    ELSE view[Scope(r)]

\* The snapshot of its running statement; SQLite runs one statement at a time.
Snapshot(r) == IF Postgres THEN snap[r] ELSE Found(r)

\* The rows its DELETE removes, and those it puts.
Targets(r) ==
    IF Statement(r).op = "delete"
    THEN {row \in Snapshot(r) : row[1] \in Statement(r).keys} ELSE {}

New(r) ==
    LET there == Keys(Snapshot(r))
        st == Statement(r)
    IN  CASE st.op \in {"or ignore", "if not exists"} -> {row \in st.rows : row[1] \notin there}
          [] st.op = "unless" -> IF had[r] THEN {} ELSE st.rows
          [] OTHER -> st.rows

\* A statement waits for the rows and the keys another transaction has written.
Waits(r, q) ==
    /\ Postgres /\ pc[r] = "run" /\ q # r /\ InTx(q) /\ Scope(q) = Scope(r)
    /\ \/ Targets(r) \cap tx[q].del # {}
       \/ Keys(New(r)) \cap Keys(tx[q].del \cup tx[q].add) # {}

Blocked(r) == \E q \in Requests : Waits(r, q)

\* A key that is taken; and INSERT OR IGNORE, which adapt_query leaves as it is.
Refused(r) ==
    \/ Keys(New(r)) \cap Keys(Found(r)) # {}
    \/ Postgres /\ Statement(r).op = "or ignore"

\* The pool: transactions and advisory locks keep a connection, statements borrow.
Uses(r) ==
    IF ~Postgres THEN 0
    ELSE CASE Kind(r) = "tx" -> IF InTx(r) THEN 1 ELSE 0
           [] Kind(r) \in {"serial", "boot"} ->
                CASE pc[r] \in {"advisory", "ready"} -> 1 [] pc[r] = "run" -> 2 [] OTHER -> 0
           [] OTHER -> IF pc[r] = "run" THEN 1 ELSE 0

Connection(r) == Postgres => MapThenSumSet(Uses, Peers(r) \cup {r}) < PoolSize

-----------------------------------------------------------------------------
(* The handlers. *)

\* A request arrives; open_db ends before its process serves any.
Begin(r) ==
    /\ pc[r] = "begin"
    /\ backend \in Overlapping \/ \A q \in Requests : pc[q] \in {"begin", "done", "failed"}
    /\ ~\E q \in Peers(r) : Booting(q)
    /\ \E j \in Jobs[r] :
         /\ j.kind = "boot" => \A q \in Peers(r) : pc[q] = "begin"
         /\ job' = [job EXCEPT ![r] = j]
         /\ Goto(r, CASE j.kind = "tx" -> "open"
                      [] j.kind = "serial" -> "serial"
                      [] j.kind = "boot" -> "connect"
                      [] OTHER -> "ready")
    /\ UNCHANGED <<backend, home, committed, view, at, snap, had, tx, serial, advisory,
                   faults, clean, seen>>

\* transaction(): one pooled connection, bound to the task until the end.
OpenTransaction(r) ==
    /\ pc[r] = "open" /\ Connection(r)
    /\ clean' = [clean EXCEPT ![r] = TRUE]
    /\ Goto(r, "ready")
    /\ UNCHANGED <<backend, home, committed, view, job, at, snap, had, tx, serial, advisory,
                   faults, seen>>

\* async with provision_lock.
LockProcess(r) ==
    /\ pc[r] = "serial"
    /\ serial[home[r]] = None
    /\ serial' = [serial EXCEPT ![home[r]] = r]
    /\ Goto(r, "connect")
    /\ UNCHANGED <<backend, home, committed, view, job, at, snap, had, tx, advisory,
                   faults, clean, seen>>

\* advisory_lock: a connection of its own, then pg_advisory_lock on it.
ConnectForLock(r) ==
    /\ pc[r] = "connect" /\ Connection(r)
    /\ Goto(r, "advisory")
    /\ UNCHANGED <<backend, home, committed, view, job, at, snap, had, tx, serial, advisory,
                   faults, clean, seen>>

\* Mutant: pg_advisory_lock does not wait (pg_try_advisory_lock, unchecked).
AdvisoryTryLock(r) ==
    /\ pc[r] = "advisory"
    /\ advisory' = IF Postgres /\ advisory = None THEN r ELSE advisory
    /\ Goto(r, "ready")
    /\ UNCHANGED <<backend, home, committed, view, job, at, snap, had, tx, serial,
                   faults, clean, seen>>

AdvisoryLock(r) ==
    /\ pc[r] = "advisory"
    /\ IF Postgres THEN advisory = None /\ advisory' = r ELSE UNCHANGED advisory
    /\ Goto(r, "ready")
    /\ UNCHANGED <<backend, home, committed, view, job, at, snap, had, tx, serial, faults,
                   clean, seen>>

\* Mutant: a statement in a transaction borrows a second connection.
StartStatementElsewhere(r) ==
    /\ Postgres /\ pc[r] = "ready" /\ More(r) /\ Connection(r)
    /\ snap' = [snap EXCEPT ![r] = Found(r)]
    /\ seen' = IF Kind(r) = "read" THEN [seen EXCEPT ![r] = Found(r)] ELSE seen
    /\ clean' = [clean EXCEPT ![r] = @ \/ Kind(r) = "bare"]
    /\ Goto(r, "run")
    /\ UNCHANGED <<backend, home, committed, view, job, at, had, tx, serial, advisory,
                   faults>>

\* Postgres takes the statement's snapshot; outside a transaction on a connection
\* borrowed for it.
StartStatement(r) ==
    /\ Postgres /\ pc[r] = "ready" /\ More(r)
    /\ InTx(r) \/ Connection(r)
    /\ snap' = [snap EXCEPT ![r] = Found(r)]
    /\ seen' = IF Kind(r) = "read" THEN [seen EXCEPT ![r] = Found(r)] ELSE seen
    /\ clean' = [clean EXCEPT ![r] = @ \/ Kind(r) = "bare"]
    /\ Goto(r, "run")
    /\ UNCHANGED <<backend, home, committed, view, job, at, had, tx, serial, advisory,
                   faults>>

\* Where a statement takes effect.
AtStatement(r) == pc[r] = (IF Postgres THEN "run" ELSE "ready") /\ More(r)

\* No unit on r's scope is alone any more.
Ended(r) == [q \in Requests |-> clean[q] /\ Scope(q) # Scope(r)]

Write(r) ==
    LET gone == Targets(r) \cap Found(r)
        new == New(r)
    IN  IF ~Postgres
        THEN /\ view' = [view EXCEPT ![Scope(r)] = (@ \ gone) \cup new]
             /\ UNCHANGED <<committed, tx, clean>>
        ELSE IF InTx(r)
        THEN /\ tx' = [tx EXCEPT ![r] = [del |-> @.del \cup (gone \ @.add),
                                         add |-> (@.add \ gone) \cup new]]
             /\ UNCHANGED <<committed, view, clean>>
        ELSE /\ committed' = [committed EXCEPT ![Scope(r)] = (@ \ gone) \cup new]
             /\ clean' = IF Kind(r) = "read" THEN clean ELSE Ended(r)
             /\ UNCHANGED <<view, tx>>

Execute(r) ==
    /\ AtStatement(r) /\ ~Blocked(r) /\ ~Refused(r)
    /\ Write(r)
    /\ had' = IF Statement(r).op = "select"
              THEN [had EXCEPT ![r] = Keys(Snapshot(r)) \cap Statement(r).keys # {}]
              ELSE had
    /\ seen' = IF Kind(r) = "read" /\ ~Postgres THEN [seen EXCEPT ![r] = Found(r)] ELSE seen
    /\ at' = [at EXCEPT ![r] = @ + 1]
    /\ Goto(r, "ready")
    /\ UNCHANGED <<backend, home, job, snap, serial, advisory, faults>>

\* Leaving the handler gives back its locks and its connections.
Leave(r, l) ==
    /\ Goto(r, l)
    /\ snap' = [snap EXCEPT ![r] = {}]
    /\ tx' = [tx EXCEPT ![r] = NoWrites]
    /\ serial' = [p \in DOMAIN serial |-> IF serial[p] = r THEN None ELSE serial[p]]
    /\ advisory' = IF advisory = r THEN None ELSE advisory
    /\ UNCHANGED <<backend, home, job, at, had, seen>>

\* The end of the block: COMMIT, or commit() on the shared connection.
Commit(r) ==
    /\ pc[r] = "ready" /\ ~More(r)
    /\ IF Postgres
       THEN committed' = [committed EXCEPT ![Scope(r)] = (@ \ tx[r].del) \cup tx[r].add]
       ELSE committed' = IF Kind(r) = "read" THEN committed ELSE view
    /\ clean' = IF Kind(r) = "tx" \/ (~Postgres /\ Kind(r) # "read") THEN Ended(r) ELSE clean
    /\ Leave(r, "done")
    /\ UNCHANGED <<view, faults>>

\* Mutant: transaction() without its rollback.
UnwindQuietly(r) ==
    /\ clean' = [clean EXCEPT ![r] = FALSE]
    /\ Leave(r, "failed")
    /\ UNCHANGED <<committed, view>>

\* An exception: transaction() rolls back, a bare handler leaves what it wrote.
Unwind(r) ==
    /\ view' = IF ~Postgres /\ Kind(r) = "tx" THEN committed ELSE view
    /\ clean' = [clean EXCEPT ![r] = FALSE]
    /\ Leave(r, "failed")
    /\ UNCHANGED committed

StatementRefused(r) ==
    /\ AtStatement(r) /\ ~Blocked(r) /\ Refused(r)
    /\ Unwind(r)
    /\ UNCHANGED faults

\* Two transactions that wait for each other: Postgres aborts one of them.
Deadlocked(r) ==
    /\ pc[r] = "run"
    /\ \E q \in Requests : Waits(r, q) /\ Waits(q, r)
    /\ Unwind(r)
    /\ UNCHANGED faults

StatementFails(r) ==
    /\ faults < MaxFaults
    /\ AtStatement(r)
    /\ faults' = faults + 1
    /\ Unwind(r)

Step(r) ==
    \/ OpenTransaction(r) \/ LockProcess(r) \/ ConnectForLock(r) \/ AdvisoryLock(r)
    \/ StartStatement(r) \/ Execute(r) \/ Commit(r) \/ StatementRefused(r)
    \/ Deadlocked(r)

Next == \E r \in Requests : Begin(r) \/ Step(r) \/ StatementFails(r)

Init ==
    /\ backend \in Backends
    /\ home \in Homes
    /\ backend = "sqlite" => \A r, q \in Requests : home[r] = home[q]
    /\ committed = [s \in Scopes |-> Before(s)]
    /\ view = committed
    /\ job = [r \in Requests |-> NoJob]
    /\ pc = [r \in Requests |-> "begin"]
    /\ at = [r \in Requests |-> 1]
    /\ snap = [r \in Requests |-> {}]
    /\ had = [r \in Requests |-> FALSE]
    /\ tx = [r \in Requests |-> NoWrites]
    /\ serial = [p \in {home[r] : r \in Requests} |-> None]
    /\ advisory = None
    /\ faults = 0
    /\ clean = [r \in Requests |-> FALSE]
    /\ seen = [r \in Requests |-> None]

Spec == Init /\ [][Next]_vars

Fairness == \A r \in Requests : WF_vars(Step(r))
FairSpec == Spec /\ Fairness

-----------------------------------------------------------------------------
(* Properties. *)

Rows == UNION {Plain({k}) \cup {<<k, 1>>} : k \in {"a", "b", "c", "d", "e", "f",
                                                "table", "column", "index"}}
TypeOK ==
    /\ backend \in Backends /\ home \in Homes
    /\ \A s \in Scopes : committed[s] \subseteq Rows /\ view[s] \subseteq Rows
    /\ \A r \in Requests :
         /\ job[r] \in Jobs[r] \cup {NoJob} /\ at[r] \in 1..Len(job[r].program) + 1
         /\ snap[r] \subseteq Rows /\ had[r] \in BOOLEAN /\ clean[r] \in BOOLEAN
         /\ tx[r].del \subseteq Rows /\ tx[r].add \subseteq Rows
    /\ pc \in [Requests -> {"begin", "open", "serial", "connect", "advisory", "ready",
                            "run", "done", "failed"}]
    /\ \A p \in DOMAIN serial : serial[p] \in Requests \cup {None}
    /\ advisory \in Requests \cup {None}
    /\ faults \in 0..MaxFaults

\* The scopes that only units of work write, and the unit a handler is.
TxScopes == {"grants", "defaults", "settings", "page"}

Unit(j) ==
    LET statements == {j.program[i] : i \in DOMAIN j.program}
        of(op) == {st \in statements : st.op = op}
    IN  [scope |-> j.scope,
         drop |-> UNION {st.keys : st \in of("delete")},
         put |-> UNION {st.rows : st \in of("insert")}]

\* What the theorems ask of the handlers: those that write the rows of TxScopes do it
\* in a unit of work or with one DELETE, a unit deletes no row that it has put, and
\* readers read rows of TxScopes and write nothing.
Positions(j, op) == {i \in DOMAIN j.program : j.program[i].op = op}

IsUnit(j) ==
    /\ DOMAIN j.program =
         Positions(j, "delete") \cup Positions(j, "insert") \cup Positions(j, "select")
    /\ \A i \in DOMAIN j.program \ Positions(j, "insert") : j.program[i].rows = {}
    /\ \A i \in Positions(j, "insert"), k \in Positions(j, "delete") :
         i < k => Keys(j.program[i].rows) \cap j.program[k].keys = {}
    /\ \/ j.kind = "tx"
       \/ j.kind = "read" /\ DOMAIN j.program = Positions(j, "select")
       \/ j.kind = "bare" /\ Positions(j, "delete") = {1} /\ Len(j.program) = 1

HandlersAreUnits ==
    \A r \in Requests : \A j \in Jobs[r] :
        /\ j.program \in Seq({j.program[i] : i \in DOMAIN j.program})
        /\ j.scope \in TxScopes => IsUnit(j)
        /\ j.kind = "read" => j.scope \in TxScopes

\* Handlers write rows of the scopes there are.
HandlersWriteRows ==
    \A r \in Requests : \A j \in Jobs[r] :
        j.scope \in Scopes /\ \A i \in DOMAIN j.program : j.program[i].rows \subseteq Rows

\* Only open_db writes the schema, and it is all a replica runs when it boots.
SchemaIsOpenDbs ==
    \A r \in Requests : \A j \in Jobs[r] : j.kind = "boot" \/ j.scope = "schema" => j = OpenDb

Atomic ==
    INSTANCE Replace WITH
        Scopes <- TxScopes,
        rows <- [s \in TxScopes |-> committed[s]],
        unit <- [r \in Requests |-> Unit(job[r])],
        clean <- [r \in Requests |-> clean[r] /\ Scope(r) \in TxScopes]

\* transaction() "must be all-or-nothing": whatever statements run between the
\* statements of a unit, fail or are rolled back, its writes appear together or not
\* at all, they replace exactly what it meant to replace unless another unit ended
\* meanwhile, and no reader sees half of them.
UnitsAreAtomic == Atomic!Spec

\* With a pool of two connections or more nobody waits forever: a transaction needs
\* no second connection, and of a process only one request at a time holds one for
\* the advisory lock.
EveryoneIsServed == <>[](\A r \in Requests : pc[r] \in {"begin", "done", "failed"})

\* Replicas that boot at once: each finds the column missing or there, none fails
\* because another was faster, and the schema is whole when the first is up.
BootCompletes ==
    \A r \in Requests :
        Kind(r) = "boot" =>
            /\ pc[r] = "failed" => faults > 0
            /\ pc[r] = "done" => Keys(committed["schema"]) = {"table", "column", "index"}
=============================================================================
