--------------------------- MODULE DatabaseProofs ---------------------------
(***************************************************************************)
(* On Postgres, and on SQLite when requests do not overlap, the database    *)
(* boundary implements Replace: the units of work of the handlers are       *)
(* atomic, whatever the requests, the handlers and the faults.              *)
(***************************************************************************)
EXTENDS Database, TLAPS

Active(r) == pc[r] \notin {"begin", "done", "failed"}
Early == {"begin", "open", "serial", "connect", "advisory"}

\* What the statements of a handler before the n-th drop and put.
Drops(j, n) == UNION {j.program[i].keys : i \in {i \in Positions(j, "delete") : i < n}}
Puts(j, n) == UNION {j.program[i].rows : i \in {i \in Positions(j, "insert") : i < n}}

ShapeOK ==
    /\ DOMAIN committed = Scopes /\ DOMAIN view = Scopes
    /\ DOMAIN job = Requests /\ DOMAIN pc = Requests /\ DOMAIN at = Requests
    /\ DOMAIN snap = Requests /\ DOMAIN tx = Requests /\ DOMAIN seen = Requests
    /\ clean \in [Requests -> BOOLEAN]
    /\ \A r \in Requests :
          /\ at[r] \in Nat \ {0}
          /\ pc[r] \in Early => at[r] = 1
          /\ pc[r] # "begin" => job[r] \in Jobs[r]
          /\ pc[r] = "begin" => ~clean[r]
          /\ pc[r] = "run" => Postgres /\ More(r)
          /\ ~InTx(r) => tx[r] = NoWrites

\* Postgres: what an open transaction has deleted and added; as long as no other unit
\* ended, that this is all there was to delete, and that its statement saw all of it.
Kept(r) ==
    /\ Kind(r) = "tx" =>
         /\ tx[r].add = Puts(job[r], at[r])
         /\ \A row \in tx[r].del : row[1] \in Drops(job[r], at[r])
         /\ clean[r] =>
              \A row \in committed[Scope(r)] : row[1] \in Drops(job[r], at[r]) => row \in tx[r].del
    /\ clean[r] /\ pc[r] = "run" => Found(r) \subseteq snap[r]

PgInv ==
    Postgres => \A r \in Requests : pc[r] \in {"ready", "run"} /\ Scope(r) \in TxScopes => Kept(r)

\* SQLite: one request at a time; only its rows differ from the committed ones.
Behind(r) ==
    view[Scope(r)] = {row \in committed[Scope(r)] : row[1] \notin Drops(job[r], at[r])}
                       \cup Puts(job[r], at[r])

LiteInv ==
    ~Postgres =>
        /\ \A r, q \in Requests : Active(r) /\ Active(q) => r = q
        /\ \A s \in TxScopes : \/ view[s] = committed[s]
                               \/ \E r \in Requests : Active(r) /\ Scope(r) = s
        /\ \A r \in Requests : Active(r) /\ Scope(r) \in TxScopes => Behind(r)

UnitInv == ShapeOK /\ PgInv /\ LiteInv

-----------------------------------------------------------------------------
(* The programs of the handlers. *)

LEMMA ScopesOfUnits == TxScopes \subseteq Scopes
  BY DEF TxScopes, Scopes

LEMMA AtTheStart ==
  ASSUME NEW j
  PROVE  /\ j.program \in Seq({j.program[i] : i \in DOMAIN j.program}) =>
              Drops(j, 1) = {} /\ Puts(j, 1) = {}
  <1> SUFFICES ASSUME j.program \in Seq({j.program[i] : i \in DOMAIN j.program})
               PROVE  Drops(j, 1) = {} /\ Puts(j, 1) = {}
    OBVIOUS
  <1>1. \A i \in DOMAIN j.program : ~(i < 1)
    OBVIOUS
  <1> QED
    BY <1>1 DEF Drops, Puts, Positions

\* The n-th statement adds to what was dropped and put before it.
LEMMA OneMore ==
  ASSUME NEW j, NEW n \in Nat \ {0}, n <= Len(j.program),
         j.program \in Seq({j.program[i] : i \in DOMAIN j.program})
  PROVE  /\ Drops(j, n + 1) = Drops(j, n) \cup
              (IF j.program[n].op = "delete" THEN j.program[n].keys ELSE {})
         /\ Puts(j, n + 1) = Puts(j, n) \cup
              (IF j.program[n].op = "insert" THEN j.program[n].rows ELSE {})
  <1>1. n \in DOMAIN j.program /\ DOMAIN j.program \subseteq Nat
    OBVIOUS
  <1>2. \A i \in DOMAIN j.program : i < n + 1 <=> i < n \/ i = n
    BY <1>1
  <1>3. \A op : {i \in Positions(j, op) : i < n + 1} = {i \in Positions(j, op) : i < n} \cup
                  (IF j.program[n].op = op THEN {n} ELSE {})
    BY <1>1, <1>2 DEF Positions
  <1>4. Drops(j, n + 1) = Drops(j, n) \cup
              (IF j.program[n].op = "delete" THEN j.program[n].keys ELSE {})
    BY <1>3 DEF Drops
  <1>5. Puts(j, n + 1) = Puts(j, n) \cup
              (IF j.program[n].op = "insert" THEN j.program[n].rows ELSE {})
    BY <1>3 DEF Puts
  <1> QED
    BY <1>4, <1>5

\* After the last statement that is the whole unit.
LEMMA AtTheEnd ==
  ASSUME NEW j, NEW n \in Nat \ {0}, ~(n <= Len(j.program)),
         j.program \in Seq({j.program[i] : i \in DOMAIN j.program})
  PROVE  Drops(j, n) = Unit(j).drop /\ Puts(j, n) = Unit(j).put
  <1>1. \A i \in DOMAIN j.program : i < n
    OBVIOUS
  <1>2. Drops(j, n) = UNION {j.program[i].keys : i \in Positions(j, "delete")}
    BY <1>1 DEF Drops, Positions
  <1>3. Puts(j, n) = UNION {j.program[i].rows : i \in Positions(j, "insert")}
    BY <1>1 DEF Puts, Positions
  <1>4. Unit(j).drop = UNION {j.program[i].keys : i \in Positions(j, "delete")}
    BY DEF Unit, Positions
  <1>5. Unit(j).put = UNION {j.program[i].rows : i \in Positions(j, "insert")}
    BY DEF Unit, Positions
  <1> QED
    BY <1>2, <1>3, <1>4, <1>5

LEMMA PutIsNotDropped ==
  ASSUME NEW j, NEW n \in Nat \ {0}, n <= Len(j.program),
         j.program \in Seq({j.program[i] : i \in DOMAIN j.program}), IsUnit(j),
         j.program[n].op = "delete"
  PROVE  \A row \in Puts(j, n) : row[1] \notin j.program[n].keys
  <1>1. n \in Positions(j, "delete")
    BY DEF Positions
  <1>2. TAKE row \in Puts(j, n)
  <1>3. PICK i \in Positions(j, "insert") : i < n /\ row \in j.program[i].rows
    BY <1>2 DEF Puts
  <1>4. Keys(j.program[i].rows) \cap j.program[n].keys = {}
    BY <1>1, <1>3 DEF IsUnit
  <1> QED
    BY <1>3, <1>4 DEF Keys

\* A reader and a single DELETE put nothing; a reader drops nothing.
LEMMA NothingPut ==
  ASSUME NEW j, NEW n, IsUnit(j), j.kind # "tx"
  PROVE  /\ Puts(j, n) = {}
         /\ j.kind = "read" => Drops(j, n) = {}
  <1>1. Positions(j, "insert") = {}
    BY DEF IsUnit, Positions
  <1>2. j.kind = "read" => Positions(j, "delete") = {}
    BY DEF IsUnit, Positions
  <1> QED
    BY <1>1, <1>2 DEF Puts, Drops

-----------------------------------------------------------------------------
(* The invariant. *)

LEMMA ShapeStarts ==
  Init => ShapeOK
  <1> SUFFICES ASSUME Init PROVE ShapeOK
    OBVIOUS
  <1>1. /\ DOMAIN committed = Scopes /\ DOMAIN view = Scopes
        /\ DOMAIN job = Requests /\ DOMAIN pc = Requests /\ DOMAIN at = Requests
        /\ DOMAIN snap = Requests /\ DOMAIN tx = Requests /\ DOMAIN seen = Requests
        /\ clean \in [Requests -> BOOLEAN]
    BY DEF Init
  <1>2. \A r \in Requests : pc[r] = "begin" /\ at[r] = 1 /\ ~clean[r] /\ tx[r] = NoWrites
    BY DEF Init
  <1> QED
    BY <1>1, <1>2 DEF ShapeOK, InTx

LEMMA ShapeKept ==
  ASSUME ShapeOK, [Next]_vars
  PROVE  ShapeOK'
  <1>0. CASE UNCHANGED vars
    BY <1>0 DEF vars, ShapeOK, InTx, Kind, More, Postgres
  <1> SUFFICES ASSUME Next PROVE ShapeOK'
    BY <1>0
  <1>1. PICK r \in Requests : Begin(r) \/ Step(r) \/ StatementFails(r)
    BY DEF Next
  <1>2. CASE Begin(r)
    <2>1. PICK j \in Jobs[r] :
            /\ job' = [job EXCEPT ![r] = j]
            /\ pc' = [pc EXCEPT ![r] = CASE j.kind = "tx" -> "open"
                                         [] j.kind = "serial" -> "serial"
                                         [] j.kind = "boot" -> "connect"
                                         [] OTHER -> "ready"]
      BY <1>2 DEF Begin, Goto
    <2>2. pc[r] = "begin" /\ at[r] = 1 /\ ~InTx(r) /\ ~clean[r]
      BY <1>2 DEF Begin, ShapeOK, Early, InTx
    <2>3. job'[r] = j /\ pc'[r] \in {"open", "serial", "connect", "ready"}
      BY <2>1 DEF ShapeOK
    <2>4. \A q \in Requests \ {r} : pc'[q] = pc[q] /\ job'[q] = job[q]
      BY <2>1 DEF ShapeOK
    <2>5. UNCHANGED <<backend, committed, view, at, snap, tx, clean, seen>>
      BY <1>2 DEF Begin
    <2>6. /\ at'[r] \in Nat \ {0} /\ at'[r] = 1 /\ job'[r] \in Jobs[r] /\ tx'[r] = NoWrites
          /\ pc'[r] # "begin" /\ pc'[r] # "run"
      BY <2>2, <2>3, <2>5 DEF ShapeOK
    <2>7. DOMAIN job' = Requests /\ DOMAIN pc' = Requests
      BY <2>1 DEF ShapeOK
    <2> QED
      BY <2>4, <2>5, <2>6, <2>7 DEF ShapeOK, InTx, Kind, More, Postgres
  <1>3. ASSUME NEW l, pc' = [pc EXCEPT ![r] = l], l \in {"connect", "advisory", "ready"},
               pc[r] \in Early \ {"begin"},
               UNCHANGED <<backend, committed, view, job, at, snap, tx, seen>>,
               clean' \in [Requests -> BOOLEAN],
               \A q \in Requests \ {r} : clean'[q] = clean[q]
        PROVE  ShapeOK'
    <2>1. \A q \in Requests \ {r} : pc'[q] = pc[q]
      BY <1>3 DEF ShapeOK
    <2>2. pc'[r] = l /\ DOMAIN pc' = Requests /\ at'[r] = 1 /\ tx'[r] = NoWrites
      BY <1>3 DEF ShapeOK, Early, InTx
    <2>3. job'[r] \in Jobs[r]
      BY <1>3 DEF ShapeOK
    <2> QED
      BY <1>3, <2>1, <2>2, <2>3 DEF ShapeOK, InTx, Kind, More, Postgres
  <1>4. CASE OpenTransaction(r)
    BY <1>3, <1>4 DEF OpenTransaction, Goto, Early, ShapeOK
  <1>5. CASE LockProcess(r)
    BY <1>3, <1>5 DEF LockProcess, Goto, Early, ShapeOK
  <1>6. CASE ConnectForLock(r)
    BY <1>3, <1>6 DEF ConnectForLock, Goto, Early, ShapeOK
  <1>7. CASE AdvisoryLock(r)
    BY <1>3, <1>7 DEF AdvisoryLock, Goto, Early, ShapeOK
  <1>8. CASE StartStatement(r)
    <2>1. /\ pc' = [pc EXCEPT ![r] = "run"] /\ snap' = [snap EXCEPT ![r] = Found(r)]
          /\ DOMAIN seen' = Requests
          /\ UNCHANGED <<backend, committed, view, job, at, tx>>
      BY <1>8 DEF StartStatement, Goto, ShapeOK
    <2>2. clean' \in [Requests -> BOOLEAN] /\ \A q \in Requests \ {r} : clean'[q] = clean[q]
      BY <1>8 DEF StartStatement, ShapeOK
    <2>3. pc[r] = "ready" /\ Postgres /\ More(r)
      BY <1>8 DEF StartStatement
    <2>4. pc'[r] = "run" /\ \A q \in Requests \ {r} : pc'[q] = pc[q]
      BY <2>1 DEF ShapeOK
    <2> QED
      BY <2>1, <2>2, <2>3, <2>4 DEF ShapeOK, InTx, Kind, More, Postgres, Early
  <1>9. CASE Execute(r)
    <2>1. /\ pc' = [pc EXCEPT ![r] = "ready"] /\ at' = [at EXCEPT ![r] = @ + 1]
          /\ DOMAIN seen' = Requests
          /\ UNCHANGED <<backend, job, snap>>
      BY <1>9 DEF Execute, Goto, ShapeOK
    <2>2. DOMAIN committed' = Scopes /\ DOMAIN view' = Scopes /\ DOMAIN tx' = Requests
      BY <1>9 DEF Execute, Write, ShapeOK
    <2>3. \A q \in Requests : q # r \/ ~InTx(r) => tx'[q] = tx[q]
      BY <1>9 DEF Execute, Write, ShapeOK
    <2>4. /\ clean' \in [Requests -> BOOLEAN]
          /\ \A q \in Requests : clean'[q] => clean[q]
      BY <1>9 DEF Execute, Write, Ended, ShapeOK
    <2>5. pc[r] \in {"ready", "run"}
      BY <1>9 DEF Execute, AtStatement
    <2>6. pc'[r] = "ready" /\ \A q \in Requests \ {r} : pc'[q] = pc[q] /\ at'[q] = at[q]
      BY <2>1 DEF ShapeOK
    <2>7. at'[r] \in Nat \ {0}
      BY <2>1 DEF ShapeOK
    <2>8. InTx(r)' <=> InTx(r)
      BY <2>1, <2>5, <2>6 DEF InTx, Kind
    <2>9. \A q \in Requests \ {r} : (InTx(q)' <=> InTx(q)) /\ (More(q)' <=> More(q))
      BY <2>1, <2>6 DEF InTx, Kind, More
    <2>10. \A q \in Requests : ~InTx(q)' => tx'[q] = NoWrites
      BY <2>3, <2>8, <2>9 DEF ShapeOK
    <2>11. \A q \in Requests : /\ pc'[q] \in Early => at'[q] = 1
                               /\ pc'[q] # "begin" => job'[q] \in Jobs[q]
                               /\ pc'[q] = "begin" => ~clean'[q]
                               /\ pc'[q] = "run" => Postgres' /\ More(q)'
      BY <2>1, <2>4, <2>5, <2>6, <2>9 DEF ShapeOK, Early, Postgres
    <2>12. DOMAIN job' = Requests /\ DOMAIN pc' = Requests /\ DOMAIN at' = Requests
             /\ DOMAIN snap' = Requests
      BY <2>1 DEF ShapeOK
    <2>13. \A q \in Requests : at'[q] \in Nat \ {0}
      BY <2>6, <2>7 DEF ShapeOK
    <2> QED
      BY <2>1, <2>2, <2>4, <2>10, <2>11, <2>12, <2>13 DEF ShapeOK
  <1>10. ASSUME NEW l \in {"done", "failed"}, Leave(r, l), pc[r] \in {"ready", "run"},
                DOMAIN committed' = Scopes, DOMAIN view' = Scopes,
                clean' \in [Requests -> BOOLEAN],
                \A q \in Requests : clean'[q] => clean[q]
         PROVE  ShapeOK'
    <2>1. /\ pc' = [pc EXCEPT ![r] = l] /\ snap' = [snap EXCEPT ![r] = {}]
          /\ tx' = [tx EXCEPT ![r] = NoWrites]
          /\ UNCHANGED <<backend, job, at, seen>>
      BY <1>10 DEF Leave, Goto
    <2>2. pc'[r] = l /\ tx'[r] = NoWrites
      BY <2>1 DEF ShapeOK
    <2>3. \A q \in Requests \ {r} : pc'[q] = pc[q] /\ tx'[q] = tx[q]
      BY <2>1 DEF ShapeOK
    <2>4. DOMAIN pc' = Requests /\ DOMAIN snap' = Requests /\ DOMAIN tx' = Requests
      BY <2>1 DEF ShapeOK
    <2>5. job'[r] \in Jobs[r]
      BY <1>10, <2>1 DEF ShapeOK
    <2> QED
      BY <1>10, <2>1, <2>2, <2>3, <2>4, <2>5 DEF ShapeOK, InTx, Kind, More, Postgres, Early
  <1>11. CASE Commit(r)
    <2>1. DOMAIN committed' = Scopes /\ DOMAIN view' = Scopes
      BY <1>11 DEF Commit, ShapeOK
    <2>2. clean' \in [Requests -> BOOLEAN] /\ \A q \in Requests : clean'[q] => clean[q]
      BY <1>11 DEF Commit, Ended, ShapeOK
    <2> QED
      BY <1>10, <1>11, <2>1, <2>2 DEF Commit
  <1>12. CASE Unwind(r) /\ pc[r] \in {"ready", "run"}
    <2>1. DOMAIN committed' = Scopes /\ DOMAIN view' = Scopes
      BY <1>12 DEF Unwind, ShapeOK
    <2>2. clean' \in [Requests -> BOOLEAN] /\ \A q \in Requests : clean'[q] => clean[q]
      BY <1>12 DEF Unwind, ShapeOK
    <2> QED
      BY <1>10, <1>12, <2>1, <2>2 DEF Unwind
  <1>13. CASE StatementRefused(r) \/ Deadlocked(r) \/ StatementFails(r)
    BY <1>12, <1>13 DEF StatementRefused, Deadlocked, StatementFails, AtStatement
  <1> QED
    BY <1>1, <1>2, <1>4, <1>5, <1>6, <1>7, <1>8, <1>9, <1>11, <1>13 DEF Step

\* A handler that has run nothing yet has written nothing.
LEMMA NothingYet ==
  ASSUME HandlersAreUnits, NEW r \in Requests, NEW j \in Jobs[r]
  PROVE  Drops(j, 1) = {} /\ Puts(j, 1) = {}
  BY AtTheStart DEF HandlersAreUnits

\* What other requests may do to an open unit.
LEMMA OthersKeep ==
  ASSUME NEW q \in Requests, Kept(q), Postgres, backend' = backend,
         job'[q] = job[q], at'[q] = at[q], tx'[q] = tx[q], pc'[q] = pc[q],
         clean'[q] => /\ clean[q] /\ snap'[q] = snap[q]
                      /\ committed'[Scope(q)] = committed[Scope(q)]
  PROVE  Kept(q)'
  <1>1. Scope(q)' = Scope(q) /\ Kind(q)' = Kind(q)
    BY DEF Scope, Kind
  <1>2. ASSUME Kind(q)' = "tx"
        PROVE  /\ tx'[q].add = Puts(job'[q], at'[q])
               /\ \A row \in tx'[q].del : row[1] \in Drops(job'[q], at'[q])
    BY <1>1, <1>2 DEF Kept
  <1>3. ASSUME Kind(q)' = "tx", clean'[q]
        PROVE  \A row \in committed'[Scope(q)'] :
                  row[1] \in Drops(job'[q], at'[q]) => row \in tx'[q].del
    BY <1>1, <1>3 DEF Kept
  <1>4. ASSUME clean'[q], pc'[q] = "run"
        PROVE  Found(q)' \subseteq snap'[q]
    <2>1. Found(q)' = Found(q)
      BY <1>1, <1>4 DEF Found, Postgres
    <2> QED
      BY <1>4, <2>1 DEF Kept
  <1> QED
    BY <1>2, <1>3, <1>4 DEF Kept, Scope

\* What a statement of an open unit does to it.
LEMMA ExecuteKeeps ==
  ASSUME HandlersAreUnits, ShapeOK, Postgres, NEW r \in Requests, Kept(r), Execute(r),
         Scope(r) \in TxScopes, Kind(r) = "tx"
  PROVE  Kept(r)'
  <1> DEFINE j == job[r]
             n == at[r]
             st == j.program[n]
             gone == Targets(r) \cap Found(r)
             new == New(r)
  <1>1. pc[r] = "run" /\ n <= Len(j.program) /\ InTx(r)
    BY DEF Execute, AtStatement, More, InTx
  <1>2. n \in Nat \ {0} /\ j \in Jobs[r]
    BY <1>1 DEF ShapeOK
  <1>3. j.program \in Seq({j.program[i] : i \in DOMAIN j.program}) /\ IsUnit(j)
    BY <1>2 DEF HandlersAreUnits, Scope
  <1>4. n \in DOMAIN j.program
    BY <1>1, <1>2, <1>3
  <1>5. st.op \in {"delete", "insert", "select"} /\ (st.op # "insert" => st.rows = {})
    BY <1>3, <1>4 DEF IsUnit, Positions
  <1>6. /\ Drops(j, n + 1) = Drops(j, n) \cup (IF st.op = "delete" THEN st.keys ELSE {})
        /\ Puts(j, n + 1) = Puts(j, n) \cup (IF st.op = "insert" THEN st.rows ELSE {})
    BY <1>1, <1>2, <1>3, OneMore
  <1>7. /\ job'[r] = j /\ at'[r] = n + 1 /\ pc'[r] = "ready"
    BY DEF Execute, Goto, ShapeOK
  <1>8. /\ tx'[r].del = tx[r].del \cup (gone \ tx[r].add)
        /\ tx'[r].add = (tx[r].add \ gone) \cup new
        /\ committed' = committed /\ clean' = clean
    BY <1>1 DEF Execute, Write, ShapeOK
  <1>9. new = IF st.op = "insert" THEN st.rows ELSE {}
    BY <1>5 DEF New, Statement
  <1>10. /\ st.op # "delete" => gone = {}
         /\ st.op = "delete" => gone = {row \in snap[r] : row[1] \in st.keys} \cap Found(r)
    BY DEF Targets, Snapshot, Statement
  <1>11. Found(r) = (committed[Scope(r)] \ tx[r].del) \cup tx[r].add
    BY DEF Found
  <1>12. tx[r].add = Puts(j, n)
    BY DEF Kept
  <1>13. tx[r].add \cap gone = {}
    <2>1. CASE st.op = "delete"
      <3>1. \A row \in Puts(j, n) : row[1] \notin st.keys
        BY <1>1, <1>2, <1>3, <2>1, PutIsNotDropped
      <3> QED
        BY <1>10, <1>12, <2>1, <3>1
    <2> QED
      BY <1>10, <2>1
  <1>14. tx'[r].add = Puts(j, n + 1)
    BY <1>6, <1>8, <1>9, <1>12, <1>13
  <1>15. \A row \in tx'[r].del : row[1] \in Drops(j, n + 1)
    <2>1. \A row \in tx[r].del : row[1] \in Drops(j, n)
      BY DEF Kept
    <2>2. \A row \in gone : row[1] \in Drops(j, n + 1)
      BY <1>6, <1>10
    <2> QED
      BY <1>6, <1>8, <2>1, <2>2
  <1>16. ASSUME clean[r], NEW row \in committed[Scope(r)], row[1] \in Drops(j, n + 1)
         PROVE  row \in tx'[r].del
    <2>1. CASE row[1] \in Drops(j, n)
      BY <1>8, <1>16, <2>1 DEF Kept
    <2>2. CASE st.op = "delete" /\ row[1] \in st.keys /\ row \notin tx[r].del
      <3>1. Found(r) \subseteq snap[r]
        BY <1>1, <1>16 DEF Kept
      <3>2. row \in gone
        BY <1>10, <1>11, <1>16, <2>2, <3>1
      <3> QED
        BY <1>8, <1>13, <3>2
    <2> QED
      BY <1>6, <1>8, <1>16, <2>1, <2>2
  <1>17. Scope(r)' = Scope(r)
    BY <1>7 DEF Scope
  <1> HIDE DEF j, n, st, gone, new
  <1>18. /\ tx'[r].add = Puts(job'[r], at'[r])
         /\ \A row \in tx'[r].del : row[1] \in Drops(job'[r], at'[r])
    BY <1>7, <1>14, <1>15
  <1>19. clean'[r] => \A row \in committed'[Scope(r)'] :
            row[1] \in Drops(job'[r], at'[r]) => row \in tx'[r].del
    BY <1>7, <1>8, <1>16, <1>17
  <1> QED
    BY <1>7, <1>18, <1>19 DEF Kept, Scope

LEMMA PgKept ==
  ASSUME HandlersAreUnits, ShapeOK, PgInv, [Next]_vars
  PROVE  PgInv'
  <1>0. CASE UNCHANGED vars
    BY <1>0 DEF vars, PgInv, Kept, Postgres, Scope, Kind, Found
  <1> SUFFICES ASSUME Next, Postgres',
                      NEW q \in Requests, pc'[q] \in {"ready", "run"}, Scope(q)' \in TxScopes
               PROVE  Kept(q)'
    BY <1>0 DEF PgInv
  <1>1. PICK r \in Requests : Begin(r) \/ Step(r) \/ StatementFails(r)
    BY DEF Next
  <1>s. ShapeOK'
    BY ShapeKept
  <1>2. backend' = backend
    BY <1>1 DEF Begin, Step, OpenTransaction, LockProcess, ConnectForLock, AdvisoryLock,
         StartStatement, Execute, Commit, Leave, StatementRefused, Deadlocked, Unwind,
         StatementFails
  <1>3. Postgres
    BY <1>2 DEF Postgres
  <1>4. ASSUME q # r
        PROVE  /\ job'[q] = job[q] /\ at'[q] = at[q] /\ tx'[q] = tx[q] /\ pc'[q] = pc[q]
               /\ snap'[q] = snap[q] /\ (clean'[q] => clean[q])
    <2>1. CASE Begin(r)
      BY <1>4, <2>1 DEF Begin, Goto, ShapeOK
    <2>2. CASE OpenTransaction(r) \/ LockProcess(r) \/ ConnectForLock(r) \/ AdvisoryLock(r)
      BY <1>4, <2>2 DEF OpenTransaction, LockProcess, ConnectForLock, AdvisoryLock, Goto,
           ShapeOK
    <2>3. CASE StartStatement(r)
      BY <1>4, <2>3 DEF StartStatement, Goto, ShapeOK
    <2>4. CASE Execute(r)
      BY <1>4, <2>4 DEF Execute, Write, Ended, Goto, ShapeOK
    <2>5. CASE Commit(r)
      BY <1>4, <2>5 DEF Commit, Leave, Ended, Goto, ShapeOK
    <2>6. CASE Unwind(r)
      BY <1>4, <2>6 DEF Unwind, Leave, Goto, ShapeOK
    <2> QED
      BY <1>1, <2>1, <2>2, <2>3, <2>4, <2>5, <2>6
      DEF Step, StatementRefused, Deadlocked, StatementFails
  <1>5. ASSUME q # r, clean'[q], Scope(q) \in TxScopes
        PROVE  committed'[Scope(q)] = committed[Scope(q)]
    <2>1. CASE ~(Execute(r) \/ Commit(r))
      BY <1>1, <2>1 DEF Begin, Step, OpenTransaction, LockProcess, ConnectForLock,
           AdvisoryLock, StartStatement, StatementRefused, Deadlocked, Unwind, StatementFails
    <2>2. CASE Execute(r) /\ InTx(r)
      BY <1>3, <2>2 DEF Execute, Write
    <2>3. CASE Execute(r) /\ ~InTx(r) /\ Kind(r) # "read"
      <3>1. clean' = Ended(r)
              /\ \E x, y : committed' = [committed EXCEPT ![Scope(r)] = (@ \ x) \cup y]
        BY <1>3, <2>3 DEF Execute, Write
      <3>2. Scope(q) # Scope(r)
        BY <1>5, <3>1 DEF Ended
      <3>3. Scope(q) \in DOMAIN committed
        BY <1>5, ScopesOfUnits DEF ShapeOK
      <3> QED
        BY <3>1, <3>2, <3>3
    <2>4. CASE Execute(r) /\ ~InTx(r) /\ Kind(r) = "read"
      <3>1. at[r] \in DOMAIN job[r].program /\ pc[r] = "run" /\ job[r] \in Jobs[r]
        <4>1. /\ pc[r] = "run" /\ at[r] <= Len(job[r].program)
          BY <1>3, <2>4 DEF Execute, AtStatement, More
        <4>2. at[r] \in Nat \ {0} /\ job[r] \in Jobs[r]
          BY <4>1 DEF ShapeOK
        <4>3. job[r].program \in Seq({job[r].program[i] : i \in DOMAIN job[r].program})
          BY <4>2 DEF HandlersAreUnits
        <4> QED
          BY <4>1, <4>2, <4>3
      <3>2. IsUnit(job[r]) /\ job[r].kind = "read"
        BY <2>4, <3>1 DEF HandlersAreUnits, Kind
      <3>3. Statement(r).op = "select" /\ Statement(r).rows = {}
        BY <3>1, <3>2 DEF IsUnit, Positions, Statement
      <3>4. Targets(r) = {} /\ New(r) = {}
        BY <3>3 DEF Targets, New
      <3>5. committed' = [committed EXCEPT ![Scope(r)] =
                            (@ \ (Targets(r) \cap Found(r))) \cup New(r)]
        BY <1>3, <2>4 DEF Execute, Write
      <3> QED
        BY <3>4, <3>5
    <2>5. CASE Commit(r) /\ Kind(r) = "tx"
      <3>1. clean' = Ended(r)
              /\ committed' = [committed EXCEPT ![Scope(r)] = (@ \ tx[r].del) \cup tx[r].add]
        BY <1>3, <2>5 DEF Commit
      <3>2. Scope(q) # Scope(r)
        BY <1>5, <3>1 DEF Ended
      <3> QED
        BY <3>1, <3>2
    <2>6. CASE Commit(r) /\ Kind(r) # "tx"
      <3>1. tx[r].del = {} /\ tx[r].add = {}
        BY <2>6 DEF ShapeOK, InTx, NoWrites
      <3>2. committed' = [committed EXCEPT ![Scope(r)] = (@ \ tx[r].del) \cup tx[r].add]
        BY <1>3, <2>6 DEF Commit
      <3> QED
        BY <3>1, <3>2
    <2> QED
      BY <2>1, <2>2, <2>3, <2>4, <2>5, <2>6
  <1>6. CASE q # r
    <2>1. Scope(q) = Scope(q)'
      BY <1>4, <1>6 DEF Scope
    <2>2. Kept(q)
      BY <1>3, <1>4, <1>6, <2>1 DEF PgInv
    <2> QED
      BY <1>2, <1>3, <1>4, <1>5, <1>6, <2>1, <2>2, OthersKeep
  <1>7. ASSUME q = r, pc[r] \in Early, at' = at, tx' = tx, pc'[r] = "ready"
        PROVE  Kept(q)'
    <2>1. tx'[q] = NoWrites /\ at'[q] = 1 /\ job'[q] \in Jobs[q]
      BY <1>7, <1>s DEF ShapeOK, InTx, Early
    <2>2. Drops(job'[q], at'[q]) = {} /\ Puts(job'[q], at'[q]) = {}
      BY <2>1, NothingYet
    <2>3. tx'[q].add = {} /\ tx'[q].del = {}
      BY <2>1 DEF NoWrites
    <2> QED
      BY <1>7, <2>2, <2>3 DEF Kept
  <1>8. CASE q = r /\ Begin(r)
    BY <1>7, <1>8 DEF Begin, Goto, ShapeOK, Early
  <1>9. CASE q = r /\ (OpenTransaction(r) \/ LockProcess(r) \/ ConnectForLock(r) \/ AdvisoryLock(r))
    BY <1>7, <1>9 DEF OpenTransaction, LockProcess, ConnectForLock, AdvisoryLock, Goto,
         ShapeOK, Early
  <1>10. CASE q = r /\ StartStatement(r)
    <2>1. /\ snap' = [snap EXCEPT ![r] = Found(r)] /\ pc[r] = "ready"
          /\ UNCHANGED <<backend, committed, view, job, at, tx>>
      BY <1>10 DEF StartStatement
    <2>2. Scope(q)' = Scope(q) /\ Kind(q)' = Kind(q) /\ Found(q)' = Found(q)
      BY <2>1 DEF Scope, Kind, Found, Postgres
    <2>3. snap'[q] = Found(q)
      BY <1>10, <2>1 DEF ShapeOK
    <2>4. Kept(q)
      BY <1>3, <1>10, <2>1, <2>2 DEF PgInv
    <2>5. Kind(q) = "tx" => clean' = clean
      BY <1>10 DEF StartStatement, ShapeOK
    <2>6. Kind(q)' = "tx" =>
             /\ tx'[q].add = Puts(job'[q], at'[q])
             /\ \A row \in tx'[q].del : row[1] \in Drops(job'[q], at'[q])
      BY <2>1, <2>2, <2>4 DEF Kept
    <2>7. Kind(q)' = "tx" /\ clean'[q] =>
             \A row \in committed'[Scope(q)'] :
                row[1] \in Drops(job'[q], at'[q]) => row \in tx'[q].del
      BY <2>1, <2>2, <2>4, <2>5 DEF Kept
    <2>8. Found(q)' \subseteq snap'[q]
      BY <2>2, <2>3
    <2> QED
      BY <2>6, <2>7, <2>8 DEF Kept, Scope
  <1>11. CASE q = r /\ Execute(r)
    <2>1. pc'[q] = "ready" /\ Scope(q)' = Scope(q) /\ Kind(q)' = Kind(q) /\ pc[q] = "run"
      BY <1>3, <1>11 DEF Execute, AtStatement, Goto, Scope, Kind, ShapeOK
    <2>2. CASE Kind(q) = "tx"
      <3>1. Kept(q)
        BY <1>3, <2>1 DEF PgInv
      <3> QED
        BY <1>3, <1>11, <2>1, <2>2, <3>1, ExecuteKeeps
    <2>3. CASE Kind(q) # "tx"
      BY <2>1, <2>3 DEF Kept
    <2> QED
      BY <2>2, <2>3
  <1>12. CASE q = r /\ (Commit(r) \/ Unwind(r))
    BY <1>12 DEF Commit, Unwind, Leave, Goto, ShapeOK
  <1> QED
    BY <1>1, <1>6, <1>8, <1>9, <1>10, <1>11, <1>12
    DEF Step, StatementRefused, Deadlocked, StatementFails

\* On SQLite a statement of the only active handler keeps its rows as its program says.
LEMMA ExecuteStaysBehind ==
  ASSUME HandlersAreUnits, ShapeOK, ~Postgres, NEW r \in Requests, Behind(r), Execute(r),
         Scope(r) \in TxScopes
  PROVE  Behind(r)'
  <1> DEFINE j == job[r]
             n == at[r]
             st == j.program[n]
             s == Scope(r)
             gone == Targets(r) \cap Found(r)
             new == New(r)
  <1>1. pc[r] = "ready" /\ n <= Len(j.program)
    BY DEF Execute, AtStatement, More
  <1>2. n \in Nat \ {0} /\ j \in Jobs[r]
    BY <1>1 DEF ShapeOK
  <1>3. j.program \in Seq({j.program[i] : i \in DOMAIN j.program}) /\ IsUnit(j)
    BY <1>2 DEF HandlersAreUnits, Scope
  <1>4. n \in DOMAIN j.program
    BY <1>1, <1>2, <1>3
  <1>5. st.op \in {"delete", "insert", "select"} /\ (st.op # "insert" => st.rows = {})
    BY <1>3, <1>4 DEF IsUnit, Positions
  <1>6. /\ Drops(j, n + 1) = Drops(j, n) \cup (IF st.op = "delete" THEN st.keys ELSE {})
        /\ Puts(j, n + 1) = Puts(j, n) \cup (IF st.op = "insert" THEN st.rows ELSE {})
    BY <1>1, <1>2, <1>3, OneMore
  <1>7. job'[r] = j /\ at'[r] = n + 1 /\ Scope(r)' = s
    BY DEF Execute, ShapeOK, Scope
  <1>8. s \in DOMAIN view
    BY ScopesOfUnits DEF ShapeOK
  <1>9. view'[s] = (view[s] \ gone) \cup new /\ committed' = committed
    BY <1>8 DEF Execute, Write
  <1>10. new = IF st.op = "insert" THEN st.rows ELSE {}
    BY <1>5 DEF New, Statement
  <1>11. /\ st.op # "delete" => gone = {}
         /\ st.op = "delete" => gone = {row \in view[s] : row[1] \in st.keys}
    BY DEF Targets, Snapshot, Statement, Found
  <1>12. view[s] = {row \in committed[s] : row[1] \notin Drops(j, n)} \cup Puts(j, n)
    BY DEF Behind
  <1>13. st.op = "delete" => \A row \in Puts(j, n) : row[1] \notin st.keys
    BY <1>1, <1>2, <1>3, PutIsNotDropped
  <1> HIDE DEF j, n, st, s, gone, new
  <1>14. view'[s] = {row \in committed'[s] : row[1] \notin Drops(j, n + 1)} \cup Puts(j, n + 1)
    <2>1. CASE st.op = "delete"
      BY <1>6, <1>9, <1>10, <1>11, <1>12, <1>13, <2>1
    <2>2. CASE st.op = "insert"
      BY <1>6, <1>9, <1>10, <1>11, <1>12, <2>2
    <2>3. CASE st.op = "select"
      BY <1>6, <1>9, <1>10, <1>11, <1>12, <2>3
    <2> QED
      BY <1>5, <2>1, <2>2, <2>3
  <1> QED
    BY <1>7, <1>14 DEF Behind, Scope

LEMMA LiteKept ==
  ASSUME HandlersAreUnits, Overlapping \subseteq {"postgres"}, ShapeOK, LiteInv, [Next]_vars
  PROVE  LiteInv'
  <1>0. CASE UNCHANGED vars
    BY <1>0 DEF vars, LiteInv, Behind, Postgres, Scope, Active
  <1> SUFFICES ASSUME Next, ~Postgres' PROVE LiteInv'
    BY <1>0 DEF LiteInv
  <1>1. PICK r \in Requests : Begin(r) \/ Step(r) \/ StatementFails(r)
    BY DEF Next
  <1>2. backend' = backend
    BY <1>1 DEF Begin, Step, OpenTransaction, LockProcess, ConnectForLock, AdvisoryLock,
         StartStatement, Execute, Commit, Leave, StatementRefused, Deadlocked, Unwind,
         StatementFails
  <1>3. ~Postgres
    BY <1>2 DEF Postgres
  <1>4. SUFFICES /\ \A q \in Requests \ {r} : ~Active(q)'
                 /\ \A s \in TxScopes : s # Scope(r)' => view'[s] = committed'[s]
                 /\ Scope(r)' \in TxScopes =>
                      IF Active(r)' THEN Behind(r)'
                      ELSE view'[Scope(r)'] = committed'[Scope(r)']
    <2>1. \A q, p \in Requests : Active(q)' /\ Active(p)' => q = p
      BY <1>4
    <2>2. \A s \in TxScopes : \/ view'[s] = committed'[s]
                              \/ \E q \in Requests : Active(q)' /\ Scope(q)' = s
      BY <1>4
    <2>3. \A q \in Requests : Active(q)' /\ Scope(q)' \in TxScopes => Behind(q)'
      BY <1>4
    <2> QED
      BY <2>1, <2>2, <2>3 DEF LiteInv
  <1>5. CASE Begin(r)
    <2>1. \A q \in Requests : ~Active(q)
      BY <1>3, <1>5 DEF Begin, Active, Postgres
    <2>2. \A s \in TxScopes : view[s] = committed[s]
      BY <1>3, <2>1 DEF LiteInv
    <2>3. /\ view' = view /\ committed' = committed /\ at' = at /\ at[r] = 1
          /\ \A q \in Requests \ {r} : pc'[q] = pc[q]
      BY <1>5 DEF Begin, Goto, ShapeOK, Early
    <2>4. job'[r] \in Jobs[r]
      BY <1>5 DEF Begin, ShapeOK
    <2>5. Drops(job'[r], at'[r]) = {} /\ Puts(job'[r], at'[r]) = {}
      BY <2>3, <2>4, NothingYet
    <2>6. \A q \in Requests \ {r} : ~Active(q)'
      BY <2>1, <2>3 DEF Active
    <2>7. Scope(r)' \in TxScopes => Behind(r)'
      BY <2>2, <2>3, <2>5 DEF Behind
    <2> QED
      BY <2>2, <2>3, <2>6, <2>7
  <1>6. ASSUME ~Begin(r)
        PROVE  /\ \A q \in Requests \ {r} : ~Active(q) /\ ~Active(q)'
               /\ \A s \in TxScopes : s # Scope(r) => view[s] = committed[s]
               /\ Scope(r) \in TxScopes => Behind(r)
               /\ job' = job /\ Scope(r)' = Scope(r)
    <2>1. /\ Active(r) /\ job' = job
          /\ \A q \in Requests \ {r} : pc'[q] = pc[q]
      <3>1. CASE OpenTransaction(r) \/ LockProcess(r) \/ ConnectForLock(r) \/ AdvisoryLock(r)
        BY <3>1 DEF OpenTransaction, LockProcess, ConnectForLock, AdvisoryLock, Goto,
             ShapeOK, Active
      <3>2. CASE StartStatement(r) \/ Deadlocked(r)
        BY <1>3, <3>2 DEF StartStatement, Deadlocked, ShapeOK
      <3>3. CASE Execute(r)
        BY <3>3 DEF Execute, AtStatement, Goto, ShapeOK, Active
      <3>4. CASE Commit(r)
        BY <3>4 DEF Commit, Leave, Goto, ShapeOK, Active
      <3>5. CASE StatementRefused(r) \/ StatementFails(r)
        BY <3>5 DEF StatementRefused, StatementFails, AtStatement, Unwind, Leave, Goto,
             ShapeOK, Active
      <3> QED
        BY <1>1, <1>6, <3>1, <3>2, <3>3, <3>4, <3>5 DEF Step
    <2>2. \A q \in Requests \ {r} : ~Active(q)
      BY <1>3, <2>1 DEF LiteInv
    <2>3. \A q \in Requests \ {r} : ~Active(q)'
      BY <2>1, <2>2 DEF Active
    <2>4. \A s \in TxScopes : s # Scope(r) => view[s] = committed[s]
      BY <1>3, <2>2 DEF LiteInv
    <2>5. Scope(r) \in TxScopes => Behind(r)
      BY <1>3, <2>1 DEF LiteInv
    <2> QED
      BY <2>1, <2>2, <2>3, <2>4, <2>5 DEF Scope
  <1>7. CASE OpenTransaction(r) \/ LockProcess(r) \/ ConnectForLock(r) \/ AdvisoryLock(r)
    <2>1. /\ ~Begin(r) /\ view' = view /\ committed' = committed /\ at' = at
          /\ Active(r)'
      BY <1>7 DEF OpenTransaction, LockProcess, ConnectForLock, AdvisoryLock, Goto, Begin,
           ShapeOK, Active
    <2>2. Scope(r)' \in TxScopes => Behind(r)'
      BY <1>6, <2>1 DEF Behind, Scope
    <2> QED
      BY <1>6, <2>1, <2>2
  <1>8. CASE Execute(r)
    <2>1. ~Begin(r) /\ Active(r)'
      BY <1>8 DEF Execute, AtStatement, Begin, Goto, ShapeOK, Active, Postgres
    <2>2. Scope(r)' \in TxScopes => Behind(r)'
      BY <1>3, <1>6, <1>8, <2>1, ExecuteStaysBehind
    <2>3. \A s \in TxScopes : s # Scope(r) => view'[s] = view[s] /\ committed'[s] = committed[s]
      BY <1>3, <1>8, ScopesOfUnits DEF Execute, Write, ShapeOK
    <2> QED
      BY <1>6, <2>1, <2>2, <2>3
  <1>9. Kind(r) = "read" /\ Scope(r) \in TxScopes /\ Active(r) /\ ~Begin(r) =>
            view[Scope(r)] = committed[Scope(r)]
    <2> SUFFICES ASSUME Kind(r) = "read", Scope(r) \in TxScopes, Active(r), ~Begin(r)
                 PROVE  view[Scope(r)] = committed[Scope(r)]
      OBVIOUS
    <2>1. job[r] \in Jobs[r]
      BY DEF Active, ShapeOK
    <2>2. IsUnit(job[r]) /\ job[r].kind = "read"
      BY <2>1 DEF HandlersAreUnits, Scope, Kind
    <2>3. Drops(job[r], at[r]) = {} /\ Puts(job[r], at[r]) = {}
      BY <2>2, NothingPut
    <2> QED
      BY <1>6, <2>3 DEF Behind
  <1>10. CASE Commit(r)
    <2>1. ~Begin(r) /\ ~Active(r)' /\ Active(r)
      BY <1>10 DEF Commit, Leave, Goto, Begin, ShapeOK, Active
    <2>2. view' = view /\ committed' = IF Kind(r) = "read" THEN committed ELSE view
      BY <1>3, <1>10 DEF Commit
    <2> QED
      BY <1>6, <1>9, <2>1, <2>2
  <1>11. CASE StatementRefused(r) \/ StatementFails(r)
    <2>1. /\ ~Begin(r) /\ ~Active(r)' /\ Active(r) /\ More(r)
          /\ view' = (IF Kind(r) = "tx" THEN committed ELSE view) /\ committed' = committed
      BY <1>3, <1>11 DEF StatementRefused, StatementFails, AtStatement, Unwind, Leave, Goto,
           Begin, ShapeOK, Active
    <2>2. ASSUME Scope(r) \in TxScopes, Kind(r) \notin {"tx", "read"}
          PROVE  view[Scope(r)] = committed[Scope(r)]
      <3>1. job[r] \in Jobs[r] /\ at[r] \in Nat \ {0}
        BY <2>1 DEF Active, ShapeOK
      <3>2. Len(job[r].program) = 1
        BY <2>2, <3>1 DEF HandlersAreUnits, IsUnit, Scope, Kind
      <3>3. at[r] = 1
        BY <2>1, <3>1, <3>2 DEF More
      <3>4. Drops(job[r], at[r]) = {} /\ Puts(job[r], at[r]) = {}
        BY <3>1, <3>3, NothingYet
      <3> QED
        BY <1>6, <2>1, <2>2, <3>4 DEF Behind
    <2> QED
      BY <1>6, <1>9, <2>1, <2>2
  <1>12. ~StartStatement(r) /\ ~Deadlocked(r)
    BY <1>3 DEF StartStatement, Deadlocked, ShapeOK
  <1> QED
    BY <1>1, <1>5, <1>7, <1>8, <1>10, <1>11, <1>12 DEF Step

-----------------------------------------------------------------------------
(* Each step of Database is a step of Replace, or changes nothing there. *)

\* What Replace sees of the state.
UnitRows == [s \in TxScopes |-> committed[s]]
UnitOf == [r \in Requests |-> Unit(job[r])]
UnitClean == [r \in Requests |-> clean[r] /\ Scope(r) \in TxScopes]

LEMMA Seen ==
  /\ Atomic!vars = <<UnitRows, UnitOf, UnitClean, seen>>
  /\ Atomic!vars' = <<UnitRows', UnitOf', UnitClean', seen'>>
  /\ \A r \in Requests : UnitOf[r].scope = Scope(r)
  BY DEF Atomic!vars, UnitRows, UnitOf, UnitClean, Unit, Scope

\* The rows of the other scopes are not Replace's business, and an open unit only counts
\* on one of its scopes.
LEMMA RowsAreSeen ==
  ASSUME \A s \in TxScopes : committed'[s] = committed[s]
  PROVE  UnitRows' = UnitRows
  BY DEF UnitRows

LEMMA CleanIsSeen ==
  ASSUME job' = job, \A r \in Requests : Scope(r) \in TxScopes => clean'[r] = clean[r]
  PROVE  UnitClean' = UnitClean
  BY DEF UnitClean, Scope

LEMMA JobsAreSeen ==
  ASSUME job' = job
  PROVE  UnitOf' = UnitOf /\ \A r \in Requests : Scope(r)' = Scope(r)
  BY DEF UnitOf, Scope

LEMMA BeginIsArrive ==
  ASSUME ShapeOK, NEW r \in Requests, Begin(r)
  PROVE  Atomic!Arrive(r)
  <1>1. /\ committed' = committed /\ clean' = clean /\ seen' = seen /\ ~clean[r]
        /\ \A q \in Requests \ {r} : job'[q] = job[q]
    BY DEF Begin, ShapeOK
  <1>2. UnitRows' = UnitRows
    BY <1>1 DEF UnitRows
  <1>3. UnitClean' = UnitClean
    BY <1>1 DEF UnitClean, Scope, ShapeOK
  <1>4. DOMAIN UnitOf' = Requests /\ \A q \in Requests \ {r} : UnitOf'[q] = UnitOf[q]
    BY <1>1 DEF UnitOf
  <1> QED
    BY <1>1, <1>2, <1>3, <1>4 DEF Atomic!Arrive, UnitRows, UnitOf, UnitClean

LEMMA OpeningIsBegin ==
  ASSUME ShapeOK, NEW r \in Requests, Scope(r) \in TxScopes,
         committed' = committed, job' = job, seen' = seen, clean' = [clean EXCEPT ![r] = TRUE]
  PROVE  Atomic!Begin(r)
  <1>1. UnitRows' = UnitRows /\ UnitOf' = UnitOf
    BY DEF UnitRows, UnitOf
  <1>2. UnitClean' = [UnitClean EXCEPT ![r] = TRUE]
    BY DEF UnitClean, Scope, ShapeOK
  <1> QED
    BY <1>1, <1>2 DEF Atomic!Begin, UnitRows, UnitOf, UnitClean

LEMMA UnwindIsAbandon ==
  ASSUME ShapeOK, NEW r \in Requests, Unwind(r)
  PROVE  Atomic!Abandon(r)
  <1>1. committed' = committed /\ job' = job /\ seen' = seen /\ clean' = [clean EXCEPT ![r] = FALSE]
    BY DEF Unwind, Leave
  <1>2. UnitRows' = UnitRows /\ UnitOf' = UnitOf
    BY <1>1 DEF UnitRows, UnitOf
  <1>3. UnitClean' = [UnitClean EXCEPT ![r] = FALSE]
    BY <1>1 DEF UnitClean, Scope, ShapeOK
  <1> QED
    BY <1>1, <1>2, <1>3 DEF Atomic!Abandon, UnitRows, UnitOf, UnitClean

LEMMA ReadingIsRead ==
  ASSUME ShapeOK, NEW r \in Requests, Scope(r) \in TxScopes,
         committed' = committed, job' = job, clean' = clean,
         seen' = [seen EXCEPT ![r] = committed[Scope(r)]]
  PROVE  Atomic!Read(r)
  <1>1. UnitRows' = UnitRows /\ UnitOf' = UnitOf /\ UnitClean' = UnitClean
    BY DEF UnitRows, UnitOf, UnitClean, Scope
  <1>2. UnitOf[r].scope \in TxScopes /\ seen' = [seen EXCEPT ![r] = UnitRows[UnitOf[r].scope]]
    BY DEF UnitRows, UnitOf, Unit, Scope
  <1> QED
    BY <1>1, <1>2 DEF Atomic!Read, UnitRows, UnitOf, UnitClean

\* The end of a unit, or a DELETE alone.
LEMMA EndingIsPut ==
  ASSUME ShapeOK, NEW r \in Requests, Scope(r) \in TxScopes, job' = job, seen' = seen,
         clean' = Ended(r),
         \A s \in TxScopes \ {Scope(r)} : committed'[s] = committed[s],
         NEW old, committed'[Scope(r)] = (committed[Scope(r)] \ old) \cup Unit(job[r]).put,
         old \subseteq {row \in committed[Scope(r)] : row[1] \in Unit(job[r]).drop},
         clean[r] => old = {row \in committed[Scope(r)] : row[1] \in Unit(job[r]).drop}
  PROVE  Atomic!Put(r)
  <1>1. UnitOf' = UnitOf /\ UnitOf[r].scope = Scope(r)
    BY DEF UnitOf, Unit, Scope
  <1>2. UnitRows' = [UnitRows EXCEPT ![Scope(r)] = (@ \ old) \cup Unit(job[r]).put]
    BY DEF UnitRows
  <1>3. UnitClean' = [q \in Requests |-> UnitClean[q] /\ UnitOf[q].scope # UnitOf[r].scope]
    BY DEF UnitClean, UnitOf, Unit, Ended, Scope
  <1>4. Atomic!Dropped(UnitOf[r]) =
          {row \in committed[Scope(r)] : row[1] \in Unit(job[r]).drop}
    BY <1>1 DEF Atomic!Dropped, UnitOf
  <1>5. UnitClean[r] => clean[r]
    BY DEF UnitClean
  <1>6. /\ old \in SUBSET Atomic!Dropped(UnitOf[r])
        /\ UnitClean[r] => old = Atomic!Dropped(UnitOf[r])
        /\ UnitRows' = [UnitRows EXCEPT ![UnitOf[r].scope] = (@ \ old) \cup UnitOf[r].put]
    BY <1>1, <1>2, <1>4, <1>5 DEF UnitOf
  <1> QED
    BY <1>1, <1>3, <1>6 DEF Atomic!Put, UnitRows, UnitOf, UnitClean

\* A request whose statement runs on its own connection, outside any transaction.
LEMMA LoneDelete ==
  ASSUME HandlersAreUnits, ShapeOK, PgInv, Postgres, NEW r \in Requests, Execute(r), ~InTx(r),
         Scope(r) \in TxScopes, Kind(r) # "read"
  PROVE  Atomic!Put(r)
  <1> DEFINE j == job[r]
             st == j.program[1]
             gone == Targets(r) \cap Found(r)
  <1>1. pc[r] = "run" /\ at[r] <= Len(j.program) /\ at[r] \in Nat \ {0} /\ j \in Jobs[r]
    BY DEF Execute, AtStatement, More, ShapeOK
  <1>2. j.program \in Seq({j.program[i] : i \in DOMAIN j.program}) /\ IsUnit(j)
    BY <1>1 DEF HandlersAreUnits, Scope
  <1>3. j.kind \notin {"tx", "read"}
    BY <1>1 DEF InTx, Kind
  <1>4. Positions(j, "delete") = {1} /\ Len(j.program) = 1
    BY <1>2, <1>3 DEF IsUnit
  <1>5. at[r] = 1 /\ st.op = "delete" /\ st.rows = {}
    BY <1>1, <1>2, <1>4 DEF IsUnit, Positions
  <1>6. tx[r].del = {} /\ tx[r].add = {}
    BY DEF ShapeOK, NoWrites
  <1>7. Found(r) = committed[Scope(r)]
    BY <1>6 DEF Found
  <1>8. gone = {row \in snap[r] : row[1] \in st.keys} \cap committed[Scope(r)]
    BY <1>5, <1>7 DEF Targets, Snapshot, Statement
  <1>9. New(r) = {}
    BY <1>5 DEF New, Statement
  <1>10. Unit(j).drop = st.keys /\ Unit(j).put = {}
    <2> HIDE DEF j
    <2>1. 1 \in Nat \ {0} /\ 1 <= Len(j.program) /\ 2 \in Nat \ {0} /\ ~(2 <= Len(j.program))
      BY <1>4
    <2>2. /\ Drops(j, 1 + 1) = Drops(j, 1) \cup
              (IF j.program[1].op = "delete" THEN j.program[1].keys ELSE {})
          /\ Puts(j, 1 + 1) = Puts(j, 1) \cup
              (IF j.program[1].op = "insert" THEN j.program[1].rows ELSE {})
      BY <1>2, <2>1, OneMore
    <2>3. Drops(j, 1) = {} /\ Puts(j, 1) = {}
      BY <1>2, AtTheStart
    <2>4. Drops(j, 2) = Unit(j).drop /\ Puts(j, 2) = Unit(j).put
      BY <1>2, <2>1, AtTheEnd
    <2>5. 1 + 1 = 2
      OBVIOUS
    <2>6. Drops(j, 2) = Drops(j, 1) \cup st.keys /\ Puts(j, 2) = Puts(j, 1)
      BY <1>5, <2>2, <2>5
    <2> QED
      BY <2>3, <2>4, <2>6
  <1>11. clean[r] => committed[Scope(r)] \subseteq snap[r]
    BY <1>1, <1>7 DEF PgInv, Kept
  <1>12. /\ job' = job /\ seen' = seen /\ clean' = Ended(r)
         /\ committed' = [committed EXCEPT ![Scope(r)] = (@ \ gone) \cup New(r)]
    BY DEF Execute, Write
  <1>13. Scope(r) \in DOMAIN committed
    BY ScopesOfUnits DEF ShapeOK
  <1> HIDE DEF j, st, gone
  <1>14. committed'[Scope(r)] = (committed[Scope(r)] \ gone) \cup Unit(j).put
    BY <1>9, <1>10, <1>12, <1>13
  <1>15. \A s \in TxScopes \ {Scope(r)} : committed'[s] = committed[s]
    BY <1>12
  <1>16. gone \subseteq {row \in committed[Scope(r)] : row[1] \in Unit(j).drop}
    BY <1>8, <1>10
  <1>17. clean[r] => gone = {row \in committed[Scope(r)] : row[1] \in Unit(j).drop}
    BY <1>8, <1>10, <1>11
  <1> QED
    BY <1>12, <1>14, <1>15, <1>16, <1>17, EndingIsPut DEF j

LEMMA ReaderWritesNothing ==
  ASSUME HandlersAreUnits, ShapeOK, NEW r \in Requests, Kind(r) = "read", More(r),
         pc[r] \in {"ready", "run"}
  PROVE  Scope(r) \in TxScopes /\ Targets(r) = {} /\ New(r) = {}
  <1>1. at[r] <= Len(job[r].program) /\ at[r] \in Nat \ {0} /\ job[r] \in Jobs[r]
    BY DEF More, ShapeOK
  <1>2. /\ job[r].program \in Seq({job[r].program[i] : i \in DOMAIN job[r].program})
        /\ Scope(r) \in TxScopes /\ IsUnit(job[r]) /\ job[r].kind = "read"
    BY <1>1 DEF HandlersAreUnits, Kind, Scope
  <1>3. at[r] \in DOMAIN job[r].program
    BY <1>1, <1>2
  <1>4. Statement(r).op = "select" /\ Statement(r).rows = {}
    BY <1>2, <1>3 DEF IsUnit, Positions, Statement
  <1> QED
    BY <1>2, <1>4 DEF Targets, New

LEMMA StepIsUnit ==
  ASSUME HandlersAreUnits, Overlapping \subseteq {"postgres"},
         ShapeOK, PgInv, LiteInv, [Next]_vars
  PROVE  Atomic!Next \/ UNCHANGED Atomic!vars
  <1>0. CASE UNCHANGED vars
    <2>1. UnitRows' = UnitRows /\ UnitOf' = UnitOf /\ UnitClean' = UnitClean
      BY <1>0 DEF vars, UnitRows, UnitOf, UnitClean, Scope
    <2> QED
      BY <1>0, <2>1, Seen DEF vars
  <1> SUFFICES ASSUME Next PROVE Atomic!Next \/ UNCHANGED Atomic!vars
    BY <1>0
  <1>1. PICK r \in Requests : Begin(r) \/ Step(r) \/ StatementFails(r)
    BY DEF Next
  <1>2. Atomic!Arrive(r) \/ Atomic!Begin(r) \/ Atomic!Put(r) \/ Atomic!Abandon(r)
          \/ Atomic!Read(r) => Atomic!Next
    BY DEF Atomic!Next
  <1>3. ASSUME job' = job, seen' = seen, \A s \in TxScopes : committed'[s] = committed[s],
               \A q \in Requests : Scope(q) \in TxScopes => clean'[q] = clean[q]
        PROVE  UNCHANGED Atomic!vars
    BY <1>3, RowsAreSeen, JobsAreSeen, CleanIsSeen, Seen
  <1>4. CASE Begin(r)
    BY <1>2, <1>4, BeginIsArrive
  <1>5. CASE OpenTransaction(r)
    <2>1. /\ committed' = committed /\ job' = job /\ seen' = seen
          /\ clean' = [clean EXCEPT ![r] = TRUE]
      BY <1>5 DEF OpenTransaction
    <2>2. CASE Scope(r) \in TxScopes
      BY <1>2, <2>1, <2>2, OpeningIsBegin
    <2>3. CASE Scope(r) \notin TxScopes
      BY <1>3, <2>1, <2>3 DEF ShapeOK
    <2> QED
      BY <2>2, <2>3
  <1>6. CASE LockProcess(r) \/ ConnectForLock(r) \/ AdvisoryLock(r)
    BY <1>3, <1>6 DEF LockProcess, ConnectForLock, AdvisoryLock
  <1>7. CASE StartStatement(r)
    <2>1. /\ committed' = committed /\ job' = job /\ Postgres /\ pc[r] = "ready" /\ More(r)
          /\ clean' = [clean EXCEPT ![r] = clean[r] \/ Kind(r) = "bare"]
      BY <1>7 DEF StartStatement
    <2>2. CASE Kind(r) = "read"
      <3>1. Scope(r) \in TxScopes
        BY <2>1, <2>2, ReaderWritesNothing
      <3>2. Found(r) = committed[Scope(r)]
        BY <2>1, <2>2 DEF Found, ShapeOK, InTx, NoWrites
      <3>3. seen' = [seen EXCEPT ![r] = committed[Scope(r)]]
        BY <1>7, <2>2, <3>2 DEF StartStatement
      <3>4. clean' = clean
        BY <2>1, <2>2 DEF ShapeOK
      <3> QED
        BY <1>2, <2>1, <3>1, <3>3, <3>4, ReadingIsRead
    <2>3. CASE Kind(r) = "bare"
      <3>1. seen' = seen /\ clean' = [clean EXCEPT ![r] = TRUE]
        BY <1>7, <2>1, <2>3 DEF StartStatement
      <3>2. CASE Scope(r) \in TxScopes
        BY <1>2, <2>1, <3>1, <3>2, OpeningIsBegin
      <3>3. CASE Scope(r) \notin TxScopes
        BY <1>3, <2>1, <3>1, <3>3 DEF ShapeOK
      <3> QED
        BY <3>2, <3>3
    <2>4. CASE Kind(r) \notin {"read", "bare"}
      <3>1. seen' = seen
        BY <1>7, <2>4 DEF StartStatement
      <3>2. clean' = clean
        BY <2>1, <2>4 DEF ShapeOK
      <3> QED
        BY <1>3, <2>1, <3>1, <3>2
    <2> QED
      BY <2>2, <2>3, <2>4
  <1>8. CASE Execute(r) /\ ~Postgres
    <2>1. /\ committed' = committed /\ clean' = clean /\ job' = job /\ More(r) /\ pc[r] = "ready"
          /\ seen' = IF Kind(r) = "read" THEN [seen EXCEPT ![r] = Found(r)] ELSE seen
      BY <1>8 DEF Execute, Write, AtStatement
    <2>2. CASE Kind(r) = "read"
      <3>1. Scope(r) \in TxScopes
        BY <2>1, <2>2, ReaderWritesNothing
      <3>2. Behind(r)
        BY <1>8, <2>1, <3>1 DEF LiteInv, Active
      <3>3. job[r] \in Jobs[r]
        BY <2>1 DEF ShapeOK
      <3>4. IsUnit(job[r]) /\ job[r].kind = "read"
        BY <2>2, <3>1, <3>3 DEF HandlersAreUnits, Scope, Kind
      <3>5. Drops(job[r], at[r]) = {} /\ Puts(job[r], at[r]) = {}
        BY <3>4, NothingPut
      <3>6. Found(r) = committed[Scope(r)]
        BY <1>8, <3>2, <3>5 DEF Found, Behind
      <3> QED
        BY <1>2, <2>1, <2>2, <3>1, <3>6, ReadingIsRead
    <2>3. CASE Kind(r) # "read"
      BY <1>3, <2>1, <2>3
    <2> QED
      BY <2>2, <2>3
  <1>9. CASE Execute(r) /\ Postgres
    <2>1. job' = job /\ seen' = seen /\ pc[r] = "run" /\ More(r)
      BY <1>9 DEF Execute, AtStatement
    <2>2. CASE InTx(r)
      BY <1>3, <1>9, <2>1, <2>2 DEF Execute, Write
    <2>3. CASE ~InTx(r) /\ Kind(r) = "read"
      <3>1. Targets(r) = {} /\ New(r) = {}
        BY <2>1, <2>3, ReaderWritesNothing
      <3>2. /\ committed' = [committed EXCEPT ![Scope(r)] =
                               (@ \ (Targets(r) \cap Found(r))) \cup New(r)]
            /\ clean' = clean
        BY <1>9, <2>3 DEF Execute, Write
      <3> QED
        BY <1>3, <2>1, <3>1, <3>2
    <2>4. CASE ~InTx(r) /\ Kind(r) # "read" /\ Scope(r) \in TxScopes
      BY <1>2, <1>9, <2>4, LoneDelete
    <2>5. CASE ~InTx(r) /\ Kind(r) # "read" /\ Scope(r) \notin TxScopes
      <3>1. /\ committed' = [committed EXCEPT ![Scope(r)] =
                               (@ \ (Targets(r) \cap Found(r))) \cup New(r)]
            /\ clean' = Ended(r)
        BY <1>9, <2>5 DEF Execute, Write
      <3>2. \A q \in Requests : Scope(q) \in TxScopes => clean'[q] = clean[q]
        BY <2>5, <3>1 DEF Ended, ShapeOK
      <3>3. \A s \in TxScopes : committed'[s] = committed[s]
        BY <2>5, <3>1
      <3> QED
        BY <1>3, <2>1, <3>2, <3>3
    <2> QED
      BY <2>2, <2>3, <2>4, <2>5
  <1>10. CASE Commit(r) /\ Postgres
    <2>1. /\ job' = job /\ seen' = seen /\ pc[r] = "ready" /\ ~More(r)
          /\ committed' = [committed EXCEPT ![Scope(r)] = (@ \ tx[r].del) \cup tx[r].add]
          /\ clean' = IF Kind(r) = "tx" THEN Ended(r) ELSE clean
      BY <1>10 DEF Commit, Leave
    <2>2. CASE Kind(r) # "tx"
      <3>1. tx[r].del = {} /\ tx[r].add = {}
        BY <2>2 DEF ShapeOK, InTx, NoWrites
      <3> QED
        BY <1>3, <2>1, <2>2, <3>1
    <2>3. CASE Kind(r) = "tx" /\ Scope(r) \notin TxScopes
      <3>1. \A q \in Requests : Scope(q) \in TxScopes => clean'[q] = clean[q]
        BY <2>1, <2>3 DEF Ended, ShapeOK
      <3>2. \A s \in TxScopes : committed'[s] = committed[s]
        BY <2>1, <2>3
      <3> QED
        BY <1>3, <2>1, <3>1, <3>2
    <2>4. CASE Kind(r) = "tx" /\ Scope(r) \in TxScopes
      <3> DEFINE old == committed[Scope(r)] \cap tx[r].del
      <3>1. Kept(r)
        BY <1>10, <2>1, <2>4 DEF PgInv
      <3>2. job[r] \in Jobs[r] /\ at[r] \in Nat \ {0} /\ ~(at[r] <= Len(job[r].program))
        BY <2>1 DEF ShapeOK, More
      <3>3. Drops(job[r], at[r]) = Unit(job[r]).drop /\ Puts(job[r], at[r]) = Unit(job[r]).put
        BY <3>2, AtTheEnd DEF HandlersAreUnits
      <3>4. tx[r].add = Unit(job[r]).put
        BY <2>4, <3>1, <3>3 DEF Kept
      <3>5. old \subseteq {row \in committed[Scope(r)] : row[1] \in Unit(job[r]).drop}
        BY <2>4, <3>1, <3>3 DEF Kept
      <3>6. clean[r] => old = {row \in committed[Scope(r)] : row[1] \in Unit(job[r]).drop}
        BY <2>4, <3>1, <3>3 DEF Kept
      <3>7. Scope(r) \in DOMAIN committed
        BY <2>4, ScopesOfUnits DEF ShapeOK
      <3>8. committed'[Scope(r)] = (committed[Scope(r)] \ old) \cup Unit(job[r]).put
        BY <2>1, <3>4, <3>7
      <3>9. \A s \in TxScopes \ {Scope(r)} : committed'[s] = committed[s]
        BY <2>1
      <3> QED
        BY <1>2, <2>1, <2>4, <3>5, <3>6, <3>8, <3>9, EndingIsPut
    <2> QED
      BY <2>2, <2>3, <2>4
  <1>11. CASE Commit(r) /\ ~Postgres
    <2>1. /\ job' = job /\ seen' = seen /\ pc[r] = "ready" /\ ~More(r) /\ Active(r)
          /\ committed' = IF Kind(r) = "read" THEN committed ELSE view
          /\ Kind(r) = "read" => clean' = clean
          /\ Kind(r) # "read" => clean' = Ended(r)
      BY <1>11 DEF Commit, Leave, Active
    <2>2. \A s \in TxScopes : s # Scope(r) => view[s] = committed[s]
      BY <1>11, <2>1 DEF LiteInv
    <2>3. CASE Kind(r) = "read"
      BY <1>3, <2>1, <2>3
    <2>4. CASE Kind(r) # "read" /\ Scope(r) \notin TxScopes
      <3>1. \A q \in Requests : Scope(q) \in TxScopes => clean'[q] = clean[q]
        BY <2>1, <2>4 DEF Ended, ShapeOK
      <3>2. \A s \in TxScopes : committed'[s] = committed[s]
        BY <2>1, <2>2, <2>4
      <3> QED
        BY <1>3, <2>1, <3>1, <3>2
    <2>5. CASE Kind(r) # "read" /\ Scope(r) \in TxScopes
      <3> DEFINE old == {row \in committed[Scope(r)] : row[1] \in Unit(job[r]).drop}
      <3>1. Behind(r)
        BY <1>11, <2>1, <2>5 DEF LiteInv
      <3>2. job[r] \in Jobs[r] /\ at[r] \in Nat \ {0} /\ ~(at[r] <= Len(job[r].program))
        BY <2>1 DEF ShapeOK, More
      <3>3. Drops(job[r], at[r]) = Unit(job[r]).drop /\ Puts(job[r], at[r]) = Unit(job[r]).put
        BY <3>2, AtTheEnd DEF HandlersAreUnits
      <3>4. committed'[Scope(r)] = (committed[Scope(r)] \ old) \cup Unit(job[r]).put
        BY <2>1, <2>5, <3>1, <3>3 DEF Behind
      <3>5. \A s \in TxScopes \ {Scope(r)} : committed'[s] = committed[s]
        BY <2>1, <2>2, <2>5
      <3> QED
        BY <1>2, <2>1, <2>5, <3>4, <3>5, EndingIsPut
    <2> QED
      BY <2>3, <2>4, <2>5
  <1>12. CASE StatementRefused(r) \/ Deadlocked(r) \/ StatementFails(r)
    BY <1>2, <1>12, UnwindIsAbandon DEF StatementRefused, Deadlocked, StatementFails
  <1> QED
    BY <1>1, <1>4, <1>5, <1>6, <1>7, <1>8, <1>9, <1>10, <1>11, <1>12 DEF Step

LEMMA UnitStarts ==
  Init => UnitInv
  <1> SUFFICES ASSUME Init PROVE UnitInv
    OBVIOUS
  <1>1. \A r \in Requests : pc[r] = "begin"
    BY DEF Init
  <1>2. \A s \in TxScopes : view[s] = committed[s]
    BY DEF Init
  <1> QED
    BY <1>1, <1>2, ShapeStarts DEF UnitInv, PgInv, LiteInv, Active

LEMMA UnitKept ==
  ASSUME HandlersAreUnits, Overlapping \subseteq {"postgres"}, UnitInv, [Next]_vars
  PROVE  UnitInv'
  <1>1. ShapeOK /\ PgInv /\ LiteInv
    BY DEF UnitInv
  <1> QED
    BY <1>1, ShapeKept, PgKept, LiteKept DEF UnitInv

-----------------------------------------------------------------------------
\* The rows a unit of work writes appear together or not at all, replace exactly what it
\* meant to replace unless another unit on those rows ended meanwhile, and no reader sees
\* half of them: database.py's transaction() and autocommitted statements implement
\* Replace on Postgres, however requests overlap, and on SQLite when they do not.
THEOREM TransactionsAreUnits ==
  ASSUME HandlersAreUnits, Overlapping \subseteq {"postgres"}
  PROVE  Spec => UnitsAreAtomic
  <1>1. Init => UnitInv
    BY UnitStarts
  <1>2. UnitInv /\ [Next]_vars => UnitInv'
    BY UnitKept
  <1>3. Init => Atomic!Init
    <2> SUFFICES ASSUME Init PROVE Atomic!Init
      OBVIOUS
    <2>1. \A r \in Requests : clean[r] = FALSE
      BY DEF Init
    <2> QED
      BY <2>1 DEF Atomic!Init
  <1>4. UnitInv /\ [Next]_vars => [Atomic!Next]_(Atomic!vars)
    BY StepIsUnit DEF UnitInv
  <1> QED
    BY <1>1, <1>2, <1>3, <1>4, PTL DEF Spec, UnitsAreAtomic, Atomic!Spec

-----------------------------------------------------------------------------
(* Replicas that boot. *)

Full == {"table", "column", "index"}

\* The schema as a statement of open_db finds it.
Schema == IF Postgres THEN committed["schema"] ELSE view["schema"]

\* What open_db has seen to before its n-th statement.  Nobody else changes the schema
\* meanwhile: on Postgres for the advisory lock, on SQLite because nobody else runs.
Prepared(r) ==
    /\ Postgres => advisory = r
    /\ at[r] <= 5
    /\ at[r] >= 2 => "table" \in Keys(Schema)
    /\ at[r] = 3 => (had[r] <=> "column" \in Keys(Schema))
    /\ at[r] >= 4 => "column" \in Keys(Schema)
    /\ at[r] >= 5 => "index" \in Keys(Schema)
    /\ pc[r] = "run" => snap[r] = Schema

BootOK(r) ==
    Kind(r) = "boot" =>
        /\ pc[r] \in {"ready", "run"} => Prepared(r)
        /\ pc[r] = "done" => /\ Keys(committed["schema"]) = Full
                             /\ ~Postgres => Keys(view["schema"]) = Full
        /\ pc[r] = "failed" => faults > 0

SchemaInv ==
    /\ faults \in Nat /\ DOMAIN had = Requests
    /\ Keys(committed["schema"]) \subseteq Full /\ Keys(view["schema"]) \subseteq Full
    /\ \A r \in Requests : (pc[r] = "open" => Kind(r) = "tx") /\ BootOK(r)

LEMMA KeysJoin ==
  ASSUME NEW A, NEW B
  PROVE  Keys(A \cup B) = Keys(A) \cup Keys(B)
  BY DEF Keys

\* The statements of open_db.
LEMMA OpenDbProgram ==
  /\ OpenDb.scope = "schema" /\ OpenDb.kind = "boot" /\ Len(OpenDb.program) = 4
  /\ OpenDb.program[1].op = "if not exists" /\ OpenDb.program[1].rows = {<<"table", 0>>}
  /\ OpenDb.program[2].op = "select" /\ OpenDb.program[2].rows = {}
  /\ OpenDb.program[2].keys = {"column"}
  /\ OpenDb.program[3].op = "unless" /\ OpenDb.program[3].rows = {<<"column", 0>>}
  /\ OpenDb.program[4].op = "if not exists" /\ OpenDb.program[4].rows = {<<"index", 0>>}
  BY DEF OpenDb, Handler, IfNotExists, Select, Unless, Plain

\* A row that is added unless its key is there.
LEMMA MissingKey ==
  ASSUME NEW k, NEW K
  PROVE  Keys({row \in {<<k, 0>>} : row[1] \notin K}) = {k} \ K
  <1>1. <<k, 0>>[1] = k
    OBVIOUS
  <1>2. CASE k \in K
    <2>1. {row \in {<<k, 0>>} : row[1] \notin K} = {}
      BY <1>1, <1>2
    <2>2. Keys({}) = {}
      BY DEF Keys
    <2> QED
      BY <1>2, <2>1, <2>2
  <1>3. CASE k \notin K
    <2>1. {row \in {<<k, 0>>} : row[1] \notin K} = {<<k, 0>>}
      BY <1>1, <1>3
    <2>2. Keys({<<k, 0>>}) = {k}
      BY <1>1 DEF Keys
    <2> QED
      BY <1>3, <2>1, <2>2
  <1> QED
    BY <1>2, <1>3

\* What a statement of open_db adds to the schema, and that nothing is in its way.
Added(n) ==
  CASE n = 1 -> {"table"} [] n = 3 -> {"column"} [] n = 4 -> {"index"} [] OTHER -> {}

LEMMA BootStatement ==
  ASSUME SchemaIsOpenDbs, ShapeOK, SchemaInv, NEW r \in Requests, Kind(r) = "boot",
         AtStatement(r)
  PROVE  /\ at[r] \in 1..4 /\ Scope(r) = "schema" /\ Found(r) = Schema
         /\ Targets(r) = {} /\ ~Refused(r)
         /\ Keys(Schema \cup New(r)) = Keys(Schema) \cup Added(at[r])
         /\ Statement(r).op = "select" <=> at[r] = 2
         /\ at[r] = 2 => Snapshot(r) = Schema /\ Statement(r).keys = {"column"}
  <1>1. pc[r] \in {"ready", "run"} /\ More(r) /\ (Postgres => pc[r] = "run")
    BY DEF AtStatement
  <1>2. job[r] = OpenDb /\ Prepared(r)
    BY <1>1 DEF SchemaIsOpenDbs, ShapeOK, Kind, SchemaInv, BootOK
  <1>3. at[r] \in 1..4 /\ Scope(r) = "schema"
    <2>1. at[r] \in Nat \ {0}
      BY DEF ShapeOK
    <2>2. at[r] <= 4
      BY <1>1, <1>2, OpenDbProgram DEF More
    <2>3. Scope(r) = "schema"
      BY <1>2, OpenDbProgram DEF Scope
    <2> QED
      BY <2>1, <2>2, <2>3
  <1>4. tx[r].del = {} /\ tx[r].add = {}
    BY DEF ShapeOK, InTx, NoWrites
  <1>5. Found(r) = Schema /\ Snapshot(r) = Schema
    BY <1>1, <1>2, <1>3, <1>4 DEF Found, Snapshot, Schema, Prepared
  <1>6. Statement(r) = OpenDb.program[at[r]]
    BY <1>2 DEF Statement
  <1>7. ASSUME NEW K, Keys(New(r)) = K \ Keys(Schema), Statement(r).op # "or ignore",
               Statement(r).op # "delete", K = Added(at[r])
        PROVE  /\ Targets(r) = {} /\ ~Refused(r)
               /\ Keys(Schema \cup New(r)) = Keys(Schema) \cup Added(at[r])
    <2>1. Targets(r) = {}
      BY <1>7 DEF Targets
    <2>2. ~Refused(r)
      BY <1>5, <1>7 DEF Refused
    <2>3. Keys(Schema \cup New(r)) = Keys(Schema) \cup Keys(New(r))
      BY KeysJoin
    <2> QED
      BY <1>7, <2>1, <2>2, <2>3
  <1>8. CASE at[r] = 1
    <2>1. New(r) = {row \in {<<"table", 0>>} : row[1] \notin Keys(Schema)}
      BY <1>5, <1>6, <1>8, OpenDbProgram DEF New
    <2>2. Keys(New(r)) = {"table"} \ Keys(Schema)
      BY <2>1, MissingKey
    <2>3. Statement(r).op = "if not exists"
      BY <1>6, <1>8, OpenDbProgram
    <2>4. Added(at[r]) = {"table"}
      BY <1>8 DEF Added
    <2>5. /\ Targets(r) = {} /\ ~Refused(r)
          /\ Keys(Schema \cup New(r)) = Keys(Schema) \cup Added(at[r])
      BY <1>7, <2>2, <2>3, <2>4
    <2>6. Statement(r).op # "select"
      BY <2>3
    <2>7. at[r] # 2
      BY <1>8
    <2> QED
      BY <1>3, <1>5, <2>5, <2>6, <2>7
  <1>9. CASE at[r] = 2
    <2>1. New(r) = {}
      BY <1>6, <1>9, OpenDbProgram DEF New
    <2>2. Keys(New(r)) = {} \ Keys(Schema)
      BY <2>1 DEF Keys
    <2>3. Statement(r).op = "select" /\ Statement(r).keys = {"column"} /\ Added(at[r]) = {}
      BY <1>6, <1>9, OpenDbProgram DEF Added
    <2> QED
      BY <1>3, <1>5, <1>7, <1>9, <2>2, <2>3
  <1>10. CASE at[r] = 3
    <2>1. New(r) = IF had[r] THEN {} ELSE {<<"column", 0>>}
      BY <1>6, <1>10, OpenDbProgram DEF New
    <2>2. had[r] <=> "column" \in Keys(Schema)
      BY <1>2, <1>10 DEF Prepared
    <2>3. Keys({}) = {} /\ Keys({<<"column", 0>>}) = {"column"}
      <3>1. <<"column", 0>>[1] = "column"
        OBVIOUS
      <3> QED
        BY <3>1 DEF Keys
    <2>4. Keys(New(r)) = {"column"} \ Keys(Schema)
      BY <2>1, <2>2, <2>3
    <2>5. Statement(r).op = "unless"
      BY <1>6, <1>10, OpenDbProgram
    <2>6. Added(at[r]) = {"column"}
      BY <1>10 DEF Added
    <2>7. /\ Targets(r) = {} /\ ~Refused(r)
          /\ Keys(Schema \cup New(r)) = Keys(Schema) \cup Added(at[r])
      BY <1>7, <2>4, <2>5, <2>6
    <2> QED
      BY <1>3, <1>5, <1>10, <2>5, <2>7
  <1>11. CASE at[r] = 4
    <2>1. New(r) = {row \in {<<"index", 0>>} : row[1] \notin Keys(Schema)}
      BY <1>5, <1>6, <1>11, OpenDbProgram DEF New
    <2>2. Keys(New(r)) = {"index"} \ Keys(Schema)
      BY <2>1, MissingKey
    <2>3. Statement(r).op = "if not exists"
      BY <1>6, <1>11, OpenDbProgram
    <2>4. Added(at[r]) = {"index"}
      BY <1>11 DEF Added
    <2>5. /\ Targets(r) = {} /\ ~Refused(r)
          /\ Keys(Schema \cup New(r)) = Keys(Schema) \cup Added(at[r])
      BY <1>7, <2>2, <2>3, <2>4
    <2>6. Statement(r).op # "select"
      BY <2>3
    <2>7. at[r] # 2
      BY <1>11
    <2> QED
      BY <1>3, <1>5, <2>5, <2>6, <2>7
  <1> QED
    BY <1>3, <1>8, <1>9, <1>10, <1>11

\* What a step of r does to the others.
LEMMA OthersAsBefore ==
  ASSUME ShapeOK, SchemaInv, NEW r \in Requests, Begin(r) \/ Step(r) \/ StatementFails(r)
  PROVE  /\ backend' = backend /\ faults' \in Nat /\ faults' >= faults
         /\ DOMAIN had' = Requests
         /\ \A q \in Requests \ {r} :
              /\ job'[q] = job[q] /\ pc'[q] = pc[q] /\ at'[q] = at[q]
              /\ had'[q] = had[q] /\ snap'[q] = snap[q]
         /\ ~Begin(r) => job' = job
  <1>1. faults \in Nat /\ DOMAIN had = Requests
    BY DEF SchemaInv
  <1>2. CASE Begin(r)
    <2>1. PICK j, l : job' = [job EXCEPT ![r] = j] /\ pc' = [pc EXCEPT ![r] = l]
      BY <1>2 DEF Begin, Goto
    <2>2. UNCHANGED <<backend, at, had, snap, faults>>
      BY <1>2 DEF Begin
    <2> QED
      BY <1>1, <1>2, <2>1, <2>2 DEF ShapeOK
  <1>3. CASE OpenTransaction(r) \/ LockProcess(r) \/ ConnectForLock(r) \/ AdvisoryLock(r)
    BY <1>1, <1>3 DEF OpenTransaction, LockProcess, ConnectForLock, AdvisoryLock, Goto, ShapeOK
  <1>4. CASE StartStatement(r)
    BY <1>1, <1>4 DEF StartStatement, Goto, ShapeOK
  <1>5. CASE Execute(r)
    BY <1>1, <1>5 DEF Execute, Goto, ShapeOK
  <1>6. CASE Commit(r)
    BY <1>1, <1>6 DEF Commit, Leave, Goto, ShapeOK
  <1>7. CASE StatementRefused(r) \/ Deadlocked(r) \/ StatementFails(r)
    BY <1>1, <1>7 DEF StatementRefused, Deadlocked, StatementFails, Unwind, Leave, Goto, ShapeOK
  <1> QED
    BY <1>2, <1>3, <1>4, <1>5, <1>6, <1>7 DEF Step

\* Only a statement of open_db changes the schema, beside the commits and rollbacks of
\* SQLite's one connection.
BootAdds(r) ==
    /\ Execute(r) /\ Kind(r) = "boot"
    /\ IF Postgres
       THEN /\ committed'["schema"] = committed["schema"] \cup New(r)
            /\ view'["schema"] = view["schema"]
       ELSE /\ view'["schema"] = view["schema"] \cup New(r)
            /\ committed'["schema"] = committed["schema"]

SchemaStays ==
    IF Postgres
    THEN committed'["schema"] = committed["schema"] /\ view'["schema"] = view["schema"]
    ELSE /\ committed'["schema"] \in {committed["schema"], view["schema"]}
         /\ view'["schema"] \in {committed["schema"], view["schema"]}

LEMMA SchemaMoves ==
  ASSUME SchemaIsOpenDbs, ShapeOK, SchemaInv, NEW r \in Requests,
         Begin(r) \/ Step(r) \/ StatementFails(r)
  PROVE  BootAdds(r) \/ SchemaStays
  <1>1. "schema" \in DOMAIN committed /\ "schema" \in DOMAIN view
    BY DEF ShapeOK, Scopes
  <1>2. pc[r] \in {"ready", "run"} /\ Kind(r) # "boot" => Scope(r) # "schema"
    <2> SUFFICES ASSUME pc[r] \in {"ready", "run"}, Scope(r) = "schema" PROVE Kind(r) = "boot"
      OBVIOUS
    <2>1. job[r] \in Jobs[r]
      BY DEF ShapeOK
    <2>2. job[r] = OpenDb
      BY <2>1 DEF SchemaIsOpenDbs, Scope
    <2> QED
      BY <2>2, OpenDbProgram DEF Kind
  <1>3. CASE Execute(r) /\ Kind(r) = "boot"
    <2>1. AtStatement(r) /\ Write(r)
      BY <1>3 DEF Execute
    <2>2. Scope(r) = "schema" /\ Targets(r) = {} /\ ~InTx(r)
      BY <1>3, <2>1, BootStatement DEF InTx
    <2> QED
      BY <1>1, <1>3, <2>1, <2>2 DEF Write, BootAdds
  <1>4. CASE Execute(r) /\ Kind(r) # "boot"
    <2>1. Scope(r) # "schema"
      BY <1>2, <1>4 DEF Execute, AtStatement
    <2>2. Write(r)
      BY <1>4 DEF Execute
    <2>3. \/ committed' = committed
          \/ \E R : committed' = [committed EXCEPT ![Scope(r)] = R]
      BY <2>2 DEF Write
    <2>4. \/ view' = view
          \/ \E R : view' = [view EXCEPT ![Scope(r)] = R]
      BY <2>2 DEF Write
    <2>5. committed'["schema"] = committed["schema"]
      BY <1>1, <2>1, <2>3
    <2>6. view'["schema"] = view["schema"]
      BY <1>1, <2>1, <2>4
    <2> QED
      BY <2>5, <2>6 DEF SchemaStays
  <1>5. CASE Commit(r) /\ ~Postgres
    BY <1>5 DEF Commit, SchemaStays
  <1>6. CASE Commit(r) /\ Postgres
    <2>1. committed' = [committed EXCEPT ![Scope(r)] = (@ \ tx[r].del) \cup tx[r].add]
            /\ view' = view /\ pc[r] = "ready"
      BY <1>6 DEF Commit
    <2>2. CASE Kind(r) = "boot"
      <3>1. tx[r].del = {} /\ tx[r].add = {}
        BY <2>2 DEF ShapeOK, InTx, NoWrites
      <3> QED
        BY <1>1, <1>6, <2>1, <3>1 DEF SchemaStays
    <2>3. CASE Kind(r) # "boot"
      BY <1>2, <1>6, <2>1, <2>3 DEF SchemaStays
    <2> QED
      BY <2>2, <2>3
  <1>7. CASE Unwind(r)
    BY <1>7 DEF Unwind, SchemaStays
  <1>8. CASE Begin(r) \/ OpenTransaction(r) \/ LockProcess(r) \/ ConnectForLock(r)
               \/ AdvisoryLock(r) \/ StartStatement(r)
    BY <1>8 DEF Begin, OpenTransaction, LockProcess, ConnectForLock, AdvisoryLock,
         StartStatement, SchemaStays
  <1> QED
    BY <1>3, <1>4, <1>5, <1>6, <1>7, <1>8
    DEF Step, StatementRefused, Deadlocked, StatementFails

\* A request that is not booting, or is where it was with the schema as it was.
LEMMA BootStays ==
  ASSUME SchemaInv, NEW q \in Requests, faults' \in Nat, faults' >= faults,
         job'[q] = job[q], pc'[q] = pc[q], at'[q] = at[q], had'[q] = had[q], snap'[q] = snap[q],
         Kind(q) = "boot" /\ pc[q] \in {"ready", "run"} =>
            Schema' = Schema /\ (Postgres => advisory' = advisory),
         Kind(q) = "boot" /\ pc[q] = "done" =>
            /\ Keys(committed'["schema"]) = Full
            /\ ~Postgres => Keys(view'["schema"]) = Full,
         backend' = backend
  PROVE  BootOK(q)'
  <1>1. Kind(q)' = Kind(q) /\ Postgres' = Postgres
    BY DEF Kind, Postgres
  <1>2. BootOK(q) /\ faults \in Nat
    BY DEF SchemaInv
  <1>3. ASSUME Kind(q) = "boot", pc[q] \in {"ready", "run"}
        PROVE  Prepared(q)'
    BY <1>1, <1>2, <1>3 DEF BootOK, Prepared
  <1> QED
    BY <1>1, <1>2, <1>3 DEF BootOK

\* A step of open_db itself.
LEMMA BootSteps ==
  ASSUME SchemaIsOpenDbs, ShapeOK, SchemaInv, NEW r \in Requests,
         Begin(r) \/ Step(r) \/ StatementFails(r)
  PROVE  BootOK(r)'
  <1> SUFFICES ASSUME Kind(r)' = "boot" PROVE BootOK(r)'
    BY DEF BootOK
  <1>1. BootOK(r) /\ faults \in Nat /\ (pc[r] = "open" => Kind(r) = "tx")
    BY DEF SchemaInv
  <1>2. CASE Begin(r)
    <2>1. pc'[r] = "connect"
      BY <1>2 DEF Begin, Goto, Kind, ShapeOK
    <2> QED
      BY <2>1 DEF BootOK
  <1> SUFFICES ASSUME ~Begin(r) PROVE BootOK(r)'
    BY <1>2
  <1>3. Kind(r) = "boot" /\ job' = job /\ backend' = backend
    BY OthersAsBefore DEF Kind
  <1>4. CASE OpenTransaction(r)
    BY <1>1, <1>3, <1>4 DEF OpenTransaction
  <1>5. CASE LockProcess(r) \/ ConnectForLock(r)
    <2>1. pc'[r] \in {"connect", "advisory"}
      BY <1>5 DEF LockProcess, ConnectForLock, Goto, ShapeOK
    <2> QED
      BY <2>1 DEF BootOK
  <1>6. CASE AdvisoryLock(r)
    <2>1. pc'[r] = "ready" /\ at'[r] = 1 /\ (Postgres => advisory' = r)
      BY <1>6 DEF AdvisoryLock, Goto, ShapeOK, Early
    <2> QED
      BY <1>3, <2>1 DEF BootOK, Prepared, Postgres
  <1>7. CASE StartStatement(r)
    <2>1. /\ pc[r] = "ready" /\ pc'[r] = "run" /\ Postgres /\ snap'[r] = Found(r)
          /\ UNCHANGED <<committed, view, at, had, advisory>>
      BY <1>7 DEF StartStatement, Goto, ShapeOK
    <2>2. Prepared(r)
      BY <1>1, <1>3, <2>1 DEF BootOK
    <2>3. Schema' = Schema
      BY <1>3, <2>1 DEF Schema, Postgres
    <2>4. tx[r].del = {} /\ tx[r].add = {}
      BY <1>3 DEF ShapeOK, InTx, NoWrites
    <2>5. Scope(r) = "schema"
      <3>1. job[r] = OpenDb
        BY <1>3, <2>1 DEF SchemaIsOpenDbs, ShapeOK, Kind
      <3> QED
        BY <3>1, OpenDbProgram DEF Scope
    <2>6. snap'[r] = Schema
      BY <2>1, <2>4, <2>5 DEF Found, Schema
    <2>7. Prepared(r)'
      BY <1>3, <2>1, <2>2, <2>3, <2>6 DEF Prepared, Postgres
    <2> QED
      BY <2>1, <2>7 DEF BootOK
  <1>8. CASE Execute(r)
    <2>1. AtStatement(r) /\ pc'[r] = "ready" /\ at'[r] = at[r] + 1 /\ advisory' = advisory
      BY <1>8 DEF Execute, Goto, ShapeOK
    <2>2. Prepared(r)
      BY <1>1, <1>3, <2>1 DEF BootOK, AtStatement
    <2>3. /\ at[r] \in 1..4
          /\ Keys(Schema \cup New(r)) = Keys(Schema) \cup Added(at[r])
          /\ Statement(r).op = "select" <=> at[r] = 2
          /\ at[r] = 2 => Snapshot(r) = Schema /\ Statement(r).keys = {"column"}
      BY <1>3, <2>1, BootStatement
    <2>4. BootAdds(r)
      <3>1. "schema" \in DOMAIN committed /\ "schema" \in DOMAIN view
        BY DEF ShapeOK, Scopes
      <3>2. Scope(r) = "schema" /\ Targets(r) = {} /\ ~InTx(r)
        BY <1>3, <2>1, BootStatement DEF InTx
      <3> QED
        BY <1>3, <1>8, <3>1, <3>2 DEF Execute, Write, BootAdds
    <2>5. Schema' = Schema \cup New(r)
      BY <1>3, <2>4 DEF BootAdds, Schema, Postgres
    <2>6. Keys(Schema)' = Keys(Schema) \cup Added(at[r])
      BY <2>3, <2>5
    <2>7. at[r] = 2 => (had'[r] <=> "column" \in Keys(Schema))
      BY <1>8, <2>3 DEF Execute, SchemaInv
    <2>8. Prepared(r)'
      <3>1. CASE at[r] = 1
        BY <1>3, <2>1, <2>2, <2>6, <3>1 DEF Prepared, Postgres, Added
      <3>2. CASE at[r] = 2
        BY <1>3, <2>1, <2>2, <2>6, <2>7, <3>2 DEF Prepared, Postgres, Added
      <3>3. CASE at[r] = 3
        BY <1>3, <2>1, <2>2, <2>6, <3>3 DEF Prepared, Postgres, Added
      <3>4. CASE at[r] = 4
        BY <1>3, <2>1, <2>2, <2>6, <3>4 DEF Prepared, Postgres, Added
      <3> QED
        BY <2>3, <3>1, <3>2, <3>3, <3>4
    <2> QED
      BY <2>1, <2>8 DEF BootOK
  <1>9. CASE Commit(r)
    <2>1. pc[r] = "ready" /\ ~More(r) /\ pc'[r] = "done"
      BY <1>9 DEF Commit, Leave, Goto, ShapeOK
    <2>2. Prepared(r) /\ job[r] = OpenDb
      BY <1>1, <1>3, <2>1 DEF BootOK, SchemaIsOpenDbs, ShapeOK, Kind
    <2>3. at[r] = 5
      <3>1. at[r] \in Nat \ {0} /\ ~(at[r] <= 4) /\ at[r] <= 5
        BY <2>1, <2>2, OpenDbProgram DEF ShapeOK, More, Prepared
      <3> QED
        BY <3>1
    <2>4. Keys(Schema) = Full
      <3>1. Keys(Schema) \subseteq Full
        BY DEF SchemaInv, Schema
      <3>2. "table" \in Keys(Schema) /\ "column" \in Keys(Schema) /\ "index" \in Keys(Schema)
        BY <2>2, <2>3 DEF Prepared
      <3> QED
        BY <3>1, <3>2 DEF Full
    <2>5. committed'["schema"] = Schema /\ (~Postgres => view'["schema"] = Schema)
      <3>1. CASE Postgres
        <4>1. tx[r].del = {} /\ tx[r].add = {}
          BY <1>3 DEF ShapeOK, InTx, NoWrites
        <4> QED
          BY <1>9, <3>1, <4>1 DEF Commit, Schema, ShapeOK, Scopes
      <3>2. CASE ~Postgres
        BY <1>3, <1>9, <3>2 DEF Commit, Schema
      <3> QED
        BY <3>1, <3>2
    <2> QED
      BY <1>3, <2>1, <2>4, <2>5 DEF BootOK, Postgres
  <1>10. CASE StatementFails(r)
    <2>1. faults' = faults + 1 /\ pc'[r] = "failed"
      BY <1>10 DEF StatementFails, Unwind, Leave, Goto, ShapeOK
    <2> QED
      BY <1>1, <2>1 DEF BootOK
  <1>11. ~StatementRefused(r)
    BY <1>3, BootStatement DEF StatementRefused
  <1>12. ~Deadlocked(r)
    <2> SUFFICES ASSUME pc[r] = "run", NEW q \in Requests, Waits(r, q) PROVE FALSE
      BY DEF Deadlocked
    <2>1. job[r] = OpenDb
      BY <1>3 DEF SchemaIsOpenDbs, ShapeOK, Kind
    <2>2. Scope(q) = "schema" /\ InTx(q)
      BY <2>1, OpenDbProgram DEF Waits, Scope
    <2>3. job[q] = OpenDb
      BY <2>2 DEF InTx, SchemaIsOpenDbs, ShapeOK, Scope
    <2> QED
      BY <2>2, <2>3, OpenDbProgram DEF InTx, Kind
  <1> QED
    BY <1>4, <1>5, <1>6, <1>7, <1>8, <1>9, <1>10, <1>11, <1>12 DEF Step

\* Only one request has the advisory lock; on SQLite only one request runs.
LEMMA SchemaKept ==
  ASSUME SchemaIsOpenDbs, Overlapping \subseteq {"postgres"}, None \notin Requests,
         ShapeOK, LiteInv, SchemaInv, [Next]_vars
  PROVE  SchemaInv'
  <1>0. CASE UNCHANGED vars
    BY <1>0 DEF vars, SchemaInv, BootOK, Prepared, Kind, Postgres, Schema
  <1> SUFFICES ASSUME Next PROVE SchemaInv'
    BY <1>0
  <1>1. PICK r \in Requests : Begin(r) \/ Step(r) \/ StatementFails(r)
    BY DEF Next
  <1>2. /\ backend' = backend /\ faults' \in Nat /\ faults' >= faults /\ DOMAIN had' = Requests
        /\ \A q \in Requests \ {r} :
             /\ job'[q] = job[q] /\ pc'[q] = pc[q] /\ at'[q] = at[q]
             /\ had'[q] = had[q] /\ snap'[q] = snap[q]
        /\ ~Begin(r) => job' = job
    BY <1>1, OthersAsBefore
  <1>3. BootAdds(r) \/ SchemaStays
    BY <1>1, SchemaMoves
  <1>4. /\ Keys(committed["schema"]) \subseteq Full /\ Keys(view["schema"]) \subseteq Full
        /\ \A q \in Requests : (pc[q] = "open" => Kind(q) = "tx") /\ BootOK(q)
    BY DEF SchemaInv
  <1>5. BootAdds(r) => AtStatement(r) /\ Kind(r) = "boot"
    BY DEF BootAdds, Execute
  <1>6. BootAdds(r) => Keys(Schema \cup New(r)) = Keys(Schema) \cup Added(at[r])
    BY <1>5, BootStatement
  <1>7. Added(at[r]) \subseteq Full
    BY DEF Added, Full
  <1>8. Keys(committed'["schema"]) \subseteq Full /\ Keys(view'["schema"]) \subseteq Full
    <2>1. CASE BootAdds(r)
      BY <1>4, <1>6, <1>7, <2>1 DEF BootAdds, Schema
    <2>2. CASE SchemaStays
      BY <1>4, <2>2 DEF SchemaStays
    <2> QED
      BY <1>3, <2>1, <2>2
  \* What is whole stays whole.
  <1>9. ASSUME NEW q \in Requests, Kind(q) = "boot", pc[q] = "done"
        PROVE  /\ Keys(committed'["schema"]) = Full
               /\ ~Postgres => Keys(view'["schema"]) = Full
    <2>1. /\ Keys(committed["schema"]) = Full
          /\ ~Postgres => Keys(view["schema"]) = Full
      BY <1>4, <1>9 DEF BootOK
    <2>2. CASE BootAdds(r)
      BY <1>6, <1>7, <2>1, <2>2 DEF BootAdds, Schema
    <2>3. CASE SchemaStays
      BY <2>1, <2>3 DEF SchemaStays
    <2> QED
      BY <1>3, <2>2, <2>3
  \* Nobody interferes with a replica that boots.
  <1>10. ASSUME NEW q \in Requests \ {r}, Kind(q) = "boot", pc[q] \in {"ready", "run"}
         PROVE  Schema' = Schema /\ (Postgres => advisory' = advisory)
    <2>1. Prepared(q) /\ Active(q)
      BY <1>4, <1>10 DEF BootOK, Active
    <2>2. CASE Postgres
      <3>1. advisory = q /\ q # None
        BY <2>1, <2>2 DEF Prepared
      <3>2. ~BootAdds(r)
        <4> SUFFICES ASSUME BootAdds(r) PROVE FALSE
          OBVIOUS
        <4>1. pc[r] = "run"
          BY <1>5, <2>2 DEF AtStatement
        <4>2. Prepared(r)
          BY <1>4, <1>5, <4>1 DEF BootOK
        <4> QED
          BY <1>10, <2>2, <3>1, <4>2 DEF Prepared
      <3>3. Schema' = Schema
        BY <1>2, <1>3, <2>2, <3>2 DEF SchemaStays, Schema, Postgres
      <3>4. advisory' = advisory
        BY <1>1, <1>10, <2>2, <3>1
        DEF Begin, Step, OpenTransaction, LockProcess, ConnectForLock, AdvisoryLock,
            StartStatement, Execute, Commit, StatementRefused, Deadlocked, StatementFails,
            Unwind, Leave
      <3> QED
        BY <3>3, <3>4
    <2>3. CASE ~Postgres
      <3>1. ~Begin(r)
        BY <1>10, <2>3 DEF Begin, Postgres
      <3>2. ~Active(r)
        BY <1>10, <2>1, <2>3 DEF LiteInv
      <3>3. Active(r)
        BY <1>1, <2>3, <3>1
        DEF Step, OpenTransaction, LockProcess, ConnectForLock, AdvisoryLock, StartStatement,
            Execute, Commit, StatementRefused, Deadlocked, StatementFails, AtStatement, Active,
            ShapeOK
      <3> QED
        BY <3>2, <3>3
    <2> QED
      BY <2>2, <2>3
  <1>11. \A q \in Requests \ {r} : BootOK(q)'
    BY <1>2, <1>9, <1>10, BootStays
  <1>12. BootOK(r)'
    BY <1>1, BootSteps
  <1>13. ASSUME pc'[r] = "open"
         PROVE  Kind(r)' = "tx"
    <2>1. CASE Begin(r)
      <3>1. PICK j \in Jobs[r] :
              /\ job' = [job EXCEPT ![r] = j]
              /\ pc' = [pc EXCEPT ![r] = CASE j.kind = "tx" -> "open"
                                           [] j.kind = "serial" -> "serial"
                                           [] j.kind = "boot" -> "connect"
                                           [] OTHER -> "ready"]
        BY <2>1 DEF Begin, Goto
      <3> QED
        BY <1>13, <3>1 DEF ShapeOK, Kind
    <2>2. CASE Step(r) \/ StatementFails(r)
      <3>1. pc'[r] # "open"
        BY <2>2
        DEF Step, OpenTransaction, LockProcess, ConnectForLock, AdvisoryLock, StartStatement,
            Execute, Commit, StatementRefused, Deadlocked, StatementFails, Unwind, Leave, Goto,
            ShapeOK
      <3> QED
        BY <1>13, <3>1
    <2> QED
      BY <1>1, <2>1, <2>2
  <1>14. \A q \in Requests : pc'[q] = "open" => Kind(q)' = "tx"
    BY <1>2, <1>4, <1>13 DEF Kind
  <1> QED
    BY <1>2, <1>8, <1>11, <1>12, <1>14 DEF SchemaInv

LEMMA SchemaStarts ==
  Init => SchemaInv
  <1> SUFFICES ASSUME Init PROVE SchemaInv
    OBVIOUS
  <1>1. committed["schema"] = {} /\ view["schema"] = {}
    BY DEF Init, Scopes, Before
  <1>2. Keys({}) = {}
    BY DEF Keys
  <1>3. faults \in Nat /\ DOMAIN had = Requests /\ \A r \in Requests : pc[r] = "begin"
    BY DEF Init
  <1> QED
    BY <1>1, <1>2, <1>3 DEF SchemaInv, BootOK

-----------------------------------------------------------------------------
\* Replicas that boot at once, however many and beside whatever else runs: open_db of
\* none fails unless a statement failed for no reason of its own, and when it ends the
\* tables, the added column and the indexes are all there and committed.
THEOREM ReplicasComeUp ==
  ASSUME HandlersAreUnits, SchemaIsOpenDbs, Overlapping \subseteq {"postgres"},
         None \notin Requests
  PROVE  Spec => []BootCompletes
  <1>1. Init => UnitInv /\ SchemaInv
    BY UnitStarts, SchemaStarts
  <1>2. UnitInv /\ SchemaInv /\ [Next]_vars => UnitInv' /\ SchemaInv'
    BY UnitKept, SchemaKept DEF UnitInv
  <1>3. SchemaInv => BootCompletes
    BY DEF SchemaInv, BootOK, BootCompletes, Full
  <1> QED
    BY <1>1, <1>2, <1>3, PTL DEF Spec

-----------------------------------------------------------------------------
(* Types. *)

Places == {"begin", "open", "serial", "connect", "advisory", "ready", "run", "done", "failed"}
Writes == [del : SUBSET Rows, add : SUBSET Rows]

TypesInv ==
    /\ backend \in Backends /\ home \in Homes
    /\ committed \in [Scopes -> SUBSET Rows] /\ view \in [Scopes -> SUBSET Rows]
    /\ \A r \in Requests : job[r] \in Jobs[r] \cup {NoJob} /\ at[r] <= Len(job[r].program) + 1
    /\ pc \in [Requests -> Places]
    /\ snap \in [Requests -> SUBSET Rows] /\ had \in [Requests -> BOOLEAN]
    /\ tx \in [Requests -> Writes]
    /\ \A p \in DOMAIN serial : serial[p] \in Requests \cup {None}
    /\ advisory \in Requests \cup {None}
    /\ faults \in 0..MaxFaults

LEMMA ProgramLength ==
  ASSUME HandlersAreUnits, TypesInv
  PROVE  \A r \in Requests : Len(job[r].program) \in Nat
                             /\ DOMAIN job[r].program = 1..Len(job[r].program)
  <1> SUFFICES ASSUME NEW r \in Requests
               PROVE  Len(job[r].program) \in Nat
                      /\ DOMAIN job[r].program = 1..Len(job[r].program)
    OBVIOUS
  <1>1. CASE job[r] \in Jobs[r]
    <2> DEFINE S == {job[r].program[i] : i \in DOMAIN job[r].program}
    <2>1. job[r].program \in Seq(S)
      BY <1>1 DEF HandlersAreUnits
    <2> HIDE DEF S
    <2> QED
      BY <2>1
  <1>2. CASE job[r] = NoJob
    <2>1. job[r].program = <<>>
      BY <1>2 DEF NoJob, Handler
    <2> QED
      BY <2>1
  <1> QED
    BY <1>1, <1>2 DEF TypesInv

LEMMA TypesStart ==
  ASSUME MaxFaults \in Nat, Init
  PROVE  TypesInv
  <1>1. \A s \in Scopes : Before(s) \subseteq Rows
    BY DEF Before, Rows, Plain, AllKeys
  <1>2. committed \in [Scopes -> SUBSET Rows] /\ view \in [Scopes -> SUBSET Rows]
    BY <1>1 DEF Init
  <1>3. Len(NoJob.program) = 0
    BY DEF NoJob, Handler
  <1>4. \A r \in Requests : job[r] = NoJob /\ at[r] = 1
    BY DEF Init
  <1>5. \A r \in Requests : job[r] \in Jobs[r] \cup {NoJob} /\ at[r] <= Len(job[r].program) + 1
    BY <1>3, <1>4
  <1>6. snap \in [Requests -> SUBSET Rows] /\ tx \in [Requests -> Writes]
    BY DEF Init, NoWrites, Writes
  <1>7. pc \in [Requests -> Places] /\ had \in [Requests -> BOOLEAN]
    BY DEF Init, Places
  <1> QED
    BY <1>2, <1>5, <1>6, <1>7 DEF Init, TypesInv

\* What a request that serves finds and writes are rows.
LEMMA FoundRows ==
  ASSUME HandlersWriteRows, ShapeOK, TypesInv, NEW r \in Requests, pc[r] # "begin"
  PROVE  /\ Scope(r) \in Scopes /\ Found(r) \subseteq Rows
         /\ tx[r] \in Writes /\ snap[r] \subseteq Rows /\ Snapshot(r) \subseteq Rows
         /\ More(r) => Targets(r) \subseteq Rows
  <1>1. job[r] \in Jobs[r] /\ Scope(r) \in Scopes
    BY DEF ShapeOK, HandlersWriteRows, Scope
  <1>2. tx[r] \in Writes /\ snap[r] \subseteq Rows
    BY DEF TypesInv
  <1>3. committed[Scope(r)] \subseteq Rows /\ view[Scope(r)] \subseteq Rows
    BY <1>1 DEF TypesInv
  <1>4. Found(r) \subseteq Rows
    BY <1>2, <1>3 DEF Found, Writes
  <1>5. Snapshot(r) \subseteq Rows
    BY <1>2, <1>4 DEF Snapshot
  <1>6. Targets(r) \subseteq Rows
    BY <1>5 DEF Targets
  <1> QED
    BY <1>1, <1>2, <1>4, <1>5, <1>6

LEMMA NewRows ==
  ASSUME HandlersAreUnits, HandlersWriteRows, ShapeOK, TypesInv, NEW r \in Requests,
         pc[r] # "begin", More(r)
  PROVE  New(r) \subseteq Rows
  <1>1. job[r] \in Jobs[r] /\ at[r] \in Nat \ {0}
    BY DEF ShapeOK
  <1>2. at[r] \in DOMAIN job[r].program
    BY <1>1, ProgramLength DEF More
  <1>3. Statement(r).rows \subseteq Rows
    BY <1>1, <1>2 DEF HandlersWriteRows, Statement
  <1> QED
    BY <1>3 DEF New

\* A request leaves.
LEMMA LeaveTyped ==
  ASSUME HandlersAreUnits, ShapeOK, TypesInv, NEW r \in Requests, NEW l \in {"done", "failed"},
         Leave(r, l), committed' \in [Scopes -> SUBSET Rows], view' \in [Scopes -> SUBSET Rows],
         faults' \in 0..MaxFaults
  PROVE  TypesInv'
  <1>1. pc' \in [Requests -> Places]
    BY DEF Leave, Goto, TypesInv, Places
  <1>2. snap' \in [Requests -> SUBSET Rows] /\ tx' \in [Requests -> Writes]
    BY DEF Leave, TypesInv, NoWrites, Writes
  <1>3. \A p \in DOMAIN serial' : serial'[p] \in Requests \cup {None}
    BY DEF Leave, TypesInv
  <1>4. advisory' \in Requests \cup {None}
    BY DEF Leave, TypesInv
  <1>5. UNCHANGED <<backend, home, job, at, had>>
    BY DEF Leave
  <1> QED
    BY <1>1, <1>2, <1>3, <1>4, <1>5 DEF TypesInv, NoJob

LEMMA BeginTyped ==
  ASSUME HandlersAreUnits, ShapeOK, TypesInv, NEW r \in Requests, Begin(r)
  PROVE  TypesInv'
  <1>1. PICK j \in Jobs[r] :
          /\ job' = [job EXCEPT ![r] = j]
          /\ pc' = [pc EXCEPT ![r] = CASE j.kind = "tx" -> "open"
                                       [] j.kind = "serial" -> "serial"
                                       [] j.kind = "boot" -> "connect"
                                       [] OTHER -> "ready"]
    BY DEF Begin, Goto
  <1>2. pc' \in [Requests -> Places]
    BY <1>1 DEF TypesInv, Places
  <1>3. at[r] = 1 /\ DOMAIN job = Requests
    BY DEF Begin, ShapeOK, Early
  <1>4. Len(j.program) \in Nat
    <2> DEFINE S == {j.program[i] : i \in DOMAIN j.program}
    <2>1. j.program \in Seq(S)
      BY DEF HandlersAreUnits
    <2> HIDE DEF S
    <2> QED
      BY <2>1
  <1>5. /\ UNCHANGED <<backend, home, committed, view, at, snap, had, tx, serial, advisory,
                       faults>>
    BY DEF Begin
  <1>6. ASSUME NEW q \in Requests
        PROVE  job'[q] \in Jobs[q] \cup {NoJob} /\ at'[q] <= Len(job'[q].program) + 1
    <2>1. CASE q = r
      BY <1>1, <1>3, <1>4, <1>5, <2>1
    <2>2. CASE q # r
      <3>1. job'[q] = job[q] /\ at'[q] = at[q]
        BY <1>1, <1>3, <1>5, <2>2
      <3> QED
        BY <3>1 DEF TypesInv
    <2> QED
      BY <2>1, <2>2
  <1> QED
    BY <1>2, <1>5, <1>6 DEF TypesInv, NoJob

LEMMA ExecuteTyped ==
  ASSUME HandlersAreUnits, HandlersWriteRows, ShapeOK, TypesInv, NEW r \in Requests, Execute(r)
  PROVE  TypesInv'
  <1>1. pc[r] # "begin" /\ More(r)
    BY DEF Execute, AtStatement
  <1>2. /\ Scope(r) \in Scopes /\ Found(r) \subseteq Rows /\ New(r) \subseteq Rows
        /\ tx[r].del \subseteq Rows /\ tx[r].add \subseteq Rows
    BY <1>1, FoundRows, NewRows DEF Writes
  <1>3. /\ committed' \in [Scopes -> SUBSET Rows] /\ view' \in [Scopes -> SUBSET Rows]
        /\ tx' \in [Requests -> Writes]
    <2> DEFINE gone == Targets(r) \cap Found(r)
               new == New(r)
    <2>1. /\ (view[Scope(r)] \ gone) \cup new \subseteq Rows
          /\ (committed[Scope(r)] \ gone) \cup new \subseteq Rows
          /\ [del |-> tx[r].del \cup (gone \ tx[r].add), add |-> (tx[r].add \ gone) \cup new]
               \in Writes
      BY <1>2 DEF TypesInv, Writes
    <2>2. \/ view' = [view EXCEPT ![Scope(r)] = (@ \ gone) \cup new] /\ UNCHANGED <<committed, tx>>
          \/ /\ tx' = [tx EXCEPT ![r] = [del |-> @.del \cup (gone \ @.add),
                                         add |-> (@.add \ gone) \cup new]]
             /\ UNCHANGED <<committed, view>>
          \/ /\ committed' = [committed EXCEPT ![Scope(r)] = (@ \ gone) \cup new]
             /\ UNCHANGED <<view, tx>>
      BY DEF Execute, Write
    <2> HIDE DEF gone, new
    <2>3. CASE view' = [view EXCEPT ![Scope(r)] = (@ \ gone) \cup new] /\ UNCHANGED <<committed, tx>>
      BY <1>2, <2>1, <2>3 DEF TypesInv
    <2>4. CASE /\ tx' = [tx EXCEPT ![r] = [del |-> @.del \cup (gone \ @.add),
                                           add |-> (@.add \ gone) \cup new]]
               /\ UNCHANGED <<committed, view>>
      BY <1>2, <2>1, <2>4 DEF TypesInv
    <2>5. CASE /\ committed' = [committed EXCEPT ![Scope(r)] = (@ \ gone) \cup new]
               /\ UNCHANGED <<view, tx>>
      BY <1>2, <2>1, <2>5 DEF TypesInv
    <2> QED
      BY <2>2, <2>3, <2>4, <2>5
  <1>4. had' \in [Requests -> BOOLEAN]
    BY DEF Execute, TypesInv
  <1>5. pc' \in [Requests -> Places]
    BY DEF Execute, Goto, TypesInv, Places
  <1>6. /\ at' = [at EXCEPT ![r] = @ + 1]
        /\ UNCHANGED <<backend, home, job, snap, serial, advisory, faults>>
    BY DEF Execute
  <1>7. ASSUME NEW q \in Requests
        PROVE  at'[q] <= Len(job'[q].program) + 1
    <2>1. CASE q = r
      <3>1. at'[r] = at[r] + 1 /\ at[r] \in Nat /\ at[r] <= Len(job[r].program)
        BY <1>1, <1>6 DEF ShapeOK, More
      <3> QED
        BY <1>6, <2>1, <3>1, ProgramLength
    <2>2. CASE q # r
      BY <1>6, <2>2 DEF ShapeOK, TypesInv
    <2> QED
      BY <2>1, <2>2
  <1> QED
    BY <1>3, <1>4, <1>5, <1>6, <1>7 DEF TypesInv, NoJob

LEMMA TypesKept ==
  ASSUME MaxFaults \in Nat, HandlersAreUnits, HandlersWriteRows, ShapeOK, TypesInv, [Next]_vars
  PROVE  TypesInv'
  <1>0. CASE UNCHANGED vars
    BY <1>0 DEF vars, TypesInv, NoJob
  <1> SUFFICES ASSUME Next PROVE TypesInv'
    BY <1>0
  <1>1. PICK r \in Requests : Begin(r) \/ Step(r) \/ StatementFails(r)
    BY DEF Next
  <1>2. CASE OpenTransaction(r) \/ ConnectForLock(r)
    <2>1. pc' \in [Requests -> Places]
      BY <1>2 DEF OpenTransaction, ConnectForLock, Goto, TypesInv, Places
    <2>2. UNCHANGED <<backend, home, committed, view, job, at, snap, had, tx, serial, advisory,
                      faults>>
      BY <1>2 DEF OpenTransaction, ConnectForLock
    <2> QED
      BY <2>1, <2>2 DEF TypesInv, NoJob
  <1>3. CASE LockProcess(r)
    <2>1. pc' \in [Requests -> Places]
      BY <1>3 DEF LockProcess, Goto, TypesInv, Places
    <2>2. \A p \in DOMAIN serial' : serial'[p] \in Requests \cup {None}
      BY <1>3 DEF LockProcess, TypesInv
    <2>3. UNCHANGED <<backend, home, committed, view, job, at, snap, had, tx, advisory, faults>>
      BY <1>3 DEF LockProcess
    <2> QED
      BY <2>1, <2>2, <2>3 DEF TypesInv, NoJob
  <1>4. CASE AdvisoryLock(r)
    <2>1. pc' \in [Requests -> Places]
      BY <1>4 DEF AdvisoryLock, Goto, TypesInv, Places
    <2>2. advisory' \in Requests \cup {None}
      BY <1>4 DEF AdvisoryLock, TypesInv
    <2>3. UNCHANGED <<backend, home, committed, view, job, at, snap, had, tx, serial, faults>>
      BY <1>4 DEF AdvisoryLock
    <2> QED
      BY <2>1, <2>2, <2>3 DEF TypesInv, NoJob
  <1>5. CASE StartStatement(r)
    <2>1. pc' \in [Requests -> Places]
      BY <1>5 DEF StartStatement, Goto, TypesInv, Places
    <2>2. pc[r] # "begin"
      BY <1>5 DEF StartStatement
    <2>3. Found(r) \subseteq Rows
      BY <2>2, FoundRows
    <2>4. snap' \in [Requests -> SUBSET Rows]
      BY <1>5, <2>3 DEF StartStatement, TypesInv
    <2>5. UNCHANGED <<backend, home, committed, view, job, at, had, tx, serial, advisory, faults>>
      BY <1>5 DEF StartStatement
    <2> QED
      BY <2>1, <2>4, <2>5 DEF TypesInv, NoJob
  <1>6. CASE Commit(r)
    <2>1. pc[r] # "begin"
      BY <1>6 DEF Commit
    <2>2. /\ Scope(r) \in Scopes /\ tx[r].add \subseteq Rows
      BY <2>1, FoundRows DEF Writes
    <2>3. (committed[Scope(r)] \ tx[r].del) \cup tx[r].add \subseteq Rows
      BY <2>2 DEF TypesInv
    <2>4. committed' \in [Scopes -> SUBSET Rows]
      BY <1>6, <2>2, <2>3 DEF Commit, TypesInv
    <2>5. Leave(r, "done") /\ UNCHANGED <<view, faults>>
      BY <1>6 DEF Commit
    <2> QED
      BY <2>4, <2>5, LeaveTyped DEF TypesInv
  <1>7. CASE StatementRefused(r) \/ Deadlocked(r) \/ StatementFails(r)
    <2>1. Unwind(r) /\ faults' \in 0..MaxFaults
      BY <1>7 DEF StatementRefused, Deadlocked, StatementFails, TypesInv
    <2>2. committed' \in [Scopes -> SUBSET Rows] /\ view' \in [Scopes -> SUBSET Rows]
      BY <2>1 DEF Unwind, TypesInv
    <2> QED
      BY <2>1, <2>2, LeaveTyped DEF Unwind
  <1> QED
    BY <1>1, <1>2, <1>3, <1>4, <1>5, <1>6, <1>7, BeginTyped, ExecuteTyped DEF Step

LEMMA Typed ==
  ASSUME HandlersAreUnits, ShapeOK, TypesInv
  PROVE  TypeOK
  <1>1. \A r \in Requests : at[r] \in 1..Len(job[r].program) + 1
    BY ProgramLength DEF ShapeOK, TypesInv
  <1> QED
    BY <1>1 DEF TypesInv, ShapeOK, TypeOK, Places, Writes

\* Every variable keeps its shape, on either backend and however requests overlap.
THEOREM TypeCorrect ==
  ASSUME MaxFaults \in Nat, HandlersAreUnits, HandlersWriteRows
  PROVE  Spec => []TypeOK
  <1>1. Init => ShapeOK /\ TypesInv
    BY ShapeStarts, TypesStart
  <1>2. ShapeOK /\ TypesInv /\ [Next]_vars => ShapeOK' /\ TypesInv'
    BY ShapeKept, TypesKept
  <1>3. ShapeOK /\ TypesInv => TypeOK
    BY Typed
  <1> QED
    BY <1>1, <1>2, <1>3, PTL DEF Spec
=============================================================================
