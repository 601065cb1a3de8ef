------------------------------ MODULE Replace ------------------------------
(***************************************************************************)
(* What a unit of work on the database promises a handler that replaces     *)
(* rows: its deletions and insertions become visible in one step, or not at *)
(* all, and a reader sees the rows between two units, never inside one.     *)
(*                                                                          *)
(* Units on the same rows are atomic, not serialised: what one removes is   *)
(* exact only if no other unit on that scope ended while it was open        *)
(* ("clean"); otherwise rows the other one put may remain beside its own.   *)
(***************************************************************************)
CONSTANTS
    Requests,       \* the requests in flight
    Scopes          \* the groups of rows written by such units only

VARIABLES
    rows,           \* rows[s]: the rows of scope s
    unit,           \* unit[r]: scope, keys dropped and rows put by request r's unit
    clean,          \* clean[r]: r's unit is open, and alone on its scope so far
    seen            \* seen[r]: what request r read

vars == <<rows, unit, clean, seen>>

Dropped(u) == {row \in rows[u.scope] : row[1] \in u.drop}

Init ==
    /\ DOMAIN rows = Scopes
    /\ clean = [r \in Requests |-> FALSE]

\* A request has a unit of work, whichever it is, and opens it at some moment.
Arrive(r) ==
    /\ UNCHANGED <<rows, clean, seen>>
    /\ DOMAIN unit' = Requests
    /\ \A q \in Requests \ {r} : unit'[q] = unit[q]

Begin(r) ==
    /\ clean' = [clean EXCEPT ![r] = TRUE]
    /\ UNCHANGED <<rows, unit, seen>>

\* The unit's writes, all in one step.
Put(r) ==
    /\ unit[r].scope \in Scopes
    /\ \E old \in SUBSET Dropped(unit[r]) :
         /\ clean[r] => old = Dropped(unit[r])
         /\ rows' = [rows EXCEPT ![unit[r].scope] = (@ \ old) \cup unit[r].put]
    /\ clean' = [q \in Requests |-> clean[q] /\ unit[q].scope # unit[r].scope]
    /\ UNCHANGED <<unit, seen>>

Abandon(r) ==
    /\ clean' = [clean EXCEPT ![r] = FALSE]
    /\ UNCHANGED <<rows, unit, seen>>

Read(r) ==
    /\ unit[r].scope \in Scopes
    /\ seen' = [seen EXCEPT ![r] = rows[unit[r].scope]]
    /\ UNCHANGED <<rows, unit, clean>>

Next == \E r \in Requests : Arrive(r) \/ Begin(r) \/ Put(r) \/ Abandon(r) \/ Read(r)

Spec == Init /\ [][Next]_vars
=============================================================================
