----------------------------- MODULE Limiter -----------------------------
(***************************************************************************)
(* The login limiter of auth.py for one client address and one user name:   *)
(* a counter in Redis that every process shares, and the list of recent     *)
(* attempts each process falls back on when Redis does not answer.  A call  *)
(* to Redis takes no time on the scale of the window, and may fail before   *)
(* or after it took effect; its process may also be killed meanwhile.       *)
(***************************************************************************)
EXTENDS Naturals, Sequences, FiniteSets

CONSTANTS
    Processes,
    Limit,          \* login_rate_limit
    Window,         \* login_rate_window_seconds
    Shared,         \* BOOLEANs: whether a Redis is configured
    MaxTime,        \* bound on the clock
    MaxAttempts,    \* bound on the attempts at one time
    MaxHiccups,     \* bound on failed calls
    MaxRestarts,    \* bound on restarts of a process
    None

Never == MaxTime + Window + 1

VARIABLES
    shared,
    now,
    count,          \* the counter, 0 when there is no key
    expires,        \* when the key expires
    local,          \* process -> the recent attempts it keeps the times of
    pc,             \* process -> where its attempt is
    mine,           \* process -> the attempt it decides on, or decided on last
    n,              \* process -> what INCR returned
    hiccups, restarts,
    asked,          \* history: the times of all attempts; an attempt is its index here
    refused         \* history: the process refused last, None if the last was let through

vars == <<shared, now, count, expires, local, pc, mine, n, hiccups, restarts, asked, refused>>

Init ==
    /\ shared \in Shared
    /\ now = 0 /\ count = 0 /\ expires = Never
    /\ local = [p \in Processes |-> {}]
    /\ pc = [p \in Processes |-> "idle"]
    /\ mine = [p \in Processes |-> 0]
    /\ n = [p \in Processes |-> 0]
    /\ hiccups = 0 /\ restarts = 0
    /\ asked = <<>>
    /\ refused = None

-----------------------------------------------------------------------------
\* Redis drops the key when its time has come.
Tick ==
    /\ now < MaxTime /\ \A p \in Processes : pc[p] = "idle"
    /\ now' = now + 1
    /\ IF expires <= now' THEN count' = 0 /\ expires' = Never
       ELSE UNCHANGED <<count, expires>>
    /\ refused' = None
    /\ UNCHANGED <<shared, local, pc, n, mine, hiccups, restarts, asked>>

\* _check_login_rate: an attempt goes to the counter if there is one.
Attempt(p) ==
    /\ pc[p] = "idle" /\ Cardinality({i \in DOMAIN asked : asked[i] = now}) < MaxAttempts
    /\ asked' = Append(asked, now)
    /\ mine' = [mine EXCEPT ![p] = Len(asked')]
    /\ pc' = [pc EXCEPT ![p] = IF shared THEN "incr" ELSE "local"]
    /\ n' = [n EXCEPT ![p] = 0]
    /\ refused' = None
    /\ UNCHANGED <<shared, now, count, expires, local, hiccups, restarts>>

Incr(p) ==
    /\ pc[p] = "incr"
    /\ count' = count + 1
    /\ n' = [n EXCEPT ![p] = count']
    /\ pc' = [pc EXCEPT ![p] = IF count' = 1 THEN "expire" ELSE "decide"]
    /\ UNCHANGED <<shared, now, expires, local, mine, hiccups, restarts, asked, refused>>

\* Only the first INCR of a key sets its expiry.
Expire(p) ==
    /\ pc[p] = "expire"
    /\ expires' = IF count = 0 THEN expires ELSE now + Window
    /\ pc' = [pc EXCEPT ![p] = "decide"]
    /\ UNCHANGED <<shared, now, count, local, n, mine, hiccups, restarts, asked, refused>>

\* Mutant: the attempt that reaches the limit is refused.
DecideEarly(p) ==
    /\ pc[p] = "decide"
    /\ refused' = IF n[p] >= Limit THEN p ELSE None
    /\ pc' = [pc EXCEPT ![p] = "idle"]
    /\ UNCHANGED <<shared, now, count, expires, local, n, mine, hiccups, restarts, asked>>

Decide(p) ==
    /\ pc[p] = "decide"
    /\ refused' = IF n[p] > Limit THEN p ELSE None
    /\ pc' = [pc EXCEPT ![p] = "idle"]
    /\ UNCHANGED <<shared, now, count, expires, local, n, mine, hiccups, restarts, asked>>

\* A call to Redis fails, with or without effect: the attempt falls back on the list.
Hiccup(p) ==
    /\ pc[p] \in {"incr", "expire"} /\ hiccups < MaxHiccups
    /\ hiccups' = hiccups + 1
    /\ \/ UNCHANGED <<count, expires>>
       \/ pc[p] = "incr" /\ count' = count + 1 /\ UNCHANGED expires
       \/ pc[p] = "expire" /\ count > 0 /\ expires' = now + Window /\ UNCHANGED count
    /\ pc' = [pc EXCEPT ![p] = "local"]
    /\ UNCHANGED <<shared, now, local, n, mine, restarts, asked, refused>>

\* The process is killed and started again: its list is gone.
Restart(p) ==
    /\ restarts < MaxRestarts
    /\ restarts' = restarts + 1
    /\ pc' = [pc EXCEPT ![p] = "idle"]
    /\ local' = [local EXCEPT ![p] = {}]
    /\ UNCHANGED <<shared, now, count, expires, n, mine, hiccups, asked, refused>>

\* _check_login_rate_local: attempts that were let through in the last window.
Local(p) ==
    /\ pc[p] = "local"
    /\ LET recent == {i \in local[p] : now - asked[i] < Window}
       IN  IF Cardinality(recent) >= Limit
           THEN /\ local' = [local EXCEPT ![p] = recent]
                /\ refused' = p
           ELSE /\ local' = [local EXCEPT ![p] = recent \cup {mine[p]}]
                /\ refused' = None
    /\ pc' = [pc EXCEPT ![p] = "idle"]
    /\ UNCHANGED <<shared, now, count, expires, n, mine, hiccups, restarts, asked>>

Next ==
    \/ Tick
    \/ \E p \in Processes : \/ Attempt(p) \/ Incr(p) \/ Expire(p) \/ Decide(p)
                            \/ Hiccup(p) \/ Restart(p) \/ Local(p)

Spec == Init /\ [][Next]_vars

-----------------------------------------------------------------------------
(* Properties. *)

TypeOK ==
    /\ now \in 0..MaxTime /\ count \in Nat /\ expires \in 0..Never
    /\ pc \in [Processes -> {"idle", "incr", "expire", "decide", "local"}]
    /\ \A p \in Processes : Cardinality(local[p]) <= Limit
    /\ hiccups \in 0..MaxHiccups /\ restarts \in 0..MaxRestarts
    /\ refused \in Processes \cup {None}

Recent == Cardinality({i \in DOMAIN asked : now - asked[i] < Window})

\* An attempt is refused only when at least Limit others were made in the last window,
\* by any process and whatever happened to Redis in between: one hiccup does not lock a
\* user out for good (the comment on the fallback of _check_login_rate).
RefusalHasCause == refused # None => Recent > Limit

\* As long as the counter has an expiry this is so, whatever calls failed, fell back on
\* the list of a process, or lost it with that process (_check_login_rate,
\* _check_login_rate_local).
FallbackIsFair == refused # None /\ (count > 0 => expires # Never) => Recent > Limit
=============================================================================
