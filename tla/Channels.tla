------------------------------- MODULE Channels -------------------------------
(***************************************************************************)
(* The WebSockets of a channel (backend/app/channels.py): the slots that   *)
(* cap a user's sockets, the presence count, and the loop of a socket from *)
(* its handshake to its `finally`.  The counters are kept in the process,  *)
(* or in Redis when it is configured; a Redis call may fail, a key may     *)
(* expire, a replica may stop.  Channels share nothing but the slots, so   *)
(* one is modelled.  Frames reach the sockets through Broadcaster's        *)
(* transport; here a delivery is the reaping of a socket it failed to      *)
(* reach.                                                                  *)
(***************************************************************************)
EXTENDS Integers, FiniteSets

CONSTANTS
    Sockets, Users, Replicas,
    Owner,           \* the user of a socket
    Homes,           \* the ways to spread the sockets over the replicas
    Channel,         \* the key of the channel's presence
    Cap,             \* channel_max_connections_per_user
    MaxFaults        \* bound: failing calls and handshakes, expiries, restarts

ASSUME OwnerAssumption == Owner \in [Sockets -> Users]
ASSUME HomesAssumption == Homes \subseteq [Sockets -> Replicas]
ASSUME ChannelAssumption == Channel \notin Users
ASSUME CapAssumption == Cap \in Nat \ {0}
ASSUME MaxFaultsAssumption == MaxFaults \in Nat

VARIABLES
    redis,     \* is Redis configured?
    home,      \* the replica of a socket
    pc,        \* where a socket's handler is
    conns,     \* the sockets in the hubs' sets
    counts,    \* the in-process slots, by replica and user
    counter,   \* the Redis counters (0: no key), slots by user and presence
    ttl,       \* the keys that will expire
    reaper,    \* where a replica's delivery is with a dead socket
    revoked,   \* sockets whose session has been ended
    due,       \* sockets whose revalidation interval has passed
    late,      \* sockets handling a frame that came after the revocation
    exists,    \* has the channel not been deleted?
    faults,
    lost       \* has an increment of a user's counter, or its result, been lost?

hub == <<conns, counts, counter, ttl, reaper>>
session == <<revoked, due, late>>
ghosts == <<faults, lost>>
config == <<redis, home>>
vars == <<config, pc, hub, session, exists, ghosts>>

Keys == Users \cup {Channel}
Open == {s \in Sockets : pc[s] # "closed"}

Goto(s, l) == pc' = [pc EXCEPT ![s] = l]

\* The handler returns; the session belongs to the socket.
Close(s) ==
    /\ Goto(s, "closed")
    /\ revoked' = revoked \ {s} /\ due' = due \ {s} /\ late' = late \ {s}

Fault == faults < MaxFaults /\ faults' = faults + 1

Add(k, n) == counter' = [counter EXCEPT ![k] = @ + n]

\* A call that fails may have taken effect.
AddFails(k, n) == Fault /\ (UNCHANGED counter \/ Add(k, n))

(***************************************************************************)
(* try_reserve.                                                            *)
(***************************************************************************)
Connecting(s) ==
    /\ pc[s] = "closed" /\ s \notin conns
    /\ exists
    /\ Goto(s, "reserve")
    /\ UNCHANGED <<config, hub, session, exists, ghosts>>

ReserveLocal(s) ==
    /\ pc[s] = "reserve" /\ ~redis
    /\ IF counts[home[s]][Owner[s]] >= Cap
       THEN Close(s) /\ UNCHANGED counts
       ELSE /\ counts' = [counts EXCEPT ![home[s]][Owner[s]] = @ + 1]
            /\ Goto(s, "accept") /\ UNCHANGED session
    /\ UNCHANGED <<config, conns, counter, ttl, reaper, exists, ghosts>>

\* Faulty variant, for mutation: compares the count from before.
ReserveBefore(s) ==
    /\ pc[s] = "reserve" /\ redis
    /\ Add(Owner[s], 1)
    /\ Goto(s, IF counter[Owner[s]] > Cap THEN "undo"
               ELSE IF counter[Owner[s]] = 0 THEN "slot ttl" ELSE "accept")
    /\ UNCHANGED <<config, conns, counts, ttl, reaper, session, exists, ghosts>>

ReserveRedis(s) ==
    /\ pc[s] = "reserve" /\ redis
    /\ Add(Owner[s], 1)
    /\ Goto(s, IF counter[Owner[s]] + 1 > Cap THEN "undo"
               ELSE IF counter[Owner[s]] + 1 = 1 THEN "slot ttl" ELSE "accept")
    /\ UNCHANGED <<config, conns, counts, ttl, reaper, session, exists, ghosts>>

\* Redis is down: the socket is let in.
ReserveFails(s) ==
    /\ pc[s] = "reserve" /\ redis
    /\ AddFails(Owner[s], 1)
    /\ lost' = TRUE
    /\ Goto(s, "accept")
    /\ UNCHANGED <<config, conns, counts, ttl, reaper, session, exists>>

\* EXPIRE, in a call of its own after the INCR that created the key.
SetTtl(s) ==
    /\ pc[s] \in {"slot ttl", "presence ttl"}
    /\ LET k == IF pc[s] = "slot ttl" THEN Owner[s] ELSE Channel
       IN  ttl' = IF counter[k] # 0 THEN ttl \cup {k} ELSE ttl
    /\ Goto(s, IF pc[s] = "slot ttl" THEN "accept" ELSE "join")
    /\ UNCHANGED <<config, conns, counts, counter, reaper, session, exists, ghosts>>

SetTtlFails(s) ==
    /\ pc[s] \in {"slot ttl", "presence ttl"}
    /\ Fault
    /\ Goto(s, IF pc[s] = "slot ttl" THEN "accept" ELSE "join")
    /\ UNCHANGED <<config, hub, session, exists, lost>>

Refuse(s) ==
    /\ pc[s] = "undo"
    /\ \/ Add(Owner[s], -1) /\ UNCHANGED faults
       \/ AddFails(Owner[s], -1)
    /\ Close(s)
    /\ UNCHANGED <<config, conns, counts, ttl, reaper, exists, lost>>

(***************************************************************************)
(* The handshake, before the try.                                          *)
(***************************************************************************)
\* Accepted, and in the set without waiting again.
Connect(s) ==
    /\ pc[s] = "accept"
    /\ conns' = conns \cup {s}
    /\ Goto(s, IF redis THEN "presence" ELSE "join")
    /\ UNCHANGED <<config, counts, counter, ttl, reaper, session, exists, ghosts>>

\* The client is gone: the exception leaves the handler, and the slot.
AcceptFails(s) ==
    /\ pc[s] = "accept"
    /\ Fault
    /\ Close(s)
    /\ UNCHANGED <<config, hub, exists, lost>>

CountPresence(s) ==
    /\ pc[s] = "presence"
    /\ Add(Channel, 1)
    /\ Goto(s, IF counter[Channel] + 1 = 1 THEN "presence ttl" ELSE "join")
    /\ UNCHANGED <<config, conns, counts, ttl, reaper, session, exists, ghosts>>

CountPresenceFails(s) ==
    /\ pc[s] = "presence"
    /\ AddFails(Channel, 1)
    /\ Goto(s, "join")
    /\ UNCHANGED <<config, conns, counts, ttl, reaper, session, exists, lost>>

Join(s) ==
    /\ pc[s] = "join"
    /\ Goto(s, "receive")
    /\ UNCHANGED <<config, hub, session, exists, ghosts>>

\* PUBLISH raises: the socket stays in the set until a delivery fails on it.
JoinFails(s) ==
    /\ pc[s] = "join" /\ redis
    /\ Fault
    /\ Close(s)
    /\ UNCHANGED <<config, hub, exists, lost>>

(***************************************************************************)
(* The loop: a frame, a timeout or the end of the connection; then the     *)
(* periodic revalidation, the rate limit and the frame.                    *)
(***************************************************************************)
\* The rate limit may drop a frame, an idle turn or a bad frame has none.
Handle(s) ==
    \E l \in {"receive", "fresh", "publish"} :
        /\ Goto(s, l)
        /\ late' = IF l = "fresh" THEN late ELSE late \ {s}

\* Faulty variant, for mutation: revalidates only when no frame came.
ReceiveStarved(s) ==
    /\ pc[s] = "receive"
    /\ due' = due
    /\ \/ s \in due /\ Goto(s, "check") /\ UNCHANGED late
       \/ Handle(s)
    /\ UNCHANGED <<config, hub, revoked, exists, ghosts>>

Receive(s) ==
    /\ pc[s] = "receive"
    /\ IF s \in due
       THEN Goto(s, "check") /\ due' = due \ {s}
            /\ late' = IF s \in revoked THEN late \cup {s} ELSE late
       ELSE \E l \in {"receive", "fresh", "publish"} :
              /\ Goto(s, l)
              /\ late' = IF s \in revoked /\ l = "fresh" THEN late \cup {s} ELSE late
              /\ UNCHANGED due
    /\ UNCHANGED <<config, hub, revoked, exists, ghosts>>

Hangup(s) ==
    /\ pc[s] = "receive"
    /\ Goto(s, "leave")
    /\ UNCHANGED <<config, hub, session, exists, ghosts>>

Check(s) ==
    /\ pc[s] = "check"
    /\ IF s \in revoked THEN Goto(s, "leave") /\ UNCHANGED late ELSE Handle(s)
    /\ UNCHANGED <<config, hub, revoked, due, exists, ghosts>>

\* Faulty variant, for mutation: writes on the strength of the last check.
FreshUnchecked(s) ==
    /\ pc[s] = "fresh"
    /\ Goto(s, "persist")
    /\ UNCHANGED <<config, hub, session, exists, ghosts>>

\* Revalidated immediately before the write.
Fresh(s) ==
    /\ pc[s] = "fresh"
    /\ Goto(s, IF s \in revoked THEN "leave" ELSE "persist")
    /\ UNCHANGED <<config, hub, session, exists, ghosts>>

\* The foreign key refuses a message to a deleted channel.
Persist(s) ==
    /\ pc[s] = "persist"
    /\ Goto(s, IF exists THEN "publish" ELSE "leave")
    /\ late' = late \ {s}
    /\ UNCHANGED <<config, hub, revoked, due, exists, ghosts>>

Publish(s) ==
    /\ pc[s] = "publish"
    /\ Goto(s, "receive")
    /\ UNCHANGED <<config, hub, session, exists, ghosts>>

PublishFails(s) ==
    /\ pc[s] = "publish" /\ redis
    /\ Fault
    /\ Goto(s, "leave")
    /\ UNCHANGED <<config, hub, session, exists, lost>>

(***************************************************************************)
(* The finally: disconnect, release, close.                                *)
(***************************************************************************)
\* Faulty variant, for mutation: decrements though the socket was reaped.
DisconnectTwice(s) ==
    /\ pc[s] = "leave"
    /\ conns' = conns \ {s}
    /\ Goto(s, IF redis THEN "absence" ELSE "release")
    /\ UNCHANGED <<config, counts, counter, ttl, reaper, session, exists, ghosts>>

\* Faulty variant, for mutation: a reaped socket keeps its slot.
DisconnectReaped(s) ==
    /\ pc[s] = "leave"
    /\ conns' = conns \ {s}
    /\ IF s \in conns
       THEN Goto(s, IF redis THEN "absence" ELSE "release") /\ UNCHANGED session
       ELSE Close(s)
    /\ UNCHANGED <<config, counts, counter, ttl, reaper, exists, ghosts>>

Disconnect(s) ==
    /\ pc[s] = "leave"
    /\ conns' = conns \ {s}
    /\ Goto(s, IF redis /\ s \in conns THEN "absence" ELSE "release")
    /\ UNCHANGED <<config, counts, counter, ttl, reaper, session, exists, ghosts>>

\* _redis_decr, for the presence and then for the slot: a result below zero is
\* compensated by a second call; when either fails, that is all.
KeyOf(s) == IF pc[s] \in {"absence", "absence undo"} THEN Channel ELSE Owner[s]

\* The release follows the disconnect; after it come the leave frame, whether or
\* not it can be sent, and the close.
Proceed(s) ==
    IF KeyOf(s) = Channel THEN Goto(s, "release") /\ UNCHANGED session ELSE Close(s)

Decrement(s) ==
    /\ pc[s] \in {"absence", "release"} /\ redis
    /\ Add(KeyOf(s), -1)
    /\ IF counter[KeyOf(s)] >= 1 THEN Proceed(s)
       ELSE /\ Goto(s, IF KeyOf(s) = Channel THEN "absence undo" ELSE "release undo")
            /\ UNCHANGED session
    /\ UNCHANGED <<config, conns, counts, ttl, reaper, exists, ghosts>>

Compensate(s) ==
    /\ pc[s] \in {"absence undo", "release undo"}
    /\ Add(KeyOf(s), 1)
    /\ Proceed(s)
    /\ UNCHANGED <<config, conns, counts, ttl, reaper, exists, ghosts>>

DecrementFails(s) ==
    /\ pc[s] \in {"absence", "release", "absence undo", "release undo"} /\ redis
    /\ AddFails(KeyOf(s), IF pc[s] \in {"absence", "release"} THEN -1 ELSE 1)
    /\ Proceed(s)
    /\ UNCHANGED <<config, conns, counts, ttl, reaper, exists, lost>>

ReleaseLocal(s) ==
    /\ pc[s] = "release" /\ ~redis
    /\ counts' = [counts EXCEPT ![home[s]][Owner[s]] = IF @ =< 1 THEN 0 ELSE @ - 1]
    /\ Close(s)
    /\ UNCHANGED <<config, conns, counter, ttl, reaper, exists, ghosts>>

(***************************************************************************)
(* _deliver_local: a socket that errs or is too slow is dead; it leaves    *)
(* the set while its handler goes on.                                      *)
(***************************************************************************)
Reap(s) ==
    /\ s \in conns
    /\ reaper[home[s]] = "idle"
    /\ conns' = conns \ {s}
    /\ reaper' = [reaper EXCEPT ![home[s]] = IF redis THEN "decr" ELSE "idle"]
    /\ UNCHANGED <<config, pc, counts, counter, ttl, session, exists, ghosts>>

ReapDecrement(p) ==
    /\ reaper[p] = "decr"
    /\ Add(Channel, -1)
    /\ reaper' = [reaper EXCEPT ![p] = IF counter[Channel] - 1 < 0 THEN "undo" ELSE "idle"]
    /\ UNCHANGED <<config, pc, conns, counts, ttl, session, exists, ghosts>>

ReapCompensate(p) ==
    /\ reaper[p] = "undo"
    /\ Add(Channel, 1)
    /\ reaper' = [reaper EXCEPT ![p] = "idle"]
    /\ UNCHANGED <<config, pc, conns, counts, ttl, session, exists, ghosts>>

ReapFails(p) ==
    /\ reaper[p] # "idle"
    /\ AddFails(Channel, IF reaper[p] = "decr" THEN -1 ELSE 1)
    /\ reaper' = [reaper EXCEPT ![p] = "idle"]
    /\ UNCHANGED <<config, pc, conns, counts, ttl, session, exists, lost>>

(***************************************************************************)
(* What happens around the sockets.                                        *)
(***************************************************************************)
\* A logout everywhere, a new password, a suspension or a deletion.
Revoke(u) ==
    /\ revoked' = revoked \cup {s \in Open : Owner[s] = u}
    /\ revoked' # revoked
    /\ UNCHANGED <<config, pc, hub, due, late, exists, ghosts>>

\* channel_ws_revalidate_seconds have passed since the last check.
IntervalPasses(s) ==
    /\ pc[s] \in {"receive", "fresh", "persist", "publish"}
    /\ s \notin due
    /\ due' = due \cup {s}
    /\ UNCHANGED <<config, pc, hub, revoked, late, exists, ghosts>>

DeleteChannel ==
    /\ exists
    /\ exists' = FALSE
    /\ UNCHANGED <<config, pc, hub, session, ghosts>>

Expire(k) ==
    /\ k \in ttl
    /\ Fault
    /\ counter' = [counter EXCEPT ![k] = 0]
    /\ ttl' = ttl \ {k}
    /\ lost' = (lost \/ k # Channel)
    /\ UNCHANGED <<config, pc, conns, counts, reaper, session, exists>>

Restart(p) ==
    /\ Fault
    /\ LET cut == {s \in Sockets : home[s] = p}
       IN  /\ pc' = [s \in Sockets |-> IF s \in cut THEN "closed" ELSE pc[s]]
           /\ conns' = conns \ cut
           /\ revoked' = revoked \ cut /\ due' = due \ cut /\ late' = late \ cut
    /\ counts' = [counts EXCEPT ![p] = [u \in Users |-> 0]]
    /\ reaper' = [reaper EXCEPT ![p] = "idle"]
    /\ UNCHANGED <<config, counter, ttl, exists, lost>>

(***************************************************************************)
(* Specification.                                                          *)
(***************************************************************************)
Init ==
    /\ redis \in BOOLEAN
    /\ home \in Homes
    /\ pc = [s \in Sockets |-> "closed"]
    /\ conns = {}
    /\ counts = [p \in Replicas |-> [u \in Users |-> 0]]
    /\ counter = [k \in Keys |-> 0]
    /\ ttl = {}
    /\ reaper = [p \in Replicas |-> "idle"]
    /\ revoked = {} /\ due = {} /\ late = {}
    /\ exists = TRUE
    /\ faults = 0 /\ lost = FALSE

HandshakeNext(s) ==
    \/ ReserveLocal(s) \/ ReserveRedis(s) \/ ReserveFails(s)
    \/ SetTtl(s) \/ SetTtlFails(s) \/ Refuse(s)
    \/ Connect(s) \/ AcceptFails(s)
    \/ CountPresence(s) \/ CountPresenceFails(s)
    \/ Join(s) \/ JoinFails(s)

LoopNext(s) ==
    \/ Receive(s) \/ Hangup(s) \/ Check(s) \/ Fresh(s) \/ Persist(s)
    \/ Publish(s) \/ PublishFails(s)

FinallyNext(s) ==
    \/ Disconnect(s) \/ Decrement(s) \/ Compensate(s) \/ DecrementFails(s)
    \/ ReleaseLocal(s)

Handler(s) == HandshakeNext(s) \/ LoopNext(s) \/ FinallyNext(s)

Next ==
    \/ \E s \in Sockets : Connecting(s) \/ Handler(s) \/ Reap(s) \/ IntervalPasses(s)
    \/ \E p \in Replicas : ReapDecrement(p) \/ ReapCompensate(p) \/ ReapFails(p) \/ Restart(p)
    \/ \E u \in Users : Revoke(u)
    \/ \E k \in Keys : Expire(k)
    \/ DeleteChannel

\* The event loop runs every handler whose await is over (a receive ends at the
\* interval), and time passes.
Fairness == \A s \in Sockets : WF_vars(Handler(s)) /\ WF_vars(IntervalPasses(s))

Spec == Init /\ [][Next]_vars /\ Fairness
-----------------------------------------------------------------------------
(***************************************************************************)
(* Properties.                                                             *)
(***************************************************************************)
Pcs == {"closed", "reserve", "slot ttl", "undo", "accept", "presence",
        "presence ttl", "join", "receive", "check", "fresh", "persist", "publish",
        "leave", "absence", "absence undo", "release", "release undo"}

\* The handlers between a reservation that let them in and its release.
Holding == {"slot ttl", "accept", "presence", "presence ttl", "join", "receive",
            "check", "fresh", "persist", "publish", "leave", "absence", "absence undo", "release"}
Holders(u) == {s \in Sockets : Owner[s] = u /\ pc[s] \in Holding}
HoldersAt(p, u) == {s \in Holders(u) : home[s] = p}
At(l) == {s \in Sockets : pc[s] = l}

TypeOK ==
    /\ redis \in BOOLEAN /\ home \in Homes
    /\ pc \in [Sockets -> Pcs]
    /\ conns \subseteq Sockets
    /\ counts \in [Replicas -> [Users -> 0..Cap]]
    /\ counter \in [Keys -> Int] /\ ttl \subseteq Keys
    /\ reaper \in [Replicas -> {"idle", "decr", "undo"}]
    /\ revoked \cup due \cup late \subseteq Open
    /\ ~redis => counter = [k \in Keys |-> 0]
    /\ redis => counts = [p \in Replicas |-> [u \in Users |-> 0]]
    /\ exists \in BOOLEAN /\ faults \in 0..MaxFaults /\ lost \in BOOLEAN

\* "Capping concurrent sockets (globally when Redis is configured, else
\* per-replica)": through restarts, failing decrements and handlers cut short,
\* as long as no increment was lost.
CapHolds ==
    ~lost => \A u \in Users :
        IF redis THEN Cardinality(Holders(u)) =< Cap
        ELSE \A p \in Replicas : Cardinality(HoldersAt(p, u)) =< Cap

\* Slots are neither leaked nor returned twice, reaped or not: while no call and no
\* handshake failed, they are the sockets that hold one.  And "a double disconnect ...
\* can't over-decrement the shared counter": the presence counter, with the calls under
\* way, is never below the number of sockets in the sets.
SlotsExact ==
    faults = 0 =>
        /\ \A u \in Users :
             IF redis
             THEN counter[u] = Cardinality(Holders(u)) + Cardinality({s \in At("undo") : Owner[s] = u})
             ELSE \A p \in Replicas : counts[p][u] = Cardinality(HoldersAt(p, u))
        /\ redis =>
             counter[Channel] >= Cardinality(conns) - Cardinality(At("presence"))
                 + Cardinality(At("absence")) - Cardinality(At("absence undo"))
                 + Cardinality({p \in Replicas : reaper[p] = "decr"})
                 - Cardinality({p \in Replicas : reaper[p] = "undo"})

\* "A revoked user can't post": a frame that came after the revocation is never
\* written.
NoLatePost == \A s \in Sockets : pc[s] = "persist" => s \notin late

\* "A session revoked AFTER connect must not keep this socket alive ... a flood
\* can't starve the check".
RevokedSocketsClose == \A s \in Sockets : s \in revoked ~> pc[s] = "closed"

\* "A crashed replica that never decrements self-heals after a quiet window rather
\* than leaking a count forever": with no socket open, a counter that still
\* counts will expire.
LeaksAgeOut ==
    (Open = {} /\ conns = {} /\ \A p \in Replicas : reaper[p] = "idle") =>
        \A k \in Keys : counter[k] > 0 => k \in ttl
=============================================================================
