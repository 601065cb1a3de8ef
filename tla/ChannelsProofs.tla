--------------------------- MODULE ChannelsProofs ---------------------------
(***************************************************************************)
(* Theorems about Channels, for any number of sockets, users, replicas and *)
(* faults, with or without Redis.                                          *)
(***************************************************************************)
EXTENDS Channels, FiniteSetTheorems, TLAPS

USE OwnerAssumption, HomesAssumption, ChannelAssumption, CapAssumption, MaxFaultsAssumption

-----------------------------------------------------------------------------
(* Types.                                                                  *)

\* The places of a handler, and of a delivery, that wait for Redis.
Remote == {"slot ttl", "undo", "presence", "presence ttl", "absence", "absence undo",
           "release undo"}

\* Without Redis nobody waits for it.
LocalOnly ==
    ~redis => /\ \A s \in Sockets : pc[s] \notin Remote
              /\ \A p \in Replicas : reaper[p] = "idle"

TypeInv == TypeOK /\ LocalOnly

LEMMA TypeInit == Init => TypeInv
<1> SUFFICES ASSUME Init PROVE TypeInv
  OBVIOUS
<1> USE DEF Init
<1>1. pc \in [Sockets -> Pcs]
  BY DEF Pcs
<1>2. counts \in [Replicas -> [Users -> 0..Cap]]
  OBVIOUS
<1>3. counter \in [Keys -> Int] /\ reaper \in [Replicas -> {"idle", "decr", "undo"}]
  OBVIOUS
<1>4. faults \in 0..MaxFaults
  OBVIOUS
<1>5. TypeOK
  BY <1>1, <1>2, <1>3, <1>4 DEF TypeOK
<1>6. LocalOnly
  BY DEF LocalOnly, Remote
<1> QED
  BY <1>5, <1>6 DEF TypeInv

\* What a step of a socket's handler, or of its interval, may touch.
PcStep(s) ==
    \E l \in Pcs : /\ Goto(s, l)
                   /\ l \in Remote => redis
                   /\ l = "closed" => s \notin revoked' \cup due' \cup late'

CountsStep(s) ==
    \/ UNCHANGED counts
    \/ ~redis /\ \E n \in 0..Cap : counts' = [counts EXCEPT ![home[s]][Owner[s]] = n]

CounterStep ==
    \/ UNCHANGED counter
    \/ redis /\ counter' \in [Keys -> Int]

SocketStep(s) ==
    /\ PcStep(s) /\ CountsStep(s) /\ CounterStep
    /\ revoked' \cup due' \cup late' \subseteq revoked \cup due \cup late \cup {s}
    /\ conns' \subseteq conns \cup {s}
    /\ ttl' \subseteq Keys
    /\ UNCHANGED <<config, reaper, exists>>
    /\ lost' \in BOOLEAN
    /\ UNCHANGED faults \/ Fault

LEMMA SocketStepTyped ==
    ASSUME TypeInv, NEW s \in Sockets, SocketStep(s)
    PROVE  TypeInv'
<1> USE DEF TypeInv, TypeOK
<1>1. PICK l \in Pcs : /\ Goto(s, l)
                       /\ l \in Remote => redis
                       /\ l = "closed" => s \notin revoked' \cup due' \cup late'
  BY DEF SocketStep, PcStep
<1>2. /\ redis' = redis /\ home' = home /\ reaper' = reaper /\ exists' = exists
      /\ ttl' \subseteq Keys /\ lost' \in BOOLEAN
      /\ conns' \subseteq conns \cup {s}
  BY DEF SocketStep, config
<1>3. pc' \in [Sockets -> Pcs] /\ pc'[s] = l /\ \A t \in Sockets \ {s} : pc'[t] = pc[t]
  BY <1>1 DEF Goto
<1>4. revoked' \cup due' \cup late' \subseteq Open'
  <2>1. \A t \in revoked' \cup due' \cup late' : t # s => t \in revoked \cup due \cup late
    BY DEF SocketStep
  <2>2. \A t \in revoked' \cup due' \cup late' : t \in Sockets /\ pc'[t] # "closed"
    BY <1>1, <1>3, <2>1 DEF SocketStep, Open
  <2> QED
    BY <2>2 DEF Open
<1>5. counts' \in [Replicas -> [Users -> 0..Cap]] /\ (redis' => counts' = [p \in Replicas |-> [u \in Users |-> 0]])
  <2>1. CASE UNCHANGED counts
    BY <1>2, <2>1
  <2>2. ASSUME ~redis, NEW n \in 0..Cap, counts' = [counts EXCEPT ![home[s]][Owner[s]] = n]
        PROVE  counts' \in [Replicas -> [Users -> 0..Cap]]
    <3>1. home[s] \in Replicas /\ Owner[s] \in Users
      OBVIOUS
    <3>2. counts[home[s]] \in [Users -> 0..Cap]
      BY <3>1
    <3>3. [counts[home[s]] EXCEPT ![Owner[s]] = n] \in [Users -> 0..Cap]
      BY <3>2
    <3> QED
      BY <2>2, <3>3
  <2> QED
    BY <1>2, <2>1, <2>2 DEF SocketStep, CountsStep
<1>6. counter' \in [Keys -> Int] /\ (~redis' => counter' = [k \in Keys |-> 0])
  <2>1. CASE UNCHANGED counter
    BY <1>2, <2>1
  <2>2. CASE redis /\ counter' \in [Keys -> Int]
    BY <1>2, <2>2
  <2> QED
    BY <1>2, <2>1, <2>2 DEF SocketStep, CounterStep
<1>7. faults' \in 0..MaxFaults
  BY DEF SocketStep, Fault
<1>8. LocalOnly'
  BY <1>1, <1>2, <1>3 DEF LocalOnly
<1> QED
  BY <1>2, <1>3, <1>4, <1>5, <1>6, <1>7, <1>8

LEMMA HandshakeSteps ==
    ASSUME TypeInv, NEW s \in Sockets, Connecting(s) \/ HandshakeNext(s)
    PROVE  SocketStep(s)
<1> USE DEF SocketStep, config, hub, session, ghosts
<1>0. /\ "closed" \in Pcs \ Remote /\ "reserve" \in Pcs \ Remote /\ "accept" \in Pcs \ Remote
      /\ "join" \in Pcs \ Remote /\ "receive" \in Pcs \ Remote
      /\ "slot ttl" \in Pcs /\ "undo" \in Pcs /\ "presence" \in Pcs /\ "presence ttl" \in Pcs
  BY DEF Pcs, Remote
<1>k. Owner[s] \in Keys /\ Channel \in Keys /\ counter \in [Keys -> Int]
  BY DEF TypeInv, TypeOK, Keys
<1>00. /\ ttl \subseteq Keys /\ lost \in BOOLEAN /\ counts \in [Replicas -> [Users -> 0..Cap]]
       /\ home[s] \in Replicas /\ Owner[s] \in Users
  BY DEF TypeInv, TypeOK
<1>000. pc[s] \in Remote => redis
  BY DEF TypeInv, LocalOnly
<1>1. CASE Connecting(s)
  BY <1>0, <1>00, <1>1 DEF Connecting, PcStep, Goto, CountsStep, CounterStep
<1>2. CASE ReserveLocal(s)
  <2>1. CountsStep(s)
    <3>1. counts[home[s]][Owner[s]] \in 0..Cap
      BY <1>00
    <3>2. counts[home[s]][Owner[s]] < Cap => counts[home[s]][Owner[s]] + 1 \in 0..Cap
      BY <3>1
    <3> QED
      BY <1>2, <3>1, <3>2 DEF ReserveLocal, CountsStep
  <2>2. PcStep(s)
    BY <1>0, <1>2 DEF ReserveLocal, PcStep, Goto, Close
  <2> QED
    BY <1>00, <1>2, <2>1, <2>2 DEF ReserveLocal, CounterStep, Close
<1>3. CASE ReserveRedis(s)
  <2>1. PcStep(s)
    BY <1>0, <1>3 DEF ReserveRedis, PcStep, Goto
  <2>2. CounterStep
    <3>1. redis
      BY <1>3 DEF ReserveRedis
    <3>2. Add(Owner[s], 1)
      BY <1>3 DEF ReserveRedis
    <3> QED
      BY <1>k, <3>1, <3>2 DEF CounterStep, Add
  <2> QED
    BY <1>00, <1>3, <2>1, <2>2 DEF ReserveRedis, CountsStep
<1>4. CASE ReserveFails(s)
  <2>1. PcStep(s)
    BY <1>0, <1>4 DEF ReserveFails, PcStep, Goto
  <2>2. CounterStep
    <3>1. redis
      BY <1>4 DEF ReserveFails
    <3>2. AddFails(Owner[s], 1)
      BY <1>4 DEF ReserveFails
    <3> QED
      BY <1>k, <3>1, <3>2 DEF CounterStep, Add, AddFails
  <2> QED
    BY <1>00, <1>4, <2>1, <2>2 DEF ReserveFails, CountsStep, AddFails
<1>5. CASE SetTtl(s)
  BY <1>0, <1>00, <1>k, <1>5 DEF SetTtl, PcStep, Goto, CountsStep, CounterStep
<1>6. CASE SetTtlFails(s)
  BY <1>0, <1>00, <1>6 DEF SetTtlFails, PcStep, Goto, CountsStep, CounterStep
<1>7. CASE Refuse(s)
  <2>1. PcStep(s)
    BY <1>0, <1>7 DEF Refuse, PcStep, Goto, Close
  <2>2. CounterStep
    <3>1. redis
      BY <1>000, <1>7 DEF Refuse, Remote
    <3>2. Add(Owner[s], -1) \/ AddFails(Owner[s], -1)
      BY <1>7 DEF Refuse
    <3> QED
      BY <1>k, <3>1, <3>2 DEF CounterStep, Add, AddFails
  <2> QED
    BY <1>00, <1>7, <2>1, <2>2 DEF Refuse, CountsStep, AddFails, Close
<1>8. CASE Connect(s)
  BY <1>0, <1>00, <1>8 DEF Connect, PcStep, Goto, CountsStep, CounterStep
<1>9. CASE AcceptFails(s)
  BY <1>0, <1>00, <1>9 DEF AcceptFails, PcStep, Goto, CountsStep, CounterStep, Close
<1>10. CASE CountPresence(s)
  <2>0. redis
    BY <1>000, <1>10 DEF CountPresence, Remote
  <2>1. PcStep(s)
    BY <1>0, <1>10, <2>0 DEF CountPresence, PcStep, Goto
  <2>2. CounterStep
    <3>1. redis
      BY <2>0
    <3>2. Add(Channel, 1)
      BY <1>10 DEF CountPresence
    <3> QED
      BY <1>k, <3>1, <3>2 DEF CounterStep, Add
  <2> QED
    BY <1>00, <1>10, <2>1, <2>2 DEF CountPresence, CountsStep
<1>11. CASE CountPresenceFails(s)
  <2>0. redis
    BY <1>000, <1>11 DEF CountPresenceFails, Remote
  <2>1. PcStep(s)
    BY <1>0, <1>11, <2>0 DEF CountPresenceFails, PcStep, Goto
  <2>2. CounterStep
    <3>1. redis
      BY <2>0
    <3>2. AddFails(Channel, 1)
      BY <1>11 DEF CountPresenceFails
    <3> QED
      BY <1>k, <3>1, <3>2 DEF CounterStep, Add, AddFails
  <2> QED
    BY <1>00, <1>11, <2>1, <2>2 DEF CountPresenceFails, CountsStep, AddFails
<1>12. CASE Join(s)
  BY <1>0, <1>00, <1>12 DEF Join, PcStep, Goto, CountsStep, CounterStep
<1>13. CASE JoinFails(s)
  BY <1>0, <1>00, <1>13 DEF JoinFails, PcStep, Goto, CountsStep, CounterStep, Close
<1> QED
  BY <1>1, <1>2, <1>3, <1>4, <1>5, <1>6, <1>7, <1>8, <1>9, <1>10, <1>11, <1>12, <1>13
     DEF HandshakeNext

\* The steps of the loop and of the finally.
LEMMA LoopSteps ==
    ASSUME TypeInv, NEW s \in Sockets, LoopNext(s) \/ IntervalPasses(s)
    PROVE  SocketStep(s)
<1> USE DEF SocketStep, PcStep, CountsStep, CounterStep, Goto, config, hub, session, ghosts
<1>0. /\ "receive" \in Pcs \ Remote /\ "check" \in Pcs \ Remote /\ "fresh" \in Pcs \ Remote
      /\ "persist" \in Pcs \ Remote /\ "publish" \in Pcs \ Remote /\ "leave" \in Pcs \ Remote
      /\ \A l \in {"receive", "fresh", "publish"} : l # "closed"
  BY DEF Pcs, Remote
<1>00. ttl \subseteq Keys /\ lost \in BOOLEAN /\ pc \in [Sockets -> Pcs]
  BY DEF TypeInv, TypeOK
<1>1. CASE Receive(s)
  BY <1>0, <1>00, <1>1 DEF Receive
<1>2. CASE Hangup(s)
  BY <1>0, <1>00, <1>2 DEF Hangup
<1>3. CASE Check(s)
  BY <1>0, <1>00, <1>3 DEF Check, Handle
<1>4. CASE Fresh(s)
  BY <1>0, <1>00, <1>4 DEF Fresh
<1>5. CASE Persist(s)
  BY <1>0, <1>00, <1>5 DEF Persist
<1>6. CASE Publish(s)
  BY <1>0, <1>00, <1>6 DEF Publish
<1>7. CASE PublishFails(s)
  BY <1>0, <1>00, <1>7 DEF PublishFails
<1>8. CASE IntervalPasses(s)
  <2>1. pc' = [pc EXCEPT ![s] = pc[s]] /\ pc[s] \in Pcs \ Remote /\ pc[s] # "closed"
    BY <1>0, <1>00, <1>8 DEF IntervalPasses
  <2> QED
    BY <1>00, <1>8, <2>1 DEF IntervalPasses
<1> QED
  BY <1>1, <1>2, <1>3, <1>4, <1>5, <1>6, <1>7, <1>8 DEF LoopNext

LEMMA FinallySteps ==
    ASSUME TypeInv, NEW s \in Sockets, FinallyNext(s)
    PROVE  SocketStep(s)
<1> USE DEF SocketStep, config, hub, session, ghosts
<1>0. /\ "closed" \in Pcs \ Remote /\ "release" \in Pcs \ Remote
      /\ "absence" \in Pcs /\ "absence undo" \in Pcs /\ "release undo" \in Pcs
  BY DEF Pcs, Remote
<1>k. KeyOf(s) \in Keys /\ counter \in [Keys -> Int]
  BY DEF TypeInv, TypeOK, Keys, KeyOf
<1>00. /\ ttl \subseteq Keys /\ lost \in BOOLEAN /\ counts \in [Replicas -> [Users -> 0..Cap]]
       /\ home[s] \in Replicas /\ Owner[s] \in Users
  BY DEF TypeInv, TypeOK
<1>000. pc[s] \in Remote => redis
  BY DEF TypeInv, LocalOnly
<1>1. CASE Disconnect(s)
  BY <1>0, <1>00, <1>1 DEF Disconnect, PcStep, Goto, CountsStep, CounterStep
<1>2. CASE Decrement(s)
  <2>1. PcStep(s)
    BY <1>0, <1>2 DEF Decrement, Proceed, Close, PcStep, Goto
  <2>2. CounterStep
    <3>1. redis
      BY <1>2 DEF Decrement
    <3>2. Add(KeyOf(s), -1)
      BY <1>2 DEF Decrement
    <3> QED
      BY <1>k, <3>1, <3>2 DEF CounterStep, Add
  <2> QED
    BY <1>00, <1>2, <2>1, <2>2 DEF Decrement, Proceed, Close, CountsStep
<1>3. CASE Compensate(s)
  <2>0. redis
    BY <1>000, <1>3 DEF Compensate, Remote
  <2>1. PcStep(s)
    BY <1>0, <1>3 DEF Compensate, Proceed, Close, PcStep, Goto
  <2>2. CounterStep
    <3>1. redis
      BY <2>0
    <3>2. Add(KeyOf(s), 1)
      BY <1>3 DEF Compensate
    <3> QED
      BY <1>k, <3>1, <3>2 DEF CounterStep, Add
  <2> QED
    BY <1>00, <1>3, <2>1, <2>2 DEF Compensate, Proceed, Close, CountsStep
<1>4. CASE DecrementFails(s)
  <2>1. PcStep(s)
    BY <1>0, <1>4 DEF DecrementFails, Proceed, Close, PcStep, Goto
  <2>2. CounterStep
    <3>1. redis
      BY <1>4 DEF DecrementFails
    <3>2. AddFails(KeyOf(s), IF pc[s] \in {"absence", "release"} THEN -1 ELSE 1)
      BY <1>4 DEF DecrementFails
    <3> QED
      BY <1>k, <3>1, <3>2 DEF CounterStep, Add, AddFails
  <2> QED
    BY <1>00, <1>4, <2>1, <2>2 DEF DecrementFails, AddFails, Proceed, Close, CountsStep
<1>5. CASE ReleaseLocal(s)
  <2>1. CountsStep(s)
    <3> DEFINE c == counts[home[s]][Owner[s]]
    <3>1. c \in 0..Cap
      BY <1>00
    <3>2. (IF c =< 1 THEN 0 ELSE c - 1) \in 0..Cap
      BY <3>1
    <3> QED
      BY <1>5, <3>2 DEF ReleaseLocal, CountsStep
  <2>2. PcStep(s)
    BY <1>0, <1>5 DEF ReleaseLocal, PcStep, Goto, Close
  <2> QED
    BY <1>00, <1>5, <2>1, <2>2 DEF ReleaseLocal, Close, CounterStep
<1> QED
  BY <1>1, <1>2, <1>3, <1>4, <1>5 DEF FinallyNext

\* The other steps, one of which cuts the handlers of a replica short.
LEMMA OtherStepsTyped ==
    ASSUME TypeInv,
           \/ \E s \in Sockets : Reap(s)
           \/ \E p \in Replicas : ReapDecrement(p) \/ ReapCompensate(p) \/ ReapFails(p) \/ Restart(p)
           \/ \E u \in Users : Revoke(u)
           \/ \E k \in Keys : Expire(k)
           \/ DeleteChannel
    PROVE  TypeInv'
<1>k. Channel \in Keys /\ counter \in [Keys -> Int]
  BY DEF TypeInv, TypeOK, Keys
<1> USE DEF TypeInv, TypeOK, LocalOnly, Open, config, hub, session, ghosts
<1>1. ASSUME NEW s \in Sockets, Reap(s) PROVE TypeInv'
  BY <1>1 DEF Reap
<1>2. ASSUME NEW p \in Replicas, ReapDecrement(p) PROVE TypeInv'
  <2>1. redis /\ Add(Channel, -1)
    BY <1>2 DEF ReapDecrement
  <2>2. counter' \in [Keys -> Int]
    BY <1>k, <2>1 DEF Add
  <2> QED
    BY <1>2, <2>1, <2>2 DEF ReapDecrement
<1>3. ASSUME NEW p \in Replicas, ReapCompensate(p) PROVE TypeInv'
  <2>1. redis /\ Add(Channel, 1)
    BY <1>3 DEF ReapCompensate
  <2>2. counter' \in [Keys -> Int]
    BY <1>k, <2>1 DEF Add
  <2> QED
    BY <1>3, <2>1, <2>2 DEF ReapCompensate
<1>4. ASSUME NEW p \in Replicas, ReapFails(p) PROVE TypeInv'
  <2>1. redis /\ AddFails(Channel, IF reaper[p] = "decr" THEN -1 ELSE 1)
    BY <1>4 DEF ReapFails
  <2>2. counter' \in [Keys -> Int] /\ Fault
    BY <1>k, <2>1 DEF Add, AddFails
  <2> QED
    BY <1>4, <2>1, <2>2 DEF ReapFails, Fault
<1>5. ASSUME NEW p \in Replicas, Restart(p) PROVE TypeInv'
  <2> DEFINE cut == {s \in Sockets : home[s] = p}
  <2>1. /\ pc' = [s \in Sockets |-> IF s \in cut THEN "closed" ELSE pc[s]]
        /\ conns' = conns \ cut
        /\ revoked' = revoked \ cut /\ due' = due \ cut /\ late' = late \ cut
        /\ counts' = [counts EXCEPT ![p] = [u \in Users |-> 0]]
        /\ reaper' = [reaper EXCEPT ![p] = "idle"]
        /\ Fault
        /\ UNCHANGED <<config, counter, ttl, exists, lost>>
    BY <1>5 DEF Restart
  <2>2. pc' \in [Sockets -> Pcs]
    BY <2>1 DEF Pcs
  <2>3. revoked' \cup due' \cup late' \subseteq Open'
    BY <2>1
  <2>4. /\ counts' \in [Replicas -> [Users -> 0..Cap]]
        /\ redis' => counts' = [q \in Replicas |-> [u \in Users |-> 0]]
    <3>1. [u \in Users |-> 0] \in [Users -> 0..Cap]
      OBVIOUS
    <3> QED
      BY <2>1, <3>1
  <2>5. reaper' \in [Replicas -> {"idle", "decr", "undo"}]
    BY <2>1
  <2>6. faults' \in 0..MaxFaults
    BY <2>1 DEF Fault
  <2>7. LocalOnly'
    BY <2>1, <2>5 DEF Remote
  <2> HIDE DEF cut
  <2> QED
    BY <2>1, <2>2, <2>3, <2>4, <2>5, <2>6, <2>7
<1>6. ASSUME NEW u \in Users, Revoke(u) PROVE TypeInv'
  BY <1>6 DEF Revoke
<1>7. ASSUME NEW k \in Keys, Expire(k) PROVE TypeInv'
  <2>1. counter' = [counter EXCEPT ![k] = 0]
    BY <1>7 DEF Expire
  <2>2. counter' \in [Keys -> Int] /\ (~redis => counter' = [j \in Keys |-> 0])
    <3>1. counter' \in [Keys -> Int]
      BY <1>k, <2>1
    <3>2. ~redis => \A j \in Keys : counter'[j] = 0
      BY <1>k, <2>1
    <3> QED
      BY <3>1, <3>2
  <2>3. faults' \in 0..MaxFaults /\ lost' \in BOOLEAN
    BY <1>7 DEF Expire, Fault
  <2> QED
    BY <1>7, <2>2, <2>3 DEF Expire
<1>8. CASE DeleteChannel
  BY <1>8 DEF DeleteChannel
<1> QED
  BY <1>1, <1>2, <1>3, <1>4, <1>5, <1>6, <1>7, <1>8

LEMMA TypeStep == TypeInv /\ [Next]_vars => TypeInv'
<1> SUFFICES ASSUME TypeInv, [Next]_vars PROVE TypeInv'
  OBVIOUS
<1>1. CASE UNCHANGED vars
  BY <1>1 DEF vars, config, hub, session, ghosts, TypeInv, TypeOK, LocalOnly, Open
<1>2. ASSUME NEW s \in Sockets, Connecting(s) \/ Handler(s) \/ IntervalPasses(s) PROVE TypeInv'
  BY <1>2, HandshakeSteps, LoopSteps, FinallySteps, SocketStepTyped DEF Handler
<1> QED
  BY <1>1, <1>2, OtherStepsTyped DEF Next

\* Every variable keeps its type: no counter leaves the range it may have, only
\* sockets that are open have a session, and the in-process slots and the Redis
\* counters are never used together (backend/app/channels.py).
THEOREM TypeCorrect == Spec => []TypeOK
<1>1. Spec => []TypeInv
  BY TypeInit, TypeStep, PTL DEF Spec
<1>2. TypeInv => TypeOK
  BY DEF TypeInv
<1> QED
  BY <1>1, <1>2, PTL

-----------------------------------------------------------------------------
(* A revoked user cannot post.                                             *)

\* Only a revoked session has a late frame.
LateInv == TypeInv /\ late \subseteq revoked /\ NoLatePost

LEMMA LateInit == Init => LateInv
BY TypeInit DEF Init, LateInv, NoLatePost

LEMMA LateStep == LateInv /\ [Next]_vars => LateInv'
<1> SUFFICES ASSUME LateInv, [Next]_vars PROVE (late \subseteq revoked /\ NoLatePost)'
  BY TypeStep DEF LateInv
<1> USE DEF NoLatePost, config, hub, session, ghosts, Goto, Close
<1>0. pc \in [Sockets -> Pcs] /\ late \subseteq revoked /\ NoLatePost
  BY DEF LateInv, TypeInv, TypeOK
<1>1. ASSUME NEW s \in Sockets, Connecting(s) \/ HandshakeNext(s)
      PROVE  (late \subseteq revoked /\ NoLatePost)'
  BY <1>0, <1>1 DEF Connecting, HandshakeNext, ReserveLocal, ReserveRedis, ReserveFails, SetTtl,
       SetTtlFails, Refuse, Connect, AcceptFails, CountPresence, CountPresenceFails, Join, JoinFails
<1>2. ASSUME NEW s \in Sockets, LoopNext(s) \/ IntervalPasses(s)
      PROVE  (late \subseteq revoked /\ NoLatePost)'
  <2>1. CASE Receive(s)
    BY <1>0, <2>1 DEF Receive
  <2>2. CASE Hangup(s)
    BY <1>0, <2>2 DEF Hangup
  <2>3. CASE Check(s)
    BY <1>0, <2>3 DEF Check, Handle
  <2>4. CASE Fresh(s)
    BY <1>0, <2>4 DEF Fresh
  <2>5. CASE Persist(s)
    BY <1>0, <2>5 DEF Persist
  <2>6. CASE Publish(s)
    BY <1>0, <2>6 DEF Publish
  <2>7. CASE PublishFails(s)
    BY <1>0, <2>7 DEF PublishFails
  <2>8. CASE IntervalPasses(s)
    BY <1>0, <2>8 DEF IntervalPasses
  <2> QED
    BY <1>2, <2>1, <2>2, <2>3, <2>4, <2>5, <2>6, <2>7, <2>8 DEF LoopNext
<1>3. ASSUME NEW s \in Sockets, FinallyNext(s)
      PROVE  (late \subseteq revoked /\ NoLatePost)'
  BY <1>0, <1>3 DEF FinallyNext, Disconnect, Decrement, Compensate, DecrementFails, ReleaseLocal,
       Proceed
<1>4. ASSUME NEW p \in Replicas, Restart(p)
      PROVE  (late \subseteq revoked /\ NoLatePost)'
  BY <1>0, <1>4 DEF Restart
<1>5. ASSUME NEW u \in Users, Revoke(u)
      PROVE  (late \subseteq revoked /\ NoLatePost)'
  BY <1>0, <1>5 DEF Revoke
<1>6. ASSUME \/ \E s \in Sockets : Reap(s)
             \/ \E p \in Replicas : ReapDecrement(p) \/ ReapCompensate(p) \/ ReapFails(p)
             \/ \E k \in Keys : Expire(k)
             \/ DeleteChannel
             \/ UNCHANGED vars
      PROVE  (late \subseteq revoked /\ NoLatePost)'
  <2>1. UNCHANGED <<pc, session>>
    BY <1>6 DEF Reap, ReapDecrement, ReapCompensate, ReapFails, Expire, DeleteChannel, vars
  <2> QED
    BY <1>0, <2>1
<1> QED
  BY <1>1, <1>2, <1>3, <1>4, <1>5, <1>6 DEF Next, Handler

\* A frame that arrived after its user's session had been revoked is never written:
\* the write is reached only past a check that finds the session good, and a frame
\* is late only once it is not (channel_ws in backend/app/channels.py).
THEOREM RevokedNeverPost == Spec => []NoLatePost
<1>1. LateInv => NoLatePost
  BY DEF LateInv
<1> QED
  BY LateInit, LateStep, <1>1, PTL DEF Spec

-----------------------------------------------------------------------------
(* Counting.                                                               *)

\* What is counted is finite: sockets open one at a time.
FiniteInv ==
    /\ IsFiniteSet(Open) /\ IsFiniteSet(conns)
    /\ IsFiniteSet({p \in Replicas : reaper[p] # "idle"})

LEMMA FiniteInit == Init => FiniteInv
<1> SUFFICES ASSUME Init PROVE FiniteInv
  OBVIOUS
<1>1. Open = {} /\ conns = {} /\ {p \in Replicas : reaper[p] # "idle"} = {}
  BY DEF Init, Open
<1> QED
  BY <1>1, FS_EmptySet DEF FiniteInv

\* A set that gains at most one element stays finite.
LEMMA OneMore ==
    ASSUME NEW A, NEW B, NEW x, IsFiniteSet(A), B \subseteq A \cup {x}
    PROVE  IsFiniteSet(B)
BY FS_AddElement, FS_Subset

LEMMA FiniteStep == TypeInv /\ FiniteInv /\ [Next]_vars => FiniteInv'
<1> SUFFICES ASSUME TypeInv, FiniteInv, [Next]_vars PROVE FiniteInv'
  OBVIOUS
<1> DEFINE Busy == {p \in Replicas : reaper[p] # "idle"}
<1>0. /\ pc \in [Sockets -> Pcs] /\ conns \subseteq Sockets
      /\ reaper \in [Replicas -> {"idle", "decr", "undo"}]
      /\ IsFiniteSet(Open) /\ IsFiniteSet(conns) /\ IsFiniteSet(Busy)
  BY DEF TypeInv, TypeOK, FiniteInv
<1>1. \/ \E s \in Sockets : Open' \subseteq Open \cup {s}
      \/ Open' \subseteq Open
  <2>1. ASSUME NEW s \in Sockets, SocketStep(s) PROVE Open' \subseteq Open \cup {s}
    BY <1>0, <2>1 DEF SocketStep, PcStep, Goto, Open
  <2>2. ASSUME NEW p \in Replicas, Restart(p) PROVE Open' \subseteq Open
    BY <1>0, <2>2 DEF Restart, Open
  <2> QED
    BY <2>1, <2>2, HandshakeSteps, LoopSteps, FinallySteps DEF Next, Handler, Open, vars, Reap,
       ReapDecrement, ReapCompensate, ReapFails, Revoke, Expire, DeleteChannel
<1>2. \/ \E s \in Sockets : conns' \subseteq conns \cup {s}
      \/ conns' \subseteq conns
  <2>1. ASSUME NEW s \in Sockets, SocketStep(s) PROVE conns' \subseteq conns \cup {s}
    BY <2>1 DEF SocketStep
  <2> QED
    BY <2>1, HandshakeSteps, LoopSteps, FinallySteps DEF Next, Handler, vars, hub, Reap,
       ReapDecrement, ReapCompensate, ReapFails, Revoke, Expire, DeleteChannel, Restart
<1>3. \/ \E p \in Replicas : Busy' \subseteq Busy \cup {p}
      \/ Busy' \subseteq Busy
  <2>1. ASSUME NEW s \in Sockets, SocketStep(s) PROVE Busy' = Busy
    BY <2>1 DEF SocketStep
  <2>2. ASSUME NEW s \in Sockets, Reap(s) PROVE Busy' \subseteq Busy \cup {home[s]} /\ home[s] \in Replicas
    BY <1>0, <2>2 DEF Reap, TypeInv, TypeOK
  <2>3. ASSUME NEW p \in Replicas, ReapDecrement(p) \/ ReapCompensate(p) \/ ReapFails(p) \/ Restart(p)
        PROVE  Busy' \subseteq Busy \cup {p}
    BY <1>0, <2>3 DEF ReapDecrement, ReapCompensate, ReapFails, Restart
  <2> QED
    BY <2>1, <2>2, <2>3, HandshakeSteps, LoopSteps, FinallySteps DEF Next, Handler, vars, hub,
       Revoke, Expire, DeleteChannel
<1>4. IsFiniteSet(Open') /\ IsFiniteSet(conns') /\ IsFiniteSet(Busy')
  BY <1>0, <1>1, <1>2, <1>3, OneMore, FS_Subset
<1> QED
  BY <1>4 DEF FiniteInv

\* Sets that agree but for one element differ in size by that element.
LEMMA Counted ==
    ASSUME NEW A, NEW B, NEW x, IsFiniteSet(A), B \ {x} = A \ {x}
    PROVE  /\ IsFiniteSet(B) /\ Cardinality(A) \in Nat /\ Cardinality(B) \in Nat
           /\ Cardinality(B) = Cardinality(A) + (IF x \in B THEN 1 ELSE 0)
                                              - (IF x \in A THEN 1 ELSE 0)
<1>1. IsFiniteSet(B)
  BY OneMore
<1>2. Cardinality(A \ {x}) = Cardinality(A) - (IF x \in A THEN 1 ELSE 0)
  BY FS_RemoveElement, FS_CardinalityType
<1>3. Cardinality(B \ {x}) = Cardinality(B) - (IF x \in B THEN 1 ELSE 0)
  BY <1>1, FS_RemoveElement, FS_CardinalityType
<1>4. Cardinality(A) \in Nat /\ Cardinality(B) \in Nat
  BY <1>1, FS_CardinalityType
<1>5. Cardinality(B \ {x}) = Cardinality(A \ {x})
  OBVIOUS
<1>6. Cardinality(B) - (IF x \in B THEN 1 ELSE 0) = Cardinality(A) - (IF x \in A THEN 1 ELSE 0)
  BY <1>2, <1>3, <1>5
<1> QED
  BY <1>1, <1>4, <1>6

-----------------------------------------------------------------------------
(* The cap.                                                                *)

\* The handlers whose increment has not been taken back: those that hold a slot and
\* those that were refused one.
Slotted == Holding \cup {"undo"}
SlotsOf(u) == {s \in Sockets : Owner[s] = u /\ pc[s] \in Slotted}

\* While no increment was lost, nothing counts too little.
CapInv ==
    ~lost => \A u \in Users :
        IF redis THEN /\ Cardinality(SlotsOf(u)) =< counter[u]
                      /\ Cardinality(Holders(u)) =< Cap
        ELSE \A p \in Replicas : Cardinality(HoldersAt(p, u)) =< counts[p][u]

\* What a step of the socket s does to the slots of its user, on Redis.
RedisEffect(s) ==
    /\ \A u \in Users \ {Owner[s]} : counter'[u] = counter[u]
    /\ LET before == counter[Owner[s]]
           after == counter'[Owner[s]]
       IN  \/ /\ pc[s] \in Slotted <=> pc'[s] \in Slotted
              /\ pc'[s] \in Holding => pc[s] \in Holding
              /\ after >= before
           \/ /\ pc[s] \in Slotted /\ pc'[s] \notin Slotted
              /\ after >= before - 1
           \/ /\ pc[s] \notin Slotted /\ pc'[s] \in Slotted
              /\ after >= before + 1
              /\ pc'[s] \in Holding => after =< Cap

\* And in the process.
LocalEffect(s) ==
    /\ \A p \in Replicas, u \in Users :
          p # home[s] \/ u # Owner[s] => counts'[p][u] = counts[p][u]
    /\ LET before == counts[home[s]][Owner[s]]
           after == counts'[home[s]][Owner[s]]
       IN  \/ (pc'[s] \in Holding => pc[s] \in Holding) /\ after >= before
           \/ pc[s] \in Holding /\ pc'[s] \notin Holding /\ after >= before - 1
           \/ pc[s] \notin Holding /\ after >= before + 1

LEMMA HandshakeEffects ==
    ASSUME TypeInv, ~lost', NEW s \in Sockets, Connecting(s) \/ HandshakeNext(s)
    PROVE  IF redis THEN RedisEffect(s) ELSE LocalEffect(s)
<1> DEFINE o == Owner[s]
           c == counts[home[s]][o]
<1>0. /\ pc \in [Sockets -> Pcs] /\ counter \in [Keys -> Int]
      /\ counts \in [Replicas -> [Users -> 0..Cap]] /\ c \in Int /\ counter[o] \in Int
      /\ o \in Keys /\ o \in Users /\ Channel \in Keys /\ home[s] \in Replicas /\ o # Channel
      /\ \A u \in Users : u \in Keys /\ u # Channel
  BY DEF TypeInv, TypeOK, Keys
<1>00. pc[s] \in Remote => redis
  BY DEF TypeInv, LocalOnly
<1> USE DEF RedisEffect, LocalEffect, Slotted, Holding, Remote, Goto, Close, Add, hub
<1>1. CASE Connecting(s)
  BY <1>0, <1>1 DEF Connecting
<1>2. CASE ReserveLocal(s)
  <2>1. CASE c >= Cap
    <3>1. pc'[s] = "closed" /\ pc[s] = "reserve" /\ counts' = counts /\ ~redis
      BY <1>0, <1>2, <2>1 DEF ReserveLocal
    <3> QED
      BY <1>0, <3>1
  <2>2. CASE ~(c >= Cap)
    <3>1. /\ pc'[s] = "accept" /\ pc[s] = "reserve" /\ ~redis
          /\ counts' = [counts EXCEPT ![home[s]][o] = c + 1]
      BY <1>0, <1>2, <2>2 DEF ReserveLocal
    <3>2. counts'[home[s]][o] = c + 1
      BY <1>0, <3>1
    <3>3. \A p \in Replicas, u \in Users :
             p # home[s] \/ u # o => counts'[p][u] = counts[p][u]
      BY <1>0, <3>1
    <3> QED
      BY <1>0, <3>1, <3>2, <3>3
  <2> QED
    BY <2>1, <2>2
<1>3. CASE ReserveRedis(s)
  <2>1. /\ redis /\ pc[s] = "reserve"
        /\ counter'[o] = counter[o] + 1
        /\ \A u \in Users \ {o} : counter'[u] = counter[u]
    BY <1>0, <1>3 DEF ReserveRedis
  <2>2. CASE counter[o] + 1 > Cap
    <3>1. pc'[s] = "undo"
      BY <1>0, <1>3, <2>2 DEF ReserveRedis
    <3> QED
      BY <1>0, <2>1, <3>1
  <2>3. CASE ~(counter[o] + 1 > Cap)
    <3>1. pc'[s] \in {"slot ttl", "accept"}
      BY <1>0, <1>3, <2>3 DEF ReserveRedis
    <3>2. pc[s] \notin Slotted /\ pc'[s] \in Slotted
      BY <2>1, <3>1
    <3> HIDE DEF Slotted, Holding
    <3>3. counter'[o] =< Cap
      BY <1>0, <2>1, <2>3
    <3> QED
      BY <1>0, <2>1, <3>2, <3>3
  <2> QED
    BY <2>2, <2>3
<1>4. CASE ReserveFails(s)
  BY <1>4 DEF ReserveFails
<1>5. CASE SetTtl(s)
  <2>1. redis /\ counter' = counter
    BY <1>00, <1>5 DEF SetTtl
  <2>2. pc[s] \in {"slot ttl", "presence ttl"} /\ pc'[s] \in {"accept", "join"}
    BY <1>0, <1>5 DEF SetTtl
  <2>3. pc[s] \in Slotted /\ pc'[s] \in Slotted /\ pc[s] \in Holding
    BY <2>2
  <2> HIDE DEF Slotted, Holding
  <2> QED
    BY <1>0, <2>1, <2>3
<1>6. CASE SetTtlFails(s)
  <2>1. redis /\ counter' = counter
    BY <1>00, <1>6 DEF SetTtlFails
  <2>2. pc[s] \in {"slot ttl", "presence ttl"} /\ pc'[s] \in {"accept", "join"}
    BY <1>0, <1>6 DEF SetTtlFails
  <2>3. pc[s] \in Slotted /\ pc'[s] \in Slotted /\ pc[s] \in Holding
    BY <2>2
  <2> HIDE DEF Slotted, Holding
  <2> QED
    BY <1>0, <2>1, <2>3
<1>7. CASE Refuse(s)
  BY <1>0, <1>00, <1>7 DEF Refuse, AddFails
<1>8. CASE Connect(s)
  BY <1>0, <1>8 DEF Connect
<1>9. CASE AcceptFails(s)
  BY <1>0, <1>9 DEF AcceptFails
<1>10. CASE CountPresence(s)
  <2>1. redis /\ \A u \in Users : counter'[u] = counter[u]
    BY <1>0, <1>00, <1>10 DEF CountPresence
  <2>2. pc[s] = "presence" /\ pc'[s] \in {"presence ttl", "join"}
    BY <1>0, <1>10 DEF CountPresence
  <2>3. pc[s] \in Slotted /\ pc'[s] \in Slotted /\ pc[s] \in Holding
    BY <2>2
  <2> HIDE DEF Slotted, Holding
  <2> QED
    BY <1>0, <2>1, <2>3
<1>11. CASE CountPresenceFails(s)
  BY <1>0, <1>00, <1>11 DEF CountPresenceFails, AddFails
<1>12. CASE Join(s)
  BY <1>0, <1>12 DEF Join
<1>13. CASE JoinFails(s)
  BY <1>0, <1>13 DEF JoinFails
<1> QED
  BY <1>1, <1>2, <1>3, <1>4, <1>5, <1>6, <1>7, <1>8, <1>9, <1>10, <1>11, <1>12, <1>13
     DEF HandshakeNext

\* The loop keeps its slot.
LEMMA LoopKeepsSlot ==
    ASSUME TypeInv, NEW s \in Sockets, LoopNext(s) \/ IntervalPasses(s)
    PROVE  /\ pc[s] \in Holding /\ pc'[s] \in Holding
           /\ UNCHANGED hub
<1>0. pc \in [Sockets -> Pcs]
  BY DEF TypeInv, TypeOK
<1> USE DEF Holding, Goto
<1>1. CASE Receive(s)
  BY <1>0, <1>1 DEF Receive
<1>2. CASE Hangup(s)
  BY <1>0, <1>2 DEF Hangup
<1>3. CASE Check(s)
  BY <1>0, <1>3 DEF Check, Handle
<1>4. CASE Fresh(s)
  BY <1>0, <1>4 DEF Fresh
<1>5. CASE Persist(s)
  BY <1>0, <1>5 DEF Persist
<1>6. CASE Publish(s)
  BY <1>0, <1>6 DEF Publish
<1>7. CASE PublishFails(s)
  BY <1>0, <1>7 DEF PublishFails
<1>8. CASE IntervalPasses(s)
  BY <1>0, <1>8 DEF IntervalPasses
<1> QED
  BY <1>1, <1>2, <1>3, <1>4, <1>5, <1>6, <1>7, <1>8 DEF LoopNext

LEMMA FinallyEffects ==
    ASSUME TypeInv, NEW s \in Sockets, FinallyNext(s)
    PROVE  IF redis THEN RedisEffect(s) ELSE LocalEffect(s)
<1> DEFINE o == Owner[s]
           c == counts[home[s]][o]
<1>0. /\ pc \in [Sockets -> Pcs] /\ counter \in [Keys -> Int]
      /\ counts \in [Replicas -> [Users -> 0..Cap]]
      /\ c \in 0..Cap /\ counter[o] \in Int
      /\ o \in Keys /\ o \in Users /\ Channel \in Keys /\ home[s] \in Replicas /\ o # Channel
      /\ \A u \in Users : u \in Keys /\ u # Channel
  BY DEF TypeInv, TypeOK, Keys
<1>00. pc[s] \in Remote => redis
  BY DEF TypeInv, LocalOnly
<1> USE DEF RedisEffect, LocalEffect, Goto, Close, Add, hub
<1>1. CASE Disconnect(s)
  <2>1. counter' = counter /\ counts' = counts
    BY <1>1 DEF Disconnect
  <2>2. pc[s] = "leave" /\ pc'[s] \in {"absence", "release"}
    BY <1>0, <1>1 DEF Disconnect
  <2>3. pc[s] \in Slotted /\ pc'[s] \in Slotted /\ pc[s] \in Holding
    BY <2>2 DEF Slotted, Holding
  <2> QED
    BY <1>0, <2>1, <2>3
\* The presence counter is no slot.
<1>2. ASSUME pc[s] \in {"absence", "absence undo"}, Decrement(s) \/ Compensate(s) \/ DecrementFails(s)
      PROVE  redis /\ RedisEffect(s)
  <2>1. redis
    BY <1>00, <1>2 DEF Remote
  <2>2. KeyOf(s) = Channel
    BY <1>2 DEF KeyOf
  <2>3. \A u \in Users : counter'[u] = counter[u]
    BY <1>0, <1>2, <2>2 DEF Decrement, Compensate, DecrementFails, AddFails
  <2>4. pc'[s] \in {"release", "absence undo"}
    BY <1>0, <1>2, <2>2 DEF Decrement, Compensate, DecrementFails, Proceed
  <2>5. CASE pc[s] = "absence"
    <3>1. pc[s] \in Slotted /\ pc'[s] \in Slotted /\ pc[s] \in Holding
      BY <2>4, <2>5 DEF Slotted, Holding
    <3> QED
      BY <1>0, <2>1, <2>3, <3>1
  <2>6. CASE pc[s] = "absence undo"
    <3>1. pc[s] \in Slotted /\ pc'[s] \in Slotted /\ pc[s] \in Holding
      BY <2>4, <2>6 DEF Slotted, Holding
    <3> QED
      BY <1>0, <2>1, <2>3, <3>1
  <2> QED
    BY <1>2, <2>5, <2>6
<1>3. ASSUME pc[s] \in {"release", "release undo"}, Decrement(s) \/ Compensate(s) \/ DecrementFails(s)
      PROVE  redis /\ RedisEffect(s)
  <2>1. redis
    BY <1>00, <1>3 DEF Remote, Decrement, Compensate, DecrementFails
  <2>2. KeyOf(s) = o /\ KeyOf(s) # Channel
    BY <1>0, <1>3 DEF KeyOf
  <2>3. \A u \in Users \ {o} : counter'[u] = counter[u]
    BY <1>0, <1>3, <2>2 DEF Decrement, Compensate, DecrementFails, AddFails
  <2>4. pc'[s] \in {"release undo", "closed"}
    BY <1>0, <1>3, <2>2 DEF Decrement, Compensate, DecrementFails, Proceed
  <2>5. CASE pc[s] = "release"
    <3>1. counter'[o] >= counter[o] - 1
      <4>1. counter' = counter \/ counter' = [counter EXCEPT ![KeyOf(s)] = counter[KeyOf(s)] + (-1)]
        BY <1>3, <2>5 DEF Decrement, Compensate, DecrementFails, AddFails
      <4> QED
        BY <1>0, <2>2, <4>1
    <3> QED
      BY <2>1, <2>3, <2>4, <2>5, <3>1 DEF Slotted, Holding
  <2>6. CASE pc[s] = "release undo"
    <3>1. counter'[o] >= counter[o]
      <4>1. counter' = counter \/ counter' = [counter EXCEPT ![KeyOf(s)] = counter[KeyOf(s)] + 1]
        BY <1>3, <2>6 DEF Decrement, Compensate, DecrementFails, AddFails
      <4> QED
        BY <1>0, <2>2, <4>1
    <3> QED
      BY <2>1, <2>3, <2>4, <2>6, <3>1 DEF Slotted, Holding
  <2> QED
    BY <1>3, <2>5, <2>6
<1>4. CASE ReleaseLocal(s)
  <2>1. ~redis /\ pc[s] = "release" /\ pc'[s] = "closed"
    BY <1>0, <1>4 DEF ReleaseLocal
  <2>2. counts' = [counts EXCEPT ![home[s]][o] = IF c =< 1 THEN 0 ELSE c - 1]
    BY <1>4 DEF ReleaseLocal
  <2>3. counts'[home[s]][o] = IF c =< 1 THEN 0 ELSE c - 1
    BY <1>0, <2>2
  <2>4. counts'[home[s]][o] >= c - 1
    BY <1>0, <2>3
  <2>5. \A p \in Replicas, u \in Users :
           p # home[s] \/ u # o => counts'[p][u] = counts[p][u]
    BY <1>0, <2>2
  <2>6. pc[s] \in Holding /\ pc'[s] \notin Holding
    BY <2>1 DEF Holding
  <2> QED
    BY <2>1, <2>4, <2>5, <2>6
<1>5. Decrement(s) \/ Compensate(s) \/ DecrementFails(s) =>
        pc[s] \in {"absence", "absence undo"} \/ pc[s] \in {"release", "release undo"}
  BY DEF Decrement, Compensate, DecrementFails
<1> QED
  BY <1>1, <1>2, <1>3, <1>4, <1>5 DEF FinallyNext

\* One for a handler of user u at a place of L.
One(u, s, l, L) == IF Owner[s] = u /\ l \in L THEN 1 ELSE 0

\* A step of the socket s adds or removes s, and no other socket.
LEMMA SlotsMove ==
    ASSUME TypeInv, FiniteInv, NEW s \in Sockets, SocketStep(s), NEW u \in Users
    PROVE  /\ IsFiniteSet(SlotsOf(u)')
           /\ Cardinality(SlotsOf(u)) \in Nat /\ Cardinality(SlotsOf(u)') \in Nat
           /\ Cardinality(SlotsOf(u)') =
                Cardinality(SlotsOf(u)) + One(u, s, pc'[s], Slotted) - One(u, s, pc[s], Slotted)
           /\ Cardinality(Holders(u)) \in Nat /\ Cardinality(Holders(u)') \in Nat
           /\ Cardinality(Holders(u)') =
                Cardinality(Holders(u)) + One(u, s, pc'[s], Holding) - One(u, s, pc[s], Holding)
<1>1. \A t \in Sockets \ {s} : pc'[t] = pc[t]
  BY DEF SocketStep, PcStep, Goto, TypeInv, TypeOK
<1>2. IsFiniteSet(SlotsOf(u)) /\ IsFiniteSet(Holders(u))
  <2>1. SlotsOf(u) \subseteq Open /\ Holders(u) \subseteq Open
    BY DEF SlotsOf, Holders, Slotted, Holding, Open
  <2> QED
    BY <2>1, FS_Subset DEF FiniteInv
<1>3. SlotsOf(u)' \ {s} = SlotsOf(u) \ {s} /\ Holders(u)' \ {s} = Holders(u) \ {s}
  BY <1>1 DEF SlotsOf, Holders
<1>4. /\ s \in SlotsOf(u)' <=> Owner[s] = u /\ pc'[s] \in Slotted
      /\ s \in SlotsOf(u) <=> Owner[s] = u /\ pc[s] \in Slotted
      /\ s \in Holders(u)' <=> Owner[s] = u /\ pc'[s] \in Holding
      /\ s \in Holders(u) <=> Owner[s] = u /\ pc[s] \in Holding
  BY DEF SlotsOf, Holders
<1>5. /\ IsFiniteSet(SlotsOf(u)')
      /\ Cardinality(SlotsOf(u)) \in Nat /\ Cardinality(SlotsOf(u)') \in Nat
      /\ Cardinality(SlotsOf(u)') = Cardinality(SlotsOf(u))
            + (IF s \in SlotsOf(u)' THEN 1 ELSE 0) - (IF s \in SlotsOf(u) THEN 1 ELSE 0)
  BY <1>2, <1>3, Counted
<1>6. /\ Cardinality(Holders(u)) \in Nat /\ Cardinality(Holders(u)') \in Nat
      /\ Cardinality(Holders(u)') = Cardinality(Holders(u))
            + (IF s \in Holders(u)' THEN 1 ELSE 0) - (IF s \in Holders(u) THEN 1 ELSE 0)
  BY <1>2, <1>3, Counted
<1> QED
  BY <1>4, <1>5, <1>6 DEF One

LEMMA LocalSlotsMove ==
    ASSUME TypeInv, FiniteInv, NEW s \in Sockets, SocketStep(s), NEW u \in Users, NEW p \in Replicas
    PROVE  /\ Cardinality(HoldersAt(p, u)) \in Nat /\ Cardinality(HoldersAt(p, u)') \in Nat
           /\ home[s] # p => Cardinality(HoldersAt(p, u)') = Cardinality(HoldersAt(p, u))
           /\ home[s] = p => Cardinality(HoldersAt(p, u)') =
                Cardinality(HoldersAt(p, u)) + One(u, s, pc'[s], Holding) - One(u, s, pc[s], Holding)
<1>1. /\ \A t \in Sockets \ {s} : pc'[t] = pc[t]
      /\ home' = home
  BY DEF SocketStep, PcStep, Goto, TypeInv, TypeOK, config
<1>2. IsFiniteSet(HoldersAt(p, u))
  <2>1. HoldersAt(p, u) \subseteq Open
    BY DEF HoldersAt, Holders, Holding, Open
  <2> QED
    BY <2>1, FS_Subset DEF FiniteInv
<1>3. HoldersAt(p, u)' \ {s} = HoldersAt(p, u) \ {s}
  BY <1>1 DEF HoldersAt, Holders
<1>4. /\ s \in HoldersAt(p, u)' <=> home[s] = p /\ Owner[s] = u /\ pc'[s] \in Holding
      /\ s \in HoldersAt(p, u) <=> home[s] = p /\ Owner[s] = u /\ pc[s] \in Holding
  BY <1>1 DEF HoldersAt, Holders
<1>5. /\ Cardinality(HoldersAt(p, u)) \in Nat /\ Cardinality(HoldersAt(p, u)') \in Nat
      /\ Cardinality(HoldersAt(p, u)') = Cardinality(HoldersAt(p, u))
            + (IF s \in HoldersAt(p, u)' THEN 1 ELSE 0) - (IF s \in HoldersAt(p, u) THEN 1 ELSE 0)
  BY <1>2, <1>3, Counted
<1> QED
  BY <1>4, <1>5 DEF One

\* The slots after a step of s that has the effect of one.
LEMMA EffectKeepsCap ==
    ASSUME TypeInv, FiniteInv, CapInv, ~lost, ~lost', NEW s \in Sockets, SocketStep(s),
           IF redis THEN RedisEffect(s) ELSE LocalEffect(s)
    PROVE  CapInv'
<1>0. /\ counter \in [Keys -> Int] /\ counts \in [Replicas -> [Users -> 0..Cap]]
      /\ counter' \in [Keys -> Int] /\ counts' \in [Replicas -> [Users -> 0..Cap]]
      /\ \A u \in Users : u \in Keys
      /\ redis' = redis
  BY SocketStepTyped DEF TypeInv, TypeOK, Keys, SocketStep, config
<1>1. ASSUME redis, NEW u \in Users
      PROVE  Cardinality(SlotsOf(u)') =< counter'[u] /\ Cardinality(Holders(u)') =< Cap
  <2>1. Cardinality(SlotsOf(u)) =< counter[u] /\ Cardinality(Holders(u)) =< Cap
    BY <1>1 DEF CapInv
  <2>2. counter[u] \in Int /\ counter'[u] \in Int
    BY <1>0
  <2>3. CASE Owner[s] # u
    BY <1>1, <2>1, <2>2, <2>3, SlotsMove DEF RedisEffect, One
  <2>4. CASE Owner[s] = u
    <3>1. Cardinality(SlotsOf(u)') =< counter'[u]
      BY <1>1, <2>1, <2>2, <2>4, SlotsMove DEF RedisEffect, One
    <3>2. Cardinality(Holders(u)') =< Cardinality(SlotsOf(u)')
      <4>1. Holders(u)' \subseteq SlotsOf(u)'
        BY DEF Holders, SlotsOf, Slotted
      <4>2. IsFiniteSet(SlotsOf(u)')
        BY SlotsMove
      <4> QED
        BY <4>1, <4>2, FS_Subset
    <3>3. /\ Cardinality(Holders(u)) \in Nat /\ Cardinality(Holders(u)') \in Nat
          /\ Cardinality(SlotsOf(u)') \in Nat
          /\ Cardinality(Holders(u)') = Cardinality(Holders(u)) +
                (IF pc'[s] \in Holding THEN 1 ELSE 0) - (IF pc[s] \in Holding THEN 1 ELSE 0)
      BY <2>4, SlotsMove DEF One
    <3>4. CASE pc'[s] \in Holding => pc[s] \in Holding
      <4>1. Cardinality(Holders(u)') =< Cardinality(Holders(u))
        <5>1. CASE pc'[s] \in Holding
          BY <3>3, <3>4, <5>1
        <5>2. CASE pc'[s] \notin Holding
          BY <3>3, <5>2
        <5> QED
          BY <5>1, <5>2
      <4> QED
        BY <2>1, <3>1, <3>3, <4>1
    <3>5. CASE pc'[s] \in Holding /\ pc[s] \notin Holding
      <4>1. counter'[u] =< Cap
        BY <1>1, <2>4, <3>5 DEF RedisEffect, Slotted
      <4> QED
        BY <2>2, <3>1, <3>2, <3>3, <4>1
    <3> QED
      BY <3>1, <3>4, <3>5
  <2> QED
    BY <2>3, <2>4
<1>2. ASSUME ~redis, NEW u \in Users, NEW p \in Replicas
      PROVE  Cardinality(HoldersAt(p, u)') =< counts'[p][u]
  <2>1. Cardinality(HoldersAt(p, u)) =< counts[p][u]
    BY <1>2 DEF CapInv
  <2>2. counts[p][u] \in Int /\ counts'[p][u] \in Int
    BY <1>0
  <2> QED
    BY <1>2, <2>1, <2>2, LocalSlotsMove DEF LocalEffect, One
<1> QED
  BY <1>0, <1>1, <1>2 DEF CapInv

\* Handlers that were cut short count no more than before.
LEMMA RestartKeepsCap ==
    ASSUME TypeInv, FiniteInv, CapInv, ~lost, NEW p \in Replicas, Restart(p)
    PROVE  CapInv'
<1>0. /\ pc \in [Sockets -> Pcs] /\ counts \in [Replicas -> [Users -> 0..Cap]]
      /\ \A s \in Sockets : pc'[s] = IF home[s] = p THEN "closed" ELSE pc[s]
      /\ redis' = redis /\ home' = home /\ counter' = counter /\ lost' = lost
      /\ counts' = [counts EXCEPT ![p] = [u \in Users |-> 0]]
  BY DEF TypeInv, TypeOK, Restart, config
<1>1. ASSUME redis, NEW u \in Users
      PROVE  Cardinality(SlotsOf(u)') =< counter'[u] /\ Cardinality(Holders(u)') =< Cap
  <2>1. SlotsOf(u)' \subseteq SlotsOf(u) /\ Holders(u)' \subseteq Holders(u)
    BY <1>0 DEF SlotsOf, Holders, Slotted, Holding
  <2>2. IsFiniteSet(SlotsOf(u)) /\ IsFiniteSet(Holders(u))
    <3>1. SlotsOf(u) \subseteq Open /\ Holders(u) \subseteq Open
      BY DEF SlotsOf, Holders, Slotted, Holding, Open
    <3> QED
      BY <3>1, FS_Subset DEF FiniteInv
  <2>3. /\ Cardinality(SlotsOf(u)') =< Cardinality(SlotsOf(u))
        /\ Cardinality(Holders(u)') =< Cardinality(Holders(u))
        /\ Cardinality(SlotsOf(u)') \in Nat /\ Cardinality(SlotsOf(u)) \in Nat
        /\ Cardinality(Holders(u)') \in Nat /\ Cardinality(Holders(u)) \in Nat
    BY <2>1, <2>2, FS_Subset, FS_CardinalityType
  <2>4. counter[u] \in Int /\ Cardinality(SlotsOf(u)) =< counter[u] /\ Cardinality(Holders(u)) =< Cap
    BY <1>1 DEF CapInv, TypeInv, TypeOK, Keys
  <2> QED
    BY <1>0, <2>3, <2>4
<1>2. ASSUME ~redis, NEW u \in Users, NEW q \in Replicas
      PROVE  Cardinality(HoldersAt(q, u)') =< counts'[q][u]
  <2>1. CASE q = p
    <3>1. HoldersAt(q, u)' = {}
      BY <1>0, <2>1 DEF HoldersAt, Holders, Holding
    <3>2. counts'[q][u] = 0
      BY <1>0, <2>1
    <3> QED
      BY <3>1, <3>2, FS_EmptySet
  <2>2. CASE q # p
    <3>1. HoldersAt(q, u)' = HoldersAt(q, u)
      BY <1>0, <2>2 DEF HoldersAt, Holders
    <3>2. counts'[q][u] = counts[q][u]
      BY <1>0, <2>2
    <3> QED
      BY <1>2, <3>1, <3>2 DEF CapInv
  <2> QED
    BY <2>1, <2>2
<1> QED
  BY <1>0, <1>1, <1>2 DEF CapInv

LEMMA CapStep == TypeInv /\ FiniteInv /\ CapInv /\ [Next]_vars => CapInv'
<1> SUFFICES ASSUME TypeInv, FiniteInv, CapInv, [Next]_vars, ~lost' PROVE CapInv'
  BY DEF CapInv
<1> USE DEF config, hub, session, ghosts
<1>1. ASSUME NEW s \in Sockets, Connecting(s) \/ Handler(s) \/ IntervalPasses(s)
      PROVE  CapInv'
  <2>1. SocketStep(s)
    BY <1>1, HandshakeSteps, LoopSteps, FinallySteps DEF Handler
  <2>2. ~lost
    BY <1>1 DEF Connecting, Handler, IntervalPasses, HandshakeNext, LoopNext, FinallyNext,
         ReserveLocal, ReserveRedis, ReserveFails, SetTtl, SetTtlFails, Refuse, Connect,
         AcceptFails, CountPresence, CountPresenceFails, Join, JoinFails, Receive, Hangup,
         Check, Fresh, Persist, Publish, PublishFails, Disconnect, Decrement, Compensate,
         DecrementFails, ReleaseLocal
  <2>3. ASSUME LoopNext(s) \/ IntervalPasses(s)
        PROVE  IF redis THEN RedisEffect(s) ELSE LocalEffect(s)
    <3>1. pc[s] \in Holding /\ pc'[s] \in Holding /\ counter' = counter /\ counts' = counts
      BY <2>3, LoopKeepsSlot
    <3>2. counter[Owner[s]] \in Int /\ counts[home[s]][Owner[s]] \in Int
      BY DEF TypeInv, TypeOK, Keys
    <3> QED
      BY <3>1, <3>2 DEF RedisEffect, LocalEffect, Slotted
  <2>4. IF redis THEN RedisEffect(s) ELSE LocalEffect(s)
    BY <1>1, <2>3, HandshakeEffects, FinallyEffects DEF Handler
  <2> QED
    BY <2>1, <2>2, <2>4, EffectKeepsCap
<1>2. ASSUME NEW p \in Replicas, Restart(p) PROVE CapInv'
  <2>1. ~lost
    BY <1>2 DEF Restart
  <2> QED
    BY <1>2, <2>1, RestartKeepsCap
\* The rest counts presences, or nothing.
<1>3. ASSUME \/ \E s \in Sockets : Reap(s)
             \/ \E p \in Replicas : ReapDecrement(p) \/ ReapCompensate(p) \/ ReapFails(p)
             \/ \E u \in Users : Revoke(u)
             \/ \E k \in Keys : Expire(k)
             \/ DeleteChannel
             \/ UNCHANGED vars
      PROVE  CapInv'
  <2>1. UNCHANGED <<redis, home, pc, counts>> /\ ~lost
    <3>1. ASSUME NEW k \in Keys, Expire(k) PROVE ~lost
      BY <3>1, Zenon DEF Expire
    <3> QED
      BY <1>3, <3>1 DEF Reap, ReapDecrement, ReapCompensate, ReapFails, Revoke, Expire, DeleteChannel,
           vars
  <2>2. \A u \in Users : counter'[u] = counter[u]
    <3>1. counter \in [Keys -> Int] /\ \A u \in Users : u \in Keys /\ u # Channel
      BY DEF TypeInv, TypeOK, Keys
    <3>2. ASSUME NEW p \in Replicas, ReapDecrement(p) \/ ReapCompensate(p) \/ ReapFails(p)
          PROVE  \A u \in Users : counter'[u] = counter[u]
      BY <3>1, <3>2 DEF ReapDecrement, ReapCompensate, ReapFails, Add, AddFails
    <3>3. ASSUME NEW k \in Keys, Expire(k)
          PROVE  \A u \in Users : counter'[u] = counter[u]
      BY <3>1, <3>3 DEF Expire
    <3> QED
      BY <1>3, <3>2, <3>3 DEF Reap, Revoke, DeleteChannel, vars
  <2>3. \A u \in Users : /\ SlotsOf(u)' = SlotsOf(u) /\ Holders(u)' = Holders(u)
                         /\ \A p \in Replicas : HoldersAt(p, u)' = HoldersAt(p, u)
    BY <2>1 DEF SlotsOf, HoldersAt, Holders
  <2> QED
    BY <2>1, <2>2, <2>3 DEF CapInv
<1> QED
  BY <1>1, <1>2, <1>3 DEF Next

LEMMA CapInit == Init => CapInv
<1> SUFFICES ASSUME Init, NEW u \in Users
             PROVE  /\ Cardinality(SlotsOf(u)) =< counter[u] /\ Cardinality(Holders(u)) =< Cap
                    /\ \A p \in Replicas : Cardinality(HoldersAt(p, u)) =< counts[p][u]
  BY DEF CapInv
<1>1. counter[u] = 0 /\ \A p \in Replicas : counts[p][u] = 0
  BY DEF Init, Keys
<1>2. SlotsOf(u) = {} /\ Holders(u) = {}
  BY DEF Init, SlotsOf, Slotted, Holders, Holding
<1>3. ASSUME NEW p \in Replicas PROVE Cardinality(HoldersAt(p, u)) =< counts[p][u]
  BY <1>1, <1>2, FS_EmptySet DEF HoldersAt
<1>4. Cardinality({}) = 0
  BY FS_EmptySet
<1> QED
  BY <1>1, <1>2, <1>3, <1>4

\* No user has more sockets past the handshake than the cap, in all replicas with
\* Redis and in each without, however handlers and deliveries interleave and whichever
\* calls fail, as long as no increment was lost (try_reserve and release,
\* backend/app/channels.py).
THEOREM CapIsKept == Spec => []CapHolds
<1>1. Init => TypeInv /\ FiniteInv /\ CapInv
  BY TypeInit, FiniteInit, CapInit
<1>2. TypeInv /\ FiniteInv /\ CapInv /\ [Next]_vars => (TypeInv /\ FiniteInv /\ CapInv)'
  BY TypeStep, FiniteStep, CapStep
<1>3. TypeInv /\ FiniteInv /\ CapInv => CapHolds
  <2> SUFFICES ASSUME TypeInv, FiniteInv, CapInv, ~lost, ~redis, NEW p \in Replicas, NEW u \in Users
               PROVE  Cardinality(HoldersAt(p, u)) =< Cap
    BY DEF CapHolds, CapInv
  <2>1. Cardinality(HoldersAt(p, u)) =< counts[p][u]
    BY DEF CapInv
  <2>2. counts[p][u] \in 0..Cap
    BY DEF TypeInv, TypeOK
  <2>3. IsFiniteSet(HoldersAt(p, u))
    <3>1. HoldersAt(p, u) \subseteq Open
      BY DEF HoldersAt, Holders, Holding, Open
    <3> QED
      BY <3>1, FS_Subset DEF FiniteInv
  <2>4. Cardinality(HoldersAt(p, u)) \in Nat
    BY <2>3, FS_CardinalityType
  <2> QED
    BY <2>1, <2>2, <2>4
<1> QED
  BY <1>1, <1>2, <1>3, PTL DEF Spec

-----------------------------------------------------------------------------
(* Slots are neither leaked nor returned twice.                            *)

Reaping(l) == {p \in Replicas : reaper[p] = l}

\* The presences that are counted, or whose decrement is under way.
Present ==
    Cardinality(conns) - Cardinality(At("presence"))
        + Cardinality(At("absence")) - Cardinality(At("absence undo"))
        + Cardinality(Reaping("decr")) - Cardinality(Reaping("undo"))

ExactInv ==
    faults = 0 =>
        IF redis
        THEN /\ \A u \in Users : counter[u] = Cardinality(SlotsOf(u))
             /\ \A s \in Sockets : pc[s] # "release undo"
             /\ counter[Channel] >= Present
        ELSE \A u \in Users, p \in Replicas : counts[p][u] = Cardinality(HoldersAt(p, u))

\* One for a member, to add up.
Has(S, x) == IF x \in S THEN 1 ELSE 0

\* The places where a presence is not yet counted, or no longer, or must be again.
Joining == {"presence"}
Leaving == {"absence"}
Undoing == {"absence undo"}

LEMMA HasBit == ASSUME NEW S, NEW x PROVE Has(S, x) \in {0, 1}
BY DEF Has

\* The effect of a step of s on the counters, when no call fails.
RedisExact(s) ==
    /\ \A u \in Users \ {Owner[s]} : counter'[u] = counter[u]
    /\ counter'[Owner[s]] = counter[Owner[s]] + Has(Slotted, pc'[s]) - Has(Slotted, pc[s])

PresenceExact(s) ==
    /\ conns' \ {s} = conns \ {s}
    /\ counter'[Channel] - counter[Channel] >=
         (Has(conns', s) - Has(conns, s))
         - (Has(Joining, pc'[s]) - Has(Joining, pc[s]))
         + (Has(Leaving, pc'[s]) - Has(Leaving, pc[s]))
         - (Has(Undoing, pc'[s]) - Has(Undoing, pc[s]))

LocalExact(s) ==
    /\ \A p \in Replicas, u \in Users :
          p # home[s] \/ u # Owner[s] => counts'[p][u] = counts[p][u]
    /\ counts'[home[s]][Owner[s]] =
         counts[home[s]][Owner[s]] + Has(Holding, pc'[s]) - Has(Holding, pc[s])

Exact(s) ==
    /\ IF redis THEN RedisExact(s) /\ PresenceExact(s) ELSE LocalExact(s)
    /\ pc'[s] # "release undo"

\* With exact counts no slot is given back twice.
NoUndo(s) == redis => pc[s] # "release undo"

\* A count that is zero has nothing to give back.
CanRelease(s) ==
    pc[s] = "release" => IF redis THEN counter[Owner[s]] >= 1 ELSE counts[home[s]][Owner[s]] >= 1

LEMMA SlotTypes ==
    ASSUME TypeInv, NEW s \in Sockets
    PROVE  /\ pc \in [Sockets -> Pcs] /\ counter \in [Keys -> Int] /\ conns \subseteq Sockets
           /\ counts \in [Replicas -> [Users -> 0..Cap]] /\ counts[home[s]][Owner[s]] \in Int
           /\ counter[Owner[s]] \in Int /\ counter[Channel] \in Int
           /\ Owner[s] \in Keys /\ Owner[s] \in Users /\ Channel \in Keys
           /\ home[s] \in Replicas /\ Owner[s] # Channel
           /\ \A u \in Users : u \in Keys /\ u # Channel
BY DEF TypeInv, TypeOK, Keys

\* A step that leaves the counters alone, and s among the connections and at a place
\* that counts as much.
LEMMA Uncounted ==
    ASSUME TypeInv, NEW s \in Sockets, counter' = counter, counts' = counts, conns' = conns,
           Has(Slotted, pc'[s]) = Has(Slotted, pc[s]), Has(Holding, pc'[s]) = Has(Holding, pc[s]),
           Has(Joining, pc'[s]) = 0, Has(Joining, pc[s]) = 0,
           Has(Leaving, pc'[s]) = 0, Has(Leaving, pc[s]) = 0,
           Has(Undoing, pc'[s]) = 0, Has(Undoing, pc[s]) = 0
    PROVE  IF redis THEN RedisExact(s) /\ PresenceExact(s) ELSE LocalExact(s)
<1>0. Has(Slotted, pc[s]) \in Int /\ Has(Holding, pc[s]) \in Int /\ Has(conns, s) \in Int
  BY HasBit
<1>1. RedisExact(s)
  BY <1>0, SlotTypes DEF RedisExact
<1>2. PresenceExact(s)
  BY <1>0, SlotTypes DEF PresenceExact
<1>3. LocalExact(s)
  BY <1>0, SlotTypes DEF LocalExact
<1> QED
  BY <1>1, <1>2, <1>3

\* A handshake counts exactly.
LEMMA HandshakeExact ==
    ASSUME TypeInv, ~Fault, NEW s \in Sockets, Connecting(s) \/ HandshakeNext(s)
    PROVE  Exact(s)
<1> DEFINE o == Owner[s]
           c == counts[home[s]][o]
<1>0. /\ pc \in [Sockets -> Pcs] /\ counter \in [Keys -> Int] /\ conns \subseteq Sockets
      /\ counts \in [Replicas -> [Users -> 0..Cap]] /\ c \in Int
      /\ counter[o] \in Int /\ counter[Channel] \in Int
      /\ o \in Keys /\ o \in Users /\ Channel \in Keys /\ home[s] \in Replicas /\ o # Channel
      /\ \A u \in Users : u \in Keys /\ u # Channel
  BY SlotTypes
<1>00. pc[s] \in Remote => redis
  BY DEF TypeInv, LocalOnly
<1>H. \A S, x : Has(S, x) \in {0, 1}
  BY HasBit
<1> USE DEF Goto, Close, Add, hub, Exact
<1>1. CASE Connecting(s)
  <2>1. counter' = counter /\ counts' = counts /\ conns' = conns
    BY <1>1 DEF Connecting
  <2>2. pc[s] = "closed" /\ pc'[s] = "reserve"
    BY <1>0, <1>1 DEF Connecting
  <2>3. /\ Has(Slotted, pc'[s]) = Has(Slotted, pc[s]) /\ Has(Holding, pc'[s]) = Has(Holding, pc[s])
        /\ Has(Joining, pc'[s]) = 0 /\ Has(Joining, pc[s]) = 0
        /\ Has(Leaving, pc'[s]) = 0 /\ Has(Leaving, pc[s]) = 0
        /\ Has(Undoing, pc'[s]) = 0 /\ Has(Undoing, pc[s]) = 0
    BY <2>2 DEF Has, Slotted, Holding, Joining, Leaving, Undoing
  <2>4. pc'[s] # "release undo"
    BY <2>2
  <2> QED
    BY <2>1, <2>3, <2>4, Uncounted
<1>2. CASE ReserveLocal(s)
  <2>1. CASE c >= Cap
    <3>1. counts' = counts /\ ~redis
      BY <1>0, <1>2, <2>1 DEF ReserveLocal
    <3>2. pc'[s] = "closed" /\ pc[s] = "reserve"
      BY <1>0, <1>2, <2>1 DEF ReserveLocal
    <3>3. Has(Holding, pc'[s]) = 0 /\ Has(Holding, pc[s]) = 0
      BY <3>2 DEF Has, Holding
    <3> QED
      BY <1>0, <3>1, <3>2, <3>3 DEF LocalExact
  <2>2. CASE ~(c >= Cap)
    <3>1. counts' = [counts EXCEPT ![home[s]][o] = c + 1] /\ ~redis
      BY <1>0, <1>2, <2>2 DEF ReserveLocal
    <3>2. pc'[s] = "accept" /\ pc[s] = "reserve"
      BY <1>0, <1>2, <2>2 DEF ReserveLocal
    <3>3. Has(Holding, pc'[s]) = 1 /\ Has(Holding, pc[s]) = 0
      BY <3>2 DEF Has, Holding
    <3>4. counts'[home[s]][o] = c + 1
      BY <1>0, <3>1
    <3>5. \A p \in Replicas, u \in Users :
             p # home[s] \/ u # o => counts'[p][u] = counts[p][u]
      BY <1>0, <3>1
    <3>6. LocalExact(s)
      BY <1>0, <3>3, <3>4, <3>5 DEF LocalExact
    <3> QED
      BY <3>1, <3>2, <3>6
  <2> QED
    BY <2>1, <2>2
<1>3. CASE ReserveRedis(s)
  <2>1. redis /\ conns' = conns
    BY <1>3 DEF ReserveRedis
  <2>2. counter' = [counter EXCEPT ![o] = @ + 1]
    BY <1>3 DEF ReserveRedis
  <2>3. /\ counter'[o] = counter[o] + 1 /\ counter'[Channel] = counter[Channel]
        /\ \A u \in Users \ {o} : counter'[u] = counter[u]
    BY <1>0, <2>2
  <2>4. pc[s] = "reserve" /\ pc'[s] \in {"undo", "slot ttl", "accept"}
    BY <1>0, <1>3 DEF ReserveRedis
  <2>5. /\ Has(Slotted, pc'[s]) = 1 /\ Has(Slotted, pc[s]) = 0
        /\ Has(Joining, pc'[s]) = 0 /\ Has(Joining, pc[s]) = 0
        /\ Has(Leaving, pc'[s]) = 0 /\ Has(Leaving, pc[s]) = 0
        /\ Has(Undoing, pc'[s]) = 0 /\ Has(Undoing, pc[s]) = 0
    BY <2>4 DEF Has, Slotted, Holding, Joining, Leaving, Undoing
  <2>6. RedisExact(s)
    BY <1>0, <2>3, <2>5 DEF RedisExact
  <2>7. PresenceExact(s)
    BY <1>0, <1>H, <2>1, <2>3, <2>5 DEF PresenceExact
  <2> QED
    BY <2>1, <2>4, <2>6, <2>7
<1>4. CASE SetTtl(s)
  <2>1. counter' = counter /\ counts' = counts /\ conns' = conns
    BY <1>4 DEF SetTtl
  <2>2. pc[s] \in {"slot ttl", "presence ttl"} /\ pc'[s] \in {"accept", "join"}
    BY <1>0, <1>4 DEF SetTtl
  <2>3. /\ Has(Slotted, pc'[s]) = Has(Slotted, pc[s]) /\ Has(Holding, pc'[s]) = Has(Holding, pc[s])
        /\ Has(Joining, pc'[s]) = 0 /\ Has(Joining, pc[s]) = 0
        /\ Has(Leaving, pc'[s]) = 0 /\ Has(Leaving, pc[s]) = 0
        /\ Has(Undoing, pc'[s]) = 0 /\ Has(Undoing, pc[s]) = 0
    BY <2>2 DEF Has, Slotted, Holding, Joining, Leaving, Undoing
  <2>4. pc'[s] # "release undo"
    BY <2>2
  <2> QED
    BY <2>1, <2>3, <2>4, Uncounted
<1>5. CASE Refuse(s)
  <2>1. redis /\ conns' = conns
    BY <1>00, <1>5 DEF Refuse, Remote
  <2>2. counter' = [counter EXCEPT ![o] = @ + (-1)]
    BY <1>5 DEF Refuse, AddFails
  <2>3. /\ counter'[o] = counter[o] - 1 /\ counter'[Channel] = counter[Channel]
        /\ \A u \in Users \ {o} : counter'[u] = counter[u]
    BY <1>0, <2>2
  <2>4. pc[s] = "undo" /\ pc'[s] = "closed"
    BY <1>0, <1>5 DEF Refuse
  <2>5. /\ Has(Slotted, pc'[s]) = 0 /\ Has(Slotted, pc[s]) = 1
        /\ Has(Joining, pc'[s]) = 0 /\ Has(Joining, pc[s]) = 0
        /\ Has(Leaving, pc'[s]) = 0 /\ Has(Leaving, pc[s]) = 0
        /\ Has(Undoing, pc'[s]) = 0 /\ Has(Undoing, pc[s]) = 0
    BY <2>4 DEF Has, Slotted, Holding, Joining, Leaving, Undoing
  <2>6. RedisExact(s)
    BY <1>0, <2>3, <2>5 DEF RedisExact
  <2>7. PresenceExact(s)
    BY <1>0, <1>H, <2>1, <2>3, <2>5 DEF PresenceExact
  <2> QED
    BY <2>1, <2>4, <2>6, <2>7
<1>6. CASE Connect(s)
  <2>1. counter' = counter /\ counts' = counts /\ conns' = conns \cup {s}
    BY <1>6 DEF Connect
  <2>2. pc[s] = "accept" /\ pc'[s] = IF redis THEN "presence" ELSE "join"
    BY <1>0, <1>6 DEF Connect
  <2>3. /\ Has(Slotted, pc'[s]) = 1 /\ Has(Slotted, pc[s]) = 1
        /\ Has(Holding, pc'[s]) = 1 /\ Has(Holding, pc[s]) = 1
        /\ redis => Has(Joining, pc'[s]) = 1
        /\ Has(Joining, pc[s]) = 0
        /\ Has(Leaving, pc'[s]) = 0 /\ Has(Leaving, pc[s]) = 0
        /\ Has(Undoing, pc'[s]) = 0 /\ Has(Undoing, pc[s]) = 0
    BY <2>2 DEF Has, Slotted, Holding, Joining, Leaving, Undoing
  <2>4. Has(conns', s) = 1
    BY <2>1 DEF Has
  <2>5. RedisExact(s)
    BY <1>0, <2>1, <2>3 DEF RedisExact
  <2>6. redis => PresenceExact(s)
    BY <1>0, <1>H, <2>1, <2>3, <2>4 DEF PresenceExact
  <2>7. LocalExact(s)
    BY <1>0, <2>1, <2>3 DEF LocalExact
  <2> QED
    BY <2>2, <2>5, <2>6, <2>7
<1>7. CASE CountPresence(s)
  <2>1. redis /\ conns' = conns
    BY <1>00, <1>7 DEF CountPresence, Remote
  <2>2. counter' = [counter EXCEPT ![Channel] = @ + 1]
    BY <1>7 DEF CountPresence
  <2>3. /\ counter'[Channel] = counter[Channel] + 1
        /\ \A u \in Users : counter'[u] = counter[u]
    BY <1>0, <2>2
  <2>4. pc[s] = "presence" /\ pc'[s] \in {"presence ttl", "join"}
    BY <1>0, <1>7 DEF CountPresence
  <2>5. /\ Has(Slotted, pc'[s]) = 1 /\ Has(Slotted, pc[s]) = 1
        /\ Has(Joining, pc'[s]) = 0 /\ Has(Joining, pc[s]) = 1
        /\ Has(Leaving, pc'[s]) = 0 /\ Has(Leaving, pc[s]) = 0
        /\ Has(Undoing, pc'[s]) = 0 /\ Has(Undoing, pc[s]) = 0
    BY <2>4 DEF Has, Slotted, Holding, Joining, Leaving, Undoing
  <2>6. RedisExact(s)
    BY <1>0, <2>3, <2>5 DEF RedisExact
  <2>7. PresenceExact(s)
    BY <1>0, <1>H, <2>1, <2>3, <2>5 DEF PresenceExact
  <2> QED
    BY <2>1, <2>4, <2>6, <2>7
<1>8. CASE Join(s)
  <2>1. counter' = counter /\ counts' = counts /\ conns' = conns
    BY <1>8 DEF Join
  <2>2. pc[s] = "join" /\ pc'[s] = "receive"
    BY <1>0, <1>8 DEF Join
  <2>3. /\ Has(Slotted, pc'[s]) = Has(Slotted, pc[s]) /\ Has(Holding, pc'[s]) = Has(Holding, pc[s])
        /\ Has(Joining, pc'[s]) = 0 /\ Has(Joining, pc[s]) = 0
        /\ Has(Leaving, pc'[s]) = 0 /\ Has(Leaving, pc[s]) = 0
        /\ Has(Undoing, pc'[s]) = 0 /\ Has(Undoing, pc[s]) = 0
    BY <2>2 DEF Has, Slotted, Holding, Joining, Leaving, Undoing
  <2>4. pc'[s] # "release undo"
    BY <2>2
  <2> QED
    BY <2>1, <2>3, <2>4, Uncounted
<1> QED
  BY <1>1, <1>2, <1>3, <1>4, <1>5, <1>6, <1>7, <1>8
     DEF HandshakeNext, ReserveFails, SetTtlFails, AcceptFails, CountPresenceFails, JoinFails, AddFails

\* The loop counts nothing.
LEMMA LoopExact ==
    ASSUME TypeInv, NEW s \in Sockets, LoopNext(s) \/ IntervalPasses(s)
    PROVE  Exact(s)
<1> DEFINE o == Owner[s]
           c == counts[home[s]][o]
<1>0. /\ pc \in [Sockets -> Pcs] /\ counter \in [Keys -> Int] /\ conns \subseteq Sockets
      /\ counts \in [Replicas -> [Users -> 0..Cap]] /\ c \in Int
      /\ counter[o] \in Int /\ counter[Channel] \in Int
      /\ o \in Keys /\ o \in Users /\ Channel \in Keys /\ home[s] \in Replicas /\ o # Channel
      /\ \A u \in Users : u \in Keys /\ u # Channel
  BY SlotTypes
<1>00. pc[s] \in Remote => redis
  BY DEF TypeInv, LocalOnly
<1>H. \A S, x : Has(S, x) \in {0, 1}
  BY HasBit
<1> USE DEF Goto, Exact
<1> DEFINE Loop == {"receive", "check", "fresh", "persist", "publish", "leave"}
<1>1. counter' = counter /\ counts' = counts /\ conns' = conns
  BY LoopKeepsSlot DEF hub
<1>2. pc[s] \in Loop /\ pc'[s] \in Loop
  BY <1>0 DEF LoopNext, Receive, Hangup, Check, Handle, Fresh, Persist, Publish, PublishFails,
       IntervalPasses
<1>3. /\ Has(Slotted, pc'[s]) = Has(Slotted, pc[s]) /\ Has(Holding, pc'[s]) = Has(Holding, pc[s])
      /\ Has(Joining, pc'[s]) = 0 /\ Has(Joining, pc[s]) = 0
      /\ Has(Leaving, pc'[s]) = 0 /\ Has(Leaving, pc[s]) = 0
      /\ Has(Undoing, pc'[s]) = 0 /\ Has(Undoing, pc[s]) = 0
  BY <1>2 DEF Has, Slotted, Holding, Joining, Leaving, Undoing
<1>4. pc'[s] # "release undo"
  BY <1>2
<1> HIDE DEF Loop
<1> QED
  BY <1>1, <1>3, <1>4, Uncounted

\* And so does the finally.
LEMMA FinallyExact ==
    ASSUME TypeInv, ~Fault, NEW s \in Sockets, FinallyNext(s), CanRelease(s), NoUndo(s)
    PROVE  Exact(s)
<1> DEFINE o == Owner[s]
           c == counts[home[s]][o]
<1>0. /\ pc \in [Sockets -> Pcs] /\ counter \in [Keys -> Int] /\ conns \subseteq Sockets
      /\ counts \in [Replicas -> [Users -> 0..Cap]] /\ c \in Int
      /\ counter[o] \in Int /\ counter[Channel] \in Int
      /\ o \in Keys /\ o \in Users /\ Channel \in Keys /\ home[s] \in Replicas /\ o # Channel
      /\ \A u \in Users : u \in Keys /\ u # Channel
  BY SlotTypes
<1>00. pc[s] \in Remote => redis
  BY DEF TypeInv, LocalOnly
<1>H. \A S, x : Has(S, x) \in {0, 1}
  BY HasBit
<1> USE DEF Goto, Close, Add, hub, Exact
<1>1. CASE Disconnect(s)
  <2>1. counter' = counter /\ counts' = counts /\ conns' = conns \ {s}
    BY <1>1 DEF Disconnect
  <2>2. pc[s] = "leave" /\ pc'[s] = IF redis /\ s \in conns THEN "absence" ELSE "release"
    BY <1>0, <1>1 DEF Disconnect
  <2>3. /\ Has(Slotted, pc'[s]) = 1 /\ Has(Slotted, pc[s]) = 1
        /\ Has(Holding, pc'[s]) = 1 /\ Has(Holding, pc[s]) = 1
        /\ Has(Joining, pc'[s]) = 0 /\ Has(Joining, pc[s]) = 0
        /\ redis => Has(Leaving, pc'[s]) = Has(conns, s)
        /\ Has(Leaving, pc[s]) = 0
        /\ Has(Undoing, pc'[s]) = 0 /\ Has(Undoing, pc[s]) = 0
    BY <2>2 DEF Has, Slotted, Holding, Joining, Leaving, Undoing
  <2>4. Has(conns', s) = 0
    BY <2>1 DEF Has
  <2>5. RedisExact(s)
    BY <1>0, <2>1, <2>3 DEF RedisExact
  <2>6. redis => PresenceExact(s)
    BY <1>0, <1>H, <2>1, <2>3, <2>4 DEF PresenceExact
  <2>7. LocalExact(s)
    BY <1>0, <2>1, <2>3 DEF LocalExact
  <2> QED
    BY <2>2, <2>5, <2>6, <2>7
<1>2. CASE Decrement(s) /\ pc[s] = "absence"
  <2>1. redis /\ conns' = conns
    BY <1>2 DEF Decrement
  <2>2. counter' = [counter EXCEPT ![Channel] = @ + (-1)]
    BY <1>2 DEF Decrement, KeyOf
  <2>3. /\ counter'[Channel] = counter[Channel] - 1
        /\ \A u \in Users : counter'[u] = counter[u]
    BY <1>0, <2>2
  <2>4. pc[s] = "absence" /\ pc'[s] \in {"release", "absence undo"}
    BY <1>0, <1>2 DEF Decrement, Proceed, KeyOf
  <2>5. /\ Has(Slotted, pc'[s]) = 1 /\ Has(Slotted, pc[s]) = 1
        /\ Has(Joining, pc'[s]) = 0 /\ Has(Joining, pc[s]) = 0
        /\ Has(Leaving, pc'[s]) = 0 /\ Has(Leaving, pc[s]) = 1
        /\ Has(Undoing, pc[s]) = 0
    BY <2>4 DEF Has, Slotted, Holding, Joining, Leaving, Undoing
  <2>6. RedisExact(s)
    BY <1>0, <2>3, <2>5 DEF RedisExact
  <2>7. PresenceExact(s)
    BY <1>0, <1>H, <2>1, <2>3, <2>5 DEF PresenceExact
  <2> QED
    BY <2>1, <2>4, <2>6, <2>7
<1>3. CASE Decrement(s) /\ pc[s] = "release"
  <2>1. redis /\ conns' = conns
    BY <1>3 DEF Decrement
  <2>2. counter' = [counter EXCEPT ![o] = @ + (-1)]
    BY <1>0, <1>3 DEF Decrement, KeyOf
  <2>3. /\ counter'[o] = counter[o] - 1 /\ counter'[Channel] = counter[Channel]
        /\ \A u \in Users \ {o} : counter'[u] = counter[u]
    BY <1>0, <2>2
  <2>4. pc[s] = "release" /\ pc'[s] = "closed"
    BY <1>0, <1>3 DEF Decrement, Proceed, KeyOf, CanRelease
  <2>5. /\ Has(Slotted, pc'[s]) = 0 /\ Has(Slotted, pc[s]) = 1
        /\ Has(Joining, pc'[s]) = 0 /\ Has(Joining, pc[s]) = 0
        /\ Has(Leaving, pc'[s]) = 0 /\ Has(Leaving, pc[s]) = 0
        /\ Has(Undoing, pc'[s]) = 0 /\ Has(Undoing, pc[s]) = 0
    BY <2>4 DEF Has, Slotted, Holding, Joining, Leaving, Undoing
  <2>6. RedisExact(s)
    BY <1>0, <2>3, <2>5 DEF RedisExact
  <2>7. PresenceExact(s)
    BY <1>0, <1>H, <2>1, <2>3, <2>5 DEF PresenceExact
  <2> QED
    BY <2>1, <2>4, <2>6, <2>7
<1>4. CASE Compensate(s)
  <2>1. redis /\ conns' = conns
    BY <1>00, <1>4 DEF Compensate, Remote
  <2>2. counter' = [counter EXCEPT ![Channel] = @ + 1]
    BY <1>00, <1>4 DEF Compensate, KeyOf, Remote, NoUndo
  <2>3. /\ counter'[Channel] = counter[Channel] + 1
        /\ \A u \in Users : counter'[u] = counter[u]
    BY <1>0, <2>2
  <2>4. pc[s] = "absence undo" /\ pc'[s] = "release"
    BY <1>0, <1>00, <1>4 DEF Compensate, Proceed, KeyOf, Remote, NoUndo
  <2>5. /\ Has(Slotted, pc'[s]) = 1 /\ Has(Slotted, pc[s]) = 1
        /\ Has(Joining, pc'[s]) = 0 /\ Has(Joining, pc[s]) = 0
        /\ Has(Leaving, pc'[s]) = 0 /\ Has(Leaving, pc[s]) = 0
        /\ Has(Undoing, pc'[s]) = 0 /\ Has(Undoing, pc[s]) = 1
    BY <2>4 DEF Has, Slotted, Holding, Joining, Leaving, Undoing
  <2>6. RedisExact(s)
    BY <1>0, <2>3, <2>5 DEF RedisExact
  <2>7. PresenceExact(s)
    BY <1>0, <1>H, <2>1, <2>3, <2>5 DEF PresenceExact
  <2> QED
    BY <2>1, <2>4, <2>6, <2>7
<1>5. CASE ReleaseLocal(s)
  <2>1. counts' = [counts EXCEPT ![home[s]][o] = IF c =< 1 THEN 0 ELSE c - 1] /\ ~redis
    BY <1>5 DEF ReleaseLocal
  <2>2. pc[s] = "release" /\ pc'[s] = "closed" /\ c >= 1
    BY <1>0, <1>5 DEF ReleaseLocal, CanRelease
  <2>3. Has(Holding, pc'[s]) = 0 /\ Has(Holding, pc[s]) = 1
    BY <2>2 DEF Has, Holding
  <2>4. counts'[home[s]][o] = c - 1
    BY <1>0, <2>1, <2>2
  <2>5. \A p \in Replicas, u \in Users :
           p # home[s] \/ u # o => counts'[p][u] = counts[p][u]
    BY <1>0, <2>1
  <2>6. LocalExact(s)
    BY <1>0, <2>3, <2>4, <2>5 DEF LocalExact
  <2> QED
    BY <2>1, <2>2, <2>6
<1>6. Decrement(s) => pc[s] \in {"absence", "release"}
  BY DEF Decrement
<1> QED
  BY <1>1, <1>2, <1>3, <1>4, <1>5, <1>6 DEF FinallyNext, DecrementFails, AddFails

LEMMA ReapingTypes ==
    ASSUME FiniteInv, NEW l \in {"decr", "undo"}
    PROVE  IsFiniteSet(Reaping(l)) /\ Cardinality(Reaping(l)) \in Nat
<1>1. Reaping(l) \subseteq {p \in Replicas : reaper[p] # "idle"}
  BY DEF Reaping
<1> QED
  BY <1>1, FS_Subset, FS_CardinalityType DEF FiniteInv

\* A step of s moves s between the sets that are counted, and nothing else.
LEMMA PresentMoves ==
    ASSUME TypeInv, FiniteInv, NEW s \in Sockets, SocketStep(s), conns' \ {s} = conns \ {s}
    PROVE  /\ Present \in Int
           /\ Present' = Present
                + (Has(conns', s) - Has(conns, s))
                - (Has(Joining, pc'[s]) - Has(Joining, pc[s]))
                + (Has(Leaving, pc'[s]) - Has(Leaving, pc[s]))
                - (Has(Undoing, pc'[s]) - Has(Undoing, pc[s]))
<1>1. \A t \in Sockets \ {s} : pc'[t] = pc[t]
  BY DEF SocketStep, PcStep, Goto, TypeInv, TypeOK
<1>2. ASSUME NEW l \in Pcs \ {"closed"}
      PROVE  /\ Cardinality(At(l)) \in Nat /\ Cardinality(At(l)') \in Nat
             /\ Cardinality(At(l)') = Cardinality(At(l)) + Has({l}, pc'[s]) - Has({l}, pc[s])
  <2>1. IsFiniteSet(At(l))
    <3>1. At(l) \subseteq Open
      BY DEF At, Open
    <3> QED
      BY <3>1, FS_Subset DEF FiniteInv
  <2>2. At(l)' \ {s} = At(l) \ {s}
    BY <1>1 DEF At
  <2>3. (s \in At(l)' <=> pc'[s] \in {l}) /\ (s \in At(l) <=> pc[s] \in {l})
    BY DEF At
  <2> QED
    BY <2>1, <2>2, <2>3, Counted DEF Has
<1>3. /\ Cardinality(At("presence")) \in Nat
      /\ Cardinality(At("presence")') =
           Cardinality(At("presence")) + Has(Joining, pc'[s]) - Has(Joining, pc[s])
  BY <1>2 DEF Joining, Pcs
<1>4. /\ Cardinality(At("absence")) \in Nat
      /\ Cardinality(At("absence")') =
           Cardinality(At("absence")) + Has(Leaving, pc'[s]) - Has(Leaving, pc[s])
  BY <1>2 DEF Leaving, Pcs
<1>5. /\ Cardinality(At("absence undo")) \in Nat
      /\ Cardinality(At("absence undo")') =
           Cardinality(At("absence undo")) + Has(Undoing, pc'[s]) - Has(Undoing, pc[s])
  BY <1>2 DEF Undoing, Pcs
<1>6. /\ Cardinality(conns) \in Nat
      /\ Cardinality(conns') = Cardinality(conns) + Has(conns', s) - Has(conns, s)
  BY Counted DEF FiniteInv, Has
<1>7. /\ Reaping("decr")' = Reaping("decr") /\ Cardinality(Reaping("decr")) \in Nat
      /\ Reaping("undo")' = Reaping("undo") /\ Cardinality(Reaping("undo")) \in Nat
  BY ReapingTypes DEF Reaping, SocketStep
<1>8. \A S, x : Has(S, x) \in {0, 1}
  BY HasBit
<1> DEFINE c1 == Cardinality(At("presence"))
           c2 == Cardinality(At("absence"))
           c3 == Cardinality(At("absence undo"))
           c4 == Cardinality(Reaping("decr"))
           c5 == Cardinality(Reaping("undo"))
           j == Has(Joining, pc'[s]) - Has(Joining, pc[s])
           l == Has(Leaving, pc'[s]) - Has(Leaving, pc[s])
           u == Has(Undoing, pc'[s]) - Has(Undoing, pc[s])
           c == Has(conns', s) - Has(conns, s)
<1>9. j \in Int /\ l \in Int /\ u \in Int /\ c \in Int
  BY <1>8
<1>10. c1' = c1 + j /\ c2' = c2 + l /\ c3' = c3 + u
  BY <1>3, <1>4, <1>5, <1>8
<1>11. Cardinality(conns') = Cardinality(conns) + c /\ c4' = c4 /\ c5' = c5
  BY <1>6, <1>7, <1>8
<1>12. /\ Present = Cardinality(conns) - c1 + c2 - c3 + c4 - c5
       /\ Present' = Cardinality(conns') - c1' + c2' - c3' + c4' - c5'
  BY DEF Present
<1>13. c1 \in Nat /\ c2 \in Nat /\ c3 \in Nat /\ c4 \in Nat /\ c5 \in Nat
  BY <1>3, <1>4, <1>5, <1>7
<1> HIDE DEF c1, c2, c3, c4, c5, j, l, u, c
<1>14. Present \in Int /\ Present' = Present + c - j + l - u
  BY <1>6, <1>9, <1>10, <1>11, <1>12, <1>13
<1> QED
  BY <1>14 DEF j, l, u, c

\* A step of s with an exact effect.
LEMMA ExactKeepsExact ==
    ASSUME TypeInv, FiniteInv, ExactInv, faults = 0, NEW s \in Sockets, SocketStep(s), Exact(s)
    PROVE  ExactInv'
<1>0. redis' = redis
  BY DEF SocketStep, config
<1>1. ASSUME redis, NEW u \in Users PROVE counter'[u] = Cardinality(SlotsOf(u)')
  <2>1. counter[u] = Cardinality(SlotsOf(u)) /\ RedisExact(s)
    BY <1>1 DEF ExactInv, Exact
  <2>2. /\ Cardinality(SlotsOf(u)) \in Nat
        /\ Cardinality(SlotsOf(u)') =
             Cardinality(SlotsOf(u)) + One(u, s, pc'[s], Slotted) - One(u, s, pc[s], Slotted)
    BY SlotsMove
  <2>3. CASE Owner[s] = u
    BY <2>1, <2>2, <2>3 DEF RedisExact, One, Has
  <2>4. CASE Owner[s] # u
    BY <2>1, <2>2, <2>4 DEF RedisExact, One
  <2> QED
    BY <2>3, <2>4
<1>2. ASSUME redis, NEW t \in Sockets PROVE pc'[t] # "release undo"
  BY <1>2 DEF ExactInv, Exact, SocketStep, PcStep, Goto, TypeInv, TypeOK
<1>3. ASSUME redis PROVE counter'[Channel] >= Present'
  <2>1. counter[Channel] >= Present /\ PresenceExact(s)
    BY <1>3 DEF ExactInv, Exact
  <2>2. counter[Channel] \in Int /\ counter'[Channel] \in Int
    BY SocketStepTyped DEF TypeInv, TypeOK, Keys
  <2>3. \A S, x : Has(S, x) \in {0, 1}
    BY HasBit
  <2> QED
    BY <2>1, <2>2, <2>3, PresentMoves DEF PresenceExact
<1>4. ASSUME ~redis, NEW u \in Users, NEW p \in Replicas
      PROVE  counts'[p][u] = Cardinality(HoldersAt(p, u)')
  <2>1. counts[p][u] = Cardinality(HoldersAt(p, u)) /\ LocalExact(s)
    BY <1>4 DEF ExactInv, Exact
  <2>2. /\ Cardinality(HoldersAt(p, u)) \in Nat
        /\ home[s] # p => Cardinality(HoldersAt(p, u)') = Cardinality(HoldersAt(p, u))
        /\ home[s] = p => Cardinality(HoldersAt(p, u)') =
             Cardinality(HoldersAt(p, u)) + One(u, s, pc'[s], Holding) - One(u, s, pc[s], Holding)
    BY LocalSlotsMove
  <2>3. CASE home[s] = p /\ Owner[s] = u
    BY <2>1, <2>2, <2>3 DEF LocalExact, One, Has
  <2>4. CASE home[s] # p \/ Owner[s] # u
    BY <2>1, <2>2, <2>4 DEF LocalExact, One
  <2> QED
    BY <2>3, <2>4
<1> QED
  BY <1>0, <1>1, <1>2, <1>3, <1>4 DEF ExactInv

\* The places of a delivery that has a decrement to make, or one to take back.
Owing == {"decr"}
Excess == {"undo"}

\* A step of the delivery of a replica.
LEMMA ReaperMoves ==
    ASSUME TypeInv, FiniteInv, NEW p \in Replicas, NEW w, reaper' = [reaper EXCEPT ![p] = w],
           pc' = pc, IsFiniteSet(conns')
    PROVE  /\ Present \in Int /\ Cardinality(conns) \in Nat /\ Cardinality(conns') \in Nat
           /\ Present' = Present + (Cardinality(conns') - Cardinality(conns))
                + (Has(Owing, w) - Has(Owing, reaper[p])) - (Has(Excess, w) - Has(Excess, reaper[p]))
<1> DEFINE c1 == Cardinality(At("presence"))
           c2 == Cardinality(At("absence"))
           c3 == Cardinality(At("absence undo"))
           c4 == Cardinality(Reaping("decr"))
           c5 == Cardinality(Reaping("undo"))
           o == Has(Owing, w) - Has(Owing, reaper[p])
           e == Has(Excess, w) - Has(Excess, reaper[p])
<1>1. reaper'[p] = w /\ \A q \in Replicas \ {p} : reaper'[q] = reaper[q]
  BY DEF TypeInv, TypeOK
<1>2. ASSUME NEW l \in {"decr", "undo"}
      PROVE  Cardinality(Reaping(l)') = Cardinality(Reaping(l)) + Has({l}, w) - Has({l}, reaper[p])
  <2>1. Reaping(l)' \ {p} = Reaping(l) \ {p}
    BY <1>1 DEF Reaping
  <2>2. (p \in Reaping(l)' <=> w \in {l}) /\ (p \in Reaping(l) <=> reaper[p] \in {l})
    BY <1>1 DEF Reaping
  <2> QED
    BY <2>1, <2>2, Counted, ReapingTypes DEF Has
<1>3. /\ c4' = c4 + Has(Owing, w) - Has(Owing, reaper[p])
      /\ c5' = c5 + Has(Excess, w) - Has(Excess, reaper[p])
  BY <1>2 DEF Owing, Excess
<1>4. c4 \in Nat /\ c5 \in Nat
  BY ReapingTypes
<1>5. c1 \in Nat /\ c2 \in Nat /\ c3 \in Nat
  <2>1. At("presence") \subseteq Open /\ At("absence") \subseteq Open /\ At("absence undo") \subseteq Open
    BY DEF At, Open
  <2> QED
    BY <2>1, FS_Subset, FS_CardinalityType DEF FiniteInv
<1>6. Cardinality(conns) \in Nat /\ Cardinality(conns') \in Nat
  BY FS_CardinalityType DEF FiniteInv
<1>7. c1' = c1 /\ c2' = c2 /\ c3' = c3
  BY DEF At
<1>8. /\ Present = Cardinality(conns) - c1 + c2 - c3 + c4 - c5
      /\ Present' = Cardinality(conns') - c1' + c2' - c3' + c4' - c5'
  BY DEF Present
<1>9. o \in Int /\ e \in Int /\ \A S, x : Has(S, x) \in {0, 1}
  BY HasBit
<1>10. c4' = c4 + o /\ c5' = c5 + e
  BY <1>3, <1>4, <1>9
<1> HIDE DEF c1, c2, c3, c4, c5, o, e
<1>11. Present \in Int /\ Present' = Present + (Cardinality(conns') - Cardinality(conns)) + o - e
  BY <1>4, <1>5, <1>6, <1>7, <1>8, <1>9, <1>10
<1> QED
  BY <1>6, <1>11 DEF o, e

\* The parts of ExactInv that a step which moves no handler keeps.
LEMMA OthersKeepExact ==
    ASSUME TypeInv, ExactInv, faults = 0, UNCHANGED <<redis, home, pc, counts>>,
           \A u \in Users : counter'[u] = counter[u], redis => counter'[Channel] >= Present'
    PROVE  ExactInv'
<1>1. ASSUME NEW u \in Users
      PROVE  /\ SlotsOf(u)' = SlotsOf(u)
             /\ \A p \in Replicas : HoldersAt(p, u)' = HoldersAt(p, u)
  BY DEF SlotsOf, HoldersAt, Holders
<1>2. ASSUME redis, NEW u \in Users PROVE counter'[u] = Cardinality(SlotsOf(u)')
  BY <1>1, <1>2 DEF ExactInv
<1>3. ASSUME ~redis, NEW u \in Users, NEW p \in Replicas
      PROVE  counts'[p][u] = Cardinality(HoldersAt(p, u)')
  <2>1. HoldersAt(p, u)' = HoldersAt(p, u)
    BY DEF HoldersAt, Holders
  <2> QED
    BY <1>3, <2>1 DEF ExactInv
<1> QED
  BY <1>2, <1>3 DEF ExactInv

LEMMA ExactStep == TypeInv /\ FiniteInv /\ ExactInv /\ [Next]_vars => ExactInv'
<1> SUFFICES ASSUME TypeInv, FiniteInv, ExactInv, [Next]_vars, faults' = 0 PROVE ExactInv'
  BY DEF ExactInv
<1>0. ~Fault
  BY DEF Fault, TypeInv, TypeOK
<1>00. FiniteInv'
  BY FiniteStep
<1> USE DEF config, hub, session, ghosts
<1>1. ASSUME NEW s \in Sockets, Connecting(s) \/ Handler(s) \/ IntervalPasses(s)
      PROVE  ExactInv'
  <2>1. SocketStep(s)
    BY <1>1, HandshakeSteps, LoopSteps, FinallySteps DEF Handler
  <2>2. faults = 0
    BY <1>0, <2>1 DEF SocketStep
  <2>3. NoUndo(s)
    BY <2>2 DEF NoUndo, ExactInv
  <2>4. CanRelease(s)
    <3> SUFFICES ASSUME pc[s] = "release"
                 PROVE  IF redis THEN counter[Owner[s]] >= 1 ELSE counts[home[s]][Owner[s]] >= 1
      BY DEF CanRelease
    <3> DEFINE u == Owner[s]
               p == home[s]
    <3>1. u \in Users /\ p \in Replicas
      BY SlotTypes
    <3>2. s \in SlotsOf(u) /\ s \in HoldersAt(p, u)
      BY DEF SlotsOf, Slotted, HoldersAt, Holders, Holding
    <3>3. SlotsOf(u) \subseteq Open /\ HoldersAt(p, u) \subseteq Open
      BY DEF SlotsOf, Slotted, HoldersAt, Holders, Holding, Open
    <3>4. /\ IsFiniteSet(SlotsOf(u)) /\ IsFiniteSet(HoldersAt(p, u))
      BY <3>3, FS_Subset DEF FiniteInv
    <3>5. Cardinality(SlotsOf(u)) # 0 /\ Cardinality(HoldersAt(p, u)) # 0
      BY <3>2, <3>4, FS_EmptySet
    <3>6. Cardinality(SlotsOf(u)) \in Nat /\ Cardinality(HoldersAt(p, u)) \in Nat
      BY <3>4, FS_CardinalityType
    <3>7. IF redis THEN counter[u] = Cardinality(SlotsOf(u))
          ELSE counts[p][u] = Cardinality(HoldersAt(p, u))
      BY <2>2, <3>1 DEF ExactInv
    <3> QED
      BY <3>5, <3>6, <3>7
  <2>5. Exact(s)
    BY <1>0, <1>1, <2>3, <2>4, HandshakeExact, LoopExact, FinallyExact DEF Handler
  <2> QED
    BY <2>1, <2>2, <2>5, ExactKeepsExact
<1>k. /\ Channel \in Keys /\ counter \in [Keys -> Int] /\ counter[Channel] \in Int
      /\ \A u \in Users : u \in Keys /\ u # Channel
  BY DEF TypeInv, TypeOK, Keys
<1>e. faults = 0 /\ redis => counter[Channel] >= Present
  BY DEF ExactInv
<1>2. ASSUME NEW s \in Sockets, Reap(s) PROVE ExactInv'
  <2>1. UNCHANGED <<redis, home, pc, counts>> /\ counter' = counter /\ faults = 0
    BY <1>2 DEF Reap
  <2>2. conns' = conns \ {s} /\ s \in conns
    BY <1>2 DEF Reap
  <2>3. Cardinality(conns') = Cardinality(conns) - 1
    BY <2>2, FS_RemoveElement DEF FiniteInv
  <2>4. ASSUME redis PROVE counter'[Channel] >= Present'
    <3>1. home[s] \in Replicas /\ IsFiniteSet(conns')
      BY <1>00, SlotTypes DEF FiniteInv
    <3>2. reaper' = [reaper EXCEPT ![home[s]] = "decr"] /\ reaper[home[s]] = "idle"
      BY <1>2, <2>4 DEF Reap
    <3>3. /\ Has(Owing, "decr") = 1 /\ Has(Excess, "decr") = 0
          /\ Has(Owing, reaper[home[s]]) = 0 /\ Has(Excess, reaper[home[s]]) = 0
      BY <3>2 DEF Has, Owing, Excess
    <3>4. /\ Present \in Int /\ Cardinality(conns) \in Nat
          /\ Present' = Present + (Cardinality(conns') - Cardinality(conns))
               + (Has(Owing, "decr") - Has(Owing, reaper[home[s]]))
               - (Has(Excess, "decr") - Has(Excess, reaper[home[s]]))
      BY <2>1, <3>1, <3>2, ReaperMoves
    <3>5. Present' = Present
      BY <2>3, <3>3, <3>4
    <3> QED
      BY <1>e, <2>1, <2>4, <3>5
  <2> QED
    BY <2>1, <2>4, OthersKeepExact
<1>3. ASSUME NEW p \in Replicas, ReapDecrement(p) PROVE ExactInv'
  <2>1. UNCHANGED <<redis, home, pc, counts>> /\ conns' = conns /\ faults = 0
    BY <1>3 DEF ReapDecrement
  <2>2. counter' = [counter EXCEPT ![Channel] = @ + (-1)]
    BY <1>3 DEF ReapDecrement, Add
  <2>3. counter'[Channel] = counter[Channel] - 1 /\ \A u \in Users : counter'[u] = counter[u]
    BY <1>k, <2>2
  <2>4. ASSUME redis PROVE counter'[Channel] >= Present'
    <3>1. PICK w \in {"undo", "idle"} : reaper' = [reaper EXCEPT ![p] = w]
      BY <1>3 DEF ReapDecrement
    <3>2. /\ Has(Owing, w) = 0 /\ Has(Excess, w) \in {0, 1}
          /\ Has(Owing, reaper[p]) = 1 /\ Has(Excess, reaper[p]) = 0
      BY <1>3 DEF ReapDecrement, Has, Owing, Excess
    <3>3. /\ Present \in Int /\ Cardinality(conns) \in Nat
          /\ Present' = Present + (Cardinality(conns) - Cardinality(conns))
               + (Has(Owing, w) - Has(Owing, reaper[p])) - (Has(Excess, w) - Has(Excess, reaper[p]))
      BY <1>00, <2>1, <3>1, ReaperMoves DEF FiniteInv
    <3>4. Present' =< Present - 1 /\ Present' \in Int
      BY <3>2, <3>3
    <3> QED
      BY <1>e, <1>k, <2>1, <2>3, <2>4, <3>3, <3>4
  <2> QED
    BY <2>1, <2>3, <2>4, OthersKeepExact
<1>4. ASSUME NEW p \in Replicas, ReapCompensate(p) PROVE ExactInv'
  <2>1. UNCHANGED <<redis, home, pc, counts>> /\ conns' = conns /\ faults = 0
    BY <1>4 DEF ReapCompensate
  <2>2. counter' = [counter EXCEPT ![Channel] = @ + 1]
    BY <1>4 DEF ReapCompensate, Add
  <2>3. counter'[Channel] = counter[Channel] + 1 /\ \A u \in Users : counter'[u] = counter[u]
    BY <1>k, <2>2
  <2>4. ASSUME redis PROVE counter'[Channel] >= Present'
    <3>1. reaper' = [reaper EXCEPT ![p] = "idle"] /\ reaper[p] = "undo"
      BY <1>4 DEF ReapCompensate
    <3>2. /\ Has(Owing, "idle") = 0 /\ Has(Excess, "idle") = 0
          /\ Has(Owing, reaper[p]) = 0 /\ Has(Excess, reaper[p]) = 1
      BY <3>1 DEF Has, Owing, Excess
    <3>3. /\ Present \in Int /\ Cardinality(conns) \in Nat
          /\ Present' = Present + (Cardinality(conns) - Cardinality(conns))
               + (Has(Owing, "idle") - Has(Owing, reaper[p]))
               - (Has(Excess, "idle") - Has(Excess, reaper[p]))
      BY <1>00, <2>1, <3>1, ReaperMoves DEF FiniteInv
    <3>4. Present' = Present + 1
      BY <3>2, <3>3
    <3> QED
      BY <1>e, <1>k, <2>1, <2>3, <2>4, <3>3, <3>4
  <2> QED
    BY <2>1, <2>3, <2>4, OthersKeepExact
<1>5. ASSUME \/ \E u \in Users : Revoke(u)
             \/ DeleteChannel
             \/ UNCHANGED vars
      PROVE  ExactInv'
  <2>1. UNCHANGED <<redis, home, pc, counts, conns, counter, reaper, faults>>
    BY <1>5 DEF Revoke, DeleteChannel, vars
  <2>2. Present' = Present
    BY <2>1 DEF Present, At, Reaping
  <2> QED
    BY <1>e, <2>1, <2>2, OthersKeepExact
<1> QED
  BY <1>0, <1>1, <1>2, <1>3, <1>4, <1>5 DEF Next, ReapFails, AddFails, Restart, Expire

LEMMA ExactInit == Init => ExactInv
<1> SUFFICES ASSUME Init PROVE ExactInv
  OBVIOUS
<1>0. Cardinality({}) = 0
  BY FS_EmptySet
<1>1. ASSUME NEW u \in Users PROVE counter[u] = Cardinality(SlotsOf(u))
  <2>1. SlotsOf(u) = {} /\ counter[u] = 0
    BY DEF Init, SlotsOf, Slotted, Holding, Keys
  <2> QED
    BY <1>0, <2>1
<1>2. ASSUME NEW u \in Users, NEW p \in Replicas PROVE counts[p][u] = Cardinality(HoldersAt(p, u))
  <2>1. HoldersAt(p, u) = {} /\ counts[p][u] = 0
    BY DEF Init, HoldersAt, Holders, Holding
  <2> QED
    BY <1>0, <2>1
<1>3. counter[Channel] >= Present
  <2>1. /\ At("presence") = {} /\ At("absence") = {} /\ At("absence undo") = {} /\ conns = {}
        /\ Reaping("decr") = {} /\ Reaping("undo") = {} /\ counter[Channel] = 0
    BY DEF Init, At, Reaping, Keys
  <2>2. Present = 0 - 0 + 0 - 0 + 0 - 0
    <3>1. Present = Cardinality({}) - Cardinality({}) + Cardinality({}) - Cardinality({})
                      + Cardinality({}) - Cardinality({})
      BY <2>1, Zenon DEF Present
    <3> QED
      BY <1>0, <3>1, Zenon
  <2>3. counter[Channel] = 0
    BY <2>1
  <2> QED
    BY <2>2, <2>3, SMT
<1>4. \A s \in Sockets : pc[s] # "release undo"
  BY DEF Init
<1> QED
  BY <1>1, <1>2, <1>3, <1>4 DEF ExactInv

\* While nothing failed, the slots counted are exactly those of the sockets that hold
\* one, whatever was reaped, hung up or refused meanwhile, and the presences counted are
\* never fewer than the connections (connect, disconnect, _deliver_local and _redis_decr,
\* backend/app/channels.py).
THEOREM SlotsAreExact == Spec => []SlotsExact
<1>1. Init => TypeInv /\ FiniteInv /\ ExactInv
  BY TypeInit, FiniteInit, ExactInit
<1>2. TypeInv /\ FiniteInv /\ ExactInv /\ [Next]_vars => (TypeInv /\ FiniteInv /\ ExactInv)'
  BY TypeStep, FiniteStep, ExactStep
<1>3. TypeInv /\ FiniteInv /\ ExactInv => SlotsExact
  <2> SUFFICES ASSUME TypeInv, FiniteInv, ExactInv, faults = 0
               PROVE  /\ \A u \in Users :
                           IF redis
                           THEN counter[u] = Cardinality(Holders(u))
                                  + Cardinality({s \in At("undo") : Owner[s] = u})
                           ELSE \A p \in Replicas : counts[p][u] = Cardinality(HoldersAt(p, u))
                      /\ redis => counter[Channel] >= Present
    BY DEF SlotsExact, Present, Reaping
  <2>1. ASSUME redis, NEW u \in Users
        PROVE  counter[u] = Cardinality(Holders(u)) + Cardinality({s \in At("undo") : Owner[s] = u})
    <3> DEFINE Refused == {s \in At("undo") : Owner[s] = u}
    <3>1. /\ SlotsOf(u) = Holders(u) \cup Refused
          /\ Holders(u) \cap Refused = {}
      BY DEF SlotsOf, Slotted, Holders, Holding, At
    <3>2. IsFiniteSet(Holders(u)) /\ IsFiniteSet(Refused)
      <4>1. Holders(u) \subseteq Open /\ Refused \subseteq Open
        BY DEF Holders, Holding, At, Open
      <4> QED
        BY <4>1, FS_Subset DEF FiniteInv
    <3>3. Cardinality(SlotsOf(u)) = Cardinality(Holders(u)) + Cardinality(Refused)
      <4> HIDE DEF Refused
      <4>1. Cardinality(Holders(u) \cup Refused) =
              Cardinality(Holders(u)) + Cardinality(Refused) - Cardinality(Holders(u) \cap Refused)
        BY <3>2, FS_Union
      <4>2. /\ Cardinality(Holders(u)) \in Nat /\ Cardinality(Refused) \in Nat
            /\ Cardinality({}) = 0
        BY <3>2, FS_CardinalityType, FS_EmptySet
      <4>3. Cardinality(Holders(u) \cap Refused) = 0
        BY <3>1, <4>2, Zenon
      <4>4. Cardinality(SlotsOf(u)) = Cardinality(Holders(u) \cup Refused)
        BY <3>1, Zenon
      <4> QED
        BY <4>1, <4>2, <4>3, <4>4
    <3> QED
      BY <2>1, <3>3 DEF ExactInv
  <2>2. redis => counter[Channel] >= Present
    BY DEF ExactInv
  <2>3. ASSUME ~redis, NEW u \in Users, NEW p \in Replicas
        PROVE  counts[p][u] = Cardinality(HoldersAt(p, u))
    BY <2>3 DEF ExactInv
  <2> QED
    BY <2>1, <2>2, <2>3
<1> QED
  BY <1>1, <1>2, <1>3, PTL DEF Spec
=============================================================================
