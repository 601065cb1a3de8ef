------------------------------ MODULE Broadcaster ------------------------------
(***************************************************************************)
(* The Redis transport of channel frames (backend/app/broadcaster.py).     *)
(* Every replica, the publisher's too, has one reader task that subscribes *)
(* and hands each frame to its sockets.  A lost connection ends its        *)
(* listen() with an error: the reader drops the subscription, waits and    *)
(* subscribes again.  Redis keeps nothing for those not subscribed.        *)
(*                                                                         *)
(* The loop is as the code has it: it subscribes only without a pubsub     *)
(* object, and listens on the one it has.                                  *)
(***************************************************************************)
EXTENDS Naturals, Sequences, FiniteSets

CONSTANTS
    Replicas,
    MaxFrames,    \* bound: frames published
    MaxOutages    \* bound: times Redis goes away, or one connection is lost

ASSUME BoundsAssumption == {MaxFrames, MaxOutages} \subseteq Nat

VARIABLES
    up,          \* does Redis answer?
    outages,
    published,   \* frames published; a frame is named by its place
    pubsub,      \* is there a pubsub object?
    linked,      \* is its subscription alive at the server?
    buffer,      \* frames sent to it and not yet read
    reader,      \* where the reader task is
    frame,       \* the frame it is delivering
    backoff,     \* its next wait, in steps of doubling
    closing,     \* has aclose been called?
    seen         \* the frames handed to the replica's sockets

server == <<up, outages>>
task == <<pubsub, reader, frame, backoff>>
vars == <<server, published, task, linked, buffer, closing, seen>>

\* 0.5 s doubled up to 15 s.
MaxBackoff == 5

\* Faulty variant, for mutation: the wait grows without bound.
DoubledAlways(b) == b + 1

Doubled(b) == IF b < MaxBackoff THEN b + 1 ELSE b

Goto(p, l) == reader' = [reader EXCEPT ![p] = l]

(***************************************************************************)
(* publish.                                                                *)
(***************************************************************************)
\* Faulty variant, for mutation: the publisher's replica delivers by itself, too.
PublishAndDeliver ==
    /\ up
    /\ published < MaxFrames
    /\ published' = published + 1
    /\ buffer' = [p \in Replicas |-> IF linked[p] THEN Append(buffer[p], published + 1)
                                     ELSE buffer[p]]
    /\ \E p \in Replicas : seen' = [seen EXCEPT ![p] = @ \cup {published + 1}]
    /\ UNCHANGED <<server, task, linked, closing>>

\* To all that are subscribed; when Redis is away the caller gets the error.
Publish ==
    /\ up
    /\ published < MaxFrames
    /\ published' = published + 1
    /\ buffer' = [p \in Replicas |-> IF linked[p] THEN Append(buffer[p], published + 1)
                                     ELSE buffer[p]]
    /\ UNCHANGED <<server, task, linked, closing, seen>>

(***************************************************************************)
(* _reader.                                                                *)
(***************************************************************************)
\* The head of the loop.
Loop(p) ==
    /\ reader[p] = "loop"
    /\ Goto(p, IF closing[p] THEN "stopped" ELSE IF pubsub[p] THEN "listen" ELSE "subscribe")
    /\ UNCHANGED <<server, published, pubsub, frame, backoff, linked, buffer, closing, seen>>

\* The object is there before PSUBSCRIBE is sent.
Subscribe(p) ==
    /\ reader[p] = "subscribe"
    /\ pubsub' = [pubsub EXCEPT ![p] = TRUE]
    /\ IF up
       THEN linked' = [linked EXCEPT ![p] = TRUE] /\ Goto(p, "listen")
       ELSE UNCHANGED linked /\ Goto(p, "error")
    /\ buffer' = [buffer EXCEPT ![p] = <<>>]
    /\ UNCHANGED <<server, published, frame, backoff, closing, seen>>

Listen(p) ==
    /\ reader[p] = "listen" /\ buffer[p] # <<>>
    /\ frame' = [frame EXCEPT ![p] = Head(buffer[p])]
    /\ buffer' = [buffer EXCEPT ![p] = Tail(@)]
    /\ backoff' = [backoff EXCEPT ![p] = 0]
    /\ Goto(p, "deliver")
    /\ UNCHANGED <<server, published, pubsub, linked, closing, seen>>

\* What was sent before the connection was lost may have been read, or not.
ListenFails(p) ==
    /\ reader[p] = "listen" /\ ~linked[p]
    /\ Goto(p, "error")
    /\ UNCHANGED <<server, published, pubsub, frame, backoff, linked, buffer, closing, seen>>

Deliver(p) ==
    /\ reader[p] = "deliver"
    /\ seen' = [seen EXCEPT ![p] = @ \cup {frame[p]}]
    /\ frame' = [frame EXCEPT ![p] = 0]
    /\ Goto(p, "listen")
    /\ UNCHANGED <<server, published, pubsub, backoff, linked, buffer, closing>>

\* Faulty variant, for mutation: a failed delivery ends the task.
DeliverFailsForGood(p) ==
    /\ reader[p] = "deliver"
    /\ frame' = [frame EXCEPT ![p] = 0]
    /\ Goto(p, "stopped")
    /\ UNCHANGED <<server, published, pubsub, backoff, linked, buffer, closing, seen>>

\* Malformed, or the delivery raised: the reader goes on with the next.
DeliverFails(p) ==
    /\ reader[p] = "deliver"
    /\ frame' = [frame EXCEPT ![p] = 0]
    /\ Goto(p, "listen")
    /\ UNCHANGED <<server, published, pubsub, backoff, linked, buffer, closing, seen>>

\* Faulty variant, for mutation: the pubsub object stays.
DropKeepsObject(p) ==
    /\ reader[p] = "error"
    /\ IF closing[p] THEN Goto(p, "stopped") ELSE Goto(p, "sleep")
    /\ linked' = [linked EXCEPT ![p] = FALSE]
    /\ buffer' = [buffer EXCEPT ![p] = <<>>]
    /\ UNCHANGED <<server, published, pubsub, frame, backoff, closing, seen>>

Drop(p) ==
    /\ reader[p] = "error"
    /\ IF closing[p] THEN Goto(p, "stopped") /\ UNCHANGED <<pubsub, linked, buffer>>
       ELSE /\ Goto(p, "sleep")
            /\ pubsub' = [pubsub EXCEPT ![p] = FALSE]
            /\ linked' = [linked EXCEPT ![p] = FALSE]
            /\ buffer' = [buffer EXCEPT ![p] = <<>>]
    /\ UNCHANGED <<server, published, frame, backoff, closing, seen>>

Sleep(p) ==
    /\ reader[p] = "sleep"
    /\ backoff' = [backoff EXCEPT ![p] = Doubled(@)]
    /\ Goto(p, "loop")
    /\ UNCHANGED <<server, published, pubsub, frame, linked, buffer, closing, seen>>

(***************************************************************************)
(* aclose: the task is cancelled wherever it waits.                        *)
(***************************************************************************)
Close(p) ==
    /\ ~closing[p]
    /\ closing' = [closing EXCEPT ![p] = TRUE]
    /\ Goto(p, "stopped")
    /\ UNCHANGED <<server, published, pubsub, frame, backoff, linked, buffer, seen>>

CloseEnds(p) ==
    /\ closing[p] /\ reader[p] = "stopped" /\ pubsub[p]
    /\ pubsub' = [pubsub EXCEPT ![p] = FALSE]
    /\ linked' = [linked EXCEPT ![p] = FALSE]
    /\ buffer' = [buffer EXCEPT ![p] = <<>>]
    /\ UNCHANGED <<server, published, reader, frame, backoff, closing, seen>>

(***************************************************************************)
(* Redis and the network.                                                  *)
(***************************************************************************)
GoesDown ==
    /\ up /\ outages < MaxOutages
    /\ up' = FALSE
    /\ outages' = outages + 1
    /\ linked' = [p \in Replicas |-> FALSE]
    /\ UNCHANGED <<published, task, buffer, closing, seen>>

ComesBack ==
    /\ ~up
    /\ up' = TRUE
    /\ UNCHANGED <<outages, published, task, linked, buffer, closing, seen>>

\* One connection is lost.
Cut(p) ==
    /\ linked[p] /\ outages < MaxOutages
    /\ outages' = outages + 1
    /\ linked' = [linked EXCEPT ![p] = FALSE]
    /\ UNCHANGED <<up, published, task, buffer, closing, seen>>

(***************************************************************************)
(* Specification.                                                          *)
(***************************************************************************)
\* start returns once the first subscription is there.
Init ==
    /\ up = TRUE /\ outages = 0
    /\ published = 0
    /\ pubsub = [p \in Replicas |-> TRUE]
    /\ linked = [p \in Replicas |-> TRUE]
    /\ buffer = [p \in Replicas |-> <<>>]
    /\ reader = [p \in Replicas |-> "loop"]
    /\ frame = [p \in Replicas |-> 0]
    /\ backoff = [p \in Replicas |-> 0]
    /\ closing = [p \in Replicas |-> FALSE]
    /\ seen = [p \in Replicas |-> {}]

Reader(p) ==
    \/ Loop(p) \/ Subscribe(p) \/ Listen(p) \/ ListenFails(p)
    \/ Deliver(p) \/ DeliverFails(p) \/ Drop(p) \/ Sleep(p)

Next ==
    \/ Publish \/ GoesDown \/ ComesBack
    \/ \E p \in Replicas : Reader(p) \/ Close(p) \/ CloseEnds(p) \/ Cut(p)

\* The event loop runs the readers, and an outage ends.
Fairness == WF_vars(ComesBack) /\ \A p \in Replicas : WF_vars(Reader(p)) /\ WF_vars(CloseEnds(p))

Spec == Init /\ [][Next]_vars /\ Fairness
-----------------------------------------------------------------------------
(***************************************************************************)
(* Properties.                                                             *)
(***************************************************************************)
\* Where the reader is and what it holds: it listens only on a pubsub object, and
\* a subscription has one.
TypeOK ==
    /\ up \in BOOLEAN /\ outages \in 0..MaxOutages
    /\ published \in 0..MaxFrames
    /\ reader \in [Replicas -> {"loop", "subscribe", "listen", "deliver", "error", "sleep", "stopped"}]
    /\ \A p \in Replicas :
          /\ reader[p] \in {"listen", "deliver", "error"} => pubsub[p]
          /\ linked[p] => pubsub[p] /\ up
          /\ reader[p] = "deliver" => frame[p] \in 1..published
          /\ backoff[p] \in 0..MaxBackoff
          /\ seen[p] \subseteq 1..published
          /\ \A i \in 1..Len(buffer[p]) : buffer[p][i] \in 1..published

\* "Delivery single and ordering consistent": through outages, lost connections and
\* new subscriptions no replica delivers a frame twice or out of order.
FanOut == INSTANCE FanOut WITH published <- published, seen <- seen
DeliversInOrder == FanOut!Spec

\* "It must self-heal ... rather than dying silently and leaving every channel
\* dark": as long as it is not closed, again and again a replica has a living
\* subscription and has taken up all that was sent to it.
ReaderCatchesUp ==
    \A p \in Replicas :
        []<>((linked[p] /\ reader[p] = "listen" /\ buffer[p] = <<>>) \/ closing[p])
=============================================================================
