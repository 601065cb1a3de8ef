----------------------------- MODULE LiveProofs -----------------------------
(***************************************************************************)
(* Theorems about the parts of MCLive, for any values of its constants: the *)
(* transport of the channels implements FanOut; a run of code leaves        *)
(* nothing behind; and what DatabaseProofs and ChatPageProofs show, of the  *)
(* database and the page as MCLive has them.                                *)
(***************************************************************************)
EXTENDS MCLive, TLAPS

-----------------------------------------------------------------------------
(* The transport. *)

USE BoundsAssumption

\* What a replica has delivered comes before the frame it is delivering, and that
\* before what its buffer still holds, in the order of publication.
InOrder(p) ==
    /\ buffer[p] \in Seq(1..published)
    /\ \A i, j \in 1..Len(buffer[p]) : i < j => buffer[p][i] < buffer[p][j]
    /\ seen[p] \subseteq 1..published
    /\ \A g \in seen[p] : \A i \in 1..Len(buffer[p]) : g < buffer[p][i]
    /\ reader[p] = "deliver" =>
          /\ frame[p] \in 1..published
          /\ \A g \in seen[p] : g < frame[p]
          /\ \A i \in 1..Len(buffer[p]) : frame[p] < buffer[p][i]

OrderInv ==
    /\ published \in Nat
    /\ DOMAIN seen = Replicas /\ DOMAIN buffer = Replicas
    /\ DOMAIN frame = Replicas /\ DOMAIN reader = Replicas
    /\ \A p \in Replicas : InOrder(p)

\* What p holds after a step is what it held, or nothing.
Calm(p) ==
    /\ buffer'[p] = buffer[p] \/ buffer'[p] = <<>>
    /\ seen'[p] = seen[p]
    /\ reader'[p] = "deliver" => reader[p] = "deliver" /\ frame'[p] = frame[p]

Domains ==
    /\ DOMAIN seen' = Replicas /\ DOMAIN buffer' = Replicas
    /\ DOMAIN frame' = Replicas /\ DOMAIN reader' = Replicas

LEMMA Elements ==
    ASSUME NEW S, NEW s \in Seq(S)
    PROVE  \A i \in 1..Len(s) : s[i] \in S
OBVIOUS

LEMMA TailFacts ==
    ASSUME NEW S, NEW s \in Seq(S), s # <<>>
    PROVE  /\ Tail(s) \in Seq(S) /\ Len(Tail(s)) = Len(s) - 1
           /\ Len(s) \in Nat /\ 1 \in 1..Len(s) /\ Head(s) = s[1]
           /\ \A i \in 1..Len(Tail(s)) : i + 1 \in 1..Len(s) /\ Tail(s)[i] = s[i + 1]
<1>1. Len(s) \in Nat /\ Len(s) > 0
  OBVIOUS
<1>2. Tail(s) \in Seq(S) /\ Len(Tail(s)) = Len(s) - 1 /\ Head(s) = s[1]
  BY <1>1
<1>3. \A i \in 1..Len(Tail(s)) : i + 1 \in 1..Len(s) /\ Tail(s)[i] = s[i + 1]
  BY <1>1, <1>2
<1> QED
  BY <1>1, <1>2, <1>3

LEMMA AppendFacts ==
    ASSUME NEW S, NEW s \in Seq(S), NEW x \in S
    PROVE  /\ Append(s, x) \in Seq(S) /\ Len(Append(s, x)) = Len(s) + 1
           /\ Len(s) \in Nat
           /\ \A i \in 1..Len(Append(s, x)) :
                 \/ i \in 1..Len(s) /\ Append(s, x)[i] = s[i]
                 \/ i = Len(s) + 1 /\ Append(s, x)[i] = x
<1>1. Len(s) \in Nat /\ Append(s, x) \in Seq(S) /\ Len(Append(s, x)) = Len(s) + 1
  OBVIOUS
<1>2. ASSUME NEW i \in 1..Len(Append(s, x))
      PROVE  \/ i \in 1..Len(s) /\ Append(s, x)[i] = s[i]
             \/ i = Len(s) + 1 /\ Append(s, x)[i] = x
  <2>1. i \in 1..Len(s) \/ i = Len(s) + 1
    BY <1>1
  <2> QED
    BY <1>1, <2>1
<1> QED
  BY <1>1, <1>2

LEMMA CalmKeeps ==
    ASSUME NEW p \in Replicas, published \in Nat, published' = published, InOrder(p), Calm(p)
    PROVE  InOrder(p)'
<1>1. CASE buffer'[p] = buffer[p]
  BY <1>1 DEF InOrder, Calm
<1>2. CASE buffer'[p] = <<>>
  <2>1. buffer'[p] \in Seq(1..published') /\ Len(buffer'[p]) = 0
    BY <1>2
  <2>2. \A i \in 1..Len(buffer'[p]) : FALSE
    BY <2>1
  <2> QED
    BY <2>1, <2>2 DEF InOrder, Calm
<1> QED
  BY <1>1, <1>2 DEF Calm

\* A new frame is greater than all before it.
LEMMA PublishKeeps ==
    ASSUME OrderInv, Publish
    PROVE  OrderInv'
<1>1. published \in Nat /\ published' = published + 1 /\ UNCHANGED <<seen, frame, reader>>
  BY DEF OrderInv, Publish, task
<1>2. Domains
  BY <1>1 DEF OrderInv, Publish, Domains
<1>3. ASSUME NEW p \in Replicas
      PROVE  InOrder(p)'
  <2>1. InOrder(p) /\ 1..published \subseteq 1..published'
    BY <1>1 DEF OrderInv
  <2>2. CASE buffer'[p] = buffer[p]
    BY <1>1, <2>1, <2>2 DEF InOrder
  <2>3. CASE buffer'[p] = Append(buffer[p], published + 1)
    <3> DEFINE b == buffer[p]
               x == published + 1
    <3>1. b \in Seq(1..published') /\ x \in 1..published'
      BY <1>1, <2>1 DEF InOrder
    <3>2. /\ buffer'[p] \in Seq(1..published')
          /\ Len(b) \in Nat /\ Len(buffer'[p]) = Len(b) + 1
          /\ \A i \in 1..Len(buffer'[p]) :
                \/ i \in 1..Len(b) /\ buffer'[p][i] = b[i]
                \/ i = Len(b) + 1 /\ buffer'[p][i] = x
      BY <2>3, <3>1, AppendFacts
    <3>3. \A i \in 1..Len(b) : b[i] \in 1..published
      <4>1. b \in Seq(1..published)
        BY <2>1 DEF InOrder
      <4> HIDE DEF b
      <4> QED
        BY <4>1, Elements
    <3>4. \A g \in 1..published : g < x
      BY <1>1
    <3> HIDE DEF b, x
    <3>5. ASSUME NEW i \in 1..Len(buffer'[p]), NEW j \in 1..Len(buffer'[p]), i < j
          PROVE  buffer'[p][i] < buffer'[p][j]
      <4>1. i \in 1..Len(b) /\ buffer'[p][i] = b[i]
        BY <3>2, <3>5
      <4>2. CASE j \in 1..Len(b) /\ buffer'[p][j] = b[j]
        BY <2>1, <3>5, <4>1, <4>2 DEF InOrder, b
      <4>3. CASE buffer'[p][j] = x
        BY <3>3, <3>4, <4>1, <4>3
      <4> QED
        BY <3>2, <4>2, <4>3
    <3>6. ASSUME NEW g \in 1..published, \A i \in 1..Len(b) : g < b[i]
          PROVE  \A i \in 1..Len(buffer'[p]) : g < buffer'[p][i]
      BY <3>2, <3>4, <3>6
    <3>7. /\ \A g \in seen[p] : \A i \in 1..Len(b) : g < b[i]
          /\ seen[p] \subseteq 1..published
          /\ reader[p] = "deliver" => frame[p] \in 1..published /\ \A i \in 1..Len(b) : frame[p] < b[i]
      BY <2>1 DEF InOrder, b
    <3> QED
      BY <1>1, <2>1, <3>2, <3>5, <3>6, <3>7 DEF InOrder
  <2> QED
    BY <2>2, <2>3 DEF Publish, OrderInv
<1> QED
  BY <1>1, <1>2, <1>3 DEF OrderInv, Domains

\* Taking up the first frame of the buffer.
LEMMA ListenKeeps ==
    ASSUME OrderInv, NEW p \in Replicas, Listen(p)
    PROVE  OrderInv'
<1>1. /\ published \in Nat /\ published' = published /\ seen' = seen
      /\ frame'[p] = Head(buffer[p]) /\ buffer'[p] = Tail(buffer[p]) /\ buffer[p] # <<>>
      /\ \A q \in Replicas \ {p} : Calm(q)
      /\ Domains
  BY DEF OrderInv, Listen, Goto, Calm, Domains
<1>2. InOrder(p)
  BY DEF OrderInv
<1>3. /\ buffer'[p] \in Seq(1..published)
      /\ Len(buffer[p]) \in Nat /\ Len(buffer'[p]) = Len(buffer[p]) - 1
      /\ \A i \in 1..Len(buffer'[p]) : i + 1 \in 1..Len(buffer[p]) /\ buffer'[p][i] = buffer[p][i + 1]
      /\ 1 \in 1..Len(buffer[p]) /\ frame'[p] = buffer[p][1]
      /\ \A i \in 1..Len(buffer[p]) : buffer[p][i] \in 1..published
  <2> DEFINE b == buffer[p]
  <2>1. b \in Seq(1..published) /\ b # <<>> /\ buffer'[p] = Tail(b) /\ frame'[p] = Head(b)
    BY <1>1, <1>2 DEF InOrder
  <2> HIDE DEF b
  <2>2. \A i \in 1..Len(b) : b[i] \in 1..published
    BY <2>1, Elements
  <2>3. /\ Tail(b) \in Seq(1..published) /\ Len(Tail(b)) = Len(b) - 1
        /\ Len(b) \in Nat /\ 1 \in 1..Len(b) /\ Head(b) = b[1]
        /\ \A i \in 1..Len(Tail(b)) : i + 1 \in 1..Len(b) /\ Tail(b)[i] = b[i + 1]
    BY <2>1, TailFacts
  <2> QED
    BY <2>1, <2>2, <2>3 DEF b
<1>4. frame'[p] \in 1..published
  BY <1>3
<1>5. \A i, j \in 1..Len(buffer'[p]) : i < j => buffer'[p][i] < buffer'[p][j]
  BY <1>2, <1>3 DEF InOrder
<1>6. \A i \in 1..Len(buffer'[p]) : frame'[p] < buffer'[p][i]
  BY <1>2, <1>3 DEF InOrder
<1>7. \A g \in seen[p] : g < frame'[p] /\ \A i \in 1..Len(buffer'[p]) : g < buffer'[p][i]
  BY <1>2, <1>3 DEF InOrder
<1>8. InOrder(p)'
  BY <1>1, <1>2, <1>3, <1>4, <1>5, <1>6, <1>7 DEF InOrder
<1> QED
  BY <1>1, <1>8, CalmKeeps DEF OrderInv, Domains

LEMMA DeliverKeeps ==
    ASSUME OrderInv, NEW p \in Replicas, Deliver(p)
    PROVE  OrderInv'
<1>1. /\ published \in Nat /\ published' = published /\ reader[p] = "deliver"
      /\ reader'[p] = "listen" /\ buffer'[p] = buffer[p]
      /\ seen'[p] = seen[p] \cup {frame[p]}
      /\ \A q \in Replicas \ {p} : Calm(q)
      /\ Domains
  BY DEF OrderInv, Deliver, Goto, Calm, Domains
<1>2. InOrder(p)'
  BY <1>1 DEF OrderInv, InOrder
<1> QED
  BY <1>1, <1>2, CalmKeeps DEF OrderInv, Domains

LEMMA OrderInvStep ==
    ASSUME OrderInv, [Next]_vars
    PROVE  OrderInv'
<1>1. CASE Publish
  BY <1>1, PublishKeeps
<1>2. ASSUME NEW p \in Replicas, Listen(p)
      PROVE  OrderInv'
  BY <1>2, ListenKeeps
<1>3. ASSUME NEW p \in Replicas, Deliver(p)
      PROVE  OrderInv'
  BY <1>3, DeliverKeeps
<1>4. ASSUME published' = published, Domains, \A q \in Replicas : Calm(q)
      PROVE  OrderInv'
  BY <1>4, CalmKeeps DEF OrderInv, Domains
<1>5. CASE GoesDown \/ ComesBack \/ UNCHANGED vars
  BY <1>4, <1>5 DEF GoesDown, ComesBack, vars, task, Domains, Calm, OrderInv
<1>6. ASSUME NEW p \in Replicas,
             Loop(p) \/ Subscribe(p) \/ ListenFails(p) \/ DeliverFails(p) \/ Drop(p) \/ Sleep(p)
      PROVE  OrderInv'
  <2>1. CASE Loop(p) \/ ListenFails(p) \/ Sleep(p)
    BY <1>4, <2>1 DEF Loop, ListenFails, Sleep, Goto, Domains, Calm, OrderInv
  <2>2. CASE Subscribe(p)
    BY <1>4, <2>2 DEF Subscribe, Goto, Domains, Calm, OrderInv
  <2>3. CASE DeliverFails(p)
    BY <1>4, <2>3 DEF DeliverFails, Goto, Domains, Calm, OrderInv
  <2>4. CASE Drop(p)
    BY <1>4, <2>4 DEF Drop, Goto, Domains, Calm, OrderInv
  <2> QED
    BY <1>6, <2>1, <2>2, <2>3, <2>4
<1>7. ASSUME NEW p \in Replicas, Close(p) \/ CloseEnds(p) \/ Cut(p)
      PROVE  OrderInv'
  BY <1>4, <1>7 DEF Close, CloseEnds, Cut, Goto, task, Domains, Calm, OrderInv
<1> QED
  BY <1>1, <1>2, <1>3, <1>5, <1>6, <1>7 DEF Next, Reader

LEMMA OrderInvInit ==
    ASSUME Init
    PROVE  OrderInv
<1>1. ASSUME NEW p \in Replicas
      PROVE  InOrder(p)
  <2>1. buffer[p] = <<>> /\ seen[p] = {} /\ reader[p] = "loop"
    BY DEF Init
  <2>2. buffer[p] \in Seq(1..published) /\ \A i \in 1..Len(buffer[p]) : FALSE
    BY <2>1
  <2> QED
    BY <2>1, <2>2 DEF InOrder
<1> QED
  BY <1>1 DEF Init, OrderInv

\* Only Publish and Deliver are steps that the contract sees.
LEMMA StepIsFanOut ==
    ASSUME OrderInv, [Next]_vars
    PROVE  [FanOut!Next]_<<published, seen>>
<1>1. CASE Publish
  BY <1>1 DEF Publish, FanOut!Next, FanOut!Publish
<1>2. ASSUME NEW p \in Replicas, Deliver(p)
      PROVE  FanOut!Next
  <2>1. /\ frame[p] \in 1..published /\ \A g \in seen[p] : g < frame[p]
    BY <1>2 DEF OrderInv, InOrder, Deliver
  <2>2. FanOut!Deliver(p, frame[p])
    BY <1>2, <2>1 DEF Deliver, FanOut!Deliver
  <2> QED
    BY <2>1, <2>2 DEF FanOut!Next
<1>3. CASE GoesDown \/ ComesBack \/ UNCHANGED vars
  BY <1>3 DEF GoesDown, ComesBack, vars
<1>4. ASSUME NEW p \in Replicas,
             Loop(p) \/ Subscribe(p) \/ Listen(p) \/ ListenFails(p) \/ DeliverFails(p) \/ Drop(p)
             \/ Sleep(p) \/ Close(p) \/ CloseEnds(p) \/ Cut(p)
      PROVE  UNCHANGED <<published, seen>>
  BY <1>4 DEF Loop, Subscribe, Listen, ListenFails, DeliverFails, Drop, Sleep, Close, CloseEnds, Cut
<1> QED
  BY <1>1, <1>2, <1>3, <1>4 DEF Next, Reader

LEMMA TransportInOrder == Init /\ [][Next]_vars => DeliversInOrder
<1>1. Init => FanOut!Init
  BY DEF Init, FanOut!Init
<1>2. Init => OrderInv
  BY OrderInvInit
<1>3. OrderInv /\ [Next]_vars => OrderInv'
  BY OrderInvStep
<1>4. OrderInv /\ [Next]_vars => [FanOut!Next]_<<published, seen>>
  BY StepIsFanOut
<1> QED
  BY <1>1, <1>2, <1>3, <1>4, PTL DEF DeliversInOrder, FanOut!Spec

\* Through outages, lost connections and new subscriptions no replica delivers a
\* frame twice or out of order, however many replicas and frames there are.
THEOREM FramesInOrder == Spec => DeliversInOrder
BY TransportInOrder, PTL DEF Spec

-----------------------------------------------------------------------------
(* What a replica's task holds, by where it stands: the types of the transport. *)

Places == {"loop", "subscribe", "listen", "deliver", "error", "sleep", "stopped"}

\* A reader listens only on a pubsub object, and a subscription has one, at a server that
\* answers.
TaskInv ==
    /\ up \in BOOLEAN /\ outages \in 0..MaxOutages /\ published \in 0..MaxFrames
    /\ reader \in [Replicas -> Places]
    /\ pubsub \in [Replicas -> BOOLEAN] /\ linked \in [Replicas -> BOOLEAN]
    /\ backoff \in [Replicas -> 0..MaxBackoff]
    /\ \A p \in Replicas :
         /\ reader[p] \in {"listen", "deliver", "error"} => pubsub[p]
         /\ linked[p] => pubsub[p] /\ up

LEMMA TaskInvInit ==
    ASSUME Init
    PROVE  TaskInv
BY DEF Init, TaskInv, Places, MaxBackoff

\* What a step about replica p does to its reader.
TaskStep(p) ==
    \E l \in Places, o \in BOOLEAN, k \in BOOLEAN, b \in 0..MaxBackoff :
        /\ reader' = [reader EXCEPT ![p] = l] /\ pubsub' = [pubsub EXCEPT ![p] = o]
        /\ linked' = [linked EXCEPT ![p] = k] /\ backoff' = [backoff EXCEPT ![p] = b]
        /\ l \in {"listen", "deliver", "error"} => o
        /\ k => o /\ up

LEMMA TaskStepKeeps ==
    ASSUME TaskInv, NEW p \in Replicas, TaskStep(p), UNCHANGED <<up, published>>,
           outages' \in 0..MaxOutages
    PROVE  TaskInv'
<1>1. PICK l \in Places, o \in BOOLEAN, k \in BOOLEAN, b \in 0..MaxBackoff :
        /\ reader' = [reader EXCEPT ![p] = l] /\ pubsub' = [pubsub EXCEPT ![p] = o]
        /\ linked' = [linked EXCEPT ![p] = k] /\ backoff' = [backoff EXCEPT ![p] = b]
        /\ l \in {"listen", "deliver", "error"} => o
        /\ k => o /\ up
  BY DEF TaskStep
<1>2. /\ reader' \in [Replicas -> Places] /\ pubsub' \in [Replicas -> BOOLEAN]
      /\ linked' \in [Replicas -> BOOLEAN] /\ backoff' \in [Replicas -> 0..MaxBackoff]
  BY <1>1 DEF TaskInv
<1>3. ASSUME NEW q \in Replicas
      PROVE  /\ reader'[q] \in {"listen", "deliver", "error"} => pubsub'[q]
             /\ linked'[q] => pubsub'[q] /\ up
  <2>1. CASE q = p
    BY <1>1, <2>1 DEF TaskInv
  <2>2. CASE q # p
    BY <1>1, <2>2 DEF TaskInv
  <2>. QED
    BY <2>1, <2>2
<1>. QED
  BY <1>2, <1>3 DEF TaskInv

LEMMA ReaderTyped ==
    ASSUME TaskInv, NEW p \in Replicas, Reader(p) \/ Close(p) \/ CloseEnds(p) \/ Cut(p)
    PROVE  TaskInv'
<1>. DEFINE l0 == reader[p]
            o0 == pubsub[p]
            k0 == linked[p]
            b0 == backoff[p]
<1>1. /\ l0 \in Places /\ o0 \in BOOLEAN /\ k0 \in BOOLEAN /\ b0 \in 0..MaxBackoff
      /\ reader = [reader EXCEPT ![p] = l0] /\ pubsub = [pubsub EXCEPT ![p] = o0]
      /\ linked = [linked EXCEPT ![p] = k0] /\ backoff = [backoff EXCEPT ![p] = b0]
      /\ l0 \in {"listen", "deliver", "error"} => o0
      /\ k0 => o0 /\ up
  BY DEF TaskInv
<1>. HIDE DEF l0, o0, k0, b0
<1>2. outages' \in 0..MaxOutages /\ UNCHANGED <<up, published>>
  BY DEF Reader, Loop, Subscribe, Listen, ListenFails, Deliver, DeliverFails, Drop, Sleep,
         Close, CloseEnds, Cut, server, TaskInv
<1>3. CASE Loop(p) \/ Close(p)
  <2>1. PICK l \in Places : /\ reader' = [reader EXCEPT ![p] = l]
                            /\ l \in {"listen", "deliver", "error"} => o0
    BY <1>3 DEF Loop, Close, Goto, Places, o0
  <2>2. UNCHANGED <<pubsub, linked, backoff>>
    BY <1>3 DEF Loop, Close
  <2>3. TaskStep(p)
    BY <1>1, <2>1, <2>2 DEF TaskStep
  <2>. QED
    BY <1>2, <2>3, TaskStepKeeps
<1>4. CASE Subscribe(p)
  <2>1. PICK l \in Places, k \in BOOLEAN :
          /\ reader' = [reader EXCEPT ![p] = l] /\ linked' = [linked EXCEPT ![p] = k]
          /\ k => up
    <3>1. CASE up
      BY <1>4, <3>1 DEF Subscribe, Goto, Places
    <3>2. CASE ~up
      BY <1>1, <1>4, <3>2 DEF Subscribe, Goto, Places
    <3>. QED
      BY <3>1, <3>2
  <2>2. pubsub' = [pubsub EXCEPT ![p] = TRUE] /\ UNCHANGED backoff
    BY <1>4 DEF Subscribe
  <2>3. TaskStep(p)
    BY <1>1, <2>1, <2>2 DEF TaskStep
  <2>. QED
    BY <1>2, <2>3, TaskStepKeeps
<1>5. CASE Listen(p) \/ ListenFails(p) \/ Deliver(p) \/ DeliverFails(p)
  <2>1. PICK l \in Places, b \in 0..MaxBackoff :
          /\ reader' = [reader EXCEPT ![p] = l] /\ backoff' = [backoff EXCEPT ![p] = b]
    <3>1. CASE Listen(p)
      <4>1. 0 \in 0..MaxBackoff
        BY DEF MaxBackoff
      <4>. QED
        BY <3>1, <4>1 DEF Listen, Goto, Places
    <3>2. CASE ListenFails(p) \/ Deliver(p) \/ DeliverFails(p)
      BY <1>1, <3>2 DEF ListenFails, Deliver, DeliverFails, Goto, Places
    <3>. QED
      BY <1>5, <3>1, <3>2
  <2>2. UNCHANGED <<pubsub, linked>> /\ o0 = TRUE
    BY <1>1, <1>5 DEF Listen, ListenFails, Deliver, DeliverFails, TaskInv, l0
  <2>3. TaskStep(p)
    BY <1>1, <2>1, <2>2 DEF TaskStep
  <2>. QED
    BY <1>2, <2>3, TaskStepKeeps
<1>6. CASE Drop(p)
  <2>1. CASE closing[p]
    <3>1. reader' = [reader EXCEPT ![p] = "stopped"] /\ UNCHANGED <<pubsub, linked, backoff>>
      BY <1>6, <2>1 DEF Drop, Goto
    <3>2. TaskStep(p)
      BY <1>1, <3>1 DEF TaskStep, Places
    <3>. QED
      BY <1>2, <3>2, TaskStepKeeps
  <2>2. CASE ~closing[p]
    <3>1. /\ reader' = [reader EXCEPT ![p] = "sleep"] /\ UNCHANGED backoff
          /\ pubsub' = [pubsub EXCEPT ![p] = FALSE] /\ linked' = [linked EXCEPT ![p] = FALSE]
      BY <1>6, <2>2 DEF Drop, Goto
    <3>2. TaskStep(p)
      BY <1>1, <3>1 DEF TaskStep, Places
    <3>. QED
      BY <1>2, <3>2, TaskStepKeeps
  <2>. QED
    BY <2>1, <2>2
<1>7. CASE Sleep(p)
  <2>1. Doubled(b0) \in 0..MaxBackoff
    BY <1>1 DEF Doubled, MaxBackoff
  <2>2. /\ reader' = [reader EXCEPT ![p] = "loop"]
        /\ backoff' = [backoff EXCEPT ![p] = Doubled(b0)] /\ UNCHANGED <<pubsub, linked>>
    BY <1>7 DEF Sleep, Goto, b0
  <2>3. TaskStep(p)
    BY <1>1, <2>1, <2>2 DEF TaskStep, Places
  <2>. QED
    BY <1>2, <2>3, TaskStepKeeps
<1>8. CASE CloseEnds(p)
  <2>1. /\ UNCHANGED <<reader, backoff>> /\ l0 = "stopped"
        /\ pubsub' = [pubsub EXCEPT ![p] = FALSE] /\ linked' = [linked EXCEPT ![p] = FALSE]
    BY <1>8 DEF CloseEnds, l0
  <2>2. TaskStep(p)
    BY <1>1, <2>1 DEF TaskStep
  <2>. QED
    BY <1>2, <2>2, TaskStepKeeps
<1>9. CASE Cut(p)
  <2>1. UNCHANGED <<reader, pubsub, backoff>> /\ linked' = [linked EXCEPT ![p] = FALSE]
    BY <1>9 DEF Cut, task
  <2>2. TaskStep(p)
    BY <1>1, <2>1 DEF TaskStep
  <2>. QED
    BY <1>2, <2>2, TaskStepKeeps
<1>. QED
  BY <1>3, <1>4, <1>5, <1>6, <1>7, <1>8, <1>9 DEF Reader

LEMMA TaskInvStep ==
    ASSUME TaskInv, [Next]_vars
    PROVE  TaskInv'
<1>1. CASE UNCHANGED vars
  BY <1>1 DEF vars, server, task, TaskInv
<1>2. CASE Publish
  <2>1. published' \in 0..MaxFrames
    BY <1>2 DEF Publish, TaskInv
  <2>. QED
    BY <1>2, <2>1 DEF Publish, TaskInv, server, task
<1>3. CASE GoesDown
  <2>1. outages' \in 0..MaxOutages
    BY <1>3 DEF GoesDown, TaskInv
  <2>2. linked' \in [Replicas -> BOOLEAN] /\ \A p \in Replicas : ~linked'[p]
    BY <1>3 DEF GoesDown
  <2>. QED
    BY <1>3, <2>1, <2>2 DEF GoesDown, TaskInv, task
<1>4. CASE ComesBack
  BY <1>4 DEF ComesBack, TaskInv, task
<1>5. ASSUME NEW p \in Replicas, Reader(p) \/ Close(p) \/ CloseEnds(p) \/ Cut(p)
      PROVE  TaskInv'
  BY <1>5, ReaderTyped
<1>. QED
  BY <1>1, <1>2, <1>3, <1>4, <1>5 DEF Next

LEMMA TransportTyped ==
    ASSUME OrderInv, TaskInv
    PROVE  TypeOK
<1>1. ASSUME NEW p \in Replicas
      PROVE  \A i \in 1..Len(buffer[p]) : buffer[p][i] \in 1..published
  <2>. DEFINE b == buffer[p]
  <2>1. b \in Seq(1..published)
    BY DEF OrderInv, InOrder
  <2>. HIDE DEF b
  <2>2. \A i \in 1..Len(b) : b[i] \in 1..published
    BY <2>1, Elements
  <2>. QED
    BY <2>2 DEF b
<1>. QED
  BY <1>1 DEF OrderInv, InOrder, TaskInv, TypeOK, Places

LEMMA TransportRuns == Init /\ [][Next]_vars => []TypeOK
<1>1. Init => OrderInv /\ TaskInv
  BY OrderInvInit, TaskInvInit
<1>2. OrderInv /\ TaskInv /\ [Next]_vars => (OrderInv /\ TaskInv)'
  BY OrderInvStep, TaskInvStep
<1>3. OrderInv /\ TaskInv => TypeOK
  BY TransportTyped
<1>. QED
  BY <1>1, <1>2, <1>3, PTL

\* The transport keeps its types: a reader listens on a pubsub object only, and what is
\* buffered, delivered or seen was published.
THEOREM TransportTypeCorrect == Spec => []TypeOK
BY TransportRuns, PTL DEF Spec

-----------------------------------------------------------------------------
(* A socket of a channel.  HubFacts is the module ChannelsProofs has its theorems about;
   that it is Hub, step by step, holds by expanding the definitions. *)

HubFacts == INSTANCE ChannelsProofs WITH
    Sockets <- {"s"}, Users <- {"u"}, Replicas <- {"p"}, Owner <- [s \in {"s"} |-> "u"],
    Homes <- [{"s"} -> {"p"}], Channel <- "channel", Cap <- 1, MaxFaults <- 2,
    faults <- hubFaults

LEMMA SameHub ==
    /\ Hub!Init <=> HubFacts!Init
    /\ [Hub!Next]_(Hub!vars) <=> [HubFacts!Next]_(HubFacts!vars)
    /\ Hub!TypeOK <=> HubFacts!TypeOK
<1>1. Hub!Init <=> HubFacts!Init
  BY DEF Hub!hub, HubFacts!hub, Hub!session, HubFacts!session, Hub!ghosts, HubFacts!ghosts,
       Hub!config, HubFacts!config, Hub!vars, HubFacts!vars, Hub!Keys, HubFacts!Keys,
       Hub!Init, HubFacts!Init
<1>2. [Hub!Next]_(Hub!vars) <=> [HubFacts!Next]_(HubFacts!vars)
  BY DEF Hub!hub, HubFacts!hub, Hub!session, HubFacts!session, Hub!ghosts, HubFacts!ghosts,
       Hub!config, HubFacts!config, Hub!vars, HubFacts!vars, Hub!Keys, HubFacts!Keys,
       Hub!Open, HubFacts!Open, Hub!Goto, HubFacts!Goto, Hub!Close, HubFacts!Close,
       Hub!Fault, HubFacts!Fault, Hub!Add, HubFacts!Add, Hub!AddFails, HubFacts!AddFails,
       Hub!Connecting, HubFacts!Connecting, Hub!ReserveLocal, HubFacts!ReserveLocal,
       Hub!ReserveRedis, HubFacts!ReserveRedis, Hub!ReserveFails, HubFacts!ReserveFails,
       Hub!SetTtl, HubFacts!SetTtl, Hub!SetTtlFails, HubFacts!SetTtlFails, Hub!Refuse,
       HubFacts!Refuse, Hub!Connect, HubFacts!Connect, Hub!AcceptFails,
       HubFacts!AcceptFails, Hub!CountPresence, HubFacts!CountPresence,
       Hub!CountPresenceFails, HubFacts!CountPresenceFails, Hub!Join, HubFacts!Join,
       Hub!JoinFails, HubFacts!JoinFails, Hub!Handle, HubFacts!Handle, Hub!Receive,
       HubFacts!Receive, Hub!Hangup, HubFacts!Hangup, Hub!Check, HubFacts!Check,
       Hub!Fresh, HubFacts!Fresh, Hub!Persist, HubFacts!Persist, Hub!Publish,
       HubFacts!Publish, Hub!PublishFails, HubFacts!PublishFails, Hub!Disconnect,
       HubFacts!Disconnect, Hub!KeyOf, HubFacts!KeyOf, Hub!Proceed, HubFacts!Proceed,
       Hub!Decrement, HubFacts!Decrement, Hub!Compensate, HubFacts!Compensate,
       Hub!DecrementFails, HubFacts!DecrementFails, Hub!ReleaseLocal,
       HubFacts!ReleaseLocal, Hub!Reap, HubFacts!Reap, Hub!ReapDecrement,
       HubFacts!ReapDecrement, Hub!ReapCompensate, HubFacts!ReapCompensate,
       Hub!ReapFails, HubFacts!ReapFails, Hub!Revoke, HubFacts!Revoke,
       Hub!IntervalPasses, HubFacts!IntervalPasses, Hub!DeleteChannel,
       HubFacts!DeleteChannel, Hub!Expire, HubFacts!Expire, Hub!Restart,
       HubFacts!Restart, Hub!HandshakeNext, HubFacts!HandshakeNext, Hub!LoopNext,
       HubFacts!LoopNext, Hub!FinallyNext, HubFacts!FinallyNext, Hub!Handler,
       HubFacts!Handler, Hub!Next, HubFacts!Next, Hub!Pcs, HubFacts!Pcs
<1>3. Hub!TypeOK <=> HubFacts!TypeOK
  BY DEF Hub!Keys, HubFacts!Keys, Hub!Open, HubFacts!Open, Hub!Pcs, HubFacts!Pcs,
       Hub!TypeOK, HubFacts!TypeOK
<1>. QED
  BY <1>1, <1>2, <1>3

LEMMA HubAlwaysTyped == Hub!Init /\ [][Hub!Next]_(Hub!vars) => []Hub!TypeOK
<1>a. /\ [s \in {"s"} |-> "u"] \in [{"s"} -> {"u"}]
      /\ [{"s"} -> {"p"}] \subseteq [{"s"} -> {"p"}]
      /\ "channel" \notin {"u"}
      /\ 1 \in Nat \ {0}
      /\ 2 \in Nat
  OBVIOUS
<1>1. HubFacts!Init => HubFacts!TypeInv
  BY <1>a, HubFacts!TypeInit
<1>2. HubFacts!TypeInv /\ [HubFacts!Next]_(HubFacts!vars) => HubFacts!TypeInv'
  BY <1>a, HubFacts!TypeStep
<1>3. HubFacts!TypeInv => HubFacts!TypeOK
  BY DEF HubFacts!TypeInv
<1>. QED
  BY <1>1, <1>2, <1>3, SameHub, PTL

-----------------------------------------------------------------------------
(* A run of code: whatever the programs do, however often their requests are cancelled
   and whichever docker commands fail.  The invariant follows the order in which a run
   acquires things. *)

\* A run that waits for its slot has nothing yet.
HoldsNothing(r) ==
    runPc[r] = "waiting" => main[r] = "none" /\ ~children[r] /\ ~container[r] /\ ~dir[r]

\* A process that was not signalled is gone before the run cleans up.
Signalled(r) ==
    /\ runPc[r] = "running" => main[r] \in {"alive", "exited"}
    /\ runPc[r] \in {"cleaning", "insisting", "removing", "ended"} => main[r] # "alive"

\* A signal takes the whole process group; only what ended by itself leaves children.
GroupKilled(r) == children[r] => main[r] \in {"alive", "exited"}

\* Only the docker backend has containers, and a client that ended had none left.
ClientOutlives(r) == container[r] => Exec!Docker /\ main[r] # "exited"

\* Docker obeying, a container that still runs is one nobody had to stop yet, or one
\* whose run was cancelled: once before its cleanup, once more at the shield, and a
\* third time while it awaited the shielded cleanup.
Stopped(r) ==
    failures = 0 /\ container[r] =>
        \/ runPc[r] \in {"running", "killing"}
        \/ runPc[r] \in {"closing", "cleaning"} /\ cancels[r] >= 1
        \/ runPc[r] = "insisting" /\ cancels[r] >= 2
        \/ runPc[r] \in {"removing", "ended"} /\ cancels[r] >= 3

\* The directory is removed as the slot is given back.
DirGone(r) == runPc[r] = "ended" => ~dir[r]

RunInv(r) ==
    /\ HoldsNothing(r) /\ Signalled(r) /\ GroupKilled(r)
    /\ ClientOutlives(r) /\ Stopped(r) /\ DirGone(r)

RunsInv == Exec!TypeOK /\ \A r \in Runs : RunInv(r)

-----------------------------------------------------------------------------
(* One step.  Every step is one run's, and leaves the others as they are.   *)

RunStep(r) == Exec!Step(r) \/ Exec!Exit(r) \/ Exec!Cancel(r)

\* What run q has is as before, and no failure of docker is taken back.
Same(q) ==
    /\ runPc'[q] = runPc[q] /\ main'[q] = main[q] /\ children'[q] = children[q]
    /\ container'[q] = container[q] /\ dir'[q] = dir[q] /\ cancels'[q] = cancels[q]
    /\ interpreter' = interpreter
    /\ failures' = 0 => failures = 0

LEMMA RunTypeInit == ASSUME MaxCancels \in Nat, MaxFailures \in Nat PROVE Exec!Init => Exec!TypeOK
BY DEF Exec!Init, Exec!TypeOK

\* TypeOK, one variable at a time.
RunTypes ==
    /\ interpreter \in Interpreters
    /\ runPc \in [Runs -> {"waiting", "running", "killing", "killed", "reading", "closing",
                        "cleaning", "insisting", "removing", "ended"}]
    /\ main \in [Runs -> {"none", "alive", "killed", "exited", "dead"}]
    /\ children \in [Runs -> BOOLEAN]
    /\ container \in [Runs -> BOOLEAN]
    /\ dir \in [Runs -> BOOLEAN]
    /\ cancels \in [Runs -> 0..MaxCancels]
    /\ failures \in 0..MaxFailures

LEMMA RunTyped == (Exec!TypeOK <=> RunTypes) /\ (Exec!TypeOK' <=> RunTypes')
BY DEF Exec!TypeOK, RunTypes

LEMMA CleanupTyped ==
    ASSUME MaxFailures \in Nat, RunTypes, NEW r \in Runs, Exec!DockerCleanup(r)
    PROVE  container' \in [Runs -> BOOLEAN] /\ failures' \in 0..MaxFailures
<1>1. CASE container' = [container EXCEPT ![r] = FALSE] /\ UNCHANGED failures
  BY <1>1 DEF RunTypes
<1>2. CASE failures < MaxFailures /\ failures' = failures + 1 /\ UNCHANGED container
  <2>1. failures' \in 0..MaxFailures
    BY <1>2 DEF RunTypes
  <2> QED
    BY <1>2, <2>1 DEF RunTypes
<1> QED
  BY <1>1, <1>2 DEF Exec!DockerCleanup

LEMMA RunTypeStep ==
    ASSUME MaxCancels \in Nat, MaxFailures \in Nat
    PROVE  Exec!TypeOK /\ [Exec!Next]_(Exec!vars) => Exec!TypeOK'
<1> SUFFICES ASSUME RunTypes, [Exec!Next]_(Exec!vars) PROVE RunTypes'
  BY RunTyped
<1>1. CASE UNCHANGED Exec!vars
  BY <1>1 DEF RunTypes, Exec!vars
<1>2. ASSUME NEW r \in Runs, RunStep(r) PROVE RunTypes'
  <2>1. CASE Exec!Start(r)
    BY <2>1 DEF RunTypes, Exec!Start, Exec!Goto, Exec!Docker
  <2>2. CASE Exec!Exit(r)
    BY <2>2 DEF RunTypes, Exec!Exit, Exec!Alive
  <2>3. CASE Exec!Waited(r)
    BY <2>3 DEF RunTypes, Exec!Waited, Exec!Alive, Exec!Goto
  <2>4. CASE Exec!TimesOut(r)
    BY <2>4 DEF RunTypes, Exec!TimesOut, Exec!Alive, Exec!Killed, Exec!Goto
  <2>5. CASE Exec!KillContainer(r)
    BY <2>5, CleanupTyped DEF RunTypes, Exec!KillContainer, Exec!Goto
  <2>6. CASE Exec!GiveUp(r)
    BY <2>6 DEF RunTypes, Exec!GiveUp, Exec!Alive, Exec!Goto
  <2>7. CASE Exec!Read(r)
    BY <2>7 DEF RunTypes, Exec!Read, Exec!Goto
  <2>8. CASE Exec!Close(r)
    BY <2>8 DEF RunTypes, Exec!Close, Exec!Alive, Exec!Killed, Exec!Goto
  <2>9. CASE Exec!Cleanup(r)
    BY <2>9, CleanupTyped DEF RunTypes, Exec!Cleanup, Exec!Goto
  <2>10. CASE Exec!Remove(r)
    BY <2>10 DEF RunTypes, Exec!Remove, Exec!Goto
  <2>11. CASE Exec!Cancel(r)
    BY <2>11 DEF RunTypes, Exec!Cancel, Exec!Goto
  <2> QED
    BY <1>2, <2>1, <2>2, <2>3, <2>4, <2>5, <2>6, <2>7, <2>8, <2>9, <2>10, <2>11 DEF RunStep, Exec!Step
<1> QED
  BY <1>1, <1>2 DEF Exec!Next, RunStep

\* Every variable keeps its shape, for any bounds.
THEOREM RunTypesCorrect == Exec!Spec => []Exec!TypeOK
<1>1. Exec!Init => Exec!TypeOK
  BY RunBounds, RunTypeInit
<1>2. Exec!TypeOK /\ [Exec!Next]_(Exec!vars) => Exec!TypeOK'
  BY RunBounds, RunTypeStep
<1> QED
  BY <1>1, <1>2, PTL DEF Exec!Spec

LEMMA RunOthersStay ==
    ASSUME Exec!TypeOK, NEW r \in Runs, RunStep(r), NEW q \in Runs \ {r}
    PROVE  Same(q)
<1>1. CASE Exec!Start(r)
  BY <1>1 DEF Exec!TypeOK, Same, Exec!Start, Exec!Goto, Exec!Docker
<1>2. CASE Exec!Exit(r)
  BY <1>2 DEF Exec!TypeOK, Same, Exec!Exit, Exec!Alive
<1>3. CASE Exec!Waited(r)
  BY <1>3 DEF Exec!TypeOK, Same, Exec!Waited, Exec!Alive, Exec!Goto
<1>4. CASE Exec!TimesOut(r)
  BY <1>4 DEF Exec!TypeOK, Same, Exec!TimesOut, Exec!Alive, Exec!Killed, Exec!Goto
<1>5. CASE Exec!KillContainer(r)
  BY <1>5 DEF Exec!TypeOK, Same, Exec!KillContainer, Exec!DockerCleanup, Exec!Goto
<1>6. CASE Exec!GiveUp(r)
  BY <1>6 DEF Exec!TypeOK, Same, Exec!GiveUp, Exec!Alive, Exec!Goto
<1>7. CASE Exec!Read(r)
  BY <1>7 DEF Exec!TypeOK, Same, Exec!Read, Exec!Goto
<1>8. CASE Exec!Close(r)
  BY <1>8 DEF Exec!TypeOK, Same, Exec!Close, Exec!Alive, Exec!Killed, Exec!Goto
<1>9. CASE Exec!Cleanup(r)
  BY <1>9 DEF Exec!TypeOK, Same, Exec!Cleanup, Exec!DockerCleanup, Exec!Goto
<1>10. CASE Exec!Remove(r)
  BY <1>10 DEF Exec!TypeOK, Same, Exec!Remove, Exec!Goto
<1>11. CASE Exec!Cancel(r)
  BY <1>11 DEF Exec!TypeOK, Same, Exec!Cancel, Exec!Goto
<1> QED
  BY <1>1, <1>2, <1>3, <1>4, <1>5, <1>6, <1>7, <1>8, <1>9, <1>10, <1>11 DEF RunStep, Exec!Step

LEMMA SameKeeps ==
    ASSUME NEW q \in Runs, RunInv(q), Same(q)
    PROVE  RunInv(q)'
BY DEF RunInv, HoldsNothing, Signalled, GroupKilled, ClientOutlives, Stopped, DirGone, Same, Exec!Docker

LEMMA RunOwnStep ==
    ASSUME Exec!TypeOK, NEW r \in Runs, RunInv(r), RunStep(r)
    PROVE  RunInv(r)'
<1> USE DEF RunInv, HoldsNothing, Signalled, GroupKilled, ClientOutlives, Stopped, DirGone, Exec!Docker
<1>1. CASE Exec!Start(r)
  BY <1>1 DEF Exec!TypeOK, Exec!Start, Exec!Goto, Exec!Docker
<1>2. CASE Exec!Exit(r)
  BY <1>2 DEF Exec!TypeOK, Exec!Exit, Exec!Alive
<1>3. CASE Exec!Waited(r)
  BY <1>3 DEF Exec!TypeOK, Exec!Waited, Exec!Alive, Exec!Goto
<1>4. CASE Exec!TimesOut(r)
  BY <1>4 DEF Exec!TypeOK, Exec!TimesOut, Exec!Alive, Exec!Killed, Exec!Goto
<1>5. CASE Exec!KillContainer(r)
  BY <1>5 DEF Exec!TypeOK, Exec!KillContainer, Exec!DockerCleanup, Exec!Goto
<1>6. CASE Exec!GiveUp(r)
  BY <1>6 DEF Exec!TypeOK, Exec!GiveUp, Exec!Alive, Exec!Goto
<1>7. CASE Exec!Read(r)
  BY <1>7 DEF Exec!TypeOK, Exec!Read, Exec!Goto
<1>8. CASE Exec!Close(r)
  BY <1>8 DEF Exec!TypeOK, Exec!Close, Exec!Alive, Exec!Killed, Exec!Goto
<1>9. CASE Exec!Cleanup(r)
  BY <1>9 DEF Exec!TypeOK, Exec!Cleanup, Exec!DockerCleanup, Exec!Goto
<1>10. CASE Exec!Remove(r)
  BY <1>10 DEF Exec!TypeOK, Exec!Remove, Exec!Goto
<1>11. CASE Exec!Cancel(r)
  BY <1>11 DEF Exec!TypeOK, Exec!Cancel, Exec!Goto
<1> QED
  BY <1>1, <1>2, <1>3, <1>4, <1>5, <1>6, <1>7, <1>8, <1>9, <1>10, <1>11 DEF RunStep, Exec!Step

LEMMA RunsInit == Exec!Init => \A r \in Runs : RunInv(r)
BY DEF Exec!Init, RunInv, HoldsNothing, Signalled, GroupKilled, ClientOutlives, Stopped, DirGone

LEMMA RunsStep ==
    ASSUME Exec!TypeOK, \A r \in Runs : RunInv(r), [Exec!Next]_(Exec!vars)
    PROVE  \A r \in Runs : RunInv(r)'
<1>1. CASE UNCHANGED Exec!vars
  <2>1. \A q \in Runs : Same(q)
    BY <1>1 DEF Exec!vars, Same
  <2> QED
    BY <2>1, SameKeeps
<1>2. ASSUME NEW r \in Runs, RunStep(r), NEW q \in Runs
      PROVE  RunInv(q)'
  <2>1. CASE q = r
    BY <1>2, <2>1, RunOwnStep
  <2>2. CASE q # r
    <3>1. Same(q)
      BY <1>2, <2>2, RunOthersStay
    <3> QED
      BY <3>1, SameKeeps
  <2> QED
    BY <2>1, <2>2
<1> QED
  BY <1>1, <1>2 DEF Exec!Next, RunStep

\* A run of code that has ended, also one that was cancelled at any await, left no
\* directory, no unsignalled process, children only of a program that ended by
\* itself, and no container unless docker failed or it was cancelled three times.
THEOREM NothingIsLeftBehind == Exec!Spec => []NothingLeftBehind
<1>1. Exec!Init => RunsInv
  BY RunBounds, RunTypeInit, RunsInit DEF RunsInv
<1>2. RunsInv /\ [Exec!Next]_(Exec!vars) => RunsInv'
  BY RunBounds, RunTypeStep, RunsStep DEF RunsInv
<1>3. RunsInv => NothingLeftBehind
  BY DEF RunsInv, Exec!TypeOK, RunInv, Signalled, GroupKilled, Stopped, DirGone, NothingLeftBehind, Exec!NothingLeftBehind
<1> QED
  BY <1>1, <1>2, <1>3, PTL DEF Exec!Spec

-----------------------------------------------------------------------------
(* The database under its handlers.  DBFacts is the module DatabaseProofs has its
   theorems about; that it is DB, step by step, holds by expanding the definitions. *)

DBFacts == INSTANCE DatabaseProofs WITH
    Homes <- Spreads, home <- process, pc <- dbPc, faults <- dbFaults, seen <- told

LEMMA SameConnection ==
    ASSUME NEW r
    PROVE  DB!Connection(r) <=> DBFacts!Connection(r)
BY DEF DB!Postgres, DBFacts!Postgres, DB!Kind, DBFacts!Kind, DB!Peers, DBFacts!Peers,
     DB!InTx, DBFacts!InTx, DB!Uses, DBFacts!Uses, DB!Connection, DBFacts!Connection,
     DB!MapThenSumSet, DBFacts!MapThenSumSet, DB!MapThenFoldSet, DBFacts!MapThenFoldSet

LEMMA SameDatabase ==
    /\ DB!Init <=> DBFacts!Init
    /\ [DB!Next]_(DB!vars) <=> [DBFacts!Next]_(DBFacts!vars)
<1>1. DB!Init <=> DBFacts!Init
  BY DEF DB!Plain, DBFacts!Plain, DB!AllKeys, DBFacts!AllKeys, DB!Handler, DBFacts!Handler,
       DB!Scopes, DBFacts!Scopes, DB!Before, DBFacts!Before, DB!NoJob, DBFacts!NoJob,
       DB!NoWrites, DBFacts!NoWrites, DB!Init, DBFacts!Init
<1>2. ASSUME NEW r PROVE DB!Begin(r) <=> DBFacts!Begin(r)
  BY DEF DB!Kind, DBFacts!Kind, DB!Goto, DBFacts!Goto, DB!Peers, DBFacts!Peers, DB!Booting,
       DBFacts!Booting, DB!Begin, DBFacts!Begin
<1>3. ASSUME NEW r PROVE DB!OpenTransaction(r) <=> DBFacts!OpenTransaction(r)
  BY SameConnection DEF DB!Goto, DBFacts!Goto, DB!OpenTransaction, DBFacts!OpenTransaction
<1>4. ASSUME NEW r PROVE DB!LockProcess(r) <=> DBFacts!LockProcess(r)
  BY DEF DB!Goto, DBFacts!Goto, DB!LockProcess, DBFacts!LockProcess
<1>5. ASSUME NEW r PROVE DB!ConnectForLock(r) <=> DBFacts!ConnectForLock(r)
  BY SameConnection DEF DB!Goto, DBFacts!Goto, DB!ConnectForLock, DBFacts!ConnectForLock
<1>6. ASSUME NEW r PROVE DB!AdvisoryLock(r) <=> DBFacts!AdvisoryLock(r)
  BY DEF DB!Postgres, DBFacts!Postgres, DB!Goto, DBFacts!Goto, DB!AdvisoryLock,
       DBFacts!AdvisoryLock
<1>7. ASSUME NEW r PROVE DB!StartStatement(r) <=> DBFacts!StartStatement(r)
  BY SameConnection DEF DB!Postgres, DBFacts!Postgres, DB!Scope, DBFacts!Scope, DB!Kind,
       DBFacts!Kind, DB!More, DBFacts!More, DB!Goto, DBFacts!Goto, DB!InTx, DBFacts!InTx,
       DB!Found, DBFacts!Found, DB!StartStatement, DBFacts!StartStatement
<1>8. ASSUME NEW r PROVE DB!Execute(r) <=> DBFacts!Execute(r)
  BY DEF DB!Keys, DBFacts!Keys, DB!Postgres, DBFacts!Postgres, DB!Scope, DBFacts!Scope,
       DB!Kind, DBFacts!Kind, DB!More, DBFacts!More, DB!Statement, DBFacts!Statement,
       DB!Goto, DBFacts!Goto, DB!InTx, DBFacts!InTx, DB!Found, DBFacts!Found, DB!Snapshot,
       DBFacts!Snapshot, DB!Targets, DBFacts!Targets, DB!New, DBFacts!New, DB!Waits,
       DBFacts!Waits, DB!Blocked, DBFacts!Blocked, DB!Refused, DBFacts!Refused,
       DB!AtStatement, DBFacts!AtStatement, DB!Ended, DBFacts!Ended, DB!Write,
       DBFacts!Write, DB!Execute, DBFacts!Execute
<1>9. ASSUME NEW r PROVE DB!Commit(r) <=> DBFacts!Commit(r)
  BY DEF DB!Postgres, DBFacts!Postgres, DB!Scope, DBFacts!Scope, DB!Kind, DBFacts!Kind,
       DB!More, DBFacts!More, DB!Goto, DBFacts!Goto, DB!NoWrites, DBFacts!NoWrites,
       DB!Ended, DBFacts!Ended, DB!Leave, DBFacts!Leave, DB!Commit, DBFacts!Commit
<1>10. ASSUME NEW r PROVE DB!StatementRefused(r) <=> DBFacts!StatementRefused(r)
  BY DEF DB!Keys, DBFacts!Keys, DB!Postgres, DBFacts!Postgres, DB!Scope, DBFacts!Scope,
       DB!Kind, DBFacts!Kind, DB!More, DBFacts!More, DB!Statement, DBFacts!Statement,
       DB!Goto, DBFacts!Goto, DB!NoWrites, DBFacts!NoWrites, DB!InTx, DBFacts!InTx,
       DB!Found, DBFacts!Found, DB!Snapshot, DBFacts!Snapshot, DB!Targets, DBFacts!Targets,
       DB!New, DBFacts!New, DB!Waits, DBFacts!Waits, DB!Blocked, DBFacts!Blocked,
       DB!Refused, DBFacts!Refused, DB!AtStatement, DBFacts!AtStatement, DB!Leave,
       DBFacts!Leave, DB!Unwind, DBFacts!Unwind, DB!StatementRefused,
       DBFacts!StatementRefused
<1>11. ASSUME NEW r PROVE DB!Deadlocked(r) <=> DBFacts!Deadlocked(r)
  BY DEF DB!Keys, DBFacts!Keys, DB!Postgres, DBFacts!Postgres, DB!Scope, DBFacts!Scope,
       DB!Kind, DBFacts!Kind, DB!Statement, DBFacts!Statement, DB!Goto, DBFacts!Goto,
       DB!NoWrites, DBFacts!NoWrites, DB!InTx, DBFacts!InTx, DB!Found, DBFacts!Found,
       DB!Snapshot, DBFacts!Snapshot, DB!Targets, DBFacts!Targets, DB!New, DBFacts!New,
       DB!Waits, DBFacts!Waits, DB!Leave, DBFacts!Leave, DB!Unwind, DBFacts!Unwind,
       DB!Deadlocked, DBFacts!Deadlocked
<1>12. ASSUME NEW r PROVE DB!StatementFails(r) <=> DBFacts!StatementFails(r)
  BY DEF DB!Postgres, DBFacts!Postgres, DB!Kind, DBFacts!Kind, DB!More, DBFacts!More,
       DB!Goto, DBFacts!Goto, DB!NoWrites, DBFacts!NoWrites, DB!AtStatement,
       DBFacts!AtStatement, DB!Leave, DBFacts!Leave, DB!Unwind, DBFacts!Unwind,
       DB!StatementFails, DBFacts!StatementFails
<1>13. [DB!Next]_(DB!vars) <=> [DBFacts!Next]_(DBFacts!vars)
  BY <1>2, <1>3, <1>4, <1>5, <1>6, <1>7, <1>8, <1>9, <1>10, <1>11, <1>12 DEF DB!Next,
       DBFacts!Next, DB!Step, DBFacts!Step, DB!vars, DBFacts!vars
<1> QED
  BY <1>1, <1>13

LEMMA DBAssumptions ==
    DBFacts!HandlersAreUnits /\ DBFacts!SchemaIsOpenDbs /\ DBFacts!HandlersWriteRows
<1>1. DBFacts!HandlersAreUnits
  BY JobsAreUnits DEF DB!Keys, DBFacts!Keys, DB!TxScopes, DBFacts!TxScopes, DB!Positions,
       DBFacts!Positions, DB!IsUnit, DBFacts!IsUnit, DB!HandlersAreUnits,
       DBFacts!HandlersAreUnits
<1>2. DBFacts!SchemaIsOpenDbs
  BY BootsAreOpenDbs DEF DB!Keys, DBFacts!Keys, DB!Plain, DBFacts!Plain, DB!IfNotExists,
       DBFacts!IfNotExists, DB!Select, DBFacts!Select, DB!Unless, DBFacts!Unless,
       DB!Handler, DBFacts!Handler, DB!OpenDb, DBFacts!OpenDb, DB!SchemaIsOpenDbs,
       DBFacts!SchemaIsOpenDbs
<1>3. DBFacts!HandlersWriteRows
  BY JobsWriteRows DEF DB!Plain, DBFacts!Plain, DB!Rows, DBFacts!Rows, DB!Scopes,
       DBFacts!Scopes, DB!HandlersWriteRows, DBFacts!HandlersWriteRows
<1> QED
  BY <1>1, <1>2, <1>3

\* Units of work are all or nothing: whatever other requests do between two statements of
\* a handler's transaction, its rows are replaced in one step or not at all.
THEOREM UnitsStayWhole == DB!Spec => UnitsAreAtomic
<1>1. DBFacts!Spec => DBFacts!UnitsAreAtomic
  BY DBAssumptions, LiteInTurn, DBFacts!TransactionsAreUnits
<1>2. DB!Atomic!Init <=> DBFacts!Atomic!Init
  BY DEF DB!Atomic!Init, DBFacts!Atomic!Init, DB!TxScopes, DBFacts!TxScopes, DB!Unit,
       DBFacts!Unit, DB!Scope, DBFacts!Scope
<1>3. [DB!Atomic!Next]_(DB!Atomic!vars) <=> [DBFacts!Atomic!Next]_(DBFacts!Atomic!vars)
  BY DEF DB!Atomic!Abandon, DB!Atomic!Arrive, DB!Atomic!Begin, DB!Atomic!Dropped,
       DB!Atomic!Next, DB!Atomic!Put, DB!Atomic!Read, DB!Atomic!vars,
       DBFacts!Atomic!Abandon, DBFacts!Atomic!Arrive, DBFacts!Atomic!Begin,
       DBFacts!Atomic!Dropped, DBFacts!Atomic!Next, DBFacts!Atomic!Put, DBFacts!Atomic!Read,
       DBFacts!Atomic!vars, DB!TxScopes, DBFacts!TxScopes, DB!Unit, DBFacts!Unit, DB!Scope,
       DBFacts!Scope
<1> QED
  BY <1>1, <1>2, <1>3, SameDatabase, PTL
  DEF UnitsAreAtomic, DB!UnitsAreAtomic, DBFacts!UnitsAreAtomic, DB!Spec, DBFacts!Spec,
      DB!Atomic!Spec, DBFacts!Atomic!Spec

\* Replicas that boot at once all come up, with the schema whole, beside whatever else
\* runs and however many they are.
THEOREM ReplicasBoot == DB!Spec => []BootCompletes
<1>1. DBFacts!Spec => []DBFacts!BootCompletes
  BY DBAssumptions, LiteInTurn, NobodyIsNone, DBFacts!ReplicasComeUp
<1>2. DB!BootCompletes <=> DBFacts!BootCompletes
  BY DEF DB!Keys, DBFacts!Keys, DB!Kind, DBFacts!Kind, DB!BootCompletes,
       DBFacts!BootCompletes
<1> QED
  BY <1>1, <1>2, SameDatabase, PTL DEF BootCompletes, DB!Spec, DBFacts!Spec

LEMMA DatabaseTyped == DB!Spec => []DB!TypeOK
<1>1. DBFacts!Spec => []DBFacts!TypeOK
  BY DBAssumptions, FaultBound, DBFacts!TypeCorrect
<1>2. DB!TypeOK <=> DBFacts!TypeOK
  BY DEF DB!Plain, DBFacts!Plain, DB!Handler, DBFacts!Handler, DB!Rows, DBFacts!Rows,
       DB!Scopes, DBFacts!Scopes, DB!NoJob, DBFacts!NoJob, DB!TypeOK, DBFacts!TypeOK
<1> QED
  BY <1>1, <1>2, SameDatabase, PTL DEF DB!Spec, DBFacts!Spec

-----------------------------------------------------------------------------
(* The page of a conversation, likewise. *)

PageFacts == INSTANCE ChatPageProofs

LEMMA SamePage ==
    /\ Page!Init <=> PageFacts!Init
    /\ [Page!Next]_(Page!vars) <=> [PageFacts!Next]_(PageFacts!vars)
<1>1. Page!Init <=> PageFacts!Init
  BY DEF Page!Init, PageFacts!Init
<1>2. [Page!Next]_(Page!vars) <=> [PageFacts!Next]_(PageFacts!vars)
  BY DEF Page!Placeholder, PageFacts!Placeholder, Page!Unclaimed, PageFacts!Unclaimed,
       Page!server, PageFacts!server, Page!Extra, PageFacts!Extra, Page!Pending,
       PageFacts!Pending, Page!Altering, PageFacts!Altering, Page!Written,
       PageFacts!Written, Page!Extended, PageFacts!Extended, Page!Kept, PageFacts!Kept,
       Page!Post, PageFacts!Post, Page!Load, PageFacts!Load, Page!RunStream,
       PageFacts!RunStream, Page!Deliver, PageFacts!Deliver, Page!Send, PageFacts!Send,
       Page!CancelQueued, PageFacts!CancelQueued, Page!Control, PageFacts!Control,
       Page!Redo, PageFacts!Redo, Page!Continue, PageFacts!Continue, Page!Alter,
       PageFacts!Alter, Page!Navigate, PageFacts!Navigate, Page!Delta, PageFacts!Delta,
       Page!StreamEnds, PageFacts!StreamEnds, Page!Fail, PageFacts!Fail, Page!Abandon,
       PageFacts!Abandon, Page!Stop, PageFacts!Stop, Page!Break, PageFacts!Break,
       Page!Refused, PageFacts!Refused, Page!Settle, PageFacts!Settle, Page!Show,
       PageFacts!Show, Page!LoadFails, PageFacts!LoadFails, Page!Altered, PageFacts!Altered,
       Page!Set, PageFacts!Set, Page!At, PageFacts!At, Page!Take, PageFacts!Take,
       Page!Finish, PageFacts!Finish, Page!Fails, PageFacts!Fails, Page!Lose,
       PageFacts!Lose, Page!Read, PageFacts!Read, Page!User, PageFacts!User, Page!Network,
       PageFacts!Network, Page!Progress, PageFacts!Progress, Page!Next, PageFacts!Next,
       Page!Hole, PageFacts!Hole, Page!Placed, PageFacts!Placed, Page!Refusals,
       PageFacts!Refusals, Page!EndsShort, PageFacts!EndsShort, Page!RemoveAt, PageFacts!RemoveAt, Page!Min, PageFacts!Min, Page!vars, PageFacts!vars
<1> QED
  BY <1>1, <1>2

LEMMA PageInOrder ==
    Page!Init /\ [][Page!Next]_(Page!vars) => [](RequestsInOrder /\ ShowsWhatIsStored)
<1>1. PageFacts!Init /\ [][PageFacts!Next]_(PageFacts!vars) =>
        [](PageFacts!OneAtATime /\ PageFacts!TurnsAsTyped /\ PageFacts!ShowsWhatIsStored)
  BY HomeExists, PageBounds, PageFacts!AlwaysInOrder DEF PageFacts!Bounds
<1>2. /\ Page!OneAtATime <=> PageFacts!OneAtATime
      /\ Page!TurnsAsTyped <=> PageFacts!TurnsAsTyped
      /\ Page!ShowsWhatIsStored <=> PageFacts!ShowsWhatIsStored
  BY DEF Page!OneAtATime, Page!Pending, Page!ShowsWhatIsStored, Page!TurnsAsTyped,
       Page!Unclaimed, PageFacts!OneAtATime, PageFacts!Pending, PageFacts!ShowsWhatIsStored,
       PageFacts!TurnsAsTyped, PageFacts!Unclaimed
<1> QED
  BY <1>1, <1>2, SamePage, PTL DEF RequestsInOrder, ShowsWhatIsStored

LEMMA PageTyped == Page!Init /\ [][Page!Next]_(Page!vars) => []Page!TypeOK
<1>1. PageFacts!Init /\ [][PageFacts!Next]_(PageFacts!vars) => []PageFacts!TypeOK
  BY HomeExists, PageBounds, PageFacts!AlwaysTyped DEF PageFacts!Bounds, PageFacts!Ids
<1>2. Page!TypeOK <=> PageFacts!TypeOK
  BY DEF Page!Turns, PageFacts!Turns, Page!Rows, PageFacts!Rows, Page!TypeOK,
       PageFacts!TypeOK
<1> QED
  BY <1>1, <1>2, SamePage, PTL

\* The requests of a page follow one another, but for those its user breaks off or that
\* claim no flag, and queued turns go where they were typed, in the order of typing.
THEOREM PageKeepsOrder == Page!Spec => []RequestsInOrder
<1>1. Page!Init /\ [][Page!Next]_(Page!vars) => []RequestsInOrder
  BY PageInOrder, PTL
<1> QED
  BY <1>1, PTL DEF Page!Spec

\* A page at rest shows what is stored.
THEOREM PageComesToRest == Page!Spec => []ShowsWhatIsStored
<1>1. Page!Init /\ [][Page!Next]_(Page!vars) => []ShowsWhatIsStored
  BY PageInOrder, PTL
<1> QED
  BY <1>1, PTL DEF Page!Spec

-----------------------------------------------------------------------------
(* The parts together. *)

\* A behaviour of the parts together is one of each part.
LEMMA PartsRun ==
    MCSpec => /\ Init /\ [][Next]_vars
              /\ Hub!Init /\ [][Hub!Next]_(Hub!vars)
              /\ DB!Init /\ [][DB!Next]_(DB!vars)
              /\ Exec!Init /\ [][Exec!Next]_(Exec!vars)
              /\ Page!Init /\ [][Page!Next]_(Page!vars)
<1>1. MCInit => Init /\ Hub!Init /\ DB!Init /\ Exec!Init /\ Page!Init
  BY DEF MCInit
<1> USE DEF MCNext, all
<1>2. [MCNext]_all => [Next]_vars
  BY DEF vars, server, task
<1>3. [MCNext]_all => [Hub!Next]_(Hub!vars)
  BY DEF hubVars, Hub!vars, Hub!config, Hub!hub, Hub!session, Hub!ghosts
<1>4. [MCNext]_all => [DB!Next]_(DB!vars)
  BY DEF dbVars, DB!vars
<1>5. [MCNext]_all => [Exec!Next]_(Exec!vars)
  BY DEF execVars, Exec!vars
<1>6. [MCNext]_all => [Page!Next]_(Page!vars)
  BY DEF pageVars, Page!vars
<1> QED
  BY <1>1, <1>2, <1>3, <1>4, <1>5, <1>6, PTL DEF MCSpec

\* Every part keeps its types, whatever the others do.
THEOREM LiveTypesCorrect == MCSpec => []TypesOK
<1> DEFINE Parts == {"transport", "hub", "database", "interpreter", "page"}
<1>1. MCInit => part \in Parts
  BY DEF MCInit
<1>2. part \in Parts /\ [MCNext]_all => (part \in Parts)'
  BY DEF MCNext, all
<1>3. TypeOK /\ Hub!TypeOK /\ DB!TypeOK /\ Exec!TypeOK /\ Page!TypeOK /\ part \in Parts
        => TypesOK
  BY DEF TypesOK
<1> HIDE DEF Parts
<1> QED
  BY <1>1, <1>2, <1>3, PartsRun, TransportRuns, HubAlwaysTyped, DatabaseTyped,
     RunTypesCorrect, PageTyped, PTL DEF MCSpec, DB!Spec, Exec!Spec

\* What is promised of the parts holds when they run side by side: frames in order, units
\* of work whole, replicas that boot, runs that leave nothing, a page that keeps its turns
\* in order and shows what is stored.
THEOREM PartsKeepTheirPromises ==
    MCSpec => /\ DeliversInOrder /\ UnitsAreAtomic
              /\ [](BootCompletes /\ NothingLeftBehind /\ RequestsInOrder /\ ShowsWhatIsStored)
<1>1. DB!Init /\ [][DB!Next]_(DB!vars) => UnitsAreAtomic /\ []BootCompletes
  BY UnitsStayWhole, ReplicasBoot DEF DB!Spec
<1>2. Exec!Init /\ [][Exec!Next]_(Exec!vars) => []NothingLeftBehind
  BY NothingIsLeftBehind DEF Exec!Spec
<1> QED
  BY <1>1, <1>2, PartsRun, TransportInOrder, PageInOrder, PTL
=============================================================================
