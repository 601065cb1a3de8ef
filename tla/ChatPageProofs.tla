--------------------------- MODULE ChatPageProofs ---------------------------
(***************************************************************************)
(* Theorems about ChatPage, for any conversations, and any number of turns, *)
(* requests, loads and failures.                                           *)
(***************************************************************************)
EXTENDS ChatPage, TLAPS

Kinds == {"send", "redo", "continue", "fix", "cut", "rate"}
Ats == {"sent", "working", "answered", "refused", "over"}
Phases == {"idle", "stream", "load", "followups", "failed"}

\* What names a request.
Ids == 0..MaxActs
Named == DOMAIN requests \subseteq Ids

Request ==
    [conv : Convs, kind : Kinds, turn : Nat \cup {None}, index : Nat \cup {None},
     row : Rows(Ids \cup {None}) \cup {None}, at : Ats, broken : BOOLEAN]

\* A request about row index of the page, which was row.
AboutRow(q) == q.index \in Nat \ {0} /\ q.row \in Rows(Ids \cup {None})

Loading == [conv : Convs, rows : Seq(Rows(Ids)) \cup {None}, own : BOOLEAN]

PageType ==
    /\ open \in Convs /\ streaming \in BOOLEAN /\ orderly \in BOOLEAN
    /\ messages \in Seq(Rows(Ids \cup {None})) /\ queued \in Seq(Nat) /\ typed \in Seq(Convs)
    /\ phase \in Phases /\ (streaming <=> phase # "idle")
    /\ requests \in Seq(Request) /\ loads \in Seq(Loading)
    /\ \A r \in DOMAIN requests : requests[r].kind \in Unclaimed => AboutRow(requests[r])
    /\ store \in [Convs -> Seq(Rows(Ids))] /\ received \in Seq(Nat)

\* The request of the stream is the last one, and the only one under way that was not
\* broken off and claims the flag.
StreamInv ==
    /\ phase = "stream" =>
         /\ current = Len(requests) /\ current \in Pending
         /\ ~requests[current].broken /\ requests[current].kind \notin Unclaimed
    /\ \A r \in Pending :
         \/ requests[r].broken \/ requests[r].kind \in Unclaimed
         \/ phase = "stream" /\ r = current

\* Only a stream that has ended has a load of its own, and only one.
OwnInv ==
    \A i \in DOMAIN loads : loads[i].own =>
        phase = "load" /\ \A j \in DOMAIN loads : loads[j].own => j = i

\* The turns that wait were typed here, in their order, after those that were sent.
QueueInv ==
    /\ queued # <<>> => streaming
    /\ \A i \in DOMAIN queued :
         /\ queued[i] \in DOMAIN typed /\ typed[queued[i]] = open
         /\ \A j \in DOMAIN queued : i < j => queued[i] < queued[j]
    /\ \A r \in DOMAIN requests : requests[r].kind = "send" =>
         /\ requests[r].turn \in DOMAIN typed /\ typed[requests[r].turn] = requests[r].conv
         /\ \A i \in DOMAIN queued : requests[r].turn < queued[i]
         /\ \A s \in DOMAIN requests :
              r < s /\ requests[s].kind = "send" => requests[r].turn < requests[s].turn

\* Requests are taken up once, and turns in the order of the requests.
ReceivedInv ==
    \A j \in DOMAIN received :
        /\ received[j] \in DOMAIN requests /\ requests[received[j]].at # "sent"
        /\ \A i \in DOMAIN received : i < j =>
             /\ received[i] # received[j]
             /\ \/ received[i] < received[j]
                \/ requests[received[i]].broken \/ requests[received[j]].broken
                \/ {requests[received[i]].kind, requests[received[j]].kind} \cap Unclaimed # {}

\* Every row of a conversation was made by another request, or is its other half.
RowsOnce(c) ==
    \A i \in DOMAIN store[c] :
        /\ \A j \in DOMAIN store[c] :
             store[c][i][1] = store[c][j][1] /\ store[c][i][2] = store[c][j][2] => i = j
        /\ \/ store[c][i][1] = 0
           \/ /\ store[c][i][1] \in DOMAIN requests
              /\ requests[store[c][i][1]].at # "sent"
              /\ store[c][i][2] = "reply" => requests[store[c][i][1]].at # "working"

\* The page shows what is stored, or its last load will make it do so.
UpToDate ==
    IF loads = <<>> THEN messages = store[open]
    ELSE /\ loads[Len(loads)].conv = open
         /\ loads[Len(loads)].rows \in {None, store[open]}

\* An unclaimed request is alone, and about a row that is shown and stored.
Alters(r) ==
    LET q == requests[r]
    IN  /\ Pending = {r} /\ loads = <<>> /\ phase = "idle" /\ q.conv = open
        /\ q.at \in {"sent", "answered"}
        /\ q.at = "sent" \/ q.kind = "rate" =>
             messages = store[open] /\ q.index \in DOMAIN messages /\ q.row = messages[q.index]
        /\ q.at = "answered" /\ q.kind = "cut" =>
             q.index \in DOMAIN messages /\ store[open] = SubSeq(messages, 1, q.index - 1)

OrderInv ==
    orderly =>
        /\ \A r \in DOMAIN requests : ~requests[r].broken
        /\ phase # "failed"
        /\ \A r \in Altering : Alters(r)
        /\ phase # "stream" /\ Altering = {} => UpToDate

PageInv ==
    /\ StreamInv /\ QueueInv /\ ReceivedInv /\ OrderInv
    /\ \A c \in Convs : RowsOnce(c)
-----------------------------------------------------------------------------
(* Rows, and sequences of them. *)

\* The text of a row is its third part.
LEMMA WrittenRow ==
    ASSUME NEW W, NEW row \in Rows(W), NEW r \in W
    PROVE  LET new == [row EXCEPT ![3] = r]
           IN  new \in Rows(W) /\ new[1] = row[1] /\ new[2] = row[2]
  BY DEF Rows

\* Two rows are the same half of what one request made.
LEMMA SameRow ==
    ASSUME NEW W, NEW row \in Rows(W), NEW V, NEW other \in Rows(V)
    PROVE  SubSeq(row, 1, 2) = SubSeq(other, 1, 2)
             <=> row[1] = other[1] /\ row[2] = other[2]
  BY DEF Rows

LEMMA WrittenRows ==
    ASSUME NEW W, NEW rows \in Seq(Rows(W)), NEW i \in DOMAIN rows, NEW r \in W
    PROVE  /\ Written(rows, i, r) \in Seq(Rows(W))
           /\ Len(Written(rows, i, r)) = Len(rows)
           /\ \A j \in DOMAIN rows :
                /\ Written(rows, i, r)[j][1] = rows[j][1]
                /\ Written(rows, i, r)[j][2] = rows[j][2]
<1>1. rows[i] \in Rows(W)
  OBVIOUS
<1>2. Written(rows, i, r) = [rows EXCEPT ![i] = [rows[i] EXCEPT ![3] = r]]
  BY DEF Written
<1>. DEFINE row == [rows[i] EXCEPT ![3] = r]
<1>3. row \in Rows(W) /\ row[1] = rows[i][1] /\ row[2] = rows[i][2]
  BY <1>1, WrittenRow
<1>4. Written(rows, i, r) = [rows EXCEPT ![i] = row]
  BY <1>2
<1>. HIDE DEF row
<1>. QED
  BY <1>3, <1>4

\* The first rows of a page.
LEMMA FirstRows ==
    ASSUME NEW S, NEW rows \in Seq(S), NEW k \in 0..Len(rows)
    PROVE  /\ SubSeq(rows, 1, k) \in Seq(S) /\ Len(SubSeq(rows, 1, k)) = k
           /\ \A j \in 1..k : SubSeq(rows, 1, k)[j] = rows[j]
  OBVIOUS

LEMMA KeptRows ==
    ASSUME NEW W, NEW rows \in Seq(Rows(W)), NEW i \in DOMAIN rows, NEW r \in W
    PROVE  /\ Kept(rows, i, r) \in Seq(Rows(W))
           /\ Len(Kept(rows, i, r)) \in {i - 1, i}
           /\ rows[i][2] = "reply" => Len(Kept(rows, i, r)) = i - 1
           /\ \A j \in DOMAIN Kept(rows, i, r) :
                /\ j \in DOMAIN rows
                /\ Kept(rows, i, r)[j][1] = rows[j][1]
                /\ Kept(rows, i, r)[j][2] = rows[j][2]
<1>1. CASE rows[i][2] = "reply"
  <2>1. Kept(rows, i, r) = SubSeq(rows, 1, i - 1)
    BY <1>1 DEF Kept
  <2>. QED
    BY <1>1, <2>1, FirstRows
<1>2. CASE rows[i][2] # "reply"
  <2>. DEFINE new == Written(rows, i, r)
  <2>1. Kept(rows, i, r) = SubSeq(new, 1, i)
    BY <1>2 DEF Kept
  <2>2. new \in Seq(Rows(W)) /\ Len(new) = Len(rows)
    BY WrittenRows
  <2>3. \A j \in DOMAIN rows : new[j][1] = rows[j][1] /\ new[j][2] = rows[j][2]
    BY WrittenRows
  <2>. HIDE DEF new
  <2>. QED
    BY <1>2, <2>1, <2>2, <2>3, FirstRows
<1>. QED
  BY <1>1, <1>2

LEMMA MoreRows ==
    ASSUME NEW S, NEW T, NEW seq \in Seq(S), \A k \in 1..Len(seq) : seq[k] \in T
    PROVE  seq \in Seq(T)
  OBVIOUS

\* An assignment past the end leaves holes.
LEMMA PlacedRows ==
    ASSUME NEW W, None \in W, NEW rows \in Seq(Rows(W)), NEW i \in Nat \ {0}, NEW row \in Rows(W)
    PROVE  Placed(rows, i, row) \in Seq(Rows(W))
<1>1. Hole \in Rows(W)
  BY DEF Hole, Placeholder, Rows
<1>. DEFINE n == IF i > Len(rows) THEN i ELSE Len(rows)
            new == [j \in 1..n |->
                      IF j = i THEN row ELSE IF j \in DOMAIN rows THEN rows[j] ELSE Hole]
<1>2. n \in Nat
  OBVIOUS
<1>3. \A j \in 1..n :
        (IF j = i THEN row ELSE IF j \in DOMAIN rows THEN rows[j] ELSE Hole) \in Rows(W)
  BY <1>1
<1>4. new \in [1..n -> Rows(W)]
  BY <1>3
<1>. HIDE DEF n
<1>5. new \in Seq(Rows(W))
  BY <1>2, <1>4
<1>. QED
  BY <1>5 DEF Placed, n

\* Nothing changes when a row is where it was.
LEMMA PlacedAgain ==
    ASSUME NEW W, NEW rows \in Seq(Rows(W)), NEW i \in DOMAIN rows
    PROVE  Placed(rows, i, rows[i]) = rows
<1>1. i \in 1..Len(rows) /\ Len(rows) \in Nat /\ DOMAIN rows = 1..Len(rows)
  OBVIOUS
<1>2. ~(i > Len(rows))
  BY <1>1
<1>3. Placed(rows, i, rows[i]) =
        [j \in 1..Len(rows) |-> IF j = i THEN rows[i] ELSE IF j \in DOMAIN rows THEN rows[j] ELSE Hole]
  BY <1>2 DEF Placed
<1>4. \A j \in 1..Len(rows) :
        (IF j = i THEN rows[i] ELSE IF j \in DOMAIN rows THEN rows[j] ELSE Hole) = rows[j]
  BY <1>1
<1>5. rows = [j \in 1..Len(rows) |-> rows[j]]
  BY <1>1
<1>. QED
  BY <1>3, <1>4, <1>5

\* RemoveAt takes one element out.
LEMMA RemoveAtElements ==
    ASSUME NEW S, NEW seq \in Seq(S), NEW i \in DOMAIN seq
    PROVE  /\ RemoveAt(seq, i) \in Seq(S) /\ Len(RemoveAt(seq, i)) = Len(seq) - 1
           /\ \A j \in 1..Len(seq) - 1 :
                RemoveAt(seq, i)[j] = IF j < i THEN seq[j] ELSE seq[j + 1]
<1>. DEFINE s == SubSeq(seq, 1, i - 1)
            t == SubSeq(seq, i + 1, Len(seq))
<1>1. s \in Seq(S) /\ Len(s) = i - 1 /\ \A j \in 1..i - 1 : s[j] = seq[j]
  OBVIOUS
<1>2. t \in Seq(S) /\ Len(t) = Len(seq) - i /\ \A j \in 1..Len(seq) - i : t[j] = seq[i + j]
  OBVIOUS
<1>3. RemoveAt(seq, i) = s \o t
  BY DEF RemoveAt
<1>. HIDE DEF s, t
<1>4. RemoveAt(seq, i) \in Seq(S) /\ Len(RemoveAt(seq, i)) = Len(seq) - 1
  BY <1>1, <1>2, <1>3
<1>5. ASSUME NEW j \in 1..Len(seq) - 1
      PROVE  RemoveAt(seq, i)[j] = IF j < i THEN seq[j] ELSE seq[j + 1]
  <2>1. CASE j < i
    BY <2>1, <1>1, <1>2, <1>3
  <2>2. CASE ~ (j < i)
    <3>1. (s \o t)[j] = t[j - Len(s)]
      BY <2>2, <1>1, <1>2
    <3>2. j - Len(s) \in 1..Len(seq) - i /\ i + (j - Len(s)) = j + 1
      BY <2>2, <1>1
    <3>. QED
      BY <2>2, <1>2, <1>3, <3>1, <3>2
  <2>. QED
    BY <2>1, <2>2
<1>. QED
  BY <1>4, <1>5

LEMMA MinOfTwo ==
    ASSUME NEW a \in Int, NEW b \in Int
    PROVE  Min({a, b}) = IF a <= b THEN a ELSE b
  BY DEF Min
-----------------------------------------------------------------------------
(* Types. *)

LEMMA InitType ==
    ASSUME Home \in Convs, MaxActs \in Nat, Init
    PROVE  PageType
<1>1. <<0, "turn", 0>> \in Rows(Ids) /\ <<0, "reply", 0>> \in Rows(Ids)
  BY DEF Rows, Ids
<1>2. store \in [Convs -> Seq(Rows(Ids))]
  BY <1>1 DEF Init
<1>3. requests = <<>> /\ loads = <<>> /\ messages = <<>> /\ queued = <<>> /\ typed = <<>>
      /\ received = <<>> /\ open = Home /\ orderly = TRUE
  BY DEF Init
<1>4. phase \in Phases /\ streaming \in BOOLEAN /\ (streaming <=> phase # "idle")
  BY DEF Init, Phases
<1>5. \A r \in DOMAIN requests : requests[r].kind \in Unclaimed => AboutRow(requests[r])
  BY <1>3
<1>6. requests \in Seq(Request) /\ loads \in Seq(Loading) /\ messages \in Seq(Rows(Ids \cup {None}))
      /\ queued \in Seq(Nat) /\ typed \in Seq(Convs) /\ received \in Seq(Nat)
  BY <1>3
<1>. QED
  BY <1>2, <1>3, <1>4, <1>5, <1>6 DEF PageType

\* A request is posted.
LEMMA PostType ==
    ASSUME PageType, NEW kind \in Kinds, NEW turn \in Nat \cup {None},
           NEW index \in Nat \cup {None}, NEW row \in Rows(Ids \cup {None}) \cup {None},
           Post(kind, turn, index, row),
           kind \in Unclaimed => index \in Nat \ {0} /\ row \in Rows(Ids \cup {None})
    PROVE  /\ requests' \in Seq(Request) /\ orderly' \in BOOLEAN
           /\ Len(requests') = Len(requests) + 1
           /\ \A r \in DOMAIN requests : requests'[r] = requests[r]
           /\ LET new == requests'[Len(requests) + 1]
              IN  /\ new.conv = open /\ new.kind = kind /\ new.turn = turn
                  /\ new.index = index /\ new.row = row /\ new.at = "sent" /\ ~new.broken
           /\ \A r \in DOMAIN requests' :
                requests'[r].kind \in Unclaimed => AboutRow(requests'[r])
<1>. DEFINE q == [conv |-> open, kind |-> kind, turn |-> turn, index |-> index, row |-> row,
                  at |-> "sent", broken |-> FALSE]
<1>1. q \in Request
  BY DEF PageType, Request, Ats
<1>2. /\ q.conv = open /\ q.kind = kind /\ q.turn = turn
      /\ q.index = index /\ q.row = row /\ q.at = "sent" /\ ~q.broken
  OBVIOUS
<1>3. requests' = Append(requests, q)
  BY DEF Post
<1>4. orderly' \in BOOLEAN
  BY DEF Post, PageType
<1>5. requests \in Seq(Request)
  BY DEF PageType
<1>. HIDE DEF q
<1>6. /\ requests' \in Seq(Request) /\ Len(requests') = Len(requests) + 1
      /\ \A r \in DOMAIN requests : requests'[r] = requests[r]
      /\ requests'[Len(requests) + 1] = q
  BY <1>1, <1>3, <1>5
<1>7. ASSUME NEW r \in DOMAIN requests'
      PROVE  requests'[r].kind \in Unclaimed => AboutRow(requests'[r])
  <2>1. r \in DOMAIN requests \/ r = Len(requests) + 1
    BY <1>5, <1>6
  <2>. QED
    BY <2>1, <1>2, <1>6 DEF PageType, AboutRow
<1>. QED
  BY <1>2, <1>4, <1>6, <1>7

\* A turn is sent: its row and the reply's are shown.
LEMMA DeliverType ==
    ASSUME PageType, NEW t \in Nat, Deliver(t)
    PROVE  /\ messages' \in Seq(Rows(Ids \cup {None}))
           /\ streaming' = TRUE /\ phase' = "stream"
           /\ current' = Len(requests) + 1 /\ Post("send", t, None, None)
<1>1. Placeholder("turn") \in Rows(Ids \cup {None})
      /\ Placeholder("reply") \in Rows(Ids \cup {None})
  BY DEF Placeholder, Rows
<1>2. messages' = messages \o <<Placeholder("turn"), Placeholder("reply")>>
  BY DEF Deliver
<1>3. messages' \in Seq(Rows(Ids \cup {None}))
  BY <1>1, <1>2 DEF PageType
<1>. QED
  BY <1>3 DEF Deliver, RunStream

\* The last row of the page gets a text of the page.
LEMMA ExtendedType ==
    ASSUME PageType
    PROVE  Extended \in Seq(Rows(Ids \cup {None}))
<1>1. CASE messages = <<>>
  BY <1>1 DEF Extended, PageType
<1>2. CASE messages # <<>>
  <2>1. messages \in Seq(Rows(Ids \cup {None})) /\ Len(messages) \in DOMAIN messages
    BY <1>2 DEF PageType
  <2>2. Written(messages, Len(messages), None) \in Seq(Rows(Ids \cup {None}))
    BY <2>1, WrittenRows
  <2>. QED
    BY <1>2, <2>2 DEF Extended
<1>. QED
  BY <1>1, <1>2

\* A request changes where it is, and is broken off.
LEMMA MovedRequest ==
    ASSUME PageType, NEW r \in DOMAIN requests, NEW at \in Ats,
           NEW broken \in BOOLEAN,
           requests' = [requests EXCEPT ![r] = [@ EXCEPT !.broken = broken, !.at = at]]
    PROVE  /\ requests' \in Seq(Request) /\ Len(requests') = Len(requests)
           /\ \A s \in DOMAIN requests :
                /\ s # r => requests'[s] = requests[s]
                /\ requests'[s].conv = requests[s].conv /\ requests'[s].kind = requests[s].kind
                /\ requests'[s].turn = requests[s].turn /\ requests'[s].index = requests[s].index
                /\ requests'[s].row = requests[s].row
           /\ requests'[r].at = at /\ requests'[r].broken = broken
<1>. DEFINE q == [requests[r] EXCEPT !.broken = broken, !.at = at]
<1>1. requests[r] \in Request /\ requests \in Seq(Request)
  BY DEF PageType
<1>2. q \in Request /\ q.at = at /\ q.broken = broken /\ q.row = requests[r].row
      /\ q.conv = requests[r].conv /\ q.kind = requests[r].kind
      /\ q.turn = requests[r].turn /\ q.index = requests[r].index
  BY <1>1 DEF Request
<1>3. requests' = [requests EXCEPT ![r] = q]
  OBVIOUS
<1>. HIDE DEF q
<1>4. requests' \in Seq(Request) /\ Len(requests') = Len(requests)
  BY <1>1, <1>2, <1>3
<1>5. requests'[r] = q /\ \A s \in DOMAIN requests : s # r => requests'[s] = requests[s]
  BY <1>1, <1>3
<1>. QED
  BY <1>2, <1>4, <1>5

\* The same, when it is not broken off by it.
LEMMA SetRequest ==
    ASSUME PageType, NEW r \in DOMAIN requests, NEW at \in Ats,
           requests' = [requests EXCEPT ![r].at = at]
    PROVE  /\ requests' \in Seq(Request) /\ Len(requests') = Len(requests)
           /\ \A s \in DOMAIN requests :
                /\ s # r => requests'[s] = requests[s]
                /\ requests'[s].conv = requests[s].conv /\ requests'[s].kind = requests[s].kind
                /\ requests'[s].turn = requests[s].turn /\ requests'[s].index = requests[s].index
                /\ requests'[s].row = requests[s].row
           /\ requests'[r].at = at /\ requests'[r].broken = requests[r].broken
<1>. DEFINE q == [requests[r] EXCEPT !.at = at]
<1>1. requests[r] \in Request /\ requests \in Seq(Request)
  BY DEF PageType
<1>2. q \in Request /\ q.at = at /\ q.broken = requests[r].broken /\ q.row = requests[r].row
      /\ q.conv = requests[r].conv /\ q.kind = requests[r].kind
      /\ q.turn = requests[r].turn /\ q.index = requests[r].index
  BY <1>1 DEF Request
<1>3. requests' = [requests EXCEPT ![r] = q]
  OBVIOUS
<1>. HIDE DEF q
<1>. QED
  BY <1>1, <1>2, <1>3

\* A load begins.
LEMMA LoadType ==
    ASSUME PageType, NEW c \in Convs, NEW own \in BOOLEAN, Load(c, own)
    PROVE  /\ loads' \in Seq(Loading) /\ Len(loads') = Len(loads) + 1
           /\ \A i \in DOMAIN loads : loads'[i] = loads[i]
           /\ loads'[Len(loads) + 1] = [conv |-> c, rows |-> None, own |-> own]
<1>1. [conv |-> c, rows |-> None, own |-> own] \in Loading
  BY DEF Loading
<1>. QED
  BY <1>1 DEF Load, PageType
\* The rows of a page after a row is made again.
LEMMA RedoneType ==
    ASSUME PageType, NEW i \in DOMAIN messages
    PROVE  Append(Kept(messages, i, None), Placeholder("reply"))
             \in Seq(Rows(Ids \cup {None}))
<1>1. messages \in Seq(Rows(Ids \cup {None}))
  BY DEF PageType
<1>2. Kept(messages, i, None) \in Seq(Rows(Ids \cup {None}))
  BY <1>1, KeptRows
<1>3. Placeholder("reply") \in Rows(Ids \cup {None})
  BY DEF Placeholder, Rows
<1>. QED
  BY <1>2, <1>3

\* A stream that is broken off.
LEMMA AbandonType ==
    ASSUME PageType, StreamInv, phase = "stream", Abandon
    PROVE  LET at == IF requests[current].at \in {"sent", "working"}
                     THEN requests[current].at ELSE "over"
           IN  /\ current \in DOMAIN requests /\ at \in Ats
               /\ requests' = [requests EXCEPT ![current] =
                                  [@ EXCEPT !.broken = TRUE, !.at = at]]
<1>1. current \in DOMAIN requests
  BY DEF StreamInv, Pending
<1>. DEFINE at == IF requests[current].at \in {"sent", "working"}
                  THEN requests[current].at ELSE "over"
<1>2. at \in Ats
  BY DEF Ats
<1>3. requests' = [requests EXCEPT ![current] = [@ EXCEPT !.broken = TRUE, !.at = at]]
  BY <1>1 DEF Abandon, PageType, Request
<1>. QED
  BY <1>1, <1>2, <1>3

LEMMA UserType ==
    ASSUME PageType, StreamInv, User
    PROVE  PageType'
<1>. USE DEF PageType
<1>1. CASE Send
  <2>. DEFINE t == Len(typed')
  <2>1. typed' = Append(typed, open) /\ t \in Nat /\ typed' \in Seq(Convs)
    BY <1>1 DEF Send
  <2>2. /\ UNCHANGED <<open, loads, store, received>>
    BY <1>1 DEF Send, server
  <2>3. CASE streaming /\ queued' = Append(queued, t)
             /\ UNCHANGED <<messages, streaming, phase, current, requests, orderly>>
    BY <2>1, <2>2, <2>3
  <2>4. CASE ~streaming /\ Deliver(t) /\ UNCHANGED queued
    <3>1. /\ messages' \in Seq(Rows(Ids \cup {None}))
          /\ streaming' = TRUE /\ phase' = "stream" /\ Post("send", t, None, None)
      BY <2>1, <2>4, DeliverType
    <3>. HIDE DEF t, PageType
    <3>2. /\ requests' \in Seq(Request) /\ orderly' \in BOOLEAN
          /\ \A r \in DOMAIN requests' :
                requests'[r].kind \in Unclaimed => AboutRow(requests'[r])
      BY <2>1, <3>1, PostType DEF Kinds, Unclaimed
    <3>. QED
      BY <2>1, <2>2, <2>4, <3>1, <3>2 DEF PageType, Phases
  <2>. QED
    BY <1>1, <2>3, <2>4 DEF Send
<1>2. CASE CancelQueued
  <2>1. queued' \in Seq(Nat)
    BY <1>2, RemoveAtElements DEF CancelQueued
  <2>. QED
    BY <1>2, <2>1 DEF CancelQueued, server
<1>3. CASE Redo
  <2>1. PICK i \in DOMAIN messages :
          /\ messages' = Append(Kept(messages, i, None), Placeholder("reply"))
          /\ RunStream("redo", None, i, messages[i])
    BY <1>3 DEF Redo
  <2>2. messages' \in Seq(Rows(Ids \cup {None}))
    BY <2>1, RedoneType
  <2>3. i \in Nat /\ messages[i] \in Rows(Ids \cup {None})
    OBVIOUS
  <2>4. Post("redo", None, i, messages[i]) /\ streaming' = TRUE /\ phase' = "stream"
    BY <2>1 DEF RunStream
  <2>5. /\ requests' \in Seq(Request) /\ orderly' \in BOOLEAN
        /\ \A r \in DOMAIN requests' :
              requests'[r].kind \in Unclaimed => AboutRow(requests'[r])
    <3>. HIDE DEF PageType
    <3>. QED
      BY <2>3, <2>4, PostType DEF Kinds, Unclaimed
  <2>. QED
    BY <1>3, <2>2, <2>4, <2>5 DEF Redo, server, Phases
<1>4. CASE Continue
  <2>. DEFINE i == Len(messages)
  <2>1. i \in DOMAIN messages /\ RunStream("continue", None, i, messages[i])
    BY <1>4 DEF Continue, Control
  <2>3. i \in Nat /\ messages[i] \in Rows(Ids \cup {None})
    BY <2>1
  <2>4. Post("continue", None, i, messages[i]) /\ streaming' = TRUE /\ phase' = "stream"
    BY <2>1 DEF RunStream
  <2>5. /\ requests' \in Seq(Request) /\ orderly' \in BOOLEAN
        /\ \A r \in DOMAIN requests' :
              requests'[r].kind \in Unclaimed => AboutRow(requests'[r])
    <3>. HIDE DEF PageType, i
    <3>. QED
      BY <2>3, <2>4, PostType DEF Kinds, Unclaimed
  <2>. QED
    BY <1>4, <2>4, <2>5 DEF Continue, server, Phases
<1>5. CASE Alter
  <2>1. PICK i \in DOMAIN messages, kind \in Unclaimed : Post(kind, None, i, messages[i])
    BY <1>5 DEF Alter
  <2>2. i \in Nat \ {0} /\ messages[i] \in Rows(Ids \cup {None}) /\ kind \in Kinds
    BY DEF Unclaimed, Kinds
  <2>3. /\ requests' \in Seq(Request) /\ orderly' \in BOOLEAN
        /\ \A r \in DOMAIN requests' :
              requests'[r].kind \in Unclaimed => AboutRow(requests'[r])
    <3>. HIDE DEF PageType
    <3>. QED
      BY <2>1, <2>2, PostType
  <2>. QED
    BY <1>5, <2>3 DEF Alter, server
<1>6. CASE Navigate
  <2>1. open' \in Convs /\ Load(open', FALSE)
    BY <1>6 DEF Navigate
  <2>2. loads' \in Seq(Loading)
    <3>. HIDE DEF PageType
    <3>. QED
      BY <2>1, LoadType
  <2>. QED
    BY <1>6, <2>1, <2>2 DEF Navigate, server
<1>7. CASE Stop
  <2>0. UNCHANGED <<open, streaming, loads, store, received, typed>> /\ queued' = <<>>
        /\ streaming
    BY <1>7 DEF Stop, server
  <2>1. CASE phase = "stream" /\ Fail /\ Abandon
    <3>1. messages' \in Seq(Rows(Ids \cup {None}))
      BY <2>1, ExtendedType DEF Fail
    <3>2. /\ requests' \in Seq(Request) /\ Len(requests') = Len(requests)
          /\ \A s \in DOMAIN requests : requests'[s].kind = requests[s].kind
                                        /\ requests'[s].index = requests[s].index
                                        /\ requests'[s].row = requests[s].row
      <4>. HIDE DEF PageType
      <4>. QED
        BY <2>1, AbandonType, MovedRequest
    <3>3. \A r \in DOMAIN requests' :
            requests'[r].kind \in Unclaimed => AboutRow(requests'[r])
      <4>1. DOMAIN requests' = DOMAIN requests
        BY <3>2
      <4>. QED
        BY <3>2, <4>1 DEF AboutRow
    <3>4. phase' \in Phases /\ orderly' \in BOOLEAN /\ phase' # "idle" /\ phase # "idle"
      BY <2>1 DEF Fail, Phases
    <3>. QED
      BY <2>0, <3>1, <3>2, <3>3, <3>4
  <2>2. CASE UNCHANGED <<messages, phase, current, orderly, requests>>
    BY <2>0, <2>2
  <2>. QED
    BY <1>7, <2>1, <2>2 DEF Stop
<1>. QED
  BY <1>1, <1>2, <1>3, <1>4, <1>5, <1>6, <1>7 DEF User
\* A load goes, and what waits for it goes on.
LEMMA LoadGone ==
    ASSUME PageType, streaming <=> phase # "idle",
           \A l \in DOMAIN loads : loads[l].own => phase = "load",
           NEW i \in DOMAIN loads, loads' = RemoveAt(loads, i),
           phase' = IF loads[i].own THEN "followups" ELSE phase
    PROVE  /\ loads' \in Seq(Loading) /\ phase' \in Phases
           /\ streaming <=> phase' # "idle"
<1>1. loads' \in Seq(Loading)
  BY RemoveAtElements DEF PageType
<1>. QED
  BY <1>1 DEF PageType, Phases

LEMMA NetworkType ==
    ASSUME PageType, StreamInv, OwnInv, Network
    PROVE  PageType'
<1>. USE DEF PageType
<1>1. CASE Delta
  <2>1. messages' \in Seq(Rows(Ids \cup {None}))
    BY <1>1, ExtendedType DEF Delta
  <2>. QED
    BY <1>1, <2>1 DEF Delta, server
<1>2. CASE Break
  <2>0. UNCHANGED <<open, streaming, loads, store, received, typed, queued>>
    BY <1>2 DEF Break, server
  <2>1. phase = "stream" /\ Fail /\ Abandon
    BY <1>2 DEF Break
  <2>2. messages' \in Seq(Rows(Ids \cup {None}))
    BY <2>1, ExtendedType DEF Fail
  <2>3. /\ requests' \in Seq(Request) /\ Len(requests') = Len(requests)
        /\ \A s \in DOMAIN requests : requests'[s].kind = requests[s].kind
                                      /\ requests'[s].index = requests[s].index
                                      /\ requests'[s].row = requests[s].row
    <3>. HIDE DEF PageType
    <3>. QED
      BY <2>1, AbandonType, MovedRequest
  <2>4. DOMAIN requests' = DOMAIN requests
    BY <2>3
  <2>5. \A r \in DOMAIN requests' :
          requests'[r].kind \in Unclaimed => AboutRow(requests'[r])
    BY <2>3, <2>4 DEF AboutRow
  <2>6. phase' \in Phases /\ orderly' \in BOOLEAN /\ phase' # "idle" /\ phase # "idle"
    BY <2>1 DEF Fail, Phases
  <2>. QED
    BY <2>0, <2>2, <2>3, <2>5, <2>6
<1>3. CASE LoadFails
  <2>1. PICK i \in DOMAIN loads :
          /\ loads' = RemoveAt(loads, i)
          /\ phase' = IF loads[i].own THEN "followups" ELSE phase
    BY <1>3 DEF LoadFails
  <2>2. loads' \in Seq(Loading) /\ phase' \in Phases /\ (streaming <=> phase' # "idle")
    <3>. HIDE DEF PageType
    <3>1. streaming <=> phase # "idle"
      BY DEF PageType
    <3>. QED
      BY <2>1, <3>1, LoadGone DEF OwnInv
  <2>. QED
    BY <1>3, <2>2 DEF LoadFails, server
<1>4. ASSUME NEW r \in Pending, NEW at \in Ats, Set(r, at),
             UNCHANGED <<open, messages, queued, streaming, phase, current, loads, server, typed>>,
             orderly' \in BOOLEAN
      PROVE  PageType'
  <2>1. r \in DOMAIN requests
    BY DEF Pending
  <2>2. /\ requests' \in Seq(Request) /\ Len(requests') = Len(requests)
        /\ \A s \in DOMAIN requests : requests'[s].kind = requests[s].kind
                                      /\ requests'[s].index = requests[s].index
                                      /\ requests'[s].row = requests[s].row
    <3>. HIDE DEF PageType
    <3>. QED
      BY <1>4, <2>1, SetRequest DEF Set
  <2>3. DOMAIN requests' = DOMAIN requests
    BY <2>2
  <2>4. \A s \in DOMAIN requests' :
          requests'[s].kind \in Unclaimed => AboutRow(requests'[s])
    BY <2>2, <2>3 DEF AboutRow
  <2>. QED
    BY <1>4, <2>2, <2>4 DEF server
<1>5. CASE Fails
  <2>1. PICK r \in Altering, at \in {"answered", "over"} : Set(r, at)
    BY <1>5 DEF Fails
  <2>. QED
    BY <1>4, <1>5, <2>1 DEF Fails, Altering, Ats
<1>6. CASE Lose
  <2>1. PICK r \in Pending : Set(r, "over")
    BY <1>6 DEF Lose
  <2>. QED
    BY <1>4, <1>6, <2>1 DEF Lose, Ats
<1>7. CASE EndsShort
  <2>1. phase = "stream" /\ Abandon /\ Load(open, TRUE) /\ open \in Convs
    BY <1>7 DEF EndsShort
  <2>2. /\ requests' \in Seq(Request) /\ Len(requests') = Len(requests)
        /\ \A s \in DOMAIN requests : requests'[s].kind = requests[s].kind
                                      /\ requests'[s].index = requests[s].index
                                      /\ requests'[s].row = requests[s].row
    <3>. HIDE DEF PageType
    <3>. QED
      BY <2>1, AbandonType, MovedRequest
  <2>3. DOMAIN requests' = DOMAIN requests
    BY <2>2
  <2>4. \A r \in DOMAIN requests' :
          requests'[r].kind \in Unclaimed => AboutRow(requests'[r])
    BY <2>2, <2>3 DEF AboutRow
  <2>5. loads' \in Seq(Loading)
    <3>. HIDE DEF PageType
    <3>. QED
      BY <2>1, LoadType
  <2>6. phase' \in Phases /\ orderly' \in BOOLEAN /\ (streaming' <=> phase' # "idle")
        /\ UNCHANGED <<open, messages, queued, streaming, store, received, typed>>
    BY <1>7, <2>1 DEF EndsShort, Phases, server
  <2>. QED
    BY <2>2, <2>4, <2>5, <2>6
<1>. QED
  BY <1>1, <1>2, <1>3, <1>5, <1>6, <1>7 DEF Network

\* What the server makes of a conversation's rows are rows.
LEMMA StoreType ==
    ASSUME PageType, NEW c \in Convs, NEW new \in Seq(Rows(Ids)),
           store' = [store EXCEPT ![c] = new]
    PROVE  /\ store' \in [Convs -> Seq(Rows(Ids))] /\ store'[c] = new
           /\ \A d \in Convs : d # c => store'[d] = store[d]
  BY DEF PageType

\* What taking a request up makes of its conversation.
Taken(r) ==
    LET q == requests[r]
        rows == store[q.conv]
    IN  \/ q.kind = "send" /\ store'[q.conv] = Append(rows, <<r, "turn", r>>)
        \/ q.kind # "send" /\ At(q) = {} /\ store'[q.conv] = rows
        \/ /\ q.kind # "send"
           /\ \E i \in At(q) :
                \/ q.kind = "redo" /\ store'[q.conv] = Kept(rows, i, r)
                \/ q.kind \in {"continue", "rate"} /\ store'[q.conv] = rows
                \/ q.kind = "fix" /\ store'[q.conv] = Written(rows, i, r)
                \/ q.kind = "cut" /\ store'[q.conv] = SubSeq(rows, 1, i - 1)

LEMMA TakeRows ==
    ASSUME PageType, Named, Take
    PROVE  \E r \in Pending, at \in Ats :
             /\ requests[r].at = "sent" /\ Set(r, at) /\ received' = Append(received, r)
             /\ at = "working" => requests[r].kind \notin Unclaimed
             /\ at = "over" => requests[r].broken \/ requests[r].kind = "rate"
             /\ at # "sent"
             /\ requests[r].kind \in Unclaimed =>
                  at = "answered" \/ (at = "over" /\ requests[r].kind = "rate")
             /\ Taken(r) /\ store' \in [Convs -> Seq(Rows(Ids))]
             /\ \A d \in Convs : d # requests[r].conv => store'[d] = store[d]
<1>. DEFINE Step(r) ==
       LET q == requests[r]
           rows == store[q.conv]
           Becomes(new) == store' = [store EXCEPT ![q.conv] = new]
       IN  /\ q.at = "sent"
           /\ received' = Append(received, r)
           /\ \/ /\ q.kind = "send"
                 /\ Becomes(Append(rows, <<r, "turn", r>>))
                 /\ Set(r, "working")
              \/ /\ q.kind # "send" /\ At(q) = {}
                 /\ \E at \in Refusals(q) : Set(r, at)
                 /\ UNCHANGED store
              \/ /\ q.kind # "send"
                 /\ \E i \in At(q) :
                      Becomes(CASE q.kind = "redo" -> Kept(rows, i, r)
                                [] q.kind \in {"continue", "rate"} -> rows
                                [] q.kind = "fix" -> Written(rows, i, r)
                                [] q.kind = "cut" -> SubSeq(rows, 1, i - 1))
                 /\ Set(r, IF q.kind \in Unclaimed THEN "answered" ELSE "working")
<1>1. PICK r \in Pending : Step(r)
  BY DEF Take
<1>. DEFINE q == requests[r]
            rows == store[q.conv]
<1>2. /\ r \in DOMAIN requests /\ q.conv \in Convs /\ rows \in Seq(Rows(Ids)) /\ r \in Ids
      /\ q.kind \in Kinds /\ q.broken \in BOOLEAN /\ q.at = "sent"
  <2>1. r \in DOMAIN requests /\ r \in Ids /\ q \in Request
    BY DEF Pending, PageType, Named
  <2>2. q.conv \in Convs /\ q.kind \in Kinds /\ q.broken \in BOOLEAN
    BY <2>1 DEF Request
  <2>3. rows \in Seq(Rows(Ids))
    BY <2>2 DEF PageType
  <2>. QED
    BY <1>1, <2>1, <2>2, <2>3
<1>3. CASE q.kind = "send" /\ store' = [store EXCEPT ![q.conv] = Append(rows, <<r, "turn", r>>)]
           /\ Set(r, "working")
  <2>1. <<r, "turn", r>> \in Rows(Ids)
    BY <1>2 DEF Rows
  <2>2. Append(rows, <<r, "turn", r>>) \in Seq(Rows(Ids))
    BY <1>2, <2>1
  <2>. QED
    BY <1>1, <1>2, <1>3, <2>2, StoreType DEF Taken, Ats, Unclaimed
<1>4. ASSUME q.kind # "send", At(q) = {}, UNCHANGED store, NEW at \in Refusals(q), Set(r, at)
      PROVE  \E a \in Ats :
             /\ Set(r, a)
             /\ a = "working" => requests[r].kind \notin Unclaimed
             /\ a = "over" => requests[r].broken \/ requests[r].kind = "rate"
             /\ a # "sent"
             /\ requests[r].kind \in Unclaimed =>
                  a = "answered" \/ (a = "over" /\ requests[r].kind = "rate")
             /\ Taken(r) /\ store' \in [Convs -> Seq(Rows(Ids))]
             /\ \A d \in Convs : d # requests[r].conv => store'[d] = store[d]
  <2>1. \/ q.kind \in {"fix", "cut"} /\ at = "answered"
        \/ q.kind = "rate" /\ at \in {"answered", "over"}
        \/ q.kind \in {"redo", "continue"} /\ at = (IF q.broken THEN "over" ELSE "refused")
    BY <1>2, <1>4 DEF Refusals, Kinds
  <2>2. /\ at \in Ats /\ at # "sent" /\ at # "working" /\ (at = "over" => q.broken \/ q.kind = "rate")
        /\ (q.kind \in Unclaimed => at = "answered" \/ (at = "over" /\ q.kind = "rate"))
    BY <1>2, <2>1 DEF Ats, Unclaimed
  <2>3. Taken(r) /\ store' \in [Convs -> Seq(Rows(Ids))]
        /\ \A d \in Convs : d # q.conv => store'[d] = store[d]
    BY <1>4 DEF Taken, PageType
  <2>. QED
    BY <1>4, <2>2, <2>3
<1>5. ASSUME q.kind # "send", NEW i \in At(q),
             store' = [store EXCEPT ![q.conv] =
                          CASE q.kind = "redo" -> Kept(rows, i, r)
                            [] q.kind \in {"continue", "rate"} -> rows
                            [] q.kind = "fix" -> Written(rows, i, r)
                            [] q.kind = "cut" -> SubSeq(rows, 1, i - 1)],
             Set(r, IF q.kind \in Unclaimed THEN "answered" ELSE "working")
      PROVE  \E at \in Ats :
             /\ Set(r, at) 
             /\ at = "working" => requests[r].kind \notin Unclaimed
             /\ at = "over" => requests[r].broken \/ requests[r].kind = "rate"
             /\ at # "sent"
             /\ requests[r].kind \in Unclaimed =>
                  at = "answered" \/ (at = "over" /\ requests[r].kind = "rate")
             /\ Taken(r) /\ store' \in [Convs -> Seq(Rows(Ids))]
             /\ \A d \in Convs : d # requests[r].conv => store'[d] = store[d]
  <2>. DEFINE new == CASE q.kind = "redo" -> Kept(rows, i, r)
                       [] q.kind \in {"continue", "rate"} -> rows
                       [] q.kind = "fix" -> Written(rows, i, r)
                       [] q.kind = "cut" -> SubSeq(rows, 1, i - 1)
  <2>1. i \in DOMAIN rows
    BY <1>5 DEF At
  <2>2. /\ Kept(rows, i, r) \in Seq(Rows(Ids)) /\ Written(rows, i, r) \in Seq(Rows(Ids))
        /\ SubSeq(rows, 1, i - 1) \in Seq(Rows(Ids))
    BY <1>2, <2>1, KeptRows, WrittenRows, FirstRows
  <2>3. new \in Seq(Rows(Ids))
    BY <1>2, <1>5, <2>2 DEF Kinds
  <2>4. store'[q.conv] = new /\ store' \in [Convs -> Seq(Rows(Ids))]
        /\ \A d \in Convs : d # q.conv => store'[d] = store[d]
    BY <1>2, <1>5, <2>3, StoreType
  <2>5. Taken(r)
    BY <1>2, <1>5, <2>4 DEF Taken, Kinds
  <2>. DEFINE at == IF q.kind \in Unclaimed THEN "answered" ELSE "working"
  <2>6. /\ at \in Ats /\ at # "sent" /\ at # "over" /\ (at = "working" => q.kind \notin Unclaimed)
        /\ (q.kind \in Unclaimed => at = "answered") /\ Set(r, at)
    BY <1>5 DEF Ats
  <2>. HIDE DEF new, at
  <2>. QED
    BY <2>4, <2>5, <2>6
<1>. QED
  BY <1>1, <1>3, <1>4, <1>5
\* What finishing makes of a conversation.
Finished(r) ==
    LET q == requests[r]
        rows == store[q.conv]
    IN  \/ q.kind # "continue" /\ store'[q.conv] = Append(rows, <<r, "reply", r>>)
        \/ q.kind = "continue" /\ \E i \in At(q) : store'[q.conv] = Written(rows, i, r)
        \/ store'[q.conv] = rows

LEMMA FinishRows ==
    ASSUME PageType, Named, Finish
    PROVE  \E r \in Pending, at \in Ats :
             /\ requests[r].at = "working" /\ Set(r, at) /\ UNCHANGED received
             /\ at = "over" => requests[r].broken
             /\ at \in {"answered", "over"}
             /\ Finished(r) /\ store' \in [Convs -> Seq(Rows(Ids))]
             /\ \A d \in Convs : d # requests[r].conv => store'[d] = store[d]
<1>. DEFINE Step(r) ==
       LET q == requests[r]
           rows == store[q.conv]
           Becomes(new) == store' = [store EXCEPT ![q.conv] = new]
       IN  /\ q.at = "working"
           /\ \/ q.kind # "continue" /\ Becomes(Append(rows, <<r, "reply", r>>))
              \/ q.kind = "continue" /\ \E i \in At(q) : Becomes(Written(rows, i, r))
              \/ (q.kind = "redo" => q.row[2] = "turn") /\ UNCHANGED store
           /\ Set(r, IF q.broken THEN "over" ELSE "answered")
<1>1. PICK r \in Pending : Step(r)
  BY DEF Finish
<1>. DEFINE q == requests[r]
            rows == store[q.conv]
<1>2. /\ r \in DOMAIN requests /\ q.conv \in Convs /\ rows \in Seq(Rows(Ids)) /\ r \in Ids
      /\ q.at = "working"
  <2>1. r \in DOMAIN requests /\ r \in Ids /\ q \in Request
    BY DEF Pending, PageType, Named
  <2>2. q.conv \in Convs /\ q.kind \in Kinds /\ q.broken \in BOOLEAN
    BY <2>1 DEF Request
  <2>3. rows \in Seq(Rows(Ids))
    BY <2>2 DEF PageType
  <2>. QED
    BY <1>1, <2>1, <2>2, <2>3
<1>3. Finished(r) /\ store' \in [Convs -> Seq(Rows(Ids))]
      /\ \A d \in Convs : d # q.conv => store'[d] = store[d]
  <2>1. CASE q.kind # "continue" /\ store' = [store EXCEPT ![q.conv] = Append(rows, <<r, "reply", r>>)]
    <3>1. Append(rows, <<r, "reply", r>>) \in Seq(Rows(Ids))
      BY <1>2 DEF Rows
    <3>. QED
      BY <1>2, <2>1, <3>1, StoreType DEF Finished
  <2>2. ASSUME q.kind = "continue", NEW i \in At(q),
               store' = [store EXCEPT ![q.conv] = Written(rows, i, r)]
        PROVE  Finished(r) /\ store' \in [Convs -> Seq(Rows(Ids))]
               /\ \A d \in Convs : d # q.conv => store'[d] = store[d]
    <3>1. Written(rows, i, r) \in Seq(Rows(Ids))
      BY <1>2, WrittenRows DEF At
    <3>. QED
      BY <1>2, <2>2, <3>1, StoreType DEF Finished
  <2>3. CASE UNCHANGED store
    BY <2>3 DEF Finished, PageType
  <2>. QED
    BY <1>1, <2>1, <2>2, <2>3
<1>4. Set(r, IF q.broken THEN "over" ELSE "answered") /\ UNCHANGED received
  BY <1>1 DEF Finish
<1>. QED
  BY <1>2, <1>3, <1>4 DEF Ats

\* A request moves on at the server.
LEMMA ServedType ==
    ASSUME PageType, NEW r \in Pending, NEW at \in Ats, Set(r, at),
           UNCHANGED <<open, messages, queued, streaming, phase, current, loads, typed, orderly>>,
           store' \in [Convs -> Seq(Rows(Ids))], received' \in Seq(Nat)
    PROVE  PageType'
<1>1. r \in DOMAIN requests
  BY DEF Pending
<1>2. /\ requests' \in Seq(Request) /\ Len(requests') = Len(requests)
      /\ \A s \in DOMAIN requests : requests'[s].kind = requests[s].kind
                                    /\ requests'[s].index = requests[s].index
                                    /\ requests'[s].row = requests[s].row
  BY <1>1, SetRequest DEF Set
<1>. USE DEF PageType
<1>3. DOMAIN requests' = DOMAIN requests
  BY <1>2
<1>4. \A s \in DOMAIN requests' :
        requests'[s].kind \in Unclaimed => AboutRow(requests'[s])
  BY <1>2, <1>3 DEF AboutRow
<1>. QED
  BY <1>2, <1>4

LEMMA ProgressType ==
    ASSUME PageType, Named, StreamInv, OwnInv, QueueInv, Progress
    PROVE  PageType'
<1>1. CASE StreamEnds
  <2>1. current \in DOMAIN requests /\ requests' = [requests EXCEPT ![current].at = "over"]
    BY <1>1 DEF StreamEnds, StreamInv, Pending
  <2>2. /\ requests' \in Seq(Request) /\ Len(requests') = Len(requests)
        /\ \A s \in DOMAIN requests : requests'[s].kind = requests[s].kind
                                      /\ requests'[s].index = requests[s].index
                                      /\ requests'[s].row = requests[s].row
    BY <2>1, SetRequest DEF Ats
  <2>3. open \in Convs
    BY DEF PageType
  <2>4. loads' \in Seq(Loading)
    BY <1>1, <2>3, LoadType DEF StreamEnds
  <2>. USE DEF PageType
  <2>5. DOMAIN requests' = DOMAIN requests
    BY <2>2
  <2>6. \A s \in DOMAIN requests' :
          requests'[s].kind \in Unclaimed => AboutRow(requests'[s])
    BY <2>2, <2>5 DEF AboutRow
  <2>7. phase' \in Phases /\ (streaming' <=> phase' # "idle") /\ streaming' \in BOOLEAN
    BY <1>1 DEF StreamEnds, Phases
  <2>. QED
    BY <1>1, <2>2, <2>4, <2>6, <2>7 DEF StreamEnds, server
<1>2. CASE Refused
  <2>1. current \in DOMAIN requests /\ requests' = [requests EXCEPT ![current].at = "over"]
    BY <1>2 DEF Refused, StreamInv, Pending
  <2>2. /\ requests' \in Seq(Request) /\ Len(requests') = Len(requests)
        /\ \A s \in DOMAIN requests : requests'[s].kind = requests[s].kind
                                      /\ requests'[s].index = requests[s].index
                                      /\ requests'[s].row = requests[s].row
    BY <2>1, SetRequest DEF Ats
  <2>3. messages' \in Seq(Rows(Ids \cup {None}))
    BY <1>2, ExtendedType DEF Refused, Fail
  <2>. USE DEF PageType
  <2>5. DOMAIN requests' = DOMAIN requests
    BY <2>2
  <2>6. \A s \in DOMAIN requests' :
          requests'[s].kind \in Unclaimed => AboutRow(requests'[s])
    BY <2>2, <2>5 DEF AboutRow
  <2>7. phase' \in Phases /\ (streaming' <=> phase' # "idle") /\ streaming' \in BOOLEAN
        /\ orderly' \in BOOLEAN
    BY <1>2 DEF Refused, Fail, Phases
  <2>. QED
    BY <1>2, <2>2, <2>3, <2>6, <2>7 DEF Refused, server
<1>3. CASE Settle
  <2>1. CASE /\ streaming' = FALSE /\ phase' = "idle"
             /\ UNCHANGED <<messages, queued, current, requests, orderly>>
    BY <1>3, <2>1 DEF Settle, server, PageType, Phases
  <2>2. CASE queued # <<>> /\ queued' = Tail(queued) /\ Deliver(Head(queued))
    <3>1. Head(queued) \in Nat /\ queued' \in Seq(Nat)
      BY <2>2 DEF PageType
    <3>2. /\ messages' \in Seq(Rows(Ids \cup {None}))
          /\ streaming' = TRUE /\ phase' = "stream" /\ Post("send", Head(queued), None, None)
      BY <2>2, <3>1, DeliverType
    <3>3. /\ requests' \in Seq(Request) /\ orderly' \in BOOLEAN
          /\ \A r \in DOMAIN requests' :
                requests'[r].kind \in Unclaimed => AboutRow(requests'[r])
      BY <3>1, <3>2, PostType DEF Kinds, Unclaimed
    <3>. QED
      BY <1>3, <3>1, <3>2, <3>3 DEF Settle, server, PageType, Phases
  <2>. QED
    BY <1>3, <2>1, <2>2 DEF Settle
<1>4. CASE Show
  <2>1. PICK i \in DOMAIN loads :
          /\ loads[i].rows # None /\ messages' = loads[i].rows
          /\ loads' = RemoveAt(loads, i)
          /\ phase' = IF loads[i].own THEN "followups" ELSE phase
          /\ orderly' = (orderly /\ i = 1)
    BY <1>4 DEF Show
  <2>2. streaming <=> phase # "idle"
    BY DEF PageType
  <2>3. loads' \in Seq(Loading) /\ phase' \in Phases /\ (streaming <=> phase' # "idle")
    BY <2>1, <2>2, LoadGone DEF OwnInv
  <2>4. loads[i] \in Loading
    BY DEF PageType
  <2>5. messages' \in Seq(Rows(Ids))
    BY <2>1, <2>4 DEF Loading
  <2>6. messages' \in Seq(Rows(Ids \cup {None}))
    <3>1. \A row \in Rows(Ids) : row \in Rows(Ids \cup {None})
      BY DEF Rows
    <3>2. \A k \in 1..Len(messages') : messages'[k] \in Rows(Ids)
      BY <2>5
    <3>3. \A k \in 1..Len(messages') : messages'[k] \in Rows(Ids \cup {None})
      BY <3>1, <3>2
    <3>. QED
      BY <2>5, <3>3, MoreRows
  <2>. QED
    BY <1>4, <2>1, <2>3, <2>6 DEF Show, server, PageType
<1>5. CASE Altered
  <2>1. PICK r \in Pending :
          /\ requests[r].kind \in Unclaimed
          /\ requests' = [requests EXCEPT ![r].at = "over"]
          /\ \/ /\ messages' = SubSeq(messages, 1, Min({requests[r].index - 1, Len(messages)}))
                /\ UNCHANGED loads
             \/ /\ messages' = Placed(messages, requests[r].index, requests[r].row)
                /\ UNCHANGED loads
             \/ Load(open, FALSE) /\ UNCHANGED messages
    BY <1>5 DEF Altered
  <2>2. r \in DOMAIN requests /\ AboutRow(requests[r])
    BY <2>1 DEF Pending, PageType
  <2>3. /\ requests' \in Seq(Request) /\ Len(requests') = Len(requests)
        /\ \A s \in DOMAIN requests : requests'[s].kind = requests[s].kind
                                      /\ requests'[s].index = requests[s].index
                                      /\ requests'[s].row = requests[s].row
    BY <2>1, <2>2, SetRequest DEF Ats
  <2>4. /\ messages' \in Seq(Rows(Ids \cup {None})) /\ loads' \in Seq(Loading)
    <3>1. CASE /\ messages' = SubSeq(messages, 1, Min({requests[r].index - 1, Len(messages)}))
               /\ UNCHANGED loads
      <4>1. messages \in Seq(Rows(Ids \cup {None})) /\ Len(messages) \in Nat
        BY DEF PageType
      <4>2. Min({requests[r].index - 1, Len(messages)}) \in 0..Len(messages)
        BY <2>2, <4>1, MinOfTwo DEF AboutRow
      <4>. QED
        BY <3>1, <4>1, <4>2, FirstRows DEF PageType
    <3>2. CASE Load(open, FALSE) /\ UNCHANGED messages
      <4>1. open \in Convs
        BY DEF PageType
      <4>. QED
        BY <3>2, <4>1, LoadType DEF PageType
    <3>3. CASE /\ messages' = Placed(messages, requests[r].index, requests[r].row)
               /\ UNCHANGED loads
      <4>1. messages \in Seq(Rows(Ids \cup {None})) /\ loads \in Seq(Loading)
        BY DEF PageType
      <4>. QED
        BY <2>2, <3>3, <4>1, PlacedRows DEF AboutRow
    <3>. QED
      BY <2>1, <3>1, <3>2, <3>3
  <2>. USE DEF PageType
  <2>5. DOMAIN requests' = DOMAIN requests
    BY <2>3
  <2>6. \A s \in DOMAIN requests' :
          requests'[s].kind \in Unclaimed => AboutRow(requests'[s])
    BY <2>3, <2>5 DEF AboutRow
  <2>. QED
    BY <1>5, <2>3, <2>4, <2>6 DEF Altered, server
<1>6. CASE Take
  <2>1. PICK r \in Pending, at \in Ats :
          /\ Set(r, at) /\ received' = Append(received, r)
          /\ store' \in [Convs -> Seq(Rows(Ids))]
    BY <1>6, TakeRows
  <2>2. received' \in Seq(Nat)
    BY <2>1 DEF Pending, PageType
  <2>. QED
    BY <1>6, <2>1, <2>2, ServedType DEF Take
<1>7. CASE Finish
  <2>1. PICK r \in Pending, at \in Ats :
          /\ Set(r, at) /\ UNCHANGED received
          /\ store' \in [Convs -> Seq(Rows(Ids))]
    BY <1>7, FinishRows
  <2>2. received' \in Seq(Nat)
    BY <2>1 DEF PageType
  <2>. QED
    BY <1>7, <2>1, <2>2, ServedType DEF Finish
<1>8. CASE Read
  <2>1. PICK i \in DOMAIN loads : loads' = [loads EXCEPT ![i].rows = store[loads[i].conv]]
    BY <1>8 DEF Read
  <2>2. loads[i] \in Loading
    BY DEF PageType
  <2>3. [loads[i] EXCEPT !.rows = store[loads[i].conv]] \in Loading
    BY <2>2 DEF PageType, Loading
  <2>. DEFINE l == [loads[i] EXCEPT !.rows = store[loads[i].conv]]
  <2>4. loads' = [loads EXCEPT ![i] = l]
    BY <2>1
  <2>5. loads' \in Seq(Loading)
    BY <2>3, <2>4 DEF PageType
  <2>. QED
    BY <1>8, <2>5 DEF Read, server, PageType
<1>. QED
  BY <1>1, <1>2, <1>3, <1>4, <1>5, <1>6, <1>7, <1>8 DEF Progress
-----------------------------------------------------------------------------
(* One stream at a time. *)

LEMMA StreamBegins ==
    ASSUME PageType, StreamInv, phase # "stream", NEW kind \in Kinds \ Unclaimed,
           NEW turn \in Nat \cup {None}, NEW index \in Nat \cup {None},
           NEW row \in Rows(Ids \cup {None}) \cup {None},
           RunStream(kind, turn, index, row)
    PROVE  StreamInv'
<1>. DEFINE n == Len(requests) + 1
<1>1. Post(kind, turn, index, row) /\ phase' = "stream" /\ current' = n
  BY DEF RunStream
<1>2. /\ Len(requests') = n
      /\ \A r \in DOMAIN requests : requests'[r] = requests[r]
      /\ requests'[n].kind = kind /\ requests'[n].at = "sent" /\ ~requests'[n].broken
  BY <1>1, PostType
<1>3. Len(requests) \in Nat /\ DOMAIN requests = 1..Len(requests)
      /\ DOMAIN requests' = 1..n
  BY <1>2 DEF PageType
<1>4. ASSUME NEW r \in DOMAIN requests', requests'[r].at # "over"
      PROVE  requests'[r].broken \/ requests'[r].kind \in Unclaimed \/ r = n
  <2>1. r = n \/ r \in DOMAIN requests
    BY <1>3
  <2>2. CASE r \in DOMAIN requests
    BY <1>2, <1>4, <2>2 DEF StreamInv, Pending
  <2>. QED
    BY <2>1, <2>2
<1>. HIDE DEF n
<1>5. n \in DOMAIN requests'
  BY <1>3 DEF n
<1>. QED
  BY <1>1, <1>2, <1>4, <1>5 DEF StreamInv, Pending

\* The server moves a request on, or an unclaimed one is answered.
LEMMA StreamGoesOn ==
    ASSUME PageType, StreamInv, NEW r \in Pending, NEW at \in Ats, Set(r, at),
           at = "over" => requests[r].broken \/ requests[r].kind \in Unclaimed,
           UNCHANGED <<phase, current>>
    PROVE  StreamInv'
<1>1. r \in DOMAIN requests
  BY DEF Pending
<1>2. /\ requests' \in Seq(Request) /\ Len(requests') = Len(requests)
      /\ \A s \in DOMAIN requests :
           /\ s # r => requests'[s] = requests[s]
           /\ requests'[s].kind = requests[s].kind
      /\ requests'[r].at = at /\ requests'[r].broken = requests[r].broken
  BY <1>1, SetRequest DEF Set
<1>3. DOMAIN requests' = DOMAIN requests
  BY <1>2 DEF PageType
<1>4. ASSUME phase = "stream"
      PROVE  /\ current \in DOMAIN requests /\ requests'[current].at # "over"
             /\ ~requests'[current].broken /\ requests'[current].kind \notin Unclaimed
             /\ current = Len(requests)
  <2>1. CASE current = r
    BY <1>2, <1>4, <2>1 DEF StreamInv, Pending
  <2>2. CASE current # r
    BY <1>2, <1>4, <2>2 DEF StreamInv, Pending
  <2>. QED
    BY <2>1, <2>2
<1>5. ASSUME NEW s \in DOMAIN requests, requests'[s].at # "over"
      PROVE  requests'[s].broken \/ requests'[s].kind \in Unclaimed
             \/ (phase = "stream" /\ s = current)
  <2>1. s \in Pending
    BY <1>2, <1>5 DEF Pending
  <2>2. requests[s].broken \/ requests[s].kind \in Unclaimed \/ (phase = "stream" /\ s = current)
    BY <2>1 DEF StreamInv
  <2>. QED
    BY <1>2, <2>2
<1>. QED
  BY <1>2, <1>3, <1>4, <1>5 DEF StreamInv, Pending

\* The page leaves its stream: it has ended, or is broken off.
LEMMA StreamLeft ==
    ASSUME PageType, StreamInv, phase = "stream", phase' # "stream",
           Len(requests') = Len(requests),
           requests'[current].at = "over" \/ requests'[current].broken,
           \A s \in DOMAIN requests :
               /\ s # current => requests'[s] = requests[s]
               /\ requests'[s].kind = requests[s].kind,
           requests' \in Seq(Request)
    PROVE  StreamInv'
<1>1. DOMAIN requests' = DOMAIN requests
  BY DEF PageType
<1>2. ASSUME NEW s \in DOMAIN requests, requests'[s].at # "over"
      PROVE  requests'[s].broken \/ requests'[s].kind \in Unclaimed
  BY <1>2 DEF StreamInv, Pending
<1>. QED
  BY <1>1, <1>2 DEF StreamInv, Pending

LEMMA StreamStep ==
    ASSUME PageType, Named, StreamInv, OwnInv, QueueInv, Next
    PROVE  StreamInv'
<1>1. CASE Send
  <2>1. CASE UNCHANGED <<phase, current, requests>>
    BY <2>1 DEF StreamInv, Pending
  <2>2. CASE ~streaming /\ Deliver(Len(typed'))
    <3>1. Len(typed') \in Nat
      BY <1>1 DEF Send, PageType
    <3>2. RunStream("send", Len(typed'), None, None) /\ phase # "stream"
      BY <2>2 DEF Deliver, PageType
    <3>. QED
      BY <3>1, <3>2, StreamBegins DEF Kinds, Unclaimed
  <2>. QED
    BY <1>1, <2>1, <2>2 DEF Send
<1>2. CASE CancelQueued \/ Navigate \/ Delta \/ Read
  BY <1>2 DEF CancelQueued, Navigate, Delta, Read, StreamInv, Pending
<1>3. CASE Redo \/ Continue
  <2>1. PICK i \in DOMAIN messages, kind \in Kinds \ Unclaimed :
          RunStream(kind, None, i, messages[i]) /\ ~streaming
    <3>1. CASE Redo
      BY <3>1 DEF Redo, Control, Kinds, Unclaimed
    <3>2. CASE Continue
      BY <3>2 DEF Continue, Control, Kinds, Unclaimed
    <3>. QED
      BY <1>3, <3>1, <3>2
  <2>2. i \in Nat /\ messages[i] \in Rows(Ids \cup {None}) /\ phase # "stream"
    BY <2>1 DEF PageType
  <2>. QED
    BY <2>1, <2>2, StreamBegins
<1>4. CASE Alter
  <2>1. PICK i \in DOMAIN messages, kind \in Unclaimed :
          Post(kind, None, i, messages[i]) /\ ~streaming
    BY <1>4 DEF Alter, Control
  <2>2. i \in Nat \ {0} /\ messages[i] \in Rows(Ids \cup {None}) /\ kind \in Kinds
        /\ phase # "stream" /\ phase' # "stream"
    BY <1>4, <2>1 DEF PageType, Unclaimed, Kinds, Alter
  <2>3. /\ Len(requests') = Len(requests) + 1
        /\ \A r \in DOMAIN requests : requests'[r] = requests[r]
        /\ requests'[Len(requests) + 1].kind = kind /\ requests' \in Seq(Request)
    BY <2>1, <2>2, PostType
  <2>4. ASSUME NEW r \in DOMAIN requests', requests'[r].at # "over"
        PROVE  requests'[r].broken \/ requests'[r].kind \in Unclaimed
    <3>1. r \in DOMAIN requests \/ r = Len(requests) + 1
      BY <2>3 DEF PageType
    <3>. QED
      BY <2>2, <2>3, <2>4, <3>1 DEF StreamInv, Pending
  <2>. QED
    BY <2>2, <2>4 DEF StreamInv, Pending
<1>5. CASE Stop \/ Break \/ EndsShort
  <2>1. CASE phase = "stream" /\ phase' # "stream" /\ Abandon
    <3>. DEFINE at == IF requests[current].at \in {"sent", "working"}
                      THEN requests[current].at ELSE "over"
    <3>1. current \in DOMAIN requests /\ at \in Ats
          /\ requests' = [requests EXCEPT ![current] = [@ EXCEPT !.broken = TRUE, !.at = at]]
      BY <2>1, AbandonType
    <3>. HIDE DEF at
    <3>2. /\ requests' \in Seq(Request) /\ Len(requests') = Len(requests)
          /\ \A s \in DOMAIN requests :
               /\ s # current => requests'[s] = requests[s]
               /\ requests'[s].kind = requests[s].kind
          /\ requests'[current].broken
      BY <3>1, MovedRequest
    <3>. QED
      BY <2>1, <3>2, StreamLeft
  <2>2. CASE UNCHANGED <<phase, current, requests>>
    BY <2>2 DEF StreamInv, Pending
  <2>. QED
    BY <1>5, <2>1, <2>2 DEF Stop, Break, EndsShort, Fail
<1>6. CASE StreamEnds \/ Refused
  <2>1. phase = "stream" /\ phase' # "stream" /\ requests' = [requests EXCEPT ![current].at = "over"]
    BY <1>6 DEF StreamEnds, Refused, Fail
  <2>2. current \in DOMAIN requests
    BY <2>1 DEF StreamInv, Pending
  <2>3. /\ requests' \in Seq(Request) /\ Len(requests') = Len(requests)
        /\ \A s \in DOMAIN requests :
             /\ s # current => requests'[s] = requests[s]
             /\ requests'[s].kind = requests[s].kind
        /\ requests'[current].at = "over"
    BY <2>1, <2>2, SetRequest DEF Ats
  <2>. QED
    BY <2>1, <2>3, StreamLeft
<1>7. CASE Settle
  <2>1. CASE phase' = "idle" /\ UNCHANGED <<current, requests>>
    BY <1>7, <2>1 DEF Settle, StreamInv, Pending
  <2>2. CASE queued # <<>> /\ Deliver(Head(queued))
    <3>1. Head(queued) \in Nat
      BY <2>2 DEF PageType
    <3>2. RunStream("send", Head(queued), None, None) /\ phase # "stream"
      BY <1>7, <2>2 DEF Deliver, Settle
    <3>. QED
      BY <3>1, <3>2, StreamBegins DEF Kinds, Unclaimed
  <2>. QED
    BY <1>7, <2>1, <2>2 DEF Settle
<1>8. CASE Show \/ LoadFails
  <2>1. PICK i \in DOMAIN loads : phase' = IF loads[i].own THEN "followups" ELSE phase
    BY <1>8 DEF Show, LoadFails
  <2>2. UNCHANGED <<current, requests>>
    BY <1>8 DEF Show, LoadFails
  <2>3. phase' = "stream" <=> phase = "stream"
    BY <2>1 DEF OwnInv
  <2>. QED
    BY <2>2, <2>3 DEF StreamInv, Pending
<1>9. CASE Altered \/ Fails \/ Lose
  <2>1. PICK r \in Pending, at \in Ats :
          Set(r, at) /\ (requests[r].kind \in Unclaimed \/ requests[r].broken)
    BY <1>9 DEF Altered, Fails, Lose, Altering, Set, Ats
  <2>2. UNCHANGED <<phase, current>>
    BY <1>9 DEF Altered, Fails, Lose
  <2>. QED
    BY <2>1, <2>2, StreamGoesOn
<1>10. CASE Take
  <2>1. PICK r \in Pending, at \in Ats :
          Set(r, at) /\ (at = "over" => requests[r].broken \/ requests[r].kind \in Unclaimed)
    BY <1>10, TakeRows DEF Unclaimed
  <2>. QED
    BY <1>10, <2>1, StreamGoesOn DEF Take
<1>11. CASE Finish
  <2>1. PICK r \in Pending, at \in Ats : Set(r, at) /\ (at = "over" => requests[r].broken)
    BY <1>11, FinishRows
  <2>. QED
    BY <1>11, <2>1, StreamGoesOn DEF Finish
<1>. QED
  BY <1>1, <1>2, <1>3, <1>4, <1>5, <1>6, <1>7, <1>8, <1>9, <1>10, <1>11
     DEF Next, User, Network, Progress

LEMMA OwnStep ==
    ASSUME PageType, OwnInv, Next
    PROVE  OwnInv'
<1>1. CASE UNCHANGED loads /\ (phase' = phase \/ phase # "load")
  BY <1>1 DEF OwnInv
<1>2. CASE Navigate \/ Altered \/ StreamEnds \/ EndsShort
  <2>1. CASE UNCHANGED loads
    BY <1>1, <1>2, <2>1 DEF Navigate, Altered, StreamEnds, EndsShort
  <2>2. CASE loads' # loads
    <3>1. PICK c \in Convs, own \in BOOLEAN :
            /\ Load(c, own)
            /\ own => phase = "stream" /\ phase' = "load"
            /\ ~own => phase' = phase
      <4>1. open \in Convs
        BY DEF PageType
      <4>. QED
        BY <1>2, <2>2, <4>1 DEF Navigate, Altered, StreamEnds, EndsShort
    <3>2. /\ Len(loads') = Len(loads) + 1
          /\ \A i \in DOMAIN loads : loads'[i] = loads[i]
          /\ loads' \in Seq(Loading)
          /\ loads'[Len(loads) + 1] = [conv |-> c, rows |-> None, own |-> own]
      BY <3>1, LoadType
    <3>4. loads'[Len(loads) + 1].own = own
      BY <3>2
    <3>3. \A i \in DOMAIN loads' : i \in DOMAIN loads \/ i = Len(loads) + 1
      BY <3>2 DEF PageType
    <3>. QED
      BY <3>1, <3>2, <3>3, <3>4 DEF OwnInv
  <2>. QED
    BY <2>1, <2>2
<1>3. CASE Show \/ LoadFails
  <2>1. PICK i \in DOMAIN loads :
          /\ loads' = RemoveAt(loads, i)
          /\ phase' = IF loads[i].own THEN "followups" ELSE phase
    BY <1>3 DEF Show, LoadFails
  <2>2. loads \in Seq(Loading) /\ Len(loads) \in Nat
    BY DEF PageType
  <2>3. /\ Len(loads') = Len(loads) - 1
        /\ \A j \in 1..Len(loads) - 1 :
             loads'[j] = IF j < i THEN loads[j] ELSE loads[j + 1]
    BY <2>1, <2>2, RemoveAtElements
  <2>4. ASSUME NEW j \in DOMAIN loads', loads'[j].own
        PROVE  \E k \in DOMAIN loads : k # i /\ loads[k].own
                 /\ k = IF j < i THEN j ELSE j + 1
    <3>1. j \in 1..Len(loads) - 1
      BY <2>1, <2>2, <2>3, RemoveAtElements
    <3>. QED
      BY <2>2, <2>3, <2>4, <3>1
  <2>5. CASE loads[i].own
    BY <2>4, <2>5 DEF OwnInv
  <2>6. CASE ~loads[i].own
    <3>1. \A j \in DOMAIN loads' : loads'[j].own => phase' = "load"
      BY <2>1, <2>4, <2>6 DEF OwnInv
    <3>2. ASSUME NEW j \in DOMAIN loads', NEW k \in DOMAIN loads', loads'[j].own, loads'[k].own
          PROVE  j = k
      <4>1. j \in Int /\ k \in Int
        BY <2>1, <2>2, RemoveAtElements
      <4>2. (IF j < i THEN j ELSE j + 1) = (IF k < i THEN k ELSE k + 1)
        BY <2>4, <3>2 DEF OwnInv
      <4>. QED
        BY <2>2, <4>1, <4>2
    <3>. QED
      BY <3>1, <3>2 DEF OwnInv
  <2>. QED
    BY <2>5, <2>6
<1>4. CASE Read
  <2>1. PICK i \in DOMAIN loads : loads' = [loads EXCEPT ![i].rows = store[loads[i].conv]]
    BY <1>4 DEF Read
  <2>2. \A j \in DOMAIN loads : loads[j] \in Loading
    BY DEF PageType
  <2>3. DOMAIN loads' = DOMAIN loads /\ \A j \in DOMAIN loads : loads'[j].own = loads[j].own
    BY <2>1, <2>2 DEF Loading
  <2>. QED
    BY <1>4, <2>3 DEF Read, OwnInv
<1>5. CASE Send \/ Redo \/ Continue
  <2>1. UNCHANGED loads /\ (streaming => phase' = phase)
    BY <1>5 DEF Send, Redo, Continue, Control
  <2>. QED
    BY <1>1, <2>1 DEF PageType
<1>6. CASE CancelQueued \/ Alter \/ Stop
  BY <1>1, <1>6 DEF CancelQueued, Alter, Stop
<1>7. CASE Delta \/ Break \/ Fails \/ Lose
  BY <1>1, <1>7 DEF Delta, Break, Fails, Lose
<1>8. CASE Refused \/ Settle \/ Take \/ Finish
  BY <1>1, <1>8 DEF Refused, Settle, Take, Finish
<1>. QED
  BY <1>2, <1>3, <1>4, <1>5, <1>6, <1>7, <1>8 DEF Next, User, Network, Progress
-----------------------------------------------------------------------------
(* What becomes of a request. *)

\* What it is stays; it is not sent again, nor mended.
Advances ==
    /\ requests' \in Seq(Request) /\ Len(requests') >= Len(requests)
    /\ \A r \in DOMAIN requests :
         /\ requests'[r].conv = requests[r].conv /\ requests'[r].kind = requests[r].kind
         /\ requests'[r].turn = requests[r].turn
         /\ requests[r].broken => requests'[r].broken
         /\ requests[r].at # "sent" => requests'[r].at # "sent"
         /\ requests[r].at \notin {"sent", "working"} => requests'[r].at \notin {"sent", "working"}

\* No turn is sent.
NoTurnSent ==
    \A r \in DOMAIN requests' : r \in DOMAIN requests \/ requests'[r].kind # "send"

LEMMA UnchangedAdvances ==
    ASSUME PageType, UNCHANGED requests
    PROVE  Advances /\ NoTurnSent
  BY DEF PageType, Advances, NoTurnSent

LEMMA SetAdvances ==
    ASSUME PageType, NEW r \in Pending, NEW at \in Ats \ {"sent"}, Set(r, at),
           at = "working" => requests[r].at = "sent"
    PROVE  Advances /\ NoTurnSent
<1>1. r \in DOMAIN requests
  BY DEF Pending
<1>2. /\ requests' \in Seq(Request) /\ Len(requests') = Len(requests)
      /\ \A s \in DOMAIN requests :
           /\ s # r => requests'[s] = requests[s]
           /\ requests'[s].conv = requests[s].conv /\ requests'[s].kind = requests[s].kind
           /\ requests'[s].turn = requests[s].turn
      /\ requests'[r].at = at /\ requests'[r].broken = requests[r].broken
  BY <1>1, SetRequest DEF Set
<1>3. DOMAIN requests' = DOMAIN requests /\ Len(requests) \in Nat
  BY <1>2 DEF PageType
<1>. QED
  BY <1>2, <1>3 DEF Advances, NoTurnSent

LEMMA AbandonAdvances ==
    ASSUME PageType, StreamInv, phase = "stream", Abandon
    PROVE  Advances /\ NoTurnSent
<1>. DEFINE at == IF requests[current].at \in {"sent", "working"}
                  THEN requests[current].at ELSE "over"
<1>1. current \in DOMAIN requests /\ at \in Ats
      /\ requests' = [requests EXCEPT ![current] = [@ EXCEPT !.broken = TRUE, !.at = at]]
  BY AbandonType
<1>2. /\ requests[current].at # "sent" => at # "sent"
      /\ requests[current].at \notin {"sent", "working"} => at \notin {"sent", "working"}
  OBVIOUS
<1>. HIDE DEF at
<1>3. /\ requests' \in Seq(Request) /\ Len(requests') = Len(requests)
      /\ \A s \in DOMAIN requests :
           /\ s # current => requests'[s] = requests[s]
           /\ requests'[s].conv = requests[s].conv /\ requests'[s].kind = requests[s].kind
           /\ requests'[s].turn = requests[s].turn
      /\ requests'[current].broken /\ requests'[current].at = at
  BY <1>1, MovedRequest
<1>4. DOMAIN requests' = DOMAIN requests /\ Len(requests) \in Nat
  BY <1>3 DEF PageType
<1>. QED
  BY <1>2, <1>3, <1>4 DEF Advances, NoTurnSent

LEMMA PostAdvances ==
    ASSUME PageType, NEW kind \in Kinds, NEW turn \in Nat \cup {None},
           NEW index \in Nat \cup {None}, NEW row \in Rows(Ids \cup {None}) \cup {None},
           Post(kind, turn, index, row),
           kind \in Unclaimed => index \in Nat \ {0} /\ row \in Rows(Ids \cup {None})
    PROVE  Advances /\ (kind # "send" => NoTurnSent)
<1>1. /\ requests' \in Seq(Request) /\ Len(requests') = Len(requests) + 1
      /\ \A r \in DOMAIN requests : requests'[r] = requests[r]
      /\ requests'[Len(requests) + 1].kind = kind
  BY PostType
<1>2. \A r \in DOMAIN requests' : r \in DOMAIN requests \/ r = Len(requests) + 1
  BY <1>1 DEF PageType
<1>3. Advances
  BY <1>1 DEF PageType, Advances
<1>. QED
  BY <1>1, <1>2, <1>3 DEF NoTurnSent

\* Turns are sent by send and by drainQueue.
SendsTurn ==
    \/ Send /\ ~streaming /\ Deliver(Len(typed')) /\ UNCHANGED queued
    \/ Settle /\ queued # <<>> /\ queued' = Tail(queued) /\ Deliver(Head(queued))

LEMMA RequestsAdvance ==
    ASSUME PageType, Named, StreamInv, Next
    PROVE  Advances /\ (NoTurnSent \/ SendsTurn)
<1>1. CASE Send
  <2>1. CASE UNCHANGED requests
    BY <2>1, UnchangedAdvances
  <2>2. CASE ~streaming /\ Deliver(Len(typed')) /\ UNCHANGED queued
    <3>1. Len(typed') \in Nat
      BY <1>1 DEF Send, PageType
    <3>2. Post("send", Len(typed'), None, None)
      BY <2>2 DEF Deliver, RunStream
    <3>3. Advances
      BY <3>1, <3>2, PostAdvances DEF Kinds, Unclaimed
    <3>. QED
      BY <1>1, <2>2, <3>3 DEF SendsTurn
  <2>. QED
    BY <1>1, <2>1, <2>2 DEF Send
<1>2. CASE Settle
  <2>1. CASE UNCHANGED requests
    BY <2>1, UnchangedAdvances
  <2>2. CASE queued # <<>> /\ queued' = Tail(queued) /\ Deliver(Head(queued))
    <3>1. Head(queued) \in Nat
      BY <2>2 DEF PageType
    <3>2. Post("send", Head(queued), None, None)
      BY <2>2 DEF Deliver, RunStream
    <3>3. Advances
      BY <3>1, <3>2, PostAdvances DEF Kinds, Unclaimed
    <3>. QED
      BY <1>2, <2>2, <3>3 DEF SendsTurn
  <2>. QED
    BY <1>2, <2>1, <2>2 DEF Settle
<1>3. CASE Redo \/ Continue \/ Alter
  <2>1. PICK i \in DOMAIN messages, kind \in Kinds \ {"send"} : Post(kind, None, i, messages[i])
    <3>1. CASE Redo
      BY <3>1 DEF Redo, RunStream, Kinds
    <3>2. CASE Continue
      BY <3>2 DEF Continue, Control, RunStream, Kinds
    <3>3. CASE Alter
      BY <3>3 DEF Alter, Kinds, Unclaimed
    <3>. QED
      BY <1>3, <3>1, <3>2, <3>3
  <2>2. i \in Nat \ {0} /\ messages[i] \in Rows(Ids \cup {None})
    BY DEF PageType
  <2>. QED
    BY <2>1, <2>2, PostAdvances
<1>4. CASE CancelQueued \/ Navigate \/ Delta \/ LoadFails \/ Show \/ Read
  <2>1. UNCHANGED requests
    BY <1>4 DEF CancelQueued, Navigate, Delta, LoadFails, Show, Read
  <2>. QED
    BY <2>1, UnchangedAdvances
<1>5. CASE Stop \/ Break \/ EndsShort
  <2>1. UNCHANGED requests \/ (phase = "stream" /\ Abandon)
    BY <1>5 DEF Stop, Break, EndsShort
  <2>. QED
    BY <2>1, UnchangedAdvances, AbandonAdvances
<1>6. CASE StreamEnds \/ Refused
  <2>1. current \in Pending /\ Set(current, "over")
    BY <1>6 DEF StreamEnds, Refused, StreamInv, Set
  <2>. QED
    BY <2>1, SetAdvances DEF Ats
<1>7. CASE Altered \/ Fails \/ Lose
  <2>1. PICK r \in Pending, at \in Ats \ {"sent", "working"} : Set(r, at)
    BY <1>7 DEF Altered, Fails, Lose, Altering, Set, Ats
  <2>. QED
    BY <2>1, SetAdvances
<1>8. CASE Take
  <2>1. PICK r \in Pending, at \in Ats : Set(r, at) /\ at # "sent" /\ requests[r].at = "sent"
    BY <1>8, TakeRows
  <2>. QED
    BY <2>1, SetAdvances
<1>9. CASE Finish
  <2>1. PICK r \in Pending, at \in Ats : Set(r, at) /\ at \in {"answered", "over"}
    BY <1>9, FinishRows
  <2>. QED
    BY <2>1, SetAdvances
<1>. QED
  BY <1>1, <1>2, <1>3, <1>4, <1>5, <1>6, <1>7, <1>8, <1>9 DEF Next, User, Network, Progress

-----------------------------------------------------------------------------
(* Turns in their order. *)

\* The queue stays, or loses a turn, or all.
QueueShrinks ==
    /\ UNCHANGED typed
    /\ \/ queued' = <<>>
       \/ UNCHANGED <<queued, open, streaming>>
       \/ UNCHANGED <<open, streaming>> /\ \E i \in DOMAIN queued : queued' = RemoveAt(queued, i)

LEMMA QueueKept ==
    ASSUME PageType, QueueInv, Advances, NoTurnSent, QueueShrinks
    PROVE  QueueInv'
<1>1. \A r \in DOMAIN requests' : requests'[r].kind = "send" =>
        /\ r \in DOMAIN requests /\ requests[r].kind = "send"
        /\ requests'[r].conv = requests[r].conv /\ requests'[r].turn = requests[r].turn
  BY DEF Advances, NoTurnSent
<1>2. CASE queued' = <<>>
  BY <1>1, <1>2 DEF QueueInv, QueueShrinks
<1>3. CASE UNCHANGED <<queued, open, streaming>>
  BY <1>1, <1>3 DEF QueueInv, QueueShrinks
<1>4. ASSUME UNCHANGED <<open, streaming>>, NEW i \in DOMAIN queued, queued' = RemoveAt(queued, i)
      PROVE  QueueInv'
  <2>1. queued \in Seq(Nat) /\ Len(queued) \in Nat /\ DOMAIN queued = 1..Len(queued)
    BY DEF PageType
  <2>a. /\ queued' \in Seq(Nat) /\ Len(queued') = Len(queued) - 1
        /\ \A j \in 1..Len(queued) - 1 :
             queued'[j] = IF j < i THEN queued[j] ELSE queued[j + 1]
    BY <1>4, <2>1, RemoveAtElements
  <2>2. /\ DOMAIN queued' = 1..Len(queued) - 1
        /\ \A j \in 1..Len(queued) - 1 :
             queued'[j] = IF j < i THEN queued[j] ELSE queued[j + 1]
    BY <2>1, <2>a
  <2>. DEFINE f(j) == IF j < i THEN j ELSE j + 1
  <2>3. \A j \in DOMAIN queued' : f(j) \in DOMAIN queued /\ queued'[j] = queued[f(j)]
    BY <2>1, <2>2
  <2>4. \A j, k \in DOMAIN queued' : j < k => f(j) < f(k)
    BY <2>1, <2>2
  <2>5. queued # <<>>
    BY <2>1
  <2>6. UNCHANGED typed
    BY DEF QueueShrinks
  <2>. HIDE DEF f
  <2>. QED
    BY <1>1, <1>4, <2>3, <2>4, <2>5, <2>6 DEF QueueInv
<1>. QED
  BY <1>2, <1>3, <1>4 DEF QueueShrinks

\* A turn is sent, that was typed here after those that were sent and before those that
\* wait.
LEMMA QueueSends ==
    ASSUME PageType, QueueInv, NEW t \in Nat, Post("send", t, None, None), streaming',
           UNCHANGED open, queued' \in Seq(Nat),
           typed' \in Seq(Convs), t \in DOMAIN typed', typed'[t] = open,
           \A u \in DOMAIN typed : u \in DOMAIN typed' /\ typed'[u] = typed[u],
           \A r \in DOMAIN requests : requests[r].kind = "send" => requests[r].turn < t,
           \A i \in DOMAIN queued' :
               t < queued'[i] /\ i + 1 \in DOMAIN queued /\ queued'[i] = queued[i + 1]
    PROVE  QueueInv'
<1>. DEFINE n == Len(requests) + 1
<1>1. /\ Len(requests') = n
      /\ \A r \in DOMAIN requests : requests'[r] = requests[r]
      /\ requests'[n].kind = "send" /\ requests'[n].turn = t /\ requests'[n].conv = open
      /\ requests' \in Seq(Request)
  BY PostType DEF Kinds, Unclaimed
<1>2. /\ DOMAIN requests' = 1..n /\ n \in Nat /\ DOMAIN requests = 1..n - 1
      /\ DOMAIN queued \subseteq Nat
  <2>1. requests \in Seq(Request) /\ queued \in Seq(Nat)
    BY DEF PageType
  <2>2. DOMAIN requests = 1..Len(requests) /\ Len(requests) \in Nat
    BY <2>1
  <2>. QED
    BY <1>1, <2>1, <2>2
<1>. HIDE DEF n
<1>3. ASSUME NEW i \in DOMAIN queued'
      PROVE  /\ queued'[i] \in DOMAIN typed' /\ typed'[queued'[i]] = open
             /\ \A j \in DOMAIN queued' : i < j => queued'[i] < queued'[j]
  <2>1. i + 1 \in DOMAIN queued /\ queued'[i] = queued[i + 1]
    OBVIOUS
  <2>2. i \in Nat /\ DOMAIN queued' \subseteq Nat
    OBVIOUS
  <2>3. queued[i + 1] \in DOMAIN typed /\ typed[queued[i + 1]] = open
    BY <2>1 DEF QueueInv
  <2>4. ASSUME NEW j \in DOMAIN queued', i < j
        PROVE  queued'[i] < queued'[j]
    <3>1. j + 1 \in DOMAIN queued /\ queued'[j] = queued[j + 1] /\ i + 1 < j + 1
      BY <2>2, <2>4
    <3>. QED
      BY <2>1, <3>1 DEF QueueInv
  <2>. QED
    BY <2>1, <2>3, <2>4
<1>4. ASSUME NEW r \in DOMAIN requests', requests'[r].kind = "send"
      PROVE  /\ requests'[r].turn \in DOMAIN typed'
             /\ typed'[requests'[r].turn] = requests'[r].conv
             /\ \A i \in DOMAIN queued' : requests'[r].turn < queued'[i]
             /\ \A s \in DOMAIN requests' :
                  r < s /\ requests'[s].kind = "send" => requests'[r].turn < requests'[s].turn
  <2>1. CASE r = n
    BY <1>1, <1>2, <2>1
  <2>2. CASE r \in DOMAIN requests
    <3>1. /\ requests[r].kind = "send" /\ requests[r].turn \in DOMAIN typed
          /\ typed[requests[r].turn] = requests[r].conv
          /\ \A i \in DOMAIN queued : requests[r].turn < queued[i]
          /\ \A s \in DOMAIN requests :
               r < s /\ requests[s].kind = "send" => requests[r].turn < requests[s].turn
      BY <1>1, <1>4, <2>2 DEF QueueInv
    <3>2. \A s \in DOMAIN requests' : s = n \/ s \in DOMAIN requests
      BY <1>2
    <3>. QED
      BY <1>1, <2>2, <3>1, <3>2
  <2>. QED
    BY <1>2, <2>1, <2>2
<1>. QED
  BY <1>3, <1>4 DEF QueueInv
LEMMA QueueStep ==
    ASSUME PageType, Named, StreamInv, QueueInv, Next
    PROVE  QueueInv'
<1>0. Advances /\ (NoTurnSent \/ SendsTurn)
  BY RequestsAdvance
<1>. DEFINE n == Len(typed)
<1>a. n \in Nat /\ DOMAIN typed = 1..n /\ open \in Convs /\ typed \in Seq(Convs)
      /\ queued \in Seq(Nat)
  BY DEF PageType
<1>b. /\ \A r \in DOMAIN requests : requests[r].kind = "send" => requests[r].turn \in 1..n
      /\ \A i \in DOMAIN queued : queued[i] \in 1..n
  BY <1>a DEF QueueInv
<1>1. CASE Send
  <2>1. typed' = Append(typed, open) /\ UNCHANGED open
    BY <1>1 DEF Send
  <2>2. /\ typed' \in Seq(Convs) /\ Len(typed') = n + 1 /\ DOMAIN typed' = 1..n + 1
        /\ typed'[n + 1] = open /\ \A u \in DOMAIN typed : typed'[u] = typed[u]
    BY <1>a, <2>1
  <2>3. CASE streaming /\ queued' = Append(queued, n + 1) /\ UNCHANGED <<streaming, requests>>
    <3>1. /\ Len(queued') = Len(queued) + 1 /\ queued' \in Seq(Nat) /\ Len(queued) \in Nat
          /\ \A i \in DOMAIN queued : queued'[i] = queued[i]
          /\ queued'[Len(queued) + 1] = n + 1
      BY <1>a, <2>3
    <3>2. \A i \in DOMAIN queued' : i \in DOMAIN queued \/ i = Len(queued) + 1
      BY <3>1
    <3>. HIDE DEF n
    <3>3. ASSUME NEW i \in DOMAIN queued'
          PROVE  /\ queued'[i] \in DOMAIN typed' /\ typed'[queued'[i]] = open
                 /\ \A j \in DOMAIN queued' : i < j => queued'[i] < queued'[j]
      <4>1. queued'[i] \in DOMAIN typed' /\ typed'[queued'[i]] = open
        <5>1. CASE i \in DOMAIN queued
          <6>1. queued'[i] = queued[i]
            BY <3>1, <5>1
          <6>2. queued[i] \in 1..n /\ queued[i] \in DOMAIN typed
            BY <1>a, <1>b, <5>1
          <6>3. typed[queued[i]] = open
            BY <5>1 DEF QueueInv
          <6>. QED
            BY <1>a, <2>2, <6>1, <6>2, <6>3
        <5>2. CASE i = Len(queued) + 1
          BY <1>a, <2>2, <3>1, <5>2
        <5>. QED
          BY <3>2, <5>1, <5>2
      <4>2. ASSUME NEW j \in DOMAIN queued', i < j
            PROVE  queued'[i] < queued'[j]
        <5>1. i \in DOMAIN queued
          BY <3>1, <4>2
        <5>2. CASE j \in DOMAIN queued
          BY <3>1, <4>2, <5>1, <5>2 DEF QueueInv
        <5>3. CASE j = Len(queued) + 1
          BY <1>a, <1>b, <3>1, <5>1, <5>3
        <5>. QED
          BY <3>2, <5>2, <5>3
      <4>. QED
        BY <4>1, <4>2
    <3>4. ASSUME NEW r \in DOMAIN requests, requests[r].kind = "send"
          PROVE  /\ requests[r].turn \in DOMAIN typed'
                 /\ typed'[requests[r].turn] = requests[r].conv
                 /\ \A i \in DOMAIN queued' : requests[r].turn < queued'[i]
                 /\ \A s \in DOMAIN requests :
                      r < s /\ requests[s].kind = "send" => requests[r].turn < requests[s].turn
      <4>1. requests[r].turn \in 1..n /\ typed[requests[r].turn] = requests[r].conv
        BY <1>b, <3>4 DEF QueueInv
      <4>2. requests[r].turn \in DOMAIN typed' /\ typed'[requests[r].turn] = requests[r].conv
        BY <1>a, <2>2, <4>1
      <4>3. \A i \in DOMAIN queued' : requests[r].turn < queued'[i]
        <5>1. \A i \in DOMAIN queued : requests[r].turn < queued[i]
          BY <3>4 DEF QueueInv
        <5>2. requests[r].turn < n + 1
          BY <1>a, <4>1 DEF n
        <5>. QED
          BY <3>1, <3>2, <5>1, <5>2
      <4>. QED
        BY <3>4, <4>2, <4>3 DEF QueueInv
    <3>. QED
      BY <1>1, <2>1, <2>3, <3>3, <3>4 DEF QueueInv
  <2>4. CASE ~streaming /\ Deliver(n + 1) /\ UNCHANGED queued
    <3>1. queued = <<>> /\ queued' = <<>>
      BY <2>4 DEF QueueInv
    <3>2. Post("send", n + 1, None, None) /\ streaming'
      BY <2>4 DEF Deliver, RunStream
    <3>3. \A r \in DOMAIN requests : requests[r].kind = "send" => requests[r].turn < n + 1
      BY <1>a, <1>b
    <3>4. n + 1 \in Nat /\ n + 1 \in DOMAIN typed' /\ typed'[n + 1] = open
          /\ \A u \in DOMAIN typed : u \in DOMAIN typed' /\ typed'[u] = typed[u]
      BY <1>a, <2>2
    <3>5. queued' \in Seq(Nat) /\ DOMAIN queued' = {}
      BY <3>1
    <3>. HIDE DEF n
    <3>. QED
      BY <2>1, <2>2, <3>2, <3>3, <3>4, <3>5, QueueSends
  <2>. QED
    BY <1>1, <2>2, <2>3, <2>4 DEF Send
<1>2. CASE Settle
  <2>0. UNCHANGED <<open, typed>>
    BY <1>2 DEF Settle
  <2>1. CASE queued = <<>> /\ UNCHANGED <<queued, requests>>
    BY <2>0, <2>1 DEF QueueInv
  <2>2. CASE queued # <<>> /\ queued' = Tail(queued) /\ Deliver(Head(queued))
    <3>. DEFINE t == Head(queued)
    <3>1. /\ t = queued[1] /\ 1 \in DOMAIN queued /\ t \in Nat
          /\ queued' \in Seq(Nat)
          /\ \A i \in DOMAIN queued' : i + 1 \in DOMAIN queued /\ queued'[i] = queued[i + 1]
                                       /\ 1 < i + 1
      BY <1>a, <2>2
    <3>2. Post("send", t, None, None) /\ streaming'
      BY <2>2 DEF Deliver, RunStream
    <3>3. \A r \in DOMAIN requests : requests[r].kind = "send" => requests[r].turn < t
      BY <3>1 DEF QueueInv
    <3>4. t \in DOMAIN typed' /\ typed'[t] = open
          /\ \A u \in DOMAIN typed : u \in DOMAIN typed' /\ typed'[u] = typed[u]
      BY <2>0, <3>1 DEF QueueInv
    <3>5. \A i \in DOMAIN queued' : t < queued'[i]
      BY <3>1 DEF QueueInv
    <3>6. typed' \in Seq(Convs)
      BY <1>a, <2>0
    <3>. HIDE DEF t
    <3>. QED
      BY <2>0, <3>1, <3>2, <3>3, <3>4, <3>5, <3>6, QueueSends
  <2>. QED
    BY <1>2, <2>1, <2>2 DEF Settle
<1>3. CASE ~Send /\ ~Settle
  <2>1. NoTurnSent
    BY <1>0, <1>3 DEF SendsTurn
  <2>. SUFFICES QueueShrinks
    BY <1>0, <2>1, QueueKept
  <2>2. CASE CancelQueued
    BY <2>2 DEF CancelQueued, QueueShrinks
  <2>3. CASE Redo \/ Continue \/ Alter
    BY <2>3 DEF Redo, Continue, Alter, Control, QueueInv, QueueShrinks
  <2>4. CASE Navigate \/ Stop
    BY <2>4 DEF Navigate, Stop, QueueShrinks
  <2>5. CASE Network
    BY <2>5 DEF Network, Delta, Break, EndsShort, LoadFails, Fails, Lose, QueueShrinks
  <2>6. CASE StreamEnds \/ Refused \/ Show \/ Altered \/ Take \/ Finish \/ Read
    BY <2>6 DEF StreamEnds, Refused, Show, Altered, Take, Finish, Read, QueueShrinks
  <2>. QED
    BY <1>3, <2>2, <2>3, <2>4, <2>5, <2>6 DEF Next, User, Progress
<1>. QED
  BY <1>1, <1>2, <1>3

\* The server takes the last request up after those before, but for the ones that were
\* broken off and those that claim no flag.
LEMMA ReceivedStep ==
    ASSUME PageType, Named, StreamInv, ReceivedInv, Next
    PROVE  ReceivedInv'
<1>1. Advances
  BY RequestsAdvance
<1>2. \A r \in DOMAIN requests : r \in DOMAIN requests'
  BY <1>1 DEF Advances, PageType
<1>3. CASE UNCHANGED received
  BY <1>1, <1>2, <1>3 DEF ReceivedInv, Advances
<1>4. CASE Take
  <2>1. PICK r \in Pending, at \in Ats :
          /\ requests[r].at = "sent" /\ Set(r, at) /\ received' = Append(received, r)
          /\ at # "sent"
    BY <1>4, TakeRows
  <2>2. r \in DOMAIN requests
    BY DEF Pending
  <2>3. requests'[r].at # "sent" /\ requests'[r].kind = requests[r].kind
        /\ (requests[r].broken => requests'[r].broken)
    BY <1>1, <2>1, <2>2, SetRequest DEF Set, Advances
  <2>. DEFINE n == Len(received)
  <2>4. /\ n \in Nat /\ DOMAIN received = 1..n /\ DOMAIN received' = 1..n + 1
        /\ \A i \in 1..n : received'[i] = received[i]
        /\ received'[n + 1] = r
    BY <2>1 DEF PageType
  <2>. HIDE DEF n
  <2>5. ASSUME NEW i \in 1..n
        PROVE  /\ received[i] # r
               /\ \/ received[i] < r
                  \/ requests'[received[i]].broken \/ requests'[r].broken
                  \/ {requests'[received[i]].kind, requests'[r].kind} \cap Unclaimed # {}
    <3>. DEFINE s == received[i]
    <3>1. s \in DOMAIN requests /\ requests[s].at # "sent"
      BY <2>4 DEF ReceivedInv
    <3>2. s # r
      BY <2>1, <3>1
    <3>3. CASE requests[r].broken
      BY <2>3, <3>2, <3>3
    <3>4. CASE requests[r].kind \in Unclaimed
      BY <2>3, <3>2, <3>4
    <3>5. CASE phase = "stream" /\ r = current
      <4>1. r = Len(requests)
        BY <3>5 DEF StreamInv
      <4>2. s < r
        BY <3>1, <3>2, <4>1 DEF PageType
      <4>. QED
        BY <3>2, <4>2
    <3>. QED
      BY <3>3, <3>4, <3>5 DEF StreamInv
  <2>6. ASSUME NEW j \in DOMAIN received'
        PROVE  /\ received'[j] \in DOMAIN requests' /\ requests'[received'[j]].at # "sent"
               /\ \A i \in DOMAIN received' : i < j =>
                    /\ received'[i] # received'[j]
                    /\ \/ received'[i] < received'[j]
                       \/ requests'[received'[i]].broken \/ requests'[received'[j]].broken
                       \/ {requests'[received'[i]].kind, requests'[received'[j]].kind}
                            \cap Unclaimed # {}
    <3>1. CASE j = n + 1
      BY <1>2, <2>2, <2>3, <2>4, <2>5, <3>1
    <3>2. CASE j \in 1..n
      <4>1. /\ received[j] \in DOMAIN requests /\ requests[received[j]].at # "sent"
            /\ \A i \in 1..n : i < j =>
                 /\ received[i] # received[j]
                 /\ \/ received[i] < received[j]
                    \/ requests[received[i]].broken \/ requests[received[j]].broken
                    \/ {requests[received[i]].kind, requests[received[j]].kind}
                         \cap Unclaimed # {}
        BY <2>4, <3>2 DEF ReceivedInv
      <4>2. \A i \in 1..n : received[i] \in DOMAIN requests
        BY <2>4 DEF ReceivedInv
      <4>3. \A i \in DOMAIN received' : i < j => i \in 1..n
        BY <2>4, <3>2
      <4>4. \A s \in DOMAIN requests :
              /\ s \in DOMAIN requests' /\ requests'[s].kind = requests[s].kind
              /\ requests[s].broken => requests'[s].broken
              /\ requests[s].at # "sent" => requests'[s].at # "sent"
        BY <1>1, <1>2 DEF Advances
      <4>5. received'[j] = received[j] /\ \A i \in 1..n : received'[i] = received[i]
        BY <2>4, <3>2
      <4>. QED
        BY <4>1, <4>2, <4>3, <4>4, <4>5
    <3>. QED
      BY <2>4, <3>1, <3>2
  <2>. QED
    BY <2>6 DEF ReceivedInv
<1>5. CASE User
  BY <1>3, <1>5 DEF User, Send, CancelQueued, Redo, Continue, Alter, Navigate, Stop, server
<1>6. CASE Network
  BY <1>3, <1>6 DEF Network, Delta, Break, EndsShort, LoadFails, Fails, Lose, server
<1>7. CASE StreamEnds \/ Refused \/ Settle \/ Show \/ Altered \/ Finish \/ Read
  BY <1>3, <1>7 DEF StreamEnds, Refused, Settle, Show, Altered, Finish, Read, server
<1>. QED
  BY <1>4, <1>5, <1>6, <1>7 DEF Next, Progress

LEMMA QueueInOrder ==
    ASSUME PageType, QueueInv, ReceivedInv
    PROVE  TurnsAsTyped
<1>. SUFFICES ASSUME NEW j \in DOMAIN received, requests[received[j]].kind = "send"
              PROVE  LET q == requests[received[j]]
                     IN  /\ typed[q.turn] = q.conv
                         /\ \A i \in 1..j - 1 :
                              LET p == requests[received[i]]
                              IN  p.kind = "send" =>
                                    p.turn # q.turn /\ (p.turn < q.turn \/ p.broken \/ q.broken)
  BY DEF TurnsAsTyped
<1>. DEFINE q == requests[received[j]]
<1>1. received[j] \in DOMAIN requests /\ typed[q.turn] = q.conv
  BY DEF ReceivedInv, QueueInv
<1>2. ASSUME NEW i \in 1..j - 1, requests[received[i]].kind = "send"
      PROVE  LET p == requests[received[i]]
             IN  p.turn # q.turn /\ (p.turn < q.turn \/ p.broken \/ q.broken)
  <2>. DEFINE p == requests[received[i]]
  <2>1. i \in DOMAIN received /\ i < j
    BY DEF PageType
  <2>2. /\ received[i] # received[j] /\ received[i] \in DOMAIN requests
        /\ \/ received[i] < received[j] \/ p.broken \/ q.broken
           \/ {p.kind, q.kind} \cap Unclaimed # {}
    BY <2>1 DEF ReceivedInv
  <2>3. received[i] < received[j] \/ p.broken \/ q.broken
    BY <1>2, <2>2 DEF Unclaimed
  <2>4. received[i] < received[j] => p.turn < q.turn
    BY <1>1, <1>2, <2>2 DEF QueueInv
  <2>5. received[j] < received[i] => q.turn < p.turn
    BY <1>1, <1>2, <2>2 DEF QueueInv
  <2>6. received[i] \in Nat /\ received[j] \in Nat
    <3>1. received \in Seq(Nat)
      BY DEF PageType
    <3>. QED
      BY <2>1, <3>1
  <2>7. p.turn \in Nat /\ q.turn \in Nat
    <3>1. p.turn \in DOMAIN typed /\ q.turn \in DOMAIN typed
      BY <1>1, <1>2, <2>2 DEF QueueInv
    <3>2. typed \in Seq(Convs) /\ DOMAIN typed = 1..Len(typed) /\ Len(typed) \in Nat
      BY DEF PageType
    <3>. QED
      BY <3>1, <3>2
  <2>. QED
    BY <2>2, <2>3, <2>4, <2>5, <2>6, <2>7
<1>. QED
  BY <1>1, <1>2
-----------------------------------------------------------------------------
(* No two rows for one request. *)

LEMMA RowsKept ==
    ASSUME PageType, Advances, NEW c \in Convs, RowsOnce(c),
           \A j \in DOMAIN store'[c] :
               /\ j \in DOMAIN store[c]
               /\ store'[c][j][1] = store[c][j][1] /\ store'[c][j][2] = store[c][j][2]
    PROVE  RowsOnce(c)'
<1>1. \A r \in DOMAIN requests : r \in DOMAIN requests'
  BY DEF Advances, PageType
<1>2. ASSUME NEW i \in DOMAIN store'[c]
      PROVE  \/ store'[c][i][1] = 0
             \/ /\ store'[c][i][1] \in DOMAIN requests'
                /\ requests'[store'[c][i][1]].at # "sent"
                /\ store'[c][i][2] = "reply" => requests'[store'[c][i][1]].at # "working"
  <2>. DEFINE r == store[c][i][1]
  <2>1. i \in DOMAIN store[c] /\ store'[c][i][1] = r /\ store'[c][i][2] = store[c][i][2]
    OBVIOUS
  <2>2. r = 0 \/ (r \in DOMAIN requests /\ requests[r].at # "sent"
                  /\ (store[c][i][2] = "reply" => requests[r].at # "working"))
    BY <2>1 DEF RowsOnce
  <2>. HIDE DEF r
  <2>. QED
    BY <1>1, <2>1, <2>2 DEF Advances
<1>3. \A i, j \in DOMAIN store'[c] :
        store'[c][i][1] = store'[c][j][1] /\ store'[c][i][2] = store'[c][j][2] => i = j
  BY DEF RowsOnce
<1>. QED
  BY <1>2, <1>3 DEF RowsOnce

LEMMA RowsAdded ==
    ASSUME PageType, Advances, NEW c \in Convs, RowsOnce(c),
           NEW r \in DOMAIN requests, NEW half \in {"turn", "reply"},
           store'[c] = Append(store[c], <<r, half, r>>),
           requests'[r].at # "sent", half = "reply" => requests'[r].at # "working",
           \A i \in DOMAIN store[c] : ~ (store[c][i][1] = r /\ store[c][i][2] = half)
    PROVE  RowsOnce(c)'
<1>. DEFINE n == Len(store[c])
<1>1. store[c] \in Seq(Rows(Ids)) /\ n \in Nat /\ DOMAIN store[c] = 1..n
  BY DEF PageType
<1>2. /\ DOMAIN store'[c] = 1..n + 1
      /\ \A i \in 1..n : store'[c][i] = store[c][i]
      /\ store'[c][n + 1] = <<r, half, r>>
  BY <1>1
<1>. HIDE DEF n
<1>a. <<r, half, r>>[1] = r /\ <<r, half, r>>[2] = half
  OBVIOUS
<1>3. store'[c][n + 1][1] = r /\ store'[c][n + 1][2] = half
  BY <1>2, <1>a
<1>4. \A s \in DOMAIN requests : s \in DOMAIN requests'
  BY DEF Advances, PageType
<1>5. ASSUME NEW i \in DOMAIN store'[c]
      PROVE  \/ store'[c][i][1] = 0
             \/ /\ store'[c][i][1] \in DOMAIN requests'
                /\ requests'[store'[c][i][1]].at # "sent"
                /\ store'[c][i][2] = "reply" => requests'[store'[c][i][1]].at # "working"
  <2>1. CASE i = n + 1
    BY <1>3, <1>4, <2>1
  <2>2. CASE i \in 1..n
    <3>. DEFINE s == store[c][i][1]
    <3>1. s = 0 \/ (s \in DOMAIN requests /\ requests[s].at # "sent"
                    /\ (store[c][i][2] = "reply" => requests[s].at # "working"))
      BY <1>1, <2>2 DEF RowsOnce
    <3>2. store'[c][i][1] = s /\ store'[c][i][2] = store[c][i][2]
      BY <1>2, <2>2
    <3>. HIDE DEF s
    <3>. QED
      BY <1>4, <3>1, <3>2 DEF Advances
  <2>. QED
    BY <1>1, <1>2, <2>1, <2>2
<1>6. ASSUME NEW i \in DOMAIN store'[c], NEW j \in DOMAIN store'[c],
             store'[c][i][1] = store'[c][j][1], store'[c][i][2] = store'[c][j][2]
      PROVE  i = j
  <2>1. (i = n + 1 \/ i \in 1..n) /\ (j = n + 1 \/ j \in 1..n)
    BY <1>1, <1>2
  <2>2. CASE i \in 1..n /\ j \in 1..n
    <3>1. store'[c][i] = store[c][i] /\ store'[c][j] = store[c][j]
      BY <1>2, <2>2
    <3>. QED
      BY <1>1, <1>6, <2>2, <3>1 DEF RowsOnce
  <2>3. CASE i = n + 1 /\ j \in 1..n
    BY <1>1, <1>2, <1>3, <1>6, <2>3
  <2>4. CASE j = n + 1 /\ i \in 1..n
    BY <1>1, <1>2, <1>3, <1>6, <2>4
  <2>. QED
    BY <2>1, <2>2, <2>3, <2>4
<1>. QED
  BY <1>5, <1>6 DEF RowsOnce

LEMMA RowsStep ==
    ASSUME PageType, Named, StreamInv, Next, NEW c \in Convs, RowsOnce(c)
    PROVE  RowsOnce(c)'
<1>0. Advances
  BY RequestsAdvance
<1>1. CASE UNCHANGED store
  BY <1>0, <1>1, RowsKept
<1>2. CASE Take
  <2>1. PICK r \in Pending, at \in Ats :
          /\ requests[r].at = "sent" /\ Set(r, at) /\ at # "sent" /\ Taken(r)
          /\ \A d \in Convs : d # requests[r].conv => store'[d] = store[d]
    BY <1>2, TakeRows
  <2>2. r \in DOMAIN requests /\ r # 0 /\ r \in Ids
    BY DEF Pending, PageType, Named
  <2>3. requests'[r].at # "sent"
    BY <2>1, <2>2, SetRequest DEF Set
  <2>4. CASE store'[c] = store[c]
    BY <1>0, <2>4, RowsKept
  <2>5. CASE c = requests[r].conv
    <3>1. store[c] \in Seq(Rows(Ids))
      BY DEF PageType
    <3>2. CASE store'[c] = Append(store[c], <<r, "turn", r>>)
      <4>1. \A i \in DOMAIN store[c] : store[c][i][1] # r
        BY <2>1, <2>2 DEF RowsOnce
      <4>. QED
        BY <1>0, <2>2, <2>3, <3>2, <4>1, RowsAdded
    <3>3. ASSUME NEW i \in At(requests[r]), store'[c] = Kept(store[c], i, r)
          PROVE  RowsOnce(c)'
      <4>1. i \in DOMAIN store[c]
        BY <2>5 DEF At
      <4>. QED
        <5>1. \A j \in DOMAIN store'[c] :
                /\ j \in DOMAIN store[c]
                /\ store'[c][j][1] = store[c][j][1] /\ store'[c][j][2] = store[c][j][2]
          BY <2>2, <3>1, <3>3, <4>1, KeptRows
        <5>. QED
          BY <1>0, <5>1, RowsKept
    <3>4. ASSUME NEW i \in At(requests[r]), store'[c] = Written(store[c], i, r)
          PROVE  RowsOnce(c)'
      <4>1. i \in DOMAIN store[c]
        BY <2>5 DEF At
      <4>2. /\ Written(store[c], i, r) \in Seq(Rows(Ids))
            /\ Len(Written(store[c], i, r)) = Len(store[c])
        BY <2>2, <3>1, <4>1, WrittenRows
      <4>3. DOMAIN store'[c] = DOMAIN store[c]
        BY <3>1, <3>4, <4>2
      <4>. QED
        <5>1. \A j \in DOMAIN store'[c] :
                /\ j \in DOMAIN store[c]
                /\ store'[c][j][1] = store[c][j][1] /\ store'[c][j][2] = store[c][j][2]
          BY <2>2, <3>1, <3>4, <4>1, <4>3, WrittenRows
        <5>. QED
          BY <1>0, <5>1, RowsKept
    <3>5. ASSUME NEW i \in At(requests[r]), store'[c] = SubSeq(store[c], 1, i - 1)
          PROVE  RowsOnce(c)'
      <4>1. i \in DOMAIN store[c]
        BY <2>5 DEF At
      <4>2. i - 1 \in 0..Len(store[c])
        BY <3>1, <4>1
      <4>3. /\ DOMAIN store'[c] = 1..i - 1 /\ 1..i - 1 \subseteq DOMAIN store[c]
            /\ \A j \in 1..i - 1 : store'[c][j] = store[c][j]
        BY <3>1, <3>5, <4>1, <4>2, FirstRows
      <4>. QED
        BY <1>0, <4>3, RowsKept
    <3>. QED
      BY <2>1, <2>4, <2>5, <3>2, <3>3, <3>4, <3>5 DEF Taken
  <2>. QED
    BY <2>1, <2>4, <2>5
<1>3. CASE Finish
  <2>1. PICK r \in Pending, at \in Ats :
          /\ requests[r].at = "working" /\ Set(r, at) /\ at \in {"answered", "over"} /\ Finished(r)
          /\ \A d \in Convs : d # requests[r].conv => store'[d] = store[d]
    BY <1>3, FinishRows
  <2>2. r \in DOMAIN requests /\ r # 0 /\ r \in Ids
    BY DEF Pending, PageType, Named
  <2>3. requests'[r].at \notin {"sent", "working"}
    BY <2>1, <2>2, SetRequest DEF Set
  <2>4. CASE store'[c] = store[c]
    BY <1>0, <2>4, RowsKept
  <2>5. CASE c = requests[r].conv
    <3>1. store[c] \in Seq(Rows(Ids))
      BY DEF PageType
    <3>2. CASE store'[c] = Append(store[c], <<r, "reply", r>>)
      <4>1. \A i \in DOMAIN store[c] : ~ (store[c][i][1] = r /\ store[c][i][2] = "reply")
        BY <2>1, <2>2 DEF RowsOnce
      <4>. QED
        BY <1>0, <2>2, <2>3, <3>2, <4>1, RowsAdded
    <3>4. ASSUME NEW i \in At(requests[r]), store'[c] = Written(store[c], i, r)
          PROVE  RowsOnce(c)'
      <4>1. i \in DOMAIN store[c]
        BY <2>5 DEF At
      <4>2. /\ Written(store[c], i, r) \in Seq(Rows(Ids))
            /\ Len(Written(store[c], i, r)) = Len(store[c])
        BY <2>2, <3>1, <4>1, WrittenRows
      <4>3. DOMAIN store'[c] = DOMAIN store[c]
        BY <3>1, <3>4, <4>2
      <4>. QED
        <5>1. \A j \in DOMAIN store'[c] :
                /\ j \in DOMAIN store[c]
                /\ store'[c][j][1] = store[c][j][1] /\ store'[c][j][2] = store[c][j][2]
          BY <2>2, <3>1, <3>4, <4>1, <4>3, WrittenRows
        <5>. QED
          BY <1>0, <5>1, RowsKept
    <3>. QED
      BY <2>1, <2>4, <2>5, <3>2, <3>4 DEF Finished
  <2>. QED
    BY <2>1, <2>4, <2>5
<1>5. CASE User
  BY <1>1, <1>5 DEF User, Send, CancelQueued, Redo, Continue, Alter, Navigate, Stop, server
<1>6. CASE Network
  BY <1>1, <1>6 DEF Network, Delta, Break, EndsShort, LoadFails, Fails, Lose, server
<1>7. CASE StreamEnds \/ Refused \/ Settle \/ Show \/ Altered \/ Read
  BY <1>1, <1>7 DEF StreamEnds, Refused, Settle, Show, Altered, Read, server
<1>. QED
  BY <1>2, <1>3, <1>5, <1>6, <1>7 DEF Next, Progress
-----------------------------------------------------------------------------
(* The page comes to show what is stored. *)

\* Nothing the order of things depends on changes, or what does hangs on a stream.
LEMMA OrderKept ==
    ASSUME OrderInv, UNCHANGED <<open, requests, loads, store, orderly>>,
           \/ UNCHANGED <<messages, phase>>
           \/ phase = "stream" /\ phase' = "stream"
    PROVE  OrderInv'
<1>. SUFFICES ASSUME orderly'
              PROVE  OrderInv'
  BY DEF OrderInv
<1>1. CASE UNCHANGED <<messages, phase>>
  BY <1>1 DEF OrderInv, Altering, Pending, Alters, UpToDate
<1>2. CASE phase = "stream" /\ phase' = "stream"
  <2>1. Altering = {}
    BY <1>2 DEF OrderInv, Alters
  <2>2. Altering' = {}
    BY <2>1 DEF Altering, Pending
  <2>. QED
    BY <1>2, <2>2 DEF OrderInv
<1>. QED
  BY <1>1, <1>2

\* No unclaimed request is under way: what is left to show is that nothing is broken off.
LEMMA OrderOfStream ==
    ASSUME Altering' = {}, phase' # "failed", phase' # "stream" => UpToDate',
           orderly' => \A r \in DOMAIN requests' : ~requests'[r].broken
    PROVE  OrderInv'
  BY DEF OrderInv

\* A stream begins.
LEMMA OrderBegins ==
    ASSUME PageType, OrderInv, NEW kind \in Kinds \ Unclaimed,
           NEW turn \in Nat \cup {None}, NEW index \in Nat \cup {None},
           NEW row \in Rows(Ids \cup {None}) \cup {None},
           RunStream(kind, turn, index, row)
    PROVE  OrderInv'
<1>. DEFINE n == Len(requests) + 1
<1>1. Post(kind, turn, index, row) /\ phase' = "stream"
  BY DEF RunStream
<1>2. /\ requests' \in Seq(Request) /\ Len(requests') = n
      /\ \A r \in DOMAIN requests : requests'[r] = requests[r]
      /\ requests'[n].kind = kind /\ ~requests'[n].broken
  BY <1>1, PostType
<1>3. \A r \in DOMAIN requests' : r = n \/ r \in DOMAIN requests
  BY <1>2 DEF PageType
<1>. HIDE DEF n
<1>. SUFFICES ASSUME orderly'
              PROVE  OrderInv'
  BY DEF OrderInv
<1>4. orderly /\ Altering = {}
  BY <1>1 DEF Post
<1>5. Altering' = {}
  BY <1>2, <1>3, <1>4 DEF Altering, Pending
<1>6. \A r \in DOMAIN requests' : ~requests'[r].broken
  BY <1>2, <1>3, <1>4 DEF OrderInv
<1>. QED
  BY <1>1, <1>5, <1>6, OrderOfStream

LEMMA OrderUser ==
    ASSUME PageType, StreamInv, QueueInv, OrderInv, User
    PROVE  OrderInv'
<1>1. CASE Send
  <2>1. CASE UNCHANGED <<messages, phase, requests, orderly>>
    BY <1>1, <2>1, OrderKept DEF Send, server
  <2>2. CASE Deliver(Len(typed'))
    <3>1. Len(typed') \in Nat
      BY <1>1 DEF Send, PageType
    <3>2. RunStream("send", Len(typed'), None, None)
      BY <2>2 DEF Deliver
    <3>. QED
      BY <3>1, <3>2, OrderBegins DEF Kinds, Unclaimed
  <2>. QED
    BY <1>1, <2>1, <2>2 DEF Send
<1>2. CASE CancelQueued
  BY <1>2, OrderKept DEF CancelQueued, server
<1>3. CASE Redo \/ Continue
  <2>1. PICK i \in DOMAIN messages, kind \in Kinds \ Unclaimed :
          RunStream(kind, None, i, messages[i])
    <3>1. CASE Redo
      BY <3>1 DEF Redo, Kinds, Unclaimed
    <3>2. CASE Continue
      BY <3>2 DEF Continue, Control, Kinds, Unclaimed
    <3>. QED
      BY <1>3, <3>1, <3>2
  <2>2. i \in Nat /\ messages[i] \in Rows(Ids \cup {None})
    BY DEF PageType
  <2>. QED
    BY <2>1, <2>2, OrderBegins
<1>4. CASE Alter
  <2>1. PICK i \in DOMAIN messages, kind \in Unclaimed :
          Post(kind, None, i, messages[i]) /\ ~streaming
    BY <1>4 DEF Alter, Control
  <2>2. i \in Nat \ {0} /\ messages[i] \in Rows(Ids \cup {None}) /\ kind \in Kinds
    BY DEF PageType, Unclaimed, Kinds
  <2>. DEFINE n == Len(requests) + 1
  <2>3. /\ requests' \in Seq(Request) /\ Len(requests') = n
        /\ \A r \in DOMAIN requests : requests'[r] = requests[r]
        /\ LET new == requests'[n]
           IN  /\ new.conv = open /\ new.kind = kind /\ new.index = i
               /\ new.row = messages[i] /\ new.at = "sent" /\ ~new.broken
    BY <2>1, <2>2, PostType
  <2>4. \A r \in DOMAIN requests' : r = n \/ r \in DOMAIN requests
    BY <2>3 DEF PageType
  <2>5. n \in DOMAIN requests'
    BY <2>3 DEF PageType
  <2>. HIDE DEF n
  <2>. SUFFICES ASSUME orderly'
                PROVE  OrderInv'
    BY DEF OrderInv
  <2>6. orderly /\ Pending = {} /\ loads = <<>>
    BY <2>1 DEF Post
  <2>7. Altering = {} /\ phase = "idle"
    BY <2>1, <2>6 DEF Altering, PageType
  <2>8. messages = store[open]
    BY <2>6, <2>7 DEF OrderInv, UpToDate
  <2>9. Pending' = {n}
    BY <2>3, <2>4, <2>5, <2>6 DEF Pending
  <2>10. UNCHANGED <<open, messages, phase, loads, store>>
    BY <1>4 DEF Alter, server
  <2>11. ASSUME NEW r, r = n
         PROVE  Alters(r)'
    BY <2>3, <2>6, <2>7, <2>8, <2>9, <2>10, <2>11 DEF Alters
  <2>12. \A r \in Altering' : r = n
    BY <2>9 DEF Altering
  <2>14. Altering' # {}
    BY <2>3, <2>9 DEF Altering
  <2>13. \A r \in DOMAIN requests' : ~requests'[r].broken
    BY <2>3, <2>4, <2>6 DEF OrderInv
  <2>. QED
    BY <2>7, <2>10, <2>11, <2>12, <2>13, <2>14 DEF OrderInv
<1>5. CASE Navigate
  <2>. SUFFICES ASSUME orderly'
                PROVE  OrderInv'
    BY DEF OrderInv
  <2>1. orderly /\ Altering = {} /\ UNCHANGED <<requests, phase>>
    BY <1>5 DEF Navigate
  <2>2. open' \in Convs /\ Load(open', FALSE)
    BY <1>5 DEF Navigate
  <2>3. UpToDate'
    <3>1. /\ loads' \in Seq(Loading) /\ Len(loads') = Len(loads) + 1
          /\ loads'[Len(loads) + 1] = [conv |-> open', rows |-> None, own |-> FALSE]
      BY <2>2, LoadType
    <3>2. loads' # <<>> /\ loads'[Len(loads')].conv = open' /\ loads'[Len(loads')].rows = None
      BY <3>1 DEF PageType
    <3>. QED
      BY <3>2 DEF UpToDate
  <2>4. Altering' = {}
    BY <2>1 DEF Altering, Pending
  <2>. QED
    BY <2>1, <2>3, <2>4, OrderOfStream DEF OrderInv
<1>6. CASE Stop
  <2>1. CASE Fail
    BY <2>1 DEF Fail, OrderInv
  <2>2. CASE UNCHANGED <<messages, phase, orderly, requests>>
    BY <1>6, <2>2, OrderKept DEF Stop, server
  <2>. QED
    BY <1>6, <2>1, <2>2 DEF Stop
<1>. QED
  BY <1>1, <1>2, <1>3, <1>4, <1>5, <1>6 DEF User

LEMMA OrderNetwork ==
    ASSUME PageType, StreamInv, OrderInv, Network
    PROVE  OrderInv'
<1>1. CASE Delta
  BY <1>1, OrderKept DEF Delta, server
<1>2. CASE Break \/ EndsShort \/ LoadFails \/ Fails
  BY <1>2 DEF Break, EndsShort, Fail, LoadFails, Fails, OrderInv
<1>3. CASE Lose
  <2>1. \E r \in DOMAIN requests : requests[r].broken
    BY <1>3 DEF Lose, Pending
  <2>. QED
    BY <1>3, <2>1 DEF Lose, OrderInv
<1>. QED
  BY <1>1, <1>2, <1>3 DEF Network
\* An answer reaches the page.
LEMMA OrderShow ==
    ASSUME PageType, OwnInv, OrderInv, Show
    PROVE  OrderInv'
<1>. SUFFICES ASSUME orderly'
              PROVE  OrderInv'
  BY DEF OrderInv
<1>1. PICK i \in DOMAIN loads :
        /\ loads[i].rows # None /\ messages' = loads[i].rows
        /\ loads' = RemoveAt(loads, i)
        /\ phase' = IF loads[i].own THEN "followups" ELSE phase
        /\ orderly' = (orderly /\ i = 1)
  BY DEF Show
<1>2. orderly /\ i = 1 /\ UNCHANGED <<open, requests, store>>
  BY <1>1 DEF Show, server
<1>3. loads \in Seq(Loading) /\ Len(loads) \in Nat \ {0} /\ loads # <<>>
  BY DEF PageType
<1>4. Altering = {} /\ Altering' = {}
  BY <1>2, <1>3 DEF OrderInv, Alters, Altering, Pending
<1>5. /\ Len(loads') = Len(loads) - 1 /\ loads' \in Seq(Loading)
      /\ \A j \in 1..Len(loads) - 1 :
           loads'[j] = IF j < i THEN loads[j] ELSE loads[j + 1]
  BY <1>1, <1>3, RemoveAtElements
<1>6. CASE phase' = "stream"
  BY <1>2, <1>4, <1>6, OrderOfStream DEF OrderInv
<1>7. CASE phase' # "stream"
  <2>1. phase # "failed" /\ \A r \in DOMAIN requests : ~requests[r].broken
    BY <1>2 DEF OrderInv
  <2>2. CASE phase = "stream"
    <3>1. loads[i].own
      BY <1>1, <1>7, <2>2
    <3>. QED
      BY <3>1, <2>2 DEF OwnInv
  <2>3. CASE phase # "stream"
    <3>1. /\ loads[Len(loads)].conv = open
          /\ loads[Len(loads)].rows \in {None, store[open]}
      BY <1>2, <1>3, <1>4, <2>3 DEF OrderInv, UpToDate
    <3>2. CASE Len(loads) = 1
      <4>1. loads' = <<>> /\ messages' = store[open]
        BY <1>1, <1>2, <1>5, <3>1, <3>2
      <4>. QED
        BY <1>1, <1>2, <1>4, <2>1, <4>1, OrderOfStream DEF UpToDate
    <3>3. CASE Len(loads) # 1
      <4>1. loads' # <<>> /\ loads'[Len(loads')] = loads[Len(loads)]
        BY <1>2, <1>3, <1>5, <3>3
      <4>. QED
        BY <1>1, <1>2, <1>4, <2>1, <3>1, <4>1, OrderOfStream DEF UpToDate
    <3>. QED
      BY <3>2, <3>3
  <2>. QED
    BY <2>2, <2>3
<1>. QED
  BY <1>6, <1>7
LEMMA OrderRead ==
    ASSUME PageType, OrderInv, Read
    PROVE  OrderInv'
<1>. SUFFICES ASSUME orderly'
              PROVE  OrderInv'
  BY DEF OrderInv
<1>1. PICK i \in DOMAIN loads :
        loads' = [loads EXCEPT ![i].rows = store[loads[i].conv]]
  BY DEF Read
<1>2. orderly /\ UNCHANGED <<open, messages, phase, requests, store>>
  BY DEF Read, server
<1>3. loads \in Seq(Loading) /\ Len(loads) \in DOMAIN loads /\ loads # <<>>
  BY DEF PageType
<1>4. Altering = {} /\ Altering' = {}
  BY <1>2, <1>3 DEF OrderInv, Alters, Altering, Pending
<1>5. ASSUME phase # "stream"
      PROVE  UpToDate'
  <2>. DEFINE l == loads[Len(loads)]
  <2>1. l.conv = open /\ l.rows \in {None, store[open]} /\ l \in Loading
    BY <1>2, <1>3, <1>4, <1>5 DEF OrderInv, UpToDate
  <2>2. Len(loads') = Len(loads) /\ loads' # <<>>
    BY <1>1, <1>3
  <2>3. CASE i = Len(loads)
    <3>1. loads'[Len(loads)] = [l EXCEPT !.rows = store[open]]
      BY <1>1, <1>3, <2>1, <2>3
    <3>. QED
      BY <1>2, <2>1, <2>2, <3>1 DEF UpToDate, Loading
  <2>4. CASE i # Len(loads)
    <3>1. loads'[Len(loads)] = l
      BY <1>1, <1>3, <2>4
    <3>. QED
      BY <1>2, <2>1, <2>2, <3>1 DEF UpToDate
  <2>. QED
    BY <2>3, <2>4
<1>. QED
  BY <1>2, <1>4, <1>5, OrderOfStream DEF OrderInv

LEMMA OrderEnds ==
    ASSUME PageType, StreamInv, OrderInv, StreamEnds
    PROVE  OrderInv'
<1>. SUFFICES ASSUME orderly'
              PROVE  OrderInv'
  BY DEF OrderInv
<1>1. /\ phase = "stream" /\ phase' = "load" /\ Load(open, TRUE) /\ orderly
      /\ requests' = [requests EXCEPT ![current].at = "over"] /\ UNCHANGED open
  BY DEF StreamEnds
<1>2. current \in DOMAIN requests /\ open \in Convs
  BY <1>1 DEF StreamInv, Pending, PageType
<1>3. /\ Len(requests') = Len(requests) /\ requests' \in Seq(Request)
      /\ \A s \in DOMAIN requests :
           /\ s # current => requests'[s] = requests[s]
           /\ requests'[s].kind = requests[s].kind
      /\ requests'[current].at = "over" /\ requests'[current].broken = requests[current].broken
  BY <1>1, <1>2, SetRequest DEF Ats
<1>4. DOMAIN requests' = DOMAIN requests
  BY <1>3 DEF PageType
<1>5. Altering = {}
  BY <1>1 DEF OrderInv, Alters
<1>6. Altering' = {}
  BY <1>3, <1>4, <1>5 DEF Altering, Pending
<1>7. /\ loads' \in Seq(Loading) /\ Len(loads') = Len(loads) + 1
      /\ loads'[Len(loads) + 1] = [conv |-> open, rows |-> None, own |-> TRUE]
  BY <1>1, <1>2, LoadType
<1>8. loads' # <<>> /\ loads'[Len(loads')].conv = open /\ loads'[Len(loads')].rows = None
  BY <1>7 DEF PageType
<1>9. UpToDate'
  BY <1>1, <1>8 DEF UpToDate
<1>10. \A r \in DOMAIN requests' : ~requests'[r].broken
  BY <1>1, <1>3, <1>4 DEF OrderInv
<1>. QED
  BY <1>1, <1>6, <1>9, <1>10, OrderOfStream

\* The answer to an unclaimed request.
LEMMA OrderAltered ==
    ASSUME PageType, OrderInv, Altered
    PROVE  OrderInv'
<1>. SUFFICES ASSUME orderly'
              PROVE  OrderInv'
  BY DEF OrderInv
<1>1. PICK r \in Pending :
        /\ requests[r].kind \in Unclaimed /\ requests[r].at = "answered"
        /\ requests' = [requests EXCEPT ![r].at = "over"]
        /\ \/ /\ requests[r].kind = "cut"
              /\ messages' = SubSeq(messages, 1, Min({requests[r].index - 1, Len(messages)}))
              /\ UNCHANGED loads
           \/ /\ requests[r].kind = "rate"
              /\ messages' = Placed(messages, requests[r].index, requests[r].row)
              /\ UNCHANGED loads
           \/ Load(open, FALSE)
  BY DEF Altered
<1>2. orderly /\ UNCHANGED <<open, phase, store>>
  BY DEF Altered, server
<1>3. r \in DOMAIN requests /\ Alters(r)
  BY <1>1, <1>2 DEF OrderInv, Altering, Pending
<1>4. /\ Len(requests') = Len(requests) /\ requests' \in Seq(Request)
      /\ \A s \in DOMAIN requests : s # r => requests'[s] = requests[s]
      /\ requests'[r].at = "over" /\ requests'[r].broken = requests[r].broken
  BY <1>1, <1>3, SetRequest DEF Ats
<1>5. DOMAIN requests' = DOMAIN requests
  BY <1>4 DEF PageType
<1>6. Pending' = {}
  BY <1>3, <1>4, <1>5 DEF Alters, Pending
<1>7. Altering' = {}
  BY <1>6 DEF Altering
<1>8. \A s \in DOMAIN requests' : ~requests'[s].broken
  BY <1>2, <1>3, <1>4, <1>5 DEF OrderInv
<1>9. phase = "idle" /\ loads = <<>>
  BY <1>3 DEF Alters
<1>10. UpToDate'
  <2>1. CASE /\ requests[r].kind = "cut" /\ UNCHANGED loads
             /\ messages' = SubSeq(messages, 1, Min({requests[r].index - 1, Len(messages)}))
    <3>. DEFINE i == requests[r].index
    <3>1. i \in DOMAIN messages /\ store[open] = SubSeq(messages, 1, i - 1)
      BY <1>1, <1>3, <2>1 DEF Alters
    <3>2. i \in Nat /\ Len(messages) \in Nat /\ i - 1 <= Len(messages)
      BY <3>1 DEF PageType
    <3>a. i - 1 \in Int /\ Len(messages) \in Int
      BY <3>2
    <3>3. Min({i - 1, Len(messages)}) = i - 1
      <4>. HIDE DEF i
      <4>. QED
        BY <3>2, <3>a, MinOfTwo
    <3>. QED
      BY <1>2, <1>9, <2>1, <3>1, <3>3 DEF UpToDate
  <2>2. CASE Load(open, FALSE)
    <3>1. open \in Convs
      BY DEF PageType
    <3>2. /\ loads' \in Seq(Loading) /\ Len(loads') = Len(loads) + 1
          /\ loads'[Len(loads) + 1] = [conv |-> open, rows |-> None, own |-> FALSE]
      BY <2>2, <3>1, LoadType
    <3>3. loads' # <<>> /\ loads'[Len(loads')].conv = open /\ loads'[Len(loads')].rows = None
      BY <3>2 DEF PageType
    <3>. QED
      BY <1>2, <3>3 DEF UpToDate
  <2>3. CASE /\ requests[r].kind = "rate" /\ UNCHANGED loads
             /\ messages' = Placed(messages, requests[r].index, requests[r].row)
    <3>. DEFINE i == requests[r].index
    <3>1. messages = store[open] /\ i \in DOMAIN messages /\ requests[r].row = messages[i]
      BY <1>3, <2>3 DEF Alters
    <3>2. messages \in Seq(Rows(Ids \cup {None}))
      BY DEF PageType
    <3>. HIDE DEF i
    <3>3. Placed(messages, i, messages[i]) = messages
      BY <3>1, <3>2, PlacedAgain
    <3>. QED
      BY <1>2, <1>9, <2>3, <3>1, <3>3 DEF UpToDate, i
  <2>. QED
    BY <1>1, <2>1, <2>2, <2>3
<1>. QED
  BY <1>2, <1>7, <1>8, <1>9, <1>10, OrderOfStream

\* The server moves on the request of the stream.
LEMMA OrderServed ==
    ASSUME PageType, StreamInv, OrderInv, NEW r \in Pending, requests[r].kind \notin Unclaimed,
           NEW at \in Ats, Set(r, at), UNCHANGED <<phase, orderly>>
    PROVE  OrderInv'
<1>. SUFFICES ASSUME orderly'
              PROVE  OrderInv'
  BY DEF OrderInv
<1>1. r \in DOMAIN requests /\ ~requests[r].broken
  BY DEF Pending, OrderInv
<1>2. phase = "stream"
  BY <1>1 DEF StreamInv
<1>3. /\ Len(requests') = Len(requests) /\ requests' \in Seq(Request)
      /\ \A s \in DOMAIN requests :
           /\ s # r => requests'[s] = requests[s]
           /\ requests'[s].kind = requests[s].kind
      /\ requests'[r].broken = requests[r].broken
  BY <1>1, SetRequest DEF Set
<1>4. DOMAIN requests' = DOMAIN requests
  BY <1>3 DEF PageType
<1>5. Altering = {}
  BY <1>2 DEF OrderInv, Alters
<1>6. Altering' = {}
  BY <1>3, <1>4, <1>5 DEF Altering, Pending
<1>7. \A s \in DOMAIN requests' : ~requests'[s].broken
  BY <1>1, <1>3, <1>4 DEF OrderInv
<1>. QED
  BY <1>2, <1>6, <1>7, OrderOfStream

\* An unclaimed request is taken up: the row it is about is found, and a cut leaves the
\* rows before it.
LEMMA OrderTaken ==
    ASSUME PageType, OrderInv, \A c \in Convs : RowsOnce(c),
           NEW r \in Pending, requests[r].kind \in Unclaimed, requests[r].at = "sent",
           Set(r, "answered"), Taken(r),
           UNCHANGED <<open, messages, phase, loads, orderly>>
    PROVE  OrderInv'
<1>. SUFFICES ASSUME orderly'
              PROVE  OrderInv'
  BY DEF OrderInv
<1>. DEFINE q == requests[r]
            rows == store[open]
<1>1. r \in DOMAIN requests /\ Alters(r)
  BY DEF Pending, OrderInv, Altering
<1>2. /\ Pending = {r} /\ loads = <<>> /\ phase = "idle" /\ q.conv = open
      /\ messages = rows /\ q.index \in DOMAIN messages /\ q.row = messages[q.index]
  BY <1>1 DEF Alters
<1>3. /\ Len(requests') = Len(requests) /\ requests' \in Seq(Request)
      /\ \A s \in DOMAIN requests :
           /\ s # r => requests'[s] = requests[s]
           /\ requests'[s].conv = requests[s].conv /\ requests'[s].kind = requests[s].kind
           /\ requests'[s].index = requests[s].index
           /\ requests'[s].row = requests[s].row
      /\ requests'[r].at = "answered" /\ requests'[r].broken = requests[r].broken
  BY <1>1, SetRequest DEF Set, Ats
<1>4. DOMAIN requests' = DOMAIN requests
  BY <1>3 DEF PageType
<1>5. Pending' = {r}
  BY <1>1, <1>2, <1>3, <1>4 DEF Pending
<1>6. Altering' = {r}
  BY <1>1, <1>3, <1>5 DEF Altering
<1>7. open \in Convs /\ rows \in Seq(Rows(Ids)) /\ RowsOnce(open)
  BY DEF PageType
<1>8. ASSUME q.kind = "cut"
      PROVE  store'[open] = SubSeq(messages, 1, q.index - 1)
  <2>1. q.index \in At(q)
    BY <1>2 DEF At
  <2>2. ASSUME NEW i \in At(q)
        PROVE  i = q.index
    <3>1. i \in DOMAIN rows /\ SubSeq(rows[i], 1, 2) = SubSeq(rows[q.index], 1, 2)
      BY <1>2 DEF At
    <3>2. rows[i] \in Rows(Ids) /\ rows[q.index] \in Rows(Ids)
      BY <1>2, <1>7, <3>1
    <3>3. rows[i][1] = rows[q.index][1] /\ rows[i][2] = rows[q.index][2]
      BY <3>1, <3>2, SameRow
    <3>. QED
      BY <1>2, <1>7, <3>1, <3>3 DEF RowsOnce
  <2>. QED
    BY <1>2, <1>8, <2>1, <2>2 DEF Taken
<1>9. Alters(r)'
  <2>1. ASSUME q.kind = "rate"
        PROVE  store'[open] = rows
    BY <1>2, <2>1 DEF Taken
  <2>. QED
    BY <1>1, <1>2, <1>3, <1>5, <1>8, <2>1 DEF Alters
<1>10. \A s \in DOMAIN requests' : ~requests'[s].broken
  BY <1>1, <1>3, <1>4 DEF OrderInv
<1>. QED
  BY <1>2, <1>6, <1>9, <1>10 DEF OrderInv

\* A rating is refused: the page keeps what it shows.
LEMMA OrderIgnored ==
    ASSUME PageType, OrderInv,
           NEW r \in Pending, requests[r].kind = "rate", requests[r].at = "sent",
           Set(r, "over"), Taken(r),
           UNCHANGED <<open, messages, phase, loads, orderly>>
    PROVE  OrderInv'
<1>. SUFFICES ASSUME orderly'
              PROVE  OrderInv'
  BY DEF OrderInv
<1>1. r \in DOMAIN requests /\ Alters(r)
  BY DEF Pending, OrderInv, Altering, Unclaimed
<1>2. /\ Pending = {r} /\ loads = <<>> /\ phase = "idle" /\ requests[r].conv = open
      /\ messages = store[open]
  BY <1>1 DEF Alters
<1>3. /\ Len(requests') = Len(requests) /\ requests' \in Seq(Request)
      /\ \A s \in DOMAIN requests : s # r => requests'[s] = requests[s]
      /\ requests'[r].at = "over" /\ requests'[r].broken = requests[r].broken
  BY <1>1, SetRequest DEF Set, Ats
<1>4. DOMAIN requests' = DOMAIN requests
  BY <1>3 DEF PageType
<1>5. Altering' = {}
  BY <1>1, <1>2, <1>3, <1>4 DEF Altering, Pending
<1>6. UpToDate'
  BY <1>2 DEF Taken, UpToDate
<1>7. \A s \in DOMAIN requests' : ~requests'[s].broken
  BY <1>1, <1>3, <1>4 DEF OrderInv
<1>. QED
  BY <1>2, <1>5, <1>6, <1>7, OrderOfStream

LEMMA OrderProgress ==
    ASSUME PageType, Named, StreamInv, OwnInv, OrderInv, \A c \in Convs : RowsOnce(c), Progress
    PROVE  OrderInv'
<1>1. CASE Refused
  BY <1>1 DEF Refused, Fail, OrderInv
<1>2. CASE Settle
  <2>1. CASE phase' = "idle" /\ UNCHANGED <<messages, requests, orderly>>
    <3>1. UNCHANGED <<open, loads, store>> /\ phase \in {"followups", "failed"}
      BY <1>2 DEF Settle, server
    <3>. SUFFICES ASSUME orderly'
                  PROVE  OrderInv'
      BY DEF OrderInv
    <3>2. Altering = {}
      BY <2>1, <3>1 DEF OrderInv, Alters
    <3>3. UpToDate /\ \A r \in DOMAIN requests : ~requests[r].broken
      BY <2>1, <3>1, <3>2 DEF OrderInv
    <3>4. UpToDate' /\ Altering' = {}
      BY <2>1, <3>1, <3>2, <3>3 DEF UpToDate, Altering, Pending
    <3>. QED
      BY <2>1, <3>3, <3>4, OrderOfStream
  <2>2. CASE queued # <<>> /\ Deliver(Head(queued))
    <3>1. Head(queued) \in Nat
      BY <2>2 DEF PageType
    <3>2. RunStream("send", Head(queued), None, None)
      BY <2>2 DEF Deliver
    <3>. QED
      BY <3>1, <3>2, OrderBegins DEF Kinds, Unclaimed
  <2>. QED
    BY <1>2, <2>1, <2>2 DEF Settle
<1>3. CASE Take
  <2>1. PICK r \in Pending, at \in Ats :
          /\ requests[r].at = "sent" /\ Set(r, at) /\ Taken(r)
          /\ requests[r].kind \in Unclaimed =>
               at = "answered" \/ (at = "over" /\ requests[r].kind = "rate")
    BY <1>3, TakeRows
  <2>2. UNCHANGED <<open, messages, phase, loads, orderly>>
    BY <1>3 DEF Take
  <2>. QED
    BY <2>1, <2>2, OrderServed, OrderTaken, OrderIgnored
<1>4. CASE Finish
  <2>1. PICK r \in Pending, at \in Ats : requests[r].at = "working" /\ Set(r, at)
    BY <1>4, FinishRows
  <2>2. UNCHANGED <<phase, orderly>>
    BY <1>4 DEF Finish
  <2>3. CASE requests[r].kind \in Unclaimed
    BY <2>1, <2>2, <2>3 DEF OrderInv, Alters, Altering
  <2>. QED
    BY <2>1, <2>2, <2>3, OrderServed
<1>. QED
  BY <1>1, <1>2, <1>3, <1>4, OrderShow, OrderRead, OrderEnds, OrderAltered DEF Progress

-----------------------------------------------------------------------------
(* The bounds. *)

\* A request is a turn sent or one of the extras, and a turn that waits is none yet; the
\* page knows the request of its stream while it streams.
BoundInv ==
    /\ extras \in Nat /\ Len(requests) + Len(queued) <= Len(typed) + extras
    /\ Len(typed) + extras <= MaxActs /\ Len(typed) <= MaxTurns
    /\ phase # "stream" => current = None

LEMMA BoundNames ==
    ASSUME PageType, BoundInv, MaxActs \in Nat
    PROVE  Named
<1>1. DOMAIN requests = 1..Len(requests) /\ {Len(requests), Len(queued), Len(typed)} \subseteq Nat
  BY DEF PageType
<1>. QED
  BY <1>1 DEF BoundInv, Named, Ids

LEMMA BoundStep ==
    ASSUME PageType, StreamInv, OwnInv, BoundInv, MaxActs \in Nat, MaxTurns \in Nat, Next
    PROVE  BoundInv'
<1>. DEFINE r == Len(requests)
            q == Len(queued)
            t == Len(typed)
<1>1. /\ r \in Nat /\ q \in Nat /\ t \in Nat /\ extras \in Nat
      /\ r + q <= t + extras /\ t + extras <= MaxActs /\ t <= MaxTurns
      /\ phase # "stream" => current = None
  BY DEF PageType, BoundInv
<1>0. /\ UNCHANGED requests => Len(requests') = r
      /\ UNCHANGED queued => Len(queued') = q
      /\ UNCHANGED typed => Len(typed') = t
      /\ queued' = <<>> => Len(queued') = 0
  OBVIOUS
<1>2. open \in Convs /\ typed \in Seq(Convs) /\ queued \in Seq(Nat)
  BY DEF PageType
<1>3. ASSUME NEW kind, NEW turn, NEW index, NEW row, Post(kind, turn, index, row)
      PROVE  Len(requests') = r + 1
  BY <1>3 DEF Post, PageType
<1>4. ASSUME Extra
      PROVE  extras' = extras + 1 /\ t + extras' <= MaxActs
  BY <1>1, <1>4 DEF Extra
<1>5. ASSUME Len(requests') = r, UNCHANGED <<queued, typed, extras>>,
             phase' # "stream" => current' = None
      PROVE  BoundInv'
  BY <1>0, <1>1, <1>5 DEF BoundInv
<1>6. ASSUME NEW s \in Pending, NEW at, Set(s, at)
      PROVE  Len(requests') = r
  BY <1>6 DEF Set, PageType
<1>7. ASSUME Abandon
      PROVE  Len(requests') = r
  BY <1>7 DEF Abandon, PageType
<1>8. ASSUME NEW i \in DOMAIN loads, phase' = IF loads[i].own THEN "followups" ELSE phase,
             UNCHANGED current
      PROVE  phase' # "stream" => current' = None
  BY <1>1, <1>8 DEF OwnInv
<1>. HIDE DEF r, q, t
<1>9. CASE Send
  <2>1. Len(typed') = t + 1 /\ t + 1 <= MaxTurns /\ t + 1 + extras <= MaxActs /\ UNCHANGED extras
    BY <1>1, <1>2, <1>9 DEF Send, t
  <2>2. CASE queued' = Append(queued, Len(typed')) /\ UNCHANGED <<phase, current, requests>>
    <3>1. Len(queued') = q + 1
      BY <1>2, <2>1, <2>2 DEF q
    <3>. QED
      BY <1>0, <1>1, <2>1, <2>2, <3>1 DEF BoundInv
  <2>3. CASE Deliver(Len(typed')) /\ UNCHANGED queued
    <3>1. phase' = "stream" /\ Len(requests') = r + 1
      BY <1>3, <2>3 DEF Deliver, RunStream
    <3>. QED
      BY <1>0, <1>1, <2>1, <2>3, <3>1 DEF BoundInv
  <2>. QED
    BY <1>9, <2>2, <2>3 DEF Send
<1>10. CASE CancelQueued
  <2>1. PICK i \in DOMAIN queued : queued' = RemoveAt(queued, i)
    BY <1>10 DEF CancelQueued
  <2>2. Len(queued') = q - 1 /\ q - 1 \in Nat
    BY <1>2, <2>1, RemoveAtElements DEF q
  <2>3. UNCHANGED <<requests, typed, extras, phase, current>>
    BY <1>10 DEF CancelQueued
  <2>. QED
    BY <1>0, <1>1, <2>2, <2>3 DEF BoundInv
<1>11. CASE Redo \/ Continue \/ Alter
  <2>1. Extra /\ UNCHANGED <<queued, typed>>
    BY <1>11 DEF Redo, Continue, Alter
  <2>2. Len(requests') = r + 1 /\ (phase' = "stream" \/ UNCHANGED <<phase, current>>)
    BY <1>3, <1>11 DEF Redo, Continue, Alter, RunStream
  <2>. QED
    BY <1>0, <1>1, <1>4, <2>1, <2>2 DEF BoundInv
<1>12. CASE Navigate
  <2>1. Extra /\ queued' = <<>> /\ UNCHANGED <<typed, requests, phase, current>>
    BY <1>12 DEF Navigate
  <2>. QED
    BY <1>0, <1>1, <1>4, <2>1 DEF BoundInv
<1>13. CASE Stop
  <2>1. Extra /\ queued' = <<>> /\ UNCHANGED typed
    BY <1>13 DEF Stop
  <2>2. Len(requests') = r /\ (phase' # "stream" => current' = None)
    BY <1>1, <1>7, <1>13 DEF Stop, Fail, r
  <2>. QED
    BY <1>0, <1>1, <1>4, <2>1, <2>2 DEF BoundInv
<1>14. CASE Break \/ EndsShort
  <2>1. Extra /\ UNCHANGED <<queued, typed>> /\ Len(requests') = r /\ current' = None
    BY <1>7, <1>14 DEF Break, EndsShort, Fail
  <2>. QED
    BY <1>0, <1>1, <1>4, <2>1 DEF BoundInv
<1>15. CASE LoadFails
  <2>1. Extra /\ UNCHANGED <<queued, typed, requests>> /\ (phase' # "stream" => current' = None)
    BY <1>8, <1>15 DEF LoadFails
  <2>. QED
    BY <1>0, <1>1, <1>4, <2>1 DEF BoundInv
<1>16. CASE Fails
  <2>1. Extra /\ UNCHANGED <<queued, typed, phase, current>>
    BY <1>16 DEF Fails
  <2>2. Len(requests') = r
    BY <1>6, <1>16 DEF Fails, Altering
  <2>. QED
    BY <1>0, <1>1, <1>4, <2>1, <2>2 DEF BoundInv
<1>17. CASE Settle
  <2>0. UNCHANGED <<typed, extras>>
    BY <1>17 DEF Settle
  <2>1. CASE UNCHANGED <<queued, current, requests>> /\ phase # "stream"
    BY <1>0, <1>1, <1>5, <2>0, <2>1, <1>17 DEF Settle
  <2>2. CASE queued # <<>> /\ queued' = Tail(queued) /\ Deliver(Head(queued))
    <3>1. Len(queued') = q - 1 /\ q - 1 \in Nat
      BY <1>2, <2>2 DEF q
    <3>2. phase' = "stream" /\ Len(requests') = r + 1
      BY <1>3, <2>2 DEF Deliver, RunStream
    <3>. QED
      BY <1>0, <1>1, <2>0, <3>1, <3>2 DEF BoundInv
  <2>. QED
    BY <1>17, <2>1, <2>2 DEF Settle
<1>18. CASE Delta \/ Read
  BY <1>1, <1>5, <1>18 DEF Delta, Read, server, r
<1>19. CASE StreamEnds \/ Refused
  <2>1. UNCHANGED <<queued, typed, extras>> /\ current' = None
    BY <1>19 DEF StreamEnds, Refused, Fail
  <2>2. Len(requests') = r
    <3>1. requests' = [requests EXCEPT ![current].at = "over"]
      BY <1>19 DEF StreamEnds, Refused
    <3>. QED
      BY <3>1 DEF PageType, r
  <2>. QED
    BY <1>5, <2>1, <2>2
<1>20. CASE Show
  <2>1. UNCHANGED <<queued, typed, extras, requests>> /\ (phase' # "stream" => current' = None)
    BY <1>8, <1>20 DEF Show
  <2>. QED
    BY <1>5, <2>1 DEF r
<1>21. CASE Altered \/ Take \/ Finish \/ Lose
  <2>1. UNCHANGED <<queued, typed, extras, phase, current>>
    BY <1>21 DEF Altered, Take, Finish, Lose
  <2>2. Len(requests') = r
    <3>1. CASE Altered
      <4>1. PICK s \in Pending : requests' = [requests EXCEPT ![s].at = "over"]
        BY <3>1 DEF Altered
      <4>. QED
        BY <1>6, <4>1 DEF Set
    <3>2. CASE Take
      BY <1>6, <3>2 DEF Take
    <3>3. CASE Finish
      BY <1>6, <3>3 DEF Finish
    <3>4. CASE Lose
      BY <1>6, <3>4 DEF Lose
    <3>. QED
      BY <1>21, <3>1, <3>2, <3>3, <3>4
  <2>. QED
    BY <1>1, <1>5, <2>1, <2>2
<1>. QED
  BY <1>9, <1>10, <1>11, <1>12, <1>13, <1>14, <1>15, <1>16, <1>17, <1>18, <1>19, <1>20, <1>21
  DEF Next, User, Network, Progress

-----------------------------------------------------------------------------
(* The theorems. *)

Strengthening == PageType /\ OwnInv /\ PageInv /\ BoundInv

\* What the theorems assume.
Bounds == MaxActs \in Nat /\ MaxTurns \in Nat

LEMMA StartsInOrder == ASSUME Home \in Convs, Bounds, Init PROVE Strengthening
<1>1. PageType
  BY InitType DEF Bounds
<1>2. StreamInv /\ OwnInv /\ QueueInv /\ ReceivedInv
  BY DEF Init, StreamInv, OwnInv, QueueInv, ReceivedInv, Pending
<1>3. OrderInv
  BY DEF Init, OrderInv, Altering, Pending, UpToDate
<1>4. ASSUME NEW c \in Convs PROVE RowsOnce(c)
  <2>1. store[c] = <<>> \/ store[c] = <<<<0, "turn", 0>>, <<0, "reply", 0>>>>
    BY DEF Init
  <2>. QED
    BY <2>1 DEF RowsOnce
<1>5. BoundInv
  BY DEF Init, BoundInv, Bounds
<1>. QED
  BY <1>1, <1>2, <1>3, <1>4, <1>5 DEF Strengthening, PageInv

LEMMA StaysInOrder == ASSUME Bounds, Strengthening, [Next]_vars PROVE Strengthening'
<1>1. CASE Next
  <2>1. PageType /\ StreamInv /\ OwnInv /\ QueueInv /\ ReceivedInv /\ OrderInv /\ BoundInv
        /\ \A c \in Convs : RowsOnce(c)
    BY DEF Strengthening, PageInv
  <2>2. Named
    BY <2>1, BoundNames DEF Bounds
  <2>3. PageType'
    BY <1>1, <2>1, <2>2, UserType, NetworkType, ProgressType DEF Next
  <2>4. StreamInv' /\ OwnInv' /\ QueueInv' /\ ReceivedInv'
    BY <1>1, <2>1, <2>2, StreamStep, OwnStep, QueueStep, ReceivedStep
  <2>5. \A c \in Convs : RowsOnce(c)'
    BY <1>1, <2>1, <2>2, RowsStep
  <2>6. OrderInv'
    BY <1>1, <2>1, <2>2, OrderUser, OrderNetwork, OrderProgress DEF Next
  <2>7. BoundInv'
    BY <1>1, <2>1, BoundStep DEF Bounds
  <2>. QED
    BY <2>3, <2>4, <2>5, <2>6, <2>7 DEF Strengthening, PageInv
<1>2. CASE UNCHANGED vars
  BY <1>2 DEF vars, Strengthening, PageInv, PageType, OwnInv, StreamInv, QueueInv, ReceivedInv,
              OrderInv, RowsOnce, UpToDate, Alters, Altering, Pending, BoundInv
<1>. QED
  BY <1>1, <1>2

LEMMA InOrder ==
    ASSUME Strengthening
    PROVE  OneAtATime /\ TurnsAsTyped /\ ShowsWhatIsStored
<1>1. OneAtATime
  BY DEF Strengthening, PageInv, StreamInv, OneAtATime, Unclaimed
<1>2. TurnsAsTyped
  BY QueueInOrder DEF Strengthening, PageInv
<1>3. ShowsWhatIsStored
  BY DEF Strengthening, PageInv, OrderInv, PageType, UpToDate, Altering, ShowsWhatIsStored
<1>. QED
  BY <1>1, <1>2, <1>3

LEMMA Typed ==
    ASSUME Bounds, None \notin Ids, Strengthening
    PROVE  TypeOK
<1>1. PageType /\ StreamInv /\ QueueInv /\ BoundInv /\ Named
  BY BoundNames DEF Strengthening, PageInv, Bounds
<1>2. queued \in Seq(Turns)
  <2>1. queued \in Seq(Nat) /\ DOMAIN queued = 1..Len(queued)
        /\ DOMAIN typed = 1..Len(typed) /\ Len(typed) \in Nat /\ Len(typed) <= MaxTurns
    BY <1>1 DEF PageType, BoundInv
  <2>2. \A i \in 1..Len(queued) : queued[i] \in Turns
    BY <1>1, <2>1 DEF QueueInv, Turns, Bounds
  <2>. QED
    BY <2>1, <2>2, MoreRows
<1>3. current \in (DOMAIN requests) \cup {None} /\ (current # None <=> phase = "stream")
  BY <1>1 DEF StreamInv, BoundInv, Pending, Named
<1>. QED
  BY <1>1, <1>2, <1>3 DEF PageType, TypeOK, Ids, Phases

LEMMA AlwaysInOrder ==
    ASSUME Home \in Convs, Bounds
    PROVE  Init /\ [][Next]_vars => [](OneAtATime /\ TurnsAsTyped /\ ShowsWhatIsStored)
<1>1. Init => Strengthening
  BY StartsInOrder
<1>2. Strengthening /\ [Next]_vars => Strengthening'
  BY StaysInOrder
<1>3. Strengthening => OneAtATime /\ TurnsAsTyped /\ ShowsWhatIsStored
  BY InOrder
<1>. QED
  BY <1>1, <1>2, <1>3, PTL

LEMMA AlwaysTyped ==
    ASSUME Home \in Convs, Bounds, None \notin Ids
    PROVE  Init /\ [][Next]_vars => []TypeOK
<1>1. Init => Strengthening
  BY StartsInOrder
<1>2. Strengthening /\ [Next]_vars => Strengthening'
  BY StaysInOrder
<1>3. Strengthening => TypeOK
  BY Typed
<1>. QED
  BY <1>1, <1>2, <1>3, PTL

\* Every variable keeps its shape: rows name requests, and requests are no more than turns
\* and other acts.
THEOREM TypeCorrect == ASSUME Home \in Convs, Bounds, None \notin Ids PROVE Spec => []TypeOK
  BY AlwaysTyped, PTL DEF Spec

\* Whatever is typed, stopped and broken, the server works on one request of the page at
\* a time, but for those that were broken off and those that claim no flag.
THEOREM OneStream == ASSUME Home \in Convs, Bounds PROVE Spec => []OneAtATime
  BY AlwaysInOrder, PTL DEF Spec

\* The queue: every turn the server takes up was typed in the conversation it is added to,
\* is taken up once, and in the order of typing.
THEOREM QueueIsFifo == ASSUME Home \in Convs, Bounds PROVE Spec => []TurnsAsTyped
  BY AlwaysInOrder, PTL DEF Spec

\* A page at rest shows what is stored.
THEOREM RestsUpToDate == ASSUME Home \in Convs, Bounds PROVE Spec => []ShowsWhatIsStored
  BY AlwaysInOrder, PTL DEF Spec
=============================================================================
