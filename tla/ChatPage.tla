------------------------------ MODULE ChatPage ------------------------------
(***************************************************************************)
(* The page of a conversation, chat/[id]/+page.svelte: the rows it shows,   *)
(* the turns typed while a reply streams, and its requests as the server    *)
(* takes them up.  The page is one thread of control: between two answers   *)
(* of the network it runs alone (its tick() waits for no event).  The flag  *)
(* streaming keeps its requests apart; three kinds do not claim it.  What   *)
(* the server does with a request is Thread's; here it is what the page     *)
(* relies on.  Titles, tags, settings, what a rating says and the texts     *)
(* themselves are left out.                                                 *)
(*                                                                          *)
(* A row is <<id, kind, text>>: the request that made it, "turn" or         *)
(* "reply" (the variants of a reply count as one), and the request that     *)
(* wrote its text.  A placeholder of the page has no id, and what the page  *)
(* itself wrote has no stored text.                                         *)
(***************************************************************************)
EXTENDS Naturals, FiniteSetsExt, SequencesExt

CONSTANTS
    Convs,
    Home,           \* the conversation the page opens with
    MaxTurns,       \* bound on the turns typed
    MaxExtras,      \* bound on the rest: other requests, navigations, stops, broken
                    \* streams and failing requests
    MaxActs,        \* bound on both together
    None

Turns == 1..MaxTurns
Placeholder(kind) == <<None, kind, None>>
Hole == Placeholder(None)               \* undefined
Unclaimed == {"fix", "cut", "rate"}     \* the requests that do not claim the flag

VARIABLES
    open,           \* currentId
    messages,       \* the rows shown
    queued,
    streaming,
    phase,          \* where runStream waits
    current,        \* the request of the stream
    requests,       \* every request made, in order
    loads,          \* the loads in flight in the order they began: [conv, rows, own]
    store,          \* the rows of each conversation
    typed,          \* history: the conversation each turn was typed in
    received,       \* history: the requests the server took up, in order
    orderly,        \* history: nothing was broken off, no load overtook another, and no
                    \* unclaimed request met another request, a load or a navigation
    extras

vars == <<open, messages, queued, streaming, phase, current, requests, loads, store,
          typed, received, orderly, extras>>

server == <<store, received>>

-----------------------------------------------------------------------------
Extra == extras < MaxExtras /\ Len(typed) + extras < MaxActs /\ extras' = extras + 1

-----------------------------------------------------------------------------
(* Requests. *)

Pending == {r \in DOMAIN requests : requests[r].at # "over"}

Altering == {r \in Pending : requests[r].kind \in Unclaimed}

\* Row i with the text of r, None for the page's own.
Written(rows, i, r) == [rows EXCEPT ![i][3] = r]

\* What streams, or an error, is added to the last row shown, whichever it is.
Extended == IF messages = <<>> THEN messages ELSE Written(messages, Len(messages), None)

\* Mutant: the assignment is one row off.
PlacedBelow(rows, i, row) ==
    [j \in 1..(IF i < Len(rows) THEN Len(rows) ELSE i + 1) |->
        IF j = i + 1 THEN row ELSE IF j \in DOMAIN rows THEN rows[j] ELSE Hole]

\* An assignment to messages[i], which may be past the end by now.
Placed(rows, i, row) ==
    [j \in 1..(IF i > Len(rows) THEN i ELSE Len(rows)) |->
        IF j = i THEN row ELSE IF j \in DOMAIN rows THEN rows[j] ELSE Hole]

\* What is left of rows when row i is made again: a reply goes; a turn is edited.
Kept(rows, i, r) ==
    IF rows[i][2] = "reply" THEN SubSeq(rows, 1, i - 1)
    ELSE SubSeq(Written(rows, i, r), 1, i)

\* fetch: turn is what a send carries; index and row name the row another is about.
Post(kind, turn, index, row) ==
    /\ requests' = Append(requests,
           [conv |-> open, kind |-> kind, turn |-> turn, index |-> index, row |-> row,
            at |-> "sent", broken |-> FALSE])
    /\ orderly' = (/\ orderly
                   /\ kind \in Unclaimed => Pending = {} /\ loads = <<>>
                   /\ Altering = {})

\* load, up to its first await.
Load(c, own) == loads' = Append(loads, [conv |-> c, rows |-> None, own |-> own])

\* runStream, up to its first await.
RunStream(kind, turn, index, row) ==
    /\ streaming' = TRUE /\ phase' = "stream" /\ current' = Len(requests) + 1
    /\ Post(kind, turn, index, row)

\* deliver: the turn and the reply to come are shown at once.
Deliver(t) ==
    /\ messages' = messages \o <<Placeholder("turn"), Placeholder("reply")>>
    /\ RunStream("send", t, None, None)

-----------------------------------------------------------------------------
(* The user. *)

\* Mutant: a turn typed while a reply streams is sent at once.
SendAtOnce ==
    /\ Len(typed) < MaxTurns /\ Len(typed) + extras < MaxActs
    /\ typed' = Append(typed, open)
    /\ Deliver(Len(typed'))
    /\ UNCHANGED <<open, queued, loads, server, extras>>

\* send: while a reply streams the turn waits.
Send ==
    /\ Len(typed) < MaxTurns /\ Len(typed) + extras < MaxActs
    /\ typed' = Append(typed, open)
    /\ \/ /\ streaming
          /\ queued' = Append(queued, Len(typed'))
          /\ UNCHANGED <<messages, streaming, phase, current, requests, orderly>>
       \/ ~streaming /\ Deliver(Len(typed')) /\ UNCHANGED queued
    /\ UNCHANGED <<open, loads, server, extras>>

CancelQueued ==
    /\ \E i \in DOMAIN queued : queued' = RemoveAt(queued, i)
    /\ UNCHANGED <<open, messages, streaming, phase, current, requests, loads, server,
                   typed, orderly, extras>>

\* The controls of row i.
Control(i) == ~streaming /\ i \in DOMAIN messages /\ messages[i][1] # None

\* regenAt, and saveEdit of a turn: what follows is discarded and answered again.
Redo ==
    /\ Extra
    /\ \E i \in DOMAIN messages :
         /\ Control(i)
         /\ messages' = Append(Kept(messages, i, None), Placeholder("reply"))
         /\ RunStream("redo", None, i, messages[i])
    /\ UNCHANGED <<open, queued, loads, server, typed>>

\* continueAt.
Continue ==
    LET i == Len(messages)
    IN  /\ Extra
        /\ Control(i) /\ messages[i][2] = "reply"
        /\ RunStream("continue", None, i, messages[i])
        /\ UNCHANGED <<open, messages, queued, loads, server, typed>>

\* switchVariant, saveEdit of a reply ("fix"), deleteAt ("cut") and rateMessage ("rate"):
\* their controls are hidden while a reply streams, but they leave the flag to others.
Alter ==
    /\ Extra
    /\ \E i \in DOMAIN messages, kind \in Unclaimed :
         /\ Control(i)
         /\ kind \in {"fix", "rate"} => messages[i][2] = "reply"
         /\ Post(kind, None, i, messages[i])
    /\ UNCHANGED <<open, messages, queued, streaming, phase, current, loads, server, typed>>

\* Mutant: the queue outlives its conversation.
NavigateOnly ==
    /\ Extra
    /\ open' \in Convs \ {open}
    /\ Load(open', FALSE)
    /\ orderly' = (orderly /\ Altering = {})
    /\ UNCHANGED <<messages, queued, streaming, phase, current, requests, server, typed>>

\* The route changes: the effects of currentId load the conversation and drop the
\* queue.  A stream goes on.
Navigate ==
    /\ Extra
    /\ open' \in Convs \ {open}
    /\ Load(open', FALSE)
    /\ orderly' = (orderly /\ Altering = {})
    /\ queued' = <<>>
    /\ UNCHANGED <<messages, streaming, phase, current, requests, server, typed>>

-----------------------------------------------------------------------------
(* The stream of the page. *)

\* appendDelta; without a row to add to it throws, which is one way to Break.
Delta ==
    /\ phase = "stream" /\ requests[current].at \in {"working", "answered"}
    /\ messages # <<>>
    /\ messages' = Extended
    /\ UNCHANGED <<open, queued, streaming, phase, current, requests, loads, server, typed,
                   orderly, extras>>

\* Mutant: it is the stream's conversation that is loaded again.
StreamEndsThere ==
    /\ phase = "stream" /\ requests[current].at = "answered"
    /\ requests' = [requests EXCEPT ![current].at = "over"]
    /\ phase' = "load" /\ current' = None
    /\ Load(requests[current].conv, TRUE)
    /\ UNCHANGED <<open, messages, queued, streaming, server, typed, orderly, extras>>

\* [DONE], which follows the storing of the reply: the open conversation is loaded.
StreamEnds ==
    /\ phase = "stream" /\ requests[current].at = "answered"
    /\ requests' = [requests EXCEPT ![current].at = "over"]
    /\ phase' = "load" /\ current' = None
    /\ Load(open, TRUE)
    /\ UNCHANGED <<open, messages, queued, streaming, server, typed, orderly, extras>>

\* The catch of runStream: an error is added to what is shown, and nothing is loaded.
Fail ==
    /\ phase' = "failed" /\ current' = None /\ orderly' = FALSE
    /\ messages' = Extended

\* The page reads no more of its stream; the server may go on for a while.
Abandon ==
    LET at == requests[current].at
    IN  requests' = [requests EXCEPT
            ![current].broken = TRUE,
            ![current].at = IF at \in {"sent", "working"} THEN at ELSE "over"]

\* stop: the queue is dropped, and what still streams is broken off.
Stop ==
    /\ streaming /\ Extra
    /\ queued' = <<>>
    /\ \/ /\ phase = "stream"
          /\ Fail /\ Abandon
       \/ /\ phase # "stream"
          /\ UNCHANGED <<messages, phase, current, orderly, requests>>
    /\ UNCHANGED <<open, streaming, loads, server, typed>>

\* The network breaks the stream.
Break ==
    /\ phase = "stream" /\ Extra
    /\ Fail /\ Abandon
    /\ UNCHANGED <<open, queued, streaming, loads, server, typed>>

\* The connection is closed before [DONE]: for consumeStream that is the end of it.
EndsShort ==
    /\ phase = "stream" /\ requests[current].at = "working" /\ Extra
    /\ Abandon
    /\ orderly' = FALSE
    /\ phase' = "load" /\ current' = None
    /\ Load(open, TRUE)
    /\ UNCHANGED <<open, messages, queued, streaming, server, typed>>

\* The server has refused the request.
Refused ==
    /\ phase = "stream" /\ requests[current].at = "refused"
    /\ requests' = [requests EXCEPT ![current].at = "over"]
    /\ Fail
    /\ UNCHANGED <<open, queued, streaming, loads, server, typed, extras>>

\* Mutant: the queue is looked at before the flag is given back.
SettleLate ==
    /\ phase \in {"followups", "failed"}
    /\ streaming' = FALSE /\ phase' = "idle"
    /\ UNCHANGED <<open, messages, queued, current, requests, loads, server, typed,
                   orderly, extras>>

\* The finally, once getFollowups has answered or failed, or the stream was broken: the
\* flag is given back, and drainQueue sends the first turn of the queue.
Settle ==
    /\ phase \in {"followups", "failed"}
    /\ \/ /\ queued = <<>>
          /\ streaming' = FALSE /\ phase' = "idle"
          /\ UNCHANGED <<messages, queued, current, requests, orderly>>
       \/ /\ queued # <<>>
          /\ queued' = Tail(queued)
          /\ Deliver(Head(queued))
    /\ UNCHANGED <<open, loads, server, typed, extras>>

-----------------------------------------------------------------------------
(* Answers to the page. *)

\* A load is answered: what it read is shown, whatever is open by now.  A stream waits
\* for its own.
Show ==
    /\ \E i \in DOMAIN loads :
         /\ loads[i].rows # None
         /\ messages' = loads[i].rows
         /\ loads' = RemoveAt(loads, i)
         /\ phase' = IF loads[i].own THEN "followups" ELSE phase
         /\ orderly' = (orderly /\ i = 1)
    /\ UNCHANGED <<open, queued, streaming, current, requests, server, typed, extras>>

\* A load fails: loadingError.
LoadFails ==
    /\ Extra
    /\ \E i \in DOMAIN loads :
         /\ loads' = RemoveAt(loads, i)
         /\ phase' = IF loads[i].own THEN "followups" ELSE phase
    /\ orderly' = FALSE
    /\ UNCHANGED <<open, messages, queued, streaming, current, requests, server, typed>>

\* An answer: deleteAt hides what follows its index; rateMessage puts the row it began
\* with at its index; the others load the open conversation.
Altered ==
    /\ \E r \in Pending :
         LET q == requests[r]
         IN  /\ q.kind \in Unclaimed /\ q.at = "answered"
             /\ requests' = [requests EXCEPT ![r].at = "over"]
             /\ \/ /\ q.kind = "cut"
                   /\ messages' = SubSeq(messages, 1, Min({q.index - 1, Len(messages)}))
                   /\ UNCHANGED loads
                \/ /\ q.kind = "rate"
                   /\ messages' = Placed(messages, q.index, q.row)
                   /\ UNCHANGED loads
                \/ /\ q.kind = "fix"
                   /\ Load(open, FALSE)
                   /\ UNCHANGED messages
    /\ UNCHANGED <<open, queued, streaming, phase, current, server, typed, orderly, extras>>

-----------------------------------------------------------------------------
(* The server, as Thread has it: requests are taken up in any order, a reply is stored
   before its stream ends, and a broken request may be lost or carried out. *)

Set(r, at) == requests' = [requests EXCEPT ![r].at = at]

\* The row a request is about, if the conversation has it.
At(q) == {i \in DOMAIN store[q.conv] : SubSeq(store[q.conv][i], 1, 2) = SubSeq(q.row, 1, 2)}

\* What becomes of a request whose row is gone.  A reply that was made again can still be
\* rated; the page ignores a rating that was refused.
Refusals(q) ==
    CASE q.kind \in {"fix", "cut"} -> {"answered"}
      [] q.kind = "rate" -> {"answered", "over"}
      [] OTHER -> {IF q.broken THEN "over" ELSE "refused"}

Take ==
    /\ \E r \in Pending :
         LET q == requests[r]
             rows == store[q.conv]
             Becomes(new) == store' = [store EXCEPT ![q.conv] = new]
         IN  /\ q.at = "sent"
             /\ received' = Append(received, r)
             /\ \/ /\ q.kind = "send"
                   /\ Becomes(Append(rows, <<r, "turn", r>>))
                   /\ Set(r, "working")
                \/ /\ q.kind # "send" /\ At(q) = {}
                   /\ \E at \in Refusals(q) : Set(r, at)
                   /\ UNCHANGED store
                \/ /\ q.kind # "send"
                   /\ \E i \in At(q) :
                        Becomes(CASE q.kind = "redo" -> Kept(rows, i, r)
                                  [] q.kind \in {"continue", "rate"} -> rows
                                  [] q.kind = "fix" -> Written(rows, i, r)
                                  [] q.kind = "cut" -> SubSeq(rows, 1, i - 1))
                   /\ Set(r, IF q.kind \in Unclaimed THEN "answered" ELSE "working")
    /\ UNCHANGED <<open, messages, queued, streaming, phase, current, loads, typed, orderly,
                   extras>>

\* Nothing is stored of an answer that is empty, unless it is made again: the reply
\* before is restored.
Finish ==
    /\ \E r \in Pending :
         LET q == requests[r]
             rows == store[q.conv]
             Becomes(new) == store' = [store EXCEPT ![q.conv] = new]
         IN  /\ q.at = "working"
             /\ \/ q.kind # "continue" /\ Becomes(Append(rows, <<r, "reply", r>>))
                \/ q.kind = "continue" /\ \E i \in At(q) : Becomes(Written(rows, i, r))
                \/ (q.kind = "redo" => q.row[2] = "turn") /\ UNCHANGED store
             /\ Set(r, IF q.broken THEN "over" ELSE "answered")
    /\ UNCHANGED <<open, messages, queued, streaming, phase, current, loads, received,
                   typed, orderly, extras>>

\* A request that claims no flag fails.  But for a rating its status is not looked at:
\* for the page it has been answered, unless the network failed.
Fails ==
    /\ Extra /\ orderly' = FALSE
    /\ \E r \in Altering, at \in {"answered", "over"} :
         /\ requests[r].at = "sent" /\ Set(r, at)
         /\ requests[r].kind = "rate" => at = "over"
    /\ UNCHANGED <<open, messages, queued, streaming, phase, current, loads, server, typed>>

Lose ==
    /\ \E r \in Pending : requests[r].at = "sent" /\ requests[r].broken /\ Set(r, "over")
    /\ UNCHANGED <<open, messages, queued, streaming, phase, current, loads, server, typed,
                   orderly, extras>>

\* get_conversation.
Read ==
    /\ \E i \in DOMAIN loads :
         /\ loads[i].rows = None
         /\ loads' = [loads EXCEPT ![i].rows = store[loads[i].conv]]
    /\ UNCHANGED <<open, messages, queued, streaming, phase, current, requests, server,
                   typed, orderly, extras>>

-----------------------------------------------------------------------------
Init ==
    /\ open = Home /\ messages = <<>> /\ queued = <<>>
    /\ streaming = FALSE /\ phase = "idle" /\ current = None
    /\ requests = <<>> /\ loads = <<>>
    /\ store = [c \in Convs |-> IF c = Home THEN <<>>
                            ELSE <<<<0, "turn", 0>>, <<0, "reply", 0>>>>]
    /\ typed = <<>> /\ received = <<>> /\ orderly = TRUE
    /\ extras = 0

User == Send \/ CancelQueued \/ Redo \/ Continue \/ Alter \/ Navigate \/ Stop
Network == Delta \/ Break \/ EndsShort \/ LoadFails \/ Fails \/ Lose
Progress == StreamEnds \/ Refused \/ Settle \/ Show \/ Altered \/ Take \/ Finish \/ Read

Next == User \/ Network \/ Progress

\* The server and the network answer in the end; the user need do nothing.
Fairness ==
    /\ WF_vars(Take) /\ WF_vars(Finish) /\ WF_vars(Read) /\ WF_vars(Show)
    /\ WF_vars(StreamEnds) /\ WF_vars(Refused) /\ WF_vars(Settle) /\ WF_vars(Altered)

Spec == Init /\ [][Next]_vars /\ Fairness

-----------------------------------------------------------------------------
(* Properties. *)

\* Only what has no id may have no kind.
Rows(writers) == writers \X ({"turn", "reply"} \cup (writers \cap {None})) \X writers

TypeOK ==
    /\ open \in Convs /\ streaming \in BOOLEAN /\ orderly \in BOOLEAN
    /\ messages \in Seq(Rows(0..MaxActs \cup {None})) /\ queued \in Seq(Turns)
    /\ phase \in {"idle", "stream", "load", "followups", "failed"}
    /\ streaming <=> phase # "idle"
    /\ current \in (DOMAIN requests) \cup {None}
    /\ current # None <=> phase = "stream"
    /\ store \in [Convs -> Seq(Rows(0..MaxActs))]
    /\ typed \in Seq(Convs)

\* "One tab": at any time the server works on at most one request of the page, unless
\* one of them was broken off or is one that does not claim the flag.
OneAtATime ==
    \A r, s \in Pending :
        \/ r = s
        \/ requests[r].broken \/ requests[s].broken
        \/ {requests[r].kind, requests[s].kind} \cap Unclaimed # {}

\* "Queued turns auto-send FIFO" (CHANGELOG): the turns the server takes up were typed in
\* the conversation they are added to, each is taken up once, and in the order they were
\* typed unless one of them was broken off.
TurnsAsTyped ==
    \A j \in DOMAIN received :
        LET q == requests[received[j]]
        IN  q.kind = "send" =>
              /\ typed[q.turn] = q.conv
              /\ \A i \in 1..j - 1 :
                   LET p == requests[received[i]]
                   IN  p.kind = "send" =>
                         p.turn # q.turn /\ (p.turn < q.turn \/ p.broken \/ q.broken)

\* A page at rest shows what is stored of the open conversation, whatever was queued,
\* navigated and streamed before; unless a stream was broken off (the page keeps what it
\* had, or loads what is not yet stored), a load overtook another, or a request that
\* claims no flag, an edit, a deletion or a rating, failed or met another request, a load
\* or a navigation: its answer is written to whatever is shown by then.
ShowsWhatIsStored ==
    orderly /\ ~streaming /\ loads = <<>> /\ Pending = {} => messages = store[open]

\* A queued turn is sent, or dropped by the user.
QueueDrains == \A t \in Turns : Contains(queued, t) ~> ~Contains(queued, t)
=============================================================================
