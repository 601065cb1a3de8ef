----------------------------- MODULE MCServices -----------------------------
(***************************************************************************)
(* The services around a conversation: the routing of a turn, its rounds,   *)
(* what it is grounded on, how documents come in, the login limiter and the *)
(* compatible APIs.  part says which of them a behaviour is about; the       *)
(* others stay as they began.                                               *)
(***************************************************************************)
EXTENDS Integers, Sequences, FiniteSets, TLC

CONSTANT None

VARIABLE part

-----------------------------------------------------------------------------
(* Two requests and an administrator on one process, an administrator on another. *)

CONSTANTS Requests, Admins, Process, Extras, Models, TTL, MaxTime, MaxVersion

VARIABLES version, enabled, latest, map, clock, routePc, model, key, taken, rows, answer,
          over, fresh, excused

Routing == INSTANCE Connections WITH pc <- routePc, ended <- over

\* Rows have ids from 1 on; the environment's connection is 0.
ASSUME RoutingAssumption ==
    /\ Extras \subseteq Nat \ {0} /\ Requests \cap Admins = {}
    /\ TTL \in Nat /\ MaxTime \in Nat /\ MaxVersion \in Nat \ {0}
    /\ None \notin Extras \X (1..MaxVersion)

MCProcess == [x \in Requests \cup Admins |-> IF x = "a2" THEN "p2" ELSE "p1"]

routing == <<version, enabled, latest, map, clock, routePc, model, key, taken, rows, answer,
             over, fresh, excused>>

-----------------------------------------------------------------------------
(* One streamed turn. *)

CONSTANTS Kinds, Servers, Plugins, Calls, MaxLoops, MaxTokens

VARIABLES kind, turnPc, servers, dispatch, plugin, body, kept, round, msgs, chunks, said,
          open, calls, final, shown, tools, aborted, gone, reply, failed, cut, late

Answering == INSTANCE Turn WITH
    pc <- turnPc, text <- said, sent <- shown, stored <- reply

ASSUME TurnAssumption ==
    /\ Kinds \subseteq [tools : BOOLEAN, persist : BOOLEAN, watched : BOOLEAN]
    /\ Calls \subseteq Nat /\ MaxLoops \in Nat /\ MaxTokens \in Nat
    /\ Plugins \in Seq(STRING)

\* A conversation with tools, and a temporary chat.
MCKinds == {[tools |-> TRUE, persist |-> TRUE, watched |-> TRUE],
            [tools |-> FALSE, persist |-> FALSE, watched |-> FALSE]}
MCPlugins == <<"A", "B">>
NoPlugins == <<>>

answering == <<kind, turnPc, servers, dispatch, plugin, body, kept, round, msgs, chunks, said,
               open, calls, final, shown, tools, aborted, gone, reply, failed, cut, late>>

-----------------------------------------------------------------------------
(* The context of a turn: two documents with three chunks at most. *)

CONSTANTS Docs, Attachments, Settings, Scores, MaxResults, Histories, Bracketed

VARIABLES settings, docs, contextPc, found, dense, sparse, top, rated, sections, sources,
          memory, history, extra, upstream

Grounding == INSTANCE Retrieval WITH pc <- contextPc, rows <- found, sent <- upstream

\* Documents have ids from 1 on; no setting and no count of tokens is negative.
ASSUME ContextAssumption ==
    /\ IsFiniteSet(Docs) /\ Docs \subseteq Nat \ {0}
    /\ Attachments \subseteq
         [Docs -> [own : BOOLEAN, full : BOOLEAN, len : Nat, there : {TRUE}]]
    /\ \A s \in Settings : /\ {s.rerank, s.hybrid, s.full, s.web} \subseteq BOOLEAN
                          /\ {s.topK, s.candidates, s.messages, s.tokens} \subseteq Nat
    /\ 0 \in Scores /\ Scores \subseteq Nat
    /\ MaxResults \in Nat /\ Histories \subseteq Seq(Nat)

MCAttachments ==
    {f \in [Docs -> [own : BOOLEAN, full : BOOLEAN, len : 1..2, there : {TRUE}]] :
        f[1].len + f[2].len <= 3}

Excerpting(k, n, rerank, hybrid, web, messages, tokens) ==
    [topK |-> k, candidates |-> n, rerank |-> rerank, hybrid |-> hybrid, full |-> FALSE,
     web |-> web, messages |-> messages, tokens |-> tokens]
Whole(web, messages, tokens) ==
    [Excerpting(1, 1, FALSE, FALSE, web, messages, tokens) EXCEPT !.full = TRUE]

MCSettings ==
    {Excerpting(1, 3, TRUE, TRUE, TRUE, 2, 3), Excerpting(2, 1, TRUE, TRUE, FALSE, 0, 3),
     Excerpting(2, 1, FALSE, TRUE, TRUE, 0, 0), Excerpting(1, 1, FALSE, FALSE, TRUE, 2, 0),
     Whole(TRUE, 0, 2), Whole(FALSE, 3, 3)}

MCHistories == UNION {[1..n -> {1, 2, 4}] : n \in 0..3}
NoHistories == {<<>>}

grounding == <<settings, docs, contextPc, found, dense, sparse, top, rated, sections, sources,
               memory, history, extra, upstream>>

-----------------------------------------------------------------------------
(* A document that comes in: texts of up to four characters. *)

CONSTANTS Texts, Sizes, Overlaps, Urls, MaxRedirects, MaxDocuments

VARIABLES loadPc, source, visited, hops, text, size, overlap, pieces, stored

Loading == INSTANCE Ingest WITH pc <- loadPc, seen <- visited

\* A chunk has a size; None is no interval.
ASSUME LoadingAssumption ==
    /\ Texts \subseteq Seq(BOOLEAN) /\ Sizes \subseteq Nat \ {0} /\ Overlaps \subseteq Nat
    /\ MaxRedirects \in Nat /\ MaxDocuments \in Nat
    /\ None \notin [from : Nat, to : Nat]

MCTexts == UNION {[1..n -> BOOLEAN] : n \in 0..4}
NoTexts == {<<>>}

loading == <<loadPc, source, visited, hops, text, size, overlap, pieces, stored>>

-----------------------------------------------------------------------------
(* The login limiter, on two processes. *)

CONSTANTS Processes, Limit, Window, Shared, MaxAttempts, MaxHiccups, MaxRestarts

VARIABLES shared, now, count, expires, local, loginPc, mine, nth, hiccups, restarts, asked,
          refused

ASSUME LoginAssumption ==
    /\ IsFiniteSet(Processes) /\ None \notin Processes
    /\ Limit \in Nat \ {0} /\ Window \in Nat \ {0}
    /\ Shared \subseteq BOOLEAN
    /\ MaxAttempts \in Nat /\ MaxHiccups \in Nat /\ MaxRestarts \in Nat

Login == INSTANCE Limiter WITH pc <- loginPc, n <- nth, MaxTime <- MaxTime + 1

login == <<shared, now, count, expires, local, loginPc, mine, nth, hiccups, restarts, asked,
           refused>>

-----------------------------------------------------------------------------
(* A request to a compatible API. *)

CONSTANTS Apis, MaxLines

VARIABLES api, apiPc, secret, disabled, streaming, status, events, reason, lines, ended

ASSUME RelayAssumption == Apis \subseteq {"openai", "anthropic"} /\ MaxLines \in Nat

Relaying == INSTANCE Relay WITH pc <- apiPc, key <- secret

relaying == <<api, apiPc, secret, disabled, streaming, status, events, reason, lines, ended>>

-----------------------------------------------------------------------------
Parts == {"routing", "answering", "grounding", "loading", "login", "relaying"}

all == <<part, routing, answering, grounding, loading, login, relaying>>

MCInit ==
    /\ part \in Parts
    /\ Routing!Init /\ Answering!Init /\ Loading!Init
    /\ Grounding!Init
    /\ part # "grounding" => /\ settings = CHOOSE s \in Settings : s.full
                             /\ docs = CHOOSE f \in Attachments : TRUE
    /\ Login!Init
    /\ part # "login" => ~shared
    /\ Relaying!Init
    /\ part # "relaying" => api = "openai"

MCNext ==
    \/ /\ part = "routing" /\ Routing!Next
       /\ UNCHANGED <<part, answering, grounding, loading, login, relaying>>
    \/ /\ part = "answering" /\ Answering!Next
       /\ UNCHANGED <<part, routing, grounding, loading, login, relaying>>
    \/ /\ part = "grounding" /\ Grounding!Next
       /\ UNCHANGED <<part, routing, answering, loading, login, relaying>>
    \/ /\ part = "loading" /\ Loading!Next
       /\ UNCHANGED <<part, routing, answering, grounding, login, relaying>>
    \/ /\ part = "login" /\ Login!Next
       /\ UNCHANGED <<part, routing, answering, grounding, loading, relaying>>
    \/ /\ part = "relaying" /\ Relaying!Next
       /\ UNCHANGED <<part, routing, answering, grounding, loading, login>>

MCSpec == MCInit /\ [][MCNext]_all

-----------------------------------------------------------------------------
\* The type invariants of the six modules.
TypesOK ==
    CASE part = "routing" -> Routing!TypeOK
      [] part = "answering" -> Answering!TypeOK
      [] part = "grounding" -> Grounding!TypeOK
      [] part = "loading" -> Loading!TypeOK
      [] part = "login" -> Login!TypeOK
      [] part = "relaying" -> Relaying!TypeOK

\* A turn goes to a connection that was enabled (Connections.RoutingIsCurrent).
RoutingIsCurrent == Routing!RoutingIsCurrent

\* A round's request can be answered (Turn.RequestSound).
RequestSound == Answering!RequestSound

\* What is stored was shown (Turn.StoredIsStreamed).
StoredIsStreamed == Answering!StoredIsStreamed

\* The work stops when the client leaves (Turn.GoneStops).
GoneStops == Answering!GoneStops

\* A citation's number names its source (Retrieval.CitationsResolve).
CitationsResolve == Grounding!CitationsResolve

\* The excerpts are the best there are (Retrieval.ExcerptsAreBest).
ExcerptsAreBest == Grounding!ExcerptsAreBest

\* The newest messages are replayed (Retrieval.BudgetKeepsNewest).
BudgetKeepsNewest == Grounding!BudgetKeepsNewest

\* A document's chunks cover it (Ingest.ChunksFaithful).
ChunksFaithful == Loading!ChunksFaithful

\* A refused login had its reason (Limiter.FallbackIsFair).
FallbackIsFair == Login!FallbackIsFair

\* A stream tells its client how it ended (Relay.StreamTellsAll).
StreamTellsAll == Relaying!StreamTellsAll
=============================================================================
