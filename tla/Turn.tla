------------------------------- MODULE Turn -------------------------------
(***************************************************************************)
(* One streamed answer: _stream_and_persist of conversations.py, with the   *)
(* tools it composes and dispatches (mcp.py, openapi_tools.py, tools.py)    *)
(* and the plugins around it (plugins.py).  The upstream answers in rounds; *)
(* a round that calls tools is replayed to it with their results.  The      *)
(* client may leave, which cancels the generator or is noticed by it; the   *)
(* upstream may refuse or break off; and a tool server may be removed, or   *)
(* answer what raises.  Where the answer is stored is Thread's.             *)
(*                                                                          *)
(* Text is a sequence of tokens: reasoning "r", content "c" and the tags    *)
(* the stream itself adds.  A message of the replay is <<"call", indices>>, *)
(* <<"result", index>>, or whatever the request began with.                 *)
(***************************************************************************)
EXTENDS Naturals, Sequences, FiniteSets, SequencesExt

CONSTANTS
    Kinds,          \* the turns: [tools, persist, watched] (watched: it asks whether
                    \* the client is gone)
    Servers,        \* external tool servers of the user
    Plugins,        \* plugin names in order of (priority, name)
    Calls,          \* indices of parallel tool calls in one answer
    MaxLoops,       \* max_tool_loops
    MaxTokens,      \* bound on the chunks of one round
    None

Builtin == "builtin"
Unknown == "unknown"        \* a name the model made up
Targets == {Builtin, Unknown} \cup Servers

VARIABLES
    kind,
    pc,
    servers,        \* the servers with a row: [enabled |-> ...]
    dispatch,       \* the tools composed for this turn, by where they go
    plugin,         \* the next plugin to run
    body,           \* the plugins whose edit the request body carries, in order
    kept,           \* history: the plugins that returned a valid edit
    round,          \* rounds begun
    msgs,           \* what is replayed to the upstream
    chunks,         \* chunks read in this round
    text,           \* iter_content
    open,           \* reasoning_open
    calls,          \* tool_buf: index -> target
    final,          \* final_content
    sent,           \* tokens the client was sent
    tools,          \* tools_executed: <<round, index, what became of it>>
    aborted,
    gone,           \* the client has left
    stored,         \* the text stored, None if none was
    failed,         \* history: the upstream or a tool server ended the turn
    cut,            \* history: the generator was cancelled, or raised, under way
    late            \* history: what began after the client left: chunks, rounds, calls

vars == <<kind, pc, servers, dispatch, plugin, body, kept, round, msgs, chunks, text,
          open, calls, final, sent, tools, aborted, gone, stored, failed, cut, late>>

NoKind == [tools |-> FALSE, persist |-> FALSE, watched |-> FALSE]
NoneLate == [chunks |-> 0, rounds |-> 0, calls |-> 0]
Gone == kind.watched /\ gone
Late(field) == late' = [late EXCEPT ![field] = IF gone THEN @ + 1 ELSE @]

-----------------------------------------------------------------------------
(* The environment. *)

\* The client closes its stream; the generator does not know yet.
Leaves ==
    /\ pc \notin {"begin", "done"} /\ ~gone
    /\ gone' = TRUE
    /\ UNCHANGED <<kind, pc, servers, dispatch, plugin, body, kept, round, msgs, chunks,
                   text, open, calls, final, sent, tools, aborted, stored, failed, cut, late>>

\* The generator of a departed client is cancelled where it waits, or its yield raises:
\* a round is left without its text.  Before the first round there is no finally.
Cancelled ==
    /\ gone /\ pc \in {"inlet", "round", "request", "read", "close", "tools"}
    /\ pc' = IF pc = "inlet" THEN "done" ELSE "outlet"
    /\ cut' = TRUE
    /\ UNCHANGED <<kind, servers, dispatch, plugin, body, kept, round, msgs, chunks, text,
                   open, calls, final, sent, tools, aborted, gone, stored, failed, late>>

\* The user disables or deletes a tool server in another tab.
ServerChanges ==
    /\ pc # "done"
    /\ \E s \in DOMAIN servers :
         \/ servers[s] /\ servers' = [servers EXCEPT ![s] = FALSE]
         \/ servers' = [x \in DOMAIN servers \ {s} |-> servers[x]]
    /\ UNCHANGED <<kind, pc, dispatch, plugin, body, kept, round, msgs, chunks, text, open,
                   calls, final, sent, tools, aborted, gone, stored, failed, cut, late>>

-----------------------------------------------------------------------------
(* Before the first round. *)

\* compose_tool_specs: the built-in tools, and those of the enabled servers that
\* answer; the others are passed over, unless the JSON of one is not the object that
\* _rpc takes it for: its AttributeError ends the turn.
Compose ==
    /\ pc = "begin"
    /\ kind' \in Kinds
    /\ LET enabled == {s \in DOMAIN servers : servers[s]}
       IN  \/ /\ \E answering \in SUBSET enabled :
                   dispatch' = IF kind'.tools THEN {Builtin} \cup answering ELSE {}
              /\ pc' = "inlet"
              /\ UNCHANGED failed
           \/ /\ kind'.tools /\ enabled # {}
              /\ pc' = "done" /\ failed' = TRUE
              /\ UNCHANGED dispatch
    /\ UNCHANGED <<servers, plugin, body, kept, round, msgs, chunks, text, open, calls,
                   final, sent, tools, aborted, gone, stored, cut, late>>

\* Mutant: the plugin is given the body itself, not a copy.
InletInPlace ==
    /\ pc = "inlet" /\ plugin <= Len(Plugins)
    /\ \E valid \in BOOLEAN :
         /\ body' = Append(body, Plugins[plugin])
         /\ kept' = IF valid THEN Append(kept, Plugins[plugin]) ELSE kept
    /\ plugin' = plugin + 1
    /\ UNCHANGED <<kind, pc, servers, dispatch, round, msgs, chunks, text, open, calls,
                   final, sent, tools, aborted, gone, stored, failed, cut, late>>

\* run_inlet: each plugin edits a copy; a valid result becomes the body, an exception,
\* a timeout or an off-contract result leaves it as it was.
Inlet ==
    /\ pc = "inlet" /\ plugin <= Len(Plugins)
    /\ \E valid \in BOOLEAN :
         LET copy == Append(body, Plugins[plugin])
         IN  /\ body' = IF valid THEN copy ELSE body
             /\ kept' = IF valid THEN Append(kept, Plugins[plugin]) ELSE kept
    /\ plugin' = plugin + 1
    /\ UNCHANGED <<kind, pc, servers, dispatch, round, msgs, chunks, text, open, calls,
                   final, sent, tools, aborted, gone, stored, failed, cut, late>>

InletsEnd ==
    /\ pc = "inlet" /\ plugin > Len(Plugins)
    /\ pc' = "round"
    /\ UNCHANGED <<kind, servers, dispatch, plugin, body, kept, round, msgs, chunks, text,
                   open, calls, final, sent, tools, aborted, gone, stored, failed, cut, late>>

-----------------------------------------------------------------------------
(* A round. *)

BeginRound ==
    /\ round' = round + 1
    /\ chunks' = 0 /\ text' = <<>> /\ open' = FALSE /\ calls' = <<>>
    /\ pc' = "request"
    /\ UNCHANGED aborted

\* Mutant: a new round does not ask whether the client is gone.
RoundUnasked ==
    /\ pc = "round"
    /\ IF round = MaxLoops
       THEN /\ pc' = "outlet"
            /\ UNCHANGED <<round, chunks, text, open, calls, aborted>>
       ELSE BeginRound
    /\ UNCHANGED <<kind, servers, dispatch, plugin, body, kept, msgs, final, sent, tools,
                   gone, stored, failed, cut, late>>

\* Mutant: one round too many.
RoundOnceMore ==
    /\ pc = "round"
    /\ IF round > MaxLoops \/ Gone
       THEN /\ aborted' = (round < MaxLoops)
            /\ pc' = "outlet"
            /\ UNCHANGED <<round, chunks, text, open, calls>>
       ELSE BeginRound
    /\ UNCHANGED <<kind, servers, dispatch, plugin, body, kept, msgs, final, sent, tools,
                   gone, stored, failed, cut, late>>

\* At most max_tool_loops rounds, and none once the client is gone.
Round ==
    /\ pc = "round"
    /\ IF round = MaxLoops \/ Gone
       THEN /\ aborted' = (round < MaxLoops)
            /\ pc' = "outlet"
            /\ UNCHANGED <<round, chunks, text, open, calls>>
       ELSE BeginRound
    /\ UNCHANGED <<kind, servers, dispatch, plugin, body, kept, msgs, final, sent, tools,
                   gone, stored, failed, cut, late>>

\* http.stream: the upstream starts to answer, or refuses (an error frame, or an
\* exception): the turn ends with what earlier rounds made.
Upstream ==
    /\ pc = "request"
    /\ \/ pc' = "read" /\ UNCHANGED failed
       \/ pc' = "outlet" /\ failed' = TRUE
    /\ Late("rounds")
    /\ UNCHANGED <<kind, servers, dispatch, plugin, body, kept, round, msgs, chunks, text,
                   open, calls, final, sent, tools, aborted, gone, stored, cut>>

Says(tokens, sending) ==
    /\ text' = text \o tokens
    /\ sent' = IF sending THEN sent \o tokens ELSE sent

\* reasoning_content: the first opens a <think> span.
Reasoning ==
    /\ Says(IF open THEN <<"r">> ELSE <<"<think>", "r">>, TRUE)
    /\ open' = TRUE
    /\ UNCHANGED calls

\* content: ends the span.
Content ==
    /\ Says(IF open THEN <<"</think>", "c">> ELSE <<"c">>, TRUE)
    /\ open' = FALSE
    /\ UNCHANGED calls

\* tool_calls: the parts of a call are gathered under its index.
CallPart ==
    /\ kind.tools
    /\ \E i \in Calls, t \in Targets :
         /\ i \in DOMAIN calls => t = calls[i]
         /\ calls' = [j \in DOMAIN calls \cup {i} |-> IF j = i THEN t ELSE calls[j]]
    /\ UNCHANGED <<text, sent, open>>

\* Mutant: the stream is read to its end though the client is gone.
ChunkUnasked ==
    /\ pc = "read" /\ chunks < MaxTokens
    /\ chunks' = chunks + 1
    /\ Reasoning \/ Content \/ CallPart
    /\ Late("chunks")
    /\ UNCHANGED <<kind, pc, servers, dispatch, plugin, body, kept, round, msgs, final,
                   tools, aborted, gone, stored, failed, cut>>

\* One line of the stream; then the client is asked for.
Chunk ==
    /\ pc = "read" /\ chunks < MaxTokens
    /\ chunks' = chunks + 1
    /\ Reasoning \/ Content \/ CallPart
    /\ IF Gone THEN aborted' = TRUE /\ pc' = "close" ELSE UNCHANGED <<aborted, pc>>
    /\ Late("chunks")
    /\ UNCHANGED <<kind, servers, dispatch, plugin, body, kept, round, msgs, final, tools,
                   gone, stored, failed, cut>>

\* The upstream has finished, or its connection breaks: the exception leaves the
\* round without its text.
StreamEnds ==
    /\ pc = "read"
    /\ \/ pc' = "close" /\ UNCHANGED failed
       \/ pc' = "outlet" /\ failed' = TRUE
    /\ UNCHANGED <<kind, servers, dispatch, plugin, body, kept, round, msgs, chunks, text,
                   open, calls, final, sent, tools, aborted, gone, stored, cut, late>>

\* The call message of the replay; its calls are in the order of their indices.
CallMessage == <<"call", DOMAIN calls>>

\* Mutant: the round ends with the span still open.
CloseUnbalanced ==
    /\ pc = "close"
    /\ final' = final \o text
    /\ IF aborted \/ DOMAIN calls = {}
       THEN pc' = "outlet" /\ UNCHANGED msgs
       ELSE pc' = "tools" /\ msgs' = Append(msgs, CallMessage)
    /\ UNCHANGED <<kind, servers, dispatch, plugin, body, kept, round, chunks, text, open,
                   calls, sent, tools, aborted, gone, stored, failed, cut, late>>

\* The end of a round: an open span is closed; calls are replayed and run.
Close ==
    LET tail == IF open THEN <<"</think>">> ELSE <<>>
    IN  /\ pc = "close"
        /\ final' = final \o text \o tail
        /\ sent' = IF aborted THEN sent ELSE sent \o tail
        /\ open' = FALSE
        /\ IF aborted \/ DOMAIN calls = {}
           THEN pc' = "outlet" /\ UNCHANGED msgs
           ELSE pc' = "tools" /\ msgs' = Append(msgs, CallMessage)
        /\ UNCHANGED <<kind, servers, dispatch, plugin, body, kept, round, chunks, text,
                       calls, tools, aborted, gone, stored, failed, cut, late>>

Pending == {i \in DOMAIN calls : \A n \in DOMAIN tools : tools[n][1] = round => tools[n][2] # i}
NextCall == CHOOSE i \in Pending : \A j \in Pending : i <= j

\* run_dispatch: a name that was not composed, a server that is gone, or a tool that
\* fails gives an error for its result.
Outcome(t) ==
    CASE t \notin dispatch -> {"unknown"}
      [] t \in Servers /\ t \notin DOMAIN servers -> {"removed"}
      [] OTHER -> {"ran"}

\* Mutant: a call that was not composed is passed over.
RunKnownTool ==
    /\ pc = "tools" /\ Pending # {}
    /\ \E o \in Outcome(calls[NextCall]) : tools' = Append(tools, <<round, NextCall, o>>)
    /\ msgs' = IF calls[NextCall] \in dispatch
               THEN Append(msgs, <<"result", NextCall>>) ELSE msgs
    /\ Late("calls")
    /\ UNCHANGED <<kind, pc, servers, dispatch, plugin, body, kept, round, chunks, text, open,
                   calls, final, sent, aborted, gone, stored, failed, cut>>

\* The calls run one after the other; each result is shown and replayed.
RunTool ==
    /\ pc = "tools" /\ Pending # {}
    /\ \E o \in Outcome(calls[NextCall]) : tools' = Append(tools, <<round, NextCall, o>>)
    /\ msgs' = Append(msgs, <<"result", NextCall>>)
    /\ Late("calls")
    /\ UNCHANGED <<kind, pc, servers, dispatch, plugin, body, kept, round, chunks, text, open,
                   calls, final, sent, aborted, gone, stored, failed, cut>>

\* A server answers a call with such JSON: the turn ends with what it has.
ToolRaises ==
    /\ pc = "tools" /\ Pending # {}
    /\ calls[NextCall] \in dispatch \cap DOMAIN servers
    /\ pc' = "outlet" /\ failed' = TRUE
    /\ Late("calls")
    /\ UNCHANGED <<kind, servers, dispatch, plugin, body, kept, round, msgs, chunks, text,
                   open, calls, final, sent, tools, aborted, gone, stored, cut>>

ToolsEnd ==
    /\ pc = "tools" /\ Pending = {}
    /\ pc' = "round"
    /\ UNCHANGED <<kind, servers, dispatch, plugin, body, kept, round, msgs, chunks, text,
                   open, calls, final, sent, tools, aborted, gone, stored, failed, cut, late>>

-----------------------------------------------------------------------------
\* run_outlet: the outlets may leave nothing of the text; what else they make of it,
\* and one that fails, leave it stored.
Outlet(t) == IF Plugins = <<>> THEN {t} ELSE {t, None}

\* The finally: what was made is stored, if the turn stores and there is something; a
\* cancellation may reach into it.
Persist ==
    /\ pc = "outlet"
    /\ \/ stored' \in IF kind.persist /\ final # <<>> THEN Outlet(final) ELSE {None}
       \/ gone /\ stored' = None
    /\ pc' = "done"
    /\ UNCHANGED <<kind, servers, dispatch, plugin, body, kept, round, msgs, chunks, text,
                   open, calls, final, sent, tools, aborted, gone, failed, cut, late>>

Next ==
    \/ Compose \/ Inlet \/ InletsEnd \/ Round \/ Upstream \/ Chunk \/ StreamEnds \/ Close
    \/ RunTool \/ ToolRaises \/ ToolsEnd \/ Persist \/ Leaves \/ Cancelled \/ ServerChanges

Init ==
    /\ kind = NoKind /\ pc = "begin"
    /\ servers = [s \in Servers |-> TRUE]
    /\ dispatch = {} /\ plugin = 1 /\ body = <<>> /\ kept = <<>>
    /\ round = 0 /\ msgs = <<>> /\ chunks = 0
    /\ text = <<>> /\ open = FALSE /\ calls = <<>>
    /\ final = <<>> /\ sent = <<>> /\ tools = <<>>
    /\ aborted = FALSE /\ gone = FALSE
    /\ stored = None /\ failed = FALSE /\ cut = FALSE /\ late = NoneLate

Spec == Init /\ [][Next]_vars

-----------------------------------------------------------------------------
(* Properties. *)

Tokens == {"r", "c", "<think>", "</think>"}

TypeOK ==
    /\ kind \in Kinds \cup {NoKind}
    /\ pc \in {"begin", "inlet", "round", "request", "read", "close", "tools", "outlet", "done"}
    /\ DOMAIN servers \subseteq Servers /\ dispatch \subseteq Targets
    /\ plugin \in 1..Len(Plugins) + 1
    /\ round \in 0..MaxLoops /\ chunks \in 0..MaxTokens
    /\ \A s \in {text, final, sent} : Range(s) \subseteq Tokens
    /\ DOMAIN calls \subseteq Calls /\ {open, aborted, gone, failed, cut} \subseteq BOOLEAN

\* What the upstream is sent again: every message with calls is followed by one
\* result for each call, in order, before anything else; the protocol refuses a
\* replay that lacks one.
WellFormed(ms) ==
    \A i \in DOMAIN ms :
        ms[i][1] = "call" =>
            \A c \in ms[i][2] :
                LET rank == Cardinality({d \in ms[i][2] : d <= c})
                IN  i + rank <= Len(ms) /\ ms[i + rank] = <<"result", c>>

\* What a round sends upstream: the replay is well-formed; and the body is what the
\* plugins that answered in order made of it, one after the other: a plugin that fails,
\* times out or answers off contract leaves no trace.
RequestSound == pc \in {"request", "read"} => WellFormed(msgs) /\ body = kept

\* Spans do not nest, and none is left open.
Balanced(s) ==
    \A i \in DOMAIN s :
        /\ s[i] = "<think>" => \E j \in i + 1..Len(s) :
                                 s[j] = "</think>" /\ \A k \in i + 1..j - 1 : s[k] = "r"
        /\ s[i] = "r" => \E j \in 1..i - 1 : s[j] \in {"<think>", "r"}

\* What is stored is what the client was shown: all of it, unless the turn failed or was
\* cancelled inside a round, whose text, and no more, is then missing; an end tag the
\* departed client was no longer sent may follow.  Reasoning is always closed.
StoredIsStreamed ==
    pc = "done" /\ stored # None =>
        /\ Balanced(stored)
        /\ \/ stored = sent
           \/ (failed \/ cut) /\ sent = stored \o text
           \/ aborted /\ stored = Append(sent, "</think>")

\* A closed tab stops the work: after the client has left at most one more request is
\* sent, one more chunk is read, and no round of calls begins.
GoneStops ==
    kind.watched =>
        /\ late.rounds <= 1 /\ late.chunks <= 1
        /\ late.calls <= Cardinality(DOMAIN calls)
        /\ late.calls > 0 => late.rounds = 0
=============================================================================
