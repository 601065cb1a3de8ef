------------------------------- MODULE Relay -------------------------------
(***************************************************************************)
(* The two compatible APIs: openai_compat.py passes the upstream's answer   *)
(* on, anthropic_compat.py translates it event by event.  Both serve an API *)
(* key (api_keys.py), which may be revoked, and its user disabled, at any   *)
(* moment.  The upstream may refuse, break off, or end without its [DONE];  *)
(* a line of its stream is "text", "empty" (a chunk without content),       *)
(* "stop" or "length" (a finish reason), "noise" or "[DONE]".               *)
(***************************************************************************)
EXTENDS Naturals, Sequences, FiniteSets

CONSTANTS
    Apis,           \* a subset of {"openai", "anthropic"}
    MaxLines        \* bound on the lines of an upstream stream

Lines == {"text", "empty", "stop", "length", "noise", "[DONE]"}
Opening == <<"message_start", "content_block_start", "ping">>

VARIABLES
    api,
    pc,
    key,            \* the row of api_keys is there
    disabled,       \* its user's flag
    streaming,      \* the body asked for a stream
    status,         \* the status of the response, 0 before it
    events,         \* what the client was sent
    reason,         \* stop_reason
    lines,          \* history: the lines the upstream sent
    ended           \* history: how its stream ended: "", "closed" or "broken", "refused"

vars == <<api, pc, key, disabled, streaming, status, events, reason, lines, ended>>

Init ==
    /\ api \in Apis
    /\ pc = "key" /\ key = TRUE /\ disabled = FALSE /\ streaming = FALSE
    /\ status = 0 /\ events = <<>> /\ reason = "end_turn" /\ lines = <<>> /\ ended = ""

-----------------------------------------------------------------------------
\* revoke_key, and an administrator's change of the user.
KeyChanges ==
    /\ pc # "done"
    /\ \/ key /\ key' = FALSE /\ UNCHANGED disabled
       \/ disabled' = ~disabled /\ UNCHANGED key
    /\ UNCHANGED <<api, pc, streaming, status, events, reason, lines, ended>>

Respond(code) ==
    /\ status' = code
    /\ pc' = "done"
    /\ UNCHANGED <<api, key, disabled, streaming, events, reason, lines, ended>>

\* user_from_bearer, _user_from_key.
Authenticate ==
    /\ pc = "key"
    /\ IF ~key THEN Respond(401)
       ELSE IF disabled THEN Respond(403)
       ELSE pc' = "body" /\ UNCHANGED <<api, key, disabled, streaming, status, events,
                                        reason, lines, ended>>

\* The body is checked, then the user's access to the model; resolve_connection.
Accept ==
    /\ pc = "body"
    /\ \/ Respond(400) \/ Respond(403)
       \/ /\ streaming' \in BOOLEAN
          /\ pc' = IF streaming' THEN "open" ELSE "post"
          /\ UNCHANGED <<api, key, disabled, status, events, reason, lines, ended>>

\* Without a stream: a client error of the upstream passes through the OpenAI API, any
\* other failure is a 502.
Post ==
    /\ pc = "post"
    /\ \/ Respond(200) \/ Respond(502)
       \/ api = "openai" /\ Respond(400)

\* The response begins before the upstream is asked.
Open ==
    /\ pc = "open"
    /\ status' = 200
    /\ events' = IF api = "anthropic" THEN Opening ELSE <<>>
    /\ pc' = "stream"
    /\ UNCHANGED <<api, key, disabled, streaming, reason, lines, ended>>

ErrorFrame == IF api = "anthropic" THEN <<"error">> ELSE <<"error", "[DONE]">>
Closing == <<"content_block_stop", "message_delta", "message_stop">>

\* Mutant: the closing events follow an error too.
FailsAndCloses ==
    /\ pc = "stream"
    /\ ended' = IF lines = <<>> THEN "refused" ELSE "broken"
    /\ events' = events \o ErrorFrame \o IF api = "anthropic" THEN Closing ELSE <<>>
    /\ pc' = "done"
    /\ UNCHANGED <<api, key, disabled, streaming, status, reason, lines>>

\* The upstream refuses, cannot be reached or breaks off: an error ends the stream.
Fails ==
    /\ pc = "stream"
    /\ ended' = IF lines = <<>> THEN "refused" ELSE "broken"
    /\ events' = events \o ErrorFrame
    /\ pc' = "done"
    /\ UNCHANGED <<api, key, disabled, streaming, status, reason, lines>>

\* A line: passed on as it is, or translated.  The translation stops at [DONE].
Line ==
    /\ pc = "stream" /\ Len(lines) < MaxLines
    /\ \E line \in Lines :
         /\ lines' = Append(lines, line)
         /\ IF api = "openai"
            THEN events' = Append(events, line) /\ UNCHANGED <<pc, reason>>
            ELSE /\ events' = IF line = "text" THEN Append(events, "content_block_delta")
                              ELSE events
                 /\ reason' = IF line = "stop" THEN "end_turn"
                              ELSE IF line = "length" THEN "max_tokens" ELSE reason
                 /\ pc' = IF line = "[DONE]" THEN "close" ELSE pc
    /\ UNCHANGED <<api, key, disabled, streaming, status, ended>>

\* The upstream closes its stream, or the translation has left it.
Close ==
    /\ pc \in {"stream", "close"}
    /\ ended' = "closed"
    /\ events' = IF api = "anthropic" THEN events \o Closing ELSE events
    /\ pc' = "done"
    /\ UNCHANGED <<api, key, disabled, streaming, status, reason, lines>>

\* The client leaves: the generator is cancelled where it is.
Leaves ==
    /\ pc \in {"open", "stream", "close"}
    /\ pc' = "done"
    /\ UNCHANGED <<api, key, disabled, streaming, status, events, reason, lines, ended>>

Next ==
    \/ KeyChanges \/ Authenticate \/ Accept \/ Post \/ Open \/ Fails \/ Line \/ Close
    \/ Leaves

Spec == Init /\ [][Next]_vars

-----------------------------------------------------------------------------
(* Properties. *)

TypeOK ==
    /\ pc \in {"key", "body", "post", "open", "stream", "close", "done"}
    /\ status \in {0, 200, 400, 401, 403, 502}
    /\ reason \in {"end_turn", "max_tokens"} /\ Len(lines) <= MaxLines
    /\ {key, disabled, streaming} \subseteq BOOLEAN

\* What a client of either API is streamed tells it how the answer went: the text the
\* upstream sent, no more and no less, between one opening and one ending; the ending is
\* the closing events (with the finish reason sent last) exactly when the upstream ended
\* in order, and an error exactly when it did not; nothing follows it
\* (_anthropic_stream, proxy).
StreamTellsAll ==
    status = 200 /\ streaming =>
      LET texts == Cardinality({i \in DOMAIN lines : lines[i] = "text"})
          body == IF api = "anthropic"
                  THEN Opening \o [i \in 1..texts |-> "content_block_delta"]
                  ELSE lines
          cut == \E i \in DOMAIN lines :
                    /\ lines[i] = "length"
                    /\ \A j \in i + 1..Len(lines) : lines[j] # "stop"
      IN  /\ events = body \o (CASE ended = "" -> <<>>
                                 [] ended = "closed" -> IF api = "anthropic" THEN Closing ELSE <<>>
                                 [] OTHER -> ErrorFrame)
          /\ api = "anthropic" =>
               reason = IF cut THEN "max_tokens" ELSE "end_turn"
=============================================================================
