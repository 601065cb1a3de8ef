---------------------------- MODULE Connections ----------------------------
(***************************************************************************)
(* Routing of a chat turn to an upstream (backend/app/connections.py) while *)
(* administrators change the connections (admin_connections.py).  Each      *)
(* server process keeps a map from models to connections for a while; a     *)
(* change commits, then drops the map of the process that made it, and of   *)
(* that one only.  A request reads the enabled ids, looks at the map, reads *)
(* the rows and probes every upstream, with other requests in between.      *)
(***************************************************************************)
EXTENDS Integers, FiniteSets

CONSTANTS
    Requests,       \* requests that resolve a model, once each
    Admins,         \* administrators' requests
    Process,        \* Process[x]: the server process of a request
    Extras,         \* ids of connections beside the environment's
    Models,
    TTL,            \* _MODEL_MAP_TTL, in ticks
    MaxTime,        \* bound on the clock
    MaxVersion,     \* bound on the versions of a row
    None

Env == 0            \* config_connection: listed first, never a row
Absent == 0         \* the version of a row that is not there

VARIABLES
    version,        \* version[c]: the content of row c, Absent before and after it
    enabled,        \* the rows with enabled = 1
    latest,         \* latest[c]: the last version given to c
    map,            \* map[p]: _model_map of process p: key, routes, expires
    clock,
    pc,
    model,          \* model[r]: the model r asks for
    key,            \* key[r]: the enabled ids r read
    taken,          \* taken[r]: the time it took before it probed
    rows,           \* rows[r]: the rows it probes, <<id, version>>
    answer,         \* answer[r]: the row it was routed to, <<id, version>>
    ended,          \* history: when a version stopped being the enabled one
    fresh,          \* history: fresh[r]: the rows enabled at some time since r began
    excused         \* history: excused[p]: rows changed elsewhere, or under a probe

requestVars == <<model, key, taken, rows, answer>>
vars == <<version, enabled, latest, map, clock, pc, requestVars, ended, fresh, excused>>

EnvRow == <<Env, 1>>
Row(c) == <<c, version[c]>>
Current == {Row(c) : c \in enabled}
Goto(x, l) == pc' = [pc EXCEPT ![x] = l]

-----------------------------------------------------------------------------
(* The administrator. *)

\* The rows after a change, as every process finds them.
Becomes(v, on, a) ==
    LET now == {<<c, v[c]>> : c \in on}
        gone == Current \ now
    IN  /\ version' = v /\ enabled' = on
        /\ ended' = [row \in DOMAIN ended |-> IF row \in gone THEN clock ELSE ended[row]]
        /\ fresh' = [r \in Requests |-> fresh[r] \cup now]
        /\ excused' = [p \in DOMAIN excused |-> excused[p] \cup gone]
        /\ Goto(a, "committed")
        /\ UNCHANGED <<map, clock, requestVars>>

\* create_connection: a new row, enabled or not.
Create(a) ==
    /\ pc[a] = "idle"
    /\ \E c \in Extras, on \in BOOLEAN :
         /\ latest[c] = Absent
         /\ latest' = [latest EXCEPT ![c] = 1]
         /\ Becomes([version EXCEPT ![c] = 1], IF on THEN enabled \cup {c} ELSE enabled, a)

\* patch_connection: new content, and enabled or not.
Patch(a) ==
    /\ pc[a] = "idle"
    /\ \E c \in Extras, on \in BOOLEAN :
         /\ version[c] # Absent /\ latest[c] < MaxVersion
         /\ latest' = [latest EXCEPT ![c] = @ + 1]
         /\ Becomes([version EXCEPT ![c] = latest[c] + 1],
                    IF on THEN enabled \cup {c} ELSE enabled \ {c}, a)

Delete(a) ==
    /\ pc[a] = "idle"
    /\ \E c \in Extras :
         /\ version[c] # Absent
         /\ UNCHANGED latest
         /\ Becomes([version EXCEPT ![c] = Absent], enabled \ {c}, a)

\* The rows some request of process p will still put into its map.
Probed(p) == UNION {rows[r] : r \in {q \in Requests : Process[q] = p}}

\* Mutant: the map stays when a row is patched or deleted.
InvalidateNothing(a) ==
    LET p == Process[a]
    IN  /\ pc[a] = "committed"
        /\ excused' = [excused EXCEPT ![p] = @ \cap Probed(p)]
        /\ Goto(a, "idle")
        /\ UNCHANGED <<version, enabled, latest, map, clock, requestVars, ended, fresh>>

\* invalidate_model_map, after the commit.
Invalidate(a) ==
    LET p == Process[a]
    IN  /\ pc[a] = "committed"
        /\ map' = [map EXCEPT ![p] = None]
        /\ excused' = [excused EXCEPT ![p] = @ \cap Probed(p)]
        /\ Goto(a, "idle")
        /\ UNCHANGED <<version, enabled, latest, clock, requestVars, ended, fresh>>

-----------------------------------------------------------------------------
(* The request. *)

Route(routes, m) == IF m \in DOMAIN routes THEN routes[m] ELSE EnvRow

Answer(r, row) ==
    /\ answer' = [answer EXCEPT ![r] = row]
    /\ rows' = [rows EXCEPT ![r] = {}]
    /\ key' = [key EXCEPT ![r] = {}]
    /\ taken' = [taken EXCEPT ![r] = 0]
    /\ Goto(r, "answered")

\* resolve_connection: without extra connections the environment's serves.
HasExtra(r) ==
    /\ pc[r] = "idle"
    /\ \E m \in Models : model' = [model EXCEPT ![r] = m]
    /\ fresh' = [fresh EXCEPT ![r] = Current]
    /\ IF enabled = {}
       THEN Answer(r, EnvRow)
       ELSE Goto(r, "key") /\ UNCHANGED <<answer, rows, key, taken>>
    /\ UNCHANGED <<version, enabled, latest, map, clock, ended, excused>>

\* SELECT id ... WHERE enabled = 1.
ReadKey(r) ==
    /\ pc[r] = "key"
    /\ key' = [key EXCEPT ![r] = enabled]
    /\ Goto(r, "look")
    /\ UNCHANGED <<version, enabled, latest, map, clock, model, taken, rows, answer,
                   ended, fresh, excused>>

Hit(r) ==
    LET cache == map[Process[r]]
    IN  cache # None /\ cache.key = key[r] /\ cache.expires > clock

\* The map is there, for these ids and not too old; or the time is taken.
Look(r) ==
    /\ pc[r] = "look"
    /\ IF Hit(r)
       THEN Answer(r, Route(map[Process[r]].routes, model[r]))
       ELSE /\ taken' = [taken EXCEPT ![r] = clock]
            /\ Goto(r, "rows")
            /\ UNCHANGED <<rows, answer, key>>
    /\ UNCHANGED <<version, enabled, latest, map, clock, model, ended, fresh, excused>>

\* enabled_connections: the environment's, then the enabled rows by id.
ReadRows(r) ==
    /\ pc[r] = "rows"
    /\ rows' = [rows EXCEPT ![r] = Current]
    /\ Goto(r, "probe")
    /\ UNCHANGED <<version, enabled, latest, map, clock, model, key, taken, answer,
                   ended, fresh, excused>>

\* The first connection, by id, that lists the model.
First(lists, m) ==
    CHOOSE row \in DOMAIN lists :
        m \in lists[row] /\ \A other \in DOMAIN lists : m \in lists[other] => row[1] <= other[1]

Routes(lists) == [m \in UNION {lists[row] : row \in DOMAIN lists} |-> First(lists, m)]

\* The probes end; a failed one lists nothing.  The map is stored.
Probe(r) ==
    LET all == {EnvRow} \cup rows[r]
    IN  /\ pc[r] = "probe"
        /\ \E lists \in [all -> {{}, Models}] :
             /\ map' = [map EXCEPT ![Process[r]] =
                          [key |-> key[r], routes |-> Routes(lists),
                           expires |-> taken[r] + TTL]]
             /\ Answer(r, Route(Routes(lists), model[r]))
        /\ UNCHANGED <<version, enabled, latest, clock, model, ended, fresh, excused>>

Tick ==
    /\ clock < MaxTime
    /\ clock' = clock + 1
    /\ UNCHANGED <<version, enabled, latest, map, pc, requestVars, ended, fresh, excused>>

Next ==
    \/ \E a \in Admins : Create(a) \/ Patch(a) \/ Delete(a) \/ Invalidate(a)
    \/ \E r \in Requests : HasExtra(r) \/ ReadKey(r) \/ Look(r) \/ ReadRows(r) \/ Probe(r)
    \/ Tick

AllProcesses == {Process[x] : x \in Requests \cup Admins}
AllRows == {EnvRow} \cup Extras \X (1..MaxVersion)

Init ==
    /\ version = [c \in Extras |-> Absent]
    /\ enabled = {}
    /\ latest = [c \in Extras |-> Absent]
    /\ map = [p \in AllProcesses |-> None]
    /\ clock = 0
    /\ pc = [x \in Requests \cup Admins |-> "idle"]
    /\ model = [r \in Requests |-> None]
    /\ key = [r \in Requests |-> {}]
    /\ taken = [r \in Requests |-> 0]
    /\ rows = [r \in Requests |-> {}]
    /\ answer = [r \in Requests |-> None]
    /\ ended = [row \in AllRows |-> None]
    /\ fresh = [r \in Requests |-> {}]
    /\ excused = [p \in AllProcesses |-> {}]

Spec == Init /\ [][Next]_vars

-----------------------------------------------------------------------------
(* Properties. *)

TypeOK ==
    /\ version \in [Extras -> 0..MaxVersion] /\ latest \in [Extras -> 0..MaxVersion]
    /\ enabled \subseteq {c \in Extras : version[c] # Absent}
    /\ clock \in 0..MaxTime
    /\ pc \in [Requests \cup Admins ->
                 {"idle", "committed", "key", "look", "rows", "probe", "answered"}]
    /\ \A r \in Requests :
         /\ model[r] \in Models \cup {None} /\ key[r] \subseteq Extras
         /\ taken[r] \in 0..MaxTime /\ rows[r] \subseteq AllRows
         /\ answer[r] \in AllRows \cup {None} /\ fresh[r] \subseteq AllRows
    /\ \A p \in AllProcesses :
         /\ excused[p] \subseteq AllRows
         /\ map[p] # None => /\ map[p].key \subseteq Extras
                             /\ \A m \in DOMAIN map[p].routes : map[p].routes[m] \in AllRows

\* A request is routed to the environment's connection or to a row that was enabled,
\* with this content, while the request ran.  A row changed by another process, or
\* under a probe, or not invalidated yet, may serve too, but for less than the TTL
\* after it was changed.
RoutingIsCurrent ==
    [][\A r \in Requests :
         answer'[r] # answer[r] =>
            \/ answer'[r] \in fresh'[r] \cup {EnvRow}
            \/ answer'[r] \in excused[Process[r]] /\ clock < ended[answer'[r]] + TTL]_vars
=============================================================================
