# free-webui: models, checks and proofs

free-webui is a chat frontend for language models: a FastAPI backend
(`src/backend/app`, one process or several replicas behind a load balancer,
SQLite or Postgres, optionally Redis and an S3 store) and a SvelteKit single-page
application (`src/frontend/src`). This directory holds TLA+ modules of its core,
the TLC configurations that check them and TLAPS proofs about them.

## 1. Inventory

| part | state | operations | interacts with | hard about it |
|---|---|---|---|---|
| conversation threads (`conversations.py`) | `messages` rows with `parent_id`, `active`; requests in flight | send, edit, regenerate, regenerate a mid-thread turn, continue, edit a reply, delete, switch variant, delete the conversation; the `finally` of a stream | blob store, RAG, connections, plugins, tools | a stream holds ids for seconds while other requests rewrite the thread; several transactions per request; disconnects |
| blob store (`files.py`, `objectstore.py`) | `files` rows, S3 objects, references in message text | externalize, collect garbage, purge, clone, import | threads, account deletion | two stores without a common transaction |
| accounts (`auth.py`, `account.py`, `admin_users.py`, `oidc.py`, `api_keys.py`) | `users`, role, disabled, `token_version`, sessions | setup, login, OIDC sign-in, change password, log out everywhere, admin update and delete | everything behind `current_user` | check-then-act on the last admin; sessions that must end |
| channels (`channels.py`, `broadcaster.py`) | open sockets, per-channel counters (process or Redis), the pub/sub reader | connect, post, broadcast, disconnect | Redis, accounts | slots given back exactly once; a reader that must survive Redis |
| retrieval (`rag.py`, `documents.py`, `collections.py`) | documents, chunks, embeddings | upload, attach, retrieve | threads, connections | partial uploads, ranking boundaries |
| connections and the model map (`connections.py`) | a cache with a TTL | list, resolve, invalidate | threads, admin | a fill that began before an invalidation |
| code execution (`code_exec.py`) | a semaphore, child processes | run, time out, cancel | tools | slots and children under cancellation |
| tools, MCP, OpenAPI tools (`tools.py`, `mcp.py`, `openapi_tools.py`) | none beyond a call | list, call | the tool loop of a stream | a bounded loop of rounds |
| plugins (`plugins.py`) | the loaded pipeline | inlet, outlet, per-plugin failure | streams | a failing plugin must not lose the turn |
| database adapter (`database.py`, `db.py`) | the pool, the shared SQLite connection | execute, transaction, advisory lock | all | SQLite shares one connection between requests |
| organisation (`folders.py`, `tags.py`, `shares.py`, `notes.py`, `prompts.py`, `presets.py`, `memories.py`) | rows of one user | create, update, delete | threads | few statements, few invariants |
| arena (`evaluations.py`) | votes | vote, leaderboard | none | a fold over votes |
| frontend (`routes/chat/[id]`) | the shown thread, a send queue | send, stop, regenerate, queue | threads | stop and the next request overlap |

## 2. Modules

| module | models | code |
|---|---|---|
| `Thread` | the rows of one conversation and every request that reads or writes them | `conversations.py` |
| `ChatPage` | the page of a conversation: the rows shown, the queue behind a stream, its requests, stop, navigation, loading | `routes/chat/[id]/+page.svelte`, `api.ts` |
| `Turn` | one streamed answer: plugins, rounds of tool calls, reasoning spans, a client that leaves, what is stored | `conversations.py` (`_stream_and_persist`), `mcp.py`, `openapi_tools.py`, `tools.py`, `plugins.py` |
| `Retrieval` | what a turn is grounded on: excerpts, whole documents, web results, their numbers, the history budget | `rag.py`, `web_search.py`, `conversations.py` |
| `Ingest` | a document coming in: fetch, extraction, chunks, embeddings | `rag.py`, `web_loader.py`, `documents.py`, `collections.py` |
| `Blobs` | images: references in messages, rows of `files`, objects in the store, over several conversations | `files.py` and its callers |
| `Accounts` | users, roles, suspension, cookies, OIDC links, the provisioning lock | `auth.py`, `oidc.py`, `account.py`, `admin_users.py` |
| `Limiter` | the login limiter, by Redis and by process | `auth.py` |
| `Channels` | the life of a channel's WebSockets, slots and presence, in the process or in Redis | `channels.py` |
| `FanOut` | abstract: what a transport of channel frames promises | the docstring of `RedisBroadcaster` |
| `Broadcaster` | the Redis transport, with one supervised reader per replica; implements `FanOut` | `broadcaster.py` |
| `Replace` | abstract: units of work that are all or nothing | the docstring of `transaction()` |
| `Handlers` | the handlers of several statements, as programs | `permissions.py`, `admin_*.py`, `documents.py`, `tags.py`, ... |
| `Database` | statements, transactions and locks on the shared SQLite connection or the Postgres pool; implements `Replace` | `database.py`, `db.py` |
| `Connections` | the cached map from models to connections, its probes and invalidations | `connections.py`, `admin_connections.py` |
| `CodeExec` | runs of code: slots, processes, containers, time limits, cancellation | `code_exec.py` |
| `Relay` | a request to a compatible API, and its stream | `openai_compat.py`, `anthropic_compat.py`, `api_keys.py` |
| `MCThread`, `MCBlobs`, `MCAccounts`, `MCChannels`, `MCDatabase` | instances of one module for TLC | |
| `Lists` | `sorted()` as the stable order by a key, and the elements a condition keeps | used by `Retrieval` and `Ingest` |
| `MCLive` | `Broadcaster`, one socket of `Channels`, `Database`, `CodeExec`, `ChatPage`: liveness and the two refinements | |
| `MCServices` | `Turn`, `Retrieval`, `Ingest`, `Connections`, `Limiter`, `Relay` | |
| `ThreadProofs`, `BlobsProofs`, `AccountsProofs`, `ChannelsProofs`, `DatabaseProofs`, `ChatPageProofs` | theorems of the module named | |
| `LiveProofs` | theorems about `Broadcaster` and `CodeExec`, and those of `ChannelsProofs`, `DatabaseProofs` and `ChatPageProofs` for the instances in `MCLive` | |
| `ServicesProofs` | theorems about `Turn`, `Retrieval`, `Ingest`, `Connections`, `Limiter` and `Relay`, as instances in `MCServices` | |

`MCLive` and `MCServices` put modules that share nothing side by side: a variable
`part` is chosen at start, the part it names runs and the others stay as they
began. The states add up, they do not multiply.

The parts that do interact meet at one step each. `ChatPage` makes the requests of
`Thread`: it shows which of them overlap, `Thread` what one at a time and two at once do
to the rows; that a reply is stored before the stream's `[DONE]` is what the page's reload
relies on. `Turn` ends in what `Thread` and
`Blobs` call storing the reply (`StoreReply`, `StreamEmpty`): `Turn` says which
text that is and whether there is one, `Thread` where it goes. `Retrieval` is the
context between `LoadHistory` and the stream (`ContextFails` when it raises).
`Thread` and `Blobs` are two views of the same handlers: `Thread` has one
conversation, every field that decides which rows are shown, and no images;
`Blobs` has several conversations and the image of each row, and of a turn only
whether a row is shown. `Channels` and `Broadcaster` meet in one call: a delivery
that fails reaps the socket, which `Channels` takes as a step of its own (`Reap`).
`Database` says for which backend the atomic actions of `Thread`, `Blobs` and
`Accounts` are right: for Postgres, and for SQLite as long as requests that write
do not overlap. The products themselves are out of TLC's reach, and no property
here needs one.

### How the models correspond to the code

*Steps.* A handler is a coroutine of one event loop. Between two `await`s it runs
alone; across one any other handler may run. An action is one such stretch, named
for the statement it ends in, and the `pc` of a request or a socket is where it
waits. Reads and the decision made on them are one action when nothing is awaited
in between; two when something is. What a handler keeps in local variables is a
field of its request record, and the record is `Idle` again when it returns or
raises.

*Transactions.* In `Thread`, `Blobs` and `Accounts` an `async with db.transaction()`
block is one action, as on the Postgres backend (`database.py:276`): its statements
become visible at once or not at all. A statement outside a block commits by itself
there. `Database` takes the statements apart.

*Data.* A message body is `"text"`, `"blank"` (empty once reasoning is stripped)
or `"image"`. An image is the number of its file. A password, a title, a model, a
frame's text do not appear. Ids are numbers handed out in order, as AUTOINCREMENT
does; that rows are ordered by id is what the code relies on, so it is kept.

*Failures.* A restart (`Crash`, `Restart`) drops every request in flight without
running its `finally`. A failing statement ends its request after rolling back
the open block. A failing call to the store or to Redis may have taken effect or
not. Each kind is counted against a bound in its guard.

*`Thread`.* `msgs` is the table by id, `req` the requests. `SendBegin` /
`SendCommit`, `EditBegin` / `EditCommit`, `DeleteBegin` / `DeleteCommit`,
`EditAssistantBegin` / `EditAssistantCommit` are the check and the transaction of
those handlers. A regeneration is `RegenerateBegin` or `RegenerateMessageBegin`
with `ReadBranch` and `Branch` for the truncation of later turns, then
`ReadChain`, `Archive`, `LoadHistory`. `_variant_chain` follows parents and
children one query at a time and takes whichever child a query returns first:
`VariantChain` is the set of its possible results. The `finally` of
`_stream_and_persist` is `StoreReply`, `StoreContinuation`, `StreamEmpty` or
`ReplyRefused`. `activate_variant` writes one row per statement: `ActivateSwitch`
is one of them.

*`Blobs`.* `store_data_url` is `Upload` (or `UploadFails`) and `Index`; a truncating
handler commits with `TruncateTo`, which collects garbage in the same transaction,
and purges one object per `Purge` afterwards. `DropBegin` lists the objects of the
conversations it is about to delete, `Drop` deletes them by cascade. A clone copies
row by row (`CloneLoad`, `Upload`, `Index`, `CloneCopy`).

*`Accounts`.* `sessions` are the cookies ever issued; `Accepted` is `current_user`.
`ends` in a row is not in the code: it counts what is meant to end the user's
sessions, so that `SessionsEnd` can compare it with what `token_version` achieves.
`update_user` reads once and then does the checks and writes its body asks for, in
order (`Checks`, `Ahead`).

*`Channels`.* `pc` walks through `channel_ws`: reserve, accept, presence, join,
receive, and the `finally`. `lost` and `late` are not in the code: the first tells
whether Redis ever lost an increment of a slot counter, the second which sockets
handle a frame that arrived after their session was revoked.

*`Broadcaster`.* `reader` is where `_reader` is, `pubsub` whether the object exists,
`linked` whether the server still knows the subscription, `buffer` what it has sent
and the reader not yet read. Redis itself (`GoesDown`, `ComesBack`, `Cut`) is
external.

*`Database` and `Handlers`.* A handler is a program of statements (`Delete`, `Insert`,
`Select`, ...) on rows of one scope, with a kind: `tx` for a `transaction()` block,
`bare` for statements with a `commit()` at their end, `serial` under
`provision_lock` and the advisory lock, `boot` for `open_db`. On SQLite `view` is
what the shared connection sees and `commit()` makes all of it durable, whoever
wrote it. On Postgres each statement takes a snapshot when it starts
(`StartStatement`) and takes effect later (`Execute`), waits for rows that another
open transaction wrote (`Waits`), and is aborted when two wait for each other
(`Deadlocked`). `clean` and `seen` are not in the code: they tell `Replace` whether
a unit was alone on its rows and what a reader was told. `Replace` allows a unit
that was not alone to leave rows of the other, as READ COMMITTED does.

*`ChatPage`.* The page is one thread of control, so an action runs from one answer of the
network to the next; `phase` is where `runStream` waits. `Send`, `CancelQueued`, `Redo`
(`regenAt`, `saveEdit` of a turn), `Continue`, `Alter` (`switchVariant`, `deleteAt`,
`saveEdit` of a reply, `rateMessage`), `Navigate` and `Stop` are the user; `Settle` is the
`finally` with `drainQueue`; `EndsShort` is a stream closed before `[DONE]`, which
`consumeStream` takes for its end; `Altered` is what the handlers that claim no flag write
when they are answered, a rating the row it began with (`Placed`), at its old index; `Load`, `Read` and `Show` are the call, the answer and the assignment of
`load`. `Take` and `Finish` are `Thread`'s handlers as far as the page can tell. `typed`,
`received` and `orderly` are history. A page that has left the route for good is not
modelled: what its closures still read is up to the framework.

*`Connections`.* A row is its id and the number of its version, so that a map made
from an older content can be told from a new one. `HasExtra`, `ReadKey`, `Look`,
`ReadRows` and `Probe` are the stretches of `resolve_connection`, `Invalidate` the
call after an administrator's commit. `ended`, `fresh` and `excused` are history.

*`CodeExec`.* `pc` walks through `execute()`, `_run` and `_run_docker`; `main` is the
process or the docker client, `children` what it left in its group, `container`
whether the container runs. `Cancel` is a `CancelledError` at any await: at the
shield around the cleanup it leads to the second, unshielded await (`insisting`).

*`Turn`.* One action per stretch of the loop in `_stream_and_persist`: `Compose`,
`Inlet` for each plugin, `Round`, `Upstream`, `Chunk` for each line, `Close`, `RunTool`
for each call, `Persist` for the `finally`. `Leaves` is the client's departure: the code may
notice it (`Gone`, between two lines), or the departure cancels the generator where it waits
or makes its `yield` raise (`Cancelled`), even in its `finally`. `ToolRaises`, and the second
disjunct of `Compose`, are the exceptions of `_rpc` that nobody catches. Text is a sequence of
tokens, with the tags the stream adds. `late`, `kept`, `failed` and `cut` are history.

*`Retrieval`.* `FullOwn` to `FullCut` are `_full_document_context`; `ReadOwn` to `Embed`,
`Rank` and `Rerank` are `retrieve_context`; `Search` and `Compose` the rest of
`_gather_context`. Cosine and BM25 scores are any scores, the fused rank is compared
as a fraction. Every body holds the numbers 1 and 2 in brackets (`Footnotes`), which
`neutralize_markers` takes away (`Defang`); the labels of `Bracketed` hold a 1 (`Label`), and go in
as they are, as file names, titles and addresses do. Memories go in as they are too: they
belong to no section. `extra` is the new message of a send, which is added after the history
was cut to its budget.

*`Ingest`.* A text is a sequence of characters of which only blank or not matters; a chunk
is where it begins and ends after `strip()`, and its vector is named by the text it was
made of, so that a wrong pairing shows.

*`Limiter`.* One address and name: Redis' counter and expiry, and each process' list. A
failing call may have taken effect (`Hiccup`). `asked` is the history of attempts by their
times, and a list of times is the set of the attempts it was filled by (`local`), `mine` the
one a process is about to decide: two attempts at one moment stay two.

*`Relay`.* `events` is what the client was sent, in order; `lines` and `ended` are history.

## 3. What the runs check

| run | instance | what it shows |
|---|---|---|
| `thread_all` | 2 requests, alone with 5 ids (4 with a fault) or interleaved with 3; 1 fault | `parent_id` always names an older reply, or a row that is gone (`ParentIsVariant`). One after another: variant chains are linear, no reply lacks its user row and a turn shows at most one variant (`ThreadShape`), a reply is stored under the rows it was generated from (`PromptIsThread`), regenerating mid-thread keeps the turn's variants, and when its stream ends leaves one shown and the turns before alone (`RegenerationAnswers`). |
| `thread_restore` | 1 request, 4 ids | Violated: an empty regeneration shows the chain's tip, not the variant that was shown. |
| `blobs_all` | 2 requests, alone with 3 files and messages or disturbed with 2 of each; 2 conversations; 1 fault or 1 failing store call | A row of `files` never lacks its object (`RowHasObject`); nothing is left of a deleted conversation (`NothingOfDeleted`). One after another: every reference is a file of its own conversation (`RefsResolveInOneTab`); when nothing was cut short exactly what is referenced exists in table and store (`NothingStrandedInOneTab`). |
| `blobs_race` | 2 requests, 1 conversation | Violated: garbage collection takes an image whose message is about to be inserted. |
| `accounts_all` | 2 requests, 1 name, 2 identities, 2 users, 2 cookies | The first administrator is the first user, until the accounts were all deleted (`FirstAdminIsFirst`), and no cookie outlives a reset, suspension or logout everywhere (`SessionsEnd`), whatever overlaps; without overlap an administrator remains (`AdminRemains`) and new cookies are accepted (`SignInWorks`). |
| `accounts_admin` | 1 request | Violated: the last administrator who can log in may go, when another is suspended. |
| `channels_all` | 2 sockets of one user, on 1 or 2 replicas, cap 1, with and without Redis, 1 fault | The cap holds (`CapHolds`), slots are given back exactly once and presence is not decremented twice (`SlotsExact`), a revoked user's later frames are not written (`NoLatePost`). |
| `channels_ttl` | as `channels_all` | Violated: a counter that no socket holds may never expire. |
| `live_all`, transport | 1 replica, 3 frames, 3 outages | `Broadcaster` implements `FanOut` (`DeliversInOrder`), and a reader always has a living subscription again and has read what reached it (`ReadersCatchUp`). |
| `live_all`, hub | 1 socket, 2 faults | A socket whose session is revoked is closed (`RevokedSocketsClose`), however many frames it sends. |
| `live_all`, database | 2 requests, each any of 14 or 18 handlers, one process or two, pool of 2, 1 failing statement | `Database` implements `Replace` (`UnitsAreAtomic`), everyone gets connections and locks (`EveryoneIsServed`), replicas that boot together come up with the whole schema (`BootCompletes`). |
| `live_all`, interpreter | 2 runs, 1 slot, 3 cancellations, 1 failing docker command | Every run ends (`RunsEnd`) and leaves no directory, no process that was not signalled, no container (`NothingLeftBehind`). |
| `live_all`, page | 2 conversations; 3 turns and 1 other act, or 2 and 2 (requests, navigations, stops, failures) | The server has one request of the page at a time, and queued turns in the order and the conversation they were typed in (`RequestsInOrder`); a page at rest shows what is stored (`ShowsWhatIsStored`); the queue drains (`QueueDrains`). |
| `services_all`, answering | 1 turn, 1 tool server, 2 plugins, 2 parallel calls, 2 rounds of 2 chunks | Each replayed call has its result, and the body is what the working plugins made of it (`RequestSound`); what is stored was shown, with its reasoning closed, and lacks at most the round that was broken or cancelled (`StoredIsStreamed`); a closed tab stops the work (`GoneStops`). |
| `services_all`, grounding | 2 documents, 3 chunks, 3 scores, 2 web results, histories of up to 3 messages of 1, 2 or 4 tokens, a new message or none | A citation's number names its source and no body adds another (`CitationsResolve`), the excerpts are the best (`ExcerptsAreBest`), and what is sent is the context if there is one, the longest history that fits, and the new message, which nothing bounds (`BudgetKeepsNewest`). |
| `services_all`, loading | texts up to 4 characters, sizes 1, 2, 4, overlaps 0, 1, 5 | Every visible character of a stored text is in a chunk, each chunk has its own vector (`ChunksFaithful`). |
| `services_all`, routing | 2 requests, an administrator on the same process and one on another, 1 added connection of 2 versions, TTL 1, time 2 | A turn goes to a connection that was enabled while it was resolved, or less than the TTL ago where the code cannot know (`RoutingIsCurrent`). |
| `services_all`, login | 2 processes, limit 1, window 2, time 3, 1 hiccup, 1 restart | A login is refused only after enough attempts (`FallbackIsFair`). |
| `services_all`, relaying | 3 upstream lines | A client is told exactly how the upstream's answer ended (`StreamTellsAll`). |
| `database_sqlite` | 2 requests on SQLite | Violated: half a unit of work becomes durable by another request's commit. |
| `limiter_hiccup` | 1 process, 1 hiccup | Violated: a failed call leaves the counter without expiry and refuses everyone from then on. |

Every module has a `TypeOK`, checked by its run (`TypesOK` in the runs of several
modules). Deadlock is not checked: every model stops when its ids, frames or faults
are used up, and a deployment with no requests stops as well.

### Bounds

Ids are what bounds the runs of rows. Five ids in one tab make two turns with three
replies, which is where a regeneration mid-thread, an older variant shown, and a
row following the chain meet; three ids with two requests make one turn with two
variants, which is what two requests can contend for. Three files and three messages
let a turn be edited, regenerated and cloned with an image each. Two users are enough
for a last administrator and somebody else, and two identities to compete for an
account. The constraints `Bound` of `MCThread` and `Room` of `MCBlobs` leave these numbers to
requests that follow one another, and fewer ids (`MaxIdOverlapped`, `MaxIdFailed`,
`MaxIdDisturbed`) once two have overlapped, one was cut short, or a call of the store failed. A cap of one makes the second
socket the one too many; `channels_all` allows one fault because one lost call or restart is
what the comments of `channels.py` argue about. Three frames can be out of order or doubled
around an outage.
Three turns are one that streams and two whose order in the queue can be wrong; two
other acts are a stop and what follows it, or a navigation and its return.

Two requests on the database are what can contend for a row, a lock or a pool of two;
each row of a unit is one of two keys, enough for half of it. Two processes tell the
provisioning lock of a process from the advisory lock. Three cancellations reach every
await of a run's cleanup, and two runs with one slot make one of them wait.

Two rounds of two chunks hold a reasoning span, an answer and a call in every order;
two parallel calls can be answered out of order. Two documents of up to two chunks
give every order of three rows under two rankings with ties; a reranker may answer two
items, inside or outside the list, also twice the same. A limit of one and a window
of two ticks put an attempt at the edge of the window; the clock goes past it. Sizes and
overlaps include an overlap beyond the size. Where a theorem says the same for every
value (section 5), the bound only matters for finding it out cheaply.

Requests are alike, and so are conversations, names and identities: those sets are
permuted in the runs of `Thread`, `Blobs` and `Accounts`, whose properties are
invariants and properties of steps. Runs with liveness use no symmetry.

### Conditions in properties

Some properties hold only without overlap or without faults, and say so. What they ask of
the past is in history variables, which no action reads: `overlapped` becomes true when a
request begins while another is in flight, `emptied` when the last account is deleted,
and both stay true.

- `~overlapped` in `AdminRemains` and `SignInWorks`. With two requests the count of
  administrators is stale when it is used, and a cookie may be made from a version
  another request just raised. The code has no lock there.
- `~overlapped` in `ThreadShape`, `PromptIsThread` and `RegenerationAnswers` of `Thread`,
  and in the properties of `Blobs` named `...InOneTab`. With two requests in flight the
  code does break them (section 4). One request at a time is what the page makes of one tab:
  `RequestsInOrder` shows it for all requests but those broken off (after a stop the
  server may still store the first reply when the next turn arrives) and those of a
  deletion, an edited reply, a variant switch or a rating, which claim no flag.
- `orderly` in `ShowsWhatIsStored`: the page keeps what it shows when a stream breaks, reloads
  too early when one is closed before its `[DONE]`, has no guard against a load that is
  answered late, and none against navigating, sending, or another of them while one of the
  unclaimed requests, a rating included, is under way.
- `failed` and `cut` in `StoredIsStreamed` excuse the text of the round that raised or was
  cancelled, and nothing else (section 4).
- `Label` in `CitationsResolve` excuses the numbers of a section's own label, which the code
  does not escape (section 4).
- `~emptied` in `FirstAdminIsFirst`: `create_user` inserts without the provisioning lock.
  When every account was deleted while an administrator's creation is under way, a setup
  that has counted no users may insert after it. Two requests do not reach that, three do;
  the attempt to prove the property for any number of requests found it.
- `faults = 0` in `OneActiveVariant` and `TurnAnswered`: a switch cut short
  between two of its statements leaves two variants shown until the next switch or
  regeneration of that turn. `faults = 0` in `SlotsExact`:
  a failing call or handshake loses a slot or a presence.
- `~lost` in `CapHolds`: the code lets a socket in when Redis fails, on purpose.
- `~emptied`, `~overlapped`, `faults = 0` and `~lost` are conditions of the theorems as well.
- `Overlapping = {"postgres"}` in `live_all`: on SQLite `UnitsAreAtomic` is checked with
  requests that follow one another, through failing statements; `database_sqlite` shows
  what an overlap does.
- `excused` in `RoutingIsCurrent`: a probe in flight stores the map it made before the
  invalidation, and other processes are not told of it; both only until the TTL is over.
- `failures = 0` and at most two cancellations for the container in `NothingLeftBehind`:
  docker's own failures are ignored by the code, and a third cancellation hits the
  cleanup itself.

### Fairness

`Channels`: weak fairness of each socket's handler and of the passing of its
revalidation interval. The event loop resumes a coroutine whose await is over, and
every await of `channel_ws` ends: the receive after the interval at the latest
(`wait_for`), database and Redis calls by their answer or their failure.
`Broadcaster`: weak fairness of each reader, of the end of `aclose`, and of
`ComesBack`. The first two are the event loop; the last says that an outage ends,
without which no reader could recover. `Database`: weak fairness of each request's
next step, once it has begun: the database answers, and a request waiting for a
connection or a lock gets it when it is free. That no request needs the time-outs of
`acquire()` (30 s) is what `EveryoneIsServed` shows. `CodeExec`: weak fairness of each
run's next step: an await ends because the process does or because its timer fires; the
program itself need never end. Frames, faults, cancellations, revocations and hang-ups
are not fair. `ChatPage`: weak fairness of the server's and the network's answers and of what
the page does with them; its user need do nothing. No liveness is stated of `Thread`, `Turn`, `Blobs` or `Accounts`: how long
a stream lasts is up to the model server.

## 4. What the models showed

The six violated runs are listed as findings. These also came up; each is what the code
does, and a property above is conditioned or limited because of it.

- A regeneration archives before it searches the web and embeds. When that raises,
  the turn is left without a shown reply (`ContextFails` after `Archive`); the
  restore only covers the stream.
- Two regenerations of one turn may read the same tip and fork its chain, and a
  row deleted while its reply streams leaves the reply without a user row.
- Deleting a shown variant (`id >= msg_id`) leaves the archived ones with lower ids,
  though the docstring says "including any archived variants".
- Cloning keeps a reference to the source's file when the object cannot be read.
- When accept, the presence count or the join frame raise, the handler ends before
  its `try`: the slot stays taken until the process restarts, or in Redis until the key expires.
- A delivery can reap a socket that is in the set but not yet counted as present:
  the decrement is compensated to zero, and the count that follows stays. The
  presence is one too high until its key expires.
- A reaped socket's handler goes on: its client can send and no longer receives.
- `EXPIRE` is called only when `INCR` returned 1, so the key of a busy counter
  expires an hour after it was made and counting starts from zero. With sockets
  still open the cap admits more; `lost` is set by `Expire` for that reason.
- The id of a channel message and the order of its live frame may differ between
  two posters: the insert and the publish are two steps.

- `set_tags`, `set_conversation_collections`, `set_members`, `set_model_access`,
  `update_preset`, `delete_folder` and the uploads of documents run their statements bare,
  though the docstring of `transaction()` asks for a block: on Postgres a failure in
  between leaves a part.
- `tags.py:68` uses INSERT OR IGNORE, which `adapt_query` does not translate:
  `rename_tag` fails on Postgres and is rolled back.
- A second request to share a conversation at the same time fails on the unique key;
  two OIDC sign-ins that link one account at once leave the later link.
- `patch_connection` reads a row and writes all of it back: of two changes at once
  the earlier is lost.
- The pool must have two connections, for one under the advisory lock needs another;
  `config.py` sees to it (`max(2, ...)`), which is why `EveryoneIsServed` holds.
- A third cancellation of a docker run cancels its cleanup; and what a program left in
  the background outlives it when it ends by itself.
- The page does not abort its stream on navigation, nor look at the conversation a `load`
  was for: streamed text is added to the other conversation's last row until the stream
  ends and reloads, and a load that is answered late shows the conversation left.
- `deleteAt` cuts the shown rows by their old index when the server has answered, without
  claiming `streaming`: rows of a turn sent meanwhile, or of another conversation, go from
  view. Its status is not looked at, so a failed deletion also hides the rows.
- `rateMessage` claims nothing either: answered, it writes the whole row it began with to its
  old index, over a reply made again meanwhile, into another conversation, or past the end.
- A stream closed before its `[DONE]` is taken for ended: the page reloads, perhaps before the
  reply is stored, and shows no error.
- Tool calls of the round in progress still run after the client has left, if it was not
  cancelled. When the upstream breaks inside a round, what the round showed is not stored.
- Nor is it when the departure cancels the generator at an `await` or a `yield` inside the
  `async with`, since the text is added to what is kept only after it (`conversations.py:637`).
  The docstring at `conversations.py:452` says "Whatever was generated before the disconnect
  is still persisted"; that is so when `_gone` notices the departure, and of earlier rounds.
- A tool server that answers JSON of another shape ends the turn, when its tools are listed as
  well as when one is called: `_rpc` (`mcp.py:193-197`) raises `AttributeError`, which the
  `except` above "one bad server shouldn't kill the rest" (`mcp.py:281`) does not catch.
- File names, titles, addresses and memories go into the context with whatever brackets they
  hold. A document named `notes [1].pdf` as second excerpt shows `[1]` beside its `[2]`, though
  `conversations.py:347` has `[n]` "globally unique across both context blocks".
- `max_context_tokens` and `max_context_messages` bound the history alone: the system prompt,
  the context and the new message of a send come on top.

## 5. What is proved

| theorem | statement |
|---|---|
| `ThreadProofs!TypeCorrect` | `Spec => []TypeOK` |
| `ThreadProofs!ParentsAreVariants` | `Spec => []ParentIsVariant` |
| `ThreadProofs!ThreadKeepsItsShape` | `Spec => []ThreadShape` |
| `ThreadProofs!RepliesFollowTheirPrompt` | `Spec => PromptIsThread` |
| `ThreadProofs!RegenerationsAnswerTheirTurn` | `Spec => RegenerationAnswers` |
| `BlobsProofs!RowsHaveObjects` | `Spec => []RowHasObject` |
| `BlobsProofs!NothingIsLeft` | `Spec => []NothingOfDeleted` |
| `BlobsProofs!ReferencesResolve` | `Spec => []RefsResolveInOneTab` |
| `BlobsProofs!NothingIsStranded` | `Spec => []NothingStrandedInOneTab` |
| `AccountsProofs!TypeCorrect` | `Spec => []TypeOK` |
| `AccountsProofs!FirstAdministrator` | `Spec => []FirstAdminIsFirst` |
| `AccountsProofs!AdministratorRemains` | `Spec => []AdminRemains` |
| `AccountsProofs!SessionsStayEnded` | `Spec => []SessionsEnd` |
| `AccountsProofs!SignInsWork` | `Spec => SignInWorks` |
| `ChannelsProofs!TypeCorrect` | `Spec => []TypeOK` |
| `ChannelsProofs!CapIsKept` | `Spec => []CapHolds` |
| `ChannelsProofs!SlotsAreExact` | `Spec => []SlotsExact` |
| `ChannelsProofs!RevokedNeverPost` | `Spec => []NoLatePost` |
| `DatabaseProofs!TypeCorrect` | `Spec => []TypeOK` |
| `DatabaseProofs!TransactionsAreUnits` | `Spec => UnitsAreAtomic`, that is, `Database` implements `Replace` |
| `DatabaseProofs!ReplicasComeUp` | `Spec => []BootCompletes` |
| `ChatPageProofs!TypeCorrect` | `Spec => []TypeOK` |
| `ChatPageProofs!OneStream` | `Spec => []OneAtATime` |
| `ChatPageProofs!QueueIsFifo` | `Spec => []TurnsAsTyped` |
| `ChatPageProofs!RestsUpToDate` | `Spec => []ShowsWhatIsStored` |
| `LiveProofs!FramesInOrder` | `Spec => DeliversInOrder`, that is, `Broadcaster` implements `FanOut` |
| `LiveProofs!TransportTypeCorrect` | `Spec => []TypeOK`, of `Broadcaster` |
| `LiveProofs!RunTypesCorrect` | `Exec!Spec => []Exec!TypeOK` |
| `LiveProofs!NothingIsLeftBehind` | `Exec!Spec => []NothingLeftBehind` |
| `LiveProofs!UnitsStayWhole` | `DB!Spec => UnitsAreAtomic` |
| `LiveProofs!ReplicasBoot` | `DB!Spec => []BootCompletes` |
| `LiveProofs!PageKeepsOrder` | `Page!Spec => []RequestsInOrder` |
| `LiveProofs!PageComesToRest` | `Page!Spec => []ShowsWhatIsStored` |
| `LiveProofs!LiveTypesCorrect` | `MCSpec => []TypesOK`, of `MCLive` |
| `LiveProofs!PartsKeepTheirPromises` | `MCSpec` implies the properties of steps and the invariants of all parts of `MCLive` |
| `ServicesProofs!TurnTypeCorrect` | `Answering!Spec => []TurnType` |
| `ServicesProofs!RoundsCanBeAnswered` | `Answering!Spec => []RequestSound` |
| `ServicesProofs!StoredWasStreamed` | `Answering!Spec => []StoredIsStreamed` |
| `ServicesProofs!DepartureStopsWork` | `Answering!Spec => []GoneStops` |
| `ServicesProofs!RoutingStaysCurrent` | `Routing!Spec => RoutingIsCurrent` |
| `ServicesProofs!StreamsTellAll` | `Relaying!Spec => []StreamTellsAll` |
| `ServicesProofs!RefusalsAreFair` | `Login!Spec => []FallbackIsFair` |
| `ServicesProofs!CitationsAreResolved` | `Grounding!Spec => []CitationsResolve` |
| `ServicesProofs!ExcerptsStayBest` | `Grounding!Spec => ExcerptsAreBest` |
| `ServicesProofs!BudgetKeepsTheNewest` | `Grounding!Spec => BudgetKeepsNewest` |
| `ServicesProofs!ChunksStayFaithful` | `Loading!Spec => []ChunksFaithful` |
| `ServicesProofs!RoutingTypeCorrect`, `AnsweringTypeCorrect`, `ContextTypeCorrect`, `LoadTypeCorrect`, `LoginTypeCorrect`, `RelayingTypeCorrect` | the type invariant of each instance |
| `ServicesProofs!TypesCorrect` | `MCSpec => []TypesOK`, of `MCServices` |
| `ServicesProofs!PartsKeepTheirPromises` | `MCSpec` implies the properties of steps and the invariants of all parts of `MCServices` |

So every invariant and every property of steps that a passing run checks is proved, and
the two refinements; only the liveness properties are left to TLC. The theorems hold for
every value of the constants: any number of requests, conversations, sockets, replicas, runs,
documents, messages, ids and faults, texts of any length and lists of any size. A theorem
about an instance in `MCLive` or `MCServices` is of that instance's own specification;
the two about types and the two `PartsKeepTheirPromises` are of the whole. (The socket in `MCLive` is one of one
user; `ChannelsProofs` has any number.)

The proofs assume only the named assumptions of the modules, which TLC evaluates in the runs:

- bounds are naturals, `None` is no conversation, name or request, `Patches` are bodies of
  `update_user`, `UseS3` is a Boolean;
- in `MCLive`, `RunBounds`, `FaultBound` and `PageBounds` of the bounds, `HomeExists` that the
  page opens on a conversation there is, `NobodyIsNone`, `LiteInTurn` that requests overlap on
  Postgres only (without which `database_sqlite` shows `UnitsAreAtomic` violated), and three
  facts about the programs of `Handlers`: `JobsAreUnits`, that handlers write the rows of
  `TxScopes` in a unit of work or by one DELETE and delete no row they have put,
  `BootsAreOpenDbs`, that only `open_db` touches the schema, and `JobsWriteRows`, that they write
  rows of the tables there are. They are the hypotheses of the theorems of `DatabaseProofs` and
  `ChatPageProofs`;
- in `MCServices` one assumption for each instance: ids of connections are naturals other than
  the environment's and requests are no administrators; calls are numbered and plugins named;
  documents are finitely many and numbered from 1, and scores, lengths and sizes are naturals
  (`ContextAssumption`); chunks have a positive size (`LoadingAssumption`); there are finitely many
  processes and the limit and the window are positive; and the APIs are the two there are.

`ThreadProofs!TypeCorrect` is inductive as it stands, except that the chain a request carries
must be shown to be rows, because its greatest member becomes a parent:
`ChainIsRows` does that for every walk `VariantChain` allows.

`ParentsAreVariants` needs more than the rows. A request carries ids from one
transaction to the next, and their rows may be deleted in between. `LinkInv` adds
to the property that user rows have no parent, and that the row a regeneration is
about and the tip it has read are `ReplyOrGone`: an id already handed out whose
row is a reply or does not exist. Since an id is never handed out twice, what is
gone stays gone (`Kept`), the fact every step uses. `WalkOfReplies` proves that a
walk through one reply has only replies: a row with a parent is a reply by the
invariant, and the root is the parent of the least of the others.

The three theorems about one request after another rest on `AloneInv`. As long as nothing
overlapped, at most one request is in flight, each reply's parent is the row before it unless
that is a user row (`RowsLinear`), a turn shows one variant (`ShownAt`), and `Phase` says what
the request under way knows, transaction by transaction: that the prompt it has read is still
what is shown, that the row it will write under is still the last of its turn, and that the
turns before it are as when it began (`WasKept`). The lemma that carries most is `WalkIsTurn`:
by `RowsLinear`, the walk over `parent_id` that the code uses to find the variants of a reply
finds the replies between two user rows, all of them and no other. The two action
properties then follow from `AloneInv` of the state before the step.

`RowsHaveObjects`: `FileInv` adds to the property what a request knows of files
(`KnowsFiles`). A file it has uploaded and not yet indexed has an object and no
row; a file it is about to purge has no row any more, or belongs to a conversation
whose rows it is about to drop. And requests stay `Apart`: no two upload one file, and
none purges what another uploads, since numbers are never drawn twice. The order
put, insert, commit, delete of `files.py` is what each clause rests on.

`NothingIsLeft`: `LiveInv` says that rows belong to existing conversations and that a
request works on one conversation until it ends; a deleted conversation never
comes back, so a late insert meets the foreign key.

`ReferencesResolve` and `NothingIsStranded` have one invariant, `AloneInv`, about the one
request under way. Until something overlaps, its conversation is still live or drawn
(`ConvOK`); until a store call fails as well, references in rows and the one it holds are
files of their conversations (`RefsOK`); until anything fails, every file is referenced by a
row or held by the request, and every object has a row, is about to get one, or is about to
be purged (`KeptOK`). At the end the request holds nothing, and what remains is the property.

`AccountsProofs!TypeCorrect` includes that no identity is linked to two rows and
that the provisioning lock is held exactly by the request that is under it.
`TypeInv` adds what a request carries: a row read is a row, and a role to be written
is one (`Writing`), though the body of an update may leave it out (`AheadOK`).

`FirstAdministrator`: `FirstInv` says that until a row was ever inserted no cookie exists, so
every request in flight is a sign-in (`Unborn`), and that whoever counted no users and holds
the lock does so before any insertion; as accounts were never all deleted, counting none means
that none was ever made.

`AdministratorRemains` and `SignInsWork`: `AloneInv` says that what the one request in flight
checked before it acts (`Safe`) still holds: another administrator than the one it removes,
and the version and standing of the account it gives a cookie to.

`SessionsStayEnded`: `SessionInv` says of every row that `token_version` counts
exactly what ends its sessions, and of every cookie, and every request about to make
one, that its version is no later than the row's. The step everything uses is
`Later`: a row of before is at a version no earlier, and an id deleted is not used
again, so the cookie of a deleted account never meets another row.

`CapIsKept` counts more than the property does: a handler that was refused and has yet to
undo its increment is counted too (`Slotted`), so that while no increment was lost the
counter is at least the number of those (`CapInv`), and who reads a value within the cap is one
of that many. `SlotsAreExact` says the same with equality, and of the presence counter that
it covers the members less the calls under way (`ExactInv`). Both need the sets they count to
be finite, which sockets opened one by one make them (`FiniteInv`). `RevokedNeverPost`:
a late frame belongs to a revoked session (`LateInv`), and the check right before the insert
looks at the session again.

`RoutingStaysCurrent`: `Serves(row, p, t)` says that what process `p` read at time `t` is
still enabled as it was, or was until `t` at least and `p` was not told. `RouteInv` says it of
the rows each request is about to probe, with the time the request took before it read them,
and of every route in a map, with the time its expiry was counted from (`MapsServe`, `Knows`).
A change adds what it replaced to what every process is excused for (`BecomesKeeps`); the
invalidation takes it back, except for rows a probe of that process still holds. A hit is
younger than the TTL, and so is what replaced its row.

The theorems about a turn: `GoneInv` follows the client's departure through the loop, for
the code asks `_gone` before each round and after each line: one round or one line may pass
unnoticed, and the calls of a round that has begun are run without asking. `StreamInv` relates what
was shown to what is kept, stretch by stretch, with the reasoning span that may be open
(`Spans`); once the turn has failed or was cut, what was shown is what is kept and the text of
the round it left. `ReplayInv` says that the calls of a round run in the order of their numbers,
each once, so that call `c` of a message finds its result `Rank` places after it; a round that a tool
server ended leaves calls unanswered, but then nothing more is sent upstream.

`StreamsTellAll`: until the stream ends, the events are the translation of the lines
(`RelayInv`); `CutStep` follows the finish reason. `RefusalsAreFair`: `LoginInv` bounds the
counter, plus the attempts made and not yet counted, by the attempts since its expiry was set
(`Since`), even while the first `EXPIRE` is under way, and says that a process' list holds
attempts that were made, without the one it decides.

`FramesInOrder`: `OrderInv` says of each replica that the frames delivered, the one
being delivered and those in its buffer increase, in that order, and that none
exceeds what was published; dropping a subscription empties the buffer.
`StepIsFanOut` then maps every step to a publication, a delivery or a stutter.

`TransactionsAreUnits`: `UnitInv` says, on Postgres, that what an open transaction has deleted
and added is what its program said so far (`Drops`, `Puts`), and, as long as no other unit on
its rows ended, that nothing it was to delete remains and that its running statement saw all
there is (`Kept`); READ COMMITTED gives no more, which is why `Replace` excuses units that
end in between. On SQLite, with one request at a time, the shared connection's view differs
from what is committed by exactly the program so far of the one handler (`Behind`).
`StepIsUnit` then maps a COMMIT, or the one DELETE of a bare handler, to `Put`, an exception
to `Abandon`, a reader's statement to `Read`, and every other step to an opening or a stutter.

`ReplicasComeUp`: `SchemaInv` says that of the schema there is never more than `open_db` makes,
and of each replica that boots that it has the lock, the advisory one on Postgres and its turn
on SQLite, and that all its program has passed is there (`Prepared`), in what it sees itself.
So its next statement finds what it needs: the table before the column, the column it does not
see before it adds it. Under the lock nobody else takes anything away or adds it first
(`SchemaStays`), and a boot fails only when a statement failed by itself.

`DatabaseProofs!TypeCorrect`: `TypesInv` strengthens the property where it reads a row through
a function, and needs `ShapeOK` for the place a request is at in its program.

The theorems about the page have one invariant, `PageInv`. `StreamInv` says that the page
reads the stream of its last request, and that every other request under way was broken off or
claims no flag. `QueueInv`: the turns that wait were typed in the conversation shown, and after those
sent. `ReceivedInv`: the server takes a request up once, and requests in their order but for those
same exceptions. `RowsOnce`: no two requests made one row. `OrderInv`: when no stream runs and no
alteration is under way, the page shows what is stored or its last load will make it do so
(`UpToDate`); a request that alters rows is alone, and about a row that is shown and stored
(`Alters`), so that the row a rating writes back is the one there (`RowsOnce` again). `TypeCorrect` adds `BoundInv`: every request is a turn that was typed and has left the
queue, or one of the extras, so there are never more than `MaxActs`.

`NothingIsLeftBehind`: `RunInv` follows what a run holds. Alone the property is not
inductive: that no container is left at the end depends on why one may still run while
the run is cleaned up. `Stopped` counts that: with docker obeying, a container that runs
when the process was waited for belongs to a run that was cancelled, once to get there,
twice past the shield, three times past the cleanup. `Signalled` says that a process is
gone or killed before cleanup, `GroupKilled` that a signal reaches its children. Runs touch
nothing of each other (`RunOthersStay`), so each step is about one run (`RunOwnStep`).

`TransportTypeCorrect`: `TaskInv` follows a reader from place to place; that what it holds was
published is `OrderInv` again.

`CitationsAreResolved`: the property is inductive together with `ContextType`, which says of every
stage of a retrieval what was gathered so far; a section added is numbered after the sources
there are, holds no number but its own and its label's, and a reordering moves what is not
numbered yet.

`ExcerptsStayBest`: the sorts are the heart of it. `OrderedPermutes` shows that a list
sorted by rank is a permutation: a rank is never shared, and a map of a finite set into
itself that is one to one is onto. Cut at `topK`, it leaves out only what is no better. Reciprocal ranks
are fractions, compared crosswise; what is ahead in both lists has the greater sum.

`BudgetKeepsTheNewest`: the sums of the newest messages exist and are unique, by the least number
for which they would not be, and they grow; so the loop, which stops at the first message that does not
fit, keeps the longest end that does. It is a property of the one step `Compose`.

`ChunksStayFaithful`: the last window that begins before a visible character covers it, for the
the step is at most the size. Stripping cuts at the first and the last visible character. Each chunk
gets its own vector because the replies are sorted by their index, and a strictly rising map of
`1..n` into itself is the identity.

The theorems about all parts of `MCLive` and `MCServices` use that a behaviour of the parts
together is one of each part (`PartsRun`), so that what a part's own specification implies
holds of it beside the others. `LiveProofs` takes the facts about a socket, the database and the page from
the modules that prove them, by showing that the two instances have the same steps (`SameHub`,
`SameDatabase`, `SamePage`).

Model-checked only are the liveness properties `ReadersCatchUp`, `RevokedSocketsClose`,
`EveryoneIsServed`, `RunsEnd` and `QueueDrains`: they rest on fairness, and with it on ENABLED, which is
beyond this prover. Nothing was proved by induction over a recursive definition, which is beyond it too:
where the code loops over a list, the models say what the loop has done so far, and the
proofs find the least counterexample instead.

## 6. What is not modelled, and the plan

`PROJECT.json` lists every part with its status. In the order of the plan:

1. Generated titles and tags, which overwrite what was typed meanwhile.
2. `_strip_reasoning` on stored text, and the arena's rating.

Left as it is, inside the modules that are there. No property or theorem depends on it:

- `Thread`: `_variant_chain` awaits a query for each step of its walk (`conversations.py:1865-1910`);
  `VariantChain` reads the rows at one moment.
- `Blobs`: it has no variant switching, so the variant shown is the last of its chain and
  `Branch` cuts after it; the code cuts after the last (`conversations.py:1298-1304`).
  `CloneBegin` takes the new conversation and the reading of the old one, two awaits, as one.
  `/api/files/` references that a client types into a message itself are stored as they are
  (`files.py:124-134, 188-191, 260-265`); here a client sends images only.
- `Accounts`: `CreateBegin` takes the check of the administrator and the look for the name as
  one step, `PasswordBegin` the check and the row; a provider whose sign-up is switched off is
  left out.
- `CodeExec`: `create_subprocess_exec` (`code_exec.py:242, 309`) is an await before the `try`; a
  cancellation or an error inside it is not modelled.
- `Turn`: a generated image is stored also when there is no text, and an outlet may rewrite the
  text (`plugins.py:28-33`): here text is what is stored, and an outlet keeps it or leaves none.
- `Ingest`: the rows of a document and of its chunks are stored at once; between the bare
  statements of the code a failure leaves a part, which `Handlers` has.
- `Relay`: the OpenAI proxy passes bytes, not lines, so that a break inside a line leaves the
  error frame glued to it (`openai_compat.py:95-98`); the Anthropic translation passes over an
  upstream's `{"error": ...}` chunk, and raises on a line that is no object
  (`anthropic_compat.py:166-178`). Lines here are chunks of text, a finish and `[DONE]`.

Left out for good: the requests to model servers, embedders, search engines, mail
and images; rendering; the formats of compatible APIs; schema creation and the
translation of SQL; cryptography; handlers that are one statement of one user's row
(notes, prompts, memories, banners, listings).
