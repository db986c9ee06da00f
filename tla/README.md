# A TLA+ verification project for redis-web

redis-web is an HTTP, WebSocket and gRPC gateway in front of Redis. This
directory holds TLA+ models of the parts of it whose behaviour depends on
interleavings, failures and limits, TLC configurations that check them on small
instances, and TLAPS proofs of the safety properties for every instance. Paths
below are relative to the root of the repository (`src/`).

## 1. The system

| component | source | state | operations |
|---|---|---|---|
| Pub/Sub bridge | `crates/redis-web-runtime/src/pubsub.rs` | map channel -> broadcast sender behind an `RwLock`, an mpsc queue of commands, one background task with one Redis connection | `subscribe`, the task loop, the HTTP streams (SSE, JSON, JSONP) |
| consumers of the bridge | `grpc.rs` (`subscribe`), `websocket.rs` (`handle_socket`) | a broadcast receiver each | forward messages to a gRPC stream or a WebSocket |
| compat sessions | `compat.rs` (`CompatSessionManager`) | map id -> session behind an `RwLock`, `last_access` of each session | `create_session`, `get_session`, `remove_session`, `sweep_expired` |
| compat Pub/Sub | `compat.rs` (`CompatSession`) | the sender of the session's Pub/Sub task, the task's connection and its channels and patterns, the broadcast of pushed frames | `execute_pubsub_control`, `ensure_pubsub_task`, `handle_pubsub_command`, `stream_raw`, `handle_ws` |
| RESP connections | `compat.rs` (`command_raw`, `handle_ws`), `websocket.rs` (`handle_socket_raw`), `redis-web-core/src/resp.rs` | the buffer of a request or socket, the channel to a socket's writer task | split a buffer into RESP commands, execute them in order, answer |
| database pools, executor | `redis.rs` (`DatabasePoolRegistry`), `executor.rs` | one deadpool pool per database, created on first use; permits and idle connections of each | `pool_for_database`, `Pool::get`, `recycle`, `execute` |
| HTTP handler | `handler.rs`, `redis-web-core/src/request.rs`, `format.rs` | none of its own | parse the path, check the ACL, choose a database, execute, compare entity tags, format |
| gRPC service | `grpc.rs` | a bounded reply channel per stream | `execute`, `execute_stream` |
| JSON WebSocket | `websocket.rs` (`handle_socket`) | a bounded channel to the writer task | execute commands, forward Pub/Sub messages |
| ACL | `redis-web-core/src/acl.rs` | the configured rules | `check` |
| configuration, start-up | `config.rs`, `redis-web/src/lib.rs`, `redis-web-compat/src/lib.rs`, `server.rs`, `redis.rs` | config files, the clients of Redis | find, write, read and check a config, build pool, Pub/Sub client and session manager, listen |
| benchmarks | `redis-web-bench` | a server process, shared counters, WebSockets, streams with a window of timestamps, artifacts | `compare`, `render-reports` |
| C drop-in, docs, scripts | `redis-web-hiredis-compat`, `docs`, `scripts`, `subprojects` | - | vendored code, its build, tooling |

How they interact: axum handlers (one tokio task per connection, and a handler
is dropped at any `await` when its client goes away) call into the shared state
(`AppState`). The Pub/Sub bridge and every compat session own tokio tasks that
are reached through bounded mpsc channels and that answer through broadcast or
oneshot channels. Redis is reached over pooled, multiplexed or Pub/Sub
connections, each of which may fail.

What is hard about it:

- locks held, or released, across an `await` (`pubsub.rs:135-145`,
  `compat.rs:97-123`, `compat.rs:146-166`, `compat.rs:300-379`);
- bounded queues and rings, and who waits for whom when they are full;
- handlers dropped half-way;
- state that outlives the connection it stands for;
- background tasks that must go on, or must stop;
- files, sockets and ports that are looked at first and used later;
- replies that come after the one who waited for them has given up.

`PROJECT.json` lists these places line by line under `hazards`, with the
properties that are about them.

## 2. Plan

Written, in this order: `PubSubManager` (the feature of the gateway with
most shared state), `CompatSessions`, `CompatPubSub`, `RespConnections`,
`CommandPools`, the abstract `ChannelStreams`, `Startup` with `Acl` and
`Gateway`, the benchmark modules; and a proof module for each component, the
refinement of `ChannelStreams` included. Every safety invariant of a run is
now proved as well.

What could follow: a model of the hiredis drop-in library beside
`CompatSessions`, once its C sources keep state of their own; the report of the
benchmarks, if it begins to decide something.

## 3. Modules

| module | what it is |
|---|---|
| `PubSubManager` | model, properties and mutants of the Pub/Sub bridge and its three kinds of consumers |
| `ChannelStreams` | what the bridge promises, without its map, lock, queue and task; `PubSubManager` implements it |
| `MCPubSubManager` | its instances for TLC |
| `PubSubManagerProofs` | type correctness, one command per channel, order in the rings and in the streams, no silent gaps, and the refinement of `ChannelStreams` |
| `CompatSessions`, `MCCompatSessions` | the session manager of the compat bridge |
| `CompatSessionsProofs` | its inductive invariant and five theorems |
| `CompatPubSub`, `MCCompatPubSub` | the Pub/Sub task of one compat session, with the handlers that start it and the streams it feeds |
| `CompatPubSubProofs` | no task of a session ends unannounced; types, who is answered, order of frames, acknowledged subscriptions |
| `RespConnections`, `MCRespConnections` | the RESP parser and the three handlers that use it |
| `RespConnectionsProofs` | the parser is sound and complete; commands run as sent, are answered in order and lost only for a reason |
| `CommandPools`, `MCCommandPools` | handlers, pool registry, pools and executor |
| `CommandPoolsProofs` | permits and connections, the right database, broken connections |
| `Startup` | config files, command lines, the load of a config and the clients of a server |
| `Acl` | the access rules, their check and its reference |
| `Gateway`, `MCGateway` | `Startup` and `Acl` composed with the handlers of HTTP, gRPC and the JSON WebSocket |
| `GatewayProofs` | the ACL decides by its last rule; one Redis, refused commands, order of replies, entity tags |
| `Induction` | induction over numbers in the form that the proofs use |
| `BenchSpec` | the spec of a comparison: JSON documents, their merge and the variants it asks for |
| `BenchPlan` | workloads and their operations, metrics |
| `BenchWorkers`, `BenchStreams` | command workloads and streaming workloads |
| `Bench`, `MCBench` | a comparison with its server process, composed of the three above |
| `BenchProofs` | types, the counts of operations, what a success has read, the phases of a stream |

Definitions named like `SendCommandTries`, preceded by a comment "Mutant", are
wrong variants of the definition after them; no specification uses them. They
show that a property can fail: `PROJECT.json` pairs every property with one.

### 3.1 PubSubManager

One subscriber is one call of `subscribe` and the stream behind it.
`SubscribeExisting` and `SubscribeNew` are the two branches under the write lock;
a new channel enters the map first and its command is sent afterwards
(`SendCommand`, which waits for room with the lock held) or never
(`CancelSubscribe`, the request is dropped). The task is `pc`: `Connect`, then
alternately `TakeCommand`/`RedisSubscribe` until the queue is empty and one wait
for a message (`ReceiveMessage`, `ListenTimeout`, `StreamEnded`), then `Dispatch`
under the read lock. `sent[c]` is everything ever sent to the broadcast sender of
a channel; a receiver is a cursor into it, and it has lagged when the cursor is
more than a ring behind. Message payloads are numbers in publication order.

`ChannelStreams` says what a consumer may rely on: a log per channel in the order
of publication, read from the moment of joining, without a gap unless the reader
is more than a ring behind, and then as its kind handles a gap. The refinement
maps the log to `sent`, the position to the cursor and the end of a stream to
the state `"ended"`; `ImplementsStreams` is the abstract specification under that
mapping.

Abstracted: framing of SSE, JSON and JSONP (one kind of stream, `"http"`),
logging, the pause of five seconds before a reconnect.

### 3.2 CompatSessions

A request slot runs one request after the other. `create_session` and
`get_session` begin with the sweep: `ScanOne` per session under the read lock,
`ScanDone`, `Evict` under the write lock. Then `Count`, `Connected` or
`ConnectFails`, `Insert`; or `Lookup`, `Touch` and the use of the session.
`DeleteSession`, `Abort` (the server drops a handler) and `Tick` may come at any
time. `now` is `Instant::now()` in ticks.

### 3.3 CompatPubSub

One session. `Ensure` and `Store` are the two critical sections of
`ensure_pubsub_task`, `Send`/`SendFails`/`Receive` the rest of
`execute_pubsub_control`. The session is alive while the map or a handler holds
its `Arc`; `RxClosed` and `PushClosed` say which senders exist, which is what
`rx.is_closed()` and `RecvError::Closed` observe. A handler that is dropped
(`Abort`) leaves its command in the queue with nobody to answer to. A stream's
`feed` is its part of the broadcast channel; when it is full the oldest frame
goes, and the receiver skips it (`Lagged(_) => continue`).

Abstracted: the RESP text of frames, the subscription count in replies, the
warning of the HTTP fallback, the writer task behind a socket (it only makes the
forwarder slow).

### 3.4 RespConnections

One connection of one of three kinds, whose client sends a stream of commands.
The stream is a sequence of tokens (mark, number, CR LF, data); the buffer of the
handler is the stretch between `start` and `received`, because `drain` and `clear`
only remove from its front. `ReceiveMessage(n)` is a message that ends after any
token. `ParseCommand` is `parse_command`, its loop over the arguments a recursive
function (`read`) of their number, with its habits: the end of the data
ends a header line, so a message that ends behind `*` or `$` is an error, and
`*0` is taken before its CR LF has come (`CutsHeader`). `RawParse`, `CompatParse`
and `HttpParse` are one turn of the loop of `handle_socket_raw`, `handle_ws` and
`command_raw`; they differ in the ACL, the empty command, the limit and in what
happens to a bad one. `WriterSends` and `Push` are the tasks of `handle_ws`.

Abstracted: the bytes of arguments and of answers; the ACL is a verdict on a
command; a number is one token, since a cut within it makes the parser wait just
as a cut behind it does (numbers without leading zeros, which is how clients write
them); a cut within a CR LF is one before it. Numbers are small: the code allocates what
a header announces before it has come (`Vec::with_capacity(count)`, `vec![0u8; len]`,
`resp.rs:72` and `90`), and a huge count or length is not modelled.

### 3.5 CommandPools

A slot is a handler with one command at a time; `process_request`,
`grpc_execute`, `grpc_execute_stream` and `handle_socket` are the four ways in.
`LookUp`, `CreatePool` and `InsertPool` are the parts of `pool_for_database`
between which it awaits a lock. `Acquire`, `TakeIdle`, `Recycle` and `Open` are
`Pool::get` of deadpool, modelled from how it is used here (no timeouts, oldest
connection first). `Query` runs the command and returns the connection. `Cancel`
drops a request at any `await`; tasks of sockets and streams are not dropped.
`Break` closes a connection at any time.

Abstracted: values, formats and status codes (see `Gateway`); the ACL is a
verdict.

### 3.6 Startup, Acl and Gateway

`Startup` is one process after the other: `Invoke` is a command line, `CheckAbsent`
and `WriteConfig` the two halves of `--write-default-config` and
`--write-minimal-config`, `LoadConfig` the rest of `load_config` with the check of
the transport mode, `BuildPool`, `BuildPubSub` and `BuildCompat` the steps of
`build_runtime`, each of which looks at the UNIX socket of Redis anew, `Listen` is
`serve`. `Edit` is everybody else: files and the socket come and go between any
two steps. A config is a map from paths to texts; placeholders are expanded
before a field has its type, as in `from_json_value`. The clients are records of
what they will connect to (address, TLS, user, password, database, keep-alive);
credentials in a URL are decoded by its reader, those of a socket are not.

`Acl!check` folds `Judge` over the rules; `LastWord` is the reference that it is
compared with: of the rules that apply and name the command the last one decides.

`Gateway` is what happens once `run` is `"serving"`. `process_request` takes a URL
apart (`ParsedRequest`: database prefix, suffix, percent-escapes, JSONP, `?type=`),
answers errors and refusals at once and otherwise leaves the command to
`ExecuteHttp`, which builds the response with the early returns of the code: they
do not get the headers of `WithHeaders`. The entity tag is the text that the code
hashes, without separators, as there. A client may keep a tagged response and ask
to confirm it; `last[p].full` is the body it would have been sent. `execute`,
`execute_stream` and `JsonCommand` are the other ways in; the last two put their
replies into a bounded channel (`SendReply`), which `Push` shares, and a stream
whose next item cannot be read ends with an error there (`FailStream`).
`handle_subscribe` (HTTP) and `subscribe` (gRPC) begin a subscription; what becomes
of it is the subject of `PubSubManager`.

The rules are asked in `process_request`, `execute`, `execute_stream` and
`subscribe`. Two ways in do not ask them and are modelled that way: the JSON
WebSocket, and `GET /SUBSCRIBE/{*channel}`, which has a route of its own
(`server.rs:86`) to `pubsub::handle_subscribe`. `DeniedNeverRuns` speaks of the
first four and leaves out the other two, by name.

Abstracted: one key and a few values stand for the data of Redis; extensions that
behave alike are one; the SHA-1 is taken to have no collisions (a tag is
the texts that are hashed, joined, and is never empty); texts of errors.
`handle_put` does what `handle_post` does and is kept as an action of its own. A
stream keeps the credentials it opened with (`OpenStream`), as `execute_stream` reads
them once, before its loop. `MaxServedEdits` bounds the edits of its files that a
server may have behind it when requests come; the run uses 0, the theorems hold for
any number.

### 3.7 Bench

`Bench` follows `run_compare`: `ResolveSpec`, `CreateArtifactDir`, then for each
variant `ensure_binary_for_mode`, `Spawn`, `Poll`, its workloads, `EndVariant`; at
last `WriteResults` and `WriteReport`. `Abort` is the `?` operator: the server that
was launched is dropped and thereby killed. `BenchSpec` has what is done to JSON
documents, by recursive operators: the merge of overrides, the diff that is
reported, and `VariantContexts`, the contexts that `build_variant_context` makes of the
variants. `BenchPlan` takes these as its constant `Contexts` (the `.cfg` gives it
`VariantContexts`), so that the modules with actions can be proved about for any
list of contexts; it has the suites of a mode, keys and requests of every
operation, and the index of a percentile.

`BenchWorkers` is one command workload. All parallel loops of `suites.rs` have the
same shape and differ in the operation (`Operation`) and in the connection. On a
WebSocket, `Send`, `Respond` and `next_websocket_text` are apart, because a reply
may come after its operation has timed out. `BenchStreams` is one streaming
workload, over SSE or gRPC: sentinel, startup payload, warm-up messages, and the
publisher task with its window of timestamps.

`port` is who listens where the server is expected: nobody, the server that was
launched, or another process, which `Poll` and everything after it take for the
server. Who listens may go mute (`GoesMute`): connections are accepted and nothing
is answered. A request to the mute ends with the time limit of the HTTP client or
of `next_websocket_text` (`TimesOut`) where there is one; where there is none
(gRPC calls, the requests for a subscription, the handshake of a WebSocket)
no step is left (`Hanging`).

What a reply says is not looked at: `wk[w].flaws` collects what was wrong with the
replies of an operation all the same. A refused command has status 200 on the
`.raw` URLs (`HidesRefusal`; `Gateway!Failed` says the same of the server) and is a text
like any other on a WebSocket (`Respond`, `FlawsOf`); a key is missed when the seeding
went elsewhere. It does so when the config names a `redis_socket`, because
`redis_connection` goes to `redis_host` then too: `Spawn` chooses whether that is the
same Redis (`job.same`), and without it neither `SeedCache` nor a published message
reaches the server. `Hidden` lists what a success may hide, by transport, and
`MeasuresWhatItNames` says that it hides nothing else.

Abstracted: durations (a time limit may pass whenever what was waited for has not
come, bounded by `MaxFaults`), payloads, texts of errors, the rendering of the
report. A warm-up over a WebSocket is one step, handshake included; that it times out
behind the handshake is one of the failures of `Fault`.

## 4. Runs

`tlc -workers 2 -config X.cfg M`; every passing run ends in about three minutes or less.

| run | shows | bounds |
|---|---|---|
| `pubsub_safety` | one SUBSCRIBE per channel, no silent gap, and every step is one of `ChannelStreams` | 3 subscribers (one of each kind), 2 channels, queue and ring of 1, 3 messages, 1 fault |
| `pubsub_liveness` | channels get subscribed, messages arrive, the task checks its queue, across a lost connection | queue large enough for every channel |
| `pubsub_reconnect` (violation) | after a reconnect nothing subscribes the known channels again | 1 subscriber |
| `pubsub_full_queue` (violation) | lock and full queue deadlock | queue of 1 |
| `compat_sessions` | bound on the overshoot, sessions leave once, active ones survive, expired ones are not served, every request ends | 2 requests, 2 ids, limit 1, TTL 1, 2 ticks |
| `compat_pubsub_safety` | commands are neither lost nor answered twice, no silent death of a task, frames in order | 2 handlers, 2 tasks, 1 HTTP stream, 2 messages, 1 fault |
| `compat_pubsub_client` | acknowledged subscriptions are held, commands are answered, tasks and streams end | 1 handler, a channel and a pattern, 1 fault |
| `compat_pubsub_race` (violation) | two tasks, and the acknowledged subscription of one is lost | 2 handlers |
| `resp_connections` | commands are executed as sent and in order, answered in order and within the limit of a pipeline, none is overlooked, thrown away only for a reason, every message and executed command comes to its end | all three kinds, every stream of 1 or 2 commands of 4 shapes, every way to cut it; limit 1, channel of 1, 1 fault, 1 push or ping |
| `command_pools` | connections per database and who has them, the right database, a broken connection fails one command at most, every command ends | 2 slots, 2 databases, pools of 1, 3 commands, 1 fault |
| `http_gateway` | all clients of a server reach the same Redis, nothing runs that the rules forbid where they are asked, "not modified" is true, replies keep their order | 9 documents, 6 command lines, 1 edit of the file system; 4 clients (HTTP, gRPC call, gRPC stream, WebSocket), 3 messages to a server without edits, channel of 1, 1 write by others |
| `bench` | operations are counted once, a success hides only what `Hidden` names, phases of a stream stay apart, a comparison ends and leaves no server unless it spins or hangs | baseline (HTTP, WebSockets) and 1 variant (gRPC, socket), 2 workers, 1 warm-up and 3 measured operations, 2 and 4 messages, window 2, 3 attempts, 2 polls, 2 faults per workload |

The run `bench` also evaluates the assumptions of `MCBench`: `merge_json` and
`flatten_diff` against what they are to compute on all documents of two levels
over two keys, and the index of a percentile for up to 200 latencies.

Why the bounds are enough: every race in these components is between two holders
of one lock or queue and one background task, so two request slots (three kinds
of subscriber) are present; capacities of one make "full" and "lagged" happen
after one step; one fault gives every place where a connection can fail, two
faults a failure after a recovery. Two commands are enough for a parser that
keeps no state but its buffer: one to be cut or refused and one behind it. Three
commands let a connection be opened, broken and checked again. Three messages to
a gateway let a client cache, somebody write, and the client ask again; the
documents are one for each way a start can end. Two faults in a workload of the
benchmark are as many as the window of its publisher has places, so that it can run
full for good, and enough for a refusal or a stranger's message before the silence. The
run `pubsub_safety` identifies states that differ in the names of the channels
only; its properties, the refinement (a safety property) included, do not tell
channels apart. All safety invariants are also
proved for all bounds (section 6).

`CHECK_DEADLOCK FALSE` is used where the system may come to rest: a compat
session that is gone, a connection whose client sends nothing more, handlers
without commands, a process that has ended, and the deadlock of `pubsub_full_queue` itself, which is
reported as the liveness failure it causes.

## 5. Fairness

- Tokio polls every task that can go on: weak fairness for the background task,
  for handlers with work to do and for streams.
- Tokio's `RwLock` and mpsc semaphores are fair queues: a waiter is served even
  if others come and go. This is strong fairness of taking the write lock
  (`Evict`, `Insert`), of sending (`SendCommand`, `Send`) and of getting a permit
  of a pool (`Acquire`).
- A Redis that is reached answers: weak fairness of `Execute` and `Query`.
- `WF_vars(Compare)` in `Bench`: the benchmark program goes on while one of its
  steps can be taken. Where the code has a limit (`timeout(..)` around reads of a
  WebSocket and of streams, the client of the HTTP commands, 80 polls, 50 attempts)
  that step is an error; where it has none, a mute server leaves no step. Those
  places are the calls of gRPC (`connect` is answered by whoever accepts, `execute`
  and `subscribe` are not), the SSE client (`suites.rs:1246` and `1321`) and
  `connect_async` (`suites.rs:1074` and `1104`): `CompareEnds` lists them as `Hanging`,
  beside the publisher's wait for room (`Spinning`). What the fairness does assume:
  the build by cargo ends, Redis answers or refuses the benchmark's own commands, and
  files can be read and written. The limit of an SSE read is one per chunk: the keep-alive
  of the server comes every 15 seconds and the longest limit is 10, but a stranger
  that sent empty chunks for ever would be read for ever, which the model leaves out.
- Of clients: the use of a compat session ends (`RequestsEnd`), since axum drops the
  handler of a client that is gone; and the client of a compat WebSocket reads it or
  is gone, so that its writer gets on (`ExecutedIsAnswered`). Nothing is assumed of
  other clients, of Redis sending messages, of failures or of the clock.
- Behaviours have finitely many messages and faults (the bounds); `TasksEnd` depends on
  that: the task of a removed session looks at its command channel only when no
  message comes for a moment.

## 6. Proofs

All proofs are checked by `tlapm` from the assumptions of the models
(`ConstantsAssumption` of `PubSubManager`, `CompatSessions` and `CompatPubSub`,
`BoundsAssumption` of `RespConnections`, `PoolsAssumption` of `CommandPools`,
`GatewayAssumption` and `TextsAssumption` of `Gateway`, `PlanAssumption` of
`BenchPlan`, `StreamsAssumption` of `BenchStreams`, `PollsAssumption` of `Bench`:
capacities of at least one, finite sets of requests and of workers, and that the
constants have the form the code gives them) and hold for every value of the
constants. Every safety invariant that a run checks is stated by a theorem; two of
these theorems have a hypothesis of their own (`AckedHeld`, `NotModifiedHolds`).

- `PubSubManagerProofs`: `IInv` is `TypeOK`, `OneCommandPerChannel` and what
  makes them inductive: where the command of a mapped channel is (`Pending`,
  queued, in hand, taken), that the pieces are disjoint, and that every message
  on the wire belongs to a mapped channel. `Invariance` proves it step by step,
  one lemma per group of actions; `TypeCorrect` and `OneCommand` follow.
  Of the streams, `RingsKeepOrder` needs that wire, hand and rings hold
  increasing numbers below `produced`; `StreamCorrect` adds `StreamInv`, which
  relates what a stream has yielded to its cursor (a lagged receiver jumps
  forward and, except for gRPC, says so). `Refinement` shows that every step of the
  bridge is a step of `ChannelStreams` or changes nothing it speaks of: a
  dispatch appends to the log, a subscription joins at its end, a read is a read
  or a jump. It needs `JoinInv` (who has not subscribed has no channel).
- `CompatSessionsProofs`: `RequestInv` (an id to insert is nobody else's; a scan
  only sees what its read lock keeps in the map), `ClockInv` (what is idle is
  known to the history), and `SweepInv`: a session that had expired when a
  request came is still to be scanned, or to be removed, or gone, or was touched
  since. The bound on the overshoot is a counting argument: passing the check
  leaves room for one, an insertion turns a request in flight into a session.
  Theorems: `TypeCorrect`, `Overshoot`, `SessionsLeaveOnce`, `ActiveSurvives`,
  `ExpiredIsGone`.
- `CompatPubSubProofs`: `SenderInv` (who may still hold a sender of a task, and
  that a task which has ended is not the stored one without an announcement)
  makes `EndIsAnnounced` inductive; `EndAnnounced` is the theorem. `Served`: a
  handler that waits is in the queue of its task or in its hand, exactly once
  (`ServeInv`), and what is queued there is queued for somebody who waits or for
  nobody. That gives `WaitingIsServed`: no command is lost, answered twice or
  answered to another. `FramesOrdered`: what is to come (`InboxOrder`) is younger
  than what is in a feed (`FeedOrder`), and that is younger than what was
  streamed. `TypeCorrect` is proved in parts, by who changes what. `AckedHeld`:
  until an end is announced the session has one live task, which holds what was
  acknowledged and is not asked to give it up unnoticed (`HeldInv`). Its
  hypothesis is that the session has a single handler; with two the invariant is
  false, and `compat_pubsub_race` is the counterexample.
- `RespConnectionsProofs`: `StreamMade` says what a stream is, whatever its
  commands: frames in turn, each token of its command, a string followed by its
  CR LF only in a command that is well formed. From it `ParseSound`: a command
  that `parse_command` accepts ends within the buffer, and its first argument is the
  name of a well-formed command of the client that lies in the part taken.
  `ParsedIsNext`: it lies behind every command taken before, so that `Upto`, the
  last command the buffer has given away, only grows. `IInv` adds the command in
  hand (`HandInv`), what was executed (`ExecInv`), what was answered, written or
  is still to be written (`OrderInv`, `CoverInv`) and the count of a pipeline
  (`PipelineInv`). Theorems: `TypeCorrect`, `ExecutedHolds`, `AnswersHold`. `LossExplained` also needs
  what `parse_command` says of a frame that is not whole. A layout of the stream,
  made by induction over its commands, tells where each frame ends (`EndOf`), and
  `Outcome` what the parser answers on every prefix of a frame: it takes a whole
  well-formed command, refuses one that is not, and on a cut waits, except behind a
  `*` or `$`. `LossInv` then says that what is behind the handler of a socket was
  answered, reported or is in hand (`HandledInv`), that a handler waits only when
  every whole frame is behind it (`WaitInv`), that it is between two frames unless a
  cut was bad (`CutInv`, `FrameInv`), why commands are lost (`ReasonInv`), and that a
  POST has an answer for every frame behind it (`RequestInv`).
- `CommandPoolsProofs`: in `IInv` a pool in use is the one pool of its database,
  and the pools made by the losers of the race in `pool_for_database` stay empty
  (`RegistryInv`); a permit is free or with one handler, and idle, busy and
  soon-to-be-opened connections are no more than `PoolSize` (`CountInv`); no
  connection is in two places (`Exclusive`); one that no client has moved is in
  the database of its pool (`DatabaseInv`); a closed one fails one command at
  most (`FailInv`). The count is kept although a request may be dropped at any
  `await`. Theorems: `BoundHolds`, `DatabaseHolds`, `BrokenIsFoundOut`.
- `GatewayProofs`: `CheckIsLastWord` says of the loop of `Acl::check`, for every
  list of rules, that the last rule that applies and names the command decides.
  `StartInv` follows a start: the clients built so far are clients of the config
  that was loaded. `PeerInv` follows one client: the command in hand, or the
  subscription over gRPC, was let through by the rules of that config (`Sound`; not on
  the WebSocket and not for an HTTP subscription, which `DeniedNeverRunsHolds` leaves
  out), and a command has a database; what a client
  got, what is in its channel and what is in hand are the replies it is owed, in
  order (`Ordered`). A step changes what belongs to one client, so a lemma per
  handler is enough. Theorems: `TypeCorrect`, `OneRedisHolds`,
  `DeniedNeverRunsHolds`, `RepliesInOrderHolds`. `NotModifiedHolds`: a client told
  304 holds the body that it would have been sent. `CacheInv` says that what a client
  keeps is a response to a GET of its URL (`Kept`) and that a request in hand
  confirms only what the client still has (`Held`); `SameTag` says that two answers
  of one URL with the same tag have the same body, since joining texts can be
  undone. The hypothesis `TextLaws(STRING)` is what this takes: that texts are
  sequences of characters, joined by concatenation. TLA+ defines strings so, the
  provers do not know it, and TLC evaluates it on the texts of `MCGateway`
  (`TextsAreSequences`).
- `BenchProofs`: the `IInv` of a comparison has a part for each of its actors. The
  job is at a suite of its plan, which has a result once its workers or its reader
  have stopped (`JobTypes`, `JobInv`, `ResultInv`). The operations that the shared counter has handed out are those
  counted and those in hand, over all workers, and no two workers have the same
  (`WorkerTypes`, `Counting`); nothing is counted or sent before the measuring
  begins (`Untouched`); a worker that has not given up on a reply has at most the
  request of its own step on its socket, and what has been wrong with the replies of
  the operation in hand is within `Hidden` (`Sockets`). A measured message on the
  stream has its timestamp in the window (`Stamped`), and what is read belongs to
  the phase that reads it, unless the wait for the sentinel gave up on one
  (`StreamTypes`, `Phases`, `CleanHandOver`). What a stranger on the port sends may be
  anything, so `MeasuresCorrect` and `HandOverClean` speak of the launched server only;
  a stream that has failed ends the comparison (`WhyInv`), so that what a stranger did
  is not held against a later server. The modules of the benchmark take the variants that were
  resolved as the constant `Contexts`, so that the recursive operators of
  `BenchSpec` stay out of what is proved. Theorems: `TypeCorrect`, `CountsCorrect`,
  `MeasuresCorrect`, `HandOverClean`.
- `Induction`: the library's induction theorems are about an operator, which
  none of the provers can instantiate. `SetInduction` is about a set: one that
  holds 0 and every successor holds all numbers. What a loop (the ACL's, the
  parser's, the search of a reply in a channel) has computed after n rounds is
  proved with the set of those n. The loops are recursive functions for this
  reason.

Only model-checked:

- every liveness property, `CompareEnds` included (the prover has no fairness
  reasoning and no `ENABLED`);
- what the recursive operators of `BenchSpec` compute (the merge of the overrides,
  the list of differences): assumptions of `MCBench` state it for
  all small documents.

`RingsKeepOrder` and `StreamsInOrder` are proved and no longer checked by a run,
since the refinement says more.

## 7. What the checks found

Violations of statements in the docs or comments, each a run of its own
(`findings` in `PROJECT.json` quotes the lines):

1. After a reconnect the bridge does not subscribe its channels again.
2. `subscribe` holds the write lock while it waits for room in the queue; with a
   message in hand the task waits for that lock and nobody makes room.
3. Two first Pub/Sub commands of a compat session start two tasks, and the
   subscription of the first is lost after it was acknowledged.

Met on the way, part of the models and not runs of their own:

- Pub/Sub: a request dropped while its SUBSCRIBE waits for room leaves a channel
  that is in the map and never subscribed (`abandoned` in `PubSubManager`); the
  WebSocket forwarder stops when it lags.
- Sessions: `max_sessions` is compared and used under different locks, so that
  concurrent requests exceed it, by fewer than there are requests
  (`OvershootBounded`; `api.md:222` says that it caps the sessions); a sweep may
  remove a session that was touched after its scan.
- RESP: a message that ends behind `*` or `$` is refused although `parse_command`
  documents `Ok(None)` for data that is not complete (`badCut`); a POST that
  exceeds `max_pipeline_commands` has already executed the commands before.
- Pools: a client's `SELECT` moves a pooled connection, which returns to its pool
  in the other database (`strayed` in `CommandPools`; `redis.rs:148` says that
  connections stay in theirs). With `pool_size` 0 a server starts and every
  command waits for ever (`Outcome` in `Gateway` is never enabled then).
- Start-up: `--write-default-config` replaces a file that appears between its test
  and its write; keep-alive is applied to the pool and not to the Pub/Sub client
  (`OneRedis` leaves it out); credentials go into the URL as they are, so that
  characters reserved there change their meaning.
- HTTP: "Add CORS headers to every response" (`handler.rs:378`) is not reached by
  the early returns (parse error, ACL, text of a reply that is no text).
- ACL: a rule with credentials ignores its own subnet.
- ACL: neither the JSON WebSocket nor `GET /SUBSCRIBE/{*channel}` (`server.rs:86`,
  `pubsub.rs:158`) asks the rules; the gRPC subscription does (`grpc.rs:166`).
- Benchmarks: a command that fails counts as a success where its failure has no
  status: on the `.raw` URLs (`PING`, `GET`, `MGET`, `HMGET`) and over a WebSocket, whose
  texts are thrown away (`Hidden`); `redis_connection` does not know `redis_socket`, so a
  variant with a socket is seeded, and its streams are published to, through TCP
  (`job.same`); whoever has taken the port is measured; calls without a time limit
  wait for a mute server for ever (`Hanging`); the SSE reader drops what follows the first
  payload of a chunk (`Lose`); more reads that time out than the window has places
  leave the publisher waiting for ever (`Spinning`); a server is left behind when
  `try_wait` fails.

## 8. Not modelled

- `value_to_resp`, the protobuf form of values, the texts of JSON, INFO and error
  messages: data, without state.
- The table of routes, `handle_options`, the root page, logging, TLS files.
- `interfaces.rs` (traits), `report.rs` and `summary.rs` of the benchmarks
  (Markdown and texts about the machine).
- Huge counts and lengths in RESP headers, for which `parse_command` allocates before
  the data has come.
- The C drop-in library and its build, scripts and docs.
- The inner workings of tokio, axum, tonic, deadpool, redis-rs and Redis; the
  actions that stand for them are marked external in `PROJECT.json`.
