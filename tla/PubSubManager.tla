--------------------------- MODULE PubSubManager ---------------------------
(***************************************************************************)
(* The Redis Pub/Sub bridge of redis-web-runtime (src/pubsub.rs): the      *)
(* channel map and its RwLock, the bounded command queue, the background   *)
(* task with its dedicated Redis connection, one broadcast ring per        *)
(* channel, and the three kinds of consumers of a ring: the HTTP streams   *)
(* (pubsub.rs), the gRPC stream (grpc.rs) and the forwarder of the JSON    *)
(* WebSocket (websocket.rs).                                               *)
(*                                                                         *)
(* A subscriber is one call of PubSubManager::subscribe and the stream     *)
(* that it feeds.  Messages are numbered in the order in which Redis sends *)
(* them; message payloads are these numbers.                               *)
(***************************************************************************)
EXTENDS Naturals, Sequences

CONSTANTS
    Subscribers,    \* the calls of subscribe
    Channels,       \* Redis channel names
    Kind,           \* how each subscriber consumes: "http", "grpc" or "ws"
    None,           \* no subscriber, no channel, no message
    QueueCap,       \* capacity of the command queue (100 in the code)
    RingCap,        \* capacity of a broadcast ring (100, rounded up to 128)
    MaxMessages,    \* bound: messages that Redis sends in a behaviour
    MaxFaults       \* bound: faults of the Redis connection in a behaviour

ASSUME ConstantsAssumption ==
    /\ Kind \in [Subscribers -> {"http", "grpc", "ws"}]
    /\ None \notin Subscribers \cup Channels
    /\ QueueCap \in Nat \ {0}
    /\ RingCap \in Nat \ {0}
    /\ MaxMessages \in Nat
    /\ MaxFaults \in Nat

VARIABLES
    \* the manager
    mapped,     \* keys of `channels`; an entry is never removed
    writer,     \* the subscriber that holds the write lock across an await
    queue,      \* the mpsc queue of Command::Subscribe
    sent,       \* sent[c]: everything sent to the broadcast sender of c
    \* the background task
    pc,         \* where the task is in its loops
    current,    \* the channel of the command in hand
    inHand,     \* the message in hand
    \* the Redis connection of the task (external)
    link,       \* the connection, "up" or "down"
    redisSubs,  \* channels subscribed on the connection
    wire,       \* messages sent by Redis and not yet read by the task
    produced,   \* how many messages Redis has sent
    faults,     \* how many faults there were
    \* the subscribers
    state,      \* state of each subscriber
    chan,       \* its channel
    cursor,     \* position of its receiver in sent[chan]
    out,        \* what its stream has yielded
    socket,     \* the WebSocket of the forwarder, "open" or "closed"
    \* history
    joined,     \* cursor at subscription
    taken,      \* channels whose command the task has dequeued
    abandoned   \* channels whose command was never enqueued

manager == <<mapped, writer, queue, sent>>
task == <<pc, current, inHand>>
redis == <<link, redisSubs, wire, produced, faults>>
subs == <<state, chan, cursor, out, socket, joined>>
history == <<taken, abandoned>>
vars == <<manager, task, redis, subs, history>>

(* The event that an HTTP stream yields for RecvError::Lagged.             *)
Lagged == 0
MessageIds == 1 .. MaxMessages
(* A message on the wire; get_payload::<String>() fails on a binary body.  *)
Message == [ch : Channels, id : MessageIds, body : {"text", "binary"}]

TaskPcs == {"connect", "drain", "subscribe", "listen", "dispatch"}
SubscriberStates == {"idle", "sending", "streaming", "ended"}

(* One type invariant: every variable of the manager, its task, the Redis  *)
(* connection and the consumers stays in its domain.                       *)
TypeOK ==
    /\ mapped \in SUBSET Channels
    /\ writer \in Subscribers \cup {None}
    /\ queue \in Seq(Channels)
    /\ sent \in [Channels -> Seq(MessageIds)]
    /\ pc \in TaskPcs
    /\ current \in Channels \cup {None}
    /\ inHand \in Message \cup {None}
    /\ link \in {"up", "down"}
    /\ redisSubs \in SUBSET Channels
    /\ wire \in Seq(Message)
    /\ produced \in 0 .. MaxMessages
    /\ faults \in 0 .. MaxFaults
    /\ state \in [Subscribers -> SubscriberStates]
    /\ chan \in [Subscribers -> Channels \cup {None}]
    /\ cursor \in [Subscribers -> Nat]
    /\ out \in [Subscribers -> Seq(MessageIds \cup {Lagged})]
    /\ socket \in [Subscribers -> {"open", "closed"}]
    /\ joined \in [Subscribers -> Nat]
    /\ taken \in SUBSET Channels
    /\ abandoned \in SUBSET Channels

Init ==
    /\ mapped = {} /\ writer = None /\ queue = <<>>
    /\ sent = [c \in Channels |-> <<>>]
    /\ pc = "connect" /\ current = None /\ inHand = None
    /\ link = "down" /\ redisSubs = {} /\ wire = <<>>
    /\ produced = 0 /\ faults = 0
    /\ state = [u \in Subscribers |-> "idle"]
    /\ chan = [u \in Subscribers |-> None]
    /\ cursor = [u \in Subscribers |-> 0]
    /\ out = [u \in Subscribers |-> <<>>]
    /\ socket = [u \in Subscribers |-> "open"]
    /\ joined = [u \in Subscribers |-> 0]
    /\ taken = {} /\ abandoned = {}

----------------------------------------------------------------------------
(* PubSubManager::subscribe                                                *)

(* Mutant: the receiver starts at the oldest message.                      *)
AttachAtStart(u, c) ==
    /\ chan' = [chan EXCEPT ![u] = c]
    /\ cursor' = [cursor EXCEPT ![u] = 0]
    /\ joined' = [joined EXCEPT ![u] = Len(sent[c])]
    /\ UNCHANGED <<out, socket>>

(* The receiver of u starts behind the last message of the ring of c.      *)
Attach(u, c) ==
    /\ chan' = [chan EXCEPT ![u] = c]
    /\ cursor' = [cursor EXCEPT ![u] = Len(sent[c])]
    /\ joined' = [joined EXCEPT ![u] = Len(sent[c])]
    /\ UNCHANGED <<out, socket>>

(* Mutant: every subscriber of a channel sends a command.                  *)
SubscribeExistingSends(u, c) ==
    /\ state[u] = "idle" /\ writer = None /\ c \in mapped
    /\ Attach(u, c)
    /\ state' = [state EXCEPT ![u] = "sending"]
    /\ writer' = u
    /\ UNCHANGED <<mapped, queue, sent, task, redis, history>>

(* The channel has a sender: take the write lock, subscribe to the sender, *)
(* release the lock; nothing in between awaits.                            *)
SubscribeExisting(u, c) ==
    /\ state[u] = "idle" /\ writer = None /\ c \in mapped
    /\ Attach(u, c)
    /\ state' = [state EXCEPT ![u] = "streaming"]
    /\ UNCHANGED <<manager, task, redis, history>>

(* The first subscriber of a channel inserts the sender and then awaits    *)
(* cmd_tx.send with the write lock in its hand.                            *)
SubscribeNew(u, c) ==
    /\ state[u] = "idle" /\ writer = None /\ c \notin mapped
    /\ Attach(u, c)
    /\ state' = [state EXCEPT ![u] = "sending"]
    /\ mapped' = mapped \cup {c}
    /\ writer' = u
    /\ UNCHANGED <<queue, sent, task, redis, history>>

(* Mutant: try_send, with the room miscounted by one, and its error        *)
(* ignored.                                                                *)
SendCommandTries(u) ==
    /\ state[u] = "sending"
    /\ queue' = IF Len(queue) + 1 < QueueCap THEN Append(queue, chan[u])
                                             ELSE queue
    /\ writer' = None
    /\ state' = [state EXCEPT ![u] = "streaming"]
    /\ UNCHANGED <<mapped, sent, task, redis, chan, cursor, out, socket,
                   joined, history>>

(* There is room in the queue: the send completes, the lock is released.   *)
SendCommand(u) ==
    /\ state[u] = "sending" /\ Len(queue) < QueueCap
    /\ queue' = Append(queue, chan[u])
    /\ writer' = None
    /\ state' = [state EXCEPT ![u] = "streaming"]
    /\ UNCHANGED <<mapped, sent, task, redis, chan, cursor, out, socket,
                   joined, history>>

(* The client of a pending HTTP or gRPC request goes away: the server      *)
(* drops the handler, and with it the lock and the send that waits for     *)
(* room.  The map entry stays.  A WebSocket runs in a task of its own,     *)
(* which is not dropped.                                                   *)
CancelSubscribe(u) ==
    /\ state[u] = "sending" /\ Len(queue) = QueueCap /\ Kind[u] # "ws"
    /\ writer' = None
    /\ state' = [state EXCEPT ![u] = "ended"]
    /\ abandoned' = abandoned \cup {chan[u]}
    /\ UNCHANGED <<mapped, queue, sent, task, redis, chan, cursor, out,
                   socket, joined, taken>>

----------------------------------------------------------------------------
(* The background task                                                     *)

(* get_async_pubsub: a new connection starts without subscriptions.        *)
Connect ==
    /\ pc = "connect"
    /\ pc' = "drain"
    /\ link' = "up" /\ redisSubs' = {} /\ wire' = <<>>
    /\ UNCHANGED <<manager, current, inHand, produced, faults, subs, history>>

(* The attempt fails: sleep and try again.                                 *)
ConnectFails ==
    /\ pc = "connect" /\ faults < MaxFaults
    /\ faults' = faults + 1
    /\ UNCHANGED <<manager, task, link, redisSubs, wire, produced, subs,
                   history>>

(* try_recv returns a command.                                             *)
TakeCommand ==
    /\ pc = "drain" /\ queue # <<>>
    /\ current' = Head(queue)
    /\ queue' = Tail(queue)
    /\ taken' = taken \cup {Head(queue)}
    /\ pc' = "subscribe"
    /\ UNCHANGED <<mapped, writer, sent, inHand, redis, subs, abandoned>>

(* try_recv finds the queue empty: listen.                                 *)
DrainDone ==
    /\ pc = "drain" /\ queue = <<>>
    /\ pc' = "listen"
    /\ UNCHANGED <<manager, current, inHand, redis, subs, history>>

RedisSubscribe ==
    /\ pc = "subscribe" /\ link = "up"
    /\ redisSubs' = redisSubs \cup {current}
    /\ current' = None
    /\ pc' = "drain"
    /\ UNCHANGED <<manager, inHand, link, wire, produced, faults, subs,
                   history>>

(* pubsub.subscribe returns an error, because the connection is down or    *)
(* Redis refuses: the error is logged, the command is gone.                *)
RedisSubscribeFails ==
    /\ pc = "subscribe"
    /\ \/ link = "down" /\ UNCHANGED faults
       \/ link = "up" /\ faults < MaxFaults /\ faults' = faults + 1
    /\ current' = None
    /\ pc' = "drain"
    /\ UNCHANGED <<manager, inHand, link, redisSubs, wire, produced, subs,
                   history>>

(* stream.next() returns a message; one whose payload is not text is       *)
(* logged and dropped.                                                     *)
ReceiveMessage ==
    /\ pc = "listen" /\ wire # <<>>
    /\ wire' = Tail(wire)
    /\ IF Head(wire).body = "text"
         THEN pc' = "dispatch" /\ inHand' = Head(wire)
         ELSE pc' = "drain" /\ UNCHANGED inHand
    /\ UNCHANGED <<manager, current, link, redisSubs, produced, faults, subs,
                   history>>

(* Mutant: wait on instead of going back to the commands.                  *)
ListenOn == pc = "listen" /\ UNCHANGED vars

(* 100 ms without a message: go back to the commands.                      *)
ListenTimeout ==
    /\ pc = "listen"
    /\ pc' = "drain"
    /\ UNCHANGED <<manager, current, inHand, redis, subs, history>>

(* stream.next() returns None: leave the inner loop and connect again.     *)
StreamEnded ==
    /\ pc = "listen" /\ link = "down" /\ wire = <<>>
    /\ pc' = "connect"
    /\ UNCHANGED <<manager, current, inHand, redis, subs, history>>

(* Mutant: try_read instead of read; the message is dropped if a           *)
(* subscriber has the map.                                                 *)
DispatchTryRead ==
    /\ pc = "dispatch"
    /\ sent' = IF writer = None
                 THEN [sent EXCEPT ![inHand.ch] = Append(@, inHand.id)]
                 ELSE sent
    /\ inHand' = None
    /\ pc' = "drain"
    /\ UNCHANGED <<mapped, writer, queue, current, redis, subs, history>>

(* The read lock is granted once no writer holds the map: send the payload *)
(* to the ring of its channel, if there is one.                            *)
Dispatch ==
    /\ pc = "dispatch" /\ writer = None
    /\ sent' = IF inHand.ch \in mapped
                 THEN [sent EXCEPT ![inHand.ch] = Append(@, inHand.id)]
                 ELSE sent
    /\ inHand' = None
    /\ pc' = "drain"
    /\ UNCHANGED <<mapped, writer, queue, current, redis, subs, history>>

----------------------------------------------------------------------------
(* The Redis server (external)                                             *)

(* Somebody publishes on a channel that the connection is subscribed to.   *)
RedisMessage(c) ==
    /\ link = "up" /\ c \in redisSubs /\ produced < MaxMessages
    /\ produced' = produced + 1
    /\ \E b \in {"text", "binary"} :
          wire' = Append(wire, [ch |-> c, id |-> produced + 1, body |-> b])
    /\ UNCHANGED <<manager, task, link, redisSubs, faults, subs, history>>

(* The connection breaks; what was in flight may be lost.                  *)
ConnectionLost ==
    /\ link = "up" /\ faults < MaxFaults
    /\ link' = "down"
    /\ faults' = faults + 1
    /\ \E k \in 0 .. Len(wire) : wire' = SubSeq(wire, 1, k)
    /\ UNCHANGED <<manager, task, redisSubs, produced, subs, history>>

----------------------------------------------------------------------------
(* The consumers: rx.recv() on the broadcast receiver of u                 *)

(* The position of the last message of the ring that u reads.              *)
RingEnd(u) == Len(sent[chan[u]])
(* Mutant: the comparison turned round.                                    *)
HasLaggedInverted(u) == RingEnd(u) - cursor[u] < RingCap
(* The message at the cursor has been overwritten.                         *)
HasLagged(u) == RingEnd(u) - cursor[u] > RingCap

(* recv returns the next message and the stream yields it.  The forwarder  *)
(* of a WebSocket that is closed fails to pass it on, and stops.           *)
Recv(u) ==
    /\ state[u] = "streaming" /\ cursor[u] < RingEnd(u) /\ ~HasLagged(u)
    /\ cursor' = [cursor EXCEPT ![u] = @ + 1]
    /\ IF socket[u] = "open"
         THEN /\ out' = [out EXCEPT ![u] =
                            Append(@, sent[chan[u]][cursor[u] + 1])]
              /\ UNCHANGED state
         ELSE /\ state' = [state EXCEPT ![u] = "ended"]
              /\ UNCHANGED out
    /\ UNCHANGED <<manager, task, redis, chan, socket, joined, history>>

(* Mutant: the HTTP streams ignore Lagged as the gRPC stream does.         *)
RecvLaggedSilent(u) ==
    /\ state[u] = "streaming" /\ HasLagged(u)
    /\ cursor' = [cursor EXCEPT ![u] = RingEnd(u) - RingCap]
    /\ state' = IF Kind[u] = "ws"
                  THEN [state EXCEPT ![u] = "ended"]
                  ELSE state
    /\ UNCHANGED <<manager, task, redis, chan, out, socket, joined, history>>

(* recv returns Lagged and moves the receiver to the oldest message kept.  *)
(* The HTTP streams report it, gRPC goes on silently, the forwarder stops. *)
RecvLagged(u) ==
    /\ state[u] = "streaming" /\ HasLagged(u)
    /\ cursor' = [cursor EXCEPT ![u] = RingEnd(u) - RingCap]
    /\ out' = IF Kind[u] = "http"
                THEN [out EXCEPT ![u] = Append(@, Lagged)]
                ELSE out
    /\ state' = IF Kind[u] = "ws"
                  THEN [state EXCEPT ![u] = "ended"]
                  ELSE state
    /\ UNCHANGED <<manager, task, redis, chan, socket, joined, history>>

(* The client goes away.  An HTTP or gRPC stream is dropped with its       *)
(* connection; a forwarder only notices when it next sends.                *)
Disconnect(u) ==
    /\ state[u] = "streaming" /\ socket[u] = "open"
    /\ IF Kind[u] = "ws"
         THEN socket' = [socket EXCEPT ![u] = "closed"] /\ UNCHANGED state
         ELSE state' = [state EXCEPT ![u] = "ended"] /\ UNCHANGED socket
    /\ UNCHANGED <<manager, task, redis, chan, cursor, out, joined, history>>

----------------------------------------------------------------------------
Subscribe(u) == \E c \in Channels : SubscribeExisting(u, c) \/ SubscribeNew(u, c)

Background ==
    \/ Connect \/ ConnectFails \/ TakeCommand \/ DrainDone
    \/ RedisSubscribe \/ RedisSubscribeFails
    \/ ReceiveMessage \/ ListenTimeout \/ StreamEnded \/ Dispatch

Next ==
    \/ \E u \in Subscribers :
          \/ Subscribe(u) \/ SendCommand(u) \/ CancelSubscribe(u)
          \/ Recv(u) \/ RecvLagged(u) \/ Disconnect(u)
    \/ Background
    \/ \E c \in Channels : RedisMessage(c)
    \/ ConnectionLost

Spec == Init /\ [][Next]_vars

(* The runtime polls every task that can go on.  Reading needs strong      *)
(* fairness because the 100 ms timeout interrupts it again and again; a    *)
(* connection attempt is repeated until one succeeds.                      *)
Fairness ==
    /\ WF_vars(Connect) /\ WF_vars(TakeCommand) /\ WF_vars(DrainDone)
    /\ WF_vars(RedisSubscribe \/ RedisSubscribeFails)
    /\ SF_vars(ReceiveMessage) /\ SF_vars(StreamEnded) /\ WF_vars(Dispatch)
    /\ WF_vars(ListenTimeout)
    /\ \A u \in Subscribers :
          WF_vars(SendCommand(u)) /\ WF_vars(Recv(u)) /\ WF_vars(RecvLagged(u))

FairSpec == Spec /\ Fairness

----------------------------------------------------------------------------
(* Properties                                                              *)

Pending == {chan[u] : u \in {v \in Subscribers : state[v] = "sending"}}
Elements(q) == {q[i] : i \in 1 .. Len(q)}
NoRepeats(q) == \A i, j \in 1 .. Len(q) : q[i] = q[j] => i = j
Queued == Elements(queue)

(* "Additional local subscribers reuse the same sender": however the calls *)
(* of subscribe interleave, each key of the map stands for exactly one     *)
(* Subscribe command, which is about to be enqueued, or in the queue once, *)
(* or taken by the task, or given up with its request; never two of these. *)
OneCommandPerChannel ==
    /\ mapped = Pending \cup Queued \cup taken \cup abandoned
    /\ NoRepeats(queue)
    /\ Pending \cap (Queued \cup taken \cup abandoned) = {}
    /\ Queued \cap (taken \cup abandoned) = {}
    /\ taken \cap abandoned = {}

(* Whoever inserted a sender and waits for room in the queue is the one    *)
(* that holds the write lock, so nobody reads a map whose newest entry has *)
(* no command yet.                                                         *)
LockCoversSend ==
    \A u \in Subscribers : state[u] = "sending" <=> writer = u

(* Every message that the task can meet belongs to a channel with a        *)
(* sender, so the lookup of the dispatch never comes back empty.           *)
DispatchFindsSender ==
    /\ redisSubs \subseteq taken
    /\ \A i \in 1 .. Len(wire) : wire[i].ch \in mapped
    /\ pc = "dispatch" => inHand.ch \in mapped

Increasing(s) == \A i, j \in 1 .. Len(s) : i < j => s[i] < s[j]

(* A ring keeps the order in which Redis sent the messages, also across    *)
(* reconnects, and holds none that is still in hand or on the wire.        *)
RingsKeepOrder ==
    \A c \in Channels :
       /\ Increasing(sent[c])
       /\ \A i \in 1 .. Len(sent[c]) :
             /\ pc = "dispatch" => sent[c][i] < inHand.id
             /\ \A j \in 1 .. Len(wire) : sent[c][i] < wire[j].id

(* A stream that has yielded the items o of a ring: the i-th one is the    *)
(* message at position k.                                                  *)
At(o, i, ring, k) == k \in 1 .. Len(ring) /\ ring[k] = o[i]

InOrder(o, ring, start, end) ==
    \A i \in 1 .. Len(o) : o[i] # Lagged =>
       /\ \E k \in start + 1 .. end : At(o, i, ring, k)
       /\ \A j \in 1 .. i - 1 : o[j] < o[i]

GapFree(o, ring, start) ==
    \A i \in 1 .. Len(o) : o[i] # Lagged =>
       IF i = 1 THEN At(o, i, ring, start + 1)
       ELSE o[i-1] # Lagged =>
               \E k \in 1 .. Len(ring) : At(o, i - 1, ring, k) /\ At(o, i, ring, k + 1)

(* Every stream, the silent gRPC one included, yields only messages of its *)
(* own channel sent after it joined, each at most once, in order.          *)
StreamsInOrder ==
    \A u \in Subscribers : state[u] # "idle" =>
       InOrder(out[u], sent[chan[u]], joined[u], cursor[u])

(* No stream of the HTTP modes or of a WebSocket skips a message in        *)
(* silence: two messages that it yields one after the other are neighbours *)
(* in the ring of its channel, and the first is the first one sent after   *)
(* subscribe returned, unless a lagged event comes before it.              *)
NoSilentGap ==
    \A u \in Subscribers : state[u] # "idle" /\ Kind[u] # "grpc" =>
       GapFree(out[u], sent[chan[u]], joined[u])

(* The bridge implements the streams of ChannelStreams: a stream has ended *)
(* for its consumer once its task or handler has; until then its receiver  *)
(* is a position in the log of its channel.                                *)
Streams ==
    INSTANCE ChannelStreams WITH
        Streams <- Subscribers, Messages <- MessageIds, Window <- RingCap,
        Gap <- Lagged,
        OnGap <- [u \in Subscribers |->
                    CASE Kind[u] = "http" -> "told"
                      [] Kind[u] = "grpc" -> "silent"
                      [] OTHER -> "ends"],
        log <- sent, reads <- chan, given <- out,
        open <- [u \in Subscribers |-> state[u] # "ended"],
        pos <- [u \in Subscribers |->
                  IF state[u] = "ended" THEN 0 ELSE cursor[u]]

(* "All modes keep the connection open and emit messages as they arrive":  *)
(* whatever the calls of subscribe, the task, the rings and the connection *)
(* do, each consumer sees a log in the order of publication from the       *)
(* moment it joined, loses nothing unless it is more than a ring behind,   *)
(* and learns of a loss as its kind promises.                              *)
ImplementsStreams == Streams!Spec

(* Without faults, a channel of the map is subscribed in Redis in the end, *)
(* unless its request was dropped before the command was enqueued.         *)
SubscribedInTheEnd ==
    \A c \in Channels :
       c \in mapped ~> c \in redisSubs \cup abandoned \/ faults > 0

OnWire(m, c) ==
    \E i \in 1 .. Len(wire) : wire[i].id = m /\ wire[i].ch = c
                            /\ wire[i].body = "text"

(* "Emit messages as they arrive": a text message on its way to a channel  *)
(* passes the receiver of each of its streams in the end (yielded, or      *)
(* skipped as lagged), unless the stream ends or the connection breaks.    *)
MessagesArrive ==
    \A u \in Subscribers, m \in MessageIds :
       (state[u] = "streaming" /\ OnWire(m, chan[u])) ~>
          \/ state[u] = "ended" \/ link = "down"
          \/ \E k \in 1 .. cursor[u] : sent[chan[u]][k] = m

(* "Listen for messages with a timeout to allow checking commands          *)
(* periodically": a command that is queued is taken in the end.            *)
CommandsAreChecked ==
    \A c \in Channels : c \in Queued ~> c \in taken

(* "All modes keep the connection open and emit messages as they arrive":  *)
(* a stream that was fed once is fed again and again as long as it is open.*)
Fed(u) == state[u] = "streaming" /\ link = "up" /\ chan[u] \in redisSubs
OpenStreamsAreFed ==
    \A u \in Subscribers :
       <>Fed(u) => []<>(state[u] # "streaming" \/ Fed(u))
============================================================================
