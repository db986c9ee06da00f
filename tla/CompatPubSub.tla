---------------------------- MODULE CompatPubSub ----------------------------
(***************************************************************************)
(* Pub/Sub of one session of the hiredis compat bridge (CompatSession in   *)
(* redis-web-runtime/src/compat.rs).  A handler (a command request or a    *)
(* WebSocket) that executes a Pub/Sub command starts the session's Pub/Sub *)
(* task if there is none, sends the command to it and waits for the        *)
(* answer.  The task owns a Redis connection, and it pushes what arrives   *)
(* there to the open streams (HTTP streams and forwarders of WebSockets).  *)
(*                                                                         *)
(* The session lives while the session map or a handler holds it; how it   *)
(* enters and leaves the map is the subject of CompatSessions.             *)
(***************************************************************************)
EXTENDS Naturals, Sequences, FiniteSets, SequencesExt

CONSTANTS
    Handlers,       \* command requests and WebSockets with this session
    Tasks,          \* identities for the spawned tasks
    Channels,       \* what SUBSCRIBE and UNSUBSCRIBE take
    Patterns,       \* what PSUBSCRIBE and PUNSUBSCRIBE take
    Commands,       \* the commands the clients send
    Streams,        \* receivers of the pushed frames
    Sockets,        \* those of them that forward to a WebSocket
    None,
    QueueCapacity,  \* of the command channel of a task (64)
    PushCapacity,   \* of the broadcast channel of the session (1024)
    MaxMessages,    \* bound: messages published
    MaxFaults       \* bound: faults of connections and dropped handlers

Topics == Channels \cup Patterns

ASSUME ConstantsAssumption ==
    /\ None \notin Handlers \cup Tasks \cup Topics
    /\ IsFiniteSet(Topics) /\ Channels \cap Patterns = {}
    /\ Sockets \subseteq Streams
    /\ Commands \subseteq [op : {"SUBSCRIBE", "UNSUBSCRIBE"},
                           kind : {Channels, Patterns}, args : Seq(Topics)]
    /\ \A c \in Commands : \A k \in 1 .. Len(c.args) : c.args[k] \in c.kind
    /\ None \notin [cmd : Commands, to : Handlers \cup {None}]
    /\ QueueCapacity \in Nat \ {0} /\ PushCapacity \in Nat \ {0}
    /\ MaxMessages \in Nat /\ MaxFaults \in Nat

VARIABLES
    inMap,      \* is the session in the map: "yes" or "no"
    slot,       \* pubsub_cmd_tx of the session: the task it sends to
    \* per handler
    hpc,        \* where it is; "out": it does not hold the session
    cmd,        \* its command
    tx,         \* its clone of the sender: the task it sends to
    answer,     \* what has come through its oneshot channel
    \* per task
    tpc,        \* where it is
    queue,      \* its command channel
    current,    \* the command in its hand
    todo,       \* the topics of that command that are left
    subs,       \* its channels and patterns
    link,       \* its connection: "up" or "down"
    inbox,      \* messages that its connection has received
    \* per stream
    spc,        \* "new", "open", "gone" (its socket has closed) or "closed"
    feed,       \* frames in the broadcast channel that it has not received
    \* bounds and history
    published, faults,
    acked,      \* topics that the client believes to be subscribed
    announced   \* tasks whose end was pushed to the streams

session == <<inMap, slot>>
handler == <<hpc, cmd, tx, answer>>
task == <<tpc, queue, current, todo, subs, link, inbox>>
streams == <<spc, feed>>
bounds == <<published, faults>>
history == <<acked, announced>>
vars == <<session, handler, task, streams, bounds, history>>

Entries == [cmd : Commands, to : Handlers \cup {None}]
Frames == [task : Tasks, topic : Topics \cup {None}, n : 0 .. MaxMessages]

(* One type invariant: every variable stays in its domain.                 *)
TypeOK ==
    /\ inMap \in {"yes", "no"} /\ slot \in Tasks \cup {None}
    /\ hpc \in [Handlers ->
                   {"out", "ready", "ensure", "store", "send", "wait"}]
    /\ cmd \in [Handlers -> Commands \cup {None}]
    /\ tx \in [Handlers -> Tasks \cup {None}]
    /\ answer \in [Handlers -> {"none", "ok", "error"}]
    /\ tpc \in [Tasks ->
                   {"unborn", "connect", "drain", "handle", "listen", "ended"}]
    /\ queue \in [Tasks -> Seq(Entries)]
    /\ \A t \in Tasks : Len(queue[t]) <= QueueCapacity
    /\ current \in [Tasks -> Entries \cup {None}]
    /\ todo \in [Tasks -> Seq(Topics)]
    /\ subs \in [Tasks -> SUBSET Topics]
    /\ link \in [Tasks -> {"up", "down"}]
    /\ inbox \in [Tasks -> Seq(Topics \X (1 .. MaxMessages))]
    /\ spc \in [Streams -> {"new", "open", "gone", "closed"}]
    /\ feed \in [Streams -> Seq(Frames)]
    /\ \A s \in Streams : Len(feed[s]) <= PushCapacity
    /\ published \in 0 .. MaxMessages /\ faults \in 0 .. MaxFaults
    /\ acked \subseteq Topics /\ announced \subseteq Tasks

Init ==
    /\ inMap = "yes" /\ slot = None
    /\ hpc = [h \in Handlers |-> "out"]
    /\ cmd = [h \in Handlers |-> None]
    /\ tx = [h \in Handlers |-> None]
    /\ answer = [h \in Handlers |-> "none"]
    /\ tpc = [t \in Tasks |-> "unborn"]
    /\ queue = [t \in Tasks |-> <<>>]
    /\ current = [t \in Tasks |-> None]
    /\ todo = [t \in Tasks |-> <<>>]
    /\ subs = [t \in Tasks |-> {}]
    /\ link = [t \in Tasks |-> "down"]
    /\ inbox = [t \in Tasks |-> <<>>]
    /\ spc = [s \in Streams |-> "new"]
    /\ feed = [s \in Streams |-> <<>>]
    /\ published = 0 /\ faults = 0
    /\ acked = {} /\ announced = {}

(* The Arc of the session has an owner.                                    *)
SessionAlive == inMap = "yes" \/ \E h \in Handlers : hpc[h] # "out"

(* rx.is_closed(): every sender of the task's command channel is gone.     *)
RxClosed(t) ==
    /\ ~(SessionAlive /\ slot = t)
    /\ \A h \in Handlers : tx[h] # t

Live(t) == tpc[t] \notin {"unborn", "ended"}

(* Every push_tx is gone, the one of the session and those of the tasks.   *)
PushClosed == ~SessionAlive /\ \A t \in Tasks : ~Live(t)

Fault == faults < MaxFaults /\ faults' = faults + 1 /\ UNCHANGED published

----------------------------------------------------------------------------
(* Handlers                                                                *)

(* get_session gives the session to a request or a WebSocket.              *)
Attach(h) ==
    /\ hpc[h] = "out" /\ inMap = "yes"
    /\ hpc' = [hpc EXCEPT ![h] = "ready"]
    /\ UNCHANGED <<session, cmd, tx, answer, task, streams, bounds, history>>

(* The request is answered, or the WebSocket has closed.                   *)
Detach(h) ==
    /\ hpc[h] = "ready"
    /\ hpc' = [hpc EXCEPT ![h] = "out"]
    /\ UNCHANGED <<session, cmd, tx, answer, task, streams, bounds, history>>

(* execute_command with a Pub/Sub command.                                 *)
Execute(h) ==
    /\ hpc[h] = "ready"
    /\ \E c \in Commands :
          /\ cmd' = [cmd EXCEPT ![h] = c]
          /\ acked' = IF c.op = "SUBSCRIBE" THEN acked
                      ELSE acked \ IF c.args = <<>> THEN c.kind
                                                    ELSE ToSet(c.args)
    /\ hpc' = [hpc EXCEPT ![h] = "ensure"]
    /\ UNCHANGED <<session, tx, answer, task, streams, bounds, announced>>

(* ensure_pubsub_task up to the second lock: the sender of the session, or *)
(* a new task.                                                             *)
Ensure(h) ==
    /\ hpc[h] = "ensure"
    /\ \/ /\ slot # None
          /\ tx' = [tx EXCEPT ![h] = slot]
          /\ hpc' = [hpc EXCEPT ![h] = "send"]
          /\ UNCHANGED tpc
       \/ /\ slot = None
          /\ \E t \in Tasks :
                /\ tpc[t] = "unborn"
                /\ tpc' = [tpc EXCEPT ![t] = "connect"]
                /\ tx' = [tx EXCEPT ![h] = t]
          /\ hpc' = [hpc EXCEPT ![h] = "store"]
    /\ UNCHANGED <<session, cmd, answer, queue, current, todo, subs, link,
                   inbox, streams, bounds, history>>

(* The second lock of ensure_pubsub_task: whatever is there is replaced.   *)
Store(h) ==
    /\ hpc[h] = "store"
    /\ slot' = tx[h]
    /\ hpc' = [hpc EXCEPT ![h] = "send"]
    /\ UNCHANGED <<inMap, cmd, tx, answer, task, streams, bounds, history>>

(* execute_pubsub_control has its result and drops its sender.             *)
Return(h) ==
    /\ hpc' = [hpc EXCEPT ![h] = "ready"]
    /\ cmd' = [cmd EXCEPT ![h] = None]
    /\ tx' = [tx EXCEPT ![h] = None]
    /\ answer' = [answer EXCEPT ![h] = "none"]

(* Mutant: a channel without a limit.                                      *)
SendUnbounded(h) ==
    /\ hpc[h] = "send" /\ tpc[tx[h]] # "ended"
    /\ queue' = [queue EXCEPT ![tx[h]] = Append(@, [cmd |-> cmd[h], to |-> h])]
    /\ hpc' = [hpc EXCEPT ![h] = "wait"]
    /\ UNCHANGED <<session, cmd, tx, answer, tpc, current, todo, subs, link,
                   inbox, streams, bounds, history>>

(* tx.send awaits room.                                                    *)
Send(h) ==
    /\ hpc[h] = "send" /\ tpc[tx[h]] # "ended"
    /\ Len(queue[tx[h]]) < QueueCapacity
    /\ queue' = [queue EXCEPT ![tx[h]] = Append(@, [cmd |-> cmd[h], to |-> h])]
    /\ hpc' = [hpc EXCEPT ![h] = "wait"]
    /\ UNCHANGED <<session, cmd, tx, answer, tpc, current, todo, subs, link,
                   inbox, streams, bounds, history>>

(* The receiver of the task is gone: the session is unavailable.           *)
SendFails(h) ==
    /\ hpc[h] = "send" /\ tpc[tx[h]] = "ended"
    /\ Return(h)
    /\ UNCHANGED <<session, task, streams, bounds, history>>

(* resp_rx.await: the frames, or an error.                                 *)
Receive(h) ==
    /\ hpc[h] = "wait" /\ answer[h] # "none"
    /\ acked' = IF answer[h] = "ok" /\ cmd[h].op = "SUBSCRIBE"
                  THEN acked \cup ToSet(cmd[h].args) ELSE acked
    /\ Return(h)
    /\ UNCHANGED <<session, task, streams, bounds, announced>>

(* Nobody waits for the answer to an entry of h any more.                  *)
Forget(h, e) == IF e # None /\ e.to = h THEN [e EXCEPT !.to = None] ELSE e

(* The client of a request goes away and the server drops its handler.     *)
Abort(h) ==
    /\ hpc[h] \notin {"out", "ready"}
    /\ Fault
    /\ hpc' = [hpc EXCEPT ![h] = "out"]
    /\ cmd' = [cmd EXCEPT ![h] = None]
    /\ tx' = [tx EXCEPT ![h] = None]
    /\ answer' = [answer EXCEPT ![h] = "none"]
    /\ queue' = [t \in Tasks |->
                   [k \in 1 .. Len(queue[t]) |-> Forget(h, queue[t][k])]]
    /\ current' = [t \in Tasks |-> Forget(h, current[t])]
    /\ UNCHANGED <<session, tpc, todo, subs, link, inbox, streams, history>>

(* DELETE, or a sweep.                                                     *)
RemoveSession ==
    /\ inMap = "yes" /\ inMap' = "no"
    /\ UNCHANGED <<slot, handler, task, streams, bounds, history>>

----------------------------------------------------------------------------
(* The task                                                                *)

(* push_tx.send: every open receiver gets the frame; one that is full      *)
(* loses its oldest frame, and skips it with `Lagged(_) => continue`.      *)
Push(f) ==
    feed' = [s \in Streams |->
               IF spc[s] \notin {"open", "gone"} THEN feed[s]
               ELSE IF Len(feed[s]) < PushCapacity THEN Append(feed[s], f)
               ELSE Append(Tail(feed[s]), f)]

Respond(t, result) ==
    answer' = IF current[t].to = None THEN answer
              ELSE [answer EXCEPT ![current[t].to] = result]

(* Mutant: the command channel outlives the task.                          *)
EndKeepsChannel(t) ==
    /\ tpc' = [tpc EXCEPT ![t] = "ended"]
    /\ subs' = [subs EXCEPT ![t] = {}]
    /\ link' = [link EXCEPT ![t] = "down"]
    /\ inbox' = [inbox EXCEPT ![t] = <<>>]
    /\ UNCHANGED <<answer, queue, current, todo>>

(* The task is over: its connection closes, and the commands in its        *)
(* channel are dropped with their oneshot senders.                         *)
End(t) ==
    /\ tpc' = [tpc EXCEPT ![t] = "ended"]
    /\ answer' = [h \in Handlers |->
                    IF \E k \in DOMAIN queue[t] : queue[t][k].to = h
                      THEN "error" ELSE answer[h]]
    /\ queue' = [queue EXCEPT ![t] = <<>>]
    /\ subs' = [subs EXCEPT ![t] = {}]
    /\ link' = [link EXCEPT ![t] = "down"]
    /\ inbox' = [inbox EXCEPT ![t] = <<>>]
    /\ UNCHANGED <<current, todo>>

ErrorFrame(t) == [task |-> t, topic |-> None, n |-> 0]
EndWithError(t) ==
    /\ End(t)
    /\ Push(ErrorFrame(t))
    /\ announced' = announced \cup {t}

Connect(t) ==
    /\ tpc[t] = "connect"
    /\ tpc' = [tpc EXCEPT ![t] = "drain"]
    /\ link' = [link EXCEPT ![t] = "up"]
    /\ UNCHANGED <<session, handler, queue, current, todo, subs, inbox,
                   streams, bounds, history>>

ConnectFails(t) ==
    /\ tpc[t] = "connect"
    /\ Fault
    /\ EndWithError(t)
    /\ UNCHANGED <<session, hpc, cmd, tx, spc, acked>>

(* The topics of a command: without arguments UNSUBSCRIBE takes all the    *)
(* channels, and PUNSUBSCRIBE all the patterns.                            *)
Targets(t, c) ==
    IF c.op = "UNSUBSCRIBE" /\ c.args = <<>>
      THEN SetToSeq(subs[t] \cap c.kind) ELSE c.args

(* Mutant: the command stays in the channel.                               *)
TakeCommandPeeks(t) ==
    /\ tpc[t] = "drain" /\ queue[t] # <<>>
    /\ current' = [current EXCEPT ![t] = Head(queue[t])]
    /\ todo' = [todo EXCEPT ![t] = Targets(t, Head(queue[t]).cmd)]
    /\ tpc' = [tpc EXCEPT ![t] = "handle"]
    /\ UNCHANGED <<session, handler, queue, subs, link, inbox, streams, bounds,
                   history>>

(* while let Ok(cmd) = rx.try_recv()                                       *)
TakeCommand(t) ==
    /\ tpc[t] = "drain" /\ queue[t] # <<>>
    /\ current' = [current EXCEPT ![t] = Head(queue[t])]
    /\ todo' = [todo EXCEPT ![t] = Targets(t, Head(queue[t]).cmd)]
    /\ queue' = [queue EXCEPT ![t] = Tail(@)]
    /\ tpc' = [tpc EXCEPT ![t] = "handle"]
    /\ UNCHANGED <<session, handler, subs, link, inbox, streams, bounds,
                   history>>

DrainDone(t) ==
    /\ tpc[t] = "drain" /\ queue[t] = <<>>
    /\ tpc' = [tpc EXCEPT ![t] = "listen"]
    /\ UNCHANGED <<session, handler, queue, current, todo, subs, link, inbox,
                   streams, bounds, history>>

(* Mutant: UNSUBSCRIBE forgets everything that is subscribed.              *)
HandleTopicClears(t) ==
    /\ tpc[t] = "handle" /\ todo[t] # <<>> /\ link[t] = "up"
    /\ subs' = [subs EXCEPT ![t] =
                  IF current[t].cmd.op = "SUBSCRIBE"
                    THEN @ \cup {Head(todo[t])} ELSE {}]
    /\ todo' = [todo EXCEPT ![t] = Tail(@)]
    /\ UNCHANGED <<session, handler, tpc, queue, current, link, inbox, streams,
                   bounds, history>>

(* One round of handle_pubsub_command: Redis confirms, and the set of the  *)
(* task follows.                                                           *)
HandleTopic(t) ==
    /\ tpc[t] = "handle" /\ todo[t] # <<>> /\ link[t] = "up"
    /\ subs' = [subs EXCEPT ![t] =
                  IF current[t].cmd.op = "SUBSCRIBE"
                    THEN @ \cup {Head(todo[t])} ELSE @ \ {Head(todo[t])}]
    /\ todo' = [todo EXCEPT ![t] = Tail(@)]
    /\ UNCHANGED <<session, handler, tpc, queue, current, link, inbox, streams,
                   bounds, history>>

(* Redis refuses, or the connection is lost: the `?` gives up the rest of  *)
(* the topics, and the frames of the ones before.                          *)
HandleFails(t) ==
    /\ tpc[t] = "handle" /\ todo[t] # <<>>
    /\ Fault \/ (link[t] = "down" /\ UNCHANGED bounds)
    /\ Respond(t, "error")
    /\ todo' = [todo EXCEPT ![t] = <<>>]
    /\ current' = [current EXCEPT ![t] = None]
    /\ tpc' = [tpc EXCEPT ![t] = "drain"]
    /\ UNCHANGED <<session, hpc, cmd, tx, queue, subs, link, inbox, streams,
                   history>>

(* cmd.responder.send(result); SUBSCRIBE without arguments is an error.    *)
HandleDone(t) ==
    /\ tpc[t] = "handle" /\ todo[t] = <<>>
    /\ Respond(t, IF /\ current[t].cmd.op = "SUBSCRIBE"
                     /\ current[t].cmd.args = <<>> THEN "error" ELSE "ok")
    /\ current' = [current EXCEPT ![t] = None]
    /\ tpc' = [tpc EXCEPT ![t] = "drain"]
    /\ UNCHANGED <<session, hpc, cmd, tx, queue, todo, subs, link, inbox,
                   streams, bounds, history>>

(* Mutant: the message is read but not taken out.                          *)
ListenMessagePeeks(t) ==
    /\ tpc[t] = "listen" /\ inbox[t] # <<>>
    /\ Push([task |-> t, topic |-> Head(inbox[t])[1], n |-> Head(inbox[t])[2]])
    /\ tpc' = [tpc EXCEPT ![t] = "drain"]
    /\ UNCHANGED <<session, handler, queue, current, todo, subs, link, inbox,
                   spc, bounds, history>>

(* Ok(Some(msg)): the next message goes to the streams.                    *)
ListenMessage(t) ==
    /\ tpc[t] = "listen" /\ inbox[t] # <<>>
    /\ Push([task |-> t, topic |-> Head(inbox[t])[1], n |-> Head(inbox[t])[2]])
    /\ inbox' = [inbox EXCEPT ![t] = Tail(@)]
    /\ tpc' = [tpc EXCEPT ![t] = "drain"]
    /\ UNCHANGED <<session, handler, queue, current, todo, subs, link, spc,
                   bounds, history>>

(* Mutant: the task ends without a word.                                   *)
ListenEndedSilent(t) ==
    /\ tpc[t] = "listen" /\ inbox[t] = <<>> /\ link[t] = "down"
    /\ End(t)
    /\ UNCHANGED <<session, hpc, cmd, tx, streams, bounds, history>>

(* Ok(None): the connection is lost and so is the task.                    *)
ListenEnded(t) ==
    /\ tpc[t] = "listen" /\ inbox[t] = <<>> /\ link[t] = "down"
    /\ EndWithError(t)
    /\ UNCHANGED <<session, hpc, cmd, tx, spc, bounds, acked>>

(* Mutant: the task does not look whether anybody needs it.                *)
ListenTimeoutGoesOn(t) ==
    /\ tpc[t] = "listen" /\ inbox[t] = <<>> /\ link[t] = "up"
    /\ tpc' = [tpc EXCEPT ![t] = "drain"]
    /\ UNCHANGED <<session, handler, queue, current, todo, subs, link, inbox,
                   streams, bounds, history>>

(* Err(_), 100 ms without a message: is anybody left to send commands?     *)
ListenTimeout(t) ==
    /\ tpc[t] = "listen" /\ inbox[t] = <<>> /\ link[t] = "up"
    /\ \/ RxClosed(t) /\ End(t)
       \/ /\ ~RxClosed(t)
          /\ tpc' = [tpc EXCEPT ![t] = "drain"]
          /\ UNCHANGED <<answer, queue, current, todo, subs, link, inbox>>
    /\ UNCHANGED <<session, hpc, cmd, tx, streams, bounds, history>>

----------------------------------------------------------------------------
(* Redis                                                                   *)

(* PUBLISH on a channel that somebody here listens to: a connection gets   *)
(* the message once for the channel and once for every pattern (they all   *)
(* match).                                                                 *)
Publish(c) ==
    LET Copies(t) == SetToSeq((subs[t] \cap ({c} \cup Patterns))
                                \X {published + 1})
    IN  /\ published < MaxMessages
        /\ \E t \in Tasks : link[t] = "up" /\ Copies(t) # <<>>
        /\ published' = published + 1
        /\ inbox' = [t \in Tasks |-> IF link[t] = "up"
                                       THEN inbox[t] \o Copies(t) ELSE inbox[t]]
        /\ UNCHANGED <<session, handler, tpc, queue, current, todo, subs, link,
                       streams, faults, history>>

LinkLost(t) ==
    /\ link[t] = "up"
    /\ Fault
    /\ link' = [link EXCEPT ![t] = "down"]
    /\ UNCHANGED <<session, handler, tpc, queue, current, todo, subs, inbox,
                   streams, history>>

----------------------------------------------------------------------------
(* Streams: stream_raw, and the forwarder of handle_ws                     *)

OpenStream(s) ==
    /\ spc[s] = "new" /\ inMap = "yes"
    /\ spc' = [spc EXCEPT ![s] = "open"]
    /\ UNCHANGED <<session, handler, task, feed, bounds, history>>

(* The client goes away.  The body of an HTTP response is dropped with its *)
(* receiver, the forwarder of a socket only finds out when it sends.       *)
CloseStream(s) ==
    /\ spc[s] = "open"
    /\ spc' = [spc EXCEPT ![s] = IF s \in Sockets THEN "gone" ELSE "closed"]
    /\ feed' = IF s \in Sockets THEN feed ELSE [feed EXCEPT ![s] = <<>>]
    /\ UNCHANGED <<session, handler, task, bounds, history>>

RecvFrame(s) ==
    /\ spc[s] = "open" /\ feed[s] # <<>>
    /\ feed' = [feed EXCEPT ![s] = Tail(@)]
    /\ UNCHANGED <<session, handler, task, spc, bounds, history>>

(* A frame for a closed socket: the writer may still have room for it, or  *)
(* the send fails and the forwarder stops.                                 *)
RecvGone(s) ==
    /\ spc[s] = "gone" /\ feed[s] # <<>>
    /\ \/ feed' = [feed EXCEPT ![s] = Tail(@)] /\ UNCHANGED spc
       \/ /\ feed' = [feed EXCEPT ![s] = <<>>]
          /\ spc' = [spc EXCEPT ![s] = "closed"]
    /\ UNCHANGED <<session, handler, task, bounds, history>>

(* RecvError::Closed, after the last frame.                                *)
RecvClosed(s) ==
    /\ spc[s] \in {"open", "gone"} /\ feed[s] = <<>> /\ PushClosed
    /\ spc' = [spc EXCEPT ![s] = "closed"]
    /\ UNCHANGED <<session, handler, task, feed, bounds, history>>

----------------------------------------------------------------------------
HandlerStep(h) ==
    Ensure(h) \/ Store(h) \/ Send(h) \/ SendFails(h) \/ Receive(h)
TaskStep(t) ==
    \/ Connect(t) \/ TakeCommand(t) \/ DrainDone(t) \/ HandleTopic(t)
    \/ HandleFails(t) \/ HandleDone(t) \/ ListenMessage(t) \/ ListenEnded(t)
    \/ ListenTimeout(t)
StreamStep(s) == RecvFrame(s) \/ RecvGone(s) \/ RecvClosed(s)

Next ==
    \/ \E h \in Handlers :
          Attach(h) \/ Detach(h) \/ Execute(h) \/ HandlerStep(h) \/ Abort(h)
    \/ \E t \in Tasks : TaskStep(t) \/ ConnectFails(t) \/ LinkLost(t)
    \/ \E s \in Streams : StreamStep(s) \/ OpenStream(s) \/ CloseStream(s)
    \/ \E c \in Channels : Publish(c)
    \/ RemoveSession

Spec == Init /\ [][Next]_vars

(* Spawned tasks and handlers are polled whenever they can go on, and a    *)
(* sender that waits for room gets its turn (the channel is fair).         *)
Fairness ==
    /\ \A h \in Handlers : WF_vars(HandlerStep(h)) /\ SF_vars(Send(h))
    /\ \A t \in Tasks : WF_vars(TaskStep(t))
    /\ \A s \in Streams : WF_vars(StreamStep(s))
FairSpec == Spec /\ Fairness

----------------------------------------------------------------------------
(* Properties                                                              *)

(* A task that has ended said so on the streams, or nobody could reach it  *)
(* any more: no session is left with a dead task and no frame about it.    *)
EndIsAnnounced ==
    \A t \in Tasks : tpc[t] = "ended" => t \in announced \/ RxClosed(t)

(* The places where the command of h can be.                               *)
Places(h) ==
    {l \in Tasks \X (1 .. QueueCapacity) :
        l[2] <= Len(queue[l[1]]) /\ queue[l[1]][l[2]].to = h}
    \cup {<<t, 0>> : t \in {u \in Tasks : current[u] # None
                                           /\ current[u].to = h}}

(* A handler that waits has its command in one place, in the channel or in *)
(* the hand of the task it holds a sender of, or it has its answer; no     *)
(* command is answered twice, or to somebody who has gone.                 *)
WaitingIsServed ==
    \A h \in Handlers :
       IF hpc[h] = "wait" /\ answer[h] = "none"
         THEN /\ Live(tx[h])
              /\ \E k \in 0 .. QueueCapacity : Places(h) = {<<tx[h], k>>}
         ELSE Places(h) = {}

(* A stream never gets the messages of a topic out of order, or one of     *)
(* them twice, from the same task.                                         *)
FramesInOrder ==
    \A s \in Streams : \A j, k \in 1 .. Len(feed[s]) :
       /\ j < k
       /\ feed[s][j].task = feed[s][k].task
       /\ feed[s][j].topic = feed[s][k].topic
       => feed[s][j].n < feed[s][k].n

(* "state preservation ([...] subscribe state)": what the client was told  *)
(* to be subscribed is subscribed by a live task, as long as the session   *)
(* lives, or the end of a task was announced.                              *)
AckedIsHeld ==
    SessionAlive =>
       \A c \in acked : \/ \E t \in Tasks : Live(t) /\ c \in subs[t]
                        \/ announced # {}

(* Every Pub/Sub command is answered, also when the task ends before.      *)
CommandsAnswered ==
    \A h \in Handlers : hpc[h] = "wait" ~> hpc[h] # "wait"

(* "keeps stale sessions from leaking resources": when a session is gone   *)
(* and the messages stop, its tasks end and close their Redis connections, *)
(* and its streams end, the forwarders of closed sockets too.              *)
TasksEnd ==
    ~SessionAlive ~> /\ \A t \in Tasks : ~Live(t)
                     /\ \A s \in Streams : spc[s] \in {"new", "closed"}
============================================================================
