------------------------ MODULE CompatPubSubProofs ------------------------
(***************************************************************************)
(* Proofs about CompatPubSub, for every number of handlers, tasks, topics  *)
(* and streams and all capacities.                                         *)
(***************************************************************************)
EXTENDS CompatPubSub, FiniteSetTheorems, TLAPS

(* The domains of what decides who can reach a task; and a handler has a   *)
(* sender from ensure_pubsub_task to its return.                           *)
SenderInv ==
    /\ slot \in Tasks \cup {None}
    /\ hpc \in [Handlers ->
                   {"out", "ready", "ensure", "store", "send", "wait"}]
    /\ tx \in [Handlers -> Tasks \cup {None}]
    /\ tpc \in [Tasks ->
                   {"unborn", "connect", "drain", "handle", "listen", "ended"}]
    /\ \A h \in Handlers :
          tx[h] # None <=> hpc[h] \in {"store", "send", "wait"}

IInv == SenderInv /\ EndIsAnnounced

(* A handler keeps its sender until it returns.                            *)
LEMMA SenderStep == IInv /\ [Next]_vars => SenderInv'
<1> SUFFICES ASSUME IInv, [Next]_vars PROVE SenderInv'
  OBVIOUS
<1> USE ConstantsAssumption
     DEF IInv, SenderInv,
         session, handler, task
<1>1. ASSUME NEW h \in Handlers, Attach(h) PROVE SenderInv'
  BY <1>1 DEF Attach
<1>2. ASSUME NEW h \in Handlers, Detach(h) PROVE SenderInv'
  BY <1>2 DEF Detach
<1>3. ASSUME NEW h \in Handlers, Execute(h) PROVE SenderInv'
  BY <1>3 DEF Execute
<1>4. ASSUME NEW h \in Handlers, Ensure(h) PROVE SenderInv'
  BY <1>4 DEF Ensure
<1>5. ASSUME NEW h \in Handlers, Store(h) PROVE SenderInv'
  BY <1>5 DEF Store
<1>6. ASSUME NEW h \in Handlers, Send(h) PROVE SenderInv'
  BY <1>6 DEF Send
<1>7. ASSUME NEW h \in Handlers, SendFails(h) PROVE SenderInv'
  BY <1>7 DEF SendFails, Return
<1>8. ASSUME NEW h \in Handlers, Receive(h) PROVE SenderInv'
  BY <1>8 DEF Receive, Return
<1>9. ASSUME NEW h \in Handlers, Abort(h) PROVE SenderInv'
  BY <1>9 DEF Abort
<1>10. ASSUME NEW t \in Tasks, Connect(t) PROVE SenderInv'
  BY <1>10 DEF Connect
<1>11. ASSUME NEW t \in Tasks, ConnectFails(t) PROVE SenderInv'
  BY <1>11 DEF ConnectFails, EndWithError, End
<1>12. ASSUME NEW t \in Tasks, TakeCommand(t) PROVE SenderInv'
  BY <1>12 DEF TakeCommand
<1>13. ASSUME NEW t \in Tasks, DrainDone(t) PROVE SenderInv'
  BY <1>13 DEF DrainDone
<1>14. ASSUME NEW t \in Tasks, HandleTopic(t) PROVE SenderInv'
  BY <1>14 DEF HandleTopic
<1>15. ASSUME NEW t \in Tasks, HandleFails(t) PROVE SenderInv'
  BY <1>15 DEF HandleFails
<1>16. ASSUME NEW t \in Tasks, HandleDone(t) PROVE SenderInv'
  BY <1>16 DEF HandleDone
<1>17. ASSUME NEW t \in Tasks, ListenMessage(t) PROVE SenderInv'
  BY <1>17 DEF ListenMessage
<1>18. ASSUME NEW t \in Tasks, ListenEnded(t) PROVE SenderInv'
  BY <1>18 DEF ListenEnded, EndWithError, End
<1>19. ASSUME NEW t \in Tasks, ListenTimeout(t) PROVE SenderInv'
  BY <1>19 DEF ListenTimeout, End
<1>20. ASSUME NEW t \in Tasks, LinkLost(t) PROVE SenderInv'
  BY <1>20 DEF LinkLost
<1>21. ASSUME NEW s \in Streams, OpenStream(s) PROVE SenderInv'
  BY <1>21 DEF OpenStream
<1>22. ASSUME NEW s \in Streams, CloseStream(s) PROVE SenderInv'
  BY <1>22 DEF CloseStream
<1>23. ASSUME NEW s \in Streams, RecvFrame(s) PROVE SenderInv'
  BY <1>23 DEF RecvFrame
<1>24. ASSUME NEW s \in Streams, RecvGone(s) PROVE SenderInv'
  BY <1>24 DEF RecvGone
<1>25. ASSUME NEW s \in Streams, RecvClosed(s) PROVE SenderInv'
  BY <1>25 DEF RecvClosed
<1>26. ASSUME NEW c \in Channels, Publish(c) PROVE SenderInv'
  BY <1>26 DEF Publish
<1>27. CASE RemoveSession
  BY <1>27 DEF RemoveSession
<1>28. CASE UNCHANGED vars
  BY <1>28 DEF vars
<1> QED BY <1>1, <1>2, <1>3, <1>4, <1>5, <1>6, <1>7, <1>8, <1>9, <1>10,
           <1>11, <1>12, <1>13, <1>14, <1>15, <1>16, <1>17, <1>18, <1>19,
           <1>20, <1>21, <1>22, <1>23, <1>24, <1>25, <1>26, <1>27, <1>28
       DEF Next, HandlerStep, TaskStep, StreamStep

(* A task ends with an announcement, or when it has no sender left; and a  *)
(* channel without senders gets none again: a handler only copies the      *)
(* sender of the session, or makes a new channel.                          *)
LEMMA AnnouncedStep == IInv /\ [Next]_vars => EndIsAnnounced'
<1> SUFFICES ASSUME IInv, [Next]_vars PROVE EndIsAnnounced'
  OBVIOUS
<1> USE ConstantsAssumption
     DEF IInv, SenderInv, EndIsAnnounced, RxClosed, SessionAlive,
         session, handler, task, history
<1>1. ASSUME NEW h \in Handlers, Attach(h) PROVE EndIsAnnounced'
  BY <1>1 DEF Attach
<1>2. ASSUME NEW h \in Handlers, Detach(h) PROVE EndIsAnnounced'
  BY <1>2 DEF Detach
<1>3. ASSUME NEW h \in Handlers, Execute(h) PROVE EndIsAnnounced'
  BY <1>3 DEF Execute
<1>4. ASSUME NEW h \in Handlers, Ensure(h) PROVE EndIsAnnounced'
  BY <1>4 DEF Ensure
<1>5. ASSUME NEW h \in Handlers, Store(h) PROVE EndIsAnnounced'
  BY <1>5 DEF Store
<1>6. ASSUME NEW h \in Handlers, Send(h) PROVE EndIsAnnounced'
  BY <1>6 DEF Send
<1>7. ASSUME NEW h \in Handlers, SendFails(h) PROVE EndIsAnnounced'
  BY <1>7 DEF SendFails, Return
<1>8. ASSUME NEW h \in Handlers, Receive(h) PROVE EndIsAnnounced'
  BY <1>8 DEF Receive, Return
<1>9. ASSUME NEW h \in Handlers, Abort(h) PROVE EndIsAnnounced'
  BY <1>9 DEF Abort
<1>10. ASSUME NEW t \in Tasks, Connect(t) PROVE EndIsAnnounced'
  BY <1>10 DEF Connect
<1>11. ASSUME NEW t \in Tasks, ConnectFails(t) PROVE EndIsAnnounced'
  BY <1>11 DEF ConnectFails, EndWithError, End
<1>12. ASSUME NEW t \in Tasks, TakeCommand(t) PROVE EndIsAnnounced'
  BY <1>12 DEF TakeCommand
<1>13. ASSUME NEW t \in Tasks, DrainDone(t) PROVE EndIsAnnounced'
  BY <1>13 DEF DrainDone
<1>14. ASSUME NEW t \in Tasks, HandleTopic(t) PROVE EndIsAnnounced'
  BY <1>14 DEF HandleTopic
<1>15. ASSUME NEW t \in Tasks, HandleFails(t) PROVE EndIsAnnounced'
  BY <1>15 DEF HandleFails
<1>16. ASSUME NEW t \in Tasks, HandleDone(t) PROVE EndIsAnnounced'
  BY <1>16 DEF HandleDone
<1>17. ASSUME NEW t \in Tasks, ListenMessage(t) PROVE EndIsAnnounced'
  BY <1>17 DEF ListenMessage
<1>18. ASSUME NEW t \in Tasks, ListenEnded(t) PROVE EndIsAnnounced'
  BY <1>18 DEF ListenEnded, EndWithError, End
<1>19. ASSUME NEW t \in Tasks, ListenTimeout(t) PROVE EndIsAnnounced'
  BY <1>19 DEF ListenTimeout, End
<1>20. ASSUME NEW t \in Tasks, LinkLost(t) PROVE EndIsAnnounced'
  BY <1>20 DEF LinkLost
<1>21. ASSUME NEW s \in Streams, OpenStream(s) PROVE EndIsAnnounced'
  BY <1>21 DEF OpenStream
<1>22. ASSUME NEW s \in Streams, CloseStream(s) PROVE EndIsAnnounced'
  BY <1>22 DEF CloseStream
<1>23. ASSUME NEW s \in Streams, RecvFrame(s) PROVE EndIsAnnounced'
  BY <1>23 DEF RecvFrame
<1>24. ASSUME NEW s \in Streams, RecvGone(s) PROVE EndIsAnnounced'
  BY <1>24 DEF RecvGone
<1>25. ASSUME NEW s \in Streams, RecvClosed(s) PROVE EndIsAnnounced'
  BY <1>25 DEF RecvClosed
<1>26. ASSUME NEW c \in Channels, Publish(c) PROVE EndIsAnnounced'
  BY <1>26 DEF Publish
<1>27. CASE RemoveSession
  BY <1>27 DEF RemoveSession
<1>28. CASE UNCHANGED vars
  BY <1>28 DEF vars
<1> QED BY <1>1, <1>2, <1>3, <1>4, <1>5, <1>6, <1>7, <1>8, <1>9, <1>10,
           <1>11, <1>12, <1>13, <1>14, <1>15, <1>16, <1>17, <1>18, <1>19,
           <1>20, <1>21, <1>22, <1>23, <1>24, <1>25, <1>26, <1>27, <1>28
       DEF Next, HandlerStep, TaskStep, StreamStep

(* A Pub/Sub task of a compat session ends with an error frame to the      *)
(* streams, or when nobody can send to it any more: neither a failed       *)
(* connection nor a race of ensure_pubsub_task leaves a session with a     *)
(* dead task that nobody was told of.                                      *)
THEOREM EndAnnounced == Spec => []EndIsAnnounced
<1>1. Init => IInv
  BY ConstantsAssumption DEF Init, IInv, SenderInv, EndIsAnnounced
<1>2. IInv /\ [Next]_vars => IInv'
  BY SenderStep, AnnouncedStep DEF IInv
<1>3. IInv => EndIsAnnounced
  BY DEF IInv
<1> QED BY <1>1, <1>2, <1>3, PTL DEF Spec

----------------------------------------------------------------------------
(* Commands and their answers                                              *)

(* A handler has a command from execute_command to its return, a task has  *)
(* one in hand while it handles it, and nobody sends to a task that was    *)
(* not spawned.                                                            *)
HandInv ==
    /\ \A h \in Handlers :
          /\ hpc[h] \in {"ensure", "store", "send", "wait"} => cmd[h] \in Commands
          /\ hpc[h] # "wait" => answer[h] = "none"
    /\ \A t \in Tasks :
          /\ current[t] # None <=> tpc[t] = "handle"
          /\ ~Live(t) => queue[t] = <<>>
          /\ tpc[t] = "unborn" => slot # t /\ \A h \in Handlers : tx[h] # t

(* h waits for what t makes of its command.                                *)
WaitsFor(h, t) == hpc[h] = "wait" /\ answer[h] = "none" /\ tx[h] = t

(* Who is named in an entry waits for its answer, and is named only there; *)
(* who waits without an answer is named somewhere.                         *)
NamedWait ==
    \A t \in Tasks : \A k \in DOMAIN queue[t] :
       queue[t][k].to # None => WaitsFor(queue[t][k].to, t)
NamedOnce ==
    \A t \in Tasks : \A j, k \in DOMAIN queue[t] :
       queue[t][j].to = queue[t][k].to /\ queue[t][j].to # None => j = k
InHand ==
    \A t \in Tasks : current[t] # None /\ current[t].to # None =>
       /\ WaitsFor(current[t].to, t)
       /\ \A k \in DOMAIN queue[t] : queue[t][k].to # current[t].to
WaitNamed ==
    \A h \in Handlers, t \in Tasks : WaitsFor(h, t) =>
       \/ \E k \in DOMAIN queue[t] : queue[t][k].to = h
       \/ current[t] # None /\ current[t].to = h
ServeInv == NamedWait /\ NamedOnce /\ InHand /\ WaitNamed

----------------------------------------------------------------------------
(* Types                                                                   *)

(* TypeOK in parts: what a step of a handler, of a task, of Redis or of a  *)
(* stream changes.                                                         *)
HandlerOK ==
    /\ inMap \in {"yes", "no"} /\ slot \in Tasks \cup {None}
    /\ cmd \in [Handlers -> Commands \cup {None}]
    /\ answer \in [Handlers -> {"none", "ok", "error"}]
QueueOK ==
    /\ queue \in [Tasks -> Seq(Entries)]
    /\ \A t \in Tasks : Len(queue[t]) <= QueueCapacity
    /\ current \in [Tasks -> Entries \cup {None}]
TopicsOK ==
    /\ todo \in [Tasks -> Seq(Topics)] /\ subs \in [Tasks -> SUBSET Topics]
    /\ link \in [Tasks -> {"up", "down"}]
    /\ inbox \in [Tasks -> Seq(Topics \X (1 .. MaxMessages))]
    /\ published \in 0 .. MaxMessages
FeedOK ==
    /\ spc \in [Streams -> {"new", "open", "gone", "closed"}]
    /\ feed \in [Streams -> Seq(Frames)]
    /\ \A s \in Streams : Len(feed[s]) <= PushCapacity
HistoryOK == faults \in 0 .. MaxFaults /\ acked \subseteq Topics /\ announced \subseteq Tasks

LEMMA TypeParts ==
    SenderInv => (TypeOK <=> HandlerOK /\ QueueOK /\ TopicsOK /\ FeedOK /\ HistoryOK)
BY DEF SenderInv, TypeOK, HandlerOK, QueueOK, TopicsOK, FeedOK, HistoryOK

(* Everything that TypeOK says, in parts, and who has a sender.            *)
Types == SenderInv /\ HandlerOK /\ QueueOK /\ TopicsOK /\ FeedOK /\ HistoryOK

LEMMA HandlerTypeStep == Types /\ HandInv /\ [Next]_vars => HandlerOK'
<1> SUFFICES ASSUME Types, HandInv, [Next]_vars PROVE HandlerOK'
  OBVIOUS
<1> USE DEF Types, HandlerOK, session, handler
<1>1. CASE UNCHANGED <<session, cmd, answer>>
  BY <1>1
<1>2. ASSUME NEW h \in Handlers, Execute(h) PROVE HandlerOK'
  BY <1>2 DEF Execute
<1>3. ASSUME NEW h \in Handlers, Store(h) PROVE HandlerOK'
  BY <1>3 DEF Store, SenderInv
<1>4. ASSUME NEW h \in Handlers, SendFails(h) \/ Receive(h) PROVE HandlerOK'
  BY <1>4 DEF SendFails, Receive, Return
<1>5. ASSUME NEW h \in Handlers, Abort(h) PROVE HandlerOK'
  BY <1>5 DEF Abort
<1>6. CASE RemoveSession
  BY <1>6 DEF RemoveSession
<1>7. ASSUME NEW t \in Tasks, End(t), UNCHANGED <<session, cmd>> PROVE HandlerOK'
  BY <1>7 DEF End
<1>8. ASSUME NEW t \in Tasks, NEW r \in {"ok", "error"}, Respond(t, r),
             UNCHANGED <<session, cmd>>
      PROVE  HandlerOK'
  BY <1>8 DEF Respond
<1>9. ASSUME NEW t \in Tasks, ConnectFails(t) \/ ListenEnded(t) PROVE HandlerOK'
  BY <1>7, <1>9 DEF ConnectFails, ListenEnded, EndWithError
<1>10. ASSUME NEW t \in Tasks, ListenTimeout(t) PROVE HandlerOK'
  BY <1>1, <1>7, <1>10 DEF ListenTimeout
<1>11. ASSUME NEW t \in Tasks, HandleFails(t) PROVE HandlerOK'
  BY <1>8, <1>11 DEF HandleFails
<1>12. ASSUME NEW t \in Tasks, HandleDone(t) PROVE HandlerOK'
  BY <1>8, <1>12 DEF HandleDone
<1> QED
  BY <1>1, <1>2, <1>3, <1>4, <1>5, <1>6, <1>9, <1>10, <1>11, <1>12
     DEF Next, vars, HandlerStep, TaskStep, StreamStep, Attach, Detach, Ensure,
     Send, Connect, TakeCommand, DrainDone, HandleTopic, ListenMessage, LinkLost,
     RecvFrame, RecvGone, RecvClosed, OpenStream, CloseStream, Publish

(* Entries keep their command when nobody waits for its answer any more.   *)
LEMMA ForgetEntry ==
    ASSUME NEW h \in Handlers
    PROVE  /\ Forget(h, None) = None
           /\ \A e \in Entries : /\ Forget(h, e) \in Entries /\ Forget(h, e).cmd = e.cmd
                                 /\ Forget(h, e).to = (IF e.to = h THEN None ELSE e.to)
BY ConstantsAssumption DEF Forget, Entries

(* The queue of a task after a handler has gone.                           *)
LEMMA ForgetQueue ==
    ASSUME Types, NEW h \in Handlers, NEW t \in Tasks,
           queue' = [u \in Tasks |->
                       [k \in 1 .. Len(queue[u]) |-> Forget(h, queue[u][k])]]
    PROVE  /\ queue'[t] \in Seq(Entries) /\ Len(queue'[t]) = Len(queue[t])
           /\ DOMAIN queue'[t] = DOMAIN queue[t]
           /\ \A k \in DOMAIN queue[t] : queue'[t][k] = Forget(h, queue[t][k])
<1>1. queue[t] \in Seq(Entries)
  BY DEF Types, QueueOK
<1>2. \A k \in 1 .. Len(queue[t]) : Forget(h, queue[t][k]) \in Entries
  BY <1>1, ForgetEntry
<1>3. queue'[t] = [k \in 1 .. Len(queue[t]) |-> Forget(h, queue[t][k])]
  OBVIOUS
<1> QED
  BY <1>1, <1>2, <1>3

LEMMA QueueTypeStep == Types /\ HandInv /\ [Next]_vars => QueueOK'
<1> SUFFICES ASSUME Types, HandInv, [Next]_vars PROVE QueueOK'
  OBVIOUS
<1> USE DEF Types, QueueOK, task
<1>1. CASE UNCHANGED <<queue, current>>
  BY <1>1
<1>2. ASSUME NEW h \in Handlers, Send(h) PROVE QueueOK'
  <2>1. tx[h] \in Tasks /\ [cmd |-> cmd[h], to |-> h] \in Entries
    BY <1>2 DEF Send, SenderInv, HandInv, Entries
  <2>2. /\ queue[tx[h]] \in Seq(Entries) /\ current' = current
        /\ Len(queue[tx[h]]) < QueueCapacity
        /\ queue' = [queue EXCEPT ![tx[h]] = Append(@, [cmd |-> cmd[h], to |-> h])]
    BY <1>2, <2>1 DEF Send
  <2>3. /\ Append(queue[tx[h]], [cmd |-> cmd[h], to |-> h]) \in Seq(Entries)
        /\ Len(Append(queue[tx[h]], [cmd |-> cmd[h], to |-> h])) <= QueueCapacity
    BY <2>1, <2>2, ConstantsAssumption
  <2> QED
    BY <2>1, <2>2, <2>3
<1>3. ASSUME NEW h \in Handlers, Abort(h) PROVE QueueOK'
  <2>1. queue' = [u \in Tasks |->
                    [k \in 1 .. Len(queue[u]) |-> Forget(h, queue[u][k])]]
    BY <1>3 DEF Abort
  <2>2. \A t \in Tasks : queue'[t] \in Seq(Entries) /\ Len(queue'[t]) = Len(queue[t])
    BY <2>1, ForgetQueue
  <2>3. current' \in [Tasks -> Entries \cup {None}]
    BY <1>3, ForgetEntry DEF Abort
  <2>4. queue' \in [Tasks -> Seq(Entries)]
    BY <2>1, <2>2
  <2> QED
    BY <2>2, <2>3, <2>4
<1>4. ASSUME NEW t \in Tasks, TakeCommand(t) PROVE QueueOK'
  <2>1. /\ queue[t] \in Seq(Entries) /\ queue[t] # <<>>
        /\ current' = [current EXCEPT ![t] = Head(queue[t])]
        /\ queue' = [queue EXCEPT ![t] = Tail(@)]
    BY <1>4 DEF TakeCommand
  <2>2. /\ Head(queue[t]) \in Entries /\ Tail(queue[t]) \in Seq(Entries)
        /\ Len(Tail(queue[t])) = Len(queue[t]) - 1 /\ Len(queue[t]) \in Nat
    BY <2>1
  <2>3. Len(Tail(queue[t])) <= QueueCapacity
    BY <2>2, ConstantsAssumption
  <2> QED
    BY <2>1, <2>2, <2>3
<1>5. ASSUME NEW t \in Tasks, End(t) PROVE QueueOK'
  BY <1>5, ConstantsAssumption DEF End
<1>6. ASSUME NEW t \in Tasks, ConnectFails(t) \/ ListenEnded(t) PROVE QueueOK'
  BY <1>5, <1>6 DEF ConnectFails, ListenEnded, EndWithError
<1>7. ASSUME NEW t \in Tasks, ListenTimeout(t) PROVE QueueOK'
  BY <1>1, <1>5, <1>7 DEF ListenTimeout
<1>8. ASSUME NEW t \in Tasks, HandleFails(t) \/ HandleDone(t) PROVE QueueOK'
  BY <1>8 DEF HandleFails, HandleDone
<1> QED
  BY <1>1, <1>2, <1>3, <1>4, <1>6, <1>7, <1>8
     DEF Next, vars, HandlerStep, TaskStep, StreamStep, Attach, Detach, Execute,
     Ensure, Store, SendFails, Receive, Connect, DrainDone, HandleTopic,
     ListenMessage, LinkLost, RecvFrame, RecvGone, RecvClosed, OpenStream,
     CloseStream, Publish, RemoveSession

LEMMA SeqWider ==
    ASSUME NEW S, NEW T, S \subseteq T, NEW q \in Seq(S)
    PROVE  q \in Seq(T)
OBVIOUS

(* A finite set as a sequence: its elements, each of them once.            *)
LEMMA SetToSeqIs ==
    ASSUME NEW S, IsFiniteSet(S)
    PROVE  /\ SetToSeq(S) \in Seq(S)
           /\ \A j, k \in DOMAIN SetToSeq(S) : SetToSeq(S)[j] = SetToSeq(S)[k] => j = k
<1> DEFINE n == Cardinality(S)
<1>1. n \in Nat /\ \E f \in [1 .. n -> S] : IsInjective(f)
  BY FS_CardinalityType DEF ExistsBijection, Bijection, Injection
<1>2. SetToSeq(S) \in [1 .. n -> S] /\ IsInjective(SetToSeq(S))
  BY <1>1 DEF SetToSeq
<1> HIDE DEF n
<1>3. SetToSeq(S) \in Seq(S)
  BY <1>1, <1>2
<1> QED
  BY <1>2, <1>3 DEF IsInjective

LEMMA CommandTypes ==
    ASSUME NEW c \in Commands
    PROVE  /\ c.args \in Seq(Topics) /\ c.kind \subseteq Topics
           /\ \A S \in SUBSET Topics : IsFiniteSet(S)
BY ConstantsAssumption, FS_Subset DEF Topics

LEMMA TargetsType ==
    ASSUME Types, NEW t \in Tasks, NEW c \in Commands
    PROVE  Targets(t, c) \in Seq(Topics)
<1>1. subs[t] \cap c.kind \in SUBSET Topics
  BY CommandTypes DEF Types, TopicsOK
<1>2. SetToSeq(subs[t] \cap c.kind) \in Seq(subs[t] \cap c.kind)
  BY <1>1, CommandTypes, SetToSeqIs
<1>3. SetToSeq(subs[t] \cap c.kind) \in Seq(Topics)
  BY <1>1, <1>2
<1> QED
  BY <1>3, CommandTypes DEF Targets

(* What Redis sends to a connection for one PUBLISH.                       *)
Copies(t, c) == SetToSeq((subs[t] \cap ({c} \cup Patterns)) \X {published + 1})

LEMMA CopiesAre ==
    ASSUME Types, NEW t \in Tasks, NEW c \in Channels
    PROVE  /\ Copies(t, c) \in Seq(Topics \X {published + 1})
           /\ \A j, k \in DOMAIN Copies(t, c) :
                 Copies(t, c)[j][1] = Copies(t, c)[k][1] => j = k
<1> DEFINE S == subs[t] \cap ({c} \cup Patterns)
           P == S \X {published + 1}
<1>1. S \in SUBSET Topics
  BY DEF Types, TopicsOK
<1>2. IsFiniteSet(S) /\ IsFiniteSet({published + 1})
  BY <1>1, ConstantsAssumption, FS_Subset, FS_Singleton
<1>3. IsFiniteSet(P)
  <2> HIDE DEF S
  <2> QED
    BY <1>2, FS_Product
<1>4. Copies(t, c) = SetToSeq(P)
  BY DEF Copies
<1> HIDE DEF P
<1>5. /\ Copies(t, c) \in Seq(P)
      /\ \A j, k \in DOMAIN Copies(t, c) : Copies(t, c)[j] = Copies(t, c)[k] => j = k
  BY <1>3, <1>4, SetToSeqIs
<1>6. P \subseteq Topics \X {published + 1}
  BY <1>1 DEF P
<1>7. Copies(t, c) \in Seq(Topics \X {published + 1})
  BY <1>5, <1>6
<1>8. \A j \in DOMAIN Copies(t, c) :
         /\ Copies(t, c)[j] \in Topics \X {published + 1}
         /\ Copies(t, c)[j] = <<Copies(t, c)[j][1], published + 1>>
  BY <1>7
<1> QED
  BY <1>5, <1>7, <1>8

LEMMA PublishIs ==
    ASSUME NEW c \in Channels, Publish(c)
    PROVE  /\ published < MaxMessages /\ published' = published + 1
           /\ inbox' = [t \in Tasks |-> IF link[t] = "up"
                                          THEN inbox[t] \o Copies(t, c) ELSE inbox[t]]
           /\ UNCHANGED <<session, handler, tpc, queue, current, todo, subs, link,
                          streams, faults, history>>
BY DEF Publish, Copies

LEMMA TopicTypeStep == Types /\ HandInv /\ [Next]_vars => TopicsOK'
<1> SUFFICES ASSUME Types, HandInv, [Next]_vars PROVE TopicsOK'
  OBVIOUS
<1> USE DEF Types, TopicsOK, task, bounds
<1>1. CASE UNCHANGED <<todo, subs, link, inbox, published>>
  BY <1>1
<1>2. ASSUME NEW t \in Tasks, TakeCommand(t) PROVE TopicsOK'
  <2>1. Head(queue[t]).cmd \in Commands
    <3>1. queue[t] \in Seq(Entries) /\ queue[t] # <<>>
      BY <1>2 DEF TakeCommand, QueueOK
    <3>2. Head(queue[t]) \in Entries
      BY <3>1
    <3> QED
      BY <3>2 DEF Entries
  <2> QED
    BY <1>2, <2>1, TargetsType DEF TakeCommand
<1>3. ASSUME NEW t \in Tasks, End(t), published' = published PROVE TopicsOK'
  BY <1>3 DEF End
<1>4. ASSUME NEW t \in Tasks, Connect(t) \/ LinkLost(t) PROVE TopicsOK'
  BY <1>4 DEF Connect, LinkLost, Fault
<1>5. ASSUME NEW t \in Tasks, HandleTopic(t) PROVE TopicsOK'
  <2>1. todo[t] \in Seq(Topics) /\ todo[t] # <<>> /\ subs[t] \in SUBSET Topics
    BY <1>5 DEF HandleTopic
  <2>2. Head(todo[t]) \in Topics /\ Tail(todo[t]) \in Seq(Topics)
    BY <2>1
  <2>3. /\ todo' = [todo EXCEPT ![t] = Tail(@)]
        /\ \E S \in SUBSET Topics : subs' = [subs EXCEPT ![t] = S]
        /\ UNCHANGED <<link, inbox, published>>
    BY <1>5, <2>1, <2>2 DEF HandleTopic
  <2> QED
    BY <2>1, <2>2, <2>3
<1>6. ASSUME NEW t \in Tasks, HandleFails(t) PROVE TopicsOK'
  BY <1>6 DEF HandleFails, Fault
<1>7. ASSUME NEW t \in Tasks, ListenMessage(t) PROVE TopicsOK'
  <2>1. inbox[t] \in Seq(Topics \X (1 .. MaxMessages)) /\ inbox[t] # <<>>
    BY <1>7 DEF ListenMessage
  <2>2. Tail(inbox[t]) \in Seq(Topics \X (1 .. MaxMessages))
    BY <2>1
  <2> QED
    BY <1>7, <2>2 DEF ListenMessage
<1>8. ASSUME NEW t \in Tasks, ConnectFails(t) \/ ListenEnded(t) PROVE TopicsOK'
  BY <1>3, <1>8 DEF ConnectFails, ListenEnded, EndWithError, Fault
<1>9. ASSUME NEW t \in Tasks, ListenTimeout(t) PROVE TopicsOK'
  BY <1>1, <1>3, <1>9 DEF ListenTimeout
<1>10. ASSUME NEW c \in Channels, Publish(c) PROVE TopicsOK'
  <2>1. published' \in 1 .. MaxMessages /\ published' = published + 1
    BY <1>10, PublishIs, ConstantsAssumption
  <2>2. ASSUME NEW t \in Tasks PROVE inbox'[t] \in Seq(Topics \X (1 .. MaxMessages))
    <3>1. Copies(t, c) \in Seq(Topics \X {published + 1})
      BY CopiesAre
    <3> DEFINE M == Topics \X (1 .. MaxMessages)
    <3>2. Topics \X {published + 1} \subseteq M
      BY <2>1
    <3>3. inbox[t] \in Seq(M)
      OBVIOUS
    <3> HIDE DEF M
    <3>4. Copies(t, c) \in Seq(M)
      BY <3>1, <3>2, SeqWider
    <3>5. inbox[t] \o Copies(t, c) \in Seq(M)
      BY <3>3, <3>4
    <3>6. inbox'[t] \in Seq(M)
      BY <1>10, <3>3, <3>5, PublishIs
    <3> QED
      BY <3>6 DEF M
  <2> QED
    BY <1>10, <2>1, <2>2, PublishIs
<1>11. ASSUME NEW h \in Handlers, Abort(h) PROVE TopicsOK'
  BY <1>11 DEF Abort, Fault
<1> QED
  BY <1>1, <1>2, <1>4, <1>5, <1>6, <1>7, <1>8, <1>9, <1>10, <1>11
     DEF Next, vars, HandlerStep, TaskStep, StreamStep, Attach, Detach, Execute,
     Ensure, Store, Send, SendFails, Receive, DrainDone, HandleDone, RecvFrame,
     RecvGone, RecvClosed, OpenStream, CloseStream, RemoveSession

LEMMA FeedPushed ==
    ASSUME Types, NEW f \in Frames, Push(f), NEW s \in Streams
    PROVE  /\ feed'[s] \in Seq(Frames) /\ Len(feed'[s]) <= PushCapacity
           /\ \A j \in DOMAIN feed'[s] :
                 feed'[s][j] = f \/ \E i \in DOMAIN feed[s] : feed'[s][j] = feed[s][i]
           /\ \A j, k \in DOMAIN feed'[s] : j < k =>
                 \/ feed'[s][k] = f /\ \E i \in DOMAIN feed[s] : feed'[s][j] = feed[s][i]
                 \/ \E i, l \in DOMAIN feed[s] :
                       i < l /\ feed'[s][j] = feed[s][i] /\ feed'[s][k] = feed[s][l]
<1>1. feed[s] \in Seq(Frames) /\ Len(feed[s]) <= PushCapacity
  BY DEF Types, FeedOK
<1>2. feed'[s] = IF spc[s] \notin {"open", "gone"} THEN feed[s]
                 ELSE IF Len(feed[s]) < PushCapacity THEN Append(feed[s], f)
                 ELSE Append(Tail(feed[s]), f)
  BY DEF Push
<1>3. CASE feed'[s] = feed[s]
  BY <1>1, <1>3
<1>4. CASE feed'[s] = Append(feed[s], f) /\ Len(feed[s]) < PushCapacity
  <2>1. /\ feed'[s] \in Seq(Frames) /\ Len(feed'[s]) = Len(feed[s]) + 1
        /\ feed'[s][Len(feed[s]) + 1] = f
        /\ \A j \in 1 .. Len(feed[s]) : feed'[s][j] = feed[s][j]
    BY <1>1, <1>4
  <2>2. /\ Len(feed[s]) \in Nat /\ DOMAIN feed[s] = 1 .. Len(feed[s])
        /\ DOMAIN feed'[s] = 1 .. Len(feed[s]) + 1
    BY <1>1, <2>1
  <2>3. Len(feed'[s]) <= PushCapacity
    BY <1>4, <2>1, <2>2, ConstantsAssumption
  <2>4. ASSUME NEW j \in DOMAIN feed'[s]
        PROVE  \/ j = Len(feed[s]) + 1 /\ feed'[s][j] = f
               \/ j \in DOMAIN feed[s] /\ feed'[s][j] = feed[s][j]
    BY <2>1, <2>2
  <2>5. ASSUME NEW j \in DOMAIN feed'[s], NEW k \in DOMAIN feed'[s], j < k
        PROVE  j \in DOMAIN feed[s] /\ feed'[s][j] = feed[s][j]
    BY <2>1, <2>2, <2>5
  <2> QED
    BY <2>1, <2>3, <2>4, <2>5
<1>5. CASE feed'[s] = Append(Tail(feed[s]), f) /\ ~(Len(feed[s]) < PushCapacity)
  <2>1. Len(feed[s]) = PushCapacity /\ feed[s] # <<>>
    BY <1>1, <1>5, ConstantsAssumption
  <2>2. /\ feed'[s] \in Seq(Frames) /\ Len(feed'[s]) = Len(feed[s])
        /\ feed'[s][Len(feed[s])] = f
        /\ \A j \in 1 .. Len(feed[s]) - 1 : feed'[s][j] = feed[s][j + 1]
    BY <1>1, <1>5, <2>1
  <2>3. /\ Len(feed[s]) \in Nat /\ DOMAIN feed[s] = 1 .. Len(feed[s])
        /\ DOMAIN feed'[s] = 1 .. Len(feed[s])
    BY <1>1, <2>2
  <2>4. ASSUME NEW j \in DOMAIN feed'[s]
        PROVE  \/ j = Len(feed[s]) /\ feed'[s][j] = f
               \/ j + 1 \in DOMAIN feed[s] /\ feed'[s][j] = feed[s][j + 1]
    BY <2>2, <2>3
  <2>5. ASSUME NEW j \in DOMAIN feed'[s], NEW k \in DOMAIN feed'[s], j < k
        PROVE  /\ j + 1 \in DOMAIN feed[s] /\ feed'[s][j] = feed[s][j + 1]
               /\ j + 1 < k + 1
    BY <2>2, <2>3, <2>5
  <2> QED
    BY <1>1, <2>2, <2>4, <2>5
<1> QED
  BY <1>2, <1>3, <1>4, <1>5

LEMMA FeedTypeStep == Types /\ HandInv /\ [Next]_vars => FeedOK'
<1> SUFFICES ASSUME Types, HandInv, [Next]_vars PROVE FeedOK'
  OBVIOUS
<1> USE DEF Types, streams
<1>1. CASE UNCHANGED <<spc, feed>>
  BY <1>1 DEF FeedOK
<1>2. ASSUME NEW s \in Streams, OpenStream(s) \/ RecvClosed(s) PROVE FeedOK'
  BY <1>2 DEF OpenStream, RecvClosed, FeedOK
<1>3. ASSUME NEW s \in Streams, CloseStream(s) PROVE FeedOK'
  BY <1>3, ConstantsAssumption DEF CloseStream, FeedOK
<1>4. ASSUME NEW s \in Streams, RecvFrame(s) \/ RecvGone(s) PROVE FeedOK'
  <2>1. feed[s] \in Seq(Frames) /\ feed[s] # <<>> /\ Len(feed[s]) <= PushCapacity
    BY <1>4 DEF RecvFrame, RecvGone, FeedOK
  <2>2. Tail(feed[s]) \in Seq(Frames) /\ Len(Tail(feed[s])) <= PushCapacity
    BY <2>1, ConstantsAssumption
  <2>3. /\ \/ feed' = [feed EXCEPT ![s] = Tail(feed[s])]
           \/ feed' = [feed EXCEPT ![s] = <<>>]
        /\ spc' = spc \/ spc' = [spc EXCEPT ![s] = "closed"]
    BY <1>4 DEF RecvFrame, RecvGone
  <2>4. <<>> \in Seq(Frames) /\ Len(<<>>) <= PushCapacity
    BY ConstantsAssumption
  <2> QED
    BY <2>2, <2>3, <2>4 DEF FeedOK
<1>5. ASSUME NEW f \in Frames, Push(f), spc' = spc PROVE FeedOK'
  <2>1. \A s \in Streams : feed'[s] \in Seq(Frames) /\ Len(feed'[s]) <= PushCapacity
    BY <1>5, FeedPushed
  <2>2. feed' \in [Streams -> Seq(Frames)]
    BY <1>5, <2>1 DEF Push
  <2> QED
    BY <1>5, <2>1, <2>2 DEF FeedOK
<1>6. ASSUME NEW t \in Tasks, ConnectFails(t) \/ ListenEnded(t) PROVE FeedOK'
  <2>1. ErrorFrame(t) \in Frames
    BY ConstantsAssumption DEF ErrorFrame, Frames
  <2> QED
    BY <1>5, <1>6, <2>1 DEF ConnectFails, ListenEnded, EndWithError
<1>7. ASSUME NEW t \in Tasks, ListenMessage(t) PROVE FeedOK'
  <2>1. Head(inbox[t]) \in Topics \X (1 .. MaxMessages)
    BY <1>7 DEF ListenMessage, TopicsOK
  <2>2. [task |-> t, topic |-> Head(inbox[t])[1], n |-> Head(inbox[t])[2]] \in Frames
    BY <2>1, ConstantsAssumption DEF Frames
  <2> QED
    BY <1>5, <1>7, <2>2 DEF ListenMessage
<1> QED
  BY <1>1, <1>2, <1>3, <1>4, <1>6, <1>7
     DEF Next, vars, HandlerStep, TaskStep, StreamStep, Attach, Detach, Execute,
     Ensure, Store, Send, SendFails, Receive, Abort, Connect, TakeCommand,
     DrainDone, HandleTopic, HandleFails, HandleDone, ListenTimeout, LinkLost,
     Publish, RemoveSession

LEMMA HistoryTypeStep == Types /\ HandInv /\ [Next]_vars => HistoryOK'
<1> SUFFICES ASSUME Types, HandInv, [Next]_vars PROVE HistoryOK'
  OBVIOUS
<1> USE DEF Types, HistoryOK, bounds, history
<1>1. CASE UNCHANGED <<faults, acked, announced>>
  BY <1>1
<1>2. CASE Fault /\ UNCHANGED <<acked, announced>>
  BY <1>2, ConstantsAssumption DEF Fault
<1>3. ASSUME NEW h \in Handlers, Execute(h) PROVE HistoryOK'
  BY <1>3 DEF Execute
<1>4. ASSUME NEW h \in Handlers, Receive(h) PROVE HistoryOK'
  <2>1. cmd[h] \in Commands
    BY <1>4 DEF Receive, HandInv
  <2>2. cmd[h].args \in Seq(Topics)
    BY <2>1, CommandTypes
  <2>3. ToSet(cmd[h].args) \subseteq Topics
    BY <2>2 DEF ToSet
  <2> QED
    BY <1>4, <2>3 DEF Receive
<1>5. ASSUME NEW t \in Tasks, EndWithError(t), acked' = acked,
             faults' = faults \/ Fault
      PROVE  HistoryOK'
  BY <1>5, ConstantsAssumption DEF EndWithError, Fault
<1>6. ASSUME NEW t \in Tasks, ConnectFails(t) \/ ListenEnded(t) PROVE HistoryOK'
  BY <1>5, <1>6 DEF ConnectFails, ListenEnded
<1>7. ASSUME NEW t \in Tasks, HandleFails(t) \/ LinkLost(t) PROVE HistoryOK'
  BY <1>1, <1>2, <1>7 DEF HandleFails, LinkLost
<1>8. ASSUME NEW h \in Handlers, Abort(h) PROVE HistoryOK'
  BY <1>2, <1>8 DEF Abort
<1> QED
  BY <1>1, <1>3, <1>4, <1>6, <1>7, <1>8
     DEF Next, vars, HandlerStep, TaskStep, StreamStep, Attach, Detach, Ensure,
     Store, Send, SendFails, Connect, TakeCommand, DrainDone, HandleTopic,
     HandleDone, ListenMessage, ListenTimeout, Publish, RemoveSession,
     RecvFrame, RecvGone, RecvClosed, OpenStream, CloseStream

(* What a handler and a task have in hand.                                 *)
LEMMA HandStep == Types /\ HandInv /\ ServeInv /\ [Next]_vars => HandInv'
<1> SUFFICES ASSUME Types, HandInv, ServeInv, [Next]_vars PROVE HandInv'
  OBVIOUS
<1> USE DEF Types, SenderInv, HandInv, Live, session, handler, task
<1>1. CASE UNCHANGED <<session, handler, tpc, queue, current>>
  BY <1>1
<1>2. ASSUME NEW h \in Handlers, Attach(h) \/ Detach(h) PROVE HandInv'
  BY <1>2 DEF Attach, Detach
<1>3. ASSUME NEW h \in Handlers, Execute(h) PROVE HandInv'
  BY <1>3 DEF Execute, HandlerOK
<1>4. ASSUME NEW h \in Handlers, Ensure(h) PROVE HandInv'
  BY <1>4 DEF Ensure
<1>5. ASSUME NEW h \in Handlers, Store(h) PROVE HandInv'
  BY <1>5 DEF Store
<1>6. ASSUME NEW h \in Handlers, Send(h) PROVE HandInv'
  BY <1>6 DEF Send, QueueOK
<1>7. ASSUME NEW h \in Handlers, SendFails(h) \/ Receive(h) PROVE HandInv'
  <2>1. /\ hpc' = [hpc EXCEPT ![h] = "ready"] /\ tx' = [tx EXCEPT ![h] = None]
        /\ cmd' = [cmd EXCEPT ![h] = None] /\ answer' = [answer EXCEPT ![h] = "none"]
        /\ UNCHANGED <<slot, tpc, queue, current>>
    BY <1>7 DEF SendFails, Receive, Return
  <2> QED
    BY <2>1, ConstantsAssumption DEF HandlerOK
<1>8. ASSUME NEW h \in Handlers, Abort(h) PROVE HandInv'
  <2>1. \A t \in Tasks : current'[t] # None <=> current[t] # None
    BY <1>8, ForgetEntry, ConstantsAssumption DEF Abort, QueueOK, Entries
  <2>2. \A t \in Tasks : queue[t] = <<>> => queue'[t] = <<>>
    BY <1>8 DEF Abort
  <2>3. /\ hpc' = [hpc EXCEPT ![h] = "out"] /\ tx' = [tx EXCEPT ![h] = None]
        /\ cmd' = [cmd EXCEPT ![h] = None] /\ answer' = [answer EXCEPT ![h] = "none"]
        /\ UNCHANGED <<slot, tpc>>
    BY <1>8 DEF Abort
  <2> QED
    BY <2>1, <2>2, <2>3, ConstantsAssumption DEF HandlerOK
<1>9. ASSUME NEW t \in Tasks, Connect(t) PROVE HandInv'
  BY <1>9 DEF Connect
<1>10. ASSUME NEW t \in Tasks, TakeCommand(t) PROVE HandInv'
  <2>1. Head(queue[t]) # None
    <3>1. queue[t] \in Seq(Entries) /\ queue[t] # <<>>
      BY <1>10 DEF TakeCommand, QueueOK
    <3>2. Head(queue[t]) \in Entries
      BY <3>1
    <3> QED
      BY <3>2, ConstantsAssumption DEF Entries
  <2> QED
    BY <1>10, <2>1 DEF TakeCommand, QueueOK
<1>11. ASSUME NEW t \in Tasks, DrainDone(t) \/ ListenMessage(t) PROVE HandInv'
  BY <1>11 DEF DrainDone, ListenMessage
<1>12. ASSUME NEW t \in Tasks, End(t), tpc[t] \in {"connect", "listen"},
              UNCHANGED <<session, hpc, cmd, tx>>
      PROVE HandInv'
  <2>1. \A h \in Handlers : hpc[h] # "wait" => answer'[h] = "none"
    <3>1. ASSUME NEW h \in Handlers, NEW k \in DOMAIN queue[t], queue[t][k].to = h
          PROVE  hpc[h] = "wait"
      BY <3>1, ConstantsAssumption DEF ServeInv, NamedWait, WaitsFor
    <3> QED
      BY <1>12, <3>1 DEF End
  <2> QED
    BY <1>12, <2>1 DEF End, QueueOK
<1>13. ASSUME NEW t \in Tasks, ConnectFails(t) \/ ListenEnded(t) PROVE HandInv'
  BY <1>12, <1>13 DEF ConnectFails, ListenEnded, EndWithError
<1>14. ASSUME NEW t \in Tasks, ListenTimeout(t) PROVE HandInv'
  <2>1. CASE End(t)
    BY <1>12, <1>14, <2>1 DEF ListenTimeout
  <2>2. CASE UNCHANGED <<answer, queue, current>> /\ tpc' = [tpc EXCEPT ![t] = "drain"]
    BY <1>14, <2>2 DEF ListenTimeout
  <2> QED
    BY <1>14, <2>1, <2>2 DEF ListenTimeout
<1>15. ASSUME NEW t \in Tasks, HandleFails(t) \/ HandleDone(t) PROVE HandInv'
  <2>1. PICK r \in {"ok", "error"} : Respond(t, r)
    BY <1>15 DEF HandleFails, HandleDone
  <2>2. current[t] # None /\ (current[t].to # None => hpc[current[t].to] = "wait")
    BY <1>15 DEF HandleFails, HandleDone, ServeInv, InHand, WaitsFor
  <2>3. \A h \in Handlers : hpc[h] # "wait" => answer'[h] = "none"
    BY <2>1, <2>2 DEF Respond, HandlerOK
  <2> QED
    BY <1>15, <2>3 DEF HandleFails, HandleDone, QueueOK
<1>16. ASSUME NEW t \in Tasks, HandleTopic(t) \/ LinkLost(t) PROVE HandInv'
  BY <1>16 DEF HandleTopic, LinkLost
<1>17. ASSUME NEW u \in Streams, StreamStep(u) \/ OpenStream(u) \/ CloseStream(u)
       PROVE  HandInv'
  BY <1>17 DEF StreamStep, RecvFrame, RecvGone, RecvClosed, OpenStream, CloseStream
<1>18. ASSUME NEW c \in Channels, Publish(c) PROVE HandInv'
  BY <1>18 DEF Publish
<1>19. CASE RemoveSession
  BY <1>19 DEF RemoveSession
<1>20. CASE UNCHANGED vars
  BY <1>1, <1>20 DEF vars
<1> HIDE DEF Types, SenderInv, HandInv, Live, session, handler, task
<1> QED
  BY <1>2, <1>3, <1>4, <1>5, <1>6, <1>7, <1>8, <1>9, <1>10, <1>11, <1>13, <1>14,
     <1>15, <1>16, <1>17, <1>18, <1>19, <1>20 DEF Next, HandlerStep, TaskStep

(* What is left of a queue when its head is taken.                         *)
LEMMA TailOf ==
    ASSUME NEW S, NEW q \in Seq(S), q # <<>>
    PROVE  /\ 1 \in DOMAIN q /\ Head(q) = q[1] /\ q[1] \in S /\ Tail(q) \in Seq(S)
           /\ \A k \in DOMAIN Tail(q) :
                 /\ k \in Nat \ {0} /\ k + 1 \in DOMAIN q
                 /\ Tail(q)[k] = q[k + 1]
           /\ \A k \in DOMAIN q : k # 1 =>
                 k - 1 \in DOMAIN Tail(q) /\ Tail(q)[k - 1] = q[k]
<1>1. /\ Len(q) \in Nat \ {0} /\ DOMAIN q = 1 .. Len(q)
      /\ Tail(q) \in Seq(S) /\ Len(Tail(q)) = Len(q) - 1
      /\ DOMAIN Tail(q) = 1 .. Len(q) - 1
  OBVIOUS
<1>2. \A k \in 1 .. Len(q) - 1 : Tail(q)[k] = q[k + 1]
  OBVIOUS
<1> QED
  BY <1>1, <1>2

(* An entry, in the channel of a task or in its hand.                      *)
LEMMA EntryTypes ==
    ASSUME Types, NEW t \in Tasks
    PROVE  /\ queue[t] \in Seq(Entries)
           /\ \A k \in DOMAIN queue[t] : queue[t][k].to \in Handlers \cup {None}
           /\ current[t] # None => current[t].to \in Handlers \cup {None}
<1>1. queue[t] \in Seq(Entries) /\ current[t] \in Entries \cup {None}
  BY DEF Types, QueueOK
<1>2. \A e \in Entries : e.to \in Handlers \cup {None}
  BY DEF Entries
<1>3. \A k \in DOMAIN queue[t] : queue[t][k] \in Entries
  BY <1>1
<1> QED
  BY <1>1, <1>2, <1>3

(* Nobody who waits for an answer is forgotten, and nobody is served twice.*)
LEMMA ServeStep == Types /\ HandInv /\ ServeInv /\ [Next]_vars => ServeInv'
<1> SUFFICES ASSUME Types, HandInv, ServeInv, [Next]_vars PROVE ServeInv'
  OBVIOUS
<1> DEFINE Waits(h, t) == hpc'[h] = "wait" /\ answer'[h] = "none" /\ tx'[h] = t
<1>0. ASSUME \A t \in Tasks : \A k \in DOMAIN queue'[t] :
                queue'[t][k].to # None => Waits(queue'[t][k].to, t),
             \A t \in Tasks : \A j, k \in DOMAIN queue'[t] :
                queue'[t][j].to = queue'[t][k].to /\ queue'[t][j].to # None => j = k,
             \A t \in Tasks : current'[t] # None /\ current'[t].to # None =>
                /\ Waits(current'[t].to, t)
                /\ \A k \in DOMAIN queue'[t] : queue'[t][k].to # current'[t].to,
             \A h \in Handlers, t \in Tasks : Waits(h, t) =>
                \/ \E k \in DOMAIN queue'[t] : queue'[t][k].to = h
                \/ current'[t] # None /\ current'[t].to = h
      PROVE  ServeInv'
  BY <1>0 DEF ServeInv, NamedWait, NamedOnce, InHand, WaitNamed, WaitsFor
<1> USE DEF WaitsFor
<1>1. CASE UNCHANGED <<hpc, tx, answer, queue, current>>
  BY <1>0, <1>1 DEF ServeInv, NamedWait, NamedOnce, InHand, WaitNamed
<1>2. ASSUME NEW h \in Handlers, hpc[h] = "wait" => answer[h] # "none", hpc'[h] # "wait",
             \A g \in Handlers : g # h =>
                hpc'[g] = hpc[g] /\ tx'[g] = tx[g] /\ answer'[g] = answer[g],
             UNCHANGED <<queue, current>>
      PROVE  ServeInv'
  BY <1>0, <1>2, EntryTypes DEF ServeInv, NamedWait, NamedOnce, InHand, WaitNamed
<1>3. ASSUME NEW h \in Handlers,
             \/ Attach(h) \/ Detach(h) \/ Execute(h) \/ Ensure(h) \/ Store(h)
             \/ SendFails(h) \/ Receive(h)
      PROVE  ServeInv'
  BY <1>2, <1>3 DEF Attach, Detach, Execute, Ensure, Store, SendFails, Receive,
     Return, Types, SenderInv, HandlerOK, session, handler, task
<1>4. ASSUME NEW h \in Handlers, Send(h) PROVE ServeInv'
  <2> DEFINE u == tx[h]
             e == [cmd |-> cmd[h], to |-> h]
  <2>1. /\ u \in Tasks /\ hpc[h] = "send" /\ answer[h] = "none"
        /\ queue' = [queue EXCEPT ![u] = Append(@, e)]
        /\ hpc' = [hpc EXCEPT ![h] = "wait"] /\ UNCHANGED <<tx, answer, current>>
    BY <1>4 DEF Send, HandInv, Types, SenderInv
  <2>2. /\ \A t \in Tasks : t # u => queue'[t] = queue[t]
        /\ queue'[u] = Append(queue[u], e) /\ queue[u] \in Seq(Entries)
        /\ hpc'[h] = "wait" /\ \A g \in Handlers : g # h => hpc'[g] = hpc[g]
    BY <2>1 DEF Types, QueueOK, SenderInv
  <2>3. \A t \in Tasks : \A k \in DOMAIN queue'[t] :
           \/ k \in DOMAIN queue[t] /\ queue'[t][k] = queue[t][k]
           \/ t = u /\ k = Len(queue[u]) + 1 /\ queue'[t][k].to = h
    BY <2>2
  <2>4. /\ \A t \in Tasks : \A k \in DOMAIN queue[t] :
              k \in DOMAIN queue'[t] /\ queue'[t][k] = queue[t][k]
        /\ \E k \in DOMAIN queue'[u] : queue'[u][k].to = h
    BY <2>2, SMTT(30)
  <2>5. \A t \in Tasks : /\ \A k \in DOMAIN queue[t] : queue[t][k].to # h
                         /\ current[t] # None => current[t].to # h
    BY <2>1, ConstantsAssumption DEF ServeInv, NamedWait, InHand
  <2> HIDE DEF u, e
  <2>6. ASSUME NEW t \in Tasks, NEW k \in DOMAIN queue'[t], queue'[t][k].to # None
        PROVE  Waits(queue'[t][k].to, t)
    <3>1. CASE k \in DOMAIN queue[t] /\ queue'[t][k] = queue[t][k]
      <4>1. queue[t][k].to \in Handlers /\ WaitsFor(queue[t][k].to, t)
        BY <2>6, <3>1, EntryTypes DEF ServeInv, NamedWait
      <4> QED
        BY <2>1, <2>2, <2>5, <3>1, <4>1
    <3>2. CASE t = u /\ queue'[t][k].to = h
      BY <2>1, <2>2, <3>2 DEF u
    <3> QED
      BY <2>3, <3>1, <3>2
  <2>7. ASSUME NEW t \in Tasks, NEW j \in DOMAIN queue'[t], NEW k \in DOMAIN queue'[t],
               queue'[t][j].to = queue'[t][k].to, queue'[t][j].to # None
        PROVE  j = k
    BY <2>3, <2>5, <2>7 DEF ServeInv, NamedOnce
  <2>8. ASSUME NEW t \in Tasks, current'[t] # None, current'[t].to # None
        PROVE  /\ Waits(current'[t].to, t)
               /\ \A k \in DOMAIN queue'[t] : queue'[t][k].to # current'[t].to
    <3>1. /\ current[t].to \in Handlers /\ WaitsFor(current[t].to, t) /\ current[t].to # h
          /\ \A k \in DOMAIN queue[t] : queue[t][k].to # current[t].to
      BY <2>1, <2>5, <2>8, EntryTypes DEF ServeInv, InHand
    <3> QED
      BY <2>1, <2>2, <2>3, <3>1
  <2>9. ASSUME NEW g \in Handlers, NEW t \in Tasks, Waits(g, t)
        PROVE  \/ \E k \in DOMAIN queue'[t] : queue'[t][k].to = g
               \/ current'[t] # None /\ current'[t].to = g
    <3>1. CASE g = h
      BY <2>1, <2>4, <2>9, <3>1 DEF u
    <3>2. CASE g # h
      <4>1. WaitsFor(g, t)
        BY <2>1, <2>2, <2>9, <3>2
      <4> QED
        BY <2>1, <2>4, <4>1 DEF ServeInv, WaitNamed
    <3> QED
      BY <3>1, <3>2
  <2> QED
    BY <1>0, <2>6, <2>7, <2>8, <2>9
<1>5. ASSUME NEW h \in Handlers, Abort(h) PROVE ServeInv'
  <2>1. /\ hpc'[h] = "out"
        /\ \A g \in Handlers : g # h =>
              hpc'[g] = hpc[g] /\ tx'[g] = tx[g] /\ answer'[g] = answer[g]
    BY <1>5 DEF Abort, Types, SenderInv, HandlerOK
  <2>2. ASSUME NEW t \in Tasks
        PROVE  /\ DOMAIN queue'[t] = DOMAIN queue[t]
               /\ \A k \in DOMAIN queue[t] :
                     queue'[t][k].to = (IF queue[t][k].to = h THEN None ELSE queue[t][k].to)
    <3>1. /\ DOMAIN queue'[t] = DOMAIN queue[t]
          /\ \A k \in DOMAIN queue[t] : queue'[t][k] = Forget(h, queue[t][k])
      BY <1>5, ForgetQueue DEF Abort
    <3>2. \A k \in DOMAIN queue[t] : queue[t][k] \in Entries
      BY EntryTypes
    <3> QED
      BY <3>1, <3>2, ForgetEntry
  <2>3. ASSUME NEW t \in Tasks
        PROVE  /\ current'[t] # None <=> current[t] # None
               /\ current[t] # None =>
                     current'[t].to = (IF current[t].to = h THEN None ELSE current[t].to)
    <3>1. current[t] \in Entries \cup {None} /\ current'[t] = Forget(h, current[t])
      BY <1>5 DEF Abort, Types, QueueOK
    <3> QED
      BY <3>1, ForgetEntry, ConstantsAssumption DEF Entries
  <2>4. ASSUME NEW t \in Tasks, NEW k \in DOMAIN queue'[t], queue'[t][k].to # None
        PROVE  Waits(queue'[t][k].to, t)
    <3>1. /\ k \in DOMAIN queue[t] /\ queue'[t][k].to = queue[t][k].to
          /\ queue[t][k].to # h /\ queue[t][k].to \in Handlers
      BY <2>2, <2>4, EntryTypes
    <3> QED
      BY <2>1, <2>4, <3>1 DEF ServeInv, NamedWait
  <2>5. ASSUME NEW t \in Tasks, NEW j \in DOMAIN queue'[t], NEW k \in DOMAIN queue'[t],
               queue'[t][j].to = queue'[t][k].to, queue'[t][j].to # None
        PROVE  j = k
    BY <2>2, <2>5 DEF ServeInv, NamedOnce
  <2>6. ASSUME NEW t \in Tasks, current'[t] # None, current'[t].to # None
        PROVE  /\ Waits(current'[t].to, t)
               /\ \A k \in DOMAIN queue'[t] : queue'[t][k].to # current'[t].to
    <3>1. /\ current[t] # None /\ current'[t].to = current[t].to /\ current[t].to # None
          /\ current[t].to # h /\ current[t].to \in Handlers
      BY <2>3, <2>6, EntryTypes
    <3> QED
      BY <2>1, <2>2, <3>1 DEF ServeInv, InHand
  <2>7. ASSUME NEW g \in Handlers, NEW t \in Tasks, Waits(g, t)
        PROVE  \/ \E k \in DOMAIN queue'[t] : queue'[t][k].to = g
               \/ current'[t] # None /\ current'[t].to = g
    <3>1. g # h /\ WaitsFor(g, t)
      BY <2>1, <2>7
    <3> QED
      BY <2>2, <2>3, <3>1 DEF ServeInv, WaitNamed
  <2> QED
    BY <1>0, <2>4, <2>5, <2>6, <2>7
<1>6. ASSUME NEW t \in Tasks, TakeCommand(t) PROVE ServeInv'
  <2>1. /\ queue[t] \in Seq(Entries) /\ queue[t] # <<>> /\ current[t] = None
        /\ queue' = [queue EXCEPT ![t] = Tail(@)]
        /\ current' = [current EXCEPT ![t] = Head(queue[t])]
        /\ UNCHANGED <<hpc, tx, answer>>
    BY <1>6 DEF TakeCommand, Types, QueueOK, HandInv, handler
  <2>2. /\ queue'[t] = Tail(queue[t]) /\ current'[t] = queue[t][1]
        /\ \A u \in Tasks : u # t => queue'[u] = queue[u] /\ current'[u] = current[u]
    BY <2>1 DEF Types, QueueOK
  <2>3. /\ 1 \in DOMAIN queue[t] /\ queue[t][1] # None
        /\ \A k \in DOMAIN queue'[t] :
              /\ k \in Nat \ {0} /\ k + 1 \in DOMAIN queue[t]
              /\ queue'[t][k] = queue[t][k + 1]
    <3>1. /\ 1 \in DOMAIN queue[t] /\ queue[t][1] \in Entries
          /\ \A k \in DOMAIN Tail(queue[t]) :
                /\ k \in Nat \ {0} /\ k + 1 \in DOMAIN queue[t]
                /\ Tail(queue[t])[k] = queue[t][k + 1]
      BY <2>1, TailOf
    <3>2. queue[t][1] # None
      BY <3>1, ConstantsAssumption DEF Entries
    <3> QED
      BY <2>2, <3>1, <3>2
  <2>4. ASSUME NEW k \in DOMAIN queue[t]
        PROVE  k = 1 \/ \E j \in DOMAIN queue'[t] : queue'[t][j] = queue[t][k]
    <3>1. CASE k # 1
      <4>1. /\ k - 1 \in DOMAIN Tail(queue[t])
            /\ Tail(queue[t])[k - 1] = queue[t][k]
        BY <2>1, <3>1, TailOf
      <4> QED
        BY <2>2, <4>1
    <3> QED
      BY <3>1
  <2>5. ASSUME NEW u \in Tasks, NEW k \in DOMAIN queue'[u], queue'[u][k].to # None
        PROVE  Waits(queue'[u][k].to, u)
    <3>1. \E j \in DOMAIN queue[u] : queue'[u][k] = queue[u][j]
      <4>1. CASE u # t
        BY <2>2, <4>1
      <4>2. CASE u = t
        BY <2>3, <4>2
      <4> QED
        BY <4>1, <4>2
    <3> QED
      BY <2>1, <2>5, <3>1 DEF ServeInv, NamedWait
  <2>6. ASSUME NEW u \in Tasks, NEW j \in DOMAIN queue'[u], NEW k \in DOMAIN queue'[u],
               queue'[u][j].to = queue'[u][k].to, queue'[u][j].to # None
        PROVE  j = k
    <3>1. CASE u # t
      BY <2>2, <2>6, <3>1 DEF ServeInv, NamedOnce
    <3>2. CASE u = t
      <4>1. j + 1 = k + 1
        BY <2>3, <2>6, <3>2 DEF ServeInv, NamedOnce
      <4> QED
        BY <2>3, <3>2, <4>1
    <3> QED
      BY <3>1, <3>2
  <2>7. ASSUME NEW u \in Tasks, current'[u] # None, current'[u].to # None
        PROVE  /\ Waits(current'[u].to, u)
               /\ \A k \in DOMAIN queue'[u] : queue'[u][k].to # current'[u].to
    <3>1. CASE u # t
      BY <2>1, <2>2, <2>7, <3>1 DEF ServeInv, InHand
    <3>2. CASE u = t
      <4>1. Waits(current'[t].to, t)
        BY <2>1, <2>2, <2>3, <2>7, <3>2 DEF ServeInv, NamedWait
      <4>2. ASSUME NEW k \in DOMAIN queue'[t], queue'[t][k].to = current'[t].to
            PROVE  FALSE
        <5>1. k + 1 = 1
          BY <2>2, <2>3, <2>7, <3>2, <4>2 DEF ServeInv, NamedOnce
        <5> QED
          BY <2>3, <5>1
      <4> QED
        BY <3>2, <4>1, <4>2
    <3> QED
      BY <3>1, <3>2
  <2>8. ASSUME NEW g \in Handlers, NEW u \in Tasks, Waits(g, u)
        PROVE  \/ \E k \in DOMAIN queue'[u] : queue'[u][k].to = g
               \/ current'[u] # None /\ current'[u].to = g
    <3>1. WaitsFor(g, u)
      BY <2>1, <2>8
    <3>2. CASE u # t
      BY <2>2, <3>1, <3>2 DEF ServeInv, WaitNamed
    <3>3. CASE u = t
      <4>1. PICK k \in DOMAIN queue[t] : queue[t][k].to = g
        BY <2>1, <3>1, <3>3 DEF ServeInv, WaitNamed
      <4> QED
        BY <2>2, <2>3, <2>4, <3>3, <4>1
    <3> QED
      BY <3>2, <3>3
  <2> QED
    BY <1>0, <2>5, <2>6, <2>7, <2>8
<1>7. ASSUME NEW t \in Tasks, HandleFails(t) \/ HandleDone(t) PROVE ServeInv'
  <2>1. PICK r \in {"ok", "error"} : Respond(t, r)
    BY <1>7 DEF HandleFails, HandleDone
  <2>2. /\ current[t] # None /\ current' = [current EXCEPT ![t] = None]
        /\ UNCHANGED <<hpc, tx, queue>>
    BY <1>7 DEF HandleFails, HandleDone, HandInv
  <2>3. /\ current'[t] = None /\ \A u \in Tasks : u # t => current'[u] = current[u]
        /\ \A g \in Handlers : answer'[g] = IF g = current[t].to THEN r ELSE answer[g]
    BY <2>1, <2>2, ConstantsAssumption DEF Respond, Types, QueueOK, HandlerOK
  <2>4. ASSUME NEW u \in Tasks
        PROVE  /\ \A k \in DOMAIN queue[u] : queue[u][k].to # None =>
                                                queue[u][k].to # current[t].to
               /\ u # t /\ current[u] # None /\ current[u].to # None =>
                     current[u].to # current[t].to
    BY <2>2 DEF ServeInv, NamedWait, InHand
  <2>5. \A u \in Tasks : \A k \in DOMAIN queue'[u] :
           queue'[u][k].to # None => Waits(queue'[u][k].to, u)
    BY <2>2, <2>3, <2>4, EntryTypes DEF ServeInv, NamedWait
  <2>6. \A u \in Tasks : current'[u] # None /\ current'[u].to # None =>
           /\ Waits(current'[u].to, u)
           /\ \A k \in DOMAIN queue'[u] : queue'[u][k].to # current'[u].to
    BY <2>2, <2>3, <2>4, EntryTypes DEF ServeInv, InHand
  <2>7. \A g \in Handlers, u \in Tasks : Waits(g, u) =>
           \/ \E k \in DOMAIN queue'[u] : queue'[u][k].to = g
           \/ current'[u] # None /\ current'[u].to = g
    BY <2>2, <2>3 DEF ServeInv, WaitNamed
  <2>8. \A u \in Tasks : \A j, k \in DOMAIN queue'[u] :
           queue'[u][j].to = queue'[u][k].to /\ queue'[u][j].to # None => j = k
    BY <2>2 DEF ServeInv, NamedOnce
  <2> QED
    BY <1>0, <2>5, <2>6, <2>7, <2>8
<1>8. ASSUME NEW t \in Tasks, End(t), tpc[t] \in {"connect", "listen"},
             UNCHANGED <<hpc, tx>>
      PROVE  ServeInv'
  <2>1. /\ current[t] = None /\ current' = current
        /\ queue'[t] = <<>> /\ \A u \in Tasks : u # t => queue'[u] = queue[u]
        /\ \A g \in Handlers : answer'[g] =
              IF \E k \in DOMAIN queue[t] : queue[t][k].to = g THEN "error" ELSE answer[g]
    BY <1>8 DEF End, HandInv, Types, QueueOK
  <2>2. ASSUME NEW g \in Handlers, NEW u \in Tasks, u # t, WaitsFor(g, u)
        PROVE  Waits(g, u)
    <3>1. ASSUME NEW k \in DOMAIN queue[t], queue[t][k].to = g PROVE FALSE
      BY <2>2, <3>1, ConstantsAssumption DEF ServeInv, NamedWait
    <3> QED
      BY <1>8, <2>1, <2>2, <3>1
  <2>3. ASSUME NEW u \in Tasks, NEW k \in DOMAIN queue'[u], queue'[u][k].to # None
        PROVE  Waits(queue'[u][k].to, u)
    <3>1. u # t /\ queue'[u] = queue[u] /\ queue[u][k].to \in Handlers
      BY <2>1, <2>3, EntryTypes
    <3> QED
      BY <2>2, <2>3, <3>1 DEF ServeInv, NamedWait
  <2>4. \A u \in Tasks : \A j, k \in DOMAIN queue'[u] :
           queue'[u][j].to = queue'[u][k].to /\ queue'[u][j].to # None => j = k
    BY <2>1 DEF ServeInv, NamedOnce
  <2>5. ASSUME NEW u \in Tasks, current'[u] # None, current'[u].to # None
        PROVE  /\ Waits(current'[u].to, u)
               /\ \A k \in DOMAIN queue'[u] : queue'[u][k].to # current'[u].to
    <3>1. u # t /\ queue'[u] = queue[u] /\ current[u].to \in Handlers
      BY <2>1, <2>5, EntryTypes
    <3> QED
      BY <2>1, <2>2, <2>5, <3>1 DEF ServeInv, InHand
  <2>6. ASSUME NEW g \in Handlers, NEW u \in Tasks, Waits(g, u)
        PROVE  \/ \E k \in DOMAIN queue'[u] : queue'[u][k].to = g
               \/ current'[u] # None /\ current'[u].to = g
    <3>1. WaitsFor(g, u) /\ ~(\E k \in DOMAIN queue[t] : queue[t][k].to = g)
      BY <1>8, <2>1, <2>6
    <3>2. u # t
      BY <2>1, <3>1 DEF ServeInv, WaitNamed
    <3> QED
      BY <2>1, <3>1, <3>2 DEF ServeInv, WaitNamed
  <2> QED
    BY <1>0, <2>3, <2>4, <2>5, <2>6
<1>9. ASSUME NEW t \in Tasks, ConnectFails(t) \/ ListenEnded(t) PROVE ServeInv'
  BY <1>8, <1>9 DEF ConnectFails, ListenEnded, EndWithError
<1>10. ASSUME NEW t \in Tasks, ListenTimeout(t) PROVE ServeInv'
  BY <1>1, <1>8, <1>10 DEF ListenTimeout
<1> QED
  BY <1>1, <1>3, <1>4, <1>5, <1>6, <1>7, <1>9, <1>10
     DEF Next, vars, HandlerStep, TaskStep, StreamStep, Connect, DrainDone,
     HandleTopic, ListenMessage, LinkLost, RecvFrame, RecvGone, RecvClosed,
     OpenStream, CloseStream, Publish, RemoveSession, session, handler, task

----------------------------------------------------------------------------
(* Messages and frames                                                     *)

(* Of two messages for a topic in an inbox, the first is older; and no     *)
(* message is newer than the last one that was published.                  *)
InboxOrder ==
    \A t \in Tasks : \A k \in DOMAIN inbox[t] :
       /\ inbox[t][k][2] <= published
       /\ \A j \in DOMAIN inbox[t] :
             j < k /\ inbox[t][j][1] = inbox[t][k][1] => inbox[t][j][2] < inbox[t][k][2]

(* The frame f came from its task before all that is in the inbox.         *)
Before(f) ==
    /\ f.n <= published
    /\ f.topic = None => tpc[f.task] = "ended"
    /\ \A k \in DOMAIN inbox[f.task] :
          inbox[f.task][k][1] = f.topic => f.n < inbox[f.task][k][2]
FeedOrder == \A s \in Streams : \A j \in DOMAIN feed[s] : Before(feed[s][j])

LEMMA InboxType ==
    ASSUME Types, NEW t \in Tasks
    PROVE  /\ inbox[t] \in Seq(Topics \X (1 .. MaxMessages))
           /\ \A k \in DOMAIN inbox[t] :
                 /\ inbox[t][k][1] \in Topics /\ inbox[t][k][1] # None
                 /\ inbox[t][k][2] \in Nat \ {0}
           /\ published \in Nat
<1>1. inbox[t] \in Seq(Topics \X (1 .. MaxMessages)) /\ published \in Nat
  BY DEF Types, TopicsOK
<1>2. \A m \in Topics \X (1 .. MaxMessages) :
         m[1] \in Topics /\ m[1] # None /\ m[2] \in Nat \ {0}
  BY ConstantsAssumption
<1>3. \A k \in DOMAIN inbox[t] : inbox[t][k] \in Topics \X (1 .. MaxMessages)
  BY <1>1
<1> QED
  BY <1>1, <1>2, <1>3

LEMMA FrameType ==
    ASSUME Types, NEW s \in Streams
    PROVE  /\ feed[s] \in Seq(Frames)
           /\ \A j \in DOMAIN feed[s] :
                 /\ feed[s][j] \in Frames /\ feed[s][j].task \in Tasks
                 /\ feed[s][j].n \in Nat
<1>1. feed[s] \in Seq(Frames)
  BY DEF Types, FeedOK
<1>2. \A f \in Frames : f.task \in Tasks /\ f.n \in Nat
  BY DEF Frames
<1> QED
  BY <1>1, <1>2

(* A connection receives the messages of a topic in the order of their     *)
(* publication.                                                            *)
LEMMA InboxStep == Types /\ InboxOrder /\ [Next]_vars => InboxOrder'
<1> SUFFICES ASSUME Types, InboxOrder, [Next]_vars PROVE InboxOrder'
  OBVIOUS
<1> USE DEF task, bounds
<1>1. CASE UNCHANGED <<inbox, published>>
  BY <1>1 DEF InboxOrder
<1>2. ASSUME NEW t \in Tasks, inbox' = [inbox EXCEPT ![t] = <<>>], published' = published
      PROVE  InboxOrder'
  BY <1>2 DEF InboxOrder, Types, TopicsOK
<1>3. ASSUME NEW t \in Tasks, ConnectFails(t) \/ ListenEnded(t) PROVE InboxOrder'
  BY <1>2, <1>3 DEF ConnectFails, ListenEnded, EndWithError, End, Fault
<1>4. ASSUME NEW t \in Tasks, ListenTimeout(t) PROVE InboxOrder'
  BY <1>1, <1>2, <1>4 DEF ListenTimeout, End
<1>5. ASSUME NEW t \in Tasks, ListenMessage(t) PROVE InboxOrder'
  <2>1. /\ inbox' = [inbox EXCEPT ![t] = Tail(@)] /\ published' = published
        /\ inbox[t] # <<>> /\ inbox[t] \in Seq(Topics \X (1 .. MaxMessages))
    BY <1>5, InboxType DEF ListenMessage
  <2>2. /\ inbox'[t] = Tail(inbox[t]) /\ \A u \in Tasks : u # t => inbox'[u] = inbox[u]
    BY <2>1 DEF Types, TopicsOK
  <2>3. \A k \in DOMAIN inbox'[t] :
           /\ k \in Nat \ {0} /\ k + 1 \in DOMAIN inbox[t]
           /\ inbox'[t][k] = inbox[t][k + 1]
    <3>1. \A k \in DOMAIN Tail(inbox[t]) :
             /\ k \in Nat \ {0} /\ k + 1 \in DOMAIN inbox[t]
             /\ Tail(inbox[t])[k] = inbox[t][k + 1]
      BY <2>1, TailOf
    <3> QED
      BY <2>2, <3>1
  <2>4. \A j, k \in DOMAIN inbox'[t] : j < k => j + 1 < k + 1
    BY <2>3
  <2>5. ASSUME NEW k \in DOMAIN inbox'[t]
        PROVE  /\ inbox'[t][k][2] <= published
               /\ \A j \in DOMAIN inbox'[t] :
                     j < k /\ inbox'[t][j][1] = inbox'[t][k][1] =>
                        inbox'[t][j][2] < inbox'[t][k][2]
    BY <2>3, <2>4 DEF InboxOrder
  <2>6. ASSUME NEW u \in Tasks, u # t, NEW k \in DOMAIN inbox'[u]
        PROVE  /\ inbox'[u][k][2] <= published
               /\ \A j \in DOMAIN inbox'[u] :
                     j < k /\ inbox'[u][j][1] = inbox'[u][k][1] =>
                        inbox'[u][j][2] < inbox'[u][k][2]
    BY <2>2, <2>6 DEF InboxOrder
  <2>7. ASSUME NEW u \in Tasks, NEW k \in DOMAIN inbox'[u]
        PROVE  /\ inbox'[u][k][2] <= published'
               /\ \A j \in DOMAIN inbox'[u] :
                     j < k /\ inbox'[u][j][1] = inbox'[u][k][1] =>
                        inbox'[u][j][2] < inbox'[u][k][2]
    <3>1. CASE u = t
      BY <2>1, <2>5, <3>1
    <3>2. CASE u # t
      BY <2>1, <2>6, <3>2
    <3> QED
      BY <3>1, <3>2
  <2> QED
    BY <2>7 DEF InboxOrder
<1>6. ASSUME NEW c \in Channels, Publish(c) PROVE InboxOrder'
  <2>1. /\ published \in Nat /\ published' = published + 1
        /\ \A t \in Tasks : \/ inbox'[t] = inbox[t]
                            \/ inbox'[t] = inbox[t] \o Copies(t, c)
    BY <1>6, PublishIs DEF Types, TopicsOK
  <2>2. ASSUME NEW t \in Tasks, inbox'[t] = inbox[t], NEW k \in DOMAIN inbox'[t]
        PROVE  /\ inbox'[t][k][2] <= published'
               /\ \A j \in DOMAIN inbox'[t] :
                     j < k /\ inbox'[t][j][1] = inbox'[t][k][1] =>
                        inbox'[t][j][2] < inbox'[t][k][2]
    <3>1. inbox[t][k][2] \in Nat /\ inbox[t][k][2] <= published
      BY <2>2, InboxType DEF InboxOrder
    <3>2. inbox[t][k][2] <= published'
      BY <2>1, <3>1
    <3> QED
      BY <2>2, <3>2 DEF InboxOrder
  <2>3. ASSUME NEW t \in Tasks, inbox'[t] = inbox[t] \o Copies(t, c),
               NEW k \in DOMAIN inbox'[t]
        PROVE  /\ inbox'[t][k][2] <= published'
               /\ \A j \in DOMAIN inbox'[t] :
                     j < k /\ inbox'[t][j][1] = inbox'[t][k][1] =>
                        inbox'[t][j][2] < inbox'[t][k][2]
    <3> DEFINE L == Len(inbox[t])
               C == Copies(t, c)
    <3>1. /\ inbox[t] \in Seq(Topics \X (1 .. MaxMessages))
          /\ C \in Seq(Topics \X {published + 1})
          /\ \A i, j \in DOMAIN C : C[i][1] = C[j][1] => i = j
      BY InboxType, CopiesAre
    <3> HIDE DEF C
    <3>2. /\ L \in Nat
          /\ \A i \in DOMAIN inbox'[t] :
                /\ i \in Nat
                /\ \/ i \in DOMAIN inbox[t] /\ inbox'[t][i] = inbox[t][i] /\ i <= L
                   \/ i - L \in DOMAIN C /\ inbox'[t][i] = C[i - L] /\ i > L
      BY <2>3, <3>1 DEF C
    <3>3. \A i \in DOMAIN C : C[i][2] = published + 1
      BY <3>1
    <3>4. \A i \in DOMAIN inbox[t] : inbox[t][i][2] \in Nat /\ inbox[t][i][2] <= published
      BY InboxType DEF InboxOrder
    <3>5. inbox'[t][k][2] <= published'
      BY <2>1, <3>2, <3>3, <3>4
    <3>6. ASSUME NEW j \in DOMAIN inbox'[t], j < k, inbox'[t][j][1] = inbox'[t][k][1]
          PROVE  inbox'[t][j][2] < inbox'[t][k][2]
      <4>1. CASE k \in DOMAIN inbox[t] /\ inbox'[t][k] = inbox[t][k] /\ k <= L
        <5>1. j \in DOMAIN inbox[t] /\ inbox'[t][j] = inbox[t][j]
          BY <3>2, <3>6, <4>1
        <5> QED
          BY <3>6, <4>1, <5>1 DEF InboxOrder
      <4>2. CASE k - L \in DOMAIN C /\ inbox'[t][k] = C[k - L] /\ k > L
        <5>1. CASE j \in DOMAIN inbox[t] /\ inbox'[t][j] = inbox[t][j]
          BY <2>1, <3>3, <3>4, <4>2, <5>1
        <5>2. CASE j - L \in DOMAIN C /\ inbox'[t][j] = C[j - L]
          <6>1. j - L = k - L
            BY <3>1, <3>6, <4>2, <5>2
          <6> QED
            BY <3>2, <3>6, <6>1
        <5> QED
          BY <3>2, <5>1, <5>2
      <4> QED
        BY <3>2, <4>1, <4>2
    <3> QED
      BY <3>5, <3>6
  <2> QED
    BY <2>1, <2>2, <2>3 DEF InboxOrder
<1> QED
  BY <1>1, <1>3, <1>4, <1>5, <1>6
     DEF Next, vars, HandlerStep, TaskStep, StreamStep, Attach, Detach, Execute,
     Ensure, Store, Send, SendFails, Receive, Abort, Connect, TakeCommand,
     DrainDone, HandleTopic, HandleFails, HandleDone, LinkLost, RecvFrame,
     RecvGone, RecvClosed, OpenStream, CloseStream, RemoveSession, Fault

(* Before(f), after the step.                                              *)
StillBefore(f) ==
    /\ f.n <= published'
    /\ f.topic = None => tpc'[f.task] = "ended"
    /\ \A k \in DOMAIN inbox'[f.task] :
          inbox'[f.task][k][1] = f.topic => f.n < inbox'[f.task][k][2]

(* What came before the messages of an inbox stays before them: an inbox   *)
(* only loses messages or gets new ones.                                   *)
LEMMA BeforeKept ==
    ASSUME Types, [Next]_vars, NEW f \in Frames, Before(f)
    PROVE  StillBefore(f)
<1> DEFINE u == f.task
<1>1. u \in Tasks /\ f.n \in Nat /\ published \in Nat
  BY DEF Frames, Types, TopicsOK
<1> HIDE DEF u
<1>2. tpc[u] = "ended" => tpc'[u] = "ended"
  <2> USE <1>1 DEF Types, SenderInv, task
  <2>1. ASSUME NEW t \in Tasks, tpc[t] # "ended", tpc' = [tpc EXCEPT ![t] = tpc'[t]]
        PROVE  tpc[u] = "ended" => tpc'[u] = "ended"
    BY <2>1
  <2>2. ASSUME NEW h \in Handlers, Ensure(h) PROVE tpc[u] = "ended" => tpc'[u] = "ended"
    BY <2>2 DEF Ensure
  <2>3. ASSUME NEW t \in Tasks, ConnectFails(t) \/ ListenEnded(t) \/ ListenTimeout(t)
        PROVE  tpc[u] = "ended" => tpc'[u] = "ended"
    BY <2>3 DEF ConnectFails, ListenEnded, ListenTimeout, EndWithError, End
  <2>4. ASSUME NEW t \in Tasks, \/ Connect(t) \/ TakeCommand(t) \/ DrainDone(t)
                                \/ HandleFails(t) \/ HandleDone(t) \/ ListenMessage(t)
        PROVE  tpc[u] = "ended" => tpc'[u] = "ended"
    BY <2>4 DEF Connect, TakeCommand, DrainDone, HandleFails, HandleDone, ListenMessage
  <2> QED
    BY <2>2, <2>3, <2>4
       DEF Next, vars, HandlerStep, TaskStep, StreamStep, Attach, Detach, Execute,
       Store, Send, SendFails, Receive, Abort, HandleTopic, LinkLost, RecvFrame,
       RecvGone, RecvClosed, OpenStream, CloseStream, RemoveSession, Publish
<1>3. \/ inbox'[u] = inbox[u] /\ published' = published
      \/ inbox'[u] = <<>> /\ published' = published
      \/ inbox[u] # <<>> /\ inbox'[u] = Tail(inbox[u]) /\ published' = published
      \/ \E c \in Channels : Publish(c)
  <2> USE <1>1 DEF task, bounds, Types, TopicsOK
  <2>1. CASE UNCHANGED <<inbox, published>>
    BY <2>1
  <2>2. ASSUME NEW t \in Tasks, ConnectFails(t) \/ ListenEnded(t) \/ ListenTimeout(t)
        PROVE  published' = published /\ inbox'[u] \in {inbox[u], <<>>}
    BY <2>2 DEF ConnectFails, ListenEnded, ListenTimeout, EndWithError, End, Fault
  <2>3. ASSUME NEW t \in Tasks, ListenMessage(t)
        PROVE  /\ published' = published
               /\ \/ inbox'[u] = inbox[u]
                  \/ inbox[u] # <<>> /\ inbox'[u] = Tail(inbox[u])
    BY <2>3 DEF ListenMessage
  <2> QED
    BY <2>1, <2>2, <2>3, ZenonT(40)
       DEF Next, vars, HandlerStep, TaskStep, StreamStep, Attach, Detach, Execute,
       Ensure, Store, Send, SendFails, Receive, Abort, Connect, TakeCommand,
       DrainDone, HandleTopic, HandleFails, HandleDone, LinkLost, RecvFrame,
       RecvGone, RecvClosed, OpenStream, CloseStream, RemoveSession, Fault
<1>4. /\ f.n <= published /\ (f.topic = None => tpc[u] = "ended")
      /\ \A k \in DOMAIN inbox[u] : inbox[u][k][1] = f.topic => f.n < inbox[u][k][2]
  BY DEF Before, u
<1>5. SUFFICES /\ f.n <= published'
               /\ \A k \in DOMAIN inbox'[u] :
                     inbox'[u][k][1] = f.topic => f.n < inbox'[u][k][2]
  BY <1>2, <1>4 DEF StillBefore, u
<1>6. CASE inbox'[u] = inbox[u] /\ published' = published
  BY <1>4, <1>6
<1>7. CASE inbox'[u] = <<>> /\ published' = published
  BY <1>4, <1>7
<1>8. CASE inbox[u] # <<>> /\ inbox'[u] = Tail(inbox[u]) /\ published' = published
  <2>1. inbox[u] \in Seq(Topics \X (1 .. MaxMessages))
    BY <1>1, InboxType
  <2>2. \A k \in DOMAIN Tail(inbox[u]) :
           k + 1 \in DOMAIN inbox[u] /\ Tail(inbox[u])[k] = inbox[u][k + 1]
    BY <1>8, <2>1, TailOf
  <2> QED
    BY <1>4, <1>8, <2>2
<1>9. ASSUME NEW c \in Channels, Publish(c)
      PROVE  /\ f.n <= published'
             /\ \A k \in DOMAIN inbox'[u] :
                   inbox'[u][k][1] = f.topic => f.n < inbox'[u][k][2]
  <2>1. /\ published' = published + 1
        /\ inbox'[u] = inbox[u] \/ inbox'[u] = inbox[u] \o Copies(u, c)
    BY <1>1, <1>9, PublishIs
  <2>2. f.n <= published' /\ f.n < published + 1
    BY <1>1, <1>4, <2>1
  <2>3. CASE inbox'[u] = inbox[u]
    BY <1>4, <2>2, <2>3
  <2>4. CASE inbox'[u] = inbox[u] \o Copies(u, c)
    <3> DEFINE C == Copies(u, c)
               L == Len(inbox[u])
    <3>1. /\ inbox[u] \in Seq(Topics \X (1 .. MaxMessages))
          /\ C \in Seq(Topics \X {published + 1})
      BY <1>1, InboxType, CopiesAre
    <3> HIDE DEF C
    <3>2. \A i \in DOMAIN inbox'[u] :
             \/ i \in DOMAIN inbox[u] /\ inbox'[u][i] = inbox[u][i]
             \/ i - L \in DOMAIN C /\ inbox'[u][i] = C[i - L]
      BY <2>4, <3>1 DEF C
    <3>3. \A i \in DOMAIN C : C[i][2] = published + 1
      BY <3>1
    <3> QED
      BY <1>4, <2>2, <3>2, <3>3
  <2> QED
    BY <2>1, <2>3, <2>4
<1> QED
  BY <1>3, <1>6, <1>7, <1>8, <1>9

(* What a task that has not ended can push in this step: the error with    *)
(* which it ends, or the message at the head of its inbox.                 *)
Fresh(f) ==
    /\ f.task \in Tasks /\ tpc[f.task] # "ended" /\ f.n \in Nat
    /\ f.topic # None => /\ 1 \in DOMAIN inbox[f.task]
                         /\ inbox[f.task][1][1] = f.topic
                         /\ inbox[f.task][1][2] = f.n

(* A stream keeps its frames, from some point on.                          *)
Shortened(s) ==
    /\ \A j \in DOMAIN feed'[s] : \E i \in DOMAIN feed[s] : feed'[s][j] = feed[s][i]
    /\ \A j, k \in DOMAIN feed'[s] : j < k =>
          \E i, l \in DOMAIN feed[s] :
             i < l /\ feed'[s][j] = feed[s][i] /\ feed'[s][k] = feed[s][l]

LEMMA ErrorIsFresh ==
    ASSUME Types, NEW t \in Tasks, tpc[t] # "ended", EndWithError(t),
           published' = published
    PROVE  \E f \in Frames : Fresh(f) /\ StillBefore(f) /\ Push(f)
<1> DEFINE f == ErrorFrame(t)
<1>1. /\ f.task = t /\ f.topic = None /\ f.n = 0 /\ f \in Frames
      /\ published \in Nat
  BY ConstantsAssumption DEF ErrorFrame, Frames, Types, TopicsOK
<1>2. Push(f) /\ tpc'[t] = "ended" /\ inbox'[t] = <<>>
  BY DEF EndWithError, End, Types, SenderInv, TopicsOK
<1> HIDE DEF f
<1>3. Fresh(f)
  BY <1>1 DEF Fresh
<1>4. StillBefore(f)
  BY <1>1, <1>2 DEF StillBefore
<1> QED
  BY <1>1, <1>2, <1>3, <1>4

LEMMA MessageIsFresh ==
    ASSUME Types, InboxOrder, NEW t \in Tasks, ListenMessage(t)
    PROVE  \E f \in Frames : Fresh(f) /\ StillBefore(f) /\ Push(f)
<1> DEFINE f == [task |-> t, topic |-> Head(inbox[t])[1], n |-> Head(inbox[t])[2]]
<1>1. /\ inbox[t] \in Seq(Topics \X (1 .. MaxMessages)) /\ inbox[t] # <<>>
      /\ Push(f) /\ tpc[t] = "listen" /\ published' = published
      /\ inbox'[t] = Tail(inbox[t])
  BY DEF ListenMessage, Types, TopicsOK, bounds
<1>2. /\ 1 \in DOMAIN inbox[t] /\ Head(inbox[t]) = inbox[t][1]
      /\ inbox[t][1] \in Topics \X (1 .. MaxMessages)
      /\ \A k \in DOMAIN Tail(inbox[t]) :
            /\ k \in Nat \ {0} /\ k + 1 \in DOMAIN inbox[t]
            /\ Tail(inbox[t])[k] = inbox[t][k + 1]
  BY <1>1, TailOf, SMTT(30)
<1>3. /\ f.task = t /\ f.topic = inbox[t][1][1] /\ f.n = inbox[t][1][2]
      /\ f.topic \in Topics /\ f.topic # None /\ f.n \in 1 .. MaxMessages
      /\ f \in Frames
  <2>1. inbox[t][1][1] \in Topics /\ inbox[t][1][2] \in 1 .. MaxMessages
    BY <1>2
  <2> QED
    BY <1>2, <2>1, ConstantsAssumption DEF Frames
<1>4. f.n <= published
  BY <1>2, <1>3 DEF InboxOrder
<1> HIDE DEF f
<1>5. Fresh(f)
  BY <1>1, <1>2, <1>3 DEF Fresh
<1>6. ASSUME NEW k \in DOMAIN inbox'[t], inbox'[t][k][1] = f.topic
      PROVE  f.n < inbox'[t][k][2]
  <2>1. /\ k \in Nat \ {0} /\ k + 1 \in DOMAIN inbox[t]
        /\ inbox'[t][k] = inbox[t][k + 1]
    BY <1>1, <1>2, <1>6
  <2>2. 1 < k + 1
    BY <2>1
  <2> QED
    BY <1>2, <1>3, <1>6, <2>1, <2>2 DEF InboxOrder
<1>7. StillBefore(f)
  BY <1>1, <1>3, <1>4, <1>6 DEF StillBefore
<1> QED
  BY <1>1, <1>3, <1>5, <1>7

LEMMA TailShortens ==
    ASSUME Types, NEW s \in Streams, feed[s] # <<>>, feed'[s] = Tail(feed[s])
    PROVE  Shortened(s)
<1>1. feed[s] \in Seq(Frames)
  BY DEF Types, FeedOK
<1>2. \A j \in DOMAIN Tail(feed[s]) :
         /\ j \in Nat \ {0} /\ j + 1 \in DOMAIN feed[s]
         /\ Tail(feed[s])[j] = feed[s][j + 1]
  BY <1>1, TailOf
<1>3. \A j \in DOMAIN feed'[s] :
         /\ j \in Nat \ {0} /\ j + 1 \in DOMAIN feed[s]
         /\ feed'[s][j] = feed[s][j + 1]
  BY <1>2
<1>4. \A j, k \in DOMAIN feed'[s] : j < k => j + 1 < k + 1
  BY <1>3
<1> QED
  BY <1>3, <1>4 DEF Shortened

(* A step pushes one fresh frame to all streams, or shortens some.         *)
LEMMA FeedSteps ==
    ASSUME Types, InboxOrder, [Next]_vars
    PROVE  \/ \A s \in Streams : Shortened(s)
           \/ \E f \in Frames : Fresh(f) /\ StillBefore(f) /\ Push(f)
<1> USE DEF streams, bounds
<1>1. CASE UNCHANGED feed
  BY <1>1 DEF Shortened
<1>2. ASSUME NEW t \in Tasks, ConnectFails(t) \/ ListenEnded(t)
      PROVE  \E f \in Frames : Fresh(f) /\ StillBefore(f) /\ Push(f)
  BY <1>2, ErrorIsFresh DEF ConnectFails, ListenEnded, Fault
<1>3. ASSUME NEW t \in Tasks, ListenMessage(t)
      PROVE  \E f \in Frames : Fresh(f) /\ StillBefore(f) /\ Push(f)
  BY <1>3, MessageIsFresh
<1>4. ASSUME NEW s \in Streams, CloseStream(s) \/ RecvFrame(s) \/ RecvGone(s),
             NEW r \in Streams
      PROVE  Shortened(r)
  <2>1. \/ feed'[r] = feed[r]
        \/ feed'[r] = <<>>
        \/ feed[r] # <<>> /\ feed'[r] = Tail(feed[r])
    BY <1>4 DEF CloseStream, RecvFrame, RecvGone, Types, FeedOK
  <2>2. CASE feed'[r] = feed[r]
    BY <2>2 DEF Shortened
  <2>3. CASE feed'[r] = <<>>
    BY <2>3 DEF Shortened
  <2> QED
    BY <2>1, <2>2, <2>3, TailShortens
<1> QED
  BY <1>1, <1>2, <1>3, <1>4
     DEF Next, vars, HandlerStep, TaskStep, StreamStep, Attach, Detach, Execute,
     Ensure, Store, Send, SendFails, Receive, Abort, Connect, TakeCommand,
     DrainDone, HandleTopic, HandleFails, HandleDone, ListenTimeout, LinkLost,
     RecvClosed, OpenStream, RemoveSession, Publish

LEMMA FeedStep ==
    Types /\ HandInv /\ InboxOrder /\ FeedOrder /\ FramesInOrder /\ [Next]_vars
       => FeedOrder' /\ FramesInOrder'
<1> SUFFICES ASSUME Types, HandInv, InboxOrder, FeedOrder, FramesInOrder, [Next]_vars
             PROVE  FeedOrder' /\ FramesInOrder'
  OBVIOUS
<1>1. ASSUME NEW s \in Streams, NEW i \in DOMAIN feed[s]
      PROVE  Before(feed[s][i]) /\ StillBefore(feed[s][i])
  BY FrameType, BeforeKept DEF FeedOrder
<1>2. ASSUME NEW s \in Streams, NEW i \in DOMAIN feed[s], NEW l \in DOMAIN feed[s], i < l,
             feed[s][i].task = feed[s][l].task, feed[s][i].topic = feed[s][l].topic
      PROVE  feed[s][i].n < feed[s][l].n
  <2>1. DOMAIN feed[s] = 1 .. Len(feed[s])
    BY FrameType
  <2> QED
    BY <1>2, <2>1 DEF FramesInOrder
<1>3. SUFFICES ASSUME NEW s \in Streams
               PROVE  /\ \A j \in DOMAIN feed'[s] : StillBefore(feed'[s][j])
                      /\ \A j, k \in DOMAIN feed'[s] :
                            /\ j < k
                            /\ feed'[s][j].task = feed'[s][k].task
                            /\ feed'[s][j].topic = feed'[s][k].topic
                            => feed'[s][j].n < feed'[s][k].n
  <2>1. FeedOrder'
    BY <1>3 DEF FeedOrder, Before, StillBefore
  <2>2. FramesInOrder'
    <3>1. \A r \in Streams : feed'[r] \in Seq(Frames)
      BY FeedTypeStep DEF FeedOK
    <3>2. \A r \in Streams : DOMAIN feed'[r] = 1 .. Len(feed'[r])
      BY <3>1
    <3> QED
      BY <1>3, <3>2 DEF FramesInOrder
  <2> QED
    BY <2>1, <2>2
<1>4. CASE Shortened(s)
  BY <1>1, <1>2, <1>4 DEF Shortened
<1>5. ASSUME NEW f \in Frames, Fresh(f), StillBefore(f), Push(f)
      PROVE  /\ \A j \in DOMAIN feed'[s] : StillBefore(feed'[s][j])
             /\ \A j, k \in DOMAIN feed'[s] :
                   /\ j < k
                   /\ feed'[s][j].task = feed'[s][k].task
                   /\ feed'[s][j].topic = feed'[s][k].topic
                   => feed'[s][j].n < feed'[s][k].n
  <2>1. ASSUME NEW i \in DOMAIN feed[s],
               feed[s][i].task = f.task, feed[s][i].topic = f.topic
        PROVE  feed[s][i].n < f.n
    BY <1>1, <1>5, <2>1 DEF Before, Fresh
  <2>2. /\ \A j \in DOMAIN feed'[s] :
              feed'[s][j] = f \/ \E i \in DOMAIN feed[s] : feed'[s][j] = feed[s][i]
        /\ \A j, k \in DOMAIN feed'[s] : j < k =>
              \/ feed'[s][k] = f /\ \E i \in DOMAIN feed[s] : feed'[s][j] = feed[s][i]
              \/ \E i, l \in DOMAIN feed[s] :
                    i < l /\ feed'[s][j] = feed[s][i] /\ feed'[s][k] = feed[s][l]
    BY <1>5, FeedPushed
  <2> QED
    BY <1>1, <1>2, <1>5, <2>1, <2>2
<1> QED
  BY <1>4, <1>5, FeedSteps

----------------------------------------------------------------------------
(* The theorems                                                            *)

ServedInv == Types /\ HandInv /\ ServeInv /\ EndIsAnnounced
OrderedInv == InboxOrder /\ FeedOrder /\ FramesInOrder

LEMMA FullInit == Init => ServedInv /\ OrderedInv
<1> SUFFICES ASSUME Init PROVE ServedInv /\ OrderedInv
  OBVIOUS
<1>1. SenderInv /\ EndIsAnnounced /\ HandlerOK /\ HandInv
  BY ConstantsAssumption
     DEF Init, SenderInv, EndIsAnnounced, HandlerOK, HandInv, Live
<1>2. QueueOK /\ TopicsOK /\ FeedOK /\ HistoryOK
  BY ConstantsAssumption DEF Init, QueueOK, TopicsOK, FeedOK, HistoryOK
<1>3. ServeInv
  BY DEF Init, ServeInv, NamedWait, NamedOnce, InHand, WaitNamed, WaitsFor
<1>4. OrderedInv
  BY DEF Init, OrderedInv, InboxOrder, FeedOrder, FramesInOrder
<1> QED
  BY <1>1, <1>2, <1>3, <1>4 DEF ServedInv, Types

LEMMA FullStep == ServedInv /\ OrderedInv /\ [Next]_vars => ServedInv' /\ OrderedInv'
<1> SUFFICES ASSUME ServedInv, OrderedInv, [Next]_vars
             PROVE  ServedInv' /\ OrderedInv'
  OBVIOUS
<1>1. Types /\ HandInv /\ ServeInv /\ IInv
  BY DEF ServedInv, Types, IInv
<1>2. SenderInv' /\ EndIsAnnounced'
  BY <1>1, SenderStep, AnnouncedStep
<1>3. HandlerOK' /\ QueueOK' /\ TopicsOK' /\ FeedOK' /\ HistoryOK'
  BY <1>1, HandlerTypeStep, QueueTypeStep, TopicTypeStep, FeedTypeStep, HistoryTypeStep
<1>4. HandInv' /\ ServeInv'
  BY <1>1, HandStep, ServeStep
<1>5. OrderedInv'
  BY <1>1, InboxStep, FeedStep DEF OrderedInv
<1> QED
  BY <1>2, <1>3, <1>4, <1>5 DEF ServedInv, Types

(* What the invariant says of entries, in the words of the model: there is *)
(* at most one place for the command of a handler, and exactly one while   *)
(* it waits without an answer.                                             *)
LEMMA ServedIsServed == ServedInv => WaitingIsServed
<1> SUFFICES ASSUME ServedInv, NEW h \in Handlers
             PROVE  IF hpc[h] = "wait" /\ answer[h] = "none"
                      THEN /\ Live(tx[h])
                           /\ \E k \in 0 .. QueueCapacity : Places(h) = {<<tx[h], k>>}
                      ELSE Places(h) = {}
  BY DEF WaitingIsServed
<1>1. Types /\ HandInv /\ ServeInv /\ h # None
  BY ConstantsAssumption DEF ServedInv
<1>2. \A t \in Tasks : /\ queue[t] \in Seq(Entries) /\ Len(queue[t]) \in Nat
                       /\ Len(queue[t]) <= QueueCapacity
                       /\ DOMAIN queue[t] = 1 .. Len(queue[t])
  BY <1>1 DEF Types, QueueOK
<1>3. ASSUME NEW l \in Places(h)
      PROVE  \E t \in Tasks :
                /\ WaitsFor(h, t)
                /\ \/ /\ l = <<t, l[2]>> /\ l[2] \in DOMAIN queue[t]
                      /\ queue[t][l[2]].to = h
                   \/ l = <<t, 0>> /\ current[t] # None /\ current[t].to = h
  <2>1. CASE /\ l \in Tasks \X (1 .. QueueCapacity)
             /\ l[2] <= Len(queue[l[1]]) /\ queue[l[1]][l[2]].to = h
    <3>1. /\ l[1] \in Tasks /\ l[2] \in DOMAIN queue[l[1]] /\ l = <<l[1], l[2]>>
      BY <1>2, <2>1
    <3>2. WaitsFor(h, l[1])
      BY <1>1, <2>1, <3>1 DEF ServeInv, NamedWait
    <3> QED
      BY <2>1, <3>1, <3>2
  <2>2. CASE \E t \in Tasks : l = <<t, 0>> /\ current[t] # None /\ current[t].to = h
    BY <1>1, <2>2 DEF ServeInv, InHand
  <2> QED
    BY <1>3, <2>1, <2>2 DEF Places
<1>4. CASE hpc[h] = "wait" /\ answer[h] = "none"
  <2> DEFINE t == tx[h]
  <2>1. t \in Tasks /\ WaitsFor(h, t)
    BY <1>1, <1>4 DEF Types, SenderInv, WaitsFor
  <2> HIDE DEF t
  <2>2. \/ \E k \in DOMAIN queue[t] : queue[t][k].to = h
        \/ current[t] # None /\ current[t].to = h
    BY <1>1, <2>1 DEF ServeInv, WaitNamed
  <2>3. Live(t)
    <3>1. CASE ~Live(t)
      <4>1. queue[t] = <<>> /\ current[t] = None
        BY <1>1, <2>1, <3>1 DEF HandInv, Live
      <4> QED
        BY <2>2, <4>1
    <3> QED
      BY <3>1
  <2>4. \A u \in Tasks : WaitsFor(h, u) => u = t
    BY DEF WaitsFor, t
  <2>5. ASSUME NEW k \in DOMAIN queue[t], queue[t][k].to = h
        PROVE  Places(h) = {<<t, k>>} /\ k \in 0 .. QueueCapacity
    <3>1. k \in 1 .. QueueCapacity /\ k <= Len(queue[t])
      BY <1>2, <2>1, ConstantsAssumption
    <3>2. <<t, k>> \in Places(h)
      BY <2>1, <2>5, <3>1 DEF Places
    <3>3. ASSUME NEW l \in Places(h) PROVE l = <<t, k>>
      <4>1. \/ l = <<t, l[2]>> /\ l[2] \in DOMAIN queue[t] /\ queue[t][l[2]].to = h
            \/ l = <<t, 0>> /\ current[t] # None /\ current[t].to = h
        BY <1>3, <2>4
      <4>2. ~(current[t] # None /\ current[t].to = h)
        BY <1>1, <2>1, <2>5 DEF ServeInv, InHand
      <4>3. l[2] = k
        BY <1>1, <2>1, <2>5, <4>1, <4>2 DEF ServeInv, NamedOnce
      <4> QED
        BY <4>1, <4>2, <4>3
    <3> QED
      BY <3>1, <3>2, <3>3
  <2>6. ASSUME current[t] # None, current[t].to = h
        PROVE  Places(h) = {<<t, 0>>} /\ 0 \in 0 .. QueueCapacity
    <3>1. <<t, 0>> \in Places(h)
      BY <2>1, <2>6 DEF Places
    <3>2. ASSUME NEW l \in Places(h) PROVE l = <<t, 0>>
      <4>1. \/ l = <<t, l[2]>> /\ l[2] \in DOMAIN queue[t] /\ queue[t][l[2]].to = h
            \/ l = <<t, 0>> /\ current[t] # None /\ current[t].to = h
        BY <1>3, <2>4
      <4> QED
        BY <1>1, <2>1, <2>6, <4>1 DEF ServeInv, InHand
    <3> QED
      BY <3>1, <3>2, ConstantsAssumption
  <2> QED
    BY <1>4, <2>2, <2>3, <2>5, <2>6 DEF t
<1>5. CASE ~(hpc[h] = "wait" /\ answer[h] = "none")
  <2>1. ASSUME NEW l \in Places(h) PROVE FALSE
    BY <1>3, <1>5, <2>1 DEF WaitsFor
  <2> QED
    BY <1>5, <2>1
<1> QED
  BY <1>4, <1>5

LEMMA FullHolds == Spec => [](ServedInv /\ OrderedInv)
BY FullInit, FullStep, PTL DEF Spec

(* The state of the Pub/Sub of a compat session stays in its domains: a    *)
(* command channel and a stream never hold more than their capacity.       *)
THEOREM TypeCorrect == Spec => []TypeOK
<1>1. ServedInv => TypeOK
  BY TypeParts DEF ServedInv, Types
<1> QED
  BY <1>1, FullHolds, PTL

(* A handler that waits for its answer has its command in exactly one      *)
(* place, with a live task, and nobody else has one anywhere: no command   *)
(* is lost with its responder, answered twice, or answered to somebody who *)
(* has gone.                                                               *)
THEOREM Served == Spec => []WaitingIsServed
BY ServedIsServed, FullHolds, PTL

(* No stream gets the messages that one task has for a topic out of order  *)
(* or twice, also when the broadcast channel drops the oldest frames.      *)
THEOREM FramesOrdered == Spec => []FramesInOrder
<1>1. OrderedInv => FramesInOrder
  BY DEF OrderedInv
<1> QED
  BY <1>1, FullHolds, PTL
----------------------------------------------------------------------------
(* What the client was told                                                *)

(* The topics that a command takes away.                                   *)
Removes(c) ==
    IF c.op = "SUBSCRIBE" THEN {}
    ELSE IF c.args = <<>> THEN c.kind ELSE ToSet(c.args)

(* What is left to do of a command: of a SUBSCRIBE what is not subscribed  *)
(* yet, of an UNSUBSCRIBE nothing but its own topics.                      *)
Progress ==
    \A t \in Tasks : current[t] # None =>
       LET c == current[t].cmd
       IN  IF c.op = "SUBSCRIBE"
             THEN ToSet(c.args) \subseteq subs[t] \cup ToSet(todo[t])
             ELSE ToSet(todo[t]) \subseteq Removes(c)

(* The command of a handler that waits is the last one of its task: with   *)
(* a single handler, nobody sends another one before it is answered.       *)
LastSent ==
    \A t \in Tasks :
       /\ \A k \in DOMAIN queue[t] : queue[t][k].to # None =>
             k = Len(queue[t]) /\ queue[t][k].cmd = cmd[queue[t][k].to]
       /\ current[t] # None /\ current[t].to # None =>
             queue[t] = <<>> /\ current[t].cmd = cmd[current[t].to]

(* The handler uses the task of the session, and the first one is stored   *)
(* before anything was acknowledged.                                       *)
OneTask ==
    /\ slot = None => acked = {}
    /\ \A h \in Handlers :
          /\ hpc[h] = "store" => slot = None
          /\ hpc[h] \in {"send", "wait"} => tx[h] = slot

(* Whatever is acknowledged is subscribed, and no command that would take  *)
(* it away is on its way; an answer is the answer to all that was sent.    *)
Subscribed ==
    slot # None =>
       /\ acked \subseteq subs[slot]
       /\ \A k \in DOMAIN queue[slot] : Removes(queue[slot][k].cmd) \cap acked = {}
       /\ current[slot] # None => Removes(current[slot].cmd) \cap acked = {}
Asked ==
    \A h \in Handlers :
       /\ hpc[h] \in {"ensure", "store", "send", "wait"} =>
             Removes(cmd[h]) \cap acked = {}
       /\ hpc[h] = "wait" /\ answer[h] = "ok" =>
             /\ queue[tx[h]] = <<>> /\ current[tx[h]] = None
             /\ cmd[h].op = "SUBSCRIBE" => ToSet(cmd[h].args) \subseteq subs[tx[h]]

HeldInv ==
    /\ Progress /\ LastSent
    /\ SessionAlive /\ announced = {} => OneTask /\ Subscribed /\ Asked

(* One handler: the commands of a session come one after the other.        *)
Single == \A g, h \in Handlers : g = h

LEMMA TodoShrinks ==
    ASSUME NEW q \in Seq(Topics), q # <<>>
    PROVE  ToSet(q) = {Head(q)} \cup ToSet(Tail(q))
<1>1. /\ 1 \in DOMAIN q /\ Head(q) = q[1]
      /\ \A k \in DOMAIN Tail(q) : k + 1 \in DOMAIN q /\ Tail(q)[k] = q[k + 1]
      /\ \A k \in DOMAIN q : k # 1 =>
            k - 1 \in DOMAIN Tail(q) /\ Tail(q)[k - 1] = q[k]
  BY TailOf
<1>2. ASSUME NEW c \in ToSet(q) PROVE c \in {Head(q)} \cup ToSet(Tail(q))
  <2>1. PICK k \in DOMAIN q : c = q[k]
    BY <1>2 DEF ToSet
  <2>2. k = 1 \/ (k - 1 \in DOMAIN Tail(q) /\ Tail(q)[k - 1] = c)
    BY <1>1, <2>1
  <2> QED
    BY <1>1, <2>1, <2>2 DEF ToSet
<1>3. ASSUME NEW c \in ToSet(Tail(q)) PROVE c \in ToSet(q)
  <2>1. PICK k \in DOMAIN Tail(q) : c = Tail(q)[k]
    BY <1>3 DEF ToSet
  <2> QED
    BY <1>1, <2>1 DEF ToSet
<1>4. Head(q) \in ToSet(q)
  BY <1>1 DEF ToSet
<1> QED
  BY <1>2, <1>3, <1>4

LEMMA NothingLeft == ToSet(<<>>) = {}
BY DEF ToSet

(* A command begins with all its topics, and with no others.               *)
LEMMA TargetsAre ==
    ASSUME Types, NEW t \in Tasks, NEW c \in Commands
    PROVE  /\ c.op = "SUBSCRIBE" => Targets(t, c) = c.args
           /\ c.op # "SUBSCRIBE" => ToSet(Targets(t, c)) \subseteq Removes(c)
<1>1. c.op \in {"SUBSCRIBE", "UNSUBSCRIBE"}
  BY ConstantsAssumption
<1>2. CASE c.op = "SUBSCRIBE"
  BY <1>2 DEF Targets
<1>3. CASE c.op = "UNSUBSCRIBE" /\ c.args # <<>>
  BY <1>3 DEF Targets, Removes
<1>4. CASE c.op = "UNSUBSCRIBE" /\ c.args = <<>>
  <2> DEFINE S == subs[t] \cap c.kind
  <2>1. S \in SUBSET Topics /\ IsFiniteSet(S)
    BY CommandTypes DEF Types, TopicsOK
  <2>2. SetToSeq(S) \in Seq(S)
    <3> HIDE DEF S
    <3> QED
      BY <2>1, SetToSeqIs
  <2>3. ToSet(SetToSeq(S)) \subseteq S
    <3> HIDE DEF S
    <3> QED
      BY <2>2 DEF ToSet
  <2> QED
    BY <1>4, <2>3 DEF Targets, Removes
<1> QED
  BY <1>1, <1>2, <1>3, <1>4

(* The tasks that a step leaves alone.                                     *)
LEMMA ProgressStep == Types /\ HandInv /\ Progress /\ [Next]_vars => Progress'
<1> SUFFICES ASSUME Types, HandInv, Progress, [Next]_vars PROVE Progress'
  OBVIOUS
<1> DEFINE P(u) == IF current[u].cmd.op = "SUBSCRIBE"
                     THEN ToSet(current[u].cmd.args) \subseteq subs[u] \cup ToSet(todo[u])
                     ELSE ToSet(todo[u]) \subseteq Removes(current[u].cmd)
           Q(u) == IF current'[u].cmd.op = "SUBSCRIBE"
                     THEN ToSet(current'[u].cmd.args) \subseteq subs'[u] \cup ToSet(todo'[u])
                     ELSE ToSet(todo'[u]) \subseteq Removes(current'[u].cmd)
           Same(u) == current'[u] = current[u] /\ subs'[u] = subs[u] /\ todo'[u] = todo[u]
<1>0. ASSUME \A u \in Tasks : Same(u) \/ current'[u] = None \/ Q(u)
      PROVE  Progress'
  <2>1. \A u \in Tasks : current[u] # None => P(u)
    BY DEF Progress
  <2>2. \A u \in Tasks : current'[u] # None => Q(u)
    BY <1>0, <2>1
  <2> QED
    BY <2>2 DEF Progress, Removes
<1>1. CASE UNCHANGED <<current, subs, todo>>
  BY <1>0, <1>1
<1>2. ASSUME NEW h \in Handlers, Abort(h) PROVE Progress'
  <2>1. ASSUME NEW u \in Tasks, current'[u] # None PROVE Q(u)
    <3>1. /\ current[u] \in Entries \cup {None} /\ current'[u] = Forget(h, current[u])
          /\ subs' = subs /\ todo' = todo
      BY <1>2 DEF Abort, Types, QueueOK
    <3>2. current[u] # None /\ current'[u].cmd = current[u].cmd
      BY <2>1, <3>1, ForgetEntry
    <3>3. P(u)
      BY <3>2 DEF Progress
    <3> QED
      BY <3>1, <3>2, <3>3
  <2> QED
    BY <1>0, <2>1
<1>3. ASSUME NEW t \in Tasks, TakeCommand(t) PROVE Progress'
  <2>1. /\ queue[t] \in Seq(Entries) /\ queue[t] # <<>> /\ subs' = subs
        /\ current' = [current EXCEPT ![t] = Head(queue[t])]
        /\ todo' = [todo EXCEPT ![t] = Targets(t, Head(queue[t]).cmd)]
    BY <1>3 DEF TakeCommand, Types, QueueOK
  <2> DEFINE c == Head(queue[t]).cmd
  <2>2. c \in Commands
    <3>1. Head(queue[t]) \in Entries
      BY <2>1
    <3> QED
      BY <3>1 DEF Entries
  <2>3. /\ current'[t].cmd = c /\ todo'[t] = Targets(t, c)
        /\ \A u \in Tasks : u # t => current'[u] = current[u] /\ todo'[u] = todo[u]
    BY <2>1 DEF Types, QueueOK, TopicsOK
  <2> HIDE DEF c
  <2>4. Q(t)
    BY <2>2, <2>3, TargetsAre
  <2>5. \A u \in Tasks : u # t => Same(u)
    BY <2>1, <2>3
  <2> QED
    BY <1>0, <2>4, <2>5
<1>4. ASSUME NEW t \in Tasks, HandleTopic(t) PROVE Progress'
  <2>1. /\ todo[t] \in Seq(Topics) /\ todo[t] # <<>> /\ current' = current
        /\ current[t] # None
        /\ subs' = [subs EXCEPT ![t] =
                      IF current[t].cmd.op = "SUBSCRIBE"
                        THEN @ \cup {Head(todo[t])} ELSE @ \ {Head(todo[t])}]
        /\ todo' = [todo EXCEPT ![t] = Tail(@)]
    BY <1>4 DEF HandleTopic, Types, TopicsOK, HandInv
  <2>2. ToSet(todo[t]) = {Head(todo[t])} \cup ToSet(Tail(todo[t]))
    BY <2>1, TodoShrinks
  <2>3. /\ todo'[t] = Tail(todo[t])
        /\ current[t].cmd.op = "SUBSCRIBE" => subs'[t] = subs[t] \cup {Head(todo[t])}
        /\ \A u \in Tasks : u # t => subs'[u] = subs[u] /\ todo'[u] = todo[u]
    BY <2>1 DEF Types, TopicsOK
  <2>4. P(t)
    BY <2>1 DEF Progress
  <2>5. Q(t)
    BY <2>1, <2>2, <2>3, <2>4
  <2>6. \A u \in Tasks : u # t => Same(u)
    BY <2>1, <2>3
  <2> QED
    BY <1>0, <2>5, <2>6
<1>5. ASSUME NEW t \in Tasks, HandleFails(t) \/ HandleDone(t) PROVE Progress'
  <2>1. \A u \in Tasks : IF u = t THEN current'[u] = None ELSE Same(u)
    BY <1>5 DEF HandleFails, HandleDone, Types, QueueOK, TopicsOK
  <2> QED
    BY <1>0, <2>1
<1>6. ASSUME NEW t \in Tasks, End(t), tpc[t] \in {"connect", "listen"} PROVE Progress'
  <2>1. \A u \in Tasks : IF u = t THEN current'[u] = None ELSE Same(u)
    BY <1>6 DEF End, HandInv, Types, QueueOK, TopicsOK
  <2> QED
    BY <1>0, <2>1
<1>7. ASSUME NEW t \in Tasks, ConnectFails(t) \/ ListenEnded(t) PROVE Progress'
  BY <1>6, <1>7 DEF ConnectFails, ListenEnded, EndWithError
<1>8. ASSUME NEW t \in Tasks, ListenTimeout(t) PROVE Progress'
  BY <1>1, <1>6, <1>8 DEF ListenTimeout
<1> QED
  BY <1>1, <1>2, <1>3, <1>4, <1>5, <1>7, <1>8
     DEF Next, vars, HandlerStep, TaskStep, StreamStep, Attach, Detach, Execute,
     Ensure, Store, Send, SendFails, Receive, Connect, DrainDone, ListenMessage,
     LinkLost, RecvFrame, RecvGone, RecvClosed, OpenStream, CloseStream, Publish,
     RemoveSession, task

(* Nobody but a handler that waits is named in an entry.                   *)
LEMMA NotNamed ==
    ASSUME ServeInv, NEW h \in Handlers, ~(hpc[h] = "wait" /\ answer[h] = "none"),
           NEW t \in Tasks
    PROVE  /\ \A k \in DOMAIN queue[t] : queue[t][k].to # h
           /\ current[t] # None => current[t].to # h
BY ConstantsAssumption DEF ServeInv, NamedWait, InHand, WaitsFor

LEMMA EmptyIs == ASSUME NEW S, NEW q \in Seq(S), Len(q) = 0 PROVE q = <<>>
OBVIOUS

LEMMA LastSentStep ==
    ASSUME Single, Types, HandInv, ServeInv, LastSent, [Next]_vars
    PROVE  LastSent'
<1> DEFINE L(u) ==
              /\ \A k \in DOMAIN queue'[u] : queue'[u][k].to # None =>
                    k = Len(queue'[u]) /\ queue'[u][k].cmd = cmd'[queue'[u][k].to]
              /\ current'[u] # None /\ current'[u].to # None =>
                    queue'[u] = <<>> /\ current'[u].cmd = cmd'[current'[u].to]
<1>0. ASSUME \A u \in Tasks : L(u) PROVE LastSent'
  BY <1>0 DEF LastSent
<1>1. ASSUME NEW u \in Tasks, cmd' = cmd, queue'[u] = queue[u], current'[u] = current[u]
      PROVE  L(u)
  BY <1>1 DEF LastSent
<1>2. CASE UNCHANGED <<cmd, queue, current>>
  BY <1>0, <1>1, <1>2
<1>3. ASSUME NEW h \in Handlers, ~(hpc[h] = "wait" /\ answer[h] = "none"),
             UNCHANGED <<queue, current>>
      PROVE  LastSent'
  <2>1. ASSUME NEW u \in Tasks PROVE L(u)
    <3>1. \A k \in DOMAIN queue[u] : queue[u][k].to = None
      BY <1>3, NotNamed, EntryTypes DEF Single
    <3>2. current[u] # None => current[u].to = None
      BY <1>3, NotNamed, EntryTypes DEF Single
    <3> QED
      BY <1>3, <3>1, <3>2
  <2> QED
    BY <1>0, <2>1
<1>4. ASSUME NEW h \in Handlers, Execute(h) \/ SendFails(h) \/ Receive(h)
      PROVE  LastSent'
  BY <1>3, <1>4 DEF Execute, SendFails, Receive, task
<1>5. ASSUME NEW h \in Handlers, Send(h) PROVE LastSent'
  <2> DEFINE v == tx[h]
             e == [cmd |-> cmd[h], to |-> h]
  <2>1. /\ v \in Tasks /\ hpc[h] = "send" /\ cmd' = cmd /\ current' = current
        /\ queue' = [queue EXCEPT ![v] = Append(@, e)]
    BY <1>5 DEF Send, Types, SenderInv
  <2>2. /\ queue[v] \in Seq(Entries) /\ queue'[v] = Append(queue[v], e)
        /\ \A u \in Tasks : u # v => queue'[u] = queue[u]
    BY <2>1 DEF Types, QueueOK
  <2>3. /\ \A k \in DOMAIN queue[v] : queue[v][k].to = None
        /\ current[v] # None => current[v].to = None
    BY <2>1, NotNamed, EntryTypes DEF Single
  <2>4. e.to = h /\ e.cmd = cmd[h]
    OBVIOUS
  <2> HIDE DEF v, e
  <2>5. \A k \in DOMAIN queue'[v] :
           \/ k \in DOMAIN queue[v] /\ queue'[v][k] = queue[v][k]
           \/ k = Len(queue'[v]) /\ queue'[v][k] = e
    BY <2>2
  <2>6. L(v)
    BY <2>1, <2>3, <2>4, <2>5
  <2>7. \A u \in Tasks : u # v => L(u)
    BY <1>1, <2>1, <2>2
  <2> QED
    BY <1>0, <2>6, <2>7
<1>6. ASSUME NEW h \in Handlers, Abort(h) PROVE LastSent'
  <2>1. ASSUME NEW u \in Tasks PROVE L(u)
    <3>1. /\ DOMAIN queue'[u] = DOMAIN queue[u]
          /\ \A k \in DOMAIN queue[u] : queue'[u][k] = Forget(h, queue[u][k])
      BY <1>6, ForgetQueue DEF Abort
    <3>2. \A k \in DOMAIN queue[u] : queue[u][k] \in Entries
      BY EntryTypes
    <3>3. \A e \in Entries : Forget(h, e).to = None
      <4>1. \A e \in Entries : e.to = h \/ e.to = None
        BY DEF Entries, Single
      <4> QED
        BY <4>1, ForgetEntry
    <3>4. \A k \in DOMAIN queue'[u] : queue'[u][k].to = None
      BY <3>1, <3>2, <3>3
    <3>5. current[u] \in Entries \cup {None} /\ current'[u] = Forget(h, current[u])
      BY <1>6 DEF Abort, Types, QueueOK
    <3>6. current'[u] # None => current'[u].to = None
      BY <3>3, <3>5, ForgetEntry
    <3> QED
      BY <3>4, <3>6
  <2> QED
    BY <1>0, <2>1
<1>7. ASSUME NEW t \in Tasks, TakeCommand(t) PROVE LastSent'
  <2>1. /\ queue[t] \in Seq(Entries) /\ queue[t] # <<>> /\ cmd' = cmd
        /\ queue' = [queue EXCEPT ![t] = Tail(@)]
        /\ current' = [current EXCEPT ![t] = Head(queue[t])]
    BY <1>7 DEF TakeCommand, Types, QueueOK, handler
  <2>2. /\ queue'[t] = Tail(queue[t]) /\ current'[t] = Head(queue[t])
        /\ \A u \in Tasks : u # t => queue'[u] = queue[u] /\ current'[u] = current[u]
    BY <2>1 DEF Types, QueueOK
  <2>3. /\ 1 \in DOMAIN queue[t] /\ current'[t] = queue[t][1]
        /\ \A k \in DOMAIN queue'[t] :
              k \in Nat /\ k + 1 \in DOMAIN queue[t] /\ queue'[t][k] = queue[t][k + 1]
    <3>1. /\ 1 \in DOMAIN queue[t] /\ Head(queue[t]) = queue[t][1]
          /\ \A k \in DOMAIN Tail(queue[t]) :
                /\ k \in Nat \ {0} /\ k + 1 \in DOMAIN queue[t]
                /\ Tail(queue[t])[k] = queue[t][k + 1]
      BY <2>1, TailOf
    <3> QED
      BY <2>2, <3>1
  <2>4. /\ Len(queue'[t]) = Len(queue[t]) - 1 /\ Len(queue[t]) \in Nat
        /\ Len(queue[t]) = 1 => queue'[t] = <<>>
    <3>1. /\ Len(Tail(queue[t])) = Len(queue[t]) - 1 /\ Len(queue[t]) \in Nat
          /\ Tail(queue[t]) \in Seq(Entries)
      BY <2>1
    <3>2. ASSUME Len(queue[t]) = 1 PROVE Tail(queue[t]) = <<>>
      <4>1. Len(Tail(queue[t])) = 0
        BY <3>1, <3>2
      <4> QED
        BY <3>1, <4>1, EmptyIs
    <3> QED
      BY <2>2, <3>1, <3>2
  <2>5. ASSUME NEW k \in DOMAIN queue'[t], queue'[t][k].to # None
        PROVE  k = Len(queue'[t]) /\ queue'[t][k].cmd = cmd'[queue'[t][k].to]
    <3>1. /\ k + 1 = Len(queue[t]) /\ k \in Nat
          /\ queue[t][k + 1].cmd = cmd[queue[t][k + 1].to]
      BY <2>3, <2>5 DEF LastSent
    <3> QED
      BY <2>1, <2>3, <2>4, <3>1
  <2>6. ASSUME current'[t].to # None
        PROVE  queue'[t] = <<>> /\ current'[t].cmd = cmd'[current'[t].to]
    <3>1. 1 = Len(queue[t]) /\ queue[t][1].cmd = cmd[queue[t][1].to]
      BY <2>3, <2>6 DEF LastSent
    <3>2. queue'[t] = <<>>
      BY <2>4, <3>1
    <3> QED
      BY <2>1, <2>3, <3>1, <3>2
  <2>7. L(t)
    BY <2>5, <2>6
  <2> QED
    BY <1>0, <1>1, <2>1, <2>2, <2>7
<1>8. ASSUME NEW t \in Tasks, HandleFails(t) \/ HandleDone(t) PROVE LastSent'
  <2>1. /\ cmd' = cmd /\ queue' = queue /\ current'[t] = None
        /\ \A u \in Tasks : u # t => current'[u] = current[u]
    BY <1>8 DEF HandleFails, HandleDone, Types, QueueOK
  <2>2. L(t)
    BY <2>1 DEF LastSent
  <2> QED
    BY <1>0, <1>1, <2>1, <2>2
<1>9. ASSUME NEW t \in Tasks, End(t), tpc[t] \in {"connect", "listen"}, cmd' = cmd
      PROVE  LastSent'
  <2>1. /\ queue'[t] = <<>> /\ current'[t] = None
        /\ \A u \in Tasks : u # t => queue'[u] = queue[u] /\ current'[u] = current[u]
    BY <1>9 DEF End, HandInv, Types, QueueOK
  <2>2. L(t)
    BY <2>1
  <2> QED
    BY <1>0, <1>1, <1>9, <2>1, <2>2
<1>10. ASSUME NEW t \in Tasks, ConnectFails(t) \/ ListenEnded(t) PROVE LastSent'
  BY <1>9, <1>10 DEF ConnectFails, ListenEnded, EndWithError
<1>11. ASSUME NEW t \in Tasks, ListenTimeout(t) PROVE LastSent'
  BY <1>2, <1>9, <1>11 DEF ListenTimeout
<1> QED
  BY <1>2, <1>4, <1>5, <1>6, <1>7, <1>8, <1>10, <1>11
     DEF Next, vars, HandlerStep, TaskStep, StreamStep, Attach, Detach, Ensure,
     Store, Connect, DrainDone, HandleTopic, ListenMessage, LinkLost, RecvFrame,
     RecvGone, RecvClosed, OpenStream, CloseStream, Publish, RemoveSession,
     handler, task

(* A session that has lost its last owner gets none again, and what was    *)
(* announced stays so.                                                     *)
LEMMA AliveBefore ==
    ASSUME Types, [Next]_vars, SessionAlive'
    PROVE  SessionAlive /\ announced \subseteq announced'
<1>1. announced \subseteq announced'
  BY DEF Next, vars, HandlerStep, TaskStep, StreamStep, Attach, Detach, Execute,
     Ensure, Store, Send, SendFails, Receive, Abort, Connect, ConnectFails,
     EndWithError, TakeCommand, DrainDone, HandleTopic, HandleFails, HandleDone,
     ListenMessage, ListenEnded, ListenTimeout, LinkLost, RecvFrame, RecvGone,
     RecvClosed, OpenStream, CloseStream, Publish, RemoveSession, history
<1>2. ASSUME NEW h \in Handlers,
             \/ Attach(h) \/ Detach(h) \/ Execute(h) \/ HandlerStep(h) \/ Abort(h)
      PROVE  SessionAlive
  BY <1>2 DEF SessionAlive, Attach, Detach, Execute, HandlerStep, Ensure, Store, Send,
     SendFails, Receive, Abort
<1>3. CASE hpc' = hpc /\ (inMap' = inMap \/ inMap = "yes")
  BY <1>1, <1>3 DEF SessionAlive
<1> QED
  BY <1>1, <1>2, <1>3
     DEF Next, vars, TaskStep, StreamStep, Connect, ConnectFails, TakeCommand,
     DrainDone, HandleTopic, HandleFails, HandleDone, ListenMessage, ListenEnded,
     ListenTimeout, LinkLost, RecvFrame, RecvGone, RecvClosed, OpenStream,
     CloseStream, Publish, RemoveSession, session, handler

(* The task of a session that lives does not end without an announcement.  *)
LEMMA OthersEnd ==
    ASSUME NEW t \in Tasks, SessionAlive, announced' = {},
           ConnectFails(t) \/ ListenEnded(t) \/ ListenTimeout(t)
    PROVE  \/ /\ t # slot /\ End(t) /\ tpc[t] = "listen"
              /\ UNCHANGED <<session, hpc, cmd, tx, acked>>
           \/ /\ UNCHANGED <<session, hpc, cmd, tx, acked>>
              /\ UNCHANGED <<answer, queue, current, todo, subs>>
<1>1. ListenTimeout(t)
  BY DEF ConnectFails, ListenEnded, EndWithError
<1> QED
  BY <1>1 DEF ListenTimeout, RxClosed, history

LEMMA OneTaskStep ==
    ASSUME Single, Types, HandInv, OneTask, [Next]_vars
    PROVE  OneTask'
<1> USE DEF OneTask
<1>1. CASE UNCHANGED <<slot, acked, hpc, tx>>
  BY <1>1
<1>2. ASSUME NEW h \in Handlers, Attach(h) \/ Detach(h) \/ Execute(h) PROVE OneTask'
  BY <1>2 DEF Attach, Detach, Execute, Single, Types, SenderInv, session, history
<1>3. ASSUME NEW h \in Handlers, Ensure(h) PROVE OneTask'
  BY <1>3 DEF Ensure, Single, Types, SenderInv, session, history
<1>4. ASSUME NEW h \in Handlers, Store(h) PROVE OneTask'
  <2>1. /\ slot' = tx[h] /\ tx[h] # None /\ tx' = tx
        /\ hpc'[h] = "send"
    BY <1>4 DEF Store, Types, SenderInv
  <2> QED
    BY <2>1 DEF Single
<1>5. ASSUME NEW h \in Handlers, Send(h) PROVE OneTask'
  BY <1>5 DEF Send, Single, Types, SenderInv, session, history
<1>6. ASSUME NEW h \in Handlers, SendFails(h) \/ Receive(h) PROVE OneTask'
  <2>1. slot' = slot /\ hpc'[h] = "ready" /\ (acked' = acked \/ slot # None)
    BY <1>6 DEF SendFails, Receive, Return, Types, SenderInv, session, history
  <2> QED
    BY <2>1 DEF Single
<1>7. ASSUME NEW h \in Handlers, Abort(h) PROVE OneTask'
  BY <1>7 DEF Abort, Single, Types, SenderInv, session, history
<1> QED
  BY <1>1, <1>2, <1>3, <1>4, <1>5, <1>6, <1>7
     DEF Next, vars, HandlerStep, TaskStep, StreamStep, Connect, ConnectFails,
     TakeCommand, DrainDone, HandleTopic, HandleFails, HandleDone, ListenMessage,
     ListenEnded, ListenTimeout, LinkLost, RecvFrame, RecvGone, RecvClosed,
     OpenStream, CloseStream, Publish, RemoveSession, session, handler, history,
     EndWithError

LEMMA SubscribedStep ==
    ASSUME Types, HandInv, Progress, OneTask, Subscribed, Asked,
           SessionAlive, announced' = {}, [Next]_vars
    PROVE  Subscribed'
<1> DEFINE S == /\ acked' \subseteq subs'[slot']
                /\ \A k \in DOMAIN queue'[slot'] :
                      Removes(queue'[slot'][k].cmd) \cap acked' = {}
                /\ current'[slot'] # None => Removes(current'[slot'].cmd) \cap acked' = {}
<1>0. ASSUME slot' = None \/ S PROVE Subscribed'
  BY <1>0 DEF Subscribed, Removes
<1>00. slot = None \/ slot \in Tasks
  BY DEF Types, SenderInv
<1>1. ASSUME UNCHANGED slot, acked' \subseteq acked,
             slot # None => /\ subs'[slot] = subs[slot] /\ queue'[slot] = queue[slot]
                            /\ current'[slot] = current[slot] \/ current'[slot] = None
      PROVE  Subscribed'
  BY <1>0, <1>1 DEF Subscribed
<1>2. ASSUME NEW h \in Handlers,
             Attach(h) \/ Detach(h) \/ Execute(h) \/ Ensure(h) \/ SendFails(h)
      PROVE  Subscribed'
  BY <1>1, <1>2 DEF Attach, Detach, Execute, Ensure, SendFails, session, task, history
<1>3. ASSUME NEW h \in Handlers, Store(h) PROVE Subscribed'
  <2>1. acked' = {}
    BY <1>3 DEF Store, OneTask, history
  <2> QED
    BY <1>0, <2>1
<1>4. ASSUME NEW h \in Handlers, Send(h) PROVE Subscribed'
  <2>1. /\ hpc[h] = "send" /\ tx[h] = slot /\ slot \in Tasks
        /\ Removes(cmd[h]) \cap acked = {}
    BY <1>4 DEF Send, OneTask, Asked, Types, SenderInv
  <2> DEFINE e == [cmd |-> cmd[h], to |-> h]
  <2>2. /\ queue[slot] \in Seq(Entries) /\ queue'[slot] = Append(queue[slot], e)
        /\ UNCHANGED <<slot, acked, subs, current>>
    BY <1>4, <2>1 DEF Send, Types, QueueOK, session, history
  <2>3. e.cmd = cmd[h]
    OBVIOUS
  <2> HIDE DEF e
  <2>4. \A k \in DOMAIN queue'[slot] :
           \/ k \in DOMAIN queue[slot] /\ queue'[slot][k] = queue[slot][k]
           \/ queue'[slot][k] = e
    BY <2>2
  <2>5. S
    BY <2>1, <2>2, <2>3, <2>4, ConstantsAssumption DEF Subscribed
  <2> QED
    BY <1>0, <2>5
<1>5. ASSUME NEW h \in Handlers, Receive(h) PROVE Subscribed'
  <2>1. /\ hpc[h] = "wait" /\ tx[h] = slot /\ slot \in Tasks
        /\ UNCHANGED <<slot, queue, subs, current>>
    BY <1>5 DEF Receive, OneTask, Types, SenderInv, session, task
  <2>2. CASE acked' = acked
    BY <1>1, <2>1, <2>2
  <2>3. CASE /\ answer[h] = "ok" /\ cmd[h].op = "SUBSCRIBE"
             /\ acked' = acked \cup ToSet(cmd[h].args)
    <3>1. /\ queue[slot] = <<>> /\ current[slot] = None
          /\ ToSet(cmd[h].args) \subseteq subs[slot] /\ acked \subseteq subs[slot]
      BY <2>1, <2>3, ConstantsAssumption DEF Asked, Subscribed
    <3>2. S
      BY <2>1, <2>3, <3>1
    <3> QED
      BY <1>0, <3>2
  <2> QED
    BY <1>5, <2>2, <2>3 DEF Receive
<1>6. ASSUME NEW h \in Handlers, Abort(h) PROVE Subscribed'
  <2>1. UNCHANGED <<slot, acked, subs>>
    BY <1>6 DEF Abort, session, history
  <2>2. CASE slot \in Tasks
    <3>1. /\ DOMAIN queue'[slot] = DOMAIN queue[slot]
          /\ \A k \in DOMAIN queue[slot] : queue'[slot][k] = Forget(h, queue[slot][k])
      BY <1>6, <2>2, ForgetQueue DEF Abort
    <3>2. \A k \in DOMAIN queue[slot] : queue[slot][k] \in Entries
      BY <2>2, EntryTypes
    <3>3. \A k \in DOMAIN queue'[slot] : queue'[slot][k].cmd = queue[slot][k].cmd
      BY <3>1, <3>2, ForgetEntry
    <3>4. /\ current[slot] \in Entries \cup {None}
          /\ current'[slot] = Forget(h, current[slot])
      BY <1>6, <2>2 DEF Abort, Types, QueueOK
    <3>5. current'[slot] # None =>
             current[slot] # None /\ current'[slot].cmd = current[slot].cmd
      BY <3>4, ForgetEntry
    <3>6. S
      BY <2>1, <2>2, <3>1, <3>3, <3>5, ConstantsAssumption DEF Subscribed
    <3> QED
      BY <1>0, <3>6
  <2> QED
    BY <1>0, <1>00, <2>1, <2>2
<1>7. ASSUME NEW t \in Tasks, TakeCommand(t) PROVE Subscribed'
  <2>1. /\ queue[t] \in Seq(Entries) /\ queue[t] # <<>>
        /\ UNCHANGED <<slot, acked, subs>>
        /\ queue' = [queue EXCEPT ![t] = Tail(@)]
        /\ current' = [current EXCEPT ![t] = Head(queue[t])]
    BY <1>7 DEF TakeCommand, Types, QueueOK, session, history
  <2>2. /\ queue'[t] = Tail(queue[t]) /\ current'[t] = Head(queue[t])
        /\ \A u \in Tasks : u # t => queue'[u] = queue[u] /\ current'[u] = current[u]
    BY <2>1 DEF Types, QueueOK
  <2>3. CASE slot = t
    <3>1. /\ 1 \in DOMAIN queue[t] /\ Head(queue[t]) = queue[t][1]
          /\ \A k \in DOMAIN Tail(queue[t]) :
                k + 1 \in DOMAIN queue[t] /\ Tail(queue[t])[k] = queue[t][k + 1]
      BY <2>1, TailOf
    <3>2. S
      BY <2>1, <2>2, <2>3, <3>1, ConstantsAssumption DEF Subscribed
    <3> QED
      BY <1>0, <3>2
  <2>4. CASE slot # t
    BY <1>1, <1>00, <2>1, <2>2, <2>4
  <2> QED
    BY <2>3, <2>4
<1>8. ASSUME NEW t \in Tasks, HandleTopic(t) PROVE Subscribed'
  <2>1. /\ todo[t] \in Seq(Topics) /\ todo[t] # <<>> /\ current[t] # None
        /\ UNCHANGED <<slot, acked, queue, current>>
        /\ subs' = [subs EXCEPT ![t] =
                      IF current[t].cmd.op = "SUBSCRIBE"
                        THEN @ \cup {Head(todo[t])} ELSE @ \ {Head(todo[t])}]
    BY <1>8 DEF HandleTopic, Types, TopicsOK, HandInv, session, history
  <2>2. CASE slot = t
    <3>1. ToSet(todo[t]) = {Head(todo[t])} \cup ToSet(Tail(todo[t]))
      BY <2>1, TodoShrinks
    <3>2. current[t].cmd.op # "SUBSCRIBE" => Head(todo[t]) \in Removes(current[t].cmd)
      BY <2>1, <3>1 DEF Progress
    <3>3. Removes(current[t].cmd) \cap acked = {} /\ acked \subseteq subs[t]
      BY <2>1, <2>2, ConstantsAssumption DEF Subscribed
    <3>4. acked \subseteq subs'[t]
      <4>1. CASE current[t].cmd.op = "SUBSCRIBE"
        BY <2>1, <3>3, <4>1 DEF Types, TopicsOK
      <4>2. CASE current[t].cmd.op # "SUBSCRIBE"
        <5>1. subs'[t] = subs[t] \ {Head(todo[t])}
          BY <2>1, <4>2 DEF Types, TopicsOK
        <5> QED
          BY <3>2, <3>3, <4>2, <5>1
      <4> QED
        BY <4>1, <4>2
    <3>5. S
      BY <2>1, <2>2, <3>4, ConstantsAssumption DEF Subscribed
    <3> QED
      BY <1>0, <3>5
  <2>3. CASE slot # t
    <3>1. slot # None => subs'[slot] = subs[slot]
      BY <1>00, <2>1, <2>3 DEF Types, TopicsOK
    <3> QED
      BY <1>1, <2>1, <3>1
  <2> QED
    BY <2>2, <2>3
<1>9. ASSUME NEW t \in Tasks, HandleFails(t) \/ HandleDone(t) PROVE Subscribed'
  <2>1. /\ UNCHANGED <<slot, acked, queue, subs>>
        /\ current' = [current EXCEPT ![t] = None]
    BY <1>9 DEF HandleFails, HandleDone, session, history
  <2>2. slot # None => current'[slot] = current[slot] \/ current'[slot] = None
    BY <1>00, <2>1 DEF Types, QueueOK
  <2> QED
    BY <1>1, <2>1, <2>2
<1>10. ASSUME NEW t \in Tasks, ConnectFails(t) \/ ListenEnded(t) \/ ListenTimeout(t)
       PROVE  Subscribed'
  <2>1. CASE /\ t # slot /\ End(t) /\ UNCHANGED <<session, acked>>
    <3>1. /\ slot' = slot /\ current' = current
          /\ slot # None => queue'[slot] = queue[slot] /\ subs'[slot] = subs[slot]
      BY <1>00, <2>1 DEF End, Types, QueueOK, TopicsOK, session
    <3> QED
      BY <1>1, <2>1, <3>1
  <2>2. CASE UNCHANGED <<session, acked, queue, current, subs>>
    BY <1>1, <2>2 DEF session
  <2> QED
    BY <1>10, <2>1, <2>2, OthersEnd
<1> QED
  BY <1>1, <1>2, <1>3, <1>4, <1>5, <1>6, <1>7, <1>8, <1>9, <1>10
     DEF Next, vars, HandlerStep, TaskStep, StreamStep, Connect, DrainDone,
     ListenMessage, LinkLost, RecvFrame, RecvGone, RecvClosed, OpenStream,
     CloseStream, Publish, RemoveSession, session, task, history

LEMMA AskedStep ==
    ASSUME Single, Types, HandInv, ServeInv, Progress, LastSent, OneTask, Asked,
           SessionAlive, announced' = {}, [Next]_vars
    PROVE  Asked'
<1> DEFINE A(h) == hpc'[h] \in {"ensure", "store", "send", "wait"} =>
                      Removes(cmd'[h]) \cap acked' = {}
           K(h) == hpc'[h] = "wait" /\ answer'[h] = "ok" =>
                      /\ queue'[tx'[h]] = <<>> /\ current'[tx'[h]] = None
                      /\ cmd'[h].op = "SUBSCRIBE" =>
                            ToSet(cmd'[h].args) \subseteq subs'[tx'[h]]
<1>0. ASSUME \A h \in Handlers : A(h) /\ K(h) PROVE Asked'
  BY <1>0 DEF Asked, Removes
<1>1. ASSUME UNCHANGED <<hpc, cmd, acked>>, \A h \in Handlers : K(h) PROVE Asked'
  BY <1>0, <1>1 DEF Asked
<1>2. CASE UNCHANGED <<hpc, cmd, tx, answer, acked, queue, current, subs>>
  BY <1>1, <1>2 DEF Asked
<1>3. ASSUME NEW h \in Handlers, hpc'[h] # "wait" \/ answer'[h] = "none", A(h)
      PROVE  Asked'
  BY <1>0, <1>3 DEF Single
<1>4. ASSUME NEW h \in Handlers, Attach(h) \/ Detach(h) \/ SendFails(h) \/ Receive(h)
                                  \/ Abort(h)
      PROVE  Asked'
  <2>1. hpc'[h] \in {"ready", "out"}
    BY <1>4 DEF Attach, Detach, SendFails, Receive, Return, Abort, Types, SenderInv
  <2> QED
    BY <1>3, <2>1
<1>5. ASSUME NEW h \in Handlers, Execute(h) PROVE Asked'
  <2>1. PICK c \in Commands :
           /\ cmd' = [cmd EXCEPT ![h] = c]
           /\ acked' = IF c.op = "SUBSCRIBE" THEN acked
                       ELSE acked \ IF c.args = <<>> THEN c.kind ELSE ToSet(c.args)
    BY <1>5 DEF Execute
  <2>2. cmd'[h] = c /\ hpc'[h] = "ensure"
    BY <1>5, <2>1 DEF Execute, Types, SenderInv, HandlerOK
  <2>3. Removes(c) \cap acked' = {}
    BY <2>1 DEF Removes
  <2> QED
    BY <1>3, <2>2, <2>3
<1>6. ASSUME NEW h \in Handlers, Ensure(h) \/ Store(h) \/ Send(h) PROVE Asked'
  <2>1. /\ hpc[h] \in {"ensure", "store", "send"} /\ UNCHANGED <<cmd, acked, answer>>
        /\ answer[h] = "none"
    BY <1>6 DEF Ensure, Store, Send, HandInv, history
  <2> QED
    BY <1>3, <2>1 DEF Asked
<1>7. ASSUME NEW t \in Tasks, TakeCommand(t) PROVE Asked'
  <2>1. /\ queue[t] # <<>> /\ UNCHANGED <<hpc, cmd, tx, answer, acked, subs>>
        /\ \A u \in Tasks : u # t => queue'[u] = queue[u] /\ current'[u] = current[u]
    BY <1>7 DEF TakeCommand, Types, QueueOK, handler, history
  <2>2. ASSUME NEW h \in Handlers, hpc[h] = "wait", answer[h] = "ok"
        PROVE  tx[h] \in Tasks /\ tx[h] # t
    BY <2>1, <2>2 DEF Asked, Types, SenderInv
  <2>3. \A h \in Handlers : K(h)
    BY <2>1, <2>2 DEF Asked
  <2> QED
    BY <1>1, <2>1, <2>3
<1>8. ASSUME NEW t \in Tasks, HandleTopic(t) PROVE Asked'
  <2>1. /\ current[t] # None
        /\ UNCHANGED <<hpc, cmd, tx, answer, acked, queue, current>>
        /\ \A u \in Tasks : u # t => subs'[u] = subs[u]
    BY <1>8 DEF HandleTopic, Types, TopicsOK, HandInv, handler, history
  <2>2. ASSUME NEW h \in Handlers, hpc[h] = "wait", answer[h] = "ok"
        PROVE  tx[h] \in Tasks /\ tx[h] # t
    BY <2>1, <2>2 DEF Asked, Types, SenderInv
  <2>3. \A h \in Handlers : K(h)
    BY <2>1, <2>2 DEF Asked
  <2> QED
    BY <1>1, <2>1, <2>3
<1>9. ASSUME NEW t \in Tasks, HandleFails(t) \/ HandleDone(t) PROVE Asked'
  <2>1. /\ current[t] # None /\ UNCHANGED <<hpc, cmd, tx, acked, queue, subs>>
        /\ current'[t] = None /\ \A u \in Tasks : u # t => current'[u] = current[u]
    BY <1>9 DEF HandleFails, HandleDone, Types, QueueOK, HandInv, history
  <2>2. ASSUME NEW h \in Handlers, h # current[t].to
        PROVE  answer'[h] = answer[h]
    BY <1>9, <2>2 DEF HandleFails, HandleDone, Respond, Types, HandlerOK
  <2>3. ASSUME NEW h \in Handlers, h = current[t].to
        PROVE  K(h)
    <3>1. current[t].to # None
      BY <2>3, ConstantsAssumption
    <3>2. tx[h] = t /\ queue[t] = <<>> /\ current[t].cmd = cmd[h]
      BY <2>1, <2>3, <3>1 DEF ServeInv, InHand, WaitsFor, LastSent
    <3>3. CASE HandleFails(t)
      <4>1. answer'[h] = "error"
        BY <2>3, <3>1, <3>3 DEF HandleFails, Respond, Types, HandlerOK
      <4> QED
        BY <4>1
    <3>4. CASE HandleDone(t)
      <4>1. todo[t] = <<>>
        BY <3>4 DEF HandleDone
      <4>2. cmd[h].op = "SUBSCRIBE" => ToSet(cmd[h].args) \subseteq subs[t]
        BY <2>1, <3>2, <4>1, NothingLeft DEF Progress
      <4> QED
        BY <2>1, <3>2, <4>2
    <3> QED
      BY <1>9, <3>3, <3>4
  <2>4. ASSUME NEW h \in Handlers, h # current[t].to PROVE K(h)
    <3>1. ASSUME hpc[h] = "wait", answer[h] = "ok"
          PROVE  tx[h] \in Tasks /\ tx[h] # t
      BY <2>1, <3>1 DEF Asked, Types, SenderInv
    <3> QED
      BY <2>1, <2>2, <2>4, <3>1 DEF Asked
  <2> QED
    BY <1>1, <2>1, <2>3, <2>4
<1>10. ASSUME NEW t \in Tasks, ConnectFails(t) \/ ListenEnded(t) \/ ListenTimeout(t)
       PROVE  Asked'
  <2>1. CASE /\ t # slot /\ End(t) /\ UNCHANGED <<hpc, cmd, tx, acked>>
    <3>1. /\ current' = current
          /\ \A u \in Tasks : u # t => queue'[u] = queue[u] /\ subs'[u] = subs[u]
          /\ \A h \in Handlers : answer'[h] = "ok" => answer[h] = "ok"
      BY <2>1 DEF End, Types, QueueOK, TopicsOK
    <3>2. \A h \in Handlers : hpc[h] = "wait" => tx[h] \in Tasks /\ tx[h] # t
      BY <2>1 DEF OneTask, Types, SenderInv
    <3>3. \A h \in Handlers : K(h)
      BY <2>1, <3>1, <3>2 DEF Asked
    <3> QED
      BY <1>1, <2>1, <3>3
  <2>2. CASE UNCHANGED <<hpc, cmd, tx, answer, acked, queue, current, subs>>
    BY <1>2, <2>2
  <2> QED
    BY <1>10, <2>1, <2>2, OthersEnd
<1> QED
  BY <1>2, <1>4, <1>5, <1>6, <1>7, <1>8, <1>9, <1>10
     DEF Next, vars, HandlerStep, TaskStep, StreamStep, Connect, DrainDone,
     ListenMessage, LinkLost, RecvFrame, RecvGone, RecvClosed, OpenStream,
     CloseStream, Publish, RemoveSession, handler, task, history

LEMMA HeldInit == Init => HeldInv
BY ConstantsAssumption
   DEF Init, HeldInv, Progress, LastSent, OneTask, Subscribed, Asked

LEMMA HeldStep ==
    ASSUME Single, ServedInv, HeldInv, [Next]_vars
    PROVE  HeldInv'
<1>1. Types /\ HandInv /\ ServeInv
  BY DEF ServedInv
<1>2. Progress' /\ LastSent'
  BY <1>1, ProgressStep, LastSentStep DEF HeldInv
<1>3. ASSUME SessionAlive', announced' = {}
      PROVE  OneTask' /\ Subscribed' /\ Asked'
  <2>1. SessionAlive /\ announced = {}
    BY <1>1, <1>3, AliveBefore
  <2> QED
    BY <1>1, <1>3, <2>1, OneTaskStep, SubscribedStep, AskedStep DEF HeldInv
<1> QED
  BY <1>2, <1>3 DEF HeldInv

(* What a client was told to be subscribed is subscribed by a live task of *)
(* its session, as long as the session lives and no end of a task was      *)
(* announced, whatever requests are dropped and links are lost: if the     *)
(* session has a single handler.  With two of them the race of             *)
(* ensure_pubsub_task loses an acknowledged subscription.                  *)
THEOREM AckedHeld ==
    ASSUME \A g, h \in Handlers : g = h
    PROVE  Spec => []AckedIsHeld
<1>1. Single
  BY DEF Single
<1>2. ServedInv /\ HeldInv => AckedIsHeld
  <2> SUFFICES ASSUME ServedInv, HeldInv, SessionAlive, announced = {}, NEW c \in acked
               PROVE  \E t \in Tasks : Live(t) /\ c \in subs[t]
    BY DEF AckedIsHeld
  <2>1. slot \in Tasks /\ c \in subs[slot]
    BY DEF HeldInv, OneTask, Subscribed, ServedInv, Types, SenderInv
  <2>2. Live(slot)
    BY <2>1 DEF ServedInv, EndIsAnnounced, RxClosed, HandInv, Live
  <2> QED
    BY <2>1, <2>2
<1>3. (ServedInv /\ OrderedInv) /\ HeldInv /\ [Next]_vars => HeldInv'
  BY <1>1, HeldStep
<1> QED
  BY <1>2, <1>3, HeldInit, FullHolds, PTL DEF Spec
============================================================================
