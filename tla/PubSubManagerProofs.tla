------------------------ MODULE PubSubManagerProofs ------------------------
(***************************************************************************)
(* Proofs about PubSubManager, for every number of subscribers, channels   *)
(* and messages, every capacity and every number of faults.                *)
(***************************************************************************)
EXTENDS PubSubManager, SequenceTheorems, TLAPS

(* What the control state of the task and of the subscribers says about    *)
(* the data that they work on.                                             *)
ControlInv ==
    /\ pc = "subscribe" => current \in taken
    /\ pc = "dispatch" => inHand \in Message
    /\ \A u \in Subscribers : state[u] # "idle" => chan[u] \in mapped

IInv == TypeOK /\ ControlInv /\ LockCoversSend /\ OneCommandPerChannel
        /\ DispatchFindsSender

----------------------------------------------------------------------------
(* The elements of a queue after an append.                                *)
LEMMA AppendElements ==
    ASSUME NEW S, NEW q \in Seq(S), NEW c \in S
    PROVE  Elements(Append(q, c)) = Elements(q) \cup {c}
<1>1. /\ Len(Append(q, c)) = Len(q) + 1
      /\ \A i \in 1 .. Len(q) : Append(q, c)[i] = q[i]
      /\ Append(q, c)[Len(q) + 1] = c
      /\ Len(q) \in Nat
  OBVIOUS
<1>2. 1 .. Len(q) + 1 = (1 .. Len(q)) \cup {Len(q) + 1}
  BY <1>1
<1> QED
  BY <1>1, <1>2 DEF Elements

(* A queue without repeats stays one when a new element is appended.       *)
LEMMA AppendNoRepeats ==
    ASSUME NEW S, NEW q \in Seq(S), NEW c \in S, NoRepeats(q),
           c \notin Elements(q)
    PROVE  NoRepeats(Append(q, c))
<1>1. /\ Len(Append(q, c)) = Len(q) + 1
      /\ \A i \in 1 .. Len(q) : Append(q, c)[i] = q[i]
      /\ Append(q, c)[Len(q) + 1] = c
      /\ Len(q) \in Nat
  OBVIOUS
<1> QED
  BY <1>1 DEF Elements, NoRepeats

(* Taking the head of a queue without repeats removes that element.        *)
LEMMA TailElements ==
    ASSUME NEW S, NEW q \in Seq(S), q # <<>>, NoRepeats(q)
    PROVE  /\ NoRepeats(Tail(q))
           /\ Head(q) \in Elements(q)
           /\ Elements(Tail(q)) = Elements(q) \ {Head(q)}
<1>1. /\ Len(q) \in Nat \ {0}
      /\ Len(Tail(q)) = Len(q) - 1
      /\ \A i \in 1 .. Len(q) - 1 : Tail(q)[i] = q[i + 1]
      /\ Head(q) = q[1]
  OBVIOUS
<1>2. NoRepeats(Tail(q))
  BY <1>1 DEF NoRepeats
<1>3. Head(q) \in Elements(q)
  BY <1>1 DEF Elements
<1>4. Elements(Tail(q)) = Elements(q) \ {Head(q)}
  <2>1. ASSUME NEW x \in Elements(Tail(q)) PROVE x \in Elements(q) \ {Head(q)}
    BY <1>1 DEF Elements, NoRepeats
  <2>2. ASSUME NEW x \in Elements(q) \ {Head(q)} PROVE x \in Elements(Tail(q))
    <3>1. PICK i \in 1 .. Len(q) : x = q[i] /\ i # 1
      BY <1>1 DEF Elements
    <3>2. i - 1 \in 1 .. Len(q) - 1 /\ Tail(q)[i - 1] = q[i]
      BY <3>1, <1>1
    <3> QED
      BY <3>1, <3>2, <1>1 DEF Elements
  <2> QED
    BY <2>1, <2>2
<1> QED
  BY <1>2, <1>3, <1>4

----------------------------------------------------------------------------
LEMMA InitIInv == Init => IInv
<1> SUFFICES ASSUME Init PROVE IInv
  OBVIOUS
<1> USE ConstantsAssumption DEF Init
<1>1. TypeOK
  BY DEF TypeOK, TaskPcs, SubscriberStates
<1>2. ControlInv /\ LockCoversSend /\ DispatchFindsSender
  BY DEF ControlInv, LockCoversSend, DispatchFindsSender
<1>3. Pending = {} /\ Queued = {} /\ NoRepeats(queue)
  BY DEF Pending, Queued, Elements, NoRepeats
<1>4. OneCommandPerChannel
  BY <1>3 DEF OneCommandPerChannel
<1> QED
  BY <1>1, <1>2, <1>4 DEF IInv

(* The type invariant is kept by every step that starts where the control  *)
(* invariant holds.                                                        *)
LEMMA TypeStep == TypeOK /\ ControlInv /\ [Next]_vars => TypeOK'
<1> SUFFICES ASSUME TypeOK, ControlInv, [Next]_vars PROVE TypeOK'
  OBVIOUS
<1> USE ConstantsAssumption DEF TypeOK, ControlInv
<1>1. ASSUME NEW u \in Subscribers, NEW c \in Channels, SubscribeExisting(u, c)
      PROVE  TypeOK'
  BY <1>1 DEF SubscribeExisting, Attach, SubscriberStates, manager, task, redis,
     history
<1>2. ASSUME NEW u \in Subscribers, NEW c \in Channels, SubscribeNew(u, c)
      PROVE  TypeOK'
  BY <1>2 DEF SubscribeNew, Attach, SubscriberStates, manager, task, redis,
     history
<1>3. ASSUME NEW u \in Subscribers, SendCommand(u) PROVE TypeOK'
  BY <1>3, SMTT(30) DEF SendCommand, SubscriberStates, task, redis, history
<1>4. ASSUME NEW u \in Subscribers, CancelSubscribe(u) PROVE TypeOK'
  BY <1>4 DEF CancelSubscribe, SubscriberStates, task, redis
<1>5. ASSUME NEW u \in Subscribers, Recv(u) PROVE TypeOK'
  <2>1. chan[u] \in Channels /\ sent[chan[u]] \in Seq(MessageIds)
    BY <1>5 DEF Recv
  <2>2. sent[chan[u]][cursor[u] + 1] \in MessageIds \cup {Lagged}
    BY <1>5, <2>1 DEF Recv, RingEnd
  <2>3. out' \in [Subscribers -> Seq(MessageIds \cup {Lagged})]
    <3>1. Append(out[u], sent[chan[u]][cursor[u] + 1])
            \in Seq(MessageIds \cup {Lagged})
      BY <2>2
    <3> QED
      BY <1>5, <3>1 DEF Recv
  <2>4. cursor' \in [Subscribers -> Nat]
    BY <1>5 DEF Recv
  <2>5. state' \in [Subscribers -> SubscriberStates]
    BY <1>5 DEF Recv, SubscriberStates
  <2> QED
    BY <1>5, <2>3, <2>4, <2>5 DEF Recv, manager, task, redis, history
<1>6. ASSUME NEW u \in Subscribers, RecvLagged(u) PROVE TypeOK'
  <2>1. chan[u] \in Channels /\ sent[chan[u]] \in Seq(MessageIds)
    BY <1>6 DEF RecvLagged
  <2>2. RingEnd(u) - RingCap \in Nat
    BY <1>6, <2>1 DEF RecvLagged, HasLagged, RingEnd
  <2>3. out' \in [Subscribers -> Seq(MessageIds \cup {Lagged})]
    <3>1. Append(out[u], Lagged) \in Seq(MessageIds \cup {Lagged})
      OBVIOUS
    <3> QED
      BY <1>6, <3>1 DEF RecvLagged
  <2>4. cursor' \in [Subscribers -> Nat]
    BY <1>6, <2>2 DEF RecvLagged
  <2>5. state' \in [Subscribers -> SubscriberStates]
    BY <1>6 DEF RecvLagged, SubscriberStates
  <2> QED
    BY <1>6, <2>3, <2>4, <2>5 DEF RecvLagged, manager, task, redis, history
<1>7. ASSUME NEW u \in Subscribers, Disconnect(u) PROVE TypeOK'
  BY <1>7 DEF Disconnect, SubscriberStates, manager, task, redis, history
<1>8. CASE Connect
  BY <1>8 DEF Connect, TaskPcs, manager, subs, history
<1>9. CASE ConnectFails
  BY <1>9 DEF ConnectFails, manager, task, subs, history
<1>10. CASE TakeCommand
  BY <1>10, SMTT(30) DEF TakeCommand, TaskPcs, redis, subs
<1>11. CASE DrainDone
  BY <1>11 DEF DrainDone, TaskPcs, manager, redis, subs, history
<1>12. CASE RedisSubscribe
  BY <1>12 DEF RedisSubscribe, TaskPcs, manager, subs, history
<1>13. CASE RedisSubscribeFails
  BY <1>13 DEF RedisSubscribeFails, TaskPcs, manager, subs, history
<1>14. CASE ReceiveMessage
  BY <1>14 DEF ReceiveMessage, TaskPcs, manager, subs, history
<1>15. CASE ListenTimeout
  BY <1>15 DEF ListenTimeout, TaskPcs, manager, redis, subs, history
<1>16. CASE StreamEnded
  BY <1>16 DEF StreamEnded, TaskPcs, manager, redis, subs, history
<1>17. CASE Dispatch
  BY <1>17 DEF Dispatch, Message, TaskPcs, redis, subs, history
<1>18. ASSUME NEW c \in Channels, RedisMessage(c) PROVE TypeOK'
  BY <1>18, SMTT(30) DEF RedisMessage, Message, MessageIds, manager, task, subs, history
<1>19. CASE ConnectionLost
  BY <1>19 DEF ConnectionLost, manager, task, subs, history
<1>20. CASE UNCHANGED vars
  BY <1>20 DEF vars, manager, task, redis, subs, history
<1> QED
  BY <1>1, <1>2, <1>3, <1>4, <1>5, <1>6, <1>7, <1>8, <1>9, <1>10, <1>11, <1>12,
     <1>13, <1>14, <1>15, <1>16, <1>17, <1>18, <1>19, <1>20
     DEF Next, Subscribe, Background

(* The steps that concern the life of a command: all the others leave the  *)
(* map, the lock, the queue, the histories and the pending sends alone.    *)
CommandVars == <<mapped, writer, queue, taken, abandoned>>

LEMMA QuietSteps ==
    ASSUME TypeOK, [Next]_vars,
           ~ \E u \in Subscribers :
                \/ \E c \in Channels : SubscribeNew(u, c)
                \/ SendCommand(u)
                \/ CancelSubscribe(u),
           ~ TakeCommand
    PROVE  /\ UNCHANGED CommandVars
           /\ \A u \in Subscribers :
                 /\ state[u] = "sending" <=> state'[u] = "sending"
                 /\ state[u] # "idle" => chan'[u] = chan[u]
                 /\ state'[u] # "idle" /\ state[u] = "idle" => chan'[u] \in mapped
<1> USE DEF TypeOK, CommandVars
<1>1. ASSUME NEW u \in Subscribers, NEW c \in Channels, SubscribeExisting(u, c)
      PROVE  /\ UNCHANGED CommandVars
             /\ \A v \in Subscribers :
                   /\ state[v] = "sending" <=> state'[v] = "sending"
                   /\ state[v] # "idle" => chan'[v] = chan[v]
                   /\ state'[v] # "idle" /\ state[v] = "idle"
                        => chan'[v] \in mapped
  BY <1>1 DEF SubscribeExisting, Attach, manager, history
<1>2. ASSUME NEW u \in Subscribers, Recv(u) \/ RecvLagged(u) \/ Disconnect(u)
      PROVE  /\ UNCHANGED <<CommandVars, chan>>
             /\ \A v \in Subscribers : state'[v] = state[v] \/
                   (state[v] = "streaming" /\ state'[v] = "ended")
  BY <1>2 DEF Recv, RecvLagged, Disconnect, manager, history
<1>3. CASE \/ Connect \/ ConnectFails \/ DrainDone \/ RedisSubscribe
           \/ RedisSubscribeFails \/ ReceiveMessage \/ ListenTimeout
           \/ StreamEnded \/ Dispatch \/ ConnectionLost \/ UNCHANGED vars
           \/ \E c \in Channels : RedisMessage(c)
  <2>1. UNCHANGED <<CommandVars, state, chan>>
    BY <1>3 DEF Connect, ConnectFails, DrainDone, RedisSubscribe,
       RedisSubscribeFails, ReceiveMessage, ListenTimeout, StreamEnded, Dispatch,
       ConnectionLost, RedisMessage, vars, manager, task, redis, subs, history
  <2> QED
    BY <2>1
<1> QED
  BY <1>1, <1>2, <1>3 DEF Next, Subscribe, Background

LEMMA ControlStep == IInv /\ [Next]_vars => ControlInv' /\ LockCoversSend'
<1> SUFFICES ASSUME IInv, [Next]_vars PROVE ControlInv' /\ LockCoversSend'
  OBVIOUS
<1> USE ConstantsAssumption DEF IInv, TypeOK
<1>1. (pc = "subscribe" => current \in taken)'
  <2>1. CASE TakeCommand
    BY <2>1 DEF TakeCommand
  <2>2. CASE ~TakeCommand
    <3>1. /\ pc' = "subscribe" => pc = "subscribe" /\ current' = current
          /\ taken' = taken
      BY <2>2 DEF Next, Subscribe, Background, SubscribeExisting, SubscribeNew,
         SendCommand, CancelSubscribe, Recv, RecvLagged, Disconnect, Connect,
         ConnectFails, DrainDone, RedisSubscribe, RedisSubscribeFails,
         ReceiveMessage, ListenTimeout, StreamEnded, Dispatch, RedisMessage,
         ConnectionLost, vars, task, history
    <3> QED
      BY <3>1 DEF ControlInv
  <2> QED
    BY <2>1, <2>2
<1>2. (pc = "dispatch" => inHand \in Message)'
  <2>1. CASE ReceiveMessage
    BY <2>1 DEF ReceiveMessage
  <2>2. CASE ~ReceiveMessage
    <3>1. pc' = "dispatch" => pc = "dispatch" /\ inHand' = inHand
      BY <2>2 DEF Next, Subscribe, Background, SubscribeExisting, SubscribeNew,
         SendCommand, CancelSubscribe, Recv, RecvLagged, Disconnect, Connect,
         ConnectFails, TakeCommand, DrainDone, RedisSubscribe,
         RedisSubscribeFails, ListenTimeout, StreamEnded, Dispatch,
         RedisMessage, ConnectionLost, vars, task
    <3> QED
      BY <3>1 DEF ControlInv
  <2> QED
    BY <2>1, <2>2
<1> DEFINE Goal == /\ \A u \in Subscribers : state[u] # "idle" => chan[u] \in mapped
                   /\ LockCoversSend
<1>3. Goal'
  <2>1. ASSUME NEW u \in Subscribers, NEW c \in Channels, SubscribeNew(u, c)
        PROVE  Goal'
    BY <2>1 DEF SubscribeNew, Attach, ControlInv, LockCoversSend
  <2>2. ASSUME NEW u \in Subscribers, SendCommand(u) \/ CancelSubscribe(u)
        PROVE  Goal'
    BY <2>2, ZenonT(40) DEF SendCommand, CancelSubscribe, ControlInv, LockCoversSend
  <2>3. CASE TakeCommand
    BY <2>3 DEF TakeCommand, subs, ControlInv, LockCoversSend
  <2>4. CASE /\ UNCHANGED CommandVars
             /\ \A u \in Subscribers :
                   /\ state[u] = "sending" <=> state'[u] = "sending"
                   /\ state[u] # "idle" => chan'[u] = chan[u]
                   /\ state'[u] # "idle" /\ state[u] = "idle"
                        => chan'[u] \in mapped
    BY <2>4 DEF CommandVars, ControlInv, LockCoversSend
  <2> QED
    BY <2>1, <2>2, <2>3, <2>4, QuietSteps
<1> QED
  BY <1>1, <1>2, <1>3 DEF ControlInv

(* A command moves from the pending send to the queue to the task, or is   *)
(* abandoned; no step makes a second one for the same channel.             *)
LEMMA CommandStep == IInv /\ [Next]_vars => OneCommandPerChannel'
<1> SUFFICES ASSUME IInv, [Next]_vars PROVE OneCommandPerChannel'
  OBVIOUS
<1> USE ConstantsAssumption DEF IInv
<1>0. \A u \in Subscribers : state[u] = "sending" => Pending = {chan[u]}
  BY DEF Pending, LockCoversSend
<1>1. ASSUME NEW u \in Subscribers, NEW c \in Channels, SubscribeNew(u, c)
      PROVE  OneCommandPerChannel'
  <2>1. Pending = {}
    BY <1>1 DEF SubscribeNew, Pending, LockCoversSend
  <2>2. Pending' = {c}
    <3>1. \A v \in Subscribers : state'[v] = "sending" <=> v = u
      BY <1>1 DEF SubscribeNew, LockCoversSend, TypeOK
    <3>2. chan'[u] = c
      BY <1>1 DEF SubscribeNew, Attach, TypeOK
    <3> QED
      BY <3>1, <3>2 DEF Pending
  <2>3. mapped' = mapped \cup {c} /\ UNCHANGED <<queue, taken, abandoned>>
        /\ c \notin mapped
    BY <1>1 DEF SubscribeNew, history
  <2>4. Queued' = Queued /\ (NoRepeats(queue))' = NoRepeats(queue)
    BY <2>3 DEF Queued, Elements, NoRepeats
  <2> QED
    BY <2>1, <2>2, <2>3, <2>4 DEF OneCommandPerChannel
<1>2. ASSUME NEW u \in Subscribers, SendCommand(u)
      PROVE  OneCommandPerChannel'
  <2>1. Pending = {chan[u]} /\ Pending' = {}
    <3>1. \A v \in Subscribers : state'[v] # "sending"
      BY <1>2 DEF SendCommand, LockCoversSend, TypeOK
    <3> QED
      BY <1>0, <1>2, <3>1 DEF SendCommand, Pending
  <2>2. /\ chan[u] \in Channels /\ queue \in Seq(Channels)
        /\ chan[u] \notin Queued
    BY <1>2, <2>1 DEF SendCommand, ControlInv, TypeOK, OneCommandPerChannel
  <2>3. queue' = Append(queue, chan[u]) /\ UNCHANGED <<mapped, taken, abandoned>>
    BY <1>2 DEF SendCommand, history
  <2>4. Queued' = Queued \cup {chan[u]}
    BY <2>2, <2>3, AppendElements DEF Queued
  <2>5. NoRepeats(queue')
    BY <2>2, <2>3, AppendNoRepeats DEF Queued, OneCommandPerChannel
  <2> QED
    BY <2>1, <2>3, <2>4, <2>5 DEF OneCommandPerChannel
<1>3. ASSUME NEW u \in Subscribers, CancelSubscribe(u)
      PROVE  OneCommandPerChannel'
  <2>1. Pending = {chan[u]} /\ Pending' = {}
    <3>1. \A v \in Subscribers : state'[v] # "sending"
      BY <1>3 DEF CancelSubscribe, LockCoversSend, TypeOK
    <3> QED
      BY <1>0, <1>3, <3>1 DEF CancelSubscribe, Pending
  <2>2. abandoned' = abandoned \cup {chan[u]} /\ UNCHANGED <<mapped, queue, taken>>
    BY <1>3 DEF CancelSubscribe
  <2>3. Queued' = Queued /\ (NoRepeats(queue))' = NoRepeats(queue)
    BY <2>2 DEF Queued, Elements, NoRepeats
  <2> QED
    BY <2>1, <2>2, <2>3 DEF OneCommandPerChannel
<1>4. CASE TakeCommand
  <2>1. queue \in Seq(Channels) /\ queue # <<>> /\ NoRepeats(queue)
    BY <1>4 DEF TakeCommand, TypeOK, OneCommandPerChannel
  <2>2. /\ queue' = Tail(queue) /\ taken' = taken \cup {Head(queue)}
        /\ UNCHANGED <<mapped, abandoned, state, chan>>
    BY <1>4 DEF TakeCommand, subs
  <2>3. /\ Queued' = Queued \ {Head(queue)} /\ Head(queue) \in Queued
        /\ NoRepeats(queue')
    BY <2>1, <2>2, TailElements DEF Queued
  <2>4. Pending' = Pending
    BY <2>2 DEF Pending
  <2> QED
    BY <2>2, <2>3, <2>4 DEF OneCommandPerChannel
<1>5. CASE /\ UNCHANGED CommandVars
           /\ \A u \in Subscribers :
                 /\ state[u] = "sending" <=> state'[u] = "sending"
                 /\ state[u] # "idle" => chan'[u] = chan[u]
  <2>1. Pending' = Pending
    BY <1>5 DEF Pending
  <2>2. Queued' = Queued /\ (NoRepeats(queue))' = NoRepeats(queue)
    BY <1>5 DEF Queued, Elements, NoRepeats, CommandVars
  <2> QED
    BY <1>5, <2>1, <2>2 DEF OneCommandPerChannel, CommandVars
<1> QED
  BY <1>1, <1>2, <1>3, <1>4, <1>5, QuietSteps

(* Redis only sends messages of channels whose command the task has taken. *)
LEMMA DispatchStep == IInv /\ [Next]_vars => DispatchFindsSender'
<1> SUFFICES ASSUME IInv, [Next]_vars PROVE DispatchFindsSender'
  OBVIOUS
<1> USE ConstantsAssumption DEF IInv, TypeOK
<1>0. /\ taken \subseteq mapped /\ mapped \subseteq mapped'
      /\ taken \subseteq taken'
  BY DEF OneCommandPerChannel, Next, Subscribe, Background, SubscribeExisting,
     SubscribeNew, SendCommand, CancelSubscribe, Recv, RecvLagged, Disconnect,
     Connect, ConnectFails, TakeCommand, DrainDone, RedisSubscribe,
     RedisSubscribeFails, ReceiveMessage, ListenTimeout, StreamEnded, Dispatch,
     RedisMessage, ConnectionLost, vars, manager, history
<1>1. redisSubs' \subseteq taken'
  <2>1. redisSubs' \subseteq redisSubs \/ RedisSubscribe
    BY DEF Next, Subscribe, Background, SubscribeExisting, SubscribeNew,
       SendCommand, CancelSubscribe, Recv, RecvLagged, Disconnect, Connect,
       ConnectFails, TakeCommand, DrainDone, RedisSubscribeFails,
       ReceiveMessage, ListenTimeout, StreamEnded, Dispatch, RedisMessage,
       ConnectionLost, vars, redis
  <2> QED
    BY <1>0, <2>1 DEF RedisSubscribe, ControlInv, DispatchFindsSender
<1>2. \A i \in 1 .. Len(wire') : wire'[i].ch \in mapped'
  <2>1. ASSUME NEW c \in Channels, RedisMessage(c)
        PROVE  \A i \in 1 .. Len(wire') : wire'[i].ch \in mapped
    <3>1. PICK b \in {"text", "binary"} :
             wire' = Append(wire, [ch |-> c, id |-> produced + 1, body |-> b])
      BY <2>1 DEF RedisMessage
    <3>2. c \in mapped
      BY <2>1, <1>0 DEF RedisMessage, DispatchFindsSender
    <3>3. [ch |-> c, id |-> produced + 1, body |-> b] \in Message
      BY <2>1 DEF RedisMessage, Message, MessageIds
    <3>4. /\ Len(wire') = Len(wire) + 1
          /\ \A i \in 1 .. Len(wire) : wire'[i] = wire[i]
          /\ wire'[Len(wire) + 1].ch = c
      BY <3>1, <3>3
    <3>5. \A i \in 1 .. Len(wire) : wire[i].ch \in mapped
      BY DEF DispatchFindsSender
    <3>6. Len(wire) \in Nat
      OBVIOUS
    <3> HIDE DEF IInv, TypeOK
    <3> QED
      BY <3>2, <3>4, <3>5, <3>6
  <2>2. CASE ReceiveMessage
    <3>1. wire' = Tail(wire) /\ wire # <<>> /\ wire \in Seq(Message)
      BY <2>2 DEF ReceiveMessage
    <3>2. /\ Len(wire') = Len(wire) - 1
          /\ \A i \in 1 .. Len(wire) - 1 : wire'[i] = wire[i + 1]
      BY <3>1
    <3>3. \A i \in 1 .. Len(wire) : wire[i].ch \in mapped
      BY DEF DispatchFindsSender
    <3>4. Len(wire) \in Nat
      OBVIOUS
    <3> HIDE DEF IInv, TypeOK
    <3> QED
      BY <3>2, <3>3, <3>4, <1>0
  <2>3. CASE ConnectionLost
    BY <2>3, <1>0 DEF ConnectionLost, DispatchFindsSender
  <2>4. CASE Connect
    BY <2>4 DEF Connect
  <2>5. CASE wire' = wire
    BY <2>5, <1>0 DEF DispatchFindsSender
  <2> QED
    BY <1>0, <2>1, <2>2, <2>3, <2>4, <2>5 DEF Next, Subscribe, Background,
       SubscribeExisting, SubscribeNew, SendCommand, CancelSubscribe, Recv,
       RecvLagged, Disconnect, ConnectFails, TakeCommand, DrainDone,
       RedisSubscribe, RedisSubscribeFails, ListenTimeout, StreamEnded, Dispatch,
       vars, redis
<1>3. pc' = "dispatch" => inHand'.ch \in mapped'
  <2>1. CASE ReceiveMessage
    BY <2>1, <1>0 DEF ReceiveMessage, DispatchFindsSender
  <2>2. CASE ~ReceiveMessage
    <3>1. pc' = "dispatch" => pc = "dispatch" /\ inHand' = inHand
      BY <2>2 DEF Next, Subscribe, Background, SubscribeExisting, SubscribeNew,
         SendCommand, CancelSubscribe, Recv, RecvLagged, Disconnect, Connect,
         ConnectFails, TakeCommand, DrainDone, RedisSubscribe,
         RedisSubscribeFails, ListenTimeout, StreamEnded, Dispatch,
         RedisMessage, ConnectionLost, vars, task
    <3> QED
      BY <1>0, <3>1 DEF DispatchFindsSender
  <2> QED
    BY <2>1, <2>2
<1> QED
  BY <1>1, <1>2, <1>3 DEF DispatchFindsSender

(* The inductive invariant holds throughout.                               *)
THEOREM Invariance == Spec => []IInv
<1>1. Init => IInv
  BY InitIInv
<1>2. IInv /\ [Next]_vars => IInv'
  BY TypeStep, ControlStep, CommandStep, DispatchStep DEF IInv
<1> QED
  BY <1>1, <1>2, PTL DEF Spec

(* Every variable keeps its type: in particular a receiver that lags is    *)
(* never moved to a position before the first.                             *)
THEOREM TypeCorrect == Spec => []TypeOK
<1>1. IInv => TypeOK
  BY DEF IInv
<1> QED
  BY <1>1, Invariance, PTL

(* Each key of the channel map of PubSubManager stands for exactly one     *)
(* Subscribe command, whatever the number and the order of the calls.      *)
THEOREM OneCommand == Spec => []OneCommandPerChannel
<1>1. IInv => OneCommandPerChannel
  BY DEF IInv
<1> QED
  BY <1>1, Invariance, PTL

----------------------------------------------------------------------------
(* What the streams yield: the rings keep the order of Redis, a stream     *)
(* yields the messages of its own channel in that order, and the streams   *)
(* that report a gap never skip in silence.                                *)

(* Numbers grow from the rings to the message in hand to the wire, and     *)
(* none is larger than the number of messages that Redis has sent.         *)
OrderInv ==
    /\ \A i \in 1 .. Len(wire) : wire[i].id <= produced
    /\ \A i, j \in 1 .. Len(wire) : i < j => wire[i].id < wire[j].id
    /\ pc = "dispatch" =>
          /\ inHand.id <= produced
          /\ \A j \in 1 .. Len(wire) : inHand.id < wire[j].id
    /\ \A c \in Channels : \A i \in 1 .. Len(sent[c]) : sent[c][i] <= produced
    /\ RingsKeepOrder

LEMMA InitOrder == Init => OrderInv
BY DEF Init, OrderInv, RingsKeepOrder, Increasing

(* The types that the order of the messages is about.                      *)
LEMMA OrderTypes ==
    ASSUME TypeOK
    PROVE  /\ produced \in Nat /\ Len(wire) \in Nat
           /\ \A i \in 1 .. Len(wire) : wire[i] \in Message /\ wire[i].id \in Nat
           /\ \A c \in Channels :
                 /\ Len(sent[c]) \in Nat
                 /\ \A i \in 1 .. Len(sent[c]) : sent[c][i] \in Nat
<1> USE ConstantsAssumption DEF TypeOK
<1>1. produced \in Nat /\ Len(wire) \in Nat
  OBVIOUS
<1>2. \A i \in 1 .. Len(wire) : wire[i] \in Message
  OBVIOUS
<1>3. \A m \in Message : m.id \in Nat
  BY DEF Message, MessageIds
<1>4. ASSUME NEW c \in Channels
      PROVE  /\ Len(sent[c]) \in Nat
             /\ \A i \in 1 .. Len(sent[c]) : sent[c][i] \in Nat
  <2>1. sent[c] \in Seq(MessageIds)
    OBVIOUS
  <2>2. MessageIds \subseteq Nat
    BY DEF MessageIds
  <2>3. Len(sent[c]) \in Nat /\ \A i \in 1 .. Len(sent[c]) : sent[c][i] \in MessageIds
    BY <2>1
  <2> QED
    BY <2>2, <2>3
<1> QED
  BY <1>1, <1>2, <1>3, <1>4

LEMMA OrderStep == IInv /\ OrderInv /\ [Next]_vars => OrderInv'
<1> SUFFICES ASSUME IInv, OrderInv, [Next]_vars PROVE OrderInv'
  OBVIOUS
<1>0. TypeOK
  BY DEF IInv
<1>1. ASSUME NEW c \in Channels, RedisMessage(c) PROVE OrderInv'
  <2>1. PICK b \in {"text", "binary"} :
           wire' = Append(wire, [ch |-> c, id |-> produced + 1, body |-> b])
    BY <1>1 DEF RedisMessage
  <2>2. [ch |-> c, id |-> produced + 1, body |-> b] \in Message
    BY <1>0, <1>1, ConstantsAssumption DEF RedisMessage, TypeOK, Message, MessageIds
  <2>3. /\ Len(wire') = Len(wire) + 1
        /\ \A i \in 1 .. Len(wire) : wire'[i] = wire[i]
        /\ wire'[Len(wire) + 1].id = produced + 1
    BY <1>0, <2>1, <2>2 DEF TypeOK
  <2>4. produced' = produced + 1 /\ UNCHANGED <<pc, inHand, sent>>
    BY <1>1 DEF RedisMessage, manager, task
  <2>5. pc = "dispatch" => inHand.id \in Nat
    BY <1>0, ConstantsAssumption DEF IInv, ControlInv, Message, MessageIds
  <2>6. \A i \in 1 .. Len(wire') : wire'[i].id <= produced'
    BY <2>3, <2>4, OrderTypes, <1>0 DEF OrderInv
  <2>a. \A j \in 1 .. Len(wire') :
           \/ j \in 1 .. Len(wire) /\ wire'[j].id = wire[j].id
           \/ wire'[j].id = produced + 1
    BY <2>3, OrderTypes, <1>0
  <2>7. \A i, j \in 1 .. Len(wire') : i < j => wire'[i].id < wire'[j].id
    BY <2>3, OrderTypes, <1>0 DEF OrderInv
  <2>8. pc' = "dispatch" =>
           /\ inHand'.id <= produced'
           /\ \A j \in 1 .. Len(wire') : inHand'.id < wire'[j].id
    <3> SUFFICES ASSUME pc = "dispatch", NEW j \in 1 .. Len(wire')
                 PROVE  inHand.id <= produced + 1 /\ inHand.id < wire'[j].id
      BY <2>3, <2>4, <2>5, OrderTypes, <1>0 DEF OrderInv
    <3>1. inHand.id <= produced /\ \A k \in 1 .. Len(wire) : inHand.id < wire[k].id
      BY DEF OrderInv
    <3> QED
      BY <3>1, <2>a, <2>5, OrderTypes, <1>0
  <2>9. \A d \in Channels : \A i \in 1 .. Len(sent[d]) :
           /\ sent[d][i] <= produced'
           /\ \A j \in 1 .. Len(wire') : sent[d][i] < wire'[j].id
    <3> SUFFICES ASSUME NEW d \in Channels, NEW i \in 1 .. Len(sent[d])
                 PROVE  /\ sent[d][i] <= produced'
                        /\ \A j \in 1 .. Len(wire') : sent[d][i] < wire'[j].id
      OBVIOUS
    <3>1. /\ sent[d][i] <= produced /\ sent[d][i] \in Nat /\ produced \in Nat
          /\ \A k \in 1 .. Len(wire) : sent[d][i] < wire[k].id
      BY OrderTypes, <1>0 DEF OrderInv, RingsKeepOrder
    <3> QED
      BY <3>1, <2>a, <2>4
  <2> QED
    BY <2>4, <2>6, <2>7, <2>8, <2>9 DEF OrderInv, RingsKeepOrder
<1>2. CASE ConnectionLost
  <2>1. PICK k \in 0 .. Len(wire) : wire' = SubSeq(wire, 1, k)
    BY <1>2 DEF ConnectionLost
  <2>2. Len(wire') = k /\ \A i \in 1 .. k : wire'[i] = wire[i]
    BY <2>1, <1>0, OrderTypes DEF TypeOK
  <2>3. UNCHANGED <<produced, pc, inHand, sent>>
    BY <1>2 DEF ConnectionLost, manager, task
  <2>4. \A i \in 1 .. Len(wire') : i \in 1 .. Len(wire) /\ wire'[i] = wire[i]
    BY <2>1, <2>2, OrderTypes, <1>0
  <2> QED
    BY <2>3, <2>4 DEF OrderInv, RingsKeepOrder
<1>3. CASE ReceiveMessage
  <2>1. wire' = Tail(wire) /\ wire # <<>> /\ wire \in Seq(Message)
    BY <1>3, <1>0 DEF ReceiveMessage, TypeOK
  <2>2. /\ Len(wire) >= 1 /\ Len(wire') = Len(wire) - 1 /\ Head(wire) = wire[1]
        /\ \A i \in 1 .. Len(wire) - 1 : wire'[i] = wire[i + 1]
    BY <2>1
  <2>3. UNCHANGED <<produced, sent>> /\ (pc' = "dispatch" => inHand' = wire[1])
    BY <1>3, <2>2 DEF ReceiveMessage, manager
  <2>4. /\ 1 \in 1 .. Len(wire)
        /\ \A i \in 1 .. Len(wire') :
              /\ i + 1 \in 1 .. Len(wire) /\ 1 < i + 1
              /\ wire'[i] = wire[i + 1]
    BY <2>2, OrderTypes, <1>0
  <2>5. \A i, j \in 1 .. Len(wire') : i < j => wire'[i].id < wire'[j].id
    <3>1. ASSUME NEW i \in 1 .. Len(wire'), NEW j \in 1 .. Len(wire'), i < j
          PROVE  wire[i + 1].id < wire[j + 1].id
      BY <3>1, <2>4 DEF OrderInv
    <3> QED
      BY <3>1, <2>4
  <2> QED
    BY <2>3, <2>4, <2>5 DEF OrderInv, RingsKeepOrder
<1>4. CASE Connect
  BY <1>4 DEF Connect, manager, OrderInv, RingsKeepOrder, Increasing
<1>5. CASE Dispatch
  <2>1. /\ inHand.ch \in Channels /\ inHand.id \in MessageIds
        /\ inHand.ch \in mapped /\ UNCHANGED <<produced, wire>>
        /\ pc' = "drain"
    BY <1>5, <1>0 DEF Dispatch, IInv, ControlInv, DispatchFindsSender, Message,
       redis
  <2> DEFINE ch == inHand.ch
  <2>2. /\ sent'[ch] = Append(sent[ch], inHand.id)
        /\ \A c \in Channels : c # ch => sent'[c] = sent[c]
    BY <1>5, <1>0, <2>1 DEF Dispatch, TypeOK
  <2>3. /\ Len(sent'[ch]) = Len(sent[ch]) + 1
        /\ \A i \in 1 .. Len(sent[ch]) : sent'[ch][i] = sent[ch][i]
        /\ sent'[ch][Len(sent[ch]) + 1] = inHand.id
    BY <2>1, <2>2, <1>0 DEF TypeOK
  <2>4. inHand.id \in Nat
    BY <2>1, ConstantsAssumption DEF MessageIds
  <2>5. pc = "dispatch"
    BY <1>5 DEF Dispatch
  <2>6. /\ \A i \in 1 .. Len(wire') : wire'[i].id <= produced'
        /\ \A i, j \in 1 .. Len(wire') : i < j => wire'[i].id < wire'[j].id
        /\ pc' # "dispatch"
    BY <2>1 DEF OrderInv
  <2>7. ASSUME NEW c \in Channels
        PROVE  /\ \A i \in 1 .. Len(sent'[c]) :
                     /\ sent'[c][i] <= produced'
                     /\ \A j \in 1 .. Len(wire') : sent'[c][i] < wire'[j].id
               /\ Increasing(sent'[c])
    <3>1. CASE c # ch
      BY <3>1, <2>1, <2>2 DEF OrderInv, RingsKeepOrder
    <3>2. CASE c = ch
      <4>1. /\ Len(sent[ch]) \in Nat
            /\ \A i \in 1 .. Len(sent[ch]) : sent[ch][i] \in Nat
        BY <2>1, OrderTypes, <1>0
      <4>2. /\ Increasing(sent[ch])
            /\ \A i \in 1 .. Len(sent[ch]) :
                  /\ sent[ch][i] < inHand.id /\ sent[ch][i] <= produced
                  /\ \A j \in 1 .. Len(wire) : sent[ch][i] < wire[j].id
        BY <2>1, <2>5 DEF OrderInv, RingsKeepOrder
      <4>3. /\ inHand.id <= produced
            /\ \A j \in 1 .. Len(wire) : inHand.id < wire[j].id
        BY <2>5 DEF OrderInv
      <4> HIDE DEF ch
      <4>4. Increasing(sent'[ch])
        <5> SUFFICES ASSUME NEW i \in 1 .. Len(sent'[ch]),
                            NEW j \in 1 .. Len(sent'[ch]), i < j
                     PROVE  sent'[ch][i] < sent'[ch][j]
          BY DEF Increasing
        <5>1. i \in 1 .. Len(sent[ch]) /\ sent'[ch][i] = sent[ch][i]
          BY <2>3, <4>1
        <5>2. CASE j = Len(sent[ch]) + 1
          BY <5>1, <5>2, <2>3, <4>2
        <5>3. CASE j # Len(sent[ch]) + 1
          <6>1. j \in 1 .. Len(sent[ch]) /\ sent'[ch][j] = sent[ch][j]
            BY <5>3, <2>3, <4>1
          <6> QED BY <5>1, <6>1, <4>2 DEF Increasing
        <5> QED BY <5>2, <5>3
      <4>5. \A i \in 1 .. Len(sent'[ch]) :
               /\ sent'[ch][i] <= produced
               /\ \A j \in 1 .. Len(wire) : sent'[ch][i] < wire[j].id
        BY <2>3, <4>1, <4>2, <4>3
      <4> QED
        BY <3>2, <2>1, <4>4, <4>5
    <3> QED
      BY <3>1, <3>2
  <2> QED
    BY <2>6, <2>7 DEF OrderInv, RingsKeepOrder
<1>6. CASE /\ UNCHANGED <<wire, produced, sent>>
           /\ pc' = "dispatch" => pc = "dispatch" /\ inHand' = inHand
  BY <1>6 DEF OrderInv, RingsKeepOrder
<1> QED
  BY <1>1, <1>2, <1>3, <1>4, <1>5, <1>6 DEF Next, Subscribe, Background,
     SubscribeExisting, SubscribeNew, SendCommand, CancelSubscribe, Recv,
     RecvLagged, Disconnect, ConnectFails, TakeCommand, DrainDone,
     RedisSubscribe, RedisSubscribeFails, ListenTimeout, StreamEnded,
     vars, manager, task, redis

(* Each broadcast ring of PubSubManager holds its messages in the order in *)
(* which Redis sent them, whatever reconnects there were in between.       *)
THEOREM RingOrder == Spec => []RingsKeepOrder
<1>1. Init => IInv /\ OrderInv
  BY InitIInv, InitOrder
<1>2. IInv /\ OrderInv /\ [Next]_vars => IInv' /\ OrderInv'
  BY TypeStep, ControlStep, CommandStep, DispatchStep, OrderStep DEF IInv
<1>3. OrderInv => RingsKeepOrder
  BY DEF OrderInv
<1> QED
  BY <1>1, <1>2, <1>3, PTL DEF Spec

----------------------------------------------------------------------------
(* The last item of a stream that does not skip in silence is the message  *)
(* at its cursor, unless it reports a gap.                                 *)
UpToDate(o, ring, start, end) ==
    IF o = <<>> THEN end = start
    ELSE o[Len(o)] = Lagged \/ At(o, Len(o), ring, end)

(* A receiver stands between the place where it joined and the end of its  *)
(* ring.                                                                   *)
CursorInv ==
    \A u \in Subscribers :
       /\ state[u] \in {"idle", "sending"} => out[u] = <<>>
       /\ state[u] # "idle" => /\ joined[u] <= cursor[u]
                               /\ cursor[u] <= Len(sent[chan[u]])
       /\ state[u] \in {"sending", "streaming"} /\ Kind[u] # "grpc" =>
             UpToDate(out[u], sent[chan[u]], joined[u], cursor[u])

StreamInv == CursorInv /\ StreamsInOrder /\ NoSilentGap

LEMMA InitStream == Init => StreamInv
BY DEF Init, StreamInv, CursorInv, StreamsInOrder, NoSilentGap

(* The rings only grow at their end.                                       *)
LEMMA RingsGrow ==
    ASSUME TypeOK, ControlInv, [Next]_vars
    PROVE  \A c \in Channels :
              /\ Len(sent[c]) <= Len(sent'[c])
              /\ \A k \in 1 .. Len(sent[c]) : sent'[c][k] = sent[c][k]
<1>1. CASE Dispatch
  <2>1. inHand.ch \in Channels /\ inHand.id \in MessageIds
    BY <1>1 DEF Dispatch, ControlInv, Message
  <2> SUFFICES ASSUME NEW c \in Channels
               PROVE  /\ Len(sent[c]) <= Len(sent'[c])
                      /\ \A k \in 1 .. Len(sent[c]) : sent'[c][k] = sent[c][k]
    OBVIOUS
  <2>2. sent'[c] = sent[c] \/ sent'[c] = Append(sent[c], inHand.id)
    BY <1>1, <2>1 DEF Dispatch, TypeOK
  <2>3. sent[c] \in Seq(MessageIds)
    BY DEF TypeOK
  <2> QED
    BY <2>1, <2>2, <2>3
<1>2. CASE sent' = sent
  <2>1. \A c \in Channels : Len(sent[c]) \in Nat
    BY DEF TypeOK
  <2> QED
    BY <1>2, <2>1
<1> QED
  BY <1>1, <1>2 DEF Next, Subscribe, Background, SubscribeExisting, SubscribeNew,
     SendCommand, CancelSubscribe, Recv, RecvLagged, Disconnect, Connect,
     ConnectFails, TakeCommand, DrainDone, RedisSubscribe, RedisSubscribeFails,
     ReceiveMessage, ListenTimeout, StreamEnded, RedisMessage, ConnectionLost,
     vars, manager

(* What a stream has yielded is still in order, free of gaps and up to     *)
(* date when its ring has grown and its cursor has not gone back.          *)
LEMMA GrownRing ==
    ASSUME NEW o \in Seq(Nat), NEW r \in Seq(Nat), NEW s \in Seq(Nat),
           NEW start \in Nat, NEW end \in Nat, NEW end2 \in Nat, end <= end2,
           Len(r) <= Len(s), \A k \in 1 .. Len(r) : s[k] = r[k]
    PROVE  /\ InOrder(o, r, start, end) => InOrder(o, s, start, end2)
           /\ GapFree(o, r, start) => GapFree(o, s, start)
           /\ UpToDate(o, r, start, end) => UpToDate(o, s, start, end)
<1>0. Len(r) \in Nat /\ Len(s) \in Nat /\ Len(o) \in Nat
  OBVIOUS
<1>1. \A i, k : At(o, i, r, k) => At(o, i, s, k)
  BY <1>0 DEF At
<1>2. ASSUME InOrder(o, r, start, end) PROVE InOrder(o, s, start, end2)
  <2> SUFFICES ASSUME NEW i \in 1 .. Len(o), o[i] # Lagged
               PROVE  /\ \E k \in start + 1 .. end2 : At(o, i, s, k)
                      /\ \A j \in 1 .. i - 1 : o[j] < o[i]
    BY DEF InOrder
  <2>1. PICK k \in start + 1 .. end : At(o, i, r, k)
    BY <1>2 DEF InOrder
  <2>2. k \in start + 1 .. end2 /\ At(o, i, s, k)
    BY <2>1, <1>1
  <2> QED
    BY <2>2, <1>2 DEF InOrder
<1>3. ASSUME GapFree(o, r, start) PROVE GapFree(o, s, start)
  <2> SUFFICES ASSUME NEW i \in 1 .. Len(o), o[i] # Lagged
               PROVE  IF i = 1 THEN At(o, i, s, start + 1)
                      ELSE o[i-1] # Lagged => \E k \in 1 .. Len(s) :
                              At(o, i - 1, s, k) /\ At(o, i, s, k + 1)
    BY DEF GapFree
  <2>1. CASE i = 1
    BY <2>1, <1>1, <1>3 DEF GapFree
  <2>2. CASE i # 1 /\ o[i-1] # Lagged
    <3>1. PICK k \in 1 .. Len(r) : At(o, i - 1, r, k) /\ At(o, i, r, k + 1)
      BY <2>2, <1>3 DEF GapFree
    <3>2. k \in 1 .. Len(s) /\ At(o, i - 1, s, k) /\ At(o, i, s, k + 1)
      BY <3>1, <1>1, <1>0
    <3> QED
      BY <2>2, <3>2
  <2> QED
    BY <2>1, <2>2
<1> QED
  BY <1>1, <1>2, <1>3 DEF UpToDate

(* A stream that yields the message after its cursor stays in order, free  *)
(* of gaps and up to date.                                                 *)
LEMMA YieldNext ==
    ASSUME NEW o \in Seq(Nat), NEW r \in Seq(Nat \ {0}),
           NEW start \in Nat, NEW end \in Nat,
           start <= end, end < Len(r), Increasing(r)
    PROVE  LET p == Append(o, r[end + 1])
           IN  /\ InOrder(o, r, start, end) => InOrder(p, r, start, end + 1)
               /\ GapFree(o, r, start) /\ UpToDate(o, r, start, end)
                    => GapFree(p, r, start)
               /\ UpToDate(p, r, start, end + 1)
<1> DEFINE x == r[end + 1]
           p == Append(o, x)
           n == Len(o)
<1>0. /\ Len(r) \in Nat /\ n \in Nat /\ x \in Nat \ {0}
      /\ Len(p) = n + 1 /\ p[n + 1] = x /\ p # <<>>
      /\ \A i \in 1 .. n : p[i] = o[i] /\ o[i] \in Nat
      /\ \A k \in 1 .. Len(r) : r[k] \in Nat
  BY SMTT(30)
<1>1. At(p, n + 1, r, end + 1)
  BY <1>0 DEF At
<1>2. \A i \in 1 .. n : \A k : At(o, i, r, k) <=> At(p, i, r, k)
  BY <1>0 DEF At
<1> HIDE DEF p, n
<1>3. ASSUME InOrder(o, r, start, end) PROVE InOrder(p, r, start, end + 1)
  <2> SUFFICES ASSUME NEW i \in 1 .. n + 1, p[i] # Lagged
               PROVE  /\ \E k \in start + 1 .. end + 1 : At(p, i, r, k)
                      /\ \A j \in 1 .. i - 1 : p[j] < p[i]
    BY <1>0 DEF InOrder
  <2>1. CASE i \in 1 .. n
    <3>1. o[i] # Lagged /\ o[i] = p[i]
      BY <2>1, <1>0
    <3>2. PICK k \in start + 1 .. end : At(o, i, r, k)
      BY <2>1, <3>1, <1>3 DEF InOrder, n
    <3>3. \A j \in 1 .. i - 1 : o[j] < o[i]
      BY <2>1, <3>1, <1>3 DEF InOrder, n
    <3>4. k \in start + 1 .. end + 1 /\ At(p, i, r, k)
      BY <3>2, <2>1, <1>2
    <3>5. \A j \in 1 .. i - 1 : p[j] < p[i]
      <4>1. ASSUME NEW j \in 1 .. i - 1 PROVE j \in 1 .. n
        BY <2>1, <1>0
      <4> QED
        BY <3>3, <3>1, <4>1, <1>0
    <3> QED
      BY <3>4, <3>5
  <2>2. CASE i = n + 1
    <3>1. ASSUME NEW j \in 1 .. n PROVE o[j] < x
      <4>1. CASE o[j] = Lagged
        BY <4>1, <1>0 DEF Lagged
      <4>2. CASE o[j] # Lagged
        <5>1. PICK k \in start + 1 .. end : At(o, j, r, k)
          BY <4>2, <1>3 DEF InOrder, n
        <5>2. k \in 1 .. Len(r) /\ r[k] = o[j] /\ k < end + 1
          BY <5>1 DEF At
        <5> QED
          BY <5>2, <1>0 DEF Increasing
      <4> QED
        BY <4>1, <4>2
    <3>2. \A j \in 1 .. i - 1 : p[j] < p[i]
      BY <3>1, <2>2, <1>0
    <3>3. end + 1 \in start + 1 .. end + 1
      OBVIOUS
    <3> QED
      BY <2>2, <3>2, <3>3, <1>1
  <2> QED
    BY <2>1, <2>2, <1>0
<1>4. ASSUME GapFree(o, r, start), UpToDate(o, r, start, end)
      PROVE  GapFree(p, r, start)
  <2> SUFFICES ASSUME NEW i \in 1 .. n + 1, p[i] # Lagged
               PROVE  IF i = 1 THEN At(p, i, r, start + 1)
                      ELSE p[i-1] # Lagged => \E k \in 1 .. Len(r) :
                              At(p, i - 1, r, k) /\ At(p, i, r, k + 1)
    BY <1>0 DEF GapFree
  <2>1. CASE i \in 1 .. n
    <3>1. o[i] = p[i] /\ (i # 1 => i - 1 \in 1 .. n /\ o[i-1] = p[i-1])
      BY <2>1, <1>0
    <3>2. IF i = 1 THEN At(o, i, r, start + 1)
          ELSE o[i-1] # Lagged => \E k \in 1 .. Len(r) :
                  At(o, i - 1, r, k) /\ At(o, i, r, k + 1)
      BY <2>1, <3>1, <1>4 DEF GapFree, n
    <3> QED
      BY <2>1, <3>1, <3>2, <1>2
  <2>2. CASE i = n + 1
    <3>1. CASE n = 0
      <4>1. o = <<>>
        BY <3>1 DEF n
      <4>2. end = start
        BY <4>1, <1>4 DEF UpToDate
      <4> QED
        BY <4>2, <3>1, <2>2, <1>1
    <3>2. CASE n # 0 /\ p[n] # Lagged
      <4>1. o # <<>> /\ n \in 1 .. n /\ p[n] = o[n]
        BY <3>2, <1>0 DEF n
      <4>2. At(o, n, r, end)
        BY <4>1, <3>2, <1>4 DEF UpToDate, n
      <4>3. end \in 1 .. Len(r) /\ At(p, n, r, end)
        BY <4>1, <4>2, <1>2 DEF At
      <4> QED
        BY <4>3, <3>2, <2>2, <1>1, <1>0
    <3> QED
      BY <3>1, <3>2, <2>2, <1>0
  <2> QED
    BY <2>1, <2>2, <1>0
<1>5. UpToDate(p, r, start, end + 1)
  BY <1>0, <1>1 DEF UpToDate
<1> QED
  BY <1>3, <1>4, <1>5 DEF p

(* So does a stream that reports a gap.                                    *)
LEMMA YieldLagged ==
    ASSUME NEW o \in Seq(Nat), NEW r \in Seq(Nat \ {0}),
           NEW start \in Nat, NEW end \in Nat, NEW end2 \in Nat
    PROVE  LET p == Append(o, Lagged)
           IN  /\ InOrder(o, r, start, end) => InOrder(p, r, start, end)
               /\ GapFree(o, r, start) => GapFree(p, r, start)
               /\ UpToDate(p, r, start, end2)
<1> DEFINE p == Append(o, Lagged)
           n == Len(o)
<1>0. /\ n \in Nat /\ Len(p) = n + 1 /\ p[n + 1] = Lagged /\ p # <<>>
      /\ \A i \in 1 .. n : p[i] = o[i]
  BY DEF Lagged
<1>1. \A i \in 1 .. n : \A k : At(o, i, r, k) <=> At(p, i, r, k)
  BY <1>0 DEF At
<1> HIDE DEF p, n
<1>2. \A i \in 1 .. Len(p) : p[i] # Lagged =>
         i \in 1 .. n /\ o[i] = p[i] /\ \A j \in 1 .. i : j \in 1 .. n /\ o[j] = p[j]
  BY <1>0
<1>3. ASSUME InOrder(o, r, start, end) PROVE InOrder(p, r, start, end)
  <2> SUFFICES ASSUME NEW i \in 1 .. Len(p), p[i] # Lagged
               PROVE  /\ \E k \in start + 1 .. end : At(p, i, r, k)
                      /\ \A j \in 1 .. i - 1 : p[j] < p[i]
    BY DEF InOrder
  <2>1. /\ \E k \in start + 1 .. end : At(o, i, r, k)
        /\ \A j \in 1 .. i - 1 : o[j] < o[i]
    <3>1. i \in 1 .. n /\ o[i] # Lagged
      BY <1>2
    <3> QED
      BY <3>1, <1>3 DEF InOrder, n
  <2>2. \A j \in 1 .. i - 1 : j \in 1 .. i
    BY <1>0
  <2>3. \A j \in 1 .. i - 1 : o[j] = p[j]
    BY <2>2, <1>2
  <2>4. i \in 1 .. n /\ o[i] = p[i]
    BY <1>2
  <2>5. \A j \in 1 .. i - 1 : p[j] < p[i]
    BY <2>1, <2>3, <2>4
  <2> QED
    BY <2>1, <2>4, <2>5, <1>1
<1>4. ASSUME GapFree(o, r, start) PROVE GapFree(p, r, start)
  <2> SUFFICES ASSUME NEW i \in 1 .. Len(p), p[i] # Lagged
               PROVE  IF i = 1 THEN At(p, i, r, start + 1)
                      ELSE p[i-1] # Lagged => \E k \in 1 .. Len(r) :
                              At(p, i - 1, r, k) /\ At(p, i, r, k + 1)
    BY DEF GapFree
  <2>1. i \in 1 .. n /\ o[i] = p[i] /\ (i # 1 => i - 1 \in 1 .. n /\ o[i-1] = p[i-1])
    BY <1>2, <1>0
  <2>2. IF i = 1 THEN At(o, i, r, start + 1)
        ELSE o[i-1] # Lagged => \E k \in 1 .. Len(r) :
                At(o, i - 1, r, k) /\ At(o, i, r, k + 1)
    BY <2>1, <1>4 DEF GapFree, n
  <2> QED
    BY <2>1, <2>2, <1>1
<1> QED
  BY <1>0, <1>3, <1>4 DEF UpToDate, p

(* What StreamInv says of one subscriber.                                  *)
StreamOf(u) ==
    /\ state[u] \in {"idle", "sending"} => out[u] = <<>>
    /\ state[u] # "idle" =>
          /\ joined[u] <= cursor[u]
          /\ cursor[u] <= Len(sent[chan[u]])
          /\ InOrder(out[u], sent[chan[u]], joined[u], cursor[u])
          /\ Kind[u] # "grpc" => GapFree(out[u], sent[chan[u]], joined[u])
    /\ state[u] \in {"sending", "streaming"} /\ Kind[u] # "grpc" =>
          UpToDate(out[u], sent[chan[u]], joined[u], cursor[u])

LEMMA StreamInvOf == StreamInv <=> \A u \in Subscribers : StreamOf(u)
BY DEF StreamInv, CursorInv, StreamsInOrder, NoSilentGap, StreamOf

(* Items and messages are numbers, messages positive ones.                 *)
LEMMA SeqTypes ==
    /\ Seq(MessageIds) \subseteq Seq(Nat \ {0})
    /\ Seq(MessageIds) \subseteq Seq(Nat)
    /\ Seq(MessageIds \cup {Lagged}) \subseteq Seq(Nat)
<1>1. MessageIds \subseteq Nat \ {0} /\ MessageIds \cup {Lagged} \subseteq Nat
  BY ConstantsAssumption DEF MessageIds, Lagged
<1>2. ASSUME NEW S, NEW T, S \subseteq T PROVE Seq(S) \subseteq Seq(T)
  BY <1>2
<1> QED
  BY <1>1, <1>2

(* The types that the lemmas on one stream ask for.                        *)
LEMMA StreamTypes ==
    ASSUME TypeOK
    PROVE  /\ \A u \in Subscribers :
                 /\ out[u] \in Seq(Nat) /\ cursor[u] \in Nat /\ joined[u] \in Nat
           /\ \A c \in Channels :
                 /\ sent[c] \in Seq(Nat \ {0}) /\ sent[c] \in Seq(Nat)
                 /\ Len(sent[c]) \in Nat
BY SeqTypes, SMTT(30) DEF TypeOK

(* A step that leaves the receiver and the items of u alone, and at most   *)
(* moves u from one open state to the next or ends its stream.             *)
LEMMA IdleStream ==
    ASSUME IInv, IInv', [Next]_vars, NEW u \in Subscribers, StreamOf(u),
           chan'[u] = chan[u], joined'[u] = joined[u], out'[u] = out[u],
           cursor'[u] = cursor[u],
           \/ state'[u] = state[u]
           \/ state[u] = "sending" /\ state'[u] \in {"streaming", "ended"}
           \/ state[u] = "streaming" /\ state'[u] = "ended"
    PROVE  StreamOf(u)'
<1>1. CASE state[u] = "idle"
  BY <1>1 DEF StreamOf
<1>2. CASE state[u] # "idle"
  <2>1. chan[u] \in Channels
    BY <1>2 DEF IInv, ControlInv, TypeOK
  <2>2. /\ Len(sent[chan[u]]) <= Len(sent'[chan[u]])
        /\ \A k \in 1 .. Len(sent[chan[u]]) : sent'[chan[u]][k] = sent[chan[u]][k]
    BY <2>1, RingsGrow DEF IInv
  <2>3. /\ out[u] \in Seq(Nat) /\ cursor[u] \in Nat /\ joined[u] \in Nat
        /\ sent[chan[u]] \in Seq(Nat) /\ Len(sent[chan[u]]) \in Nat
    BY <2>1, StreamTypes DEF IInv
  <2>4. sent'[chan[u]] \in Seq(Nat) /\ Len(sent'[chan[u]]) \in Nat
    BY <2>1, SeqTypes DEF IInv, TypeOK
  <2>5. /\ InOrder(out[u], sent[chan[u]], joined[u], cursor[u])
             => InOrder(out[u], sent'[chan[u]], joined[u], cursor[u])
        /\ GapFree(out[u], sent[chan[u]], joined[u])
             => GapFree(out[u], sent'[chan[u]], joined[u])
        /\ UpToDate(out[u], sent[chan[u]], joined[u], cursor[u])
             => UpToDate(out[u], sent'[chan[u]], joined[u], cursor[u])
    <3> DEFINE r == sent[chan[u]]
               s == sent'[chan[u]]
    <3>1. r \in Seq(Nat) /\ s \in Seq(Nat) /\ out[u] \in Seq(Nat)
          /\ Len(r) <= Len(s) /\ (\A k \in 1 .. Len(r) : s[k] = r[k])
          /\ cursor[u] \in Nat /\ joined[u] \in Nat /\ cursor[u] <= cursor[u]
      BY <2>2, <2>3, <2>4
    <3> HIDE DEF r, s
    <3>2. /\ InOrder(out[u], r, joined[u], cursor[u])
               => InOrder(out[u], s, joined[u], cursor[u])
          /\ GapFree(out[u], r, joined[u]) => GapFree(out[u], s, joined[u])
          /\ UpToDate(out[u], r, joined[u], cursor[u])
               => UpToDate(out[u], s, joined[u], cursor[u])
      BY <3>1, GrownRing
    <3> QED
      BY <3>2 DEF r, s
  <2>6. /\ joined[u] <= cursor[u] /\ cursor[u] <= Len(sent[chan[u]])
        /\ cursor[u] <= Len(sent'[chan[u]])
    BY <1>2, <2>2, <2>3, <2>4 DEF StreamOf
  <2>7. state'[u] \in {"idle", "sending"} => out'[u] = <<>>
    BY <1>2 DEF StreamOf
  <2>8. /\ joined'[u] <= cursor'[u] /\ cursor'[u] <= Len(sent'[chan'[u]])
        /\ InOrder(out'[u], sent'[chan'[u]], joined'[u], cursor'[u])
        /\ Kind[u] # "grpc" => GapFree(out'[u], sent'[chan'[u]], joined'[u])
    BY <1>2, <2>5, <2>6 DEF StreamOf
  <2>9. state'[u] \in {"sending", "streaming"} /\ Kind[u] # "grpc" =>
           UpToDate(out'[u], sent'[chan'[u]], joined'[u], cursor'[u])
    BY <1>2, <2>5 DEF StreamOf
  <2> QED
    BY <2>7, <2>8, <2>9 DEF StreamOf
<1> QED
  BY <1>1, <1>2

LEMMA StreamStep == IInv /\ IInv' /\ OrderInv /\ StreamInv /\ [Next]_vars => StreamInv'
<1> SUFFICES ASSUME IInv, IInv', OrderInv, [Next]_vars, NEW u \in Subscribers,
                    StreamOf(u)
             PROVE  StreamOf(u)'
  <2>1. StreamInv' <=> \A u \in Subscribers : StreamOf(u)'
    BY DEF StreamInv, CursorInv, StreamsInOrder, NoSilentGap, StreamOf
  <2> QED
    BY <2>1, StreamInvOf
<1>0. TypeOK /\ TypeOK'
  BY DEF IInv
<1> DEFINE Ring == sent[chan[u]]
<1>1. ASSUME NEW c \in Channels, SubscribeExisting(u, c) \/ SubscribeNew(u, c)
      PROVE  StreamOf(u)'
  <2>1. /\ chan'[u] = c /\ out'[u] = out[u] /\ sent' = sent
        /\ joined'[u] = Len(sent[c]) /\ cursor'[u] = Len(sent[c])
        /\ state[u] = "idle" /\ state'[u] # "idle"
    BY <1>0, <1>1 DEF SubscribeExisting, SubscribeNew, Attach, manager, TypeOK
  <2>2. out[u] = <<>> /\ Len(sent[c]) \in Nat
    BY <1>0, <2>1 DEF StreamOf, TypeOK
  <2> QED
    BY <2>1, <2>2 DEF StreamOf, InOrder, GapFree, UpToDate
<1>2. CASE Recv(u)
  <2>1. /\ state[u] = "streaming" /\ cursor[u] < Len(Ring) /\ sent' = sent
        /\ chan'[u] = chan[u] /\ joined'[u] = joined[u]
        /\ cursor'[u] = cursor[u] + 1
        /\ \/ /\ out'[u] = Append(out[u], Ring[cursor[u] + 1])
              /\ state'[u] = "streaming"
           \/ out'[u] = out[u] /\ state'[u] = "ended"
    BY <1>2, <1>0 DEF Recv, RingEnd, manager, TypeOK
  <2>2. chan[u] \in Channels
    BY <2>1 DEF IInv, ControlInv, TypeOK
  <2>3. /\ out[u] \in Seq(Nat) /\ cursor[u] \in Nat /\ joined[u] \in Nat
        /\ Ring \in Seq(Nat \ {0}) /\ Ring \in Seq(Nat) /\ Len(Ring) \in Nat
    BY <1>0, <2>2, StreamTypes
  <2>4. joined[u] <= cursor[u] /\ Increasing(Ring)
    BY <2>1, <2>2 DEF StreamOf, OrderInv, RingsKeepOrder
  <2>5. CASE out'[u] = Append(out[u], Ring[cursor[u] + 1]) /\ state'[u] = "streaming"
    <3>1. /\ InOrder(out'[u], Ring, joined[u], cursor[u] + 1)
          /\ Kind[u] # "grpc" => GapFree(out'[u], Ring, joined[u])
          /\ UpToDate(out'[u], Ring, joined[u], cursor[u] + 1)
      BY <2>1, <2>3, <2>4, <2>5, YieldNext DEF StreamOf
    <3> QED
      BY <2>1, <2>3, <2>4, <2>5, <3>1 DEF StreamOf
  <2>6. CASE out'[u] = out[u] /\ state'[u] = "ended"
    <3>1. InOrder(out[u], Ring, joined[u], cursor[u] + 1)
      <4>1. InOrder(out[u], Ring, joined[u], cursor[u])
        BY <2>1 DEF StreamOf
      <4>2. cursor[u] + 1 \in Nat /\ cursor[u] <= cursor[u] + 1
        BY <2>3
      <4> HIDE DEF Ring
      <4> QED
        BY <2>3, <4>1, <4>2, GrownRing
    <3> QED
      BY <2>1, <2>3, <2>4, <2>6, <3>1 DEF StreamOf
  <2> QED
    BY <2>1, <2>5, <2>6
<1>3. CASE RecvLagged(u)
  <2>1. /\ state[u] = "streaming" /\ Len(Ring) - cursor[u] > RingCap
        /\ sent' = sent /\ chan'[u] = chan[u] /\ joined'[u] = joined[u]
        /\ cursor'[u] = Len(Ring) - RingCap
        /\ out'[u] = IF Kind[u] = "http" THEN Append(out[u], Lagged) ELSE out[u]
        /\ state'[u] = IF Kind[u] = "ws" THEN "ended" ELSE "streaming"
    BY <1>3, <1>0 DEF RecvLagged, HasLagged, RingEnd, manager, TypeOK
  <2>2. chan[u] \in Channels
    BY <2>1 DEF IInv, ControlInv, TypeOK
  <2>3. /\ out[u] \in Seq(Nat) /\ cursor[u] \in Nat /\ joined[u] \in Nat
        /\ Ring \in Seq(Nat \ {0}) /\ Ring \in Seq(Nat) /\ Len(Ring) \in Nat
    BY <1>0, <2>2, StreamTypes
  <2>4. /\ joined[u] <= cursor[u]
        /\ InOrder(out[u], Ring, joined[u], cursor[u])
        /\ Kind[u] # "grpc" => GapFree(out[u], Ring, joined[u])
    BY <2>1 DEF StreamOf
  <2>5. /\ cursor'[u] \in Nat /\ cursor[u] <= cursor'[u]
        /\ joined'[u] <= cursor'[u] /\ cursor'[u] <= Len(Ring)
    <3>1. RingCap \in Nat
      BY ConstantsAssumption
    <3>2. /\ Len(Ring) - cursor[u] > RingCap /\ cursor'[u] = Len(Ring) - RingCap
          /\ joined'[u] = joined[u]
      BY <2>1
    <3> HIDE DEF Ring
    <3> QED
      BY <2>3, <2>4, <3>1, <3>2, SMTT(30)
  <2>6. InOrder(out[u], Ring, joined[u], cursor'[u])
    <3> HIDE DEF Ring
    <3> QED
      BY <2>3, <2>4, <2>5, GrownRing
  <2>7. CASE Kind[u] = "http"
    <3>1. /\ InOrder(out'[u], Ring, joined[u], cursor'[u])
          /\ GapFree(out'[u], Ring, joined[u])
          /\ UpToDate(out'[u], Ring, joined[u], cursor'[u])
      BY <2>1, <2>3, <2>4, <2>5, <2>6, <2>7, YieldLagged
    <3> QED
      BY <2>1, <2>5, <2>7, <3>1 DEF StreamOf
  <2>8. CASE Kind[u] # "http"
    <3>1. Kind[u] \in {"grpc", "ws"}
      BY <2>8, ConstantsAssumption
    <3> QED
      BY <2>1, <2>4, <2>5, <2>6, <2>8, <3>1 DEF StreamOf
  <2> QED
    BY <2>7, <2>8
<1>4. CASE /\ chan'[u] = chan[u] /\ joined'[u] = joined[u] /\ out'[u] = out[u]
           /\ cursor'[u] = cursor[u]
           /\ \/ state'[u] = state[u]
              \/ state[u] = "sending" /\ state'[u] \in {"streaming", "ended"}
              \/ state[u] = "streaming" /\ state'[u] = "ended"
  BY <1>4, IdleStream
<1>5. ASSUME NEW v \in Subscribers,
             \/ \E c \in Channels : SubscribeExisting(v, c) \/ SubscribeNew(v, c)
             \/ Recv(v) \/ RecvLagged(v)
      PROVE  StreamOf(u)'
  <2>1. CASE v = u
    BY <1>1, <1>2, <1>3, <1>5, <2>1
  <2>2. CASE v # u
    <3>1. /\ chan'[u] = chan[u] /\ joined'[u] = joined[u] /\ out'[u] = out[u]
          /\ cursor'[u] = cursor[u] /\ state'[u] = state[u]
      BY <1>0, <1>5, <2>2, ZenonT(40) DEF SubscribeExisting, SubscribeNew, Attach, Recv,
         RecvLagged, TypeOK
    <3> QED
      BY <3>1, <1>4
  <2> QED
    BY <2>1, <2>2
<1>6. ASSUME NEW v \in Subscribers,
             SendCommand(v) \/ CancelSubscribe(v) \/ Disconnect(v)
      PROVE  StreamOf(u)'
  BY <1>0, <1>4, <1>6 DEF SendCommand, CancelSubscribe, Disconnect, TypeOK
<1>7. CASE UNCHANGED subs
  BY <1>4, <1>7 DEF subs
<1> QED
  BY <1>5, <1>6, <1>7 DEF Next, Subscribe, Background, Connect, ConnectFails,
     TakeCommand, DrainDone, RedisSubscribe, RedisSubscribeFails,
     ReceiveMessage, ListenTimeout, StreamEnded, Dispatch, RedisMessage,
     ConnectionLost, vars

(* The streams of all three kinds yield the messages of their channel in   *)
(* order, and those of the HTTP modes and of the WebSocket forwarder never *)
(* skip one without saying so.                                             *)
THEOREM StreamCorrect == Spec => [](StreamsInOrder /\ NoSilentGap)
<1>1. Init => IInv /\ OrderInv /\ StreamInv
  BY InitIInv, InitOrder, InitStream
<1>2. IInv /\ OrderInv /\ StreamInv /\ [Next]_vars
         => IInv' /\ OrderInv' /\ StreamInv'
  BY TypeStep, ControlStep, CommandStep, DispatchStep, OrderStep, StreamStep
     DEF IInv
<1>3. StreamInv => StreamsInOrder /\ NoSilentGap
  BY DEF StreamInv
<1> QED
  BY <1>1, <1>2, <1>3, PTL DEF Spec

----------------------------------------------------------------------------
(* The refinement of ChannelStreams                                        *)

(* A subscriber has no channel until it has called subscribe.              *)
JoinInv == \A u \in Subscribers : state[u] = "idle" => chan[u] = None

LEMMA InitJoin == Init => JoinInv
BY DEF Init, JoinInv

LEMMA JoinStep == TypeOK /\ JoinInv /\ [Next]_vars => JoinInv'
<1> SUFFICES ASSUME TypeOK, JoinInv, [Next]_vars, NEW v \in Subscribers,
                    state'[v] = "idle"
             PROVE  chan'[v] = None
  BY DEF JoinInv
<1> USE DEF TypeOK, JoinInv
<1>1. ASSUME NEW u \in Subscribers, NEW c \in Channels,
             SubscribeExisting(u, c) \/ SubscribeNew(u, c)
      PROVE  chan'[v] = None
  BY <1>1 DEF SubscribeExisting, SubscribeNew, Attach
<1>2. ASSUME NEW u \in Subscribers,
             SendCommand(u) \/ CancelSubscribe(u) \/ Recv(u) \/ RecvLagged(u)
               \/ Disconnect(u)
      PROVE  chan'[v] = None
  BY <1>2 DEF SendCommand, CancelSubscribe, Recv, RecvLagged, Disconnect
<1>3. CASE UNCHANGED subs
  BY <1>3 DEF subs
<1> QED
  BY <1>1, <1>2, <1>3 DEF Next, Subscribe, Background, Connect, ConnectFails,
     TakeCommand, DrainDone, RedisSubscribe, RedisSubscribeFails,
     ReceiveMessage, ListenTimeout, StreamEnded, Dispatch, RedisMessage,
     ConnectionLost, vars

(* What the refinement mapping makes of the subscribers.                   *)
Open == [u \in Subscribers |-> state[u] # "ended"]
Pos == [u \in Subscribers |-> IF state[u] = "ended" THEN 0 ELSE cursor[u]]
GapRule == [u \in Subscribers |-> CASE Kind[u] = "http" -> "told"
                                 [] Kind[u] = "grpc" -> "silent"
                                 [] OTHER -> "ends"]

(* No stream has joined yet.                                               *)
LEMMA InitRefines == Init => Streams!Init
BY DEF Init, Streams!Init

(* A step that none of the streams sees.                                   *)
LEMMA HiddenStep ==
    ASSUME sent' = sent, chan' = chan, out' = out, cursor' = cursor,
           \A u \in Subscribers : state'[u] = "ended" <=> state[u] = "ended"
    PROVE  UNCHANGED Streams!vars
<1>1. Open' = Open /\ Pos' = Pos
  BY DEF Open, Pos
<1> QED
  BY <1>1 DEF Streams!vars, Open, Pos

(* subscribe, with or without a new entry of the map, joins the log.       *)
LEMMA JoinRefines ==
    ASSUME TypeOK, JoinInv, NEW u \in Subscribers, NEW c \in Channels,
           SubscribeExisting(u, c) \/ SubscribeNew(u, c)
    PROVE  Streams!Join(u, c)
<1> USE DEF TypeOK
<1>1. /\ state[u] = "idle" /\ state'[u] # "ended" /\ chan[u] = None
      /\ \A v \in Subscribers : v # u => state'[v] = state[v]
      /\ sent' = sent /\ out' = out /\ chan' = [chan EXCEPT ![u] = c]
      /\ cursor' = [cursor EXCEPT ![u] = Len(sent[c])]
  BY DEF SubscribeExisting, SubscribeNew, Attach, JoinInv, manager
<1>2. Open' = Open /\ Open[u]
  BY <1>1 DEF Open
<1>3. Pos' = [Pos EXCEPT ![u] = Len(sent[c])]
  BY <1>1 DEF Pos
<1> QED
  BY <1>1, <1>2, <1>3 DEF Streams!Join, Open, Pos

(* However a stream comes to its end, it ends for its consumer.            *)
LEMMA EndRefines ==
    ASSUME TypeOK, ControlInv, NEW u \in Subscribers,
           state[u] \notin {"idle", "ended"},
           state' = [state EXCEPT ![u] = "ended"], sent' = sent, chan' = chan,
           out' = out, \A v \in Subscribers : v # u => cursor'[v] = cursor[v]
    PROVE  Streams!End(u)
<1> USE DEF TypeOK
<1>1. Open[u] /\ chan[u] # None
  BY ConstantsAssumption DEF Open, ControlInv
<1>2. Open' = [Open EXCEPT ![u] = FALSE]
  BY DEF Open
<1>3. Pos' = [Pos EXCEPT ![u] = 0]
  BY DEF Pos
<1> QED
  BY <1>1, <1>2, <1>3 DEF Streams!End, Streams!Reading, Open, Pos

(* recv of a message that the ring still has.                              *)
LEMMA GiveRefines ==
    ASSUME TypeOK, ControlInv, CursorInv, NEW u \in Subscribers, Recv(u),
           socket[u] = "open"
    PROVE  Streams!Give(u)
<1> USE DEF TypeOK
<1>1. /\ state[u] = "streaming" /\ state' = state /\ sent' = sent
      /\ chan' = chan /\ cursor' = [cursor EXCEPT ![u] = @ + 1]
      /\ cursor[u] < Len(sent[chan[u]])
      /\ ~(Len(sent[chan[u]]) - cursor[u] > RingCap)
      /\ out' = [out EXCEPT ![u] = Append(@, sent[chan[u]][cursor[u] + 1])]
  BY DEF Recv, RingEnd, HasLagged, manager
<1>2. chan[u] \in Channels /\ chan[u] # None /\ cursor[u] \in Nat
  BY <1>1, ConstantsAssumption DEF ControlInv
<1>3. Len(sent[chan[u]]) - cursor[u] \in 1 .. RingCap
  <2> HIDE DEF TypeOK
  <2>1. Len(sent[chan[u]]) \in Nat
    BY <1>2, StreamTypes
  <2> QED
    BY <1>1, <1>2, <2>1, ConstantsAssumption
<1>4. Open' = Open /\ Open[u] /\ Pos[u] = cursor[u]
  BY <1>1 DEF Open, Pos
<1>5. Pos' = [Pos EXCEPT ![u] = @ + 1]
  BY <1>1, <1>4 DEF Pos
<1> QED
  BY <1>1, <1>2, <1>3, <1>4, <1>5
     DEF Streams!Give, Streams!Reading, Streams!Behind, Open, Pos

(* recv of RecvError::Lagged.                                              *)
LEMMA MoveOnRefines ==
    ASSUME TypeOK, ControlInv, NEW u \in Subscribers, RecvLagged(u),
           Kind[u] # "ws"
    PROVE  Streams!MoveOn(u)
<1> USE DEF TypeOK
<1>1. /\ state[u] = "streaming" /\ state' = state /\ sent' = sent
      /\ chan' = chan /\ Len(sent[chan[u]]) - cursor[u] > RingCap
      /\ cursor' = [cursor EXCEPT ![u] = Len(sent[chan[u]]) - RingCap]
      /\ out' = IF Kind[u] = "http" THEN [out EXCEPT ![u] = Append(@, Lagged)]
                                    ELSE out
  BY DEF RecvLagged, RingEnd, HasLagged, manager
<1>2. chan[u] # None
  BY <1>1, ConstantsAssumption DEF ControlInv
<1>3. GapRule[u] = IF Kind[u] = "http" THEN "told" ELSE "silent"
  BY ConstantsAssumption DEF GapRule
<1>4. Open' = Open /\ Open[u] /\ Pos[u] = cursor[u]
  BY <1>1 DEF Open, Pos
<1>5. Pos' = [Pos EXCEPT ![u] = Len(sent[chan[u]]) - RingCap]
  BY <1>1, <1>4 DEF Pos
<1> QED
  BY <1>1, <1>2, <1>3, <1>4, <1>5
     DEF Streams!MoveOn, Streams!Reading, Streams!Behind, Open, Pos, GapRule

(* The dispatch of a message, which is younger than all of its ring.       *)
LEMMA PublishRefines ==
    ASSUME TypeOK, ControlInv, DispatchFindsSender, RingsKeepOrder, Dispatch
    PROVE  Streams!Publish(inHand.ch, inHand.id)
           /\ inHand.ch \in Channels /\ inHand.id \in MessageIds
<1>1. /\ pc = "dispatch" /\ inHand.ch \in mapped
      /\ inHand.ch \in Channels /\ inHand.id \in MessageIds
  BY DEF Dispatch, DispatchFindsSender, ControlInv, Message
<1>2. /\ sent' = [sent EXCEPT ![inHand.ch] = Append(@, inHand.id)]
      /\ state' = state /\ chan' = chan /\ cursor' = cursor /\ out' = out
  BY <1>1 DEF Dispatch, subs
<1>3. Open' = Open /\ Pos' = Pos
  BY <1>2 DEF Open, Pos
<1>4. \A i \in 1 .. Len(sent[inHand.ch]) : sent[inHand.ch][i] < inHand.id
  BY <1>1 DEF RingsKeepOrder
<1> QED
  BY <1>1, <1>2, <1>3, <1>4 DEF Streams!Publish, Open, Pos

(* Each step of the bridge is a step of the streams, or none of them sees  *)
(* it.                                                                     *)
LEMMA StepRefines ==
    IInv /\ OrderInv /\ StreamInv /\ JoinInv /\ [Next]_vars
       => [Streams!Next]_(Streams!vars)
<1> SUFFICES ASSUME IInv, OrderInv, StreamInv, JoinInv, [Next]_vars
             PROVE  Streams!Next \/ UNCHANGED Streams!vars
  OBVIOUS
<1>0. /\ TypeOK /\ ControlInv /\ DispatchFindsSender /\ RingsKeepOrder
      /\ CursorInv
  BY DEF IInv, OrderInv, StreamInv
<1>1. ASSUME NEW u \in Subscribers, NEW c \in Channels,
             SubscribeExisting(u, c) \/ SubscribeNew(u, c)
      PROVE  Streams!Next
  BY <1>0, <1>1, JoinRefines DEF Streams!Next
<1>2. ASSUME NEW u \in Subscribers, SendCommand(u)
      PROVE  UNCHANGED Streams!vars
  <2>1. /\ sent' = sent /\ chan' = chan /\ out' = out /\ cursor' = cursor
        /\ \A v \in Subscribers : state'[v] = "ended" <=> state[v] = "ended"
    BY <1>0, <1>2 DEF SendCommand, TypeOK
  <2> QED
    BY <2>1, HiddenStep
<1>3. ASSUME NEW u \in Subscribers, CancelSubscribe(u) PROVE Streams!Next
  <2>1. Streams!End(u)
    BY <1>0, <1>3, EndRefines DEF CancelSubscribe
  <2> QED
    BY <2>1 DEF Streams!Next
<1>4. ASSUME NEW u \in Subscribers, Recv(u) PROVE Streams!Next
  <2>1. CASE socket[u] = "open"
    BY <1>0, <1>4, <2>1, GiveRefines DEF Streams!Next
  <2>2. CASE socket[u] # "open"
    <3>1. /\ state[u] = "streaming" /\ state' = [state EXCEPT ![u] = "ended"]
          /\ sent' = sent /\ chan' = chan /\ out' = out
          /\ \A v \in Subscribers : v # u => cursor'[v] = cursor[v]
      BY <1>0, <1>4, <2>2 DEF Recv, manager, TypeOK
    <3> QED
      BY <1>0, <3>1, EndRefines DEF Streams!Next
  <2> QED
    BY <2>1, <2>2
<1>5. ASSUME NEW u \in Subscribers, RecvLagged(u) PROVE Streams!Next
  <2>1. CASE Kind[u] # "ws"
    BY <1>0, <1>5, <2>1, MoveOnRefines DEF Streams!Next
  <2>2. CASE Kind[u] = "ws"
    <3>1. /\ state[u] = "streaming" /\ state' = [state EXCEPT ![u] = "ended"]
          /\ sent' = sent /\ chan' = chan /\ out' = out
          /\ \A v \in Subscribers : v # u => cursor'[v] = cursor[v]
      BY <1>0, <1>5, <2>2 DEF RecvLagged, manager, TypeOK
    <3> QED
      BY <1>0, <3>1, EndRefines DEF Streams!Next
  <2> QED
    BY <2>1, <2>2
<1>6. ASSUME NEW u \in Subscribers, Disconnect(u)
      PROVE  Streams!Next \/ UNCHANGED Streams!vars
  <2>1. /\ state[u] = "streaming" /\ sent' = sent /\ chan' = chan
        /\ out' = out /\ cursor' = cursor
    BY <1>6 DEF Disconnect, manager
  <2>2. CASE state' = [state EXCEPT ![u] = "ended"]
    BY <1>0, <2>1, <2>2, EndRefines DEF Streams!Next
  <2>3. CASE state' = state
    BY <2>1, <2>3, HiddenStep
  <2> QED
    BY <1>6, <2>2, <2>3 DEF Disconnect
<1>7. CASE Dispatch
  BY <1>0, <1>7, PublishRefines DEF Streams!Next
<1>8. CASE UNCHANGED <<sent, subs>>
  BY <1>8, HiddenStep DEF subs
<1> QED
  BY <1>1, <1>2, <1>3, <1>4, <1>5, <1>6, <1>7, <1>8
     DEF Next, Subscribe, Background, Connect, ConnectFails, TakeCommand,
     DrainDone, RedisSubscribe, RedisSubscribeFails, ReceiveMessage,
     ListenTimeout, StreamEnded, RedisMessage, ConnectionLost, vars, manager

(* The map, the lock, the queue, the task and its rings together give each *)
(* consumer a log in the order of publication: PubSubManager implements    *)
(* ChannelStreams, for any number of subscribers, channels and messages    *)
(* and any capacity of the queue and of the rings.                         *)
THEOREM Refinement == Spec => ImplementsStreams
<1>1. Init => Streams!Init
  BY InitRefines
<1>2. Init => IInv /\ OrderInv /\ StreamInv /\ JoinInv
  BY InitIInv, InitOrder, InitStream, InitJoin
<1>3. IInv /\ OrderInv /\ StreamInv /\ JoinInv /\ [Next]_vars
         => IInv' /\ OrderInv' /\ StreamInv' /\ JoinInv'
  BY TypeStep, ControlStep, CommandStep, DispatchStep, OrderStep, StreamStep,
     JoinStep DEF IInv
<1> QED
  BY <1>1, <1>2, <1>3, StepRefines, PTL DEF Spec, ImplementsStreams, Streams!Spec
============================================================================
