---------------------------- MODULE BenchStreams ---------------------------
(***************************************************************************)
(* The streaming workloads, over SSE and over gRPC events alike.  Redis    *)
(* has a subscription only some time after the server has answered it, so  *)
(* both publish a sentinel until one comes back.  A startup operation then *)
(* does the same with its payload.  The delivery workload sends its        *)
(* warm-up messages one by one, and then a task publishes the measured     *)
(* ones, at most Window of them under way, while the reader counts them.   *)
(***************************************************************************)
EXTENDS BenchPlan

CONSTANTS
    Attempts,         \* STREAM_READY_ATTEMPTS
    Window,           \* STREAM_MAX_IN_FLIGHT_MESSAGES
    WarmupMessages,   \* messages before those that are measured
    MeasuredMessages  \* messages that are measured

VARIABLES
    reader,     \* the workload: place, count, attempts, successes and errors
    stream,     \* messages published on the subscription and not yet read
    live,       \* Redis has the subscription
    sender,     \* the task that publishes the measured messages
    send_times  \* the messages that have a timestamp

ASSUME StreamsAssumption ==
    /\ Window \in Nat \ {0} /\ Attempts \in Nat
    /\ WarmupMessages \in Nat /\ MeasuredMessages \in Nat

streamVars == <<reader, stream, live, sender, send_times>>

NoReader == [pc |-> "off", n |-> 0, attempt |-> 0, success |-> 0, errors |-> 0,
             late |-> FALSE, why |-> ""]
NoSender == [pc |-> "off", idx |-> 0]

StreamsOff ==
    /\ reader = NoReader /\ stream = <<>> /\ live = FALSE
    /\ sender = NoSender /\ send_times = {}
StartStreams ==
    /\ reader' = [NoReader EXCEPT !.pc = "open"]
    /\ UNCHANGED <<stream, live, sender, send_times>>
(* The end of a workload drops its subscription and its timestamps; the    *)
(* publisher task of one that has failed goes unnoticed from then on.      *)
StopStreams(why) ==
    /\ reader' = [NoReader EXCEPT !.why = why, !.late = reader.late]
    /\ stream' = <<>> /\ live' = FALSE /\ sender' = NoSender /\ send_times' = {}

IsStartup == work.name = "subscribe_startup"
Sentinel == <<"ready", 0>>
Payload == <<"payload", reader.n>>

StreamEnds(r, why) ==
    result' = r /\ StopStreams(why) /\ UNCHANGED <<work, server, cached>>
StreamGoesOn == UNCHANGED <<work, result, server, cached>>

Misfortune == faults < MaxFaults /\ faults' = faults + 1

----------------------------------------------------------------------------
(* One operation, of a startup workload, is over.  Until the warm-ups are  *)
(* done an error fails the workload; afterwards it is counted.             *)
OperationOk ==
    /\ reader' = [NoReader EXCEPT !.pc = "subscribe", !.n = reader.n + 1,
                    !.success = IF reader.n < WarmupOps THEN 0 ELSE reader.success + 1,
                    !.errors = reader.errors]
    /\ stream' = <<>> /\ live' = FALSE
    /\ UNCHANGED <<sender, send_times>> /\ StreamGoesOn
OperationErr ==
    IF ~IsStartup \/ reader.n < WarmupOps THEN StreamEnds(Failed, "error")
      ELSE /\ reader' = [NoReader EXCEPT !.pc = "subscribe", !.n = reader.n + 1,
                           !.success = reader.success, !.errors = reader.errors + 1]
           /\ stream' = <<>> /\ live' = FALSE
           /\ UNCHANGED <<sender, send_times>> /\ StreamGoesOn

Go(pc) == reader' = [reader EXCEPT !.pc = pc]
Retry(pc, late) ==
    reader' = [reader EXCEPT !.pc = pc, !.attempt = @ + 1, !.late = @ \/ late]

Finished == IsStartup /\ reader.n = WarmupOps + MeasuredOps

FinishStartup ==
    /\ reader.pc = "subscribe" /\ Finished
    /\ StreamEnds(summarize_metrics(MeasuredOps, reader.success, reader.errors), "")
    /\ UNCHANGED faults

(* redis_connection, for the messages that the reader publishes itself.    *)
redis_connection ==
    /\ reader.pc = "open"
    /\ \/ /\ Go("subscribe")
          /\ UNCHANGED <<stream, live, sender, send_times, faults>> /\ StreamGoesOn
       \/ Misfortune /\ StreamEnds(Failed, "error")

(* Nothing limits the time that the answer to a subscription may take.     *)
Subscribe ==
    /\ reader.pc = "subscribe" /\ ~Finished
    /\ \/ /\ Answering
          /\ Go("announce")
          /\ UNCHANGED <<stream, live, sender, send_times, faults>> /\ StreamGoesOn
       \/ port.by = "nobody" /\ OperationErr /\ UNCHANGED faults
       \/ Answering /\ Misfortune /\ OperationErr

(* Redis takes notice of the subscription.                                 *)
GoesLive ==
    /\ reader.pc \notin {"off", "open", "subscribe"} /\ ~live /\ Answering
    /\ live' = TRUE
    /\ UNCHANGED <<reader, stream, sender, send_times, faults>> /\ StreamGoesOn

(* A message gets through if it is published to the Redis of the server.   *)
Delivered(payload) ==
    IF live /\ Answering /\ job.same THEN Append(stream, payload) ELSE stream

(* Whoever else has the port may send anything, and what is expected too.  *)
StrangerSends ==
    /\ Stranger /\ Answering /\ reader.pc \notin {"off", "open", "subscribe"}
    /\ Misfortune
    /\ \E m \in {Sentinel, Payload} \cup ({"measured"} \X send_times) :
         stream' = Append(stream, m)
    /\ UNCHANGED <<reader, live, sender, send_times>> /\ StreamGoesOn

(* publish_message, from one of the two connections to Redis.              *)
publish_message(from, payload, to) ==
    /\ reader.pc = from /\ reader.attempt < Attempts
    /\ \/ /\ stream' = Delivered(payload)
          /\ Go(to)
          /\ UNCHANGED <<live, sender, send_times, faults>> /\ StreamGoesOn
       \/ Misfortune /\ OperationErr

PublishSentinel == publish_message("announce", Sentinel, "listen")
PublishPayload == publish_message("send", Payload, "await")

GiveUp ==
    /\ reader.pc \in {"announce", "send"} /\ reader.attempt = Attempts
    /\ OperationErr /\ UNCHANGED faults

(* A message is there to be read; a read fails when none will come, when   *)
(* the server has gone and its stream has ended, or when the message takes *)
(* longer than the time limit.                                             *)
SenderStuck ==
    \/ sender.pc \in {"off", "ended", "failed"}
    \/ sender.pc = "wait" /\ Cardinality(send_times) >= Window
NoneComes == ~Up \/ (stream = <<>> /\ SenderStuck)
ReadFails ==
    \/ NoneComes /\ UNCHANGED faults
    \/ ~NoneComes /\ Misfortune

wait_for_subscription_ready ==
    /\ reader.pc = "listen"
    /\ \/ /\ stream # <<>>
          /\ stream' = Tail(stream)
          /\ IF Head(stream) = Sentinel
               THEN reader' = [reader EXCEPT !.pc = IF IsStartup THEN "send" ELSE "warm",
                                             !.attempt = 0]
               ELSE Retry("announce", FALSE)
          /\ UNCHANGED faults
       \/ ReadFails /\ Retry("announce", stream # <<>>) /\ UNCHANGED stream
    /\ UNCHANGED <<live, sender, send_times>> /\ StreamGoesOn

measure_startup_once ==
    /\ reader.pc = "await"
    /\ \/ /\ stream # <<>> /\ Head(stream) = Payload
          /\ OperationOk /\ UNCHANGED faults
       \/ /\ stream # <<>> /\ Head(stream) # Payload
          /\ stream' = Tail(stream)
          /\ Retry("send", FALSE)
          /\ UNCHANGED <<live, sender, send_times, faults>> /\ StreamGoesOn
       \/ /\ ReadFails
          /\ Retry("send", stream # <<>>)
          /\ UNCHANGED <<stream, live, sender, send_times>> /\ StreamGoesOn

----------------------------------------------------------------------------
(* The delivery workload: a warm-up message is published and any message   *)
(* at all is read, ...                                                     *)
PublishWarmup ==
    reader.n < WarmupMessages /\ publish_message("warm", <<"warmup", reader.n>>, "warmed")

ReadWarmup ==
    /\ reader.pc = "warmed"
    /\ \/ /\ stream # <<>>
          /\ stream' = Tail(stream)
          /\ reader' = [reader EXCEPT !.pc = "warm", !.n = @ + 1]
          /\ UNCHANGED <<live, sender, send_times, faults>> /\ StreamGoesOn
       \/ ReadFails /\ StreamEnds(Failed, "error")

(* ... and the publisher starts.                                           *)
SpawnSender ==
    /\ reader.pc = "warm" /\ reader.n = WarmupMessages
    /\ \/ /\ reader' = [reader EXCEPT !.pc = "measure", !.n = 0]
          /\ sender' = [pc |-> "wait", idx |-> 0]
          /\ UNCHANGED <<stream, live, send_times, faults>> /\ StreamGoesOn
       \/ Misfortune /\ StreamEnds(Failed, "error")

(* Mutants: nobody waits for room; ...                                     *)
StampAnyway ==
    /\ sender.pc = "wait"
    /\ IF sender.idx = MeasuredMessages
         THEN sender' = [sender EXCEPT !.pc = "ended"] /\ UNCHANGED send_times
         ELSE /\ send_times' = send_times \cup {sender.idx}
              /\ sender' = [sender EXCEPT !.pc = "publish"]
    /\ UNCHANGED <<reader, stream, live, faults>> /\ StreamGoesOn
(* ... the message is published first, its timestamp taken after.          *)
StampLate ==
    \/ /\ sender.pc = "wait"
       /\ IF sender.idx = MeasuredMessages
            THEN sender' = [sender EXCEPT !.pc = "ended"] /\ UNCHANGED stream
            ELSE /\ Cardinality(send_times) < Window
                 /\ stream' = Delivered(<<"measured", sender.idx>>)
                 /\ sender' = [sender EXCEPT !.pc = "stamp"]
       /\ UNCHANGED <<reader, live, send_times, faults>> /\ StreamGoesOn
    \/ /\ sender.pc = "stamp"
       /\ send_times' = send_times \cup {sender.idx}
       /\ sender' = [pc |-> "wait", idx |-> sender.idx + 1]
       /\ UNCHANGED <<reader, stream, live, faults>> /\ StreamGoesOn

(* It waits for room in the window, which it may do for ever, and takes    *)
(* the time.                                                               *)
Stamp ==
    /\ sender.pc = "wait"
    /\ IF sender.idx = MeasuredMessages
         THEN sender' = [sender EXCEPT !.pc = "ended"] /\ UNCHANGED send_times
         ELSE /\ Cardinality(send_times) < Window
              /\ send_times' = send_times \cup {sender.idx}
              /\ sender' = [sender EXCEPT !.pc = "publish"]
    /\ UNCHANGED <<reader, stream, live, faults>> /\ StreamGoesOn

PublishMeasured ==
    /\ sender.pc = "publish"
    /\ \/ /\ stream' = Delivered(<<"measured", sender.idx>>)
          /\ sender' = [pc |-> "wait", idx |-> sender.idx + 1]
          /\ UNCHANGED faults
       \/ /\ Misfortune
          /\ sender' = [sender EXCEPT !.pc = "failed"]
          /\ UNCHANGED stream
    /\ UNCHANGED <<reader, live, send_times>> /\ StreamGoesOn

(* A measured message has to be a number, and to have a timestamp.         *)
WhyNot(message) ==
    IF message[1] # "measured" THEN "alien"
      ELSE IF message[2] \notin send_times THEN "no timestamp" ELSE ""
ReadMeasured ==
    /\ reader.pc = "measure" /\ reader.n < MeasuredMessages
    /\ \/ /\ stream # <<>> /\ WhyNot(Head(stream)) # ""
          /\ StreamEnds(Failed, WhyNot(Head(stream))) /\ UNCHANGED faults
       \/ /\ stream # <<>> /\ WhyNot(Head(stream)) = ""
          /\ send_times' = send_times \ {Head(stream)[2]}
          /\ stream' = Tail(stream)
          /\ reader' = [reader EXCEPT !.n = @ + 1, !.success = @ + 1]
          /\ UNCHANGED <<live, sender, faults>> /\ StreamGoesOn
       \/ /\ ReadFails
          /\ reader' = [reader EXCEPT !.n = @ + 1, !.errors = @ + 1]
          /\ UNCHANGED <<stream, live, sender, send_times>> /\ StreamGoesOn

(* The workload then waits for the publisher, however long that takes.     *)
JoinSender ==
    /\ reader.pc = "measure" /\ reader.n = MeasuredMessages
    /\ \/ /\ sender.pc = "ended"
          /\ StreamEnds(summarize_metrics(MeasuredMessages, reader.success, reader.errors), "")
       \/ sender.pc = "failed" /\ StreamEnds(Failed, "error")
    /\ UNCHANGED faults

(* A message is lost: the server drops what is not fetched in time, and    *)
(* the reader of an SSE chunk drops what comes behind its first payload.   *)
Lose ==
    /\ stream # <<>> /\ Misfortune
    /\ stream' = Tail(stream)
    /\ UNCHANGED <<reader, live, sender, send_times>> /\ StreamGoesOn

StreamsNext ==
    \/ redis_connection \/ FinishStartup \/ Subscribe \/ GoesLive \/ StrangerSends
    \/ PublishSentinel \/ PublishPayload \/ GiveUp
    \/ wait_for_subscription_ready \/ measure_startup_once
    \/ PublishWarmup \/ ReadWarmup \/ SpawnSender
    \/ Stamp \/ PublishMeasured \/ ReadMeasured \/ JoinSender \/ Lose

----------------------------------------------------------------------------
(* The publisher has no room, and nobody reads any more.                   *)
Spinning ==
    /\ reader.pc = "measure" /\ reader.n = MeasuredMessages
    /\ sender.pc = "wait" /\ sender.idx < MeasuredMessages
    /\ Cardinality(send_times) >= Window

(* If the server that was launched has the port, whatever the reader of    *)
(* measured messages finds has a timestamp, and it finds a message of an   *)
(* earlier phase only if the wait for the sentinel had given up on one     *)
(* that was still to come.                                                 *)
CleanHandOver ==
    ~Stranger => /\ reader.why # "no timestamp"
                 /\ reader.why = "alien" => reader.late
============================================================================
