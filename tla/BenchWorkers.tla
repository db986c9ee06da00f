---------------------------- MODULE BenchWorkers ---------------------------
(***************************************************************************)
(* A command workload: the warm-up, then concurrent workers that take the  *)
(* operations from a shared counter until they are used up.  A worker of a *)
(* gRPC or WebSocket workload has a connection of its own.  On a WebSocket *)
(* nothing ties a reply to its request but their order: a reply that came  *)
(* too late for one operation is the next one's.  What a reply says is not *)
(* looked at, but for the status of an HTTP response or a gRPC call.       *)
(***************************************************************************)
EXTENDS BenchPlan

VARIABLES
    pool,   \* the shared state of the workload: stage, warm-ups done, counters
    wk,     \* wk[w]: the task of worker w
    sock    \* sock[w]: its WebSocket, requests under way and replies to read

workerVars == <<pool, wk, sock>>

Fresh(over) ==
    [pc |-> IF over = "http" THEN "claim" ELSE "connect",
     idx |-> 0, step |-> 1, flaws |-> {}, late |-> FALSE]
NoSocket == [asked |-> <<>>, replies |-> <<>>]
NoPool == [stage |-> "off", warm |-> 0, counter |-> 0, success |-> 0, errors |-> 0]

WorkersOff ==
    /\ pool = NoPool
    /\ wk = [w \in Workers |-> Fresh("")]
    /\ sock = [w \in Workers |-> NoSocket]
StartWorkers(over) ==
    /\ pool' = [NoPool EXCEPT !.stage = "warmup"]
    /\ wk' = [w \in Workers |-> Fresh(over)]
    /\ sock' = [w \in Workers |-> NoSocket]
StopWorkers ==
    /\ pool' = NoPool
    /\ wk' = [w \in Workers |-> Fresh("")]
    /\ sock' = [w \in Workers |-> NoSocket]

(* Something goes wrong: nobody listens, or (a bounded number of times)    *)
(* the request or the connection fails on its own.                         *)
Fault ==
    \/ port.by = "nobody" /\ UNCHANGED faults
    \/ Answering /\ faults < MaxFaults /\ faults' = faults + 1
(* Who is mute is waited for: thirty seconds by the HTTP client, five for  *)
(* a text on a WebSocket, and for ever by a gRPC call or by the handshake  *)
(* of a WebSocket.                                                         *)
TimesOut == port.mute /\ UNCHANGED faults

EndWork(r) == result' = r /\ StopWorkers /\ UNCHANGED <<work, server, cached>>
Continue == UNCHANGED <<work, result, server, cached>>

----------------------------------------------------------------------------
(* The warm-up is sequential, and an error in it fails the workload.       *)
WarmUp ==
    /\ pool.stage = "warmup"
    /\ \/ /\ pool.warm < WarmupOps /\ Answering
          /\ pool' = [pool EXCEPT !.warm = @ + 1]
          /\ UNCHANGED <<wk, sock, faults>> /\ Continue
       \/ pool.warm < WarmupOps /\ Fault /\ EndWork(Failed)
       \/ /\ pool.warm < WarmupOps /\ work.over = "http"
          /\ TimesOut /\ EndWork(Failed)
       \/ /\ pool.warm = WarmupOps
          /\ pool' = [pool EXCEPT !.stage = "measure"]
          /\ UNCHANGED <<wk, sock, faults>> /\ Continue

----------------------------------------------------------------------------
At(w, pc) == pool.stage = "measure" /\ wk[w].pc = pc
Goto(w, pc) == wk' = [wk EXCEPT ![w].pc = pc]

(* A gRPC channel is there once the connection is accepted, a WebSocket    *)
(* once the handshake is answered.                                         *)
Connect(w) ==
    /\ At(w, "connect")
    /\ \/ /\ Answering \/ (work.over = "grpc" /\ port.mute)
          /\ Goto(w, "claim") /\ UNCHANGED faults
       \/ Fault /\ Goto(w, "failed")
    /\ UNCHANGED <<pool, sock>> /\ Continue

(* Mutant: the comparison with measured_ops is off by one.                 *)
ClaimOneMore(w) ==
    /\ At(w, "claim")
    /\ pool' = [pool EXCEPT !.counter = @ + 1]
    /\ IF pool.counter > MeasuredOps
         THEN Goto(w, "ended")
         ELSE wk' = [wk EXCEPT ![w] = [@ EXCEPT !.pc = "op", !.idx = pool.counter,
                                                !.step = 1, !.flaws = {}]]
    /\ UNCHANGED <<sock, faults>> /\ Continue

(* fetch_add: the index is the worker's own.                               *)
Claim(w) ==
    /\ At(w, "claim")
    /\ pool' = [pool EXCEPT !.counter = @ + 1]
    /\ IF pool.counter >= MeasuredOps
         THEN Goto(w, "ended")
         ELSE wk' = [wk EXCEPT ![w] = [@ EXCEPT !.pc = "op", !.idx = pool.counter,
                                                !.step = 1, !.flaws = {}]]
    /\ UNCHANGED <<sock, faults>> /\ Continue

Requests(w) == Operation(work.name, w, wk[w].idx)
Hits(request) == \A k \in request.keys : IsCacheKey(k) => k \in cached
Refusal(request) == IF request.command = "SET" THEN "unwritten" ELSE "unread"

(* A reply ends the step: the next request, or the end of the operation.   *)
(* What is wrong with it goes unnoticed.                                   *)
Replied(w, flaws) ==
    LET last == wk[w].step = Len(Requests(w))
        missed == IF Hits(Requests(w)[wk[w].step]) THEN {} ELSE {"missed"}
    IN  wk' = [wk EXCEPT ![w].pc = IF last THEN "count" ELSE "op",
                         ![w].step = IF last THEN @ ELSE @ + 1,
                         ![w].flaws = @ \cup flaws \cup missed]
Erred(w, late) ==
    /\ wk' = [wk EXCEPT ![w].pc = "claim", ![w].late = @ \/ late]
    /\ pool' = [pool EXCEPT !.errors = @ + 1]

(* All requests over HTTP but SET ask for .raw, where the refusal of Redis *)
(* has status 200.                                                         *)
HidesRefusal(over, request) == over = "http" /\ request.command # "SET"

(* A request over HTTP or gRPC and its own reply; an error ends the        *)
(* operation, so that a SET that has failed is not followed by its GET.    *)
Call(w) ==
    /\ At(w, "op") /\ work.over \in {"http", "grpc"}
    /\ \/ Answering /\ Replied(w, {}) /\ UNCHANGED <<pool, faults>>
       \/ /\ HidesRefusal(work.over, Requests(w)[wk[w].step])
          /\ Answering /\ faults < MaxFaults /\ faults' = faults + 1
          /\ Replied(w, {Refusal(Requests(w)[wk[w].step])}) /\ UNCHANGED pool
       \/ Fault /\ Erred(w, FALSE)
       \/ work.over = "http" /\ TimesOut /\ Erred(w, FALSE)
    /\ UNCHANGED sock /\ Continue

(* A message over a WebSocket, ...                                         *)
Send(w) ==
    /\ At(w, "op") /\ work.over = "ws"
    /\ \/ /\ port.by # "nobody"
          /\ sock' = [sock EXCEPT ![w].asked = Append(@, <<wk[w].idx, wk[w].step>>)]
          /\ Goto(w, "read")
          /\ UNCHANGED <<pool, faults>>
       \/ Fault /\ Erred(w, FALSE) /\ UNCHANGED sock
    /\ Continue

(* ... the answer, some time later, which may be the text of an error, ... *)
Respond(w) ==
    /\ Answering /\ sock[w].asked # <<>>
    /\ \E refused \in BOOLEAN :
         /\ IF refused THEN faults < MaxFaults /\ faults' = faults + 1
                       ELSE UNCHANGED faults
         /\ sock' = [sock EXCEPT ![w] =
                       [asked |-> Tail(@.asked),
                        replies |-> Append(@.replies,
                                           [to |-> Head(@.asked), refused |-> refused])]]
    /\ UNCHANGED <<pool, wk>> /\ Continue

(* ... and the next text on the socket, which is taken for the reply.      *)
(* After the time limit the operation is an error and its reply is left to *)
(* come.                                                                   *)
FlawsOf(w, reply) ==
    {f \in {"shifted", "unread", "unwritten"} :
       \/ f = "shifted" /\ reply.to # <<wk[w].idx, wk[w].step>>
       \/ reply.refused /\ f = Refusal(Operation(work.name, w, reply.to[1])[reply.to[2]])}
next_websocket_text(w) ==
    /\ At(w, "read")
    /\ \/ /\ sock[w].replies # <<>>
          /\ sock' = [sock EXCEPT ![w].replies = Tail(@)]
          /\ Replied(w, FlawsOf(w, Head(sock[w].replies)))
          /\ UNCHANGED <<pool, faults>>
       \/ /\ sock[w].replies = <<>>
          /\ Fault \/ TimesOut
          /\ Erred(w, TRUE) /\ UNCHANGED sock
    /\ Continue

Count(w) ==
    /\ At(w, "count")
    /\ pool' = [pool EXCEPT !.success = @ + 1]
    /\ Goto(w, "claim")
    /\ UNCHANGED <<sock, faults>> /\ Continue

----------------------------------------------------------------------------
(* The join: a worker that could not connect fails the workload and aborts *)
(* the others; when all have ended there are metrics.                      *)
JoinFailed ==
    /\ \E w \in Workers : At(w, "failed")
    /\ EndWork(Failed) /\ UNCHANGED faults

JoinAll ==
    /\ \A w \in Workers : At(w, "ended")
    /\ EndWork(summarize_metrics(MeasuredOps, pool.success, pool.errors))
    /\ UNCHANGED faults

WorkersNext ==
    \/ WarmUp \/ JoinFailed \/ JoinAll
    \/ \E w \in Workers :
          \/ Connect(w) \/ Claim(w) \/ Call(w) \/ Send(w) \/ Respond(w)
          \/ next_websocket_text(w) \/ Count(w)

----------------------------------------------------------------------------
Busy == {w \in Workers : wk[w].pc \in {"op", "read", "count"}}
Claimed == IF pool.counter < MeasuredOps THEN pool.counter ELSE MeasuredOps

(* Every operation that the shared counter has handed out is a success, an *)
(* error or in the hands of exactly one worker, and the metrics of a       *)
(* workload account for every one of its operations.                       *)
CountsAddUp ==
    /\ pool.success + pool.errors + Cardinality(Busy) = Claimed
    /\ \A v, w \in Busy : v # w => wk[v].idx # wk[w].idx
    /\ work.over \in {"http", "grpc", "ws"} /\ result.how = "metrics"
         => result.attempted = result.success + result.errors

(* What a success may hide.  A WebSocket shows neither refusals nor, once  *)
(* an operation on it has timed out, whose reply it is; HTTP hides the     *)
(* refusal of a read; keys are missing where they were seeded elsewhere.   *)
Hidden(w) ==
    (IF work.over = "http" THEN {"unread"} ELSE {})
      \cup (IF work.over = "ws" THEN {"unread", "unwritten"} ELSE {})
      \cup (IF wk[w].late THEN {"shifted"} ELSE {})
      \cup (IF job.same THEN {} ELSE {"missed"})

(* If the server that was launched has the port, an operation that counts  *)
(* as a success has, over gRPC, read the values of its own requests and    *)
(* keys that are there; over HTTP it has written what it was to write;     *)
(* over a WebSocket the replies are those to its own requests.  The        *)
(* exceptions are those that Hidden names, and no others.                  *)
MeasuresWhatItNames ==
    \A w \in Workers : wk[w].pc = "count" /\ ~Stranger => wk[w].flaws \subseteq Hidden(w)
============================================================================
