---------------------------- MODULE BenchProofs ----------------------------
(***************************************************************************)
(* Proofs about Bench, for every list of configs, every set of workers and *)
(* any number of operations, messages and failures.                        *)
(***************************************************************************)
EXTENDS Bench, FiniteSetTheorems, SequenceTheorems, TLAPS

----------------------------------------------------------------------------
(* The inductive invariant                                                 *)

Commands == {"http", "grpc", "ws"}
Errors == {"", "spec", "dir", "build", "spawn", "exited", "try_wait", "not ready",
           "workload", "results.json", "report.md"}
Reasons == {"", "error", "alien", "no timestamp"}
Messages == {"ready", "payload", "warmup", "measured"} \X Nat
ReadHeavy == {"get_hot_key", "get_distributed_key", "mget_4", "hmget_4_fields"}
CommandNames == {"ping", "small_set_get", "medium_set_get"} \cup ReadHeavy

Jobs == [pc : {"spec", "dir", "build", "spawn", "poll", "run", "work",
               "results", "report", "ended"},
         variant : Nat, step : Nat, why : Errors, same : BOOLEAN]
Ports == [by : {"nobody", "server", "other"}, mute : BOOLEAN]
JobTypes ==
    /\ job \in Jobs
    /\ server \in {"none", "starting", "listening", "exited"}
    /\ port \in Ports /\ polls \in 0 .. MaxPolls
    /\ faults \in 0 .. MaxFaults

(* Where the comparison is, what it is working on, and what is seeded.     *)
BeforeRun == {"spec", "dir", "build", "spawn", "poll"}
JobInv ==
    /\ job.variant \in DOMAIN Contexts /\ job.step \in 1 .. Len(Plan) + 1
    /\ job.pc \in BeforeRun => job.step = 1
    /\ job.pc # "work" => /\ work = Idle /\ result = NoResult
                          /\ pool.stage = "off" /\ reader.pc = "off"
    /\ job.pc = "work" => job.step <= Len(Plan) /\ work = Plan[job.step]
    /\ job.pc \in {"run", "work"} /\ job.step > 4 /\ job.same
         => cached = seed_read_heavy_cache_data
    /\ job.pc = "work" /\ job.step = 4 /\ result # Failed /\ job.same
         => cached = seed_read_heavy_cache_data

(* A workload has a result once its workers or its reader have stopped.    *)
ResultInv ==
    /\ result # NoResult => pool.stage = "off" /\ reader.pc = "off"
    /\ pool.stage # "off" => work.over \in Commands
    /\ reader.pc # "off" => work.over \in {"sse", "events"}
    /\ work.over \in Commands /\ result.how = "metrics"
         => result.attempted = result.success + result.errors

(* An error on a stream has failed the workload, and with it the           *)
(* comparison.                                                             *)
WhyInv == reader.why # "" => result = Failed \/ job.pc = "ended"

Flaws == {"shifted", "unread", "unwritten", "missed"}
Tasks == [pc : {"connect", "claim", "op", "read", "count", "ended", "failed"},
          idx : Nat, step : Nat, flaws : SUBSET Flaws, late : BOOLEAN]
Replies == [to : Nat \X Nat, refused : BOOLEAN]
Connections == [asked : Seq(Nat \X Nat), replies : Seq(Replies)]
Pools == [stage : {"off", "warmup", "measure"},
          warm : Nat, counter : Nat, success : Nat, errors : Nat]
WorkerTypes ==
    /\ pool \in Pools
    /\ wk \in [Workers -> Tasks]
    /\ sock \in [Workers -> Connections]

Ended == {w \in Workers : wk[w].pc = "ended"}

(* The operations that the counter has handed out.  A worker that comes    *)
(* when there are none left has taken a number all the same, and ended.    *)
Counting ==
    /\ pool.success + pool.errors + Cardinality(Busy) = Claimed
    /\ \A v, w \in Busy : v # w => wk[v].idx # wk[w].idx
    /\ \A w \in Busy : wk[w].idx < pool.counter /\ wk[w].idx < MeasuredOps
    /\ pool.counter <= MeasuredOps + Cardinality(Ended)
    /\ Ended # {} => pool.counter >= MeasuredOps

(* Nothing has happened before the measuring begins.                       *)
Untouched ==
    pool.stage # "measure"
      => /\ pool.counter = 0 /\ pool.success = 0 /\ pool.errors = 0
         /\ \A w \in Workers : wk[w].pc \in {"connect", "claim"} /\ sock[w] = NoSocket

(* Unless it has given up on a reply, a worker has at most the request of  *)
(* its own step on its socket, and that only while it waits for the reply. *)
(* Nothing is wrong with its operation so far but what stays hidden.       *)
SocketOf(w) ==
    IF wk[w].pc = "read"
      THEN \/ sock[w] = [asked |-> <<<<wk[w].idx, wk[w].step>>>>, replies |-> <<>>]
           \/ \E b \in BOOLEAN :
                sock[w] = [asked |-> <<>>,
                           replies |-> <<[to |-> <<wk[w].idx, wk[w].step>>, refused |-> b]>>]
      ELSE sock[w] = NoSocket
OwnReplies(w) ==
    /\ wk[w].pc \in {"op", "read"} => wk[w].step \in 1 .. Len(Requests(w))
    /\ wk[w].pc = "read" => work.over = "ws"
    /\ ~wk[w].late => SocketOf(w)
    /\ w \in Busy => wk[w].flaws \subseteq Hidden(w)
Sockets == \A w \in Workers : OwnReplies(w)

Readers == [pc : {"off", "open", "subscribe", "announce", "listen", "send",
                  "await", "warm", "warmed", "measure"},
            n : Nat, attempt : Nat, success : Nat, errors : Nat,
            late : BOOLEAN, why : Reasons]
Senders == [pc : {"off", "wait", "publish", "ended", "failed"}, idx : Nat]
StreamTypes ==
    /\ reader \in Readers
    /\ stream \in Seq(Messages)
    /\ sender \in Senders
    /\ send_times \subseteq 0 .. MeasuredMessages - 1

(* Unless a stranger sends them, the measured messages on the stream are   *)
(* different, have been published and have their timestamps; the publisher *)
(* is there only for the reader of measured messages.                      *)
IsMeasured(i) == stream[i][1] = "measured"
Stamped ==
    /\ port.by # "other" => \A i \in 1 .. Len(stream) :
         IsMeasured(i) => stream[i][2] \in send_times /\ stream[i][2] < sender.idx
    /\ port.by # "other" => \A i, j \in 1 .. Len(stream) :
         i # j /\ IsMeasured(i) /\ IsMeasured(j) => stream[i][2] # stream[j][2]
    /\ Cardinality(send_times) <= Window
    /\ sender.idx <= MeasuredMessages
    /\ sender.pc = "publish" => sender.idx < MeasuredMessages
    /\ port.by # "other" /\ sender.pc = "publish" => sender.idx \in send_times
    /\ reader.pc # "measure" => sender = NoSender /\ send_times = {}

(* Unless the wait for the sentinel has given up on one, or a stranger has *)
(* the port, what is read belongs to the phase that reads it.              *)
Phases ==
    /\ reader.pc \in {"off", "open", "subscribe"} => stream = <<>>
    /\ ~reader.late /\ port.by # "other" =>
         /\ reader.pc \in {"announce", "warm"} => stream = <<>>
         /\ reader.pc \in {"listen", "warmed"} => Len(stream) <= 1
         /\ reader.pc = "measure" => \A i \in 1 .. Len(stream) : IsMeasured(i)

IInv ==
    /\ JobTypes /\ JobInv /\ ResultInv /\ WhyInv
    /\ WorkerTypes /\ Counting /\ Untouched /\ Sockets
    /\ StreamTypes /\ Stamped /\ Phases /\ CleanHandOver

----------------------------------------------------------------------------
(* The plan of a variant and what its operations read                      *)

LEMMA Three ==
    ASSUME NEW T, NEW x \in T, NEW y \in T, NEW z \in T
    PROVE  <<x, y, z>> \in Seq(T) /\ Len(<<x, y, z>>) = 3
OBVIOUS

LEMMA Concat ==
    ASSUME NEW T, NEW p \in Seq(T), NEW q \in Seq(T), NEW r, r = p \o q
    PROVE  /\ r \in Seq(T) /\ Len(r) = Len(p) + Len(q)
           /\ \A i \in 1 .. Len(p) : r[i] = p[i]
           /\ \A i \in Len(p) + 1 .. Len(p) + Len(q) :
                r[i] = q[i - Len(p)] /\ i - Len(p) \in 1 .. Len(q)
<1>1. Len(p) \in Nat /\ Len(q) \in Nat
  OBVIOUS
<1>2. /\ r \in Seq(T) /\ Len(r) = Len(p) + Len(q)
      /\ \A i \in 1 .. Len(p) + Len(q) : r[i] = IF i <= Len(p) THEN p[i] ELSE q[i - Len(p)]
  BY ConcatProperties
<1> QED
  BY <1>1, <1>2

(* Every plan begins with three workloads and the seeding of the cache, so *)
(* that those that read the cache come after it.                           *)
LEMMA PlanFacts ==
    ASSUME NEW c
    PROVE  /\ Len(SuitesOf(c)) \in Nat
           /\ \A s \in 1 .. Len(SuitesOf(c)) :
                LET p == SuitesOf(c)[s]
                IN  /\ p.over = "redis" <=> s = 4
                    /\ p.over \in Commands =>
                         p.name \in CommandNames /\ (p.name \in ReadHeavy => s > 4)
<1> DEFINE Works == [over : {"http", "grpc", "ws", "sse", "events", "redis"},
                     name : CommandNames \cup {"seed", "subscribe_startup", "delivery_stream"}]
           Plain == {x \in Works : x.over \in Commands /\ x.name \in CommandNames \ ReadHeavy}
           Cached == {x \in Works : x.over \in Commands /\ x.name \in ReadHeavy}
           Streaming == {x \in Works : x.over \in {"sse", "events"}}
           A == run_common_commands_suite(c)
           F == <<Workload("redis", "seed")>>
           R == IF c.mode = "rest" THEN run_http_read_heavy_cache
                                   ELSE run_grpc_read_heavy_cache
           W == run_websocket_commands_suite(c)
           S == run_streaming_suite(c)
<1>1. \A over \in Commands :
        /\ Workload(over, "ping") \in Plain /\ Workload(over, "small_set_get") \in Plain
        /\ Workload(over, "medium_set_get") \in Plain
        /\ Workload(over, "get_hot_key") \in Cached
        /\ Workload(over, "get_distributed_key") \in Cached
        /\ Workload(over, "mget_4") \in Cached /\ Workload(over, "hmget_4_fields") \in Cached
  BY DEF Workload, Commands, CommandNames, ReadHeavy
<1>2. \A over \in {"sse", "events"} :
        /\ Workload(over, "subscribe_startup") \in Streaming
        /\ Workload(over, "delivery_stream") \in Streaming
  BY DEF Workload
<1>3. Workload("redis", "seed") \in Works /\ Workload("redis", "seed").over = "redis"
  BY DEF Workload
<1>4. /\ \A x \in Plain : x \in Works /\ x.over \in Commands /\ x.over # "redis"
                         /\ x.name \in CommandNames \ ReadHeavy
      /\ \A x \in Cached : x \in Works /\ x.over \in Commands /\ x.over # "redis"
                          /\ x.name \in CommandNames
      /\ \A x \in Streaming : x \in Works /\ x.over \notin Commands /\ x.over # "redis"
  BY DEF Commands, CommandNames
<1> HIDE DEF Works, Plain, Cached, Streaming
<1>5. A \in Seq(Plain) /\ Len(A) = 3
  <2>1. /\ run_http_common_commands \in Seq(Plain) /\ Len(run_http_common_commands) = 3
        /\ run_grpc_common_commands \in Seq(Plain) /\ Len(run_grpc_common_commands) = 3
    BY <1>1, Three DEF run_http_common_commands, run_grpc_common_commands, Commands
  <2> QED
    BY <2>1 DEF run_common_commands_suite
<1>6. F \in Seq(Works) /\ Len(F) = 1 /\ F[1].over = "redis"
  <2> DEFINE x == Workload("redis", "seed")
  <2>1. x \in Works /\ x.over = "redis" /\ F = <<x>>
    BY <1>3
  <2> HIDE DEF x
  <2> QED
    BY <2>1
<1>7. R \in Seq(Cached) /\ Len(R) = 4
  <2>1. ASSUME NEW v \in Cached, NEW x \in Cached, NEW y \in Cached, NEW z \in Cached
        PROVE  <<v, x, y, z>> \in Seq(Cached) /\ Len(<<v, x, y, z>>) = 4
    OBVIOUS
  <2>2. /\ run_http_read_heavy_cache \in Seq(Cached) /\ Len(run_http_read_heavy_cache) = 4
        /\ run_grpc_read_heavy_cache \in Seq(Cached) /\ Len(run_grpc_read_heavy_cache) = 4
    BY <1>1, <2>1 DEF run_http_read_heavy_cache, run_grpc_read_heavy_cache, Commands
  <2> QED
    BY <2>2
<1>8. W \in Seq(Plain)
  <2>1. <<Workload("ws", "ping"), Workload("ws", "small_set_get"),
          Workload("ws", "medium_set_get")>> \in Seq(Plain)
    BY <1>1, Three DEF Commands
  <2>2. <<>> \in Seq(Plain)
    OBVIOUS
  <2> QED
    BY <2>1, <2>2 DEF run_websocket_commands_suite
<1>9. S \in Seq(Streaming)
  <2>1. ASSUME NEW y \in Streaming, NEW z \in Streaming
        PROVE  <<y, z>> \in Seq(Streaming)
    OBVIOUS
  <2>2. /\ <<Workload("sse", "subscribe_startup"), Workload("sse", "delivery_stream")>>
             \in Seq(Streaming)
        /\ <<Workload("events", "subscribe_startup"), Workload("events", "delivery_stream")>>
             \in Seq(Streaming)
    BY <1>2, <2>1
  <2> QED
    BY <2>2 DEF run_streaming_suite
<1> DEFINE B == F \o R
           AB == A \o B
           ABW == AB \o W
           P == SuitesOf(c)
<1>10. /\ P = ABW \o S /\ ABW = AB \o W /\ AB = A \o B /\ B = F \o R
  BY DEF SuitesOf, run_read_heavy_cache_suite
<1> HIDE DEF A, F, R, W, S, P, B, AB, ABW
<1>11. /\ A \in Seq(Works) /\ R \in Seq(Works) /\ W \in Seq(Works) /\ S \in Seq(Works)
       /\ \A i \in 1 .. Len(A) : A[i] \in Plain
       /\ \A i \in 1 .. Len(R) : R[i] \in Cached
       /\ \A i \in 1 .. Len(W) : W[i] \in Plain
       /\ \A i \in 1 .. Len(S) : S[i] \in Streaming
       /\ Len(W) \in Nat /\ Len(S) \in Nat
  <2>1. \A T : T \subseteq Works => Seq(T) \subseteq Seq(Works)
    OBVIOUS
  <2>2. Plain \subseteq Works /\ Cached \subseteq Works /\ Streaming \subseteq Works
    BY <1>4
  <2>3. A \in Seq(Works) /\ R \in Seq(Works) /\ W \in Seq(Works) /\ S \in Seq(Works)
    BY <1>5, <1>7, <1>8, <1>9, <2>1, <2>2
  <2>4. \A T : \A q \in Seq(T) : Len(q) \in Nat /\ \A i \in 1 .. Len(q) : q[i] \in T
    OBVIOUS
  <2> QED
    BY <1>5, <1>7, <1>8, <1>9, <2>3, <2>4
<1>12. /\ B \in Seq(Works) /\ Len(B) = 5 /\ B[1] = F[1]
       /\ \A i \in 2 .. 5 : B[i] = R[i - 1]
  <2>2. F \in Seq(Works) /\ R \in Seq(Works) /\ B = F \o R
    BY <1>6, <1>10, <1>11
  <2>1. /\ B \in Seq(Works) /\ Len(B) = Len(F) + Len(R)
        /\ \A i \in 1 .. Len(F) : B[i] = F[i]
        /\ \A i \in Len(F) + 1 .. Len(F) + Len(R) : B[i] = R[i - Len(F)] /\ i - Len(F) \in 1 .. Len(R)
    BY <2>2, Concat
  <2> QED
    BY <2>1, <1>6, <1>7
<1>13. /\ AB \in Seq(Works) /\ Len(AB) = 8
       /\ \A i \in 1 .. 3 : AB[i] = A[i]
       /\ \A i \in 4 .. 8 : AB[i] = B[i - 3]
  <2>2. A \in Seq(Works) /\ B \in Seq(Works) /\ AB = A \o B
    BY <1>10, <1>11, <1>12
  <2>1. /\ AB \in Seq(Works) /\ Len(AB) = Len(A) + Len(B)
        /\ \A i \in 1 .. Len(A) : AB[i] = A[i]
        /\ \A i \in Len(A) + 1 .. Len(A) + Len(B) : AB[i] = B[i - Len(A)] /\ i - Len(A) \in 1 .. Len(B)
    BY <2>2, Concat
  <2> QED
    BY <2>1, <1>5, <1>12
<1>14. /\ ABW \in Seq(Works) /\ Len(ABW) = 8 + Len(W)
       /\ \A i \in 1 .. 8 : ABW[i] = AB[i]
       /\ \A i \in 9 .. 8 + Len(W) : ABW[i] = W[i - 8] /\ i - 8 \in 1 .. Len(W)
  <2>2. AB \in Seq(Works) /\ W \in Seq(Works) /\ ABW = AB \o W
    BY <1>10, <1>11, <1>13
  <2>1. /\ ABW \in Seq(Works) /\ Len(ABW) = Len(AB) + Len(W)
        /\ \A i \in 1 .. Len(AB) : ABW[i] = AB[i]
        /\ \A i \in Len(AB) + 1 .. Len(AB) + Len(W) :
              ABW[i] = W[i - Len(AB)] /\ i - Len(AB) \in 1 .. Len(W)
    BY <2>2, Concat
  <2> QED
    BY <2>1, <1>13
<1>15. /\ Len(P) = 8 + Len(W) + Len(S)
       /\ \A i \in 1 .. 8 + Len(W) : P[i] = ABW[i]
       /\ \A i \in 9 + Len(W) .. 8 + Len(W) + Len(S) :
            P[i] = S[i - (8 + Len(W))] /\ i - (8 + Len(W)) \in 1 .. Len(S)
  <2>2. ABW \in Seq(Works) /\ S \in Seq(Works) /\ P = ABW \o S
    BY <1>10, <1>11, <1>14
  <2>1. /\ Len(P) = Len(ABW) + Len(S)
        /\ \A i \in 1 .. Len(ABW) : P[i] = ABW[i]
        /\ \A i \in Len(ABW) + 1 .. Len(ABW) + Len(S) :
              P[i] = S[i - Len(ABW)] /\ i - Len(ABW) \in 1 .. Len(S)
    BY <2>2, Concat
  <2> QED
    BY <2>1, <1>11, <1>14
<1>16. ASSUME NEW s \in 1 .. Len(P)
       PROVE  \/ s \in 1 .. 3 /\ P[s] \in Plain
              \/ s = 4 /\ P[s].over = "redis"
              \/ s \in 5 .. 8 /\ P[s] \in Cached
              \/ s > 8 /\ P[s] \in Plain \cup Streaming
  <2>1. CASE s \in 1 .. 3
    <3>2. s \in 1 .. 8 + Len(W) /\ s \in 1 .. 8
      BY <2>1, <1>11
    <3>1. P[s] = A[s]
      BY <2>1, <3>2, <1>13, <1>14, <1>15
    <3> QED
      BY <3>1, <2>1, <1>5, <1>11
  <2>2. CASE s = 4
    <3>1. P[s] = B[1]
      BY <2>2, <1>11, <1>13, <1>14, <1>15
    <3> QED
      BY <3>1, <2>2, <1>6, <1>12
  <2>3. CASE s \in 5 .. 8
    <3>1. P[s] = AB[s] /\ s \in 4 .. 8
      BY <2>3, <1>11, <1>14, <1>15
    <3>3. P[s] = B[s - 3] /\ s - 3 \in 2 .. 5
      BY <3>1, <2>3, <1>13
    <3>2. P[s] = R[s - 4] /\ s - 4 \in 1 .. 4
      BY <3>3, <2>3, <1>12
    <3> QED
      BY <3>2, <2>3, <1>7, <1>11
  <2>4. CASE s \in 9 .. 8 + Len(W)
    <3>1. P[s] = W[s - 8] /\ s - 8 \in 1 .. Len(W)
      BY <2>4, <1>11, <1>14, <1>15
    <3> QED
      BY <3>1, <2>4, <1>11
  <2>5. CASE s \in 9 + Len(W) .. 8 + Len(W) + Len(S)
    <3>1. P[s] \in Streaming
      BY <2>5, <1>11, <1>15
    <3> QED
      BY <3>1, <2>5, <1>11
  <2> QED
    BY <2>1, <2>2, <2>3, <2>4, <2>5, <1>11, <1>15
<1>17. ASSUME NEW s \in 1 .. Len(P)
       PROVE  /\ P[s].over = "redis" <=> s = 4
              /\ P[s].over \in Commands =>
                   P[s].name \in CommandNames /\ (P[s].name \in ReadHeavy => s > 4)
  <2>1. "redis" \notin Commands
    BY DEF Commands
  <2> QED
    BY <1>4, <1>16, <2>1
<1> QED
  BY <1>11, <1>15, <1>17 DEF P

(* Whatever an operation with an index below MeasuredOps reads of the      *)
(* cache has been seeded, if in the Redis of the server.                   *)
LEMMA SeededKeys ==
    ASSUME NEW name \in CommandNames, NEW w, NEW idx \in 0 .. MeasuredOps - 1,
           name \in ReadHeavy /\ job.same => cached = seed_read_heavy_cache_data
    PROVE  /\ Len(Operation(name, w, idx)) \in {1, 2}
           /\ job.same => \A s \in 1 .. Len(Operation(name, w, idx)) :
                            Hits(Operation(name, w, idx)[s])
<1> DEFINE seed_count == IF WarmupOps > MeasuredOps THEN WarmupOps ELSE MeasuredOps
<1>1. idx \in 0 .. seed_count - 1
  BY PlanAssumption
<1>2. CASE name = "ping"
  <2>1. Operation(name, w, idx) = <<Request("PING", {})>>
    BY <1>2 DEF Operation, measure_ping_parallel, ping_once
  <2> QED
    BY <2>1 DEF Hits, Request
<1>3. ASSUME NEW label \in {"small", "medium"},
             Operation(name, w, idx) = measure_set_get_parallel(label, w, idx)
      PROVE  /\ Len(Operation(name, w, idx)) = 2
             /\ \A s \in 1 .. 2 : Hits(Operation(name, w, idx)[s])
  <2> DEFINE key == <<label, w, idx>>
  <2>1. ~IsCacheKey(key)
    BY DEF IsCacheKey
  <2> HIDE DEF key
  <2>2. Operation(name, w, idx) = <<Request("SET", {key}), Request("GET", {key})>>
    BY <1>3 DEF measure_set_get_parallel, set_get_once, key
  <2> QED
    BY <2>1, <2>2 DEF Hits, Request
<1>4. CASE name = "small_set_get"
  <2>1. Operation(name, w, idx) = measure_set_get_parallel("small", w, idx)
    BY <1>4 DEF Operation
  <2> QED
    BY <2>1, <1>3
<1>5. CASE name = "medium_set_get"
  <2>1. Operation(name, w, idx) = measure_set_get_parallel("medium", w, idx)
    BY <1>5 DEF Operation
  <2> QED
    BY <2>1, <1>3
<1>6. CASE name = "get_hot_key"
  <2>1. Operation(name, w, idx) = <<Request("GET", {read_heavy_hot_key})>>
    BY <1>6 DEF Operation, measure_get_parallel, get_once
  <2>2. job.same => read_heavy_hot_key \in cached
    BY <1>6 DEF ReadHeavy, seed_read_heavy_cache_data
  <2> QED
    BY <2>1, <2>2 DEF Hits, Request
<1>7. CASE name = "hmget_4_fields"
  <2>1. Operation(name, w, idx) = <<Request("HMGET", {read_heavy_hash_key})>>
    BY <1>7 DEF Operation, measure_hmget_parallel, hmget_once
  <2>2. job.same => read_heavy_hash_key \in cached
    BY <1>7 DEF ReadHeavy, seed_read_heavy_cache_data
  <2> QED
    BY <2>1, <2>2 DEF Hits, Request
<1>8. CASE name = "get_distributed_key"
  <2>1. Operation(name, w, idx) = <<Request("GET", {read_heavy_distributed_key(idx)})>>
    BY <1>8 DEF Operation, measure_distributed_get_parallel, get_once
  <2>2. job.same => read_heavy_distributed_key(idx) \in cached
    BY <1>8, <1>1 DEF ReadHeavy, seed_read_heavy_cache_data
  <2> QED
    BY <2>1, <2>2 DEF Hits, Request
<1>9. CASE name = "mget_4"
  <2>1. Operation(name, w, idx) = <<Request("MGET", read_heavy_mget_keys(idx))>>
    BY <1>9 DEF Operation, measure_mget_parallel, mget_once
  <2>2. job.same => read_heavy_mget_keys(idx) \subseteq cached
    BY <1>9, <1>1 DEF ReadHeavy, seed_read_heavy_cache_data
  <2> QED
    BY <2>1, <2>2 DEF Hits, Request
<1> QED
  BY <1>2, <1>4, <1>5, <1>6, <1>7, <1>8, <1>9 DEF CommandNames, ReadHeavy

----------------------------------------------------------------------------
(* Workers                                                                 *)

WorkerInv == WorkerTypes /\ Counting /\ Untouched /\ Sockets

(* While operations are measured they are those of a command workload, and *)
(* the cache has been seeded for those that read it.                       *)
Seeded ==
    pool.stage # "off"
      => /\ work.name \in CommandNames
         /\ work.name \in ReadHeavy /\ job.same => cached = seed_read_heavy_cache_data

LEMMA SeededNow == JobInv /\ ResultInv => Seeded
<1> SUFFICES ASSUME JobInv, ResultInv, pool.stage # "off" PROVE Seeded
  BY DEF Seeded
<1>1. job.pc = "work" /\ work = Plan[job.step] /\ job.step \in 1 .. Len(Plan)
  BY PlanFacts DEF JobInv, Plan
<1>2. work.over \in Commands
  BY DEF ResultInv
<1>3. /\ work.name \in CommandNames
      /\ work.name \in ReadHeavy => job.step > 4
  BY <1>1, <1>2, PlanFacts DEF Plan
<1> QED
  BY <1>1, <1>3 DEF JobInv, Seeded

LEMMA Numbers ==
    /\ WarmupOps \in Nat /\ MeasuredOps \in Nat /\ MaxFaults \in Nat
    /\ MaxPolls \in Nat
    /\ Window \in Nat \ {0} /\ WarmupMessages \in Nat /\ MeasuredMessages \in Nat
BY PlanAssumption, PollsAssumption, StreamsAssumption

LEMMA Finite ==
    /\ IsFiniteSet(Busy) /\ IsFiniteSet(Ended)
    /\ Cardinality(Busy) \in Nat /\ Cardinality(Ended) \in Nat
<1>1. IsFiniteSet(Busy) /\ IsFiniteSet(Ended)
  BY PlanAssumption, FS_Subset DEF Busy, Ended
<1> QED
  BY <1>1, FS_CardinalityType

(* A worker changes nothing in the accounts, ...                           *)
LEMMA CountSame ==
    ASSUME WorkerTypes, Counting, NEW w \in Workers, NEW r,
           wk' = [wk EXCEPT ![w] = r], r.idx = wk[w].idx,
           r.pc # "ended", wk[w].pc # "ended",
           r.pc \in {"op", "read", "count"} <=> wk[w].pc \in {"op", "read", "count"},
           pool' = pool
    PROVE  Counting'
<1>1. Busy' = Busy /\ Ended' = Ended
  BY DEF Busy, Ended, WorkerTypes, Tasks, Pools
<1>2. \A v \in Workers : wk'[v].idx = wk[v].idx
  BY DEF WorkerTypes, Tasks, Pools
<1>3. \A v \in Busy : v \in Workers
  BY DEF Busy
<1> QED
  BY <1>1, <1>2, <1>3 DEF Counting, Claimed

(* ... takes an operation, ...                                             *)
LEMMA CountTaken ==
    ASSUME WorkerTypes, Counting, NEW w \in Workers, NEW r, wk[w].pc = "claim",
           wk' = [wk EXCEPT ![w] = r], r.idx = pool.counter, r.pc = "op",
           pool.counter < MeasuredOps,
           pool' = [pool EXCEPT !.counter = @ + 1]
    PROVE  Counting'
<1>1. Busy' = Busy \cup {w} /\ Ended' = Ended /\ w \notin Busy
  BY DEF Busy, Ended, WorkerTypes, Tasks, Pools
<1>2. Cardinality(Busy') = Cardinality(Busy) + 1
  BY <1>1, Finite, FS_AddElement
<1>3. /\ wk'[w].idx = pool.counter
      /\ \A v \in Workers : v # w => wk'[v].idx = wk[v].idx
  BY DEF WorkerTypes, Tasks, Pools
<1>4. /\ pool'.counter = pool.counter + 1 /\ pool.counter \in Nat
      /\ pool'.success = pool.success /\ pool'.errors = pool.errors
      /\ pool.success \in Nat /\ pool.errors \in Nat
  BY DEF WorkerTypes, Tasks, Pools
<1>5. Claimed' = Claimed + 1 /\ Claimed \in Nat
  BY <1>4, PlanAssumption DEF Claimed
<1>6. (pool.success + pool.errors + Cardinality(Busy) = Claimed)'
  BY <1>2, <1>4, <1>5, Finite DEF Counting
<1>7. \A v \in Busy : /\ v \in Workers /\ wk[v].idx \in Nat
                     /\ wk[v].idx < pool.counter /\ wk[v].idx < MeasuredOps
  BY DEF Busy, Counting, WorkerTypes, Tasks, Pools
<1>8. \A v \in Busy' : wk'[v].idx < pool'.counter /\ wk'[v].idx < MeasuredOps
  BY <1>1, <1>3, <1>4, <1>7
<1>9. \A u, v \in Busy' : u # v => wk'[u].idx # wk'[v].idx
  <2> SUFFICES ASSUME NEW u \in Busy', NEW v \in Busy', u # v
               PROVE  wk'[u].idx # wk'[v].idx
    OBVIOUS
  <2>1. CASE u # w /\ v # w
    BY <2>1, <1>1, <1>3, <1>7 DEF Counting
  <2>2. CASE u = w \/ v = w
    BY <2>2, <1>1, <1>3, <1>4, <1>7
  <2> QED
    BY <2>1, <2>2
<1>10. pool'.counter <= MeasuredOps + Cardinality(Ended')
  BY <1>1, <1>4, Finite, PlanAssumption
<1>11. Ended' # {} => pool'.counter >= MeasuredOps
  BY <1>1, <1>4, PlanAssumption DEF Counting
<1> QED
  BY <1>6, <1>8, <1>9, <1>10, <1>11 DEF Counting

(* ... finds none left and ends, ...                                       *)
LEMMA CountOver ==
    ASSUME WorkerTypes, Counting, NEW w \in Workers, NEW r, wk[w].pc = "claim",
           wk' = [wk EXCEPT ![w] = r], r.pc = "ended",
           pool.counter >= MeasuredOps,
           pool' = [pool EXCEPT !.counter = @ + 1]
    PROVE  Counting'
<1>1. Busy' = Busy /\ Ended' = Ended \cup {w} /\ w \notin Ended /\ w \notin Busy
  BY DEF Busy, Ended, WorkerTypes, Tasks, Pools
<1>2. Cardinality(Ended') = Cardinality(Ended) + 1
  BY <1>1, Finite, FS_AddElement
<1>3. \A v \in Busy : v \in Workers /\ wk'[v].idx = wk[v].idx /\ wk[v].idx \in Nat
  BY <1>1 DEF WorkerTypes, Tasks, Pools, Busy
<1>4. /\ pool'.counter = pool.counter + 1 /\ pool.counter \in Nat
      /\ pool'.success = pool.success /\ pool'.errors = pool.errors
  BY DEF WorkerTypes, Tasks, Pools
<1>5. Claimed' = Claimed
  BY <1>4, PlanAssumption DEF Claimed
<1>6. pool'.counter <= MeasuredOps + Cardinality(Ended')
  BY <1>2, <1>4, Finite, PlanAssumption DEF Counting
<1>7. pool'.counter >= MeasuredOps
  BY <1>4, PlanAssumption
<1>8. \A v \in Busy' : wk'[v].idx < pool'.counter /\ wk'[v].idx < MeasuredOps
  BY <1>1, <1>3, <1>4 DEF Counting
<1>9. (pool.success + pool.errors + Cardinality(Busy) = Claimed)'
  BY <1>1, <1>4, <1>5 DEF Counting
<1>10. \A u, v \in Busy' : u # v => wk'[u].idx # wk'[v].idx
  BY <1>1, <1>3 DEF Counting
<1> QED
  BY <1>6, <1>7, <1>8, <1>9, <1>10 DEF Counting

(* ... or is through with its operation, one way or the other.             *)
LEMMA CountDone ==
    ASSUME WorkerTypes, Counting, NEW w \in Workers, NEW r, w \in Busy,
           wk' = [wk EXCEPT ![w] = r], r.pc = "claim",
           \/ pool' = [pool EXCEPT !.success = @ + 1]
           \/ pool' = [pool EXCEPT !.errors = @ + 1]
    PROVE  Counting'
<1>1. Busy' = Busy \ {w} /\ Ended' = Ended
  BY DEF Busy, Ended, WorkerTypes, Tasks, Pools
<1>2. Cardinality(Busy') = Cardinality(Busy) - 1
  BY <1>1, Finite, FS_RemoveElement
<1>3. \A v \in Busy' : /\ v \in Busy /\ wk'[v].idx = wk[v].idx
  BY <1>1 DEF WorkerTypes, Tasks, Pools, Busy
<1>4. /\ pool'.counter = pool.counter
      /\ pool'.success + pool'.errors = pool.success + pool.errors + 1
      /\ pool.success + pool.errors \in Nat
  <2>1. pool \in Pools
    BY DEF WorkerTypes
  <2>2. CASE pool' = [pool EXCEPT !.success = @ + 1]
    BY <2>1, <2>2 DEF Pools
  <2>3. CASE pool' = [pool EXCEPT !.errors = @ + 1]
    BY <2>1, <2>3 DEF Pools
  <2> QED
    BY <2>2, <2>3
<1>5. Claimed' = Claimed
  BY <1>4 DEF Claimed
<1>6. (pool.success + pool.errors + Cardinality(Busy) = Claimed)'
  BY <1>2, <1>4, <1>5, Finite DEF Counting
<1>7. \A v \in Busy' : wk'[v].idx < pool'.counter /\ wk'[v].idx < MeasuredOps
  BY <1>3, <1>4 DEF Counting
<1>8. \A u, v \in Busy' : u # v => wk'[u].idx # wk'[v].idx
  BY <1>3 DEF Counting
<1> QED
  BY <1>1, <1>4, <1>6, <1>7, <1>8 DEF Counting

(* A step of one worker leaves the others and their sockets alone.         *)
LEMMA SocketsStep ==
    ASSUME WorkerTypes, Sockets, NEW w \in Workers, NEW r, NEW q,
           wk' = [wk EXCEPT ![w] = r], sock' = [sock EXCEPT ![w] = q],
           work' = work, job' = job, OwnReplies(w)'
    PROVE  Sockets'
<1> SUFFICES ASSUME NEW v \in Workers, v # w PROVE OwnReplies(v)'
  BY DEF Sockets
<1>1. wk'[v] = wk[v] /\ sock'[v] = sock[v]
  BY DEF WorkerTypes, Tasks, Pools
<1>2. /\ Requests(v)' = Requests(v) /\ (v \in Busy' <=> v \in Busy)
      /\ Hidden(v)' = Hidden(v)
  BY <1>1 DEF Requests, Busy, Hidden
<1>3. OwnReplies(v)
  BY DEF Sockets
<1> QED
  BY <1>1, <1>2, <1>3 DEF OwnReplies, SocketOf

(* A reply: the next step of the operation, or its end.                    *)
LEMMA RepliedKeeps ==
    ASSUME WorkerInv, Seeded, pool.stage = "measure", NEW w \in Workers,
           wk[w].pc \in {"op", "read"}, NEW flaws \in SUBSET Flaws, Replied(w, flaws),
           flaws \subseteq Hidden(w), NEW q,
           sock' = [sock EXCEPT ![w] = q],
           q \in Connections,
           ~wk[w].late => q = NoSocket,
           UNCHANGED <<pool, work, cached, job>>
    PROVE  WorkerInv'
<1> DEFINE n == Len(Requests(w))
           missed == IF Hits(Requests(w)[wk[w].step]) THEN {} ELSE {"missed"}
           all == wk[w].flaws \cup flaws \cup missed
           pc == IF wk[w].step = n THEN "count" ELSE "op"
           step == IF wk[w].step = n THEN wk[w].step ELSE wk[w].step + 1
           r == [wk[w] EXCEPT !.pc = pc, !.step = step, !.flaws = all]
<1>1. wk' = [wk EXCEPT ![w] = r]
  BY DEF Replied
<1>2. /\ wk[w] \in Tasks
      /\ w \in Busy
  BY DEF WorkerInv, WorkerTypes, Tasks, Pools, Busy
<1>3. wk[w].idx \in 0 .. MeasuredOps - 1
  BY <1>2, Numbers DEF WorkerInv, Counting, Tasks
<1>4. n \in {1, 2} /\ wk[w].step \in 1 .. n
  <2>1. n \in {1, 2}
    BY <1>3, SeededKeys DEF Seeded, Requests
  <2> QED
    BY <2>1 DEF WorkerInv, Sockets, OwnReplies
<1>5. all \in SUBSET Flaws /\ all \subseteq Hidden(w)
  <2>1. job.same => Hits(Requests(w)[wk[w].step])
    BY <1>3, <1>4, SeededKeys DEF Seeded, Requests
  <2>2. missed \subseteq Hidden(w) /\ missed \in SUBSET Flaws
    BY <2>1 DEF Hidden, Flaws
  <2>3. wk[w].flaws \subseteq Hidden(w) /\ wk[w].flaws \in SUBSET Flaws
    BY <1>2 DEF WorkerInv, Sockets, OwnReplies, Tasks
  <2> HIDE DEF missed
  <2> QED
    BY <2>2, <2>3
<1>6. pc \in {"op", "count"} /\ step \in Nat /\ (pc = "op" => step \in 1 .. n)
  BY <1>4
<1>14. /\ r.idx = wk[w].idx /\ r.late = wk[w].late
       /\ r.pc = pc /\ r.step = step /\ r.flaws = all /\ r \in Tasks
  <2> HIDE DEF pc, step, all
  <2> QED
    BY <1>2, <1>5, <1>6 DEF Tasks
<1> HIDE DEF r, pc, step, all
<1>7. WorkerTypes'
  BY <1>1, <1>14 DEF WorkerInv, WorkerTypes
<1>8. Counting'
  BY <1>1, <1>2, <1>6, <1>14, CountSame DEF WorkerInv, Busy
<1>9. Untouched'
  BY DEF Untouched
<1>10. wk'[w] = r /\ sock'[w] = q
  BY <1>1 DEF WorkerInv, WorkerTypes
<1>11. Requests(w)' = Requests(w) /\ Hidden(w)' = Hidden(w)
  BY <1>14, <1>10 DEF Requests, Hidden
<1>12. OwnReplies(w)'
  BY <1>5, <1>6, <1>14, <1>10, <1>11 DEF OwnReplies, SocketOf
<1>13. Sockets'
  BY <1>1, <1>12, SocketsStep DEF WorkerInv
<1> QED
  BY <1>7, <1>8, <1>9, <1>13 DEF WorkerInv

(* An error: the worker is free again, and knows whether it has given up   *)
(* on a reply.                                                             *)
LEMMA ErredKeeps ==
    ASSUME WorkerInv, pool.stage = "measure", NEW w \in Workers,
           wk[w].pc \in {"op", "read"}, NEW late \in BOOLEAN, Erred(w, late),
           wk[w].pc = "read" => late,
           UNCHANGED <<sock, work, job>>
    PROVE  WorkerInv'
<1> DEFINE r == [wk[w] EXCEPT !.pc = "claim", !.late = @ \/ late]
<1>1. wk' = [wk EXCEPT ![w] = r] /\ pool' = [pool EXCEPT !.errors = @ + 1]
  BY DEF Erred
<1>2. /\ wk[w] \in Tasks
      /\ w \in Busy
  BY DEF WorkerInv, WorkerTypes, Tasks, Pools, Busy
<1>3. /\ r \in Tasks
      /\ r.pc = "claim" /\ (~r.late => ~late /\ ~wk[w].late)
  BY <1>2 DEF Tasks
<1> HIDE DEF r
<1>4. WorkerTypes'
  BY <1>1, <1>3 DEF WorkerInv, WorkerTypes, Tasks, Pools
<1>5. Counting'
  BY <1>1, <1>2, <1>3, CountDone DEF WorkerInv
<1>6. Untouched'
  BY <1>1 DEF Untouched, WorkerInv, WorkerTypes, Tasks, Pools
<1>7. wk'[w] = r /\ sock'[w] = sock[w] /\ w \notin Busy'
  BY <1>1, <1>3 DEF WorkerInv, WorkerTypes, Tasks, Pools, Busy
<1>8. OwnReplies(w)'
  BY <1>3, <1>7 DEF OwnReplies, SocketOf, WorkerInv, Sockets
<1>9. sock' = [sock EXCEPT ![w] = sock[w]]
  BY DEF WorkerInv, WorkerTypes, Tasks, Pools
<1>10. Sockets'
  BY <1>1, <1>8, <1>9, SocketsStep DEF WorkerInv
<1> QED
  BY <1>4, <1>5, <1>6, <1>10 DEF WorkerInv

LEMMA FreshPool ==
    ASSUME NEW stage \in {"off", "warmup"}
    PROVE  [NoPool EXCEPT !.stage = stage] \in Pools
BY DEF NoPool, Pools

(* All workers begin anew, before a workload and after it.                 *)
LEMMA FreshKeeps ==
    ASSUME NEW stage \in {"off", "warmup"}, NEW over,
           pool' = [NoPool EXCEPT !.stage = stage],
           wk' = [w \in Workers |-> Fresh(over)],
           sock' = [w \in Workers |-> NoSocket]
    PROVE  WorkerInv'
<1>1. /\ Fresh(over) \in Tasks /\ Fresh(over).pc \in {"claim", "connect"}
      /\ NoSocket \in Connections
  BY DEF Fresh, Tasks, Connections, NoSocket
<1>2. pool' = [stage |-> stage, warm |-> 0, counter |-> 0, success |-> 0, errors |-> 0]
  BY DEF NoPool
<1>14. pool' \in Pools
  BY FreshPool
<1>3. WorkerTypes'
  BY <1>1, <1>14 DEF WorkerTypes
<1>4. Busy' = {} /\ Ended' = {}
  BY <1>1 DEF Busy, Ended
<1>5. Cardinality(Busy') = 0 /\ Cardinality(Ended') = 0
  BY <1>4, FS_EmptySet
<1>6. Counting'
  BY <1>2, <1>4, <1>5, Numbers DEF Counting, Claimed
<1>7. Untouched'
  BY <1>1, <1>2 DEF Untouched
<1>8. Sockets'
  BY <1>1, <1>4 DEF Sockets, OwnReplies, SocketOf
<1> QED
  BY <1>3, <1>6, <1>7, <1>8 DEF WorkerInv

LEMMA OffAnew == NoPool = [NoPool EXCEPT !.stage = "off"]
BY DEF NoPool

LEMMA WarmUpKeeps ==
    ASSUME WorkerInv, WarmUp, job' = job
    PROVE  WorkerInv'
<1>1. CASE EndWork(Failed)
  <2>1. /\ pool' = [NoPool EXCEPT !.stage = "off"]
        /\ wk' = [w \in Workers |-> Fresh("")]
        /\ sock' = [w \in Workers |-> NoSocket]
    BY <1>1, OffAnew DEF EndWork, StopWorkers
  <2> QED
    BY <2>1, FreshKeeps
<1>2. CASE /\ UNCHANGED <<wk, sock, work>> /\ pool.stage = "warmup"
           /\ \/ pool' = [pool EXCEPT !.warm = @ + 1]
              \/ pool' = [pool EXCEPT !.stage = "measure"]
  <2>2. /\ pool'.counter = pool.counter /\ pool'.success = pool.success
        /\ pool'.errors = pool.errors /\ pool' \in Pools
    <3>1. pool \in Pools
      BY DEF WorkerInv, WorkerTypes
    <3>2. CASE pool' = [pool EXCEPT !.warm = @ + 1]
      BY <3>1, <3>2 DEF Pools
    <3>3. CASE pool' = [pool EXCEPT !.stage = "measure"]
      BY <3>1, <3>3 DEF Pools
    <3> QED
      BY <1>2, <3>2, <3>3
  <2>1. WorkerTypes'
    BY <1>2, <2>2 DEF WorkerInv, WorkerTypes
  <2>3. Busy' = Busy /\ Ended' = Ended
    BY <1>2 DEF Busy, Ended
  <2>4. Counting'
    BY <1>2, <2>2, <2>3 DEF WorkerInv, Counting, Claimed
  <2>5. Untouched'
    BY <1>2, <2>2 DEF WorkerInv, Untouched
  <2>6. Sockets'
    BY <1>2, <2>3 DEF WorkerInv, Sockets, OwnReplies, SocketOf, Requests, Hidden
  <2> QED
    BY <2>1, <2>4, <2>5, <2>6 DEF WorkerInv
<1> QED
  BY <1>1, <1>2 DEF WarmUp, Continue

LEMMA ConnectKeeps ==
    ASSUME WorkerInv, NEW w \in Workers, Connect(w), job' = job
    PROVE  WorkerInv'
<1>1. PICK pc \in {"claim", "failed"} : wk' = [wk EXCEPT ![w].pc = pc]
  BY DEF Connect, Goto
<1> DEFINE r == [wk[w] EXCEPT !.pc = pc]
<1>2. wk' = [wk EXCEPT ![w] = r] /\ UNCHANGED <<pool, sock, work>>
  BY <1>1 DEF Connect, Continue
<1>3. wk[w] \in Tasks /\ wk[w].pc = "connect" /\ w \notin Busy /\ pool.stage = "measure"
  BY DEF WorkerInv, WorkerTypes, Connect, At, Busy
<1>4. r \in Tasks /\ r.pc = pc /\ r.idx = wk[w].idx /\ r.late = wk[w].late
  BY <1>3 DEF Tasks
<1> HIDE DEF r
<1>5. WorkerTypes'
  BY <1>2, <1>4 DEF WorkerInv, WorkerTypes
<1>6. Counting'
  BY <1>2, <1>3, <1>4, CountSame DEF WorkerInv
<1>7. Untouched'
  BY <1>2, <1>3 DEF Untouched
<1>8. wk'[w] = r /\ sock'[w] = sock[w] /\ w \notin Busy'
  BY <1>2, <1>4 DEF WorkerInv, WorkerTypes, Busy
<1>9. OwnReplies(w)'
  BY <1>3, <1>4, <1>8 DEF OwnReplies, SocketOf, WorkerInv, Sockets
<1>10. sock' = [sock EXCEPT ![w] = sock[w]]
  BY <1>2 DEF WorkerInv, WorkerTypes
<1>11. Sockets'
  BY <1>2, <1>9, <1>10, SocketsStep DEF WorkerInv
<1> QED
  BY <1>5, <1>6, <1>7, <1>11 DEF WorkerInv

LEMMA ClaimKeeps ==
    ASSUME WorkerInv, Seeded, NEW w \in Workers, Claim(w), job' = job
    PROVE  WorkerInv'
<1> DEFINE r == IF pool.counter >= MeasuredOps
                  THEN [wk[w] EXCEPT !.pc = "ended"]
                  ELSE [wk[w] EXCEPT !.pc = "op", !.idx = pool.counter,
                                     !.step = 1, !.flaws = {}]
<1>1. /\ wk' = [wk EXCEPT ![w] = r] /\ UNCHANGED <<sock, work>>
      /\ pool' = [pool EXCEPT !.counter = @ + 1]
  BY DEF Claim, Goto, Continue
<1>2. wk[w] \in Tasks /\ wk[w].pc = "claim" /\ pool.stage = "measure" /\ pool.counter \in Nat
  BY DEF WorkerInv, WorkerTypes, Claim, At, Pools
<1>3. /\ r \in Tasks /\ r.late = wk[w].late
      /\ \/ r.pc = "ended" /\ pool.counter >= MeasuredOps
         \/ /\ r.pc = "op" /\ pool.counter < MeasuredOps
            /\ r.idx = pool.counter /\ r.step = 1 /\ r.flaws = {}
  <2>1. CASE pool.counter >= MeasuredOps
    BY <2>1, <1>2, Numbers DEF Tasks
  <2>2. CASE ~(pool.counter >= MeasuredOps)
    <3>1. r = [wk[w] EXCEPT !.pc = "op", !.idx = pool.counter, !.step = 1, !.flaws = {}]
      BY <2>2
    <3>2. pool.counter < MeasuredOps
      BY <2>2, <1>2, Numbers
    <3> HIDE DEF r
    <3> QED
      BY <3>1, <3>2, <1>2 DEF Tasks
  <2> QED
    BY <2>1, <2>2
<1> HIDE DEF r
<1>4. WorkerTypes'
  <2>1. pool' \in Pools
    BY <1>1, <1>2 DEF WorkerInv, WorkerTypes, Pools
  <2> QED
    BY <1>1, <1>3, <2>1 DEF WorkerInv, WorkerTypes
<1>5. Counting'
  BY <1>1, <1>2, <1>3, CountTaken, CountOver DEF WorkerInv
<1>6. Untouched'
  BY <1>1, <1>2 DEF Untouched, WorkerInv, WorkerTypes, Pools
<1>7. wk'[w] = r /\ sock'[w] = sock[w]
  BY <1>1 DEF WorkerInv, WorkerTypes
<1>8. ~wk[w].late => sock[w] = NoSocket
  BY <1>2 DEF OwnReplies, SocketOf, WorkerInv, Sockets
<1>9. OwnReplies(w)'
  <2>1. CASE r.pc = "ended"
    BY <2>1, <1>3, <1>7, <1>8 DEF OwnReplies, SocketOf, Busy
  <2>2. CASE r.pc = "op"
    <3>1. wk'[w].idx \in 0 .. MeasuredOps - 1
      BY <2>2, <1>2, <1>3, <1>7, PlanAssumption
    <3>2. Requests(w)' = Operation(work.name, w, wk'[w].idx)
      BY <1>1 DEF Requests
    <3>3. Len(Requests(w)') \in {1, 2}
      BY <3>1, <3>2, <1>2, SeededKeys DEF Seeded
    <3>4. /\ wk'[w].pc = "op" /\ wk'[w].step = 1 /\ wk'[w].flaws = {}
          /\ wk'[w].late = wk[w].late
      BY <2>2, <1>3, <1>7
    <3>5. wk'[w].flaws \subseteq Hidden(w)'
      BY <3>4
    <3>6. SocketOf(w)' \/ wk'[w].late
      BY <3>4, <1>7, <1>8 DEF SocketOf
    <3>7. wk'[w].step \in 1 .. Len(Requests(w)')
      <4> DEFINE n == Len(Requests(w)')
      <4>1. n \in {1, 2} /\ wk'[w].step = 1
        BY <3>3, <3>4
      <4> HIDE DEF n
      <4>2. wk'[w].step \in 1 .. n
        BY <4>1
      <4> QED
        BY <4>2 DEF n
    <3> QED
      BY <3>4, <3>5, <3>6, <3>7 DEF OwnReplies
  <2> QED
    BY <2>1, <2>2, <1>3
<1>10. sock' = [sock EXCEPT ![w] = sock[w]]
  BY <1>1 DEF WorkerInv, WorkerTypes
<1>11. Sockets'
  BY <1>1, <1>9, <1>10, SocketsStep DEF WorkerInv
<1> QED
  BY <1>4, <1>5, <1>6, <1>11 DEF WorkerInv

LEMMA CallKeeps ==
    ASSUME WorkerInv, Seeded, NEW w \in Workers, Call(w), job' = job
    PROVE  WorkerInv'
<1>1. pool.stage = "measure" /\ wk[w].pc = "op"
  BY DEF Call, At
<1>2. ASSUME NEW flaws \in SUBSET Flaws, Replied(w, flaws), flaws \subseteq Hidden(w),
             UNCHANGED <<pool, sock, work, cached>>
      PROVE  WorkerInv'
  <2>1. sock[w] \in Connections /\ sock' = [sock EXCEPT ![w] = sock[w]]
    BY <1>2 DEF WorkerInv, WorkerTypes
  <2>2. ~wk[w].late => sock[w] = NoSocket
    BY <1>1 DEF WorkerInv, Sockets, OwnReplies, SocketOf
  <2> QED
    BY <1>1, <1>2, <2>1, <2>2, RepliedKeeps
<1>3. CASE Erred(w, FALSE) /\ UNCHANGED <<sock, work>>
  BY <1>1, <1>3, ErredKeeps
<1>4. CASE Replied(w, {}) /\ UNCHANGED <<pool, sock, work, cached>>
  BY <1>2, <1>4
<1> DEFINE request == Requests(w)[wk[w].step]
<1>5. CASE /\ HidesRefusal(work.over, request) /\ Replied(w, {Refusal(request)})
           /\ UNCHANGED <<pool, sock, work, cached>>
  <2>1. Refusal(request) = "unread" /\ work.over = "http"
    BY <1>5 DEF HidesRefusal, Refusal
  <2>2. {Refusal(request)} \in SUBSET Flaws /\ {Refusal(request)} \subseteq Hidden(w)
    BY <2>1 DEF Flaws, Hidden
  <2> HIDE DEF request
  <2> QED
    BY <1>2, <1>5, <2>2
<1> QED
  BY <1>3, <1>4, <1>5 DEF Call, Continue

LEMMA SendKeeps ==
    ASSUME WorkerInv, NEW w \in Workers, Send(w), job' = job
    PROVE  WorkerInv'
<1>1. pool.stage = "measure" /\ wk[w].pc = "op" /\ w \in Busy
  BY DEF Send, At, Busy
<1>2. CASE Erred(w, FALSE) /\ UNCHANGED <<sock, work>>
  BY <1>1, <1>2, ErredKeeps
<1>3. CASE /\ sock' = [sock EXCEPT ![w].asked = Append(@, <<wk[w].idx, wk[w].step>>)]
           /\ Goto(w, "read") /\ UNCHANGED <<pool, work>>
  <2> DEFINE r == [wk[w] EXCEPT !.pc = "read"]
             q == [sock[w] EXCEPT !.asked = Append(@, <<wk[w].idx, wk[w].step>>)]
  <2>1. wk' = [wk EXCEPT ![w] = r] /\ sock' = [sock EXCEPT ![w] = q]
    BY <1>3 DEF Goto
  <2>2. wk[w] \in Tasks /\ sock[w] \in Connections
    BY DEF WorkerInv, WorkerTypes
  <2>3. /\ r \in Tasks /\ r.pc = "read" /\ r.late = wk[w].late /\ r.flaws = wk[w].flaws
        /\ r.idx = wk[w].idx /\ r.step = wk[w].step
    BY <2>2 DEF Tasks
  <2>4. /\ q \in Connections
        /\ sock[w] = NoSocket
             => q = [asked |-> <<<<wk[w].idx, wk[w].step>>>>, replies |-> <<>>]
    <3>1. <<wk[w].idx, wk[w].step>> \in Nat \X Nat
      BY <2>2 DEF Tasks
    <3>2. Append(sock[w].asked, <<wk[w].idx, wk[w].step>>) \in Seq(Nat \X Nat)
      BY <3>1, <2>2, AppendProperties DEF Connections
    <3>3. q \in Connections
      BY <3>2, <2>2 DEF Connections
    <3> QED
      BY <3>3 DEF NoSocket
  <2> HIDE DEF r, q
  <2>5. WorkerTypes'
    BY <1>3, <2>1, <2>3, <2>4 DEF WorkerInv, WorkerTypes
  <2>6. Counting'
    BY <1>1, <1>3, <2>1, <2>3, CountSame DEF WorkerInv
  <2>7. Untouched'
    BY <1>1, <1>3 DEF Untouched
  <2>8. wk'[w] = r /\ sock'[w] = q
    BY <2>1 DEF WorkerInv, WorkerTypes
  <2>9. Requests(w)' = Requests(w) /\ Hidden(w)' = Hidden(w) /\ work'.over = "ws"
    BY <1>3, <2>3, <2>8 DEF Requests, Hidden, Send
  <2>10. /\ wk[w].step \in 1 .. Len(Requests(w))
         /\ ~wk[w].late => sock[w] = NoSocket
         /\ wk[w].flaws \subseteq Hidden(w)
    BY <1>1 DEF WorkerInv, Sockets, OwnReplies, SocketOf
  <2>11. OwnReplies(w)'
    BY <2>3, <2>4, <2>8, <2>9, <2>10 DEF OwnReplies, SocketOf
  <2>12. Sockets'
    BY <1>3, <2>1, <2>11, SocketsStep DEF WorkerInv
  <2> QED
    BY <2>5, <2>6, <2>7, <2>12 DEF WorkerInv
<1> QED
  BY <1>2, <1>3 DEF Send, Continue

LEMMA RespondKeeps ==
    ASSUME WorkerInv, NEW w \in Workers, Respond(w), job' = job
    PROVE  WorkerInv'
<1>0. PICK refused \in BOOLEAN :
        sock' = [sock EXCEPT ![w] =
                   [asked |-> Tail(@.asked),
                    replies |-> Append(@.replies,
                                       [to |-> Head(@.asked), refused |-> refused])]]
  BY DEF Respond
<1> DEFINE q == [asked |-> Tail(sock[w].asked),
                 replies |-> Append(sock[w].replies,
                                    [to |-> Head(sock[w].asked), refused |-> refused])]
<1>1. /\ sock' = [sock EXCEPT ![w] = q] /\ sock[w].asked # <<>>
      /\ UNCHANGED <<pool, wk, work>>
  BY <1>0 DEF Respond, Continue
<1>2. sock[w] \in Connections /\ wk[w] \in Tasks
  BY DEF WorkerInv, WorkerTypes
<1>3. q \in Connections
  <2>1. Head(sock[w].asked) \in Nat \X Nat /\ Tail(sock[w].asked) \in Seq(Nat \X Nat)
    BY <1>1, <1>2 DEF Connections
  <2>2. [to |-> Head(sock[w].asked), refused |-> refused] \in Replies
    BY <2>1 DEF Replies
  <2>3. Append(sock[w].replies, [to |-> Head(sock[w].asked), refused |-> refused])
          \in Seq(Replies)
    BY <1>2, <2>2, AppendProperties DEF Connections
  <2> QED
    BY <2>1, <2>3 DEF Connections
<1>4. ASSUME NEW x, sock[w] = [asked |-> <<x>>, replies |-> <<>>]
      PROVE  q = [asked |-> <<>>, replies |-> <<[to |-> x, refused |-> refused]>>]
  BY <1>4
<1> HIDE DEF q
<1>5. WorkerTypes'
  BY <1>1, <1>3 DEF WorkerInv, WorkerTypes
<1>6. Busy' = Busy /\ Ended' = Ended
  BY <1>1 DEF Busy, Ended
<1>7. Counting'
  BY <1>1, <1>6 DEF WorkerInv, Counting, Claimed
<1>8. Untouched'
  BY <1>1 DEF WorkerInv, Untouched, NoSocket
<1>9. wk' = [wk EXCEPT ![w] = wk[w]] /\ sock'[w] = q
  BY <1>1 DEF WorkerInv, WorkerTypes
<1>10. OwnReplies(w)'
  <2>1. OwnReplies(w)
    BY DEF WorkerInv, Sockets
  <2>2. ASSUME ~wk[w].late PROVE SocketOf(w)'
    <3>1. SocketOf(w)
      BY <2>1, <2>2 DEF OwnReplies
    <3>2. wk[w].pc = "read"
      BY <3>1, <1>1 DEF SocketOf, NoSocket
    <3>4. ASSUME NEW rs, sock[w] = [asked |-> <<>>, replies |-> rs] PROVE FALSE
      BY <3>4, <1>1
    <3>3. sock[w] = [asked |-> <<<<wk[w].idx, wk[w].step>>>>, replies |-> <<>>]
      BY <3>1, <3>2, <3>4, Zenon DEF SocketOf
    <3> QED
      BY <3>2, <3>3, <1>1, <1>4, <1>9 DEF SocketOf
  <2> QED
    BY <2>1, <2>2, <1>1, <1>6 DEF OwnReplies, Requests, Hidden
<1>11. Sockets'
  BY <1>1, <1>9, <1>10, SocketsStep DEF WorkerInv
<1> QED
  BY <1>5, <1>7, <1>8, <1>11 DEF WorkerInv

LEMMA ReadTextKeeps ==
    ASSUME WorkerInv, Seeded, NEW w \in Workers, next_websocket_text(w), job' = job
    PROVE  WorkerInv'
<1>1. pool.stage = "measure" /\ wk[w].pc = "read"
  BY DEF next_websocket_text, At
<1>2. CASE Erred(w, TRUE) /\ UNCHANGED <<sock, work>>
  BY <1>1, <1>2, ErredKeeps
<1>3. CASE /\ sock[w].replies # <<>>
           /\ sock' = [sock EXCEPT ![w].replies = Tail(@)]
           /\ Replied(w, FlawsOf(w, Head(sock[w].replies)))
           /\ UNCHANGED <<pool, work, cached>>
  <2> DEFINE q == [sock[w] EXCEPT !.replies = Tail(@)]
             reply == Head(sock[w].replies)
             flaws == FlawsOf(w, reply)
  <2>1. sock' = [sock EXCEPT ![w] = q]
    BY <1>3
  <2>2. sock[w] \in Connections
    BY DEF WorkerInv, WorkerTypes
  <2>3. q \in Connections
    <3>1. Tail(sock[w].replies) \in Seq(Replies)
      BY <1>3, <2>2 DEF Connections
    <3> QED
      BY <3>1, <2>2 DEF Connections
  <2>4. ASSUME ~wk[w].late
        PROVE  reply.to = <<wk[w].idx, wk[w].step>> /\ q = NoSocket
    <3>1. SocketOf(w)
      BY <2>4 DEF WorkerInv, Sockets, OwnReplies
    <3>2. PICK b \in BOOLEAN :
            sock[w] = [asked |-> <<>>,
                       replies |-> <<[to |-> <<wk[w].idx, wk[w].step>>, refused |-> b]>>]
      BY <3>1, <1>1, <1>3 DEF SocketOf
    <3> QED
      BY <3>2 DEF NoSocket
  <2>5. work.over = "ws"
    BY <1>1 DEF WorkerInv, Sockets, OwnReplies
  <2> HIDE DEF q, reply
  <2>6. "shifted" \in flaws => wk[w].late
    <3>1. \A request : Refusal(request) # "shifted"
      BY DEF Refusal
    <3> QED
      BY <2>4, <3>1 DEF FlawsOf
  <2>7. flaws \in SUBSET Flaws /\ flaws \subseteq Hidden(w)
    BY <2>5, <2>6 DEF FlawsOf, Flaws, Hidden
  <2>8. Replied(w, flaws)
    BY <1>3 DEF reply
  <2> HIDE DEF flaws
  <2> QED
    BY <1>1, <1>3, <2>1, <2>3, <2>4, <2>7, <2>8, RepliedKeeps
<1> QED
  BY <1>2, <1>3 DEF next_websocket_text, Continue

LEMMA CountKeeps ==
    ASSUME WorkerInv, NEW w \in Workers, Count(w), job' = job
    PROVE  WorkerInv'
<1> DEFINE r == [wk[w] EXCEPT !.pc = "claim"]
<1>1. /\ wk' = [wk EXCEPT ![w] = r] /\ pool' = [pool EXCEPT !.success = @ + 1]
      /\ UNCHANGED <<sock, work>>
  BY DEF Count, Goto, Continue
<1>2. /\ wk[w] \in Tasks /\ w \in Busy /\ wk[w].pc = "count" /\ pool.stage = "measure"
  BY DEF WorkerInv, WorkerTypes, Busy, Count, At
<1>3. r \in Tasks /\ r.pc = "claim" /\ r.late = wk[w].late
  BY <1>2 DEF Tasks
<1> HIDE DEF r
<1>4. WorkerTypes'
  <2>1. pool' \in Pools
    BY <1>1 DEF WorkerInv, WorkerTypes, Pools
  <2> QED
    BY <1>1, <1>3, <2>1 DEF WorkerInv, WorkerTypes
<1>5. Counting'
  BY <1>1, <1>2, <1>3, CountDone DEF WorkerInv
<1>6. Untouched'
  BY <1>1, <1>2 DEF Untouched, WorkerInv, WorkerTypes, Pools
<1>7. wk'[w] = r /\ sock'[w] = sock[w] /\ w \notin Busy'
  BY <1>1, <1>3 DEF WorkerInv, WorkerTypes, Busy
<1>8. OwnReplies(w)'
  BY <1>2, <1>3, <1>7 DEF OwnReplies, SocketOf, WorkerInv, Sockets
<1>9. sock' = [sock EXCEPT ![w] = sock[w]]
  BY <1>1 DEF WorkerInv, WorkerTypes
<1>10. Sockets'
  BY <1>1, <1>8, <1>9, SocketsStep DEF WorkerInv
<1> QED
  BY <1>4, <1>5, <1>6, <1>10 DEF WorkerInv

LEMMA WorkersKeep ==
    ASSUME WorkerInv, Seeded, WorkersNext, job' = job
    PROVE  WorkerInv'
<1>1. CASE JoinFailed \/ JoinAll
  <2>1. /\ pool' = [NoPool EXCEPT !.stage = "off"]
        /\ wk' = [w \in Workers |-> Fresh("")]
        /\ sock' = [w \in Workers |-> NoSocket]
    BY <1>1, OffAnew DEF JoinFailed, JoinAll, EndWork, StopWorkers
  <2> QED
    BY <2>1, FreshKeeps
<1> QED
  BY <1>1, WarmUpKeeps, ConnectKeeps, ClaimKeeps, CallKeeps, SendKeeps, RespondKeeps,
     ReadTextKeeps, CountKeeps DEF WorkersNext

----------------------------------------------------------------------------
(* Streams                                                                 *)

StreamInv == StreamTypes /\ Stamped /\ Phases /\ CleanHandOver

(* A message less on the stream takes nothing from the rest.               *)
LEMMA TailFacts ==
    ASSUME NEW s \in Seq(Messages), s # <<>>
    PROVE  /\ Tail(s) \in Seq(Messages) /\ Len(Tail(s)) = Len(s) - 1
           /\ Head(s) = s[1] /\ 1 \in 1 .. Len(s) /\ Len(s) \in Nat
           /\ s[1][2] \in Nat
           /\ \A i \in 1 .. Len(Tail(s)) : Tail(s)[i] = s[i + 1] /\ i + 1 \in 1 .. Len(s)
<1>1. Len(s) \in Nat \ {0}
  OBVIOUS
<1>2. s[1] \in Messages /\ s[1][2] \in Nat
  BY <1>1 DEF Messages
<1>3. Head(s) = s[1] /\ 1 \in 1 .. Len(s) /\ Len(s) \in Nat
  BY <1>1
<1>4. /\ Tail(s) \in Seq(Messages) /\ Len(Tail(s)) = Len(s) - 1
      /\ \A i \in 1 .. Len(Tail(s)) : Tail(s)[i] = s[i + 1] /\ i + 1 \in 1 .. Len(s)
  BY <1>1
<1> QED
  BY <1>2, <1>3, <1>4

(* The end of an operation or of the workload.                             *)
LEMMA EmptyStreamKeeps ==
    ASSUME stream' = <<>>, sender' = NoSender, send_times' = {},
           reader'.pc \in {"off", "open", "subscribe"},
           StreamTypes', CleanHandOver'
    PROVE  StreamInv'
<1>1. Cardinality(send_times') = 0
  BY FS_EmptySet
<1>2. Stamped'
  BY <1>1, StreamsAssumption DEF Stamped, NoSender
<1>3. Phases'
  BY DEF Phases
<1> QED
  BY <1>2, <1>3 DEF StreamInv

LEMMA EmptyStream == <<>> \in Seq(Messages)
OBVIOUS

LEMMA StopKeeps ==
    ASSUME StreamInv, NEW why \in Reasons, StopStreams(why), port' = port,
           port.by # "other" => why # "no timestamp",
           port.by # "other" /\ why = "alien" => reader.late
    PROVE  StreamInv'
<1>1. /\ reader' = [NoReader EXCEPT !.why = why, !.late = reader.late]
      /\ stream' = <<>> /\ sender' = NoSender /\ send_times' = {}
  BY DEF StopStreams
<1>2. reader'.pc = "off" /\ reader'.why = why /\ reader'.late = reader.late
  BY <1>1 DEF NoReader
<1>3. StreamTypes'
  <2>1. reader.late \in BOOLEAN
    BY DEF StreamInv, StreamTypes, Readers
  <2>2. reader' \in Readers /\ NoSender \in Senders
    BY <1>1, <2>1 DEF NoReader, Readers, NoSender, Senders
  <2> QED
    BY <1>1, <2>2, EmptyStream DEF StreamTypes
<1> QED
  BY <1>1, <1>2, <1>3, EmptyStreamKeeps DEF CleanHandOver, Stranger

LEMMA OperationKeeps ==
    ASSUME StreamInv, reader.pc # "measure", OperationOk \/ OperationErr, port' = port
    PROVE  StreamInv'
<1>1. CASE StreamEnds(Failed, "error")
  BY <1>1, StopKeeps DEF StreamEnds, Reasons
<1>2. CASE ~StreamEnds(Failed, "error")
  <2>1. PICK n \in Nat, success \in Nat, errors \in Nat :
          reader' = [NoReader EXCEPT !.pc = "subscribe", !.n = n,
                       !.success = success, !.errors = errors]
    <3>1. reader.n \in Nat /\ reader.success \in Nat /\ reader.errors \in Nat
      BY DEF StreamInv, StreamTypes, Readers
    <3>2. \E k \in Nat :
            reader' = [NoReader EXCEPT !.pc = "subscribe", !.n = reader.n + 1,
                         !.success = k, !.errors = reader.errors]
          \/ reader' = [NoReader EXCEPT !.pc = "subscribe", !.n = reader.n + 1,
                           !.success = reader.success, !.errors = reader.errors + 1]
      <4>1. CASE OperationOk
        <5> DEFINE k == IF reader.n < WarmupOps THEN 0 ELSE reader.success + 1
        <5>1. /\ k \in Nat
              /\ reader' = [NoReader EXCEPT !.pc = "subscribe", !.n = reader.n + 1,
                              !.success = k, !.errors = reader.errors]
          BY <4>1, <3>1 DEF OperationOk
        <5> HIDE DEF k
        <5> QED
          BY <5>1
      <4>2. CASE OperationErr
        BY <4>2, <1>2 DEF OperationErr
      <4> QED
        BY <4>1, <4>2
    <3>3. reader.n + 1 \in Nat /\ reader.errors + 1 \in Nat
      BY <3>1
    <3> QED
      BY <3>1, <3>2, <3>3, Zenon
  <2>2. stream' = <<>> /\ UNCHANGED <<sender, send_times>>
    BY <1>2 DEF OperationOk, OperationErr
  <2>3. sender = NoSender /\ send_times = {}
    BY DEF StreamInv, Stamped
  <2>4. StreamTypes'
    <3>1. reader' \in Readers /\ NoSender \in Senders
      BY <2>1 DEF NoReader, Readers, NoSender, Senders, Reasons
    <3> QED
      BY <2>2, <2>3, <3>1 DEF StreamTypes
  <2>5. reader'.pc = "subscribe" /\ reader'.why = ""
    BY <2>1 DEF NoReader
  <2> QED
    BY <2>2, <2>3, <2>4, <2>5, EmptyStreamKeeps DEF CleanHandOver, Stranger
<1> QED
  BY <1>1, <1>2

(* The reader goes on to another place, short of the measured messages,    *)
(* with what remains of the stream.                                        *)
LEMMA GoOnKeeps ==
    ASSUME StreamInv, reader.pc # "measure", reader'.pc # "measure",
           StreamTypes', UNCHANGED <<sender, send_times>>, reader'.why = reader.why,
           reader'.late = reader.late \/ reader'.late = TRUE,
           port.by # "other" => \A i \in 1 .. Len(stream') : stream'[i][1] # "measured",
           Phases', port' = port
    PROVE  StreamInv'
<1>1. Stamped'
  BY DEF StreamInv, Stamped, IsMeasured
<1>2. CleanHandOver'
  BY DEF StreamInv, CleanHandOver, Stranger
<1> QED
  BY <1>1, <1>2 DEF StreamInv

(* There are no measured messages on the stream before their publisher.    *)
LEMMA NoneMeasured ==
    ASSUME StreamInv, reader.pc # "measure", port.by # "other"
    PROVE  \A i \in 1 .. Len(stream) : stream[i][1] # "measured"
<1> SUFFICES ASSUME NEW i \in 1 .. Len(stream), stream[i][1] = "measured" PROVE FALSE
  OBVIOUS
<1>1. send_times = {} /\ stream[i][2] \in send_times
  BY DEF StreamInv, Stamped, IsMeasured
<1> QED
  BY <1>1

LEMMA PublishKeeps ==
    ASSUME StreamInv,
           NEW from \in {"announce", "send", "warm"}, NEW payload \in Messages,
           NEW to \in {"listen", "await", "warmed"},
           from = "announce" => to = "listen", from = "warm" => to = "warmed",
           from = "send" => to = "await",
           payload[1] # "measured",
           publish_message(from, payload, to), port' = port
    PROVE  StreamInv'
<1>1. reader.pc = from
  BY DEF publish_message
<1>2. CASE OperationErr
  BY <1>1, <1>2, OperationKeeps
<1>3. CASE /\ stream' = Delivered(payload) /\ Go(to)
           /\ UNCHANGED <<sender, send_times>>
  <2>1. /\ stream' \in Seq(Messages) /\ Len(stream') <= Len(stream) + 1
        /\ \A i \in 1 .. Len(stream') :
             \/ i \in 1 .. Len(stream) /\ stream'[i] = stream[i]
             \/ stream'[i] = payload
    BY <1>3 DEF Delivered, StreamInv, StreamTypes, Readers, Senders
  <2>2. /\ reader' = [reader EXCEPT !.pc = to]
        /\ reader'.pc = to /\ reader'.why = reader.why /\ reader'.late = reader.late
    BY <1>3 DEF Go, StreamInv, StreamTypes, Readers, Senders
  <2>3. StreamTypes'
    BY <1>3, <2>1, <2>2 DEF StreamInv, StreamTypes, Readers, Senders
  <2>4. port.by # "other" => \A i \in 1 .. Len(stream') : stream'[i][1] # "measured"
    BY <1>1, <2>1, NoneMeasured
  <2>5. Phases'
    <3>1. ~reader.late /\ port.by # "other" /\ to \in {"listen", "warmed"} => stream = <<>>
      BY <1>1 DEF StreamInv, Phases
    <3>2. stream = <<>> => Len(stream) = 0
      OBVIOUS
    <3>3. Len(stream') \in Nat
      BY <2>1
    <3> QED
      BY <2>1, <2>2, <3>1, <3>2, <3>3 DEF Phases
  <2> QED
    BY <1>1, <1>3, <2>2, <2>3, <2>4, <2>5, GoOnKeeps
<1> QED
  BY <1>2, <1>3 DEF publish_message

(* The steps before any message is on the stream.                          *)
LEMMA OpeningKeeps ==
    ASSUME StreamInv, redis_connection \/ FinishStartup \/ Subscribe \/ GiveUp, port' = port
    PROVE  StreamInv'
<1>1. reader.pc \in {"open", "subscribe", "announce", "send"}
  BY DEF redis_connection, FinishStartup, Subscribe, GiveUp
<1>2. CASE OperationErr
  BY <1>1, <1>2, OperationKeeps
<1>3. CASE \E r : StreamEnds(r, "error") \/ StreamEnds(r, "")
  BY <1>3, StopKeeps DEF StreamEnds, Reasons
<1>4. CASE /\ reader.pc \in {"open", "subscribe"}
           /\ Go("subscribe") \/ Go("announce")
           /\ UNCHANGED <<stream, sender, send_times>>
  <2>1. PICK pc \in {"subscribe", "announce"} : reader' = [reader EXCEPT !.pc = pc]
    BY <1>4 DEF Go
  <2>2. reader'.pc = pc /\ reader'.why = reader.why /\ reader'.late = reader.late
    BY <2>1 DEF StreamInv, StreamTypes, Readers, Senders
  <2>3. StreamTypes'
    BY <1>4, <2>1 DEF StreamInv, StreamTypes, Readers, Senders
  <2>4. Phases'
    BY <1>4, <2>2 DEF StreamInv, Phases
  <2>5. port.by # "other" => \A i \in 1 .. Len(stream') : stream'[i][1] # "measured"
    BY <1>1, <1>4, NoneMeasured
  <2> QED
    BY <1>1, <1>4, <2>2, <2>3, <2>4, <2>5, GoOnKeeps
<1> QED
  BY <1>2, <1>3, <1>4 DEF redis_connection, FinishStartup, Subscribe, GiveUp

LEMMA ReadyKeeps ==
    ASSUME StreamInv, wait_for_subscription_ready, port' = port
    PROVE  StreamInv'
<1>1. reader.pc = "listen" /\ UNCHANGED <<sender, send_times>>
  BY DEF wait_for_subscription_ready
<1>2. CASE /\ stream # <<>> /\ stream' = Tail(stream)
           /\ \/ reader' = [reader EXCEPT !.pc = IF IsStartup THEN "send" ELSE "warm",
                                          !.attempt = 0]
              \/ Retry("announce", FALSE)
  <2>1. PICK pc \in {"send", "warm", "announce"}, k \in Nat :
          reader' = [reader EXCEPT !.pc = pc, !.attempt = k, !.late = reader.late]
    <3>1. reader \in Readers
      BY DEF StreamInv, StreamTypes
    <3>2. CASE reader' = [reader EXCEPT !.pc = IF IsStartup THEN "send" ELSE "warm",
                                        !.attempt = 0]
      <4> DEFINE to == IF IsStartup THEN "send" ELSE "warm"
      <4>1. to \in {"send", "warm"} /\ reader' = [reader EXCEPT !.pc = to, !.attempt = 0]
        BY <3>2
      <4> HIDE DEF to
      <4>2. reader' = [reader EXCEPT !.pc = to, !.attempt = 0, !.late = reader.late]
        BY <4>1, <3>1 DEF Readers
      <4> QED
        BY <4>1, <4>2
    <3>3. CASE Retry("announce", FALSE)
      <4>1. reader.attempt + 1 \in Nat /\ reader.late \in BOOLEAN
        BY <3>1 DEF Readers
      <4>2. (reader.late \/ FALSE) = reader.late
        BY <4>1, Zenon
      <4>3. reader' = [reader EXCEPT !.pc = "announce", !.attempt = reader.attempt + 1,
                                     !.late = reader.late]
        BY <3>3, <4>2 DEF Retry
      <4> QED
        BY <4>1, <4>3
    <3> QED
      BY <1>2, <3>2, <3>3
  <2>2. reader'.pc = pc /\ reader'.why = reader.why /\ reader'.late = reader.late
    BY <2>1 DEF StreamInv, StreamTypes, Readers, Senders
  <2>3. /\ Tail(stream) \in Seq(Messages) /\ Len(Tail(stream)) = Len(stream) - 1
        /\ Len(stream) \in Nat
        /\ \A i \in 1 .. Len(Tail(stream)) :
              Tail(stream)[i] = stream[i + 1] /\ i + 1 \in 1 .. Len(stream)
    BY <1>2, TailFacts DEF StreamInv, StreamTypes, Readers, Senders
  <2>4. StreamTypes'
    BY <1>1, <1>2, <2>1, <2>3 DEF StreamInv, StreamTypes, Readers, Senders
  <2>5. Phases'
    <3>1. ~reader.late /\ port.by # "other" => Len(stream) <= 1
      BY <1>1 DEF StreamInv, Phases
    <3>2. ~reader.late /\ port.by # "other" => Len(stream') = 0
      BY <3>1, <2>3, <2>4, <1>2 DEF StreamTypes, Readers, Senders
    <3>3. stream' \in Seq(Messages)
      BY <1>2, <2>3
    <3>4. ~reader.late /\ port.by # "other" => stream' = <<>>
      BY <3>2, <3>3
    <3> QED
      BY <3>4, <2>2 DEF Phases
  <2>6. port.by # "other" => \A i \in 1 .. Len(stream') : stream'[i][1] # "measured"
    BY <1>1, <1>2, <2>3, NoneMeasured
  <2> QED
    BY <1>1, <2>2, <2>4, <2>5, <2>6, GoOnKeeps
<1>3. CASE Retry("announce", stream # <<>>) /\ UNCHANGED stream
  <2> DEFINE late == reader.late \/ stream # <<>>
  <2>1. /\ reader' = [reader EXCEPT !.pc = "announce", !.attempt = @ + 1, !.late = late]
        /\ late \in BOOLEAN
    BY <1>3 DEF Retry
  <2> HIDE DEF late
  <2>2. reader'.pc = "announce" /\ reader'.why = reader.why /\ reader'.late = late
    BY <2>1 DEF StreamInv, StreamTypes, Readers, Senders
  <2>3. StreamTypes'
    <3>2. /\ reader \in Readers /\ reader.n + 1 \in Nat /\ reader.attempt + 1 \in Nat
          /\ reader.success + 1 \in Nat /\ reader.errors + 1 \in Nat
      BY DEF StreamInv, StreamTypes, Readers
    <3>1. reader' \in Readers
      BY <2>1, <3>2 DEF Readers
    <3> QED
      BY <1>1, <1>3, <3>1 DEF StreamInv, StreamTypes
  <2>4. Phases'
    BY <1>3, <2>2 DEF Phases, late
  <2>5. port.by # "other" => \A i \in 1 .. Len(stream') : stream'[i][1] # "measured"
    BY <1>1, <1>3, NoneMeasured
  <2>6. reader'.late = reader.late \/ reader'.late = TRUE
    BY <2>1, <2>2 DEF late, StreamInv, StreamTypes, Readers, Senders
  <2> QED
    BY <1>1, <2>2, <2>3, <2>4, <2>5, <2>6, GoOnKeeps
<1> QED
  BY <1>2, <1>3 DEF wait_for_subscription_ready

LEMMA StartupKeeps ==
    ASSUME StreamInv, measure_startup_once, port' = port
    PROVE  StreamInv'
<1>1. reader.pc = "await"
  BY DEF measure_startup_once
<1>2. CASE OperationOk
  BY <1>1, <1>2, OperationKeeps
<1>3. CASE /\ \/ stream # <<>> /\ stream' = Tail(stream)
              \/ UNCHANGED stream
           /\ \E late \in BOOLEAN : Retry("send", late)
           /\ UNCHANGED <<sender, send_times>>
  <2>1. PICK late \in BOOLEAN :
          /\ reader' = [reader EXCEPT !.pc = "send", !.attempt = @ + 1, !.late = late]
          /\ late = reader.late \/ late = TRUE
    BY <1>3 DEF Retry, StreamInv, StreamTypes, Readers, Senders
  <2>2. reader'.pc = "send" /\ reader'.why = reader.why /\ reader'.late = late
    BY <2>1 DEF StreamInv, StreamTypes, Readers, Senders
  <2>3. /\ stream' \in Seq(Messages)
        /\ \A i \in 1 .. Len(stream') : \E j \in 1 .. Len(stream) : stream'[i] = stream[j]
    <3>1. stream \in Seq(Messages)
      BY DEF StreamInv, StreamTypes
    <3>2. CASE stream # <<>> /\ stream' = Tail(stream)
      BY <3>1, <3>2, TailFacts
    <3>3. CASE UNCHANGED stream
      BY <3>1, <3>3
    <3> QED
      BY <1>3, <3>2, <3>3
  <2>4. StreamTypes'
    <3>2. /\ reader \in Readers /\ reader.n + 1 \in Nat /\ reader.attempt + 1 \in Nat
          /\ reader.success + 1 \in Nat /\ reader.errors + 1 \in Nat
      BY DEF StreamInv, StreamTypes, Readers
    <3>1. reader' \in Readers
      BY <2>1, <3>2 DEF Readers
    <3> QED
      BY <1>3, <2>3, <3>1 DEF StreamInv, StreamTypes
  <2>5. Phases'
    BY <2>2 DEF Phases
  <2>6. port.by # "other" => \A i \in 1 .. Len(stream') : stream'[i][1] # "measured"
    BY <1>1, <2>3, NoneMeasured
  <2> QED
    BY <1>1, <1>3, <2>1, <2>2, <2>4, <2>5, <2>6, GoOnKeeps
<1> QED
  BY <1>2, <1>3 DEF measure_startup_once

LEMMA WarmupReadKeeps ==
    ASSUME StreamInv, ReadWarmup, port' = port
    PROVE  StreamInv'
<1>1. reader.pc = "warmed"
  BY DEF ReadWarmup
<1>2. CASE StreamEnds(Failed, "error")
  BY <1>2, StopKeeps DEF StreamEnds, Reasons
<1>3. CASE /\ stream # <<>> /\ stream' = Tail(stream)
           /\ reader' = [reader EXCEPT !.pc = "warm", !.n = @ + 1]
           /\ UNCHANGED <<sender, send_times>>
  <2>1. reader'.pc = "warm" /\ reader'.why = reader.why /\ reader'.late = reader.late
    BY <1>3 DEF StreamInv, StreamTypes, Readers, Senders
  <2>2. /\ stream' \in Seq(Messages) /\ Len(stream') = Len(stream) - 1
        /\ Len(stream) \in Nat
        /\ \A i \in 1 .. Len(stream') :
              stream'[i] = stream[i + 1] /\ i + 1 \in 1 .. Len(stream)
    BY <1>3, TailFacts DEF StreamInv, StreamTypes, Readers, Senders
  <2>3. StreamTypes'
    <3>2. /\ reader \in Readers /\ reader.n + 1 \in Nat /\ reader.attempt + 1 \in Nat
          /\ reader.success + 1 \in Nat /\ reader.errors + 1 \in Nat
      BY DEF StreamInv, StreamTypes, Readers
    <3>1. reader' \in Readers
      BY <1>3, <3>2 DEF Readers
    <3> QED
      BY <1>3, <2>2, <3>1 DEF StreamInv, StreamTypes
  <2>4. ~reader.late /\ port.by # "other" => stream' = <<>>
    <3>1. ~reader.late /\ port.by # "other" => Len(stream) <= 1
      BY <1>1 DEF StreamInv, Phases
    <3>2. Len(stream') \in Nat
      BY <2>2
    <3> QED
      BY <3>1, <3>2, <2>2
  <2>5. Phases'
    BY <2>1, <2>4 DEF Phases
  <2>6. port.by # "other" => \A i \in 1 .. Len(stream') : stream'[i][1] # "measured"
    BY <1>1, <2>2, NoneMeasured
  <2> QED
    BY <1>1, <1>3, <2>1, <2>3, <2>5, <2>6, GoOnKeeps
<1> QED
  BY <1>2, <1>3 DEF ReadWarmup

LEMMA SpawnKeeps ==
    ASSUME StreamInv, SpawnSender, port' = port
    PROVE  StreamInv'
<1>1. reader.pc = "warm"
  BY DEF SpawnSender
<1>2. CASE StreamEnds(Failed, "error")
  BY <1>2, StopKeeps DEF StreamEnds, Reasons
<1>3. CASE /\ reader' = [reader EXCEPT !.pc = "measure", !.n = 0]
           /\ sender' = [pc |-> "wait", idx |-> 0]
           /\ UNCHANGED <<stream, send_times>>
  <2>1. reader'.pc = "measure" /\ reader'.why = reader.why /\ reader'.late = reader.late
    BY <1>3 DEF StreamInv, StreamTypes, Readers, Senders
  <2>2. StreamTypes'
    BY <1>3 DEF StreamInv, StreamTypes, Readers, Senders
  <2>3. Stamped'
    <3>1. port.by # "other" => \A i \in 1 .. Len(stream) : ~IsMeasured(i)
      BY <1>1, NoneMeasured DEF IsMeasured
    <3> QED
      BY <1>3, <2>1, <3>1, StreamsAssumption DEF StreamInv, Stamped, IsMeasured
  <2>4. Phases'
    BY <1>1, <1>3, <2>1 DEF StreamInv, Phases
  <2>5. CleanHandOver'
    BY <2>1 DEF StreamInv, CleanHandOver, Stranger
  <2> QED
    BY <2>2, <2>3, <2>4, <2>5 DEF StreamInv
<1> QED
  BY <1>2, <1>3 DEF SpawnSender

LEMMA StampKeeps ==
    ASSUME StreamInv, Stamp, port' = port
    PROVE  StreamInv'
<1>1. sender.pc = "wait" /\ UNCHANGED <<reader, stream>>
  BY DEF Stamp
<1>2. reader.pc = "measure"
  BY <1>1 DEF StreamInv, Stamped, NoSender
<1>3. Phases' /\ CleanHandOver'
  BY <1>1 DEF StreamInv, Phases, CleanHandOver, Stranger, IsMeasured
<1>4. CASE sender' = [sender EXCEPT !.pc = "ended"] /\ UNCHANGED send_times
  <2>1. sender'.pc = "ended" /\ sender'.idx = sender.idx
    BY <1>4 DEF StreamInv, StreamTypes, Readers, Senders
  <2>2. StreamTypes'
    BY <1>1, <1>4 DEF StreamInv, StreamTypes, Readers, Senders
  <2>3. Stamped'
    BY <1>1, <1>2, <1>4, <2>1 DEF StreamInv, Stamped, IsMeasured
  <2> QED
    BY <1>3, <2>2, <2>3 DEF StreamInv
<1>5. CASE /\ sender.idx # MeasuredMessages /\ Cardinality(send_times) < Window
           /\ send_times' = send_times \cup {sender.idx}
           /\ sender' = [sender EXCEPT !.pc = "publish"]
  <2>1. sender'.pc = "publish" /\ sender'.idx = sender.idx /\ sender.idx \in Nat
    BY <1>5 DEF StreamInv, StreamTypes, Readers, Senders
  <2>2. sender.idx \in 0 .. MeasuredMessages - 1
    BY <1>5, <2>1, StreamsAssumption DEF StreamInv, Stamped
  <2>3. StreamTypes'
    BY <1>1, <1>5, <2>2 DEF StreamInv, StreamTypes, Readers, Senders
  <2>4. Cardinality(send_times') <= Window
    <3>1. IsFiniteSet(0 .. MeasuredMessages - 1)
      BY FS_Interval, StreamsAssumption
    <3>2. IsFiniteSet(send_times)
      BY <3>1, FS_Subset DEF StreamInv, StreamTypes, Readers, Senders
    <3>3. /\ Cardinality(send_times) \in Nat
          /\ Cardinality(send_times') \in {Cardinality(send_times), Cardinality(send_times) + 1}
      BY <1>5, <3>2, FS_AddElement, FS_CardinalityType
    <3> QED
      BY <1>5, <3>3, StreamsAssumption DEF StreamInv, Stamped
  <2>5. Stamped'
    BY <1>1, <1>2, <1>5, <2>1, <2>2, <2>4, Numbers DEF StreamInv, Stamped, IsMeasured
  <2> QED
    BY <1>3, <2>3, <2>5 DEF StreamInv
<1> QED
  BY <1>4, <1>5 DEF Stamp

LEMMA PublishMeasuredKeeps ==
    ASSUME StreamInv, PublishMeasured, port' = port
    PROVE  StreamInv'
<1>1. sender.pc = "publish" /\ UNCHANGED <<reader, send_times>>
  BY DEF PublishMeasured
<1>2. /\ reader.pc = "measure" /\ sender.idx < MeasuredMessages
      /\ port.by # "other" => sender.idx \in send_times
  BY <1>1 DEF StreamInv, Stamped, NoSender
<1>3. CleanHandOver'
  BY <1>1 DEF StreamInv, CleanHandOver, Stranger
<1>4. CASE sender' = [sender EXCEPT !.pc = "failed"] /\ UNCHANGED stream
  <2>1. sender'.pc = "failed" /\ sender'.idx = sender.idx
    BY <1>4 DEF StreamInv, StreamTypes, Readers, Senders
  <2>2. StreamTypes'
    BY <1>1, <1>4 DEF StreamInv, StreamTypes, Readers, Senders
  <2>3. Stamped'
    BY <1>1, <1>2, <1>4, <2>1 DEF StreamInv, Stamped, IsMeasured
  <2>4. Phases'
    BY <1>1, <1>4 DEF StreamInv, Phases, IsMeasured
  <2> QED
    BY <1>3, <2>2, <2>3, <2>4 DEF StreamInv
<1>5. CASE /\ stream' = Delivered(<<"measured", sender.idx>>)
           /\ sender' = [pc |-> "wait", idx |-> sender.idx + 1]
  <2> DEFINE m == <<"measured", sender.idx>>
  <2>1. /\ sender'.pc = "wait" /\ sender'.idx = sender.idx + 1
        /\ sender.idx \in Nat /\ sender.idx < MeasuredMessages
        /\ m \in Messages /\ m[1] = "measured" /\ m[2] = sender.idx
    <3>1. sender.idx \in Nat /\ sender.idx < MeasuredMessages
      BY <1>2, Numbers DEF StreamInv, StreamTypes, Senders
    <3>2. m \in Messages /\ m[1] = "measured" /\ m[2] = sender.idx
      BY <3>1 DEF Messages
    <3> QED
      BY <1>5, <3>1, <3>2
  <2>2. stream' = stream \/ stream' = Append(stream, m)
    BY <1>5 DEF Delivered
  <2> HIDE DEF m
  <2>3. stream \in Seq(Messages) /\ stream' \in Seq(Messages)
    <3>1. stream \in Seq(Messages)
      BY DEF StreamInv, StreamTypes
    <3>2. Append(stream, m) \in Seq(Messages)
      BY <2>1, <3>1, AppendProperties
    <3> QED
      BY <2>2, <3>1, <3>2
  <2>4. \A i \in 1 .. Len(stream') :
          \/ i \in 1 .. Len(stream) /\ stream'[i] = stream[i]
          \/ i = Len(stream) + 1 /\ stream'[i] = m
    BY <2>2, <2>3
  <2>5. StreamTypes'
    BY <1>1, <1>5, <2>1, <2>3 DEF StreamInv, StreamTypes, Readers, Senders
  <2>6. port.by # "other" => \A i \in 1 .. Len(stream) : stream[i][1] = "measured" =>
          /\ stream[i][2] \in send_times /\ stream[i][2] \in Nat
          /\ stream[i][2] < sender.idx
    <3>1. \A x \in Messages : x[2] \in Nat
      BY DEF Messages
    <3> QED
      BY <2>3, <3>1 DEF StreamInv, Stamped, IsMeasured
  <2>7. port.by # "other" => \A i \in 1 .. Len(stream') : stream'[i][1] = "measured" =>
          stream'[i][2] \in send_times' /\ stream'[i][2] < sender'.idx
    BY <1>1, <1>2, <2>1, <2>4, <2>6
  <2>8. port.by # "other" => \A i, j \in 1 .. Len(stream') :
          i # j /\ stream'[i][1] = "measured" /\ stream'[j][1] = "measured"
            => stream'[i][2] # stream'[j][2]
    <3> SUFFICES ASSUME port.by # "other",
                        NEW i \in 1 .. Len(stream'), NEW j \in 1 .. Len(stream'), i # j,
                        stream'[i][1] = "measured", stream'[j][1] = "measured"
                 PROVE  stream'[i][2] # stream'[j][2]
      OBVIOUS
    <3>1. \A k, l \in 1 .. Len(stream) :
            k # l /\ stream[k][1] = "measured" /\ stream[l][1] = "measured"
              => stream[k][2] # stream[l][2]
      BY DEF StreamInv, Stamped, IsMeasured
    <3>2. CASE i \in 1 .. Len(stream) /\ j \in 1 .. Len(stream)
      <4>1. stream'[i] = stream[i] /\ stream'[j] = stream[j]
        BY <2>3, <2>4, <3>2
      <4> QED
        BY <3>1, <3>2, <4>1
    <3>3. CASE i \in 1 .. Len(stream) /\ stream'[j] = m /\ stream'[i] = stream[i]
      BY <2>1, <2>6, <3>3
    <3>4. CASE j \in 1 .. Len(stream) /\ stream'[i] = m /\ stream'[j] = stream[j]
      BY <2>1, <2>6, <3>4
    <3> QED
      BY <2>4, <3>2, <3>3, <3>4
  <2>9. Stamped'
    <3>1. sender'.idx <= MeasuredMessages
      BY <2>1, StreamsAssumption
    <3> QED
      BY <1>1, <1>2, <2>1, <2>7, <2>8, <3>1 DEF StreamInv, Stamped, IsMeasured
  <2>10. Phases'
    BY <1>1, <1>2, <2>1, <2>4 DEF StreamInv, Phases, IsMeasured
  <2> QED
    BY <1>3, <2>5, <2>9, <2>10 DEF StreamInv
<1> QED
  BY <1>4, <1>5 DEF PublishMeasured

(* The rest of the stream, when its first message is read or lost; of the  *)
(* timestamps, at most that of the first message is taken back.            *)
LEMMA FewerKeeps ==
    ASSUME StreamInv, stream # <<>>, stream' = Tail(stream),
           StreamTypes', CleanHandOver', UNCHANGED <<sender, port>>,
           reader'.pc = reader.pc, reader'.late = reader.late,
           \/ UNCHANGED send_times
           \/ /\ reader.pc = "measure"
              /\ port.by # "other" => sender.idx # stream[1][2]
              /\ IsMeasured(1)
              /\ send_times' = send_times \ {stream[1][2]}
    PROVE  StreamInv'
<1>1. /\ Len(stream') = Len(stream) - 1 /\ Len(stream) \in Nat /\ 1 \in 1 .. Len(stream)
      /\ \A i \in 1 .. Len(stream') :
            stream'[i] = stream[i + 1] /\ i + 1 \in 1 .. Len(stream)
  BY TailFacts DEF StreamInv, StreamTypes, Readers, Senders
<1>2. ASSUME NEW i \in 1 .. Len(stream'), stream'[i][1] = "measured", port.by # "other"
      PROVE  stream'[i][2] \in send_times' /\ stream'[i][2] < sender.idx
  <2>1. /\ stream[i + 1][1] = "measured" /\ i + 1 \in 1 .. Len(stream)
        /\ stream'[i][2] = stream[i + 1][2] /\ i + 1 # 1
    BY <1>1, <1>2
  <2>2. stream[i + 1][2] \in send_times /\ stream[i + 1][2] < sender.idx
    BY <1>2, <2>1 DEF StreamInv, Stamped, IsMeasured
  <2>3. IsMeasured(1) => stream[i + 1][2] # stream[1][2]
    BY <1>1, <1>2, <2>1 DEF StreamInv, Stamped, IsMeasured
  <2> QED
    BY <2>1, <2>2, <2>3
<1>3. ASSUME NEW i \in 1 .. Len(stream'), NEW j \in 1 .. Len(stream'), i # j,
             stream'[i][1] = "measured", stream'[j][1] = "measured", port.by # "other"
      PROVE  stream'[i][2] # stream'[j][2]
  <2>1. i + 1 # j + 1
    BY <1>3
  <2> QED
    BY <1>1, <1>3, <2>1 DEF StreamInv, Stamped, IsMeasured
<1>4. Cardinality(send_times') <= Window
  <2>1. IsFiniteSet(0 .. MeasuredMessages - 1)
    BY FS_Interval, StreamsAssumption
  <2>2. IsFiniteSet(send_times) /\ send_times' \subseteq send_times
    BY <2>1, FS_Subset DEF StreamInv, StreamTypes, Readers, Senders
  <2>3. /\ Cardinality(send_times') <= Cardinality(send_times)
        /\ Cardinality(send_times') \in Nat /\ Cardinality(send_times) \in Nat
    BY <2>2, FS_Subset, FS_CardinalityType
  <2> QED
    BY <2>3, StreamsAssumption DEF StreamInv, Stamped
<1>5. port.by # "other" /\ sender.pc = "publish" => sender.idx \in send_times'
  BY DEF StreamInv, Stamped
<1>6. reader'.pc # "measure" => sender' = NoSender /\ send_times' = {}
  BY DEF StreamInv, Stamped
<1>7. Stamped'
  BY <1>2, <1>3, <1>4, <1>5, <1>6 DEF StreamInv, Stamped, IsMeasured
<1>8. Phases'
  <2>1. stream # <<>>
    OBVIOUS
  <2>2. ASSUME ~reader.late, port.by # "other", reader.pc = "measure", NEW i \in 1 .. Len(stream')
        PROVE  stream'[i][1] = "measured"
    BY <1>1, <2>2 DEF StreamInv, Phases, IsMeasured
  <2> QED
    BY <1>1, <2>1, <2>2 DEF StreamInv, Phases, IsMeasured
<1> QED
  BY <1>7, <1>8 DEF StreamInv

LEMMA LoseKeeps ==
    ASSUME StreamInv, Lose, port' = port
    PROVE  StreamInv'
<1>1. stream # <<>> /\ stream' = Tail(stream) /\ UNCHANGED <<reader, sender, send_times>>
  BY DEF Lose
<1>2. StreamTypes'
  BY <1>1, TailFacts DEF StreamInv, StreamTypes, Readers, Senders
<1>3. CleanHandOver'
  BY <1>1 DEF StreamInv, CleanHandOver, Stranger
<1> QED
  BY <1>1, <1>2, <1>3, FewerKeeps

LEMMA ReadMeasuredKeeps ==
    ASSUME StreamInv, ReadMeasured, port' = port
    PROVE  StreamInv'
<1>1. reader.pc = "measure"
  BY DEF ReadMeasured
<1>2. ASSUME stream # <<>>, WhyNot(Head(stream)) # "", StopStreams(WhyNot(Head(stream)))
      PROVE  StreamInv'
  <2>1. Head(stream) = stream[1] /\ 1 \in 1 .. Len(stream)
    BY <1>2, TailFacts DEF StreamInv, StreamTypes, Readers, Senders
  <2>2. ASSUME port.by # "other"
        PROVE  WhyNot(Head(stream)) = "alien" /\ reader.late
    <3>1. IsMeasured(1) => stream[1][2] \in send_times
      BY <2>1, <2>2 DEF StreamInv, Stamped
    <3>2. WhyNot(Head(stream)) = "alien" /\ ~IsMeasured(1)
      BY <1>2, <2>1, <3>1 DEF WhyNot, IsMeasured
    <3> QED
      BY <1>1, <2>1, <2>2, <3>2 DEF StreamInv, Phases
  <2>3. WhyNot(Head(stream)) \in Reasons
    BY DEF WhyNot, Reasons
  <2> QED
    BY <1>2, <2>2, <2>3, StopKeeps
<1>3. CASE /\ stream # <<>> /\ WhyNot(Head(stream)) = ""
           /\ send_times' = send_times \ {Head(stream)[2]}
           /\ stream' = Tail(stream)
           /\ reader' = [reader EXCEPT !.n = @ + 1, !.success = @ + 1]
           /\ UNCHANGED sender
  <2>1. /\ Head(stream) = stream[1] /\ 1 \in 1 .. Len(stream)
        /\ Tail(stream) \in Seq(Messages) /\ stream[1][2] \in Nat
    BY <1>3, TailFacts DEF StreamInv, StreamTypes, Readers, Senders
  <2>2. IsMeasured(1)
    BY <1>3, <2>1 DEF WhyNot, IsMeasured
  <2>3. /\ reader'.pc = reader.pc /\ reader'.late = reader.late
        /\ reader'.why = reader.why
    BY <1>3 DEF StreamInv, StreamTypes, Readers, Senders
  <2>4. StreamTypes'
    <3>2. /\ reader \in Readers /\ reader.n + 1 \in Nat /\ reader.attempt + 1 \in Nat
          /\ reader.success + 1 \in Nat /\ reader.errors + 1 \in Nat
      BY DEF StreamInv, StreamTypes, Readers
    <3>1. reader' \in Readers
      BY <1>3, <3>2 DEF Readers
    <3> QED
      BY <1>3, <2>1, <3>1 DEF StreamInv, StreamTypes
  <2>5. CleanHandOver'
    BY <2>3 DEF StreamInv, CleanHandOver, Stranger
  <2>6. port.by # "other" => sender.idx # stream[1][2]
    BY <2>1, <2>2 DEF StreamInv, Stamped, StreamTypes, Readers, Senders
  <2> QED
    BY <1>1, <1>3, <2>1, <2>2, <2>3, <2>4, <2>5, <2>6, FewerKeeps
<1>4. CASE /\ reader' = [reader EXCEPT !.n = @ + 1, !.errors = @ + 1]
           /\ UNCHANGED <<stream, sender, send_times>>
  <2>1. /\ reader'.pc = reader.pc /\ reader'.late = reader.late
        /\ reader'.why = reader.why
    BY <1>4 DEF StreamInv, StreamTypes, Readers, Senders
  <2>2. StreamTypes'
    <3>2. /\ reader \in Readers /\ reader.n + 1 \in Nat /\ reader.attempt + 1 \in Nat
          /\ reader.success + 1 \in Nat /\ reader.errors + 1 \in Nat
      BY DEF StreamInv, StreamTypes, Readers
    <3>1. reader' \in Readers
      BY <1>4, <3>2 DEF Readers
    <3> QED
      BY <1>4, <3>1 DEF StreamInv, StreamTypes
  <2>3. Stamped' /\ Phases' /\ CleanHandOver'
    BY <1>4, <2>1 DEF StreamInv, Stamped, Phases, CleanHandOver, Stranger, IsMeasured
  <2> QED
    BY <2>2, <2>3 DEF StreamInv
<1> QED
  BY <1>2, <1>3, <1>4 DEF ReadMeasured, StreamEnds

LEMMA StreamsKeep ==
    ASSUME StreamInv, StreamsNext, port' = port
    PROVE  StreamInv'
<1>1. CASE PublishSentinel \/ PublishPayload \/ PublishWarmup
  <2>1. /\ Sentinel \in Messages /\ Sentinel[1] # "measured"
        /\ Payload \in Messages /\ Payload[1] # "measured"
        /\ <<"warmup", reader.n>> \in Messages
        /\ <<"warmup", reader.n>>[1] # "measured"
    BY DEF Sentinel, Payload, Messages, StreamInv, StreamTypes, Readers
  <2>2. CASE PublishSentinel
    BY <2>1, <2>2, PublishKeeps DEF PublishSentinel
  <2>3. CASE PublishPayload
    BY <2>1, <2>3, PublishKeeps DEF PublishPayload
  <2>4. CASE PublishWarmup
    BY <2>1, <2>4, PublishKeeps DEF PublishWarmup
  <2> QED
    BY <1>1, <2>2, <2>3, <2>4
<1>2. CASE GoesLive
  <2>1. UNCHANGED <<reader, stream, sender, send_times>>
    BY <1>2 DEF GoesLive
  <2> QED
    BY <2>1 DEF StreamInv, StreamTypes, Stamped, Phases, CleanHandOver, Stranger, IsMeasured
<1>3. CASE JoinSender
  BY <1>3, StopKeeps DEF JoinSender, StreamEnds, Reasons
<1>4. CASE StrangerSends
  <2>1. /\ port.by = "other" /\ reader.pc \notin {"off", "open", "subscribe"}
        /\ UNCHANGED <<reader, sender, send_times>>
    BY <1>4 DEF StrangerSends, Stranger
  <2>2. PICK m \in {Sentinel, Payload} \cup ({"measured"} \X send_times) :
          stream' = Append(stream, m)
    BY <1>4 DEF StrangerSends
  <2>3. m \in Messages
    <3>1. reader.n \in Nat /\ send_times \subseteq Nat
      BY Numbers DEF StreamInv, StreamTypes, Readers
    <3>2. Sentinel \in Messages /\ Payload \in Messages
      BY <3>1 DEF Messages, Sentinel, Payload
    <3>3. \A k \in send_times : <<"measured", k>> \in Messages
      BY <3>1 DEF Messages
    <3>4. m \in {Sentinel, Payload} \/ \E k \in send_times : m = <<"measured", k>>
      BY <2>2
    <3> QED
      BY <3>2, <3>3, <3>4
  <2>4. stream' \in Seq(Messages)
    BY <2>2, <2>3, AppendProperties DEF StreamInv, StreamTypes
  <2> QED
    BY <2>1, <2>4 DEF StreamInv, StreamTypes, Stamped, Phases, CleanHandOver, Stranger
<1> QED
  BY <1>1, <1>2, <1>3, <1>4, OpeningKeeps, ReadyKeeps, StartupKeeps, WarmupReadKeeps,
     SpawnKeeps, StampKeeps, PublishMeasuredKeeps, ReadMeasuredKeeps, LoseKeeps
  DEF StreamsNext

----------------------------------------------------------------------------
(* The comparison                                                          *)

LEMMA InitInv == Init => IInv
<1> SUFFICES ASSUME Init PROVE IInv
  OBVIOUS
<1>1. JobTypes
  <2>1. job = [pc |-> "spec", variant |-> 1, step |-> 1, why |-> "", same |-> TRUE]
    BY DEF Init
  <2>2. job \in Jobs
    BY <2>1 DEF Jobs, Errors
  <2>3. /\ server = "none" /\ port \in Ports /\ polls = 0 /\ faults = 0
    BY DEF Init, Free, Ports
  <2>4. 0 \in 0 .. MaxPolls /\ 0 \in 0 .. MaxFaults
    BY Numbers
  <2> QED
    BY <2>2, <2>3, <2>4 DEF JobTypes
<1>2. JobInv
  <2>1. job.pc = "spec" /\ job.variant = 1 /\ job.step = 1
    BY DEF Init
  <2>2. 1 \in DOMAIN Contexts
    BY PlanAssumption
  <2>3. Len(Plan) \in Nat
    BY PlanFacts DEF Plan
  <2>4. work = Idle /\ result = NoResult /\ pool.stage = "off" /\ reader.pc = "off"
    BY DEF Init, WorkersOff, StreamsOff, NoPool, NoReader
  <2> QED
    BY <2>1, <2>2, <2>3, <2>4 DEF JobInv
<1>3. ResultInv /\ WhyInv
  BY DEF Init, ResultInv, WhyInv, WorkersOff, StreamsOff, NoPool, NoReader, NoResult
<1>4. WorkerTypes /\ Counting /\ Untouched /\ Sockets
  <2>1. /\ Fresh("") \in Tasks /\ Fresh("").pc = "connect" /\ NoSocket \in Connections
    BY DEF Fresh, Tasks, Connections, NoSocket
  <2>2. /\ pool = NoPool /\ wk = [w \in Workers |-> Fresh("")]
        /\ sock = [w \in Workers |-> NoSocket]
    BY DEF Init, WorkersOff
  <2>8. NoPool \in Pools
    BY DEF NoPool, Pools
  <2>3. WorkerTypes
    BY <2>1, <2>2, <2>8 DEF WorkerTypes
  <2>4. Busy = {} /\ Ended = {}
    BY <2>1, <2>2 DEF Busy, Ended
  <2>5. Cardinality(Busy) = 0 /\ Cardinality(Ended) = 0
    BY <2>4, FS_EmptySet
  <2>9. pool.counter = 0 /\ pool.success = 0 /\ pool.errors = 0
    BY <2>2 DEF NoPool
  <2>6. Counting
    BY <2>4, <2>5, <2>9, Numbers DEF Counting, Claimed
  <2>7. Untouched /\ Sockets
    BY <2>1, <2>2, <2>4 DEF Untouched, Sockets, OwnReplies, SocketOf, NoPool
  <2> QED
    BY <2>3, <2>6, <2>7
<1>5. StreamTypes /\ Stamped /\ Phases /\ CleanHandOver
  <2>1. /\ reader = NoReader /\ stream = <<>> /\ sender = NoSender /\ send_times = {}
    BY DEF Init, StreamsOff
  <2>5. NoReader \in Readers /\ NoSender \in Senders
    BY DEF NoReader, NoSender, Readers, Senders, Reasons
  <2>2. StreamTypes
    BY <2>1, <2>5, EmptyStream DEF StreamTypes
  <2>3. Cardinality(send_times) = 0
    BY <2>1, FS_EmptySet
  <2>4. Stamped
    <3>1. Len(stream) = 0 /\ sender.pc = "off" /\ sender.idx = 0
      BY <2>1 DEF NoSender
    <3> QED
      BY <2>1, <2>3, <3>1, Numbers DEF Stamped
  <2> QED
    BY <2>1, <2>2, <2>4 DEF Phases, CleanHandOver, NoReader
<1> QED
  BY <1>1, <1>2, <1>3, <1>4, <1>5 DEF IInv

(* The invariants of workers and streams do not depend on the rest, except *)
(* for the workload of the workers and for strangers on the port.          *)
LEMMA WorkersRest ==
    ASSUME WorkerInv, UNCHANGED workerVars,
           (work' = work /\ job'.same = job.same) \/ pool.stage = "off"
    PROVE  WorkerInv'
<1>1. UNCHANGED <<pool, wk, sock>>
  BY DEF workerVars
<1>2. Busy' = Busy /\ Ended' = Ended
  BY <1>1 DEF Busy, Ended
<1>3. WorkerTypes' /\ Counting' /\ Untouched'
  BY <1>1, <1>2 DEF WorkerInv, WorkerTypes, Counting, Claimed, Untouched
<1>4. Sockets'
  <2>1. CASE work' = work /\ job'.same = job.same
    BY <2>1, <1>1, <1>2 DEF WorkerInv, Sockets, OwnReplies, SocketOf, Requests, Hidden
  <2>2. CASE pool.stage = "off"
    <3>1. \A w \in Workers : wk'[w].pc \in {"connect", "claim"} /\ w \notin Busy'
      BY <2>2, <1>1 DEF WorkerInv, Untouched, Busy
    <3> QED
      BY <3>1, <1>1 DEF WorkerInv, Sockets, OwnReplies, SocketOf
  <2> QED
    BY <2>1, <2>2
<1> QED
  BY <1>3, <1>4 DEF WorkerInv

LEMMA StreamsRest ==
    ASSUME StreamInv, UNCHANGED streamVars,
           \/ port.by = "other" => port'.by = "other"
           \/ reader.pc = "off" /\ reader.why = ""
    PROVE  StreamInv'
<1>1. UNCHANGED <<reader, stream, sender, send_times>>
  BY DEF streamVars
<1>2. CASE port.by = "other" => port'.by = "other"
  BY <1>1, <1>2
  DEF StreamInv, StreamTypes, Stamped, Phases, CleanHandOver, Stranger, IsMeasured
<1>3. CASE reader.pc = "off" /\ reader.why = ""
  <2>1. stream = <<>> /\ sender = NoSender /\ send_times = {}
    BY <1>3 DEF StreamInv, Phases, Stamped
  <2>2. StreamTypes' /\ CleanHandOver'
    BY <1>1, <1>3 DEF StreamInv, StreamTypes, CleanHandOver
  <2> QED
    BY <1>1, <1>3, <2>1, <2>2, EmptyStreamKeeps
<1> QED
  BY <1>2, <1>3

(* Steps of the comparison that leave the variant, its step and the        *)
(* workload alone, or leave them for good.                                 *)
LEMMA PlaceKeeps ==
    ASSUME JobInv, ResultInv, JobTypes, Resting, UNCHANGED <<work, result>>,
           job.pc # "work", job'.pc # "work",
           \/ /\ job'.variant = job.variant /\ job'.step = job.step
              /\ job'.pc \in BeforeRun \cup {"run"} => job.pc \in BeforeRun
           \/ /\ job'.variant \in DOMAIN Contexts /\ job'.step = 1
              /\ job'.pc # "run"
    PROVE  JobInv' /\ ResultInv'
<1>1. UNCHANGED <<pool, reader>>
  BY DEF Resting, workerVars, streamVars
<1>2. ResultInv'
  BY <1>1 DEF ResultInv
<1>3. Plan' = SuitesOf(Contexts[job'.variant]) /\ Plan = SuitesOf(Contexts[job.variant])
  BY DEF Plan, Context
<1>4. Len(Plan') \in Nat /\ Len(Plan) \in Nat
  BY <1>3, PlanFacts
<1>5. /\ work = Idle /\ result = NoResult /\ pool.stage = "off" /\ reader.pc = "off"
      /\ job.variant \in DOMAIN Contexts /\ job.step \in 1 .. Len(Plan) + 1
  BY DEF JobInv
<1>6. job'.variant \in DOMAIN Contexts /\ job'.step \in 1 .. Len(Plan') + 1
  BY <1>3, <1>4, <1>5
<1>7. /\ job'.pc = "run" => job'.step = 1
      /\ job'.pc \in BeforeRun => job'.step = 1
  BY DEF JobInv
<1>8. JobInv'
  BY <1>1, <1>5, <1>6, <1>7 DEF JobInv
<1> QED
  BY <1>2, <1>8

(* A step outside of the workloads: within the variant, or to the next.    *)
Moves ==
    /\ job' \in Jobs /\ job'.pc # "work"
    /\ \/ /\ job'.variant = job.variant /\ job'.step = job.step
          /\ job'.pc \in BeforeRun \cup {"run"} => job.pc \in BeforeRun
       \/ /\ job'.variant \in DOMAIN Contexts /\ job'.step = 1
          /\ job'.pc # "run"

Stops(why) == job' = [job EXCEPT !.pc = "ended", !.why = why]

Goes(pc) == job' = [job EXCEPT !.pc = pc]

LEMMA JobEnds ==
    ASSUME NEW j \in Jobs, NEW why \in Errors
    PROVE  LET k == [j EXCEPT !.pc = "ended", !.why = why]
           IN  k \in Jobs /\ k.pc = "ended" /\ k.variant = j.variant /\ k.step = j.step
BY DEF Jobs

LEMMA JobGoes ==
    ASSUME NEW j \in Jobs,
           NEW pc \in {"dir", "build", "spawn", "poll", "run", "work", "report", "ended"}
    PROVE  LET k == [j EXCEPT !.pc = pc]
           IN  /\ k \in Jobs /\ k.pc = pc /\ k.same = j.same
               /\ k.variant = j.variant /\ k.step = j.step
BY DEF Jobs

(* The steps between two workloads.                                        *)
LEMMA BetweenKeeps ==
    ASSUME IInv,
           \/ ResolveSpec \/ CreateArtifactDir \/ ensure_binary_for_mode \/ Spawn
           \/ Poll \/ NotReady \/ EndVariant \/ WriteResults \/ WriteReport
    PROVE  IInv'
<1>1. Resting /\ UNCHANGED <<work, result, faults>>
  BY DEF ResolveSpec, CreateArtifactDir, ensure_binary_for_mode, Spawn, Poll, NotReady,
         EndVariant, WriteResults, WriteReport, WriteArtifact, workVars
<1>3. /\ job.pc \notin {"work", "ended"} /\ job \in Jobs
  BY DEF ResolveSpec, CreateArtifactDir, ensure_binary_for_mode, Spawn, Poll, NotReady,
         EndVariant, WriteResults, WriteReport, WriteArtifact, Place, IInv, JobTypes
<1>2. WorkerInv' /\ StreamInv' /\ WhyInv'
  <2>1. /\ pool.stage = "off" /\ reader.pc = "off" /\ result = NoResult
        /\ UNCHANGED <<workerVars, streamVars, reader>>
    BY <1>1, <1>3 DEF IInv, JobInv, Resting, streamVars
  <2>2. reader.why = ""
    BY <1>3, <2>1 DEF IInv, WhyInv, NoResult, Failed
  <2> QED
    BY <2>1, <2>2, WorkersRest, StreamsRest DEF IInv, WorkerInv, StreamInv, WhyInv
<1>4. /\ port' \in Ports /\ polls' \in 0 .. MaxPolls
      /\ server' \in {"none", "starting", "listening", "exited"}
  <2>1. Free \in Ports /\ 0 \in 0 .. MaxPolls
    BY Numbers DEF Free, Ports
  <2>2. port' \in {port, Free}
    BY DEF ResolveSpec, CreateArtifactDir, ensure_binary_for_mode, Spawn, Poll, NotReady,
           EndVariant, WriteResults, WriteReport, WriteArtifact, Abort, KillServer
  <2>3. server' \in {server, "none", "starting"}
    BY DEF ResolveSpec, CreateArtifactDir, ensure_binary_for_mode, Spawn, Poll, NotReady,
           EndVariant, WriteResults, WriteReport, WriteArtifact, Abort, KillServer
  <2>4. polls' \in {polls, 0} \/ (polls < MaxPolls /\ polls' = polls + 1)
    BY DEF ResolveSpec, CreateArtifactDir, ensure_binary_for_mode, Spawn, Poll, NotReady,
           EndVariant, WriteResults, WriteReport, WriteArtifact, Abort, KillServer
  <2> QED
    BY <2>1, <2>2, <2>3, <2>4, Numbers DEF IInv, JobTypes
<1>5. Moves
  <2>1. ASSUME NEW why \in Errors, Stops(why) PROVE Moves
    BY <1>3, <2>1, JobEnds DEF Stops, Moves, BeforeRun
  <2>2. ASSUME NEW pc \in {"dir", "build", "spawn", "poll", "run", "report", "ended"},
               Goes(pc), pc \in {"report", "ended"} \/ job.pc \in BeforeRun
        PROVE  Moves
    <3>1. /\ job' \in Jobs /\ job'.pc = pc
          /\ job'.variant = job.variant /\ job'.step = job.step
      <4>1. pc \in {"dir", "build", "spawn", "poll", "run", "work", "report", "ended"}
        OBVIOUS
      <4>2. job' = [job EXCEPT !.pc = pc]
        BY <2>2 DEF Goes
      <4>3. LET k == [job EXCEPT !.pc = pc]
            IN  k \in Jobs /\ k.pc = pc /\ k.variant = job.variant /\ k.step = job.step
        BY <1>3, <4>1, JobGoes
      <4> QED
        BY <4>2, <4>3
    <3> QED
      BY <2>2, <3>1 DEF Moves, BeforeRun
  <2>4. CASE EndVariant
    <3>1. job.variant \in DOMAIN Contexts
      BY DEF IInv, JobInv
    <3>2. job.variant < Len(Contexts) => job.variant + 1 \in DOMAIN Contexts
      BY <3>1, PlanAssumption
    <3>3. CASE job.variant < Len(Contexts)
      <4>1. job' = [job EXCEPT !.pc = "build", !.variant = @ + 1, !.step = 1]
        BY <2>4, <3>3 DEF EndVariant
      <4> QED
        <5>1. job.variant + 1 \in Nat
          BY <1>3 DEF Jobs
        <5>2. job' \in Jobs
          BY <1>3, <4>1, <5>1 DEF Jobs
        <5> QED
          BY <1>3, <3>2, <3>3, <4>1, <5>2 DEF Jobs, Moves
    <3>4. CASE ~(job.variant < Len(Contexts))
      <4>1. job' = [job EXCEPT !.pc = "results"]
        BY <2>4, <3>4 DEF EndVariant
      <4> QED
        BY <1>3, <4>1 DEF Jobs, Moves, BeforeRun
    <3> QED
      BY <3>3, <3>4
  <2>5. CASE job' = job /\ job.pc = "poll"
    BY <2>5, <1>3 DEF Moves, BeforeRun
  <2>6. CASE ResolveSpec
    <3>1. \/ Goes("dir") /\ job.pc \in BeforeRun
          \/ Stops("spec")
      BY <2>6 DEF Stops, Goes, ResolveSpec, Abort, Enter, Place, BeforeRun
    <3> QED
      BY <3>1, <2>1, <2>2 DEF Errors
  <2>7. CASE CreateArtifactDir
    <3>1. \/ Goes("build") /\ job.pc \in BeforeRun
          \/ Stops("dir")
      BY <2>7 DEF Stops, Goes, CreateArtifactDir, Abort, Enter, Place, BeforeRun
    <3> QED
      BY <3>1, <2>1, <2>2 DEF Errors
  <2>8. CASE ensure_binary_for_mode
    <3>1. \/ Goes("spawn") /\ job.pc \in BeforeRun
          \/ Stops("build")
      BY <2>8 DEF Stops, Goes, ensure_binary_for_mode, Abort, Enter, Place, BeforeRun
    <3> QED
      BY <3>1, <2>1, <2>2 DEF Errors
  <2>9. CASE Spawn
    <3>1. \/ /\ \E same \in BOOLEAN : job' = [job EXCEPT !.pc = "poll", !.same = same]
             /\ job.pc \in BeforeRun
          \/ Stops("spawn")
      BY <2>9 DEF Stops, Spawn, Abort, Place, BeforeRun
    <3>2. ASSUME NEW same \in BOOLEAN, job' = [job EXCEPT !.pc = "poll", !.same = same],
                 job.pc \in BeforeRun
          PROVE  Moves
      <4>1. /\ job' \in Jobs /\ job'.pc = "poll"
            /\ job'.variant = job.variant /\ job'.step = job.step
        BY <1>3, <3>2 DEF Jobs
      <4> QED
        BY <3>2, <4>1 DEF Moves
    <3> QED
      BY <3>1, <3>2, <2>1 DEF Errors
  <2>10. CASE Poll
    <3>1. \/ Goes("run") /\ job.pc \in BeforeRun
          \/ job' = job /\ job.pc = "poll"
          \/ Stops("exited")
          \/ Stops("try_wait")
      BY <2>10 DEF Stops, Goes, Poll, Abort, Enter, Place, BeforeRun
    <3> QED
      BY <3>1, <2>1, <2>2, <2>5 DEF Errors
  <2>11. CASE NotReady
    <3>1. Stops("not ready")
      BY <2>11 DEF Stops, Goes, NotReady, Abort
    <3> QED
      BY <3>1, <2>1 DEF Errors
  <2>12. CASE WriteResults
    <3>1. \/ Goes("report")
          \/ Stops("results.json")
      BY <2>12 DEF Stops, Goes, WriteResults, WriteArtifact, Abort, Enter
    <3> QED
      BY <3>1, <2>1, <2>2 DEF Errors
  <2>13. CASE WriteReport
    <3>1. \/ Goes("ended")
          \/ Stops("report.md")
      BY <2>13 DEF Stops, Goes, WriteReport, WriteArtifact, Abort, Enter
    <3> QED
      BY <3>1, <2>1, <2>2 DEF Errors
  <2> QED
    BY <2>4, <2>6, <2>7, <2>8, <2>9, <2>10, <2>11, <2>12, <2>13
<1>6. JobTypes'
  BY <1>1, <1>4, <1>5 DEF IInv, JobTypes, Moves
<1>7. JobInv' /\ ResultInv'
  BY <1>1, <1>3, <1>5, PlaceKeeps DEF IInv, Moves
<1> QED
  BY <1>2, <1>6, <1>7 DEF IInv, WorkerInv, StreamInv

(* The beginning of a workload and, for the seeding, its end.              *)
LEMMA BeginKeeps ==
    ASSUME IInv, SeedCache \/ BeginCommands \/ BeginStreaming
    PROVE  IInv'
<1>1. PICK over \in {{"redis"}, Commands, {"sse", "events"}} : BeginWorkload(over)
  BY DEF SeedCache, BeginCommands, BeginStreaming, Commands
<1>2. /\ job.pc = "run" /\ job.step <= Len(Plan) /\ work' = Plan[job.step]
      /\ work'.over \in over /\ faults' = 0
      /\ job' = [job EXCEPT !.pc = "work"]
      /\ UNCHANGED <<port, polls, server>>
  BY <1>1 DEF BeginWorkload, Place, Enter
<1>3. JobTypes'
  BY <1>2, PlanAssumption DEF IInv, JobTypes, Jobs
<1>4. /\ job'.pc = "work" /\ job'.variant = job.variant /\ job'.step = job.step
      /\ job'.same = job.same /\ Plan' = Plan
  BY <1>2 DEF IInv, JobTypes, Jobs, Plan, Context
<1>5. /\ result = NoResult /\ pool.stage = "off" /\ reader.pc = "off"
      /\ job.variant \in DOMAIN Contexts /\ job.step \in 1 .. Len(Plan) + 1
      /\ job.step > 4 /\ job.same => cached = seed_read_heavy_cache_data
  BY <1>2 DEF IInv, JobInv
<1>12. reader.why = ""
  BY <1>2, <1>5 DEF IInv, WhyInv, NoResult, Failed
<1>6. job.step \in 1 .. Len(Plan) /\ (work'.over = "redis" <=> job.step = 4)
  BY <1>2, <1>5, PlanFacts DEF Plan
<1>7. /\ job.step > 4 /\ job.same => cached' = seed_read_heavy_cache_data
      /\ job.step = 4 /\ result' # Failed /\ job.same
           => cached' = seed_read_heavy_cache_data
  <2>1. CASE SeedCache
    <3>1. work'.over = "redis"
      BY <2>1 DEF SeedCache, BeginWorkload
    <3>2. job.step = 4
      BY <3>1, <1>6
    <3> QED
      BY <2>1, <3>2 DEF SeedCache
  <2>2. CASE BeginCommands
    <3>1. work'.over # "redis" /\ cached' = cached
      BY <2>2 DEF BeginCommands, BeginWorkload
    <3> QED
      BY <3>1, <1>5, <1>6
  <2>3. CASE BeginStreaming
    <3>1. work'.over # "redis" /\ cached' = cached
      BY <2>3 DEF BeginStreaming, BeginWorkload
    <3> QED
      BY <3>1, <1>5, <1>6
  <2> QED
    BY <2>1, <2>2, <2>3
<1>8. JobInv'
  BY <1>2, <1>4, <1>5, <1>6, <1>7 DEF JobInv, BeforeRun
<1>9. CASE SeedCache
  <2>1. UNCHANGED <<pool, reader>> /\ Resting /\ work'.over = "redis"
    BY <1>9 DEF SeedCache, BeginWorkload, Resting, workerVars, streamVars
  <2>2. ResultInv' /\ WhyInv'
    BY <2>1, <1>5, <1>12 DEF ResultInv, WhyInv, Commands
  <2>3. WorkerInv' /\ StreamInv'
    BY <2>1, <1>2, <1>5, <1>12, WorkersRest, StreamsRest DEF IInv, WorkerInv, StreamInv, Resting
  <2> QED
    BY <1>3, <1>8, <2>2, <2>3 DEF IInv, WorkerInv, StreamInv
<1>10. CASE BeginCommands
  <2>1. /\ StartWorkers(work'.over) /\ UNCHANGED <<result, streamVars, reader>>
        /\ work'.over \in Commands
    BY <1>10 DEF BeginCommands, BeginWorkload, Commands, streamVars
  <2>2. WorkerInv'
    BY <2>1, FreshKeeps DEF StartWorkers
  <2>3. StreamInv'
    BY <2>1, <1>2, StreamsRest DEF IInv, StreamInv
  <2>4. ResultInv' /\ WhyInv'
    BY <2>1, <1>5, <1>12 DEF ResultInv, WhyInv, NoResult
  <2> QED
    BY <1>3, <1>8, <2>2, <2>3, <2>4 DEF IInv, WorkerInv, StreamInv
<1>11. CASE BeginStreaming
  <2>1. /\ StartStreams /\ UNCHANGED <<result, workerVars, pool>>
        /\ work'.over \in {"sse", "events"}
    BY <1>11 DEF BeginStreaming, BeginWorkload, workerVars
  <2>2. WorkerInv'
    BY <2>1, <1>5, WorkersRest DEF IInv, WorkerInv
  <2>4. reader'.pc = "open" /\ reader'.why = "" /\ UNCHANGED <<stream, sender, send_times>>
    BY <2>1 DEF StartStreams, NoReader
  <2>3. ResultInv' /\ WhyInv'
    BY <2>1, <2>4, <1>5, <1>12 DEF ResultInv, WhyInv, NoResult, Commands
  <2>5. stream = <<>> /\ sender = NoSender /\ send_times = {}
    BY <1>5 DEF IInv, Phases, Stamped
  <2>8. reader' \in Readers
    BY <2>1 DEF StartStreams, NoReader, Readers, Reasons
  <2>6. StreamTypes'
    BY <2>4, <2>8 DEF IInv, StreamTypes
  <2>7. StreamInv'
    BY <2>4, <2>5, <2>6, EmptyStreamKeeps DEF CleanHandOver, Stranger
  <2> QED
    BY <1>3, <1>8, <2>2, <2>3, <2>7 DEF IInv, WorkerInv, StreamInv
<1> QED
  BY <1>9, <1>10, <1>11

LEMMA EndWorkloadKeeps ==
    ASSUME IInv, EndWorkload
    PROVE  IInv'
<1>1. /\ job.pc = "work" /\ result # NoResult /\ Resting
      /\ work' = Idle /\ result' = NoResult /\ faults' = 0
  BY DEF EndWorkload, Place, NoResult
<1>2. pool.stage = "off" /\ reader.pc = "off" /\ UNCHANGED <<pool, reader>>
  BY <1>1 DEF IInv, ResultInv, Resting, workerVars, streamVars
<1>3. WorkerInv' /\ StreamInv'
  <2>1. port.by = "other" => port'.by = "other"
    BY DEF EndWorkload, Abort, KillServer
  <2> QED
    BY <1>1, <1>2, <2>1, WorkersRest, StreamsRest DEF IInv, WorkerInv, StreamInv, Resting
<1>4. ResultInv'
  BY <1>1, <1>2 DEF ResultInv, NoResult
<1>5. /\ job.variant \in DOMAIN Contexts /\ job.step \in 1 .. Len(Plan)
      /\ Len(Plan) \in Nat
      /\ job.step > 4 /\ job.same => cached = seed_read_heavy_cache_data
      /\ job.step = 4 /\ result # Failed /\ job.same
           => cached = seed_read_heavy_cache_data
  BY <1>1, PlanFacts DEF IInv, JobInv, Plan
<1>6. CASE result = Failed
  <2>1. job' = [job EXCEPT !.pc = "ended", !.why = "workload"]
    BY <1>6 DEF EndWorkload, Abort
  <2>5. /\ job' \in Jobs
        /\ job'.pc = "ended" /\ job'.variant = job.variant /\ job'.step = job.step
    BY <2>1, JobEnds DEF IInv, JobTypes, Errors
  <2>6. /\ server' = "none" /\ port' \in {port, Free} /\ polls' = polls
        /\ 0 \in 0 .. MaxFaults /\ Free \in Ports
    BY <1>6, Numbers DEF EndWorkload, Abort, KillServer, Free, Ports
  <2>2. JobTypes'
    BY <1>1, <2>5, <2>6 DEF IInv, JobTypes
  <2>3. Plan' = Plan
    BY <2>5 DEF Plan, Context
  <2>4. JobInv'
    BY <1>1, <1>2, <1>5, <2>3, <2>5 DEF JobInv, BeforeRun
  <2>7. WhyInv'
    BY <2>5 DEF WhyInv
  <2> QED
    BY <1>3, <1>4, <2>2, <2>4, <2>7 DEF IInv, WorkerInv, StreamInv
<1>7. CASE result # Failed
  <2>1. /\ job' = [job EXCEPT !.pc = "run", !.step = @ + 1]
        /\ UNCHANGED <<cached, server, port, polls>>
    BY <1>7 DEF EndWorkload
  <2>6. job' \in Jobs /\ 0 \in 0 .. MaxFaults
    <3>1. job \in Jobs /\ job.step + 1 \in Nat
      BY <1>5 DEF IInv, JobTypes
    <3>2. job' \in Jobs
      BY <2>1, <3>1 DEF Jobs
    <3> QED
      BY <3>2, Numbers
  <2>2. JobTypes'
    BY <1>1, <2>1, <2>6 DEF IInv, JobTypes
  <2>3. /\ job'.pc = "run" /\ job'.variant = job.variant /\ job'.step = job.step + 1
        /\ job'.same = job.same /\ Plan' = Plan
    BY <2>1 DEF IInv, JobTypes, Jobs, Plan, Context
  <2>4. job'.step > 4 /\ job.same => cached' = seed_read_heavy_cache_data
    BY <1>5, <1>7, <2>1, <2>3
  <2>5. JobInv'
    BY <1>1, <1>2, <1>5, <2>3, <2>4 DEF JobInv, BeforeRun
  <2>7. WhyInv'
    BY <1>1, <1>2, <1>7 DEF IInv, WhyInv
  <2> QED
    BY <1>3, <1>4, <2>2, <2>5, <2>7 DEF IInv, WorkerInv, StreamInv
<1> QED
  BY <1>6, <1>7

(* The environment of the comparison.                                      *)
LEMMA SurroundingsKeep ==
    ASSUME IInv, \/ regenerate_reports_under \/ ServerListens \/ StrangerListens
                 \/ GoesMute \/ ServerExits \/ UNCHANGED vars
    PROVE  IInv'
<1>1. Resting /\ UNCHANGED <<job, work, result, cached>>
  BY DEF regenerate_reports_under, ServerListens, StrangerListens, GoesMute, ServerExits,
         vars, workVars, jobVars, Resting
<1>2. UNCHANGED <<pool, reader>>
  BY <1>1 DEF Resting, workerVars, streamVars
<1>6. /\ port' \in Ports /\ polls' = polls /\ faults' \in 0 .. MaxFaults
      /\ server' \in {"none", "starting", "listening", "exited"}
      /\ port.by = "other" => port'.by = "other"
  <2>1. /\ port \in Ports /\ faults \in 0 .. MaxFaults
        /\ server \in {"none", "starting", "listening", "exited"}
    BY DEF IInv, JobTypes
  <2>2. CASE GoesMute
    <3>1. /\ port' = [port EXCEPT !.mute = TRUE] /\ UNCHANGED <<polls, server>>
          /\ faults < MaxFaults /\ faults' = faults + 1
      BY <2>2 DEF GoesMute
    <3>2. port' \in Ports /\ port'.by = port.by
      BY <2>1, <3>1 DEF Ports
    <3> QED
      BY <2>1, <3>1, <3>2, Numbers
  <2>3. CASE ServerListens \/ StrangerListens
    <3>1. \A by \in {"server", "other"} : [by |-> by, mute |-> FALSE] \in Ports
      BY DEF Ports
    <3>2. /\ port' \in {[by |-> "server", mute |-> FALSE], [by |-> "other", mute |-> FALSE]}
          /\ port.by = "nobody" /\ server' \in {server, "listening"}
          /\ UNCHANGED <<polls, faults>>
      BY <2>3 DEF ServerListens, StrangerListens, workVars
    <3> QED
      BY <2>1, <3>1, <3>2
  <2>4. CASE ServerExits
    <3>1. Free \in Ports
      BY DEF Free, Ports
    <3> QED
      BY <2>1, <2>4, <3>1, Numbers DEF ServerExits
  <2>5. CASE regenerate_reports_under \/ UNCHANGED vars
    BY <2>1, <2>5 DEF regenerate_reports_under, vars, workVars, jobVars
  <2> QED
    BY <2>2, <2>3, <2>4, <2>5
<1>3. WorkerInv' /\ StreamInv'
  BY <1>1, <1>6, WorkersRest, StreamsRest DEF IInv, WorkerInv, StreamInv, Resting
<1>4. JobTypes'
  BY <1>1, <1>6 DEF IInv, JobTypes
<1>5. JobInv' /\ ResultInv' /\ WhyInv'
  BY <1>1, <1>2 DEF IInv, JobInv, ResultInv, WhyInv, Plan, Context
<1> QED
  BY <1>3, <1>4, <1>5 DEF IInv, WorkerInv, StreamInv

(* A command workload: its metrics are taken when all workers have ended,  *)
(* and then all operations have been handed out.                           *)
LEMMA CommandsKeep ==
    ASSUME IInv, WorkersNext, UNCHANGED <<jobVars, streamVars>>
    PROVE  IInv'
<1>1. Seeded /\ WorkerInv /\ StreamInv
  BY SeededNow DEF IInv, WorkerInv, StreamInv
<1>2. WorkerInv' /\ StreamInv'
  BY <1>1, WorkersKeep, StreamsRest DEF jobVars
<1>3. UNCHANGED <<job, port, polls, reader, work, server, cached>>
  BY DEF jobVars, streamVars, WorkersNext, WarmUp, JoinFailed, JoinAll, EndWork, Continue,
         Connect, Claim, Call, Send, Respond, next_websocket_text, Count
<1>4. faults' \in 0 .. MaxFaults
  <2>1. Fault \/ TimesOut => faults' = faults \/ (faults < MaxFaults /\ faults' = faults + 1)
    BY DEF Fault, TimesOut
  <2>2. faults' = faults \/ (faults < MaxFaults /\ faults' = faults + 1)
    BY <2>1
    DEF WorkersNext, WarmUp, JoinFailed, JoinAll, Connect, Claim, Call, Send, Respond,
        next_websocket_text, Count
  <2> QED
    BY <2>2, Numbers DEF IInv, JobTypes
<1>5. JobTypes'
  BY <1>3, <1>4 DEF IInv, JobTypes, Jobs
<1>6. pool.stage # "off"
  <2>1. ASSUME NEW w \in Workers, Respond(w) PROVE pool.stage # "off"
    BY <1>1, <2>1 DEF Respond, WorkerInv, Untouched, NoSocket
  <2> QED
    BY <2>1, PlanAssumption
    DEF WorkersNext, WarmUp, JoinFailed, JoinAll, At, Connect, Claim, Call, Send,
        next_websocket_text, Count
<1>7. /\ job.pc = "work" /\ work.over \in Commands /\ reader.pc = "off"
      /\ result = NoResult
  BY <1>6 DEF IInv, JobInv, ResultInv, Commands
<1>8. \/ result' = result
      \/ result' = Failed /\ pool'.stage = "off"
      \/ JoinAll
  <2>1. ASSUME EndWork(Failed) PROVE result' = Failed /\ pool'.stage = "off"
    BY <2>1 DEF EndWork, StopWorkers, NoPool
  <2>2. CASE WarmUp \/ JoinFailed
    BY <2>1, <2>2 DEF WarmUp, JoinFailed, Continue
  <2>3. CASE JoinAll
    BY <2>3
  <2>4. ASSUME NEW w \in Workers,
               \/ Connect(w) \/ Claim(w) \/ Call(w) \/ Send(w) \/ Respond(w)
               \/ next_websocket_text(w) \/ Count(w)
        PROVE  result' = result
    BY <2>4 DEF Connect, Claim, Call, Send, Respond, next_websocket_text, Count, Continue
  <2> QED
    BY <2>2, <2>3, <2>4 DEF WorkersNext
<1>9. ResultInv'
  <2>1. CASE result' = result
    BY <2>1, <1>3, <1>7 DEF ResultInv, NoResult
  <2>2. CASE result' = Failed /\ pool'.stage = "off"
    BY <2>2, <1>3, <1>7 DEF ResultInv, Failed
  <2>3. CASE JoinAll
    <3>1. /\ result' = summarize_metrics(MeasuredOps, pool.success, pool.errors)
          /\ pool'.stage = "off" /\ \A w \in Workers : wk[w].pc = "ended"
      BY <2>3 DEF JoinAll, EndWork, StopWorkers, NoPool, At
    <3>2. Busy = {} /\ Ended # {}
      BY <3>1, PlanAssumption DEF Busy, Ended
    <3>3. Cardinality(Busy) = 0
      BY <3>2, FS_EmptySet
    <3>6. pool.success \in Nat /\ pool.errors \in Nat /\ MeasuredOps \in Nat
      BY Numbers DEF IInv, WorkerTypes, Pools
    <3>4. pool.success + pool.errors = MeasuredOps
      BY <3>2, <3>3, <3>6 DEF IInv, Counting, Claimed
    <3>5. result'.attempted = result'.success + result'.errors
      BY <3>1, <3>4 DEF summarize_metrics
    <3> QED
      BY <3>1, <3>5, <1>3, <1>7 DEF ResultInv
  <2> QED
    BY <1>8, <2>1, <2>2, <2>3
<1>10. JobInv'
  <2>1. job.step # 4
    BY <1>7, PlanFacts DEF IInv, JobInv, Plan, Commands
  <2> QED
    BY <1>3, <1>7, <2>1 DEF IInv, JobInv, Plan, Context
<1>11. WhyInv'
  BY <1>3, <1>7 DEF IInv, WhyInv, NoResult, Failed
<1> QED
  BY <1>2, <1>5, <1>9, <1>10, <1>11 DEF IInv, WorkerInv, StreamInv

LEMMA StreamingKeeps ==
    ASSUME IInv, StreamsNext, UNCHANGED <<jobVars, workerVars>>
    PROVE  IInv'
<1>1. WorkerInv /\ StreamInv
  BY DEF IInv, WorkerInv, StreamInv
<1>2. UNCHANGED <<job, port, polls, pool, work, server, cached>>
  BY DEF jobVars, workerVars, StreamsNext, redis_connection, FinishStartup, Subscribe,
         GoesLive, StrangerSends, PublishSentinel, PublishPayload, GiveUp, wait_for_subscription_ready,
         measure_startup_once, PublishWarmup, ReadWarmup, SpawnSender, Stamp,
         PublishMeasured, ReadMeasured, JoinSender, Lose, publish_message, StreamEnds,
         StreamGoesOn, OperationOk, OperationErr
<1>3. WorkerInv' /\ StreamInv'
  BY <1>1, <1>2, WorkersRest, StreamsKeep DEF jobVars
<1>4. faults' \in 0 .. MaxFaults
  <2>1. ReadFails => faults' = faults \/ Misfortune
    BY DEF ReadFails
  <2>2. faults' = faults \/ Misfortune
    BY <2>1
    DEF StreamsNext, redis_connection, FinishStartup, Subscribe, GoesLive, StrangerSends,
        PublishSentinel, PublishPayload, GiveUp, wait_for_subscription_ready,
        measure_startup_once, PublishWarmup, ReadWarmup, SpawnSender, Stamp,
        PublishMeasured, ReadMeasured, JoinSender, Lose, publish_message
  <2>3. faults' = faults \/ (faults < MaxFaults /\ faults' = faults + 1)
    BY <2>2 DEF Misfortune
  <2> QED
    BY <2>3, Numbers DEF IInv, JobTypes
<1>5. JobTypes'
  BY <1>2, <1>4 DEF IInv, JobTypes, Jobs
<1>6. reader.pc # "off"
  <2>1. sender.pc \in {"wait", "publish"} => reader.pc = "measure"
    BY DEF IInv, Stamped, NoSender
  <2>2. stream # <<>> => reader.pc # "off"
    BY DEF IInv, Phases
  <2> QED
    BY <2>1, <2>2
    DEF StreamsNext, redis_connection, FinishStartup, Subscribe, GoesLive, StrangerSends,
        PublishSentinel, PublishPayload, GiveUp, wait_for_subscription_ready,
        measure_startup_once, PublishWarmup, ReadWarmup, SpawnSender, Stamp,
        PublishMeasured, ReadMeasured, JoinSender, Lose, publish_message
<1>7. /\ job.pc = "work" /\ work.over \in {"sse", "events"} /\ pool.stage = "off"
      /\ result = NoResult
  BY <1>6 DEF IInv, JobInv, ResultInv, Commands
<1>8. result' = result \/ reader'.pc = "off"
  BY DEF StreamsNext, redis_connection, FinishStartup, Subscribe, GoesLive, StrangerSends,
         PublishSentinel, PublishPayload, GiveUp, wait_for_subscription_ready,
         measure_startup_once, PublishWarmup, ReadWarmup, SpawnSender, Stamp,
         PublishMeasured, ReadMeasured, JoinSender, Lose, publish_message, StreamEnds,
         StopStreams, NoReader, StreamGoesOn, OperationOk, OperationErr
<1>9. ResultInv'
  BY <1>2, <1>7, <1>8 DEF ResultInv, Commands
<1>10. JobInv'
  <2>1. job.step # 4
    BY <1>7, PlanFacts DEF IInv, JobInv, Plan
  <2> QED
    BY <1>2, <1>7, <2>1 DEF IInv, JobInv, Plan, Context
<1>11. WhyInv'
  <2>1. reader.why = ""
    BY <1>7 DEF IInv, WhyInv, NoResult, Failed
  <2>2. ASSUME NEW r, NEW why, StreamEnds(r, why), r = Failed \/ why = ""
        PROVE  WhyInv'
    BY <2>2 DEF StreamEnds, StopStreams, NoReader, WhyInv
  <2>3. CASE reader'.why \in {"", reader.why}
    BY <2>1, <2>3 DEF WhyInv
  <2>4. OperationOk \/ OperationErr => StreamEnds(Failed, "error") \/ reader'.why = ""
    BY DEF OperationOk, OperationErr, NoReader
  <2>5. /\ \A pc : Go(pc) => reader'.why = reader.why
        /\ \A pc, late : Retry(pc, late) => reader'.why = reader.why
    BY DEF Go, Retry, IInv, StreamTypes, Readers
  <2>6. CASE redis_connection \/ FinishStartup \/ Subscribe \/ GoesLive \/ StrangerSends
    BY <2>2, <2>3, <2>4, <2>5, <2>6
    DEF redis_connection, FinishStartup, Subscribe, GoesLive, StrangerSends
  <2>7. CASE PublishSentinel \/ PublishPayload \/ GiveUp \/ PublishWarmup
    BY <2>2, <2>3, <2>4, <2>5, <2>7
    DEF PublishSentinel, PublishPayload, GiveUp, PublishWarmup, publish_message
  <2>8. CASE wait_for_subscription_ready
    <3>1. reader \in Readers
      BY DEF IInv, StreamTypes
    <3>2. \A pc : reader' = [reader EXCEPT !.pc = pc, !.attempt = 0] => reader'.why = reader.why
      BY <3>1 DEF Readers
    <3> QED
      BY <2>3, <2>5, <2>8, <3>2 DEF wait_for_subscription_ready
  <2>9. CASE measure_startup_once
    BY <2>2, <2>3, <2>4, <2>5, <2>9 DEF measure_startup_once
  <2>10. CASE ReadWarmup \/ SpawnSender \/ ReadMeasured
    <3>1. reader \in Readers
      BY DEF IInv, StreamTypes
    <3>2. /\ [reader EXCEPT !.pc = "warm", !.n = @ + 1].why = reader.why
          /\ [reader EXCEPT !.pc = "measure", !.n = 0].why = reader.why
          /\ [reader EXCEPT !.n = @ + 1, !.success = @ + 1].why = reader.why
          /\ [reader EXCEPT !.n = @ + 1, !.errors = @ + 1].why = reader.why
      BY <3>1 DEF Readers
    <3> QED
      BY <2>2, <2>3, <2>10, <3>2 DEF ReadWarmup, SpawnSender, ReadMeasured
  <2>11. CASE Stamp \/ PublishMeasured \/ JoinSender \/ Lose
    BY <2>2, <2>3, <2>11 DEF Stamp, PublishMeasured, JoinSender, Lose
  <2> QED
    BY <2>6, <2>7, <2>8, <2>9, <2>10, <2>11 DEF StreamsNext
<1> QED
  BY <1>3, <1>5, <1>9, <1>10, <1>11 DEF IInv, WorkerInv, StreamInv

LEMMA NextInv == IInv /\ [Next]_vars => IInv'
<1> SUFFICES ASSUME IInv, [Next]_vars PROVE IInv'
  OBVIOUS
<1>1. CASE Compare
  BY <1>1, BetweenKeeps, BeginKeeps, EndWorkloadKeeps, CommandsKeep, StreamingKeeps DEF Compare
<1>2. CASE ~Compare
  BY <1>2, SurroundingsKeep DEF Next
<1> QED
  BY <1>1, <1>2

LEMMA InductiveInv == Spec => []IInv
  BY InitInv, NextInv, PTL DEF Spec

(* The comparison, its server and its counters stay in their domains (so   *)
(* does the shared counter, which every worker advances once too often,    *)
(* and the window of the publisher), and workers and streams are at work   *)
(* only during a workload.                                                 *)
THEOREM TypeCorrect == Spec => []TypeOK
<1>1. IInv => TypeOK
  <2> SUFFICES ASSUME IInv PROVE TypeOK
    OBVIOUS
  <2>1. /\ pool.counter <= MeasuredOps + Cardinality(Ended) /\ pool.counter \in Nat
    BY DEF IInv, Counting, WorkerTypes, Pools
  <2>2. Cardinality(Ended) <= Cardinality(Workers) /\ Cardinality(Workers) \in Nat
    BY PlanAssumption, FS_Subset, FS_CardinalityType DEF Ended
  <2>3. pool.counter \in 0 .. MeasuredOps + Cardinality(Workers)
    BY <2>1, <2>2, Finite, PlanAssumption
  <2>4. pool.stage # "off" \/ reader.pc # "off" => Place("work")
    BY DEF IInv, JobInv, Place
  <2>5. send_times \subseteq 0 .. MeasuredMessages - 1 /\ Cardinality(send_times) <= Window
    BY DEF IInv, StreamTypes, Readers, Senders, Stamped
  <2>6. job.variant \in DOMAIN Contexts /\ job.step \in 1 .. Len(Plan) + 1
    BY DEF IInv, JobInv
  <2> QED
    BY <2>3, <2>4, <2>5, <2>6 DEF IInv, JobTypes, Jobs, Ports, TypeOK
<1> QED
  BY <1>1, InductiveInv, PTL

(* Every operation that the shared counter has handed out is a success, an *)
(* error or in the hands of exactly one worker, and the metrics of a       *)
(* command workload account for every one of its operations.               *)
THEOREM CountsCorrect == Spec => []CountsAddUp
<1>1. IInv => CountsAddUp
  BY DEF IInv, Counting, ResultInv, Commands, CountsAddUp
<1> QED
  BY <1>1, InductiveInv, PTL

(* If the server that was launched has the port, an operation that counts  *)
(* as a success has, over gRPC, read the values of its own requests and    *)
(* keys that are there; over HTTP it has written what it was to write;     *)
(* over a WebSocket the replies are those to its own requests, unless an   *)
(* earlier operation on it has timed out.  What may be wrong with it is    *)
(* what Hidden names: failures that no status shows, and keys that were    *)
(* seeded in another Redis than that of the server's socket.               *)
THEOREM MeasuresCorrect == Spec => []MeasuresWhatItNames
<1>1. IInv => MeasuresWhatItNames
  BY DEF IInv, Sockets, OwnReplies, Busy, MeasuresWhatItNames
<1> QED
  BY <1>1, InductiveInv, PTL

(* If the server that was launched has the port, whatever the reader of    *)
(* measured messages finds has a timestamp, and it finds a message of an   *)
(* earlier phase only if the wait for the sentinel had given up on one     *)
(* that was still to come.                                                 *)
THEOREM HandOverClean == Spec => []CleanHandOver
<1>1. IInv => CleanHandOver
  BY DEF IInv
<1> QED
  BY <1>1, InductiveInv, PTL
============================================================================
