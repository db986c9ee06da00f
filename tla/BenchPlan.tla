----------------------------- MODULE BenchPlan -----------------------------
(***************************************************************************)
(* What a comparison of redis-web-bench is going to do: for each of the    *)
(* configs that a spec asks for, the workloads in their order.             *)
(***************************************************************************)
EXTENDS Naturals, Sequences, FiniteSets

CONSTANTS
    Contexts,     \* the configs to compare, the baseline first
    WarmupOps,    \* operations before those that are measured
    MeasuredOps,  \* operations that are measured
    Workers,      \* the names of the concurrent workers
    MaxFaults     \* bound: failures of the environment during one workload

VARIABLES
    job,     \* the comparison: place, variant, step of its suites, error, and
             \* whether its own connections reach the Redis of the server
    port,    \* who listens on the server's port, and whether it is mute
    work,    \* the workload that is running, or Idle
    result,  \* what it has come to: nothing yet, a failure or its metrics
    server,  \* the server process: "none", "starting", "listening", "exited"
    cached,  \* the cache keys that have been seeded for this variant
    faults   \* failures of the environment during this workload

(* A config that is accepted has one of the two modes; the profiles have   *)
(* at least one worker.                                                    *)
ASSUME PlanAssumption ==
    /\ DOMAIN Contexts = 1 .. Len(Contexts) /\ Len(Contexts) \in Nat \ {0}
    /\ \A i \in DOMAIN Contexts :
         Contexts[i].ok => Contexts[i].mode \in {"rest", "grpc"}
    /\ WarmupOps \in Nat /\ MeasuredOps \in Nat /\ MaxFaults \in Nat
    /\ IsFiniteSet(Workers) /\ Workers # {}

----------------------------------------------------------------------------
(* The keys of the cache, and the operations: the requests that one of     *)
(* them sends in turn, each with the keys it reads or writes.              *)

read_heavy_hot_key == <<"hot", "", 0>>
read_heavy_distributed_key(idx) == <<"distributed", "", idx>>
read_heavy_mget_keys(idx) == {<<"mget", slot, idx>> : slot \in {"0", "1", "2", "3"}}
read_heavy_hash_key == <<"hash", "", 0>>

Request(command, keys) == [command |-> command, keys |-> keys]
ping_once == <<Request("PING", {})>>
set_get_once(key) == <<Request("SET", {key}), Request("GET", {key})>>
get_once(key) == <<Request("GET", {key})>>
mget_once(keys) == <<Request("MGET", keys)>>
hmget_once(key) == <<Request("HMGET", {key})>>

(* The parallel loops differ in the operation for (worker, idx) only.      *)
measure_ping_parallel(worker, idx) == ping_once
measure_set_get_parallel(label, worker, idx) == set_get_once(<<label, worker, idx>>)
measure_get_parallel(worker, idx) == get_once(read_heavy_hot_key)
measure_distributed_get_parallel(worker, idx) ==
    get_once(read_heavy_distributed_key(idx))
measure_mget_parallel(worker, idx) == mget_once(read_heavy_mget_keys(idx))
measure_hmget_parallel(worker, idx) == hmget_once(read_heavy_hash_key)

Operation(name, worker, idx) ==
    CASE name = "ping" -> measure_ping_parallel(worker, idx)
      [] name = "small_set_get" -> measure_set_get_parallel("small", worker, idx)
      [] name = "medium_set_get" -> measure_set_get_parallel("medium", worker, idx)
      [] name = "get_hot_key" -> measure_get_parallel(worker, idx)
      [] name = "get_distributed_key" -> measure_distributed_get_parallel(worker, idx)
      [] name = "mget_4" -> measure_mget_parallel(worker, idx)
      [] name = "hmget_4_fields" -> measure_hmget_parallel(worker, idx)

(* Mutant: only what the warm-up reads is seeded.                          *)
seed_warmup_only ==
    {read_heavy_hot_key, read_heavy_hash_key}
      \cup UNION {{read_heavy_distributed_key(i)} \cup read_heavy_mget_keys(i)
                   : i \in 0 .. WarmupOps - 1}
(* The keys that are seeded: enough for the warm-up and for the measuring. *)
seed_read_heavy_cache_data ==
    LET seed_count == IF WarmupOps > MeasuredOps THEN WarmupOps ELSE MeasuredOps
    IN  {read_heavy_hot_key, read_heavy_hash_key}
          \cup UNION {{read_heavy_distributed_key(i)} \cup read_heavy_mget_keys(i)
                       : i \in 0 .. seed_count - 1}
IsCacheKey(key) == key[1] \in {"hot", "distributed", "mget", "hash"}

----------------------------------------------------------------------------
(* The suites of a variant as one sequence of workloads.                   *)

Workload(over, name) == [over |-> over, name |-> name]
Idle == Workload("", "")

run_http_common_commands ==
    <<Workload("http", "ping"), Workload("http", "small_set_get"),
      Workload("http", "medium_set_get")>>
run_grpc_common_commands ==
    <<Workload("grpc", "ping"), Workload("grpc", "small_set_get"),
      Workload("grpc", "medium_set_get")>>
run_http_read_heavy_cache ==
    <<Workload("http", "get_hot_key"), Workload("http", "get_distributed_key"),
      Workload("http", "mget_4"), Workload("http", "hmget_4_fields")>>
run_grpc_read_heavy_cache ==
    <<Workload("grpc", "get_hot_key"), Workload("grpc", "get_distributed_key"),
      Workload("grpc", "mget_4"), Workload("grpc", "hmget_4_fields")>>

run_common_commands_suite(c) ==
    IF c.mode = "rest" THEN run_http_common_commands ELSE run_grpc_common_commands
run_read_heavy_cache_suite(c) ==
    <<Workload("redis", "seed")>>
      \o (IF c.mode = "rest" THEN run_http_read_heavy_cache ELSE run_grpc_read_heavy_cache)
run_websocket_commands_suite(c) ==
    IF c.mode # "rest" \/ ~c.websockets THEN <<>>
      ELSE <<Workload("ws", "ping"), Workload("ws", "small_set_get"),
             Workload("ws", "medium_set_get")>>
run_streaming_suite(c) ==
    IF c.mode = "rest"
      THEN <<Workload("sse", "subscribe_startup"), Workload("sse", "delivery_stream")>>
      ELSE <<Workload("events", "subscribe_startup"), Workload("events", "delivery_stream")>>

SuitesOf(c) ==
    run_common_commands_suite(c) \o run_read_heavy_cache_suite(c)
      \o run_websocket_commands_suite(c) \o run_streaming_suite(c)

----------------------------------------------------------------------------
(* The index of a percentile (in hundredths) among n sorted latencies, and *)
(* the metrics of a workload.                                              *)

percentile_ms(n, percentile) == ((n - 1) * percentile + 50) \div 100

NoResult == [how |-> "none"]
Failed == [how |-> "failed"]
summarize_metrics(attempted, success, errors) ==
    [how |-> "metrics", attempted |-> attempted,
     success |-> success, errors |-> errors]

(* Nobody listens on the port, the server that was launched does, or some  *)
(* other process, which is taken for it.  Who is mute accepts connections  *)
(* and answers nothing from then on.                                       *)
Free == [by |-> "nobody", mute |-> FALSE]
Stranger == port.by = "other"
Answering == port.by # "nobody" /\ ~port.mute
Up == port.by = "server" /\ ~port.mute
============================================================================
