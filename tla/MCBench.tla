------------------------------ MODULE MCBench ------------------------------
(* A baseline with WebSockets, and a variant over gRPC, whose null         *)
(* override does not count and whose server has a socket to Redis; and the *)
(* pure functions against what they are to compute.                        *)
EXTENDS Bench, BenchSpec, TLC, SequencesExt

Doc(mode, ws, inner) ==
    Object([transport_mode |-> Text(mode), websockets |-> Text(ws),
            redis_socket |-> Text("none"), grpc |-> inner])
MCDefaults == Doc("rest", "false", Object([port |-> Text("1")]))
MCTypeOf ==
    [rest |-> "mode", grpc |-> "mode", true |-> "flag", false |-> "flag",
     none |-> "path", socket |-> "path", null |-> "null"] @@ ("1" :> "number") @@ ("2" :> "number")
MCBaseConfig == Object([websockets |-> Text("true")])
MCVariants ==
    << [name |-> "grpc", overrides |->
          Object([transport_mode |-> Text("grpc"), websockets |-> Null,
                  redis_socket |-> Text("socket"),
                  grpc |-> Object([port |-> Text("2")])])] >>

(* All documents of two levels over two keys.                              *)
Leaves == {Null, Text("1"), Text("2")}
Objects(V) == {Object(f) : f \in UNION {[K -> V] : K \in SUBSET {"x", "y"}}}
SmallDocs == Objects(Leaves \cup Objects({Text("1"), Null}))

RECURSIVE Lookup(_, _)
Lookup(v, path) ==
    IF path = <<>> THEN v
      ELSE IF ~IsObject(v) THEN Unset
      ELSE IF Head(path) \notin Keys(v) THEN Unset
      ELSE Lookup(v.fields[Head(path)], Tail(path))
Paths == {<<"x">>, <<"y">>} \cup ({"x", "y"} \X {"x", "y"})

(* The diff of two documents has their values before and after, and any    *)
(* path on which they differ is, begins or continues one of its keys.      *)
ASSUME DiffAssumption ==
    \A b, v \in SmallDocs :
        LET D == flatten_diff(b, v)
        IN  /\ \A e \in D : /\ Lookup(b, e.key) = e.before
                            /\ Lookup(v, e.key) = e.after
                            /\ e.before # e.after
            /\ \A p \in Paths :
                 Lookup(b, p) # Lookup(v, p)
                   => \E e \in D : IsPrefix(e.key, p) \/ IsPrefix(p, e.key)

(* A merge keeps what the overrides do not mention or set to null, and has *)
(* every other leaf of the overrides.                                      *)
ASSUME MergeAssumption ==
    \A b, o \in SmallDocs :
        \A p \in Paths :
            LET m == Lookup(merge_json(b, o), p)
                new == Lookup(o, p)
            IN  /\ new = Unset /\ IsObject(Lookup(o, Front(p))) => m = Lookup(b, p)
                /\ new = Null => m \in {Lookup(b, p), Null}
                /\ new \notin {Unset, Null} /\ ~IsObject(new) => m = new

(* A percentile is one of the latencies, a higher one is no lower, and no  *)
(* more than half a position away from the exact rank.                     *)
ASSUME PercentileAssumption ==
    \A n \in 1 .. 200 :
        /\ percentile_ms(n, 50) <= percentile_ms(n, 95)
        /\ percentile_ms(n, 95) <= percentile_ms(n, 99)
        /\ percentile_ms(n, 99) < n
        /\ \A p \in {50, 95, 99} :
             LET twice == 2 * (100 * percentile_ms(n, p) - (n - 1) * p)
             IN  twice <= 100 /\ (n - 1) * p * 2 <= 200 * percentile_ms(n, p) + 100
============================================================================
