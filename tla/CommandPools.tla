---------------------------- MODULE CommandPools ----------------------------
(* The command path: handlers that turn what a client sent into a command,  *)
(* the registry with one connection pool per logical database, the pools,   *)
(* and the executor that runs a command on a pooled connection.  A slot is  *)
(* a handler that works on one command at a time.                           *)
EXTENDS Naturals, Sequences, FiniteSets, SequencesExt

CONSTANTS
    Slots,          \* the concurrent handlers
    Databases,      \* the logical databases in use
    Default,        \* the database of the configuration
    Selectable,     \* the databases that clients name in a SELECT
    PoolSize,       \* pool_size_per_thread * http_threads
    MaxCommands,    \* bound: commands of all the clients
    MaxFaults,      \* bound: failures of Redis and of the network
    None

ASSUME PoolsAssumption ==
    /\ IsFiniteSet(Slots)
    /\ Databases \subseteq 0 .. 255 /\ Default \in Databases
    /\ Selectable \subseteq Databases
    /\ PoolSize \in Nat \ {0}
    /\ MaxCommands \in Nat /\ MaxFaults \in Nat
    /\ None \notin Slots \cup Nat \cup (Databases \X (Slots \cup {None}))

VARIABLES
    registry,       \* pools_by_database
    configured,     \* the database that a pool's connections are opened for
    free,           \* permits of a pool's semaphore
    idle,           \* the connections that a pool keeps, oldest first
    connDb,         \* the database a connection is in
    up,             \* the connections that work
    opened,         \* the number of connections opened so far
    pc, req, pool, conn,    \* of each slot
    issued, faults,
    strayed,        \* history: connections on which a client ran a SELECT
    failed          \* history: connections on which a command failed

pools == <<registry, configured, free, idle>>
connections == <<connDb, up, opened, strayed, failed>>
slots == <<pc, req, pool, conn>>
vars == <<pools, connections, slots, issued, faults>>

(* A pool is named after its database and the slot that made it.            *)
Pools == Databases \X (Slots \cup {None})
DefaultPool == <<Default, None>>
Connections == 1 .. MaxCommands

(* A command: its database, the database it selects, and whether it runs in *)
(* the request's own future, which goes away with its client.               *)
Request == [db : Databases, select : Selectable \cup {None}, task : {"own", "request"}]

Init ==
    /\ registry = [d \in Databases \ {Default} |-> None]
    /\ configured = [p \in Pools |-> IF p = DefaultPool THEN Default ELSE None]
    /\ free = [p \in Pools |-> PoolSize]
    /\ idle = [p \in Pools |-> <<>>]
    /\ connDb = [c \in Connections |-> None] /\ up = {} /\ opened = 0
    /\ pc = [s \in Slots |-> "idle"]
    /\ req = [s \in Slots |-> None]
    /\ pool = [s \in Slots |-> None]
    /\ conn = [s \in Slots |-> None]
    /\ issued = 0 /\ faults = 0 /\ strayed = {} /\ failed = {}

Go(s, label) == pc' = [pc EXCEPT ![s] = label]
Fault == faults < MaxFaults /\ faults' = faults + 1

----------------------------------------------------------------------------
(* The handlers                                                             *)

(* What a client asks for: a database (none, or one past 255), a command    *)
(* that is missing, allowed or refused by the ACL, and what it selects.     *)
Input == [db : Databases \cup {None, 256}, name : {"missing", "allowed", "denied"},
          select : Selectable \cup {None}]

InDefault(db) == IF db = None THEN Default ELSE db

(* A command that is refused is answered at once.                           *)
Refused == UNCHANGED <<pools, connections, slots, faults>>

Begin(s, in, task) ==
    /\ req' = [req EXCEPT ![s] = [db |-> InDefault(in.db), select |-> in.select,
                                  task |-> task]]
    /\ Go(s, "lookup")
    /\ UNCHANGED <<pools, connections, pool, conn, faults>>

Issue(s) == pc[s] = "idle" /\ issued < MaxCommands /\ issued' = issued + 1

(* parse_http_request: a decimal first segment is the database, and a       *)
(* command must follow it.                                                  *)
parse_http_request(in) ==
    in.db = None \/ (in.db <= 255 /\ in.name # "missing")

(* process_request up to the executor: parse, ACL.                          *)
process_request(s, in) ==
    /\ Issue(s) /\ (in.db = None => in.name # "missing")
    /\ IF ~ parse_http_request(in) THEN Refused
       ELSE IF in.name = "denied" THEN Refused
       ELSE Begin(s, in, "request")

(* command_from_proto: a command is there, the database fits into a u8.     *)
command_from_proto(in) == in.name # "missing" /\ InDefault(in.db) <= 255

(* RedisGateway::execute                                                    *)
grpc_execute(s, in) ==
    /\ Issue(s)
    /\ IF ~ command_from_proto(in) THEN Refused
       ELSE IF in.name = "denied" THEN Refused
       ELSE Begin(s, in, "request")

(* One item of RedisGateway::execute_stream, whose task outlives the call.  *)
grpc_execute_stream(s, in) ==
    /\ Issue(s)
    /\ IF ~ command_from_proto(in) THEN Refused
       ELSE IF in.name = "denied" THEN Refused
       ELSE Begin(s, in, "own")

(* One text message of handle_socket: the default database and no ACL.      *)
handle_socket(s, in) ==
    /\ Issue(s) /\ in.db = None
    /\ IF in.name = "missing"
         THEN Refused
         ELSE Begin(s, in, "own")

----------------------------------------------------------------------------
(* DatabasePoolRegistry::pool_for_database                                  *)

UsePool(s, p) == pool' = [pool EXCEPT ![s] = p] /\ Go(s, "acquire")

(* The default pool needs no lock; another is looked up under the read      *)
(* lock, which is released before the pool is made.                         *)
LookUp(s) ==
    /\ pc[s] = "lookup"
    /\ LET d == req[s].db IN
       IF d = Default THEN UsePool(s, DefaultPool)
       ELSE IF registry[d] # None THEN UsePool(s, registry[d])
       ELSE Go(s, "create") /\ UNCHANGED pool
    /\ UNCHANGED <<pools, connections, req, conn, issued, faults>>

(* Mutant: the copy of the configuration keeps its database.                *)
create_pool_for_default(d) == Default
(* The database that the connections of a new pool are opened for.          *)
create_pool_for_database(d) == d

CreatePool(s) ==
    /\ pc[s] = "create"
    /\ configured' = [configured EXCEPT
                        ![<<req[s].db, s>>] = create_pool_for_database(req[s].db)]
    /\ Go(s, "insert")
    /\ UNCHANGED <<registry, free, idle, connections, req, pool, conn,
                   issued, faults>>

(* Mutant: insert where the code says or_insert_with.                       *)
WinnerLast(d, p) == p
(* entry(d).or_insert_with: a pool that is already there wins.              *)
Winner(d, p) == IF registry[d] = None THEN p ELSE registry[d]

InsertPool(s) ==
    /\ pc[s] = "insert"
    /\ LET d == req[s].db
           p == Winner(d, <<d, s>>)
       IN  registry' = [registry EXCEPT ![d] = p] /\ UsePool(s, p)
    /\ UNCHANGED <<configured, free, idle, connections, req, conn, issued,
                   faults>>

----------------------------------------------------------------------------
(* Pool::get and the connection manager                                     *)

(* One of the pool's permits; a slot waits until there is one.              *)
Acquire(s) ==
    /\ pc[s] = "acquire" /\ free[pool[s]] > 0
    /\ free' = [free EXCEPT ![pool[s]] = @ - 1]
    /\ Go(s, "get")
    /\ UNCHANGED <<registry, configured, idle, connections, req, pool, conn,
                   issued, faults>>

(* The oldest idle connection is taken, to be checked; without one a new    *)
(* connection is opened.                                                    *)
TakeIdle(s) ==
    /\ pc[s] = "get"
    /\ IF idle[pool[s]] # <<>>
         THEN /\ conn' = [conn EXCEPT ![s] = Head(idle[pool[s]])]
              /\ idle' = [idle EXCEPT ![pool[s]] = Tail(@)]
              /\ Go(s, "recycle")
         ELSE Go(s, "open") /\ UNCHANGED <<conn, idle>>
    /\ UNCHANGED <<registry, configured, free, connections, req, pool, issued,
                   faults>>

(* Mutant: an idle connection is handed out without a PING.                 *)
RecycleTrusts(s) ==
    /\ pc[s] = "recycle" /\ Go(s, "query")
    /\ UNCHANGED <<pools, connections, req, pool, conn, issued, faults>>

(* WebdisRedisManager::recycle: PING.  A connection that fails is dropped,  *)
(* and the next one is looked at.                                           *)
Recycle(s) ==
    /\ pc[s] = "recycle"
    /\ \/ conn[s] \in up /\ Go(s, "query") /\ UNCHANGED <<conn, faults>>
       \/ /\ \/ conn[s] \notin up /\ UNCHANGED faults
             \/ conn[s] \in up /\ Fault
          /\ conn' = [conn EXCEPT ![s] = None]
          /\ Go(s, "get")
    /\ UNCHANGED <<pools, connections, req, pool, issued>>

(* WebdisRedisManager::create: the connection starts in the pool's database.*)
Open(s) ==
    /\ pc[s] = "open"
    /\ opened' = opened + 1
    /\ connDb' = [connDb EXCEPT ![opened + 1] = configured[pool[s]]]
    /\ up' = up \cup {opened + 1}
    /\ conn' = [conn EXCEPT ![s] = opened + 1]
    /\ Go(s, "query")
    /\ UNCHANGED <<pools, strayed, failed, req, pool, issued, faults>>

----------------------------------------------------------------------------
(* RedisCommandExecutor::execute                                            *)

(* Mutant: the permit of a request that fails is forgotten.                 *)
ReleaseUnlessFailed(s) ==
    free' = IF conn[s] = None THEN free ELSE [free EXCEPT ![pool[s]] = @ + 1]
(* Dropping what `get` returned, or the future of `get`, frees the permit.  *)
Release(s) == free' = [free EXCEPT ![pool[s]] = @ + 1]

(* Dropping the connection puts it back as the youngest.                    *)
PutBack(s) ==
    /\ idle' = [idle EXCEPT ![pool[s]] = Append(@, conn[s])]
    /\ conn' = [conn EXCEPT ![s] = None]

(* The command is answered, with a value or an error.                       *)
Finish(s) ==
    /\ pool' = [pool EXCEPT ![s] = None]
    /\ req' = [req EXCEPT ![s] = None]
    /\ Go(s, "idle")

(* What Redis does with the command: a SELECT moves the connection.         *)
Run(s) ==
    IF req[s].select = None THEN UNCHANGED <<connDb, strayed>>
    ELSE /\ connDb' = [connDb EXCEPT ![conn[s]] = req[s].select]
         /\ strayed' = strayed \cup {conn[s]}

(* query_async on a working connection, and on one that broke.              *)
Query(s) ==
    /\ pc[s] = "query"
    /\ IF conn[s] \in up
         THEN Run(s) /\ UNCHANGED failed
         ELSE failed' = failed \cup {conn[s]} /\ UNCHANGED <<connDb, strayed>>
    /\ Finish(s) /\ PutBack(s) /\ Release(s)
    /\ UNCHANGED <<registry, configured, up, opened, issued, faults>>

(* create_pool or create fails: ServiceUnavailable.                         *)
Unavailable(s) ==
    /\ Fault
    /\ \/ pc[s] = "create" /\ UNCHANGED free
       \/ pc[s] = "open" /\ Release(s)
    /\ Finish(s)
    /\ UNCHANGED <<registry, configured, idle, connections, conn, issued>>

HasPermit(s) == pc[s] \notin {"lookup", "insert", "acquire"}

(* The client of a request goes away and its future is dropped where it     *)
(* waits.  A connection that is being checked is closed, one that waits for *)
(* its answer goes back, whether Redis has run the command or not.          *)
Cancel(s) ==
    /\ pc[s] \in {"lookup", "insert", "acquire", "recycle", "open", "query"}
    /\ req[s].task = "request"
    /\ IF HasPermit(s) THEN Release(s) ELSE UNCHANGED free
    /\ \/ pc[s] = "query" /\ PutBack(s) /\ (Run(s) \/ UNCHANGED <<connDb, strayed>>)
       \/ /\ pc[s] # "query" /\ conn' = [conn EXCEPT ![s] = None]
          /\ UNCHANGED <<idle, connDb, strayed>>
    /\ Finish(s)
    /\ UNCHANGED <<registry, configured, up, opened, failed, issued, faults>>

(* Redis or the network closes a connection.                                *)
Break(c) ==
    /\ c \in up /\ Fault
    /\ up' = up \ {c}
    /\ UNCHANGED <<pools, connDb, opened, strayed, failed, slots, issued>>

----------------------------------------------------------------------------
Step(s) ==
    \/ LookUp(s) \/ CreatePool(s) \/ InsertPool(s) \/ Acquire(s) \/ TakeIdle(s)
    \/ Recycle(s) \/ Open(s) \/ Query(s)

Next ==
    \/ \E s \in Slots, in \in Input :
          \/ process_request(s, in) \/ grpc_execute(s, in)
          \/ grpc_execute_stream(s, in) \/ handle_socket(s, in)
    \/ \E s \in Slots :
          \/ LookUp(s) \/ CreatePool(s) \/ InsertPool(s) \/ Acquire(s)
          \/ TakeIdle(s) \/ Recycle(s) \/ Open(s) \/ Query(s)
          \/ Unavailable(s) \/ Cancel(s)
    \/ \E c \in Connections : Break(c)

Spec == Init /\ [][Next]_vars

(* Handlers are scheduled and Redis answers.  The semaphore of a pool is    *)
(* fair: a slot that waits is not passed over forever.                      *)
Fairness == \A s \in Slots : WF_vars(Step(s)) /\ SF_vars(Acquire(s))

FairSpec == Spec /\ Fairness

----------------------------------------------------------------------------
(* Properties                                                               *)

Held == {conn[s] : s \in Slots} \ {None}
InPool(p) == ToSet(idle[p]) \cup ({conn[s] : s \in {t \in Slots : pool[t] = p}} \ {None})
(* The connections that the pools of a database hold.                       *)
OpenIn(d) == UNION {InPool(p) : p \in {q \in Pools : q[1] = d}}

(* A connection is with one slot or idle in one pool, once.                 *)
Exclusive ==
    /\ \A s, t \in Slots : conn[s] = conn[t] /\ conn[s] # None => s = t
    /\ \A p, q \in Pools : \A i \in DOMAIN idle[p], j \in DOMAIN idle[q] :
          idle[p][i] = idle[q][j] => p = q /\ i = j
    /\ \A p \in Pools : ToSet(idle[p]) \cap Held = {}

(* Redis never sees more than PoolSize connections for one database, also   *)
(* when the first requests for it race to make its pool, when connections   *)
(* break, and when requests are dropped half way; and no two requests ever  *)
(* share one of them.                                                       *)
ConnectionBound ==
    /\ \A d \in Databases : Cardinality(OpenIn(d)) <= PoolSize
    /\ Exclusive

(* A command runs in the database it was sent for, unless a client has sent *)
(* a SELECT over that connection.                                           *)
RunsInItsDatabase ==
    \A s \in Slots : pc[s] = "query" /\ conn[s] \notin strayed =>
                        connDb[conn[s]] = req[s].db

(* A connection that has failed a command is not given to another: it is    *)
(* back among the idle ones, but the check that follows finds it out.       *)
BrokenServesOnce == \A s \in Slots : pc[s] = "query" => conn[s] \notin failed

(* Every command that a handler takes on comes to its end: no failure and   *)
(* no dropped request keeps a permit.                                       *)
CommandsEnd == \A s \in Slots : pc[s] # "idle" ~> pc[s] = "idle"
=============================================================================
