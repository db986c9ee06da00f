------------------------- MODULE CommandPoolsProofs -------------------------
(***************************************************************************)
(* Proofs about CommandPools, for every finite number of handlers, every   *)
(* set of databases, every size of the pools and any number of failures.   *)
(***************************************************************************)
EXTENDS CommandPools, FiniteSetTheorems, TLAPS

Pcs == {"idle", "lookup", "create", "insert", "acquire", "get", "recycle",
        "open", "query"}

(* The values of the variables.                                            *)
PoolsOK ==
    /\ registry \in [Databases \ {Default} -> Pools \cup {None}]
    /\ configured \in [Pools -> Databases \cup {None}]
    /\ free \in [Pools -> Nat]
    /\ idle \in [Pools -> Seq(Connections)]
ConnectionsOK ==
    /\ connDb \in [Connections -> Databases \cup {None}]
    /\ opened \in 0 .. MaxCommands
    /\ up \subseteq 1 .. opened
    /\ strayed \subseteq 1 .. opened
    /\ failed \subseteq 1 .. opened
SlotsOK ==
    /\ pc \in [Slots -> Pcs]
    /\ req \in [Slots -> Request \cup {None}]
    /\ pool \in [Slots -> Pools \cup {None}]
    /\ conn \in [Slots -> Connections \cup {None}]
BoundsOK == issued \in 0 .. MaxCommands /\ faults \in 0 .. MaxFaults
TypeOK == PoolsOK /\ ConnectionsOK /\ SlotsOK /\ BoundsOK

(* The pool that the commands of a database use: the default one, or the   *)
(* one that won the race into the registry; None before there is a winner. *)
Main(d) == IF d = Default THEN DefaultPool ELSE registry[d]

(* The handlers that hold a permit, and those that have taken an idle      *)
(* connection or have found none and are about to open one.                *)
Permits(p) == {s \in Slots : pool[s] = p /\ pc[s] \in {"get", "recycle", "open", "query"}}
Busy(p) == {s \in Slots : pool[s] = p /\ pc[s] \in {"recycle", "open", "query"}}

(* The handlers whose command may still open a connection.                 *)
MayOpen == {s \in Slots : pc[s] \notin {"idle", "query"}}

(* What the place of a handler says about its pool and its connection.     *)
SlotInv ==
    \A s \in Slots :
       /\ pc[s] # "idle" => req[s] \in Request
       /\ pc[s] \in {"idle", "lookup", "create", "insert"} => pool[s] = None
       /\ pc[s] \notin {"idle", "lookup", "create", "insert"} =>
             pool[s] = Main(req[s].db) /\ pool[s] # None
       /\ pc[s] \in {"create", "insert"} => req[s].db # Default
       /\ pc[s] = "insert" => configured[<<req[s].db, s>>] = req[s].db
       /\ pc[s] \in {"recycle", "query"} => conn[s] \in 1 .. opened
       /\ pc[s] \notin {"recycle", "query"} => conn[s] = None

(* A pool in use is the one pool of its database and was made for it; the  *)
(* others, made by the losers of the race, stay empty.                     *)
RegistryInv ==
    /\ \A d \in Databases : Main(d) # None =>
          Main(d) \in Pools /\ Main(d)[1] = d /\ configured[Main(d)] = d
    /\ \A p \in Pools : idle[p] # <<>> => p = Main(p[1])

(* Semaphores: every permit is free or with a handler; and a pool has no   *)
(* more connections, idle, in use or about to be opened, than permits.     *)
CountInv ==
    /\ \A p \in Pools : free[p] + Cardinality(Permits(p)) = PoolSize
    /\ \A p \in Pools : Len(idle[p]) + Cardinality(Busy(p)) <= PoolSize
    /\ opened + Cardinality(MayOpen) <= issued

(* A connection that no client moved is in the database of its pool.       *)
DatabaseInv ==
    /\ \A p \in Pools : \A i \in DOMAIN idle[p] :
          /\ idle[p][i] \in 1 .. opened
          /\ idle[p][i] \notin strayed => connDb[idle[p][i]] = p[1]
    /\ \A s \in Slots : conn[s] # None /\ conn[s] \notin strayed =>
          connDb[conn[s]] = req[s].db

FailInv == failed \cap up = {} /\ BrokenServesOnce

IInv == /\ TypeOK /\ SlotInv /\ RegistryInv /\ CountInv /\ DatabaseInv
        /\ Exclusive /\ FailInv

----------------------------------------------------------------------------
(* Handlers                                                                *)

(* What the four handlers do, seen from the pools: a command that passes   *)
(* their checks names a database, one that does not is only counted.       *)
Enter(s, r) ==
    /\ Issue(s) /\ req' = [req EXCEPT ![s] = r] /\ Go(s, "lookup")
    /\ UNCHANGED <<pools, connections, pool, conn, faults>>

LEMMA HandlerStep ==
    ASSUME NEW s \in Slots, NEW in \in Input,
           \/ process_request(s, in) \/ grpc_execute(s, in)
           \/ grpc_execute_stream(s, in) \/ handle_socket(s, in)
    PROVE  (Issue(s) /\ Refused) \/ \E r \in Request : Enter(s, r)
<1>1. ASSUME NEW task \in {"own", "request"}, InDefault(in.db) \in Databases,
             Issue(s), Begin(s, in, task)
      PROVE  \E r \in Request : Enter(s, r)
  <2> DEFINE r == [db |-> InDefault(in.db), select |-> in.select, task |-> task]
  <2>1. r \in Request
    BY <1>1 DEF Request, Input
  <2>2. Enter(s, r)
    BY <1>1 DEF Begin, Enter
  <2> QED
    BY <2>1, <2>2
<1>2. ASSUME in.db = None \/ in.db <= 255 PROVE InDefault(in.db) \in Databases
  BY <1>2, PoolsAssumption DEF InDefault, Input
<1>3. ASSUME InDefault(in.db) <= 255 PROVE InDefault(in.db) \in Databases
  BY <1>3, PoolsAssumption DEF InDefault, Input
<1> QED
  BY <1>1, <1>2, <1>3 DEF process_request, grpc_execute, grpc_execute_stream,
     handle_socket, parse_http_request, command_from_proto

----------------------------------------------------------------------------
(* Counting                                                                *)

(* A set that at most one element enters or leaves.                        *)
LEMMA OneMoves ==
    ASSUME NEW A, IsFiniteSet(A), NEW B, NEW s, A \ {s} = B \ {s}
    PROVE  /\ IsFiniteSet(B) /\ Cardinality(A) \in Nat /\ Cardinality(B) \in Nat
           /\ s \in A /\ s \in B => Cardinality(B) = Cardinality(A)
           /\ s \notin A /\ s \notin B => Cardinality(B) = Cardinality(A)
           /\ s \notin A /\ s \in B => Cardinality(B) = Cardinality(A) + 1
           /\ s \in A /\ s \notin B => Cardinality(B) = Cardinality(A) - 1
<1>1. IsFiniteSet(A \ {s})
  BY FS_RemoveElement
<1>2. B = A \ {s} \/ B = A \cup {s}
  OBVIOUS
<1>3. IsFiniteSet(B)
  BY <1>2, FS_RemoveElement, FS_AddElement
<1>4. Cardinality(A) \in Nat /\ Cardinality(B) \in Nat
  BY <1>3, FS_CardinalityType
<1>5. s \in A /\ s \in B => A = B
  BY <1>2
<1>6. s \notin A /\ s \notin B => A = B
  BY <1>2
<1>7. s \notin A /\ s \in B => Cardinality(B) = Cardinality(A) + 1
  BY <1>2, FS_AddElement
<1>8. s \in A /\ s \notin B => Cardinality(B) = Cardinality(A) - 1
  BY <1>2, FS_RemoveElement
<1> QED
  BY <1>3, <1>4, <1>5, <1>6, <1>7, <1>8

LEMMA Finite ==
    /\ IsFiniteSet(MayOpen) /\ Cardinality(MayOpen) \in Nat
    /\ \A p \in Pools : /\ IsFiniteSet(Permits(p)) /\ Cardinality(Permits(p)) \in Nat
                        /\ IsFiniteSet(Busy(p)) /\ Cardinality(Busy(p)) \in Nat
BY FS_Subset, FS_CardinalityType, PoolsAssumption DEF MayOpen, Permits, Busy

(* A command that has not opened a connection leaves room for one.         *)
LEMMA RoomToOpen ==
    ASSUME TypeOK, CountInv, NEW s \in Slots, pc[s] = "open"
    PROVE  opened + 1 \in Connections
<1>1. Cardinality(MayOpen) > 0
  <2>1. MayOpen # {}
    BY DEF MayOpen
  <2> QED
    BY <2>1, Finite, FS_EmptySet
<1> QED
  BY <1>1, Finite, PoolsAssumption
     DEF TypeOK, ConnectionsOK, BoundsOK, CountInv, Connections

(* What a handler has at hand has its type.                                *)
LEMMA SlotFacts ==
    ASSUME TypeOK, SlotInv, NEW s \in Slots
    PROVE  /\ pc[s] # "idle" => /\ req[s].db \in Databases
                                /\ req[s].select \in Databases \cup {None}
           /\ pc[s] \in {"acquire", "get", "recycle", "open", "query"} =>
                 pool[s] \in Pools
           /\ pc[s] \in {"recycle", "query"} =>
                 conn[s] \in Connections /\ conn[s] \in 1 .. opened
<1>1. pc[s] # "idle" => req[s] \in Request
  BY DEF SlotInv
<1>2. \A r \in Request : r.db \in Databases /\ r.select \in Databases \cup {None}
  BY PoolsAssumption DEF Request
<1>3. pc[s] \in {"acquire", "get", "recycle", "open", "query"} => pool[s] \in Pools
  BY DEF SlotInv, TypeOK, SlotsOK
<1>4. pc[s] \in {"recycle", "query"} =>
         conn[s] \in Connections /\ conn[s] \in 1 .. opened
  <2>1. 1 .. opened \subseteq Connections
    BY PoolsAssumption DEF TypeOK, ConnectionsOK, Connections
  <2> QED
    BY <2>1 DEF SlotInv
<1> QED
  BY <1>1, <1>2, <1>3, <1>4

(* What TakeIdle and PutBack make of the queue of a pool.                  *)
LEMMA IdleType ==
    ASSUME idle \in [Pools -> Seq(Connections)], NEW p \in Pools
    PROVE  /\ \A c \in Connections :
                 [idle EXCEPT ![p] = Append(@, c)] \in [Pools -> Seq(Connections)]
           /\ idle[p] # <<>> =>
                 [idle EXCEPT ![p] = Tail(@)] \in [Pools -> Seq(Connections)]
<1>1. idle[p] \in Seq(Connections)
  OBVIOUS
<1>2. ASSUME NEW q \in Seq(Connections)
      PROVE  [idle EXCEPT ![p] = q] \in [Pools -> Seq(Connections)]
  OBVIOUS
<1>3. \A c \in Connections : Append(idle[p], c) \in Seq(Connections)
  BY <1>1
<1>4. idle[p] # <<>> => Tail(idle[p]) \in Seq(Connections)
  BY <1>1
<1> QED
  BY <1>2, <1>3, <1>4

LEMMA HeadOf ==
    ASSUME NEW S, NEW q \in Seq(S), q # <<>>
    PROVE  /\ 1 \in DOMAIN q /\ Head(q) = q[1] /\ Len(Tail(q)) = Len(q) - 1
           /\ \A i \in DOMAIN Tail(q) : i + 1 \in DOMAIN q /\ Tail(q)[i] = q[i + 1]
OBVIOUS

(* A handler uses the one pool of its database.                            *)
LEMMA PoolOf ==
    ASSUME TypeOK, SlotInv, RegistryInv, NEW s \in Slots,
           pc[s] \in {"acquire", "get", "recycle", "open", "query"}
    PROVE  /\ pool[s] \in Pools /\ pool[s] # None /\ pool[s][1] = req[s].db
           /\ pool[s] = Main(pool[s][1]) /\ configured[pool[s]] = req[s].db
<1>1. pool[s] \in Pools /\ req[s].db \in Databases
  BY SlotFacts
<1>2. pool[s] = Main(req[s].db) /\ pool[s] # None
  BY DEF SlotInv
<1>3. Main(req[s].db)[1] = req[s].db /\ configured[Main(req[s].db)] = req[s].db
  BY <1>1, <1>2 DEF RegistryInv
<1> QED
  BY <1>1, <1>2, <1>3

LEMMA DefaultPoolType == DefaultPool \in Pools /\ DefaultPool[1] = Default
BY PoolsAssumption DEF DefaultPool, Pools

(* Every step keeps every variable in its domain.                          *)
LEMMA TypeStep == IInv /\ [Next]_vars => TypeOK'
<1> SUFFICES ASSUME IInv, [Next]_vars PROVE TypeOK'
  OBVIOUS
<1> USE PoolsAssumption
     DEF IInv, TypeOK, Pcs, pools, connections, slots, Go, Fault
<1>1. ASSUME NEW s \in Slots, Issue(s), Refused PROVE TypeOK'
  <2>1. PoolsOK'
    BY <1>1, SlotFacts DEF PoolsOK, Issue, Refused
  <2>2. ConnectionsOK'
    BY <1>1, SlotFacts DEF ConnectionsOK, Issue, Refused
  <2>3. SlotsOK'
    BY <1>1, SlotFacts DEF SlotsOK, Issue, Refused
  <2>4. BoundsOK'
    BY <1>1 DEF BoundsOK, Issue, Refused
  <2> QED
    BY <2>1, <2>2, <2>3, <2>4
<1>2. ASSUME NEW s \in Slots, NEW r \in Request, Enter(s, r) PROVE TypeOK'
  <2>1. PoolsOK'
    BY <1>2, SlotFacts DEF PoolsOK, Enter, Issue
  <2>2. ConnectionsOK'
    BY <1>2, SlotFacts DEF ConnectionsOK, Enter, Issue
  <2>3. SlotsOK'
    BY <1>2, SlotFacts DEF SlotsOK, Enter, Issue
  <2>4. BoundsOK'
    BY <1>2 DEF BoundsOK, Enter, Issue
  <2> QED
    BY <2>1, <2>2, <2>3, <2>4
<1>3. ASSUME NEW s \in Slots, LookUp(s) PROVE TypeOK'
  <2>1. PoolsOK'
    BY <1>3, SlotFacts DEF PoolsOK, LookUp, UsePool
  <2>2. ConnectionsOK'
    BY <1>3, SlotFacts DEF ConnectionsOK, LookUp, UsePool
  <2>3. SlotsOK'
    <3>1. \/ pool' = pool
          \/ \E p \in Pools : pool' = [pool EXCEPT ![s] = p]
      BY <1>3, SlotFacts, DefaultPoolType DEF PoolsOK, LookUp, UsePool
    <3>2. pc' \in [Slots -> Pcs] /\ req' = req /\ conn' = conn
      BY <1>3 DEF LookUp, UsePool, SlotsOK
    <3> QED
      BY <3>1, <3>2 DEF SlotsOK
  <2>4. BoundsOK'
    BY <1>3 DEF BoundsOK, LookUp, UsePool
  <2> QED
    BY <2>1, <2>2, <2>3, <2>4
<1>4. ASSUME NEW s \in Slots, CreatePool(s) PROVE TypeOK'
  <2>1. PoolsOK'
    BY <1>4, SlotFacts DEF PoolsOK, CreatePool, create_pool_for_database
  <2>2. ConnectionsOK'
    BY <1>4, SlotFacts DEF ConnectionsOK, CreatePool, create_pool_for_database
  <2>3. SlotsOK'
    BY <1>4, SlotFacts DEF SlotsOK, CreatePool, create_pool_for_database
  <2>4. BoundsOK'
    BY <1>4 DEF BoundsOK, CreatePool, create_pool_for_database
  <2> QED
    BY <2>1, <2>2, <2>3, <2>4
<1>5. ASSUME NEW s \in Slots, InsertPool(s) PROVE TypeOK'
  <2>1. PoolsOK'
    BY <1>5, SlotFacts DEF PoolsOK, InsertPool, Winner, UsePool, Pools
  <2>2. ConnectionsOK'
    BY <1>5, SlotFacts DEF ConnectionsOK, InsertPool, Winner, UsePool, Pools
  <2>3. SlotsOK'
    <3>1. PICK p \in Pools : pool' = [pool EXCEPT ![s] = p]
      <4>1. req[s].db \in Databases \ {Default}
        BY <1>5, SlotFacts DEF InsertPool, SlotInv
      <4>2. Winner(req[s].db, <<req[s].db, s>>) \in Pools
        BY <4>1 DEF Winner, PoolsOK, Pools
      <4> QED
        BY <1>5, <4>2 DEF InsertPool, UsePool
    <3>2. pc' \in [Slots -> Pcs] /\ req' = req /\ conn' = conn
      BY <1>5 DEF InsertPool, UsePool, SlotsOK
    <3> QED
      BY <3>1, <3>2 DEF SlotsOK
  <2>4. BoundsOK'
    BY <1>5 DEF BoundsOK, InsertPool, Winner, UsePool, Pools
  <2> QED
    BY <2>1, <2>2, <2>3, <2>4
<1>6. ASSUME NEW s \in Slots, Acquire(s) PROVE TypeOK'
  <2>1. PoolsOK'
    BY <1>6, SlotFacts DEF PoolsOK, Acquire
  <2>2. ConnectionsOK'
    BY <1>6, SlotFacts DEF ConnectionsOK, Acquire
  <2>3. SlotsOK'
    BY <1>6, SlotFacts DEF SlotsOK, Acquire
  <2>4. BoundsOK'
    BY <1>6 DEF BoundsOK, Acquire
  <2> QED
    BY <2>1, <2>2, <2>3, <2>4
<1>7. ASSUME NEW s \in Slots, TakeIdle(s) PROVE TypeOK'
  <2>0. /\ pool[s] \in Pools /\ idle[pool[s]] \in Seq(Connections)
        /\ idle[pool[s]] # <<>> => /\ Head(idle[pool[s]]) \in Connections
                                   /\ Tail(idle[pool[s]]) \in Seq(Connections)
    <3>1. pool[s] \in Pools
      BY <1>7, SlotFacts DEF TakeIdle
    <3>2. idle[pool[s]] \in Seq(Connections)
      BY <3>1 DEF PoolsOK
    <3> HIDE DEF TypeOK
    <3> QED
      BY <3>1, <3>2
  <2>1. PoolsOK'
    <3>1. /\ UNCHANGED <<registry, configured, free>>
          /\ \/ idle' = idle
             \/ /\ idle[pool[s]] # <<>>
                /\ idle' = [idle EXCEPT ![pool[s]] = Tail(@)]
      BY <1>7 DEF TakeIdle
    <3>2. idle' \in [Pools -> Seq(Connections)]
      BY <3>1, <2>0, IdleType, ZenonT(40) DEF PoolsOK
    <3> QED
      BY <3>1, <3>2 DEF PoolsOK
  <2>2. ConnectionsOK'
    BY <1>7, SlotFacts DEF ConnectionsOK, TakeIdle
  <2>3. SlotsOK'
    <3>1. /\ UNCHANGED <<req, pool>>
          /\ \/ conn' = conn
             \/ /\ idle[pool[s]] # <<>>
                /\ conn' = [conn EXCEPT ![s] = Head(idle[pool[s]])]
      BY <1>7 DEF TakeIdle
    <3>2. pc' \in [Slots -> Pcs]
      BY <1>7 DEF TakeIdle, SlotsOK
    <3> QED
      BY <3>1, <3>2, <2>0, SMTT(30) DEF SlotsOK
  <2>4. BoundsOK'
    BY <1>7 DEF BoundsOK, TakeIdle
  <2> QED
    BY <2>1, <2>2, <2>3, <2>4
<1>8. ASSUME NEW s \in Slots, Recycle(s) PROVE TypeOK'
  <2>1. PoolsOK'
    BY <1>8, SlotFacts DEF PoolsOK, Recycle
  <2>2. ConnectionsOK'
    BY <1>8, SlotFacts DEF ConnectionsOK, Recycle
  <2>3. SlotsOK'
    BY <1>8, SlotFacts DEF SlotsOK, Recycle
  <2>4. BoundsOK'
    BY <1>8 DEF BoundsOK, Recycle
  <2> QED
    BY <2>1, <2>2, <2>3, <2>4
<1>9. ASSUME NEW s \in Slots, Open(s) PROVE TypeOK'
  <2>1. PoolsOK'
    BY <1>9, RoomToOpen, SlotFacts DEF PoolsOK, Open, Connections
  <2>2. ConnectionsOK'
    <3>1. opened + 1 \in Connections /\ pool[s] \in Pools /\ opened \in Nat
      BY <1>9, RoomToOpen, SlotFacts DEF Open, ConnectionsOK
    <3>2. configured[pool[s]] \in Databases \cup {None}
      BY <3>1 DEF PoolsOK
    <3>3. opened' \in 0 .. MaxCommands
      BY <1>9, <3>1 DEF Open, Connections
    <3>4. /\ up' \subseteq 1 .. opened'
          /\ strayed' \subseteq 1 .. opened' /\ failed' \subseteq 1 .. opened'
      BY <1>9, <3>1 DEF Open, ConnectionsOK
    <3>5. connDb' \in [Connections -> Databases \cup {None}]
      BY <1>9, <3>1, <3>2 DEF Open, ConnectionsOK
    <3> QED
      BY <3>3, <3>4, <3>5 DEF ConnectionsOK
  <2>3. SlotsOK'
    BY <1>9, RoomToOpen, SlotFacts DEF SlotsOK, Open, Connections
  <2>4. BoundsOK'
    BY <1>9, RoomToOpen DEF BoundsOK, Open, Connections
  <2> QED
    BY <2>1, <2>2, <2>3, <2>4
<1>10. ASSUME NEW s \in Slots, Query(s) PROVE TypeOK'
  <2>1. PoolsOK'
    BY <1>10, SlotFacts, SMTT(30) DEF PoolsOK, Query, Run, Finish, PutBack, Release
  <2>2. ConnectionsOK'
    <3>1. /\ conn[s] \in Connections /\ conn[s] \in 1 .. opened
          /\ req[s].select \in Databases \cup {None}
      BY <1>10, SlotFacts DEF Query
    <3>2. up' = up /\ opened' = opened
      BY <1>10 DEF Query
    <3>3. strayed' \subseteq strayed \cup {conn[s]} /\ failed' \subseteq failed \cup {conn[s]}
      BY <1>10 DEF Query, Run
    <3>4. strayed' \subseteq 1 .. opened /\ failed' \subseteq 1 .. opened
      BY <3>1, <3>3 DEF ConnectionsOK
    <3>5. \/ connDb' = connDb
          \/ connDb' = [connDb EXCEPT ![conn[s]] = req[s].select] /\ req[s].select # None
      BY <1>10 DEF Query, Run
    <3>6. connDb' \in [Connections -> Databases \cup {None}]
      BY <3>1, <3>5 DEF ConnectionsOK
    <3> QED
      BY <3>2, <3>4, <3>6 DEF ConnectionsOK
  <2>3. SlotsOK'
    BY <1>10, SlotFacts DEF SlotsOK, Query, Run, Finish, PutBack, Release
  <2>4. BoundsOK'
    BY <1>10 DEF BoundsOK, Query, Run, Finish, PutBack, Release
  <2> QED
    BY <2>1, <2>2, <2>3, <2>4
<1>11. ASSUME NEW s \in Slots, Unavailable(s) PROVE TypeOK'
  <2>1. PoolsOK'
    <3>1. pc[s] = "open" => pool[s] \in Pools
      BY SlotFacts
    <3> QED
      BY <1>11, <3>1 DEF PoolsOK, Unavailable, Release
  <2>2. ConnectionsOK'
    BY <1>11, SlotFacts DEF ConnectionsOK, Unavailable, Finish, Release
  <2>3. SlotsOK'
    BY <1>11, SlotFacts DEF SlotsOK, Unavailable, Finish, Release
  <2>4. BoundsOK'
    BY <1>11 DEF BoundsOK, Unavailable, Finish, Release
  <2> QED
    BY <2>1, <2>2, <2>3, <2>4
<1>12. ASSUME NEW s \in Slots, Cancel(s) PROVE TypeOK'
  <2>1. PoolsOK'
    <3>1. /\ pc[s] \in {"recycle", "open", "query"} => pool[s] \in Pools
          /\ pc[s] = "query" => conn[s] \in Connections
      BY SlotFacts
    <3>2. \/ free' = free
          \/ /\ pc[s] \in {"recycle", "open", "query"}
             /\ free' = [free EXCEPT ![pool[s]] = @ + 1]
      BY <1>12 DEF Cancel, HasPermit, Release
    <3>3. \/ idle' = idle
          \/ /\ pc[s] = "query"
             /\ idle' = [idle EXCEPT ![pool[s]] = Append(@, conn[s])]
      BY <1>12 DEF Cancel, PutBack
    <3>4. free' \in [Pools -> Nat]
      BY <3>1, <3>2 DEF PoolsOK
    <3>5. idle' \in [Pools -> Seq(Connections)]
      <4>1. CASE idle' = idle
        BY <4>1 DEF PoolsOK
      <4>2. CASE /\ pc[s] = "query"
                 /\ idle' = [idle EXCEPT ![pool[s]] = Append(@, conn[s])]
        <5>1. pool[s] \in Pools /\ conn[s] \in Connections
          BY <3>1, <4>2
        <5> QED
          BY <4>2, <5>1, IdleType DEF PoolsOK
      <4> QED
        BY <3>3, <4>1, <4>2
    <3> QED
      BY <1>12, <3>4, <3>5 DEF PoolsOK, Cancel
  <2>2. ConnectionsOK'
    <3>1. pc[s] = "query" => /\ conn[s] \in Connections /\ conn[s] \in 1 .. opened
                             /\ req[s].select \in Databases \cup {None}
      BY SlotFacts
    <3>2. up' = up /\ opened' = opened /\ failed' = failed
      BY <1>12 DEF Cancel
    <3>3. /\ strayed' \subseteq 1 .. opened
          /\ connDb' \in [Connections -> Databases \cup {None}]
      BY <1>12, <3>1 DEF Cancel, Run, ConnectionsOK
    <3> QED
      BY <3>2, <3>3 DEF ConnectionsOK
  <2>3. SlotsOK'
    BY <1>12, SlotFacts DEF SlotsOK, Cancel, HasPermit, Run, Finish, PutBack, Release
  <2>4. BoundsOK'
    BY <1>12 DEF BoundsOK, Cancel, HasPermit, Run, Finish, PutBack, Release
  <2> QED
    BY <2>1, <2>2, <2>3, <2>4
<1>13. ASSUME NEW c \in Connections, Break(c) PROVE TypeOK'
  BY <1>13 DEF Break, PoolsOK, ConnectionsOK, SlotsOK, BoundsOK
<1>14. CASE UNCHANGED vars
  BY <1>14 DEF vars, PoolsOK, ConnectionsOK, SlotsOK, BoundsOK
<1> QED
  BY <1>1, <1>2, <1>3, <1>4, <1>5, <1>6, <1>7, <1>8, <1>9, <1>10, <1>11,
     <1>12, <1>13, <1>14, HandlerStep DEF Next

(* What a handler knows of its pool and its connection stays true while    *)
(* the others take steps: a pool in the registry is not replaced.          *)
LEMMA SlotStep == IInv /\ [Next]_vars => SlotInv'
<1> SUFFICES ASSUME IInv, [Next]_vars PROVE SlotInv'
  OBVIOUS
<1> USE DEF IInv, TypeOK, SlotsOK, SlotInv, Main, pools, connections, slots, Go
<1>1. ASSUME NEW s \in Slots, Issue(s), Refused PROVE SlotInv'
  BY <1>1 DEF Issue, Refused
<1>2. ASSUME NEW s \in Slots, NEW r \in Request, Enter(s, r) PROVE SlotInv'
  BY <1>2 DEF Enter, Issue
<1>3. ASSUME NEW s \in Slots, LookUp(s) PROVE SlotInv'
  BY <1>3, DefaultPoolType, PoolsAssumption DEF LookUp, UsePool, Pools
<1>4. ASSUME NEW s \in Slots, CreatePool(s) PROVE SlotInv'
  BY <1>4, SlotFacts DEF CreatePool, create_pool_for_database, PoolsOK, Pools
<1>5. ASSUME NEW s \in Slots, InsertPool(s) PROVE SlotInv'
  BY <1>5, SlotFacts, PoolsAssumption, SMTT(30) DEF InsertPool, Winner, UsePool, PoolsOK, Pools
<1>6. ASSUME NEW s \in Slots, Acquire(s) PROVE SlotInv'
  BY <1>6 DEF Acquire
<1>7. ASSUME NEW s \in Slots, TakeIdle(s) PROVE SlotInv'
  <2>1. pool[s] \in Pools
    BY <1>7, SlotFacts DEF TakeIdle
  <2>2. idle[pool[s]] # <<>> => Head(idle[pool[s]]) \in 1 .. opened
    BY <2>1, HeadOf DEF DatabaseInv, PoolsOK
  <2> QED
    BY <1>7, <2>2 DEF TakeIdle
<1>8. ASSUME NEW s \in Slots, Recycle(s) PROVE SlotInv'
  BY <1>8 DEF Recycle
<1>9. ASSUME NEW s \in Slots, Open(s) PROVE SlotInv'
  BY <1>9 DEF Open, ConnectionsOK
<1>10. ASSUME NEW s \in Slots, Query(s) PROVE SlotInv'
  BY <1>10 DEF Query, Finish, PutBack
<1>11. ASSUME NEW s \in Slots, Unavailable(s) PROVE SlotInv'
  BY <1>11 DEF Unavailable, Finish
<1>12. ASSUME NEW s \in Slots, Cancel(s) PROVE SlotInv'
  BY <1>12 DEF Cancel, Finish, PutBack
<1>13. ASSUME NEW c \in Connections, Break(c) PROVE SlotInv'
  BY <1>13 DEF Break
<1>14. CASE UNCHANGED vars
  BY <1>14 DEF vars
<1> QED
  BY <1>1, <1>2, <1>3, <1>4, <1>5, <1>6, <1>7, <1>8, <1>9, <1>10, <1>11,
     <1>12, <1>13, <1>14, HandlerStep DEF Next

(* The winner of a database is never replaced, and only the winner is used.*)
LEMMA RegistryStep == IInv /\ [Next]_vars => RegistryInv'
<1> SUFFICES ASSUME IInv, [Next]_vars PROVE RegistryInv'
  OBVIOUS
<1> USE DEF IInv, TypeOK, RegistryInv, Main, pools, connections, slots
<1>1. ASSUME UNCHANGED <<registry, configured, idle>> PROVE RegistryInv'
  BY <1>1
<1>2. ASSUME NEW s \in Slots, CreatePool(s) PROVE RegistryInv'
  <2>1. /\ UNCHANGED <<registry, idle>>
        /\ req[s].db \in Databases /\ <<req[s].db, s>> \in Pools
        /\ configured' = [configured EXCEPT ![<<req[s].db, s>>] = req[s].db]
    BY <1>2, SlotFacts DEF CreatePool, create_pool_for_database, Pools
  <2>2. ASSUME NEW d \in Databases, Main(d) # None PROVE configured'[Main(d)] = d
    BY <2>1, <2>2 DEF PoolsOK
  <2> QED
    BY <2>1, <2>2
<1>3. ASSUME NEW s \in Slots, InsertPool(s) PROVE RegistryInv'
  BY <1>3, SlotFacts, PoolsAssumption, SMTT(30)
     DEF InsertPool, Winner, UsePool, PoolsOK, SlotInv, Pools
<1>4. ASSUME NEW s \in Slots, TakeIdle(s) PROVE RegistryInv'
  BY <1>4, SlotFacts DEF TakeIdle, PoolsOK
<1>5. ASSUME NEW s \in Slots, pc[s] = "query", PutBack(s),
             UNCHANGED <<registry, configured>>
      PROVE RegistryInv'
  <2>1. pool[s] \in Pools /\ pool[s] = Main(pool[s][1])
    BY <1>5, PoolOf
  <2>2. \A p \in Pools : p # pool[s] => idle'[p] = idle[p]
    BY <1>5 DEF PutBack, PoolsOK
  <2> QED
    BY <1>5, <2>1, <2>2
<1>6. ASSUME NEW s \in Slots, Query(s) PROVE RegistryInv'
  BY <1>5, <1>6 DEF Query
<1>7. ASSUME NEW s \in Slots, Cancel(s) PROVE RegistryInv'
  BY <1>1, <1>5, <1>7 DEF Cancel
<1> QED
  BY <1>1, <1>2, <1>3, <1>4, <1>6, <1>7, HandlerStep
     DEF Next, vars, Refused, Enter, LookUp, Acquire, Recycle, Open, Unavailable, Break

LEMMA FinitePrime ==
    \A p \in Pools : IsFiniteSet(Permits(p)') /\ IsFiniteSet(Busy(p)')
BY FS_Subset, PoolsAssumption DEF Permits, Busy

(* The length of the queue of a pool when a connection is taken or is put  *)
(* back.                                                                   *)
LEMMA TakeLength ==
    ASSUME idle \in [Pools -> Seq(Connections)], NEW q \in Pools, idle[q] # <<>>,
           idle' = [idle EXCEPT ![q] = Tail(@)]
    PROVE  \A p \in Pools : /\ Len(idle[p]) \in Nat
                            /\ p = q => Len(idle'[p]) = Len(idle[p]) - 1
                            /\ p # q => idle'[p] = idle[p]
<1>1. \A p \in Pools : idle[p] \in Seq(Connections)
  OBVIOUS
<1> QED
  BY <1>1, HeadOf

LEMMA BackLength ==
    ASSUME idle \in [Pools -> Seq(Connections)], NEW q \in Pools, NEW c,
           idle' = [idle EXCEPT ![q] = Append(@, c)]
    PROVE  \A p \in Pools : /\ Len(idle[p]) \in Nat
                            /\ p = q => Len(idle'[p]) = Len(idle[p]) + 1
                            /\ p # q => idle'[p] = idle[p]
<1>1. \A p \in Pools : idle[p] \in Seq(Connections)
  OBVIOUS
<1> QED
  BY <1>1

(* How a step of one handler changes the sets that are counted.            *)
LEMMA Counting ==
    ASSUME NEW s \in Slots,
           \A t \in Slots : t # s => pc'[t] = pc[t] /\ pool'[t] = pool[t]
    PROVE  /\ Cardinality(MayOpen)' \in Nat
           /\ (s \in MayOpen <=> s \in MayOpen') =>
                 Cardinality(MayOpen)' = Cardinality(MayOpen)
           /\ s \notin MayOpen /\ s \in MayOpen' =>
                 Cardinality(MayOpen)' = Cardinality(MayOpen) + 1
           /\ s \in MayOpen /\ s \notin MayOpen' =>
                 Cardinality(MayOpen)' = Cardinality(MayOpen) - 1
           /\ \A p \in Pools :
                 /\ Cardinality(Permits(p))' \in Nat
                 /\ (s \in Permits(p) <=> s \in Permits(p)') =>
                       Cardinality(Permits(p))' = Cardinality(Permits(p))
                 /\ s \notin Permits(p) /\ s \in Permits(p)' =>
                       Cardinality(Permits(p))' = Cardinality(Permits(p)) + 1
                 /\ s \in Permits(p) /\ s \notin Permits(p)' =>
                       Cardinality(Permits(p))' = Cardinality(Permits(p)) - 1
           /\ \A p \in Pools :
                 /\ Cardinality(Busy(p))' \in Nat
                 /\ (s \in Busy(p) <=> s \in Busy(p)') =>
                       Cardinality(Busy(p))' = Cardinality(Busy(p))
                 /\ s \notin Busy(p) /\ s \in Busy(p)' =>
                       Cardinality(Busy(p))' = Cardinality(Busy(p)) + 1
                 /\ s \in Busy(p) /\ s \notin Busy(p)' =>
                       Cardinality(Busy(p))' = Cardinality(Busy(p)) - 1
<1>1. MayOpen \ {s} = MayOpen' \ {s}
  BY DEF MayOpen
<1>2. ASSUME NEW p \in Pools PROVE Permits(p) \ {s} = Permits(p)' \ {s}
  BY DEF Permits
<1>3. ASSUME NEW p \in Pools PROVE Busy(p) \ {s} = Busy(p)' \ {s}
  BY DEF Busy
<1> HIDE DEF MayOpen, Permits, Busy
<1> QED
  BY <1>1, <1>2, <1>3, Finite, OneMoves, ZenonT(40)

(* The sums that CountInv keeps when a handler takes a permit or gives it  *)
(* back, and when its connection leaves the pool's queue or joins it.      *)
LEMMA PermitSum ==
    ASSUME TypeOK, CountInv, NEW s \in Slots, NEW q \in Pools,
           \A t \in Slots : t # s => pc'[t] = pc[t] /\ pool'[t] = pool[t],
           \/ /\ \A p \in Pools : s \notin Permits(p) /\ (s \in Permits(p)' <=> p = q)
              /\ free[q] > 0 /\ free' = [free EXCEPT ![q] = @ - 1]
           \/ /\ \A p \in Pools : s \notin Permits(p)' /\ (s \in Permits(p) <=> p = q)
              /\ free' = [free EXCEPT ![q] = @ + 1],
           NEW p \in Pools
    PROVE  free'[p] + Cardinality(Permits(p))' = PoolSize
<1>1. /\ free[p] \in Nat /\ Cardinality(Permits(p)) \in Nat
      /\ Cardinality(Permits(p))' \in Nat
      /\ free[p] + Cardinality(Permits(p)) = PoolSize
  BY Finite, Counting DEF TypeOK, PoolsOK, CountInv
<1>2. CASE p # q
  <2>1. Cardinality(Permits(p))' = Cardinality(Permits(p))
    BY <1>2, Counting
  <2>2. free'[p] = free[p]
    BY <1>2 DEF TypeOK, PoolsOK
  <2> QED
    BY <1>1, <2>1, <2>2
<1>3. CASE p = q
  <2>1. \/ /\ Cardinality(Permits(p))' = Cardinality(Permits(p)) + 1
           /\ free[p] > 0 /\ free'[p] = free[p] - 1
        \/ /\ Cardinality(Permits(p))' = Cardinality(Permits(p)) - 1
           /\ free'[p] = free[p] + 1
    BY <1>3, Counting DEF TypeOK, PoolsOK
  <2> QED
    BY <1>1, <2>1
<1> QED
  BY <1>2, <1>3

LEMMA IdleSum ==
    ASSUME TypeOK, CountInv, NEW s \in Slots, NEW q \in Pools,
           \A t \in Slots : t # s => pc'[t] = pc[t] /\ pool'[t] = pool[t],
           \/ /\ \A p \in Pools : s \notin Busy(p) /\ (s \in Busy(p)' <=> p = q)
              /\ idle[q] # <<>> /\ idle' = [idle EXCEPT ![q] = Tail(@)]
           \/ /\ \A p \in Pools : s \notin Busy(p)' /\ (s \in Busy(p) <=> p = q)
              /\ \/ idle' = idle
                 \/ idle' = [idle EXCEPT ![q] = Append(@, conn[s])],
           NEW p \in Pools
    PROVE  Len(idle'[p]) + Cardinality(Busy(p))' <= PoolSize
<1>1. /\ Len(idle[p]) \in Nat /\ Cardinality(Busy(p)) \in Nat
      /\ Cardinality(Busy(p))' \in Nat
      /\ Len(idle[p]) + Cardinality(Busy(p)) <= PoolSize
  <2>1. idle[p] \in Seq(Connections)
    BY DEF TypeOK, PoolsOK
  <2> QED
    BY <2>1, Finite, Counting, SMTT(30) DEF CountInv
<1>2. CASE p # q
  <2>1. Cardinality(Busy(p))' = Cardinality(Busy(p))
    BY <1>2, Counting
  <2>2. idle'[p] = idle[p]
    BY <1>2 DEF TypeOK, PoolsOK
  <2> QED
    BY <1>1, <2>1, <2>2
<1>3. CASE p = q
  <2>1. idle[q] \in Seq(Connections) /\ idle \in [Pools -> Seq(Connections)]
    BY DEF TypeOK, PoolsOK
  <2>2. idle' = [idle EXCEPT ![q] = Append(@, conn[s])] =>
           Len(idle'[p]) = Len(idle[p]) + 1
    BY <1>3, <2>1, BackLength
  <2>3. idle[q] # <<>> /\ idle' = [idle EXCEPT ![q] = Tail(@)] =>
           Len(idle'[p]) = Len(idle[p]) - 1
    BY <1>3, <2>1, TakeLength
  <2>4. \/ /\ Cardinality(Busy(p))' = Cardinality(Busy(p)) + 1
           /\ Len(idle'[p]) = Len(idle[p]) - 1
        \/ /\ Cardinality(Busy(p))' = Cardinality(Busy(p)) - 1
           /\ (Len(idle'[p]) = Len(idle[p]) \/ Len(idle'[p]) = Len(idle[p]) + 1)
    BY <1>3, <2>2, <2>3, Counting
  <2> QED
    BY <1>1, <2>4, PoolsAssumption, SMTT(30)
<1> QED
  BY <1>2, <1>3

(* Permits are neither lost nor made, whichever way a command ends.        *)
LEMMA CountStep == IInv /\ [Next]_vars => CountInv'
<1> SUFFICES ASSUME IInv, [Next]_vars PROVE CountInv'
  OBVIOUS
<1> USE DEF IInv, TypeOK, pools, connections, slots, Go
<1>1. ASSUME NEW s \in Slots, Issue(s), Refused PROVE CountInv'
  BY <1>1, Finite DEF Issue, Refused, CountInv, Permits, Busy, MayOpen, BoundsOK,
     ConnectionsOK
<1>2. ASSUME NEW s \in Slots, NEW r \in Request, Enter(s, r) PROVE CountInv'
  <2>1. \A t \in Slots : t # s => pc'[t] = pc[t] /\ pool'[t] = pool[t]
    BY <1>2 DEF Enter, Issue, SlotsOK
  <2>2. s \notin MayOpen /\ s \in MayOpen'
    BY <1>2 DEF Enter, Issue, SlotsOK, MayOpen
  <2>3. \A p \in Pools :
           /\ s \notin Permits(p) /\ s \notin Permits(p)'
           /\ s \notin Busy(p) /\ s \notin Busy(p)'
    BY <1>2, SlotFacts, PoolsAssumption DEF Enter, Issue, SlotsOK, SlotInv, Permits, Busy
  <2>4. /\ free' = free
        /\ idle' = idle
        /\ opened' = opened
        /\ issued' = issued + 1
    BY <1>2, SlotFacts DEF Enter, Issue
  <2>5. \A p \in Pools : free'[p] + Cardinality(Permits(p))' = PoolSize
    BY <2>1, <2>3, <2>4, Counting, Finite DEF CountInv, PoolsOK
  <2>6. \A p \in Pools : Len(idle'[p]) + Cardinality(Busy(p))' <= PoolSize
    BY <2>1, <2>3, <2>4, Counting, Finite DEF CountInv, PoolsOK
  <2>7. (opened + Cardinality(MayOpen) <= issued)'
    BY <2>1, <2>2, <2>4, Counting, Finite DEF CountInv, BoundsOK, ConnectionsOK
  <2> QED
    BY <2>5, <2>6, <2>7 DEF CountInv
<1>3. ASSUME NEW s \in Slots, LookUp(s) PROVE CountInv'
  <2>1. \A t \in Slots : t # s => pc'[t] = pc[t] /\ pool'[t] = pool[t]
    BY <1>3 DEF LookUp, UsePool, SlotsOK
  <2>2. s \in MayOpen /\ s \in MayOpen'
    BY <1>3 DEF LookUp, UsePool, SlotsOK, MayOpen
  <2>3. \A p \in Pools :
           /\ s \notin Permits(p) /\ s \notin Permits(p)'
           /\ s \notin Busy(p) /\ s \notin Busy(p)'
    BY <1>3, SlotFacts, PoolsAssumption DEF LookUp, UsePool, SlotsOK, SlotInv, Permits, Busy
  <2>4. /\ free' = free
        /\ idle' = idle
        /\ opened' = opened
        /\ issued' = issued
    BY <1>3, SlotFacts DEF LookUp, UsePool
  <2>5. \A p \in Pools : free'[p] + Cardinality(Permits(p))' = PoolSize
    BY <2>1, <2>3, <2>4, Counting, Finite DEF CountInv, PoolsOK
  <2>6. \A p \in Pools : Len(idle'[p]) + Cardinality(Busy(p))' <= PoolSize
    BY <2>1, <2>3, <2>4, Counting, Finite DEF CountInv, PoolsOK
  <2>7. (opened + Cardinality(MayOpen) <= issued)'
    BY <2>1, <2>2, <2>4, Counting, Finite DEF CountInv, BoundsOK, ConnectionsOK
  <2> QED
    BY <2>5, <2>6, <2>7 DEF CountInv
<1>4. ASSUME NEW s \in Slots, CreatePool(s) PROVE CountInv'
  <2>1. \A t \in Slots : t # s => pc'[t] = pc[t] /\ pool'[t] = pool[t]
    BY <1>4 DEF CreatePool, SlotsOK
  <2>2. s \in MayOpen /\ s \in MayOpen'
    BY <1>4 DEF CreatePool, SlotsOK, MayOpen
  <2>3. \A p \in Pools :
           /\ s \notin Permits(p) /\ s \notin Permits(p)'
           /\ s \notin Busy(p) /\ s \notin Busy(p)'
    BY <1>4, SlotFacts, PoolsAssumption DEF CreatePool, SlotsOK, SlotInv, Permits, Busy
  <2>4. /\ free' = free
        /\ idle' = idle
        /\ opened' = opened
        /\ issued' = issued
    BY <1>4, SlotFacts DEF CreatePool
  <2>5. \A p \in Pools : free'[p] + Cardinality(Permits(p))' = PoolSize
    BY <2>1, <2>3, <2>4, Counting, Finite DEF CountInv, PoolsOK
  <2>6. \A p \in Pools : Len(idle'[p]) + Cardinality(Busy(p))' <= PoolSize
    BY <2>1, <2>3, <2>4, Counting, Finite DEF CountInv, PoolsOK
  <2>7. (opened + Cardinality(MayOpen) <= issued)'
    BY <2>1, <2>2, <2>4, Counting, Finite DEF CountInv, BoundsOK, ConnectionsOK
  <2> QED
    BY <2>5, <2>6, <2>7 DEF CountInv
<1>5. ASSUME NEW s \in Slots, InsertPool(s) PROVE CountInv'
  <2>1. \A t \in Slots : t # s => pc'[t] = pc[t] /\ pool'[t] = pool[t]
    BY <1>5 DEF InsertPool, UsePool, SlotsOK
  <2>2. s \in MayOpen /\ s \in MayOpen'
    BY <1>5 DEF InsertPool, UsePool, SlotsOK, MayOpen
  <2>3. \A p \in Pools :
           /\ s \notin Permits(p) /\ s \notin Permits(p)'
           /\ s \notin Busy(p) /\ s \notin Busy(p)'
    BY <1>5, SlotFacts, PoolsAssumption DEF InsertPool, UsePool, SlotsOK, SlotInv, Permits, Busy
  <2>4. /\ free' = free
        /\ idle' = idle
        /\ opened' = opened
        /\ issued' = issued
    BY <1>5, SlotFacts DEF InsertPool, UsePool
  <2>5. \A p \in Pools : free'[p] + Cardinality(Permits(p))' = PoolSize
    BY <2>1, <2>3, <2>4, Counting, Finite DEF CountInv, PoolsOK
  <2>6. \A p \in Pools : Len(idle'[p]) + Cardinality(Busy(p))' <= PoolSize
    BY <2>1, <2>3, <2>4, Counting, Finite DEF CountInv, PoolsOK
  <2>7. (opened + Cardinality(MayOpen) <= issued)'
    BY <2>1, <2>2, <2>4, Counting, Finite DEF CountInv, BoundsOK, ConnectionsOK
  <2> QED
    BY <2>5, <2>6, <2>7 DEF CountInv
<1>6. ASSUME NEW s \in Slots, Acquire(s) PROVE CountInv'
  <2>1. \A t \in Slots : t # s => pc'[t] = pc[t] /\ pool'[t] = pool[t]
    BY <1>6 DEF Acquire, SlotsOK
  <2>2. s \in MayOpen /\ s \in MayOpen'
    BY <1>6 DEF Acquire, SlotsOK, MayOpen
  <2>3. \A p \in Pools :
           /\ s \notin Permits(p) /\ (s \in Permits(p)' <=> p = pool[s])
           /\ s \notin Busy(p) /\ s \notin Busy(p)'
    BY <1>6, SlotFacts, PoolsAssumption DEF Acquire, SlotsOK, SlotInv, Permits, Busy
  <2>4. /\ free' = [free EXCEPT ![pool[s]] = @ - 1] /\ free[pool[s]] > 0
        /\ idle' = idle
        /\ opened' = opened
        /\ issued' = issued
        /\ pool[s] \in Pools
    BY <1>6, SlotFacts DEF Acquire
  <2>5. \A p \in Pools : free'[p] + Cardinality(Permits(p))' = PoolSize
    BY <2>1, <2>3, <2>4, PermitSum
  <2>6. \A p \in Pools : Len(idle'[p]) + Cardinality(Busy(p))' <= PoolSize
    BY <2>1, <2>3, <2>4, Counting, Finite DEF CountInv, PoolsOK
  <2>7. (opened + Cardinality(MayOpen) <= issued)'
    BY <2>1, <2>2, <2>4, Counting, Finite DEF CountInv, BoundsOK, ConnectionsOK
  <2> QED
    BY <2>5, <2>6, <2>7 DEF CountInv
<1>7. ASSUME NEW s \in Slots, TakeIdle(s), idle[pool[s]] # <<>> PROVE CountInv'
  <2>1. \A t \in Slots : t # s => pc'[t] = pc[t] /\ pool'[t] = pool[t]
    BY <1>7 DEF TakeIdle, SlotsOK
  <2>2. s \in MayOpen /\ s \in MayOpen'
    BY <1>7 DEF TakeIdle, SlotsOK, MayOpen
  <2>3. \A p \in Pools :
           /\ s \in Permits(p) <=> s \in Permits(p)'
           /\ s \notin Busy(p) /\ (s \in Busy(p)' <=> p = pool[s])
    BY <1>7, SlotFacts, PoolsAssumption DEF TakeIdle, SlotsOK, SlotInv, Permits, Busy
  <2>4. /\ free' = free
        /\ idle[pool[s]] # <<>> /\ idle' = [idle EXCEPT ![pool[s]] = Tail(@)]
        /\ opened' = opened
        /\ issued' = issued
        /\ pool[s] \in Pools
    BY <1>7, SlotFacts DEF TakeIdle
  <2>5. \A p \in Pools : free'[p] + Cardinality(Permits(p))' = PoolSize
    BY <2>1, <2>3, <2>4, Counting, Finite DEF CountInv, PoolsOK
  <2>6. \A p \in Pools : Len(idle'[p]) + Cardinality(Busy(p))' <= PoolSize
    BY <2>1, <2>3, <2>4, IdleSum, ZenonT(40)
  <2>7. (opened + Cardinality(MayOpen) <= issued)'
    BY <2>1, <2>2, <2>4, Counting, Finite DEF CountInv, BoundsOK, ConnectionsOK
  <2> QED
    BY <2>5, <2>6, <2>7 DEF CountInv
<1>8. ASSUME NEW s \in Slots, TakeIdle(s), idle[pool[s]] = <<>> PROVE CountInv'
  <2>1. \A t \in Slots : t # s => pc'[t] = pc[t] /\ pool'[t] = pool[t]
    BY <1>8 DEF TakeIdle, SlotsOK
  <2>2. s \in MayOpen /\ s \in MayOpen'
    BY <1>8 DEF TakeIdle, SlotsOK, MayOpen
  <2>3. \A p \in Pools :
           /\ s \in Permits(p) <=> s \in Permits(p)'
           /\ s \notin Busy(p) /\ (s \in Busy(p)' <=> p = pool[s])
    BY <1>8, SlotFacts, PoolsAssumption DEF TakeIdle, SlotsOK, SlotInv, Permits, Busy
  <2>4. /\ free' = free
        /\ idle[pool[s]] = <<>> /\ idle' = idle
        /\ opened' = opened
        /\ issued' = issued
        /\ pool[s] \in Pools
    BY <1>8, SlotFacts DEF TakeIdle
  <2>5. \A p \in Pools : free'[p] + Cardinality(Permits(p))' = PoolSize
    BY <2>1, <2>3, <2>4, Counting, Finite DEF CountInv, PoolsOK
  <2>6. \A p \in Pools : Len(idle'[p]) + Cardinality(Busy(p))' <= PoolSize
    <3> SUFFICES ASSUME NEW p \in Pools
                 PROVE  Len(idle'[p]) + Cardinality(Busy(p))' <= PoolSize
      OBVIOUS
    <3>1. CASE p # pool[s]
      <4>1. Cardinality(Busy(p))' = Cardinality(Busy(p))
        BY <2>1, <2>3, <3>1, Counting
      <4> QED
        BY <2>4, <4>1 DEF CountInv
    <3>2. CASE p = pool[s]
      <4>1. Busy(p)' \in SUBSET Permits(p)' /\ IsFiniteSet(Permits(p)')
        BY FinitePrime DEF Permits, Busy
      <4>2. Cardinality(Busy(p)') <= Cardinality(Permits(p)')
        BY <4>1, FS_Subset
      <4>3. /\ Cardinality(Permits(p))' \in Nat /\ Cardinality(Busy(p))' \in Nat
            /\ free'[p] \in Nat /\ free'[p] + Cardinality(Permits(p))' = PoolSize
        BY <2>1, <2>4, <2>5, Counting DEF PoolsOK
      <4>4. Len(idle'[p]) = 0
        BY <2>4, <3>2
      <4> QED
        BY <4>2, <4>3, <4>4, PoolsAssumption
    <3> QED
      BY <3>1, <3>2
  <2>7. (opened + Cardinality(MayOpen) <= issued)'
    BY <2>1, <2>2, <2>4, Counting, Finite DEF CountInv, BoundsOK, ConnectionsOK
  <2> QED
    BY <2>5, <2>6, <2>7 DEF CountInv
<1>9. ASSUME NEW s \in Slots, Recycle(s), pc' = [pc EXCEPT ![s] = "query"] PROVE CountInv'
  <2>1. \A t \in Slots : t # s => pc'[t] = pc[t] /\ pool'[t] = pool[t]
    BY <1>9 DEF Recycle, SlotsOK
  <2>2. s \in MayOpen /\ s \notin MayOpen'
    BY <1>9 DEF Recycle, SlotsOK, MayOpen
  <2>3. \A p \in Pools :
           /\ s \in Permits(p) <=> s \in Permits(p)'
           /\ s \in Busy(p) <=> s \in Busy(p)'
    BY <1>9, SlotFacts, PoolsAssumption DEF Recycle, SlotsOK, SlotInv, Permits, Busy
  <2>4. /\ free' = free
        /\ idle' = idle
        /\ opened' = opened
        /\ issued' = issued
        /\ pool[s] \in Pools
    BY <1>9, SlotFacts DEF Recycle
  <2>5. \A p \in Pools : free'[p] + Cardinality(Permits(p))' = PoolSize
    BY <2>1, <2>3, <2>4, Counting, Finite DEF CountInv, PoolsOK
  <2>6. \A p \in Pools : Len(idle'[p]) + Cardinality(Busy(p))' <= PoolSize
    BY <2>1, <2>3, <2>4, Counting, Finite DEF CountInv, PoolsOK
  <2>7. (opened + Cardinality(MayOpen) <= issued)'
    BY <2>1, <2>2, <2>4, Counting, Finite DEF CountInv, BoundsOK, ConnectionsOK
  <2> QED
    BY <2>5, <2>6, <2>7 DEF CountInv
<1>10. ASSUME NEW s \in Slots, Recycle(s), pc' = [pc EXCEPT ![s] = "get"] PROVE CountInv'
  <2>1. \A t \in Slots : t # s => pc'[t] = pc[t] /\ pool'[t] = pool[t]
    BY <1>10 DEF Recycle, SlotsOK
  <2>2. s \in MayOpen /\ s \in MayOpen'
    BY <1>10 DEF Recycle, SlotsOK, MayOpen
  <2>3. \A p \in Pools :
           /\ s \in Permits(p) <=> s \in Permits(p)'
           /\ s \notin Busy(p)' /\ (s \in Busy(p) <=> p = pool[s])
    BY <1>10, SlotFacts, PoolsAssumption DEF Recycle, SlotsOK, SlotInv, Permits, Busy
  <2>4. /\ free' = free
        /\ idle' = idle
        /\ opened' = opened
        /\ issued' = issued
        /\ pool[s] \in Pools
    BY <1>10, SlotFacts DEF Recycle
  <2>5. \A p \in Pools : free'[p] + Cardinality(Permits(p))' = PoolSize
    BY <2>1, <2>3, <2>4, Counting, Finite DEF CountInv, PoolsOK
  <2>6. \A p \in Pools : Len(idle'[p]) + Cardinality(Busy(p))' <= PoolSize
    BY <2>1, <2>3, <2>4, IdleSum
  <2>7. (opened + Cardinality(MayOpen) <= issued)'
    BY <2>1, <2>2, <2>4, Counting, Finite DEF CountInv, BoundsOK, ConnectionsOK
  <2> QED
    BY <2>5, <2>6, <2>7 DEF CountInv
<1>11. ASSUME NEW s \in Slots, Open(s) PROVE CountInv'
  <2>1. \A t \in Slots : t # s => pc'[t] = pc[t] /\ pool'[t] = pool[t]
    BY <1>11 DEF Open, SlotsOK
  <2>2. s \in MayOpen /\ s \notin MayOpen'
    BY <1>11 DEF Open, SlotsOK, MayOpen
  <2>3. \A p \in Pools :
           /\ s \in Permits(p) <=> s \in Permits(p)'
           /\ s \in Busy(p) <=> s \in Busy(p)'
    BY <1>11, SlotFacts, PoolsAssumption DEF Open, SlotsOK, SlotInv, Permits, Busy
  <2>4. /\ free' = free
        /\ idle' = idle
        /\ opened' = opened + 1
        /\ issued' = issued
        /\ pool[s] \in Pools
    BY <1>11, SlotFacts DEF Open
  <2>5. \A p \in Pools : free'[p] + Cardinality(Permits(p))' = PoolSize
    BY <2>1, <2>3, <2>4, Counting, Finite DEF CountInv, PoolsOK
  <2>6. \A p \in Pools : Len(idle'[p]) + Cardinality(Busy(p))' <= PoolSize
    BY <2>1, <2>3, <2>4, Counting, Finite DEF CountInv, PoolsOK
  <2>7. (opened + Cardinality(MayOpen) <= issued)'
    BY <2>1, <2>2, <2>4, Counting, Finite DEF CountInv, BoundsOK, ConnectionsOK
  <2> QED
    BY <2>5, <2>6, <2>7 DEF CountInv
<1>12. ASSUME NEW s \in Slots, Query(s) PROVE CountInv'
  <2>1. \A t \in Slots : t # s => pc'[t] = pc[t] /\ pool'[t] = pool[t]
    BY <1>12 DEF Query, Finish, PutBack, Release, SlotsOK
  <2>2. s \notin MayOpen /\ s \notin MayOpen'
    BY <1>12 DEF Query, Finish, PutBack, Release, SlotsOK, MayOpen
  <2>3. \A p \in Pools :
           /\ s \notin Permits(p)' /\ (s \in Permits(p) <=> p = pool[s])
           /\ s \notin Busy(p)' /\ (s \in Busy(p) <=> p = pool[s])
    BY <1>12, SlotFacts, PoolsAssumption DEF Query, Finish, PutBack, Release, SlotsOK, SlotInv, Permits, Busy
  <2>4. /\ free' = [free EXCEPT ![pool[s]] = @ + 1]
        /\ idle' = [idle EXCEPT ![pool[s]] = Append(@, conn[s])]
        /\ opened' = opened
        /\ issued' = issued
        /\ pool[s] \in Pools
    BY <1>12, SlotFacts DEF Query, Finish, PutBack, Release
  <2>5. \A p \in Pools : free'[p] + Cardinality(Permits(p))' = PoolSize
    BY <2>1, <2>3, <2>4, PermitSum
  <2>6. \A p \in Pools : Len(idle'[p]) + Cardinality(Busy(p))' <= PoolSize
    BY <2>1, <2>3, <2>4, IdleSum
  <2>7. (opened + Cardinality(MayOpen) <= issued)'
    BY <2>1, <2>2, <2>4, Counting, Finite DEF CountInv, BoundsOK, ConnectionsOK
  <2> QED
    BY <2>5, <2>6, <2>7 DEF CountInv
<1>13. ASSUME NEW s \in Slots, Unavailable(s), pc[s] = "create" PROVE CountInv'
  <2>1. \A t \in Slots : t # s => pc'[t] = pc[t] /\ pool'[t] = pool[t]
    BY <1>13 DEF Unavailable, Finish, SlotsOK
  <2>2. s \in MayOpen /\ s \notin MayOpen'
    BY <1>13 DEF Unavailable, Finish, SlotsOK, MayOpen
  <2>3. \A p \in Pools :
           /\ s \notin Permits(p) /\ s \notin Permits(p)'
           /\ s \notin Busy(p) /\ s \notin Busy(p)'
    BY <1>13, SlotFacts, PoolsAssumption DEF Unavailable, Finish, SlotsOK, SlotInv, Permits, Busy
  <2>4. /\ free' = free
        /\ idle' = idle
        /\ opened' = opened
        /\ issued' = issued
    BY <1>13, SlotFacts DEF Unavailable, Finish
  <2>5. \A p \in Pools : free'[p] + Cardinality(Permits(p))' = PoolSize
    BY <2>1, <2>3, <2>4, Counting, Finite DEF CountInv, PoolsOK
  <2>6. \A p \in Pools : Len(idle'[p]) + Cardinality(Busy(p))' <= PoolSize
    BY <2>1, <2>3, <2>4, Counting, Finite DEF CountInv, PoolsOK
  <2>7. (opened + Cardinality(MayOpen) <= issued)'
    BY <2>1, <2>2, <2>4, Counting, Finite DEF CountInv, BoundsOK, ConnectionsOK
  <2> QED
    BY <2>5, <2>6, <2>7 DEF CountInv
<1>14. ASSUME NEW s \in Slots, Unavailable(s), pc[s] = "open" PROVE CountInv'
  <2>1. \A t \in Slots : t # s => pc'[t] = pc[t] /\ pool'[t] = pool[t]
    BY <1>14 DEF Unavailable, Finish, Release, SlotsOK
  <2>2. s \in MayOpen /\ s \notin MayOpen'
    BY <1>14 DEF Unavailable, Finish, Release, SlotsOK, MayOpen
  <2>3. \A p \in Pools :
           /\ s \notin Permits(p)' /\ (s \in Permits(p) <=> p = pool[s])
           /\ s \notin Busy(p)' /\ (s \in Busy(p) <=> p = pool[s])
    BY <1>14, SlotFacts, PoolsAssumption DEF Unavailable, Finish, Release, SlotsOK, SlotInv, Permits, Busy
  <2>4. /\ free' = [free EXCEPT ![pool[s]] = @ + 1]
        /\ idle' = idle
        /\ opened' = opened
        /\ issued' = issued
        /\ pool[s] \in Pools
    BY <1>14, SlotFacts DEF Unavailable, Finish, Release
  <2>5. \A p \in Pools : free'[p] + Cardinality(Permits(p))' = PoolSize
    BY <2>1, <2>3, <2>4, PermitSum
  <2>6. \A p \in Pools : Len(idle'[p]) + Cardinality(Busy(p))' <= PoolSize
    BY <2>1, <2>3, <2>4, IdleSum
  <2>7. (opened + Cardinality(MayOpen) <= issued)'
    BY <2>1, <2>2, <2>4, Counting, Finite DEF CountInv, BoundsOK, ConnectionsOK
  <2> QED
    BY <2>5, <2>6, <2>7 DEF CountInv
<1>15. ASSUME NEW s \in Slots, Cancel(s), pc[s] \in {"lookup", "insert", "acquire"} PROVE CountInv'
  <2>1. \A t \in Slots : t # s => pc'[t] = pc[t] /\ pool'[t] = pool[t]
    BY <1>15 DEF Cancel, Finish, HasPermit, SlotsOK
  <2>2. s \in MayOpen /\ s \notin MayOpen'
    BY <1>15 DEF Cancel, Finish, HasPermit, SlotsOK, MayOpen
  <2>3. \A p \in Pools :
           /\ s \notin Permits(p) /\ s \notin Permits(p)'
           /\ s \notin Busy(p) /\ s \notin Busy(p)'
    BY <1>15, SlotFacts, PoolsAssumption DEF Cancel, Finish, HasPermit, SlotsOK, SlotInv, Permits, Busy
  <2>4. /\ free' = free
        /\ idle' = idle
        /\ opened' = opened
        /\ issued' = issued
    BY <1>15, SlotFacts DEF Cancel, Finish, HasPermit
  <2>5. \A p \in Pools : free'[p] + Cardinality(Permits(p))' = PoolSize
    BY <2>1, <2>3, <2>4, Counting, Finite DEF CountInv, PoolsOK
  <2>6. \A p \in Pools : Len(idle'[p]) + Cardinality(Busy(p))' <= PoolSize
    BY <2>1, <2>3, <2>4, Counting, Finite DEF CountInv, PoolsOK
  <2>7. (opened + Cardinality(MayOpen) <= issued)'
    BY <2>1, <2>2, <2>4, Counting, Finite DEF CountInv, BoundsOK, ConnectionsOK
  <2> QED
    BY <2>5, <2>6, <2>7 DEF CountInv
<1>16. ASSUME NEW s \in Slots, Cancel(s), pc[s] \in {"recycle", "open"} PROVE CountInv'
  <2>1. \A t \in Slots : t # s => pc'[t] = pc[t] /\ pool'[t] = pool[t]
    BY <1>16 DEF Cancel, Finish, HasPermit, Release, SlotsOK
  <2>2. s \in MayOpen /\ s \notin MayOpen'
    BY <1>16 DEF Cancel, Finish, HasPermit, Release, SlotsOK, MayOpen
  <2>3. \A p \in Pools :
           /\ s \notin Permits(p)' /\ (s \in Permits(p) <=> p = pool[s])
           /\ s \notin Busy(p)' /\ (s \in Busy(p) <=> p = pool[s])
    BY <1>16, SlotFacts, PoolsAssumption DEF Cancel, Finish, HasPermit, Release, SlotsOK, SlotInv, Permits, Busy
  <2>4. /\ free' = [free EXCEPT ![pool[s]] = @ + 1]
        /\ idle' = idle
        /\ opened' = opened
        /\ issued' = issued
        /\ pool[s] \in Pools
    BY <1>16, SlotFacts DEF Cancel, Finish, HasPermit, Release
  <2>5. \A p \in Pools : free'[p] + Cardinality(Permits(p))' = PoolSize
    BY <2>1, <2>3, <2>4, PermitSum
  <2>6. \A p \in Pools : Len(idle'[p]) + Cardinality(Busy(p))' <= PoolSize
    BY <2>1, <2>3, <2>4, IdleSum
  <2>7. (opened + Cardinality(MayOpen) <= issued)'
    BY <2>1, <2>2, <2>4, Counting, Finite DEF CountInv, BoundsOK, ConnectionsOK
  <2> QED
    BY <2>5, <2>6, <2>7 DEF CountInv
<1>17. ASSUME NEW s \in Slots, Cancel(s), pc[s] = "query" PROVE CountInv'
  <2>1. \A t \in Slots : t # s => pc'[t] = pc[t] /\ pool'[t] = pool[t]
    BY <1>17 DEF Cancel, Finish, HasPermit, PutBack, Release, SlotsOK
  <2>2. s \notin MayOpen /\ s \notin MayOpen'
    BY <1>17 DEF Cancel, Finish, HasPermit, PutBack, Release, SlotsOK, MayOpen
  <2>3. \A p \in Pools :
           /\ s \notin Permits(p)' /\ (s \in Permits(p) <=> p = pool[s])
           /\ s \notin Busy(p)' /\ (s \in Busy(p) <=> p = pool[s])
    BY <1>17, SlotFacts, PoolsAssumption DEF Cancel, Finish, HasPermit, PutBack, Release, SlotsOK, SlotInv, Permits, Busy
  <2>4. /\ free' = [free EXCEPT ![pool[s]] = @ + 1]
        /\ idle' = [idle EXCEPT ![pool[s]] = Append(@, conn[s])]
        /\ opened' = opened
        /\ issued' = issued
        /\ pool[s] \in Pools
    BY <1>17, SlotFacts DEF Cancel, Finish, HasPermit, PutBack, Release
  <2>5. \A p \in Pools : free'[p] + Cardinality(Permits(p))' = PoolSize
    BY <2>1, <2>3, <2>4, PermitSum
  <2>6. \A p \in Pools : Len(idle'[p]) + Cardinality(Busy(p))' <= PoolSize
    BY <2>1, <2>3, <2>4, IdleSum
  <2>7. (opened + Cardinality(MayOpen) <= issued)'
    BY <2>1, <2>2, <2>4, Counting, Finite DEF CountInv, BoundsOK, ConnectionsOK
  <2> QED
    BY <2>5, <2>6, <2>7 DEF CountInv
<1>18. CASE \/ \E c \in Connections : Break(c)
            \/ UNCHANGED vars
  BY <1>18 DEF Break, vars, CountInv, Permits, Busy, MayOpen
<1>19. \A s \in Slots : TakeIdle(s) => CountInv'
  BY <1>7, <1>8
<1>20. \A s \in Slots : Recycle(s) => CountInv'
  BY <1>9, <1>10 DEF Recycle
<1>21. \A s \in Slots : Unavailable(s) => CountInv'
  BY <1>13, <1>14 DEF Unavailable
<1>22. \A s \in Slots : Cancel(s) => CountInv'
  BY <1>15, <1>16, <1>17 DEF Cancel
<1> QED
  BY <1>1, <1>2, <1>3, <1>4, <1>5, <1>6, <1>11, <1>12, <1>18, <1>19, <1>20,
     <1>21, <1>22, HandlerStep DEF Next

----------------------------------------------------------------------------
(* Connections                                                             *)

(* Exclusive, element by element.                                          *)
Apart ==
    /\ \A s, t \in Slots : conn[s] = conn[t] /\ conn[s] # None => s = t
    /\ \A p, q \in Pools : \A i \in DOMAIN idle[p], j \in DOMAIN idle[q] :
          idle[p][i] = idle[q][j] => p = q /\ i = j
    /\ \A p \in Pools : \A i \in DOMAIN idle[p], s \in Slots : conn[s] # idle[p][i]

LEMMA ExclusiveMeans == TypeOK => (Exclusive <=> Apart)
<1> SUFFICES ASSUME TypeOK PROVE Exclusive <=> Apart
  OBVIOUS
<1>1. \A p \in Pools : \A i \in DOMAIN idle[p] : idle[p][i] # None
  <2>1. \A p \in Pools : idle[p] \in Seq(Connections)
    BY DEF TypeOK, PoolsOK
  <2>2. None \notin Connections
    BY PoolsAssumption DEF Connections
  <2> QED
    BY <2>1, <2>2
<1>2. \A p \in Pools : ToSet(idle[p]) \cap Held = {} <=>
         \A i \in DOMAIN idle[p], s \in Slots : conn[s] # idle[p][i]
  BY <1>1 DEF ToSet, Held
<1> QED
  BY <1>2 DEF Exclusive, Apart

(* A connection changes hands: it is taken, put back, opened or dropped.   *)
LEMMA TakeApart ==
    ASSUME TypeOK, TypeOK', Apart, NEW s \in Slots, NEW q \in Pools,
           idle[q] # <<>>, idle' = [idle EXCEPT ![q] = Tail(@)],
           conn' = [conn EXCEPT ![s] = Head(idle[q])]
    PROVE  Apart'
<1>1. /\ \A x, y \in Slots : conn[x] = conn[y] /\ conn[x] # None => x = y
      /\ \A p, r \in Pools : \A i \in DOMAIN idle[p], j \in DOMAIN idle[r] :
            idle[p][i] = idle[r][j] => p = r /\ i = j
      /\ \A p \in Pools : \A i \in DOMAIN idle[p], x \in Slots : conn[x] # idle[p][i]
  BY DEF Apart
<1>2. /\ idle[q] \in Seq(Connections) /\ idle'[q] = Tail(idle[q])
      /\ \A p \in Pools : p # q => idle'[p] = idle[p]
      /\ conn'[s] = Head(idle[q]) /\ \A x \in Slots : x # s => conn'[x] = conn[x]
  BY DEF TypeOK, PoolsOK, SlotsOK
<1>3. /\ 1 \in DOMAIN idle[q] /\ conn'[s] = idle[q][1]
      /\ \A i \in DOMAIN idle'[q] :
            i + 1 \in DOMAIN idle[q] /\ idle'[q][i] = idle[q][i + 1]
  <2>1. /\ 1 \in DOMAIN idle[q] /\ Head(idle[q]) = idle[q][1]
        /\ \A i \in DOMAIN Tail(idle[q]) :
              i + 1 \in DOMAIN idle[q] /\ Tail(idle[q])[i] = idle[q][i + 1]
    BY <1>2, HeadOf
  <2> QED
    BY <1>2, <2>1
<1>4. \A x, y \in Slots : conn'[x] = conn'[y] /\ conn'[x] # None => x = y
  BY <1>1, <1>2, <1>3
<1>5. ASSUME NEW p \in Pools, NEW i \in DOMAIN idle'[p]
      PROVE  /\ p = q => i \in Nat /\ i + 1 # 1
             /\ \E k \in DOMAIN idle[p] :
                   /\ idle'[p][i] = idle[p][k]
                   /\ p = q => k = i + 1
                   /\ p # q => k = i
  <2>1. idle'[p] \in Seq(Connections)
    BY DEF TypeOK, PoolsOK
  <2>2. i \in Nat \ {0}
    BY <2>1
  <2>3. CASE p = q
    BY <1>3, <2>2, <2>3
  <2>4. CASE p # q
    BY <1>2, <2>4
  <2> QED
    BY <2>3, <2>4
<1>6. ASSUME NEW p \in Pools, NEW r \in Pools, NEW i \in DOMAIN idle'[p],
             NEW j \in DOMAIN idle'[r], idle'[p][i] = idle'[r][j]
      PROVE  p = r /\ i = j
  <2>1. PICK k \in DOMAIN idle[p] : /\ idle'[p][i] = idle[p][k]
                                    /\ p = q => k = i + 1 /\ i \in Nat
                                    /\ p # q => k = i
    BY <1>5
  <2>2. PICK l \in DOMAIN idle[r] : /\ idle'[r][j] = idle[r][l]
                                    /\ r = q => l = j + 1 /\ j \in Nat
                                    /\ r # q => l = j
    BY <1>5
  <2>3. p = r /\ k = l
    BY <1>1, <1>6, <2>1, <2>2
  <2> QED
    BY <2>1, <2>2, <2>3
<1>7. ASSUME NEW p \in Pools, NEW i \in DOMAIN idle'[p], NEW x \in Slots
      PROVE  conn'[x] # idle'[p][i]
  <2>1. PICK k \in DOMAIN idle[p] : /\ idle'[p][i] = idle[p][k]
                                    /\ p = q => k # 1
    BY <1>5
  <2> QED
    BY <1>1, <1>2, <1>3, <2>1
<1> QED
  BY <1>4, <1>6, <1>7 DEF Apart

LEMMA PutBackApart ==
    ASSUME TypeOK, Apart, NEW s \in Slots, NEW q \in Pools, conn[s] \in Connections,
           idle' = [idle EXCEPT ![q] = Append(@, conn[s])],
           conn' = [conn EXCEPT ![s] = None]
    PROVE  Apart'
<1>1. /\ idle[q] \in Seq(Connections) /\ idle'[q] = Append(idle[q], conn[s])
      /\ \A p \in Pools : p # q => idle'[p] = idle[p]
      /\ conn'[s] = None /\ \A x \in Slots : x # s => conn'[x] = conn[x]
  BY DEF TypeOK, PoolsOK, SlotsOK
<1>2. \A i \in DOMAIN idle'[q] :
         \/ i \in DOMAIN idle[q] /\ idle'[q][i] = idle[q][i]
         \/ i = Len(idle[q]) + 1 /\ i \notin DOMAIN idle[q] /\ idle'[q][i] = conn[s]
  BY <1>1
<1>3. \A x, y \in Slots : conn'[x] = conn'[y] /\ conn'[x] # None => x = y
  BY <1>1 DEF Apart
<1>4. \A p, r \in Pools : \A i \in DOMAIN idle'[p], j \in DOMAIN idle'[r] :
         idle'[p][i] = idle'[r][j] => p = r /\ i = j
  BY <1>1, <1>2 DEF Apart
<1>5. conn[s] # None
  BY PoolsAssumption DEF Connections
<1>6. \A p \in Pools : \A i \in DOMAIN idle[p] : idle[p][i] # None
  BY PoolsAssumption DEF TypeOK, PoolsOK, Connections
<1>7. \A p \in Pools : \A i \in DOMAIN idle'[p], x \in Slots : conn'[x] # idle'[p][i]
  BY <1>1, <1>2, <1>5, <1>6 DEF Apart
<1> QED
  BY <1>3, <1>4, <1>7 DEF Apart

LEMMA DropApart ==
    ASSUME TypeOK, Apart, NEW s \in Slots, idle' = idle,
           conn' = [conn EXCEPT ![s] = None]
    PROVE  Apart'
<1>1. conn'[s] = None /\ \A x \in Slots : x # s => conn'[x] = conn[x]
  BY DEF TypeOK, SlotsOK
<1>2. \A p \in Pools : \A i \in DOMAIN idle[p] : idle[p][i] # None
  BY PoolsAssumption DEF TypeOK, PoolsOK, Connections
<1> QED
  BY <1>1, <1>2 DEF Apart

(* A new connection is none of the connections that were opened before.    *)
LEMMA OpenApart ==
    ASSUME TypeOK, SlotInv, DatabaseInv, Apart, NEW s \in Slots, idle' = idle,
           conn' = [conn EXCEPT ![s] = opened + 1]
    PROVE  Apart'
<1>1. conn'[s] = opened + 1 /\ \A x \in Slots : x # s => conn'[x] = conn[x]
  BY DEF TypeOK, SlotsOK
<1>2. opened \in Nat
  BY DEF TypeOK, ConnectionsOK
<1>3. \A p \in Pools : \A i \in DOMAIN idle[p] : idle[p][i] # opened + 1
  BY <1>2 DEF DatabaseInv
<1>4. \A x \in Slots : conn[x] # opened + 1
  <2>1. opened + 1 # None
    BY <1>2, PoolsAssumption
  <2>2. \A x \in Slots : conn[x] = None \/ conn[x] \in 1 .. opened
    BY DEF SlotInv
  <2> QED
    BY <1>2, <2>1, <2>2
<1> QED
  BY <1>1, <1>3, <1>4 DEF Apart

(* No two requests ever share a connection.                                *)
LEMMA ExclusiveStep == IInv /\ [Next]_vars => Exclusive'
<1> SUFFICES ASSUME IInv, [Next]_vars PROVE Exclusive'
  OBVIOUS
<1>0. TypeOK' /\ Apart /\ (TypeOK' => (Exclusive' <=> Apart'))
  <2>1. TypeOK' => (Exclusive' <=> Apart')
    BY ExclusiveMeans, PTL
  <2> QED
    BY <2>1, TypeStep, ExclusiveMeans DEF IInv
<1> SUFFICES Apart'
  BY <1>0
<1> USE DEF IInv, pools, connections, slots
<1>1. ASSUME UNCHANGED <<idle, conn>> PROVE Apart'
  BY <1>0, <1>1 DEF Apart
<1>2. ASSUME NEW s \in Slots, TakeIdle(s) PROVE Apart'
  <2>1. pool[s] \in Pools
    BY <1>2, SlotFacts DEF TakeIdle
  <2> QED
    BY <1>0, <1>1, <1>2, <2>1, TakeApart DEF TakeIdle
<1>3. ASSUME NEW s \in Slots, Recycle(s) PROVE Apart'
  BY <1>0, <1>1, <1>3, DropApart DEF Recycle
<1>4. ASSUME NEW s \in Slots, Open(s) PROVE Apart'
  BY <1>0, <1>4, OpenApart DEF Open
<1>5. ASSUME NEW s \in Slots, pc[s] = "query", PutBack(s) PROVE Apart'
  BY <1>0, <1>5, SlotFacts, PutBackApart DEF PutBack
<1>6. ASSUME NEW s \in Slots, Query(s) PROVE Apart'
  BY <1>5, <1>6 DEF Query
<1>7. ASSUME NEW s \in Slots, Cancel(s) PROVE Apart'
  BY <1>0, <1>5, <1>7, DropApart DEF Cancel
<1> QED
  BY <1>1, <1>2, <1>3, <1>4, <1>6, <1>7, HandlerStep
     DEF Next, vars, Refused, Enter, LookUp, CreatePool, InsertPool, Acquire,
     Unavailable, Break

(* Redis runs a command, or does not: a connection that no client has      *)
(* moved stays in its database.                                            *)
LEMMA RunStays ==
    ASSUME TypeOK, SlotInv, NEW s \in Slots, pc[s] = "query",
           Run(s) \/ UNCHANGED <<connDb, strayed>>
    PROVE  \A c \in Connections :
              c \notin strayed' => c \notin strayed /\ connDb'[c] = connDb[c]
<1>1. conn[s] \in Connections
  BY SlotFacts
<1> QED
  BY <1>1 DEF Run, TypeOK, ConnectionsOK

(* A connection stays in the database of its pool until a client moves it. *)
LEMMA DatabaseStep == IInv /\ [Next]_vars => DatabaseInv'
<1> SUFFICES ASSUME IInv, [Next]_vars PROVE DatabaseInv'
  OBVIOUS
<1> USE DEF IInv, pools, connections, slots
<1>1. ASSUME UNCHANGED <<idle, connections, conn, req>> PROVE DatabaseInv'
  BY <1>1 DEF DatabaseInv
<1>2. ASSUME NEW s \in Slots, conn' = [conn EXCEPT ![s] = None],
             \A t \in Slots : t # s => req'[t] = req[t],
             UNCHANGED <<idle, connDb, opened, strayed>>
      PROVE  DatabaseInv'
  BY <1>2 DEF DatabaseInv, TypeOK, SlotsOK
<1>3. ASSUME NEW s \in Slots, conn[s] = None, UNCHANGED <<idle, connections, conn>>,
             \A t \in Slots : t # s => req'[t] = req[t]
      PROVE  DatabaseInv'
  BY <1>3 DEF DatabaseInv
<1>4. ASSUME NEW s \in Slots, NEW r \in Request, Enter(s, r) PROVE DatabaseInv'
  <2>1. conn[s] = None /\ \A t \in Slots : t # s => req'[t] = req[t]
    BY <1>4 DEF Enter, Issue, SlotInv, TypeOK, SlotsOK
  <2> QED
    BY <1>3, <1>4, <2>1 DEF Enter
<1>5. ASSUME NEW s \in Slots, TakeIdle(s) PROVE DatabaseInv'
  <2>1. pool[s] \in Pools /\ pool[s][1] = req[s].db
    BY <1>5, PoolOf DEF TakeIdle
  <2>2. CASE idle[pool[s]] # <<>>
    <3> DEFINE q == pool[s]
    <3>1. /\ idle[q] \in Seq(Connections) /\ idle' = [idle EXCEPT ![q] = Tail(@)]
          /\ conn' = [conn EXCEPT ![s] = Head(idle[q])]
          /\ UNCHANGED <<connDb, opened, strayed, req>>
      BY <1>5, <2>1, <2>2 DEF TakeIdle, TypeOK, PoolsOK
    <3>2. /\ 1 \in DOMAIN idle[q] /\ Head(idle[q]) = idle[q][1]
          /\ \A i \in DOMAIN Tail(idle[q]) :
                i + 1 \in DOMAIN idle[q] /\ Tail(idle[q])[i] = idle[q][i + 1]
      BY <2>2, <3>1, HeadOf
    <3>3. /\ idle'[q] = Tail(idle[q]) /\ \A p \in Pools : p # q => idle'[p] = idle[p]
          /\ conn'[s] = idle[q][1] /\ \A t \in Slots : t # s => conn'[t] = conn[t]
      BY <2>1, <3>1, <3>2 DEF TypeOK, PoolsOK, SlotsOK
    <3> QED
      BY <2>1, <3>1, <3>2, <3>3 DEF DatabaseInv
  <2>3. CASE idle[pool[s]] = <<>>
    BY <1>1, <1>5, <2>3 DEF TakeIdle
  <2> QED
    BY <2>2, <2>3
<1>6. ASSUME NEW s \in Slots, Recycle(s) PROVE DatabaseInv'
  BY <1>1, <1>2, <1>6 DEF Recycle
<1>7. ASSUME NEW s \in Slots, Open(s) PROVE DatabaseInv'
  <2>1. /\ opened \in Nat /\ opened + 1 \in Connections
        /\ configured[pool[s]] = req[s].db
    BY <1>7, PoolOf, RoomToOpen DEF Open, TypeOK, ConnectionsOK
  <2>2. /\ connDb'[opened + 1] = req[s].db /\ conn'[s] = opened + 1
        /\ \A c \in Connections : c # opened + 1 => connDb'[c] = connDb[c]
        /\ \A t \in Slots : t # s => conn'[t] = conn[t]
        /\ UNCHANGED <<idle, strayed, req>> /\ opened' = opened + 1
    BY <1>7, <2>1 DEF Open, TypeOK, ConnectionsOK, SlotsOK
  <2>3. 1 .. opened \subseteq Connections
    BY <2>1, PoolsAssumption DEF Connections
  <2>4. ASSUME NEW p \in Pools, NEW i \in DOMAIN idle[p]
        PROVE  /\ idle[p][i] \in 1 .. opened'
               /\ idle[p][i] \notin strayed => connDb'[idle[p][i]] = p[1]
    <3>1. /\ idle[p][i] \in 1 .. opened
          /\ idle[p][i] \notin strayed => connDb[idle[p][i]] = p[1]
      BY DEF DatabaseInv
    <3>2. idle[p][i] # opened + 1 /\ idle[p][i] \in Connections
      BY <2>1, <2>3, <3>1
    <3> QED
      BY <2>1, <2>2, <3>1, <3>2
  <2>5. ASSUME NEW t \in Slots, t # s, conn[t] # None, conn[t] \notin strayed
        PROVE  connDb'[conn[t]] = req[t].db
    <3>1. conn[t] \in 1 .. opened
      BY <2>5 DEF SlotInv
    <3>2. conn[t] # opened + 1 /\ conn[t] \in Connections
      BY <2>1, <2>3, <3>1
    <3> QED
      BY <2>2, <2>5, <3>2 DEF DatabaseInv
  <2> QED
    BY <2>2, <2>4, <2>5 DEF DatabaseInv
<1>8. ASSUME NEW s \in Slots, pc[s] = "query", PutBack(s), opened' = opened,
             Run(s) \/ UNCHANGED <<connDb, strayed>>,
             \A t \in Slots : t # s => req'[t] = req[t]
      PROVE  DatabaseInv'
  <2>1. \A c \in Connections :
           c \notin strayed' => c \notin strayed /\ connDb'[c] = connDb[c]
    BY <1>8, RunStays
  <2>2. /\ pool[s] \in Pools /\ pool[s][1] = req[s].db
        /\ conn[s] \in 1 .. opened /\ conn[s] \in Connections
    BY <1>8, PoolOf, SlotFacts, PoolsAssumption DEF Connections
  <2>3. /\ idle[pool[s]] \in Seq(Connections)
        /\ idle'[pool[s]] = Append(idle[pool[s]], conn[s])
        /\ \A p \in Pools : p # pool[s] => idle'[p] = idle[p]
        /\ conn'[s] = None /\ \A t \in Slots : t # s => conn'[t] = conn[t]
    BY <1>8, <2>2 DEF PutBack, TypeOK, PoolsOK, SlotsOK
  <2>4. \A i \in DOMAIN idle'[pool[s]] :
           \/ i \in DOMAIN idle[pool[s]] /\ idle'[pool[s]][i] = idle[pool[s]][i]
           \/ idle'[pool[s]][i] = conn[s]
    BY <2>3
  <2>5. ASSUME NEW p \in Pools, NEW i \in DOMAIN idle'[p]
        PROVE  /\ idle'[p][i] \in 1 .. opened
               /\ idle'[p][i] \notin strayed' => connDb'[idle'[p][i]] = p[1]
    <3>1. CASE idle'[p][i] = conn[s] /\ p = pool[s]
      <4>1. conn[s] # None
        BY <2>2, PoolsAssumption DEF Connections
      <4> QED
        BY <2>1, <2>2, <3>1, <4>1 DEF DatabaseInv
    <3>2. CASE i \in DOMAIN idle[p] /\ idle'[p][i] = idle[p][i]
      <4>1. idle[p][i] \in Connections
        BY <3>2 DEF TypeOK, PoolsOK
      <4> QED
        BY <2>1, <3>2, <4>1 DEF DatabaseInv
    <3> QED
      BY <2>3, <2>4, <3>1, <3>2
  <2>6. ASSUME NEW t \in Slots, conn'[t] # None, conn'[t] \notin strayed'
        PROVE  connDb'[conn'[t]] = req'[t].db
    <3>1. t # s /\ conn'[t] = conn[t] /\ req'[t] = req[t] /\ conn[t] \in Connections
      BY <1>8, <2>3, <2>6 DEF TypeOK, SlotsOK
    <3> QED
      BY <2>1, <2>6, <3>1 DEF DatabaseInv
  <2> QED
    BY <1>8, <2>5, <2>6 DEF DatabaseInv
<1>9. ASSUME NEW s \in Slots, Query(s) PROVE DatabaseInv'
  <2>1. \A t \in Slots : t # s => req'[t] = req[t]
    BY <1>9 DEF Query, Finish, TypeOK, SlotsOK
  <2> QED
    BY <1>8, <1>9, <2>1 DEF Query
<1>10. ASSUME NEW s \in Slots, Cancel(s) PROVE DatabaseInv'
  <2>1. \A t \in Slots : t # s => req'[t] = req[t]
    BY <1>10 DEF Cancel, Finish, TypeOK, SlotsOK
  <2> QED
    BY <1>2, <1>8, <1>10, <2>1 DEF Cancel
<1>11. ASSUME NEW s \in Slots, Unavailable(s) PROVE DatabaseInv'
  <2>1. conn[s] = None /\ \A t \in Slots : t # s => req'[t] = req[t]
    BY <1>11 DEF Unavailable, Finish, SlotInv, TypeOK, SlotsOK
  <2> QED
    BY <1>3, <1>11, <2>1 DEF Unavailable
<1>12. ASSUME NEW c \in Connections, Break(c) PROVE DatabaseInv'
  BY <1>12 DEF Break, DatabaseInv
<1> QED
  BY <1>1, <1>4, <1>5, <1>6, <1>7, <1>9, <1>10, <1>11, <1>12, HandlerStep
     DEF Next, vars, Refused, LookUp, UsePool, CreatePool, InsertPool, Acquire

(* A connection that failed a command is broken, and stays so.             *)
LEMMA FailStep == IInv /\ [Next]_vars => FailInv'
<1> SUFFICES ASSUME IInv, [Next]_vars PROVE FailInv'
  OBVIOUS
<1> USE DEF IInv, FailInv, BrokenServesOnce, pools, connections, slots, Go,
        TypeOK, SlotsOK
<1>1. ASSUME NEW s \in Slots, Issue(s), Refused PROVE FailInv'
  BY <1>1 DEF Refused
<1>2. ASSUME NEW s \in Slots, NEW r \in Request, Enter(s, r) PROVE FailInv'
  BY <1>2 DEF Enter
<1>3. ASSUME NEW s \in Slots, LookUp(s) PROVE FailInv'
  BY <1>3 DEF LookUp, UsePool
<1>4. ASSUME NEW s \in Slots, CreatePool(s) PROVE FailInv'
  BY <1>4 DEF CreatePool
<1>5. ASSUME NEW s \in Slots, InsertPool(s) PROVE FailInv'
  BY <1>5 DEF InsertPool, UsePool
<1>6. ASSUME NEW s \in Slots, Acquire(s) PROVE FailInv'
  BY <1>6 DEF Acquire
<1>7. ASSUME NEW s \in Slots, TakeIdle(s) PROVE FailInv'
  BY <1>7 DEF TakeIdle
<1>8. ASSUME NEW s \in Slots, Recycle(s) PROVE FailInv'
  BY <1>8 DEF Recycle
<1>9. ASSUME NEW s \in Slots, Open(s) PROVE FailInv'
  <2>1. opened + 1 \notin failed
    BY DEF ConnectionsOK
  <2> QED
    BY <1>9, <2>1 DEF Open
<1>10. ASSUME NEW s \in Slots, Query(s) PROVE FailInv'
  <2>1. /\ up' = up /\ failed' \cap up = {} /\ failed' \subseteq failed \cup {conn[s]}
        /\ pc' = [pc EXCEPT ![s] = "idle"] /\ conn' = [conn EXCEPT ![s] = None]
    BY <1>10 DEF Query, Finish, PutBack
  <2>2. ASSUME NEW t \in Slots, pc'[t] = "query" PROVE conn'[t] \notin failed'
    <3>1. t # s /\ pc[t] = "query" /\ conn'[t] = conn[t] /\ pc[s] = "query"
      BY <1>10, <2>1, <2>2 DEF Query
    <3>2. conn[t] # conn[s]
      <4>1. conn[t] # None
        BY <3>1, SlotFacts, PoolsAssumption DEF Connections
      <4> QED
        BY <3>1, <4>1 DEF Exclusive
    <3> QED
      BY <2>1, <3>1, <3>2
  <2> QED
    BY <2>1, <2>2
<1>11. ASSUME NEW s \in Slots, Unavailable(s) PROVE FailInv'
  BY <1>11 DEF Unavailable, Finish
<1>12. ASSUME NEW s \in Slots, Cancel(s) PROVE FailInv'
  BY <1>12 DEF Cancel, Finish, PutBack
<1>13. ASSUME NEW c \in Connections, Break(c) PROVE FailInv'
  BY <1>13 DEF Break
<1>14. CASE UNCHANGED vars
  BY <1>14 DEF vars
<1> QED
  BY <1>1, <1>2, <1>3, <1>4, <1>5, <1>6, <1>7, <1>8, <1>9, <1>10, <1>11,
     <1>12, <1>13, <1>14, HandlerStep DEF Next

----------------------------------------------------------------------------
(* The theorems                                                            *)

LEMMA InitIInv == Init => IInv
<1> SUFFICES ASSUME Init PROVE IInv
  OBVIOUS
<1> USE PoolsAssumption DEF Init
<1>1. TypeOK
  BY DefaultPoolType DEF TypeOK, PoolsOK, ConnectionsOK, SlotsOK, BoundsOK, Pcs
<1>2. SlotInv
  BY DEF SlotInv
<1>3. RegistryInv
  BY DefaultPoolType DEF RegistryInv, Main
<1>4. CountInv
  <2>1. MayOpen = {} /\ \A p \in Pools : Permits(p) = {} /\ Busy(p) = {}
    BY DEF MayOpen, Permits, Busy
  <2>2. /\ Cardinality(MayOpen) = 0
        /\ \A p \in Pools : Cardinality(Permits(p)) = 0 /\ Cardinality(Busy(p)) = 0
    BY <2>1, FS_EmptySet, ZenonT(40)
  <2>3. \A p \in Pools : free[p] = PoolSize /\ Len(idle[p]) = 0
    OBVIOUS
  <2> QED
    BY <2>2, <2>3 DEF CountInv
<1>5. DatabaseInv
  BY DEF DatabaseInv
<1>6. Exclusive
  BY <1>1, ExclusiveMeans DEF Apart
<1>7. FailInv
  BY DEF FailInv, BrokenServesOnce
<1> QED
  BY <1>1, <1>2, <1>3, <1>4, <1>5, <1>6, <1>7 DEF IInv

(* Handlers, permits, connections and the registry of databases agree in    *)
(* every state: what pool_for_database, Pool::get and a dropped request     *)
(* leave behind is always accounted for.                                    *)
THEOREM Inductive == Spec => []IInv
<1>1. IInv /\ [Next]_vars => IInv'
  BY TypeStep, SlotStep, RegistryStep, CountStep, ExclusiveStep, DatabaseStep,
     FailStep DEF IInv
<1> QED
  BY <1>1, InitIInv, PTL DEF Spec

(* The connections of a database are the connections of its one pool.      *)
LEMMA OpenInMain ==
    ASSUME IInv, NEW d \in Databases
    PROVE  \/ OpenIn(d) = {}
           \/ Main(d) \in Pools /\ OpenIn(d) = InPool(Main(d))
<1>1. ASSUME NEW p \in Pools, p[1] = d, p # Main(d) PROVE InPool(p) = {}
  <2>1. idle[p] = <<>>
    BY <1>1 DEF IInv, RegistryInv
  <2>2. ASSUME NEW s \in Slots, pool[s] = p PROVE FALSE
    <3>1. pc[s] \in {"acquire", "get", "recycle", "open", "query"}
      BY <2>2, PoolsAssumption, ZenonT(40) DEF IInv, TypeOK, SlotsOK, Pcs, SlotInv, Pools
    <3> QED
      BY <1>1, <2>2, <3>1, PoolOf DEF IInv
  <2> QED
    BY <2>1, <2>2 DEF InPool, ToSet
<1>2. Main(d) # None => Main(d) \in Pools /\ Main(d)[1] = d
  BY DEF IInv, RegistryInv
<1>3. None \notin Pools
  BY PoolsAssumption DEF Pools
<1> QED
  BY <1>1, <1>2, <1>3 DEF OpenIn

(* A queue has no more elements than its length.                           *)
LEMMA QueueSize ==
    ASSUME NEW S, NEW q \in Seq(S)
    PROVE  IsFiniteSet(ToSet(q)) /\ Cardinality(ToSet(q)) <= Len(q)
<1>1. q \in Surjection(1 .. Len(q), ToSet(q))
  BY DEF Surjection, ToSet
<1>2. IsFiniteSet(1 .. Len(q)) /\ Cardinality(1 .. Len(q)) = Len(q)
  <2>1. Len(q) \in Nat /\ Len(q) \in Int /\ 1 \in Int
    OBVIOUS
  <2> QED
    BY <2>1, FS_Interval, SMTT(30)
<1> QED
  BY <1>1, <1>2, FS_Surjection

(* A pool has as many connections as are idle in it or with its handlers.  *)
LEMMA PoolSizeHolds ==
    ASSUME IInv, NEW p \in Pools
    PROVE  Cardinality(InPool(p)) <= PoolSize
<1> DEFINE I == ToSet(idle[p])
           B == Busy(p)
           H == {conn[s] : s \in B}
           C == {conn[s] : s \in {t \in Slots : pool[t] = p}} \ {None}
<1>1. IsFiniteSet(I) /\ Cardinality(I) <= Len(idle[p]) /\ Len(idle[p]) \in Nat
  <2>1. idle[p] \in Seq(Connections)
    BY DEF IInv, TypeOK, PoolsOK
  <2> QED
    BY <2>1, QueueSize
<1>2. C \in SUBSET H
  BY DEF IInv, SlotInv, Busy
<1>3. IsFiniteSet(H) /\ Cardinality(H) <= Cardinality(B)
  <2>1. [s \in B |-> conn[s]] \in Surjection(B, H)
    BY DEF Surjection
  <2> HIDE DEF H
  <2> QED
    BY <2>1, Finite, FS_Surjection
<1>4. IsFiniteSet(C) /\ Cardinality(C) <= Cardinality(H)
  <2> HIDE DEF C, H
  <2> QED
    BY <1>2, <1>3, FS_Subset
<1>5. InPool(p) = I \cup C
  BY DEF InPool
<1>6. Cardinality(B) \in Nat /\ Len(idle[p]) + Cardinality(B) <= PoolSize
  BY Finite DEF IInv, CountInv
<1> HIDE DEF I, B, H, C
<1>7. /\ Cardinality(I) \in Nat /\ Cardinality(C) \in Nat /\ Cardinality(H) \in Nat
      /\ Cardinality(I \cap C) \in Nat
  BY <1>1, <1>3, <1>4, FS_CardinalityType, FS_Intersection
<1>8. Cardinality(I \cup C) = Cardinality(I) + Cardinality(C) - Cardinality(I \cap C)
  BY <1>1, <1>4, FS_Union
<1> QED
  BY <1>1, <1>3, <1>4, <1>5, <1>6, <1>7, <1>8, PoolsAssumption

(* For any number of handlers, databases and failures and for any size of  *)
(* the pools: Redis sees at most PoolSize connections for a database, and  *)
(* no connection serves two commands at once.                              *)
THEOREM BoundHolds == Spec => []ConnectionBound
<1>1. IInv => ConnectionBound
  <2> SUFFICES ASSUME IInv PROVE ConnectionBound
    OBVIOUS
  <2>1. ASSUME NEW d \in Databases PROVE Cardinality(OpenIn(d)) <= PoolSize
    <3>1. CASE OpenIn(d) = {}
      BY <3>1, FS_EmptySet, PoolsAssumption
    <3>2. CASE Main(d) \in Pools /\ OpenIn(d) = InPool(Main(d))
      BY <3>2, PoolSizeHolds
    <3> QED
      BY <3>1, <3>2, OpenInMain
  <2> QED
    BY <2>1 DEF ConnectionBound, IInv
<1> QED
  BY <1>1, Inductive, PTL

(* A command runs in the database it was sent for as long as no client has *)
(* sent a SELECT over its connection.                                      *)
THEOREM DatabaseHolds == Spec => []RunsInItsDatabase
<1>1. IInv => RunsInItsDatabase
  <2> SUFFICES ASSUME IInv, NEW s \in Slots, pc[s] = "query", conn[s] \notin strayed
               PROVE  connDb[conn[s]] = req[s].db
    BY DEF RunsInItsDatabase
  <2>1. conn[s] # None
    BY SlotFacts, PoolsAssumption DEF IInv, Connections
  <2> QED
    BY <2>1 DEF IInv, DatabaseInv
<1> QED
  BY <1>1, Inductive, PTL

(* A connection that has failed a command never serves another.            *)
THEOREM BrokenIsFoundOut == Spec => []BrokenServesOnce
BY Inductive, PTL DEF IInv, FailInv
=============================================================================
