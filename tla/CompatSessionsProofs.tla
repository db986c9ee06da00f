----------------------- MODULE CompatSessionsProofs -----------------------
(***************************************************************************)
(* Proofs about CompatSessions, for every number of request slots and      *)
(* sessions, every limit and every TTL.                                    *)
(***************************************************************************)
EXTENDS CompatSessions, FiniteSetTheorems, TLAPS

(* What the place of a handler says about its session and its scan: an id  *)
(* to insert is nobody else's, an id to look up was announced, a scan sees *)
(* the map that its read lock protects.                                    *)
RequestInv ==
    /\ known \subseteq used
    /\ \A r \in Requests :
          /\ pc[r] = "insert" => target[r] \in used \ known
          /\ pc[r] \in {"lookup", "touch", "use"} => target[r] \in known
          /\ pc[r] \in {"scan", "evict"} /\ op[r] = "get" => target[r] \in known
          /\ pc[r] = "scan" => left[r] \subseteq sessions
    /\ \A q, r \in Requests :
          pc[q] = "insert" /\ pc[r] = "insert" /\ target[q] = target[r] => q = r

(* The clock and the histories that depend on it.                          *)
ClockInv ==
    /\ \A i \in Ids : last[i] <= now
    /\ \A r \in Requests : began[r] <= now
    /\ \A i \in used : IdleTooLong(i) => i \in everIdle
    /\ \A r \in Requests : expired[r] \subseteq everIdle

(* Why a session that had expired is not served: it is still to be scanned *)
(* or to be removed, or it is gone, or somebody has touched it since.      *)
Fresh(r) == last[target[r]] + SessionTtl >= began[r]
SweepInv ==
    \A r \in Requests :
       /\ pc[r] \in {"scan", "evict", "lookup"} /\ op[r] = "get" =>
             \/ Fresh(r) \/ target[r] \notin sessions
             \/ pc[r] = "scan" /\ target[r] \in left[r]
             \/ pc[r] \in {"scan", "evict"} /\ target[r] \in expired[r]
       /\ pc[r] = "touch" => Fresh(r)
       /\ pc[r] = "lookup" => op[r] = "get"

IInv ==
    /\ TypeOK /\ RequestInv /\ ClockInv /\ SweepInv
    /\ EachSessionLeavesOnce /\ ActiveSessionSurvives
    /\ IsFiniteSet(sessions) /\ OvershootBounded

(* Every step keeps every variable in its domain.                          *)
LEMMA TypeStep == IInv /\ [Next]_vars => TypeOK'
<1> SUFFICES ASSUME IInv, [Next]_vars PROVE TypeOK'
  OBVIOUS
<1> USE ConstantsAssumption
     DEF IInv, TypeOK, Pcs, RequestInv,
         map, locals, history
<1>1. ASSUME NEW r \in Requests, StartCreate(r) PROVE TypeOK'
  BY <1>1 DEF StartCreate, Sweep, Goto
<1>2. ASSUME NEW r \in Requests, StartGet(r) PROVE TypeOK'
  BY <1>2 DEF StartGet, Sweep, Goto
<1>3. ASSUME NEW r \in Requests, NEW i \in Ids, ScanOne(r, i) PROVE TypeOK'
  BY <1>3 DEF ScanOne, Goto
<1>4. ASSUME NEW r \in Requests, ScanDone(r) PROVE TypeOK'
  BY <1>4 DEF ScanDone, AfterSweep, Goto
<1>5. ASSUME NEW r \in Requests, Evict(r) PROVE TypeOK'
  BY <1>5 DEF Evict, AfterSweep, WriteLockFree, Goto
<1>6. ASSUME NEW r \in Requests, Count(r) PROVE TypeOK'
  BY <1>6, SMTT(30) DEF Count, End, Goto
<1>7. ASSUME NEW r \in Requests, ConnectFails(r) PROVE TypeOK'
  BY <1>7 DEF ConnectFails, End, Goto
<1>8. ASSUME NEW r \in Requests, Connected(r) PROVE TypeOK'
  BY <1>8 DEF Connected, Goto
<1>9. ASSUME NEW r \in Requests, Insert(r) PROVE TypeOK'
  BY <1>9 DEF Insert, End, WriteLockFree, Goto
<1>10. ASSUME NEW r \in Requests, Lookup(r) PROVE TypeOK'
  BY <1>10, SMTT(30) DEF Lookup, End, Goto
<1>11. ASSUME NEW r \in Requests, Touch(r) PROVE TypeOK'
  BY <1>11 DEF Touch, SetLastAccess, Goto
<1>12. ASSUME NEW r \in Requests, ExecuteCommand(r) PROVE TypeOK'
  BY <1>12 DEF ExecuteCommand, SetLastAccess, Goto
<1>13. ASSUME NEW r \in Requests, Finish(r) PROVE TypeOK'
  BY <1>13 DEF Finish, End, Goto
<1>14. ASSUME NEW r \in Requests, DeleteSession(r) PROVE TypeOK'
  BY <1>14 DEF DeleteSession, WriteLockFree, Goto
<1>15. ASSUME NEW r \in Requests, Abort(r) PROVE TypeOK'
  BY <1>15 DEF Abort, End, Goto
<1>16. CASE Tick
  BY <1>16 DEF Tick
<1>17. CASE UNCHANGED vars
  BY <1>17 DEF vars
<1> QED BY <1>1, <1>2, <1>3, <1>4, <1>5, <1>6, <1>7, <1>8, <1>9, <1>10,
           <1>11, <1>12, <1>13, <1>14, <1>15, <1>16, <1>17
       DEF Next, Step

(* What a handler knows of its session stays true while the others take    *)
(* steps: an announced id stays announced, and while a scan holds the read *)
(* lock nothing leaves the map.                                            *)
LEMMA RequestStep == IInv /\ [Next]_vars => RequestInv'
<1> SUFFICES ASSUME IInv, [Next]_vars PROVE RequestInv'
  OBVIOUS
<1> USE ConstantsAssumption
     DEF IInv, TypeOK, RequestInv, EachSessionLeavesOnce,
         map, locals, history
<1>1. ASSUME NEW r \in Requests, StartCreate(r) PROVE RequestInv'
  BY <1>1 DEF StartCreate, Sweep, Goto
<1>2. ASSUME NEW r \in Requests, StartGet(r) PROVE RequestInv'
  BY <1>2 DEF StartGet, Sweep, Goto
<1>3. ASSUME NEW r \in Requests, NEW i \in Ids, ScanOne(r, i) PROVE RequestInv'
  BY <1>3 DEF ScanOne, Goto
<1>4. ASSUME NEW r \in Requests, ScanDone(r) PROVE RequestInv'
  BY <1>4 DEF ScanDone, AfterSweep, Goto
<1>5. ASSUME NEW r \in Requests, Evict(r) PROVE RequestInv'
  BY <1>5 DEF Evict, AfterSweep, WriteLockFree, Goto
<1>6. ASSUME NEW r \in Requests, Count(r) PROVE RequestInv'
  BY <1>6 DEF Count, End, Goto
<1>7. ASSUME NEW r \in Requests, ConnectFails(r) PROVE RequestInv'
  BY <1>7 DEF ConnectFails, End, Goto
<1>8. ASSUME NEW r \in Requests, Connected(r) PROVE RequestInv'
  BY <1>8 DEF Connected, Goto
<1>9. ASSUME NEW r \in Requests, Insert(r) PROVE RequestInv'
  BY <1>9 DEF Insert, End, WriteLockFree, Goto
<1>10. ASSUME NEW r \in Requests, Lookup(r) PROVE RequestInv'
  BY <1>10 DEF Lookup, End, Goto
<1>11. ASSUME NEW r \in Requests, Touch(r) PROVE RequestInv'
  BY <1>11 DEF Touch, SetLastAccess, Goto
<1>12. ASSUME NEW r \in Requests, ExecuteCommand(r) PROVE RequestInv'
  BY <1>12 DEF ExecuteCommand, SetLastAccess, Goto
<1>13. ASSUME NEW r \in Requests, Finish(r) PROVE RequestInv'
  BY <1>13 DEF Finish, End, Goto
<1>14. ASSUME NEW r \in Requests, DeleteSession(r) PROVE RequestInv'
  BY <1>14 DEF DeleteSession, WriteLockFree, Goto
<1>15. ASSUME NEW r \in Requests, Abort(r) PROVE RequestInv'
  BY <1>15 DEF Abort, End, Goto
<1>16. CASE Tick
  BY <1>16 DEF Tick
<1>17. CASE UNCHANGED vars
  BY <1>17 DEF vars
<1> QED BY <1>1, <1>2, <1>3, <1>4, <1>5, <1>6, <1>7, <1>8, <1>9, <1>10,
           <1>11, <1>12, <1>13, <1>14, <1>15, <1>16, <1>17
       DEF Next, Step

(* The clock runs forward, and a scan notes no session that the history    *)
(* has not seen idle: what it scans is in the map, so its id was given     *)
(* out.                                                                    *)
LEMMA ClockStep == IInv /\ [Next]_vars => ClockInv'
<1> SUFFICES ASSUME IInv, [Next]_vars PROVE ClockInv'
  OBVIOUS
<1> USE ConstantsAssumption
     DEF IInv, TypeOK, RequestInv, ClockInv, IdleTooLong,
         map, locals, history
<1>1. ASSUME NEW r \in Requests, StartCreate(r) PROVE ClockInv'
  BY <1>1 DEF StartCreate, Sweep, Goto
<1>2. ASSUME NEW r \in Requests, StartGet(r) PROVE ClockInv'
  BY <1>2 DEF StartGet, Sweep, Goto
<1>3. ASSUME NEW r \in Requests, NEW i \in Ids, ScanOne(r, i) PROVE ClockInv'
  <2>1. i \in used
    BY <1>3 DEF ScanOne, EachSessionLeavesOnce
  <2> QED BY <1>3, <2>1 DEF ScanOne
<1>4. ASSUME NEW r \in Requests, ScanDone(r) PROVE ClockInv'
  BY <1>4 DEF ScanDone, AfterSweep, Goto
<1>5. ASSUME NEW r \in Requests, Evict(r) PROVE ClockInv'
  BY <1>5 DEF Evict, AfterSweep, WriteLockFree, Goto
<1>6. ASSUME NEW r \in Requests, Count(r) PROVE ClockInv'
  BY <1>6 DEF Count, End, Goto
<1>7. ASSUME NEW r \in Requests, ConnectFails(r) PROVE ClockInv'
  BY <1>7 DEF ConnectFails, End, Goto
<1>8. ASSUME NEW r \in Requests, Connected(r) PROVE ClockInv'
  BY <1>8 DEF Connected, Goto
<1>9. ASSUME NEW r \in Requests, Insert(r) PROVE ClockInv'
  BY <1>9 DEF Insert, End, WriteLockFree, Goto
<1>10. ASSUME NEW r \in Requests, Lookup(r) PROVE ClockInv'
  BY <1>10 DEF Lookup, End, Goto
<1>11. ASSUME NEW r \in Requests, Touch(r) PROVE ClockInv'
  BY <1>11 DEF Touch, SetLastAccess, Goto
<1>12. ASSUME NEW r \in Requests, ExecuteCommand(r) PROVE ClockInv'
  BY <1>12 DEF ExecuteCommand, SetLastAccess, Goto
<1>13. ASSUME NEW r \in Requests, Finish(r) PROVE ClockInv'
  BY <1>13 DEF Finish, End, Goto
<1>14. ASSUME NEW r \in Requests, DeleteSession(r) PROVE ClockInv'
  BY <1>14 DEF DeleteSession, WriteLockFree, Goto
<1>15. ASSUME NEW r \in Requests, Abort(r) PROVE ClockInv'
  BY <1>15 DEF Abort, End, Goto
<1>16. CASE Tick
  BY <1>16 DEF Tick
<1>17. CASE UNCHANGED vars
  BY <1>17 DEF vars
<1> QED BY <1>1, <1>2, <1>3, <1>4, <1>5, <1>6, <1>7, <1>8, <1>9, <1>10,
           <1>11, <1>12, <1>13, <1>14, <1>15, <1>16, <1>17
       DEF Next, Step

(* The promise of a sweep to its own request survives every step of the    *)
(* others: time stamps only grow, and an id that is gone is not inserted   *)
(* again.                                                                  *)
LEMMA SweepStep == IInv /\ [Next]_vars => SweepInv'
<1> SUFFICES ASSUME IInv, [Next]_vars PROVE SweepInv'
  OBVIOUS
<1> USE ConstantsAssumption
     DEF IInv, TypeOK, RequestInv, ClockInv, IdleTooLong,
         SweepInv, Fresh, EachSessionLeavesOnce,
         map, locals, history
<1>1. ASSUME NEW r \in Requests, StartCreate(r) PROVE SweepInv'
  BY <1>1 DEF StartCreate, Sweep, Goto
<1>2. ASSUME NEW r \in Requests, StartGet(r) PROVE SweepInv'
  BY <1>2 DEF StartGet, Sweep, Goto
<1>3. ASSUME NEW r \in Requests, NEW i \in Ids, ScanOne(r, i) PROVE SweepInv'
  BY <1>3 DEF ScanOne, Goto
<1>4. ASSUME NEW r \in Requests, ScanDone(r) PROVE SweepInv'
  BY <1>4 DEF ScanDone, AfterSweep, Goto
<1>5. ASSUME NEW r \in Requests, Evict(r) PROVE SweepInv'
  BY <1>5 DEF Evict, AfterSweep, WriteLockFree, Goto
<1>6. ASSUME NEW r \in Requests, Count(r) PROVE SweepInv'
  BY <1>6 DEF Count, End, Goto
<1>7. ASSUME NEW r \in Requests, ConnectFails(r) PROVE SweepInv'
  BY <1>7 DEF ConnectFails, End, Goto
<1>8. ASSUME NEW r \in Requests, Connected(r) PROVE SweepInv'
  BY <1>8 DEF Connected, Goto
<1>9. ASSUME NEW r \in Requests, Insert(r) PROVE SweepInv'
  BY <1>9 DEF Insert, End, WriteLockFree, Goto
<1>10. ASSUME NEW r \in Requests, Lookup(r) PROVE SweepInv'
  BY <1>10 DEF Lookup, End, Goto
<1>11. ASSUME NEW r \in Requests, Touch(r) PROVE SweepInv'
  BY <1>11 DEF Touch, SetLastAccess, Goto
<1>12. ASSUME NEW r \in Requests, ExecuteCommand(r) PROVE SweepInv'
  BY <1>12 DEF ExecuteCommand, SetLastAccess, Goto
<1>13. ASSUME NEW r \in Requests, Finish(r) PROVE SweepInv'
  BY <1>13 DEF Finish, End, Goto
<1>14. ASSUME NEW r \in Requests, DeleteSession(r) PROVE SweepInv'
  BY <1>14 DEF DeleteSession, WriteLockFree, Goto
<1>15. ASSUME NEW r \in Requests, Abort(r) PROVE SweepInv'
  BY <1>15 DEF Abort, End, Goto
<1>16. CASE Tick
  BY <1>16 DEF Tick
<1>17. CASE UNCHANGED vars
  BY <1>17 DEF vars
<1> QED BY <1>1, <1>2, <1>3, <1>4, <1>5, <1>6, <1>7, <1>8, <1>9, <1>10,
           <1>11, <1>12, <1>13, <1>14, <1>15, <1>16, <1>17
       DEF Next, Step

(* A session leaves the map once.                                          *)
LEMMA LeaveStep == IInv /\ [Next]_vars => EachSessionLeavesOnce'
<1> SUFFICES ASSUME IInv, [Next]_vars PROVE EachSessionLeavesOnce'
  OBVIOUS
<1> USE ConstantsAssumption
     DEF IInv, TypeOK, RequestInv, EachSessionLeavesOnce,
         map, locals, history
<1>1. ASSUME NEW r \in Requests, StartCreate(r) PROVE EachSessionLeavesOnce'
  BY <1>1 DEF StartCreate, Sweep, Goto
<1>2. ASSUME NEW r \in Requests, StartGet(r) PROVE EachSessionLeavesOnce'
  BY <1>2 DEF StartGet, Sweep, Goto
<1>3. ASSUME NEW r \in Requests, NEW i \in Ids, ScanOne(r, i)
      PROVE  EachSessionLeavesOnce'
  BY <1>3 DEF ScanOne, Goto
<1>4. ASSUME NEW r \in Requests, ScanDone(r) PROVE EachSessionLeavesOnce'
  BY <1>4 DEF ScanDone, AfterSweep, Goto
<1>5. ASSUME NEW r \in Requests, Evict(r) PROVE EachSessionLeavesOnce'
  BY <1>5 DEF Evict, AfterSweep, WriteLockFree, Goto
<1>6. ASSUME NEW r \in Requests, Count(r) PROVE EachSessionLeavesOnce'
  BY <1>6 DEF Count, End, Goto
<1>7. ASSUME NEW r \in Requests, ConnectFails(r) PROVE EachSessionLeavesOnce'
  BY <1>7 DEF ConnectFails, End, Goto
<1>8. ASSUME NEW r \in Requests, Connected(r) PROVE EachSessionLeavesOnce'
  BY <1>8 DEF Connected, Goto
<1>9. ASSUME NEW r \in Requests, Insert(r) PROVE EachSessionLeavesOnce'
  BY <1>9 DEF Insert, End, WriteLockFree, Goto
<1>10. ASSUME NEW r \in Requests, Lookup(r) PROVE EachSessionLeavesOnce'
  BY <1>10 DEF Lookup, End, Goto
<1>11. ASSUME NEW r \in Requests, Touch(r) PROVE EachSessionLeavesOnce'
  BY <1>11 DEF Touch, SetLastAccess, Goto
<1>12. ASSUME NEW r \in Requests, ExecuteCommand(r) PROVE EachSessionLeavesOnce'
  BY <1>12 DEF ExecuteCommand, SetLastAccess, Goto
<1>13. ASSUME NEW r \in Requests, Finish(r) PROVE EachSessionLeavesOnce'
  BY <1>13 DEF Finish, End, Goto
<1>14. ASSUME NEW r \in Requests, DeleteSession(r) PROVE EachSessionLeavesOnce'
  BY <1>14 DEF DeleteSession, WriteLockFree, Goto
<1>15. ASSUME NEW r \in Requests, Abort(r) PROVE EachSessionLeavesOnce'
  BY <1>15 DEF Abort, End, Goto
<1>16. CASE Tick
  BY <1>16 DEF Tick
<1>17. CASE UNCHANGED vars
  BY <1>17 DEF vars
<1> QED BY <1>1, <1>2, <1>3, <1>4, <1>5, <1>6, <1>7, <1>8, <1>9, <1>10,
           <1>11, <1>12, <1>13, <1>14, <1>15, <1>16, <1>17
       DEF Next, Step

(* A sweep removes what its scan has found idle.                           *)
LEMMA ActiveStep == IInv /\ [Next]_vars => ActiveSessionSurvives'
<1> SUFFICES ASSUME IInv, [Next]_vars PROVE ActiveSessionSurvives'
  OBVIOUS
<1> USE ConstantsAssumption
     DEF IInv, TypeOK, ClockInv, ActiveSessionSurvives,
         map, locals, history
<1>1. ASSUME NEW r \in Requests, StartCreate(r) PROVE ActiveSessionSurvives'
  BY <1>1 DEF StartCreate, Sweep, Goto
<1>2. ASSUME NEW r \in Requests, StartGet(r) PROVE ActiveSessionSurvives'
  BY <1>2 DEF StartGet, Sweep, Goto
<1>3. ASSUME NEW r \in Requests, NEW i \in Ids, ScanOne(r, i)
      PROVE  ActiveSessionSurvives'
  BY <1>3 DEF ScanOne, Goto
<1>4. ASSUME NEW r \in Requests, ScanDone(r) PROVE ActiveSessionSurvives'
  BY <1>4 DEF ScanDone, AfterSweep, Goto
<1>5. ASSUME NEW r \in Requests, Evict(r) PROVE ActiveSessionSurvives'
  BY <1>5 DEF Evict, AfterSweep, WriteLockFree, Goto
<1>6. ASSUME NEW r \in Requests, Count(r) PROVE ActiveSessionSurvives'
  BY <1>6 DEF Count, End, Goto
<1>7. ASSUME NEW r \in Requests, ConnectFails(r) PROVE ActiveSessionSurvives'
  BY <1>7 DEF ConnectFails, End, Goto
<1>8. ASSUME NEW r \in Requests, Connected(r) PROVE ActiveSessionSurvives'
  BY <1>8 DEF Connected, Goto
<1>9. ASSUME NEW r \in Requests, Insert(r) PROVE ActiveSessionSurvives'
  BY <1>9 DEF Insert, End, WriteLockFree, Goto
<1>10. ASSUME NEW r \in Requests, Lookup(r) PROVE ActiveSessionSurvives'
  BY <1>10 DEF Lookup, End, Goto
<1>11. ASSUME NEW r \in Requests, Touch(r) PROVE ActiveSessionSurvives'
  BY <1>11 DEF Touch, SetLastAccess, Goto
<1>12. ASSUME NEW r \in Requests, ExecuteCommand(r) PROVE ActiveSessionSurvives'
  BY <1>12 DEF ExecuteCommand, SetLastAccess, Goto
<1>13. ASSUME NEW r \in Requests, Finish(r) PROVE ActiveSessionSurvives'
  BY <1>13 DEF Finish, End, Goto
<1>14. ASSUME NEW r \in Requests, DeleteSession(r) PROVE ActiveSessionSurvives'
  BY <1>14 DEF DeleteSession, WriteLockFree, Goto
<1>15. ASSUME NEW r \in Requests, Abort(r) PROVE ActiveSessionSurvives'
  BY <1>15 DEF Abort, End, Goto
<1>16. CASE Tick
  BY <1>16 DEF Tick
<1>17. CASE UNCHANGED vars
  BY <1>17 DEF vars
<1> QED BY <1>1, <1>2, <1>3, <1>4, <1>5, <1>6, <1>7, <1>8, <1>9, <1>10,
           <1>11, <1>12, <1>13, <1>14, <1>15, <1>16, <1>17
       DEF Next, Step


(* The bound on the size of the map for a step that inserts nothing and    *)
(* lets nobody pass the limit.                                             *)
LEMMA OvershootQuiet ==
    ASSUME IInv, sessions' \subseteq sessions, InFlight' \subseteq InFlight
    PROVE  IsFiniteSet(sessions') /\ OvershootBounded'
<1>1. IsFiniteSet(sessions) /\ IsFiniteSet(InFlight)
  BY ConstantsAssumption, FS_Subset DEF IInv, InFlight
<1>2. IsFiniteSet(sessions') /\ Cardinality(sessions') <= Cardinality(sessions)
  BY <1>1, FS_Subset
<1>3. IsFiniteSet(InFlight') /\ Cardinality(InFlight') <= Cardinality(InFlight)
  BY <1>1, FS_Subset
<1>4. /\ Cardinality(sessions) \in Nat /\ Cardinality(InFlight) \in Nat
      /\ Cardinality(sessions') \in Nat /\ Cardinality(InFlight') \in Nat
      /\ Cardinality(Requests) \in Nat /\ MaxSessions \in Nat
  BY <1>1, <1>2, <1>3, FS_CardinalityType, ConstantsAssumption
<1> QED BY <1>2, <1>3, <1>4 DEF IInv, OvershootBounded

(* The check of the limit leaves room for the session of the request, and  *)
(* the others in flight are fewer than the request slots.                  *)
LEMMA OvershootCount ==
    ASSUME IInv, NEW r \in Requests, Count(r)
    PROVE  IsFiniteSet(sessions') /\ OvershootBounded'
<1> USE DEF Count, map
<1>1. CASE Cardinality(sessions) >= MaxSessions
  <2>1. InFlight' \subseteq InFlight
    BY <1>1 DEF End, Goto, InFlight, IInv, TypeOK
  <2> QED BY <2>1, OvershootQuiet
<1>2. CASE ~(Cardinality(sessions) >= MaxSessions)
  <2>1. /\ IsFiniteSet(InFlight')
        /\ Cardinality(InFlight') <= Cardinality(Requests)
    BY ConstantsAssumption, FS_Subset DEF InFlight
  <2>2. sessions' = sessions /\ IsFiniteSet(sessions)
    BY DEF IInv
  <2>3. /\ Cardinality(sessions) \in Nat /\ Cardinality(InFlight') \in Nat
        /\ Cardinality(Requests) \in Nat /\ MaxSessions \in Nat
    BY <2>1, <2>2, FS_CardinalityType, ConstantsAssumption
  <2> QED BY <1>2, <2>1, <2>2, <2>3 DEF OvershootBounded
<1> QED BY <1>1, <1>2

(* An insertion turns a request in flight into a session.                  *)
LEMMA OvershootInsert ==
    ASSUME IInv, NEW r \in Requests, Insert(r)
    PROVE  IsFiniteSet(sessions') /\ OvershootBounded'
<1>1. IsFiniteSet(sessions) /\ IsFiniteSet(InFlight)
  BY ConstantsAssumption, FS_Subset DEF IInv, InFlight
<1>2. /\ sessions' = sessions \cup {target[r]}
      /\ r \in InFlight /\ InFlight' = InFlight \ {r}
  BY DEF Insert, End, Goto, InFlight, IInv, TypeOK
<1>3. /\ IsFiniteSet(sessions')
      /\ Cardinality(sessions') <= Cardinality(sessions) + 1
  <2>1. Cardinality(sessions) \in Nat
    BY <1>1, FS_CardinalityType
  <2>2. /\ IsFiniteSet(sessions \cup {target[r]})
        /\ \/ Cardinality(sessions \cup {target[r]}) = Cardinality(sessions)
           \/ Cardinality(sessions \cup {target[r]}) = Cardinality(sessions) + 1
    BY <1>1, FS_AddElement
  <2> QED BY <1>2, <2>1, <2>2
<1>4. /\ IsFiniteSet(InFlight')
      /\ Cardinality(InFlight') = Cardinality(InFlight) - 1
  BY <1>1, <1>2, FS_RemoveElement
<1>5. /\ Cardinality(sessions) \in Nat /\ Cardinality(InFlight) \in Nat
      /\ Cardinality(sessions') \in Nat /\ Cardinality(InFlight') \in Nat
      /\ Cardinality(Requests) \in Nat /\ MaxSessions \in Nat
  BY <1>1, <1>3, <1>4, FS_CardinalityType, ConstantsAssumption
<1> QED BY <1>3, <1>4, <1>5 DEF IInv, OvershootBounded

(* The map exceeds its limit by no more than the requests in flight.       *)
LEMMA OvershootStep ==
    IInv /\ [Next]_vars => IsFiniteSet(sessions') /\ OvershootBounded'
<1> SUFFICES ASSUME IInv, [Next]_vars
             PROVE  IsFiniteSet(sessions') /\ OvershootBounded'
  OBVIOUS
<1>1. CASE \E r \in Requests : Count(r)
  BY <1>1, OvershootCount
<1>2. CASE \E r \in Requests : Insert(r)
  BY <1>2, OvershootInsert
<1>3. CASE ~(\E r \in Requests : Count(r) \/ Insert(r))
  <2> USE DEF IInv, TypeOK, Pcs, InFlight, Goto, End, AfterSweep, map
  <2> DEFINE Quiet == /\ sessions' \subseteq sessions
                      /\ InFlight' \subseteq InFlight
  <2>1. ASSUME NEW r \in Requests, StartCreate(r) PROVE Quiet
    BY <2>1 DEF StartCreate, Sweep
  <2>2. ASSUME NEW r \in Requests, StartGet(r) PROVE Quiet
    BY <2>2 DEF StartGet, Sweep
  <2>3. ASSUME NEW r \in Requests, NEW i \in Ids, ScanOne(r, i) PROVE Quiet
    BY <2>3 DEF ScanOne
  <2>4. ASSUME NEW r \in Requests, ScanDone(r) PROVE Quiet
    BY <2>4 DEF ScanDone
  <2>5. ASSUME NEW r \in Requests, Evict(r) PROVE Quiet
    BY <2>5 DEF Evict
  <2>6. ASSUME NEW r \in Requests, ConnectFails(r) PROVE Quiet
    BY <2>6 DEF ConnectFails
  <2>7. ASSUME NEW r \in Requests, Connected(r) PROVE Quiet
    BY <2>7 DEF Connected
  <2>8. ASSUME NEW r \in Requests, Lookup(r) PROVE Quiet
    BY <2>8 DEF Lookup
  <2>9. ASSUME NEW r \in Requests, Touch(r) PROVE Quiet
    BY <2>9 DEF Touch, SetLastAccess
  <2>10. ASSUME NEW r \in Requests, ExecuteCommand(r) PROVE Quiet
    BY <2>10 DEF ExecuteCommand, SetLastAccess
  <2>11. ASSUME NEW r \in Requests, Finish(r) PROVE Quiet
    BY <2>11 DEF Finish
  <2>12. ASSUME NEW r \in Requests, DeleteSession(r) PROVE Quiet
    BY <2>12 DEF DeleteSession
  <2>13. ASSUME NEW r \in Requests, Abort(r) PROVE Quiet
    BY <2>13 DEF Abort
  <2>14. ASSUME Tick PROVE Quiet
    BY <2>14 DEF Tick, locals
  <2>15. ASSUME UNCHANGED vars PROVE Quiet
    BY <2>15 DEF vars
  <2> QED BY <2>1, <2>2, <2>3, <2>4, <2>5, <2>6, <2>7, <2>8, <2>9,
            <2>10, <2>11, <2>12, <2>13, <2>14, <2>15, <1>3,
            OvershootQuiet
         DEF Next, Step
<1> QED BY <1>1, <1>2, <1>3

(* The initial state satisfies the invariant.                              *)
LEMMA InitIInv == Init => IInv
<1> SUFFICES ASSUME Init PROVE IInv
  OBVIOUS
<1> USE ConstantsAssumption DEF Init
<1>1. TypeOK
  BY DEF TypeOK, Pcs
<1>2. RequestInv /\ ClockInv /\ SweepInv
  BY DEF RequestInv, ClockInv, SweepInv, IdleTooLong
<1>3. EachSessionLeavesOnce /\ ActiveSessionSurvives
  BY DEF EachSessionLeavesOnce, ActiveSessionSurvives
<1>4. IsFiniteSet(sessions) /\ OvershootBounded
  <2>1. sessions = {} /\ InFlight = {}
    BY DEF InFlight
  <2>2. /\ IsFiniteSet(sessions)
        /\ Cardinality(sessions) = 0 /\ Cardinality(InFlight) = 0
    BY <2>1, FS_EmptySet
  <2>3. Cardinality(Requests) \in Nat /\ Cardinality(Requests) # 0
    BY FS_EmptySet, FS_CardinalityType
  <2> QED BY <2>2, <2>3 DEF OvershootBounded
<1> QED BY <1>1, <1>2, <1>3, <1>4 DEF IInv

(* IInv is an inductive invariant of CompatSessionManager.                 *)
THEOREM Invariance == Spec => []IInv
<1>1. IInv /\ [Next]_vars => IInv'
  <2> SUFFICES ASSUME IInv, [Next]_vars PROVE IInv'
    OBVIOUS
  <2>1. TypeOK' /\ RequestInv' /\ ClockInv' /\ SweepInv'
    BY TypeStep, RequestStep, ClockStep, SweepStep
  <2>2. EachSessionLeavesOnce' /\ ActiveSessionSurvives'
    BY LeaveStep, ActiveStep
  <2>3. IsFiniteSet(sessions') /\ OvershootBounded'
    BY OvershootStep
  <2> QED BY <2>1, <2>2, <2>3 DEF IInv
<1> QED BY <1>1, InitIInv, PTL DEF Spec

(* Every variable of the session manager stays in its domain.              *)
THEOREM TypeCorrect == Spec => []TypeOK
<1>1. IInv => TypeOK
  BY DEF IInv
<1> QED BY <1>1, Invariance, PTL

(* create_session exceeds max_sessions by at most the concurrent requests  *)
(* less one, for any limit.                                                *)
THEOREM Overshoot == Spec => []OvershootBounded
<1>1. IInv => OvershootBounded
  BY DEF IInv
<1> QED BY <1>1, Invariance, PTL

(* An announced session leaves the map once, by a sweep or by DELETE, and  *)
(* does not come back.                                                     *)
THEOREM SessionsLeaveOnce == Spec => []EachSessionLeavesOnce
<1>1. IInv => EachSessionLeavesOnce
  BY DEF IInv
<1> QED BY <1>1, Invariance, PTL

(* sweep_expired evicts no session that was never idle longer than the TTL.*)
THEOREM ActiveSurvives == Spec => []ActiveSessionSurvives
<1>1. IInv => ActiveSessionSurvives
  BY DEF IInv
<1> QED BY <1>1, Invariance, PTL

(* get_session gives out no session that had expired when its request came *)
(* and was not touched since.                                              *)
THEOREM ExpiredIsGone == Spec => []ExpiredNotServed
<1>1. IInv => ExpiredNotServed
  BY DEF IInv, SweepInv, Fresh, ExpiredNotServed
<1> QED BY <1>1, Invariance, PTL
============================================================================
