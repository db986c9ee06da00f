--------------------------- MODULE CompatSessions ---------------------------
(***************************************************************************)
(* The sessions of the hiredis compat bridge (CompatSessionManager in      *)
(* redis-web-runtime/src/compat.rs) under concurrent HTTP requests: create *)
(* and delete a session, and use one (commands, stream, WebSocket).        *)
(*                                                                         *)
(* A request slot runs one request after the other.  Every lock of the     *)
(* session map that the code releases before it goes on is released here;  *)
(* only the scan of sweep_expired awaits with a lock (the read lock) held. *)
(***************************************************************************)
EXTENDS Naturals, FiniteSets

CONSTANTS
    Requests,       \* request slots
    Ids,            \* session ids, each given out once (Uuid::new_v4)
    None,           \* no session
    MaxSessions,    \* settings.max_sessions
    SessionTtl,     \* settings.session_ttl, in ticks
    MaxTime         \* bound: ticks in a behaviour

ASSUME ConstantsAssumption ==
    /\ IsFiniteSet(Requests) /\ Requests # {}
    /\ None \notin Ids
    /\ MaxSessions \in Nat /\ SessionTtl \in Nat /\ MaxTime \in Nat

VARIABLES
    now,        \* the clock
    sessions,   \* keys of the session map
    last,       \* last_access of each session
    used,       \* ids given out
    known,      \* ids that a client has been told
    \* per request
    pc,         \* where its handler is
    op,         \* what it does after the sweep: "create" or "get"
    target,     \* its session
    left,       \* sessions that its scan has still to look at
    expired,    \* sessions that its scan has found idle
    \* history
    began,      \* when its sweep began
    everIdle,   \* sessions that were idle longer than the TTL once
    evicted,    \* sessions that a sweep has removed
    deleted     \* sessions that a DELETE has removed

map == <<sessions, used, known>>
locals == <<op, target, left, expired, began>>
history == <<everIdle, evicted, deleted>>
vars == <<now, map, last, pc, locals, history>>

Pcs == {"idle", "scan", "evict", "count", "connect", "insert", "lookup",
        "touch", "use"}

(* One type invariant: every variable stays in its domain.                 *)
TypeOK ==
    /\ now \in 0 .. MaxTime
    /\ sessions \in SUBSET Ids /\ used \in SUBSET Ids /\ known \in SUBSET Ids
    /\ last \in [Ids -> 0 .. MaxTime]
    /\ pc \in [Requests -> Pcs]
    /\ op \in [Requests -> {"create", "get"}]
    /\ target \in [Requests -> Ids \cup {None}]
    /\ left \in [Requests -> SUBSET Ids]
    /\ expired \in [Requests -> SUBSET Ids]
    /\ began \in [Requests -> 0 .. MaxTime]
    /\ everIdle \in SUBSET Ids /\ evicted \in SUBSET Ids /\ deleted \in SUBSET Ids

Init ==
    /\ now = 0
    /\ sessions = {} /\ used = {} /\ known = {}
    /\ last = [i \in Ids |-> 0]
    /\ pc = [r \in Requests |-> "idle"]
    /\ op = [r \in Requests |-> "get"]
    /\ target = [r \in Requests |-> None]
    /\ left = [r \in Requests |-> {}]
    /\ expired = [r \in Requests |-> {}]
    /\ began = [r \in Requests |-> 0]
    /\ everIdle = {} /\ evicted = {} /\ deleted = {}

Goto(r, label) == pc' = [pc EXCEPT ![r] = label]
(* The handler of r ends; its local state is gone.                         *)
End(r) ==
    /\ Goto(r, "idle")
    /\ op' = [op EXCEPT ![r] = "get"]
    /\ target' = [target EXCEPT ![r] = None]
    /\ left' = [left EXCEPT ![r] = {}]
    /\ expired' = [expired EXCEPT ![r] = {}]
    /\ began' = [began EXCEPT ![r] = 0]

(* Mutant: the read guard lives on until the removal.                      *)
WriteLockNeverFree == \A r \in Requests : pc[r] \notin {"scan", "evict"}

(* The write lock of the map is free once no scan holds the read lock.     *)
WriteLockFree == \A r \in Requests : pc[r] # "scan"

(* Mutant: off by one.                                                     *)
IdleTooLongOrEqual(i) == now - last[i] >= SessionTtl

(* session.idle_for().await > self.settings.session_ttl                    *)
IdleTooLong(i) == now - last[i] > SessionTtl

----------------------------------------------------------------------------
(* sweep_expired, the first thing in create_session and get_session        *)

Sweep(r, what, i) ==
    /\ pc[r] = "idle"
    /\ Goto(r, "scan")
    /\ op' = [op EXCEPT ![r] = what]
    /\ target' = [target EXCEPT ![r] = i]
    /\ left' = [left EXCEPT ![r] = sessions]
    /\ expired' = [expired EXCEPT ![r] = {}]
    /\ began' = [began EXCEPT ![r] = now]
    /\ UNCHANGED <<now, map, last, history>>

StartCreate(r) == Sweep(r, "create", None)
(* A client only asks for an id that it was told.                          *)
StartGet(r) == \E i \in known : Sweep(r, "get", i)

(* One round of the loop over the sessions; it awaits last_access.         *)
ScanOne(r, i) ==
    /\ pc[r] = "scan" /\ i \in left[r]
    /\ left' = [left EXCEPT ![r] = @ \ {i}]
    /\ expired' = IF IdleTooLong(i) THEN [expired EXCEPT ![r] = @ \cup {i}]
                                    ELSE expired
    /\ UNCHANGED <<now, map, last, pc, op, target, began, history>>

AfterSweep(r) == IF op[r] = "create" THEN "count" ELSE "lookup"

ScanDone(r) ==
    /\ pc[r] = "scan" /\ left[r] = {}
    /\ Goto(r, IF expired[r] = {} THEN AfterSweep(r) ELSE "evict")
    /\ UNCHANGED <<now, map, last, locals, history>>

(* Mutant: the lookup goes on without the removal.                         *)
EvictNothing(r) ==
    /\ pc[r] = "evict" /\ WriteLockFree
    /\ Goto(r, AfterSweep(r))
    /\ UNCHANGED <<now, map, last, locals, history>>

(* Remove what the scan has found, with the write lock.                    *)
Evict(r) ==
    /\ pc[r] = "evict" /\ WriteLockFree
    /\ sessions' = sessions \ expired[r]
    /\ evicted' = evicted \cup (expired[r] \cap sessions)
    /\ Goto(r, AfterSweep(r))
    /\ UNCHANGED <<now, used, known, last, locals, everIdle, deleted>>

----------------------------------------------------------------------------
(* create_session                                                          *)

(* Mutant: the comparison allows one session too many.                     *)
CountOneMore(r) ==
    /\ pc[r] = "count"
    /\ IF Cardinality(sessions) > MaxSessions
         THEN End(r)
         ELSE Goto(r, "connect") /\ UNCHANGED locals
    /\ UNCHANGED <<now, map, last, history>>

(* Compare the size of the map with the limit (429), and release the read  *)
(* lock.                                                                   *)
Count(r) ==
    /\ pc[r] = "count"
    /\ IF Cardinality(sessions) >= MaxSessions
         THEN End(r)
         ELSE Goto(r, "connect") /\ UNCHANGED locals
    /\ UNCHANGED <<now, map, last, history>>

(* The answer is 503.                                                      *)
ConnectFails(r) ==
    /\ pc[r] = "connect"
    /\ End(r)
    /\ UNCHANGED <<now, map, last, history>>

(* Mutant: the new session is not the one that is inserted.                *)
ConnectedNameless(r) ==
    /\ pc[r] = "connect"
    /\ \E i \in Ids \ used :
          /\ used' = used \cup {i}
          /\ last' = [last EXCEPT ![i] = now]
    /\ Goto(r, "insert")
    /\ UNCHANGED <<now, sessions, known, locals, history>>

(* The connection is there: CompatSession::new, last_access is now.        *)
Connected(r) ==
    /\ pc[r] = "connect"
    /\ \E i \in Ids \ used :
          /\ used' = used \cup {i}
          /\ last' = [last EXCEPT ![i] = now]
          /\ target' = [target EXCEPT ![r] = i]
    /\ Goto(r, "insert")
    /\ UNCHANGED <<now, sessions, known, op, left, expired, began,
                   history>>

(* Insert with the write lock, whatever the size of the map is by now, and *)
(* answer 201.                                                             *)
Insert(r) ==
    /\ pc[r] = "insert" /\ WriteLockFree
    /\ sessions' = sessions \cup {target[r]}
    /\ known' = known \cup {target[r]}
    /\ End(r)
    /\ UNCHANGED <<now, used, last, history>>

----------------------------------------------------------------------------
(* get_session, and the use of the session that it returns                 *)

(* Found, or 404.                                                          *)
Lookup(r) ==
    /\ pc[r] = "lookup"
    /\ IF target[r] \in sessions
         THEN Goto(r, "touch") /\ UNCHANGED locals
         ELSE End(r)
    /\ UNCHANGED <<now, map, last, history>>

SetLastAccess(r, label) ==
    /\ last' = [last EXCEPT ![target[r]] = now]
    /\ Goto(r, label)
    /\ UNCHANGED <<now, map, locals, history>>

(* Mutant: a session that is touched is put back into the map.             *)
TouchReinserts(r) ==
    /\ pc[r] = "touch"
    /\ last' = [last EXCEPT ![target[r]] = now]
    /\ sessions' = sessions \cup {target[r]}
    /\ Goto(r, "use")
    /\ UNCHANGED <<now, used, known, locals, history>>

(* session.touch() in get_session.                                         *)
Touch(r) == pc[r] = "touch" /\ SetLastAccess(r, "use")

(* session.touch() in execute_command: a request, or a WebSocket, may      *)
(* execute any number of commands, also after the session has left the map.*)
ExecuteCommand(r) == pc[r] = "use" /\ SetLastAccess(r, "use")

Finish(r) ==
    /\ pc[r] = "use"
    /\ End(r)
    /\ UNCHANGED <<now, map, last, history>>

----------------------------------------------------------------------------
(* delete_session                                                          *)

(* 204 if the session was in the map, and 404 if not.                      *)
DeleteSession(r) ==
    /\ pc[r] = "idle" /\ WriteLockFree
    /\ \E i \in known :
          /\ sessions' = sessions \ {i}
          /\ deleted' = IF i \in sessions THEN deleted \cup {i} ELSE deleted
    /\ UNCHANGED <<now, used, known, last, pc, locals, everIdle, evicted>>

(* The client goes away and the server drops the handler, wherever it is:  *)
(* a lock that it holds is released.                                       *)
Abort(r) ==
    /\ pc[r] # "idle"
    /\ End(r)
    /\ UNCHANGED <<now, map, last, history>>

Tick ==
    /\ now < MaxTime
    /\ now' = now + 1
    /\ everIdle' = everIdle \cup {i \in used : now + 1 - last[i] > SessionTtl}
    /\ UNCHANGED <<map, last, pc, locals, evicted, deleted>>

Step(r) ==
    \/ ScanDone(r) \/ Evict(r) \/ Count(r) \/ ConnectFails(r) \/ Connected(r)
    \/ Insert(r) \/ Lookup(r) \/ Touch(r) \/ Finish(r)
    \/ \E i \in Ids : ScanOne(r, i)

Next ==
    \/ \E r \in Requests :
          \/ StartCreate(r) \/ StartGet(r) \/ Step(r)
          \/ ExecuteCommand(r) \/ DeleteSession(r) \/ Abort(r)
    \/ Tick

Spec == Init /\ [][Next]_vars

(* A handler that can go on is polled.  The RwLock is fair: a writer that  *)
(* waits is served although new readers keep coming.                       *)
Fairness ==
    \A r \in Requests : WF_vars(Step(r)) /\ SF_vars(Evict(r) \/ Insert(r))
FairSpec == Spec /\ Fairness

----------------------------------------------------------------------------
(* Properties                                                              *)

InFlight == {r \in Requests : pc[r] \in {"connect", "insert"}}

(* How far max_sessions can be exceeded: by the requests that have seen    *)
(* room in the map and have not inserted yet, and by no more.              *)
OvershootBounded ==
    Cardinality(sessions) + Cardinality(InFlight)
       <= MaxSessions + Cardinality(Requests) - 1

(* A session that was announced (201) is in the map, or it left the map in *)
(* exactly one way, and never comes back.                                  *)
EachSessionLeavesOnce ==
    /\ known = sessions \cup evicted \cup deleted
    /\ sessions \cap (evicted \cup deleted) = {}
    /\ evicted \cap deleted = {}
    /\ \A r \in Requests : pc[r] = "insert" => target[r] \notin known

(* A session whose owner was never idle longer than the TTL is not         *)
(* evicted, however scans, touches and removals interleave.                *)
ActiveSessionSurvives == evicted \subseteq everIdle

(* A request is not given a session that had expired when the request came *)
(* and that nobody has touched since.                                      *)
ExpiredNotServed ==
    \A r \in Requests : pc[r] = "touch" => last[target[r]] + SessionTtl >= began[r]

(* Every request ends: no handler waits for the map for ever.              *)
RequestsEnd == \A r \in Requests : pc[r] # "idle" ~> pc[r] = "idle"
============================================================================
