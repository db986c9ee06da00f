------------------------------- MODULE Bench -------------------------------
(***************************************************************************)
(* redis-web-bench compare: for the baseline and for each variant in turn  *)
(* a server is built, started on a port of its own, put through its        *)
(* workloads and killed; the artifacts are written when all have been      *)
(* through.  Any error ends the comparison.                                *)
(***************************************************************************)
EXTENDS BenchWorkers, BenchStreams

CONSTANTS
    MaxPolls   \* how often start looks whether the server is ready

VARIABLES
    polls,     \* how often start has looked
    built,     \* the modes whose binary has been built (the OnceLocks)
    artifacts  \* what has been written

ASSUME PollsAssumption == MaxPolls \in Nat

jobVars == <<job, port, polls, built, artifacts>>
workVars == <<work, result, cached, faults>>
vars == <<jobVars, workVars, server, workerVars, streamVars>>

Context == Contexts[job.variant]
Plan == SuitesOf(Context)
Resting == UNCHANGED <<workerVars, streamVars>>
Place(pc) == job.pc = pc
Enter(pc) == job' = [job EXCEPT !.pc = pc]

Init ==
    /\ job = [pc |-> "spec", variant |-> 1, step |-> 1, why |-> "", same |-> TRUE]
    /\ port = Free /\ polls = 0 /\ built = {} /\ artifacts = {}
    /\ work = Idle /\ result = NoResult /\ cached = {} /\ faults = 0
    /\ server = "none"
    /\ WorkersOff /\ StreamsOff

(* Mutant: nobody implements Drop, and the process is left to itself.      *)
ForgetServer ==
    UNCHANGED <<server, port>>
(* LaunchedServer::drop.                                                   *)
KillServer ==
    /\ server' = "none"
    /\ port' = IF port.by = "server" THEN Free ELSE port

(* The error is passed up to main, and what was launched is dropped.       *)
Abort(why) ==
    /\ job' = [job EXCEPT !.pc = "ended", !.why = why]
    /\ KillServer
    /\ UNCHANGED <<polls, built, artifacts>>

----------------------------------------------------------------------------
(* run_compare: the spec with all its variants is checked first, ...       *)
ResolveSpec ==
    /\ Place("spec")
    /\ \/ /\ \A i \in DOMAIN Contexts : Contexts[i].ok
          /\ Enter("dir")
          /\ UNCHANGED <<server, port, polls, built, artifacts>>
       \/ Abort("spec")
    /\ UNCHANGED workVars /\ Resting

CreateArtifactDir ==
    /\ Place("dir")
    /\ \/ Enter("build") /\ artifacts' = {"dir"} /\ UNCHANGED <<server, port, polls, built>>
       \/ Abort("dir")
    /\ UNCHANGED workVars /\ Resting

(* ... then a binary is built, once for each mode, ...                     *)
ensure_binary_for_mode ==
    /\ Place("build")
    /\ \/ /\ built' = built \cup {Context.mode}
          /\ Enter("spawn")
          /\ UNCHANGED <<server, port, polls, artifacts>>
       \/ Context.mode \notin built /\ Abort("build")
    /\ UNCHANGED workVars /\ Resting

(* ... and started on a port that was free a moment ago.  The server goes  *)
(* to the socket of its config, if it has one, while the connections of    *)
(* the comparison always go to redis_host: the same Redis or another.      *)
Spawn ==
    /\ Place("spawn")
    /\ \/ /\ \E same \in BOOLEAN :
               /\ Context.socket \/ same
               /\ job' = [job EXCEPT !.pc = "poll", !.same = same]
          /\ server' = "starting" /\ port' = Free /\ polls' = 0
          /\ UNCHANGED <<built, artifacts>>
       \/ Abort("spawn")
    /\ UNCHANGED workVars /\ Resting

(* Whoever accepts a connection in time makes it ready.  A process that    *)
(* has exited is an error, and so is a failure to ask, which leaves it     *)
(* running.                                                                *)
Poll ==
    /\ Place("poll") /\ polls < MaxPolls
    /\ \/ /\ port.by # "nobody"
          /\ Enter("run") /\ polls' = 0
          /\ UNCHANGED <<server, port, built, artifacts>>
       \/ /\ server # "exited"
          /\ polls' = polls + 1
          /\ UNCHANGED <<job, server, port, built, artifacts>>
       \/ server = "exited" /\ Abort("exited")
       \/ /\ job' = [job EXCEPT !.pc = "ended", !.why = "try_wait"]
          /\ UNCHANGED <<server, port, polls, built, artifacts>>
    /\ UNCHANGED workVars /\ Resting

NotReady ==
    /\ Place("poll") /\ polls = MaxPolls
    /\ Abort("not ready")
    /\ UNCHANGED workVars /\ Resting

----------------------------------------------------------------------------
(* benchmark_variant: the workloads in their order, and before those that  *)
(* read the cache its seeding, which goes to Redis directly, if to the     *)
(* Redis of the server: what is cached there.                              *)
BeginWorkload(over) ==
    /\ Place("run") /\ job.step <= Len(Plan)
    /\ Plan[job.step].over \in over
    /\ Enter("work")
    /\ work' = Plan[job.step] /\ faults' = 0
    /\ UNCHANGED <<port, polls, built, artifacts, server>>

SeedCache ==
    /\ BeginWorkload({"redis"})
    /\ \/ /\ cached' = IF job.same THEN seed_read_heavy_cache_data ELSE {}
          /\ result' = [how |-> "seeded"]
       \/ cached' = cached /\ result' = Failed
    /\ Resting

BeginCommands ==
    /\ BeginWorkload({"http", "grpc", "ws"})
    /\ StartWorkers(work'.over)
    /\ UNCHANGED <<result, cached, streamVars>>

BeginStreaming ==
    /\ BeginWorkload({"sse", "events"})
    /\ StartStreams
    /\ UNCHANGED <<result, cached, workerVars>>

EndWorkload ==
    /\ Place("work") /\ result.how # "none"
    /\ work' = Idle /\ result' = NoResult /\ faults' = 0
    /\ IF result = Failed
         THEN Abort("workload") /\ cached' = {}
         ELSE /\ job' = [job EXCEPT !.pc = "run", !.step = @ + 1]
              /\ UNCHANGED <<cached, server, port, polls, built, artifacts>>
    /\ Resting

(* The end of benchmark_variant drops the server.                          *)
EndVariant ==
    /\ Place("run") /\ job.step > Len(Plan)
    /\ job' = IF job.variant < Len(Contexts)
                THEN [job EXCEPT !.pc = "build", !.variant = @ + 1, !.step = 1]
                ELSE [job EXCEPT !.pc = "results"]
    /\ KillServer
    /\ cached' = {}
    /\ UNCHANGED <<polls, built, artifacts, work, result, faults>> /\ Resting

WriteArtifact(pc, name, next) ==
    /\ Place(pc)
    /\ \/ /\ artifacts' = artifacts \cup {name}
          /\ Enter(next)
          /\ UNCHANGED <<server, port, polls, built>>
       \/ Abort(name)
    /\ UNCHANGED workVars /\ Resting
WriteResults == WriteArtifact("results", "results.json", "report")
WriteReport == WriteArtifact("report", "report.md", "ended")

(* render-reports, later and by another process.                           *)
regenerate_reports_under ==
    /\ Place("ended") /\ "results.json" \in artifacts
    /\ artifacts' = artifacts \cup {"report.md"}
    /\ UNCHANGED <<job, port, polls, built, workVars, server>> /\ Resting

----------------------------------------------------------------------------
(* The server and its surroundings.                                        *)
ServerListens ==
    /\ server = "starting" /\ port.by = "nobody"
    /\ server' = "listening" /\ port' = [by |-> "server", mute |-> FALSE]
    /\ UNCHANGED <<job, polls, built, artifacts, workVars>> /\ Resting

StrangerListens ==
    /\ server = "starting" /\ port.by = "nobody"
    /\ port' = [by |-> "other", mute |-> FALSE]
    /\ UNCHANGED <<job, polls, built, artifacts, workVars, server>> /\ Resting

(* Who listens stops answering: its Redis does not, or a lock is held.     *)
GoesMute ==
    /\ Place("work") /\ Answering /\ faults < MaxFaults
    /\ port' = [port EXCEPT !.mute = TRUE] /\ faults' = faults + 1
    /\ UNCHANGED <<job, polls, built, artifacts, work, result, cached, server>> /\ Resting

ServerExits ==
    /\ \/ server = "starting" /\ UNCHANGED faults
       \/ server = "listening" /\ Place("work") /\ faults < MaxFaults /\ faults' = faults + 1
    /\ server' = "exited"
    /\ port' = IF port.by = "server" THEN Free ELSE port
    /\ UNCHANGED <<job, polls, built, artifacts, work, result, cached>> /\ Resting

Compare ==
    \/ ResolveSpec \/ CreateArtifactDir \/ ensure_binary_for_mode \/ Spawn
    \/ Poll \/ NotReady \/ SeedCache \/ BeginCommands \/ BeginStreaming \/ EndWorkload \/ EndVariant
    \/ WriteResults \/ WriteReport
    \/ WorkersNext /\ UNCHANGED <<jobVars, streamVars>>
    \/ StreamsNext /\ UNCHANGED <<jobVars, workerVars>>

Next ==
    \/ Compare
    \/ regenerate_reports_under \/ ServerListens \/ StrangerListens
    \/ GoesMute \/ ServerExits

Spec == Init /\ [][Next]_vars
FairSpec == Spec /\ WF_vars(Compare)

----------------------------------------------------------------------------
(* The comparison, its server and its counters stay in their domains, and  *)
(* workers and streams are at work only during a workload.                 *)
TypeOK ==
    /\ job.pc \in {"spec", "dir", "build", "spawn", "poll", "run", "work",
                   "results", "report", "ended"}
    /\ job.variant \in DOMAIN Contexts /\ job.step \in 1 .. Len(Plan) + 1
    /\ server \in {"none", "starting", "listening", "exited"}
    /\ port \in [by : {"nobody", "server", "other"}, mute : BOOLEAN] /\ polls \in 0 .. MaxPolls
    /\ faults \in 0 .. MaxFaults
    /\ pool.counter \in 0 .. MeasuredOps + Cardinality(Workers)
    /\ send_times \subseteq 0 .. MeasuredMessages - 1
    /\ Cardinality(send_times) <= Window
    /\ pool.stage # "off" \/ reader.pc # "off" => Place("work")

Alive == server \in {"starting", "listening"}

(* Somebody who is mute is waited for, and nothing limits the time.        *)
Hanging ==
    /\ port.mute
    /\ \/ /\ pool.stage = "warmup" /\ pool.warm < WarmupOps
          /\ work.over \in {"grpc", "ws"}
       \/ \E w \in Workers :
             \/ At(w, "connect") /\ work.over = "ws"
             \/ At(w, "op") /\ work.over = "grpc"
       \/ reader.pc = "subscribe" /\ ~Finished

(* A comparison comes to its end and leaves no server behind, except that  *)
(* the question whether the server has exited could not be asked.  It does *)
(* not end if its publisher spins for want of room in the window, or if it *)
(* waits for the mute where it has no time limit, and in no other case.    *)
CompareEnds ==
    \/ <>(Place("ended") /\ (~Alive \/ job.why = "try_wait"))
    \/ <>[](Spinning \/ Hanging)
============================================================================
