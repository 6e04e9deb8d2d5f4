------------------------------ MODULE Dispatch ------------------------------
(***************************************************************************)
(* The daemon's request handlers that execute something                    *)
(* (daemon/src/engine.rs: run, dispatch, observe_start) and the registry   *)
(* of background jobs they share (daemon/src/jobs.rs).                     *)
(*                                                                         *)
(* A `run` request executes on the tokio worker that serves it.  A         *)
(* `dispatch` or `observe_start` request reserves a slot, inserts a        *)
(* registry entry and hands a closure to the blocking pool.  Everything    *)
(* that executes first takes the one WAL mutex of the daemon, a            *)
(* std::sync::Mutex that is not reentrant.  What is executed is abstracted *)
(* to its outcome; module JobLifecycle opens it up.                        *)
(***************************************************************************)
EXTENDS Integers, FiniteSets

CONSTANTS
    Reqs,               \* client requests, each served once
    Kinds,              \* which of the three methods the clients call
    MaxConcurrentJobs,  \* MAX_CONCURRENT_JOBS
    NumWorkers,         \* tokio worker threads
    Free                \* the WAL mutex has no holder

ASSUME DispatchAssumption ==
    /\ IsFiniteSet(Reqs)
    /\ Kinds \subseteq {"run", "dispatch", "observe"}
    /\ MaxConcurrentJobs \in Nat \ {0}
    /\ NumWorkers \in Nat \ {0}
    /\ Free \notin Reqs

VARIABLES
    kind,      \* the method a request calls ("none" before it is served)
    pc,        \* where the request's handler, or its closure, is
    job,       \* the job id a request works on; a generated id is the request itself
    outcome,   \* what the execution came to, until the registry is told
    jobs,      \* BackgroundJobRegistry.jobs: status of every job id
    running,   \* BackgroundJobRegistry.running
    walMutex,  \* holder of DaemonState.wal_mutex
    target     \* the process an observe request spawned from its cmd

vars == <<kind, pc, job, outcome, jobs, running, walMutex, target>>

OnWorker == {"spawned", "reserved", "runWait", "runExec"}
HoldsSlot == {"reserved", "queued", "executing", "parked", "executed", "updated"}
HoldsMutex == {"runExec", "executing", "parked", "executed", "updated", "released"}
Unfinished == {"queued", "executing", "parked", "executed"}
PCs == OnWorker \cup HoldsSlot \cup HoldsMutex \cup {"new", "rejected", "done"}

SlotHolders == {r \in Reqs : pc[r] \in HoldsSlot}
WorkerFree == Cardinality({r \in Reqs : pc[r] \in OnWorker}) < NumWorkers

Goto(r, label) == pc' = [pc EXCEPT ![r] = label]

TypeOK ==
    /\ kind \in [Reqs -> Kinds \cup {"none"}]
    /\ pc \in [Reqs -> PCs]
    /\ job \in [Reqs -> Reqs]
    /\ outcome \in [Reqs -> {"none", "completed", "failed"}]
    /\ jobs \in [Reqs -> {"none", "running", "completed", "failed"}]
    /\ running \in 0..MaxConcurrentJobs
    /\ walMutex \in Reqs \cup {Free}
    /\ target \in [Reqs -> {"none", "alive", "zombie"}]

Init ==
    /\ kind = [r \in Reqs |-> "none"]
    /\ pc = [r \in Reqs |-> "new"]
    /\ job = [r \in Reqs |-> r]
    /\ outcome = [r \in Reqs |-> "none"]
    /\ jobs = [r \in Reqs |-> "none"]
    /\ running = 0
    /\ walMutex = Free
    /\ target = [r \in Reqs |-> "none"]

-----------------------------------------------------------------------------
(* BackgroundJobRegistry                                                   *)

\* Mutant of TryReserve: the limit is off by one.
OneTooMany(r) ==
    \/ running <= MaxConcurrentJobs /\ running' = running + 1 /\ Goto(r, "reserved")
    \/ running > MaxConcurrentJobs /\ Goto(r, "rejected") /\ UNCHANGED running

\* The atomic fetch_update: n < MAX reserves, otherwise the caller is told no.
TryReserve(r) ==
    \/ /\ running < MaxConcurrentJobs
       /\ running' = running + 1
       /\ Goto(r, "reserved")
    \/ /\ running >= MaxConcurrentJobs
       /\ Goto(r, "rejected")
       /\ UNCHANGED running

\* Mutant of Release: the slot is never given back.
ReleaseNothing == UNCHANGED running

\* checked_sub: a release at zero changes nothing.
Release == running' = IF running > 0 THEN running - 1 ELSE running

\* The entry of the id, if there is one, takes the status (entries never leave).
Update(j, status) ==
    jobs' = IF jobs[j] = "none" THEN jobs ELSE [jobs EXCEPT ![j] = status]

-----------------------------------------------------------------------------
(* Handlers, on a tokio worker                                             *)

\* A free worker picks the request up.
Serve(r, k) ==
    /\ pc[r] = "new"
    /\ WorkerFree
    /\ k \in Kinds
    /\ kind' = [kind EXCEPT ![r] = k]

\* Invalid params, unknown capability, dangerous command, bad working_dir or
\* out path, target that does not spawn: answered before anything is reserved.
RejectInvalid(r) ==
    /\ \E k \in Kinds : Serve(r, k)
    /\ Goto(r, "rejected")
    /\ UNCHANGED <<job, outcome, jobs, running, walMutex, target>>

\* handle_run up to the lock: the worker blocks on a std mutex.
RunRequest(r) ==
    /\ Serve(r, "run")
    /\ Goto(r, "runWait")
    /\ UNCHANGED <<job, outcome, jobs, running, walMutex, target>>

RunLock(r) ==
    /\ pc[r] = "runWait"
    /\ walMutex = Free
    /\ walMutex' = r
    /\ Goto(r, "runExec")
    /\ UNCHANGED <<kind, job, outcome, jobs, running, target>>

\* Mutant of RunEnd: no timeout, the execution does not return.
RunHangs(r) ==
    /\ pc[r] = "runExec"
    /\ UNCHANGED vars

\* The execution returns or panics; either way the guard is dropped.
RunEnd(r) ==
    /\ pc[r] = "runExec"
    /\ walMutex' = Free
    /\ Goto(r, "done")
    /\ UNCHANGED <<kind, job, outcome, jobs, running, target>>

\* Mutant of DispatchRequest: the generated id is one already in use.
DispatchUsedId(r) ==
    /\ Serve(r, "dispatch")
    /\ \E q \in Reqs : job' = [job EXCEPT ![r] = q]
    /\ TryReserve(r)
    /\ UNCHANGED <<outcome, jobs, walMutex, target>>

\* handle_dispatch: a fresh id, then try_reserve.
DispatchRequest(r) ==
    /\ Serve(r, "dispatch")
    /\ TryReserve(r)
    /\ UNCHANGED <<job, outcome, jobs, walMutex, target>>

\* handle_observe_start: the client may name the run (any id it has been told),
\* and a cmd is spawned before the slot is asked for.
ObserveRequest(r) ==
    /\ Serve(r, "observe")
    /\ \E id \in {r} \cup {q \in Reqs : kind[q] \in {"dispatch", "observe"}} :
           job' = [job EXCEPT ![r] = id]
    /\ \E t \in {"none", "alive"} : target' = [target EXCEPT ![r] = t]
    /\ Goto(r, "spawned")
    /\ UNCHANGED <<outcome, jobs, running, walMutex>>

ObserveReserve(r) ==
    /\ pc[r] = "spawned"
    /\ TryReserve(r)
    /\ UNCHANGED <<kind, job, outcome, jobs, walMutex, target>>

\* Mutant of InsertAndSpawn: the closure is not handed over.
InsertOnly(r) ==
    /\ pc[r] = "reserved"
    /\ jobs' = [jobs EXCEPT ![job[r]] = "running"]
    /\ UNCHANGED <<kind, pc, job, outcome, running, walMutex, target>>

\* insert overwrites an entry of the same id; then spawn_blocking.
InsertAndSpawn(r) ==
    /\ pc[r] = "reserved"
    /\ jobs' = [jobs EXCEPT ![job[r]] = "running"]
    /\ Goto(r, "queued")
    /\ UNCHANGED <<kind, job, outcome, running, walMutex, target>>

-----------------------------------------------------------------------------
(* Closures, on a thread of the blocking pool                              *)

ClosureLock(r) ==
    /\ pc[r] = "queued"
    /\ walMutex = Free
    /\ walMutex' = r
    /\ Goto(r, "executing")
    /\ UNCHANGED <<kind, job, outcome, jobs, running, target>>

\* execute_with_id returned, or the collection window closed and the bundle was
\* finalized, or either failed or panicked inside catch_unwind.
Finish(r) ==
    /\ pc[r] = "executing"
    /\ \E o \in {"completed", "failed"} : outcome' = [outcome EXCEPT ![r] = o]
    /\ Goto(r, "executed")
    /\ UNCHANGED <<kind, job, jobs, running, walMutex, target>>

\* ObserveSupervisor::gated_tick returned a sample, and locks for the append the
\* mutex it was given: the one its own closure holds (MutexHolder).  A thread
\* that locks a std mutex it holds never comes back.
SampleTick(r) ==
    /\ pc[r] = "executing"
    /\ kind[r] = "observe"
    /\ walMutex # Free
    /\ Goto(r, "parked")
    /\ UNCHANGED <<kind, job, outcome, jobs, running, walMutex, target>>

UpdateJob(r) ==
    /\ pc[r] = "executed"
    /\ Update(job[r], outcome[r])
    /\ outcome' = [outcome EXCEPT ![r] = "none"]
    /\ Goto(r, "updated")
    /\ UNCHANGED <<kind, job, running, walMutex, target>>

ReleaseSlot(r) ==
    /\ pc[r] = "updated"
    /\ Release
    /\ Goto(r, "released")
    /\ UNCHANGED <<kind, job, outcome, jobs, walMutex, target>>

\* The closure ends and drops its guard.
DropGuard(r) ==
    /\ pc[r] = "released"
    /\ walMutex' = Free
    /\ Goto(r, "done")
    /\ UNCHANGED <<kind, job, outcome, jobs, running, target>>

\* The spawned target exits; its Child was dropped, so nobody waits for it.
TargetExit(r) ==
    /\ target[r] = "alive"
    /\ target' = [target EXCEPT ![r] = "zombie"]
    /\ UNCHANGED <<kind, pc, job, outcome, jobs, running, walMutex>>

\* All clients have been answered: the daemon idles.
Idle ==
    /\ \A r \in Reqs : pc[r] \in {"rejected", "done"} /\ target[r] # "alive"
    /\ UNCHANGED vars

-----------------------------------------------------------------------------
Handler(r) ==
    \/ RunLock(r) \/ RunEnd(r)
    \/ ObserveReserve(r) \/ InsertAndSpawn(r)

Closure(r) ==
    \/ ClosureLock(r) \/ Finish(r) \/ SampleTick(r)
    \/ UpdateJob(r) \/ ReleaseSlot(r) \/ DropGuard(r)

Request(r) ==
    \/ RejectInvalid(r) \/ RunRequest(r)
    \/ DispatchRequest(r) \/ ObserveRequest(r)

Next ==
    \/ \E r \in Reqs : Request(r) \/ Handler(r) \/ Closure(r) \/ TargetExit(r)
    \/ Idle

Spec == Init /\ [][Next]_vars

\* A thread that can run does run; what clients ask for is up to them.
Fairness == \A r \in Reqs : WF_vars(Handler(r)) /\ WF_vars(Closure(r))

FairSpec == Spec /\ Fairness

-----------------------------------------------------------------------------
(* Properties                                                              *)

\* The counter that try_reserve reads is exactly the number of requests between
\* a successful try_reserve and their release: no path leaks a slot or gives one
\* back twice, so the no-op of a release at zero never hides an error.
SlotAccounting == running = Cardinality(SlotHolders)

\* Never more than MAX_CONCURRENT_JOBS background jobs are in flight.
SlotLimit == Cardinality(SlotHolders) <= MaxConcurrentJobs

\* The WAL mutex serializes all execution, of workers and of closures: whoever is
\* between its lock and the drop of its guard is the holder, so there is one.
MutexHolder == \A r \in Reqs : (pc[r] \in HoldsMutex) <=> (walMutex = r)

\* A job the registry reports as running has a closure that will report on it.
RunningHasClosure ==
    \A j \in Reqs : jobs[j] = "running" =>
        \E r \in Reqs : job[r] = j /\ pc[r] \in Unfinished

\* What a registry entry says of a finished job is final, unless an observe
\* request reuses the job's id.
FinalStatus ==
    [][\A j \in Reqs :
          /\ jobs[j] \in {"completed", "failed"}
          /\ ~ \E r \in Reqs : kind[r] = "observe" /\ job[r] = j
          => jobs'[j] = jobs[j]]_vars

\* "Short collection window (2s or 100 ticks)": an observe closure that has begun
\* its collection finishes it.
ObserveWindowEnds ==
    \A r \in Reqs : (kind[r] = "observe" /\ pc[r] = "executing") ~> pc[r] = "done"
=============================================================================
