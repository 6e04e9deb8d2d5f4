---------------------------- MODULE JobLifecycle ----------------------------
(***************************************************************************)
(* One execution from acceptance to its last audit event                   *)
(* (core/src/executor.rs, execute_with_id), in the daemon, under its WAL   *)
(* mutex, or in a CLI process, without it; and what a daemon does, when it *)
(* starts, with the jobs it finds unfinished (daemon/src/engine.rs,        *)
(* reconcile_orphaned_jobs).                                               *)
(*                                                                         *)
(* Readers of the WAL select the events of one job, so that the WAL is one *)
(* sequence of events per job; module Wal is about the file.  The gates    *)
(* and the safety assessment are abstracted to their outcomes.             *)
(***************************************************************************)
EXTENDS Integers, Sequences

CONSTANTS
    Jobs,        \* job ids
    CliJobs,     \* those executed outside the daemon that reconciles
    MaxFaults,   \* bound: failed appends and panics
    MaxCrashes,  \* bound: deaths of the daemon
    Free         \* the WAL mutex has no holder

ASSUME JobAssumption ==
    /\ CliJobs \subseteq Jobs
    /\ MaxFaults \in Nat /\ MaxCrashes \in Nat
    /\ Free \notin Jobs

VARIABLES
    wal,       \* the events of each job, in the order of the WAL
    pc,        \* where the execution of each job is
    verdict,   \* the disposition of its safety assessment
    backup,    \* a backup file exists for it
    effect,    \* its side effect happened
    result,    \* what execute_with_id came to
    registry,  \* BackgroundJobRegistry.jobs, if it was dispatched
    walMutex,  \* holder of DaemonState.wal_mutex
    daemon,    \* down, reconciling or up
    orphans,   \* what reconcile_orphaned_jobs has left to close
    faults, crashes

execution == <<verdict, backup, effect, result>>
vars == <<wal, pc, execution, registry, walMutex, daemon, orphans, faults, crashes>>

Terminal == {"completed", "failed"}
Types == {"started", "evaluated", "backup"} \cup Terminal
Executing == {"start", "gates", "actuate", "executing", "logBackup", "logCompleted",
              "logError", "logFailed", "returned"}
PCs == Executing \cup {"new", "queued", "done", "dead"}

Logged(j) == {wal[j][i] : i \in DOMAIN wal[j]}
Finished(j) == Logged(j) \cap Terminal # {}

TypeOK ==
    /\ wal \in [Jobs -> Seq(Types)]
    /\ pc \in [Jobs -> PCs]
    /\ verdict \in [Jobs -> {"none", "allow", "block"}]
    /\ backup \in [Jobs -> BOOLEAN]
    /\ effect \in [Jobs -> BOOLEAN]
    /\ result \in [Jobs -> {"none", "ok", "notOk", "error"}]
    /\ registry \in [Jobs -> {"none", "running"} \cup Terminal]
    /\ walMutex \in Jobs \cup {Free}
    /\ daemon \in {"down", "reconciling", "up"}
    /\ orphans \subseteq Jobs
    /\ faults \in 0..MaxFaults
    /\ crashes \in 0..MaxCrashes

Init ==
    /\ wal = [j \in Jobs |-> <<>>]
    /\ pc = [j \in Jobs |-> "new"]
    /\ verdict = [j \in Jobs |-> "none"]
    /\ backup = [j \in Jobs |-> FALSE]
    /\ effect = [j \in Jobs |-> FALSE]
    /\ result = [j \in Jobs |-> "none"]
    /\ registry = [j \in Jobs |-> "none"]
    /\ walMutex = Free
    /\ daemon = "down"
    /\ orphans = {}
    /\ faults = 0
    /\ crashes = 0

-----------------------------------------------------------------------------
(* Appending                                                               *)

Goto(j, label) == pc' = [pc EXCEPT ![j] = label]

AppendOk(j, type) ==
    /\ wal' = [wal EXCEPT ![j] = Append(@, type)]
    /\ UNCHANGED faults

\* append returns an error; the line may be in the file all the same.
AppendError(j, type) ==
    /\ faults < MaxFaults
    /\ faults' = faults + 1
    /\ wal' \in {wal, [wal EXCEPT ![j] = Append(@, type)]}

\* `let _ =` and `if let Err(e)`: the error is dropped or logged.
BestEffort(j, type) == AppendOk(j, type) \/ AppendError(j, type)

\* `?`: on error execute_with_id returns Err at once.
Return(j, r) ==
    /\ result' = [result EXCEPT ![j] = r]
    /\ Goto(j, "returned")

\* Mutant of MustAppend: the error is dropped, as for a best-effort append.
IgnoreError(j, type, next) == BestEffort(j, type) /\ Goto(j, next) /\ UNCHANGED result

MustAppend(j, type, next) ==
    \/ AppendOk(j, type) /\ Goto(j, next) /\ UNCHANGED result
    \/ AppendError(j, type) /\ Return(j, "error")

environment == <<registry, walMutex, daemon, orphans, crashes>>

-----------------------------------------------------------------------------
(* The executor                                                            *)

\* A CLI process executes at once; the daemon's `run` waits for the mutex, and
\* so does the closure of its `dispatch`, which the registry reports as running.
Submit(j) ==
    /\ pc[j] = "new"
    /\ \/ /\ j \in CliJobs
          /\ Goto(j, "start")
          /\ UNCHANGED registry
       \/ /\ j \notin CliJobs
          /\ daemon = "up"
          /\ Goto(j, "queued")
          /\ registry' \in {registry, [registry EXCEPT ![j] = "running"]}
    /\ UNCHANGED <<wal, execution, walMutex, daemon, orphans, faults, crashes>>

LockWal(j) ==
    /\ pc[j] = "queued"
    /\ walMutex = Free
    /\ walMutex' = j
    /\ Goto(j, "start")
    /\ UNCHANGED <<wal, execution, registry, daemon, orphans, faults, crashes>>

\* WalWriter::create and JobStarted.
Start(j) ==
    /\ pc[j] = "start"
    /\ MustAppend(j, "started", "gates")
    /\ UNCHANGED <<verdict, backup, effect, environment>>

\* The circuit breaker, the zombie count, the size of args, a zero timeout or a
\* safety analysis that fails.
Reject(j) ==
    /\ pc[j] = "gates"
    /\ BestEffort(j, "failed")
    /\ Return(j, "error")
    /\ UNCHANGED <<verdict, backup, effect, environment>>

\* The most severe disposition of the eligible fields is persisted.
Evaluate(j) ==
    /\ pc[j] = "gates"
    /\ \E d \in {"allow", "block"} : verdict' = [verdict EXCEPT ![j] = d]
    /\ MustAppend(j, "evaluated", "actuate")
    /\ UNCHANGED <<backup, effect, environment>>

\* Escalate, Reject and Fatal.
Block(j) ==
    /\ pc[j] = "actuate"
    /\ verdict[j] = "block"
    /\ BestEffort(j, "failed")
    /\ Return(j, "error")
    /\ UNCHANGED <<verdict, backup, effect, environment>>

\* Allow and AllowWithWarning.
Execute(j) ==
    /\ pc[j] = "actuate"
    /\ verdict[j] = "allow"
    /\ Goto(j, "executing")
    /\ UNCHANGED <<wal, execution, environment, faults>>

\* A capability that changes a file makes a copy of it first.
BackUp(j) ==
    /\ pc[j] = "executing"
    /\ ~ backup[j] /\ ~ effect[j]
    /\ backup' = [backup EXCEPT ![j] = TRUE]
    /\ UNCHANGED <<wal, pc, verdict, effect, result, environment, faults>>

Act(j) ==
    /\ pc[j] = "executing"
    /\ ~ effect[j]
    /\ effect' = [effect EXCEPT ![j] = TRUE]
    /\ UNCHANGED <<wal, pc, verdict, backup, result, environment, faults>>

\* Ok(output), whose status is "ok" or not (a success past its timeout stays Ok),
\* or Err, whatever the capability has done by then.
CapabilityReturns(j) ==
    /\ pc[j] = "executing"
    /\ \/ /\ \E r \in {"ok", "notOk"} : result' = [result EXCEPT ![j] = r]
          /\ Goto(j, "logBackup")
       \/ /\ Goto(j, "logError")
          /\ UNCHANGED result
    /\ UNCHANGED <<wal, verdict, backup, effect, environment, faults>>

\* catch_unwind (dispatch) or the task (run) turns a panic into a failure and the
\* mutex is taken over poisoned; a CLI process dies of it.
Panic(j) ==
    /\ pc[j] = "executing"
    /\ faults < MaxFaults
    /\ faults' = faults + 1
    /\ IF j \in CliJobs
       THEN Goto(j, "dead") /\ UNCHANGED result
       ELSE Return(j, "error")
    /\ UNCHANGED <<wal, verdict, backup, effect, environment>>

\* BackupCreated, if the output names a backup, before the fallible JobCompleted.
LogBackup(j) ==
    /\ pc[j] = "logBackup"
    /\ \/ backup[j] /\ MustAppend(j, "backup", "logCompleted")
       \/ ~ backup[j] /\ Goto(j, "logCompleted") /\ UNCHANGED <<wal, result, faults>>
    /\ UNCHANGED <<verdict, backup, effect, environment>>

\* JobCompleted, whatever output.status is.
LogCompleted(j) ==
    /\ pc[j] = "logCompleted"
    /\ MustAppend(j, "completed", "returned")
    /\ UNCHANGED <<verdict, backup, effect, environment>>

\* The capability failed: a backup it left behind is found and audited, then
\* JobFailed.
LogErrorBackup(j) ==
    /\ pc[j] = "logError"
    /\ \/ backup[j] /\ BestEffort(j, "backup")
       \/ ~ backup[j] /\ UNCHANGED <<wal, faults>>
    /\ Goto(j, "logFailed")
    /\ UNCHANGED <<execution, environment>>

LogFailed(j) ==
    /\ pc[j] = "logFailed"
    /\ BestEffort(j, "failed")
    /\ Return(j, "error")
    /\ UNCHANGED <<verdict, backup, effect, environment>>

\* Mutant of Told: the registry gets the output's word for it.
Untranslated(r) == r

\* What the registry is told of a result.
Told(r) == IF r = "ok" THEN "completed" ELSE "failed"

\* The registry is told, the guard dropped.
Report(j) ==
    /\ pc[j] = "returned"
    /\ Goto(j, "done")
    /\ registry' = IF registry[j] = "none" THEN registry
                   ELSE [registry EXCEPT ![j] = Told(result[j])]
    /\ walMutex' = IF walMutex = j THEN Free ELSE walMutex
    /\ UNCHANGED <<wal, execution, daemon, orphans, faults, crashes>>

-----------------------------------------------------------------------------
(* The daemon dies and starts                                              *)

\* Its jobs die with it, and so do the registry and the mutex.
Crash ==
    /\ daemon # "down"
    /\ crashes < MaxCrashes
    /\ crashes' = crashes + 1
    /\ daemon' = "down"
    /\ pc' = [j \in Jobs |-> IF j \notin CliJobs /\ pc[j] \notin {"new", "done"}
                             THEN "dead" ELSE pc[j]]
    /\ registry' = [j \in Jobs |-> "none"]
    /\ walMutex' = Free
    /\ orphans' = {}
    /\ UNCHANGED <<wal, execution, faults>>

CliKilled(j) ==
    /\ j \in CliJobs
    /\ pc[j] \in Executing
    /\ Goto(j, "dead")
    /\ UNCHANGED <<wal, execution, environment, faults>>

\* Mutants of Orphaned: only JobCompleted ends a job; only a job that got as far as
\* its assessment is looked for.
NotCompleted == {j \in Jobs : "started" \in Logged(j) /\ "completed" \notin Logged(j)}
OnlyEvaluated == {j \in Jobs : "evaluated" \in Logged(j) /\ ~ Finished(j)}

\* load_all: the jobs with a JobStarted and neither JobCompleted nor JobFailed.
Orphaned == {j \in Jobs : "started" \in Logged(j) /\ ~ Finished(j)}

\* run(), up to the load; a WAL that cannot be read or opened is skipped.
DaemonStart ==
    /\ daemon = "down"
    /\ daemon' = "reconciling"
    /\ \/ orphans' = Orphaned /\ UNCHANGED faults
       \/ faults < MaxFaults /\ faults' = faults + 1 /\ orphans' = {}
    /\ UNCHANGED <<wal, pc, execution, registry, walMutex, crashes>>

\* One JobFailed per orphan of that load; an append error is logged.
Reconcile(j) ==
    /\ daemon = "reconciling"
    /\ j \in orphans
    /\ BestEffort(j, "failed")
    /\ orphans' = orphans \ {j}
    /\ UNCHANGED <<pc, execution, registry, walMutex, daemon, crashes>>

Listen ==
    /\ daemon = "reconciling"
    /\ orphans = {}
    /\ daemon' = "up"
    /\ UNCHANGED <<wal, pc, execution, registry, walMutex, orphans, faults, crashes>>

-----------------------------------------------------------------------------
(* handle_status and handle_jobs                                           *)

InRegistry(j) == daemon = "up" /\ registry[j] # "none"

\* Mutant of WalStatus: the last event decides, as in handle_jobs.
LastEventStatus(j) ==
    IF wal[j] = <<>> THEN "not found"
    ELSE LET last == wal[j][Len(wal[j])] IN IF last \in Terminal THEN last ELSE "unknown"

WalStatus(j) ==
    IF "started" \notin Logged(j) THEN "not found"
    ELSE IF "completed" \in Logged(j) THEN "completed"
    ELSE IF "failed" \in Logged(j) THEN "failed"
    ELSE "unknown"

\* The registry first, then the WAL.
Status(j) == IF InRegistry(j) THEN registry[j] ELSE WalStatus(j)

LastTerminal(j) ==
    CHOOSE type \in Terminal : \E k \in DOMAIN wal[j] :
        wal[j][k] = type /\ \A i \in DOMAIN wal[j] : i > k => wal[j][i] \notin Terminal

\* How handle_jobs lists a job: the last terminal event decides, a start is not needed.
Listed(j) ==
    IF InRegistry(j) THEN registry[j]
    ELSE IF Finished(j) THEN LastTerminal(j)
    ELSE IF "started" \in Logged(j) THEN "unknown"
    ELSE "not found"

-----------------------------------------------------------------------------
Executor(j) ==
    \/ LockWal(j) \/ Start(j) \/ Reject(j) \/ Evaluate(j) \/ Block(j) \/ Execute(j)
    \/ BackUp(j) \/ Act(j) \/ CapabilityReturns(j) \/ Panic(j)
    \/ LogBackup(j) \/ LogCompleted(j) \/ LogErrorBackup(j) \/ LogFailed(j) \/ Report(j)

Startup == DaemonStart \/ Listen \/ \E j \in Jobs : Reconcile(j)

Next ==
    \/ Crash \/ Startup
    \/ \E j \in Jobs : Submit(j) \/ Executor(j) \/ CliKilled(j)

Spec == Init /\ [][Next]_vars

\* Threads run, capabilities return, and a daemon that died is started again (the
\* CLI does so before it dispatches).
FairSpec == Spec /\ WF_vars(Startup) /\ \A j \in Jobs : WF_vars(Executor(j))

-----------------------------------------------------------------------------
(* Properties                                                              *)

\* "Persistence MUST succeed before the governed side effect runs": whatever a job
\* did to the machine, an allowing SafetyEvaluated was in the WAL before.
GovernedEffect ==
    \A j \in Jobs : backup[j] \/ effect[j] =>
        verdict[j] = "allow" /\ "evaluated" \in Logged(j)

\* "every JobFailed has a preceding JobStarted for the same job_id": every event of
\* a job comes after its one JobStarted, and a backup or a completion is only ever
\* recorded after the assessment that allowed it.
Precedes(j, a, b) ==
    \A k \in DOMAIN wal[j] : wal[j][k] = b => \E i \in 1..(k - 1) : wal[j][i] = a
AuditOrder ==
    \A j \in Jobs :
        /\ \A i \in DOMAIN wal[j] : wal[j][i] = "started" => i = 1
        /\ \A type \in Types \ {"started"} : Precedes(j, "started", type)
        /\ \A type \in {"backup", "completed"} : Precedes(j, "evaluated", type)

\* The audit trail of a job of the daemon is closed once, by itself or by
\* reconciliation, whatever crashes and append errors came between.
SingleTerminal ==
    \A j \in Jobs \ CliJobs : \A i, k \in DOMAIN wal[j] :
        wal[j][i] \in Terminal /\ wal[j][k] \in Terminal => i = k

\* Nothing is logged as completed whose backup undo could not find.
CompletedIsUndoable ==
    \A j \in Jobs : "completed" \in Logged(j) /\ backup[j] => "backup" \in Logged(j)

\* A job that status reported as completed is completed for good, across crashes,
\* restarts and reconciliation.
CompletedForGood ==
    [][\A j \in Jobs : Status(j) = "completed" => Status(j)' = "completed"]_vars

\* The two queries that report on a job of the daemon read the WAL in their own ways
\* and say the same, through crashes, append errors and reconciliation.
QueriesAgree == \A j \in Jobs \ CliJobs : Listed(j) = Status(j)

\* "no permanently "unknown" jobs after recovery": when a daemon serves, a job that
\* an earlier one started and did not finish is closed.
RecoveredDefinite ==
    daemon = "up" => \A j \in Jobs \ CliJobs :
        pc[j] = "dead" /\ "started" \in Logged(j) => Finished(j)

\* "These are jobs that were dispatched before the daemon terminated": what
\* reconciliation closes is not being executed.
ReconcilesOnlyDead ==
    [][\A j \in orphans \ orphans' : daemon' = "reconciling" => pc[j] \in {"dead", "done"}]_vars
=============================================================================
