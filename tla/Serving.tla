------------------------------ MODULE Serving -------------------------------
(***************************************************************************)
(* What the daemon has to get done, and by when: requests on their way to  *)
(* the registry and the mutex, jobs that a dead daemon left, a command     *)
(* with a timeout. The parts do not interact here: a behaviour is one of   *)
(* them, and the state of the others does not move. "requests" and         *)
(* "noObserve" are Dispatch itself, the second without the method that can *)
(* park its closure for good.                                              *)
(***************************************************************************)
EXTENDS Dispatch

\* Values of the constants of the other parts.
CONSTANTS None, j1, j2, p1, p2, p3, h1

\* The part a behaviour is of, and the state of a part that is an instance.
VARIABLES
    part,
    x1, x2, x3, x4, x5, x6, x7, x8, x9, x10, x11, x12, x13, x14, x15, x16, x17, x18

slots ==
    <<x1, x2, x3, x4, x5, x6, x7, x8, x9, x10, x11, x12, x13, x14, x15, x16, x17, x18>>
Unused ==
    x1 = 0 /\ x2 = 0 /\ x3 = 0 /\ x4 = 0 /\ x5 = 0 /\ x6 = 0 /\ x7 = 0 /\ x8 = 0
    /\ x9 = 0 /\ x10 = 0 /\ x11 = 0 /\ x12 = 0 /\ x13 = 0 /\ x14 = 0 /\ x15 = 0
    /\ x16 = 0 /\ x17 = 0 /\ x18 = 0

Calm == INSTANCE Dispatch WITH Kinds <- {"run", "dispatch"}, MaxConcurrentJobs <- 1

Recovery == INSTANCE JobLifecycle WITH
    Jobs <- {j1, j2}, CliJobs <- {}, MaxFaults <- 0, MaxCrashes <- 2, wal <- x1, pc <- x2,
    verdict <- x3, backup <- x4, effect <- x5, result <- x6, registry <- x7, walMutex <- x8,
    daemon <- x9, orphans <- x10, faults <- x11, crashes <- x12

Shell == INSTANCE Processes WITH
    Pids <- {p1, p2, p3}, Shells <- {h1}, Kills <- {}, MaxBorn <- 2, proc <- x1, births <-
    x2, shell <- x3, child <- x4, stdin <- x5, expired <- x6, status <- x7, timedOut <- x8,
    verdict <- x9, signalled <- x10, killedAt <- x11, kill <- x12, target <- x13, seen <-
    x14, sent <- x15, still <- x16, killed <- x17, snapshot <- x18

-----------------------------------------------------------------------------
ServingInit ==
    \/ part = "requests" /\ Init /\ Unused
    \/ part = "noObserve" /\ Init /\ Unused
    \/ part = "recovery" /\ Recovery!Init /\ Init /\ x13 = 0 /\ x14 = 0 /\ x15 = 0 /\ x16 = 0
       /\ x17 = 0 /\ x18 = 0
    \/ part = "shell" /\ Shell!ProcInit /\ Init

ServingNext ==
    \/ part = "requests" /\ Next /\ UNCHANGED <<part, slots>>
    \/ part = "noObserve" /\ Calm!Next /\ UNCHANGED <<part, slots>>
    \/ part = "recovery" /\ Recovery!Next /\ UNCHANGED <<part, x13, x14, x15, x16, x17, x18,
       vars>>
    \/ part = "shell" /\ Shell!ProcNext /\ UNCHANGED <<part, vars>>

all == <<part, vars, slots>>

\* The fairness of each part: FairSpec of Dispatch and of JobLifecycle, ProcFairSpec.
ServingFairness ==
    /\ \A r \in Reqs :
          /\ WF_all(part = "noObserve" /\ Calm!Handler(r) /\ UNCHANGED <<part, slots>>)
          /\ WF_all(part = "noObserve" /\ Calm!Closure(r) /\ UNCHANGED <<part, slots>>)
    /\ WF_all(part = "recovery" /\ Recovery!Startup /\ UNCHANGED <<part, vars, x13, x14, x15, x16, x17, x18>>)
    /\ \A j \in {j1, j2} :
          WF_all(part = "recovery" /\ Recovery!Executor(j) /\ UNCHANGED <<part, vars, x13, x14, x15, x16, x17, x18>>)
    /\ WF_all(part = "shell" /\ Shell!ShellStep(h1) /\ UNCHANGED <<part, vars>>)
    /\ WF_all(part = "shell" /\ Shell!Expire(h1) /\ UNCHANGED <<part, vars>>)

ServingSpec == ServingInit /\ [][ServingNext]_all /\ ServingFairness

-----------------------------------------------------------------------------
(* Properties                                                              *)

\* handle_run, handle_dispatch: without observe, every request that waits for the WAL mutex
\* or has a slot comes to its end.
RequestsEnd ==
    \A r \in Reqs : (part = "noObserve" /\ pc[r] \in {"runWait", "reserved"}) ~> pc[r] = "done"

\* handle_run blocks its worker: without observe, a daemon with no free worker gets one back
\* and answers queries again.
WorkersReturn == (part = "noObserve" /\ ~ WorkerFree) ~> WorkerFree

\* reconcile_orphaned_jobs: a started job is closed in the audit trail, by itself or after
\* up to two deaths of the daemon.
TrailsClose ==
    \A j \in {j1, j2} :
        (part = "recovery" /\ "started" \in Recovery!Logged(j)) ~> (part = "recovery" /\ Recovery!Finished(j))

\* wait_with_timeout: a command whose clock runs is answered, unless a process it left behind
\* holds its output open.
TimeoutAnswers ==
    (part = "shell" /\ Shell!Clocked(h1)) ~> (part = "shell" /\ Shell!AnsweredOrHeld(h1))
=============================================================================
