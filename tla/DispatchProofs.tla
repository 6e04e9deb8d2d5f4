--------------------------- MODULE DispatchProofs ---------------------------
(***************************************************************************)
(* The safety invariants of module Dispatch, for any finite set of         *)
(* requests, any limit on background jobs and any number of workers.       *)
(* TypeOK is inductive; the three other invariants are each inductive      *)
(* relative to it.                                                         *)
(***************************************************************************)
EXTENDS Dispatch, FiniteSetTheorems, TLAPS

-----------------------------------------------------------------------------
(* How moving one request changes the set of slot holders.                 *)

LEMMA HoldersFinite ==
    /\ IsFiniteSet(SlotHolders)
    /\ Cardinality(SlotHolders) \in Nat
  <1>1. SlotHolders \in SUBSET Reqs
    BY DEF SlotHolders
  <1>2. IsFiniteSet(SlotHolders)
    BY <1>1, DispatchAssumption, FS_Subset
  <1>. QED
    BY <1>2, FS_CardinalityType

LEMMA HoldersStay ==
    ASSUME TypeOK, NEW r \in Reqs, NEW label \in PCs, Goto(r, label),
           pc[r] \in HoldsSlot <=> label \in HoldsSlot
    PROVE  SlotHolders' = SlotHolders
  BY DEF TypeOK, Goto, SlotHolders

LEMMA HoldersEnter ==
    ASSUME TypeOK, NEW r \in Reqs, NEW label \in PCs, Goto(r, label),
           pc[r] \notin HoldsSlot, label \in HoldsSlot
    PROVE  Cardinality(SlotHolders') = Cardinality(SlotHolders) + 1
  <1>1. SlotHolders' = SlotHolders \cup {r}
    BY DEF TypeOK, Goto, SlotHolders
  <1>2. r \notin SlotHolders
    BY DEF SlotHolders
  <1>. QED
    BY <1>1, <1>2, HoldersFinite, FS_AddElement

LEMMA HoldersLeave ==
    ASSUME TypeOK, NEW r \in Reqs, NEW label \in PCs, Goto(r, label),
           pc[r] \in HoldsSlot, label \notin HoldsSlot
    PROVE  Cardinality(SlotHolders') = Cardinality(SlotHolders) - 1
  <1>1. SlotHolders' = SlotHolders \ {r}
    BY DEF TypeOK, Goto, SlotHolders
  <1>2. r \in SlotHolders
    BY DEF SlotHolders
  <1>. QED
    BY <1>1, <1>2, HoldersFinite, FS_RemoveElement

-----------------------------------------------------------------------------
(* Every step is an action of one request, or leaves the state alone.      *)

LEMMA StepCases ==
    ASSUME [Next]_vars,
           NEW ACTION P,
           UNCHANGED vars => P,
           \A r \in Reqs :
               \/ RejectInvalid(r) \/ RunRequest(r)
               \/ DispatchRequest(r) \/ ObserveRequest(r)
               \/ RunLock(r) \/ RunEnd(r)
               \/ ObserveReserve(r) \/ InsertAndSpawn(r)
               \/ ClosureLock(r) \/ Finish(r) \/ SampleTick(r)
               \/ UpdateJob(r) \/ ReleaseSlot(r) \/ DropGuard(r)
               \/ TargetExit(r)
               => P
    PROVE  P
  BY DEF Next, Request, Handler, Closure, Idle

\* Type correctness.
THEOREM TypeCorrect == Spec => []TypeOK
  <1> USE DEF TypeOK, PCs, OnWorker, HoldsSlot, HoldsMutex
  <1>1. Init => TypeOK
    BY DispatchAssumption DEF Init
  <1>2. TypeOK /\ [Next]_vars => TypeOK'
    <2> SUFFICES ASSUME TypeOK, [Next]_vars
                 PROVE  TypeOK'
      OBVIOUS
    <2>1. ASSUME UNCHANGED vars
          PROVE  TypeOK'
      BY <2>1 DEF vars
    <2>2. ASSUME NEW r \in Reqs
          PROVE  /\ RejectInvalid(r) => TypeOK'
                 /\ RunRequest(r) => TypeOK'
                 /\ ObserveRequest(r) => TypeOK'
      BY DEF RejectInvalid, RunRequest, ObserveRequest, Serve, Goto
    <2>3. ASSUME NEW r \in Reqs
          PROVE  /\ DispatchRequest(r) => TypeOK'
                 /\ ObserveReserve(r) => TypeOK'
      BY DispatchAssumption
         DEF DispatchRequest, ObserveReserve, TryReserve, Serve, Goto
    <2>4. ASSUME NEW r \in Reqs
          PROVE  /\ RunLock(r) => TypeOK'
                 /\ RunEnd(r) => TypeOK'
                 /\ InsertAndSpawn(r) => TypeOK'
      BY DEF RunLock, RunEnd, InsertAndSpawn, Goto
    <2>5. ASSUME NEW r \in Reqs
          PROVE  /\ ClosureLock(r) => TypeOK'
                 /\ Finish(r) => TypeOK'
                 /\ SampleTick(r) => TypeOK'
      BY DEF ClosureLock, Finish, SampleTick, Goto
    <2>6. ASSUME NEW r \in Reqs
          PROVE  UpdateJob(r) => TypeOK'
      BY DEF UpdateJob, Update, Goto
    <2>7. ASSUME NEW r \in Reqs
          PROVE  /\ ReleaseSlot(r) => TypeOK'
                 /\ DropGuard(r) => TypeOK'
                 /\ TargetExit(r) => TypeOK'
      BY DispatchAssumption DEF ReleaseSlot, Release, DropGuard, TargetExit, Goto
    <2>. QED
      BY <2>1, <2>2, <2>3, <2>4, <2>5, <2>6, <2>7, StepCases
  <1>. QED
    BY <1>1, <1>2, PTL DEF Spec

-----------------------------------------------------------------------------
\* The counter of the registry counts the slot holders, in every reachable state.
THEOREM SlotsAccounted == Spec => []SlotAccounting
  <1>1. Init => SlotAccounting
    <2> SUFFICES ASSUME Init PROVE SlotAccounting
      OBVIOUS
    <2>1. SlotHolders = {}
      BY DEF Init, SlotHolders, HoldsSlot
    <2>. QED
      BY <2>1, FS_EmptySet DEF Init, SlotAccounting
  <1>2. TypeOK /\ SlotAccounting /\ [Next]_vars => SlotAccounting'
    <2> SUFFICES ASSUME TypeOK, SlotAccounting, [Next]_vars
                 PROVE  SlotAccounting'
      OBVIOUS
    <2> USE DEF SlotAccounting
    <2>0. ASSUME NEW r \in Reqs, NEW label \in PCs, Goto(r, label),
                 running' = running,
                 pc[r] \in HoldsSlot <=> label \in HoldsSlot
          PROVE  SlotAccounting'
      BY <2>0, HoldersStay
    <2>1. ASSUME UNCHANGED vars
          PROVE  SlotAccounting'
      BY <2>1 DEF vars, SlotHolders
    <2>2. ASSUME NEW r \in Reqs
          PROVE  /\ RejectInvalid(r) => SlotAccounting'
                 /\ RunRequest(r) => SlotAccounting'
                 /\ ObserveRequest(r) => SlotAccounting'
      BY <2>0 DEF RejectInvalid, RunRequest, ObserveRequest, Serve,
                  PCs, OnWorker, HoldsSlot, HoldsMutex
    <2>3. ASSUME NEW r \in Reqs, TryReserve(r), pc[r] \notin HoldsSlot
          PROVE  SlotAccounting'
      <3>1. CASE running' = running + 1 /\ Goto(r, "reserved")
        BY <3>1, <2>3, HoldersEnter DEF PCs, OnWorker, HoldsSlot
      <3>2. CASE running' = running /\ Goto(r, "rejected")
        BY <3>2, <2>0, <2>3 DEF PCs, HoldsSlot
      <3>. QED
        BY <2>3, <3>1, <3>2 DEF TryReserve
    <2>4. ASSUME NEW r \in Reqs
          PROVE  /\ DispatchRequest(r) => SlotAccounting'
                 /\ ObserveReserve(r) => SlotAccounting'
      BY <2>3 DEF DispatchRequest, ObserveReserve, Serve, HoldsSlot
    <2>5. ASSUME NEW r \in Reqs
          PROVE  /\ RunLock(r) => SlotAccounting'
                 /\ RunEnd(r) => SlotAccounting'
                 /\ InsertAndSpawn(r) => SlotAccounting'
      BY <2>0 DEF RunLock, RunEnd, InsertAndSpawn,
                  PCs, OnWorker, HoldsSlot, HoldsMutex
    <2>6. ASSUME NEW r \in Reqs
          PROVE  /\ ClosureLock(r) => SlotAccounting'
                 /\ Finish(r) => SlotAccounting'
                 /\ SampleTick(r) => SlotAccounting'
                 /\ UpdateJob(r) => SlotAccounting'
                 /\ DropGuard(r) => SlotAccounting'
      BY <2>0 DEF ClosureLock, Finish, SampleTick, UpdateJob, DropGuard,
                  PCs, OnWorker, HoldsSlot, HoldsMutex
    <2>7. ASSUME NEW r \in Reqs, ReleaseSlot(r)
          PROVE  SlotAccounting'
      <3>1. Cardinality(SlotHolders') = Cardinality(SlotHolders) - 1
        BY <2>7, HoldersLeave
           DEF ReleaseSlot, PCs, OnWorker, HoldsSlot, HoldsMutex
      <3>2. r \in SlotHolders
        BY <2>7 DEF ReleaseSlot, SlotHolders, HoldsSlot
      <3>3. Cardinality(SlotHolders) > 0
        BY <3>2, HoldersFinite, FS_EmptySet
      <3>. QED
        BY <3>1, <3>3, <2>7, HoldersFinite DEF ReleaseSlot, Release
    <2>8. ASSUME NEW r \in Reqs
          PROVE  TargetExit(r) => SlotAccounting'
      BY DEF TargetExit, SlotHolders
    <2>. QED
      BY <2>1, <2>2, <2>4, <2>5, <2>6, <2>7, <2>8, StepCases
  <1>. QED
    BY <1>1, <1>2, TypeCorrect, PTL DEF Spec

\* At most MAX_CONCURRENT_JOBS background jobs are in flight.
THEOREM SlotsLimited == Spec => []SlotLimit
  <1>1. TypeOK /\ SlotAccounting => SlotLimit
    BY DispatchAssumption DEF TypeOK, SlotAccounting, SlotLimit
  <1>. QED
    BY <1>1, TypeCorrect, SlotsAccounted, PTL

-----------------------------------------------------------------------------
\* Whoever is between its lock of the WAL mutex and the drop of its guard holds
\* the mutex: at most one capability executes at a time.
THEOREM ExecutionSerial == Spec => []MutexHolder
  <1>1. Init => MutexHolder
    BY DispatchAssumption DEF Init, MutexHolder, HoldsMutex
  <1>2. TypeOK /\ MutexHolder /\ [Next]_vars => MutexHolder'
    <2> SUFFICES ASSUME TypeOK, MutexHolder, [Next]_vars
                 PROVE  MutexHolder'
      OBVIOUS
    <2> USE DEF MutexHolder
    <2>0. ASSUME NEW r \in Reqs, NEW label \in PCs, Goto(r, label),
                 walMutex' = walMutex,
                 pc[r] \in HoldsMutex <=> label \in HoldsMutex
          PROVE  MutexHolder'
      BY <2>0 DEF TypeOK, Goto
    <2>1. ASSUME UNCHANGED vars
          PROVE  MutexHolder'
      BY <2>1 DEF vars
    <2>2. ASSUME NEW r \in Reqs, NEW label \in HoldsMutex, Goto(r, label),
                 walMutex = Free, walMutex' = r
          PROVE  MutexHolder'
      BY <2>2, DispatchAssumption DEF TypeOK, Goto
    <2>3. ASSUME NEW r \in Reqs, Goto(r, "done"),
                 pc[r] \in HoldsMutex, walMutex' = Free
          PROVE  MutexHolder'
      BY <2>3, DispatchAssumption DEF TypeOK, Goto, HoldsMutex
    <2>4. ASSUME NEW r \in Reqs
          PROVE  /\ RejectInvalid(r) => MutexHolder'
                 /\ RunRequest(r) => MutexHolder'
                 /\ ObserveRequest(r) => MutexHolder'
                 /\ DispatchRequest(r) => MutexHolder'
                 /\ ObserveReserve(r) => MutexHolder'
                 /\ InsertAndSpawn(r) => MutexHolder'
      BY <2>0 DEF RejectInvalid, RunRequest, ObserveRequest, DispatchRequest,
                  ObserveReserve, InsertAndSpawn, Serve, TryReserve,
                  PCs, OnWorker, HoldsSlot, HoldsMutex
    <2>5. ASSUME NEW r \in Reqs
          PROVE  /\ RunLock(r) => MutexHolder'
                 /\ ClosureLock(r) => MutexHolder'
      BY <2>2 DEF RunLock, ClosureLock, HoldsMutex
    <2>6. ASSUME NEW r \in Reqs
          PROVE  /\ RunEnd(r) => MutexHolder'
                 /\ DropGuard(r) => MutexHolder'
      BY <2>3 DEF RunEnd, DropGuard, HoldsMutex
    <2>7. ASSUME NEW r \in Reqs
          PROVE  /\ Finish(r) => MutexHolder'
                 /\ SampleTick(r) => MutexHolder'
                 /\ UpdateJob(r) => MutexHolder'
                 /\ ReleaseSlot(r) => MutexHolder'
                 /\ TargetExit(r) => MutexHolder'
      BY <2>0 DEF Finish, SampleTick, UpdateJob, ReleaseSlot, TargetExit,
                  PCs, OnWorker, HoldsSlot, HoldsMutex
    <2>. QED
      BY <2>1, <2>4, <2>5, <2>6, <2>7, StepCases
  <1>. QED
    BY <1>1, <1>2, TypeCorrect, PTL DEF Spec

-----------------------------------------------------------------------------
\* A job reported as running has a closure that will still report on it.
THEOREM RunningJobsOwned == Spec => []RunningHasClosure
  <1>1. Init => RunningHasClosure
    BY DEF Init, RunningHasClosure
  <1>2. TypeOK /\ RunningHasClosure /\ [Next]_vars => RunningHasClosure'
    <2> SUFFICES ASSUME TypeOK, RunningHasClosure, [Next]_vars
                 PROVE  RunningHasClosure'
      OBVIOUS
    <2> USE DEF RunningHasClosure
    <2>0. ASSUME NEW r \in Reqs, NEW label \in PCs, Goto(r, label),
                 UNCHANGED <<job, jobs>>,
                 pc[r] \in Unfinished => label \in Unfinished
          PROVE  RunningHasClosure'
      BY <2>0 DEF TypeOK, Goto
    <2>1. ASSUME UNCHANGED vars
          PROVE  RunningHasClosure'
      BY <2>1 DEF vars
    <2>2. ASSUME NEW r \in Reqs
          PROVE  /\ RejectInvalid(r) => RunningHasClosure'
                 /\ RunRequest(r) => RunningHasClosure'
                 /\ DispatchRequest(r) => RunningHasClosure'
                 /\ ObserveReserve(r) => RunningHasClosure'
                 /\ RunLock(r) => RunningHasClosure'
                 /\ RunEnd(r) => RunningHasClosure'
      BY <2>0 DEF RejectInvalid, RunRequest, DispatchRequest, ObserveReserve,
                  RunLock, RunEnd, Serve, TryReserve,
                  PCs, OnWorker, HoldsSlot, HoldsMutex, Unfinished
    <2>3. ASSUME NEW r \in Reqs, ObserveRequest(r)
          PROVE  RunningHasClosure'
      <3>1. \A q \in Reqs : pc[q] \in Unfinished =>
                                /\ pc'[q] \in Unfinished
                                /\ job'[q] = job[q]
        BY <2>3 DEF ObserveRequest, Serve, Goto, TypeOK, Unfinished
      <3>2. jobs' = jobs
        BY <2>3 DEF ObserveRequest
      <3>. QED
        BY <3>1, <3>2
    <2>4. ASSUME NEW r \in Reqs, InsertAndSpawn(r)
          PROVE  RunningHasClosure'
      <3>1. /\ job' = job
            /\ pc'[r] \in Unfinished
            /\ \A q \in Reqs : pc[q] \in Unfinished => pc'[q] \in Unfinished
        BY <2>4 DEF InsertAndSpawn, Goto, TypeOK, Unfinished
      <3>2. \A j \in Reqs : j # job[r] => jobs'[j] = jobs[j]
        BY <2>4 DEF InsertAndSpawn, TypeOK
      <3>. QED
        BY <3>1, <3>2
    <2>5. ASSUME NEW r \in Reqs
          PROVE  /\ ClosureLock(r) => RunningHasClosure'
                 /\ Finish(r) => RunningHasClosure'
                 /\ SampleTick(r) => RunningHasClosure'
                 /\ ReleaseSlot(r) => RunningHasClosure'
                 /\ DropGuard(r) => RunningHasClosure'
                 /\ TargetExit(r) => RunningHasClosure'
      BY <2>0 DEF ClosureLock, Finish, SampleTick, ReleaseSlot, DropGuard,
                  TargetExit, PCs, OnWorker, HoldsSlot, HoldsMutex, Unfinished
    <2>6. ASSUME NEW r \in Reqs, UpdateJob(r)
          PROVE  RunningHasClosure'
      <3>1. /\ job' = job
            /\ \A q \in Reqs \ {r} : pc'[q] = pc[q]
        BY <2>6 DEF UpdateJob, Goto, TypeOK
      <3>2. jobs'[job[r]] # "running"
        BY <2>6 DEF UpdateJob, Update, TypeOK
      <3>3. \A j \in Reqs : j # job[r] => jobs'[j] = jobs[j]
        BY <2>6 DEF UpdateJob, Update, TypeOK
      <3>. QED
        BY <3>1, <3>2, <3>3
    <2>. QED
      BY <2>1, <2>2, <2>3, <2>4, <2>5, <2>6, StepCases
  <1>. QED
    BY <1>1, <1>2, TypeCorrect, PTL DEF Spec

-----------------------------------------------------------------------------
(* A finished entry can change only if somebody still works under its id.  *)
(* A generated id is the request itself, so that for an id no observe      *)
(* request has taken it can only be the request, and that has passed the   *)
(* update.  The code relies on it: the id is all that                      *)
(* BackgroundJobRegistry::insert and ::update are given.                   *)

Observed(j) == \E r \in Reqs : kind[r] = "observe" /\ job[r] = j

Past == {"updated", "released", "done"}

Finality ==
    /\ \A r \in Reqs : pc[r] = "new" => kind[r] = "none"
    /\ \A r \in Reqs : kind[r] # "observe" => job[r] = r
    /\ \A j \in Reqs : jobs[j] \in {"completed", "failed"} /\ ~ Observed(j) => pc[j] \in Past

\* An id that an observe request has taken stays taken: a request is served once.
LEMMA ObservedStays ==
    ASSUME TypeOK, Finality, [Next]_vars, NEW j \in Reqs, Observed(j)
    PROVE  Observed(j)'
  <1>1. PICK r \in Reqs : kind[r] = "observe" /\ job[r] = j
    BY DEF Observed
  <1>2. pc[r] # "new"
    BY <1>1 DEF Finality
  <1>. SUFFICES kind'[r] = kind[r] /\ job'[r] = job[r]
    BY <1>1 DEF Observed
  <1>. DEFINE Kept == kind'[r] = kind[r] /\ job'[r] = job[r]
  <1>3. UNCHANGED vars => Kept
    BY DEF vars
  <1>4. ASSUME NEW q \in Reqs
        PROVE  /\ RejectInvalid(q) => Kept
               /\ RunRequest(q) => Kept
               /\ DispatchRequest(q) => Kept
               /\ ObserveRequest(q) => Kept
    BY <1>2 DEF RejectInvalid, RunRequest, DispatchRequest, ObserveRequest, Serve, TypeOK
  <1>5. ASSUME NEW q \in Reqs
        PROVE  /\ RunLock(q) \/ RunEnd(q) \/ ObserveReserve(q) \/ InsertAndSpawn(q) => Kept
               /\ ClosureLock(q) \/ Finish(q) \/ SampleTick(q) \/ UpdateJob(q) => Kept
               /\ ReleaseSlot(q) \/ DropGuard(q) \/ TargetExit(q) => Kept
    BY DEF RunLock, RunEnd, ObserveReserve, InsertAndSpawn, ClosureLock, Finish, SampleTick,
           UpdateJob, ReleaseSlot, DropGuard, TargetExit
  <1>. QED
    BY <1>3, <1>4, <1>5, StepCases

\* What a request does to the entries it does not work on, and to its own.
LEMMA FinalityStep == TypeOK /\ Finality /\ [Next]_vars => Finality'
  <1> SUFFICES ASSUME TypeOK, Finality, [Next]_vars
               PROVE  Finality'
    OBVIOUS
  <1> USE DEF Past
  <1>0. \A j \in Reqs : ~ Observed(j)' => ~ Observed(j)
    BY ObservedStays
  <1>1. ASSUME UNCHANGED vars
        PROVE  Finality'
    BY <1>1 DEF vars, Finality, Observed
  <1>2. ASSUME NEW r \in Reqs
        PROVE  /\ RejectInvalid(r) => Finality'
               /\ RunRequest(r) => Finality'
               /\ DispatchRequest(r) => Finality'
    BY <1>0 DEF Finality, TypeOK, RejectInvalid, RunRequest, DispatchRequest, TryReserve, Serve, Goto
  <1>3. ASSUME NEW r \in Reqs, ObserveRequest(r)
        PROVE  Finality'
    <2>1. /\ pc' = [pc EXCEPT ![r] = "spawned"] /\ jobs' = jobs /\ pc[r] = "new"
          /\ kind' = [kind EXCEPT ![r] = "observe"]
          /\ \A q \in Reqs \ {r} : job'[q] = job[q]
      BY <1>3 DEF ObserveRequest, Serve, Goto, TypeOK
    <2>. QED
      BY <2>1, <1>0 DEF Finality, TypeOK
  <1>4. ASSUME NEW r \in Reqs
        PROVE  /\ RunLock(r) => Finality'
               /\ RunEnd(r) => Finality'
               /\ ObserveReserve(r) => Finality'
    BY <1>0 DEF Finality, TypeOK, RunLock, RunEnd, ObserveReserve, TryReserve, Goto
  <1>5. ASSUME NEW r \in Reqs, InsertAndSpawn(r)
        PROVE  Finality'
    <2>1. /\ pc' = [pc EXCEPT ![r] = "queued"] /\ pc[r] = "reserved"
          /\ jobs' = [jobs EXCEPT ![job[r]] = "running"]
          /\ kind' = kind /\ job' = job
      BY <1>5 DEF InsertAndSpawn, Goto
    <2>. QED
      BY <2>1, <1>0 DEF Finality, TypeOK
  <1>6. ASSUME NEW r \in Reqs
        PROVE  /\ ClosureLock(r) => Finality'
               /\ Finish(r) => Finality'
               /\ SampleTick(r) => Finality'
               /\ ReleaseSlot(r) => Finality'
               /\ DropGuard(r) => Finality'
               /\ TargetExit(r) => Finality'
    BY <1>0 DEF Finality, TypeOK, ClosureLock, Finish, SampleTick, ReleaseSlot, DropGuard,
                TargetExit, Goto
  <1>7. ASSUME NEW r \in Reqs, UpdateJob(r)
        PROVE  Finality'
    <2>1. /\ pc' = [pc EXCEPT ![r] = "updated"]
          /\ kind' = kind /\ job' = job
          /\ \A j \in Reqs : j # job[r] => jobs'[j] = jobs[j]
      BY <1>7 DEF UpdateJob, Update, Goto, TypeOK
    <2>2. kind[r] = "observe" => Observed(job[r])'
      BY <2>1 DEF Observed
    <2>. QED
      BY <2>1, <2>2, <1>0 DEF Finality, TypeOK
  <1>. QED
    BY <1>1, <1>2, <1>3, <1>4, <1>5, <1>6, <1>7, StepCases

\* What the registry says of a finished job is final, unless an observe request reuses its id.
THEOREM FinishedIsFinal == Spec => FinalStatus
  <1>1. Init => Finality
    BY DEF Init, Finality
  <1>2. TypeOK /\ Finality /\ [Next]_vars =>
            [\A j \in Reqs :
                /\ jobs[j] \in {"completed", "failed"}
                /\ ~ \E r \in Reqs : kind[r] = "observe" /\ job[r] = j
                => jobs'[j] = jobs[j]]_vars
    <2> SUFFICES ASSUME TypeOK, Finality, [Next]_vars, NEW j \in Reqs,
                        jobs[j] \in {"completed", "failed"}, ~ Observed(j)
                 PROVE  jobs'[j] = jobs[j]
      BY DEF Observed
    <2>1. pc[j] \in Past
      BY DEF Finality
    <2>2. ASSUME NEW r \in Reqs, pc[r] \in {"reserved", "executed"}
          PROVE  job[r] # j
      BY <2>1, <2>2 DEF Finality, Observed, Past
    <2>3. ASSUME NEW r \in Reqs
          PROVE  /\ InsertAndSpawn(r) => jobs'[j] = jobs[j]
                 /\ UpdateJob(r) => jobs'[j] = jobs[j]
      BY <2>2 DEF InsertAndSpawn, UpdateJob, Update, TypeOK
    <2>4. ASSUME NEW r \in Reqs
          PROVE  /\ RejectInvalid(r) \/ RunRequest(r) \/ DispatchRequest(r) => jobs' = jobs
                 /\ ObserveRequest(r) \/ RunLock(r) \/ RunEnd(r) => jobs' = jobs
                 /\ ObserveReserve(r) \/ ClosureLock(r) \/ Finish(r) => jobs' = jobs
                 /\ SampleTick(r) \/ ReleaseSlot(r) \/ DropGuard(r) => jobs' = jobs
                 /\ TargetExit(r) => jobs' = jobs
      BY DEF RejectInvalid, RunRequest, DispatchRequest, ObserveRequest, RunLock, RunEnd,
             ObserveReserve, ClosureLock, Finish, SampleTick, ReleaseSlot, DropGuard, TargetExit
    <2>5. UNCHANGED vars => jobs' = jobs
      BY DEF vars
    <2>. QED
      BY <2>3, <2>4, <2>5, StepCases
  <1>. QED
    BY <1>1, <1>2, FinalityStep, TypeCorrect, PTL DEF Spec, FinalStatus
=============================================================================
