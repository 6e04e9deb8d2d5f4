--------------------------- MODULE ExecutingProofs ---------------------------
(***************************************************************************)
(* What is guaranteed of an execution.  First the executor and             *)
(* reconciliation, for any set of jobs, any share of CLI jobs and any      *)
(* number of append errors, panics and crashes: Governed and Closed are    *)
(* the inductive invariants; they say, for every place an execution can be *)
(* at, what is in the WAL by then.                                         *)
(*                                                                         *)
(* Then the composition that the run checks: a behaviour of one part takes *)
(* that part's steps only.  Every part's invariant is inductive by itself; *)
(* here each is carried over to the behaviours of its part, and the        *)
(* properties follow.                                                      *)
(***************************************************************************)
EXTENDS Executing, TLAPS

-----------------------------------------------------------------------------
(* What an append, failed or not, does to the events of the jobs           *)

LEMMA Appending ==
    ASSUME TypeOK, NEW j \in Jobs, NEW type \in Types, BestEffort(j, type)
    PROVE  /\ wal' \in [Jobs -> Seq(Types)]
           /\ faults' \in 0..MaxFaults
           /\ Logged(j) \subseteq Logged(j)'
           /\ Logged(j)' \subseteq Logged(j) \cup {type}
           /\ AppendOk(j, type) => type \in Logged(j)'
           /\ \A k \in Jobs \ {j} : wal'[k] = wal[k]
  <1>1. wal[j] \in Seq(Types)
    BY DEF TypeOK
  <1>2. DEFINE longer == Append(wal[j], type)
  <1>3. /\ longer \in Seq(Types)
        /\ DOMAIN longer = 1..(Len(wal[j]) + 1)
        /\ longer[Len(wal[j]) + 1] = type
        /\ \A i \in 1..Len(wal[j]) : longer[i] = wal[j][i]
        /\ DOMAIN wal[j] = 1..Len(wal[j])
        /\ Len(wal[j]) \in Nat
    BY <1>1
  <1>4. {longer[i] : i \in DOMAIN longer} = Logged(j) \cup {type}
    BY <1>3 DEF Logged
  <1>5. faults' \in 0..MaxFaults
    BY JobAssumption DEF TypeOK, BestEffort, AppendOk, AppendError
  <1>6. CASE wal' = wal /\ ~ AppendOk(j, type)
    BY <1>5, <1>6 DEF TypeOK, Logged
  <1>7. CASE wal' = [wal EXCEPT ![j] = Append(@, type)]
    <2>1. /\ wal'[j] = longer
          /\ \A k \in Jobs \ {j} : wal'[k] = wal[k]
          /\ wal' \in [Jobs -> Seq(Types)]
      BY <1>7, <1>3 DEF TypeOK
    <2>2. Logged(j)' = Logged(j) \cup {type}
      BY <2>1, <1>4 DEF Logged
    <2>. QED
      BY <2>1, <2>2, <1>5
  <1>. QED
    BY <1>6, <1>7 DEF BestEffort, AppendOk, AppendError

LEMMA MustIsBestEffort ==
    ASSUME NEW j \in Jobs, NEW type, NEW next, MustAppend(j, type, next)
    PROVE  /\ BestEffort(j, type)
           /\ \/ AppendOk(j, type) /\ Goto(j, next) /\ UNCHANGED result
              \/ Return(j, "error")
  BY DEF MustAppend, BestEffort

-----------------------------------------------------------------------------
\* Type correctness.
THEOREM TypeCorrect == Spec => []TypeOK
  <1> USE DEF PCs, Executing, Terminal
  <1>1. Init => TypeOK
    BY JobAssumption DEF Init, TypeOK, Types
  <1>2. TypeOK /\ [Next]_vars => TypeOK'
    <2> SUFFICES ASSUME TypeOK, [Next]_vars
                 PROVE  TypeOK'
      OBVIOUS
    <2> USE DEF environment, execution
    <2>1. ASSUME UNCHANGED vars
          PROVE  TypeOK'
      BY <2>1 DEF vars, TypeOK
    <2>2. ASSUME NEW j \in Jobs
          PROVE  /\ Submit(j) => TypeOK'
                 /\ LockWal(j) => TypeOK'
                 /\ Execute(j) => TypeOK'
                 /\ CliKilled(j) => TypeOK'
      BY DEF Submit, LockWal, Execute, CliKilled, Goto, TypeOK
    <2>3. ASSUME NEW j \in Jobs
          PROVE  /\ BackUp(j) => TypeOK'
                 /\ Act(j) => TypeOK'
      BY DEF BackUp, Act, TypeOK
    <2>14. ASSUME NEW j \in Jobs, CapabilityReturns(j)
           PROVE  TypeOK'
      <3>1. result' \in [Jobs -> {"none", "ok", "notOk", "error"}]
        BY <2>14 DEF CapabilityReturns, TypeOK
      <3>2. pc' \in [Jobs -> PCs]
        BY <2>14, ZenonT(60) DEF CapabilityReturns, Goto, TypeOK
      <3>. QED
        BY <2>14, <3>1, <3>2 DEF CapabilityReturns, TypeOK
    <2>4. ASSUME NEW j \in Jobs, Panic(j)
          PROVE  TypeOK'
      <3>1. faults' \in 0..MaxFaults
        BY <2>4, JobAssumption DEF Panic, TypeOK
      <3>2. pc' \in [Jobs -> PCs] /\ result' \in [Jobs -> {"none", "ok", "notOk", "error"}]
        BY <2>4 DEF Panic, Return, Goto, TypeOK
      <3>. QED
        BY <2>4, <3>1, <3>2 DEF Panic, TypeOK
    <2>5. ASSUME NEW j \in Jobs
          PROVE  Report(j) => TypeOK'
      BY DEF Report, Told, Goto, TypeOK
    <2>6. ASSUME NEW j \in Jobs, Reject(j) \/ Block(j) \/ LogFailed(j)
          PROVE  TypeOK'
      <3>1. BestEffort(j, "failed") /\ Return(j, "error")
        BY <2>6 DEF Reject, Block, LogFailed
      <3>2. wal' \in [Jobs -> Seq(Types)] /\ faults' \in 0..MaxFaults
        BY <3>1, Appending DEF Types
      <3>. QED
        BY <2>6, <3>1, <3>2 DEF Reject, Block, LogFailed, Return, Goto, TypeOK
    <2>7. ASSUME NEW j \in Jobs, Start(j)
          PROVE  TypeOK'
      <3>1. wal' \in [Jobs -> Seq(Types)] /\ faults' \in 0..MaxFaults
        BY <2>7, Appending, MustIsBestEffort DEF Start, Types
      <3>. QED
        BY <2>7, <3>1 DEF Start, MustAppend, Return, Goto, TypeOK
    <2>8. ASSUME NEW j \in Jobs, Evaluate(j)
          PROVE  TypeOK'
      <3>1. wal' \in [Jobs -> Seq(Types)] /\ faults' \in 0..MaxFaults
        BY <2>8, Appending, MustIsBestEffort DEF Evaluate, Types
      <3>2. pc' \in [Jobs -> PCs] /\ result' \in [Jobs -> {"none", "ok", "notOk", "error"}]
        BY <2>8 DEF Evaluate, MustAppend, Return, Goto, TypeOK
      <3>3. verdict' \in [Jobs -> {"none", "allow", "block"}]
        BY <2>8 DEF Evaluate, TypeOK
      <3>. QED
        BY <2>8, <3>1, <3>2, <3>3 DEF Evaluate, TypeOK
    <2>9. ASSUME NEW j \in Jobs, LogBackup(j)
          PROVE  TypeOK'
      <3>1. wal' \in [Jobs -> Seq(Types)] /\ faults' \in 0..MaxFaults
        BY <2>9, Appending, MustIsBestEffort DEF LogBackup, Types, TypeOK
      <3>. QED
        BY <2>9, <3>1 DEF LogBackup, MustAppend, Return, Goto, TypeOK
    <2>10. ASSUME NEW j \in Jobs, LogCompleted(j)
          PROVE  TypeOK'
      <3>1. wal' \in [Jobs -> Seq(Types)] /\ faults' \in 0..MaxFaults
        BY <2>10, Appending, MustIsBestEffort DEF LogCompleted, Types
      <3>. QED
        BY <2>10, <3>1 DEF LogCompleted, MustAppend, Return, Goto, TypeOK
    <2>11. ASSUME NEW j \in Jobs, LogErrorBackup(j)
          PROVE  TypeOK'
      <3>1. wal' \in [Jobs -> Seq(Types)] /\ faults' \in 0..MaxFaults
        BY <2>11, Appending DEF LogErrorBackup, Types, TypeOK
      <3>. QED
        BY <2>11, <3>1 DEF LogErrorBackup, Goto, TypeOK
    <2>12. ASSUME NEW j \in Jobs, Reconcile(j)
          PROVE  TypeOK'
      <3>1. wal' \in [Jobs -> Seq(Types)] /\ faults' \in 0..MaxFaults
        BY <2>12, Appending DEF Reconcile, Types
      <3>. QED
        BY <2>12, <3>1 DEF Reconcile, TypeOK
    <2>13. Crash \/ DaemonStart \/ Listen => TypeOK'
      BY JobAssumption DEF Crash, DaemonStart, Listen, Orphaned, TypeOK
    <2>. QED
      BY <2>1, <2>2, <2>3, <2>4, <2>5, <2>6, <2>7, <2>8, <2>9, <2>10, <2>11, <2>12, <2>13, <2>14
         DEF Next, Startup, Executor
  <1>. QED
    BY <1>1, <1>2, PTL DEF Spec

-----------------------------------------------------------------------------
(* Governed: what is in the WAL, and allowed, at each place an execution   *)
(* can be at.                                                              *)

Untouched == {"new", "queued", "start", "gates", "actuate"}
Allowed == {"executing", "logBackup", "logCompleted", "logError", "logFailed"}

GovernedJob(j) ==
    /\ pc[j] \in Untouched => ~ backup[j] /\ ~ effect[j]
    /\ pc[j] = "actuate" => "evaluated" \in Logged(j)
    /\ pc[j] \in Allowed \/ backup[j] \/ effect[j] =>
          verdict[j] = "allow" /\ "evaluated" \in Logged(j)
    /\ pc[j] \in Untouched \cup Allowed => "completed" \notin Logged(j)
    /\ pc[j] = "logCompleted" /\ backup[j] => "backup" \in Logged(j)
    /\ "completed" \in Logged(j) /\ backup[j] => "backup" \in Logged(j)

Governed == \A j \in Jobs : GovernedJob(j)

\* A step that leaves the execution of a job alone, and does not log it as
\* completed, leaves what Governed says of it true.
LEMMA GovernedFrame ==
    ASSUME NEW j \in Jobs, GovernedJob(j),
           pc'[j] \in {pc[j], "dead"},
           verdict'[j] = verdict[j], backup'[j] = backup[j], effect'[j] = effect[j],
           Logged(j) \subseteq Logged(j)', Logged(j)' \subseteq Logged(j) \cup {"failed"}
    PROVE  GovernedJob(j)'
  BY DEF GovernedJob, Untouched, Allowed

LEMMA GovernedStep == TypeOK /\ Governed /\ [Next]_vars => Governed'
  <1> SUFFICES ASSUME TypeOK, Governed, [Next]_vars
               PROVE  Governed'
    OBVIOUS
  <1> USE DEF environment, execution
  <1>1. ASSUME UNCHANGED vars
        PROVE  Governed'
    BY <1>1 DEF vars, Governed, GovernedJob, Logged
  <1>2. ASSUME NEW j \in Jobs,
               Submit(j) \/ Executor(j) \/ CliKilled(j)
        PROVE  Governed'
    <2>1. \A k \in Jobs \ {j} : wal'[k] = wal[k]
      BY <1>2, Appending, MustIsBestEffort
         DEF Submit, Executor, CliKilled, LockWal, Start, Reject, Evaluate, Block, Execute,
             BackUp, Act, CapabilityReturns, Panic, LogBackup, LogCompleted,
             LogErrorBackup, LogFailed, Report, Types, Terminal
    <2>2. \A k \in Jobs \ {j} :
             /\ pc'[k] = pc[k] /\ verdict'[k] = verdict[k]
             /\ backup'[k] = backup[k] /\ effect'[k] = effect[k]
      BY <1>2 DEF Submit, Executor, CliKilled, LockWal, Start, Reject, Evaluate, Block,
             Execute, BackUp, Act, CapabilityReturns, Panic, LogBackup, LogCompleted,
             LogErrorBackup, LogFailed, Report, MustAppend, Return, Goto, TypeOK
    <2>3. \A k \in Jobs \ {j} : GovernedJob(k)'
      BY <2>1, <2>2, GovernedFrame DEF Governed, Logged
    <2>4. GovernedJob(j)
      BY DEF Governed
    <2>5. GovernedJob(j)'
      <3> USE <2>4 DEF GovernedJob, Untouched, Allowed
      <3>1. CASE Submit(j) \/ LockWal(j) \/ Execute(j) \/ CliKilled(j)
        BY <3>1 DEF Submit, LockWal, Execute, CliKilled, Executing, Goto, TypeOK, Logged
      <3>2. CASE BackUp(j) \/ Act(j) \/ CapabilityReturns(j) \/ Panic(j)
        BY <3>2 DEF BackUp, Act, CapabilityReturns, Panic, Return, Goto, TypeOK, Logged
      <3>3. CASE Report(j)
        BY <3>3 DEF Report, Goto, TypeOK, Logged
      <3>4. CASE Start(j)
        <4>1. /\ Logged(j) \subseteq Logged(j)'
              /\ Logged(j)' \subseteq Logged(j) \cup {"started"}
          BY <3>4, Appending, MustIsBestEffort DEF Start, Types
        <4>2. pc'[j] \in {"gates", "returned"}
          BY <3>4 DEF Start, MustAppend, Return, Goto, TypeOK
        <4>. QED
          BY <3>4, <4>1, <4>2 DEF Start
      <3>5. CASE Reject(j) \/ Block(j) \/ LogFailed(j)
        <4>1. BestEffort(j, "failed") /\ Return(j, "error")
          BY <3>5 DEF Reject, Block, LogFailed
        <4>2. /\ Logged(j) \subseteq Logged(j)'
              /\ Logged(j)' \subseteq Logged(j) \cup {"failed"}
          BY <4>1, Appending DEF Types, Terminal
        <4>3. pc'[j] = "returned"
          BY <4>1 DEF Return, Goto, TypeOK
        <4>. QED
          BY <3>5, <4>2, <4>3 DEF Reject, Block, LogFailed
      <3>6. CASE Evaluate(j)
        <4>1. /\ BestEffort(j, "evaluated")
              /\ \/ AppendOk(j, "evaluated") /\ pc'[j] = "actuate"
                 \/ pc'[j] = "returned"
          BY <3>6 DEF Evaluate, MustAppend, BestEffort, Return, Goto, TypeOK
        <4>2. /\ Logged(j) \subseteq Logged(j)'
              /\ Logged(j)' \subseteq Logged(j) \cup {"evaluated"}
              /\ AppendOk(j, "evaluated") => "evaluated" \in Logged(j)'
          BY <4>1, Appending DEF Types
        <4>. QED
          BY <3>6, <4>1, <4>2 DEF Evaluate
      <3>7. CASE LogBackup(j)
        <4>1. CASE backup[j] /\ MustAppend(j, "backup", "logCompleted")
          <5>1. /\ BestEffort(j, "backup")
                /\ \/ AppendOk(j, "backup") /\ pc'[j] = "logCompleted"
                   \/ pc'[j] = "returned"
            BY <4>1 DEF MustAppend, BestEffort, Return, Goto, TypeOK
          <5>2. /\ Logged(j) \subseteq Logged(j)'
                /\ Logged(j)' \subseteq Logged(j) \cup {"backup"}
                /\ AppendOk(j, "backup") => "backup" \in Logged(j)'
            BY <5>1, Appending DEF Types
          <5>. QED
            BY <3>7, <5>1, <5>2 DEF LogBackup
        <4>2. CASE ~ backup[j] /\ Goto(j, "logCompleted") /\ UNCHANGED wal
          BY <3>7, <4>2 DEF LogBackup, Goto, TypeOK, Logged
        <4>. QED
          BY <3>7, <4>1, <4>2 DEF LogBackup
      <3>8. CASE LogCompleted(j)
        <4>1. BestEffort(j, "completed") /\ pc'[j] = "returned"
          BY <3>8 DEF LogCompleted, MustAppend, BestEffort, Return, Goto, TypeOK
        <4>2. /\ Logged(j) \subseteq Logged(j)'
              /\ Logged(j)' \subseteq Logged(j) \cup {"completed"}
          BY <4>1, Appending DEF Types, Terminal
        <4>. QED
          BY <3>8, <4>1, <4>2 DEF LogCompleted
      <3>9. CASE LogErrorBackup(j)
        <4>1. pc'[j] = "logFailed"
          BY <3>9 DEF LogErrorBackup, Goto, TypeOK
        <4>2. /\ Logged(j) \subseteq Logged(j)'
              /\ Logged(j)' \subseteq Logged(j) \cup {"backup"}
          <5>1. CASE BestEffort(j, "backup")
            BY <5>1, Appending DEF Types
          <5>2. CASE UNCHANGED wal
            BY <5>2 DEF Logged
          <5>. QED
            BY <3>9, <5>1, <5>2 DEF LogErrorBackup
        <4>. QED
          BY <3>9, <4>1, <4>2 DEF LogErrorBackup
      <3>. QED
        BY <1>2, <3>1, <3>2, <3>3, <3>4, <3>5, <3>6, <3>7, <3>8, <3>9 DEF Executor
    <2>. QED
      BY <2>3, <2>5 DEF Governed
  <1>3. ASSUME NEW j \in Jobs, Reconcile(j)
        PROVE  Governed'
    <2>1. /\ Logged(j) \subseteq Logged(j)'
          /\ Logged(j)' \subseteq Logged(j) \cup {"failed"}
          /\ \A k \in Jobs \ {j} : wal'[k] = wal[k]
      BY <1>3, Appending DEF Reconcile, Types, Terminal
    <2>. QED
      BY <1>3, <2>1, GovernedFrame DEF Governed, Reconcile, Logged
  <1>4. ASSUME Crash \/ DaemonStart \/ Listen
        PROVE  Governed'
    <2>1. \A k \in Jobs : pc'[k] \in {pc[k], "dead"}
      BY <1>4 DEF Crash, DaemonStart, Listen, TypeOK
    <2>2. UNCHANGED <<wal, execution>>
      BY <1>4 DEF Crash, DaemonStart, Listen
    <2>. QED
      BY <2>1, <2>2, GovernedFrame DEF Governed, Logged
  <1>. QED
    BY <1>1, <1>2, <1>3, <1>4 DEF Next, Startup

THEOREM GovernedInvariant == Spec => []Governed
  <1>1. Init => Governed
    <2> SUFFICES ASSUME Init, NEW j \in Jobs
                 PROVE  GovernedJob(j)
      BY DEF Governed
    <2>1. wal[j] = <<>> /\ pc[j] = "new" /\ ~ backup[j] /\ ~ effect[j]
      BY DEF Init
    <2>2. Logged(j) = {}
      BY <2>1 DEF Logged
    <2>. QED
      BY <2>1, <2>2 DEF GovernedJob, Untouched, Allowed
  <1>. QED
    BY <1>1, GovernedStep, TypeCorrect, PTL DEF Spec

\* No capability touches the machine unless its allowing assessment is in the WAL.
THEOREM EffectsGoverned == Spec => []GovernedEffect
  <1>1. Governed => GovernedEffect
    BY DEF Governed, GovernedJob, GovernedEffect
  <1>. QED
    BY <1>1, GovernedInvariant, PTL

\* What is logged as completed has its backup logged.
THEOREM CompletionsUndoable == Spec => []CompletedIsUndoable
  <1>1. Governed => CompletedIsUndoable
    BY DEF Governed, GovernedJob, CompletedIsUndoable
  <1>. QED
    BY <1>1, GovernedInvariant, PTL

-----------------------------------------------------------------------------
(* Closed: the audit trail of a job of the daemon gets its terminal event  *)
(* from its execution or, when that is dead, from reconciliation.          *)

Open == {"new", "queued", "start", "gates", "actuate", "executing", "logBackup",
         "logCompleted", "logError", "logFailed"}

Once(j) ==
    \A i, k \in DOMAIN wal[j] :
        wal[j][i] \in Terminal /\ wal[j][k] \in Terminal => i = k

ClosedJob(j) ==
    /\ pc[j] = "new" => Logged(j) = {}
    /\ pc[j] \in Open => ~ Finished(j)
    /\ pc[j] \notin {"new", "done", "dead"} => daemon = "up"
    /\ j \in orphans => daemon = "reconciling" /\ pc[j] # "new" /\ ~ Finished(j)
    /\ Once(j)

Closed == \A j \in Jobs \ CliJobs : ClosedJob(j)

\* Whatever is appended to an open trail, the result has one terminal event at most.
LEMMA OpenAppend ==
    ASSUME TypeOK, NEW j \in Jobs, NEW type \in Types, BestEffort(j, type),
           ~ Finished(j)
    PROVE  Once(j)' /\ (type \notin Terminal => ~ Finished(j)')
  <1>1. wal[j] \in Seq(Types)
    BY DEF TypeOK
  <1>2. \A i \in DOMAIN wal[j] : wal[j][i] \notin Terminal
    BY DEF Finished, Logged
  <1>3. CASE wal' = wal
    BY <1>2, <1>3 DEF Once, Finished, Logged
  <1>4. CASE wal' = [wal EXCEPT ![j] = Append(@, type)]
    <2>1. wal'[j] = Append(wal[j], type)
      BY <1>4 DEF TypeOK
    <2>2. \A i \in DOMAIN wal'[j] : i = Len(wal[j]) + 1 \/ wal'[j][i] \notin Terminal
      BY <1>1, <1>2, <2>1
    <2>3. Once(j)'
      BY <2>2 DEF Once
    <2>4. ASSUME type \notin Terminal
          PROVE  ~ Finished(j)'
      <3>1. Logged(j)' \subseteq Logged(j) \cup {type}
        BY Appending
      <3>. QED
        BY <2>4, <3>1 DEF Finished
    <2>. QED
      BY <2>3, <2>4
  <1>. QED
    BY <1>3, <1>4 DEF BestEffort, AppendOk, AppendError

LEMMA ClosedFrame ==
    ASSUME NEW j \in Jobs, ClosedJob(j), wal'[j] = wal[j], pc'[j] = pc[j],
           UNCHANGED daemon, orphans' \subseteq orphans
    PROVE  ClosedJob(j)'
  BY DEF ClosedJob, Finished, Logged, Once

LEMMA ClosedStep == TypeOK /\ Closed /\ [Next]_vars => Closed'
  <1> SUFFICES ASSUME TypeOK, Closed, [Next]_vars
               PROVE  Closed'
    OBVIOUS
  <1> USE DEF environment, execution
  <1>1. ASSUME UNCHANGED vars
        PROVE  Closed'
    BY <1>1, ClosedFrame DEF vars, Closed
  <1>2. ASSUME NEW j \in Jobs,
               Submit(j) \/ Executor(j) \/ CliKilled(j)
        PROVE  Closed'
    <2>1. \A k \in Jobs \ {j} : wal'[k] = wal[k]
      BY <1>2, Appending, MustIsBestEffort
         DEF Submit, Executor, CliKilled, LockWal, Start, Reject, Evaluate, Block, Execute,
             BackUp, Act, CapabilityReturns, Panic, LogBackup, LogCompleted,
             LogErrorBackup, LogFailed, Report, Types, Terminal
    <2>2. /\ UNCHANGED <<daemon, orphans>>
          /\ \A k \in Jobs \ {j} : pc'[k] = pc[k]
      BY <1>2 DEF Submit, Executor, CliKilled, LockWal, Start, Reject, Evaluate, Block,
             Execute, BackUp, Act, CapabilityReturns, Panic, LogBackup, LogCompleted,
             LogErrorBackup, LogFailed, Report, MustAppend, Return, Goto, TypeOK
    <2>3. \A k \in (Jobs \ CliJobs) \ {j} : ClosedJob(k)'
      BY <2>1, <2>2, ClosedFrame DEF Closed
    <2>4. ASSUME j \notin CliJobs
          PROVE  ClosedJob(j)'
      <3>1. ClosedJob(j)
        BY <2>4 DEF Closed
      <3> USE <2>4, <3>1, <2>2 DEF ClosedJob, Open
      <3>2. CASE Submit(j) \/ LockWal(j) \/ Execute(j) \/ CliKilled(j)
        BY <3>2 DEF Submit, LockWal, Execute, CliKilled, Goto, TypeOK, Logged, Finished, Once
      <3>3. CASE BackUp(j) \/ Act(j) \/ CapabilityReturns(j) \/ Panic(j) \/ Report(j)
        BY <3>3 DEF BackUp, Act, CapabilityReturns, Panic, Report, Return, Goto, TypeOK,
                    Logged, Finished, Once
      <3>4. CASE Reject(j) \/ Block(j) \/ LogFailed(j) \/ LogCompleted(j)
        <4>1. \E type \in Terminal : BestEffort(j, type)
          BY <3>4 DEF Reject, Block, LogFailed, LogCompleted, MustAppend, BestEffort, Terminal
        <4>2. pc[j] \in Open \ {"new"} /\ pc'[j] = "returned"
          BY <3>4 DEF Reject, Block, LogFailed, LogCompleted, MustAppend, Return, Goto, TypeOK
        <4>3. Once(j)'
          BY <4>1, <4>2, OpenAppend DEF Types
        <4>. QED
          BY <4>2, <4>3
      <3>5. CASE Start(j) \/ Evaluate(j)
        <4>1. \E type \in {"started", "evaluated"} : BestEffort(j, type)
          BY <3>5 DEF Start, Evaluate, MustAppend, BestEffort
        <4>2. pc[j] \in Open \ {"new"} /\ pc'[j] \in {"gates", "actuate", "returned"}
          BY <3>5 DEF Start, Evaluate, MustAppend, Return, Goto, TypeOK
        <4>3. Once(j)' /\ ~ Finished(j)'
          BY <4>1, <4>2, OpenAppend DEF Types, Terminal
        <4>. QED
          BY <4>2, <4>3
      <3>6. CASE LogBackup(j) \/ LogErrorBackup(j)
        <4>1. BestEffort(j, "backup") \/ UNCHANGED wal
          BY <3>6 DEF LogBackup, LogErrorBackup, MustAppend, BestEffort
        <4>2. /\ pc[j] \in Open \ {"new"}
              /\ pc'[j] \in {"logCompleted", "logFailed", "returned"}
          BY <3>6 DEF LogBackup, LogErrorBackup, MustAppend, Return, Goto, TypeOK
        <4>3. Once(j)' /\ ~ Finished(j)'
          <5>1. CASE BestEffort(j, "backup")
            BY <5>1, <4>2, OpenAppend DEF Types, Terminal
          <5>2. CASE UNCHANGED wal
            BY <5>2, <4>2 DEF Once, Finished, Logged
          <5>. QED
            BY <4>1, <5>1, <5>2
        <4>. QED
          BY <4>2, <4>3
      <3>. QED
        BY <1>2, <3>2, <3>3, <3>4, <3>5, <3>6 DEF Executor
    <2>. QED
      BY <2>3, <2>4 DEF Closed
  <1>3. ASSUME NEW j \in Jobs, Reconcile(j)
        PROVE  Closed'
    <2>1. /\ daemon = "reconciling" /\ j \in orphans
          /\ BestEffort(j, "failed")
          /\ orphans' = orphans \ {j}
          /\ UNCHANGED <<pc, daemon>>
      BY <1>3 DEF Reconcile
    <2>2. \A k \in Jobs \ {j} : wal'[k] = wal[k]
      BY <2>1, Appending DEF Types, Terminal
    <2>3. \A k \in (Jobs \ CliJobs) \ {j} : ClosedJob(k)'
      BY <2>1, <2>2, ClosedFrame DEF Closed
    <2>4. ASSUME j \notin CliJobs
          PROVE  ClosedJob(j)'
      <3>1. ClosedJob(j) /\ ~ Finished(j)
        BY <2>1, <2>4 DEF Closed, ClosedJob
      <3>2. Once(j)'
        BY <2>1, <3>1, OpenAppend DEF Types, Terminal
      <3>3. pc[j] \in {"done", "dead"}
        BY <2>1, <3>1 DEF ClosedJob
      <3>. QED
        BY <2>1, <3>2, <3>3 DEF ClosedJob, Open
    <2>. QED
      BY <2>3, <2>4 DEF Closed
  <1>4. ASSUME Crash \/ DaemonStart \/ Listen
        PROVE  Closed'
    <2> SUFFICES ASSUME NEW j \in Jobs \ CliJobs
                 PROVE  ClosedJob(j)'
      BY DEF Closed
    <2>1. ClosedJob(j)
      BY DEF Closed
    <2>2. UNCHANGED wal
      BY <1>4 DEF Crash, DaemonStart, Listen
    <2>3. Logged(j)' = Logged(j) /\ (Finished(j)' <=> Finished(j)) /\ (Once(j)' <=> Once(j))
      BY <2>2 DEF Finished, Logged, Once
    <2> USE <2>1, <2>3 DEF ClosedJob
    <2>4. CASE Crash
      BY <2>4 DEF Crash, TypeOK, Open
    <2>5. CASE DaemonStart
      <3>1. pc[j] \in {"new", "done", "dead"} /\ UNCHANGED pc
        BY <2>5 DEF DaemonStart
      <3>2. j \notin orphans' \/ (pc[j] # "new" /\ ~ Finished(j))
        BY <2>5 DEF DaemonStart, Orphaned
      <3>3. daemon' = "reconciling"
        BY <2>5 DEF DaemonStart
      <3>. QED
        BY <3>1, <3>2, <3>3 DEF Open
    <2>6. CASE Listen
      BY <2>6 DEF Listen
    <2>. QED
      BY <1>4, <2>4, <2>5, <2>6
  <1>. QED
    BY <1>1, <1>2, <1>3, <1>4 DEF Next, Startup

THEOREM ClosedInvariant == Spec => []Closed
  <1>1. Init => Closed
    <2> SUFFICES ASSUME Init, NEW j \in Jobs
                 PROVE  ClosedJob(j)
      BY DEF Closed
    <2>1. wal[j] = <<>> /\ pc[j] = "new" /\ orphans = {}
      BY DEF Init
    <2>2. Logged(j) = {} /\ DOMAIN wal[j] = {}
      BY <2>1 DEF Logged
    <2>. QED
      BY <2>1, <2>2 DEF ClosedJob, Finished, Once
  <1>. QED
    BY <1>1, ClosedStep, TypeCorrect, PTL DEF Spec

\* The trail of a job of the daemon is closed at most once.
THEOREM ClosedOnce == Spec => []SingleTerminal
  <1>1. Closed => SingleTerminal
    BY DEF Closed, ClosedJob, Once, SingleTerminal
  <1>. QED
    BY <1>1, ClosedInvariant, PTL

-----------------------------------------------------------------------------
(* Ordered: the order of a trail, and what a step may append to it.        *)

OrderedJob(j) ==
    /\ \A i \in DOMAIN wal[j] : wal[j][i] = "started" => i = 1
    /\ \A type \in Types \ {"started"} : Precedes(j, "started", type)
    /\ \A type \in {"backup", "completed"} : Precedes(j, "evaluated", type)

Silent == {"new", "queued", "start"}
Begun == (Untouched \cup Allowed) \ Silent

BegunJob(j) ==
    /\ pc[j] \in Silent => wal[j] = <<>>
    /\ pc[j] \in Begun => "started" \in Logged(j)
    /\ j \in orphans => "started" \in Logged(j) /\ pc[j] \notin Silent

Ordered == \A j \in Jobs : OrderedJob(j) /\ BegunJob(j)

\* Every event but the first needs the start in the trail, a backup and a
\* completion the assessment too.
LEMMA OrderedAppend ==
    ASSUME TypeOK, NEW j \in Jobs, NEW type \in Types, BestEffort(j, type),
           OrderedJob(j),
           type = "started" => wal[j] = <<>>,
           type # "started" => "started" \in Logged(j),
           type \in {"backup", "completed"} => "evaluated" \in Logged(j)
    PROVE  OrderedJob(j)'
  <1>1. wal[j] \in Seq(Types)
    BY DEF TypeOK
  <1>2. CASE wal' = wal
    BY <1>2 DEF OrderedJob, Precedes
  <1>3. CASE wal' = [wal EXCEPT ![j] = Append(@, type)]
    <2> DEFINE n == Len(wal[j])
    <2>1. wal'[j] = Append(wal[j], type)
      BY <1>3 DEF TypeOK
    <2>2. /\ n \in Nat
          /\ DOMAIN wal[j] = 1..n
          /\ DOMAIN wal'[j] = 1..(n + 1)
          /\ wal'[j][n + 1] = type
          /\ \A i \in 1..n : wal'[j][i] = wal[j][i]
      BY <1>1, <2>1
    <2>3. \A i \in DOMAIN wal'[j] : wal'[j][i] = "started" => i = 1
      <3>1. type = "started" => n = 0
        BY <1>1
      <3>. QED
        BY <2>2, <3>1 DEF OrderedJob
    <2>4. ASSUME NEW a, NEW b, Precedes(j, a, b), type = b => a \in Logged(j)
          PROVE  Precedes(j, a, b)'
      <3> SUFFICES ASSUME NEW k \in DOMAIN wal'[j], wal'[j][k] = b
                   PROVE  \E i \in 1..(k - 1) : wal'[j][i] = a
        BY DEF Precedes
      <3>1. CASE k \in 1..n
        <4>1. PICK i \in 1..(k - 1) : wal[j][i] = a
          BY <2>2, <2>4, <3>1 DEF Precedes
        <4>2. i \in 1..n
          BY <2>2, <3>1
        <4>. QED
          BY <2>2, <4>1, <4>2
      <3>2. CASE k = n + 1
        <4>1. PICK i \in 1..n : wal[j][i] = a
          BY <2>2, <2>4, <3>2 DEF Logged
        <4>2. i \in 1..(k - 1)
          BY <2>2, <3>2
        <4>. QED
          BY <2>2, <4>1, <4>2
      <3>. QED
        BY <2>2, <3>1, <3>2
    <2>5. \A b \in Types \ {"started"} : Precedes(j, "started", b)'
      BY <2>4 DEF OrderedJob
    <2>6. \A b \in {"backup", "completed"} : Precedes(j, "evaluated", b)'
      BY <2>4 DEF OrderedJob
    <2>. QED
      BY <2>3, <2>5, <2>6 DEF OrderedJob
  <1>. QED
    BY <1>2, <1>3 DEF BestEffort, AppendOk, AppendError

LEMMA OrderedFrame ==
    ASSUME NEW j \in Jobs, OrderedJob(j), BegunJob(j), wal'[j] = wal[j],
           pc'[j] \in {pc[j], "dead", "done"}, orphans' \subseteq orphans
    PROVE  OrderedJob(j)' /\ BegunJob(j)'
  BY DEF OrderedJob, BegunJob, Precedes, Logged, Silent, Begun, Untouched, Allowed

LEMMA OrderedStep == TypeOK /\ Governed /\ Ordered /\ [Next]_vars => Ordered'
  <1> SUFFICES ASSUME TypeOK, Governed, Ordered, [Next]_vars
               PROVE  Ordered'
    OBVIOUS
  <1> USE DEF environment, execution
  <1>1. ASSUME UNCHANGED vars
        PROVE  Ordered'
    BY <1>1, OrderedFrame DEF vars, Ordered
  <1>2. ASSUME NEW j \in Jobs,
               Submit(j) \/ Executor(j) \/ CliKilled(j)
        PROVE  Ordered'
    <2>1. \A k \in Jobs \ {j} : wal'[k] = wal[k]
      BY <1>2, Appending, MustIsBestEffort
         DEF Submit, Executor, CliKilled, LockWal, Start, Reject, Evaluate, Block, Execute,
             BackUp, Act, CapabilityReturns, Panic, LogBackup, LogCompleted,
             LogErrorBackup, LogFailed, Report, Types, Terminal
    <2>2. /\ UNCHANGED orphans
          /\ \A k \in Jobs \ {j} : pc'[k] = pc[k]
      BY <1>2 DEF Submit, Executor, CliKilled, LockWal, Start, Reject, Evaluate, Block,
             Execute, BackUp, Act, CapabilityReturns, Panic, LogBackup, LogCompleted,
             LogErrorBackup, LogFailed, Report, MustAppend, Return, Goto, TypeOK
    <2>3. \A k \in Jobs \ {j} : OrderedJob(k)' /\ BegunJob(k)'
      BY <2>1, <2>2, OrderedFrame DEF Ordered
    <2>4. OrderedJob(j) /\ BegunJob(j)
      BY DEF Ordered
    <2>5. ASSUME wal'[j] = wal[j],
                 pc'[j] \in Silent => pc[j] \in Silent,
                 pc'[j] \in Begun => pc[j] \in Begun
          PROVE  OrderedJob(j)' /\ BegunJob(j)'
      BY <2>2, <2>4, <2>5 DEF OrderedJob, BegunJob, Precedes, Logged
    <2>6. ASSUME NEW type \in Types \ {"started"}, BestEffort(j, type),
                 pc[j] \in Begun,
                 pc'[j] \notin Silent,
                 type \in {"backup", "completed"} => pc[j] \in Allowed
          PROVE  OrderedJob(j)' /\ BegunJob(j)'
      <3>1. "started" \in Logged(j) /\ Logged(j) \subseteq Logged(j)'
        BY <2>4, <2>6, Appending DEF BegunJob
      <3>2. pc[j] \in Allowed => "evaluated" \in Logged(j)
        BY DEF Governed, GovernedJob
      <3>3. OrderedJob(j)'
        BY <2>4, <2>6, <3>1, <3>2, OrderedAppend
      <3>. QED
        BY <2>6, <3>1, <3>3 DEF BegunJob, Begun, Untouched, Allowed, Silent
    <2>7. ASSUME Submit(j) \/ LockWal(j) \/ Execute(j) \/ CliKilled(j)
          PROVE  OrderedJob(j)' /\ BegunJob(j)'
      BY <2>5, <2>7 DEF Submit, LockWal, Execute, CliKilled, Executing, Goto, TypeOK,
             Silent, Begun, Untouched, Allowed
    <2>8. ASSUME BackUp(j) \/ Act(j) \/ CapabilityReturns(j) \/ Panic(j) \/ Report(j)
          PROVE  OrderedJob(j)' /\ BegunJob(j)'
      BY <2>5, <2>8 DEF BackUp, Act, CapabilityReturns, Panic, Report, Return, Goto, TypeOK,
             Silent, Begun, Untouched, Allowed
    <2>9. ASSUME Start(j)
          PROVE  OrderedJob(j)' /\ BegunJob(j)'
      <3>1. /\ BestEffort(j, "started")
            /\ \/ AppendOk(j, "started") /\ Goto(j, "gates")
               \/ Return(j, "error")
        BY <2>9, MustIsBestEffort DEF Start
      <3>2. wal[j] = <<>> /\ j \notin orphans
        BY <2>4, <2>9 DEF Start, BegunJob, Silent
      <3>3. OrderedJob(j)'
        BY <2>4, <3>1, <3>2, OrderedAppend DEF Types
      <3>4. AppendOk(j, "started") => "started" \in Logged(j)'
        BY <3>1, Appending DEF Types
      <3>5. pc'[j] = "returned" \/ (pc'[j] = "gates" /\ AppendOk(j, "started"))
        BY <3>1 DEF Return, Goto, TypeOK
      <3>. QED
        BY <2>2, <3>2, <3>3, <3>4, <3>5 DEF BegunJob, Silent, Begun, Untouched, Allowed
    <2>10. ASSUME Reject(j) \/ Block(j) \/ LogFailed(j)
           PROVE  OrderedJob(j)' /\ BegunJob(j)'
      <3>1. /\ BestEffort(j, "failed") /\ pc'[j] = "returned"
            /\ pc[j] \in {"gates", "actuate", "logFailed"}
        BY <2>10 DEF Reject, Block, LogFailed, Return, Goto, TypeOK
      <3>. QED
        BY <2>6, <3>1 DEF Types, Terminal, Silent, Begun, Untouched, Allowed
    <2>11. ASSUME Evaluate(j) \/ LogCompleted(j)
           PROVE  OrderedJob(j)' /\ BegunJob(j)'
      <3>1. \/ /\ BestEffort(j, "evaluated") /\ pc[j] = "gates"
               /\ pc'[j] \in {"actuate", "returned"}
            \/ /\ BestEffort(j, "completed") /\ pc[j] = "logCompleted"
               /\ pc'[j] = "returned"
        BY <2>11, MustIsBestEffort
           DEF Evaluate, LogCompleted, MustAppend, Return, Goto, TypeOK
      <3>. QED
        BY <2>6, <3>1 DEF Types, Terminal, Silent, Begun, Untouched, Allowed
    <2>12. ASSUME LogBackup(j) \/ LogErrorBackup(j)
           PROVE  OrderedJob(j)' /\ BegunJob(j)'
      <3>1. /\ BestEffort(j, "backup") \/ UNCHANGED wal
            /\ pc[j] \in {"logBackup", "logError"}
            /\ pc'[j] \in {"logCompleted", "logFailed", "returned"}
        BY <2>12, MustIsBestEffort
           DEF LogBackup, LogErrorBackup, MustAppend, Return, Goto, TypeOK
      <3>. QED
        BY <2>5, <2>6, <3>1 DEF Types, Silent, Begun, Untouched, Allowed
    <2>. QED
      BY <1>2, <2>3, <2>7, <2>8, <2>9, <2>10, <2>11, <2>12 DEF Ordered, Executor
  <1>3. ASSUME NEW j \in Jobs, Reconcile(j)
        PROVE  Ordered'
    <2>1. /\ j \in orphans
          /\ BestEffort(j, "failed")
          /\ orphans' = orphans \ {j}
          /\ UNCHANGED pc
      BY <1>3 DEF Reconcile
    <2>2. /\ Logged(j) \subseteq Logged(j)'
          /\ \A k \in Jobs \ {j} : wal'[k] = wal[k]
      BY <2>1, Appending DEF Types, Terminal
    <2>3. \A k \in Jobs \ {j} : OrderedJob(k)' /\ BegunJob(k)'
      BY <2>1, <2>2, OrderedFrame DEF Ordered
    <2>4. OrderedJob(j) /\ BegunJob(j)
      BY DEF Ordered
    <2>5. OrderedJob(j)'
      BY <2>1, <2>4, OrderedAppend DEF BegunJob, Types, Terminal
    <2>6. BegunJob(j)'
      BY <2>1, <2>2, <2>4 DEF BegunJob
    <2>. QED
      BY <2>3, <2>5, <2>6 DEF Ordered
  <1>4. ASSUME Crash \/ Listen
        PROVE  Ordered'
    <2>1. /\ UNCHANGED wal /\ orphans' \subseteq orphans
          /\ \A j \in Jobs : pc'[j] \in {pc[j], "dead", "done"}
      BY <1>4 DEF Crash, Listen, TypeOK
    <2>. QED
      BY <2>1, OrderedFrame DEF Ordered
  <1>5. ASSUME DaemonStart
        PROVE  Ordered'
    <2>1. UNCHANGED <<wal, pc>> /\ (orphans' = Orphaned \/ orphans' = {})
      BY <1>5 DEF DaemonStart
    <2>2. \A j \in Jobs : wal[j] = <<>> => Logged(j) = {}
      BY DEF Logged
    <2>. QED
      BY <2>1, <2>2 DEF Ordered, OrderedJob, BegunJob, Precedes, Orphaned, Logged
  <1>. QED
    BY <1>1, <1>2, <1>3, <1>4, <1>5 DEF Next, Startup

THEOREM OrderedInvariant == Spec => []Ordered
  <1>1. Init => Ordered
    <2> SUFFICES ASSUME Init, NEW j \in Jobs
                 PROVE  OrderedJob(j) /\ BegunJob(j)
      BY DEF Ordered
    <2>1. wal[j] = <<>> /\ pc[j] = "new" /\ orphans = {} /\ DOMAIN wal[j] = {}
      BY DEF Init
    <2>. QED
      BY <2>1 DEF OrderedJob, BegunJob, Precedes, Silent, Begun
  <1>. QED
    BY <1>1, OrderedStep, TypeCorrect, GovernedInvariant, PTL DEF Spec

\* "every JobFailed has a preceding JobStarted": the trail of a job begins with its
\* start, and its assessment precedes its backup and its completion.
THEOREM AuditOrdered == Spec => []AuditOrder
  <1>1. Ordered => AuditOrder
    BY DEF Ordered, OrderedJob, AuditOrder
  <1>. QED
    BY <1>1, OrderedInvariant, PTL

\* `status` and `jobs` say the same of every job of the daemon.
THEOREM StatusAndJobsAgree == Spec => []QueriesAgree
  <1>1. TypeOK /\ Closed /\ Ordered => QueriesAgree
    <2> SUFFICES ASSUME TypeOK, Closed, Ordered, NEW j \in Jobs \ CliJobs,
                        ~ InRegistry(j), Finished(j)
                 PROVE  LastTerminal(j) = WalStatus(j)
      BY DEF QueriesAgree, Listed, Status, WalStatus, Finished, Terminal
    <2>1. Once(j) /\ OrderedJob(j)
      BY DEF Closed, ClosedJob, Ordered
    <2>2. PICK k \in DOMAIN wal[j] : wal[j][k] \in Terminal
      BY DEF Finished, Logged
    <2>3. \A i \in DOMAIN wal[j] : wal[j][i] \in Terminal => i = k
      BY <2>1, <2>2 DEF Once
    <2>4. DOMAIN wal[j] = 1..Len(wal[j]) /\ Len(wal[j]) \in Nat
      BY DEF TypeOK
    <2>5. LastTerminal(j) = wal[j][k]
      <3> DEFINE Last(type) == \E m \in DOMAIN wal[j] :
              wal[j][m] = type /\ \A i \in DOMAIN wal[j] : i > m => wal[j][i] \notin Terminal
      <3>1. Last(wal[j][k])
        BY <2>3, <2>4
      <3>2. \A type \in Terminal : Last(type) => type = wal[j][k]
        BY <2>3
      <3>. QED
        BY <2>2, <3>1, <3>2 DEF LastTerminal
    <2>6. "started" \in Logged(j)
      <3>1. Precedes(j, "started", wal[j][k])
        BY <2>1, <2>2 DEF OrderedJob, Types, Terminal
      <3>2. PICK i \in 1..(k - 1) : wal[j][i] = "started"
        BY <2>2, <3>1 DEF Precedes
      <3>3. i \in DOMAIN wal[j]
        BY <2>2, <2>4
      <3>. QED
        BY <3>2, <3>3 DEF Logged
    <2>7. wal[j][k] = WalStatus(j)
      BY <2>2, <2>3, <2>6 DEF WalStatus, Logged, Terminal
    <2>. QED
      BY <2>5, <2>7
  <1>. QED
    BY <1>1, TypeCorrect, ClosedInvariant, OrderedInvariant, PTL

-----------------------------------------------------------------------------
(* Recovery: a daemon that has begun to reconcile has every dead job on    *)
(* its list, or closed.                                                    *)

DeadIsListed(j) ==
    daemon # "down" /\ pc[j] = "dead" /\ "started" \in Logged(j) =>
        Finished(j) \/ (daemon = "reconciling" /\ j \in orphans)

Recovery == faults = 0 => \A j \in Jobs \ CliJobs : DeadIsListed(j)

LEMMA RecoveryStep == TypeOK /\ Closed /\ Recovery /\ [Next]_vars => Recovery'
  <1> SUFFICES ASSUME TypeOK, Closed, Recovery, [Next]_vars, faults' = 0,
                      NEW j \in Jobs \ CliJobs
               PROVE  DeadIsListed(j)'
    BY DEF Recovery
  <1> USE DEF environment, execution
  <1>1. faults = 0
    BY JobAssumption
       DEF Next, Startup, Submit, Executor, CliKilled, LockWal, Start, Reject, Evaluate,
           Block, Execute, BackUp, Act, CapabilityReturns, Panic, LogBackup, LogCompleted,
           LogErrorBackup, LogFailed, Report, Crash, DaemonStart, Listen, Reconcile,
           MustAppend, BestEffort, AppendOk, AppendError, TypeOK, vars
  <1>2. DeadIsListed(j)
    BY <1>1 DEF Recovery
  <1>3. ASSUME wal'[j] = wal[j], pc'[j] = "dead" => pc[j] = "dead",
               UNCHANGED daemon, j \in orphans' <=> j \in orphans
        PROVE  DeadIsListed(j)'
    BY <1>2, <1>3 DEF DeadIsListed, Logged, Finished
  <1>4. ASSUME UNCHANGED vars
        PROVE  DeadIsListed(j)'
    BY <1>3, <1>4 DEF vars
  <1>5. ASSUME NEW k \in Jobs,
               Submit(k) \/ Executor(k) \/ CliKilled(k)
        PROVE  DeadIsListed(j)'
    <2>1. \A i \in Jobs \ {k} : wal'[i] = wal[i]
      BY <1>5, Appending, MustIsBestEffort
         DEF Submit, Executor, CliKilled, LockWal, Start, Reject, Evaluate, Block, Execute,
             BackUp, Act, CapabilityReturns, Panic, LogBackup, LogCompleted,
             LogErrorBackup, LogFailed, Report, Types, Terminal
    <2>2. /\ UNCHANGED <<daemon, orphans>>
          /\ \A i \in Jobs \ {k} : pc'[i] = pc[i]
          /\ k \notin CliJobs => pc'[k] # "dead"
      BY <1>5 DEF Submit, Executor, CliKilled, LockWal, Start, Reject, Evaluate, Block,
             Execute, BackUp, Act, CapabilityReturns, Panic, LogBackup, LogCompleted,
             LogErrorBackup, LogFailed, Report, MustAppend, Return, Goto, TypeOK
    <2>. QED
      BY <1>3, <2>1, <2>2 DEF DeadIsListed
  <1>6. ASSUME NEW k \in Jobs, Reconcile(k)
        PROVE  DeadIsListed(j)'
    <2>1. /\ AppendOk(k, "failed") /\ BestEffort(k, "failed")
          /\ orphans' = orphans \ {k}
          /\ UNCHANGED <<pc, daemon>>
      BY <1>1, <1>6 DEF Reconcile, BestEffort, AppendError
    <2>2. "failed" \in Logged(k)' /\ \A i \in Jobs \ {k} : wal'[i] = wal[i]
      BY <2>1, Appending DEF Types, Terminal
    <2>3. CASE j = k
      BY <2>2, <2>3 DEF DeadIsListed, Finished, Terminal
    <2>. QED
      BY <1>3, <2>1, <2>2, <2>3
  <1>7. ASSUME Crash
        PROVE  DeadIsListed(j)'
    BY <1>7 DEF Crash, DeadIsListed
  <1>8. ASSUME DaemonStart
        PROVE  DeadIsListed(j)'
    <2>1. orphans' = Orphaned /\ UNCHANGED wal /\ daemon' = "reconciling"
      BY <1>1, <1>8 DEF DaemonStart
    <2>. QED
      BY <2>1 DEF Orphaned, DeadIsListed, Logged, Finished
  <1>9. ASSUME Listen
        PROVE  DeadIsListed(j)'
    BY <1>2, <1>9 DEF Listen, DeadIsListed, Logged, Finished
  <1>. QED
    BY <1>4, <1>5, <1>6, <1>7, <1>8, <1>9 DEF Next, Startup

\* As long as no append failed and nothing panicked, a serving daemon has closed the
\* jobs that earlier daemons left: "no permanently unknown jobs after recovery".
THEOREM RecoveryCloses == Spec => [](faults = 0 => RecoveredDefinite)
  <1>1. Init => Recovery
    BY DEF Init, Recovery, DeadIsListed
  <1>2. Recovery => (faults = 0 => RecoveredDefinite)
    BY DEF Recovery, DeadIsListed, RecoveredDefinite
  <1>. QED
    BY <1>1, <1>2, RecoveryStep, TypeCorrect, ClosedInvariant, PTL DEF Spec

-----------------------------------------------------------------------------
(* Registered: what the registry calls completed, and what an execution is *)
(* about to report as ok, is in the WAL, so that the answer survives the   *)
(* registry.                                                               *)

InWal(j) == "started" \in Logged(j) /\ "completed" \in Logged(j)

RegisteredJob(j) ==
    /\ registry[j] # "none" => daemon = "up" /\ pc[j] # "new"
    /\ registry[j] = "completed" => pc[j] = "done" /\ InWal(j)
    /\ pc[j] = "returned" /\ result[j] = "ok" => InWal(j)

Registered == \A j \in Jobs : RegisteredJob(j)

\* Nothing is ever removed from the trail of a job.
LEMMA TrailsGrow ==
    ASSUME TypeOK, [Next]_vars
    PROVE  \A j \in Jobs : Logged(j) \subseteq Logged(j)'
  <1>1. ASSUME UNCHANGED wal
        PROVE  \A j \in Jobs : Logged(j) \subseteq Logged(j)'
    BY <1>1 DEF Logged
  <1>2. ASSUME NEW k \in Jobs, NEW type \in Types, BestEffort(k, type)
        PROVE  \A j \in Jobs : Logged(j) \subseteq Logged(j)'
    <2>1. Logged(k) \subseteq Logged(k)' /\ \A j \in Jobs \ {k} : wal'[j] = wal[j]
      BY <1>2, Appending
    <2>2. \A j \in Jobs \ {k} : Logged(j)' = Logged(j)
      BY <2>1 DEF Logged
    <2>. QED
      BY <2>1, <2>2
  <1>3. ASSUME UNCHANGED vars \/ Crash \/ DaemonStart \/ Listen
        PROVE  UNCHANGED wal
    BY <1>3 DEF vars, Crash, DaemonStart, Listen
  <1>4. ASSUME NEW k \in Jobs, Submit(k) \/ Executor(k) \/ CliKilled(k) \/ Reconcile(k)
        PROVE  UNCHANGED wal \/ \E type \in Types : BestEffort(k, type)
    BY <1>4, MustIsBestEffort
       DEF Submit, Executor, CliKilled, Reconcile, LockWal, Start, Reject, Evaluate, Block,
           Execute, BackUp, Act, CapabilityReturns, Panic, LogBackup, LogCompleted,
           LogErrorBackup, LogFailed, Report, MustAppend, BestEffort, Types, Terminal
  <1>. QED
    BY <1>1, <1>2, <1>3, <1>4 DEF Next, Startup

LEMMA RegisteredFrame ==
    ASSUME NEW j \in Jobs, RegisteredJob(j), registry'[j] = registry[j], pc'[j] = pc[j],
           result'[j] = result[j], UNCHANGED daemon, Logged(j) \subseteq Logged(j)'
    PROVE  RegisteredJob(j)'
  BY DEF RegisteredJob, InWal

LEMMA RegisteredStep == TypeOK /\ Ordered /\ Registered /\ [Next]_vars => Registered'
  <1> SUFFICES ASSUME TypeOK, Ordered, Registered, [Next]_vars
               PROVE  Registered'
    OBVIOUS
  <1> USE DEF environment, execution
  <1>0. \A j \in Jobs : Logged(j) \subseteq Logged(j)'
    BY TrailsGrow
  <1>1. ASSUME UNCHANGED vars
        PROVE  Registered'
    BY <1>0, <1>1, RegisteredFrame DEF vars, Registered
  <1>2. ASSUME NEW j \in Jobs,
               Submit(j) \/ Executor(j) \/ CliKilled(j)
        PROVE  Registered'
    <2>1. /\ UNCHANGED daemon
          /\ \A k \in Jobs \ {j} : /\ pc'[k] = pc[k] /\ result'[k] = result[k]
                                   /\ registry'[k] = registry[k]
      BY <1>2 DEF Submit, Executor, CliKilled, LockWal, Start, Reject, Evaluate, Block,
             Execute, BackUp, Act, CapabilityReturns, Panic, LogBackup, LogCompleted,
             LogErrorBackup, LogFailed, Report, MustAppend, Return, Goto, TypeOK
    <2>2. \A k \in Jobs \ {j} : RegisteredJob(k)'
      BY <1>0, <2>1, RegisteredFrame DEF Registered
    <2>3. RegisteredJob(j) /\ BegunJob(j)
      BY DEF Registered, Ordered
    <2>4. InWal(j) => InWal(j)'
      BY <1>0 DEF InWal
    <2>5. CASE Submit(j)
      BY <2>1, <2>2, <2>5, <2>3 DEF Registered, RegisteredJob, Submit, Goto, TypeOK
    <2>6. CASE LogCompleted(j)
      <3>1. /\ BestEffort(j, "completed") /\ pc'[j] = "returned"
            /\ AppendOk(j, "completed") \/ result'[j] = "error"
            /\ UNCHANGED registry /\ pc[j] = "logCompleted"
        BY <2>6, MustIsBestEffort DEF LogCompleted, Return, Goto, TypeOK
      <3>2. AppendOk(j, "completed") => InWal(j)'
        BY <1>0, <3>1, <2>3, Appending
           DEF InWal, Types, Terminal, BegunJob, Begun, Untouched, Allowed, Silent
      <3>. QED
        BY <2>1, <2>2, <2>3, <3>1, <3>2 DEF Registered, RegisteredJob
    <2>7. CASE Report(j)
      <3>1. /\ pc[j] = "returned" /\ pc'[j] = "done"
            /\ registry'[j] # "none" => registry[j] # "none"
            /\ registry'[j] = "completed" => registry[j] = "completed" \/ result[j] = "ok"
        BY <2>7 DEF Report, Goto, Told, TypeOK
      <3>. QED
        BY <2>1, <2>2, <2>3, <2>4, <3>1 DEF Registered, RegisteredJob
    <2>8. ASSUME ~ Submit(j), ~ LogCompleted(j), ~ Report(j)
          PROVE  Registered'
      <3> DEFINE Errs == /\ UNCHANGED registry
                         /\ pc[j] \notin {"new", "done"} /\ pc'[j] # "new"
                         /\ pc'[j] = "returned" => result'[j] = "error"
      <3>1. Errs
        <4>1. ASSUME LockWal(j) \/ Execute(j) \/ CliKilled(j) \/ BackUp(j) \/ Act(j)
                      \/ CapabilityReturns(j) \/ Panic(j)
              PROVE  Errs
          BY <4>1 DEF LockWal, Execute, CliKilled, Executing, BackUp, Act, CapabilityReturns,
                      Panic, Return, Goto, TypeOK
        <4>2. ASSUME Start(j) \/ Evaluate(j) \/ LogBackup(j) \/ LogErrorBackup(j)
              PROVE  Errs
          BY <4>2 DEF Start, Evaluate, LogBackup, LogErrorBackup, MustAppend, Return, Goto,
                      TypeOK
        <4>3. ASSUME Reject(j) \/ Block(j) \/ LogFailed(j)
              PROVE  Errs
          BY <4>3 DEF Reject, Block, LogFailed, Return, Goto, TypeOK
        <4>. QED
          BY <1>2, <2>8, <4>1, <4>2, <4>3 DEF Executor
      <3>. QED
        BY <2>1, <2>2, <2>3, <3>1 DEF Registered, RegisteredJob
    <2>. QED
      BY <2>5, <2>6, <2>7, <2>8
  <1>3. ASSUME NEW j \in Jobs, Reconcile(j)
        PROVE  Registered'
    BY <1>0, <1>3, RegisteredFrame DEF Reconcile, Registered
  <1>4. ASSUME Crash
        PROVE  Registered'
    <2>1. /\ \A j \in Jobs : registry'[j] = "none"
          /\ \A j \in Jobs : pc'[j] = "returned" => pc[j] = "returned"
          /\ UNCHANGED <<wal, result>>
      BY <1>4 DEF Crash, TypeOK
    <2>. QED
      BY <2>1 DEF Registered, RegisteredJob, InWal, Logged
  <1>5. ASSUME DaemonStart \/ Listen
        PROVE  Registered'
    <2>1. daemon # "up" /\ UNCHANGED <<wal, pc, result, registry>>
      BY <1>5 DEF DaemonStart, Listen
    <2>. QED
      BY <2>1 DEF Registered, RegisteredJob, InWal, Logged
  <1>. QED
    BY <1>1, <1>2, <1>3, <1>4, <1>5 DEF Next, Startup

THEOREM RegisteredInvariant == Spec => []Registered
  <1>1. Init => Registered
    BY DEF Init, Registered, RegisteredJob
  <1>. QED
    BY <1>1, RegisteredStep, TypeCorrect, OrderedInvariant, PTL DEF Spec

\* What status reported as completed it reports as completed for good: from the registry
\* while the daemon lives, from the WAL when it has died and was started again.
THEOREM CompletionIsFinal == Spec => CompletedForGood
  <1>1. TypeOK /\ Ordered /\ Registered /\ [Next]_vars =>
            [\A j \in Jobs : Status(j) = "completed" => Status(j)' = "completed"]_vars
    <2> SUFFICES ASSUME TypeOK, Ordered, Registered, [Next]_vars, NEW j \in Jobs,
                        Status(j) = "completed"
                 PROVE  Status(j)' = "completed"
      OBVIOUS
    <2>1. RegisteredJob(j) /\ BegunJob(j)
      BY DEF Registered, Ordered
    <2>2. InWal(j) /\ InWal(j)'
      <3>1. InWal(j)
        BY <2>1 DEF Status, WalStatus, InRegistry, RegisteredJob, InWal
      <3>. QED
        BY <3>1, TrailsGrow DEF InWal
    <2>3. WalStatus(j)' = "completed"
      BY <2>2 DEF InWal, WalStatus
    <2>4. wal[j] # <<>>
      BY <2>2 DEF InWal, Logged
    <2>5. ASSUME InRegistry(j)'
          PROVE  InRegistry(j) /\ registry'[j] = registry[j]
      <3>1. ASSUME NEW k \in Jobs, Submit(k) \/ Report(k)
            PROVE  registry'[j] = registry[j] \/ (k = j /\ pc[j] \in {"new", "returned"})
        BY <3>1 DEF Submit, Report, TypeOK
      <3>2. pc[j] # "new"
        BY <2>1, <2>4 DEF BegunJob, Silent
      <3>3. pc[j] = "returned" => registry[j] = "none"
        BY <2>1 DEF Status, InRegistry, RegisteredJob
      <3>4. ASSUME NEW k \in Jobs, Submit(k) \/ Executor(k) \/ CliKilled(k)
            PROVE  /\ UNCHANGED daemon
                   /\ UNCHANGED registry \/ Submit(k) \/ Report(k)
        BY <3>4 DEF Submit, Executor, CliKilled, LockWal, Start, Reject, Evaluate, Block,
               Execute, BackUp, Act, CapabilityReturns, Panic, LogBackup, LogCompleted,
               LogErrorBackup, LogFailed, Report, environment
      <3>5. ASSUME Startup \/ UNCHANGED vars
            PROVE  UNCHANGED registry
        BY <3>5 DEF Startup, DaemonStart, Listen, Reconcile, vars
      <3>6. ~ Crash
        BY <2>5 DEF Crash, InRegistry
      <3>7. ASSUME NEW k \in Jobs, Report(k), k = j, registry[j] = "none"
            PROVE  registry'[j] = registry[j]
        BY <3>7 DEF Report
      <3>8. registry'[j] = registry[j]
        BY <3>1, <3>2, <3>3, <3>4, <3>5, <3>6, <3>7 DEF Next, Submit, Report
      <3>. QED
        BY <2>1, <2>5, <3>8 DEF InRegistry, RegisteredJob
    <2>. QED
      BY <2>3, <2>5 DEF Status
  <1>. QED
    BY <1>1, TypeCorrect, OrderedInvariant, RegisteredInvariant, PTL DEF Spec, CompletedForGood

-----------------------------------------------------------------------------
(* The parts of an execution                                               *)

ProcessesPart == part = "processes" => Ma!ProcInv

LEMMA ProcessesPartStep == ProcessesPart /\ [ExecutingNext]_all => ProcessesPart'
  <1> SUFFICES ASSUME ProcessesPart, [ExecutingNext]_all, part' = "processes"
               PROVE  Ma!ProcInv'
    BY DEF ProcessesPart
  <1>1. part = "processes" /\ [Ma!ProcNext]_(Ma!procVars)
    BY DEF ExecutingNext, all, slots, Ma!procVars, Ma!os, Ma!shells, Ma!kills
  <1>. QED
    BY <1>1, ExecutingAssumption, Ma!ProcInvStep DEF ProcessesPart

THEOREM ProcessesInvariant == ExecutingSpec => []ProcessesPart
  <1>1. ExecutingInit => ProcessesPart
    BY Ma!ProcInvInit DEF ExecutingInit, ProcessesPart
  <1>. QED
    BY <1>1, ProcessesPartStep, PTL DEF ExecutingSpec

\* kill.rs, shell_exec.rs: a process that a kill reports as killed is gone for good, and a
\* shell command is answered with what became of it.
THEOREM ProcessAnswersTrue == ExecutingSpec => []AnswersAreTrue
  <1>1. ProcessesPart => AnswersAreTrue
    BY Ma!InvKilledIsDead, Ma!InvAnswerIsTrue DEF ProcessesPart, AnswersAreTrue
  <1>. QED
    BY <1>1, ProcessesInvariant, PTL

\* kill_process_group: a timeout reaches the command's group and nobody else.
THEOREM TimeoutReachesGroup == ExecutingSpec => []TimeoutKillsGroup
  <1>1. ProcessesPart => TimeoutKillsGroup
    BY Ma!InvTimeoutClearsGroup, Ma!InvSignalsOnlyOwn DEF ProcessesPart, TimeoutKillsGroup
  <1>. QED
    BY <1>1, ProcessesInvariant, PTL

-----------------------------------------------------------------------------
FilesPart == part = "files" => Fi!FilesInv

FilesStep == part = "files" /\ [Fi!Next]_(Fi!vars)

LEMMA FilesPartMoves == [ExecutingNext]_all /\ part' = "files" => FilesStep
  BY DEF ExecutingNext, all, slots, FilesStep, Fi!vars, Fi!names, Fi!store

THEOREM FilesInvariant == ExecutingSpec => []FilesPart
  <1>1. ExecutingInit => FilesPart
    BY ExecutingAssumption, Fi!FilesInvInit DEF ExecutingInit, FilesPart
  <1>2. FilesPart /\ [ExecutingNext]_all => FilesPart'
    BY FilesPartMoves, ExecutingAssumption, Fi!FilesInvStep DEF FilesPart, FilesStep
  <1>. QED
    BY <1>1, <1>2, PTL DEF ExecutingSpec

\* atomic_write, restore: the file changes by one rename and never holds a part of a content.
THEOREM FilesChangeAtOnce == ExecutingSpec => []FileChangesAtOnce
  <1>1. FilesPart => FileChangesAtOnce
    BY Fi!InvAtomicChange, Fi!InvFileWhole DEF FilesPart, FileChangesAtOnce
  <1>. QED
    BY <1>1, FilesInvariant, PTL

\* BackupManager, Undo: what is taken from a file is kept, and an undo brings it back.
THEOREM UndoRestores == ExecutingSpec => UndoBringsBack
  <1> DEFINE A == part = "files" => Fi!KeepsDisplaced /\ Fi!RestoresBefore
  <1>1. FilesPart /\ [ExecutingNext]_all => A
    <2> SUFFICES ASSUME FilesPart, [ExecutingNext]_all, part = "files"
                 PROVE  Fi!KeepsDisplaced /\ Fi!RestoresBefore
      OBVIOUS
    <2>1. part' = "files"
      BY DEF ExecutingNext, all
    <2>. QED
      BY <2>1, FilesPartMoves, ExecutingAssumption, Fi!StepKeepsDisplaced, Fi!StepRestoresBefore
         DEF FilesPart, FilesStep
  <1>. QED
    BY <1>1, FilesInvariant, PTL DEF ExecutingSpec, UndoBringsBack
-----------------------------------------------------------------------------
\* The audit trail is JobLifecycle's: what is shown of its jobs holds here.
THEOREM ExecutingIsJobs == ExecutingSpec => Spec
  <1>1. ExecutingInit => Init
    BY DEF ExecutingInit
  <1>2. [ExecutingNext]_all => [Next]_vars
    BY DEF ExecutingNext, all
  <1>. QED
    BY <1>1, <1>2, PTL DEF ExecutingSpec, Spec

-----------------------------------------------------------------------------
(* Reads, the assessment, the configuration and the snapshots              *)

ReadsPart == part = "reads" => Ma!RdInv
AssessPart == part = "assess" => Ma!AscInv
ConfigPart == part = "config" => Ma!ConfInv /\ Ma!ViewsInv
SnapshotsPart == part = "snapshots" => Ma!SnapInv

LEMMA ReadsPartMoves ==
    [ExecutingNext]_all /\ part' = "reads" => part = "reads" /\ [Ma!RdNext]_(Ma!rdVars)
  BY DEF ExecutingNext, all, slots, Ma!rdVars

LEMMA AssessPartMoves ==
    [ExecutingNext]_all /\ part' = "assess" => part = "assess" /\ [Ma!AscNext]_(Ma!ascVars)
  BY DEF ExecutingNext, all, slots, Ma!ascVars

LEMMA ConfigPartMoves ==
    [ExecutingNext]_all /\ part' = "config" => part = "config" /\ [Ma!ConfNext]_(Ma!confVars)
  BY DEF ExecutingNext, all, slots, Ma!confVars

LEMMA SnapshotsPartMoves ==
    [ExecutingNext]_all /\ part' = "snapshots" => part = "snapshots" /\ [Ma!SnapNext]_(Ma!snapVars)
  BY DEF ExecutingNext, all, slots, Ma!snapVars, Ma!looks

THEOREM ReadsInvariant == ExecutingSpec => []ReadsPart
  <1>1. ExecutingInit => ReadsPart
    BY ExecutingAssumption, Ma!RdInvInit DEF ExecutingInit, ReadsPart
  <1>2. ReadsPart /\ [ExecutingNext]_all => ReadsPart'
    BY ReadsPartMoves, ExecutingAssumption, Ma!RdInvStep DEF ReadsPart
  <1>. QED
    BY <1>1, <1>2, PTL DEF ExecutingSpec

THEOREM AssessInvariant == ExecutingSpec => []AssessPart
  <1>1. ExecutingInit => AssessPart
    BY ExecutingAssumption, Ma!AscInvInit DEF ExecutingInit, AssessPart
  <1>2. AssessPart /\ [ExecutingNext]_all => AssessPart'
    BY AssessPartMoves, ExecutingAssumption, Ma!AscInvStep DEF AssessPart
  <1>. QED
    BY <1>1, <1>2, PTL DEF ExecutingSpec

THEOREM ConfigInvariant == ExecutingSpec => []ConfigPart
  <1>1. ExecutingInit => ConfigPart
    BY ExecutingAssumption, Ma!ConfInvInit, Ma!ViewsInvInit DEF ExecutingInit, ConfigPart
  <1>2. ConfigPart /\ [ExecutingNext]_all => ConfigPart'
    BY ConfigPartMoves, ExecutingAssumption, Ma!ConfInvStep, Ma!ViewsInvStep DEF ConfigPart
  <1>. QED
    BY <1>1, <1>2, PTL DEF ExecutingSpec

THEOREM SnapshotsInvariant == ExecutingSpec => []SnapshotsPart
  <1>1. ExecutingInit => SnapshotsPart
    BY ExecutingAssumption, Ma!SnapInvInit DEF ExecutingInit, SnapshotsPart
  <1>2. SnapshotsPart /\ [ExecutingNext]_all => SnapshotsPart'
    BY SnapshotsPartMoves, ExecutingAssumption, Ma!SnapInvStep DEF SnapshotsPart
  <1>. QED
    BY <1>1, <1>2, PTL DEF ExecutingSpec

\* file_read.rs, path.rs: what is read is of the file that was validated, and the answer
\* says whether it is all of it.
THEOREM ReadsAreTrue == ExecutingSpec => []ReadIsTrue
  <1>1. ReadsPart => ReadIsTrue
    BY DEF ReadsPart, ReadIsTrue, Ma!RdInv, Ma!ReadIsTrue
  <1>. QED
    BY <1>1, ReadsInvariant, PTL

\* llmosafe.rs, executor.rs: whatever ran was assessed, and the recorded assessment permits it.
THEOREM DoneIsAssessed == ExecutingSpec => []DoneWasAssessed
  <1>1. AssessPart => DoneWasAssessed
    BY Ma!InvDoneWasAssessed DEF AssessPart, DoneWasAssessed
  <1>. QED
    BY <1>1, AssessInvariant, PTL

\* ResolvedConfig: what is reported is what the gates of an execution go by.
THEOREM ReportedIsGated == ExecutingSpec => []ReportIsGate
  <1>1. ConfigPart => ReportIsGate
    BY Ma!InvReportIsGate DEF ConfigPart, ReportIsGate
  <1>. QED
    BY <1>1, ConfigInvariant, PTL

\* save: config.toml changes by one whole command at a time, while no two overlap.
THEOREM EditsAreWhole == ExecutingSpec => OneEditAtATime
  <1>1. ConfigPart /\ [ExecutingNext]_all => (part = "config" => Ma!EditsWhole)
    <2> SUFFICES ASSUME ConfigPart, [ExecutingNext]_all, part = "config"
                 PROVE  Ma!EditsWhole
      OBVIOUS
    <2>1. part' = "config"
      BY DEF ExecutingNext, all
    <2>. QED
      BY <2>1, ConfigPartMoves, ExecutingAssumption, Ma!ConfInvStep DEF ConfigPart
  <1>. QED
    BY <1>1, ConfigInvariant, PTL DEF ExecutingSpec, OneEditAtATime

\* telemetry.rs, executor.rs: nobody is given a stale snapshot, and the two looks of an
\* execution are two captures.
THEOREM SnapshotsAreDistinct == ExecutingSpec => SnapshotsDistinct
  <1>1. SnapshotsPart /\ SnapshotsPart' /\ [ExecutingNext]_all
           => (part = "snapshots" => Ma!GivesRecent /\ Ma!LooksDiffer')
    <2> SUFFICES ASSUME SnapshotsPart, SnapshotsPart', [ExecutingNext]_all, part = "snapshots"
                 PROVE  Ma!GivesRecent /\ Ma!LooksDiffer'
      OBVIOUS
    <2>1. part' = "snapshots"
      BY DEF ExecutingNext, all
    <2>2. Ma!GivesRecent
      BY <2>1, SnapshotsPartMoves, ExecutingAssumption, Ma!StepGivesRecent DEF SnapshotsPart
    <2>3. Ma!SnapInv' => Ma!LooksDiffer'
      BY Ma!InvLooksDiffer, PTL
    <2>. QED
      BY <2>1, <2>2, <2>3 DEF SnapshotsPart
  <1>. QED
    BY <1>1, SnapshotsInvariant, PTL DEF ExecutingSpec, SnapshotsDistinct
-----------------------------------------------------------------------------
\* The state of the part that moves has its type.
THEOREM ExecutingTypeCorrect == ExecutingSpec => []ExecutingTypeOK
  <1>1. FilesPart => (part = "files" => Fi!TypeOK)
    BY DEF FilesPart, Fi!FilesInv, Fi!Types
  <1>2. ProcessesPart => (part = "processes" => Ma!ProcTypeOK)
    BY Ma!InvTypeOK DEF ProcessesPart
  <1>3. ReadsPart => (part = "reads" => Ma!RdTypeOK)
    BY DEF ReadsPart, Ma!RdInv
  <1>4. AssessPart => (part = "assess" => Ma!AscTypeOK)
    BY Ma!InvAscTypeOK DEF AssessPart
  <1>5. ConfigPart => (part = "config" => Ma!ConfTypeOK)
    BY DEF ConfigPart, Ma!ConfInv
  <1>6. SnapshotsPart => (part = "snapshots" => Ma!SnapTypeOK)
    BY DEF SnapshotsPart, Ma!SnapInv, Ma!SnapTypes
  <1>7. TypeOK /\ FilesPart /\ ProcessesPart /\ ReadsPart /\ AssessPart /\ ConfigPart /\ SnapshotsPart
           => ExecutingTypeOK
    BY <1>1, <1>2, <1>3, <1>4, <1>5, <1>6 DEF ExecutingTypeOK
  <1>. QED
    BY <1>7, ExecutingIsJobs, TypeCorrect, FilesInvariant, ProcessesInvariant, ReadsInvariant,
       AssessInvariant, ConfigInvariant, SnapshotsInvariant, PTL
==============================================================================
