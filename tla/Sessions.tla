------------------------------ MODULE Sessions ------------------------------
(***************************************************************************)
(* `runtimo session run` (cli/src/main.rs) and the session files it keeps  *)
(* (core/src/session.rs, cli/src/session_run.rs): several CLI processes    *)
(* that find or create a session by name, execute the steps of a prompt    *)
(* file, locally or through the daemon, record each job and mark the end.  *)
(*                                                                         *)
(* A session's id is the run that created it and a job is a step of a run. *)
(* Step outcomes, prompts and time are the environment's choice.           *)
(***************************************************************************)
EXTENDS Common, Naturals, FiniteSets

CONSTANTS Runs,       \* session run processes
          Steps,      \* the number of steps in a run's prompt
          MaxKilled,  \* bound: runs that are killed
          Name        \* the one name that is passed with --session

VARIABLES
    pc, name, policy, via, sid,         \* a run and its arguments
    step, failed, terminated,           \* had_failure, terminated
    outcomes,                           \* what each step of a run was shown as
    files, tmp, lock,                   \* <id>.json, .<id>.tmp, <id>.lock
    copy, fd,                           \* the session a run has read; the inode it writes
    jobs,                               \* what the daemon has made of a dispatched job
    added, users                        \* history: add_job calls that succeeded; runs of an id

args == <<name, policy, via>>
loop == <<step, failed, terminated, outcomes>>
sessVars == <<pc, args, sid, loop, files, tmp, lock, copy, fd, jobs, added, users>>

Job == UNION {{r} \X (1..Steps[r]) : r \in Runs}
Absent == [whole |-> FALSE, name |-> None, jobs |-> {}, status |-> "absent", inode |-> None]
Torn(i) == [Absent EXCEPT !.status = "torn", !.inode = i]

Ended == {"ended", "aborted", "dead"}

SessTypeOK ==
    /\ pc \in [Runs -> {"new", "find", "create", "show", "loop", "exec", "add", "read", "save",
                        "poll", "mark", "truncate", "fill", "rename"} \cup Ended]
    /\ name \in [Runs -> {Name, None}] /\ policy \in [Runs -> {"continue", "stop"}]
    /\ via \in [Runs -> BOOLEAN] /\ sid \in [Runs -> Runs \cup {None}]
    /\ \A r \in Runs : step[r] \in 1..(Steps[r] + 1)
    /\ \A r \in Runs : files[r].whole => files[r].jobs \subseteq Job
    /\ lock \in [Runs -> Runs \cup {None}]
    /\ jobs \in [Job -> {"none", "running", "completed", "failed"}]

SessInit ==
    /\ pc = [r \in Runs |-> "new"]
    /\ name = [r \in Runs |-> None] /\ policy = [r \in Runs |-> "stop"]
    /\ via = [r \in Runs |-> FALSE] /\ sid = [r \in Runs |-> None]
    /\ step = [r \in Runs |-> 1]
    /\ failed = [r \in Runs |-> FALSE] /\ terminated = [r \in Runs |-> FALSE]
    /\ outcomes = [j \in Job |-> "none"]
    /\ files = [i \in Runs |-> Absent] /\ tmp = [i \in Runs |-> Absent]
    /\ lock = [i \in Runs |-> None]
    /\ copy = [r \in Runs |-> Absent] /\ fd = [r \in Runs |-> None]
    /\ jobs = [j \in Job |-> "none"]
    /\ added = [i \in Runs |-> {}] /\ users = [i \in Runs |-> {}]

Goto(r, label) == pc' = [pc EXCEPT ![r] = label]

-----------------------------------------------------------------------------
(* Before the loop                                                         *)

\* Arguments, and everything that ends a run before it touches a session.
BeginRun(r) ==
    /\ pc[r] = "new"
    /\ \/ Goto(r, "ended") /\ UNCHANGED args
       \/ \E n \in {Name, None}, p \in {"continue", "stop"}, v \in BOOLEAN :
           /\ name' = [name EXCEPT ![r] = n]
           /\ policy' = [policy EXCEPT ![r] = p]
           /\ via' = [via EXCEPT ![r] = v]
           /\ Goto(r, "find")
    /\ UNCHANGED <<sid, loop, files, tmp, lock, copy, fd, jobs, added, users>>

\* Files that do not parse are skipped; of several matches the newest is taken.
Matches(n) == {i \in Runs : n # None /\ files[i].whole /\ files[i].name = n}

FindSession(r) ==
    /\ pc[r] = "find"
    /\ IF Matches(name[r]) = {} THEN Goto(r, "create") /\ UNCHANGED <<sid, users>>
       ELSE \E i \in Matches(name[r]) :
            /\ sid' = [sid EXCEPT ![r] = i]
            /\ users' = [users EXCEPT ![i] = @ \cup {r}]
            /\ Goto(r, "show")
    /\ UNCHANGED <<args, loop, files, tmp, lock, copy, fd, jobs, added>>

\* A new id, so no other process writes its files yet.
CreateSession(r) ==
    /\ pc[r] = "create"
    /\ \/ /\ files' = [files EXCEPT ![r] = [whole |-> TRUE, name |-> name[r], jobs |-> {},
                                            status |-> "active", inode |-> None]]
          /\ sid' = [sid EXCEPT ![r] = r] /\ users' = [users EXCEPT ![r] = @ \cup {r}]
          /\ Goto(r, "show")
       \/ Goto(r, "aborted") /\ UNCHANGED <<files, sid, users>>
    /\ UNCHANGED <<args, loop, tmp, lock, copy, fd, jobs, added>>

ShowSession(r) ==
    /\ pc[r] = "show"
    /\ Goto(r, IF files[sid[r]].whole THEN "loop" ELSE "aborted")
    /\ UNCHANGED <<args, sid, loop, files, tmp, lock, copy, fd, jobs, added, users>>

-----------------------------------------------------------------------------
(* The loop over the steps                                                 *)

LoopEnds(r) ==
    /\ pc[r] = "loop" /\ step[r] > Steps[r]
    /\ Goto(r, "mark")
    /\ UNCHANGED <<args, sid, loop, files, tmp, lock, copy, fd, jobs, added, users>>

\* After a step: on_failure decides whether a failed step is the last one.
StepDone(r, ok) ==
    /\ failed' = [failed EXCEPT ![r] = @ \/ ~ ok]
    /\ outcomes' = [outcomes EXCEPT ![<<r, step[r]>>] = IF ok THEN "ok" ELSE "failed"]
    /\ IF ~ ok /\ policy[r] = "stop"
       THEN /\ terminated' = [terminated EXCEPT ![r] = TRUE] /\ UNCHANGED step
            /\ Goto(r, "mark")
       ELSE /\ step' = [step EXCEPT ![r] = @ + 1] /\ UNCHANGED terminated
            /\ Goto(r, "loop")

InLoop(r) == pc[r] = "loop" /\ step[r] <= Steps[r]

\* The session's seconds are used up: the run ends under either policy.
OutOfTime(r) ==
    /\ InLoop(r)
    /\ failed' = [failed EXCEPT ![r] = TRUE]
    /\ terminated' = [terminated EXCEPT ![r] = TRUE]
    /\ Goto(r, "mark")
    /\ UNCHANGED <<args, sid, step, outcomes, files, tmp, lock, copy, fd, jobs, added, users>>

\* Resource guard, dangerous or network command, no slot, unknown capability, no daemon,
\* a dispatch that the daemon refuses.
BlockStep(r) ==
    /\ InLoop(r)
    /\ StepDone(r, FALSE)
    /\ UNCHANGED <<args, sid, files, tmp, lock, copy, fd, jobs, added, users>>

\* The slot is taken and released around the execution.
ExecuteLocally(r) ==
    /\ InLoop(r) /\ ~ via[r]
    /\ Goto(r, "exec")
    /\ UNCHANGED <<args, sid, loop, files, tmp, lock, copy, fd, jobs, added, users>>

\* The executor refuses the step or cannot log it: its error leaves main, loop and all.
ExecutorError(r) ==
    /\ pc[r] = "exec"
    /\ Goto(r, "aborted")
    /\ UNCHANGED <<args, sid, loop, files, tmp, lock, copy, fd, jobs, added, users>>

\* The capability failed with an error: the step fails and the job is not recorded.
CapabilityError(r) ==
    /\ pc[r] = "exec"
    /\ StepDone(r, FALSE)
    /\ UNCHANGED <<args, sid, files, tmp, lock, copy, fd, jobs, added, users>>

\* It returned an output, good or bad, and the executor records the job.
CapabilityOutput(r) ==
    /\ pc[r] = "exec"
    /\ \E s \in {"completed", "failed"} : jobs' = [jobs EXCEPT ![<<r, step[r]>>] = s]
    /\ Goto(r, "add")
    /\ UNCHANGED <<args, sid, loop, files, tmp, lock, copy, fd, added, users>>

DispatchStep(r) ==
    /\ InLoop(r) /\ via[r]
    /\ jobs' = [jobs EXCEPT ![<<r, step[r]>>] = "running"]
    /\ Goto(r, "add")
    /\ UNCHANGED <<args, sid, loop, files, tmp, lock, copy, fd, added, users>>

DaemonFinishes(j) ==
    /\ jobs[j] = "running"
    /\ \E s \in {"completed", "failed"} : jobs' = [jobs EXCEPT ![j] = s]
    /\ UNCHANGED <<pc, args, sid, loop, files, tmp, lock, copy, fd, added, users>>

-----------------------------------------------------------------------------
(* SessionManager::add_job                                                 *)

LockSession(r) ==
    /\ pc[r] = "add" /\ lock[sid[r]] = None
    /\ lock' = [lock EXCEPT ![sid[r]] = r]
    /\ Goto(r, "read")
    /\ UNCHANGED <<args, sid, loop, files, tmp, copy, fd, jobs, added, users>>

\* What comes after add_job, which is never allowed to fail the step.
Added(r) == IF via[r] THEN Goto(r, "poll") /\ UNCHANGED loop
            ELSE StepDone(r, jobs[<<r, step[r]>>] = "completed")

ReadSession(r) ==
    /\ pc[r] = "read"
    /\ IF files[sid[r]].whole
       THEN /\ copy' = [copy EXCEPT ![r] = files[sid[r]]]
            /\ Goto(r, "save") /\ UNCHANGED <<loop, lock>>
       ELSE /\ lock' = [lock EXCEPT ![sid[r]] = None]
            /\ Added(r) /\ UNCHANGED copy
    /\ UNCHANGED <<args, sid, files, tmp, fd, jobs, added, users>>

\* save_session: a temporary file of its own under the lock, renamed when it is complete.
Extended(r) == [copy[r] EXCEPT !.jobs = @ \cup {<<r, step[r]>>}, !.inode = None]

SaveSession(r) ==
    /\ pc[r] = "save"
    /\ \/ /\ files' = [files EXCEPT ![sid[r]] = Extended(r)]
          /\ added' = [added EXCEPT ![sid[r]] = @ \cup {<<r, step[r]>>}]
       \/ UNCHANGED <<files, added>>
    /\ lock' = [lock EXCEPT ![sid[r]] = None]
    /\ copy' = [copy EXCEPT ![r] = Absent]
    /\ Added(r)
    /\ UNCHANGED <<args, sid, tmp, fd, jobs, users>>

-----------------------------------------------------------------------------
(* poll_dispatched_step                                                    *)

Polled(r) == jobs[<<r, step[r]>>] = "completed"

PollTerminal(r) ==
    /\ pc[r] = "poll" /\ jobs[<<r, step[r]>>] # "running"
    /\ StepDone(r, Polled(r))
    /\ UNCHANGED <<args, sid, files, tmp, lock, copy, fd, jobs, added, users>>

\* The budget ran out or the daemon is gone: one more look at its log, if it answers.
PollGivesUp(r) ==
    /\ pc[r] = "poll"
    /\ StepDone(r, FALSE) \/ StepDone(r, Polled(r))
    /\ UNCHANGED <<args, sid, files, tmp, lock, copy, fd, jobs, added, users>>

-----------------------------------------------------------------------------
(* update_session_status: no lock, and a temporary file that runs share    *)

FinalStatus(r) ==
    IF terminated[r] \/ (failed[r] /\ policy[r] = "stop") THEN "terminated" ELSE "completed"

\* Mutant of Marked: the session as the run found it, its jobs left out.
MarkedAsFound(r) == [files[sid[r]] EXCEPT !.status = FinalStatus(r), !.jobs = {}, !.inode = None]

Marked(r) == [files[sid[r]] EXCEPT !.status = FinalStatus(r), !.inode = None]

ReadForMark(r) ==
    /\ pc[r] = "mark"
    /\ IF files[sid[r]].whole
       THEN copy' = [copy EXCEPT ![r] = Marked(r)] /\ Goto(r, "truncate")
       ELSE Goto(r, "ended") /\ UNCHANGED copy
    /\ UNCHANGED <<args, sid, loop, files, tmp, lock, fd, jobs, added, users>>

\* fs::write opens the temporary file, an existing one too, and empties it.
TruncateTmp(r) ==
    /\ pc[r] = "truncate"
    /\ LET i == IF tmp[sid[r]].status = "absent" THEN r ELSE tmp[sid[r]].inode
       IN  /\ fd' = [fd EXCEPT ![r] = i]
           /\ tmp' = [tmp EXCEPT ![sid[r]] = Torn(i)]
    /\ Goto(r, "fill")
    /\ UNCHANGED <<args, sid, loop, files, lock, copy, jobs, added, users>>

\* The text goes to the inode that was opened, whatever its name is by now; over a
\* longer text of another run it leaves the end of that.
FillTmp(r) ==
    /\ pc[r] = "fill"
    /\ LET into(f) == {[copy[r] EXCEPT !.inode = fd[r]]}
                      \cup (IF f.whole THEN {Torn(fd[r])} ELSE {})
       IN  IF tmp[sid[r]].inode = fd[r]
           THEN /\ \E f \in into(tmp[sid[r]]) : tmp' = [tmp EXCEPT ![sid[r]] = f]
                /\ UNCHANGED files
           ELSE /\ UNCHANGED tmp
                /\ IF files[sid[r]].inode = fd[r]
                   THEN \E f \in into(files[sid[r]]) : files' = [files EXCEPT ![sid[r]] = f]
                   ELSE UNCHANGED files
    /\ Goto(r, "rename")
    /\ UNCHANGED <<args, sid, loop, lock, copy, fd, jobs, added, users>>

\* Without the file, renamed by another run, the rename fails with a note.
RenameTmp(r) ==
    /\ pc[r] = "rename"
    /\ IF tmp[sid[r]].status = "absent" THEN UNCHANGED <<files, tmp>>
       ELSE /\ files' = [files EXCEPT ![sid[r]] = tmp[sid[r]]]
            /\ tmp' = [tmp EXCEPT ![sid[r]] = Absent]
    /\ Goto(r, "ended")
    /\ copy' = [copy EXCEPT ![r] = Absent] /\ fd' = [fd EXCEPT ![r] = None]
    /\ UNCHANGED <<args, sid, loop, lock, jobs, added, users>>

\* The process is killed; its flock goes with it.
Killed(r) ==
    /\ pc[r] \notin Ended \cup {"new"}
    /\ Cardinality({q \in Runs : pc[q] = "dead"}) < MaxKilled
    /\ Goto(r, "dead")
    /\ lock' = [i \in Runs |-> IF lock[i] = r THEN None ELSE lock[i]]
    /\ copy' = [copy EXCEPT ![r] = Absent] /\ fd' = [fd EXCEPT ![r] = None]
    /\ UNCHANGED <<args, sid, loop, files, tmp, jobs, added, users>>

-----------------------------------------------------------------------------
SessNext ==
    \/ \E r \in Runs :
        \/ BeginRun(r) \/ FindSession(r) \/ CreateSession(r) \/ ShowSession(r)
        \/ LoopEnds(r) \/ OutOfTime(r) \/ BlockStep(r)
        \/ ExecuteLocally(r) \/ ExecutorError(r) \/ CapabilityError(r) \/ CapabilityOutput(r)
        \/ DispatchStep(r) \/ PollTerminal(r) \/ PollGivesUp(r)
        \/ LockSession(r) \/ ReadSession(r) \/ SaveSession(r)
        \/ ReadForMark(r) \/ TruncateTmp(r) \/ FillTmp(r) \/ RenameTmp(r)
        \/ Killed(r)
    \/ \E j \in Job : DaemonFinishes(j)

SessSpec == SessInit /\ [][SessNext]_sessVars

-----------------------------------------------------------------------------
(* Properties                                                              *)

\* "preventing concurrent processes from losing updates": a job that add_job has
\* recorded stays in its session, whoever else uses the session.
JobsKept == \A i \in Runs : files[i].whole => added[i] \subseteq files[i].jobs

\* A session that one run at a time has used, killed or not, is readable and holds
\* exactly the jobs recorded in it; a marked one says how its last run ended.
LoneSessionTrue ==
    \A i \in Runs : \A r \in Runs : users[i] = {r} =>
        /\ files[i].whole /\ files[i].jobs = added[i]
        /\ files[i].status # "active" => files[i].status = FinalStatus(r)

\* "never a synthesized success": a step is shown as good only if its job completed,
\* whenever the poll gives up, and a session that ends as completed under `stop` has
\* no failed step.
StepsAreReal ==
    /\ \A j \in Job : outcomes[j] = "ok" => jobs[j] = "completed"
    /\ \A i \in Runs : \A r \in users[i] :
        (users[i] = {r} /\ policy[r] = "stop" /\ files[i].status = "completed") =>
            \A s \in 1..Steps[r] : outcomes[<<r, s>>] = "ok"

=============================================================================
