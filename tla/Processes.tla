----------------------------- MODULE Processes -----------------------------
(***************************************************************************)
(* ShellExec and Kill (core/src/capabilities) over a small operating       *)
(* system: processes with reusable ids, process groups, zombies, and the   *)
(* pipes that a command's descendants inherit.                             *)
(*                                                                         *)
(* What a command does is the environment's choice: it forks inside or out *)
(* of its group, keeps or closes the pipes, reads its input or does not,   *)
(* exits or stays. `born` tells processes apart, as the start time does.   *)
(***************************************************************************)
EXTENDS Common, Naturals, FiniteSets

CONSTANTS Pids, Shells, Kills,
          MaxBorn     \* bound: processes started after the initial one

VARIABLES
    proc, births,                       \* the process table
    shell, child, stdin, expired, status, timedOut, verdict,   \* ShellExec calls
    signalled, killedAt,                \* history: whose processes a call has signalled; when
    kill, target, seen, sent, still, killed,                   \* Kill calls
    snapshot                            \* PROCESS_CACHE

os == <<proc, births>>
shells == <<shell, child, stdin, expired, status, timedOut, verdict, signalled, killedAt>>
kills == <<kill, target, seen, sent, still, killed>>
procVars == <<os, shells, kills, snapshot>>

NoProc == [state |-> "free", born |-> 0, group |-> None, tree |-> None, pipe |-> FALSE,
           exit |-> "none"]
Live(p) == proc[p].state = "live"
LivePids == {p \in Pids : Live(p)}
Tree(h) == {p \in LivePids : proc[p].tree = h}
StartTime(p) == IF proc[p].state = "free" THEN None ELSE proc[p].born

\* The call that has p as its child and has not waited for it yet.
ChildOf(p) == {h \in Shells : child[h] = p /\ status[h] = "none"}

\* Shapes, and the identity of processes: no two share a start time.
ProcTypeOK ==
    /\ \A p \in Pids :
        /\ proc[p].state \in {"free", "live", "zombie"} /\ proc[p].born \in 0..births
        /\ proc[p].group \in Pids \cup {None} /\ proc[p].tree \in Shells \cup {None}
    /\ \A p, q \in Pids : (p # q /\ proc[p].state # "free") => proc[p].born # proc[q].born
    /\ shell \in [Shells -> {"new", "refused", "stdin", "waiting", "reaping", "joining", "done"}]
    /\ child \in [Shells -> Pids \cup {None}]
    /\ verdict \in [Shells -> {"none", "ok", "error", "timed out"}]
    /\ kill \in [Kills -> {"new", "read", "confirm", "signal", "after", "verify", "done"}]
    /\ killed \in [Kills -> {"none", "refused", "not found", "reused", "failed", "killed"}]

\* One process that is none of ours.
ProcInit ==
    /\ \E p \in Pids :
        proc = [q \in Pids |-> IF q # p THEN NoProc
                ELSE [NoProc EXCEPT !.state = "live", !.born = 1, !.group = p]]
    /\ births = 1
    /\ shell = [h \in Shells |-> "new"] /\ child = [h \in Shells |-> None]
    /\ stdin = [h \in Shells |-> "none"] /\ status = [h \in Shells |-> "none"]
    /\ expired = [h \in Shells |-> FALSE] /\ timedOut = [h \in Shells |-> FALSE]
    /\ verdict = [h \in Shells |-> "none"] /\ signalled = [h \in Shells |-> {}]
    /\ killedAt = [h \in Shells |-> 0]
    /\ kill = [k \in Kills |-> "new"] /\ target = [k \in Kills |-> None]
    /\ seen = [k \in Kills |-> None] /\ sent = [k \in Kills |-> FALSE]
    /\ still = [k \in Kills |-> FALSE] /\ killed = [k \in Kills |-> "none"]
    /\ snapshot = None

-----------------------------------------------------------------------------
(* The operating system and the commands                                   *)

\* A number is given out again when no process has it, as its own or as its group's.
Started(p, group, tree, pipe) ==
    /\ \A q \in Pids : proc[q].state # "free" => p \notin {q, proc[q].group}
    /\ births < MaxBorn + 1 /\ births' = births + 1
    /\ proc' = [proc EXCEPT ![p] = [state |-> "live", born |-> births + 1, group |-> group,
                                    tree |-> tree, pipe |-> pipe, exit |-> "none"]]

\* An unwaited child of ours stays as a zombie; init or its parent reaps any other.
Ended(p, how) ==
    IF ChildOf(p) # {} THEN [NoProc EXCEPT !.state = "zombie", !.born = proc[p].born,
                                           !.group = proc[p].group, !.exit = how]
    ELSE NoProc

Fork(p) ==
    /\ Live(p)
    /\ \E q \in Pids, group \in {proc[p].group, None}, pipe \in {proc[p].pipe, FALSE} :
        /\ Started(q, IF group = None THEN q ELSE group, proc[p].tree, pipe)
    /\ UNCHANGED <<shells, kills, snapshot>>

Exit(p) ==
    /\ Live(p)
    /\ \E how \in {"zero", "signal"} :
        /\ ChildOf(p) = {} => how = "zero"
        /\ proc' = [proc EXCEPT ![p] = Ended(p, how)]
    /\ UNCHANGED <<births, shells, kills, snapshot>>

\* A process of somebody else's that nobody has waited for yet.
Linger(p) ==
    /\ Live(p) /\ proc[p].tree = None
    /\ proc' = [proc EXCEPT ![p].state = "zombie"]
    /\ UNCHANGED <<births, shells, kills, snapshot>>

ReapLingering(p) ==
    /\ proc[p].state = "zombie" /\ ChildOf(p) = {}
    /\ proc' = [proc EXCEPT ![p] = NoProc]
    /\ UNCHANGED <<births, shells, kills, snapshot>>

ReadStdin(h) ==
    /\ shell[h] = "stdin" /\ stdin[h] = "large" /\ Tree(h) # {}
    /\ stdin' = [stdin EXCEPT ![h] = "small"]
    /\ UNCHANGED <<os, shell, child, expired, status, timedOut, verdict, signalled, killedAt, kills,
                   snapshot>>

Expire(h) ==
    /\ shell[h] = "waiting" /\ ~ expired[h]
    /\ expired' = [expired EXCEPT ![h] = TRUE]
    /\ UNCHANGED <<os, shell, child, stdin, status, timedOut, verdict, signalled, killedAt, kills,
                   snapshot>>

-----------------------------------------------------------------------------
(* ShellExec                                                               *)

\* The daemon runs one capability at a time, under wal_mutex.
Idle ==
    /\ \A h \in Shells : shell[h] \in {"new", "refused", "done"}
    /\ \A k \in Kills : kill[k] \in {"new", "done"}

\* Invalid arguments, a screened command, a dry run, a failed spawn.
RefuseCommand(h) ==
    /\ shell[h] = "new" /\ Idle
    /\ shell' = [shell EXCEPT ![h] = "refused"]
    /\ UNCHANGED <<os, child, stdin, expired, status, timedOut, verdict, signalled, killedAt, kills,
                   snapshot>>

\* sh -c in a process group of its own, with pipes for the output.
Spawn(h) ==
    /\ shell[h] = "new" /\ Idle
    /\ \E p \in Pids, input \in {"none", "small", "large"} :
        /\ Started(p, p, h, TRUE)
        /\ child' = [child EXCEPT ![h] = p]
        /\ stdin' = [stdin EXCEPT ![h] = input]
        /\ shell' = [shell EXCEPT ![h] = IF input = "none" THEN "waiting" ELSE "stdin"]
    /\ UNCHANGED <<expired, status, timedOut, verdict, signalled, killedAt, kills, snapshot>>

\* write_all returns when the input fits in the pipe, was read, or lost its readers.
\* The clock of the timeout starts after it.
WriteStdin(h) ==
    /\ shell[h] = "stdin" /\ (stdin[h] = "small" \/ Tree(h) = {})
    /\ shell' = [shell EXCEPT ![h] = "waiting"]
    /\ UNCHANGED <<os, child, stdin, expired, status, timedOut, verdict, signalled, killedAt, kills,
                   snapshot>>

\* Mutant of Group: the child alone.
ChildOnly(g) == {p \in LivePids : p = g}

Group(g) == {p \in LivePids : proc[p].group = g}

\* Mutant of KillGroup: the timeout is noted, nothing is killed.
NoteTimeout(h) ==
    /\ shell[h] = "waiting" /\ expired[h]
    /\ shell' = [shell EXCEPT ![h] = "reaping"]
    /\ timedOut' = [timedOut EXCEPT ![h] = TRUE]
    /\ UNCHANGED <<os, child, stdin, expired, status, verdict, signalled, killedAt, kills, snapshot>>

\* The time is up: SIGKILL to the whole group of the child, which nobody has waited for.
KillGroup(h) ==
    /\ shell[h] = "waiting" /\ expired[h]
    /\ shell' = [shell EXCEPT ![h] = "reaping"]
    /\ timedOut' = [timedOut EXCEPT ![h] = TRUE]
    /\ killedAt' = [killedAt EXCEPT ![h] = births]
    /\ signalled' = [signalled EXCEPT ![h] = @ \cup {proc[p].tree : p \in Group(child[h])}]
    /\ proc' = [p \in Pids |-> IF p \in Group(child[h]) THEN Ended(p, "signal") ELSE proc[p]]
    /\ UNCHANGED <<births, child, stdin, expired, status, verdict, kills, snapshot>>

\* wait, or a try_wait that finds the child ended before the time was seen to be up.
Reap(h) ==
    /\ shell[h] \in {"reaping", "waiting"}
    /\ proc[child[h]].state = "zombie"
    /\ shell' = [shell EXCEPT ![h] = "joining"]
    /\ status' = [status EXCEPT ![h] = proc[child[h]].exit]
    /\ proc' = [proc EXCEPT ![child[h]] = NoProc]
    /\ UNCHANGED <<births, child, stdin, expired, timedOut, verdict, signalled, killedAt, kills, snapshot>>

\* Mutant of ShellAnswer: a death by signal is taken for the timeout.
AnswerBySignal(h) ==
    IF status[h] = "signal" THEN "timed out" ELSE IF status[h] = "zero" THEN "ok" ELSE "error"

ShellAnswer(h) == IF timedOut[h] THEN "timed out" ELSE IF status[h] = "zero" THEN "ok" ELSE "error"

HoldsPipe(h) == {p \in Tree(h) : proc[p].pipe}

\* The threads that drain the pipes end with the last process that holds them.
Join(h) ==
    /\ shell[h] = "joining" /\ HoldsPipe(h) = {}
    /\ shell' = [shell EXCEPT ![h] = "done"]
    /\ verdict' = [verdict EXCEPT ![h] = ShellAnswer(h)]
    /\ UNCHANGED <<os, child, stdin, expired, status, timedOut, signalled, killedAt, kills, snapshot>>

-----------------------------------------------------------------------------
(* Kill and the cached process snapshot                                    *)

Existing == {q \in Pids : proc[q].state # "free"}

\* ProcessSnapshot::capture: what was captured in the last 30 s, if anything.
Captured == IF snapshot = None THEN Existing ELSE snapshot

SnapshotExpires ==
    /\ snapshot # None /\ snapshot' = None
    /\ UNCHANGED <<os, shells, kills>>

\* The guards, and the look into the snapshot before anything is sent.
LookUp(k) ==
    /\ kill[k] = "new" /\ Idle
    /\ \E p \in Pids :
        /\ target' = [target EXCEPT ![k] = p]
        /\ \/ /\ kill' = [kill EXCEPT ![k] = "done"]
              /\ killed' = [killed EXCEPT ![k] = "refused"]
              /\ UNCHANGED snapshot
           \/ /\ snapshot' = Captured
              /\ IF p \in Captured
                 THEN kill' = [kill EXCEPT ![k] = "read"] /\ UNCHANGED killed
                 ELSE /\ kill' = [kill EXCEPT ![k] = "done"]
                      /\ killed' = [killed EXCEPT ![k] = "not found"]
    /\ UNCHANGED <<os, shells, seen, sent, still>>

ReadStartTime(k) ==
    /\ kill[k] = "read"
    /\ kill' = [kill EXCEPT ![k] = "confirm"]
    /\ seen' = [seen EXCEPT ![k] = StartTime(target[k])]
    /\ UNCHANGED <<os, shells, target, sent, still, killed, snapshot>>

Confirm(k) ==
    /\ kill[k] = "confirm"
    /\ IF StartTime(target[k]) = seen[k]
       THEN kill' = [kill EXCEPT ![k] = "signal"] /\ UNCHANGED killed
       ELSE /\ kill' = [kill EXCEPT ![k] = "done"]
            /\ killed' = [killed EXCEPT ![k] = "reused"]
    /\ UNCHANGED <<os, shells, target, seen, sent, still, snapshot>>

\* kill(2): a process may die of the signal, or ignore it.
Signal(k) ==
    /\ kill[k] = "signal"
    /\ kill' = [kill EXCEPT ![k] = "after"]
    /\ sent' = [sent EXCEPT ![k] = proc[target[k]].state # "free"]
    /\ \/ UNCHANGED proc
       \/ /\ Live(target[k])
          /\ proc' = [proc EXCEPT ![target[k]] = Ended(target[k], "signal")]
    /\ UNCHANGED <<births, shells, target, seen, still, killed, snapshot>>

\* capture_fresh: a zombie counts as dead.
LookAgain(k) ==
    /\ kill[k] = "after"
    /\ kill' = [kill EXCEPT ![k] = "verify"]
    /\ snapshot' = Existing
    /\ still' = [still EXCEPT ![k] = Live(target[k])]
    /\ UNCHANGED <<os, shells, target, seen, sent, killed>>

\* pid_was_reused, with the start time that is read now.
Reused(k) ==
    /\ seen[k] # None
    /\ IF StartTime(target[k]) = None THEN still[k] ELSE StartTime(target[k]) # seen[k]

KillAnswer(k) ==
    IF sent[k] /\ ~ still[k] /\ ~ Reused(k) THEN "killed"
    ELSE IF Reused(k) THEN "reused" ELSE "failed"

VerifyKilled(k) ==
    /\ kill[k] = "verify"
    /\ kill' = [kill EXCEPT ![k] = "done"]
    /\ killed' = [killed EXCEPT ![k] = KillAnswer(k)]
    /\ UNCHANGED <<os, shells, target, seen, sent, still, snapshot>>

-----------------------------------------------------------------------------
ShellStep(h) ==
    RefuseCommand(h) \/ Spawn(h) \/ WriteStdin(h) \/ KillGroup(h) \/ Reap(h) \/ Join(h)

KillStep(k) ==
    \/ LookUp(k) \/ ReadStartTime(k) \/ Confirm(k) \/ Signal(k) \/ LookAgain(k)
    \/ VerifyKilled(k)

ProcNext ==
    \/ \E p \in Pids : Fork(p) \/ Exit(p) \/ Linger(p) \/ ReapLingering(p)
    \/ \E h \in Shells : ShellStep(h) \/ ReadStdin(h) \/ Expire(h)
    \/ \E k \in Kills : KillStep(k)
    \/ SnapshotExpires

ProcSpec == ProcInit /\ [][ProcNext]_procVars

\* The call's thread runs and its clock goes; what commands do is up to them.
ProcFairness == \A h \in Shells : WF_procVars(ShellStep(h)) /\ WF_procVars(Expire(h))

ProcFairSpec == ProcSpec /\ ProcFairness

-----------------------------------------------------------------------------
(* Properties                                                              *)

\* A timeout signals nothing but the call's own processes, although process ids
\* are reused while the call still holds the number of its child.
SignalsOnlyOwn == \A h \in Shells : signalled[h] \subseteq {h}

\* "timed_out == true implies the SIGKILL was issued by this function", and "completed"
\* that the command itself ended with 0: the answer separates a timeout from a death by
\* somebody else's signal.
AnswerIsTrue ==
    \A h \in Shells :
        /\ verdict[h] = "timed out" => expired[h]
        /\ verdict[h] = "ok" => status[h] = "zero" /\ ~ timedOut[h]

\* From the timeout on, no process that was in the command's group is alive.
TimeoutClearsGroup ==
    \A h \in Shells : timedOut[h] =>
        \A p \in Tree(h) : proc[p].born <= killedAt[h] => proc[p].group # child[h]

\* A kill that is reported as done: the process whose start time was confirmed before
\* the signal is gone for good, whatever its number stands for now.
KilledIsDead ==
    \A k \in Kills : killed[k] = "killed" =>
        \A p \in LivePids : seen[k] # None => proc[p].born # seen[k]

\* wait_with_timeout: a call whose clock runs never hangs on the command itself; only a process
\* that the command left behind can hold its output open.
Clocked(h) == shell[h] = "waiting"
AnsweredOrHeld(h) == shell[h] = "done" \/ \E p \in HoldsPipe(h) : p # child[h]

\* "Maximum seconds before the process is killed": a call that has started its command
\* answers.
TimeoutBounds == \A h \in Shells : shell[h] \in {"stdin", "waiting"} ~> shell[h] = "done"
=============================================================================
