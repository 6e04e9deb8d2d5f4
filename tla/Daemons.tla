------------------------------ MODULE Daemons -------------------------------
(***************************************************************************)
(* The CLI as the daemon's client (cli/src/main.rs: dispatch, run, wait,   *)
(* status and jobs) and how daemons come to exist: started on demand under *)
(* daemon.lock (daemon/src/engine.rs, run).  A client is one CLI process   *)
(* with one command; a job is named by the client that started it.  What a *)
(* job does to the log is cut down to its started, completed and failed    *)
(* events; module JobLifecycle has the rest.                               *)
(***************************************************************************)
EXTENDS Naturals, Sequences

CONSTANTS Makers, Askers,     \* CLI processes with a job of their own; those that ask about one
          Servers,            \* daemon processes
          MaxKills,           \* bound: clients and daemons that are killed
          None

Clients == Makers \cup Askers

VARIABLES
    pc, cmd, target,      \* a client, its command and the job that asks about
    child, told,          \* the daemon it spawned; what it told its user
    dpc, reg, orphans,    \* a daemon, its job registry, what it will reconcile
    sock, lock,           \* who bound runtimo.sock last; the holder of daemon.lock
    at, owner, wal,       \* a job's progress, the process that runs it, its events
    outcome,              \* what its execution came to
    kills, disturbed      \* history: kills, a start that escaped the lock

cliVars == <<pc, cmd, target, child, told>>
srvVars == <<dpc, reg, orphans, sock, lock>>
jobVars == <<at, owner, wal, outcome>>
history == <<kills, disturbed>>
daemonVars == <<cliVars, srvVars, jobVars, history>>

Done == {"ended", "dead"}
InProgress == {"queued", "exec", "did", "logged"}
Terminal == {"completed", "failed"}

DaemonTypeOK ==
    /\ pc \in [Clients -> {"new", "check", "lock", "recheck", "ready", "send", "sent", "run",
                           "exists", "poll", "ask"} \cup Done]
    /\ cmd \in [Clients -> {"none", "dispatch", "run", "wait", "status", "jobs"}]
    /\ target \in [Clients -> Clients] /\ child \in [Clients -> Servers \cup {None}]
    /\ dpc \in [Servers -> {"none", "start", "reconcile", "lock", "unlock", "bind", "listening", "exited"}]
    /\ reg \in [Servers -> [Clients -> {"absent", "running"} \cup Terminal]]
    /\ orphans \in [Servers -> SUBSET Clients]
    /\ sock \in Servers \cup {None} /\ lock \in Clients \cup Servers \cup {None}
    /\ at \in [Clients -> {"none", "over"} \cup InProgress]
    /\ owner \in [Clients -> Clients \cup Servers \cup {None}]
    /\ \A j \in Clients : \A i \in DOMAIN wal[j] : wal[j][i] \in {"started"} \cup Terminal
    /\ outcome \in [Clients -> {"none", "good", "bad", "error"}]

DaemonInit ==
    /\ pc = [c \in Clients |-> "new"] /\ cmd = [c \in Clients |-> "none"]
    /\ target = [c \in Clients |-> c] /\ child = [c \in Clients |-> None]
    /\ told = [c \in Clients |-> "nothing"]
    /\ dpc = [d \in Servers |-> "none"]
    /\ reg = [d \in Servers |-> [j \in Clients |-> "absent"]]
    /\ orphans = [d \in Servers |-> {}]
    /\ sock = None /\ lock = None
    /\ at = [j \in Clients |-> "none"] /\ owner = [j \in Clients |-> None]
    /\ wal = [j \in Clients |-> <<>>] /\ outcome = [j \in Clients |-> "none"]
    /\ kills = 0 /\ disturbed = FALSE

Goto(c, label) == pc' = [pc EXCEPT ![c] = label]
Tell(c, answer) == told' = [told EXCEPT ![c] = answer] /\ Goto(c, "ended")
Sgoto(d, label) == dpc' = [dpc EXCEPT ![d] = label]
\* The memory of a daemon goes with it; its socket file stays.
Exit(d) ==
    /\ Sgoto(d, "exited")
    /\ reg' = [reg EXCEPT ![d] = [j \in Clients |-> "absent"]] /\ orphans' = [orphans EXCEPT ![d] = {}]

Free(holder) == IF lock = holder THEN None ELSE lock

\* connect succeeds if the daemon whose socket file this is still listens.
Up == sock # None /\ dpc[sock] = "listening"

Has(j, event) == \E i \in DOMAIN wal[j] : wal[j][i] = event
Log(j, event) == wal' = [wal EXCEPT ![j] = Append(@, event)]

-----------------------------------------------------------------------------
(* Commands                                                                *)

\* Arguments that are rejected, or a command the pre-check refuses, end the client before it
\* does anything.  A job id that is passed to wait, status or jobs was printed by somebody.
Command(c) ==
    /\ pc[c] = "new"
    /\ \/ /\ c \in Makers
          /\ cmd' = [cmd EXCEPT ![c] = "dispatch"] /\ Goto(c, "check")
          /\ UNCHANGED <<target, at, owner>>
       \/ /\ c \in Makers
          /\ cmd' = [cmd EXCEPT ![c] = "run"] /\ Goto(c, "run")
          /\ at' = [at EXCEPT ![c] = "queued"] /\ owner' = [owner EXCEPT ![c] = c]
          /\ UNCHANGED target
       \/ \E k \in {"wait", "status", "jobs"}, j \in Makers :
            /\ c \in Askers /\ at[j] # "none"
            /\ cmd' = [cmd EXCEPT ![c] = k] /\ target' = [target EXCEPT ![c] = j]
            /\ Goto(c, IF k = "wait" THEN "exists" ELSE "ask")
            /\ UNCHANGED <<at, owner>>
    /\ UNCHANGED <<child, told, srvVars, wal, outcome, history>>

-----------------------------------------------------------------------------
(* ensure_daemon_running                                                   *)

Check(c) ==
    /\ pc[c] = "check"
    /\ Goto(c, IF Up THEN "send" ELSE "lock")
    /\ UNCHANGED <<cmd, target, child, told, srvVars, jobVars, history>>

\* LOCK_NB: the loser of the race fails, it does not wait.
TakeLock(c) ==
    /\ pc[c] = "lock"
    /\ IF lock = None THEN lock' = c /\ Goto(c, "recheck") /\ UNCHANGED told
       ELSE Tell(c, "error") /\ UNCHANGED lock
    /\ UNCHANGED <<cmd, target, child, dpc, reg, orphans, sock, jobVars, history>>

\* Mutant of StartedMeanwhile: the second check is left out.
NoSecondLook == FALSE

\* "Double-check after acquiring lock"
StartedMeanwhile == Up

Recheck(c) ==
    /\ pc[c] = "recheck"
    /\ \/ /\ StartedMeanwhile /\ Goto(c, "send") /\ lock' = Free(c) /\ UNCHANGED <<child, dpc, told>>
       \/ /\ ~ StartedMeanwhile
          /\ \E d \in Servers :
               /\ dpc[d] = "none"
               /\ child' = [child EXCEPT ![c] = d] /\ Sgoto(d, "start")
          /\ Goto(c, "ready") /\ UNCHANGED <<lock, told>>
       \* the binary is missing or cannot be spawned
       \/ /\ ~ StartedMeanwhile
          /\ Tell(c, "error") /\ lock' = Free(c) /\ UNCHANGED <<child, dpc>>
    /\ UNCHANGED <<cmd, target, reg, orphans, sock, jobVars, history>>

\* Running; or the child exited early; or it was not ready in time and is killed.
AwaitReady(c) ==
    /\ pc[c] = "ready"
    /\ lock' = Free(c)
    /\ \/ Up /\ Goto(c, "send") /\ UNCHANGED <<told, dpc>>
       \/ ~ Up /\ dpc[child[c]] = "exited" /\ Tell(c, "error") /\ UNCHANGED dpc
       \/ ~ Up /\ Tell(c, "error") /\ Sgoto(child[c], "exited")
    /\ UNCHANGED <<cmd, target, child, reg, orphans, sock, jobVars, history>>

-----------------------------------------------------------------------------
(* Commands::Dispatch and handle_dispatch                                  *)

\* The daemon registers the job before it answers; or it refuses, or is gone.
Send(c) ==
    /\ pc[c] = "send"
    /\ \/ /\ Up
          /\ reg' = [reg EXCEPT ![sock][c] = "running"]
          /\ at' = [at EXCEPT ![c] = "queued"] /\ owner' = [owner EXCEPT ![c] = sock]
          /\ Goto(c, "sent") /\ UNCHANGED told
       \/ Tell(c, "error") /\ UNCHANGED <<reg, at, owner>>
    /\ UNCHANGED <<cmd, target, child, dpc, orphans, sock, lock, wal, outcome, history>>

DispatchAnswer(c) ==
    /\ pc[c] = "sent"
    /\ Tell(c, IF dpc[owner[c]] = "listening" THEN "dispatched" ELSE "error")
    /\ UNCHANGED <<cmd, target, child, srvVars, jobVars, history>>

-----------------------------------------------------------------------------
(* Executing a job, in a daemon one at a time under its mutex, or in a CLI *)

Running(p) == IF p \in Servers THEN dpc[p] = "listening" ELSE pc[p] = "run"
MutexFree(j) == \A k \in Clients \ {j} : owner[k] = owner[j] => at[k] \notin {"exec", "did", "logged"}

\* The outcome reaches the registry of the daemon or ends the command.
Over(j, status) ==
    /\ at' = [at EXCEPT ![j] = "over"]
    /\ IF owner[j] \in Servers THEN reg' = [reg EXCEPT ![owner[j]][j] = status] /\ UNCHANGED <<pc, told>>
       ELSE Tell(j, status) /\ UNCHANGED reg

JobStart(j) ==
    /\ at[j] = "queued" /\ Running(owner[j]) /\ MutexFree(j)
    /\ \/ /\ Log(j, "started") /\ at' = [at EXCEPT ![j] = "exec"] /\ UNCHANGED <<pc, told, reg>>
       \/ Over(j, "failed") /\ UNCHANGED wal
    /\ UNCHANGED <<cmd, target, child, dpc, orphans, sock, lock, owner, outcome, history>>

\* A good output, one that reports failure, or an error or panic.
JobExecute(j) ==
    /\ at[j] = "exec" /\ Running(owner[j])
    /\ at' = [at EXCEPT ![j] = "did"]
    /\ \E o \in {"good", "bad", "error"} : outcome' = [outcome EXCEPT ![j] = o]
    /\ UNCHANGED <<cliVars, srvVars, owner, wal, history>>

\* Any output is logged as completed, and one that cannot be logged makes the job a failed
\* one; the event of an error may be lost.
JobLog(j) ==
    /\ at[j] = "did" /\ Running(owner[j])
    /\ \/ /\ Log(j, IF outcome[j] = "error" THEN "failed" ELSE "completed")
          /\ at' = [at EXCEPT ![j] = "logged"] /\ UNCHANGED <<pc, told, reg>>
       \/ Over(j, "failed") /\ UNCHANGED wal
    /\ UNCHANGED <<cmd, target, child, dpc, orphans, sock, lock, owner, outcome, history>>

JobOver(j) ==
    /\ at[j] = "logged" /\ Running(owner[j])
    /\ Over(j, IF outcome[j] = "good" THEN "completed" ELSE "failed")
    /\ UNCHANGED <<cmd, target, child, dpc, orphans, sock, lock, owner, wal, outcome, history>>

-----------------------------------------------------------------------------
(* What the daemon, and the log without it, say of a job                   *)

FromLog(j) == IF Has(j, "completed") THEN "completed" ELSE IF Has(j, "failed") THEN "failed" ELSE "unknown"

\* Mutant of StatusOf: the log is asked before the registry.
LogFirst(d, j) == IF Has(j, "started") THEN FromLog(j) ELSE IF reg[d][j] # "absent" THEN reg[d][j] ELSE "error"

\* handle_status; "error" is the answer `Job not found`.
StatusOf(d, j) ==
    IF reg[d][j] # "absent" THEN reg[d][j] ELSE IF Has(j, "started") THEN FromLog(j) ELSE "error"

\* handle_jobs: of two terminal events the later one counts.
LastTerminal(j) ==
    LET ends == {i \in DOMAIN wal[j] : wal[j][i] \in Terminal}
    IN  IF ends = {} THEN "unknown" ELSE wal[j][CHOOSE i \in ends : \A k \in ends : k <= i]

ListedBy(d, j) ==
    IF reg[d][j] # "absent" THEN reg[d][j] ELSE IF wal[j] = <<>> THEN "notFound" ELSE LastTerminal(j)

\* The fallback of `jobs` takes the last event of a job for its status.
ListedFromLog(j) == IF wal[j] = <<>> THEN "notFound" ELSE wal[j][Len(wal[j])]

Asked(j) == IF Up THEN StatusOf(sock, j) ELSE "error"

\* Commands::Status (its fallback prints the events) and Commands::Jobs
Ask(c) ==
    /\ pc[c] = "ask"
    /\ LET j == target[c] IN
       Tell(c, IF cmd[c] = "status"
               THEN IF Asked(j) # "error" THEN Asked(j) ELSE IF wal[j] = <<>> THEN "notFound" ELSE "events"
               ELSE IF Up THEN ListedBy(sock, j) ELSE ListedFromLog(j))
    /\ UNCHANGED <<cmd, target, child, srvVars, jobVars, history>>

-----------------------------------------------------------------------------
(* Commands::Wait                                                          *)

WaitExists(c) ==
    /\ pc[c] = "exists"
    /\ LET j == target[c]
           exists == IF Asked(j) = "error" THEN wal[j] # <<>> ELSE Asked(j) # "unknown"
       IN  IF exists THEN Goto(c, "poll") /\ UNCHANGED told ELSE Tell(c, "notFound")
    /\ UNCHANGED <<cmd, target, child, srvVars, jobVars, history>>

\* An unreachable daemon, and one that does not know the job, send it to the log, where
\* only a terminal event is an answer.
Verdict(j) ==
    IF Asked(j) # "error" THEN Asked(j) ELSE IF FromLog(j) = "unknown" THEN "running" ELSE FromLog(j)

WaitPoll(c) ==
    /\ pc[c] = "poll"
    /\ Verdict(target[c]) # "running"
    /\ Tell(c, Verdict(target[c]))
    /\ UNCHANGED <<cmd, target, child, srvVars, jobVars, history>>

\* Only with --timeout: without it the loop goes on for as long as there is no verdict.
WaitTimeout(c) ==
    /\ pc[c] = "poll" /\ Verdict(target[c]) = "running"
    /\ Tell(c, "pending")
    /\ UNCHANGED <<cmd, target, child, srvVars, jobVars, history>>

-----------------------------------------------------------------------------
(* The daemon: run                                                         *)

\* The socket file is removed whoever bound it, and what the log leaves open is collected.
RemoveSocket(d) ==
    /\ dpc[d] = "start"
    /\ \/ /\ sock' = None /\ Sgoto(d, "reconcile")
          /\ orphans' = [orphans EXCEPT ![d] =
                {j \in Clients : Has(j, "started") /\ FromLog(j) = "unknown"}]
       \/ Sgoto(d, "exited") /\ UNCHANGED <<sock, orphans>>
    /\ UNCHANGED <<cliVars, reg, lock, jobVars, history>>

\* Appends one by one; a failed append is noted and skipped.
Reconcile(d) ==
    /\ dpc[d] = "reconcile"
    /\ IF orphans[d] = {} THEN Sgoto(d, "lock") /\ UNCHANGED <<orphans, wal>>
       ELSE \E j \in orphans[d] :
            /\ orphans' = [orphans EXCEPT ![d] = @ \ {j}]
            /\ Log(j, "failed") \/ UNCHANGED wal
            /\ UNCHANGED dpc
    /\ UNCHANGED <<cliVars, reg, sock, lock, at, owner, outcome, history>>

\* The lock is tried once and goes with its file, which is dropped before bind.
TryLock(d) ==
    /\ dpc[d] = "lock"
    /\ IF lock = None THEN lock' = d /\ Sgoto(d, "unlock") ELSE Sgoto(d, "bind") /\ UNCHANGED lock
    /\ UNCHANGED <<cliVars, reg, orphans, sock, jobVars, history>>

DropLock(d) ==
    /\ dpc[d] = "unlock"
    /\ lock' = Free(d) /\ Sgoto(d, "bind")
    /\ UNCHANGED <<cliVars, reg, orphans, sock, jobVars, history>>

Bind(d) ==
    /\ dpc[d] = "bind"
    /\ IF sock = None THEN sock' = d /\ Sgoto(d, "listening") ELSE Sgoto(d, "exited") /\ UNCHANGED sock
    /\ UNCHANGED <<cliVars, reg, orphans, lock, jobVars, history>>

KillServer(d) ==
    /\ dpc[d] \notin {"none", "exited"} /\ kills < MaxKills
    /\ Exit(d) /\ lock' = Free(d) /\ kills' = kills + 1
    /\ UNCHANGED <<cliVars, sock, jobVars, disturbed>>

\* A daemon that is still starting outlives the client that held the lock for it.
KillClient(c) ==
    /\ pc[c] \notin Done \cup {"new"} /\ kills < MaxKills
    /\ Goto(c, "dead") /\ lock' = Free(c) /\ kills' = kills + 1
    /\ disturbed' = (disturbed \/ pc[c] = "ready")
    /\ UNCHANGED <<cmd, target, child, told, dpc, reg, orphans, sock, jobVars>>

-----------------------------------------------------------------------------
DaemonNext ==
    \/ \E c \in Clients :
        \/ Command(c) \/ Check(c) \/ TakeLock(c) \/ Recheck(c) \/ AwaitReady(c)
        \/ Send(c) \/ DispatchAnswer(c) \/ Ask(c)
        \/ WaitExists(c) \/ WaitPoll(c) \/ WaitTimeout(c) \/ KillClient(c)
        \/ JobStart(c) \/ JobExecute(c) \/ JobLog(c) \/ JobOver(c)
    \/ \E d \in Servers :
        \/ RemoveSocket(d) \/ Reconcile(d) \/ TryLock(d) \/ DropLock(d)
        \/ Bind(d) \/ KillServer(d)

DaemonSpec == DaemonInit /\ [][DaemonNext]_daemonVars

-----------------------------------------------------------------------------
(* Properties                                                              *)

\* "to prevent multiple processes from spawning the daemon simultaneously": as long as no
\* client dies while it starts one, no two daemons listen, and the one that listens can be
\* reached.
OneDaemon ==
    ~ disturbed => \A d, e \in Servers :
        (dpc[d] = "listening" /\ dpc[e] = "listening") => d = e /\ sock = d

\* With one daemon a user is told the truth of its job: completed if that was logged and, by
\* the daemon that ran it, only if its output was good; failed only when nothing works on it
\* any more; not found only if it never completes.
ToldTrue ==
    \A c \in Clients : LET j == target[c] IN
        (~ disturbed /\ owner[j] \in Servers /\ cmd[c] \in {"wait", "status", "jobs"}) =>
            /\ told[c] = "completed" =>
                   Has(j, "completed") /\ (outcome[j] = "good" \/ dpc[owner[j]] = "exited")
            /\ told[c] = "failed" => at[j] \in {"over", "logged"} \/ dpc[owner[j]] = "exited"
            /\ told[c] = "notFound" => ~ Has(j, "completed")
=============================================================================
