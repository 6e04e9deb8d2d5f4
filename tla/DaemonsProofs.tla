---------------------------- MODULE DaemonsProofs ----------------------------
(***************************************************************************)
(* What the start of the daemon under daemon.lock, and the answers about   *)
(* jobs, guarantee for any number of clients and daemons and any number of *)
(* kills.  Everything but the types is said for behaviours in which no     *)
(* client is killed between spawning a daemon and seeing it ready; after   *)
(* such a kill two daemons may serve.                                      *)
(*                                                                         *)
(* Single says who may start a daemon and when one may listen; AtCommand,  *)
(* Owned and Recorded what a client's place, a job's progress, its entry   *)
(* in a registry and its events have in common; Heard what was told.       *)
(***************************************************************************)
EXTENDS Daemons, FiniteSetTheorems, WellFoundedInduction, TLAPS

\* A process is a client or a daemon, and None is neither.
Distinct == Clients \cap Servers = {} /\ None \notin Clients \cup Servers

Events == {"started"} \cup Terminal
Queries == {"wait", "status", "jobs"}
Starting == {"start", "reconcile", "lock", "unlock", "bind"}

PCs == {"new", "check", "lock", "recheck", "ready", "send", "sent", "run", "exists", "poll",
        "ask"} \cup Done
DPCs == {"none", "start", "reconcile", "lock", "unlock", "bind", "listening", "exited"}

\* The types of all variables the proof is about.
Types ==
    /\ pc \in [Clients -> PCs]
    /\ cmd \in [Clients -> {"none", "dispatch", "run", "wait", "status", "jobs"}]
    /\ target \in [Clients -> Clients] /\ child \in [Clients -> Servers \cup {None}]
    /\ told = [c \in Clients |-> told[c]]
    /\ dpc \in [Servers -> DPCs]
    /\ reg \in [Servers -> [Clients -> {"absent", "running"} \cup Terminal]]
    /\ orphans \in [Servers -> SUBSET Clients]
    /\ sock \in Servers \cup {None} /\ lock \in Clients \cup Servers \cup {None}
    /\ at \in [Clients -> {"none", "over"} \cup InProgress]
    /\ owner \in [Clients -> Clients \cup Servers \cup {None}]
    /\ wal \in [Clients -> Seq(Events)]
    /\ outcome \in [Clients -> {"none", "good", "bad", "error"}]
    /\ disturbed \in BOOLEAN

\* A daemon starts only under the lock of the client that waits for it, while none
\* listens, and the one that listens is the one that can be reached.
Single ==
    /\ \A c \in Clients : pc[c] \in {"recheck", "ready"} => lock = c
    /\ \A d \in Servers : dpc[d] \in Starting =>
           /\ \E c \in Clients : pc[c] = "ready" /\ child[c] = d
           /\ \A e \in Servers : dpc[e] # "listening"
    /\ \A d \in Servers : dpc[d] = "listening" => sock = d

\* Which command a client is at, and whether its job exists.
AtCommand(c) ==
    /\ pc[c] = "new" => told[c] = "nothing"
    /\ pc[c] \in {"check", "lock", "recheck", "ready", "send", "sent"} => cmd[c] = "dispatch"
    /\ pc[c] = "run" => cmd[c] = "run"
    /\ pc[c] \in {"exists", "poll", "ask"} => cmd[c] \in Queries
    /\ cmd[c] \in Queries => at[target[c]] # "none"
    /\ at[c] # "none" => pc[c] \in {"sent", "run"} \cup Done

\* A job of a daemon is in the registry of that daemon for as long as it listens.
Owned(j) ==
    /\ at[j] # "none" /\ owner[j] \notin Servers => owner[j] = j /\ cmd[j] = "run"
    /\ at[j] # "none" /\ owner[j] \in Servers =>
           \/ dpc[owner[j]] = "listening" /\ reg[owner[j]][j] # "absent"
           \/ dpc[owner[j]] = "exited"
    /\ \A d \in Servers : reg[d][j] # "absent" => owner[j] = d /\ at[j] # "none"

Recorded(j) ==
    /\ Has(j, "completed") => at[j] \in {"logged", "over"}
    /\ at[j] = "logged" /\ outcome[j] # "error" => Has(j, "completed")
    /\ \A d \in Servers :
          /\ reg[d][j] = "failed" => at[j] = "over"
          /\ reg[d][j] = "completed" =>
                 at[j] = "over" /\ Has(j, "completed") /\ outcome[j] = "good"

Exited(j) == dpc[owner[j]] = "exited"

\* An answer about a job of a daemon that is true of it.
TrueOf(answer, j) ==
    /\ answer = "completed" => Has(j, "completed") /\ (outcome[j] = "good" \/ Exited(j))
    /\ answer = "failed" => at[j] \in {"over", "logged"} \/ Exited(j)
    /\ answer = "notFound" => ~ Has(j, "completed") /\ Exited(j)

\* What a client was told of a job of a daemon is true, and stays true.
Heard(c) == cmd[c] \in Queries /\ owner[target[c]] \in Servers => TrueOf(told[c], target[c])

Calm ==
    /\ Single
    /\ \A c \in Clients : AtCommand(c) /\ Owned(c) /\ Recorded(c) /\ Heard(c)

DaemonInv == Types /\ (~ disturbed => Calm)

-----------------------------------------------------------------------------
(* The types                                                               *)

\* An event that is logged is added to the events of its job and to no others.
LEMMA Logging ==
    ASSUME Types, NEW j \in Clients, NEW event \in Events, Log(j, event)
    PROVE  /\ wal' \in [Clients -> Seq(Events)]
           /\ \A k \in Clients : \A e : Has(k, e)' <=> Has(k, e) \/ (k = j /\ e = event)
  <1>1. wal[j] \in Seq(Events) /\ wal' \in [Clients -> Seq(Events)]
    BY DEF Types, Log
  <1>2. wal'[j] = Append(wal[j], event) /\ \A k \in Clients \ {j} : wal'[k] = wal[k]
    BY DEF Types, Log
  <1>3. /\ Len(wal[j]) \in Nat
        /\ DOMAIN wal[j] = 1..Len(wal[j])
        /\ DOMAIN wal'[j] = 1..(Len(wal[j]) + 1)
        /\ wal'[j][Len(wal[j]) + 1] = event
        /\ \A i \in 1..Len(wal[j]) : wal'[j][i] = wal[j][i]
    BY <1>1, <1>2
  <1>4. ASSUME NEW e
        PROVE  Has(j, e)' <=> Has(j, e) \/ e = event
    BY <1>3 DEF Has
  <1>5. ASSUME NEW k \in Clients \ {j}, NEW e
        PROVE  Has(k, e)' <=> Has(k, e)
    BY <1>2 DEF Has
  <1>. QED
    BY <1>1, <1>4, <1>5

\* Where a client goes and what it tells its user.
LEMMA Going ==
    ASSUME Types, NEW c \in Clients
    PROVE  /\ \A label \in PCs : Goto(c, label) =>
                 /\ pc' \in [Clients -> PCs]
                 /\ pc'[c] = label /\ \A k \in Clients \ {c} : pc'[k] = pc[k]
           /\ \A answer : Tell(c, answer) =>
                 /\ pc' \in [Clients -> PCs]
                 /\ pc'[c] = "ended" /\ \A k \in Clients \ {c} : pc'[k] = pc[k]
                 /\ told' = [k \in Clients |-> told'[k]]
                 /\ told'[c] = answer /\ \A k \in Clients \ {c} : told'[k] = told[k]
  <1>1. pc \in [Clients -> PCs] /\ told = [k \in Clients |-> told[k]]
    BY DEF Types
  <1>2. ASSUME NEW label \in PCs, Goto(c, label)
        PROVE  /\ pc' \in [Clients -> PCs]
               /\ pc'[c] = label /\ \A k \in Clients \ {c} : pc'[k] = pc[k]
    BY <1>1, <1>2 DEF Goto
  <1>3. ASSUME NEW answer, Tell(c, answer)
        PROVE  /\ told' = [k \in Clients |-> told'[k]]
               /\ told'[c] = answer /\ \A k \in Clients \ {c} : told'[k] = told[k]
    <2>1. told' = [told EXCEPT ![c] = answer]
      BY <1>3 DEF Tell
    <2>2. told' = [k \in Clients |-> IF k = c THEN answer ELSE told[k]]
      BY <1>1, <2>1
    <2>. QED
      BY <2>2
  <1>. QED
    BY <1>2, <1>3 DEF Tell, PCs, Done

\* Where a daemon goes.
LEMMA Serving ==
    ASSUME Types, NEW d \in Servers \cup {None}
    PROVE  \A label \in DPCs : Sgoto(d, label) =>
              /\ dpc' \in [Servers -> DPCs]
              /\ d \in Servers => dpc'[d] = label
              /\ \A e \in Servers \ {d} : dpc'[e] = dpc[e]
  BY DEF Types, Sgoto

\* What a daemon enters in its registry.
LEMMA Registering ==
    ASSUME Types, NEW d, NEW j \in Clients, NEW status \in {"running"} \cup Terminal,
           reg' = [reg EXCEPT ![d][j] = status]
    PROVE  /\ reg' \in [Servers -> [Clients -> {"absent", "running"} \cup Terminal]]
           /\ \A e \in Servers, k \in Clients :
                 reg'[e][k] = IF e = d /\ k = j THEN status ELSE reg[e][k]
  <1>1. CASE d \in Servers
    <2>1. reg[d] \in [Clients -> {"absent", "running"} \cup Terminal]
      BY <1>1 DEF Types
    <2>2. reg' = [reg EXCEPT ![d] = [reg[d] EXCEPT ![j] = status]]
      OBVIOUS
    <2>. QED
      BY <1>1, <2>1, <2>2 DEF Types
  <1>2. CASE d \notin Servers
    BY <1>2 DEF Types
  <1>. QED
    BY <1>1, <1>2

LEMMA TypesImply == Types => DaemonTypeOK
  <1> SUFFICES ASSUME Types
               PROVE  DaemonTypeOK
    OBVIOUS
  <1>1. \A j \in Clients : \A i \in DOMAIN wal[j] : wal[j][i] \in {"started"} \cup Terminal
    BY DEF Types, Events
  <1>. QED
    BY <1>1 DEF Types, DaemonTypeOK, PCs, DPCs

LEMMA TypesStep ==
    ASSUME Types, [DaemonNext]_daemonVars
    PROVE  Types'
  <1> USE DEF cliVars, srvVars, jobVars, history
  <1>2. CASE UNCHANGED daemonVars
    BY <1>2 DEF daemonVars, Types
  <1>3. ASSUME NEW c \in Clients, Command(c)
        PROVE  Types'
    <2>1. pc' \in [Clients -> PCs]
      BY <1>3, Going DEF Command, PCs
    <2>2. cmd' \in [Clients -> {"none", "dispatch", "run", "wait", "status", "jobs"}]
      BY <1>3 DEF Command, Types
    <2>3. target' \in [Clients -> Clients]
      <3>1. Makers \subseteq Clients
        BY DEF Clients
      <3>. QED
        BY <1>3, <3>1 DEF Command, Types
    <2>4. /\ at' \in [Clients -> {"none", "over"} \cup InProgress]
          /\ owner' \in [Clients -> Clients \cup Servers \cup {None}]
      <3>1. /\ at' = at \/ at' = [at EXCEPT ![c] = "queued"]
            /\ owner' = owner \/ owner' = [owner EXCEPT ![c] = c]
        BY <1>3 DEF Command
      <3>2. at' \in [Clients -> {"none", "over"} \cup InProgress]
        BY <3>1 DEF Types, InProgress
      <3>3. owner' \in [Clients -> Clients \cup Servers \cup {None}]
        BY <3>1 DEF Types
      <3>. QED
        BY <3>2, <3>3
    <2>. QED
      BY <1>3, <2>1, <2>2, <2>3, <2>4 DEF Command, Types
  <1>4. ASSUME NEW c \in Clients, Check(c) \/ DispatchAnswer(c)
        PROVE  Types'
    <2>1. pc' \in [Clients -> PCs] /\ told' = [k \in Clients |-> told'[k]]
      BY <1>4, Going DEF Check, DispatchAnswer, PCs, Types
    <2>. QED
      BY <1>4, <2>1 DEF Check, DispatchAnswer, Types
  <1>5. ASSUME NEW c \in Clients, TakeLock(c) \/ KillClient(c)
        PROVE  Types'
    <2>1. pc' \in [Clients -> PCs] /\ told' = [k \in Clients |-> told'[k]]
      BY <1>5, Going DEF TakeLock, KillClient, PCs, Done, Types
    <2>2. lock' \in Clients \cup Servers \cup {None} /\ disturbed' \in BOOLEAN
      BY <1>5 DEF TakeLock, KillClient, Free, Types
    <2>. QED
      BY <1>5, <2>1, <2>2 DEF TakeLock, KillClient, Types
  <1>6. ASSUME NEW c \in Clients, Recheck(c)
        PROVE  Types'
    <2>1. pc' \in [Clients -> PCs] /\ told' = [k \in Clients |-> told'[k]]
      BY <1>6, Going DEF Recheck, PCs, Types
    <2>2. lock' \in Clients \cup Servers \cup {None}
      BY <1>6 DEF Recheck, Free, Types
    <2>3. child' \in [Clients -> Servers \cup {None}]
      BY <1>6 DEF Recheck, Types
    <2>4. dpc' \in [Servers -> DPCs]
      BY <1>6, Serving DEF Recheck, DPCs, Types
    <2>. QED
      BY <1>6, <2>1, <2>2, <2>3, <2>4 DEF Recheck, Types
  <1>7. ASSUME NEW c \in Clients, AwaitReady(c)
        PROVE  Types'
    <2>1. pc' \in [Clients -> PCs] /\ told' = [k \in Clients |-> told'[k]]
      BY <1>7, Going DEF AwaitReady, PCs, Types
    <2>2. lock' \in Clients \cup Servers \cup {None}
      BY <1>7 DEF AwaitReady, Free, Types
    <2>3. child[c] \in Servers \cup {None}
      BY DEF Types
    <2>4. dpc' \in [Servers -> DPCs]
      BY <1>7, <2>3, Serving DEF AwaitReady, DPCs, Types
    <2>. QED
      BY <1>7, <2>1, <2>2, <2>4 DEF AwaitReady, Types
  <1>8. ASSUME NEW c \in Clients, Send(c)
        PROVE  Types'
    <2>1. pc' \in [Clients -> PCs] /\ told' = [k \in Clients |-> told'[k]]
      BY <1>8, Going DEF Send, PCs, Types
    <2>2. reg' \in [Servers -> [Clients -> {"absent", "running"} \cup Terminal]]
      BY <1>8, Registering DEF Send, Types
    <2>3. /\ at' \in [Clients -> {"none", "over"} \cup InProgress]
          /\ owner' \in [Clients -> Clients \cup Servers \cup {None}]
      <3>1. /\ at' = at \/ at' = [at EXCEPT ![c] = "queued"]
            /\ owner' = owner \/ owner' = [owner EXCEPT ![c] = sock]
        BY <1>8 DEF Send
      <3>2. at' \in [Clients -> {"none", "over"} \cup InProgress]
        BY <3>1 DEF Types, InProgress
      <3>3. owner' \in [Clients -> Clients \cup Servers \cup {None}]
        BY <3>1 DEF Types
      <3>. QED
        BY <3>2, <3>3
    <2>. QED
      BY <1>8, <2>1, <2>2, <2>3 DEF Send, Types
  <1>9. ASSUME NEW c \in Clients, Ask(c) \/ WaitExists(c) \/ WaitPoll(c) \/ WaitTimeout(c)
        PROVE  Types'
    <2>1. pc' \in [Clients -> PCs] /\ told' = [k \in Clients |-> told'[k]]
      BY <1>9, Going DEF Ask, WaitExists, WaitPoll, WaitTimeout, PCs, Types
    <2>2. UNCHANGED <<cmd, target, child, srvVars, jobVars, history>>
      BY <1>9 DEF Ask, WaitExists, WaitPoll, WaitTimeout
    <2>. QED
      BY <2>1, <2>2 DEF Types
  <1>10. ASSUME NEW j \in Clients, JobStart(j) \/ JobExecute(j) \/ JobLog(j) \/ JobOver(j)
         PROVE  Types'
    <2>1. wal' \in [Clients -> Seq(Events)]
      <3>1. wal' = wal \/ \E event \in Events : Log(j, event)
        BY <1>10 DEF JobStart, JobExecute, JobLog, JobOver, Events, Terminal
      <3>. QED
        BY <3>1, Logging DEF Types
    <2>2. at' \in [Clients -> {"none", "over"} \cup InProgress]
      BY <1>10 DEF JobStart, JobExecute, JobLog, JobOver, Over, Types, InProgress
    <2>3. outcome' \in [Clients -> {"none", "good", "bad", "error"}]
      BY <1>10 DEF JobStart, JobExecute, JobLog, JobOver, Types
    <2>4. /\ UNCHANGED <<pc, told>> \/ \E a : Tell(j, a)
          /\ \/ reg' = reg
             \/ \E status \in Terminal : reg' = [reg EXCEPT ![owner[j]][j] = status]
          /\ UNCHANGED <<cmd, target, child, dpc, orphans, sock, lock, owner, history>>
      BY <1>10 DEF JobStart, JobExecute, JobLog, JobOver, Over, Terminal
    <2>5. reg' \in [Servers -> [Clients -> {"absent", "running"} \cup Terminal]]
      BY <2>4, Registering DEF Types
    <2>6. pc' \in [Clients -> PCs] /\ told' = [k \in Clients |-> told'[k]]
      BY <2>4, Going DEF Types
    <2>. QED
      BY <2>1, <2>2, <2>3, <2>4, <2>5, <2>6 DEF Types
  <1>11. ASSUME NEW d \in Servers, RemoveSocket(d) \/ TryLock(d) \/ DropLock(d) \/ Bind(d)
         PROVE  Types'
    <2>1. dpc' \in [Servers -> DPCs]
      BY <1>11, Serving DEF RemoveSocket, TryLock, DropLock, Bind, DPCs
    <2>2. /\ orphans' \in [Servers -> SUBSET Clients]
          /\ sock' \in Servers \cup {None} /\ lock' \in Clients \cup Servers \cup {None}
      BY <1>11 DEF RemoveSocket, TryLock, DropLock, Bind, Free, Types
    <2>. QED
      BY <1>11, <2>1, <2>2 DEF RemoveSocket, TryLock, DropLock, Bind, Types
  <1>12. ASSUME NEW d \in Servers, Reconcile(d)
         PROVE  Types'
    <2>1. wal' \in [Clients -> Seq(Events)]
      <3>1. wal' = wal \/ \E j \in Clients : Log(j, "failed")
        BY <1>12 DEF Reconcile, Types
      <3>. QED
        BY <3>1, Logging DEF Types, Events, Terminal
    <2>2. orphans' \in [Servers -> SUBSET Clients]
      <3>1. orphans' = orphans \/ \E j : orphans' = [orphans EXCEPT ![d] = @ \ {j}]
        BY <1>12 DEF Reconcile
      <3>. QED
        BY <3>1, ZenonT(60) DEF Types
    <2>3. dpc' \in [Servers -> DPCs]
      BY <1>12, Serving DEF Reconcile, DPCs, Types
    <2>. QED
      BY <1>12, <2>1, <2>2, <2>3 DEF Reconcile, Types
  <1>13. ASSUME NEW d \in Servers, KillServer(d)
         PROVE  Types'
    <2>1. dpc' \in [Servers -> DPCs]
      BY <1>13, Serving DEF KillServer, Exit, DPCs
    <2>2. /\ reg' \in [Servers -> [Clients -> {"absent", "running"} \cup Terminal]]
          /\ orphans' \in [Servers -> SUBSET Clients]
          /\ lock' \in Clients \cup Servers \cup {None}
      BY <1>13 DEF KillServer, Exit, Free, Types
    <2>. QED
      BY <1>13, <2>1, <2>2 DEF KillServer, Types
  <1>. QED
    BY <1>2, <1>3, <1>4, <1>5, <1>6, <1>7, <1>8, <1>9, <1>10, <1>11, <1>12, <1>13
       DEF DaemonNext

-----------------------------------------------------------------------------
(* Single: one daemon starts, or one listens                               *)

\* A step of a client that is not starting a daemon.
LEMMA SingleFrame ==
    ASSUME Single, UNCHANGED <<lock, child, dpc, sock>>,
           \A c \in Clients : /\ pc'[c] \in {"recheck", "ready"} => pc'[c] = pc[c]
                              /\ pc[c] = "ready" => pc'[c] = pc[c]
    PROVE  Single'
  BY DEF Single

LEMMA SingleStep ==
    ASSUME Distinct, Types, Single, \A j \in Clients : Owned(j),
           [DaemonNext]_daemonVars, ~ disturbed, ~ disturbed'
    PROVE  Single'
  <1> USE DEF cliVars, srvVars, jobVars, history
  <1>1. CASE UNCHANGED daemonVars
    BY <1>1, SingleFrame DEF daemonVars
  <1>2. ASSUME NEW c \in Clients,
               Command(c) \/ Check(c) \/ Send(c) \/ DispatchAnswer(c)
               \/ Ask(c) \/ WaitExists(c) \/ WaitPoll(c) \/ WaitTimeout(c)
        PROVE  Single'
    <2>1. /\ UNCHANGED <<lock, child, dpc, sock>>
          /\ pc[c] \notin {"recheck", "ready"} /\ pc'[c] \notin {"recheck", "ready"}
          /\ \A k \in Clients \ {c} : pc'[k] = pc[k]
      BY <1>2, Going DEF Command, Check, Send, DispatchAnswer, Ask, WaitExists, WaitPoll,
             WaitTimeout, PCs
    <2>. QED
      BY <2>1, SingleFrame
  <1>3. ASSUME NEW j \in Clients, JobStart(j) \/ JobExecute(j) \/ JobLog(j) \/ JobOver(j)
        PROVE  Single'
    <2>1. /\ UNCHANGED <<lock, child, dpc, sock>>
          /\ pc' = pc \/ (owner[j] \notin Servers /\ \E a : Tell(j, a))
          /\ Running(owner[j]) /\ at[j] # "none"
      BY <1>3 DEF JobStart, JobExecute, JobLog, JobOver, Over
    <2>2. CASE pc' = pc
      BY <2>1, <2>2, SingleFrame
    <2>3. CASE owner[j] \notin Servers /\ \E a : Tell(j, a)
      <3>1. pc[j] = "run"
        BY <2>1, <2>3 DEF Owned, Running
      <3>2. pc'[j] = "ended" /\ \A k \in Clients \ {j} : pc'[k] = pc[k]
        BY <2>3, Going
      <3>. QED
        BY <2>1, <3>1, <3>2, SingleFrame
    <2>. QED
      BY <2>1, <2>2, <2>3
  <1>4. ASSUME NEW c \in Clients, TakeLock(c)
        PROVE  Single'
    <2>1. /\ UNCHANGED <<child, dpc, sock>> /\ pc[c] = "lock" /\ pc'[c] # "ready"
          /\ \A k \in Clients \ {c} : pc'[k] = pc[k]
          /\ \/ lock = None /\ lock' = c
             \/ lock' = lock /\ pc'[c] = "ended"
      BY <1>4, Going DEF TakeLock, PCs
    <2>2. lock = None => \A k \in Clients : pc[k] \notin {"recheck", "ready"}
      BY DEF Single, Distinct
    <2>. QED
      BY <2>1, <2>2 DEF Single
  <1>5. ASSUME NEW c \in Clients, Recheck(c)
        PROVE  Single'
    <2>1. /\ pc[c] = "recheck" /\ lock = c /\ sock' = sock
          /\ \A k \in Clients \ {c} : pc'[k] = pc[k] /\ pc[k] \notin {"recheck", "ready"}
      BY <1>5, Going DEF Recheck, PCs, Single
    <2>2. \A d \in Servers : dpc[d] \notin Starting
      BY <2>1 DEF Single
    <2>3. CASE /\ pc'[c] \in {"send", "ended"} /\ UNCHANGED <<child, dpc>>
      BY <2>1, <2>2, <2>3 DEF Single
    <2>4. ASSUME ~ Up, NEW d \in Servers, child'[c] = d, pc'[c] = "ready", lock' = lock,
                 dpc'[d] = "start", \A e \in Servers \ {d} : dpc'[e] = dpc[e]
          PROVE  Single'
      <3>1. \A e \in Servers : dpc[e] # "listening"
        BY <2>4 DEF Up, Single, Distinct
      <3>. QED
        BY <2>1, <2>2, <2>4, <3>1 DEF Single, Starting
    <2>. QED
      BY <1>5, <2>3, <2>4, Going, Serving DEF Recheck, StartedMeanwhile, PCs, DPCs, Types
  <1>6. ASSUME NEW c \in Clients, AwaitReady(c)
        PROVE  Single'
    <2>1. /\ pc[c] = "ready" /\ lock = c /\ sock' = sock /\ child' = child
          /\ pc'[c] \in {"send", "ended"}
          /\ \A k \in Clients \ {c} : pc'[k] = pc[k] /\ pc[k] \notin {"recheck", "ready"}
      BY <1>6, Going DEF AwaitReady, PCs, Single
    <2>2. \A d \in Servers : dpc[d] \in Starting => d = child[c]
      BY <2>1 DEF Single
    <2>3. \/ dpc' = dpc /\ Up
          \/ dpc' = dpc /\ dpc[child[c]] = "exited"
          \/ /\ child[c] \in Servers => dpc'[child[c]] = "exited"
             /\ \A e \in Servers \ {child[c]} : dpc'[e] = dpc[e]
      BY <1>6, Serving DEF AwaitReady, DPCs, Types
    <2>4. \A d \in Servers : dpc'[d] \notin Starting
      BY <2>2, <2>3, ZenonT(60) DEF Single, Up, Starting, Types
    <2>5. \A d \in Servers : dpc'[d] = "listening" => dpc[d] = "listening"
      BY <2>3
    <2>. QED
      BY <2>1, <2>4, <2>5 DEF Single
  <1>7. ASSUME NEW c \in Clients, KillClient(c)
        PROVE  Single'
    <2>1. /\ pc[c] # "ready" /\ pc'[c] = "dead" /\ UNCHANGED <<child, dpc, sock>>
          /\ lock' = Free(c)
          /\ \A k \in Clients \ {c} : pc'[k] = pc[k]
      BY <1>7, Going DEF KillClient, PCs, Done
    <2>. QED
      BY <2>1 DEF Single, Free
  <1>8. ASSUME NEW d \in Servers,
               RemoveSocket(d) \/ Reconcile(d) \/ TryLock(d) \/ DropLock(d) \/ Bind(d)
        PROVE  Single'
    <2>1. /\ UNCHANGED <<pc, child>> /\ dpc[d] \in Starting
          /\ \A e \in Servers \ {d} : dpc'[e] = dpc[e]
      BY <1>8, Serving DEF RemoveSocket, Reconcile, TryLock, DropLock, Bind, DPCs, Starting
    <2>2. PICK c \in Clients : pc[c] = "ready" /\ child[c] = d /\ lock = c
      BY <2>1 DEF Single
    <2>3. /\ \A e \in Servers : dpc[e] # "listening"
          /\ \A e \in Servers \ {d} : dpc[e] \notin Starting
      BY <2>1, <2>2 DEF Single
    <2>4. lock' = lock
      BY <1>8, <2>2 DEF RemoveSocket, Reconcile, TryLock, DropLock, Bind, Free, Distinct
    <2>5. \/ dpc'[d] \in Starting \cup {"exited"}
          \/ dpc'[d] = "listening" /\ sock' = d
      BY <1>8, <2>1, Serving DEF RemoveSocket, Reconcile, TryLock, DropLock, Bind, DPCs, Starting
    <2>. QED
      BY <2>1, <2>2, <2>3, <2>4, <2>5 DEF Single, Starting
  <1>9. ASSUME NEW d \in Servers, KillServer(d)
        PROVE  Single'
    <2>1. /\ UNCHANGED <<pc, child, sock>> /\ dpc'[d] = "exited"
          /\ \A e \in Servers \ {d} : dpc'[e] = dpc[e]
          /\ lock' = Free(d)
      BY <1>9, Serving DEF KillServer, Exit, DPCs
    <2>. QED
      BY <2>1 DEF Single, Free, Distinct, Starting
  <1>. QED
    BY <1>1, <1>2, <1>3, <1>4, <1>5, <1>6, <1>7, <1>8, <1>9 DEF DaemonNext

-----------------------------------------------------------------------------
(* What the steps do to jobs, registries and daemons                       *)

JobStep(j) == JobStart(j) \/ JobExecute(j) \/ JobLog(j) \/ JobOver(j)

\* From one stage to another, as far as the log and the outcome tell.
Stage(j, from, to) == at[j] = from /\ at'[j] = to
SameRecord(j) == outcome'[j] = outcome[j] /\ (Has(j, "completed")' <=> Has(j, "completed"))

LEMMA JobMoves ==
    ASSUME Types, NEW j \in Clients, JobStep(j)
    PROVE  /\ Running(owner[j])
           /\ \A k \in Clients \ {j} : at'[k] = at[k] /\ SameRecord(k)
           /\ UNCHANGED <<cmd, target, child, dpc, orphans, sock, lock, owner, history>>
           /\ \/ UNCHANGED <<pc, told, reg>>
              \/ \E status \in Terminal :
                    /\ Over(j, status)
                    /\ status = "completed" => outcome[j] = "good" /\ at[j] = "logged"
           /\ \/ Stage(j, "queued", "exec") /\ SameRecord(j)
              \/ Stage(j, "exec", "did") /\ (Has(j, "completed")' <=> Has(j, "completed"))
              \/ /\ Stage(j, "did", "logged") /\ outcome'[j] = outcome[j]
                 /\ Has(j, "completed")' <=> Has(j, "completed") \/ outcome[j] # "error"
              \/ /\ \E stage \in {"queued", "did", "logged"} : Stage(j, stage, "over")
                 /\ SameRecord(j)
  <1> USE DEF cliVars, srvVars
  <1>1. UNCHANGED wal => \A k \in Clients : \A e : Has(k, e)' <=> Has(k, e)
    BY DEF Has
  <1>2. \A label : at' = [at EXCEPT ![j] = label] =>
           at'[j] = label /\ \A k \in Clients \ {j} : at'[k] = at[k]
    BY DEF Types
  <1>3. CASE JobStart(j)
    <2>1. CASE Log(j, "started") /\ at' = [at EXCEPT ![j] = "exec"] /\ UNCHANGED <<pc, told, reg>>
      <3>1. \A k \in Clients : \A e : Has(k, e)' <=> Has(k, e) \/ (k = j /\ e = "started")
        BY <2>1, Logging DEF Events
      <3>2. /\ UNCHANGED <<cmd, target, child, dpc, orphans, sock, lock, owner, outcome, history>>
            /\ at[j] = "queued" /\ Running(owner[j])
        BY <1>3 DEF JobStart
      <3>3. Stage(j, "queued", "exec")
        BY <2>1, <3>2, <1>2 DEF Stage
      <3>4. \A k \in Clients : SameRecord(k)
        BY <3>1, <3>2 DEF SameRecord
      <3>. QED
        BY <2>1, <3>2, <3>3, <3>4, <1>2
    <2>2. CASE Over(j, "failed") /\ UNCHANGED wal
      BY <1>1, <1>2, <1>3, <2>2 DEF JobStart, Over, Stage, SameRecord, Terminal
    <2>. QED
      BY <1>3, <2>1, <2>2 DEF JobStart
  <1>4. CASE JobExecute(j)
    <2>1. \A k \in Clients \ {j} : outcome'[k] = outcome[k]
      BY <1>4 DEF JobExecute, Types
    <2>. QED
      BY <1>1, <1>2, <1>4, <2>1 DEF JobExecute, Stage, SameRecord
  <1>5. CASE JobLog(j)
    <2>1. CASE /\ Log(j, IF outcome[j] = "error" THEN "failed" ELSE "completed")
               /\ at' = [at EXCEPT ![j] = "logged"] /\ UNCHANGED <<pc, told, reg>>
      <3> DEFINE event == IF outcome[j] = "error" THEN "failed" ELSE "completed"
      <3>1. event \in Events
        BY DEF Events, Terminal
      <3>2. \A k \in Clients : \A e : Has(k, e)' <=> Has(k, e) \/ (k = j /\ e = event)
        BY <2>1, <3>1, Logging
      <3>. QED
        BY <1>5, <2>1, <3>2, <1>2 DEF JobLog, Stage, SameRecord
    <2>2. CASE Over(j, "failed") /\ UNCHANGED wal
      BY <1>1, <1>2, <1>5, <2>2 DEF JobLog, Over, Stage, SameRecord, Terminal
    <2>. QED
      BY <1>5, <2>1, <2>2 DEF JobLog
  <1>6. CASE JobOver(j)
    BY <1>1, <1>2, <1>6 DEF JobOver, Over, Stage, SameRecord, Terminal
  <1>. QED
    BY <1>3, <1>4, <1>5, <1>6 DEF JobStep

LEMMA StepCases ==
    ASSUME [DaemonNext]_daemonVars
    PROVE  \/ \E c \in Clients :
                 \/ Command(c) \/ Send(c) \/ JobStep(c)
                 \/ Check(c) \/ TakeLock(c) \/ Recheck(c) \/ AwaitReady(c)
                 \/ DispatchAnswer(c) \/ KillClient(c)
                 \/ Ask(c) \/ WaitExists(c) \/ WaitPoll(c) \/ WaitTimeout(c)
           \/ \E d \in Servers : \/ RemoveSocket(d) \/ Reconcile(d) \/ TryLock(d)
                                 \/ DropLock(d) \/ Bind(d) \/ KillServer(d)
           \/ UNCHANGED daemonVars
  BY DEF DaemonNext, JobStep

\* The steps that touch neither jobs nor what is known of them.
LEMMA Elsewhere ==
    ASSUME Types,
           \/ UNCHANGED daemonVars
           \/ \E c \in Clients :
                 \/ Check(c) \/ TakeLock(c) \/ Recheck(c) \/ AwaitReady(c)
                 \/ DispatchAnswer(c) \/ KillClient(c)
                 \/ Ask(c) \/ WaitExists(c) \/ WaitPoll(c) \/ WaitTimeout(c)
           \/ \E d \in Servers : \/ RemoveSocket(d) \/ Reconcile(d) \/ TryLock(d)
                                 \/ DropLock(d) \/ Bind(d) \/ KillServer(d)
    PROVE  /\ UNCHANGED <<cmd, target, at, owner, outcome>>
           /\ \A j \in Clients : SameRecord(j)
           /\ UNCHANGED reg \/ \E d \in Servers : KillServer(d)
  <1> USE DEF cliVars, srvVars, jobVars, history
  <1>1. UNCHANGED wal /\ UNCHANGED outcome => \A j \in Clients : SameRecord(j)
    BY DEF Has, SameRecord
  <1>2. ASSUME NEW d \in Servers, Reconcile(d)
        PROVE  \A j \in Clients : Has(j, "completed")' <=> Has(j, "completed")
    <2>1. UNCHANGED wal \/ \E j \in Clients : Log(j, "failed")
      BY <1>2 DEF Reconcile, Types
    <2>2. ASSUME NEW j \in Clients, Log(j, "failed")
          PROVE  \A k \in Clients : Has(k, "completed")' <=> Has(k, "completed")
      BY <2>2, Logging DEF Events, Terminal
    <2>. QED
      BY <2>1, <2>2 DEF Has
  <1>3. CASE UNCHANGED daemonVars
    BY <1>1, <1>3 DEF daemonVars
  <1>4. ASSUME NEW c \in Clients,
               \/ Check(c) \/ TakeLock(c) \/ Recheck(c) \/ AwaitReady(c)
               \/ DispatchAnswer(c) \/ KillClient(c)
               \/ Ask(c) \/ WaitExists(c) \/ WaitPoll(c) \/ WaitTimeout(c)
        PROVE  UNCHANGED <<cmd, target, at, owner, outcome, wal, reg>>
    BY <1>4 DEF Check, TakeLock, Recheck, AwaitReady, DispatchAnswer, KillClient, Ask,
           WaitExists, WaitPoll, WaitTimeout
  <1>5. ASSUME NEW d \in Servers,
               RemoveSocket(d) \/ TryLock(d) \/ DropLock(d) \/ Bind(d) \/ KillServer(d)
        PROVE  /\ UNCHANGED <<cmd, target, at, owner, outcome, wal>>
               /\ UNCHANGED reg \/ KillServer(d)
    BY <1>5 DEF RemoveSocket, TryLock, DropLock, Bind, KillServer
  <1>6. ASSUME NEW d \in Servers, Reconcile(d)
        PROVE  UNCHANGED <<cmd, target, at, owner, outcome, reg>> /\ \A j \in Clients : SameRecord(j)
    BY <1>2, <1>6 DEF Reconcile, SameRecord
  <1>. QED
    BY <1>1, <1>3, <1>4, <1>5, <1>6

\* A daemon that listens goes on to, or exits for good.
LEMMA DaemonsEnd ==
    ASSUME Types, Distinct, Single, [DaemonNext]_daemonVars
    PROVE  \A d \in Servers : /\ dpc[d] = "exited" => dpc'[d] = "exited"
                              /\ dpc[d] = "listening" =>
                                     \/ dpc'[d] = "listening" /\ ~ KillServer(d)
                                     \/ dpc'[d] = "exited"
  <1> USE DEF cliVars, srvVars, jobVars, history
  <1>1. ASSUME NEW d \in Servers, KillServer(d)
        PROVE  dpc'[d] = "exited" /\ \A e \in Servers \ {d} : dpc'[e] = dpc[e]
    BY <1>1, Serving DEF KillServer, Exit, DPCs
  <1>2. ASSUME NEW d \in Servers,
               RemoveSocket(d) \/ Reconcile(d) \/ TryLock(d) \/ DropLock(d) \/ Bind(d)
        PROVE  dpc[d] \in Starting /\ \A e \in Servers \ {d} : dpc'[e] = dpc[e]
    BY <1>2, Serving DEF RemoveSocket, Reconcile, TryLock, DropLock, Bind, DPCs, Starting
  <1>3. ASSUME NEW c \in Clients, Recheck(c), ~ UNCHANGED dpc
        PROVE  \E d \in Servers : dpc[d] = "none" /\ \A e \in Servers \ {d} : dpc'[e] = dpc[e]
    BY <1>3, Serving DEF Recheck, DPCs
  <1>4. ASSUME NEW c \in Clients, AwaitReady(c), ~ UNCHANGED dpc
        PROVE  /\ \A e \in Servers : dpc[e] # "listening"
               /\ \A e \in Servers : dpc'[e] = dpc[e] \/ dpc'[e] = "exited"
    <2>1. ~ Up /\ Sgoto(child[c], "exited")
      BY <1>4 DEF AwaitReady
    <2>2. \A e \in Servers : dpc[e] # "listening"
      BY <2>1 DEF Up, Single, Distinct
    <2>3. child[c] \in Servers \cup {None}
      BY DEF Types
    <2>. QED
      BY <2>1, <2>2, <2>3, Serving DEF DPCs
  <1>5. ASSUME NEW c \in Clients,
               \/ Command(c) \/ Send(c) \/ JobStep(c) \/ Check(c) \/ TakeLock(c)
               \/ DispatchAnswer(c) \/ KillClient(c)
               \/ Ask(c) \/ WaitExists(c) \/ WaitPoll(c) \/ WaitTimeout(c)
        PROVE  UNCHANGED dpc
    BY <1>5, JobMoves DEF Command, Send, Check, TakeLock, DispatchAnswer, KillClient, Ask,
           WaitExists, WaitPoll, WaitTimeout
  <1>6. UNCHANGED daemonVars \/ UNCHANGED dpc => \A d \in Servers : dpc'[d] = dpc[d]
    BY DEF daemonVars
  <1>7. ASSUME NEW d \in Servers, dpc[d] \in {"exited", "listening"}, ~ KillServer(d)
        PROVE  dpc'[d] = dpc[d] \/ dpc'[d] = "exited"
    BY <1>1, <1>2, <1>3, <1>4, <1>5, <1>6, <1>7, StepCases DEF Starting
  <1>8. \A d \in Servers : dpc[d] = "exited" => ~ KillServer(d)
    BY DEF KillServer
  <1>. QED
    BY <1>1, <1>7, <1>8

-----------------------------------------------------------------------------
(* A client's place, its job and the registries                            *)

\* A job that exists goes on to exist, under its owner.
LEMMA Ages ==
    ASSUME Types, \A k \in Clients : AtCommand(k), [DaemonNext]_daemonVars
    PROVE  \A j \in Clients : at[j] # "none" => at'[j] # "none" /\ owner'[j] = owner[j]
  <1>1. ASSUME NEW c \in Clients, Command(c) \/ Send(c)
        PROVE  /\ at[c] = "none"
               /\ \A j \in Clients \ {c} : at'[j] = at[j] /\ owner'[j] = owner[j]
    <2>1. at[c] = "none"
      BY <1>1 DEF AtCommand, Command, Send, Done
    <2>2. \A j \in Clients \ {c} : at'[j] = at[j]
      BY <1>1 DEF Command, Send, Types
    <2>3. \A j \in Clients \ {c} : owner'[j] = owner[j]
      BY <1>1 DEF Command, Send, Types
    <2>. QED
      BY <2>1, <2>2, <2>3
  <1>2. ASSUME NEW k \in Clients, JobStep(k)
        PROVE  /\ owner' = owner /\ at'[k] # "none"
               /\ \A j \in Clients \ {k} : at'[j] = at[j]
    BY <1>2, JobMoves DEF Stage
  <1>. QED
    BY <1>1, <1>2, StepCases, Elsewhere

\* Clients other than the one that acts stay as they are.
LEMMA OthersStay ==
    ASSUME Types, \A k \in Clients : Owned(k) /\ AtCommand(k), NEW c \in Clients,
           \/ Command(c) \/ Send(c) \/ JobStep(c)
           \/ Check(c) \/ TakeLock(c) \/ Recheck(c) \/ AwaitReady(c)
           \/ DispatchAnswer(c) \/ KillClient(c)
           \/ Ask(c) \/ WaitExists(c) \/ WaitPoll(c) \/ WaitTimeout(c)
    PROVE  \A k \in Clients \ {c} :
              pc'[k] = pc[k] /\ cmd'[k] = cmd[k] /\ target'[k] = target[k] /\ told'[k] = told[k]
  <1>1. CASE Command(c)
    <2>1. \A k \in Clients \ {c} : pc'[k] = pc[k]
      BY <1>1, Going DEF Command, PCs
    <2>2. \A k \in Clients \ {c} : cmd'[k] = cmd[k]
      BY <1>1 DEF Command, Types
    <2>3. \A k \in Clients \ {c} : target'[k] = target[k]
      BY <1>1 DEF Command, Types
    <2>. QED
      BY <1>1, <2>1, <2>2, <2>3 DEF Command
  <1>2. CASE JobStep(c)
    <2>1. UNCHANGED <<cmd, target>> /\ (UNCHANGED <<pc, told>> \/ \E a : Tell(c, a))
      BY <1>2, JobMoves DEF Over
    <2>. QED
      BY <2>1, Going
  <1>3. CASE Send(c) \/ TakeLock(c) \/ Recheck(c) \/ AwaitReady(c)
    BY <1>3, Going DEF Send, TakeLock, Recheck, AwaitReady, PCs
  <1>4. CASE Check(c) \/ DispatchAnswer(c) \/ KillClient(c)
    BY <1>4, Going DEF Check, DispatchAnswer, KillClient, PCs, Done
  <1>5. CASE Ask(c) \/ WaitExists(c) \/ WaitPoll(c) \/ WaitTimeout(c)
    BY <1>5, Going DEF Ask, WaitExists, WaitPoll, WaitTimeout, PCs
  <1>. QED
    BY <1>1, <1>2, <1>3, <1>4, <1>5

LEMMA AtCommandStep ==
    ASSUME Distinct, Types, \A k \in Clients : Owned(k) /\ AtCommand(k),
           [DaemonNext]_daemonVars
    PROVE  \A k \in Clients : AtCommand(k)'
  <1> USE DEF cliVars, srvVars, jobVars, history
  <1>1. \A j \in Clients : at[j] # "none" => at'[j] # "none"
    BY Ages
  <1>2. ASSUME NEW c \in Clients,
               \A k \in Clients \ {c} :
                  pc'[k] = pc[k] /\ cmd'[k] = cmd[k] /\ target'[k] = target[k]
                  /\ told'[k] = told[k] /\ at'[k] = at[k],
               AtCommand(c)'
        PROVE  \A k \in Clients : AtCommand(k)'
    <2>1. \A k \in Clients \ {c} : AtCommand(k)'
      <3> SUFFICES ASSUME NEW k \in Clients \ {c}
                   PROVE  AtCommand(k)'
        OBVIOUS
      <3>1. AtCommand(k) /\ target[k] \in Clients
        BY DEF Types
      <3>. QED
        BY <1>1, <1>2, <3>1 DEF AtCommand
    <2>. QED
      BY <1>2, <2>1
  <1>3. ASSUME NEW c \in Clients, Command(c)
        PROVE  \A k \in Clients : AtCommand(k)'
    <2>1. /\ at[c] = "none" /\ told[c] = "nothing" /\ told' = told
          /\ \A k \in Clients \ {c} : at'[k] = at[k]
      BY <1>3, ZenonT(60) DEF Command, AtCommand, Done, Types
    <2>2. AtCommand(c)'
      <3>1. CASE cmd' = [cmd EXCEPT ![c] = "dispatch"] /\ Goto(c, "check") /\ at' = at
        <4>1. pc'[c] = "check" /\ cmd'[c] = "dispatch" /\ at'[c] = "none"
          BY <2>1, <3>1, Going DEF PCs, Types
        <4>. QED
          BY <4>1 DEF AtCommand, Queries
      <3>2. CASE cmd' = [cmd EXCEPT ![c] = "run"] /\ Goto(c, "run")
        <4>1. pc'[c] = "run" /\ cmd'[c] = "run"
          BY <2>1, <3>2, Going DEF PCs, Types
        <4>. QED
          BY <4>1 DEF AtCommand, Queries
      <3>3. ASSUME NEW q \in Queries, NEW j \in Makers, at[j] # "none",
                   cmd' = [cmd EXCEPT ![c] = q], target' = [target EXCEPT ![c] = j],
                   Goto(c, IF q = "wait" THEN "exists" ELSE "ask"), at' = at
            PROVE  AtCommand(c)'
        <4>1. cmd'[c] = q /\ target'[c] = j
          BY <3>3 DEF Types
        <4>2. pc'[c] \in {"exists", "ask"}
          BY <3>3, Going DEF PCs
        <4>. QED
          BY <2>1, <3>3, <4>1, <4>2 DEF AtCommand, Done
      <3>. QED
        BY <1>3, <3>1, <3>2, <3>3 DEF Command, Queries
    <2>. QED
      BY <1>2, <1>3, <2>1, <2>2, OthersStay
  <1>4. ASSUME NEW c \in Clients, Send(c)
        PROVE  \A k \in Clients : AtCommand(k)'
    <2>1. /\ cmd[c] = "dispatch" /\ UNCHANGED <<cmd, target>>
          /\ \A k \in Clients \ {c} : at'[k] = at[k]
      BY <1>4 DEF Send, AtCommand, Types
    <2>2. pc'[c] \in {"sent", "ended"}
      BY <1>4, Going DEF Send, PCs
    <2>3. AtCommand(c)'
      BY <2>1, <2>2 DEF AtCommand, Queries, Done
    <2>. QED
      BY <1>2, <1>4, <2>1, <2>3, OthersStay
  <1>5. ASSUME NEW j \in Clients, JobStep(j)
        PROVE  \A k \in Clients : AtCommand(k)'
    <2>1. /\ at[j] # "none" /\ UNCHANGED <<cmd, target>>
          /\ \A k \in Clients \ {j} : at'[k] = at[k]
          /\ (pc' = pc /\ told' = told) \/ \E a : Tell(j, a)
      BY <1>5, JobMoves DEF Stage, Over
    <2>2. AtCommand(j)'
      <3>1. target[j] \in Clients /\ AtCommand(j)
        BY DEF Types
      <3>2. CASE pc' = pc /\ told' = told
        BY <1>1, <2>1, <3>1, <3>2 DEF AtCommand
      <3>3. CASE pc'[j] = "ended"
        BY <1>1, <2>1, <3>1, <3>3 DEF AtCommand, Done
      <3>. QED
        BY <2>1, <3>2, <3>3, Going
    <2>. QED
      BY <1>2, <1>5, <2>1, <2>2, OthersStay
  <1>6. ASSUME NEW c \in Clients,
               \/ Check(c) \/ TakeLock(c) \/ Recheck(c) \/ AwaitReady(c)
               \/ DispatchAnswer(c) \/ KillClient(c)
               \/ Ask(c) \/ WaitExists(c) \/ WaitPoll(c) \/ WaitTimeout(c)
        PROVE  \A k \in Clients : AtCommand(k)'
    <2>1. UNCHANGED <<cmd, target, at>>
      BY <1>6 DEF Check, TakeLock, Recheck, AwaitReady, DispatchAnswer, KillClient, Ask,
             WaitExists, WaitPoll, WaitTimeout
    <2>2. \/ pc[c] \in {"check", "lock", "recheck", "ready"}
             /\ pc'[c] \in {"lock", "recheck", "ready", "send"}
          \/ pc[c] \in {"exists", "poll"} /\ pc'[c] = "poll"
          \/ pc'[c] \in Done
      BY <1>6, Going DEF Check, TakeLock, Recheck, AwaitReady, DispatchAnswer, KillClient, Ask,
             WaitExists, WaitPoll, WaitTimeout, PCs, Done
    <2>3. AtCommand(c)'
      BY <2>1, <2>2 DEF AtCommand, Done
    <2>. QED
      BY <1>2, <1>6, <2>1, <2>3, OthersStay
  <1>7. ASSUME UNCHANGED <<cliVars, at>>
        PROVE  \A k \in Clients : AtCommand(k)'
    BY <1>7 DEF AtCommand
  <1>8. ASSUME NEW d \in Servers, RemoveSocket(d) \/ Reconcile(d) \/ TryLock(d)
                                \/ DropLock(d) \/ Bind(d) \/ KillServer(d)
        PROVE  UNCHANGED <<cliVars, at>>
    BY <1>8 DEF RemoveSocket, Reconcile, TryLock, DropLock, Bind, KillServer
  <1>. QED
    BY <1>3, <1>4, <1>5, <1>6, <1>7, <1>8, StepCases DEF daemonVars

LEMMA OwnedStep ==
    ASSUME Distinct, Types, Single, \A k \in Clients : Owned(k) /\ AtCommand(k),
           [DaemonNext]_daemonVars
    PROVE  \A j \in Clients : Owned(j)'
  <1> USE DEF cliVars, srvVars, jobVars, history
  <1>1. ASSUME NEW j \in Clients,
               cmd'[j] = cmd[j], at'[j] = "none" <=> at[j] = "none", owner'[j] = owner[j],
               \A d \in Servers :
                  \/ reg'[d][j] = reg[d][j]
                  \/ reg[d][j] # "absent" /\ reg'[d][j] # "absent"
                  \/ reg'[d][j] = "absent" /\ KillServer(d)
        PROVE  Owned(j)'
    <2>1. ASSUME at'[j] # "none", owner'[j] \in Servers
          PROVE  \/ dpc'[owner'[j]] = "listening" /\ reg'[owner'[j]][j] # "absent"
                 \/ dpc'[owner'[j]] = "exited"
      BY <1>1, <2>1, DaemonsEnd DEF Owned
    <2>2. \A d \in Servers : reg'[d][j] # "absent" => reg[d][j] # "absent"
      BY <1>1
    <2>. QED
      BY <1>1, <2>1, <2>2 DEF Owned
  <1>2. ASSUME NEW c \in Clients, Command(c)
        PROVE  \A j \in Clients : Owned(j)'
    <2>1. /\ UNCHANGED <<dpc, reg>> /\ at[c] = "none"
      BY <1>2 DEF Command, AtCommand, Done
    <2>2. \A j \in Clients \ {c} : at'[j] = at[j] /\ owner'[j] = owner[j]
      <3>1. \A j \in Clients \ {c} : at'[j] = at[j]
        BY <1>2 DEF Command, Types
      <3>2. \A j \in Clients \ {c} : owner'[j] = owner[j]
        BY <1>2 DEF Command, Types
      <3>. QED
        BY <3>1, <3>2
    <2>3. \A j \in Clients \ {c} : Owned(j)'
      BY <1>1, <1>2, <2>1, <2>2, OthersStay
    <2>4. \A d \in Servers : reg'[d][c] = "absent"
      BY <2>1 DEF Owned
    <2>5. Owned(c)'
      <3>1. CASE at' = at
        BY <2>1, <2>4, <3>1 DEF Owned
      <3>2. CASE owner' = [owner EXCEPT ![c] = c] /\ cmd' = [cmd EXCEPT ![c] = "run"]
        <4>1. owner'[c] = c /\ c \notin Servers
          BY <3>2 DEF Types, Distinct
        <4>2. cmd'[c] = "run"
          BY <3>2 DEF Types
        <4>. QED
          BY <2>4, <4>1, <4>2 DEF Owned
      <3>. QED
        BY <1>2, <3>1, <3>2 DEF Command
    <2>. QED
      BY <2>3, <2>5
  <1>3. ASSUME NEW c \in Clients, Send(c)
        PROVE  \A j \in Clients : Owned(j)'
    <2>1. UNCHANGED <<dpc, cmd>> /\ at[c] = "none"
      BY <1>3 DEF Send, AtCommand, Done
    <2>2. CASE UNCHANGED <<reg, at, owner>>
      BY <1>1, <2>1, <2>2
    <2>3. CASE /\ Up
               /\ reg' = [reg EXCEPT ![sock][c] = "running"]
               /\ at' = [at EXCEPT ![c] = "queued"] /\ owner' = [owner EXCEPT ![c] = sock]
      <3>1. sock \in Servers /\ dpc'[sock] = "listening"
        BY <2>1, <2>3 DEF Up, Types
      <3>2. \A d \in Servers, k \in Clients :
               reg'[d][k] = IF d = sock /\ k = c THEN "running" ELSE reg[d][k]
        BY <2>3, Registering
      <3>3. owner'[c] = sock /\ \A j \in Clients \ {c} : owner'[j] = owner[j]
        BY <2>3 DEF Types
      <3>4. at'[c] = "queued" /\ \A j \in Clients \ {c} : at'[j] = at[j]
        BY <2>3 DEF Types
      <3>5. \A j \in Clients \ {c} : Owned(j)'
        BY <1>1, <2>1, <3>2, <3>3, <3>4
      <3>6. \A d \in Servers \ {sock} : reg'[d][c] = "absent"
        BY <2>1, <3>2 DEF Owned
      <3>7. Owned(c)'
        BY <3>1, <3>2, <3>3, <3>4, <3>6 DEF Owned
      <3>. QED
        BY <3>5, <3>7
    <2>. QED
      BY <1>3, <2>2, <2>3 DEF Send
  <1>4. ASSUME NEW k \in Clients, JobStep(k)
        PROVE  \A j \in Clients : Owned(j)'
    <2>1. /\ UNCHANGED <<cmd, owner>> /\ at[k] # "none" /\ at'[k] # "none"
          /\ \A j \in Clients \ {k} : at'[j] = at[j]
      BY <1>4, JobMoves DEF Stage
    <2>2. CASE UNCHANGED reg
      BY <1>1, <2>1, <2>2
    <2>3. CASE \E status \in Terminal :
                  owner[k] \in Servers /\ reg' = [reg EXCEPT ![owner[k]][k] = status]
      <3>1. PICK status \in Terminal :
               owner[k] \in Servers /\ reg' = [reg EXCEPT ![owner[k]][k] = status]
        BY <2>3
      <3>2. \A d \in Servers, j \in Clients :
               reg'[d][j] = IF d = owner[k] /\ j = k THEN status ELSE reg[d][j]
        BY <3>1, Registering
      <3>3. reg[owner[k]][k] # "absent"
        BY <1>4, <2>1, <3>1, JobMoves DEF Owned, Running
      <3>. QED
        BY <1>1, <2>1, <3>2, <3>3 DEF Terminal
    <2>. QED
      BY <1>4, <2>2, <2>3, JobMoves DEF Over
  <1>5. ASSUME UNCHANGED <<cmd, at, owner>>, UNCHANGED reg \/ \E d \in Servers : KillServer(d)
        PROVE  \A j \in Clients : Owned(j)'
    <2>1. CASE UNCHANGED reg
      BY <1>1, <1>5, <2>1
    <2>2. ASSUME NEW d \in Servers, KillServer(d)
          PROVE  \A j \in Clients : Owned(j)'
      <3>1. \A e \in Servers, j \in Clients :
               reg'[e][j] = IF e = d THEN "absent" ELSE reg[e][j]
        BY <2>2 DEF KillServer, Exit, Types
      <3>. QED
        BY <1>1, <1>5, <2>2, <3>1
    <2>. QED
      BY <1>5, <2>1, <2>2
  <1>. QED
    BY <1>2, <1>3, <1>4, <1>5, StepCases, Elsewhere

LEMMA RecordedStep ==
    ASSUME Distinct, Types, \A k \in Clients : Owned(k) /\ AtCommand(k) /\ Recorded(k),
           [DaemonNext]_daemonVars
    PROVE  \A j \in Clients : Recorded(j)'
  <1> USE DEF cliVars, srvVars, jobVars, history
  <1>1. ASSUME NEW j \in Clients, at'[j] = at[j], SameRecord(j),
               \A d \in Servers : reg'[d][j] = reg[d][j] \/ reg'[d][j] = "absent"
        PROVE  Recorded(j)'
    BY <1>1 DEF Recorded, SameRecord
  <1>2. ASSUME NEW c \in Clients, Command(c) \/ Send(c)
        PROVE  \A j \in Clients : Recorded(j)'
    <2>1. UNCHANGED <<wal, outcome>> /\ at[c] = "none"
      BY <1>2 DEF Command, Send, AtCommand, Done
    <2>2. \A j \in Clients : SameRecord(j)
      BY <2>1 DEF SameRecord, Has
    <2>3. /\ at'[c] \in {"none", "queued"} /\ \A j \in Clients \ {c} : at'[j] = at[j]
      BY <1>2, <2>1 DEF Command, Send, Types
    <2>4. \A d \in Servers, j \in Clients :
             \/ reg'[d][j] = reg[d][j]
             \/ j = c /\ reg'[d][j] = "running"
      <3>1. CASE UNCHANGED reg
        BY <3>1
      <3>2. CASE reg' = [reg EXCEPT ![sock][c] = "running"]
        BY <3>2, Registering
      <3>. QED
        BY <1>2, <3>1, <3>2 DEF Command, Send
    <2>5. \A j \in Clients \ {c} : Recorded(j)'
      BY <1>1, <2>2, <2>3, <2>4
    <2>6. Recorded(c)'
      <3>1. \A d \in Servers : reg[d][c] = "absent"
        BY <2>1 DEF Owned
      <3>. QED
        BY <2>1, <2>2, <2>3, <2>4, <3>1 DEF Recorded, SameRecord
    <2>. QED
      BY <2>5, <2>6
  <1>3. ASSUME NEW k \in Clients, JobStep(k)
        PROVE  \A j \in Clients : Recorded(j)'
    <2>1. \A j \in Clients \ {k} : at'[j] = at[j] /\ SameRecord(j)
      BY <1>3, JobMoves
    <2>2. CASE UNCHANGED reg
      <3>1. \A j \in Clients \ {k} : Recorded(j)'
        BY <1>1, <2>1, <2>2
      <3>2. at[k] # "over" /\ \A d \in Servers : reg[d][k] \notin {"failed", "completed"}
        BY <1>3, JobMoves DEF Stage, Recorded
      <3>3. Recorded(k)'
        BY <1>3, <2>2, <3>2, JobMoves DEF Stage, SameRecord, Recorded
      <3>. QED
        BY <3>1, <3>3
    <2>3. ASSUME NEW status \in Terminal, Over(k, status),
                 status = "completed" => outcome[k] = "good" /\ at[k] = "logged"
          PROVE  \A j \in Clients : Recorded(j)'
      <3>1. at'[k] = "over" /\ at[k] # "over" /\ SameRecord(k)
        BY <1>3, <2>3, JobMoves DEF Over, Stage, Types
      <3>2. \A d \in Servers, j \in Clients :
               \/ reg'[d][j] = reg[d][j]
               \/ j = k /\ reg'[d][j] = status
        <4>1. CASE UNCHANGED reg
          BY <4>1
        <4>2. CASE reg' = [reg EXCEPT ![owner[k]][k] = status]
          BY <4>2, Registering
        <4>. QED
          BY <2>3, <4>1, <4>2 DEF Over
      <3>3. \A j \in Clients \ {k} : Recorded(j)'
        BY <1>1, <2>1, <3>2
      <3>4. Recorded(k)'
        BY <2>3, <3>1, <3>2 DEF Recorded, SameRecord
      <3>. QED
        BY <3>3, <3>4
    <2>. QED
      BY <1>3, <2>2, <2>3, JobMoves
  <1>4. ASSUME UNCHANGED at, \A j \in Clients : SameRecord(j),
               UNCHANGED reg \/ \E d \in Servers : KillServer(d)
        PROVE  \A j \in Clients : Recorded(j)'
    <2>1. \A d \in Servers, j \in Clients : reg'[d][j] = reg[d][j] \/ reg'[d][j] = "absent"
      <3>1. ASSUME NEW d \in Servers, KillServer(d)
            PROVE  \A e \in Servers, j \in Clients :
                      reg'[e][j] = IF e = d THEN "absent" ELSE reg[e][j]
        BY <3>1 DEF KillServer, Exit, Types
      <3>. QED
        BY <1>4, <3>1
    <2>. QED
      BY <1>1, <1>4, <2>1
  <1>. QED
    BY <1>2, <1>3, <1>4, StepCases, Elsewhere

-----------------------------------------------------------------------------
(* What is told                                                            *)

\* Of a nonempty set of places in a sequence, one is the last.
LEMMA LastPlace ==
    ASSUME NEW n \in Nat, NEW ends \in SUBSET (1..n), ends # {}
    PROVE  \E i \in ends : \A k \in ends : k <= i
  <1> DEFINE Above(i) == {k \in ends : k > i}
             Aboves == {Above(i) : i \in ends}
  <1>1. IsFiniteSet(ends)
    <2>1. IsFiniteSet(1..n)
      BY FS_Interval
    <2>. QED
      BY <2>1, FS_Subset
  <1>2. Aboves \subseteq FiniteSubsetsOf(ends)
    <2>1. \A S \in SUBSET ends : IsFiniteSet(S)
      BY <1>1, FS_Subset
    <2>. QED
      BY <2>1 DEF FiniteSubsetsOf
  <1>3. PICK i \in ends : \A k \in ends : ~ (Above(k) \subseteq Above(i) /\ Above(k) # Above(i))
    <2>1. IsWellFoundedOn(StrictSubsetOrdering(ends), FiniteSubsetsOf(ends))
      BY FS_StrictSubsetOrderingWellFounded
    <2>2. \E S \in Aboves : \A T \in Aboves : <<T, S>> \notin StrictSubsetOrdering(ends)
      <3> HIDE DEF Aboves
      <3>1. Aboves # {}
        BY DEF Aboves
      <3>. QED
        BY <1>2, <2>1, <3>1, WFMin
    <2>3. PICK i \in ends : \A k \in ends : <<Above(k), Above(i)>> \notin StrictSubsetOrdering(ends)
      BY <2>2
    <2>4. \A k \in ends : <<Above(k), Above(i)>> \in (SUBSET ends) \X (SUBSET ends)
      OBVIOUS
    <2>. QED
      BY <2>3, <2>4 DEF StrictSubsetOrdering
  <1>4. ASSUME NEW k \in ends, ~ (k <= i)
        PROVE  FALSE
    <2>1. ends \subseteq Nat /\ k > i
      BY <1>4
    <2>2. ASSUME NEW m \in ends, m > k
          PROVE  m > i
      <3>1. m \in Nat /\ k \in Nat /\ i \in Nat
        BY <2>1
      <3>. QED
        BY <2>1, <2>2, <3>1
    <2>3. k \in Above(i) /\ k \notin Above(k)
      BY <2>1
    <2>. QED
      BY <1>3, <2>2, <2>3
  <1>. QED
    BY <1>3, <1>4

\* What the log says of a job.
LEMMA LogSays ==
    ASSUME Types, NEW j \in Clients
    PROVE  /\ FromLog(j) \in {"unknown"} \cup Terminal
           /\ FromLog(j) = "completed" <=> Has(j, "completed")
           /\ LastTerminal(j) \in {"unknown"} \cup Terminal
           /\ LastTerminal(j) = "completed" => Has(j, "completed")
           /\ wal[j] = <<>> => ~ Has(j, "completed")
           /\ wal[j] # <<>> => /\ wal[j][Len(wal[j])] \in Events
                              /\ Has(j, wal[j][Len(wal[j])])
  <1>1. wal[j] \in Seq(Events) /\ Len(wal[j]) \in Nat /\ DOMAIN wal[j] = 1..Len(wal[j])
    BY DEF Types
  <1>2. /\ FromLog(j) \in {"unknown"} \cup Terminal
        /\ FromLog(j) = "completed" <=> Has(j, "completed")
    BY DEF FromLog, Terminal
  <1>3. /\ LastTerminal(j) \in {"unknown"} \cup Terminal
        /\ LastTerminal(j) = "completed" => Has(j, "completed")
    <2> DEFINE ends == {i \in DOMAIN wal[j] : wal[j][i] \in Terminal}
               last == CHOOSE i \in ends : \A k \in ends : k <= i
    <2>1. CASE ends = {}
      BY <2>1 DEF LastTerminal, Terminal
    <2>2. CASE ends # {}
      <3>1. \E i \in ends : \A k \in ends : k <= i
        <4>1. ends \in SUBSET (1..Len(wal[j]))
          BY <1>1
        <4> HIDE DEF ends
        <4>. QED
          BY <1>1, <2>2, <4>1, LastPlace
      <3>2. last \in ends
        <4> HIDE DEF ends
        <4>. QED
          BY <3>1
      <3>3. LastTerminal(j) = wal[j][last]
        BY <2>2 DEF LastTerminal
      <3> HIDE DEF last
      <3>. QED
        BY <3>2, <3>3 DEF Has
    <2>. QED
      BY <2>1, <2>2
  <1>4. wal[j] = <<>> => ~ Has(j, "completed")
    BY DEF Has
  <1>5. ASSUME wal[j] # <<>>
        PROVE  wal[j][Len(wal[j])] \in Events /\ Has(j, wal[j][Len(wal[j])])
    <2>1. Len(wal[j]) \in DOMAIN wal[j]
      BY <1>1, <1>5
    <2>. QED
      BY <1>1, <2>1 DEF Has
  <1>. QED
    BY <1>2, <1>3, <1>4, <1>5

\* A daemon that does not know a job, or that cannot be reached, did not get it: the one that
\* did is gone.  One that knows it is the one that got it.
LEMMA WhoKnows ==
    ASSUME Distinct, Types, Single, NEW j \in Clients, Owned(j),
           at[j] # "none", owner[j] \in Servers
    PROVE  /\ ~ Up => Exited(j)
           /\ Up /\ reg[sock][j] = "absent" => Exited(j)
           /\ Up => sock \in Servers
  BY DEF Single, Owned, Exited, Up, Distinct, Types

\* What the daemon that can be reached says of a job that a daemon got; "error" also stands
\* for no daemon.
LEMMA DaemonSays ==
    ASSUME Distinct, Types, Single, NEW j \in Clients, Owned(j), Recorded(j),
           at[j] # "none", owner[j] \in Servers
    PROVE  /\ Asked(j) \in {"running", "unknown", "error"} \cup Terminal
           /\ Asked(j) = "completed" =>
                  Has(j, "completed") /\ (outcome[j] = "good" \/ Exited(j))
           /\ Asked(j) = "failed" => at[j] = "over" \/ Exited(j)
           /\ Asked(j) = "unknown" => ~ Has(j, "completed") /\ Exited(j)
           /\ Asked(j) = "error" => Exited(j)
  <1>1. CASE Up /\ reg[sock][j] # "absent"
    <2>1. sock \in Servers
      BY <1>1, WhoKnows
    <2>2. Asked(j) = reg[sock][j]
      BY <1>1 DEF Asked, StatusOf
    <2>3. reg[sock][j] \in {"running"} \cup Terminal
      BY <1>1, <2>1 DEF Types
    <2>. QED
      BY <2>1, <2>2, <2>3 DEF Recorded, Terminal
  <1>2. CASE ~ (Up /\ reg[sock][j] # "absent")
    <2>1. Exited(j)
      BY <1>2, WhoKnows
    <2>2. Asked(j) = "error" \/ Asked(j) = FromLog(j)
      BY <1>2 DEF Asked, StatusOf
    <2>. QED
      BY <2>1, <2>2, LogSays DEF Terminal
  <1>. QED
    BY <1>1, <1>2

\* What status, jobs and wait tell a client is true.
LEMMA TrueWhenTold ==
    ASSUME Distinct, Types, Single, NEW c \in Clients,
           \A k \in Clients : Owned(k) /\ AtCommand(k) /\ Recorded(k),
           at[target[c]] # "none", owner[target[c]] \in Servers,
           Ask(c) \/ WaitExists(c) \/ WaitPoll(c) \/ WaitTimeout(c)
    PROVE  told' = told \/ \E answer : Tell(c, answer) /\ TrueOf(answer, target[c])
  <1> DEFINE j == target[c]
  <1>1. j \in Clients
    BY DEF Types
  <1> HIDE DEF j
  <1>2. /\ at[j] # "none" /\ owner[j] \in Servers /\ Owned(j) /\ Recorded(j)
    BY <1>1 DEF j
  <1>3. /\ Asked(j) \in {"running", "unknown", "error"} \cup Terminal
        /\ Asked(j) = "completed" =>
               Has(j, "completed") /\ (outcome[j] = "good" \/ Exited(j))
        /\ Asked(j) = "failed" => at[j] = "over" \/ Exited(j)
        /\ Asked(j) = "unknown" => ~ Has(j, "completed") /\ Exited(j)
        /\ Asked(j) = "error" => Exited(j)
    BY <1>1, <1>2, DaemonSays
  <1>4. /\ FromLog(j) \in {"unknown"} \cup Terminal
        /\ FromLog(j) = "completed" <=> Has(j, "completed")
        /\ LastTerminal(j) \in {"unknown"} \cup Terminal
        /\ LastTerminal(j) = "completed" => Has(j, "completed")
        /\ wal[j] = <<>> => ~ Has(j, "completed")
        /\ wal[j] # <<>> => /\ wal[j][Len(wal[j])] \in Events
                           /\ Has(j, wal[j][Len(wal[j])])
    BY <1>1, LogSays
  <1>5. TrueOf(Asked(j), j)
    BY <1>3 DEF TrueOf, Terminal
  <1>6. Asked(j) = "error" => TrueOf("notFound", j) \/ wal[j] # <<>>
    BY <1>3, <1>4 DEF TrueOf
  <1>7. CASE Ask(c)
    <2>1. CASE cmd[c] = "status"
      BY <1>5, <1>6, <1>7, <2>1 DEF Ask, TrueOf, j
    <2>2. CASE cmd[c] # "status" /\ Up
      <3>1. Tell(c, ListedBy(sock, j))
        BY <1>7, <2>2 DEF Ask, j
      <3>2. CASE reg[sock][j] # "absent"
        <4>1. ListedBy(sock, j) = Asked(j)
          BY <2>2, <3>2 DEF ListedBy, Asked, StatusOf
        <4>. QED
          BY <1>5, <3>1, <4>1 DEF j
      <3>3. CASE reg[sock][j] = "absent"
        <4>1. Exited(j)
          BY <1>1, <1>2, <2>2, <3>3, WhoKnows
        <4>2. ListedBy(sock, j) = IF wal[j] = <<>> THEN "notFound" ELSE LastTerminal(j)
          BY <3>3 DEF ListedBy
        <4>3. TrueOf(ListedBy(sock, j), j)
          BY <1>4, <4>1, <4>2 DEF TrueOf, Terminal
        <4>. QED
          BY <3>1, <4>3 DEF j
      <3>. QED
        BY <3>2, <3>3
    <2>3. CASE cmd[c] # "status" /\ ~ Up
      <3>1. Tell(c, ListedFromLog(j))
        BY <1>7, <2>3 DEF Ask, j
      <3>2. Exited(j)
        BY <1>1, <1>2, <2>3, WhoKnows
      <3>3. TrueOf(ListedFromLog(j), j)
        BY <1>4, <3>2 DEF TrueOf, ListedFromLog, Events, Terminal
      <3>. QED
        BY <3>1, <3>3 DEF j
    <2>. QED
      BY <2>1, <2>2, <2>3
  <1>8. CASE WaitExists(c)
    <2>1. CASE Asked(j) = "error" /\ wal[j] = <<>>
      BY <1>6, <1>8, <2>1 DEF WaitExists, j
    <2>2. CASE Asked(j) = "unknown"
      <3>1. TrueOf("notFound", j)
        BY <1>3, <2>2 DEF TrueOf
      <3>. QED
        BY <1>8, <2>2, <3>1 DEF WaitExists, j
    <2>3. CASE Asked(j) = "error" /\ wal[j] # <<>>
      BY <1>8, <2>3 DEF WaitExists, j
    <2>4. CASE Asked(j) \notin {"error", "unknown"}
      BY <1>8, <2>4 DEF WaitExists, j
    <2>. QED
      BY <2>1, <2>2, <2>3, <2>4
  <1>9. CASE WaitPoll(c)
    <2>1. Tell(c, Verdict(j))
      BY <1>9 DEF WaitPoll, j
    <2>2. TrueOf(Verdict(j), j)
      BY <1>3, <1>4, <1>5 DEF Verdict, TrueOf, Terminal
    <2>. QED
      BY <2>1, <2>2 DEF j
  <1>10. CASE WaitTimeout(c)
    BY <1>10 DEF WaitTimeout, TrueOf
  <1>. QED
    BY <1>7, <1>8, <1>9, <1>10

\* What was told stays true.
LEMMA TrueStays ==
    ASSUME Distinct, Types, Single, \A k \in Clients : Owned(k) /\ AtCommand(k) /\ Recorded(k),
           [DaemonNext]_daemonVars, NEW j \in Clients, at[j] # "none", owner[j] \in Servers,
           NEW answer, TrueOf(answer, j)
    PROVE  TrueOf(answer, j)'
  <1> USE DEF cliVars, srvVars, jobVars, history
  <1>1. owner'[j] = owner[j] /\ (Exited(j) => Exited(j)')
    BY Ages, DaemonsEnd DEF Exited
  <1>2. CASE at'[j] = at[j] /\ SameRecord(j)
    BY <1>1, <1>2 DEF TrueOf, SameRecord
  <1>3. CASE JobStep(j)
    <2>1. dpc[owner[j]] = "listening" /\ ~ Exited(j)
      BY <1>3, JobMoves DEF Running, Exited
    <2>2. /\ Has(j, "completed") => Has(j, "completed")' /\ outcome'[j] = outcome[j]
          /\ at[j] \in {"over", "logged"} => at'[j] \in {"over", "logged"}
      BY <1>3, JobMoves DEF Stage, SameRecord, Recorded
    <2>. QED
      BY <1>1, <2>1, <2>2 DEF TrueOf
  <1>4. ASSUME NEW c \in Clients, Command(c) \/ Send(c)
        PROVE  at'[j] = at[j] /\ SameRecord(j)
    <2>1. at[c] = "none" /\ j # c
      BY <1>4 DEF AtCommand, Command, Send, Done
    <2>2. UNCHANGED <<wal, outcome>>
      BY <1>4 DEF Command, Send
    <2>3. at'[j] = at[j]
      BY <1>4, <2>1 DEF Command, Send, Types
    <2>. QED
      BY <2>2, <2>3 DEF SameRecord, Has
  <1>5. ASSUME NEW k \in Clients \ {j}, JobStep(k)
        PROVE  at'[j] = at[j] /\ SameRecord(j)
    BY <1>5, JobMoves
  <1>. QED
    BY <1>2, <1>3, <1>4, <1>5, StepCases, Elsewhere

LEMMA HeardStep ==
    ASSUME Distinct, Types, Single,
           \A k \in Clients : Owned(k) /\ AtCommand(k) /\ Recorded(k) /\ Heard(k),
           [DaemonNext]_daemonVars
    PROVE  \A c \in Clients : Heard(c)'
  <1> USE DEF cliVars, srvVars, jobVars, history
  <1>1. ASSUME NEW c \in Clients, at[target[c]] # "none", NEW answer,
               cmd'[c] = cmd[c], target'[c] = target[c], told'[c] = answer,
               cmd[c] \in Queries /\ owner[target[c]] \in Servers => TrueOf(answer, target[c])
        PROVE  Heard(c)'
    <2>1. target[c] \in Clients /\ owner'[target[c]] = owner[target[c]]
      BY <1>1, Ages DEF Types
    <2>2. CASE cmd[c] \in Queries /\ owner[target[c]] \in Servers
      <3>1. TrueOf(answer, target[c])'
        BY <1>1, <2>1, <2>2, TrueStays
      <3>. QED
        BY <1>1, <2>1, <3>1 DEF Heard, TrueOf
    <2>3. CASE ~ (cmd[c] \in Queries /\ owner[target[c]] \in Servers)
      BY <1>1, <2>1, <2>3 DEF Heard
    <2>. QED
      BY <2>2, <2>3
  <1>2. ASSUME NEW c \in Clients, cmd'[c] = cmd[c], target'[c] = target[c],
               told'[c] = told[c] \/ cmd[c] \notin Queries
        PROVE  Heard(c)'
    <2>1. CASE cmd[c] \in Queries
      BY <1>1, <1>2, <2>1 DEF AtCommand, Heard
    <2>2. CASE cmd[c] \notin Queries
      BY <1>2, <2>2 DEF Heard
    <2>. QED
      BY <2>1, <2>2
  <1>3. ASSUME NEW c \in Clients,
               \/ Check(c) \/ TakeLock(c) \/ Recheck(c) \/ AwaitReady(c)
               \/ DispatchAnswer(c) \/ KillClient(c) \/ Send(c) \/ JobStep(c)
        PROVE  Heard(c)'
    <2>1. UNCHANGED <<cmd, target>>
      BY <1>3, JobMoves DEF Check, TakeLock, Recheck, AwaitReady, DispatchAnswer, KillClient, Send
    <2>2. told'[c] = told[c] \/ cmd[c] \notin Queries
      <3>1. CASE KillClient(c)
        BY <3>1 DEF KillClient
      <3>2. CASE Check(c) \/ TakeLock(c) \/ Recheck(c) \/ AwaitReady(c) \/ DispatchAnswer(c)
                 \/ Send(c)
        BY <3>2 DEF Check, TakeLock, Recheck, AwaitReady, DispatchAnswer, Send, AtCommand, Queries
      <3>3. CASE JobStep(c)
        <4>1. told' = told \/ owner[c] \notin Servers
          BY <3>3, JobMoves DEF Over
        <4>2. owner[c] \notin Servers => cmd[c] = "run"
          BY <3>3, JobMoves DEF Stage, Owned
        <4>. QED
          BY <4>1, <4>2 DEF Queries
      <3>. QED
        BY <1>3, <3>1, <3>2, <3>3
    <2>. QED
      BY <1>2, <2>1, <2>2
  <1>4. ASSUME NEW c \in Clients, Ask(c) \/ WaitExists(c) \/ WaitPoll(c) \/ WaitTimeout(c)
        PROVE  Heard(c)'
    <2>1. UNCHANGED <<cmd, target>> /\ at[target[c]] # "none"
      BY <1>4 DEF Ask, WaitExists, WaitPoll, WaitTimeout, AtCommand
    <2>2. CASE cmd[c] \in Queries /\ owner[target[c]] \in Servers
      <3>1. CASE told' = told
        BY <1>2, <2>1, <3>1
      <3>2. ASSUME NEW answer, Tell(c, answer), TrueOf(answer, target[c])
            PROVE  Heard(c)'
        <4>1. told'[c] = answer
          BY <3>2, Going
        <4>. QED
          BY <1>1, <2>1, <3>2, <4>1
      <3>. QED
        BY <1>4, <2>1, <2>2, <3>1, <3>2, TrueWhenTold
    <2>3. CASE ~ (cmd[c] \in Queries /\ owner[target[c]] \in Servers)
      <3>1. target[c] \in Clients
        BY DEF Types
      <3>. QED
        BY <2>1, <2>3, <3>1, Ages DEF Heard
    <2>. QED
      BY <2>2, <2>3
  <1>5. ASSUME NEW c \in Clients, Command(c)
        PROVE  Heard(c)'
    BY <1>5 DEF Command, AtCommand, Heard, TrueOf
  <1>6. ASSUME NEW c \in Clients,
               \/ Command(c) \/ Send(c) \/ JobStep(c)
               \/ Check(c) \/ TakeLock(c) \/ Recheck(c) \/ AwaitReady(c)
               \/ DispatchAnswer(c) \/ KillClient(c)
               \/ Ask(c) \/ WaitExists(c) \/ WaitPoll(c) \/ WaitTimeout(c)
        PROVE  \A k \in Clients : Heard(k)'
    <2>1. \A k \in Clients \ {c} : Heard(k)'
      BY <1>2, <1>6, OthersStay
    <2>. QED
      BY <1>3, <1>4, <1>5, <1>6, <2>1
  <1>7. ASSUME UNCHANGED cliVars
        PROVE  \A k \in Clients : Heard(k)'
    BY <1>2, <1>7
  <1>8. ASSUME NEW d \in Servers, RemoveSocket(d) \/ Reconcile(d) \/ TryLock(d)
                                \/ DropLock(d) \/ Bind(d) \/ KillServer(d)
        PROVE  UNCHANGED cliVars
    BY <1>8 DEF RemoveSocket, Reconcile, TryLock, DropLock, Bind, KillServer
  <1>. QED
    BY <1>6, <1>7, <1>8, StepCases DEF daemonVars

-----------------------------------------------------------------------------
(* The inductive invariant and what it shows                               *)

LEMMA TypesInit == DaemonInit => Types
  <1> SUFFICES ASSUME DaemonInit
               PROVE  Types
    OBVIOUS
  <1>1. /\ pc \in [Clients -> PCs]
        /\ cmd \in [Clients -> {"none", "dispatch", "run", "wait", "status", "jobs"}]
        /\ target \in [Clients -> Clients] /\ child \in [Clients -> Servers \cup {None}]
        /\ told = [c \in Clients |-> told[c]]
    BY DEF DaemonInit, PCs
  <1>2. /\ dpc \in [Servers -> DPCs]
        /\ reg \in [Servers -> [Clients -> {"absent", "running"} \cup Terminal]]
        /\ orphans \in [Servers -> SUBSET Clients]
    BY DEF DaemonInit, DPCs
  <1>3. wal \in [Clients -> Seq(Events)]
    <2>1. <<>> \in Seq(Events)
      OBVIOUS
    <2>. QED
      BY <2>1 DEF DaemonInit
  <1>4. /\ at \in [Clients -> {"none", "over"} \cup InProgress]
        /\ owner \in [Clients -> Clients \cup Servers \cup {None}]
        /\ outcome \in [Clients -> {"none", "good", "bad", "error"}]
    BY DEF DaemonInit
  <1>5. sock = None /\ lock = None /\ disturbed = FALSE
    BY DEF DaemonInit
  <1>. QED
    BY <1>1, <1>2, <1>3, <1>4, <1>5 DEF Types

LEMMA DaemonInvInit == Distinct /\ DaemonInit => DaemonInv
  <1> SUFFICES ASSUME Distinct, DaemonInit
               PROVE  Types /\ Calm
    BY DEF DaemonInv
  <1>1. Types
    BY TypesInit
  <1>2. \A j \in Clients : \A e : ~ Has(j, e)
    BY DEF DaemonInit, Has
  <1>3. Single
    BY DEF DaemonInit, Single, Starting
  <1>4. ASSUME NEW c \in Clients
        PROVE  AtCommand(c) /\ Owned(c) /\ Recorded(c) /\ Heard(c)
    BY <1>2 DEF DaemonInit, AtCommand, Owned, Recorded, Heard, Queries
  <1>. QED
    BY <1>1, <1>3, <1>4 DEF Calm

LEMMA DaemonInvStep == Distinct /\ DaemonInv /\ [DaemonNext]_daemonVars => DaemonInv'
  <1> SUFFICES ASSUME Distinct, DaemonInv, [DaemonNext]_daemonVars
               PROVE  DaemonInv'
    OBVIOUS
  <1>1. Types /\ Types'
    BY TypesStep DEF DaemonInv
  <1>2. ASSUME ~ disturbed'
        PROVE  Calm'
    <2>1. disturbed => disturbed'
      BY DEF DaemonNext, daemonVars, history, Command, Check, TakeLock, Recheck, AwaitReady, Send,
             DispatchAnswer, Ask, WaitExists, WaitPoll, WaitTimeout, KillClient, JobStart,
             JobExecute, JobLog, JobOver, RemoveSocket, Reconcile, TryLock, DropLock, Bind,
             KillServer
    <2>2. ~ disturbed /\ Calm
      BY <1>2, <2>1 DEF DaemonInv
    <2>3. Single /\ \A k \in Clients : AtCommand(k) /\ Owned(k) /\ Recorded(k) /\ Heard(k)
      BY <2>2 DEF Calm
    <2>4. Single'
      BY <1>1, <1>2, <2>2, <2>3, SingleStep
    <2>5. \A k \in Clients : AtCommand(k)'
      BY <1>1, <2>3, AtCommandStep
    <2>6. \A k \in Clients : Owned(k)'
      BY <1>1, <2>3, OwnedStep
    <2>7. \A k \in Clients : Recorded(k)'
      BY <1>1, <2>3, RecordedStep
    <2>8. \A k \in Clients : Heard(k)'
      BY <1>1, <2>3, HeardStep
    <2>. QED
      BY <2>4, <2>5, <2>6, <2>7, <2>8 DEF Calm
  <1>. QED
    BY <1>1, <1>2 DEF DaemonInv

\* ensure_daemon_running: the listening daemon is the one that was bound last, and there is no
\* other, until a client dies between spawning and readiness.
LEMMA InvOneDaemon == DaemonInv => OneDaemon
  BY DEF DaemonInv, Calm, Single, OneDaemon

\* status, jobs, wait: the answers about a job of a daemon are true when the user reads them.
LEMMA InvToldTrue == DaemonInv => ToldTrue
  BY DEF DaemonInv, Calm, Heard, TrueOf, Exited, Queries, ToldTrue

\* Every variable of the clients, the daemons and their jobs keeps its type, whoever is killed.
THEOREM DaemonTypeCorrect == DaemonSpec => []DaemonTypeOK
  <1>1. Types /\ [DaemonNext]_daemonVars => Types'
    BY TypesStep
  <1>. QED
    BY <1>1, TypesInit, TypesImply, PTL DEF DaemonSpec

\* ensure_daemon_running, run: no two daemons listen, for any number of clients that start
\* one at once, unless one of them dies while it does.
THEOREM OneDaemonListens ==
    ASSUME Distinct
    PROVE  DaemonSpec => []OneDaemon
  <1>1. DaemonInit => DaemonInv
    BY DaemonInvInit
  <1>2. DaemonInv /\ [DaemonNext]_daemonVars => DaemonInv'
    BY DaemonInvStep
  <1>. QED
    BY <1>1, <1>2, InvOneDaemon, PTL DEF DaemonSpec

\* handle_status, handle_jobs, Commands::Wait: what a user is told of a job of a daemon is
\* true of it, from the registry as from the log, and stays true.
THEOREM UsersToldTrue ==
    ASSUME Distinct
    PROVE  DaemonSpec => []ToldTrue
  <1>1. DaemonInit => DaemonInv
    BY DaemonInvInit
  <1>2. DaemonInv /\ [DaemonNext]_daemonVars => DaemonInv'
    BY DaemonInvStep
  <1>. QED
    BY <1>1, <1>2, InvToldTrue, PTL DEF DaemonSpec
=============================================================================
