------------------------------ MODULE Monitor -------------------------------
(***************************************************************************)
(* The health monitor (core/src/monitor.rs): one thread that checks the    *)
(* machine every CHECK_INTERVAL_SECS, keeps a state and a bounded list of  *)
(* alerts, and is stopped by a flag; the threads that ask it or stop it.   *)
(* The state is written under a lock that the thread keeps until its next  *)
(* check.                                                                  *)
(***************************************************************************)
EXTENDS Common, Integers, Sequences, SequencesExt

CONSTANTS Users,         \* threads that call health() and stop()
          AlertMinutes,  \* CPU_ALERT_MINUTES, and the same number of growing checks for RAM
          MaxAlerts,     \* alerts that are kept
          MaxRam,        \* the machine's memory in the units telemetry reports
          Fraction,      \* parts of such a unit that the machine can use
          MaxChecks      \* bound: checks in a run

VARIABLES
    mpc, upc,           \* the monitor thread; its users
    stopFlag, handle,   \* stop_flag; whether the thread can still be joined
    writer, joiner,     \* holder of the state's write lock, of the thread handle's mutex
    state, alerts,      \* HealthState and the alerts
    trail               \* history: what every check saw

monVars == <<mpc, upc, stopFlag, handle, writer, joiner, state, alerts, trail>>

Kinds == {"zombies", "cpu", "memory"}
Alert == [kind : Kinds, check : 1..MaxChecks]
Check == [high : BOOLEAN, ram : 0..MaxRam, zombies : BOOLEAN]

MonTypeOK ==
    /\ mpc \in {"loop", "capture", "update", "sleep", "ended"}
    /\ upc \in [Users -> {"idle", "read", "flag", "stop", "join"}]
    /\ stopFlag \in BOOLEAN /\ handle \in BOOLEAN
    /\ writer \in {None, "monitor"} /\ joiner \in Users \cup {None}
    /\ state \in [cpu : 0..MaxChecks, ram : 0..MaxChecks, last : 0..MaxRam \cup {None}]
    /\ Len(alerts) <= MaxAlerts /\ \A i \in DOMAIN alerts : alerts[i] \in Alert
    /\ Len(trail) <= MaxChecks /\ \A i \in DOMAIN trail : trail[i] \in Check

MonInit ==
    /\ mpc = "loop" /\ upc = [u \in Users |-> "idle"]
    /\ stopFlag = FALSE /\ handle = TRUE /\ writer = None /\ joiner = None
    /\ state = [cpu |-> 0, ram |-> 0, last |-> None]
    /\ alerts = <<>> /\ trail = <<>>

-----------------------------------------------------------------------------
(* The thread                                                              *)

Loop ==
    /\ mpc = "loop" /\ Len(trail) < MaxChecks
    /\ mpc' = IF stopFlag THEN "ended" ELSE "capture"
    /\ UNCHANGED <<upc, stopFlag, handle, writer, joiner, state, alerts, trail>>

\* format_mem_kb: a size is cut down to whole units.
Reported(used) == used \div Fraction

\* CPU is normalised by the number of cores before it is compared.
CheckMachine ==
    /\ mpc = "capture"
    /\ \E high, zombies \in BOOLEAN, used \in 0..(MaxRam * Fraction) :
        trail' = Append(trail, [high |-> high, ram |-> Reported(used), zombies |-> zombies])
    /\ mpc' = "update"
    /\ UNCHANGED <<upc, stopFlag, handle, writer, joiner, state, alerts>>

\* Mutant of CpuCount: a check below the threshold leaves the count alone.
CpuCountKept(seen) == IF seen.high THEN state.cpu + 1 ELSE state.cpu

CpuCount(seen) == IF seen.high THEN state.cpu + 1 ELSE 0

RamCount(seen) ==
    IF state.last = None THEN state.ram ELSE IF seen.ram > state.last THEN state.ram + 1 ELSE 0

\* Mutant of Add: one alert too many.
AddOneMore(list, alert) ==
    IF Len(list) <= MaxAlerts THEN Append(list, alert) ELSE Append(Tail(list), alert)

\* add_alert: the oldest goes when there are too many.
Add(list, alert) ==
    IF Len(list) < MaxAlerts THEN Append(list, alert) ELSE Append(Tail(list), alert)

AddIf(due, list, alert) == IF due THEN Add(list, alert) ELSE list

\* The alerts after a check, the n-th: CPU, memory and zombies in this order.
Raised(seen, n) ==
    LET cpu == AddIf(CpuCount(seen) >= AlertMinutes, alerts, [kind |-> "cpu", check |-> n])
        ram == AddIf(state.last # None /\ seen.ram > state.last /\ RamCount(seen) >= AlertMinutes,
                     cpu, [kind |-> "memory", check |-> n])
    IN  AddIf(seen.zombies, ram, [kind |-> "zombies", check |-> n])

\* The write lock is taken here and given up at the end of the iteration, after the sleep.
Update ==
    /\ mpc = "update" /\ \A u \in Users : upc[u] # "read"
    /\ LET seen == Last(trail) IN
       /\ state' = [cpu |-> CpuCount(seen), ram |-> RamCount(seen), last |-> seen.ram]
       /\ alerts' = Raised(seen, Len(trail))
    /\ writer' = "monitor" /\ mpc' = "sleep"
    /\ UNCHANGED <<upc, stopFlag, handle, joiner, trail>>

\* The flag is looked at every second; either way the iteration ends.
Slept ==
    /\ mpc = "sleep"
    /\ writer' = None /\ mpc' = "loop"
    /\ UNCHANGED <<upc, stopFlag, handle, joiner, state, alerts, trail>>

-----------------------------------------------------------------------------
(* Its users                                                               *)

UserGoto(u, label) == upc' = [upc EXCEPT ![u] = label]

Health(u) ==
    /\ upc[u] = "idle" /\ writer = None /\ UserGoto(u, "read")
    /\ UNCHANGED <<mpc, stopFlag, handle, writer, joiner, state, alerts, trail>>

HealthRead(u) ==
    /\ upc[u] = "read" /\ UserGoto(u, "idle")
    /\ UNCHANGED <<mpc, stopFlag, handle, writer, joiner, state, alerts, trail>>

\* stop() and drop: the flag, then the handle's mutex, and a join for whoever gets the handle.
StopMonitor(u) ==
    /\ upc[u] = "idle" /\ UserGoto(u, "stop") /\ stopFlag' = TRUE
    /\ UNCHANGED <<mpc, handle, writer, joiner, state, alerts, trail>>

TakeHandle(u) ==
    /\ upc[u] = "stop" /\ joiner = None
    /\ handle' = FALSE
    /\ IF handle THEN joiner' = u /\ UserGoto(u, "join") ELSE UNCHANGED joiner /\ UserGoto(u, "idle")
    /\ UNCHANGED <<mpc, stopFlag, writer, state, alerts, trail>>

Joined(u) ==
    /\ upc[u] = "join" /\ mpc = "ended"
    /\ joiner' = None /\ UserGoto(u, "idle")
    /\ UNCHANGED <<mpc, stopFlag, handle, writer, state, alerts, trail>>

MonNext ==
    \/ Loop \/ CheckMachine \/ Update \/ Slept
    \/ \E u \in Users : Health(u) \/ HealthRead(u) \/ StopMonitor(u) \/ TakeHandle(u) \/ Joined(u)

MonSpec == MonInit /\ [][MonNext]_monVars

-----------------------------------------------------------------------------
(* Properties                                                              *)

\* The checks that saw the CPU above the threshold, more memory than the check before, zombies.
Highs == {i \in DOMAIN trail : trail[i].high}
Growths == {i \in DOMAIN trail \ {1} : trail[i].ram > trail[i - 1].ram}
Zombies == {i \in DOMAIN trail : trail[i].zombies}

Streak(n, S) == n >= AlertMinutes /\ \A i \in (n - AlertMinutes + 1)..n : i \in S

\* "CPU usage > 90% for 5 consecutive minutes", memory that grew at five checks in a row, too
\* many zombies: whether the checks called for an alert.
Due(alert) ==
    CASE alert.kind = "cpu" -> Streak(alert.check, Highs)
      [] alert.kind = "memory" -> Streak(alert.check, Growths)
      [] alert.kind = "zombies" -> alert.check \in Zombies

\* The checks that have been answered with what was due.
Checked == IF mpc = "update" THEN Len(trail) - 1 ELSE Len(trail)
AllDue == {alert \in Alert : alert.check <= Checked /\ Due(alert)}

Rank == [cpu |-> 1, memory |-> 2, zombies |-> 3]
Before(a, b) == a.check < b.check \/ (a.check = b.check /\ Rank[a.kind] < Rank[b.kind])

\* A list of alerts is in order, none of them twice, all of them from a set, and the rest of
\* the set is from before a full list.
Latest(list, due) ==
    /\ Len(list) <= MaxAlerts
    /\ \A i, j \in DOMAIN list : i < j => Before(list[i], list[j])
    /\ \A i \in DOMAIN list : list[i] \in due
    /\ \A a \in due : \/ \E i \in DOMAIN list : list[i] = a
                     \/ /\ Len(list) = MaxAlerts
                        /\ \A i \in DOMAIN list : Before(a, list[i])

\* The list holds the latest of the alerts that were due, none that was not, and none twice.
AlertsAreDue == Latest(alerts, AllDue)
=============================================================================
