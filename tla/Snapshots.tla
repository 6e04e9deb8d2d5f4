----------------------------- MODULE Snapshots ------------------------------
(***************************************************************************)
(* The cached snapshots of the machine (core/src/telemetry.rs,             *)
(* core/src/processes.rs) as the threads of a daemon share them: executors *)
(* that look before and after a job (core/src/executor.rs), the health     *)
(* monitor and callers of the full capture.  A telemetry cache is locked   *)
(* for the look and again for the store, the process cache throughout.     *)
(*                                                                         *)
(* A snapshot is the capture that made it: when its probes ran and which   *)
(* parts they filled; of a process list, whether it shows too many zombies.*)
(***************************************************************************)
EXTENDS Common, Naturals, FiniteSets

CONSTANTS Executors, Monitors, Callers,   \* threads by what they do
          TTL,                            \* CACHE_TTL_SECS, in ticks of the clock
          MaxClock, MaxCaptures           \* bounds

Threads == Executors \cup Monitors \cup Callers

VARIABLES
    clock, captures,      \* time; captures so far, which number the snapshots
    slots, procCache,     \* the two telemetry slots and the process cache
    pc, mode, called,     \* a thread: where it is, the slot it asks, `now`
    got, before, after,   \* what it was given last; an executor's two looks
    pBefore, pAfter

looks == <<before, after, pBefore, pAfter>>
snapVars == <<clock, captures, slots, procCache, pc, mode, called, got, looks>>

Modes == {"light", "full"}
Parts == {"probed", "empty"}
Snap == [id : 1..MaxCaptures, taken : 0..MaxClock, hardware : Parts, network : Parts]
Procs == [taken : 0..MaxClock, zombies : BOOLEAN]
Stored(S) == [val : S, instant : 0..MaxClock] \cup {None}

SnapTypeOK ==
    /\ slots \in [Modes -> Stored(Snap)] /\ procCache \in Stored(Procs)
    /\ pc \in [Threads -> {"idle", "check", "probe", "store", "procs", "work", "clear", "fresh", "over"}]
    /\ got \in [Threads -> Snap \cup {None}]
    /\ before \in [Executors -> Snap \cup {None}] /\ after \in [Executors -> Snap \cup {None}]

SnapInit ==
    /\ clock = 0 /\ captures = 0
    /\ slots = [m \in Modes |-> None] /\ procCache = None
    /\ pc = [t \in Threads |-> "idle"]
    /\ mode = [t \in Threads |-> "light"] /\ called = [t \in Threads |-> 0]
    /\ got = [t \in Threads |-> None]
    /\ before = [t \in Executors |-> None] /\ after = [t \in Executors |-> None]
    /\ pBefore = [t \in Executors |-> None] /\ pAfter = [t \in Executors |-> None]

Goto(t, label) == pc' = [pc EXCEPT ![t] = label]
Recent(entry, now) == entry # None /\ now - entry.instant < TTL

-----------------------------------------------------------------------------
(* Time                                                                    *)

Tick ==
    /\ clock < MaxClock
    /\ clock' = clock + 1
    /\ UNCHANGED <<captures, slots, procCache, pc, mode, called, got, looks>>

-----------------------------------------------------------------------------
(* Telemetry::capture and capture_lightweight                              *)

Call(t) ==
    /\ pc[t] = "idle"
    /\ mode' = [mode EXCEPT ![t] = IF t \in Callers THEN "full" ELSE "light"]
    /\ called' = [called EXCEPT ![t] = clock] /\ got' = [got EXCEPT ![t] = None]
    /\ Goto(t, "check")
    /\ UNCHANGED <<clock, captures, slots, procCache, looks>>

\* Whoever has asked goes on with the answer: an executor's first or second look.
Answered(t, snap) ==
    /\ got' = [got EXCEPT ![t] = snap]
    /\ IF t \in Callers THEN Goto(t, "idle") /\ UNCHANGED <<before, after>>
       ELSE IF t \in Monitors THEN Goto(t, "procs") /\ UNCHANGED <<before, after>>
       ELSE IF before[t] = None THEN Goto(t, "procs") /\ before' = [before EXCEPT ![t] = snap] /\ UNCHANGED after
       ELSE Goto(t, "fresh") /\ after' = [after EXCEPT ![t] = snap] /\ UNCHANGED before

CheckSlot(t) ==
    /\ pc[t] = "check"
    /\ LET entry == slots[mode[t]] IN
       IF Recent(entry, called[t]) THEN Answered(t, entry.val)
       ELSE Goto(t, "probe") /\ UNCHANGED <<got, before, after>>
    /\ UNCHANGED <<clock, captures, slots, procCache, mode, called, pBefore, pAfter>>

\* In full mode the vendors' tools and python are asked for accelerators, and curl and /proc
\* for the network; the light mode leaves both parts empty.
Hardware(m) == IF m = "full" THEN "probed" ELSE "empty"
Network(m) == IF m = "full" THEN "probed" ELSE "empty"

\* /proc and df.  Whatever cannot be read is "unknown" or zero: a capture never fails.
Probe(t) ==
    /\ pc[t] = "probe" /\ captures < MaxCaptures
    /\ captures' = captures + 1
    /\ got' = [got EXCEPT ![t] = [id |-> captures + 1, taken |-> clock,
                                   hardware |-> Hardware(mode[t]), network |-> Network(mode[t])]]
    /\ Goto(t, "store")
    /\ UNCHANGED <<clock, slots, procCache, mode, called, looks>>

\* Mutant of Stamp: the entry's age starts when it is stored.
StampedLate(t) == clock

\* The age of an entry counts from the call, before the probes.
Stamp(t) == called[t]

StoreSlot(t) ==
    /\ pc[t] = "store"
    /\ slots' = [slots EXCEPT ![mode[t]] = [val |-> got[t], instant |-> Stamp(t)]]
    /\ Answered(t, got[t])
    /\ UNCHANGED <<clock, captures, procCache, mode, called, pBefore, pAfter>>

-----------------------------------------------------------------------------
(* ProcessSnapshot::capture and capture_fresh, under the cache's lock      *)

\* What `ps` shows now; a failed `ps` is an empty list that is not cached.
Seen == {[taken |-> clock, zombies |-> z] : z \in BOOLEAN}
NoProcs == [taken |-> clock, zombies |-> FALSE]

PsRuns(result, otherwise) ==
    \/ result \in Seen /\ procCache' = [val |-> result, instant |-> clock]
    \/ result = NoProcs /\ procCache' = otherwise

CaptureProcs(t) ==
    /\ pc[t] = "procs"
    /\ \E p \in Procs :
        /\ IF Recent(procCache, clock) THEN p = procCache.val /\ UNCHANGED procCache
           ELSE PsRuns(p, procCache)
        /\ IF t \in Monitors THEN Goto(t, "idle") /\ UNCHANGED pBefore
           ELSE Goto(t, "work") /\ pBefore' = [pBefore EXCEPT ![t] = p]
    /\ UNCHANGED <<clock, captures, slots, mode, called, got, before, after, pAfter>>

CaptureFresh(t) ==
    /\ pc[t] = "fresh"
    /\ \E p \in Procs : PsRuns(p, None) /\ pAfter' = [pAfter EXCEPT ![t] = p]
    /\ Goto(t, "over")
    /\ UNCHANGED <<clock, captures, slots, mode, called, got, before, after, pBefore>>

-----------------------------------------------------------------------------
(* The executor between its two looks                                      *)

\* Too many zombies in the first look: the job is refused.
Refuse(t) ==
    /\ pc[t] = "work" /\ pBefore[t].zombies
    /\ Goto(t, "over")
    /\ UNCHANGED <<clock, captures, slots, procCache, mode, called, got, looks>>

Work(t) ==
    /\ pc[t] = "work" /\ ~ pBefore[t].zombies
    /\ Goto(t, "clear")
    /\ UNCHANGED <<clock, captures, slots, procCache, mode, called, got, looks>>

Cleared == [slots EXCEPT !["light"] = None]

\* fresh_telemetry_after: the slot is emptied, then the ordinary capture is called.
ClearLight(t) ==
    /\ pc[t] = "clear"
    /\ slots' = Cleared
    /\ called' = [called EXCEPT ![t] = clock] /\ Goto(t, "check")
    /\ UNCHANGED <<clock, captures, procCache, mode, got, looks>>

-----------------------------------------------------------------------------
SnapNext ==
    \/ Tick
    \/ \E t \in Threads : Call(t) \/ CheckSlot(t) \/ Probe(t) \/ StoreSlot(t) \/ CaptureProcs(t)
    \/ \E t \in Executors : CaptureFresh(t) \/ Refuse(t) \/ Work(t) \/ ClearLight(t)

SnapSpec == SnapInit /\ [][SnapNext]_snapVars

-----------------------------------------------------------------------------
(* Properties                                                              *)

\* "Results are cached for 30 seconds", and "full-mode callers never observe zeroed
\* hardware": whoever stores when, a caller is never given a snapshot whose probes ran
\* longer ago than that, nor one of the other mode.
GivesRecent ==
    \A t \in Threads : (got'[t] # got[t] /\ got'[t] # None) =>
        /\ got'[t].taken + TTL > called[t]
        /\ got'[t].hardware = Hardware(mode[t]) /\ got'[t].network = Network(mode[t])

\* "so before/after never alias via a cache hit": the two looks of an executor are two
\* captures, and its second process list was taken after the job.
LooksDiffer ==
    \A t \in Executors : pc[t] = "over" /\ after[t] # None =>
        before[t].id # after[t].id /\ pAfter[t].taken >= called[t]
=============================================================================
