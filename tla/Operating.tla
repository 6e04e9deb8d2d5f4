----------------------------- MODULE Operating ------------------------------
(***************************************************************************)
(* What goes on around executions. The parts do not interact here: a       *)
(* behaviour is one of them, and the state of the others does not move.    *)
(* "git" is Git itself; the others are instances: the start of the daemon  *)
(* and what its clients are told (DaemonsProofs), sessions, the health     *)
(* monitor, queries about observations, and the evidence of runtime        *)
(* adapters (RecordsProofs).                                               *)
(***************************************************************************)
EXTENDS Git, TLC

\* The constants of the other parts, under a name of their own where theirs is taken.
CONSTANTS
    Makers, Askers, Servers, MaxKills,                               \* Daemons
    Runs, Name, MaxKilled,                                           \* Sessions
    Users, AlertMinutes, MaxAlerts, MaxRam, Fraction, MaxChecks,     \* Monitor
    Starts, Ids, Bundles, MaxSlots, MaxTicks, MaxDeaths,             \* ObserveQueries
    Providers, Binaries, Words, Callers, Pids, MaxStart, MaxClock, MaxRefs,   \* Adapters
    Twins       \* values that may be exchanged

\* The part a behaviour is of, and the state of a part that is an instance.
VARIABLES
    part,
    x1, x2, x3, x4, x5, x6, x7, x8, x9, x10, x11, x12, x13, x14, x15, x16, x17

slots ==
    <<x1, x2, x3, x4, x5, x6, x7, x8, x9, x10, x11, x12, x13, x14, x15, x16, x17>>
Unused ==
    x1 = 0 /\ x2 = 0 /\ x3 = 0 /\ x4 = 0 /\ x5 = 0 /\ x6 = 0 /\ x7 = 0 /\ x8 = 0
    /\ x9 = 0 /\ x10 = 0 /\ x11 = 0 /\ x12 = 0 /\ x13 = 0 /\ x14 = 0 /\ x15 = 0
    /\ x16 = 0 /\ x17 = 0

Da == INSTANCE DaemonsProofs WITH
    pc <- x1, cmd <- x2, target <- x3, child <- x4, told <- x5, dpc <- x6, reg <- x7,
    orphans <- x8, sock <- x9, lock <- x10, at <- x11, owner <- x12, wal <- x13,
    outcome <- x14, kills <- x15, disturbed <- x16

\* Sessions, Monitor, ObserveQueries and Adapters.
Re == INSTANCE RecordsProofs WITH
    Steps <- [r \in Runs |-> 1], pc <- x1, name <- x2, policy <- x3, via <- x4,
    sid <- x5, step <- x6, failed <- x7, terminated <- x8, outcomes <- x9, files <- x10,
    tmp <- x11, lock <- x12, copy <- x13, fd <- x14, jobs <- x15, added <- x16,
    users <- x17,
    mpc <- x1, upc <- x2, stopFlag <- x3, handle <- x4, writer <- x5, joiner <- x6,
    state <- x7, alerts <- x8, trail <- x9,
    oq_up <- x1, oq_deaths <- x2, oq_registry <- x3, oq_running <- x4, oq_mutex <- x5,
    oq_pc <- x6, oq_run <- x7, oq_ticks <- x8, oq_bundle <- x9, oq_cli <- x10,
    oq_next <- x11, oq_asks <- x12, oq_query <- x13, oq_seen <- x14, oq_answer <- x15,
    ad_binary <- x1, ad_status <- x2, ad_started <- x3, ad_clock <- x4, ad_file <- x5,
    ad_pc <- x6, ad_event <- x7, ad_name <- x8, ad_refs <- x9, ad_facts <- x10,
    ad_manifest <- x11, ad_jsonl <- x12, ad_json <- x13, ad_overwritten <- x14

\* The clients and the daemons of this instance are processes of their own, and what is absent
\* is no run, number or event.
ASSUME OperatingAssumption ==
    /\ Da!Distinct
    /\ Re!SessAssumption /\ Re!MonAssumption /\ Re!OqAssumption /\ Re!AdAssumption

-----------------------------------------------------------------------------
OperatingInit ==
    \/ part = "git" /\ GitInit /\ Unused
    \/ part = "daemons" /\ Da!DaemonInit /\ GitInit /\ repo = "absent" /\ x17 = 0
    \/ part = "sessions" /\ Re!SessInit /\ GitInit /\ repo = "absent"
    \/ part = "monitor" /\ Re!MonInit /\ GitInit /\ repo = "absent" /\ x10 = 0 /\ x11 = 0 
       /\ x12 = 0 /\ x13 = 0 /\ x14 = 0 /\ x15 = 0 /\ x16 = 0 /\ x17 = 0
    \/ part = "queries" /\ Re!OqInit /\ GitInit /\ repo = "absent" /\ x16 = 0 /\ x17 = 0
    \/ part = "adapters" /\ Re!AdInit /\ GitInit /\ repo = "absent" /\ x15 = 0 /\ x16 = 0 
       /\ x17 = 0

OperatingNext ==
    \/ part = "git" /\ GitNext /\ UNCHANGED <<part, slots>>
    \/ part = "daemons" /\ Da!DaemonNext /\ UNCHANGED <<part, x17, gitVars>>
    \/ part = "sessions" /\ Re!SessNext /\ UNCHANGED <<part, gitVars>>
    \/ part = "monitor" /\ Re!MonNext /\ UNCHANGED <<part, x10, x11, x12, x13, x14, x15, x16,
       x17, gitVars>>
    \/ part = "queries" /\ Re!OqNext /\ UNCHANGED <<part, x16, x17, gitVars>>
    \/ part = "adapters" /\ Re!AdNext /\ UNCHANGED <<part, x15, x16, x17, gitVars>>

all == <<part, gitVars, slots>>

OperatingSpec == OperatingInit /\ [][OperatingNext]_all

\* Two jobs, clients, runs, requests and capturing threads are interchangeable.
Symmetry == Permutations(Twins)

-----------------------------------------------------------------------------
(* Properties                                                              *)

\* The state of the part that moves has its type.
OperatingTypeOK ==
    /\ part = "git" => GitTypeOK
    /\ part = "daemons" => Da!DaemonTypeOK
    /\ part = "sessions" => Re!SessTypeOK
    /\ part = "monitor" => Re!MonTypeOK
    /\ part = "queries" => Re!OqTypeOK
    /\ part = "adapters" => Re!AdTypeOK

\* ensure_daemon_running: "to prevent multiple processes from spawning the daemon
\* simultaneously": unless a client dies while it starts one, no two daemons listen, and the
\* one that listens can be reached.
OneDaemon == part = "daemons" => Da!OneDaemon

\* wait, status, jobs: a client is told the truth of its job, from the registry and, after a
\* restart, from the log.
ToldTrue == part = "daemons" => Da!ToldTrue

\* session_run, poll_job: a session that one run at a time has used is readable, holds exactly
\* the jobs recorded in it, and ends as its last run did; "never a synthesized success": a step
\* is shown as good only if its job completed.
SessionsTrue == part = "sessions" => Re!LoneSessionTrue /\ Re!StepsAreReal

\* monitor_loop: the alerts are the latest of those that were due at the checks so far, none
\* that was not, none twice.
AlertsAreDue == part = "monitor" => Re!AlertsAreDue

\* handle_observe_*: what status, evaluate and verify say of a run is true of its bundle,
\* which grows while it is read.
ObserveAnswersHold == part = "queries" => Re!AnswersHold

\* reducer.rs, runtime_fact_export.rs: what the adapters captured, the reducer counted and the
\* export wrote agree.
EvidenceAddsUp == part = "adapters" => Re!EvidenceAddsUp
=============================================================================
