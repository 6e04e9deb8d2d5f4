----------------------------- MODULE Executing ------------------------------
(***************************************************************************)
(* What one execution does to the machine and to the audit trail. The      *)
(* parts do not interact here: a behaviour is one of them, and the state   *)
(* of the others does not move. "audit" is JobLifecycle itself; the others *)
(* are instances: the files that jobs change and undo, processes that are  *)
(* started and killed, reads, the assessment before the effect, the        *)
(* configuration it goes by, and the telemetry before and after it.        *)
(***************************************************************************)
EXTENDS JobLifecycle, TLC

\* The constants of the other parts, under a name of their own where theirs is taken.
CONSTANTS
    FileJobs, FileCliJobs, FileFaults,                               \* Files
    Pids, Shells, Kills, MaxBorn,                                    \* Processes
    ReadInodes, ReadOutside, MaxLen, MaxBytes, MaxFileSize, ReadChanges,     \* Reads
    Execs, Levels, ConfChanges,                                      \* Assess
    Editors, Viewers, Locations, MaxEdits,                            \* Config
    Executors, Monitors, Callers, TTL, MaxClock, MaxCaptures,        \* Snapshots
    Twins,      \* values that may be exchanged
    None

\* The part a behaviour is of, and the state of a part that is an instance.
VARIABLES
    part,
    x1, x2, x3, x4, x5, x6, x7, x8, x9, x10, x11, x12, x13, x14, x15, x16, x17, x18, x19

slots ==
    <<x1, x2, x3, x4, x5, x6, x7, x8, x9, x10, x11, x12, x13, x14, x15, x16, x17, x18, x19>>
Unused ==
    x1 = 0 /\ x2 = 0 /\ x3 = 0 /\ x4 = 0 /\ x5 = 0 /\ x6 = 0 /\ x7 = 0 /\ x8 = 0
    /\ x9 = 0 /\ x10 = 0 /\ x11 = 0 /\ x12 = 0 /\ x13 = 0 /\ x14 = 0 /\ x15 = 0
    /\ x16 = 0 /\ x17 = 0 /\ x18 = 0 /\ x19 = 0

Fi == INSTANCE FilesProofs WITH
    Jobs <- FileJobs, CliJobs <- FileCliJobs, MaxFaults <- FileFaults, op <- x1,
    victim <- x2, pc <- x3, buf <- x4, fd <- x5, file <- x6, tmp <- x7, rtmp <- x8,
    data <- x9, repo <- x10, stray <- x11, pre <- x12, backup <- x13, audited <- x14,
    before <- x15, mutex <- x16, wal <- x17, alone <- x18, faults <- x19

\* Processes, Reads, Assess, Config and Snapshots: a part uses as many of the places as it has
\* variables.
Ma == INSTANCE MachineProofs WITH
    proc <- x1, births <- x2, shell <- x3, child <- x4, stdin <- x5, expired <- x6,
    status <- x7, timedOut <- x8, verdict <- x9, signalled <- x10, killedAt <- x11,
    kill <- x12, target <- x13, seen <- x14, sent <- x15, still <- x16, killed <- x17,
    snapshot <- x18,
    Inodes <- ReadInodes, Outside <- ReadOutside,
    rd_dir <- x1, rd_entry <- x2, rd_content <- x3, rd_changes <- x4, rd_pc <- x5,
    rd_max <- x6, rd_known <- x7, rd_resolved <- x8, rd_inode <- x9, rd_data <- x10,
    rd_end <- x11, rd_answer <- x12, rd_swapped <- x13,
    asc_pc <- x1, asc_cap <- x2, asc_args <- x3, asc_guard <- x4, asc_next <- x5,
    asc_win <- x6, asc_log <- x7, asc_conf <- x8, asc_changes <- x9, asc_seen <- x10,
    conf_file <- x1, conf_temp <- x2, conf_pc <- x3, conf_do <- x4, conf_held <- x5,
    conf_onto <- x6, conf_view <- x7, conf_env <- x8, conf_left <- x9, conf_overlap <- x10,
    clock <- x1, captures <- x2, slots <- x3, procCache <- x4, pc <- x5, mode <- x6,
    called <- x7, got <- x8, before <- x9, after <- x10, pBefore <- x11, pAfter <- x12

\* The values of this instance: contents, names and snapshots are told apart from "none",
\* processes and threads by what they are for.
ASSUME ExecutingAssumption ==
    /\ Fi!FilesAssumption /\ Ma!Apart
    /\ Ma!ReadsAssumption /\ Ma!AssessAssumption /\ Ma!ConfigAssumption /\ Ma!SnapAssumption

-----------------------------------------------------------------------------
ExecutingInit ==
    \/ part = "audit" /\ Init /\ Unused
    \/ part = "files" /\ Fi!Init /\ Init
    \/ part = "processes" /\ Ma!ProcInit /\ Init /\ x19 = 0
    \/ part = "reads" /\ Ma!RdInit /\ Init
       /\ x14 = 0 /\ x15 = 0 /\ x16 = 0 /\ x17 = 0 /\ x18 = 0 /\ x19 = 0
    \/ part = "assess" /\ Ma!AscInit /\ Init
       /\ x11 = 0 /\ x12 = 0 /\ x13 = 0 /\ x14 = 0 /\ x15 = 0 /\ x16 = 0 /\ x17 = 0
       /\ x18 = 0 /\ x19 = 0
    \/ part = "config" /\ Ma!ConfInit /\ Init
       /\ x11 = 0 /\ x12 = 0 /\ x13 = 0 /\ x14 = 0 /\ x15 = 0 /\ x16 = 0 /\ x17 = 0
       /\ x18 = 0 /\ x19 = 0
    \/ part = "snapshots" /\ Ma!SnapInit /\ Init
       /\ x13 = 0 /\ x14 = 0 /\ x15 = 0 /\ x16 = 0 /\ x17 = 0 /\ x18 = 0 /\ x19 = 0

ExecutingNext ==
    \/ part = "audit" /\ Next /\ UNCHANGED <<part, slots>>
    \/ part = "files" /\ Fi!Next /\ UNCHANGED <<part, vars>>
    \/ part = "processes" /\ Ma!ProcNext /\ UNCHANGED <<part, x19, vars>>
    \/ part = "reads" /\ Ma!RdNext /\ UNCHANGED <<part, x14, x15, x16, x17, x18, x19, vars>>
    \/ part = "assess" /\ Ma!AscNext
       /\ UNCHANGED <<part, x11, x12, x13, x14, x15, x16, x17, x18, x19, vars>>
    \/ part = "config" /\ Ma!ConfNext
       /\ UNCHANGED <<part, x11, x12, x13, x14, x15, x16, x17, x18, x19, vars>>
    \/ part = "snapshots" /\ Ma!SnapNext
       /\ UNCHANGED <<part, x13, x14, x15, x16, x17, x18, x19, vars>>

all == <<part, vars, slots>>

ExecutingSpec == ExecutingInit /\ [][ExecutingNext]_all

\* Two of the daemon's jobs, of the process ids and of the editors are interchangeable.
Symmetry == Permutations(Twins)

-----------------------------------------------------------------------------
(* Properties                                                              *)

\* The state of the part that moves has its type.
ExecutingTypeOK ==
    /\ part = "audit" => TypeOK
    /\ part = "files" => Fi!TypeOK
    /\ part = "processes" => Ma!ProcTypeOK
    /\ part = "reads" => Ma!RdTypeOK
    /\ part = "assess" => Ma!AscTypeOK
    /\ part = "config" => Ma!ConfTypeOK
    /\ part = "snapshots" => Ma!SnapTypeOK

\* atomic_write, restore: the file is what it was until the one rename that changes it, and
\* never a part of a content, but for the undo of a job that failed.
FileChangesAtOnce == part = "files" => Fi!AtomicChange /\ Fi!FileWhole

\* BackupManager, Undo: what a step takes from the file is in the job's backup or in the
\* pre-restore copy, and an undo that restores brings back what the undone job displaced.
UndoBringsBack == [][part = "files" => Fi!KeepsDisplaced /\ Fi!RestoresBefore]_all

\* kill.rs, shell_exec.rs: a process that a kill reports as killed is gone for good, and a
\* shell command is answered with what became of it.
AnswersAreTrue == part = "processes" => Ma!KilledIsDead /\ Ma!AnswerIsTrue

\* kill_process_group at the timeout: it reaches every process of the command's group and
\* none of anybody else, although process ids are used again.
TimeoutKillsGroup == part = "processes" => Ma!TimeoutClearsGroup /\ Ma!SignalsOnlyOwn

\* file_read.rs, path.rs: what is read is of the file that was validated, and the answer
\* says whether it is all of it, however the tree changes meanwhile.
ReadIsTrue == part = "reads" => Ma!ReadIsTrue

\* llmosafe.rs, executor.rs: whatever ran was assessed on every eligible argument, and the
\* assessment that is recorded permits it.
DoneWasAssessed == part = "assess" => Ma!DoneWasAssessed

\* ResolvedConfig: "the live gate and the reported ResolvedConfig::dal agree for every state".
ReportIsGate == part = "config" => Ma!ReportIsGate

\* save: config.toml changes by one whole command at a time, whatever is killed, as long as no
\* two commands overlap.
OneEditAtATime == [][part = "config" => Ma!EditsWhole]_all

\* telemetry.rs: "Results are cached for 30 seconds": nobody is given an older snapshot or one
\* of the other mode, whoever stores and clears the cache meanwhile; executor.rs: "so
\* before/after never alias via a cache hit": the two looks of an execution are two captures.
SnapshotsDistinct == [][part = "snapshots" => Ma!GivesRecent /\ Ma!LooksDiffer']_all
=============================================================================
