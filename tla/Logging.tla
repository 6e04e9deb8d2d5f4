------------------------------ MODULE Logging -------------------------------
(***************************************************************************)
(* What is written down and what is read back from it. The parts do not    *)
(* interact here: a behaviour is one of them, and the state of the others  *)
(* does not move. "daemon", "writers" and "faults" are Wal itself with     *)
(* three sets of constants (the daemon with its maintenance; processes     *)
(* that append at once; the daemon with failing appends and deaths in its  *)
(* maintenance); "observe" and "oracle" are instances.                     *)
(***************************************************************************)
EXTENDS Wal

\* Values of the constants of the other parts.
CONSTANTS None, w1, w2, w3, c1, d1

\* The constants of Wal are those of a daemon: its writers hold the WAL mutex, a file that is
\* rotated is not empty, and the maintenance task is no writer.
ASSUME LoggingAssumption ==
    Serialized /\ RotateLen > 0 /\ Maint \notin Writers \cup {Nobody}

\* The part a behaviour is of, and the state of a part that is an instance.
VARIABLES
    part,
    x1, x2, x3, x4, x5, x6, x7, x8, x9, x10, x11, x12, x13, x14, x15

slots ==
    <<x1, x2, x3, x4, x5, x6, x7, x8, x9, x10, x11, x12, x13, x14, x15>>
Unused ==
    x1 = 0 /\ x2 = 0 /\ x3 = 0 /\ x4 = 0 /\ x5 = 0 /\ x6 = 0 /\ x7 = 0 /\ x8 = 0
    /\ x9 = 0 /\ x10 = 0 /\ x11 = 0 /\ x12 = 0 /\ x13 = 0 /\ x14 = 0 /\ x15 = 0

Crowd == INSTANCE Wal WITH
    Writers <- {w1, w2, w3}, Serialized <- FALSE, Maintains <- FALSE, RotateLen <- 9,
    MaxClock <- 0, MaxTicks <- 0, MaxFaults <- 0

Ob == INSTANCE Observe WITH
    Sessions <- {c1, d1}, Daemon <- {d1}, Dal <- "A", BatchSize <- 2, SampleCap <- 2,
    AuditCap <- 1, CliTicks <- 1, DaemonTicks <- 1, Records <- 2, MaxFaults <- 1, pc <- x1,
    bundle <- x2, batch <- x3, prev <- x4, next <- x5, due <- x6, watermark <- x7, tick <-
    x8, queued <- x9, audits <- x10, lost <- x11, history <- x12, suspended <- x13, recorded
    <- x14, faults <- x15

Value(type, n) == [type |-> type, value |-> n]
SmallRecords ==
    {[a |-> v, b |-> w] : v \in {Value("absent", 0), Value("number", 0), Value("number", 1)},
                          w \in {Value("absent", 0), Value("string", 1)}}
SmallPredicates ==
    {[field |-> "a", op |-> "Eq", value |-> Value("number", 1)],
     [field |-> "b", op |-> "Regex", value |-> Value("string", 0)],
     [field |-> "a", op |-> "Gt", value |-> Value("string", 1)],
     [field |-> "foreign", op |-> "Neq", value |-> Value("number", 0)]}

Or == INSTANCE Oracle WITH
    Records <- SmallRecords, Predicates <- SmallPredicates, MaxLines <- 2, pc <- x1, mode <-
    x2, strict <- x3, spec <- x4, lines <- x5, admissible <- x6, verdict <- x7, unobserved
    <- x8, dropped <- x9, code <- x10, evidence <- x11

-----------------------------------------------------------------------------
LoggingInit ==
    \/ part = "daemon" /\ Init /\ Unused
    \/ part = "writers" /\ Crowd!Init /\ Unused
    \/ part = "faults" /\ Init /\ Unused
    \/ part = "observe" /\ Ob!Init /\ Init
    \/ part = "oracle" /\ Or!OracleInit /\ Init /\ x12 = 0 /\ x13 = 0 /\ x14 = 0 /\ x15 = 0

LoggingNext ==
    \/ part = "daemon" /\ Next /\ UNCHANGED <<part, faults, slots>>
    \/ part = "writers" /\ Crowd!Next /\ UNCHANGED <<part, slots>>
    \/ part = "faults" /\ Next /\ UNCHANGED <<part, slots>>
    \/ part = "observe" /\ Ob!Next /\ UNCHANGED <<part, vars>>
    \/ part = "oracle" /\ Or!OracleNext /\ UNCHANGED <<part, x12, x13, x14, x15, vars>>

all == <<part, vars, slots>>

LoggingSpec == LoggingInit /\ [][LoggingNext]_all

-----------------------------------------------------------------------------
(* Properties                                                              *)

\* The state of the part that moves has its type.
LoggingTypeOK ==
    /\ part = "daemon" => TypeOK
    /\ part = "writers" => Crowd!TypeOK
    /\ part = "faults" => TypeOK
    /\ part = "observe" => Ob!TypeOK
    /\ part = "oracle" => Or!OracleTypeOK

\* The log implements its promise (DurableLog), next to maintenance and between processes that
\* append at once: what load_all returns is what was acknowledged, once and in that order;
\* events leave only by retention, or because they were appended in an exposure.
LogKept ==
    /\ Promise!LogInit
    /\ [][part = "daemon" => [Promise!LogNext]_<<Readable, acked, MayLose>>]_all
    /\ [][part = "writers" =>
             [Crowd!Promise!LogNext]_<<Crowd!Readable, acked, Crowd!MayLose>>]_all

\* load_all returns events "in chronological order (oldest first, newest last)", with one
\* archive.
OneArchiveInOrder == part = "daemon" => ChronologicalLoad

\* read_last_seq, cleanup: the daemon never numbers two events of a file alike, across cleanups
\* and rotations.
NumbersDistinct == part = "daemon" => EventSeqsDistinct

\* append, cleanup, rotate: whatever fails and whenever maintenance dies, an acknowledged event
\* is lost only by retention or because it was appended in an exposure.
LossIsExplained == part = "faults" => LossExplained

\* verify_report: what an honest collector leaves is admissible, also when it was killed, and
\* what is admissible is the beginning of what one session appended.
AdmissibleMeansHonest ==
    part = "observe" => Ob!HonestAdmissible /\ Ob!AdmissibleIsFaithful

\* A bundle that is admissible and Complete misses no tick and no sample.
CompleteMissesNothing == part = "observe" => Ob!CompleteMissesNothing

\* finalize, AuditHook ("never silent"): a run reported as completed has its last event in the
\* file, and its audit events are lines, counted as lost, or still queued.
CompletedIsAccounted ==
    part = "observe" => Ob!CompletedIsWritten /\ Ob!AuditAccounted

\* oracle evaluate and verify: the exit code says what the property's quantifier says of the
\* records that were read, a satisfied answer about runtime facts names what it skipped, and
\* the evaluators agree wherever more than one of them applies.
OracleAnswersProperty ==
    part = "oracle" => Or!AnswerMeansProperty /\ Or!SkipsAreDisclosed /\ Or!EvaluatorsAgree
=============================================================================
