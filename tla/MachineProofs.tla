---------------------------- MODULE MachineProofs ----------------------------
(***************************************************************************)
(* What an execution guarantees of the machine it looks at and of the      *)
(* processes it starts and stops, for any number of files, executions,     *)
(* commands, threads and process ids.  Looks: a read is of the file that   *)
(* was validated, what ran was assessed, what is reported is what the gate *)
(* goes by, and the two snapshots of a job are two captures.  Processes:   *)
(* calls are answered with the truth and signal their own group only,      *)
(* whatever the commands fork, leave behind or ignore, and although ids    *)
(* are used again.                                                         *)
(***************************************************************************)
EXTENDS Reads, Assess, Config, Snapshots, Processes, TLAPS

-----------------------------------------------------------------------------
(* Reads                                                                   *)

\* The file outside is none of the directory's, and files are told from "none".
ReadsAssumption == Outside \notin Inodes /\ None \notin Files /\ MaxBytes \subseteq Nat

\* The path is resolved inside and the directory is no link, unless it was swapped since.
Inside ==
    /\ rd_pc \in {"is_file", "open"} /\ rd_resolved = "own" /\ rd_dir = "link" => rd_swapped
    /\ rd_pc = "open" => rd_resolved = "own"

RdInv ==
    /\ RdTypeOK /\ rd_max \in Nat /\ rd_data \in Seq(Bytes)
    /\ rd_pc = "read" => rd_inode \in Files
    /\ rd_answer # None => rd_pc = "done"
    /\ Inside /\ ReadsInside /\ TruncatedIsWitness

LEMMA RdInvInit == ReadsAssumption /\ RdInit => RdInv
  <1> SUFFICES ASSUME ReadsAssumption, RdInit
               PROVE  RdInv
    OBVIOUS
  <1>1. <<"text">> \in Seq(Bytes) /\ <<"text", "other">> \in Seq(Bytes)
    BY DEF Bytes
  <1>2. rd_content \in [Files -> Seq(Bytes)]
    BY <1>1 DEF RdInit
  <1>. QED
    BY <1>2 DEF RdInit, RdInv, RdTypeOK, Inside, ReadsInside, TruncatedIsWitness, Files,
                ReadsAssumption

LEMMA RdInvStep == ReadsAssumption /\ RdInv /\ [RdNext]_rdVars => RdInv'
  <1> SUFFICES ASSUME ReadsAssumption, RdInv, [RdNext]_rdVars
               PROVE  RdInv'
    OBVIOUS
  <1> USE DEF ReadsAssumption, RdInv, RdTypeOK, Inside, ReadsInside, Go, treeVars, openVars
  \* Every step but one of other programs leaves the tree alone.
  <1>1. ASSUME NEW max \in MaxBytes, Exists(max) PROVE RdInv'
    BY <1>1 DEF Exists, TruncatedIsWitness
  <1>2. CASE ExistsAgain
    BY <1>2 DEF ExistsAgain, TruncatedIsWitness
  <1>3. CASE Canonicalize
    BY <1>3 DEF Canonicalize, TruncatedIsWitness
  <1>4. CASE Validated
    BY <1>4 DEF Validated, Allowed, TruncatedIsWitness
  <1>5. CASE Open
    BY <1>5 DEF Open, Opened, TruncatedIsWitness, Files
  <1>6. CASE Read
    <2>1. rd_inode \in Files /\ rd_content[rd_inode] \in Seq(Bytes) /\ rd_answer = None
      BY <1>6 DEF Read
    <2>2. rd_data' \in Seq(Bytes)
      <3>1. CASE Len(rd_data) < Len(rd_content[rd_inode])
        <4>1. rd_content[rd_inode][Len(rd_data) + 1] \in Bytes
          BY <2>1, <3>1
        <4>. QED
          BY <1>6, <3>1, <4>1, SMTT(30) DEF Read
      <3>. QED
        BY <1>6, <3>1 DEF Read
    <2>. QED
      BY <1>6, <2>1, <2>2 DEF Read, TruncatedIsWitness
  <1>7. CASE Answer
    <2> DEFINE n == Smaller(Len(rd_data), rd_max)
    <2>1. /\ n \in 0..Len(rd_data) /\ n <= rd_max /\ Len(rd_data) \in Nat
          /\ Len(rd_data) <= rd_max => n = Len(rd_data)
      BY DEF Smaller
    <2>2. Len(SubSeq(rd_data, 1, n)) = n
      BY <2>1
    <2>3. /\ rd_answer'.bytes_read = n /\ rd_answer'.truncated = (Len(rd_data) > rd_max)
          /\ UNCHANGED <<rd_data, rd_max, rd_end>>
          /\ Len(rd_data) = rd_max + 1 \/ rd_end
      BY <1>7, <2>2 DEF Answer, ProbeLimit
    <2>4. rd_answer'.truncated => Len(rd_data) > rd_max
      BY <2>3
    <2>5. ~ rd_answer'.truncated => rd_end /\ n = Len(rd_data)
      <3>1. CASE Len(rd_data) <= rd_max
        BY <2>1, <2>3, <3>1
      <3>2. CASE Len(rd_data) > rd_max
        BY <2>3, <3>2
      <3>. QED
        BY <2>1, <3>1, <3>2
    <2>6. TruncatedIsWitness'
      BY <2>1, <2>3, <2>4, <2>5 DEF TruncatedIsWitness
    <2>. QED
      BY <1>7, <2>6 DEF Answer
  <1>8. CASE ChangeEntry
    BY <1>8 DEF ChangeEntry, Change, TruncatedIsWitness
  <1>9. CASE ChangeContent
    <2>1. rd_content' \in [Files -> Seq(Bytes)]
      <3>1. PICK f \in Files, bytes \in Seq(Bytes) : rd_content' = [rd_content EXCEPT ![f] = bytes]
        <4>1. PICK f \in Files : \/ \E b \in Bytes : rd_content' = [rd_content EXCEPT ![f] = Append(@, b)]
                                 \/ rd_content' = [rd_content EXCEPT ![f] = <<>>]
          BY <1>9 DEF ChangeContent
        <4>2. rd_content[f] \in Seq(Bytes) /\ <<>> \in Seq(Bytes)
          OBVIOUS
        <4>3. \A b \in Bytes : Append(rd_content[f], b) \in Seq(Bytes)
          BY <4>2
        <4>. QED
          BY <4>1, <4>2, <4>3
      <3>. QED
        BY <3>1
    <2>. QED
      BY <1>9, <2>1 DEF ChangeContent, Change, TruncatedIsWitness
  <1>10. CASE SwapDirectory
    BY <1>10 DEF SwapDirectory, Change, TruncatedIsWitness
  <1>11. CASE UNCHANGED rdVars
    BY <1>11 DEF rdVars, TruncatedIsWitness
  <1>. QED
    BY <1>1, <1>2, <1>3, <1>4, <1>5, <1>6, <1>7, <1>8, <1>9, <1>10, <1>11 DEF RdNext

\* A read that succeeds is of the validated file and says whether it is all of it.
THEOREM ReadsTrue == ASSUME ReadsAssumption PROVE RdSpec => [](RdTypeOK /\ ReadIsTrue)
  <1>1. RdInv => RdTypeOK /\ ReadIsTrue
    BY DEF RdInv, ReadIsTrue
  <1>2. RdInit => RdInv
    BY RdInvInit
  <1>3. RdInv /\ [RdNext]_rdVars => RdInv'
    BY RdInvStep
  <1>. QED
    BY <1>1, <1>2, <1>3, PTL DEF RdSpec

-----------------------------------------------------------------------------
(* Assess                                                                  *)

Dals == {"A", "B", "C", "D", "E"}
Policies == {"observe", "enforce"}
VerdictSet == {"proceed", "warn", "escalate", "halt", "exit"}

DispositionSet == {"allow", "allow_with_warning", "escalation_required", "reject", "fatal"}
Names == {"cmd", "cwd", "stdin", "content", "path", "pid", "message", "operation", "url",
          "branch", "files", "commit_sha", "job_id", "file"}
Classes == {"command_control", "payload_prose", "filesystem_locator", "structured_identifier",
            "url_locator"}

Assessment == [kind : {"semantic_one_shot", "resource_only"}, field : Names \cup {"-"},
               class : Classes \cup {"opaque_data"}, dal : Dals, policy : Policies,
               disposition : DispositionSet, severity : Nat]

Entry == [type : {"started"}] \cup [type : {"evaluated"}, a : Assessment]
         \cup [type : {"failed"}, why : DispositionSet \cup {"resources", "analysis", "execution"}]

\* "None" is no assessment.
AssessAssumption == None \notin Assessment /\ ConfChanges \in Nat

AscTypes ==
    /\ asc_pc \in [Execs -> {"start", "policy", "check", "assess", "log", "act", "run", "done",
                             "failed"}]
    /\ asc_cap \in [Execs -> Capabilities]
    /\ \A x \in Execs : asc_args[x] \in [FieldNames(asc_cap[x]) -> ArgValues]
    /\ asc_guard \in [Execs -> [dal : Dals \cup {None}, policy : Policies \cup {None}]]
    /\ asc_next \in [Execs -> Nat] /\ asc_win \in [Execs -> Assessment \cup {None}]
    /\ asc_log \in [Execs -> Seq(Entry)]
    /\ asc_seen \in [Execs -> SUBSET (Names \X VerdictSet)]
    /\ asc_conf \in [dal : Levels, policy : Policies] /\ asc_changes \in 0..ConfChanges

Decided == {"log", "act", "run", "done"}

\* How far an execution is: its guard, the loop, and the length of its log.
Progress(x) ==
    /\ asc_pc[x] # "start" => asc_guard[x].dal \in Dals
    /\ asc_pc[x] \notin {"start", "policy"} => asc_guard[x].policy \in Policies
    /\ asc_pc[x] \in {"start", "policy", "check"} =>
           asc_next[x] = 1 /\ asc_win[x] = None /\ asc_seen[x] = {}
    /\ asc_next[x] \in 1..(Len(FieldsFor(asc_cap[x])) + 1)
    /\ asc_pc[x] \in Decided => asc_next[x] > Len(FieldsFor(asc_cap[x])) /\ asc_win[x] # None
    /\ asc_pc[x] = "start" => Len(asc_log[x]) = 0
    /\ asc_pc[x] \in {"policy", "check", "assess", "log"} => Len(asc_log[x]) <= 1
    /\ asc_pc[x] \in {"act", "run", "done"} => Len(asc_log[x]) <= 2
    /\ Len(asc_log[x]) <= 3

\* Of the fields behind the loop, whatever could be analysed was.
Analysed(x) ==
    \A i \in 1..(asc_next[x] - 1) :
        LET fs == FieldsFor(asc_cap[x])[i]
        IN  fs.eligible /\ asc_args[x][fs.field] = "text" => \E s \in asc_seen[x] : s[1] = fs.field

\* The winning assessment is as severe as any answer, at the level it names.
Wins(x) ==
    LET w == asc_win[x]
    IN  /\ \A s \in asc_seen[x] :
               w # None /\ Severity(Weakened(asc_guard[x].dal, s[2])) <= w.severity
        /\ w # None =>
              /\ w.dal = asc_guard[x].dal
              /\ w.kind = "resource_only" <=> asc_seen[x] = {}
              /\ w.kind = "semantic_one_shot" =>
                    \E v \in VerdictSet : w.disposition = DispositionFor(v) /\ w.severity = Severity(v)
              /\ w.field # "-" => asc_args[x][w.field] # "missing"
        /\ asc_pc[x] = "assess" /\ w # None => w.kind = "semantic_one_shot"

\* What is about to act was recorded and permits it; what ran had text where text must be.
Permitted(x) ==
    /\ asc_pc[x] \in {"act", "run", "done"} => asc_win[x] \in Evaluations(x)
    /\ asc_pc[x] \in {"run", "done"} => PermitsExecution(asc_win[x].disposition)
    /\ asc_pc[x] = "done" =>
          \A i \in DOMAIN FieldsFor(asc_cap[x]) :
              LET fs == FieldsFor(asc_cap[x])[i]
              IN  fs.class = "payload_prose" => asc_args[x][fs.field] # "other"

Assessed(x) == Progress(x) /\ Analysed(x) /\ Wins(x) /\ Permitted(x)

AscInv == AscTypes /\ \A x \in Execs : Assessed(x)

\* The tables: what is semantically eligible is prose, and is given to the sifter.
LEMMA Tables ==
    ASSUME NEW cap \in Capabilities
    PROVE  LET fields == FieldsFor(cap)
           IN  /\ Len(fields) \in 1..7 /\ DOMAIN fields = 1..Len(fields)
               /\ \A i \in 1..Len(fields) :
                     /\ fields[i].field \in Names /\ fields[i].class \in Classes
                     /\ fields[i].class \in SemanticClasses =>
                            fields[i].class = "payload_prose" /\ fields[i].eligible
  <1> DEFINE fields == FieldsFor(cap)
             Row(i) == /\ fields[i].field \in Names /\ fields[i].class \in Classes
                       /\ fields[i].class \in SemanticClasses =>
                              fields[i].class = "payload_prose" /\ fields[i].eligible
  <1> SUFFICES Len(fields) \in 1..7 /\ DOMAIN fields = 1..Len(fields)
               /\ \A i \in 1..Len(fields) : Row(i)
    OBVIOUS
  <1> HIDE DEF fields, Row
  <1>1. CASE cap = "ShellExec"
    <2>1. Len(fields) = 3 /\ DOMAIN fields = 1..3
      BY <1>1 DEF fields, FieldsFor, Field, Locator, Identifier
    <2>2. Row(1) /\ Row(2) /\ Row(3)
      BY <1>1 DEF fields, Row, FieldsFor, Field, Locator, Identifier, SemanticClasses,
           Names, Classes
    <2>. QED
      BY <2>1, <2>2
  <1>2. CASE cap = "FileWrite"
    <2>1. Len(fields) = 2 /\ DOMAIN fields = 1..2
      BY <1>2 DEF fields, FieldsFor, Field, Locator, Identifier
    <2>2. Row(1) /\ Row(2)
      BY <1>2 DEF fields, Row, FieldsFor, Field, Locator, Identifier, SemanticClasses,
           Names, Classes
    <2>. QED
      BY <2>1, <2>2
  <1>3. CASE cap \in {"FileRead", "Delete"}
    <2>1. Len(fields) = 1 /\ DOMAIN fields = 1..1
      BY <1>3 DEF fields, FieldsFor, Field, Locator, Identifier
    <2>2. Row(1)
      BY <1>3 DEF fields, Row, FieldsFor, Field, Locator, Identifier, SemanticClasses,
           Names, Classes
    <2>. QED
      BY <2>1, <2>2
  <1>4. CASE cap = "Kill"
    <2>1. Len(fields) = 1 /\ DOMAIN fields = 1..1
      BY <1>4 DEF fields, FieldsFor, Field, Locator, Identifier
    <2>2. Row(1)
      BY <1>4 DEF fields, Row, FieldsFor, Field, Locator, Identifier, SemanticClasses,
           Names, Classes
    <2>. QED
      BY <2>1, <2>2
  <1>5. CASE cap = "GitExec"
    <2>1. Len(fields) = 7 /\ DOMAIN fields = 1..7
      BY <1>5 DEF fields, FieldsFor, Field, Locator, Identifier
    <2>2. Row(1) /\ Row(2) /\ Row(3) /\ Row(4) /\ Row(5) /\ Row(6) /\ Row(7)
      BY <1>5 DEF fields, Row, FieldsFor, Field, Locator, Identifier, SemanticClasses,
           Names, Classes
    <2>. QED
      BY <2>1, <2>2
  <1>6. CASE cap = "Undo"
    <2>1. Len(fields) = 2 /\ DOMAIN fields = 1..2
      BY <1>6 DEF fields, FieldsFor, Field, Locator, Identifier
    <2>2. Row(1) /\ Row(2)
      BY <1>6 DEF fields, Row, FieldsFor, Field, Locator, Identifier, SemanticClasses,
           Names, Classes
    <2>. QED
      BY <2>1, <2>2
  <1>. QED
    BY <1>1, <1>2, <1>3, <1>4, <1>5, <1>6 DEF Capabilities

LEMMA Ranks ==
    /\ Severity("proceed") = 1 /\ Severity("warn") = 2 /\ Severity("escalate") = 3
    /\ Severity("halt") = 4 /\ Severity("exit") = 5
  BY DEF Severity, Verdicts

LEMMA VerdictsKnown == ToSet(Verdicts) = VerdictSet
  BY DEF ToSet, Verdicts, VerdictSet

LEMMA Weakening ==
    ASSUME NEW level \in Dals, NEW v \in VerdictSet
    PROVE  Weakened(level, v) \in VerdictSet
  BY DEF Weakened, Dals, VerdictSet

LEMMA Dispositions ==
    ASSUME NEW v \in VerdictSet
    PROVE  DispositionFor(v) \in DispositionSet /\ Severity(v) \in 1..5
  BY Ranks DEF DispositionFor, DispositionSet, VerdictSet

\* What permits the effect permits it for every milder verdict.
LEMMA Milder ==
    ASSUME NEW v \in VerdictSet, NEW w \in VerdictSet, Severity(v) <= Severity(w),
           PermitsExecution(DispositionFor(w))
    PROVE  PermitsExecution(DispositionFor(v))
  BY Ranks DEF PermitsExecution, DispositionFor, VerdictSet
-----------------------------------------------------------------------------
(* The steps of an execution                                               *)

\* What nobody touched stays as it was.
LEMMA AssessedFrame ==
    ASSUME NEW x \in Execs, Assessed(x), asc_pc'[x] = asc_pc[x], asc_cap' = asc_cap,
           asc_args' = asc_args, asc_guard'[x] = asc_guard[x], asc_next'[x] = asc_next[x],
           asc_win'[x] = asc_win[x], asc_log'[x] = asc_log[x], asc_seen'[x] = asc_seen[x]
    PROVE  Assessed(x)'
  <1>1. Progress(x)' /\ Analysed(x)'
    BY DEF Assessed, Progress, Analysed
  <1>2. Wins(x)'
    BY DEF Assessed, Wins
  <1>3. Permitted(x)'
    BY DEF Assessed, Permitted, Evaluations
  <1>. QED
    BY <1>1, <1>2, <1>3 DEF Assessed

\* An entry that is added: the log is longer by one and names it besides what it named.
LEMMA Logging ==
    ASSUME AscTypes, NEW x \in Execs, NEW entry \in Entry, Logged(x, entry)
    PROVE  /\ asc_log' \in [Execs -> Seq(Entry)]
           /\ Len(asc_log'[x]) = Len(asc_log[x]) + 1
           /\ Evaluations(x) \subseteq Evaluations(x)'
           /\ entry.type = "evaluated" => entry.a \in Evaluations(x)'
           /\ \A y \in Execs \ {x} : asc_log'[y] = asc_log[y]
  <1>1. asc_log[x] \in Seq(Entry)
    BY DEF AscTypes
  <1> DEFINE longer == Append(asc_log[x], entry)
  <1>2. /\ longer \in Seq(Entry) /\ Len(longer) = Len(asc_log[x]) + 1
        /\ DOMAIN longer = 1..(Len(asc_log[x]) + 1) /\ DOMAIN asc_log[x] = 1..Len(asc_log[x])
        /\ longer[Len(asc_log[x]) + 1] = entry /\ Len(asc_log[x]) \in Nat
        /\ \A i \in 1..Len(asc_log[x]) : longer[i] = asc_log[x][i]
    BY <1>1
  <1> HIDE DEF longer
  <1>3. asc_log' = [asc_log EXCEPT ![x] = longer]
    BY DEF Logged, longer
  <1>4. /\ asc_log' \in [Execs -> Seq(Entry)] /\ asc_log'[x] = longer
        /\ \A y \in Execs \ {x} : asc_log'[y] = asc_log[y]
    BY <1>2, <1>3 DEF AscTypes
  <1>5. Evaluations(x)' = {longer[i].a : i \in {j \in DOMAIN longer : longer[j].type = "evaluated"}}
    BY <1>4 DEF Evaluations
  <1>6. Evaluations(x) \subseteq Evaluations(x)'
    <2> SUFFICES ASSUME NEW j \in DOMAIN asc_log[x], asc_log[x][j].type = "evaluated"
                 PROVE  asc_log[x][j].a \in Evaluations(x)'
      BY DEF Evaluations
    <2>1. j \in DOMAIN longer /\ longer[j] = asc_log[x][j]
      BY <1>2
    <2>. QED
      BY <2>1, <1>5
  <1>7. entry.type = "evaluated" => entry.a \in Evaluations(x)'
    BY <1>2, <1>5
  <1>. QED
    BY <1>2, <1>4, <1>6, <1>7

\* What a refusal says is one entry at most.
LEMMA Refusing ==
    ASSUME AscTypes, NEW x \in Execs, Refused(x, "resources") \/ Refused(x, "analysis")
               \/ Refused(x, "execution") \/ \E d \in DispositionSet : Refused(x, d)
    PROVE  /\ asc_log' \in [Execs -> Seq(Entry)] /\ asc_pc' = [asc_pc EXCEPT ![x] = "failed"]
           /\ Len(asc_log'[x]) <= Len(asc_log[x]) + 1
           /\ \A y \in Execs \ {x} : asc_log'[y] = asc_log[y]
  <1>1. PICK why \in DispositionSet \cup {"resources", "analysis", "execution"} : Refused(x, why)
    OBVIOUS
  <1>2. CASE Logged(x, [type |-> "failed", why |-> why])
    <2>1. [type |-> "failed", why |-> why] \in Entry
      BY DEF Entry
    <2>. QED
      BY <1>1, <1>2, <2>1, Logging DEF Refused, Step, AscTypes
  <1>3. CASE UNCHANGED asc_log
    <2>1. Len(asc_log[x]) \in Nat
      BY DEF AscTypes
    <2>. QED
      BY <1>1, <1>3, <2>1 DEF Refused, Step, AscTypes
  <1>. QED
    BY <1>1, <1>2, <1>3 DEF Refused
\* A step of one execution is judged by what becomes of that one.
LEMMA OthersKeep ==
    ASSUME AscInv, NEW x \in Execs, AscTypes', Assessed(x)', asc_cap' = asc_cap,
           asc_args' = asc_args,
           \A y \in Execs \ {x} :
               /\ asc_pc'[y] = asc_pc[y] /\ asc_guard'[y] = asc_guard[y]
               /\ asc_next'[y] = asc_next[y] /\ asc_win'[y] = asc_win[y]
               /\ asc_log'[y] = asc_log[y] /\ asc_seen'[y] = asc_seen[y]
    PROVE  AscInv'
  <1> SUFFICES ASSUME NEW y \in Execs, y # x
               PROVE  Assessed(y)'
    BY DEF AscInv
  <1>. QED
    BY AssessedFrame DEF AscInv

LEMMA AscInvInit == AssessAssumption /\ AscInit => AscInv
  <1> SUFFICES ASSUME AssessAssumption, AscInit
               PROVE  AscInv
    OBVIOUS
  <1>1. AscTypes
    <2>1. \A x \in Execs : asc_args[x] \in [FieldNames(asc_cap[x]) -> ArgValues]
      <3> SUFFICES ASSUME NEW x \in Execs
                   PROVE  asc_args[x] \in [FieldNames(asc_cap[x]) -> ArgValues]
        OBVIOUS
      <3>1. /\ asc_args \in [Execs -> UNION {[FieldNames(c) -> ArgValues] : c \in Capabilities}]
            /\ DOMAIN asc_args[x] = FieldNames(asc_cap[x])
        BY DEF AscInit
      <3>2. PICK c \in Capabilities : asc_args[x] \in [FieldNames(c) -> ArgValues]
        BY <3>1
      <3>. QED
        BY <3>1, <3>2
    <2>2. asc_log \in [Execs -> Seq(Entry)]
      BY DEF AscInit
    <2>. QED
      BY <2>1, <2>2 DEF AscInit, AscTypes, Policies, AssessAssumption
  <1>2. ASSUME NEW x \in Execs PROVE Assessed(x)
    <2>1. Len(FieldsFor(asc_cap[x])) \in 1..7
      BY <1>1, Tables DEF AscTypes
    <2>2. /\ asc_pc[x] = "start" /\ asc_next[x] = 1 /\ asc_win[x] = None /\ asc_seen[x] = {}
          /\ Len(asc_log[x]) = 0
      BY DEF AscInit
    <2>. QED
      BY <2>1, <2>2 DEF Assessed, Progress, Analysed, Wins, Permitted, Decided
  <1>. QED
    BY <1>1, <1>2 DEF AscInv

LEMMA BeginKeeps ==
    ASSUME AssessAssumption, AscInv, NEW x \in Execs, ReadDal(x) \/ ReadPolicy(x)
    PROVE  AscInv'
  <1> USE DEF AscInv
  <1>1. CASE ReadDal(x)
    <2>1. [type |-> "started"] \in Entry
      BY DEF Entry
    <2>2. /\ asc_log' \in [Execs -> Seq(Entry)] /\ Len(asc_log'[x]) = Len(asc_log[x]) + 1
          /\ \A y \in Execs \ {x} : asc_log'[y] = asc_log[y]
      BY <1>1, <2>1, Logging DEF ReadDal
    <2>3. DalFromStr(asc_conf.dal) \in Dals
      BY DEF DalFromStr, Dals
    <2>4. AscTypes'
      BY <1>1, <2>2, <2>3 DEF ReadDal, Step, AscTypes
    <2>5. /\ asc_pc'[x] = "policy" /\ asc_guard'[x].dal \in Dals
          /\ asc_next'[x] = 1 /\ asc_win'[x] = None /\ asc_seen'[x] = {}
      BY <1>1, <2>3 DEF ReadDal, Step, AscTypes, Assessed, Progress
    <2>6. Len(FieldsFor(asc_cap[x])) \in 1..7
      BY Tables DEF AscTypes
    <2>7. Len(asc_log[x]) = 0
      BY <1>1 DEF ReadDal, AscTypes, Assessed, Progress
    <2>8. Assessed(x)'
      BY <1>1, <2>2, <2>5, <2>6, <2>7 DEF ReadDal, Assessed, Progress, Analysed, Wins, Permitted, Decided
    <2>. QED
      BY <1>1, <2>2, <2>4, <2>8, OthersKeep DEF ReadDal, Step, AscTypes
  <1>2. CASE ReadPolicy(x)
    <2>1. AscTypes'
      BY <1>2 DEF ReadPolicy, Step, AscTypes
    <2>2. /\ asc_pc'[x] = "check" /\ asc_guard'[x].dal \in Dals /\ asc_guard'[x].policy \in Policies
      BY <1>2 DEF ReadPolicy, Step, AscTypes, Assessed, Progress
    <2>3. Assessed(x)'
      BY <1>2, <2>2 DEF ReadPolicy, Assessed, Progress, Analysed, Wins, Permitted, Decided
    <2>. QED
      BY <1>2, <2>1, <2>3, OthersKeep DEF ReadPolicy, Step, AscTypes
  <1>. QED
    BY <1>1, <1>2

LEMMA CheckKeeps ==
    ASSUME AssessAssumption, AscInv, NEW x \in Execs, Check(x)
    PROVE  AscInv'
  <1> USE DEF AscInv
  <1>1. CASE Step(x, "assess") /\ UNCHANGED asc_log
    <2>1. AscTypes'
      BY <1>1 DEF Check, Step, AscTypes
    <2>2. asc_pc'[x] = "assess"
      BY <1>1 DEF Check, Step, AscTypes
    <2>3. Assessed(x)'
      BY <1>1, <2>2 DEF Check, Assessed, Progress, Analysed, Wins, Permitted, Decided
    <2>. QED
      BY <1>1, <2>1, <2>3, OthersKeep DEF Check, Step, AscTypes
  <1>2. CASE Refused(x, "resources")
    <2>1. /\ asc_log' \in [Execs -> Seq(Entry)] /\ asc_pc' = [asc_pc EXCEPT ![x] = "failed"]
          /\ Len(asc_log'[x]) <= Len(asc_log[x]) + 1
          /\ \A y \in Execs \ {x} : asc_log'[y] = asc_log[y]
      BY <1>2, Refusing
    <2>2. AscTypes'
      BY <2>1 DEF Check, AscTypes
    <2>3. asc_pc'[x] = "failed" /\ Len(asc_log[x]) <= 1 /\ Len(asc_log[x]) \in Nat
          /\ Len(asc_log'[x]) \in Nat
      BY <2>1 DEF Check, AscTypes, Assessed, Progress
    <2>4. Assessed(x)'
      BY <2>1, <2>3 DEF Check, Assessed, Progress, Analysed, Wins, Permitted, Decided
    <2>. QED
      BY <2>1, <2>2, <2>4, OthersKeep DEF Check, AscTypes
  <1>. QED
    BY <1>1, <1>2 DEF Check

\* Of a few positions one is the first.
LEMMA FirstPosition ==
    ASSUME NEW S \in SUBSET (1..7), S # {}
    PROVE  \E i \in S : \A k \in S : i <= k
  <1> SUFFICES ASSUME \A i \in S : \E k \in S : k < i
               PROVE  FALSE
    OBVIOUS
  <1>1. 1 \notin S
    OBVIOUS
  <1>2. 2 \notin S
    BY <1>1
  <1>3. 3 \notin S
    BY <1>1, <1>2
  <1>4. 4 \notin S
    BY <1>1, <1>2, <1>3
  <1>5. 5 \notin S
    BY <1>1, <1>2, <1>3, <1>4
  <1>6. 6 \notin S
    BY <1>1, <1>2, <1>3, <1>4, <1>5
  <1>7. 7 \notin S
    BY <1>1, <1>2, <1>3, <1>4, <1>5, <1>6
  <1>8. PICK i \in S : i \in 1..7
    OBVIOUS
  <1>. QED
    BY <1>1, <1>2, <1>3, <1>4, <1>5, <1>6, <1>7, <1>8

LEMMA ConcludeKeeps ==
    ASSUME AssessAssumption, AscInv, NEW x \in Execs, Conclude(x)
    PROVE  AscInv'
  <1> USE DEF AscInv
  <1> DEFINE fields == FieldsFor(asc_cap[x])
             there == {i \in DOMAIN fields : asc_args[x][fields[i].field] # "missing"}
             first == CHOOSE i \in there : \A k \in there : i <= k
  <1>1. /\ asc_pc' = [asc_pc EXCEPT ![x] = "log"] /\ asc_pc'[x] = "log"
        /\ asc_next[x] > Len(fields) /\ asc_pc[x] = "assess"
        /\ asc_guard[x].dal \in Dals /\ asc_guard[x].policy \in Policies
    BY DEF Conclude, Step, AscTypes, Assessed, Progress
  <1>2. CASE asc_win[x] # None
    <2>1. asc_win' = asc_win
      BY <1>2 DEF Conclude, AscTypes
    <2>2. AscTypes'
      BY <1>1, <2>1 DEF Conclude, AscTypes
    <2>3. Assessed(x)'
      BY <1>1, <1>2, <2>1 DEF Conclude, Assessed, Progress, Analysed, Wins, Permitted, Decided
    <2>. QED
      BY <1>1, <2>1, <2>2, <2>3, OthersKeep DEF Conclude, AscTypes
  <1>3. CASE asc_win[x] = None
    <2> DEFINE w == Unassessed(x)
    <2>1. /\ w \in Assessment /\ w.kind = "resource_only" /\ w.dal = asc_guard[x].dal
          /\ w.field # "-" => asc_args[x][w.field] # "missing"
      <3>1. CASE there = {}
        <4>1. w = ResourceOnly(x, "-", "opaque_data")
          BY <3>1 DEF Unassessed
        <4>. QED
          BY <1>1, <4>1 DEF ResourceOnly, Assessment, DispositionSet
      <3>2. CASE there # {}
        <4>1. first \in there
          <5>1. Len(fields) \in 1..7 /\ DOMAIN fields = 1..Len(fields)
            BY Tables DEF AscTypes
          <5>2. there \subseteq 1..7
            BY <5>1
          <5> HIDE DEF there
          <5>3. \E i \in there : \A k \in there : i <= k
            BY <3>2, <5>2, FirstPosition
          <5>. QED
            BY <5>3
        <4>2. w = ResourceOnly(x, fields[first].field, fields[first].class)
          BY <3>2 DEF Unassessed
        <4>3. /\ fields[first].field \in Names /\ fields[first].class \in Classes
              /\ asc_args[x][fields[first].field] # "missing"
          <5>1. first \in DOMAIN fields
            BY <4>1
          <5>2. fields[first].field \in Names /\ fields[first].class \in Classes
            BY <5>1, Tables DEF AscTypes
          <5>3. asc_args[x][fields[first].field] # "missing"
            BY <4>1
          <5>. QED
            BY <5>2, <5>3
        <4> HIDE DEF fields, first, w
        <4>4. /\ w.kind = "resource_only" /\ w.dal = asc_guard[x].dal
              /\ w.field = fields[first].field
          BY <4>2 DEF ResourceOnly
        <4>5. w \in Assessment
          BY <1>1, <4>2, <4>3 DEF ResourceOnly, Assessment, DispositionSet
        <4>. QED
          BY <4>3, <4>4, <4>5
      <3>. QED
        BY <3>1, <3>2
    <2> HIDE DEF w
    <2>2. asc_win' = [asc_win EXCEPT ![x] = w] /\ asc_win'[x] = w /\ w # None
      BY <1>3, <2>1 DEF Conclude, w, AscTypes, AssessAssumption
    <2>3. AscTypes'
      BY <1>1, <2>1, <2>2 DEF Conclude, AscTypes
    <2>4. asc_seen[x] = {}
      BY <1>3 DEF Assessed, Wins
    <2>5. Wins(x)'
      BY <1>1, <2>1, <2>2, <2>4 DEF Conclude, Wins
    <2>6. Progress(x)' /\ Analysed(x)' /\ Permitted(x)'
      BY <1>1, <2>2 DEF Conclude, Assessed, Progress, Analysed, Permitted, Decided
    <2>. QED
      BY <1>1, <2>2, <2>3, <2>5, <2>6, OthersKeep DEF Conclude, AscTypes, Assessed
  <1>. QED
    BY <1>2, <1>3
\* One turn of the loop.
LEMMA AssessKeeps ==
    ASSUME AssessAssumption, AscInv, NEW x \in Execs, AssessField(x)
    PROVE  AscInv'
  <1> USE DEF AscInv
  <1> DEFINE fs == FieldsFor(asc_cap[x])[asc_next[x]]
             n == Len(FieldsFor(asc_cap[x]))
  <1>1. /\ asc_pc[x] = "assess" /\ asc_next[x] \in 1..n /\ n \in 1..7
        /\ asc_guard[x].dal \in Dals /\ asc_guard[x].policy \in Policies
        /\ fs.field \in Names /\ fs.class \in Classes
        /\ UNCHANGED <<asc_cap, asc_args, asc_guard, asc_conf, asc_changes>>
    BY Tables DEF AssessField, AscTypes, Assessed, Progress
  <1> HIDE DEF n
  <1>2. CASE /\ asc_args[x][fs.field] # "text" \/ ~fs.eligible
             /\ asc_next' = [asc_next EXCEPT ![x] = @ + 1]
             /\ UNCHANGED <<asc_pc, asc_win, asc_log, asc_seen>>
    <2>1. /\ asc_next'[x] = asc_next[x] + 1 /\ asc_next' \in [Execs -> Nat]
          /\ \A y \in Execs \ {x} : asc_next'[y] = asc_next[y]
      BY <1>2 DEF AscTypes
    <2>2. AscTypes'
      BY <1>1, <1>2, <2>1 DEF AscTypes
    <2>3. Analysed(x)'
      <3> SUFFICES ASSUME NEW i \in 1..asc_next[x], FieldsFor(asc_cap[x])[i].eligible,
                          asc_args[x][FieldsFor(asc_cap[x])[i].field] = "text"
                   PROVE  \E s \in asc_seen[x] : s[1] = FieldsFor(asc_cap[x])[i].field
        BY <1>1, <1>2, <2>1 DEF Analysed
      <3>1. i # asc_next[x]
        BY <1>2
      <3>2. i \in 1..(asc_next[x] - 1)
        BY <1>1, <3>1
      <3>. QED
        BY <3>2 DEF Assessed, Analysed
    <2>4. Progress(x)' /\ Wins(x)' /\ Permitted(x)'
      BY <1>1, <1>2, <2>1 DEF Assessed, Progress, Wins, Permitted, Decided, n
    <2>. QED
      BY <1>1, <1>2, <2>1, <2>2, <2>3, <2>4, OthersKeep DEF Assessed
  <1>3. ASSUME asc_args[x][fs.field] = "text", fs.eligible, NEW v \in VerdictSet,
               LET a == Semantic(x, fs, Weakened(asc_guard[x].dal, v))
               IN  /\ asc_win' = [asc_win EXCEPT ![x] = Winning(@, a)]
                   /\ asc_seen' = [asc_seen EXCEPT ![x] = @ \cup {<<fs.field, v>>}],
               asc_next' = [asc_next EXCEPT ![x] = @ + 1],
               UNCHANGED <<asc_pc, asc_log>>
        PROVE  AscInv'
    <2> DEFINE u == Weakened(asc_guard[x].dal, v)
               a == Semantic(x, fs, u)
               w == Winning(asc_win[x], a)
    <2>1. u \in VerdictSet /\ DispositionFor(u) \in DispositionSet /\ Severity(u) \in 1..5
      BY <1>1, Weakening, Dispositions
    <2> HIDE DEF u, fs
    <2>2. /\ a \in Assessment /\ a.severity = Severity(u) /\ a.disposition = DispositionFor(u)
          /\ a.dal = asc_guard[x].dal /\ a.field = fs.field /\ a.kind = "semantic_one_shot"
      BY <1>1, <2>1 DEF Semantic, Assessment
    <2> HIDE DEF a
    <2>3. /\ asc_next'[x] = asc_next[x] + 1 /\ asc_next' \in [Execs -> Nat]
          /\ \A y \in Execs \ {x} : asc_next'[y] = asc_next[y]
      BY <1>3 DEF AscTypes
    <2>4. /\ asc_seen'[x] = asc_seen[x] \cup {<<fs.field, v>>}
          /\ asc_seen' \in [Execs -> SUBSET (Names \X VerdictSet)]
          /\ \A y \in Execs \ {x} : asc_seen'[y] = asc_seen[y]
      BY <1>1, <1>3 DEF AscTypes
    <2>5. /\ w \in Assessment /\ w # None /\ w \in {asc_win[x], a}
          /\ w.severity >= Severity(u)
          /\ asc_win[x] # None => w.severity >= asc_win[x].severity
      <3>1. asc_win[x] \in Assessment \cup {None}
        BY DEF AscTypes
      <3>2. a.severity \in Nat /\ \A b \in Assessment : b.severity \in Nat
        BY <2>2 DEF Assessment
      <3>3. CASE asc_win[x] = None \/ a.severity > asc_win[x].severity
        BY <2>2, <3>1, <3>2, <3>3 DEF Winning, AssessAssumption
      <3>4. CASE asc_win[x] # None /\ ~(a.severity > asc_win[x].severity)
        BY <2>2, <3>1, <3>2, <3>4 DEF Winning, AssessAssumption
      <3>. QED
        BY <3>3, <3>4
    <2>6. /\ asc_win' = [asc_win EXCEPT ![x] = w] /\ asc_win'[x] = w
          /\ \A y \in Execs \ {x} : asc_win'[y] = asc_win[y]
      BY <1>3 DEF AscTypes, a, u
    <2> HIDE DEF w
    <2>7. AscTypes'
      BY <1>1, <1>3, <2>3, <2>4, <2>5, <2>6 DEF AscTypes
    <2>8. Progress(x)' /\ Permitted(x)'
      BY <1>1, <1>3, <2>3, <2>6 DEF Assessed, Progress, Permitted, Decided, n
    <2>9. Analysed(x)'
      <3> SUFFICES ASSUME NEW i \in 1..asc_next[x], FieldsFor(asc_cap[x])[i].eligible,
                          asc_args[x][FieldsFor(asc_cap[x])[i].field] = "text"
                   PROVE  \E s \in asc_seen'[x] : s[1] = FieldsFor(asc_cap[x])[i].field
        BY <1>1, <2>3 DEF Analysed
      <3>1. CASE i = asc_next[x]
        <4>1. <<fs.field, v>> \in asc_seen'[x] /\ <<fs.field, v>>[1] = fs.field
          BY <2>4
        <4>. QED
          BY <4>1, <3>1 DEF fs
      <3>2. CASE i # asc_next[x]
        <4>1. i \in 1..(asc_next[x] - 1)
          BY <1>1, <3>2
        <4>. QED
          BY <2>4, <4>1 DEF Assessed, Analysed
      <3>. QED
        BY <3>1, <3>2
    <2>10. Wins(x)'
      <3>1. w.kind = "semantic_one_shot" /\ w.dal = asc_guard[x].dal
        BY <1>1, <2>2, <2>5 DEF Assessed, Wins
      <3>2. \E t \in VerdictSet : w.disposition = DispositionFor(t) /\ w.severity = Severity(t)
        <4>1. CASE w = a
          BY <2>1, <2>2, <4>1
        <4>2. CASE w = asc_win[x]
          BY <1>1, <2>5, <3>1, <4>2 DEF Assessed, Wins
        <4>. QED
          BY <2>5, <4>1, <4>2
      <3>3. w.field # "-" => asc_args[x][w.field] # "missing"
        <4>1. CASE w = a
          BY <1>3, <2>2, <4>1 DEF fs
        <4>2. CASE w = asc_win[x]
          <5>1. asc_win[x].field # "-" => asc_args[x][asc_win[x].field] # "missing"
            BY <2>5, <4>2 DEF Assessed, Wins
          <5>. QED
            BY <5>1, <4>2
        <4>. QED
          BY <2>5, <4>1, <4>2
      <3>4. ASSUME NEW s \in asc_seen'[x]
            PROVE  Severity(Weakened(asc_guard[x].dal, s[2])) <= w.severity
        <4>1. CASE s = <<fs.field, v>>
          <5>1. s[2] = v
            BY <4>1
          <5>. QED
            BY <2>1, <2>5, <5>1 DEF u, Assessment
        <4>2. CASE s \in asc_seen[x]
          <5>1. asc_win[x] # None /\ Severity(Weakened(asc_guard[x].dal, s[2])) <= asc_win[x].severity
            BY <4>2 DEF Assessed, Wins
          <5>2. s[2] \in VerdictSet
            BY <4>2 DEF AscTypes
          <5>3. Severity(Weakened(asc_guard[x].dal, s[2])) \in 1..5
            BY <1>1, <5>2, Weakening, Dispositions
          <5>4. asc_win[x].severity \in Nat /\ w.severity \in Nat
            BY <2>5, <5>1 DEF AscTypes, Assessment
          <5>. QED
            BY <2>5, <5>1, <5>3, <5>4
        <4>. QED
          BY <2>4, <4>1, <4>2
      <3>. QED
        BY <1>1, <2>4, <2>5, <2>6, <3>1, <3>2, <3>3, <3>4 DEF Wins
    <2>. QED
      BY <1>1, <1>3, <2>3, <2>4, <2>6, <2>7, <2>8, <2>9, <2>10, OthersKeep DEF Assessed
  <1>4. CASE Refused(x, "analysis") /\ UNCHANGED <<asc_next, asc_win, asc_seen>>
    <2>1. /\ asc_log' \in [Execs -> Seq(Entry)] /\ asc_pc' = [asc_pc EXCEPT ![x] = "failed"]
          /\ Len(asc_log'[x]) <= Len(asc_log[x]) + 1
          /\ \A y \in Execs \ {x} : asc_log'[y] = asc_log[y]
      BY <1>4, Refusing
    <2>2. AscTypes'
      BY <1>1, <1>4, <2>1 DEF AscTypes
    <2>3. asc_pc'[x] = "failed" /\ Len(asc_log[x]) <= 1 /\ Len(asc_log[x]) \in Nat
          /\ Len(asc_log'[x]) \in Nat
      BY <1>1, <2>1 DEF AscTypes, Assessed, Progress
    <2>4. Assessed(x)'
      BY <1>1, <1>4, <2>1, <2>3 DEF Assessed, Progress, Analysed, Wins, Permitted, Decided
    <2>. QED
      BY <1>1, <1>4, <2>1, <2>2, <2>4, OthersKeep DEF AscTypes
  <1>. QED
    BY <1>2, <1>3, <1>4, VerdictsKnown DEF AssessField

LEMMA RecordKeeps ==
    ASSUME AssessAssumption, AscInv, NEW x \in Execs, LogAssessment(x)
    PROVE  AscInv'
  <1> USE DEF AscInv
  <1>1. /\ asc_pc[x] = "log" /\ asc_win[x] # None /\ asc_win[x] \in Assessment
        /\ Len(asc_log[x]) <= 1 /\ Len(asc_log[x]) \in Nat
        /\ UNCHANGED <<asc_cap, asc_args, asc_guard, asc_next, asc_win, asc_conf, asc_changes, asc_seen>>
    BY DEF LogAssessment, AscTypes, Assessed, Progress, Decided
  <1>2. CASE Step(x, "act") /\ Logged(x, [type |-> "evaluated", a |-> asc_win[x]])
    <2> DEFINE entry == [type |-> "evaluated", a |-> asc_win[x]]
    <2>1. entry \in Entry /\ entry.type = "evaluated" /\ entry.a = asc_win[x]
      BY <1>1 DEF Entry
    <2>2. Logged(x, entry)
      BY <1>2
    <2> HIDE DEF entry
    <2>3. /\ asc_log' \in [Execs -> Seq(Entry)] /\ Len(asc_log'[x]) = Len(asc_log[x]) + 1
          /\ asc_win[x] \in Evaluations(x)'
          /\ \A y \in Execs \ {x} : asc_log'[y] = asc_log[y]
      BY <2>1, <2>2, Logging
    <2>4. AscTypes'
      BY <1>1, <1>2, <2>3 DEF Step, AscTypes
    <2>5. asc_pc'[x] = "act"
      BY <1>2 DEF Step, AscTypes
    <2>6. Assessed(x)'
      <3>1. Progress(x)'
        BY <1>1, <2>3, <2>5 DEF Assessed, Progress, Decided
      <3>2. Analysed(x)' /\ Wins(x)'
        BY <1>1, <2>5 DEF Assessed, Analysed, Wins
      <3>3. Permitted(x)'
        BY <1>1, <2>3, <2>5 DEF Permitted
      <3>. QED
        BY <3>1, <3>2, <3>3 DEF Assessed
    <2>. QED
      BY <1>1, <1>2, <2>3, <2>4, <2>6, OthersKeep DEF Step, AscTypes
  <1>3. CASE Step(x, "failed") /\ UNCHANGED asc_log
    <2>1. AscTypes'
      BY <1>1, <1>3 DEF Step, AscTypes
    <2>2. asc_pc'[x] = "failed"
      BY <1>3 DEF Step, AscTypes
    <2>3. Assessed(x)'
      BY <1>1, <1>3, <2>2 DEF Assessed, Progress, Analysed, Wins, Permitted, Decided
    <2>. QED
      BY <1>1, <1>3, <2>1, <2>3, OthersKeep DEF Step, AscTypes
  <1>. QED
    BY <1>2, <1>3 DEF LogAssessment

LEMMA ActKeeps ==
    ASSUME AssessAssumption, AscInv, NEW x \in Execs, Act(x) \/ Run(x)
    PROVE  AscInv'
  <1> USE DEF AscInv
  <1>1. /\ asc_pc[x] \in {"act", "run"} /\ asc_win[x] # None /\ asc_win[x] \in Assessment
        /\ Len(asc_log[x]) <= 2 /\ Len(asc_log[x]) \in Nat
        /\ UNCHANGED <<asc_cap, asc_args, asc_guard, asc_next, asc_win, asc_conf, asc_changes, asc_seen>>
    BY DEF Act, Run, AscTypes, Assessed, Progress, Decided
  <1>2. CASE Refused(x, "execution") \/ Refused(x, asc_win[x].disposition)
    <2>1. asc_win[x].disposition \in DispositionSet
      BY <1>1 DEF Assessment
    <2>2. /\ asc_log' \in [Execs -> Seq(Entry)] /\ asc_pc' = [asc_pc EXCEPT ![x] = "failed"]
          /\ Len(asc_log'[x]) <= Len(asc_log[x]) + 1
          /\ \A y \in Execs \ {x} : asc_log'[y] = asc_log[y]
      BY <1>2, <2>1, Refusing
    <2>3. AscTypes'
      BY <1>1, <2>2 DEF AscTypes
    <2>4. asc_pc'[x] = "failed" /\ Len(asc_log'[x]) \in Nat
      BY <2>2 DEF AscTypes
    <2>5. Assessed(x)'
      <3>1. Progress(x)'
        BY <1>1, <2>2, <2>4 DEF Assessed, Progress, Decided
      <3>2. Analysed(x)' /\ Wins(x)'
        BY <1>1, <2>4 DEF Assessed, Analysed, Wins
      <3>3. Permitted(x)'
        BY <2>4 DEF Permitted
      <3>. QED
        BY <3>1, <3>2, <3>3 DEF Assessed
    <2>. QED
      BY <1>1, <2>2, <2>3, <2>5, OthersKeep DEF AscTypes
  <1>3. CASE /\ asc_pc[x] = "act" /\ PermitsExecution(asc_win[x].disposition)
             /\ Step(x, "run") /\ UNCHANGED asc_log
    <2>1. AscTypes' /\ asc_pc'[x] = "run"
      BY <1>1, <1>3 DEF Step, AscTypes
    <2>2. Permitted(x)'
      BY <1>1, <1>3, <2>1 DEF Assessed, Permitted, Evaluations
    <2>3. Assessed(x)'
      BY <1>1, <1>3, <2>1, <2>2 DEF Assessed, Progress, Analysed, Wins, Decided
    <2>. QED
      BY <1>1, <1>3, <2>1, <2>3, OthersKeep DEF Step, AscTypes
  <1>4. CASE /\ asc_pc[x] = "run" /\ Step(x, "done") /\ UNCHANGED asc_log
             /\ ~ \E i \in DOMAIN FieldsFor(asc_cap[x]) :
                     LET fs == FieldsFor(asc_cap[x])[i]
                     IN  fs.class = "payload_prose" /\ asc_args[x][fs.field] = "other"
    <2>1. AscTypes' /\ asc_pc'[x] = "done"
      BY <1>1, <1>4 DEF Step, AscTypes
    <2>2. Permitted(x)'
      BY <1>1, <1>4, <2>1 DEF Assessed, Permitted, Evaluations
    <2>3. Assessed(x)'
      BY <1>1, <1>4, <2>1, <2>2 DEF Assessed, Progress, Analysed, Wins, Decided
    <2>. QED
      BY <1>1, <1>4, <2>1, <2>3, OthersKeep DEF Step, AscTypes
  <1>. QED
    BY <1>2, <1>3, <1>4 DEF Act, Run

LEMMA AscInvStep == AssessAssumption /\ AscInv /\ [AscNext]_ascVars => AscInv'
  <1> SUFFICES ASSUME AssessAssumption, AscInv, [AscNext]_ascVars
               PROVE  AscInv'
    OBVIOUS
  <1>1. CASE Configure
    <2>1. AscTypes'
      BY <1>1 DEF Configure, AscInv, AscTypes, AssessAssumption, Policies
    <2>. QED
      BY <1>1, <2>1, AssessedFrame DEF Configure, AscInv
  <1>2. CASE UNCHANGED ascVars
    <2>1. AscTypes'
      BY <1>2 DEF ascVars, AscInv, AscTypes
    <2>. QED
      BY <1>2, <2>1, AssessedFrame DEF ascVars, AscInv
  <1>. QED
    BY <1>1, <1>2, BeginKeeps, CheckKeeps, AssessKeeps, ConcludeKeeps, RecordKeeps, ActKeeps DEF AscNext

LEMMA InvDoneWasAssessed == AscInv => DoneWasAssessed
  <1> SUFFICES ASSUME AscInv, NEW x \in Execs, asc_pc[x] = "done"
               PROVE  \E a \in Evaluations(x) :
                         /\ \A i \in DOMAIN FieldsFor(asc_cap[x]) :
                              LET fs == FieldsFor(asc_cap[x])[i]
                              IN  fs.class \in SemanticClasses /\ asc_args[x][fs.field] # "missing"
                                    => \E s \in asc_seen[x] : s[1] = fs.field
                         /\ \A s \in asc_seen[x] : PermitsExecution(DispositionFor(Weakened(a.dal, s[2])))
                         /\ a.kind = "resource_only" <=> asc_seen[x] = {}
                         /\ a.field # "-" => asc_args[x][a.field] # "missing"
    BY DEF DoneWasAssessed
  <1> DEFINE w == asc_win[x]
             n == Len(FieldsFor(asc_cap[x]))
  <1>1. /\ w \in Evaluations(x) /\ PermitsExecution(w.disposition) /\ w # None
        /\ w \in Assessment /\ w.dal = asc_guard[x].dal /\ asc_guard[x].dal \in Dals
        /\ asc_next[x] > n /\ asc_next[x] \in Nat /\ n \in 1..7
        /\ DOMAIN FieldsFor(asc_cap[x]) = 1..n
    BY Tables DEF AscInv, AscTypes, Assessed, Progress, Wins, Permitted, Decided
  <1>2. ASSUME NEW i \in 1..n, FieldsFor(asc_cap[x])[i].class \in SemanticClasses,
               asc_args[x][FieldsFor(asc_cap[x])[i].field] # "missing"
        PROVE  \E s \in asc_seen[x] : s[1] = FieldsFor(asc_cap[x])[i].field
    <2> DEFINE fs == FieldsFor(asc_cap[x])[i]
    <2>1. fs.class = "payload_prose" /\ fs.eligible
      BY <1>2, Tables DEF AscInv, AscTypes
    <2>2. asc_args[x][fs.field] # "other"
      BY <1>1, <2>1 DEF AscInv, Assessed, Permitted
    <2>3. asc_args[x][fs.field] = "text"
      <3>1. fs.field \in FieldNames(asc_cap[x])
        BY <1>1 DEF FieldNames
      <3>. QED
        BY <1>2, <2>2, <3>1 DEF AscInv, AscTypes, ArgValues
    <2>4. i \in 1..(asc_next[x] - 1)
      BY <1>1
    <2>. QED
      BY <2>1, <2>3, <2>4 DEF AscInv, Assessed, Analysed
  <1>3. ASSUME NEW s \in asc_seen[x]
        PROVE  PermitsExecution(DispositionFor(Weakened(w.dal, s[2])))
    <2>1. s[2] \in VerdictSet
      BY DEF AscInv, AscTypes
    <2>2. w.kind = "semantic_one_shot"
      BY <1>1 DEF AscInv, Assessed, Wins, Assessment
    <2>3. PICK v \in VerdictSet : w.disposition = DispositionFor(v) /\ w.severity = Severity(v)
      BY <1>1, <2>2 DEF AscInv, Assessed, Wins
    <2>4. Severity(Weakened(asc_guard[x].dal, s[2])) <= w.severity
      BY DEF AscInv, Assessed, Wins
    <2>5. Weakened(w.dal, s[2]) \in VerdictSet
      BY <1>1, <2>1, Weakening
    <2>. QED
      BY <1>1, <2>3, <2>4, <2>5, Milder
  <1>4. w.kind = "resource_only" <=> asc_seen[x] = {}
    BY <1>1 DEF AscInv, Assessed, Wins
  <1>5. w.field # "-" => asc_args[x][w.field] # "missing"
    BY <1>1 DEF AscInv, Assessed, Wins
  <1> HIDE DEF w
  <1>. QED
    BY <1>1, <1>2, <1>3, <1>4, <1>5

LEMMA InvAscTypeOK == AscInv => AscTypeOK
  <1> SUFFICES ASSUME AscInv
               PROVE  AscTypeOK
    OBVIOUS
  <1>1. ASSUME NEW x \in Execs
        PROVE  asc_next[x] \in 1..(Len(FieldsFor(asc_cap[x])) + 1) /\ Len(asc_log[x]) <= 3
    BY DEF AscInv, Assessed, Progress
  <1>. QED
    BY <1>1 DEF AscInv, AscTypes, AscTypeOK, Dals, Policies

\* Whatever ran was assessed, and the assessment in the log permits it.
THEOREM EffectsAssessed ==
    ASSUME AssessAssumption PROVE AscSpec => [](AscTypeOK /\ DoneWasAssessed)
  <1>1. AscInit => AscInv
    BY AscInvInit
  <1>2. AscInv /\ [AscNext]_ascVars => AscInv'
    BY AscInvStep
  <1>3. AscInv => AscTypeOK /\ DoneWasAssessed
    BY InvAscTypeOK, InvDoneWasAssessed
  <1>. QED
    BY <1>1, <1>2, <1>3, PTL DEF AscSpec
-----------------------------------------------------------------------------
(* Config: the report and the gate                                         *)

\* "None" is no command.
ConfigAssumption == None \notin Edits /\ MaxEdits \in Nat

\* resolved() and the gates' own functions agree, whatever a setting holds.
LEMMA ResolvedIsGated ==
    ASSUME NEW c, NEW env PROVE Resolved(c, env) = Gated(c, env)
  <1>1. ProfileOf(c) = "service" <=> c.profile # None /\ Lower(c.profile) = "service"
    BY DEF ProfileOf, First, Lower
  <1>2. Upper("A") = "A" /\ Upper("E") = "E"
    BY DEF Upper
  <1>3. Resolved(c, env).dal = GetDal(c, env)
    BY <1>1, <1>2 DEF Resolved, GetDal, First
  <1>4. PolicyOf(c, env) = GetPolicy(c, env)
    BY DEF PolicyOf, GetPolicy, First
  <1>. QED
    BY <1>3, <1>4 DEF Resolved, Gated

\* What a viewer holds: a report of the file it loaded, then the gates' answer beside it.
Report(file) == [file |-> file, said |-> Resolved(Parsed(file), conf_env)]

View(w) ==
    \/ w = None
    \/ "file" \in DOMAIN w /\ w = Report(w.file)
    \/ "did" \in DOMAIN w /\ (w.same => w.said = w.did) /\ "file" \notin DOMAIN w

ViewsInv == DOMAIN conf_view = Viewers /\ \A v \in Viewers : View(conf_view[v])

LEMMA ViewsInvStep == ViewsInv /\ [ConfNext]_confVars => ViewsInv'
  <1> SUFFICES ASSUME ViewsInv, [ConfNext]_confVars
               PROVE  ViewsInv'
    OBVIOUS
  <1>1. CASE UNCHANGED <<conf_view, conf_env>>
    BY <1>1 DEF ViewsInv, View, Report
  <1>2. ASSUME NEW v \in Viewers, Show(v) PROVE ViewsInv'
    <2>1. conf_view'[v] = Report(conf_file) /\ UNCHANGED conf_env /\ DOMAIN conf_view' = Viewers
          /\ \A u \in Viewers \ {v} : conf_view'[u] = conf_view[u]
      BY <1>2 DEF Show, Report, ViewsInv
    <2>2. "file" \in DOMAIN Report(conf_file) /\ Report(conf_file).file = conf_file
      BY DEF Report
    <2>. QED
      BY <2>1, <2>2 DEF ViewsInv, View, Report
  <1>3. ASSUME NEW v \in Viewers, Gate(v) PROVE ViewsInv'
    <2> DEFINE w == [same |-> conf_view[v].file = conf_file, said |-> conf_view[v].said,
                     did |-> Gated(Parsed(conf_file), conf_env)]
    <2>1. /\ conf_view'[v] = w /\ UNCHANGED conf_env /\ DOMAIN conf_view' = Viewers
          /\ \A u \in Viewers \ {v} : conf_view'[u] = conf_view[u]
      BY <1>3 DEF Gate, ViewsInv
    <2>2. conf_view[v] = Report(conf_view[v].file)
      BY <1>3 DEF Gate, ViewsInv, View
    <2>3. "did" \in DOMAIN w /\ "file" \notin DOMAIN w
      OBVIOUS
    <2>4. w.same => w.said = w.did
      <3>1. conf_view[v].said = Resolved(Parsed(conf_view[v].file), conf_env)
        BY <2>2 DEF Report
      <3>. QED
        BY <3>1, ResolvedIsGated
    <2>5. View(w)
      BY <2>3, <2>4 DEF View
    <2> HIDE DEF w
    <2>. QED
      BY <2>1, <2>3, <2>4 DEF ViewsInv, View, Report
  <1>. QED
    BY <1>1, <1>2, <1>3 DEF ConfNext, confVars, Load, InitTruncate, CreateTemp, WriteTemp, Rename,
       InitWrite, Killed

LEMMA ViewsInvInit == ConfInit => ViewsInv
  BY DEF ConfInit, ViewsInv, View

LEMMA InvReportIsGate == ViewsInv => ReportIsGate
  BY DEF ViewsInv, View, Report, ReportIsGate

\* What is reported is what the gates go by, for every file and environment.
THEOREM ReportsTrue == ConfSpec => []ReportIsGate
  BY ViewsInvInit, InvReportIsGate, ViewsInvStep, PTL DEF ConfSpec

-----------------------------------------------------------------------------
(* Config: the file                                                        *)

LEMMA DefaultContent == Default \in Content
  BY DEF Default, Content, Unset, Guards

LEMMA TemplateContent == ASSUME NEW profile PROVE Template(profile) \in Content
  <1> USE DEF Default, Content, Unset, Guards
  <1>1. CASE profile = "ephemeral"
    BY <1>1 DEF Template
  <1>2. CASE profile = "service"
    BY <1>2 DEF Template
  <1>3. CASE profile \notin {"ephemeral", "service"}
    BY <1>3 DEF Template
  <1>. QED
    BY <1>1, <1>2, <1>3

LEMMA ParsedContent ==
    ASSUME NEW f \in Content \cup {Absent, Broken} PROVE Parsed(f) \in Content
  BY DefaultContent DEF Parsed

LEMMA ApplyContent ==
    ASSUME NEW edit \in Edits, NEW c \in Content PROVE Apply(edit, c) \in Content
  <1>1. CASE edit.op = "dal" /\ edit.to \in {"A", "E"}
    BY <1>1 DEF Apply, Content
  <1>2. CASE edit.op \in {"add", "remove"} /\ edit.to \in Locations
    BY <1>2 DEF Apply, Content
  <1>3. CASE edit.op = "init"
    BY <1>3, TemplateContent DEF Apply
  <1>. QED
    BY <1>1, <1>2, <1>3 DEF Edits

LEMMA CombinedContent == Combined \subseteq Content
  <1> SUFFICES ASSUME NEW s \in [dal : {None, "b"}, guardsDal : {None, "A"}, policy : {None, "odd"},
                                 guardsPolicy : {None, "observe"}, guard : {None, TRUE, FALSE},
                                 guardsGuard : {None, TRUE, FALSE},
                                 profile : {None, "minimal", "ephemeral", "Service", "odd"}]
               PROVE  [Default EXCEPT !.dal = s.dal, !.guardsDal = s.guardsDal, !.policy = s.policy,
                          !.guardsPolicy = s.guardsPolicy, !.guard["blocklist"] = s.guard,
                          !.guardsGuard["blocklist"] = s.guardsGuard, !.profile = s.profile]
                          \in Content
    BY DEF Combined
  <1>1. [Unset EXCEPT !["blocklist"] = s.guard] \in [Guards -> {None, TRUE, FALSE}]
    BY DEF Unset, Guards
  <1>2. [Unset EXCEPT !["blocklist"] = s.guardsGuard] \in [Guards -> {None, TRUE, FALSE}]
    BY DEF Unset, Guards
  <1>. QED
    BY <1>1, <1>2 DEF Default, Content

LEMMA ConfTypesInit == ConfigAssumption /\ ConfInit => ConfTypeOK
  <1>1. Plain \subseteq Content \cup {Absent, Broken}
    BY TemplateContent DEF Plain
  <1> SUFFICES ASSUME ConfigAssumption, ConfInit
               PROVE  ConfTypeOK
    OBVIOUS
  <1> HIDE DEF Content
  <1>2. conf_file \in Content \cup {Absent, Broken} /\ conf_left \in 0..MaxEdits
    BY <1>1, CombinedContent DEF ConfInit, ConfigAssumption
  <1>. QED
    BY <1>2, DefaultContent DEF ConfInit, ConfTypeOK

LEMMA ConfTypesStep == ConfigAssumption /\ ConfTypeOK /\ [ConfNext]_confVars => ConfTypeOK'
  <1> SUFFICES ASSUME ConfigAssumption, ConfTypeOK, [ConfNext]_confVars
               PROVE  ConfTypeOK'
    OBVIOUS
  <1> USE DEF ConfTypeOK, ConfigAssumption
  <1> HIDE DEF Content, Edits
  <1>1. ASSUME NEW e \in Editors, NEW edit \in Edits, Load(e, edit) PROVE ConfTypeOK'
    <2>1. Apply(edit, Parsed(conf_file)) \in Content
      BY ParsedContent, ApplyContent
    <2>. QED
      BY <1>1, <2>1 DEF Load
  <1>2. ASSUME NEW e \in Editors, NEW edit \in Edits, NEW force \in BOOLEAN, InitTruncate(e, edit, force)
        PROVE  ConfTypeOK'
    BY <1>2, DefaultContent DEF InitTruncate
  <1>3. ASSUME NEW e \in Editors, CreateTemp(e) PROVE ConfTypeOK'
    BY <1>3, DefaultContent DEF CreateTemp
  <1>4. ASSUME NEW e \in Editors, WriteTemp(e) PROVE ConfTypeOK'
    BY <1>4 DEF WriteTemp, Put
  <1>5. ASSUME NEW e \in Editors, Rename(e) PROVE ConfTypeOK'
    BY <1>5 DEF Rename
  <1>6. ASSUME NEW e \in Editors, InitWrite(e) PROVE ConfTypeOK'
    BY <1>6, TemplateContent DEF InitWrite, Put
  <1>7. ASSUME NEW e \in Editors, Killed(e) PROVE ConfTypeOK'
    BY <1>7 DEF Killed
  <1>8. CASE UNCHANGED confVars \/ \E v \in Viewers : Show(v) \/ Gate(v)
    BY <1>8 DEF confVars, Show, Gate
  <1>. QED
    BY <1>1, <1>2, <1>3, <1>4, <1>5, <1>6, <1>7, <1>8 DEF ConfNext

\* How far a command is, when no two have overlapped: what it is about to make of the file
\* is what is there plus its change.
Prepared(e) ==
    /\ conf_do[e] # None /\ conf_do[e].op # "init"
    /\ conf_held[e] = Apply(conf_do[e], Parsed(conf_file))

Command(e) ==
    /\ conf_pc[e] \in {"loaded", "opened", "written"} => Prepared(e)
    /\ conf_pc[e] = "opened" => conf_onto[e] = "temp"
    /\ conf_pc[e] = "written" => conf_temp = conf_held[e]
    /\ conf_pc[e] = "truncated" => conf_do[e] # None /\ conf_do[e].op = "init" /\ conf_onto[e] = "file"

OneAtATime == \A e, o \in Editors : conf_pc[e] # "idle" /\ conf_pc[o] # "idle" => e = o

CommandsInv == ~ conf_overlap => OneAtATime /\ \A e \in Editors : Command(e)

ConfInv == ConfTypeOK /\ CommandsInv

\* Whoever moves while no two overlap moves alone: nobody else holds anything.
LEMMA OnlyOne ==
    ASSUME NEW e \in Editors, OneAtATime, conf_pc[e] # "idle"
    PROVE  \A o \in Editors \ {e} : conf_pc[o] = "idle"
  BY DEF OneAtATime

LEMMA CommandsStep ==
    ASSUME ConfigAssumption, ConfInv, [ConfNext]_confVars
    PROVE  CommandsInv' /\ EditsWhole
  <1> DEFINE Goal == OneAtATime' /\ (\A e \in Editors : Command(e)') /\ EditsWhole
  <1> SUFFICES ASSUME ~ conf_overlap'
               PROVE  Goal
    BY DEF CommandsInv, EditsWhole
  <1>1. ~ conf_overlap
    BY DEF ConfNext, confVars, Load, InitTruncate, CreateTemp, WriteTemp, Rename, InitWrite, Killed,
           Show, Gate
  <1>2. ConfTypeOK /\ OneAtATime /\ \A e \in Editors : Command(e)
    BY <1>1 DEF ConfInv, CommandsInv
  <1>3. ASSUME NEW e \in Editors, NEW edit \in Edits, Load(e, edit) PROVE Goal
    <2>1. /\ \A o \in Editors : conf_pc[o] = "idle"
          /\ conf_pc'[e] = "loaded" /\ conf_do'[e] = edit
          /\ conf_held'[e] = Apply(edit, Parsed(conf_file)) /\ conf_file' = conf_file
          /\ edit # None /\ edit.op # "init"
          /\ \A o \in Editors \ {e} : conf_pc'[o] = "idle"
      BY <1>2, <1>3 DEF Load, ConfTypeOK, ConfigAssumption
    <2>. QED
      BY <2>1 DEF OneAtATime, Command, Prepared, EditsWhole
  <1>4. ASSUME NEW e \in Editors, NEW edit \in Edits, NEW force \in BOOLEAN, InitTruncate(e, edit, force)
        PROVE  Goal
    <2>1. /\ \A o \in Editors : conf_pc[o] = "idle"
          /\ conf_pc'[e] = "truncated" /\ conf_do'[e] = edit /\ conf_onto'[e] = "file"
          /\ edit # None /\ edit.op = "init" /\ conf_file' = Default
          /\ \A o \in Editors \ {e} : conf_pc'[o] = "idle"
      BY <1>2, <1>4 DEF InitTruncate, ConfTypeOK, ConfigAssumption
    <2>. QED
      BY <2>1 DEF OneAtATime, Command, EditsWhole
  <1>5. ASSUME NEW e \in Editors, CreateTemp(e) PROVE Goal
    <2>1. \A o \in Editors \ {e} : conf_pc'[o] = "idle"
      BY <1>2, <1>5, OnlyOne DEF CreateTemp, ConfTypeOK
    <2>2. conf_pc'[e] = "opened" /\ conf_onto'[e] = "temp" /\ Prepared(e)
      BY <1>2, <1>5 DEF CreateTemp, ConfTypeOK, Command
    <2>. QED
      BY <1>5, <2>1, <2>2 DEF CreateTemp, OneAtATime, Command, Prepared, EditsWhole
  <1>6. ASSUME NEW e \in Editors, WriteTemp(e) PROVE Goal
    <2>1. \A o \in Editors \ {e} : conf_pc'[o] = "idle"
      BY <1>2, <1>6, OnlyOne DEF WriteTemp, ConfTypeOK
    <2>2. conf_onto[e] = "temp" /\ Prepared(e) /\ conf_file' = conf_file
      BY <1>2, <1>6 DEF WriteTemp, Put, Command
    <2>3. conf_pc'[e] = "idle" \/ (conf_pc'[e] = "written" /\ conf_temp' = conf_held[e])
      <3>1. CASE Put(e, conf_held[e]) /\ conf_pc' = [conf_pc EXCEPT ![e] = "written"]
        <4>1. conf_pc'[e] = "written"
          BY <1>2, <3>1 DEF ConfTypeOK
        <4>. QED
          BY <2>2, <3>1, <4>1 DEF Put
      <3>2. CASE conf_pc' = [conf_pc EXCEPT ![e] = "idle"]
        <4>1. DOMAIN conf_pc = Editors
          BY <1>2 DEF ConfTypeOK
        <4>. QED
          BY <3>2, <4>1
      <3>. QED
        BY <1>6, <3>1, <3>2 DEF WriteTemp
    <2>. QED
      BY <1>6, <2>1, <2>2, <2>3 DEF WriteTemp, OneAtATime, Command, Prepared, EditsWhole
  <1>7. ASSUME NEW e \in Editors, Rename(e) PROVE Goal
    <2>1. \A o \in Editors : conf_pc'[o] = "idle"
      BY <1>2, <1>7, OnlyOne DEF Rename, ConfTypeOK
    <2>2. Prepared(e) /\ conf_temp = conf_held[e]
      BY <1>2, <1>7 DEF Rename, Command
    <2>3. EditsWhole
      BY <1>7, <2>2 DEF Rename, Prepared, EditsWhole
    <2>. QED
      BY <2>1, <2>3 DEF OneAtATime, Command
  <1>8. ASSUME NEW e \in Editors, InitWrite(e) PROVE Goal
    <2>1. \A o \in Editors : conf_pc'[o] = "idle"
      BY <1>2, <1>8, OnlyOne DEF InitWrite, ConfTypeOK
    <2>2. conf_do[e] # None /\ conf_do[e].op = "init" /\ conf_onto[e] = "file"
      BY <1>2, <1>8 DEF InitWrite, Command
    <2>3. conf_file' \in {Template(conf_do[e].to), Broken} /\ UNCHANGED conf_do
      BY <1>8, <2>2 DEF InitWrite, Put
    <2>4. Apply(conf_do[e], Parsed(conf_file)) = Template(conf_do[e].to)
      BY <2>2 DEF Apply
    <2>5. EditsWhole
      BY <2>2, <2>3, <2>4 DEF EditsWhole
    <2>. QED
      BY <2>1, <2>5 DEF OneAtATime, Command
  <1>9. ASSUME NEW e \in Editors, Killed(e) PROVE Goal
    <2>1. \A o \in Editors : conf_pc'[o] = "idle"
      BY <1>2, <1>9, OnlyOne DEF Killed, ConfTypeOK
    <2>. QED
      BY <1>9, <2>1 DEF Killed, OneAtATime, Command, EditsWhole
  <1>10. CASE UNCHANGED confVars \/ \E v \in Viewers : Show(v) \/ Gate(v)
    <2>1. UNCHANGED <<conf_file, conf_temp, conf_pc, conf_do, conf_held, conf_onto>>
      BY <1>10 DEF confVars, Show, Gate
    <2>. QED
      BY <1>2, <2>1 DEF OneAtATime, Command, Prepared, EditsWhole
  <1>. QED
    BY <1>3, <1>4, <1>5, <1>6, <1>7, <1>8, <1>9, <1>10 DEF ConfNext

LEMMA ConfInvStep ==
    ConfigAssumption /\ ConfInv /\ [ConfNext]_confVars => ConfInv' /\ EditsWhole
  BY ConfTypesStep, CommandsStep DEF ConfInv

LEMMA ConfInvInit == ConfigAssumption /\ ConfInit => ConfInv
  <1> SUFFICES ASSUME ConfigAssumption, ConfInit
               PROVE  CommandsInv
    BY ConfTypesInit DEF ConfInv
  <1>1. \A e \in Editors : conf_pc[e] = "idle"
    BY DEF ConfInit
  <1>. QED
    BY <1>1 DEF CommandsInv, OneAtATime, Command

\* config.toml changes by one whole command at a time, while no two have overlapped.
THEOREM CommandsWhole ==
    ASSUME ConfigAssumption PROVE ConfSpec => []ConfTypeOK /\ [][EditsWhole]_confVars
  <1>1. ConfInit => ConfInv
    BY ConfInvInit
  <1>2. ConfInv /\ [ConfNext]_confVars => ConfInv' /\ EditsWhole
    BY ConfInvStep
  <1>3. ConfInv => ConfTypeOK
    BY DEF ConfInv
  <1>. QED
    BY <1>1, <1>2, <1>3, PTL DEF ConfSpec
-----------------------------------------------------------------------------
(* Snapshots                                                               *)

\* "None" is no snapshot, an entry lives for a while, and an executor is nothing else.
SnapAssumption ==
    /\ None \notin Snap /\ TTL \in Nat \ {0} /\ MaxClock \in Nat /\ MaxCaptures \in Nat
    /\ Executors \cap (Monitors \cup Callers) = {}

SnapTypes ==
    /\ SnapTypeOK /\ clock \in 0..MaxClock /\ captures \in 0..MaxCaptures
    /\ mode \in [Threads -> Modes] /\ called \in [Threads -> 0..MaxClock]
    /\ pBefore \in [Executors -> Procs \cup {None}] /\ pAfter \in [Executors -> Procs \cup {None}]

OfMode(snap, m) == snap.hardware = Hardware(m) /\ snap.network = Network(m)

\* No entry is older than it says, and a capture in hand is younger than its call.
Recency ==
    /\ \A m \in Modes : slots[m] # None =>
           /\ slots[m].val.taken >= slots[m].instant /\ OfMode(slots[m].val, m)
           /\ slots[m].val.id <= captures
    /\ \A t \in Threads : called[t] <= clock
    /\ \A t \in Threads : pc[t] = "store" =>
           got[t] # None /\ got[t].taken >= called[t] /\ OfMode(got[t], mode[t])

\* A capture that is not stored yet is its thread's alone: it is stored once.
Unshared(t) ==
    pc[t] = "store" =>
        /\ got[t].id <= captures
        /\ \A m \in Modes : slots[m] # None => slots[m].val.id # got[t].id
        /\ \A u \in Threads : pc[u] = "store" /\ u # t => got[u].id # got[t].id
        /\ \A e \in Executors : before[e] # None => before[e].id # got[t].id

\* An executor that looks for the second time cannot be given its first look.
Looking(e) ==
    /\ mode[e] = "light"
    /\ pc[e] = "idle" => before[e] = None
    /\ before[e] # None => before[e].id <= captures
    /\ before[e] # None /\ pc[e] \in {"check", "probe", "store"} /\ slots["light"] # None =>
           slots["light"].val.id # before[e].id
    /\ after[e] # None => pc[e] \in {"fresh", "over"} /\ before[e].id # after[e].id
    /\ pc[e] = "over" /\ after[e] # None => pAfter[e].taken >= called[e]

SnapInv ==
    /\ SnapTypes /\ Recency
    /\ \A t \in Threads : Unshared(t)
    /\ \A e \in Executors : Looking(e)

LEMMA SnapInvInit == SnapAssumption /\ SnapInit => SnapInv
  <1> SUFFICES ASSUME SnapAssumption, SnapInit
               PROVE  SnapInv
    OBVIOUS
  <1> USE DEF SnapInit, SnapAssumption
  <1>1. SnapTypes
    BY DEF SnapTypes, SnapTypeOK, Stored, Threads, Modes
  <1>2. Recency
    BY DEF Recency, Threads
  <1>3. \A t \in Threads : Unshared(t)
    BY DEF Unshared
  <1>4. \A e \in Executors : Looking(e)
    BY DEF Looking, Threads
  <1>. QED
    BY <1>1, <1>2, <1>3, <1>4 DEF SnapInv

\* Whoever is given a snapshot: where it goes on, and what of its looks changes.
LEMMA AnswerCases ==
    ASSUME SnapAssumption, SnapTypes, NEW t \in Threads, NEW snap \in Snap, Answered(t, snap)
    PROVE  /\ got' = [got EXCEPT ![t] = snap] /\ got'[t] = snap
           /\ pc'[t] \in {"idle", "procs", "fresh"} /\ \A u \in Threads \ {t} : pc'[u] = pc[u]
           /\ pc' \in [Threads -> {"idle", "check", "probe", "store", "procs", "work", "clear",
                                   "fresh", "over"}]
           /\ before' \in [Executors -> Snap \cup {None}] /\ after' \in [Executors -> Snap \cup {None}]
           /\ \A e \in Executors \ {t} : before'[e] = before[e] /\ after'[e] = after[e]
           /\ t \in Executors =>
                 \/ before[t] = None /\ pc'[t] = "procs" /\ before'[t] = snap /\ after'[t] = after[t]
                 \/ before[t] # None /\ pc'[t] = "fresh" /\ before'[t] = before[t] /\ after'[t] = snap
  <1> USE DEF Answered, Goto, SnapTypes, SnapTypeOK, SnapAssumption
  <1>1. CASE t \in Callers
    BY <1>1
  <1>2. CASE t \in Monitors /\ t \notin Callers
    BY <1>2
  <1>3. CASE t \in Executors /\ before[t] = None
    BY <1>3
  <1>4. CASE t \in Executors /\ before[t] # None
    BY <1>4
  <1>. QED
    BY <1>1, <1>2, <1>3, <1>4 DEF Threads

\* Steps that leave every slot, capture and call alone, and nobody with a new capture.
LEMMA CalmStep ==
    ASSUME SnapAssumption, SnapInv, SnapTypes', UNCHANGED <<captures, slots, mode>>,
           clock' >= clock,
           \A t \in Threads : /\ pc'[t] = "store" => pc[t] = "store"
                              /\ pc'[t] = "store" => got'[t] = got[t] /\ called'[t] = called[t]
                              /\ called'[t] <= clock',
           UNCHANGED before
    PROVE  Recency' /\ \A t \in Threads : Unshared(t)'
  <1>1. Recency'
    BY DEF SnapInv, Recency, SnapTypes, OfMode
  <1>2. ASSUME NEW t \in Threads PROVE Unshared(t)'
    BY DEF SnapInv, Unshared
  <1>. QED
    BY <1>1, <1>2

LEMMA TickKeeps == ASSUME SnapAssumption, SnapInv, Tick PROVE SnapInv'
  <1>1. SnapTypes'
    BY DEF Tick, looks, SnapInv, SnapTypes, SnapTypeOK, SnapAssumption
  <1>2. Recency' /\ \A t \in Threads : Unshared(t)'
    <2>1. clock' >= clock /\ \A t \in Threads : called[t] <= clock'
      BY DEF Tick, SnapInv, SnapTypes, Recency
    <2>. QED
      BY <1>1, <2>1, CalmStep DEF Tick, looks
  <1>3. \A e \in Executors : Looking(e)'
    BY DEF Tick, looks, SnapInv, Looking
  <1>. QED
    BY <1>1, <1>2, <1>3 DEF SnapInv

LEMMA CallKeeps == ASSUME SnapAssumption, SnapInv, NEW t \in Threads, Call(t) PROVE SnapInv'
  <1> DEFINE m == IF t \in Callers THEN "full" ELSE "light"
  <1>1. /\ pc[t] = "idle" /\ pc'[t] = "check" /\ \A u \in Threads \ {t} : pc'[u] = pc[u]
        /\ mode' = [mode EXCEPT ![t] = m] /\ mode'[t] = m /\ m \in Modes
        /\ \A u \in Threads \ {t} : mode'[u] = mode[u]
        /\ called'[t] = clock /\ \A u \in Threads \ {t} : called'[u] = called[u]
        /\ \A u \in Threads \ {t} : got'[u] = got[u]
        /\ UNCHANGED <<clock, captures, slots, procCache, before, after, pBefore, pAfter>>
    BY DEF Call, Goto, looks, Modes, SnapInv, SnapTypes, SnapTypeOK
  <1>2. SnapTypes'
    BY <1>1 DEF Call, Goto, SnapInv, SnapTypes, SnapTypeOK, Modes
  <1>3. Recency'
    BY <1>1 DEF SnapInv, SnapTypes, Recency, OfMode
  <1>4. ASSUME NEW u \in Threads PROVE Unshared(u)'
    BY <1>1 DEF SnapInv, Unshared
  <1>5. ASSUME NEW e \in Executors PROVE Looking(e)'
    <2>1. CASE e # t
      <3>1. e \in Threads \ {t}
        BY <2>1 DEF Threads
      <3>. QED
        BY <1>1, <3>1 DEF SnapInv, Looking
    <2>2. CASE e = t
      <3>1. m = "light"
        BY <2>2 DEF SnapAssumption
      <3>. QED
        BY <1>1, <2>2, <3>1 DEF SnapInv, Looking
    <2>. QED
      BY <2>1, <2>2
  <1>. QED
    BY <1>2, <1>3, <1>4, <1>5 DEF SnapInv

LEMMA CheckSlotKeeps == ASSUME SnapAssumption, SnapInv, NEW t \in Threads, CheckSlot(t) PROVE SnapInv'
  <1> DEFINE entry == slots[mode[t]]
  <1>1. /\ pc[t] = "check" /\ mode[t] \in Modes /\ entry \in Stored(Snap)
        /\ UNCHANGED <<clock, captures, slots, procCache, mode, called, pBefore, pAfter>>
    BY DEF CheckSlot, SnapInv, SnapTypes, SnapTypeOK
  <1>2. CASE Recent(entry, called[t])
    <2>1. entry # None /\ entry.val \in Snap /\ Answered(t, entry.val)
      BY <1>1, <1>2 DEF CheckSlot, Recent, Stored
    <2> DEFINE snap == entry.val
    <2>2. /\ got' = [got EXCEPT ![t] = snap] /\ got'[t] = snap
          /\ pc'[t] \in {"idle", "procs", "fresh"} /\ \A u \in Threads \ {t} : pc'[u] = pc[u]
          /\ pc' \in [Threads -> {"idle", "check", "probe", "store", "procs", "work", "clear",
                                   "fresh", "over"}]
          /\ before' \in [Executors -> Snap \cup {None}] /\ after' \in [Executors -> Snap \cup {None}]
          /\ \A e \in Executors \ {t} : before'[e] = before[e] /\ after'[e] = after[e]
          /\ t \in Executors =>
                 \/ before[t] = None /\ pc'[t] = "procs" /\ before'[t] = snap /\ after'[t] = after[t]
                 \/ before[t] # None /\ pc'[t] = "fresh" /\ before'[t] = before[t] /\ after'[t] = snap
      BY <2>1, AnswerCases DEF SnapInv
    <2>3. \A u \in Threads \ {t} : got'[u] = got[u]
      BY <2>2 DEF SnapInv, SnapTypes, SnapTypeOK
    <2>4. snap.id <= captures /\ snap.id \in Nat
      BY <1>1, <2>1 DEF SnapInv, Recency, Snap
    <2>5. SnapTypes'
      BY <1>1, <2>1, <2>2 DEF SnapInv, SnapTypes, SnapTypeOK
    <2>6. Recency'
      BY <1>1, <2>2, <2>3 DEF SnapInv, Recency, OfMode
    <2>7. ASSUME NEW u \in Threads, pc'[u] = "store" PROVE Unshared(u)'
      <3>1. u # t /\ pc[u] = "store" /\ got'[u] = got[u]
        BY <2>2, <2>3, <2>7
      <3>2. snap.id # got[u].id
        BY <1>1, <2>1, <3>1 DEF SnapInv, Unshared
      <3>3. \A e \in Executors : before'[e] # None => before'[e].id # got[u].id
        BY <2>2, <3>1, <3>2 DEF SnapInv, Unshared
      <3>4. \A v \in Threads : pc'[v] = "store" /\ v # u => got'[v].id # got[u].id
        BY <2>2, <2>3, <3>1 DEF SnapInv, Unshared
      <3>. QED
        BY <1>1, <3>1, <3>3, <3>4 DEF SnapInv, Unshared
    <2>8. ASSUME NEW e \in Executors PROVE Looking(e)'
      <3>1. CASE e # t
        <4>1. e \in Threads \ {t}
          BY <3>1 DEF Threads
        <4>. QED
          BY <1>1, <2>2, <3>1, <4>1 DEF SnapInv, Looking
      <3>2. CASE e = t /\ before[t] = None
        BY <1>1, <2>2, <2>4, <3>2 DEF SnapInv, Looking
      <3>3. CASE e = t /\ before[t] # None
        <4>1. mode[t] = "light" /\ snap.id # before[t].id
          BY <1>1, <2>1, <3>3 DEF SnapInv, Looking
        <4>. QED
          BY <1>1, <2>2, <3>3, <4>1 DEF SnapInv, Looking
      <3>. QED
        BY <3>1, <3>2, <3>3
    <2>. QED
      BY <2>5, <2>6, <2>7, <2>8 DEF SnapInv, Unshared
  <1>3. CASE ~ Recent(entry, called[t])
    <2>1. /\ pc' = [pc EXCEPT ![t] = "probe"] /\ pc'[t] = "probe"
          /\ \A u \in Threads \ {t} : pc'[u] = pc[u]
          /\ UNCHANGED <<got, before, after>>
      BY <1>3 DEF CheckSlot, Goto, SnapInv, SnapTypes, SnapTypeOK
    <2>2. SnapTypes'
      BY <1>1, <2>1 DEF SnapInv, SnapTypes, SnapTypeOK
    <2>3. Recency' /\ \A u \in Threads : Unshared(u)'
      <3>1. clock' >= clock /\ \A u \in Threads : called[u] <= clock
        BY <1>1 DEF SnapInv, SnapTypes, Recency
      <3>. QED
        BY <1>1, <2>1, <2>2, <3>1, CalmStep
    <2>4. \A e \in Executors : Looking(e)'
      BY <1>1, <2>1 DEF SnapInv, Looking, Threads
    <2>. QED
      BY <2>2, <2>3, <2>4 DEF SnapInv
  <1>. QED
    BY <1>2, <1>3

LEMMA ProbeKeeps == ASSUME SnapAssumption, SnapInv, NEW t \in Threads, Probe(t) PROVE SnapInv'
  <1> DEFINE snap == [id |-> captures + 1, taken |-> clock,
                      hardware |-> Hardware(mode[t]), network |-> Network(mode[t])]
  <1>1. /\ pc[t] = "probe" /\ pc'[t] = "store" /\ \A u \in Threads \ {t} : pc'[u] = pc[u]
        /\ captures' = captures + 1 /\ captures \in 0..(MaxCaptures - 1) /\ clock \in 0..MaxClock
        /\ got' = [got EXCEPT ![t] = snap] /\ got'[t] = snap
        /\ \A u \in Threads \ {t} : got'[u] = got[u]
        /\ UNCHANGED <<clock, slots, procCache, mode, called, before, after, pBefore, pAfter>>
    BY DEF Probe, Goto, looks, SnapInv, SnapTypes, SnapTypeOK, SnapAssumption
  <1>2. snap \in Snap /\ OfMode(snap, mode[t])
    BY <1>1 DEF Snap, Hardware, Network, Parts, OfMode, SnapAssumption
  <1>3. snap.id = captures + 1 /\ snap.taken = clock
    OBVIOUS
  <1> HIDE DEF snap
  <1>4. SnapTypes'
    BY <1>1, <1>2 DEF Probe, Goto, SnapInv, SnapTypes, SnapTypeOK, SnapAssumption
  <1>5. Recency'
    <2>1. \A m \in Modes : slots[m] # None => slots[m].val.id <= captures + 1
      BY <1>1 DEF SnapInv, SnapTypes, SnapTypeOK, Stored, Recency, Snap
    <2>. QED
      BY <1>1, <1>2, <1>3, <2>1 DEF SnapInv, Recency, OfMode, SnapAssumption
  <1>6. ASSUME NEW u \in Threads, pc'[u] = "store" PROVE Unshared(u)'
    <2>1. \A m \in Modes : slots[m] # None => slots[m].val.id # captures + 1
      BY <1>1 DEF SnapInv, SnapTypes, SnapTypeOK, Stored, Recency, Snap
    <2>2. \A e \in Executors : before[e] # None => before[e].id # captures + 1
      BY <1>1 DEF SnapInv, SnapTypes, SnapTypeOK, Looking, Snap
    <2>3. \A v \in Threads \ {t} : pc[v] = "store" =>
             got[v].id # captures + 1 /\ got[v].id <= captures + 1
      <3> SUFFICES ASSUME NEW v \in Threads \ {t}, pc[v] = "store"
                   PROVE  got[v].id # captures + 1 /\ got[v].id <= captures + 1
        OBVIOUS
      <3>1. got[v].id <= captures
        BY DEF SnapInv, Unshared
      <3>2. got[v] \in Snap
        BY DEF SnapInv, Recency, SnapTypes, SnapTypeOK
      <3>3. got[v].id \in Nat
        BY <3>2 DEF Snap
      <3>. QED
        BY <1>1, <3>1, <3>3
    <2>4. CASE u = t
      BY <1>1, <1>3, <2>1, <2>2, <2>3, <2>4 DEF Unshared
    <2>5. CASE u # t
      BY <1>1, <1>3, <1>6, <2>3, <2>5 DEF SnapInv, Unshared
    <2>. QED
      BY <2>4, <2>5
  <1>7. ASSUME NEW e \in Executors PROVE Looking(e)'
    <2>1. before[e] # None => before[e].id <= captures + 1
      BY <1>1 DEF SnapInv, SnapTypes, SnapTypeOK, Looking, Snap
    <2>2. e \in Threads
      BY DEF Threads
    <2>. QED
      BY <1>1, <2>1, <2>2 DEF SnapInv, Looking
  <1>. QED
    BY <1>4, <1>5, <1>6, <1>7 DEF SnapInv, Unshared

LEMMA StoreKeeps == ASSUME SnapAssumption, SnapInv, NEW t \in Threads, StoreSlot(t) PROVE SnapInv'
  <1> DEFINE snap == got[t]
             entry == [val |-> snap, instant |-> called[t]]
  <1>1. /\ pc[t] = "store" /\ mode[t] \in Modes /\ snap \in Snap /\ called[t] \in 0..MaxClock
        /\ snap.taken >= called[t] /\ OfMode(snap, mode[t]) /\ snap.id <= captures
        /\ UNCHANGED <<clock, captures, procCache, mode, called, pBefore, pAfter>>
    BY DEF StoreSlot, SnapInv, SnapTypes, SnapTypeOK, Recency, Unshared
  <1>2. /\ slots' = [slots EXCEPT ![mode[t]] = entry] /\ slots'[mode[t]] = entry
        /\ \A m \in Modes \ {mode[t]} : slots'[m] = slots[m]
        /\ entry.val = snap /\ entry.instant = called[t] /\ entry \in Stored(Snap)
    BY <1>1 DEF StoreSlot, Stamp, SnapInv, SnapTypes, SnapTypeOK, Stored
  <1> HIDE DEF entry
  <1>3. /\ got' = [got EXCEPT ![t] = snap] /\ got'[t] = snap
        /\ pc'[t] \in {"idle", "procs", "fresh"} /\ \A u \in Threads \ {t} : pc'[u] = pc[u]
        /\ pc' \in [Threads -> {"idle", "check", "probe", "store", "procs", "work", "clear",
                                 "fresh", "over"}]
        /\ before' \in [Executors -> Snap \cup {None}] /\ after' \in [Executors -> Snap \cup {None}]
        /\ \A e \in Executors \ {t} : before'[e] = before[e] /\ after'[e] = after[e]
        /\ t \in Executors =>
               \/ before[t] = None /\ pc'[t] = "procs" /\ before'[t] = snap /\ after'[t] = after[t]
               \/ before[t] # None /\ pc'[t] = "fresh" /\ before'[t] = before[t] /\ after'[t] = snap
    BY <1>1, AnswerCases DEF StoreSlot, SnapInv
  <1>4. got' = got
    BY <1>3 DEF SnapInv, SnapTypes, SnapTypeOK
  <1>5. SnapTypes'
    BY <1>1, <1>2, <1>3, <1>4 DEF SnapInv, SnapTypes, SnapTypeOK
  <1>6. Recency'
    <2>1. ASSUME NEW m \in Modes, slots'[m] # None
          PROVE  /\ slots'[m].val.taken >= slots'[m].instant /\ OfMode(slots'[m].val, m)
                 /\ slots'[m].val.id <= captures
      BY <1>1, <1>2, <2>1 DEF SnapInv, Recency
    <2>. QED
      BY <1>1, <1>3, <1>4, <2>1 DEF SnapInv, Recency, OfMode
  <1>7. ASSUME NEW u \in Threads, pc'[u] = "store" PROVE Unshared(u)'
    <2>1. u # t /\ pc[u] = "store" /\ snap.id # got[u].id
      BY <1>1, <1>3, <1>7 DEF SnapInv, Unshared
    <2>2. \A m \in Modes : slots'[m] # None => slots'[m].val.id # got[u].id
      BY <1>2, <2>1 DEF SnapInv, Unshared
    <2>3. \A e \in Executors : before'[e] # None => before'[e].id # got[u].id
      BY <1>3, <2>1 DEF SnapInv, Unshared
    <2>. QED
      BY <1>1, <1>3, <1>4, <2>1, <2>2, <2>3 DEF SnapInv, Unshared
  <1>8. ASSUME NEW e \in Executors PROVE Looking(e)'
    <2>1. e \in Threads /\ "light" \in Modes
      BY DEF Threads, Modes
    <2>2. before[e] # None => before[e].id # snap.id
      BY <1>1 DEF SnapInv, Unshared
    <2>3. before[e] # None /\ pc[e] \in {"check", "probe", "store"} /\ slots'["light"] # None =>
             slots'["light"].val.id # before[e].id
      BY <1>2, <2>1, <2>2 DEF SnapInv, Looking
    <2>4. CASE e # t
      BY <1>1, <1>3, <2>1, <2>3, <2>4 DEF SnapInv, Looking
    <2>5. CASE e = t
      BY <1>1, <1>3, <2>1, <2>2, <2>5 DEF SnapInv, Looking
    <2>. QED
      BY <2>4, <2>5
  <1>. QED
    BY <1>5, <1>6, <1>7, <1>8 DEF SnapInv, Unshared

LEMMA ProcsKeeps ==
    ASSUME SnapAssumption, SnapInv, NEW t \in Threads, CaptureProcs(t) PROVE SnapInv'
  <1>1. PICK p \in Procs :
           /\ IF Recent(procCache, clock) THEN p = procCache.val /\ UNCHANGED procCache
              ELSE PsRuns(p, procCache)
           /\ IF t \in Monitors THEN Goto(t, "idle") /\ UNCHANGED pBefore
              ELSE Goto(t, "work") /\ pBefore' = [pBefore EXCEPT ![t] = p]
    BY DEF CaptureProcs
  <1>2. procCache' \in Stored(Procs)
    <2>1. clock \in 0..MaxClock /\ procCache \in Stored(Procs)
      BY DEF SnapInv, SnapTypes, SnapTypeOK
    <2>2. procCache' = procCache \/ procCache' = [val |-> p, instant |-> clock]
      BY <1>1 DEF PsRuns
    <2>. QED
      BY <2>1, <2>2 DEF Stored
  <1>3. /\ pc[t] = "procs" /\ pc'[t] \in {"idle", "work"}
        /\ t \in Executors => pc'[t] = "work"
        /\ \A u \in Threads \ {t} : pc'[u] = pc[u]
        /\ UNCHANGED <<clock, captures, slots, mode, called, got, before, after, pAfter>>
        /\ pBefore' \in [Executors -> Procs \cup {None}]
        /\ pc' \in [Threads -> {"idle", "check", "probe", "store", "procs", "work", "clear",
                                 "fresh", "over"}]
    BY <1>1 DEF CaptureProcs, Goto, SnapInv, SnapTypes, SnapTypeOK, SnapAssumption
  <1>4. SnapTypes'
    BY <1>2, <1>3 DEF SnapInv, SnapTypes, SnapTypeOK
  <1>5. Recency' /\ \A u \in Threads : Unshared(u)'
    <2>1. clock' >= clock /\ \A u \in Threads : called[u] <= clock
      BY <1>3 DEF SnapInv, SnapTypes, Recency
    <2>. QED
      BY <1>3, <1>4, <2>1, CalmStep
  <1>6. \A e \in Executors : Looking(e)'
    BY <1>3 DEF SnapInv, Looking, Threads
  <1>. QED
    BY <1>4, <1>5, <1>6 DEF SnapInv

LEMMA FreshKeeps ==
    ASSUME SnapAssumption, SnapInv, NEW t \in Executors, CaptureFresh(t) PROVE SnapInv'
  <1>1. PICK p \in Procs : PsRuns(p, None) /\ pAfter' = [pAfter EXCEPT ![t] = p]
    BY DEF CaptureFresh
  <1>2. procCache' \in Stored(Procs) /\ p.taken = clock
    <2>1. clock \in 0..MaxClock
      BY DEF SnapInv, SnapTypes
    <2>2. procCache' = None \/ procCache' = [val |-> p, instant |-> clock]
      BY <1>1 DEF PsRuns
    <2>3. p.taken = clock
      BY <1>1 DEF PsRuns, Seen, NoProcs
    <2>. QED
      BY <2>1, <2>2, <2>3 DEF Stored
  <1>3. /\ t \in Threads /\ pc[t] = "fresh" /\ pc' = [pc EXCEPT ![t] = "over"] /\ pc'[t] = "over"
        /\ \A u \in Threads \ {t} : pc'[u] = pc[u]
        /\ UNCHANGED <<clock, captures, slots, mode, called, got, before, after, pBefore>>
        /\ pAfter'[t] = p /\ \A e \in Executors \ {t} : pAfter'[e] = pAfter[e]
    BY <1>1 DEF CaptureFresh, Goto, SnapInv, SnapTypes, SnapTypeOK, Threads
  <1>4. SnapTypes'
    BY <1>1, <1>2, <1>3 DEF SnapInv, SnapTypes, SnapTypeOK
  <1>5. Recency' /\ \A u \in Threads : Unshared(u)'
    <2>1. clock' >= clock /\ \A u \in Threads : called[u] <= clock
      BY <1>3 DEF SnapInv, SnapTypes, Recency
    <2>. QED
      BY <1>3, <1>4, <2>1, CalmStep
  <1>6. ASSUME NEW e \in Executors PROVE Looking(e)'
    <2>1. pAfter'[t].taken >= called[t]
      BY <1>2, <1>3 DEF SnapInv, SnapTypes, Recency
    <2>. QED
      BY <1>3, <2>1 DEF SnapInv, Looking, Threads
  <1>. QED
    BY <1>4, <1>5, <1>6 DEF SnapInv

LEMMA WorkKeeps ==
    ASSUME SnapAssumption, SnapInv, NEW t \in Executors, Refuse(t) \/ Work(t) PROVE SnapInv'
  <1>1. /\ t \in Threads /\ pc[t] = "work" /\ pc'[t] \in {"over", "clear"}
        /\ \A u \in Threads \ {t} : pc'[u] = pc[u]
        /\ UNCHANGED <<clock, captures, slots, procCache, mode, called, got, before, after,
                       pBefore, pAfter>>
        /\ pc' \in [Threads -> {"idle", "check", "probe", "store", "procs", "work", "clear",
                                 "fresh", "over"}]
    BY DEF Refuse, Work, Goto, looks, SnapInv, SnapTypes, SnapTypeOK, Threads
  <1>2. SnapTypes'
    BY <1>1 DEF SnapInv, SnapTypes, SnapTypeOK
  <1>3. Recency' /\ \A u \in Threads : Unshared(u)'
    <2>1. clock' >= clock /\ \A u \in Threads : called[u] <= clock
      BY <1>1 DEF SnapInv, SnapTypes, Recency
    <2>. QED
      BY <1>1, <1>2, <2>1, CalmStep
  <1>4. \A e \in Executors : Looking(e)'
    BY <1>1 DEF SnapInv, Looking, Threads
  <1>. QED
    BY <1>2, <1>3, <1>4 DEF SnapInv

LEMMA ClearKeeps ==
    ASSUME SnapAssumption, SnapInv, NEW t \in Executors, ClearLight(t) PROVE SnapInv'
  <1>1. /\ t \in Threads /\ pc[t] = "clear" /\ pc' = [pc EXCEPT ![t] = "check"] /\ pc'[t] = "check"
        /\ \A u \in Threads \ {t} : pc'[u] = pc[u] /\ called'[u] = called[u]
        /\ called' = [called EXCEPT ![t] = clock] /\ called'[t] = clock
        /\ slots' = [slots EXCEPT !["light"] = None] /\ slots'["light"] = None
        /\ \A m \in Modes : slots'[m] = None \/ slots'[m] = slots[m]
        /\ UNCHANGED <<clock, captures, procCache, mode, got, before, after, pBefore, pAfter>>
    BY DEF ClearLight, Cleared, Goto, looks, SnapInv, SnapTypes, SnapTypeOK, Threads, Modes
  <1>2. SnapTypes'
    BY <1>1 DEF SnapInv, SnapTypes, SnapTypeOK, Stored, Modes
  <1>3. Recency'
    BY <1>1 DEF SnapInv, SnapTypes, Recency, OfMode
  <1>4. ASSUME NEW u \in Threads PROVE Unshared(u)'
    BY <1>1 DEF SnapInv, Unshared
  <1>5. ASSUME NEW e \in Executors PROVE Looking(e)'
    BY <1>1 DEF SnapInv, Looking, Threads
  <1>. QED
    BY <1>2, <1>3, <1>4, <1>5 DEF SnapInv

LEMMA SnapInvStep == SnapAssumption /\ SnapInv /\ [SnapNext]_snapVars => SnapInv'
  <1> SUFFICES ASSUME SnapAssumption, SnapInv, [SnapNext]_snapVars PROVE SnapInv'
    OBVIOUS
  <1>1. CASE UNCHANGED snapVars
    <2>1. SnapTypes' /\ Recency'
      BY <1>1 DEF snapVars, looks, SnapInv, SnapTypes, SnapTypeOK, Recency, OfMode
    <2>2. (\A t \in Threads : Unshared(t)') /\ \A e \in Executors : Looking(e)'
      BY <1>1 DEF snapVars, looks, SnapInv, Unshared, Looking
    <2>. QED
      BY <2>1, <2>2 DEF SnapInv
  <1>. QED
    BY <1>1, TickKeeps, CallKeeps, CheckSlotKeeps, ProbeKeeps, StoreKeeps, ProcsKeeps, FreshKeeps,
       WorkKeeps, ClearKeeps DEF SnapNext
\* A snapshot that is given is of the mode asked for and as recent as the cache promises.
LEMMA StepGivesRecent ==
    SnapAssumption /\ SnapInv /\ [SnapNext]_snapVars => GivesRecent
  <1> SUFFICES ASSUME SnapAssumption, SnapInv, [SnapNext]_snapVars,
                      NEW t \in Threads, got'[t] # got[t], got'[t] # None
               PROVE  /\ got'[t].taken + TTL > called[t]
                      /\ OfMode(got'[t], mode[t])
    BY DEF GivesRecent, OfMode
  <1>0. got \in [Threads -> Snap \cup {None}] /\ called[t] \in Nat /\ mode[t] \in Modes
        /\ called[t] <= clock /\ clock \in Nat
    BY DEF SnapInv, SnapTypes, SnapTypeOK, Recency
  <1>1. CASE \E u \in Threads : CheckSlot(u)
    <2>1. PICK u \in Threads : CheckSlot(u)
      BY <1>1
    <2> DEFINE entry == slots[mode[u]]
    <2>2. /\ Recent(entry, called[u]) /\ Answered(u, entry.val) /\ mode[u] \in Modes
          /\ entry \in Stored(Snap)
      BY <1>0, <2>1 DEF CheckSlot, SnapInv, SnapTypes, SnapTypeOK
    <2>3. u = t /\ got'[t] = entry.val
      BY <1>0, <2>2 DEF Answered
    <2>4. entry # None /\ entry.val.taken >= entry.instant /\ OfMode(entry.val, mode[u])
      BY <2>2 DEF Recent, SnapInv, Recency
    <2>5. entry.val.taken \in Nat /\ entry.instant \in Nat
      BY <2>2, <2>4 DEF Stored, Snap, SnapAssumption
    <2>6. called[t] - entry.instant < TTL
      BY <2>2, <2>3 DEF Recent
    <2> HIDE DEF entry
    <2>7. entry.val.taken + TTL > called[t]
      BY <1>0, <2>4, <2>5, <2>6 DEF SnapAssumption
    <2>. QED
      BY <2>3, <2>4, <2>7
  <1>2. CASE \E u \in Threads : Probe(u)
    <2>1. PICK u \in Threads : Probe(u)
      BY <1>2
    <2>2. u = t
      BY <1>0, <2>1 DEF Probe
    <2>3. got'[t].taken = clock /\ OfMode(got'[t], mode[t])
      BY <1>0, <2>1, <2>2 DEF Probe, OfMode
    <2>. QED
      BY <1>0, <2>3 DEF SnapAssumption
  <1>3. CASE \E u \in Threads : StoreSlot(u)
    BY <1>0, <1>3 DEF StoreSlot, Answered
  <1>4. CASE \E u \in Threads : Call(u)
    BY <1>0, <1>4 DEF Call
  <1>5. CASE UNCHANGED got
    BY <1>5
  <1>. QED
    BY <1>1, <1>2, <1>3, <1>4, <1>5 DEF SnapNext, snapVars, Tick, CaptureProcs, CaptureFresh, Refuse,
       Work, ClearLight

LEMMA InvLooksDiffer == SnapInv => LooksDiffer
  BY DEF SnapInv, Looking, LooksDiffer

\* Nobody is given a stale snapshot, and the two looks of an execution are two captures.
THEOREM SnapshotsRecent ==
    ASSUME SnapAssumption
    PROVE  SnapSpec => []SnapTypeOK /\ [][GivesRecent /\ LooksDiffer']_snapVars
  <1>1. SnapInit => SnapInv
    BY SnapInvInit
  <1>2. SnapInv /\ [SnapNext]_snapVars => SnapInv' /\ GivesRecent
    BY SnapInvStep, StepGivesRecent
  <1>3. SnapInv => SnapTypeOK /\ LooksDiffer
    BY InvLooksDiffer DEF SnapInv, SnapTypes
  <1>. QED
    BY <1>1, <1>2, <1>3, PTL DEF SnapSpec

-----------------------------------------------------------------------------
(* Processes: Identities tells them apart by their start times; HoldsChild *)
(* says that a call that has not waited for its child keeps the number of  *)
(* its group to itself; Marked follows the process a kill has looked at.   *)


\* A process that no call started is told from those of a call.
Apart == None \notin Shells

Process == [state : {"free", "live", "zombie"}, born : Nat, group : Pids \cup {None},
            tree : Shells \cup {None}, pipe : BOOLEAN, exit : {"none", "zero", "signal"}]

Types ==
    /\ proc \in [Pids -> Process] /\ births \in Nat
    /\ shell \in [Shells -> {"new", "refused", "stdin", "waiting", "reaping", "joining", "done"}]
    /\ child \in [Shells -> Pids \cup {None}]
    /\ expired \in [Shells -> BOOLEAN] /\ timedOut \in [Shells -> BOOLEAN]
    /\ status \in [Shells -> {"none", "zero", "signal"}]
    /\ verdict \in [Shells -> {"none", "ok", "error", "timed out"}]
    /\ signalled = [h \in Shells |-> signalled[h]] /\ killedAt \in [Shells -> Nat]
    /\ kill \in [Kills -> {"new", "read", "confirm", "signal", "after", "verify", "done"}]
    /\ target \in [Kills -> Pids \cup {None}] /\ seen \in [Kills -> Nat \cup {None}]
    /\ still \in [Kills -> BOOLEAN]
    /\ killed \in [Kills -> {"none", "refused", "not found", "reused", "failed", "killed"}]

Unused(p) == proc[p].state = "free"

\* Start times are counted, and no two processes share one.
Identities ==
    /\ \A p \in Pids : IF Unused(p) THEN proc[p].born = 0 ELSE proc[p].born \in 1..births
    /\ \A p, q \in Pids : ~ Unused(p) /\ ~ Unused(q) /\ p # q => proc[p].born # proc[q].born

\* The call has started its child and has not waited for it.
Holding(h) == shell[h] \in {"stdin", "waiting", "reaping"}

\* The number of the child is the child's, and its group is the call's.
HoldsChild(h) == LET c == child[h] IN
    Holding(h) =>
        /\ c \in Pids /\ ~ Unused(c)
        /\ Live(c) => proc[c].tree = h
        /\ proc[c].state = "zombie" => proc[c].exit # "none"
        /\ \A p \in LivePids : proc[p].group = c => proc[p].tree = h

\* How far a call is and what it knows.
Course(h) ==
    /\ Holding(h) \/ shell[h] = "new" => status[h] = "none"
    /\ shell[h] \in {"new", "refused", "stdin"} => ~ timedOut[h]
    /\ timedOut[h] => expired[h] /\ killedAt[h] <= births
    /\ verdict[h] # "none" => shell[h] = "done"
    /\ verdict[h] = "ok" => status[h] = "zero" /\ ~ timedOut[h]
    /\ verdict[h] = "timed out" => timedOut[h]
    /\ signalled[h] \subseteq {h}

ClearsGroup(h) ==
    timedOut[h] =>
        \A p \in Tree(h) : proc[p].born <= killedAt[h] => proc[p].group # child[h]

\* Nobody who is alive started at the time t.
Gone(t) == \A p \in LivePids : proc[p].born # t

\* A process that is still there under the start time a kill has read has the same number,
\* and it is dead once it was seen dead.
Marked(k) ==
    /\ kill[k] \in {"read", "confirm", "signal", "after", "verify"} => target[k] \in Pids
    /\ seen[k] # None =>
          /\ seen[k] <= births
          /\ kill[k] \in {"confirm", "signal", "after", "verify"} =>
                 \A p \in Pids : ~ Unused(p) /\ proc[p].born = seen[k] => p = target[k]
          /\ kill[k] = "verify" /\ ~ still[k] => Gone(seen[k])
          /\ killed[k] = "killed" => kill[k] = "done" /\ Gone(seen[k])
    /\ killed[k] = "killed" => kill[k] = "done"

ProcInv ==
    /\ Types /\ Identities
    /\ \A g, h \in Shells : Holding(g) /\ Holding(h) => g = h
    /\ \A h \in Shells : HoldsChild(h) /\ Course(h) /\ ClearsGroup(h)
    /\ \A k \in Kills : Marked(k)

-----------------------------------------------------------------------------
(* What a step does to the processes                                       *)

\* Some processes end or are waited for.
Fewer ==
    /\ births' = births
    /\ \A p \in Pids : \/ proc'[p] = proc[p]
                       \/ ~ Unused(p) /\ proc'[p] = NoProc
                       \/ /\ ~ Unused(p) /\ proc'[p].state = "zombie"
                          /\ proc'[p].born = proc[p].born /\ proc'[p].group = proc[p].group

\* A process starts under a number that was free, also as a group's.
Starts(q, tree) ==
    /\ births' = births + 1
    /\ Unused(q) /\ \A p \in Pids : ~ Unused(p) => proc[p].group # q
    /\ proc'[q].state = "live" /\ proc'[q].born = births + 1 /\ proc'[q].tree = tree
    /\ \A p \in Pids \ {q} : proc'[p] = proc[p]
More == \E q \in Pids : \E tree : Starts(q, tree)

LEMMA Ending ==
    ASSUME Types, NEW p \in Pids, Live(p), NEW how \in {"zero", "signal"}
    PROVE  /\ Ended(p, how) \in Process
           /\ \/ /\ ChildOf(p) = {} /\ Ended(p, how) = NoProc
              \/ /\ Ended(p, how).state = "zombie" /\ Ended(p, how).exit = how
                 /\ Ended(p, how).born = proc[p].born /\ Ended(p, how).group = proc[p].group
  <1>1. NoProc \in Process
    BY DEF NoProc, Process
  <1>2. proc[p] \in Process
    BY DEF Types
  <1>. QED
    BY <1>1, <1>2 DEF Ended, NoProc, Process

LEMMA Starting ==
    ASSUME Types, NEW q \in Pids, NEW group \in Pids \cup {None}, NEW tree \in Shells \cup {None},
           NEW pipe \in BOOLEAN, Started(q, group, tree, pipe)
    PROVE  /\ proc' \in [Pids -> Process] /\ births' \in Nat
           /\ Starts(q, tree) /\ proc'[q].group = group
  <1> DEFINE new == [state |-> "live", born |-> births + 1, group |-> group, tree |-> tree,
                     pipe |-> pipe, exit |-> "none"]
  <1>1. new \in Process
    <2>1. births \in Nat
      BY DEF Types
    <2>2. births + 1 \in Nat
      BY <2>1
    <2>. QED
      BY <2>2 DEF Process
  <1>2. proc' = [proc EXCEPT ![q] = new] /\ births' = births + 1
    BY DEF Started
  <1>3. new.state = "live" /\ new.born = births + 1 /\ new.tree = tree /\ new.group = group
    OBVIOUS
  <1>4. Unused(q) /\ \A p \in Pids : ~ Unused(p) => proc[p].group # q
    BY DEF Started, Unused
  <1> HIDE DEF new
  <1>5. proc \in [Pids -> Process] /\ births \in Nat
    BY DEF Types
  <1>6. proc' \in [Pids -> Process] /\ proc'[q] = new /\ \A p \in Pids \ {q} : proc'[p] = proc[p]
    BY <1>1, <1>2, <1>5
  <1>. QED
    BY <1>2, <1>3, <1>4, <1>5, <1>6 DEF Starts

LEMMA Forking ==
    ASSUME Types, NEW p \in Pids, Fork(p)
    PROVE  /\ proc' \in [Pids -> Process] /\ births' \in Nat
           /\ \E q \in Pids : /\ Starts(q, proc[p].tree)
                              /\ proc'[q].group \in {q, proc[p].group}
  <1>1. proc[p] \in Process
    BY DEF Types
  <1>2. PICK q \in Pids, group \in {proc[p].group, None}, pipe \in {proc[p].pipe, FALSE} :
             Started(q, IF group = None THEN q ELSE group, proc[p].tree, pipe)
    BY DEF Fork
  <1> DEFINE g == IF group = None THEN q ELSE group
  <1>3. g \in {q, proc[p].group} /\ g \in Pids \cup {None}
    BY <1>1 DEF Process
  <1>4. proc[p].tree \in Shells \cup {None} /\ pipe \in BOOLEAN
    BY <1>1 DEF Process
  <1> HIDE DEF g
  <1>5. Started(q, g, proc[p].tree, pipe)
    BY <1>2 DEF g
  <1>. QED
    BY <1>3, <1>4, <1>5, Starting

\* Some processes end, each for a reason of its own.
Ends(S) ==
    /\ births' = births
    /\ \A p \in Pids : IF p \in S THEN Live(p) /\ \E how \in {"zero", "signal"} : proc'[p] = Ended(p, how)
                       ELSE proc'[p] = proc[p]

LEMMA OsEnds ==
    ASSUME Types, NEW S, Ends(S), proc' = [p \in Pids |-> proc'[p]]
    PROVE  proc' \in [Pids -> Process] /\ Fewer
  <1>1. ASSUME NEW p \in Pids
        PROVE  /\ proc'[p] \in Process
               /\ \/ proc'[p] = proc[p]
                  \/ ~ Unused(p) /\ proc'[p] = NoProc
                  \/ /\ ~ Unused(p) /\ proc'[p].state = "zombie"
                     /\ proc'[p].born = proc[p].born /\ proc'[p].group = proc[p].group
    <2>1. CASE p \in S
      <3>1. PICK how \in {"zero", "signal"} : Live(p) /\ proc'[p] = Ended(p, how)
        BY <2>1 DEF Ends
      <3>. QED
        BY <3>1, Ending DEF Live, Unused
    <2>2. CASE p \notin S
      BY <2>2 DEF Ends, Types
    <2>. QED
      BY <2>1, <2>2
  <1>. QED
    BY <1>1 DEF Ends, Fewer

LEMMA OsExit ==
    ASSUME Types, NEW p \in Pids, Exit(p)
    PROVE  Ends({p}) /\ proc' = [q \in Pids |-> proc'[q]]
  BY ZenonT(60) DEF Exit, Ends, Types

LEMMA OsSignal ==
    ASSUME Types, NEW k \in Kills, Signal(k), target[k] \in Pids
    PROVE  (Ends({}) \/ Ends({target[k]})) /\ proc' = [q \in Pids |-> proc'[q]]
  BY ZenonT(60) DEF Signal, Ends, Types

LEMMA OsKillGroup ==
    ASSUME Types, NEW h \in Shells, KillGroup(h)
    PROVE  Ends(Group(child[h])) /\ proc' = [q \in Pids |-> proc'[q]]
  <1>1. \A p \in Group(child[h]) : p \in Pids /\ Live(p)
    BY DEF Group, LivePids
  <1>. QED
    BY <1>1 DEF KillGroup, Ends

\* The steps that leave the processes alone.
Elsewhere ==
    \/ \E h \in Shells : RefuseCommand(h) \/ WriteStdin(h) \/ Join(h) \/ ReadStdin(h) \/ Expire(h)
    \/ \E k \in Kills : LookUp(k) \/ ReadStartTime(k) \/ Confirm(k) \/ LookAgain(k) \/ VerifyKilled(k)
    \/ SnapshotExpires
    \/ UNCHANGED procVars

LEMMA StepCases ==
    ASSUME [ProcNext]_procVars
    PROVE  \/ \E p \in Pids : Fork(p) \/ Exit(p) \/ Linger(p) \/ ReapLingering(p)
           \/ \E h \in Shells : Spawn(h) \/ KillGroup(h) \/ Reap(h)
           \/ \E k \in Kills : Signal(k)
           \/ Elsewhere
  BY DEF ProcNext, ShellStep, KillStep, Elsewhere

LEMMA ElsewhereStays == Elsewhere => UNCHANGED os
  BY DEF Elsewhere, RefuseCommand, WriteStdin, Join, ReadStdin, Expire, LookUp, ReadStartTime, Confirm,
         LookAgain, VerifyKilled, SnapshotExpires, procVars, os

LEMMA OsMoves ==
    ASSUME Types, \A k \in Kills : Marked(k), \A h \in Shells : HoldsChild(h), [ProcNext]_procVars
    PROVE  proc' \in [Pids -> Process] /\ births' \in Nat /\ (Fewer \/ More)
  <1> USE DEF os
  <1>0. proc \in [Pids -> Process] /\ births \in Nat
    BY DEF Types
  <1>1. ASSUME UNCHANGED os
        PROVE  proc' \in [Pids -> Process] /\ births' \in Nat /\ Fewer
    BY <1>0, <1>1 DEF Fewer
  <1>2. ASSUME NEW S, Ends(S), proc' = [q \in Pids |-> proc'[q]]
        PROVE  proc' \in [Pids -> Process] /\ births' \in Nat /\ Fewer
    BY <1>0, <1>2, OsEnds DEF Ends
  <1>3. ASSUME NEW p \in Pids, Fork(p)
        PROVE  proc' \in [Pids -> Process] /\ births' \in Nat /\ More
    BY <1>3, Forking DEF More
  <1>4. ASSUME NEW h \in Shells, Spawn(h)
        PROVE  proc' \in [Pids -> Process] /\ births' \in Nat /\ More
    <2>1. PICK p \in Pids : Started(p, p, h, TRUE)
      BY <1>4 DEF Spawn
    <2>. QED
      BY <2>1, Starting DEF More
  <1>5. ASSUME NEW p \in Pids, Linger(p)
        PROVE  proc' \in [Pids -> Process] /\ births' \in Nat /\ Fewer
    <2>1. proc[p] \in Process
      BY <1>0
    <2>2. /\ proc' = [proc EXCEPT ![p] = [proc[p] EXCEPT !.state = "zombie"]]
          /\ births' = births /\ ~ Unused(p)
      BY <1>5 DEF Linger, Live, Unused
    <2>3. /\ [proc[p] EXCEPT !.state = "zombie"] \in Process
          /\ [proc[p] EXCEPT !.state = "zombie"].state = "zombie"
          /\ [proc[p] EXCEPT !.state = "zombie"].born = proc[p].born
          /\ [proc[p] EXCEPT !.state = "zombie"].group = proc[p].group
      BY <2>1 DEF Process
    <2>. QED
      BY <1>0, <2>2, <2>3 DEF Fewer
  <1>6. ASSUME NEW p \in Pids, proc[p].state = "zombie", births' = births,
               proc' = [proc EXCEPT ![p] = NoProc]
        PROVE  proc' \in [Pids -> Process] /\ births' \in Nat /\ Fewer
    <2>1. NoProc \in Process
      BY DEF NoProc, Process
    <2>. QED
      BY <1>0, <1>6, <2>1 DEF Fewer, Unused
  <1>7. ASSUME NEW h \in Shells, Reap(h)
        PROVE  child[h] \in Pids
    BY <1>7 DEF Reap, HoldsChild, Holding
  <1>8. ASSUME NEW k \in Kills, Signal(k)
        PROVE  target[k] \in Pids
    BY <1>8 DEF Signal, Marked
  <1>. QED
    BY <1>1, <1>2, <1>3, <1>4, <1>5, <1>6, <1>7, <1>8, StepCases, ElsewhereStays, OsExit, OsSignal,
       OsKillGroup DEF ReapLingering, Reap

LEMMA IdentitiesStep ==
    ASSUME Types, Identities, proc' \in [Pids -> Process], births' \in Nat, Fewer \/ More
    PROVE  Identities'
  <1>1. proc \in [Pids -> Process] /\ births \in Nat
    BY DEF Types
  <1>2. CASE Fewer
    BY <1>1, <1>2 DEF Identities, Fewer, Unused, NoProc
  <1>3. CASE More
    <2>1. PICK q \in Pids : /\ births' = births + 1 /\ Unused(q)
                            /\ proc'[q].state = "live" /\ proc'[q].born = births + 1
                            /\ \A p \in Pids \ {q} : proc'[p] = proc[p]
      BY <1>3 DEF More, Starts
    <2>2. \A p \in Pids : ~ Unused(p) => proc[p].born < births + 1 /\ proc[p].born \in 1..(births + 1)
      BY <1>1 DEF Identities
    <2>. QED
      BY <1>1, <2>1, <2>2 DEF Identities, Unused
  <1>. QED
    BY <1>2, <1>3

\* Who was alive after the step was alive before it, or is younger than everybody then.
LEMMA Survivors ==
    ASSUME Types, Fewer \/ More
    PROVE  /\ births' >= births
           /\ \A p \in Pids : Live(p)' =>
                  \/ Live(p) /\ proc'[p] = proc[p]
                  \/ proc'[p].born = births + 1
           /\ \A p \in Pids : ~ Unused(p)' =>
                  \/ ~ Unused(p) /\ proc'[p].born = proc[p].born /\ proc'[p].group = proc[p].group
                  \/ proc'[p].born = births + 1
  <1>1. proc \in [Pids -> Process] /\ births \in Nat
    BY DEF Types
  <1>2. CASE Fewer
    BY <1>1, <1>2 DEF Fewer, Unused, Live, NoProc
  <1>3. CASE More
    <2>1. PICK q \in Pids : /\ births' = births + 1
                            /\ proc'[q].born = births + 1
                            /\ \A p \in Pids \ {q} : proc'[p] = proc[p]
      BY <1>3 DEF More, Starts
    <2>. QED
      BY <1>1, <2>1 DEF Unused, Live
  <1>. QED
    BY <1>2, <1>3

LEMMA GoneForGood ==
    ASSUME Types, Fewer \/ More, NEW t \in Nat, t <= births, Gone(t)
    PROVE  Gone(t)'
  <1>0. births \in Nat
    BY DEF Types
  <1>1. t # births + 1
    BY <1>0
  <1>2. ASSUME NEW p \in Pids, Live(p)'
        PROVE  proc'[p].born # t
    BY <1>1, <1>2, Survivors DEF Gone, LivePids
  <1>. QED
    BY <1>2 DEF Gone, LivePids

-----------------------------------------------------------------------------
(* Kill                                                                    *)

\* Only the process number p can have started at the time t.
Only(p, t) == \A q \in Pids : ~ Unused(q) /\ proc[q].born = t => q = p

LEMMA OnlyStays ==
    ASSUME Types, Fewer \/ More, NEW p, NEW t \in Nat, t <= births, Only(p, t)
    PROVE  Only(p, t)'
  <1>1. births \in Nat
    BY DEF Types
  <1>2. t # births + 1
    BY <1>1
  <1>3. ASSUME NEW q \in Pids, ~ Unused(q)', proc'[q].born = t
        PROVE  q = p
    BY <1>2, <1>3, Survivors DEF Only
  <1>. QED
    BY <1>3 DEF Only

LEMMA MarkedFrame ==
    ASSUME Types, Fewer \/ More, births' \in Nat, NEW k \in Kills, Marked(k),
           target'[k] = target[k], seen'[k] = seen[k], still'[k] = still[k], killed'[k] = killed[k],
           kill'[k] = kill[k] \/ (kill[k] = "signal" /\ kill'[k] = "after")
    PROVE  Marked(k)'
  <1>1. /\ kill'[k] \in {"read", "confirm", "signal", "after", "verify"} => target'[k] \in Pids
        /\ killed'[k] = "killed" => kill'[k] = "done"
    BY DEF Marked
  <1>2. CASE seen[k] # None
    <2>1. births \in Nat
      BY DEF Types
    <2>2. PICK t \in Nat : t = seen[k] /\ t <= births
      BY <1>2 DEF Types, Marked
    <2>3. seen'[k] = t /\ t <= births'
      BY <2>1, <2>2, Survivors
    <2>4. Gone(t) => Gone(t)'
      BY <2>2, GoneForGood
    <2>5. PICK p : p = target[k]
      OBVIOUS
    <2>6. Only(p, t) => Only(p, t)'
      BY <2>2, OnlyStays
    <2>7. kill'[k] \in {"confirm", "signal", "after", "verify"} =>
             \A q \in Pids : ~ Unused(q)' /\ proc'[q].born = t => q = target'[k]
      <3>1. kill'[k] \in {"confirm", "signal", "after", "verify"} => Only(p, t)
        BY <1>2, <2>2, <2>5 DEF Marked, Only
      <3>. QED
        BY <2>5, <2>6, <3>1 DEF Only
    <2>8. kill'[k] = "verify" /\ ~ still'[k] => Gone(t)'
      BY <1>2, <2>2, <2>4 DEF Marked
    <2>9. killed'[k] = "killed" => kill'[k] = "done" /\ Gone(t)'
      BY <1>1, <1>2, <2>2, <2>4 DEF Marked
    <2>. QED
      BY <1>1, <2>3, <2>7, <2>8, <2>9 DEF Marked, Gone
  <1>3. CASE seen[k] = None
    BY <1>1, <1>3 DEF Marked
  <1>. QED
    BY <1>2, <1>3

LEMMA MarkedStep ==
    ASSUME Types, Identities, \A k \in Kills : Marked(k), Fewer \/ More, births' \in Nat,
           [ProcNext]_procVars
    PROVE  \A k \in Kills : Marked(k)'
  <1> USE DEF os, shells, kills
  <1>1. ASSUME UNCHANGED kills
        PROVE  \A k \in Kills : Marked(k)'
    BY <1>1, MarkedFrame
  <1>2. ASSUME NEW k \in Kills, NEW j \in Kills \ {k}, KillStep(k)
        PROVE  Marked(j)'
    <2>1. /\ target'[j] = target[j] /\ seen'[j] = seen[j] /\ still'[j] = still[j]
          /\ killed'[j] = killed[j] /\ kill'[j] = kill[j]
      BY <1>2, ZenonT(60) DEF KillStep, LookUp, ReadStartTime, Confirm, Signal, LookAgain, VerifyKilled, Types
    <2>. QED
      BY <2>1, MarkedFrame
  <1>3. ASSUME NEW k \in Kills, LookUp(k)
        PROVE  Marked(k)'
    <2>1. /\ UNCHANGED <<proc, births, seen>> /\ target'[k] \in Pids
          /\ kill'[k] \in {"read", "done"}
      BY <1>3 DEF LookUp, Types
    <2>2. killed'[k] # "killed"
      <3>1. killed[k] # "killed"
        BY <1>3 DEF LookUp, Types, Marked
      <3>2. killed'[k] = killed[k] \/ killed'[k] # "killed"
        BY <1>3 DEF LookUp, Types
      <3>. QED
        BY <3>1, <3>2
    <2>. QED
      BY <2>1, <2>2 DEF Marked
  <1>4. ASSUME NEW k \in Kills, ReadStartTime(k)
        PROVE  Marked(k)'
    <2>1. /\ UNCHANGED <<proc, births, target, killed>> /\ target[k] \in Pids
          /\ kill[k] = "read" /\ kill'[k] = "confirm"
          /\ seen'[k] = StartTime(target[k])
      BY <1>4 DEF ReadStartTime, Types, Marked
    <2>2. seen'[k] # None => ~ Unused(target[k]) /\ seen'[k] = proc[target[k]].born
      BY <2>1 DEF StartTime, Unused
    <2>3. killed'[k] # "killed"
      BY <2>1 DEF Marked
    <2>4. births \in Nat
      BY DEF Types
    <2>5. seen'[k] # None =>
             seen'[k] <= births /\ \A p \in Pids : ~ Unused(p) /\ proc[p].born = seen'[k] => p = target[k]
      BY <2>1, <2>2, <2>4 DEF Identities
    <2>. QED
      BY <2>1, <2>3, <2>5 DEF Marked, Unused
  <1>5. ASSUME NEW k \in Kills, Confirm(k)
        PROVE  Marked(k)'
    <2>1. /\ UNCHANGED <<proc, births, target, seen>>
          /\ kill[k] = "confirm" /\ kill'[k] \in {"signal", "done"}
      BY <1>5 DEF Confirm, Types
    <2>2. killed'[k] # "killed"
      BY <1>5, <2>1 DEF Confirm, Types, Marked
    <2>. QED
      BY <2>1, <2>2 DEF Marked, Unused
  <1>6. ASSUME NEW k \in Kills, Signal(k)
        PROVE  Marked(k)'
    <2>1. /\ UNCHANGED <<target, seen, still, killed>>
          /\ kill[k] = "signal" /\ kill'[k] = "after"
      BY <1>6 DEF Signal, Types
    <2>. QED
      BY <2>1, MarkedFrame
  <1>7. ASSUME NEW k \in Kills, LookAgain(k)
        PROVE  Marked(k)'
    <2>1. /\ UNCHANGED <<proc, births, target, seen, killed>>
          /\ kill[k] = "after" /\ kill'[k] = "verify" /\ still'[k] = Live(target[k])
      BY <1>7 DEF LookAgain, Types
    <2>2. seen[k] # None /\ ~ Live(target[k]) => Gone(seen[k])
      BY <2>1 DEF Marked, Gone, LivePids, Live, Unused
    <2>3. killed[k] # "killed"
      BY <2>1 DEF Marked
    <2>. QED
      BY <2>1, <2>2, <2>3 DEF Marked, Unused, Gone, LivePids, Live
  <1>8. ASSUME NEW k \in Kills, VerifyKilled(k)
        PROVE  Marked(k)'
    <2>1. /\ UNCHANGED <<proc, births, target, seen, still>>
          /\ kill[k] = "verify" /\ kill'[k] = "done" /\ killed'[k] = KillAnswer(k)
      BY <1>8 DEF VerifyKilled, Types
    <2>2. killed'[k] = "killed" => ~ still[k]
      BY <2>1 DEF KillAnswer
    <2>. QED
      BY <2>1, <2>2 DEF Marked, Gone, LivePids, Live
  <1>9. ASSUME NEW h \in Shells, ShellStep(h) \/ ReadStdin(h) \/ Expire(h)
        PROVE  UNCHANGED kills
    BY <1>9 DEF ShellStep, RefuseCommand, Spawn, WriteStdin, KillGroup, Reap, Join, ReadStdin, Expire
  <1>10. ASSUME NEW p \in Pids, Fork(p) \/ Exit(p) \/ Linger(p) \/ ReapLingering(p)
         PROVE  UNCHANGED kills
    BY <1>10 DEF Fork, Exit, Linger, ReapLingering
  <1>11. ASSUME SnapshotExpires \/ UNCHANGED procVars
         PROVE  UNCHANGED kills
    BY <1>11 DEF SnapshotExpires, procVars
  <1>12. ASSUME NEW k \in Kills, KillStep(k)
         PROVE  \A j \in Kills : Marked(j)'
    BY <1>2, <1>3, <1>4, <1>5, <1>6, <1>7, <1>8, <1>12 DEF KillStep
  <1>. QED
    BY <1>1, <1>9, <1>10, <1>11, <1>12 DEF ProcNext

-----------------------------------------------------------------------------
(* ShellExec                                                               *)

LEMMA TypesStep ==
    ASSUME Types, \A h \in Shells : HoldsChild(h), \A k \in Kills : Marked(k),
           proc' \in [Pids -> Process], births' \in Nat, [ProcNext]_procVars
    PROVE  Types'
  <1> USE DEF os, shells, kills
  <1>1. ASSUME UNCHANGED <<shells, kills>>
        PROVE  Types'
    BY <1>1 DEF Types
  <1>2. ASSUME NEW p \in Pids, Fork(p) \/ Exit(p) \/ Linger(p) \/ ReapLingering(p)
        PROVE  UNCHANGED <<shells, kills>>
    BY <1>2 DEF Fork, Exit, Linger, ReapLingering
  <1>3. ASSUME NEW h \in Shells, ShellStep(h) \/ ReadStdin(h) \/ Expire(h)
        PROVE  Types'
    <2>1. shell' \in [Shells -> {"new", "refused", "stdin", "waiting", "reaping", "joining", "done"}]
      <3>1. \/ shell' = shell
            \/ \E at \in {"refused", "stdin", "waiting", "reaping", "joining", "done"} :
                  shell' = [shell EXCEPT ![h] = at]
        BY <1>3 DEF ShellStep, RefuseCommand, Spawn, WriteStdin, KillGroup, Reap, Join, ReadStdin, Expire
      <3>. QED
        BY <3>1 DEF Types
    <2>2. child' \in [Shells -> Pids \cup {None}]
      BY <1>3 DEF ShellStep, RefuseCommand, Spawn, WriteStdin, KillGroup, Reap, Join, ReadStdin, Expire, Types
    <2>3. /\ expired' \in [Shells -> BOOLEAN] /\ timedOut' \in [Shells -> BOOLEAN]
          /\ killedAt' \in [Shells -> Nat]
          /\ signalled' = [g \in Shells |-> signalled'[g]]
      BY <1>3, ZenonT(60) DEF ShellStep, RefuseCommand, Spawn, WriteStdin, KillGroup, Reap, Join, ReadStdin, Expire, Types
    <2>4. status' \in [Shells -> {"none", "zero", "signal"}]
      <3>1. CASE Reap(h)
        <4>1. \A p \in Pids : proc[p].exit \in {"none", "zero", "signal"}
          BY DEF Types, Process
        <4>2. child[h] \in Pids
          BY <3>1 DEF Reap, HoldsChild, Holding
        <4>. QED
          BY <3>1, <4>1, <4>2 DEF Reap, Types
      <3>2. CASE ~ Reap(h)
        BY <1>3, <3>2 DEF ShellStep, RefuseCommand, Spawn, WriteStdin, KillGroup, Join, ReadStdin, Expire, Types
      <3>. QED
        BY <3>1, <3>2
    <2>5. verdict' \in [Shells -> {"none", "ok", "error", "timed out"}]
      BY <1>3 DEF ShellStep, RefuseCommand, Spawn, WriteStdin, KillGroup, Reap, Join, ShellAnswer, ReadStdin,
             Expire, Types
    <2>6. UNCHANGED kills
      BY <1>3 DEF ShellStep, RefuseCommand, Spawn, WriteStdin, KillGroup, Reap, Join, ReadStdin, Expire
    <2>. QED
      BY <2>1, <2>2, <2>3, <2>4, <2>5, <2>6 DEF Types
  <1>4. ASSUME NEW k \in Kills, KillStep(k)
        PROVE  Types'
    <2>1. kill' \in [Kills -> {"new", "read", "confirm", "signal", "after", "verify", "done"}]
      <3>1. \E at \in {"read", "confirm", "signal", "after", "verify", "done"} :
               kill' = [kill EXCEPT ![k] = at]
        BY <1>4 DEF KillStep, LookUp, ReadStartTime, Confirm, Signal, LookAgain, VerifyKilled
      <3>. QED
        BY <3>1 DEF Types
    <2>2. target' \in [Kills -> Pids \cup {None}] /\ still' \in [Kills -> BOOLEAN]
      BY <1>4, ZenonT(60) DEF KillStep, LookUp, ReadStartTime, Confirm, Signal, LookAgain, VerifyKilled, Live, Types
    <2>3. killed' \in [Kills -> {"none", "refused", "not found", "reused", "failed", "killed"}]
      BY <1>4, ZenonT(60) DEF KillStep, LookUp, ReadStartTime, Confirm, Signal, LookAgain, VerifyKilled,
             KillAnswer, Types
    <2>4. seen' \in [Kills -> Nat \cup {None}]
      <3>1. CASE ReadStartTime(k)
        <4>1. target[k] \in Pids
          BY <3>1 DEF ReadStartTime, Marked
        <4>2. StartTime(target[k]) \in Nat \cup {None}
          BY <4>1 DEF StartTime, Types, Process
        <4>. QED
          BY <3>1, <4>2 DEF ReadStartTime, Types
      <3>2. CASE ~ ReadStartTime(k)
        BY <1>4, <3>2 DEF KillStep, LookUp, Confirm, Signal, LookAgain, VerifyKilled, Types
      <3>. QED
        BY <3>1, <3>2
    <2>5. UNCHANGED shells
      BY <1>4 DEF KillStep, LookUp, ReadStartTime, Confirm, Signal, LookAgain, VerifyKilled
    <2>. QED
      BY <2>1, <2>2, <2>3, <2>4, <2>5 DEF Types
  <1>5. ASSUME SnapshotExpires \/ UNCHANGED procVars
        PROVE  UNCHANGED <<shells, kills>>
    BY <1>5 DEF SnapshotExpires, procVars
  <1>. QED
    BY <1>1, <1>2, <1>3, <1>4, <1>5 DEF ProcNext

\* A step leaves the calls alone, or all calls but one.
SameCall(h) ==
    /\ shell'[h] = shell[h] /\ child'[h] = child[h] /\ expired'[h] = expired[h]
    /\ status'[h] = status[h] /\ timedOut'[h] = timedOut[h] /\ verdict'[h] = verdict[h]
    /\ signalled'[h] = signalled[h] /\ killedAt'[h] = killedAt[h]

LEMMA CallSteps ==
    ASSUME Types, [ProcNext]_procVars, NEW h \in Shells
    PROVE  \/ SameCall(h)
           \/ ShellStep(h) \/ Expire(h)
  <1> USE DEF os, shells, kills
  <1>1. ASSUME NEW g \in Shells \ {h}, ShellStep(g) \/ ReadStdin(g) \/ Expire(g)
        PROVE  SameCall(h)
    <2>1. shell'[h] = shell[h] /\ child'[h] = child[h]
      BY <1>1 DEF ShellStep, RefuseCommand, Spawn, WriteStdin, KillGroup, Reap, Join, ReadStdin, Expire, Types
    <2>2. expired'[h] = expired[h] /\ status'[h] = status[h] /\ timedOut'[h] = timedOut[h]
      BY <1>1 DEF ShellStep, RefuseCommand, Spawn, WriteStdin, KillGroup, Reap, Join, ReadStdin, Expire, Types
    <2>3. verdict'[h] = verdict[h] /\ killedAt'[h] = killedAt[h]
      BY <1>1 DEF ShellStep, RefuseCommand, Spawn, WriteStdin, KillGroup, Reap, Join, ReadStdin, Expire, Types
    <2>4. signalled'[h] = signalled[h]
      BY <1>1 DEF ShellStep, RefuseCommand, Spawn, WriteStdin, KillGroup, Reap, Join, ReadStdin, Expire, Types
    <2>. QED
      BY <2>1, <2>2, <2>3, <2>4 DEF SameCall
  <1>2. ASSUME UNCHANGED <<shell, child, expired, status, timedOut, verdict, signalled, killedAt>>
        PROVE  SameCall(h)
    BY <1>2 DEF SameCall
  <1>3. ASSUME NEW k \in Kills, KillStep(k)
        PROVE  UNCHANGED shells
    BY <1>3 DEF KillStep, LookUp, ReadStartTime, Confirm, Signal, LookAgain, VerifyKilled
  <1>4. ASSUME NEW p \in Pids, Fork(p) \/ Exit(p) \/ Linger(p) \/ ReapLingering(p)
        PROVE  UNCHANGED shells
    BY <1>4 DEF Fork, Exit, Linger, ReapLingering
  <1>5. ASSUME SnapshotExpires \/ UNCHANGED procVars
        PROVE  UNCHANGED shells
    BY <1>5 DEF SnapshotExpires, procVars
  <1>6. ASSUME ReadStdin(h)
        PROVE  SameCall(h)
    BY <1>2, <1>6 DEF ReadStdin
  <1>. QED
    BY <1>1, <1>2, <1>3, <1>4, <1>5, <1>6 DEF ProcNext

LEMMA CourseStep ==
    ASSUME Types, \A h \in Shells : HoldsChild(h) /\ Course(h), births' \in Nat, Fewer \/ More,
           [ProcNext]_procVars
    PROVE  \A h \in Shells : Course(h)'
  <1> SUFFICES ASSUME NEW h \in Shells
               PROVE  Course(h)'
    OBVIOUS
  <1>0. killedAt[h] \in Nat /\ births \in Nat /\ births <= births'
    BY Survivors DEF Types
  <1>1. births <= births' /\ (killedAt[h] <= births => killedAt[h] <= births')
    BY <1>0
  <1>2. CASE SameCall(h)
    <2>1. Course(h)
      OBVIOUS
    <2>. QED
      BY <1>1, <1>2, <2>1 DEF SameCall, Course, Holding
  <1>3. CASE RefuseCommand(h) \/ WriteStdin(h)
    <2>1. /\ UNCHANGED <<births, status, timedOut, expired, killedAt, verdict, signalled>>
          /\ \/ shell[h] = "new" /\ shell'[h] = "refused"
             \/ shell[h] = "stdin" /\ shell'[h] = "waiting"
      BY <1>3 DEF RefuseCommand, WriteStdin, Types, os
    <2>. QED
      BY <2>1 DEF Course, Holding
  <1>4. CASE Expire(h)
    <2>1. /\ UNCHANGED <<births, status, timedOut, shell, killedAt, verdict, signalled>>
          /\ expired'[h] = TRUE
      BY <1>4 DEF Expire, Types, os
    <2>. QED
      BY <2>1 DEF Course, Holding
  <1>5. CASE Spawn(h)
    <2>1. /\ UNCHANGED <<status, timedOut, expired, killedAt, verdict, signalled>>
          /\ shell[h] = "new" /\ shell'[h] \in {"stdin", "waiting"}
      BY <1>5 DEF Spawn, Types
    <2>2. status[h] = "none"
      BY <2>1 DEF Course
    <2>. QED
      BY <1>1, <2>1, <2>2 DEF Course, Holding
  <1>6. CASE KillGroup(h)
    <2>1. /\ UNCHANGED <<births, expired, status, verdict>>
          /\ shell[h] = "waiting" /\ expired[h] /\ shell'[h] = "reaping"
          /\ timedOut'[h] = TRUE /\ killedAt'[h] = births
      BY <1>6 DEF KillGroup, Types
    <2>2. signalled'[h] = signalled[h] \cup {proc[p].tree : p \in Group(child[h])}
      BY <1>6 DEF KillGroup, Types
    <2>3. \A p \in Group(child[h]) : proc[p].tree = h
      BY <2>1 DEF HoldsChild, Holding, Group
    <2>4. signalled'[h] \subseteq {h}
      <3>1. signalled[h] \subseteq {h}
        BY DEF Course
      <3>. QED
        BY <2>2, <2>3, <3>1
    <2>. QED
      BY <1>1, <2>1, <2>4 DEF Course, Holding
  <1>7. CASE Reap(h)
    <2>1. /\ UNCHANGED <<births, expired, timedOut, killedAt, verdict, signalled>>
          /\ shell[h] \in {"reaping", "waiting"} /\ shell'[h] = "joining"
      BY <1>7 DEF Reap, Types
    <2>. QED
      BY <2>1 DEF Course, Holding
  <1>8. CASE Join(h)
    <2>1. /\ UNCHANGED <<births, expired, timedOut, status, killedAt, signalled>>
          /\ shell'[h] = "done" /\ verdict'[h] = ShellAnswer(h)
      BY <1>8 DEF Join, Types, os
    <2>. QED
      BY <2>1 DEF Course, Holding, ShellAnswer
  <1>. QED
    BY <1>2, <1>3, <1>4, <1>5, <1>6, <1>7, <1>8, CallSteps DEF ShellStep

LEMMA HoldingSteps ==
    ASSUME Types, [ProcNext]_procVars, NEW h \in Shells, Holding(h)'
    PROVE  \/ Holding(h) /\ child'[h] = child[h] /\ ~ Reap(h)
           \/ Spawn(h)
  <1>1. CASE SameCall(h)
    BY <1>1 DEF SameCall, Holding, Reap, Types
  <1>2. CASE WriteStdin(h) \/ KillGroup(h) \/ Expire(h)
    <2>1. child' = child /\ Holding(h) /\ shell'[h] # "joining"
      BY <1>2 DEF WriteStdin, KillGroup, Expire, Holding, Types
    <2>. QED
      BY <2>1 DEF Reap, Types
  <1>3. CASE RefuseCommand(h) \/ Reap(h) \/ Join(h)
    BY <1>3 DEF RefuseCommand, Reap, Join, Holding, Types
  <1>. QED
    BY <1>1, <1>2, <1>3, CallSteps DEF ShellStep

LEMMA AloneStep ==
    ASSUME Types, \A g, h \in Shells : Holding(g) /\ Holding(h) => g = h, [ProcNext]_procVars
    PROVE  \A g, h \in Shells : Holding(g)' /\ Holding(h)' => g = h
  <1>1. ASSUME NEW g \in Shells, NEW h \in Shells, g # h, Spawn(h)
        PROVE  ~ Holding(g)'
    BY <1>1 DEF Spawn, Idle, Holding, Types
  <1>. QED
    BY <1>1, HoldingSteps

\* The child of a call that holds it, through a step that starts nothing in its group.
LEMMA HoldsFrame ==
    ASSUME Types, NEW h \in Shells, HoldsChild(h), Holding(h), child'[h] = child[h],
           LET c == child[h] IN
           /\ \/ proc'[c] = proc[c]
              \/ proc'[c].state = "zombie" /\ proc'[c].exit # "none"
           /\ \A p \in Pids : Live(p)' /\ proc'[p].group = c =>
                  \/ Live(p) /\ proc'[p] = proc[p]
                  \/ proc'[p].tree = h
    PROVE  HoldsChild(h)'
  BY DEF HoldsChild, Live, Unused, LivePids

LEMMA HoldsStep ==
    ASSUME Apart, Types, [ProcNext]_procVars,
           \A g, h \in Shells : Holding(g) /\ Holding(h) => g = h,
           \A h \in Shells : HoldsChild(h) /\ Course(h), \A k \in Kills : Marked(k)
    PROVE  \A h \in Shells : HoldsChild(h)'
  <1> SUFFICES ASSUME NEW h \in Shells, Holding(h)'
               PROVE  HoldsChild(h)'
    BY DEF HoldsChild
  <1> USE DEF os
  <1>0. proc \in [Pids -> Process] /\ births \in Nat
    BY DEF Types
  <1>1. CASE Spawn(h)
    <2>1. PICK p \in Pids : Started(p, p, h, TRUE) /\ child' = [child EXCEPT ![h] = p]
      BY <1>1 DEF Spawn
    <2>2. child'[h] = p
      BY <2>1 DEF Types
    <2>3. Starts(p, h) /\ proc'[p].group = p
      BY <2>1, Starting
    <2>4. \A q \in Pids : Live(q)' /\ proc'[q].group = p => q = p
      BY <2>3 DEF Starts, Live, Unused
    <2>. QED
      BY <2>2, <2>3, <2>4 DEF HoldsChild, Starts, Live, Unused, LivePids
  <1>2. CASE Holding(h) /\ child'[h] = child[h] /\ ~ Reap(h)
    <2> DEFINE c == child[h]
    <2>1. /\ c \in Pids /\ ~ Unused(c) /\ (Live(c) => proc[c].tree = h)
          /\ \A p \in LivePids : proc[p].group = c => proc[p].tree = h
          /\ h \in ChildOf(c)
      BY <1>2 DEF HoldsChild, Course, ChildOf
    <2>2. ASSUME UNCHANGED os
          PROVE  HoldsChild(h)'
      BY <1>2, <2>2, HoldsFrame DEF Live
    <2>3. ASSUME NEW p \in Pids, Fork(p)
          PROVE  HoldsChild(h)'
      <3>1. PICK q \in Pids : Starts(q, proc[p].tree) /\ proc'[q].group \in {q, proc[p].group}
        BY <2>3, Forking
      <3>2. q # c /\ proc'[q].tree = proc[p].tree /\ \A x \in Pids \ {q} : proc'[x] = proc[x]
        BY <2>1, <3>1 DEF Starts
      <3>3. proc'[q].group = c => proc'[q].tree = h
        BY <2>1, <2>3, <3>1, <3>2 DEF Fork, LivePids
      <3>4. \A x \in Pids : Live(x)' /\ proc'[x].group = c =>
               (Live(x) /\ proc'[x] = proc[x]) \/ proc'[x].tree = h
        BY <3>2, <3>3 DEF Live
      <3>. QED
        BY <1>2, <2>1, <3>2, <3>4, HoldsFrame
    <2>4. ASSUME NEW S, Ends(S)
          PROVE  HoldsChild(h)'
      <3>1. ASSUME NEW x \in S, x \in Pids
            PROVE  /\ ~ Live(x)'
                   /\ ChildOf(x) # {} => proc'[x].state = "zombie" /\ proc'[x].exit # "none"
        <4>1. PICK how \in {"zero", "signal"} : Live(x) /\ proc'[x] = Ended(x, how)
          BY <2>4, <3>1 DEF Ends
        <4>. QED
          BY <3>1, <4>1, Ending DEF Live, NoProc
      <3>2. \A x \in Pids : x \notin S => proc'[x] = proc[x]
        BY <2>4 DEF Ends
      <3>3. \/ proc'[c] = proc[c]
            \/ proc'[c].state = "zombie" /\ proc'[c].exit # "none"
        BY <2>1, <3>1, <3>2
      <3>4. \A x \in Pids : Live(x)' => Live(x) /\ proc'[x] = proc[x]
        BY <3>1, <3>2 DEF Live
      <3>. QED
        BY <1>2, <3>3, <3>4, HoldsFrame
    <2>5. ASSUME NEW p \in Pids, p # c,
                 \A x \in Pids \ {p} : proc'[x] = proc[x], ~ Live(p)'
          PROVE  HoldsChild(h)'
      <3>1. \A x \in Pids : Live(x)' => Live(x) /\ proc'[x] = proc[x]
        BY <2>5 DEF Live
      <3>. QED
        BY <1>2, <2>1, <2>5, <3>1, HoldsFrame
    <2>6. ASSUME NEW p \in Pids, Linger(p)
          PROVE  HoldsChild(h)'
      <3>1. Live(p) /\ p # c
        BY <2>1, <2>6 DEF Linger, Apart
      <3>2. /\ proc' = [proc EXCEPT ![p] = [proc[p] EXCEPT !.state = "zombie"]]
            /\ proc[p] \in Process
        BY <1>0, <2>6 DEF Linger
      <3>3. [proc[p] EXCEPT !.state = "zombie"].state = "zombie"
        BY <3>2 DEF Process
      <3>4. \A x \in Pids \ {p} : proc'[x] = proc[x]
        BY <1>0, <3>2
      <3>5. ~ Live(p)'
        BY <1>0, <3>2, <3>3 DEF Live
      <3>. QED
        BY <2>5, <3>1, <3>4, <3>5
    <2>7. ASSUME NEW p \in Pids, ReapLingering(p)
          PROVE  HoldsChild(h)'
      <3>1. p # c
        BY <2>1, <2>7 DEF ReapLingering
      <3>2. ~ Live(p)' /\ \A x \in Pids \ {p} : proc'[x] = proc[x]
        BY <1>0, <2>7 DEF ReapLingering, Live, NoProc
      <3>. QED
        BY <2>5, <3>1, <3>2
    <2>8. ASSUME NEW g \in Shells, Spawn(g)
          PROVE  FALSE
      BY <1>2, <2>8 DEF Spawn, Idle, Holding
    <2>9. ASSUME NEW g \in Shells, Reap(g)
          PROVE  FALSE
      BY <1>2, <2>9 DEF Reap, Holding
    <2>10. ASSUME NEW k \in Kills, Signal(k)
           PROVE  target[k] \in Pids
      BY <2>10 DEF Signal, Marked
    <2>. QED
      BY <2>2, <2>3, <2>4, <2>6, <2>7, <2>8, <2>9, <2>10, StepCases, ElsewhereStays, OsExit, OsSignal,
         OsKillGroup
  <1>. QED
    BY <1>1, <1>2, HoldingSteps

LEMMA ClearedStep ==
    ASSUME Types, \A h \in Shells : Course(h) /\ ClearsGroup(h), Fewer \/ More, [ProcNext]_procVars
    PROVE  \A h \in Shells : ClearsGroup(h)'
  <1> SUFFICES ASSUME NEW h \in Shells, timedOut'[h]
               PROVE  ClearsGroup(h)'
    BY DEF ClearsGroup
  <1>1. CASE KillGroup(h)
    <2>1. child'[h] = child[h] /\ Ends(Group(child[h]))
      BY <1>1, OsKillGroup DEF KillGroup
    <2>2. ASSUME NEW p \in Pids, Live(p)'
          PROVE  proc'[p].group # child[h]
      <3>1. CASE p \in Group(child[h])
        <4>1. PICK how \in {"zero", "signal"} : Live(p) /\ proc'[p] = Ended(p, how)
          BY <2>1, <3>1 DEF Ends
        <4>. QED
          BY <2>2, <4>1, Ending DEF Live, NoProc
      <3>2. CASE p \notin Group(child[h])
        BY <2>1, <2>2, <3>2 DEF Ends, Group, LivePids, Live
      <3>. QED
        BY <3>1, <3>2
    <2>. QED
      BY <2>1, <2>2 DEF ClearsGroup, Tree, LivePids
  <1>2. CASE timedOut[h] /\ child'[h] = child[h] /\ killedAt'[h] = killedAt[h]
    <2>1. killedAt[h] \in Nat /\ births \in Nat /\ killedAt[h] <= births
      BY <1>2 DEF Types, Course
    <2>2. ~ (births + 1 <= killedAt[h])
      BY <2>1
    <2>3. ASSUME NEW p \in Pids, Live(p)', proc'[p].tree = h, proc'[p].born <= killedAt[h]
          PROVE  proc'[p].group # child[h]
      <3>1. Live(p) /\ proc'[p] = proc[p]
        BY <2>2, <2>3, Survivors
      <3>. QED
        BY <1>2, <2>3, <3>1 DEF ClearsGroup, Tree, LivePids
    <2>. QED
      BY <1>2, <2>3 DEF ClearsGroup, Tree, LivePids
  <1>3. SameCall(h) => timedOut[h] /\ child'[h] = child[h] /\ killedAt'[h] = killedAt[h]
    BY DEF SameCall
  <1>4. RefuseCommand(h) \/ WriteStdin(h) \/ Reap(h) \/ Join(h) \/ Expire(h) =>
           timedOut[h] /\ child'[h] = child[h] /\ killedAt'[h] = killedAt[h]
    BY DEF RefuseCommand, WriteStdin, Reap, Join, Expire
  <1>5. ~ Spawn(h)
    BY DEF Spawn, Course
  <1>. QED
    BY <1>1, <1>2, <1>3, <1>4, <1>5, CallSteps DEF ShellStep

-----------------------------------------------------------------------------
(* The inductive invariant and what it shows                               *)

LEMMA ProcInvInit == ProcInit => ProcInv
  <1> SUFFICES ASSUME ProcInit
               PROVE  ProcInv
    OBVIOUS
  <1>1. PICK p \in Pids : proc = [q \in Pids |-> IF q # p THEN NoProc
                                  ELSE [NoProc EXCEPT !.state = "live", !.born = 1, !.group = p]]
    BY DEF ProcInit
  <1>2. births = 1
    BY DEF ProcInit
  <1>3. /\ proc[p].state = "live" /\ proc[p].born = 1 /\ proc[p] \in Process
        /\ \A q \in Pids \ {p} : proc[q].state = "free" /\ proc[q].born = 0 /\ proc[q] \in Process
    BY <1>1 DEF NoProc, Process
  <1>4. Types
    BY <1>1, <1>2, <1>3 DEF ProcInit, Types
  <1>5. Identities
    BY <1>2, <1>3 DEF Identities, Unused
  <1>6. \A h \in Shells : shell[h] = "new" /\ HoldsChild(h) /\ Course(h) /\ ClearsGroup(h)
    BY DEF ProcInit, HoldsChild, Holding, Course, ClearsGroup
  <1>7. \A k \in Kills : Marked(k)
    BY DEF ProcInit, Marked
  <1>. QED
    BY <1>4, <1>5, <1>6, <1>7 DEF ProcInv, Holding

LEMMA ProcInvStep == Apart /\ ProcInv /\ [ProcNext]_procVars => ProcInv'
  <1> SUFFICES ASSUME Apart, ProcInv, [ProcNext]_procVars
               PROVE  ProcInv'
    OBVIOUS
  <1>1. /\ Types /\ Identities
        /\ \A g, h \in Shells : Holding(g) /\ Holding(h) => g = h
        /\ \A h \in Shells : HoldsChild(h) /\ Course(h) /\ ClearsGroup(h)
        /\ \A k \in Kills : Marked(k)
    BY DEF ProcInv
  <1>2. proc' \in [Pids -> Process] /\ births' \in Nat /\ (Fewer \/ More)
    BY <1>1, OsMoves
  <1>3. Types'
    BY <1>1, <1>2, TypesStep
  <1>4. Identities'
    BY <1>1, <1>2, IdentitiesStep
  <1>5. \A g, h \in Shells : Holding(g)' /\ Holding(h)' => g = h
    BY <1>1, AloneStep
  <1>6. \A h \in Shells : HoldsChild(h)'
    BY <1>1, HoldsStep
  <1>7. \A h \in Shells : Course(h)'
    BY <1>1, <1>2, CourseStep
  <1>8. \A h \in Shells : ClearsGroup(h)'
    BY <1>1, <1>2, ClearedStep
  <1>9. \A k \in Kills : Marked(k)'
    BY <1>1, <1>2, MarkedStep
  <1>. QED
    BY <1>3, <1>4, <1>5, <1>6, <1>7, <1>8, <1>9 DEF ProcInv

\* Shapes, and the identity of processes by their start times.
LEMMA InvTypeOK == ProcInv => ProcTypeOK
  <1> SUFFICES ASSUME ProcInv
               PROVE  ProcTypeOK
    OBVIOUS
  <1>1. Types /\ Identities
    BY DEF ProcInv
  <1>2. ASSUME NEW p \in Pids
        PROVE  /\ proc[p].state \in {"free", "live", "zombie"} /\ proc[p].born \in 0..births
               /\ proc[p].group \in Pids \cup {None} /\ proc[p].tree \in Shells \cup {None}
    <2>1. proc[p] \in Process /\ births \in Nat
      BY <1>1 DEF Types
    <2>2. proc[p].born \in 0..births
      BY <1>1, <2>1 DEF Identities
    <2>. QED
      BY <2>1, <2>2 DEF Process
  <1>3. ASSUME NEW p \in Pids, NEW q \in Pids, p # q, ~ Unused(p)
        PROVE  proc[p].born # proc[q].born
    <2>1. births \in Nat /\ proc[p].born \in 1..births
      BY <1>1, <1>3 DEF Types, Identities
    <2>. QED
      BY <1>1, <1>3, <2>1 DEF Identities
  <1>. QED
    BY <1>1, <1>2, <1>3 DEF Types, ProcTypeOK, Unused

\* A timeout signals nothing but the call's own processes.
LEMMA InvSignalsOnlyOwn == ProcInv => SignalsOnlyOwn
  BY DEF ProcInv, Course, SignalsOnlyOwn

\* From the timeout on, no process that was in the command's group is alive.
LEMMA InvTimeoutClearsGroup == ProcInv => TimeoutClearsGroup
  BY DEF ProcInv, ClearsGroup, TimeoutClearsGroup

\* The answer separates a timeout from a death by somebody else's signal.
LEMMA InvAnswerIsTrue == ProcInv => AnswerIsTrue
  BY DEF ProcInv, Course, AnswerIsTrue

\* A process whose kill is reported is gone for good.
LEMMA InvKilledIsDead == ProcInv => KilledIsDead
  BY DEF ProcInv, Marked, Gone, KilledIsDead

\* What ShellExec and Kill answer and signal, for any number of calls and process ids.
THEOREM ProcessesAnswered ==
    ASSUME Apart
    PROVE  ProcSpec => [](ProcTypeOK /\ SignalsOnlyOwn /\ TimeoutClearsGroup /\ AnswerIsTrue /\ KilledIsDead)
  <1>1. ProcInv /\ [ProcNext]_procVars => ProcInv'
    BY ProcInvStep
  <1>2. ProcInv => ProcTypeOK /\ SignalsOnlyOwn /\ TimeoutClearsGroup /\ AnswerIsTrue /\ KilledIsDead
    BY InvTypeOK, InvSignalsOnlyOwn, InvTimeoutClearsGroup, InvAnswerIsTrue, InvKilledIsDead
  <1>. QED
    BY ProcInvInit, <1>1, <1>2, PTL DEF ProcSpec
==============================================================================
