------------------------------- MODULE Assess --------------------------------
(***************************************************************************)
(* The safety assessment of an execution (core/src/safety.rs,              *)
(* core/src/llmosafe.rs and the gate of core/src/executor.rs): a guard     *)
(* reads the assurance level and the semantic policy from the              *)
(* configuration, every eligible field of the arguments that is a string   *)
(* is given to the sifter, the most severe answer is written to the log    *)
(* and decides whether the capability runs.  The sifter is external: it    *)
(* finds any verdict in a text, or fails.                                  *)
(***************************************************************************)
EXTENDS Common, Integers, Sequences, FiniteSets, SequencesExt

CONSTANTS Execs,       \* executions at the same time
          Levels,      \* assurance levels the configuration may hold, a subset of "A".."E" and "?"
          ConfChanges  \* bound: changes of the configuration

VARIABLES
    asc_pc, asc_cap, asc_args,   \* an execution, its capability, what each argument holds
    asc_guard,                   \* its LlmoSafeGuard: level and policy
    asc_next, asc_win,           \* the loop over the fields: position, winning assessment
    asc_log,                     \* what the execution wrote to the log
    asc_conf, asc_changes,       \* the configuration, and the bound on its changes
    asc_seen                     \* history: every answer of the sifter

ascVars == <<asc_pc, asc_cap, asc_args, asc_guard, asc_next, asc_win, asc_log, asc_conf,
             asc_changes, asc_seen>>

-----------------------------------------------------------------------------
(* The tables                                                              *)

\* InputClass::is_semantic_eligible
SemanticClasses == {"control_instruction", "payload_prose", "source_code"}

Field(name, class, eligible) == [field |-> name, class |-> class, eligible |-> eligible]
Locator(name) == Field(name, "filesystem_locator", FALSE)
Identifier(name) == Field(name, "structured_identifier", FALSE)

Capabilities == {"ShellExec", "FileWrite", "FileRead", "Delete", "Kill", "GitExec", "Undo"}

\* Mutant of FieldsFor: what a shell reads from its standard input is not assessed.
FieldsWithoutStdin(cap) ==
    IF cap = "ShellExec"
      THEN <<Field("cmd", "command_control", FALSE), Locator("cwd"),
             Field("stdin", "payload_prose", FALSE)>>
      ELSE <<Field("content", "payload_prose", TRUE), Locator("path")>>

FieldsFor(cap) ==
    CASE cap = "ShellExec" -> <<Field("cmd", "command_control", FALSE), Locator("cwd"),
                                Field("stdin", "payload_prose", TRUE)>>
      [] cap = "FileWrite" -> <<Field("content", "payload_prose", TRUE), Locator("path")>>
      [] cap \in {"FileRead", "Delete"} -> <<Locator("path")>>
      [] cap = "Kill" -> <<Identifier("pid")>>
      [] cap = "GitExec" -> <<Field("message", "payload_prose", TRUE),
                              Field("operation", "command_control", FALSE),
                              Field("url", "url_locator", FALSE), Locator("path"),
                              Identifier("branch"), Locator("files"), Identifier("commit_sha")>>
      [] cap = "Undo" -> <<Identifier("job_id"), Locator("file")>>

FieldNames(cap) == {FieldsFor(cap)[i].field : i \in DOMAIN FieldsFor(cap)}

\* External: the sifter's verdicts, and how a level weakens them.
Verdicts == <<"proceed", "warn", "escalate", "halt", "exit">>
Severity(v) == CHOOSE i \in DOMAIN Verdicts : Verdicts[i] = v
Weakened(level, v) ==
    CASE level = "B" /\ v = "halt" -> "escalate"
      [] level = "C" /\ v \in {"halt", "escalate"} -> "warn"
      [] level = "D" /\ v \in {"halt", "escalate", "exit"} -> "warn"
      [] level = "E" -> "proceed"
      [] OTHER -> v

\* dal_from_str: what is not a level is the strictest.
DalFromStr(s) == IF s \in {"B", "C", "D", "E"} THEN s ELSE "A"

DispositionFor(v) ==
    CASE v = "proceed" -> "allow"
      [] v = "warn" -> "allow_with_warning"
      [] v = "escalate" -> "escalation_required"
      [] v = "halt" -> "reject"
      [] v = "exit" -> "fatal"

PermitsExecution(d) == d \in {"allow", "allow_with_warning"}

\* The assessment that is logged.
Semantic(x, fs, v) ==
    [kind |-> "semantic_one_shot", field |-> fs.field, class |-> fs.class,
     dal |-> asc_guard[x].dal, policy |-> asc_guard[x].policy,
     disposition |-> DispositionFor(v), severity |-> Severity(v)]

ResourceOnly(x, field, class) ==
    [kind |-> "resource_only", field |-> field, class |-> class,
     dal |-> asc_guard[x].dal, policy |-> asc_guard[x].policy,
     disposition |-> "allow", severity |-> 0]

-----------------------------------------------------------------------------
(* An execution                                                            *)

\* An argument is missing, a text the sifter has a verdict on or fails on, or
\* not a string at all.
ArgValues == {"missing", "text", "other"}

AscTypeOK ==
    /\ asc_pc \in [Execs -> {"start", "policy", "check", "assess", "log", "act", "run", "done",
                             "failed"}]
    /\ \A x \in Execs : asc_args[x] \in [FieldNames(asc_cap[x]) -> ArgValues]
    /\ asc_guard \in [Execs -> [dal : {"A", "B", "C", "D", "E", None},
                                policy : {"observe", "enforce", None}]]
    /\ \A x \in Execs : /\ asc_next[x] \in 1..(Len(FieldsFor(asc_cap[x])) + 1)
                        /\ Len(asc_log[x]) <= 3
    /\ asc_changes \in 0..ConfChanges

\* What is not text matters for the fields that may be assessed only.
Relevant(args, cap) ==
    \A i \in DOMAIN FieldsFor(cap) :
        FieldsFor(cap)[i].class \in SemanticClasses \/ args[FieldsFor(cap)[i].field] # "other"

AscInit ==
    /\ asc_pc = [x \in Execs |-> "start"]
    /\ asc_cap \in [Execs -> Capabilities]
    /\ asc_args \in {a \in [Execs -> UNION {[FieldNames(c) -> ArgValues] : c \in Capabilities}] :
                        \A x \in Execs : DOMAIN a[x] = FieldNames(asc_cap[x]) /\ Relevant(a[x], asc_cap[x])}
    /\ asc_guard = [x \in Execs |-> [dal |-> None, policy |-> None]]
    /\ asc_next = [x \in Execs |-> 1] /\ asc_win = [x \in Execs |-> None]
    /\ asc_log = [x \in Execs |-> <<>>] /\ asc_seen = [x \in Execs |-> {}]
    /\ asc_conf \in [dal : Levels, policy : {"observe", "enforce"}] /\ asc_changes = 0

Step(x, to) == asc_pc' = [asc_pc EXCEPT ![x] = to]
Logged(x, entry) == asc_log' = [asc_log EXCEPT ![x] = Append(@, entry)]

\* The event that says why: it may fail to be written, and the execution is refused anyway.
Refused(x, why) ==
    /\ Step(x, "failed")
    /\ \/ Logged(x, [type |-> "failed", why |-> why]) \/ UNCHANGED asc_log

\* JobStarted, then the guard: each setting is a load of the file of its own.
ReadDal(x) ==
    /\ asc_pc[x] = "start" /\ Step(x, "policy")
    /\ asc_guard' = [asc_guard EXCEPT ![x].dal = DalFromStr(asc_conf.dal)]
    /\ Logged(x, [type |-> "started"])
    /\ UNCHANGED <<asc_cap, asc_args, asc_next, asc_win, asc_conf, asc_changes, asc_seen>>

ReadPolicy(x) ==
    /\ asc_pc[x] = "policy" /\ Step(x, "check")
    /\ asc_guard' = [asc_guard EXCEPT ![x].policy = asc_conf.policy]
    /\ UNCHANGED <<asc_cap, asc_args, asc_next, asc_win, asc_log, asc_conf, asc_changes, asc_seen>>

\* check: one look at the machine; the other bounds on a request come next.
Check(x) ==
    /\ asc_pc[x] = "check"
    /\ \/ Step(x, "assess") /\ UNCHANGED asc_log
       \/ Refused(x, "resources")
    /\ UNCHANGED <<asc_cap, asc_args, asc_guard, asc_next, asc_win, asc_conf, asc_changes, asc_seen>>

Winning(win, a) == IF win = None \/ a.severity > win.severity THEN a ELSE win

\* One turn of the loop over the capability's fields; a sifter that fails ends it.
AssessField(x) ==
    /\ asc_pc[x] = "assess" /\ asc_next[x] <= Len(FieldsFor(asc_cap[x]))
    /\ LET fs == FieldsFor(asc_cap[x])[asc_next[x]]
       IN  \/ /\ asc_args[x][fs.field] # "text" \/ ~fs.eligible
              /\ asc_next' = [asc_next EXCEPT ![x] = @ + 1]
              /\ UNCHANGED <<asc_pc, asc_win, asc_log, asc_seen>>
           \/ /\ asc_args[x][fs.field] = "text" /\ fs.eligible
              /\ \E v \in ToSet(Verdicts) :
                   LET a == Semantic(x, fs, Weakened(asc_guard[x].dal, v))
                   IN  /\ asc_win' = [asc_win EXCEPT ![x] = Winning(@, a)]
                       /\ asc_seen' = [asc_seen EXCEPT ![x] = @ \cup {<<fs.field, v>>}]
              /\ asc_next' = [asc_next EXCEPT ![x] = @ + 1]
              /\ UNCHANGED <<asc_pc, asc_log>>
           \/ /\ asc_args[x][fs.field] = "text" /\ fs.eligible
              /\ Refused(x, "analysis")
              /\ UNCHANGED <<asc_next, asc_win, asc_seen>>
    /\ UNCHANGED <<asc_cap, asc_args, asc_guard, asc_conf, asc_changes>>

\* No field was assessed: the first one that is there is named.
Unassessed(x) ==
    LET fields == FieldsFor(asc_cap[x])
        there == {i \in DOMAIN fields : asc_args[x][fields[i].field] # "missing"}
        first == fields[CHOOSE i \in there : \A k \in there : i <= k]
    IN  IF there = {} THEN ResourceOnly(x, "-", "opaque_data")
        ELSE ResourceOnly(x, first.field, first.class)

Conclude(x) ==
    /\ asc_pc[x] = "assess" /\ asc_next[x] > Len(FieldsFor(asc_cap[x]))
    /\ Step(x, "log")
    /\ asc_win' = [asc_win EXCEPT ![x] = IF @ = None THEN Unassessed(x) ELSE @]
    /\ UNCHANGED <<asc_cap, asc_args, asc_guard, asc_next, asc_log, asc_conf, asc_changes, asc_seen>>

\* SafetyEvaluated must be in the log before anything happens.
LogAssessment(x) ==
    /\ asc_pc[x] = "log"
    /\ \/ Step(x, "act") /\ Logged(x, [type |-> "evaluated", a |-> asc_win[x]])
       \/ Step(x, "failed") /\ UNCHANGED asc_log
    /\ UNCHANGED <<asc_cap, asc_args, asc_guard, asc_next, asc_win, asc_conf, asc_changes, asc_seen>>

Act(x) ==
    /\ asc_pc[x] = "act"
    /\ IF PermitsExecution(asc_win[x].disposition)
         THEN Step(x, "run") /\ UNCHANGED asc_log
         ELSE Refused(x, asc_win[x].disposition)
    /\ UNCHANGED <<asc_cap, asc_args, asc_guard, asc_next, asc_win, asc_conf, asc_changes, asc_seen>>

\* The capability takes its arguments apart first: what should be text must be.
Run(x) ==
    /\ asc_pc[x] = "run"
    /\ IF \E i \in DOMAIN FieldsFor(asc_cap[x]) :
             LET fs == FieldsFor(asc_cap[x])[i]
             IN  fs.class = "payload_prose" /\ asc_args[x][fs.field] = "other"
         THEN Refused(x, "execution")
         ELSE Step(x, "done") /\ UNCHANGED asc_log
    /\ UNCHANGED <<asc_cap, asc_args, asc_guard, asc_next, asc_win, asc_conf, asc_changes, asc_seen>>

Configure ==
    /\ asc_changes < ConfChanges /\ asc_changes' = asc_changes + 1
    /\ asc_conf' \in [dal : Levels, policy : {"observe", "enforce"}]
    /\ UNCHANGED <<asc_pc, asc_cap, asc_args, asc_guard, asc_next, asc_win, asc_log, asc_seen>>

AscNext ==
    \/ \E x \in Execs : \/ ReadDal(x) \/ ReadPolicy(x) \/ Check(x) \/ AssessField(x) \/ Conclude(x)
                        \/ LogAssessment(x) \/ Act(x) \/ Run(x)
    \/ Configure

AscSpec == AscInit /\ [][AscNext]_ascVars

-----------------------------------------------------------------------------
(* Properties                                                              *)

Evaluations(x) == {asc_log[x][i].a : i \in {j \in DOMAIN asc_log[x] : asc_log[x][j].type = "evaluated"}}

\* A capability that has run was assessed: every argument of a class that is
\* semantically eligible was analysed, under the level the log names no
\* verdict on it forbids the effect, and the log says "resource only", of an
\* argument that is there, exactly when nothing was analysed (safety.rs,
\* executor.rs: "most severe disposition wins", "an absent field must never
\* become the recorded assessed field").
DoneWasAssessed ==
    \A x \in Execs : asc_pc[x] = "done" =>
        \E a \in Evaluations(x) :
            /\ \A i \in DOMAIN FieldsFor(asc_cap[x]) :
                 LET fs == FieldsFor(asc_cap[x])[i]
                 IN  fs.class \in SemanticClasses /\ asc_args[x][fs.field] # "missing"
                       => \E s \in asc_seen[x] : s[1] = fs.field
            /\ \A s \in asc_seen[x] : PermitsExecution(DispositionFor(Weakened(a.dal, s[2])))
            /\ a.kind = "resource_only" <=> asc_seen[x] = {}
            /\ a.field # "-" => asc_args[x][a.field] # "missing"
=============================================================================
