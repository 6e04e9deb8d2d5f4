------------------------------- MODULE Config --------------------------------
(***************************************************************************)
(* The persistent configuration (core/src/config.rs) and the commands that *)
(* edit it (cli/src/main.rs, `config`).  Every command and every gate of   *)
(* an execution loads the file anew; a command writes back all it loaded,  *)
(* through a temporary file that every saver shares; `init` writes in      *)
(* place.  The precedence of the settings is written twice in the code,    *)
(* in resolved() and in the functions the gates call, and twice here.      *)
(***************************************************************************)
EXTENDS Common, Integers, FiniteSets

CONSTANTS Editors,    \* processes that run `config dal|allowed-paths|init`
          Viewers,    \* processes that report the settings and reach a gate
          Locations,  \* path prefixes that are added and removed
          MaxEdits    \* bound: commands in a run

VARIABLES
    conf_file, conf_temp,     \* config.toml and .config.toml.tmp
    conf_pc, conf_do, conf_held, conf_onto,  \* an editor: its place, command, settings, open file
    conf_view,                \* a viewer: what it reported and what the gates then did
    conf_env,                 \* the process environment
    conf_left, conf_overlap   \* bound on commands; history: two commands overlapped

confVars == <<conf_file, conf_temp, conf_pc, conf_do, conf_held, conf_onto, conf_view,
              conf_env, conf_left, conf_overlap>>

-----------------------------------------------------------------------------
(* Settings                                                                *)

\* The settings as they may be spelled; "b" and "Service" differ in case only.
Upper(level) == IF level = "b" THEN "B" ELSE level
Lower(word) == IF word = "Service" THEN "service" ELSE word

\* A guard stands for the four that have the same precedence; a table entry
\* for wal, backup, output, session and telemetry.
Guards == {"blocklist", "path_restriction"}
Ephemeral == [wal |-> "batch", backup |-> FALSE, session |-> 20]
Builtin == [wal |-> "always", backup |-> TRUE, session |-> 100]

Content == [dal : {None, "A", "E", "b"}, guardsDal : {None, "A", "E"},
            policy : {None, "observe", "odd"}, guardsPolicy : {None, "observe"},
            guard : [Guards -> {None, TRUE, FALSE}], guardsGuard : [Guards -> {None, TRUE, FALSE}],
            profile : {None, "minimal", "ephemeral", "service", "Service", "odd"},
            table : {[k \in {} |-> None], Ephemeral, Builtin},
            paths : SUBSET Locations]

Unset == [g \in Guards |-> None]
Default == [dal |-> None, guardsDal |-> None, policy |-> None, guardsPolicy |-> None,
            guard |-> Unset, guardsGuard |-> Unset, profile |-> None,
            table |-> [k \in {} |-> None], paths |-> {}]

\* A file that is not there, and one that does not parse.
Absent == [unreadable |-> FALSE]
Broken == [unreadable |-> TRUE]

Template(profile) ==
    CASE profile = "ephemeral" ->
           [Default EXCEPT !.profile = "ephemeral", !.table = Ephemeral, !.guardsDal = "E",
                           !.guardsGuard["blocklist"] = FALSE]
      [] profile = "service" ->
           [Default EXCEPT !.profile = "service", !.table = Builtin, !.guardsDal = "A",
                           !.guardsGuard = [g \in Guards |-> TRUE]]
      [] OTHER -> [Default EXCEPT !.profile = "minimal"]

\* load: no file, and a file that cannot be read or parsed, give the defaults.
Parsed(f) == IF f \in {Absent, Broken} THEN Default ELSE f

-----------------------------------------------------------------------------
(* Resolution: environment > file > profile > builtin                      *)

First(a, b, otherwise) == IF a # None THEN a ELSE IF b # None THEN b ELSE otherwise

ProfileOf(c) ==
    LET p == Lower(First(c.profile, None, "minimal"))
    IN  IF p \in {"ephemeral", "service", "minimal"} THEN p ELSE "minimal"

PolicyOf(c, env) ==
    LET p == First(env.policy, c.policy, First(c.guardsPolicy, None, "corroborate"))
    IN  IF p \in {"observe", "corroborate", "enforce"} THEN p ELSE "enforce"

\* A setting of a table, which the ephemeral profile changes.
Tabled(c) ==
    [k \in DOMAIN Builtin |->
        IF k \in DOMAIN c.table THEN c.table[k]
        ELSE IF ProfileOf(c) = "ephemeral" THEN Ephemeral[k] ELSE Builtin[k]]

Guarded(c, g) == First(c.guard[g], c.guardsGuard[g], ProfileOf(c) # "ephemeral")

\* resolved: what `config show` reports.
Resolved(c, env) ==
    [dal |-> Upper(First(env.dal, c.dal,
                 First(c.guardsDal, None, IF ProfileOf(c) = "service" THEN "A" ELSE "E"))),
     policy |-> PolicyOf(c, env), guard |-> [g \in Guards |-> Guarded(c, g)],
     table |-> Tabled(c)]

\* Mutant of GetDal: the [guards] table comes before the top-level key.
GuardsFirst(c, env) ==
    IF env.dal # None THEN Upper(env.dal)
    ELSE IF c.guardsDal # None THEN Upper(c.guardsDal)
    ELSE IF c.dal # None THEN Upper(c.dal)
    ELSE IF c.profile # None /\ Lower(c.profile) = "service" THEN "A" ELSE "E"

\* get_dal and get_semantic_policy: what the gate of an execution uses.
GetDal(c, env) ==
    IF env.dal # None THEN Upper(env.dal)
    ELSE IF c.dal # None THEN Upper(c.dal)
    ELSE IF c.guardsDal # None THEN Upper(c.guardsDal)
    ELSE IF c.profile # None /\ Lower(c.profile) = "service" THEN "A" ELSE "E"

GetPolicy(c, env) ==
    LET raw == IF env.policy # None THEN env.policy
               ELSE IF c.policy # None THEN c.policy
               ELSE IF c.guardsPolicy # None THEN c.guardsPolicy ELSE "corroborate"
    IN  IF raw \in {"observe", "corroborate", "enforce"} THEN raw ELSE "enforce"

-----------------------------------------------------------------------------
(* The commands                                                            *)

Edits == [op : {"dal"}, to : {"A", "E"}] \cup [op : {"add", "remove"}, to : Locations]
         \cup [op : {"init"}, to : {"ephemeral", "service", "minimal"}]

Apply(edit, c) ==
    CASE edit.op = "dal" -> [c EXCEPT !.dal = edit.to]
      [] edit.op = "add" -> [c EXCEPT !.paths = @ \cup {edit.to}]
      [] edit.op = "remove" -> [c EXCEPT !.paths = @ \ {edit.to}]
      [] edit.op = "init" -> Template(edit.to)

ConfTypeOK ==
    /\ conf_file \in Content \cup {Absent, Broken}
    /\ conf_temp \in Content \cup {Absent, Broken}
    /\ conf_pc \in [Editors -> {"idle", "loaded", "opened", "written", "truncated"}]
    /\ conf_do \in [Editors -> Edits \cup {None}]
    /\ conf_held \in [Editors -> Content]
    /\ conf_onto \in [Editors -> {"temp", "file", "gone"}]
    /\ conf_overlap \in BOOLEAN /\ conf_left \in 0..MaxEdits

\* The files and environments a run may start from.  Commands run on a few;
\* every combination of settings is reported and put to the gates.
Plain == {Absent, Broken, Template("service")}
Combined ==
    {[Default EXCEPT !.dal = s.dal, !.guardsDal = s.guardsDal, !.policy = s.policy,
                     !.guardsPolicy = s.guardsPolicy, !.guard["blocklist"] = s.guard,
                     !.guardsGuard["blocklist"] = s.guardsGuard, !.profile = s.profile] :
        s \in [dal : {None, "b"}, guardsDal : {None, "A"}, policy : {None, "odd"},
               guardsPolicy : {None, "observe"}, guard : {None, TRUE, FALSE},
               guardsGuard : {None, TRUE, FALSE},
               profile : {None, "minimal", "ephemeral", "Service", "odd"}]}

ConfInit ==
    /\ \/ conf_file \in Plain /\ conf_left = MaxEdits /\ conf_env = [dal |-> None, policy |-> None]
       \/ /\ conf_file \in Combined /\ conf_left = 0
          /\ conf_env \in [dal : {None, "b"}, policy : {None, "odd"}]
    /\ conf_temp = Absent /\ conf_overlap = FALSE
    /\ conf_pc = [e \in Editors |-> "idle"] /\ conf_do = [e \in Editors |-> None]
    /\ conf_held = [e \in Editors |-> Default] /\ conf_onto = [e \in Editors |-> "gone"]
    /\ conf_view = [v \in Viewers |-> None]

\* load, and the change made to what was loaded.
Load(e, edit) ==
    /\ conf_pc[e] = "idle" /\ conf_left > 0 /\ edit.op # "init"
    /\ conf_left' = conf_left - 1
    /\ conf_overlap' = (conf_overlap \/ \E o \in Editors : conf_pc[o] # "idle")
    /\ conf_do' = [conf_do EXCEPT ![e] = edit]
    /\ conf_held' = [conf_held EXCEPT ![e] = Apply(edit, Parsed(conf_file))]
    /\ conf_pc' = [conf_pc EXCEPT ![e] = "loaded"]
    /\ UNCHANGED <<conf_file, conf_temp, conf_onto, conf_view, conf_env>>

\* Mutant of CreateTemp: the file itself is opened and written.
SaveInPlace(e) ==
    /\ conf_pc[e] = "loaded"
    /\ conf_file' = Default
    /\ conf_onto' = [conf_onto EXCEPT ![e] = "file"]
    /\ conf_pc' = [conf_pc EXCEPT ![e] = "opened"]
    /\ UNCHANGED <<conf_temp, conf_do, conf_held, conf_view, conf_env, conf_left, conf_overlap>>

\* save: the temporary file is created, or emptied if it is there.
CreateTemp(e) ==
    /\ conf_pc[e] = "loaded"
    /\ conf_temp' = Default
    /\ conf_onto' = [conf_onto EXCEPT ![e] = "temp"]
    /\ conf_pc' = [conf_pc EXCEPT ![e] = "opened"]
    /\ UNCHANGED <<conf_file, conf_do, conf_held, conf_view, conf_env, conf_left, conf_overlap>>

\* What a write leaves in the file that is open: all of it, or a part.
Put(e, data) ==
    /\ conf_file' = IF conf_onto[e] = "file" THEN data ELSE conf_file
    /\ conf_temp' = IF conf_onto[e] = "temp" THEN data ELSE conf_temp

\* write_all and sync_all; a full disk ends the command with an error.
WriteTemp(e) ==
    /\ conf_pc[e] = "opened"
    /\ \/ Put(e, conf_held[e]) /\ conf_pc' = [conf_pc EXCEPT ![e] = "written"]
       \/ Put(e, Broken) /\ conf_pc' = [conf_pc EXCEPT ![e] = "idle"]
    /\ UNCHANGED <<conf_do, conf_held, conf_onto, conf_view, conf_env, conf_left, conf_overlap>>

\* rename: whoever still has the temporary file open now writes config.toml.
Rename(e) ==
    /\ conf_pc[e] = "written"
    /\ conf_file' = IF conf_temp = Absent THEN conf_file ELSE conf_temp
    /\ conf_temp' = Absent
    /\ conf_onto' = [o \in Editors |->
                        IF conf_temp = Absent THEN conf_onto[o]
                        ELSE IF conf_onto[o] = "temp" THEN "file" ELSE "gone"]
    /\ conf_pc' = [conf_pc EXCEPT ![e] = "idle"]
    /\ UNCHANGED <<conf_do, conf_held, conf_view, conf_env, conf_left, conf_overlap>>

\* init_at: without --force a file that exists is left; the write is in place.
InitTruncate(e, edit, force) ==
    /\ conf_pc[e] = "idle" /\ conf_left > 0 /\ edit.op = "init"
    /\ conf_file = Absent \/ force
    /\ conf_left' = conf_left - 1
    /\ conf_overlap' = (conf_overlap \/ \E o \in Editors : conf_pc[o] # "idle")
    /\ conf_do' = [conf_do EXCEPT ![e] = edit]
    /\ conf_file' = Default
    /\ conf_onto' = [conf_onto EXCEPT ![e] = "file"]
    /\ conf_pc' = [conf_pc EXCEPT ![e] = "truncated"]
    /\ UNCHANGED <<conf_temp, conf_held, conf_view, conf_env>>

\* The template is written and, when it all is, read back and validated.
InitWrite(e) ==
    /\ conf_pc[e] = "truncated"
    /\ \E data \in {Template(conf_do[e].to), Broken} : Put(e, data)
    /\ conf_pc' = [conf_pc EXCEPT ![e] = "idle"]
    /\ UNCHANGED <<conf_do, conf_held, conf_onto, conf_view, conf_env, conf_left, conf_overlap>>

\* The command is killed; its temporary file stays.
Killed(e) ==
    /\ conf_pc[e] # "idle"
    /\ conf_pc' = [conf_pc EXCEPT ![e] = "idle"]
    /\ conf_onto' = [conf_onto EXCEPT ![e] = "gone"]
    /\ UNCHANGED <<conf_file, conf_temp, conf_do, conf_held, conf_view, conf_env, conf_left,
                   conf_overlap>>

-----------------------------------------------------------------------------
(* Reports and gates                                                       *)

\* `config show` resolves what it loads.
Show(v) ==
    /\ conf_view[v] = None
    /\ conf_view' = [conf_view EXCEPT ![v] =
                        [file |-> conf_file, said |-> Resolved(Parsed(conf_file), conf_env)]]
    /\ UNCHANGED <<conf_file, conf_temp, conf_pc, conf_do, conf_held, conf_onto, conf_env,
                   conf_left, conf_overlap>>

\* The gates load the file again; the viewer is done.
Gated(c, env) ==
    [dal |-> GetDal(c, env), policy |-> GetPolicy(c, env),
     guard |-> Resolved(c, env).guard, table |-> Resolved(c, env).table]

Gate(v) ==
    /\ conf_view[v] # None /\ "file" \in DOMAIN conf_view[v]
    /\ conf_view' = [conf_view EXCEPT ![v] =
                        [same |-> conf_view[v].file = conf_file, said |-> conf_view[v].said,
                         did |-> Gated(Parsed(conf_file), conf_env)]]
    /\ UNCHANGED <<conf_file, conf_temp, conf_pc, conf_do, conf_held, conf_onto, conf_env,
                   conf_left, conf_overlap>>

ConfNext ==
    \/ \E e \in Editors :
         \/ \E edit \in Edits : Load(e, edit) \/ \E force \in BOOLEAN : InitTruncate(e, edit, force)
         \/ CreateTemp(e) \/ WriteTemp(e) \/ Rename(e) \/ InitWrite(e) \/ Killed(e)
    \/ \E v \in Viewers : Show(v) \/ Gate(v)

ConfSpec == ConfInit /\ [][ConfNext]_confVars

-----------------------------------------------------------------------------
(* Properties                                                              *)

\* The settings that are reported are those the gates of an execution use,
\* for every file and environment, when the file has not changed in between
\* (config.rs: "the live gate and the reported ResolvedConfig::dal agree for
\* every state").
ReportIsGate ==
    \A v \in Viewers : conf_view[v] # None /\ "did" \in DOMAIN conf_view[v] /\ conf_view[v].same
        => conf_view[v].said = conf_view[v].did

\* While no two commands have overlapped, config.toml changes by one whole
\* command at a time, whatever is killed and whatever write fails: what was
\* there plus the command's change.  Only init shows an empty, a broken and
\* then a complete file.
EditsWhole ==
    ~conf_overlap' => \/ conf_file' = conf_file
                      \/ \E e \in Editors : conf_do'[e] # None /\
                           \/ conf_file' = Apply(conf_do'[e], Parsed(conf_file))
                           \/ conf_do'[e].op = "init" /\ conf_file' \in {Default, Broken}
=============================================================================
