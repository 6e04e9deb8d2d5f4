--------------------------- MODULE ObserveQueries ---------------------------
(***************************************************************************)
(* The observe requests of the daemon (daemon/src/engine.rs): a run is     *)
(* started in the background and writes its bundle, while clients ask for  *)
(* its status, have the bundle verified and have a property evaluated over *)
(* it.  The bundles are written by CLI processes too, and the daemon may   *)
(* die at any time.  Dispatch has the slots and the mutex in full; here    *)
(* they only decide which run writes.                                      *)
(***************************************************************************)
EXTENDS Common, Integers, Sequences, FiniteSets, SequencesExt

CONSTANTS Starts,     \* observe_start requests
          Ids,        \* run ids, which a client may choose
          Bundles,    \* paths of bundles, which a client may choose
          Askers,     \* clients with a query
          MaxSlots,   \* MAX_CONCURRENT_JOBS
          MaxTicks,   \* bound: samples of a CLI run, suspended ticks of a daemon run
          MaxDeaths   \* bound: deaths of the daemon

VARIABLES
    oq_up, oq_deaths,                  \* whether the daemon runs, and how often it died
    oq_registry, oq_running,           \* BackgroundJobRegistry: status of an id, slots taken
    oq_mutex,                          \* the run that holds wal_mutex
    oq_pc, oq_run, oq_ticks,           \* a start request: where it is, its id and bundle
    oq_bundle,                         \* the lines of every bundle
    oq_cli, oq_next,                   \* the CLI run: its bundle, its next sequence number
    oq_asks, oq_query, oq_seen, oq_answer  \* a query: where it is, what was read, the answer

oqVars == <<oq_up, oq_deaths, oq_registry, oq_running, oq_mutex, oq_pc, oq_run, oq_ticks,
            oq_bundle, oq_cli, oq_next, oq_asks, oq_query, oq_seen, oq_answer>>

Line == [kind : {"start", "suspended", "fine", "bad", "end", "torn"}, seq : Nat]
TornLine == [kind |-> "torn", seq |-> 0]
NoRun == [id |-> None, bundle |-> None]
NoQuery == [what |-> None, id |-> None, bundle |-> None]

OqTypeOK ==
    /\ oq_registry \in [Ids -> {"none", "running", "completed", "failed"}]
    /\ oq_mutex \in Starts \cup {None}
    /\ oq_pc \in [Starts -> {"idle", "queued", "open", "hung", "done", "refused", "lost"}]
    /\ oq_running \in 0..MaxSlots
    /\ oq_running = Cardinality({s \in Starts : oq_pc[s] \in {"queued", "open", "hung"}})
    /\ \A b \in Bundles : oq_bundle[b] \in Seq(Line)
    /\ oq_asks \in [Askers -> {"idle", "verified", "answered"}]

OqInit ==
    /\ oq_up = TRUE /\ oq_deaths = 0
    /\ oq_registry = [i \in Ids |-> "none"] /\ oq_running = 0 /\ oq_mutex = None
    /\ oq_pc = [s \in Starts |-> "idle"] /\ oq_run = [s \in Starts |-> NoRun]
    /\ oq_ticks = [s \in Starts |-> 0]
    /\ oq_bundle = [b \in Bundles |-> <<>>]
    /\ oq_cli = None /\ oq_next = 0
    /\ oq_asks = [a \in Askers |-> "idle"] /\ oq_query = [a \in Askers |-> NoQuery]
    /\ oq_seen = [a \in Askers |-> <<>>] /\ oq_answer = [a \in Askers |-> None]

registryVars == <<oq_registry, oq_running>>
runVars == <<oq_pc, oq_run, oq_ticks>>
cliVars == <<oq_cli, oq_next>>
askVars == <<oq_asks, oq_query, oq_seen, oq_answer>>

\* A line after one that was cut short is glued to it: neither can be read.
Appended(lines, kind, seq) ==
    IF lines # <<>> /\ Last(lines) = TornLine THEN lines
    ELSE Append(lines, [kind |-> kind, seq |-> seq])

-----------------------------------------------------------------------------
(* A run of the daemon                                                     *)

\* handle_observe_start.  The target is spawned before the slot is asked for
\* and stays when there is none.  A request that is refused earlier (its
\* parameters, burst, its path, its command) changes nothing.
ObserveStart(s, i, b) ==
    /\ oq_up /\ oq_pc[s] = "idle"
    /\ oq_run' = [oq_run EXCEPT ![s] = [id |-> i, bundle |-> b]]
    /\ IF oq_running = MaxSlots
       THEN oq_pc' = [oq_pc EXCEPT ![s] = "refused"] /\ UNCHANGED registryVars
       ELSE /\ oq_pc' = [oq_pc EXCEPT ![s] = "queued"]
            /\ oq_running' = oq_running + 1
            /\ oq_registry' = [oq_registry EXCEPT ![i] = "running"]
    /\ UNCHANGED <<oq_up, oq_deaths, oq_mutex, oq_ticks, oq_bundle, cliVars, askVars>>

Over(s, status) ==
    /\ oq_pc' = [oq_pc EXCEPT ![s] = "done"]
    /\ oq_registry' = [oq_registry EXCEPT ![oq_run[s].id] = status]
    /\ oq_running' = oq_running - 1
    /\ oq_mutex' = None

\* The closure takes the mutex and opens the bundle, or fails to.
Open(s) ==
    /\ oq_up /\ oq_pc[s] = "queued" /\ oq_mutex = None
    /\ LET b == oq_run[s].bundle
       IN  \/ /\ oq_pc' = [oq_pc EXCEPT ![s] = "open"] /\ oq_mutex' = s
              /\ oq_bundle' = [oq_bundle EXCEPT ![b] = Appended(@, "start", 0)]
              /\ UNCHANGED registryVars
           \/ Over(s, "failed") /\ UNCHANGED oq_bundle
    /\ UNCHANGED <<oq_up, oq_deaths, oq_run, oq_ticks, cliVars, askVars>>

\* A tick under pressure notes that it was suspended.
Suspended(s) ==
    /\ oq_up /\ oq_pc[s] = "open" /\ oq_ticks[s] < MaxTicks
    /\ oq_ticks' = [oq_ticks EXCEPT ![s] = @ + 1]
    /\ LET b == oq_run[s].bundle
       IN  oq_bundle' = [oq_bundle EXCEPT ![b] = Appended(@, "suspended", oq_ticks[s] + 1)]
    /\ UNCHANGED <<oq_up, oq_deaths, registryVars, oq_mutex, oq_pc, oq_run, cliVars, askVars>>

\* A tick with a sample waits for the mutex its thread holds.
Sampled(s) ==
    /\ oq_up /\ oq_pc[s] = "open"
    /\ oq_pc' = [oq_pc EXCEPT ![s] = "hung"]
    /\ UNCHANGED <<oq_up, oq_deaths, registryVars, oq_mutex, oq_run, oq_ticks, oq_bundle, cliVars,
                   askVars>>

\* Mutant of Finalize: what finalize returned is not looked at.
FinalizeIgnored(s) ==
    /\ oq_up /\ oq_pc[s] = "open"
    /\ LET b == oq_run[s].bundle
       IN  \/ oq_bundle' = [oq_bundle EXCEPT ![b] = Appended(@, "end", oq_ticks[s] + 1)]
           \/ UNCHANGED oq_bundle
    /\ Over(s, "completed")
    /\ UNCHANGED <<oq_up, oq_deaths, oq_run, oq_ticks, cliVars, askVars>>

\* finalize, the registry's entry, the slot.
Finalize(s) ==
    /\ oq_up /\ oq_pc[s] = "open"
    /\ LET b == oq_run[s].bundle
       IN  \/ /\ oq_bundle' = [oq_bundle EXCEPT ![b] = Appended(@, "end", oq_ticks[s] + 1)]
              /\ Over(s, "completed")
           \/ Over(s, "failed") /\ UNCHANGED oq_bundle
    /\ UNCHANGED <<oq_up, oq_deaths, oq_run, oq_ticks, cliVars, askVars>>

\* The daemon dies; what it was writing may be cut short.
Cut(lines) == {lines, IF lines # <<>> /\ Last(lines) = TornLine THEN lines ELSE Append(lines, TornLine)}

Die ==
    /\ oq_up /\ oq_deaths < MaxDeaths
    /\ oq_up' = FALSE /\ oq_deaths' = oq_deaths + 1
    /\ oq_registry' = [i \in Ids |-> "none"] /\ oq_running' = 0 /\ oq_mutex' = None
    /\ oq_pc' = [s \in Starts |-> IF oq_pc[s] \in {"queued", "open", "hung"} THEN "lost" ELSE oq_pc[s]]
    /\ IF oq_mutex = None THEN UNCHANGED oq_bundle
       ELSE LET b == oq_run[oq_mutex].bundle
            IN  \E lines \in Cut(oq_bundle[b]) : oq_bundle' = [oq_bundle EXCEPT ![b] = lines]
    /\ oq_asks' = [a \in Askers |-> IF oq_asks[a] = "verified" THEN "idle" ELSE oq_asks[a]]
    /\ UNCHANGED <<oq_run, oq_ticks, cliVars, oq_query, oq_seen, oq_answer>>

Restart ==
    /\ ~oq_up /\ oq_up' = TRUE
    /\ UNCHANGED <<oq_deaths, registryVars, oq_mutex, runVars, oq_bundle, cliVars, askVars>>

-----------------------------------------------------------------------------
(* A run of the CLI, which has no mutex to wait for                        *)

CliOpen(b) ==
    /\ oq_cli = None /\ oq_next = 0
    /\ oq_cli' = b /\ oq_next' = 1
    /\ oq_bundle' = [oq_bundle EXCEPT ![b] = Appended(@, "start", 0)]
    /\ UNCHANGED <<oq_up, oq_deaths, registryVars, oq_mutex, runVars, askVars>>

CliWrite ==
    /\ oq_cli # None
    /\ \/ /\ oq_next <= MaxTicks /\ oq_cli' = oq_cli /\ oq_next' = oq_next + 1
          /\ \E kind \in {"fine", "bad"} :
                oq_bundle' = [oq_bundle EXCEPT ![oq_cli] = Appended(@, kind, oq_next)]
       \/ /\ oq_cli' = None /\ UNCHANGED oq_next
          /\ oq_bundle' = [oq_bundle EXCEPT ![oq_cli] = Appended(@, "end", oq_next)]
    /\ UNCHANGED <<oq_up, oq_deaths, registryVars, oq_mutex, runVars, askVars>>

-----------------------------------------------------------------------------
(* The queries                                                             *)

\* verify_report: every line parses and the sequence numbers count from 0,
\* which a bundle that two runs wrote to does not.
Verified(lines) ==
    /\ \A k \in DOMAIN lines : lines[k] # TornLine
    /\ \A k \in DOMAIN lines : lines[k].seq = k - 1

\* The watermark of the last ObserveCompleted, if there is one.
Watermark(lines) == \E k \in DOMAIN lines : lines[k].kind = "end"

\* WalReader::load_all drops the lines it cannot parse: the others, at the places they had.
Loaded(lines) == [k \in {k \in DOMAIN lines : lines[k] # TornLine} |-> lines[k]]

\* The property a client asks about: no sample is bad.
Verdict(lines) == IF \E k \in DOMAIN lines : lines[k].kind = "bad" THEN "Violated" ELSE "Satisfied"

Answered(a, what, i, b, answer) ==
    /\ oq_asks' = [oq_asks EXCEPT ![a] = "answered"]
    /\ oq_query' = [oq_query EXCEPT ![a] = [what |-> what, id |-> i, bundle |-> b]]
    /\ oq_answer' = [oq_answer EXCEPT ![a] = answer]

daemonVars == <<oq_up, oq_deaths, registryVars, oq_mutex, runVars, oq_bundle, cliVars>>

\* handle_observe_status.  The WAL it falls back to has no events of
\* observations, which are written to bundles only.
Status(a, i) ==
    /\ oq_up /\ oq_asks[a] = "idle"
    /\ Answered(a, "status", i, None, IF oq_registry[i] = "none" THEN "not found" ELSE oq_registry[i])
    /\ UNCHANGED <<oq_seen, daemonVars>>

\* handle_observe_verify and handle_observe_evaluate read the bundle, once
\* for the report, ...
Verify(a, what, b) ==
    /\ oq_up /\ oq_asks[a] = "idle" /\ oq_bundle[b] # <<>>
    /\ oq_asks' = [oq_asks EXCEPT ![a] = "verified"]
    /\ oq_query' = [oq_query EXCEPT ![a] = [what |-> what, id |-> None, bundle |-> b]]
    /\ oq_seen' = [oq_seen EXCEPT ![a] = oq_bundle[b]]
    /\ UNCHANGED <<oq_answer, daemonVars>>

\* ... and again: for the watermark when the report has none, ...
VerifyAnswer(a) ==
    /\ oq_up /\ oq_asks[a] = "verified" /\ oq_query[a].what = "verify"
    /\ LET b == oq_query[a].bundle
       IN  Answered(a, "verify", None, b,
                    [admissible |-> Verified(oq_seen[a]), total |-> Cardinality(DOMAIN Loaded(oq_seen[a])),
                     watermark |-> Watermark(oq_seen[a]) \/ Watermark(oq_bundle[b])])
    /\ UNCHANGED <<oq_seen, daemonVars>>

\* ... or for the events the property is evaluated over.
EvaluateAnswer(a) ==
    /\ oq_up /\ oq_asks[a] = "verified" /\ oq_query[a].what = "evaluate"
    /\ LET b == oq_query[a].bundle
       IN  Answered(a, "evaluate", None, b,
                    [admissible |-> Verified(oq_seen[a]), verdict |-> Verdict(Loaded(oq_bundle[b]))])
    /\ UNCHANGED <<oq_seen, daemonVars>>

OqNext ==
    \/ \E s \in Starts : \/ \E i \in Ids, b \in Bundles : ObserveStart(s, i, b)
                         \/ Open(s) \/ Suspended(s) \/ Sampled(s) \/ Finalize(s)
    \/ Die \/ Restart
    \/ (\E b \in Bundles : CliOpen(b)) \/ CliWrite
    \/ \E a \in Askers : \/ \E i \in Ids : Status(a, i)
                         \/ \E w \in {"verify", "evaluate"}, b \in Bundles : Verify(a, w, b)
                         \/ VerifyAnswer(a) \/ EvaluateAnswer(a)

OqSpec == OqInit /\ [][OqNext]_oqVars

-----------------------------------------------------------------------------
(* Properties                                                              *)

\* A run that status calls completed has written the end of its bundle (or
\* found the bundle torn), so that a client that waits for the status may read it.
CompletedHasBundle ==
    \A i \in Ids : oq_registry[i] = "completed" =>
        \E s \in Starts : /\ oq_run[s].id = i /\ oq_pc[s] = "done"
                          /\ LET lines == oq_bundle[oq_run[s].bundle]
                             IN  Watermark(lines) \/ ~Verified(lines)

\* An evaluation that is called admissible and Satisfied is right about every
\* event of the verified bundle, although the bundle is read twice and may
\* have grown or been torn in between.
VerdictIsOfVerified ==
    \A a \in Askers :
        /\ oq_asks[a] = "answered" /\ oq_query[a].what = "evaluate"
        /\ oq_answer[a].admissible /\ oq_answer[a].verdict = "Satisfied"
        => Verdict(oq_seen[a]) = "Satisfied"

\* What the daemon says of observations is true of what they wrote.
AnswersHold == CompletedHasBundle /\ VerdictIsOfVerified
=============================================================================
