------------------------------ MODULE Adapters -------------------------------
(***************************************************************************)
(* The provider adapters and the evidence they produce                     *)
(* (core/src/adapters, core/src/runtime): an adapter looks for its         *)
(* provider's binary, captures events as artifact files and refers to them *)
(* by path and hash; the reducer makes facts of the references; the export *)
(* writes the facts and then the run's manifest.                           *)
(***************************************************************************)
EXTENDS Common, Integers, Sequences, FiniteSets, SequencesExt

CONSTANTS Providers,   \* {"tetragon", "jfr"}, or one of them
          Binaries,    \* what may be installed of a provider (a subset of Binary)
          Callers,     \* threads that capture events
          Pids,        \* process identifiers; one may be used again
          Words,       \* words in the names of artifacts that were made elsewhere
          MaxStart,    \* start times of processes, 0 being "unknown"
          MaxClock,    \* bound: seconds
          MaxRefs      \* bound: captured events

VARIABLES
    ad_binary, ad_status, ad_started,  \* per provider: what is installed, ProviderStatus, started
    ad_clock,
    ad_file,                           \* artifact_dir: what every file holds
    ad_pc, ad_event, ad_name,          \* a caller, its event, and the file it writes
    ad_refs, ad_facts,                 \* the references, and the facts made of them
    ad_manifest, ad_jsonl, ad_json,    \* the export: its manifest and the two files
    ad_overwritten                     \* history: files written by more than one capture

adVars == <<ad_binary, ad_status, ad_started, ad_clock, ad_file, ad_pc, ad_event, ad_name,
            ad_refs, ad_facts, ad_manifest, ad_jsonl, ad_json, ad_overwritten>>

Types(p) == IF p = "tetragon" THEN {"exec", "exit"} ELSE {"class_load", "exception"}
Event == UNION {[provider : {p}, type : Types(p), pid : Pids, start : 0..MaxStart] : p \in Providers}

\* An artifact is named after the second it is captured in.
Path(p, t) == [provider |-> p, second |-> t]
Paths == [provider : Providers, second : 1..MaxClock]

Binary == {"absent", "outside", "other", "pinned"}

AdTypeOK ==
    /\ ad_binary \in [Providers -> Binary]
    /\ ad_status \in [Providers -> {"unavailable", "degraded", "active"}]
    /\ ad_started \in [Providers -> BOOLEAN]
    /\ ad_clock \in 1..MaxClock
    /\ ad_file \in [Paths -> Event \cup {None}]
    /\ ad_pc \in [Callers -> {"idle", "write", "hash"}]
    /\ ad_event \in [Callers -> Event \cup {None}]
    /\ Len(ad_refs) <= MaxRefs

\* determine_status: the binary must be in an allowed place and of the pinned version.
DetermineStatus(binary) ==
    CASE binary \in {"absent", "outside"} -> "unavailable"
      [] binary = "other" -> "degraded"
      [] binary = "pinned" -> "active"

AdInit ==
    /\ ad_binary \in [Providers -> Binaries]
    /\ ad_status = [p \in Providers |-> DetermineStatus(ad_binary[p])]
    /\ ad_started = [p \in Providers |-> FALSE]
    /\ ad_clock = 1 /\ ad_file = [f \in Paths |-> None]
    /\ ad_pc = [c \in Callers |-> "idle"] /\ ad_event = [c \in Callers |-> None]
    /\ ad_name = [c \in Callers |-> None]
    /\ ad_refs = <<>> /\ ad_facts = None
    /\ ad_manifest = FALSE /\ ad_jsonl = None /\ ad_json = None
    /\ ad_overwritten = {}

-----------------------------------------------------------------------------
(* An adapter                                                              *)

exportVars == <<ad_facts, ad_manifest, ad_jsonl, ad_json>>

\* start: the machine must be fit and the provider there, if degraded.
Start(p) ==
    /\ ~ad_started[p] /\ ad_status[p] \in {"active", "degraded"}
    /\ ad_started' = [ad_started EXCEPT ![p] = TRUE]
    /\ UNCHANGED <<ad_binary, ad_status, ad_clock, ad_file, ad_pc, ad_event, ad_name, ad_refs,
                   ad_overwritten, exportVars>>

Stop(p) ==
    /\ ad_started[p]
    /\ ad_started' = [ad_started EXCEPT ![p] = FALSE]
    /\ UNCHANGED <<ad_binary, ad_status, ad_clock, ad_file, ad_pc, ad_event, ad_name, ad_refs,
                   ad_overwritten, exportVars>>

\* capture_artifact, which asks of the adapter neither that it was started nor its status.
Capture(c, event) ==
    /\ ad_pc[c] = "idle" /\ ad_facts = None
    /\ Len(ad_refs) + Cardinality({o \in Callers : ad_pc[o] # "idle"}) < MaxRefs
    /\ ad_event' = [ad_event EXCEPT ![c] = event]
    /\ ad_name' = [ad_name EXCEPT ![c] = Path(event.provider, ad_clock)]
    /\ ad_pc' = [ad_pc EXCEPT ![c] = "write"]
    /\ UNCHANGED <<ad_binary, ad_status, ad_started, ad_clock, ad_file, ad_refs, ad_overwritten,
                   exportVars>>

WriteArtifact(c) ==
    /\ ad_pc[c] = "write"
    /\ ad_file' = [ad_file EXCEPT ![ad_name[c]] = ad_event[c]]
    /\ ad_overwritten' = IF ad_file[ad_name[c]] = None THEN ad_overwritten
                         ELSE ad_overwritten \cup {ad_name[c]}
    /\ ad_pc' = [ad_pc EXCEPT ![c] = "hash"]
    /\ UNCHANGED <<ad_binary, ad_status, ad_started, ad_clock, ad_event, ad_name, ad_refs, exportVars>>

\* sha256_file: the hash is of what the file holds by then.
Ref(event, name, hash) ==
    [provider |-> event.provider, path |-> name, word |-> None, hash |-> hash,
     pid |-> event.pid, start |-> event.start, of |-> event]

Hash(c) ==
    /\ ad_pc[c] = "hash"
    /\ ad_refs' = Append(ad_refs, Ref(ad_event[c], ad_name[c], ad_file[ad_name[c]]))
    /\ ad_pc' = [ad_pc EXCEPT ![c] = "idle"]
    /\ ad_event' = [ad_event EXCEPT ![c] = None] /\ ad_name' = [ad_name EXCEPT ![c] = None]
    /\ UNCHANGED <<ad_binary, ad_status, ad_started, ad_clock, ad_file, ad_overwritten, exportVars>>

\* The file cannot be written, checked or read back.
CaptureFails(c) ==
    /\ ad_pc[c] # "idle"
    /\ ad_pc' = [ad_pc EXCEPT ![c] = "idle"]
    /\ ad_event' = [ad_event EXCEPT ![c] = None] /\ ad_name' = [ad_name EXCEPT ![c] = None]
    /\ UNCHANGED <<ad_binary, ad_status, ad_started, ad_clock, ad_file, ad_refs, ad_overwritten,
                   exportVars>>

\* A second passes.
Tick ==
    /\ ad_clock < MaxClock /\ ad_clock' = ad_clock + 1
    /\ UNCHANGED <<ad_binary, ad_status, ad_started, ad_file, ad_pc, ad_event, ad_name, ad_refs,
                   ad_overwritten, exportVars>>

-----------------------------------------------------------------------------
(* The reducer                                                             *)

\* parse_artifact_identity: the family is read from the file's name.
Family(ref) ==
    CASE ref.word = "exit" -> "observed_exit"
      [] ref.word = "exception" -> "observed_exception"
      [] ref.word = "exec" -> "observed_exec"
      [] ref.word = "class_load" -> "observed_class_load"
      [] OTHER -> IF ref.provider = "jfr" THEN "observed_class_load" ELSE "observed_exec"

Fidelity(ref) == IF ref.provider = "jfr" THEN "exact_runtime" ELSE "kernel_observed"

\* Mutant of Key: the process is known by its identifier alone.
KeyByPid(ref) == [pid |-> ref.pid]

Key(ref) == [pid |-> ref.pid, start |-> ref.start]

\* How often the process of the i-th reference had been seen by then.
Observations(refs, i) == Cardinality({j \in 1..i : Key(refs[j]) = Key(refs[i])})

Fact(refs, i) ==
    [family |-> Family(refs[i]), process |-> [pid |-> refs[i].pid, start |-> refs[i].start],
     fidelity |-> Fidelity(refs[i]), artifact |-> refs[i],
     observations |-> Observations(refs, i)]

\* reduce_artifacts: one reference to a process without a start time refuses them all.
Reduced(refs) ==
    IF \E i \in DOMAIN refs : refs[i].start = 0 THEN None
    ELSE [i \in DOMAIN refs |-> Fact(refs, i)]

\* The callers reduce what they captured, with a reference that was made elsewhere.
Reduce ==
    /\ ad_facts = None /\ ad_refs # <<>> /\ \A c \in Callers : ad_pc[c] = "idle"
    /\ \/ ad_facts' = Reduced(ad_refs)
       \/ \E w \in Words : ad_facts' = Reduced([ad_refs EXCEPT ![1].word = w, ![1].of.type = w])
    /\ ad_facts' # None
    /\ UNCHANGED <<ad_binary, ad_status, ad_started, ad_clock, ad_file, ad_pc, ad_event, ad_name,
                   ad_refs, ad_overwritten, ad_manifest, ad_jsonl, ad_json>>

-----------------------------------------------------------------------------
(* The export                                                              *)

capturedVars == <<ad_binary, ad_status, ad_started, ad_clock, ad_file, ad_pc, ad_event, ad_name,
             ad_refs, ad_overwritten, ad_facts>>

SetManifest == ~ad_manifest /\ ad_manifest' = TRUE /\ UNCHANGED <<ad_jsonl, ad_json, capturedVars>>

\* export_all: the facts are written, all of them or a part, then the manifest.
ExportFacts ==
    /\ ad_facts # None /\ ad_jsonl = None
    /\ \E n \in 0..Len(ad_facts) :
         ad_jsonl' = [lines |-> SubSeq(ad_facts, 1, n), ok |-> n = Len(ad_facts)]
    /\ UNCHANGED <<ad_manifest, ad_json, capturedVars>>

ExportManifest ==
    /\ ad_jsonl # None /\ ad_jsonl.ok /\ ad_json = None
    /\ IF ad_manifest THEN ad_json' \in {"whole", "broken"} ELSE ad_json' = "refused"
    /\ UNCHANGED <<ad_manifest, ad_jsonl, capturedVars>>

AdNext ==
    \/ \E p \in Providers : Start(p) \/ Stop(p)
    \/ \E c \in Callers : \/ \E e \in Event : Capture(c, e)
                          \/ WriteArtifact(c) \/ Hash(c) \/ CaptureFails(c)
    \/ Tick \/ Reduce \/ SetManifest \/ ExportFacts \/ ExportManifest

AdSpec == AdInit /\ [][AdNext]_adVars

-----------------------------------------------------------------------------
(* Properties                                                              *)

\* A reference whose hash is not its event's, or whose file has changed since,
\* is to a file that a second capture wrote in the same second.
RefTellsFile ==
    \A i \in DOMAIN ad_refs :
        LET r == ad_refs[i]
        IN  r.hash # r.of \/ ad_file[r.path] # r.hash => r.path \in ad_overwritten

\* The facts of one process count up from one without a gap, those of another
\* process with the same identifier are counted apart, and there is a fact for
\* every reference.
FactsAddUp ==
    ad_facts # None =>
        /\ Len(ad_facts) = Len(ad_refs)
        /\ \A i \in DOMAIN ad_facts :
             LET same == {j \in DOMAIN ad_facts : ad_facts[j].process = ad_facts[i].process}
             IN  /\ {ad_facts[j].observations : j \in same} = 1..Cardinality(same)
                 /\ ad_facts[i].process.start > 0

\* A manifest that was written whole attests facts that were all written.
ManifestHasFacts == ad_json = "whole" => ad_jsonl.lines = ad_facts

\* What the adapters captured, the reducer counted and the export wrote agree.
EvidenceAddsUp == RefTellsFile /\ FactsAddUp /\ ManifestHasFacts

=============================================================================
