------------------------------ MODULE Observe ------------------------------
(***************************************************************************)
(* Observe collectors and the bundles they write (core/src/observe): the   *)
(* supervisor's ticks, the bounded queues of the sampler and of the audit  *)
(* hook, the batched and hash-chained BundleWriter, and the verification   *)
(* of the bundle that is left.                                             *)
(*                                                                         *)
(* A bundle can be written by several sessions, one after another or at    *)
(* once: its path is the caller's.  A hash is the term of what was hashed, *)
(* so that two hashes are equal only if their inputs are.  The checkpoint  *)
(* sidecar is written and never read: only its failure is modelled.        *)
(***************************************************************************)
EXTENDS Integers, Sequences, SequencesExt, FiniteSetsExt

CONSTANTS
    Sessions,   \* supervisors created for the bundle's path
    Daemon,     \* those of the daemon, which run with wal_mutex held
    Dal,        \* their design assurance level
    BatchSize, SampleCap, AuditCap,
    CliTicks, DaemonTicks,   \* bounds of the two collection loops (50 and 100)
    Records,    \* bound: audit events recorded per session
    MaxFaults   \* bound: failed writes

\* BatchSize is at least 2.  The loops are shorter than the sampler's queue (512), which is
\* never drained: CliTicks and DaemonTicks are at most SampleCap.

VARIABLES
    pc,
    bundle,             \* the lines of the file
    batch, prev, next,  \* BundleWriter: batch, prev_hash, next_seq
    due,                \* events the tick still has to append
    watermark, tick,    \* ObserveSupervisor
    queued,             \* the sampler's channel
    audits, lost,       \* AuditHook: queue and dropped
    history,            \* history: every event a session appended, in order
    suspended,          \* history: ticks without a sample
    recorded,           \* history: audit events offered
    faults

writer == <<bundle, batch, prev, next, history>>
collector == <<watermark, tick, queued, suspended>>
hook == <<audits, lost, recorded>>
vars == <<pc, writer, due, collector, hook, faults>>

Ticks(s) == IF s \in Daemon THEN DaemonTicks ELSE CliTicks

Unstamped == <<>>
Genesis == <<"genesis">>
Torn == [run |-> Genesis, seq |-> -1, type |-> "torn", data |-> 0, hash |-> Unstamped]

Watermarks == {"Complete", "Truncated", "Incomplete"}
\* ObserveCompleted is named by the watermark it carries.
Kinds == {"started", "sample", "audit", "lost", "suspended", "truncated"} \cup Watermarks
Event(s, n, e) == [run |-> s, seq |-> n, type |-> e[1], data |-> e[2], hash |-> Unstamped]
Bare(line) == [line EXCEPT !.hash = Unstamped]

\* Shapes and ranges; the queues stay within their capacity and no sample is lost
\* to overflow, the loop being shorter than the queue.
TypeOK ==
    /\ pc \in [Sessions -> {"new", "opened", "created", "running", "failing", "sampled", "draining", "closing", "dropping",
                            "completed", "failed", "parked", "dead"}]
    /\ \A s \in Sessions :
        /\ \A i \in DOMAIN batch[s] : batch[s][i].seq \in Nat /\ batch[s][i].type \in Kinds
        /\ next[s] \in Nat /\ tick[s] \in 0..Ticks(s)
        /\ queued[s] \in 0..SampleCap /\ queued[s] <= tick[s]
        /\ audits[s] \in 0..AuditCap /\ lost[s] \in 0..recorded[s]
        /\ \A i \in DOMAIN due[s] : due[s][i][1] \in Kinds
    /\ watermark \in [Sessions -> Watermarks]
    /\ recorded \in [Sessions -> 0..Records]
    /\ faults \in 0..MaxFaults

Init ==
    /\ pc = [s \in Sessions |-> "new"]
    /\ bundle = <<>>
    /\ batch = [s \in Sessions |-> <<>>] /\ due = batch /\ history = batch
    /\ prev = [s \in Sessions |-> Genesis]
    /\ watermark = [s \in Sessions |-> "Complete"]
    /\ next = [s \in Sessions |-> 0]
    /\ tick = next /\ queued = next /\ suspended = next
    /\ audits = next /\ lost = next /\ recorded = next
    /\ faults = 0

Goto(s, label) == pc' = [pc EXCEPT ![s] = label]

-----------------------------------------------------------------------------
(* BundleWriter                                                            *)

\* The hash of a batch covers the events as they are serialised then, with the
\* stamps that an earlier, failed flush has left on them.
HashOf(previous, events) == <<previous, events>>

Stamped(s, events) ==
    [i \in DOMAIN events |-> [events[i] EXCEPT !.hash = HashOf(prev[s], events)]]

\* Lines appended to the file; the first is glued to a torn line at its end.
Written(lines) ==
    IF bundle # <<>> /\ lines # <<>> /\ Last(bundle) = Torn
    THEN bundle \o Tail(lines) ELSE bundle \o lines

\* flush_batch under the lock of the file: all lines and one fsync.
Flush(s, events) ==
    /\ bundle' = Written(Stamped(s, events))
    /\ prev' = IF events = <<>> THEN prev
               ELSE [prev EXCEPT ![s] = Last(Stamped(s, events)).hash]
    /\ batch' = [batch EXCEPT ![s] = <<>>]

\* A write or fsync fails after a prefix of the lines, the next one perhaps torn:
\* the batch stays, stamped.
FlushFails(s, events) ==
    /\ faults < MaxFaults /\ events # <<>>
    /\ faults' = faults + 1
    /\ batch' = [batch EXCEPT ![s] = Stamped(s, events)]
    /\ \E n \in 0..Len(events), tear \in {<<>>, <<Torn>>} :
         /\ n = Len(events) => tear = <<>>
         /\ bundle' = Written(SubSeq(Stamped(s, events), 1, n) \o tear)
    /\ UNCHANGED prev

\* next_seq is recovered from the lines that parse, prev_hash is not.
Open(s) ==
    /\ pc[s] = "new" /\ Goto(s, "opened")
    /\ LET seqs == {bundle[i].seq : i \in {j \in DOMAIN bundle : bundle[j] # Torn}}
           first == IF seqs = {} THEN 0 ELSE 1 + CHOOSE n \in seqs : \A m \in seqs : m <= n
           start == <<Event(s, first, <<"started", 0>>)>>
       IN  /\ batch' = [batch EXCEPT ![s] = start]
           /\ history' = [history EXCEPT ![s] = start]
           /\ next' = [next EXCEPT ![s] = first + 1]
    /\ UNCHANGED <<bundle, prev, due, collector, hook, faults>>

\* new_at_path: ObserveStarted is flushed at once, errors ignored.
Start(s) ==
    /\ pc[s] = "opened" /\ Goto(s, "created")
    /\ \/ Flush(s, batch[s]) /\ UNCHANGED faults
       \/ FlushFails(s, batch[s])
    /\ UNCHANGED <<next, history, due, collector, hook>>

Put(s, e) == Append(batch[s], Event(s, next[s], e))

Number(s, e) ==
    /\ next' = [next EXCEPT ![s] = @ + 1]
    /\ history' = [history EXCEPT ![s] = Append(@, Event(s, next[s], e))]

\* append, and a flush when the batch is full or the caller asks for one.
Appended(s, e, flush) ==
    /\ Number(s, e)
    /\ IF flush \/ Len(Put(s, e)) >= BatchSize THEN Flush(s, Put(s, e))
       ELSE batch' = [batch EXCEPT ![s] = Put(s, e)] /\ UNCHANGED <<bundle, prev>>

\* append returns an error: of the flush, or of the checkpoint that follows it.
AppendFails(s, e, flush) ==
    \/ /\ flush \/ Len(Put(s, e)) >= BatchSize
       /\ Number(s, e) /\ FlushFails(s, Put(s, e))
    \/ /\ faults < MaxFaults /\ faults' = faults + 1
       /\ Appended(s, e, FALSE)

-----------------------------------------------------------------------------
(* ObserveSupervisor                                                       *)

\* attach; process 0 is rejected with a marker. The daemon gives up then, the CLI
\* goes on.
Attach(s) ==
    /\ pc[s] = "created"
    /\ \/ Goto(s, "running") /\ UNCHANGED <<writer, faults>>
       \/ /\ Goto(s, IF s \in Daemon THEN "dropping" ELSE "running")
          /\ \/ Appended(s, <<"truncated", 0>>, FALSE) /\ UNCHANGED faults
             \/ AppendFails(s, <<"truncated", 0>>, FALSE)
    /\ UNCHANGED <<due, collector, hook>>

\* gated_tick: a sample, of the target or a fallback marker, is queued and appended.
\* The daemon's closure holds wal_mutex, so that its supervisor waits for itself.
Sample(s) ==
    /\ pc[s] = "running" /\ tick[s] < Ticks(s) /\ queued[s] < SampleCap
    /\ tick' = [tick EXCEPT ![s] = @ + 1]
    /\ queued' = [queued EXCEPT ![s] = @ + 1]
    /\ \/ s \in Daemon /\ Goto(s, "parked") /\ UNCHANGED <<writer, faults>>
       \/ /\ s \notin Daemon /\ Goto(s, "sampled") /\ UNCHANGED faults
          /\ Appended(s, <<"sample", tick[s]>>, FALSE)
       \/ /\ s \notin Daemon /\ Goto(s, "failing")
          /\ AppendFails(s, <<"sample", tick[s]>>, FALSE)
    /\ UNCHANGED <<due, watermark, suspended, hook>>

\* Pressure above the ceiling, or a full queue: no sample, but a marker at once.
SuspendWith(s, mark) ==
    /\ pc[s] = "running" /\ tick[s] < Ticks(s)
    /\ tick' = [tick EXCEPT ![s] = @ + 1]
    /\ suspended' = [suspended EXCEPT ![s] = @ + 1]
    /\ watermark' = [watermark EXCEPT ![s] = mark]
    /\ \/ Appended(s, <<"suspended", 0>>, TRUE) /\ Goto(s, "sampled") /\ UNCHANGED faults
       \/ AppendFails(s, <<"suspended", 0>>, TRUE) /\ UNCHANGED pc
    /\ UNCHANGED <<due, queued, hook>>

\* Mutant of Suspend: the watermark stays.
SuspendUnmarked(s) == SuspendWith(s, watermark[s])

Suspend(s) == SuspendWith(s, IF watermark[s] = "Complete" THEN "Truncated" ELSE watermark[s])

\* dal_decision_for: only the highest assurance level halts a collector that failed.
Decision == CASE Dal = "A" -> "Halt" [] Dal = "E" -> "Proceed" [] OTHER -> "Degraded"

\* on_failure(DiskFull); the loop ignores the error that the tick returns.
OnFailure(s) ==
    /\ pc[s] = "failing" /\ Goto(s, "running")
    /\ watermark' = [watermark EXCEPT ![s] =
                        IF Decision = "Halt" \/ @ = "Incomplete" THEN "Incomplete" ELSE "Truncated"]
    /\ \/ Appended(s, <<"truncated", 0>>, FALSE) /\ UNCHANGED faults
       \/ AppendFails(s, <<"truncated", 0>>, FALSE)
    /\ UNCHANGED <<due, tick, queued, suspended, hook>>

\* AuditHook::record, from any thread: the newest is dropped when the queue is full.
\* Between two drains the moment makes no difference, so only one is enumerated; a
\* daemon session ends with its first sample and never drains.
Record(s) ==
    /\ pc[s] = "running" /\ s \notin Daemon
    /\ recorded[s] < Records
    /\ recorded' = [recorded EXCEPT ![s] = @ + 1]
    /\ IF audits[s] < AuditCap THEN audits' = [audits EXCEPT ![s] = @ + 1] /\ UNCHANGED lost
       ELSE lost' = [lost EXCEPT ![s] = @ + 1] /\ UNCHANGED audits
    /\ UNCHANGED <<pc, writer, due, collector, faults>>

\* AuditHook::drain: the queue, and a marker with the number of the dropped ones.
Drain(s) ==
    /\ pc[s] = "sampled" /\ Goto(s, "draining")
    /\ due' = [due EXCEPT ![s] = [i \in 1..audits[s] |-> <<"audit", 0>>]
                                 \o IF lost[s] > 0 THEN <<<<"lost", lost[s]>>>> ELSE <<>>]
    /\ audits' = [audits EXCEPT ![s] = 0] /\ lost' = [lost EXCEPT ![s] = 0]
    /\ UNCHANGED <<writer, collector, recorded, faults>>

\* An error drops the events that were drained after the one that failed.
WriteAudit(s) ==
    /\ pc[s] = "draining" /\ due[s] # <<>>
    /\ \/ /\ Appended(s, Head(due[s]), FALSE)
          /\ due' = [due EXCEPT ![s] = Tail(@)] /\ UNCHANGED <<pc, faults>>
       \/ /\ AppendFails(s, Head(due[s]), FALSE)
          /\ due' = [due EXCEPT ![s] = <<>>] /\ Goto(s, "running")
    /\ UNCHANGED <<collector, hook>>

\* maybe_flush_time: the window of the batch may have elapsed.
EndTick(s) ==
    /\ pc[s] = "draining" /\ due[s] = <<>> /\ Goto(s, "running")
    /\ \/ UNCHANGED <<bundle, batch, prev, faults>>
       \/ Flush(s, batch[s]) /\ UNCHANGED faults
       \/ FlushFails(s, batch[s])
    /\ UNCHANGED <<next, history, due, collector, hook>>

\* finalize: ObserveCompleted is appended, an error of that append ignored. The loop
\* ends with its ticks or its time.
Finalize(s) ==
    /\ pc[s] = "running" /\ Goto(s, "closing")
    /\ \/ Appended(s, <<watermark[s], 0>>, FALSE) /\ UNCHANGED faults
       \/ AppendFails(s, <<watermark[s], 0>>, FALSE)
    /\ UNCHANGED <<due, collector, hook>>

\* Mutant of Close: the result of the flush is not looked at.
CloseBlindly(s) ==
    /\ pc[s] = "closing" /\ Goto(s, "completed")
    /\ \/ Flush(s, batch[s]) /\ UNCHANGED faults
       \/ FlushFails(s, batch[s])
    /\ UNCHANGED <<next, history, due, collector, hook>>

\* BundleWriter::finalize: flush, fsync and checkpoint; its error fails the job.
Close(s) ==
    /\ pc[s] = "closing"
    /\ \/ Flush(s, batch[s]) /\ Goto(s, "completed") /\ UNCHANGED faults
       \/ /\ faults < MaxFaults /\ faults' = faults + 1
          /\ Flush(s, batch[s]) /\ Goto(s, "dropping")
       \/ FlushFails(s, batch[s]) /\ Goto(s, "dropping")
    /\ UNCHANGED <<next, history, due, collector, hook>>

\* BundleWriter::drop tries once more; the CLI exits without dropping.
Drop(s) ==
    /\ pc[s] = "dropping" /\ Goto(s, "failed")
    /\ \/ s \in Daemon /\ Flush(s, batch[s]) /\ UNCHANGED faults
       \/ s \in Daemon /\ FlushFails(s, batch[s])
       \/ s \notin Daemon /\ UNCHANGED <<bundle, batch, prev, faults>>
    /\ UNCHANGED <<next, history, due, collector, hook>>

\* The collector's process is killed: nothing is flushed, its memory is lost. A
\* death in the middle of a write is a failed flush and then a death.
Die(s) ==
    /\ pc[s] \notin {"new", "completed", "failed", "dead"} /\ Goto(s, "dead")
    /\ batch' = [batch EXCEPT ![s] = <<>>] /\ due' = [due EXCEPT ![s] = <<>>]
    /\ prev' = [prev EXCEPT ![s] = Genesis]
    /\ queued' = [queued EXCEPT ![s] = 0]
    /\ audits' = [audits EXCEPT ![s] = 0] /\ lost' = [lost EXCEPT ![s] = 0]
    /\ recorded' = [recorded EXCEPT ![s] = 0]
    /\ UNCHANGED <<bundle, next, history, watermark, tick, suspended, faults>>

Next == \E s \in Sessions :
    \/ Open(s) \/ Start(s) \/ Attach(s) \/ Sample(s) \/ Suspend(s)
    \/ OnFailure(s) \/ Record(s) \/ Drain(s) \/ WriteAudit(s) \/ EndTick(s)
    \/ Finalize(s) \/ Close(s) \/ Drop(s) \/ Die(s)

Spec == Init /\ [][Next]_vars

-----------------------------------------------------------------------------
(* verify_bundle_inner                                                     *)

Events == SelectSeq(bundle, LAMBDA line : line # Torn)

StructurallyParseable == Torn \notin {bundle[i] : i \in DOMAIN bundle}

\* The lines i..j of ev are those of one batch: the longest run with one stamp.
IsBatch(ev, i, j) ==
    /\ i > 1 => ev[i - 1].hash # ev[i].hash
    /\ \A k \in i..j : ev[k].hash = ev[i].hash
    /\ j < Len(ev) => ev[j + 1].hash # ev[i].hash

\* Mutant of IntegrityValid: a stamp is enough.
StampsPresent == \A i \in DOMAIN Events : Events[i].hash # Unstamped

IntegrityValid ==
    LET ev == Events IN
    \A i \in DOMAIN ev : \A j \in i..Len(ev) : IsBatch(ev, i, j) =>
        ev[i].hash = HashOf(IF i = 1 THEN Genesis ELSE ev[i - 1].hash,
                            [k \in 1..(j - i + 1) |-> Bare(ev[i + k - 1])])

LifecycleValid ==
    LET ev == Events IN
    /\ ev # <<>> => ev[1].seq = 0
    /\ \A i \in 2..Len(ev) : ev[i].seq > ev[i - 1].seq

CompletenessKnown ==
    LET ev == Events IN
    \A i \in 2..Len(ev) : ev[i].seq # ev[i - 1].seq + 1 => ev[i].type = "truncated"

Admissible ==
    StructurallyParseable /\ LifecycleValid /\ CompletenessKnown /\ IntegrityValid

FinalWatermark ==
    LET ev == Events
        done == {i \in DOMAIN ev : ev[i].type \in Watermarks}
    IN  IF done = {} THEN "none" ELSE ev[CHOOSE i \in done : \A j \in done : j <= i].type

-----------------------------------------------------------------------------
(* Properties                                                              *)

Of(s, type) == {i \in DOMAIN Events : Events[i].run = s /\ Events[i].type = type}

\* verify_report does not reject what an honest collector leaves: a bundle written
\* by one session without a failed write is admissible at every moment, also when
\* the collector was killed.
HonestAdmissible ==
    (faults = 0 /\ \A s, t \in Sessions : s # t => "new" \in {pc[s], pc[t]}) => Admissible

\* "admissible" means what it says: the file is the beginning of what one session
\* appended, in order, nothing changed, doubled or left out. A bundle of two
\* sessions, or one with the remains of a failed write, is not admissible.
AdmissibleIsFaithful ==
    LET ev == Events IN
    Admissible => \E s \in Sessions :
        /\ Len(ev) <= Len(history[s])
        /\ \A i \in DOMAIN ev : Bare(ev[i]) = history[s][i]

\* An admissible bundle with the watermark Complete misses no tick: each one gave
\* a sample and each sample is in the file.
CompleteMissesNothing ==
    (FinalWatermark = "Complete" /\ Admissible) =>
        \A s \in Sessions : Of(s, "started") # {} =>
            suspended[s] = 0 /\ Cardinality(Of(s, "sample")) = tick[s]

\* A job that is reported as completed has its ObserveCompleted event in the file,
\* or the file is not parseable: the event was glued to the torn line that a failed
\* write of another session left.
CompletedIsWritten ==
    \A s \in Sessions : pc[s] = "completed" =>
        \/ \E i \in DOMAIN bundle : bundle[i].run = s /\ bundle[i].type \in Watermarks
        \/ ~ StructurallyParseable

\* "never silent" (AuditHook::record): in a bundle written without a failure, every
\* audit event is a line of its own, counted by a marker, or one that came after
\* the last tick and is still queued.
AuditAccounted ==
    \A s \in Sessions : (pc[s] = "completed" /\ faults = 0) =>
        recorded[s] = Cardinality(Of(s, "audit")) + audits[s] + lost[s]
                      + MapThenSumSet(LAMBDA i : Events[i].data, Of(s, "lost"))
=============================================================================
