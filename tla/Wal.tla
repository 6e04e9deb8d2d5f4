-------------------------------- MODULE Wal ---------------------------------
(***************************************************************************)
(* The write-ahead log of core/src/wal.rs as files: the current file, its  *)
(* rotated archives and the temporary file of a cleanup are directory      *)
(* entries that name inodes; an flock belongs to an inode, and a           *)
(* descriptor keeps its inode whatever happens to the name.                *)
(*                                                                         *)
(* A writer is one WalWriter: it is created (which leaves a marker line)   *)
(* and then appends; each append opens the path anew.  The daemon's        *)
(* maintenance task cleans up and rotates without taking the WAL mutex     *)
(* that serializes the daemon's own writers.                               *)
(***************************************************************************)
EXTENDS Integers, SequencesExt

CONSTANTS
    Writers,       \* WalWriter instances
    Serialized,    \* TRUE: all writers live in the daemon, one at a time
    Maintains,     \* TRUE: the daemon's maintenance task runs
    MaxRotations,  \* number of archives kept (5 in the daemon)
    RotateLen,     \* length at which a file is rotated
    MaxAge,        \* retention of a cleanup
    MaxAppends,    \* bound: appends per writer
    MaxClock,      \* bound: the time
    MaxTicks,      \* bound: rounds of maintenance
    MaxFaults,     \* bound: failed appends and crashes of maintenance
    Nobody         \* an flock is free; the writer of a cleanup's temporary file

ASSUME WalAssumption ==
    /\ Serialized \in BOOLEAN /\ Maintains \in BOOLEAN
    /\ MaxRotations \in Nat \ {0}
    /\ {RotateLen, MaxAge, MaxAppends, MaxClock, MaxTicks, MaxFaults} \subseteq Nat
    /\ Nobody \notin Writers

VARIABLES
    files,       \* inode -> its lines and the holder of its flock
    cur,         \* the inode the path names, 0 if none
    arch,        \* the inodes of path.1, path.2, ...
    tmp,         \* the inode of a cleanup's temporary file
    wr,          \* the writers
    mt,          \* the maintenance task
    clock, faults,
    acked,       \* history: events whose append returned Ok
    exposed,     \* history: events appended in an exposure (see AppendWrite)
    rotatedOut   \* history: events of an archive that rotation dropped

dirs == <<cur, arch, tmp>>
histories == <<acked, exposed, rotatedOut>>
vars == <<files, cur, arch, tmp, wr, mt, clock, faults, histories>>

Maint == "maintenance"
Events == Writers \X (1..MaxAppends)
Line(k, w, n, s) == [kind |-> k, w |-> w, n |-> n, seq |-> s, ts |-> clock]

\* A torn line has no newline, so that the next line is glued to it.
Parses(line) == line.kind \in {"marker", "event"}
\* Mutant of Push: a write that was retried.
PushTwice(lines, line) == lines \o <<line, line>>

Push(lines, line) ==
    IF lines # <<>> /\ Last(lines).kind = "torn"
    THEN Append(Front(lines), [line EXCEPT !.kind = "glued"])
    ELSE Append(lines, line)

\* The elements of s at the positions in S.
Picked(s, S) ==
    LET upto[i \in 0..Len(s)] ==
            IF i = 0 THEN <<>> ELSE IF i \in S THEN Append(upto[i - 1], s[i]) ELSE upto[i - 1]
    IN  upto[Len(s)]

Parsed(lines) == Picked(lines, {k \in DOMAIN lines : Parses(lines[k])})
Lines(i) == IF i = 0 THEN <<>> ELSE files[i].lines
EventsOf(i) == Picked(Lines(i), {k \in DOMAIN Lines(i) : Lines(i)[k].kind = "event"})
EventsIn(lines) == {<<lines[i].w, lines[i].n>> : i \in {k \in DOMAIN lines : lines[k].kind = "event"}}

\* WalWriter::create recovers the sequence number of the last line that parses
\* or, when the last 8 KB hold no such line, the largest one.
\* Mutant of RecoveredSeqs: every writer numbers from the start.
NoRecovery(lines) == {0}

RecoveredSeqs(lines) ==
    LET seqs == {line.seq : line \in ToSet(Parsed(lines))} IN
    IF seqs = {} THEN {0} ELSE {Last(Parsed(lines)).seq, Max(seqs)}

\* Mutant of LoadAll: the current file comes first.
CurrentFirst == EventsOf(cur) \o FlattenSeq([i \in 1..MaxRotations |-> EventsOf(arch[i])])

\* WalReader::load_all: path.1, path.2, ..., then the current file; no markers.
LoadAll == FlattenSeq([i \in 1..MaxRotations |-> EventsOf(arch[i])]) \o EventsOf(cur)
Readable ==
    LET Id(line) == <<line.w, line.n>>
        load == LoadAll
    IN  [i \in DOMAIN load |-> Id(load[i])]

\* Mutant of NewFile: a missing file is not created.
NotCreated(lines) == files

\* Mutant of Lock: LOCK_NB and its error dropped.
LockIgnored(i, who) == files' = [files EXCEPT ![i].flock = who]

NewFile(lines) == Append(files, [lines |-> lines, flock |-> Nobody])
Lock(i, who) == files[i].flock = Nobody /\ files' = [files EXCEPT ![i].flock = who]
\* files after the lines of i became ls and its flock was released
WrittenAndUnlocked(i, ls) == [files EXCEPT ![i] = [lines |-> ls, flock |-> Nobody]]

Init ==
    /\ files = <<>>
    /\ cur = 0 /\ arch = [i \in 1..MaxRotations |-> 0] /\ tmp = 0
    /\ wr = [w \in Writers |-> [pc |-> "none", fd |-> 0, seq |-> 0, sent |-> 0, late |-> FALSE]]
    /\ mt = [pc |-> "idle", fd |-> 0, ticks |-> 0]
    /\ clock = 0 /\ faults = 0
    /\ acked = {} /\ exposed = {} /\ rotatedOut = {}

-----------------------------------------------------------------------------
(* Writers                                                                 *)

\* Between rename and re-creation of the path, rotation holds no valid lock on it.
InRotationWindow == mt.pc = "renamed"

\* open(create, append) of the path: the descriptor, and the files after it.
OpenPath(w, pc) ==
    LET fd == IF cur = 0 THEN Len(files) + 1 ELSE cur IN
    /\ cur' = fd
    /\ files' = IF cur = 0 THEN NewFile(<<>>) ELSE files
    /\ wr' = [wr EXCEPT ![w].pc = pc, ![w].fd = fd, ![w].late = InRotationWindow]

\* create: create_new of the path; AlreadyExists is expected.
CreateNew(w) ==
    /\ wr[w].pc = "none"
    /\ Serialized => \A v \in Writers : wr[v].pc \in {"none", "closed"}
    /\ OpenPath(w, "createOpen")
    /\ UNCHANGED <<arch, tmp, mt, clock, faults, histories>>

\* The path is opened again for the marker; if it is gone by now the writer starts
\* at 1 and leaves no marker.
CreateOpen(w) ==
    /\ wr[w].pc = "createOpen"
    /\ IF cur = 0
       THEN /\ wr' = [wr EXCEPT ![w].pc = "ready", ![w].seq = 1]
            /\ UNCHANGED <<files, cur>>
       ELSE OpenPath(w, "createLock")
    /\ UNCHANGED <<arch, tmp, mt, clock, faults, histories>>

WriterLock(w) ==
    /\ \/ wr[w].pc = "createLock" /\ wr' = [wr EXCEPT ![w].pc = "createWrite"]
       \/ wr[w].pc = "appendLock" /\ wr' = [wr EXCEPT ![w].pc = "appendWrite"]
    /\ Lock(wr[w].fd, w)
    /\ UNCHANGED <<dirs, mt, clock, faults, histories>>

\* The base is read through the path, the marker written to the descriptor.  A
\* path that rotation has just renamed away cannot be read: create fails.
CreateMarker(w) ==
    /\ wr[w].pc = "createWrite"
    /\ \/ /\ cur # 0
          /\ \E base \in RecoveredSeqs(Lines(cur)) :
                /\ files' = WrittenAndUnlocked(wr[w].fd,
                                Push(Lines(wr[w].fd), Line("marker", w, 0, base)))
                /\ wr' = [wr EXCEPT ![w].pc = "ready", ![w].seq = base + 1]
       \/ /\ cur = 0
          /\ files' = WrittenAndUnlocked(wr[w].fd, Lines(wr[w].fd))
          /\ wr' = [wr EXCEPT ![w].pc = "closed"]
    /\ UNCHANGED <<dirs, mt, clock, faults, histories>>

AppendOpen(w) ==
    /\ wr[w].pc = "ready"
    /\ wr[w].sent < MaxAppends
    /\ OpenPath(w, "appendLock")
    /\ UNCHANGED <<arch, tmp, mt, clock, faults, histories>>

\* write, flush, fsync, unlock, count; Ok is returned.  The event is exposed when
\* its descriptor was opened in the rotation window, when the file lost its last
\* name under it, or when it follows a torn line.
AppendWrite(w) ==
    LET s == wr[w]
        n == s.sent + 1
        lines == Push(Lines(s.fd), Line("event", w, n, s.seq)) IN
    /\ s.pc = "appendWrite"
    /\ files' = WrittenAndUnlocked(s.fd, lines)
    /\ wr' = [wr EXCEPT ![w].pc = "ready", ![w].seq = s.seq + 1, ![w].sent = n]
    /\ acked' = acked \cup {<<w, n>>}
    /\ exposed' = IF s.late \/ Last(lines).kind = "glued" THEN exposed \cup {<<w, n>>} ELSE exposed
    /\ UNCHANGED <<dirs, mt, clock, faults, rotatedOut>>

\* write, flush or fsync fails: nothing, a part or all of the line is in the file
\* when the error is returned; the counter stays.  Or the process dies there.
AppendFail(w) ==
    LET s == wr[w]
        line(k) == Push(Lines(s.fd), Line(k, w, s.sent + 1, s.seq)) IN
    /\ s.pc = "appendWrite"
    /\ faults < MaxFaults
    /\ \E lines \in {Lines(s.fd), line("torn"), line("event")} :
           /\ files' = WrittenAndUnlocked(s.fd, lines)
           /\ exposed' = IF s.late THEN exposed \cup {<<w, s.sent + 1>>} ELSE exposed
    /\ \E pc \in {"ready", "closed"} :
           wr' = [wr EXCEPT ![w].pc = pc, ![w].sent = s.sent + 1]
    /\ faults' = faults + 1
    /\ UNCHANGED <<dirs, mt, clock, acked, rotatedOut>>

\* The execution that owns the writer is over.
Close(w) ==
    /\ wr[w].pc = "ready"
    /\ wr' = [wr EXCEPT ![w].pc = "closed"]
    /\ UNCHANGED <<files, dirs, mt, clock, faults, histories>>

-----------------------------------------------------------------------------
(* The maintenance task: cleanup, then rotate                              *)

Fresh(line) == line.ts + MaxAge >= clock
Step(pc) == mt' = [mt EXCEPT !.pc = pc]

\* The hour is over.  A missing file ends the cleanup and the rotation with it.
CleanupOpen ==
    /\ Maintains
    /\ mt.pc = "idle" /\ mt.ticks < MaxTicks
    /\ cur # 0
    /\ mt' = [pc |-> "cleanupLock", fd |-> cur, ticks |-> mt.ticks + 1]
    /\ UNCHANGED <<files, dirs, wr, clock, faults, histories>>

CleanupLock ==
    /\ mt.pc = "cleanupLock"
    /\ Lock(mt.fd, Maint)
    /\ Step("cleanupRead")
    /\ UNCHANGED <<dirs, wr, clock, faults, histories>>

\* What is old enough to remove; what is kept, and then again every line numbered
\* above the last one kept; the temporary file is opened like any WAL, so that it
\* gets a marker first and a stale one is appended to.
All == Parsed(Lines(cur))
Kept == Picked(All, {k \in DOMAIN All : Fresh(All[k])})

LastKept == IF Kept = <<>> THEN 0 ELSE Last(Kept).seq
Copied ==
    {<<Line("marker", Nobody, 0, base)>> \o Kept
        \o Picked(All, {k \in DOMAIN All : All[k].seq > LastKept}) : base \in RecoveredSeqs(Lines(tmp))}

WriteTemp(lines) ==
    IF tmp = 0
    THEN tmp' = Len(files) + 1 /\ files' = NewFile(lines)
    ELSE tmp' = tmp /\ files' = [files EXCEPT ![tmp].lines = @ \o lines]

CleanupNothing ==
    /\ mt.pc = "cleanupRead"
    /\ Len(Kept) = Len(All)
    /\ files' = [files EXCEPT ![mt.fd].flock = Nobody]
    /\ Step("cleaned")
    /\ UNCHANGED <<dirs, wr, clock, faults, histories>>

CleanupWrite ==
    /\ mt.pc = "cleanupRead"
    /\ Len(Kept) < Len(All)
    /\ \E lines \in Copied : WriteTemp(lines)
    /\ Step("cleanupRename")
    /\ UNCHANGED <<cur, arch, wr, clock, faults, histories>>

\* An append to the temporary file fails: the part that was written stays.  The
\* lock goes with the descriptor (CleanupUnlock).
CleanupFail ==
    /\ mt.pc = "cleanupRead"
    /\ Len(Kept) < Len(All)
    /\ faults < MaxFaults
    /\ faults' = faults + 1
    /\ \E lines \in Copied : \E k \in 0..Len(lines) : WriteTemp(SubSeq(lines, 1, k))
    /\ Step("cleanupError")
    /\ UNCHANGED <<cur, arch, wr, clock, histories>>

CleanupUnlock ==
    /\ mt.pc = "cleanupError"
    /\ files' = [files EXCEPT ![mt.fd].flock = Nobody]
    /\ Step("cleaned")
    /\ UNCHANGED <<dirs, wr, clock, faults, histories>>

\* Descriptors opened for an append on an inode that loses its last name.
Strand(i) == wr' = [w \in Writers |->
    IF wr[w].pc = "appendLock" /\ wr[w].fd = i THEN [wr[w] EXCEPT !.late = TRUE] ELSE wr[w]]

\* The temporary file takes the path.
CleanupRename ==
    /\ mt.pc = "cleanupRename"
    /\ cur' = tmp /\ tmp' = 0
    /\ Strand(cur)
    /\ files' = [files EXCEPT ![mt.fd].flock = Nobody]
    /\ Step("cleaned")
    /\ UNCHANGED <<arch, clock, faults, histories>>

\* stat, then open the path.
RotateOpen ==
    /\ mt.pc = "cleaned"
    /\ \/ /\ Len(Lines(cur)) >= RotateLen
          /\ mt' = [mt EXCEPT !.pc = "rotateLock", !.fd = cur]
       \/ /\ Len(Lines(cur)) < RotateLen
          /\ Step("idle")
    /\ UNCHANGED <<files, dirs, wr, clock, faults, histories>>

RotateLock ==
    /\ mt.pc = "rotateLock"
    /\ Lock(mt.fd, Maint)
    /\ Step("rotate")
    /\ UNCHANGED <<dirs, wr, clock, faults, histories>>

\* Shift the archives, the oldest is overwritten, and rename the path to path.1.
RotateRename ==
    /\ mt.pc = "rotate"
    /\ arch' = [i \in 1..MaxRotations |->
                   IF i = 1 THEN cur
                   ELSE IF arch[i - 1] # 0 THEN arch[i - 1] ELSE arch[i]]
    /\ cur' = 0
    /\ LET oldest == IF 0 \in ToSet(arch) THEN 0 ELSE arch[MaxRotations] IN
       /\ rotatedOut' = rotatedOut \cup EventsIn(Lines(oldest))
       /\ Strand(oldest)
    /\ Step("renamed")
    /\ UNCHANGED <<files, tmp, clock, faults, acked, exposed>>

\* fs::write(path, ""): creates the path, or truncates what is there by now.
RotateCreate ==
    /\ mt.pc = "renamed"
    /\ LET unlocked == [files EXCEPT ![mt.fd].flock = Nobody] IN
       \/ /\ cur = 0
          /\ files' = Append(unlocked, [lines |-> <<>>, flock |-> Nobody])
          /\ cur' = Len(files) + 1
       \/ /\ cur # 0
          /\ files' = [unlocked EXCEPT ![cur].lines = <<>>]
          /\ UNCHANGED cur
    /\ Step("idle")
    /\ UNCHANGED <<arch, tmp, wr, clock, faults, histories>>

\* The daemon dies in the middle of its maintenance, with the writers that live in
\* it, and is started again: their locks are gone, the files stay as they are.
Crash ==
    LET dead == IF Serialized THEN {w \in Writers : wr[w].pc # "none"} ELSE {} IN
    /\ mt.pc # "idle"
    /\ faults < MaxFaults
    /\ faults' = faults + 1
    /\ files' = [i \in DOMAIN files |->
                    IF files[i].flock \in dead \cup {Maint}
                    THEN [files[i] EXCEPT !.flock = Nobody] ELSE files[i]]
    /\ wr' = [w \in Writers |-> IF w \in dead THEN [wr[w] EXCEPT !.pc = "closed"] ELSE wr[w]]
    /\ Step("idle")
    /\ UNCHANGED <<dirs, clock, histories>>

Tick ==
    /\ clock < MaxClock
    /\ clock' = clock + 1
    /\ UNCHANGED <<files, dirs, wr, mt, faults, histories>>

-----------------------------------------------------------------------------
Writer(w) ==
    \/ CreateNew(w) \/ CreateOpen(w) \/ WriterLock(w) \/ CreateMarker(w)
    \/ AppendOpen(w) \/ AppendWrite(w) \/ AppendFail(w) \/ Close(w)

Maintenance ==
    \/ CleanupOpen \/ CleanupLock \/ CleanupNothing \/ CleanupWrite \/ CleanupRename
    \/ CleanupFail \/ CleanupUnlock
    \/ RotateOpen \/ RotateLock \/ RotateRename \/ RotateCreate
    \/ Crash

Next == Tick \/ Maintenance \/ \E w \in Writers : Writer(w)

Spec == Init /\ [][Next]_vars

-----------------------------------------------------------------------------
(* Properties                                                              *)

\* Events whose line is older than max_age_secs.
Expired == {e \in Events : \E i \in DOMAIN files : \E k \in DOMAIN files[i].lines :
               LET line == files[i].lines[k] IN
               line.kind = "event" /\ <<line.w, line.n>> = e /\ ~ Fresh(line)}

TypeOK ==
    /\ \A i \in DOMAIN files :
          /\ files[i].flock \in Writers \cup {Nobody, Maint}
          /\ \A line \in ToSet(files[i].lines) :
                /\ line.kind \in {"marker", "event", "torn", "glued"}
                /\ line.w \in Writers \cup {Nobody} /\ line.n \in 0..MaxAppends
                /\ line.seq \in Nat /\ line.ts \in 0..MaxClock
    /\ {cur, tmp} \cup ToSet(arch) \subseteq 0..Len(files)
    /\ \A w \in Writers : wr[w].fd \in 0..Len(files) /\ wr[w].sent \in 0..MaxAppends
    /\ mt.fd \in 0..Len(files) /\ mt.ticks \in 0..MaxTicks
    /\ {acked, exposed, rotatedOut} \subseteq SUBSET Events

\* Retention has given these up, or they were appended in an exposure.
MayLose == exposed \cup rotatedOut \cup Expired

\* "Rename while still holding the lock to prevent concurrent appends from writing
\* to the original inode": the same of what retention has not given up.
UnexpiredReadable == acked \ (Expired \cup rotatedOut) \subseteq ToSet(Readable)

\* Whatever fails and whenever maintenance dies, an acknowledged event is lost only
\* by retention or because it was appended in an exposure.
LossExplained == acked \ MayLose \subseteq ToSet(Readable)

\* The log implements its promise: what is read is what was acknowledged, once and
\* in that order, through appends, rotations, cleanups and crashes; events leave
\* only by retention, or because they were appended in an exposure.
Promise == INSTANCE DurableLog WITH log <- Readable, mayLose <- MayLose
\* load_all returns events "in chronological order (oldest first, newest last)".
ChronologicalLoad ==
    \A i, j \in DOMAIN LoadAll : i < j => LoadAll[i].ts <= LoadAll[j].ts

\* Two events of one file never have the same number.
EventSeqsDistinct ==
    \A i \in DOMAIN files : \A k, l \in DOMAIN files[i].lines :
        LET a == files[i].lines[k] b == files[i].lines[l] IN
        a.kind = "event" /\ b.kind = "event" /\ k # l => a.seq # b.seq

\* A cleanup that removes entries leaves none "older than max_age_secs" behind.
CleanupRemovesExpired ==
    [][mt.pc = "cleanupRename" /\ cur' # cur
         => \A line \in ToSet(Lines(cur')) : Fresh(line)]_vars
=============================================================================
