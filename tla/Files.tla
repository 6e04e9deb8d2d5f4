------------------------------- MODULE Files -------------------------------
(***************************************************************************)
(* One file and one repository that jobs change and undo: FileWrite (write *)
(* and append), Delete (with and without backup), GitExec on a directory   *)
(* and Undo, over BackupManager (core/src/backup.rs).                      *)
(*                                                                         *)
(* A name of a directory refers to an inode; a rename moves the name, an   *)
(* open for writing truncates the inode in place.  Every writer of a file  *)
(* uses the same temporary name, and so does every restore.  The daemon    *)
(* executes its jobs under the WAL mutex; CLI processes do not take it.    *)
(***************************************************************************)
EXTENDS Integers, FiniteSets

CONSTANTS
    Jobs,       \* executions, each with its own job id
    CliJobs,    \* those executed by a CLI process
    None,       \* no inode, no content, no holder
    MaxFaults   \* bound: I/O errors, deaths and rotations of the WAL

\* CliJobs is a subset of Jobs, None no job.

VARIABLES
    op, victim,       \* what a job does; the job an undo is asked for
    pc,
    buf,              \* what atomic_append has read
    fd,               \* the inode a job has open for writing
    file, tmp, rtmp,  \* inodes of f, .f.tmp and .runtimo_restore_tmp_f
    data,             \* content of each inode
    repo,             \* content of the repository
    stray,            \* /tmp/f, where undo restores to without a WAL
    pre,              \* .runtimo_pre_restore/f
    backup, audited,  \* a job's backup; its BackupCreated is in the WAL
    before,           \* history: what the job displaced
    mutex, wal,       \* holder of the WAL mutex; the WAL's path exists
    alone,            \* history: jobs that nothing ran beside
    faults

names == <<fd, file, tmp, rtmp, data>>
store == <<backup, audited>>
vars == <<op, victim, pc, buf, names, repo, stray, pre, store, before, mutex, wal,
          alone, faults>>

Orig == "orig"
Torn == "torn"
Ops == {"write", "append", "delete", "purge", "git", "undo"}
Idle == {"new", "ok", "failed", "dead"}
Active(j) == pc[j] \notin Idle

Contents == SUBSET (Jobs \cup {Orig, Torn})
Inodes == 0..(Cardinality(Jobs) + 3)
Content(name) == IF name = None THEN None ELSE data[name]

TypeOK ==
    /\ op \in [Jobs -> Ops] /\ victim \in [Jobs -> Jobs]
    /\ pc \in [Jobs -> Idle \cup {"start", "read", "open", "fill", "rename", "remove",
                "git", "audit", "auditError", "look", "save", "openRestore", "fillRestore",
                "verify", "renameRestore", "stray"}]
    /\ buf \in [Jobs -> Contents]
    /\ fd \in [Jobs -> Inodes \cup {None}]
    /\ \A j \in Jobs : fd[j] # None <=> pc[j] \in {"fill", "fillRestore"}
    /\ {file, tmp, rtmp} \subseteq Inodes \cup {None}
    /\ data \in [Inodes -> Contents]
    /\ {repo, stray, pre} \subseteq Contents \cup {None}
    /\ backup \in [Jobs -> Contents \cup {None}]
    /\ audited \in [Jobs -> BOOLEAN]
    /\ before \in [Jobs -> Contents \cup {None}]
    /\ mutex \in Jobs \cup {None}
    /\ wal \in BOOLEAN
    /\ alone \subseteq Jobs
    /\ faults \in 0..MaxFaults

\* f exists or not; jobs are of any kind.
Init ==
    /\ op \in [Jobs -> Ops]
    /\ victim \in [Jobs -> Jobs]
    /\ \A j \in Jobs : op[j] # "undo" <=> victim[j] = j
    /\ pc = [j \in Jobs |-> "new"]
    /\ buf = [j \in Jobs |-> {}]
    /\ fd = [j \in Jobs |-> None]
    /\ file \in {0, None} /\ tmp = None /\ rtmp = None
    /\ data = [i \in Inodes |-> IF i = 0 THEN {Orig} ELSE {}]
    /\ repo = {Orig} /\ stray = None /\ pre = None
    /\ backup = [j \in Jobs |-> None]
    /\ audited = [j \in Jobs |-> FALSE]
    /\ before = [j \in Jobs |-> None]
    /\ mutex = None /\ wal = TRUE
    /\ alone = Jobs
    /\ faults = 0

-----------------------------------------------------------------------------
(* Steps of every job                                                      *)

Goto(j, label) == pc' = [pc EXCEPT ![j] = label]

Fault == faults < MaxFaults /\ faults' = faults + 1

Keep == UNCHANGED <<op, victim>>
Outside == Keep /\ UNCHANGED <<mutex, wal, alone>>

\* The job ends and the closure or handler drops the WAL mutex.
End(j, label) ==
    /\ Goto(j, label)
    /\ mutex' = IF mutex = j THEN None ELSE mutex

\* A fault: the capability returns an error, and the executor audits the backup
\* it finds, or the process dies where it stands.
Fails(j) == Fault /\ Goto(j, "auditError")

Begin(j) ==
    /\ pc[j] = "new"
    /\ op[j] = "undo" => pc[victim[j]] # "new"
    /\ IF j \in CliJobs THEN UNCHANGED mutex ELSE mutex = None /\ mutex' = j
    /\ Goto(j, IF op[j] = "undo" THEN "look" ELSE "start")
    /\ LET others == {k \in Jobs : Active(k)}
       IN  alone' = IF others = {} THEN alone ELSE alone \ (others \cup {j})
    /\ Keep /\ UNCHANGED <<buf, names, repo, stray, pre, store, before, wal, faults>>

\* Content, path, critical file, disk space, append size, dry run, or a backup
\* that is too large or meets a symlink.
Refuse(j) ==
    /\ pc[j] \in {"start", "look"}
    /\ End(j, "failed")
    /\ Keep /\ UNCHANGED <<buf, names, repo, stray, pre, store, before, wal, alone, faults>>

\* A process of the CLI is killed, or the daemon: its mutex is gone with it.
Die(j) ==
    /\ Active(j)
    /\ Fault
    /\ End(j, "dead")
    /\ fd' = [fd EXCEPT ![j] = None]
    /\ Keep /\ UNCHANGED <<buf, file, tmp, rtmp, data, repo, stray, pre, store, before, wal, alone>>

-----------------------------------------------------------------------------
(* BackupManager::create_backup                                            *)

\* copy_recursive reads the file as it is, then verify_integrity; an error in
\* the middle leaves what was copied.
CreateBackup(j, content, next) ==
    \/ backup' = [backup EXCEPT ![j] = content] /\ Goto(j, next) /\ UNCHANGED faults
    \/ backup' = [backup EXCEPT ![j] = {Torn}] /\ Fails(j)

\* Mutant of NeedsBackup: an append is taken for an addition that loses nothing.
NotForAppend(j) == op[j] \in {"write", "delete"} /\ file # None

NeedsBackup(j) == op[j] \in {"write", "append", "delete"} /\ file # None

Proceed(j) == CASE op[j] = "write" -> "open" [] op[j] = "append" -> "read"
                [] op[j] \in {"delete", "purge"} -> "remove" [] OTHER -> "git"

\* FileWrite and Delete up to the change; Delete needs an existing file.
FileBackup(j) ==
    /\ pc[j] = "start" /\ op[j] # "git"
    /\ op[j] \in {"delete", "purge"} => file # None
    /\ IF NeedsBackup(j)
       THEN CreateBackup(j, Content(file), Proceed(j))
       ELSE Goto(j, Proceed(j)) /\ UNCHANGED <<backup, faults>>
    /\ before' = [before EXCEPT ![j] = Content(file)]
    /\ Outside /\ UNCHANGED <<buf, names, repo, stray, pre, audited>>

\* backup_before_mutation copies the whole repository.
GitBackup(j) ==
    /\ pc[j] = "start" /\ op[j] = "git"
    /\ CreateBackup(j, repo, "git")
    /\ before' = [before EXCEPT ![j] = repo]
    /\ Outside /\ UNCHANGED <<buf, names, repo, stray, pre, audited>>

\* pull, commit, revert or clean; the git process may fail or be killed half way.
GitCommand(j) ==
    /\ pc[j] = "git"
    /\ \/ repo' = repo \cup {j} /\ Goto(j, "audit") /\ UNCHANGED faults
       \/ repo' = repo \cup {Torn} /\ Fails(j)
    /\ Outside /\ UNCHANGED <<buf, names, stray, pre, store, before>>

-----------------------------------------------------------------------------
(* atomic_write, atomic_append and remove_file                             *)

ReadExisting(j) ==
    /\ pc[j] = "read"
    /\ buf' = [buf EXCEPT ![j] = IF file = None THEN {} ELSE data[file]]
    /\ Goto(j, "open")
    /\ Outside /\ UNCHANGED <<names, repo, stray, pre, store, before, faults>>

\* open with O_CREAT and O_TRUNC: an inode that is there, perhaps another
\* writer's, is emptied and shared.
Fresh == CHOOSE i \in Inodes : i \notin {file, tmp, rtmp} \cup {fd[k] : k \in Jobs}
OpenTruncate(j, name) ==
    LET inode == IF name = None THEN Fresh ELSE name
    IN  /\ fd' = [fd EXCEPT ![j] = inode]
        /\ data' = [data EXCEPT ![inode] = {}]
OpenedAs(name) == IF name = None THEN Fresh ELSE name

\* Mutant of OpenTemp: the target itself is opened.
OpenInPlace(j) ==
    /\ pc[j] = "open"
    /\ OpenTruncate(j, file) /\ file' = OpenedAs(file) /\ tmp' = file'
    /\ Goto(j, "fill")
    /\ Outside /\ UNCHANGED <<buf, rtmp, repo, stray, pre, store, before, faults>>

OpenTemp(j) ==
    /\ pc[j] = "open"
    /\ OpenTruncate(j, tmp) /\ tmp' = OpenedAs(tmp)
    /\ Goto(j, "fill")
    /\ Outside /\ UNCHANGED <<buf, file, rtmp, repo, stray, pre, store, before, faults>>

\* write_all and fsync go to the inode, whatever its name is by now.
FillTemp(j) ==
    /\ pc[j] = "fill"
    /\ \/ /\ data' = [data EXCEPT ![fd[j]] = buf[j] \cup {j}]
          /\ Goto(j, "rename") /\ UNCHANGED faults
       \/ data' = [data EXCEPT ![fd[j]] = {Torn}] /\ Fails(j)
    /\ fd' = [fd EXCEPT ![j] = None]
    /\ Outside /\ UNCHANGED <<buf, file, tmp, rtmp, repo, stray, pre, store, before>>

\* rename fails if another writer renamed the temporary file before.
RenameTemp(j) ==
    /\ pc[j] = "rename"
    /\ \/ /\ tmp # None
          /\ file' = tmp /\ tmp' = None
          /\ Goto(j, "audit") /\ UNCHANGED faults
       \/ tmp = None /\ Goto(j, "auditError") /\ UNCHANGED <<file, tmp, faults>>
       \/ tmp' = None /\ Fails(j) /\ UNCHANGED file
    /\ Outside /\ UNCHANGED <<buf, fd, rtmp, data, repo, stray, pre, store, before>>

Remove(j) ==
    /\ pc[j] = "remove"
    /\ \/ file # None /\ file' = None /\ Goto(j, "audit") /\ UNCHANGED faults
       \/ file = None /\ Goto(j, "auditError") /\ UNCHANGED <<file, faults>>
       \/ Fails(j) /\ UNCHANGED file
    /\ Outside /\ UNCHANGED <<buf, fd, tmp, rtmp, data, repo, stray, pre, store, before>>

-----------------------------------------------------------------------------
(* The executor's BackupCreated                                            *)

\* The capability reported its backup: a failed append fails the job.
Audit(j) ==
    /\ pc[j] = "audit"
    /\ \/ /\ audited' = [audited EXCEPT ![j] = backup[j] # None]
          /\ End(j, "ok") /\ UNCHANGED faults
       \/ backup[j] # None /\ Fault /\ End(j, "failed") /\ UNCHANGED audited
    /\ Keep /\ UNCHANGED <<buf, names, repo, stray, pre, backup, before, wal, alone>>

\* After an error: whatever lies in the job's backup directory is audited, also
\* a copy that was never finished; a failed append is only logged.
AuditError(j) ==
    /\ pc[j] = "auditError"
    /\ \/ audited' = [audited EXCEPT ![j] = backup[j] # None] /\ UNCHANGED faults
       \/ backup[j] # None /\ Fault /\ UNCHANGED audited
    /\ End(j, "failed")
    /\ Keep /\ UNCHANGED <<buf, names, repo, stray, pre, backup, before, wal, alone>>

-----------------------------------------------------------------------------
(* Undo and BackupManager::restore                                         *)

\* The backup's original path: from the events of the WAL or, if the WAL is not
\* there, a guess in /tmp.
OriginalPath(v) == IF ~wal THEN "stray" ELSE IF audited[v] THEN "f" ELSE "unknown"

\* execute: no backup directory is an error, as is a backup without an original
\* path; an entry that is a directory is skipped, and the undo succeeds.
Undo(j) ==
    /\ pc[j] = "look"
    /\ LET v == victim[j]
           unknown == backup[v] = None \/ (op[v] # "git" /\ OriginalPath(v) = "unknown")
       IN  \/ unknown /\ End(j, "failed")
           \/ ~unknown /\ op[v] = "git" /\ End(j, "ok")
           \/ /\ ~unknown /\ op[v] # "git"
              /\ Goto(j, IF OriginalPath(v) = "stray" THEN "stray" ELSE "save")
              /\ UNCHANGED mutex
    /\ Keep /\ UNCHANGED <<buf, names, repo, stray, pre, store, before, wal, alone, faults>>

RestoreStray(j) ==
    /\ pc[j] = "stray"
    /\ stray' = backup[victim[j]]
    /\ End(j, IF backup[victim[j]] = None THEN "failed" ELSE "ok")
    /\ Keep /\ UNCHANGED <<buf, names, repo, pre, store, before, wal, alone, faults>>

\* The current file is copied to the one pre-restore name, the last copy removed;
\* then the temporary name is cleared.
PreRestore(j) ==
    /\ pc[j] = "save"
    /\ pre' = IF file = None THEN pre ELSE data[file]
    /\ before' = [before EXCEPT ![j] = Content(file)]
    /\ rtmp' = None
    /\ Goto(j, "openRestore")
    /\ Outside /\ UNCHANGED <<buf, fd, file, tmp, data, repo, stray, store, faults>>

OpenRestore(j) ==
    /\ pc[j] = "openRestore"
    /\ OpenTruncate(j, rtmp) /\ rtmp' = OpenedAs(rtmp)
    /\ Goto(j, "fillRestore")
    /\ Outside /\ UNCHANGED <<buf, file, tmp, repo, stray, pre, store, before, faults>>

\* The copy may fail, and so does one whose backup cleanup has removed.
CopyBackup(j) ==
    /\ pc[j] = "fillRestore"
    /\ LET b == backup[victim[j]]
       IN  \/ /\ b # None
              /\ data' = [data EXCEPT ![fd[j]] = b]
              /\ Goto(j, "verify") /\ UNCHANGED <<mutex, faults>>
           \/ /\ b = None
              /\ End(j, "failed") /\ UNCHANGED <<data, faults>>
           \/ /\ Fault
              /\ data' = [data EXCEPT ![fd[j]] = {Torn}]
              /\ End(j, "failed")
    /\ fd' = [fd EXCEPT ![j] = None]
    /\ Keep /\ UNCHANGED <<buf, file, tmp, rtmp, repo, stray, pre, store, before, wal, alone>>

\* A size stands for calculate_size, which verify_integrity compares; no more.
Size(content) == Cardinality(content)

Verified(j) ==
    /\ rtmp # None /\ backup[victim[j]] # None
    /\ Size(data[rtmp]) = Size(backup[victim[j]])

\* On a mismatch the pre-restore copy is written back over f, in place.
RollBack(j) ==
    IF before[j] = None THEN UNCHANGED <<file, data>>
    ELSE file' = OpenedAs(file) /\ data' = [data EXCEPT ![OpenedAs(file)] = pre]

Verify(j) ==
    /\ pc[j] = "verify"
    /\ IF Verified(j)
       THEN Goto(j, "renameRestore") /\ UNCHANGED <<mutex, file, data>>
       ELSE End(j, "failed") /\ RollBack(j)
    /\ Keep /\ UNCHANGED <<buf, fd, tmp, rtmp, repo, stray, pre, store, before, wal, alone, faults>>

RenameRestore(j) ==
    /\ pc[j] = "renameRestore"
    /\ \/ rtmp # None /\ file' = rtmp /\ rtmp' = None /\ End(j, "ok") /\ UNCHANGED faults
       \/ rtmp = None /\ End(j, "failed") /\ UNCHANGED <<file, rtmp, faults>>
       \/ Fault /\ End(j, "failed") /\ UNCHANGED <<file, rtmp>>
    /\ Keep /\ UNCHANGED <<buf, fd, tmp, data, repo, stray, pre, store, before, wal, alone>>

-----------------------------------------------------------------------------
(* The environment                                                         *)

\* The daemon's hourly cleanup removes backups of jobs that ended long ago.
Cleanup(j) ==
    /\ pc[j] \in Idle \ {"new"} /\ backup[j] # None
    /\ Fault
    /\ backup' = [backup EXCEPT ![j] = None]
    /\ Keep /\ UNCHANGED <<pc, buf, names, repo, stray, pre, audited, before, mutex, wal, alone>>

\* rotate has renamed the WAL and not yet created the new one.
Rotating ==
    /\ IF wal THEN Fault ELSE UNCHANGED faults
    /\ wal' = ~wal
    /\ Keep /\ UNCHANGED <<pc, buf, names, repo, stray, pre, store, before, mutex, alone>>

Mutate(j) ==
    \/ FileBackup(j) \/ ReadExisting(j) \/ OpenTemp(j) \/ FillTemp(j) \/ RenameTemp(j)
    \/ Remove(j) \/ GitBackup(j) \/ GitCommand(j) \/ Audit(j) \/ AuditError(j)
Restore(j) ==
    \/ Undo(j) \/ RestoreStray(j) \/ PreRestore(j) \/ OpenRestore(j) \/ CopyBackup(j)
    \/ Verify(j) \/ RenameRestore(j)

Next ==
    \/ \E j \in Jobs : Begin(j) \/ Refuse(j) \/ Die(j) \/ Mutate(j) \/ Restore(j) \/ Cleanup(j)
    \/ Rotating

Spec == Init /\ [][Next]_vars

-----------------------------------------------------------------------------
(* Properties.  `alone` is the set of jobs that no other job ran beside:   *)
(* always so in the daemon, whose jobs hold the mutex, and seldom next to  *)
(* a CLI process.                                                          *)

\* Until the last step of a change or of a restore the file is what it was when
\* the job looked: an error or a death before it leaves the file alone
\* (atomic_write and restore replace a file by one rename).
AtomicChange ==
    \A j \in alone :
        pc[j] \in {"read", "open", "fill", "rename", "remove", "openRestore",
                   "fillRestore", "verify", "renameRestore"} => Content(file) = before[j]

\* What a step takes from the file is kept somewhere, in the job's backup or in
\* the pre-restore copy, unless the caller asked for no backup.
KeepsDisplaced ==
    \A j \in alone' :
        /\ pc[j] \in {"rename", "remove", "renameRestore"} /\ file # None
        /\ op[j] # "purge" /\ Content(file)' # Content(file)
        => Content(file) \in {backup[j], pre}

\* An undo that restores brings back what the undone job displaced, whatever was
\* written, failed, undone or died in between; only the copy of a backup that
\* failed may be partial.
RestoresBefore ==
    \A j \in Jobs :
        /\ pc[j] = "renameRestore" /\ pc'[j] = "ok"
        /\ {j, victim[j]} \subseteq alone /\ pc[victim[j]] = "ok"
        => Content(file)' = before[victim[j]]

\* The file never holds a part of a content, except after the undo of a job that
\* failed (its unfinished backup is audited all the same) or next to a process
\* that shared the temporary name.
FileWhole ==
    Jobs = alone /\ file # None /\ (Torn \in data[file] \/ data[file] = {})
    => \E u \in Jobs : pc[u] = "ok" /\ op[u] = "undo" /\ pc[victim[u]] = "failed"
=============================================================================
