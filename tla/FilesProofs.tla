----------------------------- MODULE FilesProofs -----------------------------
(***************************************************************************)
(* What a write, a deletion and an undo guarantee for any number of jobs,  *)
(* of the daemon and of the CLI, whatever fails, dies or is cleaned up.    *)
(*                                                                         *)
(* Local(j) says where a job is and what its backup is of, whoever runs    *)
(* beside it.  Solo(j), of a job that nothing ran beside, carries from one *)
(* of its looks to the next that the file is what it saw, that what it has *)
(* open is its temporary name's inode, and that what is about to take the  *)
(* file's name is what the undone job displaced, although an undo verifies *)
(* sizes only.  WholeContents holds while no two jobs have overlapped and  *)
(* nobody has undone a job that failed (Clean).                            *)
(***************************************************************************)
EXTENDS Files, FiniteSetTheorems, TLAPS

\* Jobs, contents, inodes and "none" are told apart, and there are finitely many jobs.
FilesAssumption ==
    /\ IsFiniteSet(Jobs) /\ MaxFaults \in Nat
    /\ None \notin Jobs /\ None \notin Inodes /\ \A c \in Contents : c # None
    /\ Orig \notin Jobs /\ Torn \notin Jobs

-----------------------------------------------------------------------------
(* The invariant                                                           *)

Restoring == {"save", "openRestore", "fillRestore", "verify", "renameRestore"}
Mutating == {"read", "open", "fill", "rename", "remove", "git", "audit"}

\* A job is where its operation can be, and an undo is of another job.
Course(j) ==
    /\ op[j] = "undo" => victim[j] # j
    /\ pc[j] \in Restoring \cup {"look", "stray"} => op[j] = "undo"
    /\ pc[j] \in Mutating \cup {"start", "auditError"} => op[j] # "undo"
    /\ pc[j] \in {"read", "open", "fill", "rename", "remove"} => op[j] # "git"
    /\ op[j] = "undo" /\ pc[j] # "new" => pc[victim[j]] # "new"

\* No other job is active beside one that nothing ran beside.
Lone == \A j \in alone : Active(j) => \A k \in Jobs : Active(k) => k = j

\* The three names are of three inodes.
Apart ==
    /\ file # None => file # tmp /\ file # rtmp
    /\ tmp # None => tmp # rtmp

\* The backup is of what the job displaces, and there is one if it should.
Copied(j) ==
    /\ pc[j] \in {"new", "start"} \/ op[j] \in {"undo", "purge"} => backup[j] = None
    /\ pc[j] \in Mutating \cup {"ok"} /\ backup[j] # None => backup[j] = before[j]
    /\ pc[j] \in Mutating /\ op[j] # "purge" /\ before[j] # None => backup[j] = before[j]

\* A backup that the log names is of a job that ended; it is the one an undo restores.
Audited(j) ==
    /\ audited[j] => pc[j] \in {"ok", "failed"}
    /\ pc[j] \in Restoring => pc[victim[j]] \in {"ok", "failed"} /\ op[victim[j]] # "git"

\* An undo that displaces something has a copy of something.
PreHeld(j) == pc[j] \in Restoring \ {"save"} /\ before[j] # None => pre # None

Local(j) == Course(j) /\ Copied(j) /\ Audited(j) /\ PreHeld(j)

\* A job that nothing ran beside: what it has open is what its temporary name stands for,
\* the file is what it saw, the pre-restore copy is of what it displaces, and what is about
\* to take the file's name is what the undone job displaced.
Looked == {"read", "open", "fill", "rename", "remove", "openRestore", "fillRestore",
           "verify", "renameRestore"}
Solo(j) ==
    /\ pc[j] = "fill" => fd[j] = tmp
    /\ pc[j] \in {"fillRestore", "verify", "renameRestore"} => rtmp # None
    /\ pc[j] = "fillRestore" => fd[j] = rtmp
    /\ pc[j] \in Looked => Content(file) = before[j]
    /\ pc[j] \in Restoring \ {"save"} /\ before[j] # None => pre = before[j]
    /\ pc[j] \in {"verify", "renameRestore"} /\ pc[victim[j]] = "ok"
           => data[rtmp] = before[victim[j]]

Whole(content) == content # {} /\ Torn \notin content

\* No two jobs overlapped, and nobody undid a job that had failed.
Clean ==
    /\ Jobs = alone
    /\ \A u \in Jobs : pc[u] = "ok" /\ op[u] = "undo" => pc[victim[u]] # "failed"

\* No part of a content, in the file or on its way there.
WholeContents ==
    /\ file # None => Whole(data[file])
    /\ \A j \in Jobs : /\ op[j] # "git" /\ before[j] # None => Whole(before[j])
                       /\ Torn \notin buf[j]
                       /\ pc[j] = "rename" /\ tmp # None => Whole(data[tmp])

Types == TypeOK /\ repo # None

FilesInv ==
    /\ Types /\ Apart /\ Lone
    /\ \A j \in Jobs : Local(j)
    /\ \A j \in alone : Solo(j)
    /\ Clean => WholeContents

-----------------------------------------------------------------------------
(* Inodes, contents, and who moves                                         *)

LEMMA OneMore ==
    ASSUME NEW S, IsFiniteSet(S), NEW x, NEW n \in Nat, Cardinality(S) <= n
    PROVE  IsFiniteSet(S \cup {x}) /\ Cardinality(S \cup {x}) <= n + 1
  <1>1. IsFiniteSet(S \cup {x})
    BY FS_AddElement
  <1>2. Cardinality(S \cup {x}) = IF x \in S THEN Cardinality(S) ELSE Cardinality(S) + 1
    BY FS_AddElement
  <1>3. Cardinality(S) \in Nat
    BY FS_CardinalityType
  <1>. QED
    BY <1>1, <1>2, <1>3

\* There is always an inode that no name and no open file refers to.
LEMMA FreshInode ==
    ASSUME FilesAssumption, TypeOK
    PROVE  Fresh \in Inodes /\ Fresh \notin {file, tmp, rtmp} \cup {fd[k] : k \in Jobs}
  <1> DEFINE open == {fd[k] : k \in Jobs}
             used == {file, tmp, rtmp} \cup open
  <1>1. IsFiniteSet(open) /\ Cardinality(open) <= Cardinality(Jobs)
    <2>1. fd \in Surjection(Jobs, open)
      BY DEF TypeOK, Surjection
    <2>. QED
      BY <2>1, FS_Surjection DEF FilesAssumption
  <1>2. Cardinality(Jobs) \in Nat /\ Cardinality(open) \in Nat
    BY <1>1, FS_CardinalityType DEF FilesAssumption
  <1>3. IsFiniteSet(used) /\ Cardinality(used) <= Cardinality(Jobs) + 3
    <2> DEFINE n == Cardinality(Jobs)
    <2> HIDE DEF open, n
    <2>1. n \in Nat /\ n + 1 \in Nat /\ n + 2 \in Nat /\ IsFiniteSet(open) /\ Cardinality(open) <= n
      BY <1>1, <1>2 DEF n
    <2>2. IsFiniteSet(open \cup {file}) /\ Cardinality(open \cup {file}) <= n + 1
      BY <2>1, OneMore
    <2>3. /\ IsFiniteSet((open \cup {file}) \cup {tmp})
          /\ Cardinality((open \cup {file}) \cup {tmp}) <= (n + 1) + 1
      BY <2>1, <2>2, OneMore
    <2>4. /\ IsFiniteSet((open \cup {file}) \cup {tmp})
          /\ Cardinality((open \cup {file}) \cup {tmp}) <= n + 2
      BY <2>1, <2>3
    <2>5. /\ IsFiniteSet(((open \cup {file}) \cup {tmp}) \cup {rtmp})
          /\ Cardinality(((open \cup {file}) \cup {tmp}) \cup {rtmp}) <= (n + 2) + 1
      BY <2>1, <2>4, OneMore
    <2>6. ((open \cup {file}) \cup {tmp}) \cup {rtmp} = used
      OBVIOUS
    <2>. QED
      BY <2>1, <2>5, <2>6 DEF n
  <1>4. IsFiniteSet(Inodes) /\ Cardinality(Inodes) = Cardinality(Jobs) + 4
    <2> DEFINE n == Cardinality(Jobs)
    <2>1. n \in Nat /\ n + 3 \in Int /\ 0 \in Int
      BY <1>2
    <2>2. Inodes = 0..(n + 3)
      BY DEF Inodes
    <2> HIDE DEF n
    <2>3. /\ IsFiniteSet(0..(n + 3))
          /\ Cardinality(0..(n + 3)) = IF 0 > n + 3 THEN 0 ELSE (n + 3) - 0 + 1
      BY <2>1, FS_Interval
    <2>4. (IF 0 > n + 3 THEN 0 ELSE (n + 3) - 0 + 1) = n + 4
      BY <2>1
    <2>. QED
      BY <2>2, <2>3, <2>4 DEF n
  <1>5. ~ (Inodes \subseteq used)
    <2> HIDE DEF used
    <2> SUFFICES ASSUME Inodes \subseteq used PROVE FALSE
      OBVIOUS
    <2>1. Cardinality(Inodes) <= Cardinality(used)
      BY <1>3, FS_Subset
    <2>. QED
      BY <1>2, <1>3, <1>4, <2>1, FS_CardinalityType
  <1>. QED
    BY <1>5 DEF Fresh

LEMMA ContentsAre ==
    /\ {} \in Contents /\ {Orig} \in Contents /\ {Torn} \in Contents
    /\ \A c \in Contents : c \cup {Torn} \in Contents /\ \A j \in Jobs : c \cup {j} \in Contents
  BY DEF Contents

\* A step of an active job leaves the facts about the others alone.
Moves(j) ==
    /\ Active(j) /\ UNCHANGED <<op, victim, alone>>
    /\ pc'[j] # "new"
    /\ \A i \in Jobs \ {j} : /\ pc'[i] = pc[i] /\ buf'[i] = buf[i] /\ fd'[i] = fd[i]
                             /\ backup'[i] = backup[i] /\ audited'[i] = audited[i]
                             /\ before'[i] = before[i]

LEMMA ActiveMoves ==
    ASSUME TypeOK, NEW j \in Jobs, Refuse(j) \/ Die(j) \/ Mutate(j) \/ Restore(j)
    PROVE  Moves(j)
  <1> USE DEF Moves, Keep, Outside, names, store, Goto, End, Fails, Active, Idle, TypeOK
  <1>1. CASE Refuse(j)
    BY <1>1 DEF Refuse
  <1>2. CASE Die(j)
    BY <1>2 DEF Die
  <1>3. CASE FileBackup(j)
    BY <1>3 DEF FileBackup, CreateBackup, Proceed
  <1>4. CASE GitBackup(j)
    BY <1>4 DEF GitBackup, CreateBackup
  <1>5. CASE GitCommand(j)
    BY <1>5 DEF GitCommand
  <1>6. CASE ReadExisting(j)
    BY <1>6 DEF ReadExisting
  <1>7. CASE OpenTemp(j)
    BY <1>7 DEF OpenTemp, OpenTruncate
  <1>8. CASE FillTemp(j)
    BY <1>8 DEF FillTemp
  <1>9. CASE RenameTemp(j)
    BY <1>9 DEF RenameTemp
  <1>10. CASE Remove(j)
    BY <1>10 DEF Remove
  <1>11. CASE Audit(j)
    BY <1>11 DEF Audit
  <1>12. CASE AuditError(j)
    BY <1>12 DEF AuditError
  <1>13. CASE Undo(j)
    BY <1>13 DEF Undo
  <1>14. CASE RestoreStray(j)
    BY <1>14 DEF RestoreStray
  <1>15. CASE PreRestore(j)
    BY <1>15 DEF PreRestore
  <1>16. CASE OpenRestore(j)
    BY <1>16 DEF OpenRestore, OpenTruncate
  <1>17. CASE CopyBackup(j)
    BY <1>17 DEF CopyBackup
  <1>18. CASE Verify(j)
    BY <1>18 DEF Verify
  <1>19. CASE RenameRestore(j)
    BY <1>19 DEF RenameRestore
  <1>. QED
    BY <1>1, <1>2, <1>3, <1>4, <1>5, <1>6, <1>7, <1>8, <1>9, <1>10, <1>11, <1>12, <1>13,
       <1>14, <1>15, <1>16, <1>17, <1>18, <1>19 DEF Mutate, Restore

-----------------------------------------------------------------------------
(* Types, names and what holds of every job                                *)

LEMMA TypesInit == FilesAssumption /\ Init => Types
  <1> SUFFICES ASSUME FilesAssumption, Init PROVE Types
    OBVIOUS
  <1>1. 0 \in Inodes
    BY FS_CardinalityType DEF FilesAssumption, Inodes
  <1>2. data \in [Inodes -> Contents]
    BY ContentsAre DEF Init
  <1>3. 0 \in 0..MaxFaults
    BY DEF FilesAssumption
  <1>4. {file, tmp, rtmp} \subseteq Inodes \cup {None}
    BY <1>1 DEF Init
  <1>. QED
    BY <1>2, <1>3, <1>4, ContentsAre DEF Init, Types, TypeOK, Idle, Contents, FilesAssumption

LEMMA OneFault == ASSUME FilesAssumption, Types, Fault PROVE faults' \in 0..MaxFaults
  <1>1. faults \in Int /\ 0 <= faults /\ faults < MaxFaults /\ MaxFaults \in Int
    BY DEF Types, TypeOK, FilesAssumption, Fault
  <1>2. faults' = faults + 1
    BY DEF Fault
  <1>. QED
    BY <1>1, <1>2

LEMMA TypesBegin ==
    ASSUME Types, NEW j \in Jobs, Begin(j) PROVE Types'
  BY DEF Types, TypeOK, Begin, Goto, Keep, names, store, Idle

LEMMA TypesEnd ==
    ASSUME FilesAssumption, Types, NEW j \in Jobs,
           Refuse(j) \/ Die(j) \/ Audit(j) \/ AuditError(j) \/ Undo(j)
    PROVE  Types'
  <1> USE OneFault DEF Types, TypeOK, Keep, Outside, names, store, Goto, End, Active, Idle
  <1>1. CASE Refuse(j)
    BY <1>1 DEF Refuse
  <1>2. CASE Die(j)
    BY <1>2 DEF Die
  <1>3. CASE Audit(j)
    BY <1>3 DEF Audit
  <1>4. CASE AuditError(j)
    BY <1>4 DEF AuditError
  <1>5. CASE Undo(j)
    BY <1>5 DEF Undo
  <1>. QED
    BY <1>1, <1>2, <1>3, <1>4, <1>5

PCs == Idle \cup {"start", "read", "open", "fill", "rename", "remove", "git", "audit", "auditError",
                  "look", "save", "openRestore", "fillRestore", "verify", "renameRestore", "stray"}

\* A job that has nothing open goes to where it needs nothing open.
LEMMA Relabelled ==
    ASSUME TypeOK, NEW j \in Jobs, NEW label \in PCs \ {"fill", "fillRestore"},
           pc[j] \notin {"fill", "fillRestore"}, Goto(j, label), UNCHANGED fd
    PROVE  /\ pc' \in [Jobs -> PCs] /\ fd' \in [Jobs -> Inodes \cup {None}]
           /\ \A i \in Jobs : fd'[i] # None <=> pc'[i] \in {"fill", "fillRestore"}
  <1>1. pc \in [Jobs -> PCs] /\ fd \in [Jobs -> Inodes \cup {None}]
        /\ \A i \in Jobs : fd[i] # None <=> pc[i] \in {"fill", "fillRestore"}
    BY DEF TypeOK, PCs
  <1>2. pc' \in [Jobs -> PCs] /\ pc'[j] = label /\ \A i \in Jobs \ {j} : pc'[i] = pc[i]
    BY <1>1 DEF Goto
  <1>. QED
    BY <1>1, <1>2

LEMMA TypesMutate ==
    ASSUME FilesAssumption, Types, NEW j \in Jobs,
           \/ FileBackup(j) \/ ReadExisting(j) \/ OpenTemp(j) \/ FillTemp(j) \/ RenameTemp(j)
           \/ Remove(j) \/ GitBackup(j) \/ GitCommand(j)
    PROVE  Types'
  <1> USE ContentsAre, OneFault DEF Types, TypeOK, Keep, Outside, names, store, Goto, Fails, Active, Idle
  <1>1. CASE FileBackup(j)
    <2>1. backup' \in [Jobs -> Contents \cup {None}]
      <3>1. file # None => Content(file) \in Contents
        BY DEF Content
      <3>. QED
        BY <1>1, <3>1 DEF FileBackup, CreateBackup, NeedsBackup
    <2>2. before' \in [Jobs -> Contents \cup {None}]
      BY <1>1 DEF FileBackup, Content
    <2>3. faults' \in 0..MaxFaults
      BY <1>1 DEF FileBackup, CreateBackup
    <2>. QED
      <3>1. PICK label \in {"open", "read", "remove", "git", "auditError"} :
               pc' = [pc EXCEPT ![j] = label]
        BY <1>1 DEF FileBackup, CreateBackup, Proceed
      <3>2. pc[j] = "start" /\ UNCHANGED <<op, victim, buf, fd, file, tmp, rtmp, data, repo, stray,
                                           pre, audited, mutex, wal, alone>>
        BY <1>1 DEF FileBackup
      <3>. QED
        BY <2>1, <2>2, <2>3, <3>1, <3>2
  <1>2. CASE GitBackup(j)
    <2>1. backup' \in [Jobs -> Contents \cup {None}]
      BY <1>2 DEF GitBackup, CreateBackup
    <2>2. before' \in [Jobs -> Contents \cup {None}]
      BY <1>2 DEF GitBackup
    <2>3. faults' \in 0..MaxFaults
      BY <1>2 DEF GitBackup, CreateBackup
    <2>. QED
      BY <1>2, <2>1, <2>2, <2>3 DEF GitBackup, CreateBackup
  <1>3. CASE GitCommand(j)
    <2>1. repo' \in Contents /\ repo' # None
      <3>1. repo \cup {j} \in Contents /\ repo \cup {Torn} \in Contents
        BY ContentsAre
      <3>2. repo' \in Contents
        BY <1>3, <3>1 DEF GitCommand
      <3>. QED
        BY <3>2 DEF FilesAssumption
    <2>3. faults' \in 0..MaxFaults
      BY <1>3 DEF GitCommand
    <2>. QED
      <3>1. PICK label \in {"audit", "auditError"} : pc' = [pc EXCEPT ![j] = label]
        BY <1>3 DEF GitCommand
      <3>2. pc[j] = "git" /\ UNCHANGED <<op, victim, buf, fd, file, tmp, rtmp, data, stray, pre,
                                         backup, audited, before, mutex, wal, alone>>
        BY <1>3 DEF GitCommand
      <3>. QED
        BY <2>1, <2>3, <3>1, <3>2
  <1>4. CASE ReadExisting(j)
    BY <1>4 DEF ReadExisting
  <1>5. CASE OpenTemp(j)
    BY <1>5, FreshInode DEF OpenTemp, OpenTruncate, OpenedAs, FilesAssumption
  <1>6. CASE FillTemp(j)
    <2>1. data' \in [Inodes -> Contents]
      <3>1. buf[j] \cup {j} \in Contents /\ {Torn} \in Contents /\ fd[j] \in Inodes
        BY <1>6, ContentsAre DEF FillTemp
      <3>. QED
        BY <1>6, <3>1 DEF FillTemp
    <2>2. faults' \in 0..MaxFaults
      BY <1>6 DEF FillTemp
    <2>. QED
      <3>1. PICK label \in {"rename", "auditError"} : pc' = [pc EXCEPT ![j] = label]
        BY <1>6 DEF FillTemp
      <3>2. /\ pc[j] = "fill" /\ fd' = [fd EXCEPT ![j] = None]
            /\ UNCHANGED <<op, victim, buf, file, tmp, rtmp, repo, stray, pre, backup, audited,
                           before, mutex, wal, alone>>
        BY <1>6 DEF FillTemp
      <3>. QED
        BY <2>1, <2>2, <3>1, <3>2
  <1>7. CASE RenameTemp(j)
    <2>1. /\ \E label \in {"audit", "auditError"} : Goto(j, label)
          /\ file' \in {file, tmp} /\ tmp' \in {tmp, None}
      BY <1>7 DEF RenameTemp
    <2>2. faults' \in 0..MaxFaults
      BY <1>7 DEF RenameTemp
    <2>3. pc[j] = "rename" /\ UNCHANGED <<op, victim, buf, fd, rtmp, data, repo, stray, pre, backup,
                                          audited, before, mutex, wal, alone>>
      BY <1>7 DEF RenameTemp
    <2>4. /\ pc' \in [Jobs -> PCs]
          /\ \A i \in Jobs : fd'[i] # None <=> pc'[i] \in {"fill", "fillRestore"}
      BY <2>1, <2>3, Relabelled DEF PCs
    <2>. HIDE DEF Goto
    <2>. QED
      BY <2>1, <2>2, <2>3, <2>4 DEF PCs
  <1>8. CASE Remove(j)
    <2>1. faults' \in 0..MaxFaults
      BY <1>8 DEF Remove
    <2>. QED
      BY <1>8, <2>1 DEF Remove
  <1>. QED
    BY <1>1, <1>2, <1>3, <1>4, <1>5, <1>6, <1>7, <1>8

LEMMA TypesRestore ==
    ASSUME FilesAssumption, Types, NEW j \in Jobs, PreHeld(j),
           \/ RestoreStray(j) \/ PreRestore(j) \/ OpenRestore(j) \/ CopyBackup(j)
           \/ Verify(j) \/ RenameRestore(j)
    PROVE  Types'
  <1> USE ContentsAre, OneFault DEF Types, TypeOK, Keep, Outside, names, store, Goto, End, Active, Idle
  <1>1. CASE RestoreStray(j)
    BY <1>1 DEF RestoreStray
  <1>2. CASE PreRestore(j)
    BY <1>2 DEF PreRestore, Content
  <1>3. CASE OpenRestore(j)
    BY <1>3, FreshInode DEF OpenRestore, OpenTruncate, OpenedAs, FilesAssumption
  <1>4. CASE CopyBackup(j)
    <2>1. data' \in [Inodes -> Contents]
      BY <1>4 DEF CopyBackup
    <2>2. faults' \in 0..MaxFaults
      BY <1>4 DEF CopyBackup
    <2>. QED
      <3>1. PICK label \in {"verify", "failed"} : pc' = [pc EXCEPT ![j] = label]
        BY <1>4 DEF CopyBackup
      <3>2. mutex' \in {mutex, None}
        BY <1>4 DEF CopyBackup
      <3>3. /\ pc[j] = "fillRestore" /\ fd' = [fd EXCEPT ![j] = None]
            /\ UNCHANGED <<op, victim, buf, file, tmp, rtmp, repo, stray, pre, backup, audited,
                           before, wal, alone>>
        BY <1>4 DEF CopyBackup
      <3>. QED
        BY <2>1, <2>2, <3>1, <3>2, <3>3
  <1>5. CASE Verify(j)
    <2>1. /\ \E label \in {"renameRestore", "failed"} : Goto(j, label)
          /\ mutex' \in {mutex, None}
      BY <1>5 DEF Verify
    <2>2. file' \in Inodes \cup {None} /\ data' \in [Inodes -> Contents]
      <3>1. CASE UNCHANGED <<file, data>>
        BY <3>1
      <3>2. CASE ~ UNCHANGED <<file, data>>
        <4>1. before[j] # None /\ RollBack(j)
          BY <1>5, <3>2 DEF Verify, RollBack
        <4>2. pre \in Contents
          BY <1>5, <4>1 DEF Verify, PreHeld, Restoring
        <4>3. OpenedAs(file) \in Inodes
          BY FreshInode DEF OpenedAs
        <4>. QED
          BY <4>1, <4>2, <4>3 DEF RollBack
      <3>. QED
        BY <3>1, <3>2
    <2>3. pc[j] = "verify" /\ UNCHANGED <<op, victim, buf, fd, tmp, rtmp, repo, stray, pre, backup,
                                          audited, before, wal, alone, faults>>
      BY <1>5 DEF Verify
    <2>4. /\ pc' \in [Jobs -> PCs]
          /\ \A i \in Jobs : fd'[i] # None <=> pc'[i] \in {"fill", "fillRestore"}
      BY <2>1, <2>3, Relabelled DEF PCs
    <2>. HIDE DEF Goto
    <2>. QED
      BY <2>1, <2>2, <2>3, <2>4 DEF PCs
  <1>6. CASE RenameRestore(j)
    BY <1>6 DEF RenameRestore
  <1>. QED
    BY <1>1, <1>2, <1>3, <1>4, <1>5, <1>6

LEMMA TypesStep ==
    ASSUME FilesAssumption, Types, \A j \in Jobs : PreHeld(j), [Next]_vars PROVE Types'
  <1>1. CASE UNCHANGED vars
    BY <1>1 DEF vars, names, store, Types, TypeOK
  <1>2. CASE Rotating
    BY <1>2, OneFault DEF Rotating, Types, TypeOK, Keep, names, store
  <1>3. ASSUME NEW j \in Jobs, Cleanup(j) PROVE Types'
    BY <1>3, OneFault DEF Cleanup, Types, TypeOK, Keep, names
  <1>. QED
    BY <1>1, <1>2, <1>3, TypesBegin, TypesEnd, TypesMutate, TypesRestore
       DEF Next, Mutate, Restore

LEMMA ApartStep ==
    ASSUME FilesAssumption, TypeOK, Apart, [Next]_vars PROVE Apart'
  <1> USE DEF Apart, Keep, Outside, names, store
  <1>1. CASE UNCHANGED vars
    BY <1>1 DEF vars
  <1>2. CASE Rotating
    BY <1>2 DEF Rotating
  <1>3. ASSUME NEW j \in Jobs, Begin(j) \/ Refuse(j) \/ Die(j) \/ Cleanup(j) PROVE Apart'
    BY <1>3 DEF Begin, Refuse, Die, Cleanup
  <1>4. ASSUME NEW j \in Jobs, Mutate(j) PROVE Apart'
    BY <1>4, FreshInode DEF Mutate, FileBackup, ReadExisting, OpenTemp, OpenTruncate, OpenedAs,
       FillTemp, RenameTemp, Remove, GitBackup, GitCommand, Audit, AuditError
  <1>5. ASSUME NEW j \in Jobs, Restore(j) PROVE Apart'
    BY <1>5, FreshInode DEF Restore, Undo, RestoreStray, PreRestore, OpenRestore, OpenTruncate,
       OpenedAs, CopyBackup, Verify, RollBack, RenameRestore
  <1>. QED
    BY <1>1, <1>2, <1>3, <1>4, <1>5 DEF Next

LEMMA LoneStep ==
    ASSUME TypeOK, Lone, [Next]_vars PROVE Lone'
  <1>1. ASSUME UNCHANGED <<pc, alone>> PROVE Lone'
    BY <1>1 DEF Lone, Active
  <1>2. ASSUME NEW j \in Jobs, Begin(j) PROVE Lone'
    <2> DEFINE others == {k \in Jobs : Active(k)}
    <2>1. alone' = IF others = {} THEN alone ELSE alone \ (others \cup {j})
      BY <1>2 DEF Begin
    <2>2. \A k \in Jobs \ {j} : pc'[k] = pc[k]
      BY <1>2 DEF Begin, Goto, TypeOK
    <2>3. alone' \subseteq Jobs /\ alone' \subseteq alone
      BY <2>1 DEF TypeOK
    <2> SUFFICES ASSUME NEW i \in alone', Active(i)', NEW k \in Jobs, Active(k)' PROVE k = i
      BY DEF Lone
    <2>4. i \in Jobs /\ (i # j => Active(i)) /\ (k # j => Active(k))
      BY <2>2, <2>3 DEF Active
    <2>. QED
      BY <2>1, <2>3, <2>4 DEF Lone
  <1>3. ASSUME NEW j \in Jobs, Moves(j) PROVE Lone'
    <2>1. \A k \in Jobs : Active(k)' => Active(k)
      BY <1>3 DEF Moves, Active
    <2>. QED
      BY <1>3, <2>1 DEF Moves, Lone, TypeOK
  <1>. QED
    BY <1>1, <1>2, <1>3, ActiveMoves DEF Next, vars, Rotating, Cleanup

LEMMA LocalOthers ==
    ASSUME TypeOK, NEW j \in Jobs, Moves(j), pre # None => pre' # None,
           NEW i \in Jobs \ {j}, Local(i)
    PROVE  Local(i)'
  <1>1. victim[i] \in Jobs /\ op[i] \in Ops
    BY DEF TypeOK
  <1>2. Course(i)'
    BY <1>1 DEF Moves, Local, Course
  <1>3. Copied(i)'
    BY DEF Moves, Local, Copied
  <1>4. Audited(i)'
    BY <1>1 DEF Moves, Local, Audited, Active, Idle
  <1>5. PreHeld(i)'
    BY DEF Moves, Local, PreHeld
  <1>. QED
    BY <1>2, <1>3, <1>4, <1>5 DEF Local

LEMMA PreStays ==
    ASSUME FilesAssumption, TypeOK, NEW j \in Jobs,
           Refuse(j) \/ Die(j) \/ Mutate(j) \/ Restore(j)
    PROVE  pre # None => pre' # None
  <1>1. CASE PreRestore(j)
    BY <1>1 DEF PreRestore, TypeOK, FilesAssumption
  <1>. QED
    BY <1>1 DEF Refuse, Die, Mutate, Restore, FileBackup, GitBackup, GitCommand, ReadExisting,
       OpenTemp, FillTemp, RenameTemp, Remove, Audit, AuditError, Undo, RestoreStray,
       OpenRestore, CopyBackup, Verify, RenameRestore

LEMMA LocalSelf ==
    ASSUME FilesAssumption, TypeOK, NEW j \in Jobs, Moves(j), \A i \in Jobs : Local(i),
           Refuse(j) \/ Die(j) \/ Mutate(j) \/ Restore(j)
    PROVE  Local(j)'
  <1> USE DEF Local, Course, Copied, Audited, PreHeld, Restoring, Mutating, Moves, Keep, Outside,
          names, store, Goto, End, Fails, Active, Idle, TypeOK
  <1>1. CASE Refuse(j)
    BY <1>1 DEF Refuse
  <1>2. CASE Die(j)
    BY <1>2 DEF Die
  <1>3. CASE FileBackup(j)
    <2>1. pc[j] = "start" /\ op[j] \notin {"git", "undo"} /\ backup[j] = None /\ ~ audited[j]
      BY <1>3 DEF FileBackup
    <2>2. /\ before'[j] = Content(file) /\ audited'[j] = audited[j]
          /\ pc'[j] = "auditError" \/ (/\ pc'[j] \in {"open", "read", "remove"}
                                       /\ backup'[j] = IF NeedsBackup(j) THEN Content(file) ELSE None)
      <3>1. Proceed(j) \in {"open", "read", "remove"}
        BY <2>1 DEF Proceed, Ops
      <3>2. CASE NeedsBackup(j)
        BY <1>3, <2>1, <3>1, <3>2 DEF FileBackup, CreateBackup
      <3>3. CASE ~ NeedsBackup(j)
        BY <1>3, <2>1, <3>1, <3>3 DEF FileBackup
      <3>. QED
        BY <3>2, <3>3
    <2>3. Content(file) # None <=> file # None
      BY DEF Content, FilesAssumption
    <2>4. op[j] = "purge" => backup'[j] = None
      BY <1>3, <2>1 DEF FileBackup, NeedsBackup
    <2>5. op[j] # "purge" => (NeedsBackup(j) <=> file # None)
      BY <2>1 DEF NeedsBackup, Ops
    <2> HIDE DEF Keep, Outside, names, store, Goto, End, Fails
    <2>6. Copied(j)'
      BY <2>1, <2>2, <2>3, <2>4, <2>5
    <2>. QED
      BY <2>1, <2>2, <2>6
  <1>4. CASE GitBackup(j)
    BY <1>4 DEF GitBackup, CreateBackup
  <1>5. CASE GitCommand(j)
    BY <1>5 DEF GitCommand
  <1>6. CASE ReadExisting(j)
    BY <1>6 DEF ReadExisting
  <1>7. CASE OpenTemp(j)
    BY <1>7 DEF OpenTemp, OpenTruncate
  <1>8. CASE FillTemp(j)
    BY <1>8 DEF FillTemp
  <1>9. CASE RenameTemp(j)
    BY <1>9 DEF RenameTemp
  <1>10. CASE Remove(j)
    BY <1>10 DEF Remove
  <1>11. CASE Audit(j)
    BY <1>11 DEF Audit
  <1>12. CASE AuditError(j)
    BY <1>12 DEF AuditError
  <1>13. CASE Undo(j)
    BY <1>13 DEF Undo, OriginalPath
  <1>14. CASE RestoreStray(j)
    BY <1>14 DEF RestoreStray
  <1>15. CASE PreRestore(j)
    <2>1. before'[j] # None => pre' # None
      BY <1>15 DEF PreRestore, Content, FilesAssumption
    <2>. QED
      BY <1>15, <2>1 DEF PreRestore
  <1>16. CASE OpenRestore(j)
    BY <1>16 DEF OpenRestore, OpenTruncate
  <1>17. CASE CopyBackup(j)
    BY <1>17 DEF CopyBackup
  <1>18. CASE Verify(j)
    BY <1>18 DEF Verify, RollBack
  <1>19. CASE RenameRestore(j)
    BY <1>19 DEF RenameRestore
  <1>. QED
    BY <1>1, <1>2, <1>3, <1>4, <1>5, <1>6, <1>7, <1>8, <1>9, <1>10, <1>11, <1>12, <1>13,
       <1>14, <1>15, <1>16, <1>17, <1>18, <1>19 DEF Mutate, Restore

LEMMA LocalStep ==
    ASSUME FilesAssumption, TypeOK, \A j \in Jobs : Local(j), [Next]_vars
    PROVE  \A i \in Jobs : Local(i)'
  <1>1. CASE UNCHANGED vars \/ Rotating
    BY <1>1 DEF vars, Rotating, Keep, names, store, Local, Course, Copied, Audited, PreHeld
  <1>2. ASSUME NEW j \in Jobs, Begin(j), NEW i \in Jobs PROVE Local(i)'
    <2>1. /\ pc[j] = "new" /\ pc'[j] = IF op[j] = "undo" THEN "look" ELSE "start"
          /\ op[j] = "undo" => pc[victim[j]] # "new"
          /\ \A k \in Jobs \ {j} : pc'[k] = pc[k]
          /\ UNCHANGED <<op, victim, backup, audited, before, pre>>
      BY <1>2 DEF Begin, Goto, Keep, TypeOK, store
    <2>2. victim[i] \in Jobs /\ Local(i)
      BY DEF TypeOK
    <2>. QED
      BY <2>1, <2>2 DEF Local, Course, Copied, Audited, PreHeld, Restoring, Mutating
  <1>3. ASSUME NEW j \in Jobs, Cleanup(j), NEW i \in Jobs PROVE Local(i)'
    <2>1. pc[j] \in {"ok", "failed", "dead"} /\ backup'[j] = None
          /\ \A k \in Jobs \ {j} : backup'[k] = backup[k]
      BY <1>3 DEF Cleanup, Idle, TypeOK
    <2>2. UNCHANGED <<op, victim, pc, audited, before, pre>> /\ Local(i)
      BY <1>3 DEF Cleanup, Keep
    <2>. QED
      BY <2>1, <2>2 DEF Local, Course, Copied, Audited, PreHeld, Mutating
  <1>4. ASSUME NEW j \in Jobs, Refuse(j) \/ Die(j) \/ Mutate(j) \/ Restore(j), NEW i \in Jobs
        PROVE  Local(i)'
    <2>1. Moves(j) /\ (pre # None => pre' # None)
      BY <1>4, ActiveMoves, PreStays
    <2>. QED
      BY <1>4, <2>1, LocalOthers, LocalSelf
  <1>. QED
    BY <1>1, <1>2, <1>3, <1>4 DEF Next

-----------------------------------------------------------------------------
(* A job that nothing runs beside                                          *)

LEMMA SoloSelf ==
    ASSUME FilesAssumption, TypeOK, Apart, NEW j \in alone, Solo(j), \A i \in Jobs : Local(i),
           Mutate(j) \/ Restore(j)
    PROVE  Solo(j)'
  <1>1. j \in Jobs /\ victim[j] \in Jobs
    BY DEF TypeOK
  <1> USE <1>1 DEF Solo, Looked, Restoring, Keep, Outside, names, store, Goto, End, Fails, Content
  <1>2. CASE GitBackup(j) \/ GitCommand(j) \/ Audit(j) \/ AuditError(j) \/ Undo(j) \/ RestoreStray(j)
    BY <1>2 DEF GitBackup, CreateBackup, GitCommand, Audit, AuditError, Undo, RestoreStray, TypeOK
  <1>3. CASE FileBackup(j)
    BY <1>3 DEF FileBackup, TypeOK, CreateBackup, Proceed
  <1>4. CASE ReadExisting(j)
    BY <1>4 DEF ReadExisting, TypeOK
  <1>5. CASE OpenTemp(j)
    BY <1>5, FreshInode DEF OpenTemp, OpenTruncate, OpenedAs, TypeOK, Apart, FilesAssumption
  <1>6. CASE FillTemp(j)
    BY <1>6 DEF FillTemp, TypeOK, Apart, FilesAssumption
  <1>7. CASE RenameTemp(j) \/ Remove(j)
    BY <1>7 DEF RenameTemp, Remove, TypeOK
  <1>8. CASE PreRestore(j)
    BY <1>8 DEF PreRestore, TypeOK
  <1>9. CASE OpenRestore(j)
    BY <1>9, FreshInode DEF OpenRestore, OpenTruncate, OpenedAs, TypeOK, Apart, FilesAssumption
  <1>10. CASE CopyBackup(j)
    BY <1>10 DEF CopyBackup, TypeOK, Apart, Local, Copied
  <1>11. CASE Verify(j)
    BY <1>11 DEF Verify, TypeOK
  <1>12. CASE RenameRestore(j)
    BY <1>12 DEF RenameRestore, TypeOK
  <1>. QED
    BY <1>2, <1>3, <1>4, <1>5, <1>6, <1>7, <1>8, <1>9, <1>10, <1>11, <1>12 DEF Mutate, Restore

LEMMA SoloIdle == ASSUME NEW i \in Jobs, ~ Active(i)' PROVE Solo(i)'
  BY DEF Active, Idle, Solo, Looked, Restoring

LEMMA SoloStep ==
    ASSUME FilesAssumption, TypeOK, Apart, Lone, \A i \in Jobs : Local(i),
           \A i \in alone : Solo(i), [Next]_vars
    PROVE  \A i \in alone' : Solo(i)'
  <1>1. CASE UNCHANGED vars \/ Rotating \/ \E j \in Jobs : Cleanup(j)
    BY <1>1 DEF vars, Rotating, Cleanup, Keep, names, store, Solo, Content
  <1>2. ASSUME NEW j \in Jobs, Begin(j), NEW i \in alone' PROVE Solo(i)'
    <2>1. alone' \subseteq Jobs /\ (Active(i) => i = j)
      BY <1>2 DEF Begin, TypeOK
    <2>2. ~ Active(j) /\ pc'[j] \in {"start", "look"} /\ \A k \in Jobs \ {j} : pc'[k] = pc[k]
      BY <1>2 DEF Begin, Goto, TypeOK, Active, Idle
    <2>3. CASE i = j
      BY <2>2, <2>3 DEF Solo, Looked, Restoring
    <2>4. CASE i # j
      <3>1. ~ Active(i)'
        BY <2>1, <2>2, <2>4 DEF Active
      <3>. QED
        BY <2>1, <3>1, SoloIdle
    <2>. QED
      BY <2>3, <2>4
  <1>3. ASSUME NEW j \in Jobs, Refuse(j) \/ Die(j) \/ Mutate(j) \/ Restore(j), NEW i \in alone'
        PROVE  Solo(i)'
    <2>1. Moves(j) /\ alone' = alone /\ i \in Jobs
      BY <1>3, ActiveMoves DEF Moves, TypeOK
    <2>2. CASE i # j
      <3>1. ~ Active(i)'
        BY <2>1, <2>2 DEF Lone, Moves, Active
      <3>. QED
        BY <2>1, <3>1, SoloIdle
    <2>3. CASE i = j /\ (Refuse(j) \/ Die(j))
      <3>1. ~ Active(i)'
        BY <2>3 DEF Refuse, Die, End, Goto, Active, Idle, TypeOK
      <3>. QED
        BY <2>1, <3>1, SoloIdle
    <2>. QED
      BY <1>3, <2>1, <2>2, <2>3, SoloSelf
  <1>. QED
    BY <1>1, <1>2, <1>3 DEF Next

-----------------------------------------------------------------------------
(* No part of a content                                                    *)

LEMMA AloneShrinks == ASSUME TypeOK, [Next]_vars PROVE alone' \subseteq alone /\ alone \subseteq Jobs
  <1>1. \A j \in Jobs : Begin(j) \/ Cleanup(j) => alone' \subseteq alone
    BY DEF Begin, Cleanup
  <1>. QED
    BY <1>1, ActiveMoves DEF Next, vars, Rotating, Moves, TypeOK

\* A job that ended stays as it ended.
LEMMA EndedStays ==
    ASSUME TypeOK, [Next]_vars, NEW u \in Jobs, pc[u] \in {"ok", "failed", "dead"}
    PROVE  pc'[u] = pc[u]
  <1>1. ASSUME NEW j \in Jobs, Begin(j) PROVE pc'[u] = pc[u]
    BY <1>1 DEF Begin, Goto, TypeOK
  <1>2. ASSUME NEW j \in Jobs, Moves(j) PROVE pc'[u] = pc[u]
    BY <1>2 DEF Moves, Active, Idle
  <1>. QED
    BY <1>1, <1>2, ActiveMoves DEF Next, vars, Rotating, Cleanup

LEMMA CleanBefore == ASSUME TypeOK, [Next]_vars, Clean' PROVE Clean
  <1>1. op' = op /\ victim' = victim
    <2>1. \A j \in Jobs : Begin(j) \/ Cleanup(j) \/ Moves(j) => op' = op /\ victim' = victim
      BY DEF Begin, Cleanup, Moves, Keep
    <2>. QED
      BY <2>1, ActiveMoves DEF Next, vars, Rotating, Keep
  <1>2. ASSUME NEW u \in Jobs, pc[u] = "ok", op[u] = "undo", pc[victim[u]] = "failed" PROVE FALSE
    <2>1. victim[u] \in Jobs
      BY DEF TypeOK
    <2>2. pc'[u] = "ok" /\ pc'[victim[u]] = "failed"
      BY <1>2, <2>1, EndedStays
    <2>. QED
      BY <1>1, <1>2, <2>2 DEF Clean
  <1>. QED
    BY <1>2, AloneShrinks DEF Clean

LEMMA WholeSelf ==
    ASSUME FilesAssumption, FilesInv, Clean, WholeContents, NEW j \in Jobs, Moves(j), Clean',
           Mutate(j) \/ Restore(j)
    PROVE  WholeContents'
  <1>1. j \in alone /\ victim[j] \in Jobs /\ Solo(j) /\ Local(j) /\ TypeOK /\ Apart
    BY DEF FilesInv, Types, TypeOK, Clean
  <1>2. \A i \in Jobs \ {j} : pc'[i] # "rename" /\ op'[i] = op[i]
                              /\ before'[i] = before[i] /\ buf'[i] = buf[i]
    BY <1>1 DEF FilesInv, Lone, Moves, Active, Idle, Clean
  <1>3. \A c \in Contents : c # None
    BY DEF FilesAssumption
  <1> SUFFICES /\ file' # None => Whole(data'[file'])
               /\ op[j] # "git" /\ before'[j] # None => Whole(before'[j])
               /\ Torn \notin buf'[j]
               /\ pc'[j] = "rename" /\ tmp' # None => Whole(data'[tmp'])
    BY <1>2 DEF WholeContents, Moves
  <1> USE <1>1, <1>3 DEF WholeContents, TypeOK, Keep, Outside, names, store, Goto, End, Fails
  <1>4. CASE GitBackup(j) \/ GitCommand(j) \/ Audit(j) \/ AuditError(j) \/ Undo(j) \/ RestoreStray(j)
    BY <1>4 DEF GitBackup, CreateBackup, GitCommand, Audit, AuditError, Undo, RestoreStray
  <1>5. CASE FileBackup(j)
    BY <1>5 DEF FileBackup, CreateBackup, Proceed, Content
  <1>6. CASE ReadExisting(j)
    BY <1>6 DEF ReadExisting, Whole
  <1>7. CASE OpenTemp(j)
    BY <1>7, FreshInode DEF OpenTemp, OpenTruncate, OpenedAs, Apart
  <1>8. CASE FillTemp(j)
    <2>1. fd[j] = tmp /\ fd[j] \in Inodes
      BY <1>8 DEF FillTemp, Solo
    <2>2. Whole(buf[j] \cup {j})
      BY DEF Whole, FilesAssumption
    <2>. QED
      BY <1>8, <2>1, <2>2 DEF FillTemp, Apart
  <1>9. CASE RenameTemp(j) \/ Remove(j)
    BY <1>9 DEF RenameTemp, Remove
  <1>10. CASE PreRestore(j)
    BY <1>10 DEF PreRestore, Content
  <1>11. CASE OpenRestore(j)
    BY <1>11, FreshInode DEF OpenRestore, OpenTruncate, OpenedAs, Apart
  <1>12. CASE CopyBackup(j)
    BY <1>12 DEF CopyBackup, Solo, Apart
  <1>13. CASE Verify(j)
    <2>1. Content(file) = before[j] /\ (before[j] # None => pre = before[j])
          /\ op[j] = "undo"
      BY <1>13 DEF Verify, Solo, Looked, Restoring, Local, Course
    <2>2. before[j] # None => file # None
      BY <2>1 DEF Content
    <2>. QED
      BY <1>13, <2>1, <2>2 DEF Verify, RollBack, OpenedAs
  <1>14. CASE RenameRestore(j)
    <2>1. /\ op[j] = "undo" /\ pc[victim[j]] \in {"ok", "failed"} /\ op[victim[j]] # "git"
          /\ victim[j] # j /\ pc[j] = "renameRestore"
      BY <1>14 DEF RenameRestore, Local, Course, Audited, Restoring
    <2>2. pc'[j] = "ok" => pc[victim[j]] = "ok"
      BY <2>1 DEF Moves, Clean
    <2>3. pc[victim[j]] = "ok" /\ rtmp # None => Whole(data[rtmp])
      BY <2>1 DEF Solo
    <2>. QED
      BY <1>14, <2>1, <2>2, <2>3 DEF RenameRestore
  <1>. QED
    BY <1>4, <1>5, <1>6, <1>7, <1>8, <1>9, <1>10, <1>11, <1>12, <1>13, <1>14 DEF Mutate, Restore

LEMMA WholeStep ==
    ASSUME FilesAssumption, FilesInv, [Next]_vars, Clean' PROVE WholeContents'
  <1>1. TypeOK /\ Clean /\ WholeContents
    BY CleanBefore DEF FilesInv, Types
  <1>2. CASE UNCHANGED vars \/ Rotating \/ \E j \in Jobs : Cleanup(j)
    BY <1>1, <1>2 DEF vars, Rotating, Cleanup, Keep, names, store, WholeContents
  <1>3. ASSUME NEW j \in Jobs, Begin(j) \/ Refuse(j) \/ Die(j) PROVE WholeContents'
    BY <1>1, <1>3 DEF Begin, Refuse, Die, Goto, End, Keep, names, store, WholeContents, TypeOK
  <1>. QED
    BY <1>1, <1>2, <1>3, WholeSelf, ActiveMoves DEF Next

LEMMA FilesInvInit == FilesAssumption /\ Init => FilesInv
  <1> SUFFICES ASSUME FilesAssumption, Init PROVE FilesInv
    OBVIOUS
  <1>1. Types
    BY TypesInit
  <1>2. Apart /\ Lone
    BY DEF Init, Apart, Lone, Active, Idle
  <1>3. \A j \in Jobs : Local(j) /\ Solo(j)
    BY DEF Init, Local, Course, Copied, Audited, PreHeld, Solo, Restoring, Mutating, Looked
  <1>4. WholeContents
    <2>1. file # None => data[file] = {Orig}
      BY <1>1 DEF Init, Types, TypeOK, FilesAssumption, Inodes
    <2>2. Whole({Orig})
      BY DEF Whole, Orig, Torn
    <2>. QED
      BY <2>1, <2>2 DEF Init, WholeContents
  <1>. QED
    BY <1>1, <1>2, <1>3, <1>4 DEF FilesInv, Init

LEMMA FilesInvStep ==
    ASSUME FilesAssumption, FilesInv, [Next]_vars PROVE FilesInv'
  <1>1. TypeOK /\ \A j \in Jobs : PreHeld(j)
    BY DEF FilesInv, Types, Local
  <1>2. Types'
    BY <1>1, TypesStep DEF FilesInv
  <1>3. Apart' /\ Lone'
    BY <1>1, ApartStep, LoneStep DEF FilesInv
  <1>4. \A j \in Jobs : Local(j)'
    BY <1>1, LocalStep DEF FilesInv
  <1>5. \A j \in alone' : Solo(j)'
    BY <1>1, SoloStep DEF FilesInv
  <1>. QED
    BY <1>2, <1>3, <1>4, <1>5, WholeStep DEF FilesInv

-----------------------------------------------------------------------------
(* What follows                                                            *)

LEMMA InvAtomicChange == FilesInv => AtomicChange
  BY DEF FilesInv, AtomicChange, Solo, Looked

LEMMA InvFileWhole == FilesInv => FileWhole
  BY DEF FilesInv, FileWhole, Clean, WholeContents, Whole

LEMMA StepKeepsDisplaced == FilesAssumption /\ FilesInv /\ [Next]_vars => KeepsDisplaced
  <1> SUFFICES ASSUME FilesAssumption, FilesInv, [Next]_vars, NEW j \in alone',
                      pc[j] \in {"rename", "remove", "renameRestore"}, file # None,
                      op[j] # "purge", Content(file)' # Content(file)
               PROVE  Content(file) \in {backup[j], pre}
    BY DEF KeepsDisplaced
  <1>1. TypeOK /\ j \in alone /\ j \in Jobs /\ Solo(j) /\ Local(j)
    BY AloneShrinks DEF FilesInv, Types
  <1>2. Content(file) # None
    BY <1>1 DEF Content, TypeOK, FilesAssumption
  <1>. QED
    BY <1>1, <1>2 DEF Solo, Looked, Restoring, Local, Copied, Mutating

LEMMA StepRestoresBefore == FilesInv /\ [Next]_vars => RestoresBefore
  <1> SUFFICES ASSUME FilesInv, [Next]_vars, NEW j \in Jobs, pc[j] = "renameRestore",
                      pc'[j] = "ok", j \in alone, pc[victim[j]] = "ok"
               PROVE  Content(file)' = before[victim[j]]
    BY DEF RestoresBefore
  <1>1. TypeOK /\ Solo(j)
    BY DEF FilesInv, Types
  <1>2. RenameRestore(j)
    <2>1. ASSUME NEW i \in Jobs, Begin(i) PROVE pc'[j] = pc[j]
      BY <1>1, <2>1 DEF Begin, Goto, TypeOK
    <2>2. ASSUME NEW i \in Jobs \ {j}, Moves(i) PROVE pc'[j] = pc[j]
      BY <2>2 DEF Moves
    <2>3. Refuse(j) \/ Die(j) \/ Mutate(j) \/ Restore(j)
      BY <1>1, <2>1, <2>2, ActiveMoves DEF Next, vars, Rotating, Cleanup
    <2>. QED
      BY <1>1, <2>3 DEF Refuse, Die, End, Goto, TypeOK, Mutate, Restore, FileBackup, ReadExisting,
         OpenTemp, FillTemp, RenameTemp, Remove, GitBackup, GitCommand, Audit, AuditError, Undo,
         RestoreStray, PreRestore, OpenRestore, CopyBackup, Verify
  <1>3. file' = rtmp /\ data' = data /\ rtmp # None
    BY <1>1, <1>2 DEF RenameRestore, End, Goto, TypeOK, Solo
  <1>. QED
    BY <1>1, <1>3 DEF Content, Solo

\* A write, a deletion and an undo, whatever fails, dies or is cleaned up: the file changes
\* by one rename and never holds a part of a content, what is taken from it is kept, and an
\* undo brings back what the undone job displaced.
THEOREM FilesSafe ==
    ASSUME FilesAssumption
    PROVE  Spec => /\ [](TypeOK /\ AtomicChange /\ FileWhole)
                   /\ [][KeepsDisplaced /\ RestoresBefore]_vars
  <1>1. Spec => []FilesInv
    BY FilesInvInit, FilesInvStep, PTL DEF Spec
  <1>2. FilesInv => TypeOK /\ AtomicChange /\ FileWhole
    BY InvAtomicChange, InvFileWhole DEF FilesInv, Types
  <1>3. FilesInv /\ [Next]_vars => KeepsDisplaced /\ RestoresBefore
    BY StepKeepsDisplaced, StepRestoresBefore
  <1>. QED
    BY <1>1, <1>2, <1>3, PTL DEF Spec
=============================================================================
