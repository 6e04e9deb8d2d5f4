--------------------------- MODULE OperatingProofs ---------------------------
(***************************************************************************)
(* What GitExec guarantees for any number of jobs on a repository of any   *)
(* files, under git that may fail, be killed at its timeout or run beside  *)
(* another job's, and beside programs that create files; and what          *)
(* DaemonsProofs shows of the daemons, and RecordsProofs of sessions,      *)
(* alerts, observations and evidence, for the composition that the run     *)
(* checks.                                                                 *)
(*                                                                         *)
(* GitInv is the inductive invariant: Copies relates what a job has copied *)
(* to the tree as it is now, Asked what is left to do to what was asked,   *)
(* and Filling says that one clone at a time fills the path.               *)
(***************************************************************************)
EXTENDS Operating, TLAPS

Histories ==
    /\ removed \in [Jobs -> SUBSET Names] /\ fresh \in [Jobs -> SUBSET Names]
    /\ changed \subseteq Jobs

\* Of the names already copied, those that are in the tree were there then, or are fresh.
Kept(j, n) == backup[j][n] # "none" \/ n \in fresh[j]

CopiesJob(j) ==
    /\ \A n \in copied[j] : place[n] # "none" => Kept(j, n)
    /\ pc[j] \in {"add", "git"} => BackedUp(j)
    /\ removed[j] # {} => pc[j] \in {"after", "done"}
    /\ \A n \in removed[j] : Kept(j, n)

Unchanging == {"new", "capture", "checked", "backup"}

AskedJob(j) ==
    /\ pc[j] = "capture" => op[j] # "clone"
    /\ pc[j] = "checked" => op[j] # "status" /\ (op[j] # "clone" => ~ dry[j])
    /\ pc[j] \in {"backup", "add", "git"} => op[j] \in Mutating /\ ~ dry[j]
    /\ pc[j] = "clone" => op[j] = "clone" /\ ~ dry[j]
    /\ pc[j] = "after" => j \in changed
    /\ j \in changed =>
           /\ pc[j] \notin Unchanging
           /\ ~ dry[j] /\ op[j] # "status"
           /\ op[j] # "clone" => BackedUp(j)
    /\ answer[j] = "ok" /\ ~ dry[j] /\ op[j] # "status" => j \in changed

Fills(j) == pc[j] = "clone" /\ j \in changed

Filling ==
    /\ \A j \in Jobs : Fills(j) => repo = "partial"
    /\ \A i, j \in Jobs : Fills(i) /\ Fills(j) => i = j

Copies == \A j \in Jobs : CopiesJob(j)
Asked == \A j \in Jobs : AskedJob(j)

GitInv == GitTypeOK /\ Histories /\ Copies /\ Asked /\ Filling

-----------------------------------------------------------------------------
(* What the steps have in common                                           *)

\* The actions of a job, but for those that copy or add one name.
JobStep(j) ==
    \/ Begin(j) \/ Captured(j) \/ Status(j) \/ Checked(j) \/ BackupDone(j) \/ BackupFails(j)
    \/ RefuseAdd(j) \/ StartGit(j) \/ GitSucceeds(j) \/ GitFails(j) \/ GitTimesOut(j)
    \/ Report(j) \/ StartClone(j) \/ CloneFills(j) \/ CloneSucceeds(j) \/ CloneFails(j)

LEMMA StepCases ==
    ASSUME [GitNext]_gitVars
    PROVE  \/ \E j \in Jobs : JobStep(j) \/ \E n \in Names : CopyName(j, n) \/ Add(j, n)
           \/ \E n \in Names : Edit(n)
           \/ UNCHANGED gitVars
  BY DEF GitNext, JobStep

\* Where a job goes, and what it answers.
LEMMA Moves ==
    ASSUME GitTypeOK, NEW j \in Jobs
    PROVE  /\ \A label : Goto(j, label) =>
                 /\ pc'[j] = label /\ answer' = answer
                 /\ \A i \in Jobs \ {j} : pc'[i] = pc[i]
           /\ \A a : Answer(j, a) =>
                 /\ pc'[j] = "done" /\ answer'[j] = a
                 /\ \A i \in Jobs \ {j} : pc'[i] = pc[i] /\ answer'[i] = answer[i]
  BY DEF Goto, Answer, GitTypeOK

\* A step of one job leaves pc, answer, copies and requests of the others alone.
LEMMA OthersStay ==
    ASSUME GitTypeOK, Histories, NEW j \in Jobs,
           JobStep(j) \/ \E n \in Names : CopyName(j, n) \/ Add(j, n)
    PROVE  \A i \in Jobs \ {j} :
              /\ pc'[i] = pc[i] /\ answer'[i] = answer[i]
              /\ op'[i] = op[i] /\ dry'[i] = dry[i]
              /\ copied'[i] = copied[i] /\ backup'[i] = backup[i]
              /\ removed'[i] = removed[i]
              /\ i \in changed' <=> i \in changed
  <1> USE Moves DEF request, history
  <1>1. ASSUME Begin(j) \/ Captured(j) \/ Status(j) \/ Checked(j) \/ BackupDone(j)
               \/ BackupFails(j) \/ RefuseAdd(j) \/ StartGit(j) \/ GitFails(j) \/ Report(j)
        PROVE  /\ \A i \in Jobs \ {j} : pc'[i] = pc[i] /\ answer'[i] = answer[i]
               /\ \A i \in Jobs \ {j} : op'[i] = op[i] /\ dry'[i] = dry[i]
               /\ UNCHANGED <<copied, backup, removed, changed>>
    <2>1. CASE Begin(j)
      BY <2>1 DEF Begin, GitTypeOK
    <2>2. CASE Captured(j) \/ Status(j) \/ Checked(j) \/ BackupDone(j) \/ BackupFails(j)
      BY <2>2 DEF Captured, Status, Checked, BackupDone, BackupFails
    <2>3. CASE RefuseAdd(j) \/ StartGit(j) \/ GitFails(j) \/ Report(j)
      BY <2>3 DEF RefuseAdd, StartGit, GitFails, Report
    <2>. QED
      BY <1>1, <2>1, <2>2, <2>3
  <1>2. ASSUME StartClone(j) \/ CloneFills(j) \/ CloneSucceeds(j) \/ CloneFails(j)
        PROVE  /\ \A i \in Jobs \ {j} : pc'[i] = pc[i] /\ answer'[i] = answer[i]
               /\ \A i \in Jobs \ {j} : i \in changed' <=> i \in changed
               /\ UNCHANGED <<op, dry, copied, backup, removed>>
    BY <1>2 DEF StartClone, CloneFills, CloneSucceeds, CloneFails
  <1>3. ASSUME NEW tree, Changes(j, tree)
        PROVE  \A i \in Jobs \ {j} : /\ removed'[i] = removed[i]
                                     /\ i \in changed' <=> i \in changed
    BY <1>3 DEF Changes, Histories
  <1>4. ASSUME GitSucceeds(j) \/ GitTimesOut(j)
        PROVE  /\ \A i \in Jobs \ {j} : pc'[i] = pc[i] /\ answer'[i] = answer[i]
               /\ \A i \in Jobs \ {j} : /\ removed'[i] = removed[i]
                                        /\ i \in changed' <=> i \in changed
               /\ UNCHANGED <<op, dry, copied, backup>>
    BY <1>3, <1>4 DEF GitSucceeds, GitTimesOut
  <1>5. ASSUME NEW n \in Names, CopyName(j, n)
        PROVE  /\ \A i \in Jobs \ {j} : copied'[i] = copied[i] /\ backup'[i] = backup[i]
               /\ UNCHANGED <<pc, answer, op, dry, removed, changed>>
    BY <1>5 DEF CopyName, GitTypeOK
  <1>6. ASSUME NEW n \in Names, Add(j, n)
        PROVE  /\ \A i \in Jobs \ {j} : /\ pc'[i] = pc[i] /\ answer'[i] = answer[i]
                                        /\ i \in changed' <=> i \in changed
               /\ UNCHANGED <<op, dry, copied, backup, removed>>
    BY <1>6 DEF Add
  <1>. QED
    BY <1>1, <1>2, <1>4, <1>5, <1>6 DEF JobStep

\* What git may make of the tree is a tree.
LEMMA Trees ==
    ASSUME GitTypeOK, NEW j \in Jobs, op[j] \in Mutating
    PROVE  /\ Effect(j) \subseteq [Names -> Places]
           /\ PartOf(j) \subseteq [Names -> Places]
           /\ \A tree \in PartOf(j), n \in Names : place[n] = "none" => tree[n] = "none"
  <1>1. place \in [Names -> Places]
    BY DEF GitTypeOK
  <1>2. PartOf(j) \subseteq [Names -> Places]
    BY <1>1 DEF PartOf, Places
  <1>3. \A tree \in PartOf(j), n \in Names : place[n] = "none" => tree[n] = "none"
    BY <1>1 DEF PartOf
  <1>4. CASE op[j] = "commit"
    BY <1>1, <1>2, <1>3, <1>4 DEF Effect, Places
  <1>5. CASE op[j] = "revert"
    BY <1>1, <1>2, <1>3, <1>5 DEF Effect, Places
  <1>6. CASE op[j] = "clean"
    BY <1>1, <1>2, <1>3, <1>6 DEF Effect, Places
  <1>7. CASE op[j] = "pull"
    BY <1>1, <1>2, <1>3, <1>7 DEF Effect, Places
  <1>. QED
    BY <1>4, <1>5, <1>6, <1>7 DEF Mutating

\* What appears in the tree becomes fresh for every job that has passed its name.
LEMMA Appearing ==
    ASSUME GitTypeOK, Histories, NEW tree \in [Names -> Places], Becomes(tree)
    PROVE  /\ place' = tree
           /\ fresh' \in [Jobs -> SUBSET Names]
           /\ \A i \in Jobs :
                 /\ fresh[i] \subseteq fresh'[i]
                 /\ \A n \in copied[i] : place[n] = "none" /\ tree[n] # "none" => n \in fresh'[i]
  BY DEF Becomes, GitTypeOK, Histories

-----------------------------------------------------------------------------
\* The types of the variables, for one step of one job.
LEMMA JobTypes ==
    ASSUME GitTypeOK, Histories, Asked, Filling, NEW j \in Jobs,
           JobStep(j) \/ \E n \in Names : CopyName(j, n) \/ Add(j, n)
    PROVE  GitTypeOK' /\ Histories'
  <1> DEFINE PCs == {"new", "capture", "checked", "backup", "add", "git", "clone", "after"}
             Control == /\ pc' \in [Jobs -> PCs \cup {"done"}]
                        /\ answer' \in [Jobs -> {"none", "ok", "error"}]
                        /\ \A i \in Jobs : pc'[i] = "done" <=> answer'[i] # "none"
  <1> USE DEF request, history
  <1>1. ASSUME pc[j] # "done",
               \/ \E label \in PCs : Goto(j, label)
               \/ \E a \in {"ok", "error"} : Answer(j, a)
               \/ UNCHANGED <<pc, answer>>
        PROVE  Control
    <2>1. CASE \E label \in PCs : Goto(j, label)
      <3>1. PICK label \in PCs : pc' = [pc EXCEPT ![j] = label] /\ answer' = answer
        BY <2>1 DEF Goto
      <3>. QED
        BY <1>1, <3>1 DEF GitTypeOK
    <2>2. CASE \E a \in {"ok", "error"} : Answer(j, a)
      <3>1. PICK a \in {"ok", "error"} : /\ pc' = [pc EXCEPT ![j] = "done"]
                                         /\ answer' = [answer EXCEPT ![j] = a]
        BY <2>2 DEF Answer
      <3>. QED
        BY <3>1 DEF GitTypeOK
    <2>3. CASE UNCHANGED <<pc, answer>>
      BY <2>3 DEF GitTypeOK
    <2>. QED
      BY <1>1, <2>1, <2>2, <2>3
  <1>2. ASSUME NEW tree \in [Names -> Places], Changes(j, tree)
        PROVE  Histories' /\ place' \in [Names -> Places]
    <2>1. place' = tree /\ fresh' \in [Jobs -> SUBSET Names]
      BY <1>2, Appearing DEF Changes
    <2>. QED
      BY <1>2, <2>1 DEF Changes, Histories
  <1>3. CASE Begin(j)
    <2>1. Control
      BY <1>1, <1>3 DEF Begin
    <2>2. op' \in [Jobs -> Ops] /\ dry' \in [Jobs -> BOOLEAN] /\ args' \in [Jobs -> SUBSET Names]
      BY <1>3 DEF Begin, GitTypeOK
    <2>. QED
      BY <1>3, <2>1, <2>2 DEF Begin, GitTypeOK, Histories
  <1>4. CASE Captured(j) \/ Status(j) \/ Checked(j) \/ BackupFails(j) \/ RefuseAdd(j) \/ Report(j)
    <2>1. Control
      BY <1>1, <1>4 DEF Captured, Status, Checked, BackupFails, RefuseAdd, Report
    <2>2. UNCHANGED <<request, repo, place, lock, backup, copied, history>>
      BY <1>4 DEF Captured, Status, Checked, BackupFails, RefuseAdd, Report
    <2>. QED
      BY <2>1, <2>2 DEF GitTypeOK, Histories
  <1>5. CASE BackupDone(j)
    <2>1. Control
      BY <1>1, <1>5 DEF BackupDone
    <2>2. args' \in [Jobs -> SUBSET Names]
      BY <1>5, GitAssumption DEF BackupDone, AddsToDo, GitOutput, GitTypeOK
    <2>. QED
      BY <1>5, <2>1, <2>2 DEF BackupDone, GitTypeOK, Histories
  <1>6. CASE StartGit(j) \/ GitFails(j)
    <2>1. Control
      BY <1>1, <1>6 DEF StartGit, GitFails
    <2>2. lock' \in Jobs \cup {"stale", None}
      BY <1>6 DEF StartGit, GitFails, Unlocked, GitTypeOK
    <2>. QED
      BY <1>6, <2>1, <2>2 DEF StartGit, GitFails, GitTypeOK, Histories
  <1>7. CASE GitSucceeds(j) \/ GitTimesOut(j)
    <2>1. Control
      BY <1>1, <1>7 DEF GitSucceeds, GitTimesOut
    <2>2. lock' \in Jobs \cup {"stale", None}
      BY <1>7 DEF GitSucceeds, GitTimesOut, Unlocked, GitTypeOK
    <2>3. op[j] \in Mutating
      BY <1>7 DEF GitSucceeds, GitTimesOut, Asked, AskedJob
    <2>4. Histories' /\ place' \in [Names -> Places]
      BY <1>2, <1>7, <2>3, Trees DEF GitSucceeds, GitTimesOut
    <2>5. repo # "whole" => \A n \in Names : place'[n] = "none"
      <3> SUFFICES ASSUME repo # "whole"
                   PROVE  \A n \in Names : place'[n] = "none"
        OBVIOUS
      <3>1. PICK tree \in PartOf(j) : place' = tree
        BY <1>7 DEF GitSucceeds, GitTimesOut, Changes, Becomes
      <3>. QED
        BY <2>3, <3>1, Trees DEF GitTypeOK
    <2>. QED
      BY <1>7, <2>1, <2>2, <2>4, <2>5 DEF GitSucceeds, GitTimesOut, GitTypeOK
  <1>8. CASE StartClone(j) \/ CloneFills(j)
    <2>1. Control
      BY <1>1, <1>8 DEF StartClone, CloneFills
    <2>2. UNCHANGED <<request, place, lock, backup, copied, removed, fresh>>
      BY <1>8 DEF StartClone, CloneFills
    <2>3. repo' \in {"absent", "partial", "whole"} /\ (repo' # "whole" => repo # "whole")
      BY <1>8 DEF StartClone, CloneFills, GitTypeOK
    <2>4. changed' \subseteq Jobs
      BY <1>8 DEF StartClone, CloneFills, Histories
    <2>. QED
      BY <2>1, <2>2, <2>3, <2>4 DEF GitTypeOK, Histories
  <1>9. CASE CloneSucceeds(j)
    <2>1. Control
      BY <1>1, <1>9 DEF CloneSucceeds
    <2>2. PICK tree \in [Names -> {"none", "tracked"}] : Becomes(tree)
      BY <1>9 DEF CloneSucceeds
    <2>3. tree \in [Names -> Places]
      BY <2>2 DEF Places
    <2>4. place' \in [Names -> Places] /\ fresh' \in [Jobs -> SUBSET Names]
      BY <2>2, <2>3, Appearing
    <2>. QED
      BY <1>9, <2>1, <2>4 DEF CloneSucceeds, GitTypeOK, Histories
  <1>10. CASE CloneFails(j)
    <2>1. Control
      BY <1>1, <1>10 DEF CloneFails
    <2>2. repo = "partial"
      BY <1>10 DEF CloneFails, Filling, Fills
    <2>. QED
      BY <1>10, <2>1, <2>2 DEF CloneFails, GitTypeOK, Histories
  <1>11. ASSUME NEW n \in Names, CopyName(j, n)
         PROVE  GitTypeOK' /\ Histories'
    <2>1. backup' \in [Jobs -> Backups] /\ copied' \in [Jobs -> SUBSET Names]
      BY <1>11 DEF CopyName, GitTypeOK, Backups
    <2>. QED
      BY <1>11, <2>1 DEF CopyName, GitTypeOK, Histories
  <1>12. ASSUME NEW n \in Names, Add(j, n)
         PROVE  GitTypeOK' /\ Histories'
    <2>1. Control
      BY <1>1, <1>12 DEF Add
    <2>2. args' \in [Jobs -> SUBSET Names] /\ changed' \subseteq Jobs
      BY <1>12 DEF Add, GitTypeOK, Histories
    <2>3. /\ place' \in [Names -> Places]
          /\ \A m \in Names : place[m] = "none" => place'[m] = "none"
      BY <1>12 DEF Add, GitTypeOK, Places
    <2>. QED
      BY <1>12, <2>1, <2>2, <2>3 DEF Add, GitTypeOK, Histories
  <1>. QED
    BY <1>3, <1>4, <1>5, <1>6, <1>7, <1>8, <1>9, <1>10, <1>11, <1>12 DEF JobStep

LEMMA EditTypes ==
    ASSUME GitTypeOK, Histories, NEW n \in Names, Edit(n)
    PROVE  GitTypeOK' /\ Histories'
  <1> DEFINE tree == [place EXCEPT ![n] = "untracked"]
  <1>1. tree \in [Names -> Places] /\ Becomes(tree)
    BY DEF Edit, GitTypeOK, Places
  <1>2. place' \in [Names -> Places] /\ fresh' \in [Jobs -> SUBSET Names]
    BY <1>1, Appearing
  <1>. QED
    BY <1>2 DEF Edit, GitTypeOK, Histories, request

-----------------------------------------------------------------------------
(* Copies: whatever is in the tree under a name a job has copied is in its *)
(* backup, or appeared after the copy.                                     *)

\* What other jobs and programs do to the tree leaves what Copies says of a job true.
LEMMA CopiesFrame ==
    ASSUME NEW i \in Jobs, CopiesJob(i), Histories, copied[i] \subseteq Names,
           backup'[i] = backup[i], copied'[i] = copied[i], removed'[i] = removed[i],
           fresh[i] \subseteq fresh'[i],
           \A n \in copied[i] : place[n] = "none" /\ place'[n] # "none" => n \in fresh'[i],
           pc'[i] \in {"add", "git"} => BackedUp(i),
           removed[i] # {} => pc'[i] \in {"after", "done"}
    PROVE  CopiesJob(i)'
  BY DEF CopiesJob, Kept, BackedUp

\* Whatever a step does to the tree, it does to the copies of no job.
LEMMA TreeSteps ==
    ASSUME GitTypeOK, Histories, Asked, NEW j \in Jobs,
           JobStep(j) \/ (\E n \in Names : CopyName(j, n) \/ Add(j, n)) \/ (\E n \in Names : Edit(n))
    PROVE  \A i \in Jobs :
              /\ fresh[i] \subseteq fresh'[i]
              /\ \A n \in copied[i] : place[n] = "none" /\ place'[n] # "none" => n \in fresh'[i]
  <1> USE DEF history
  <1>1. \A i \in Jobs : copied[i] \subseteq Names
    BY DEF GitTypeOK
  <1>2. CASE UNCHANGED <<place, fresh>>
    BY <1>2
  <1>3. CASE \E tree \in [Names -> Places] : Becomes(tree)
    BY <1>3, Appearing
  <1>4. ASSUME JobStep(j), ~ UNCHANGED <<place, fresh>>
        PROVE  GitSucceeds(j) \/ GitTimesOut(j) \/ CloneSucceeds(j)
    BY <1>4 DEF JobStep, Begin, Captured, Status, Checked, BackupDone, BackupFails, RefuseAdd,
           StartGit, GitFails, Report, StartClone, CloneFills, CloneFails
  <1>5. CASE GitSucceeds(j) \/ GitTimesOut(j)
    <2>1. op[j] \in Mutating
      BY <1>5 DEF GitSucceeds, GitTimesOut, Asked, AskedJob
    <2>. QED
      BY <1>3, <1>5, <2>1, Trees DEF GitSucceeds, GitTimesOut, Changes
  <1>6. CASE CloneSucceeds(j)
    <2>1. PICK tree \in [Names -> {"none", "tracked"}] : Becomes(tree)
      BY <1>6 DEF CloneSucceeds
    <2>. QED
      BY <1>3, <2>1 DEF Places
  <1>7. ASSUME NEW n \in Names, CopyName(j, n)
        PROVE  UNCHANGED <<place, fresh>>
    BY <1>7 DEF CopyName
  <1>8. ASSUME NEW n \in Names, Add(j, n)
        PROVE  UNCHANGED fresh /\ \A m \in Names : place[m] = "none" => place'[m] = "none"
    BY <1>8 DEF Add, GitTypeOK
  <1>9. ASSUME NEW n \in Names, Edit(n)
        PROVE  \E tree \in [Names -> Places] : Becomes(tree)
    BY <1>9 DEF Edit, GitTypeOK, Places
  <1>. QED
    BY <1>1, <1>2, <1>3, <1>4, <1>5, <1>6, <1>7, <1>8, <1>9

LEMMA CopiesStep ==
    ASSUME GitInv, [GitNext]_gitVars
    PROVE  Copies'
  <1> USE DEF GitInv, history
  <1>1. \A i \in Jobs : CopiesJob(i) /\ AskedJob(i) /\ copied[i] \subseteq Names
    BY DEF Copies, Asked, GitTypeOK
  <1>2. CASE UNCHANGED gitVars
    BY <1>2 DEF gitVars, Copies, CopiesJob, Kept, BackedUp
  <1>3. ASSUME NEW n \in Names, Edit(n), NEW i \in Jobs
        PROVE  CopiesJob(i)'
    <2>1. UNCHANGED <<pc, backup, copied, removed>>
      BY <1>3 DEF Edit
    <2>. QED
      BY <1>1, <1>3, <2>1, TreeSteps, CopiesFrame DEF CopiesJob
  <1>4. ASSUME NEW j \in Jobs, JobStep(j) \/ \E n \in Names : CopyName(j, n) \/ Add(j, n)
        PROVE  \A i \in Jobs : CopiesJob(i)'
    <2>1. \A i \in Jobs \ {j} : CopiesJob(i)'
      BY <1>1, <1>4, OthersStay, TreeSteps, CopiesFrame DEF CopiesJob
    <2>2. /\ CopiesJob(j) /\ AskedJob(j) /\ copied[j] \subseteq Names
          /\ fresh[j] \subseteq fresh'[j]
          /\ \A n \in copied[j] : place[n] = "none" /\ place'[n] # "none" => n \in fresh'[j]
      BY <1>1, <1>4, TreeSteps
    <2>3. ASSUME UNCHANGED <<backup, copied, removed>>,
                 pc'[j] \in {"add", "git"} => BackedUp(j),
                 removed[j] # {} => pc'[j] \in {"after", "done"}
          PROVE  CopiesJob(j)'
      BY <2>2, <2>3, CopiesFrame
    <2>4. ASSUME Begin(j) \/ Captured(j) \/ Status(j) \/ Checked(j) \/ BackupFails(j)
          PROVE  CopiesJob(j)'
      <3>1. /\ pc'[j] \in {"capture", "checked", "backup", "done"}
            /\ pc[j] \notin {"after", "done"}
            /\ UNCHANGED <<backup, copied, removed>>
        BY <2>4, Moves DEF Begin, Captured, Status, Checked, BackupFails
      <3>. QED
        BY <2>2, <2>3, <3>1 DEF CopiesJob
    <2>5. ASSUME BackupDone(j) \/ RefuseAdd(j) \/ StartGit(j) \/ GitFails(j) \/ Report(j)
          PROVE  CopiesJob(j)'
      <3>1. /\ pc'[j] \in {"add", "git"} => BackedUp(j)
            /\ pc'[j] \in {"add", "git", "done"} /\ (pc'[j] = "done" \/ pc[j] \notin {"after", "done"})
            /\ UNCHANGED <<backup, copied, removed>>
        BY <2>2, <2>5, Moves DEF BackupDone, RefuseAdd, StartGit, GitFails, Report, CopiesJob
      <3>. QED
        BY <2>2, <2>3, <3>1 DEF CopiesJob
    <2>6. ASSUME StartClone(j) \/ CloneFills(j) \/ CloneSucceeds(j) \/ CloneFails(j)
          PROVE  CopiesJob(j)'
      <3>1. /\ pc'[j] \in {"clone", "after", "done"} /\ pc[j] \in {"checked", "clone"}
            /\ UNCHANGED <<backup, copied, removed>>
        BY <2>6, Moves DEF StartClone, CloneFills, CloneSucceeds, CloneFails
      <3>. QED
        BY <2>2, <2>3, <3>1 DEF CopiesJob
    <2>7. ASSUME GitSucceeds(j) \/ GitTimesOut(j)
          PROVE  CopiesJob(j)'
      <3>1. /\ pc[j] = "git" /\ pc'[j] \in {"after", "done"}
            /\ UNCHANGED <<backup, copied>>
            /\ \E tree : Changes(j, tree)
        BY <2>7, Moves DEF GitSucceeds, GitTimesOut
      <3>2. BackedUp(j)
        BY <2>2, <3>1 DEF CopiesJob
      <3>3. removed'[j] \subseteq removed[j] \cup {n \in Names : place[n] # "none"}
        BY <3>1 DEF Changes, Histories
      <3>4. \A n \in removed'[j] : Kept(j, n)
        BY <2>2, <3>2, <3>3 DEF CopiesJob, BackedUp
      <3>5. \A n \in removed'[j] : Kept(j, n)'
        BY <2>2, <3>1, <3>4 DEF Kept
      <3>6. \A n \in copied'[j] : place'[n] # "none" => Kept(j, n)'
        BY <2>2, <3>1 DEF CopiesJob, Kept
      <3>. QED
        BY <3>1, <3>5, <3>6 DEF CopiesJob
    <2>8. ASSUME NEW n \in Names, CopyName(j, n)
          PROVE  CopiesJob(j)'
      <3>1. /\ copied'[j] = copied[j] \cup {n}
            /\ backup'[j][n] = place[n]
            /\ \A m \in copied[j] : backup'[j][m] = backup[j][m]
            /\ pc[j] = "backup" /\ UNCHANGED <<pc, place, fresh, removed>>
        BY <2>8, <2>2 DEF CopyName, GitTypeOK, Backups
      <3>. QED
        BY <2>2, <3>1 DEF CopiesJob, Kept
    <2>9. ASSUME NEW n \in Names, Add(j, n)
          PROVE  CopiesJob(j)'
      <3>1. /\ pc[j] = "add" /\ pc'[j] \in {"add", "done"}
            /\ UNCHANGED <<backup, copied, removed>>
        BY <2>9, Moves DEF Add
      <3>. QED
        BY <2>2, <2>3, <3>1 DEF CopiesJob
    <2>. QED
      BY <1>4, <2>1, <2>4, <2>5, <2>6, <2>7, <2>8, <2>9 DEF JobStep
  <1>. QED
    BY <1>2, <1>3, <1>4, StepCases DEF Copies

-----------------------------------------------------------------------------
(* Asked: what a job still has to do, and what it has changed, is what it  *)
(* was asked for.                                                          *)

LEMMA AskedStep ==
    ASSUME GitInv, [GitNext]_gitVars
    PROVE  Asked'
  <1> USE DEF GitInv, history, request
  <1>1. \A i \in Jobs : CopiesJob(i) /\ AskedJob(i)
    BY DEF Copies, Asked
  <1>2. CASE UNCHANGED gitVars
    BY <1>1, <1>2 DEF gitVars, Asked, AskedJob, BackedUp
  <1>3. ASSUME NEW n \in Names, Edit(n)
        PROVE  Asked'
    BY <1>1, <1>3 DEF Edit, Asked, AskedJob, BackedUp
  <1>4. ASSUME NEW j \in Jobs, JobStep(j) \/ \E n \in Names : CopyName(j, n) \/ Add(j, n)
        PROVE  \A i \in Jobs : AskedJob(i)'
    <2>1. \A i \in Jobs \ {j} : AskedJob(i)'
      BY <1>1, <1>4, OthersStay DEF AskedJob, BackedUp
    <2>2. CopiesJob(j) /\ AskedJob(j)
      BY <1>1
    <2>3. ASSUME Begin(j)
          PROVE  AskedJob(j)'
      <3>1. PICK o \in Ops, d \in BOOLEAN, valid \in BOOLEAN :
               /\ op'[j] = o /\ UNCHANGED changed
               /\ IF valid THEN dry'[j] = d /\ Goto(j, IF o = "clone" THEN "checked" ELSE "capture")
                           ELSE dry' = dry /\ Answer(j, "error")
        BY <2>3 DEF Begin, GitTypeOK
      <3>2. j \notin changed
        BY <2>2, <2>3 DEF Begin, AskedJob, Unchanging
      <3>3. UNCHANGED copied /\ answer[j] = "none"
        BY <2>3 DEF Begin, GitTypeOK
      <3>. QED
        BY <3>1, <3>2, <3>3, Moves DEF AskedJob
    <2>4. ASSUME Captured(j) \/ Status(j) \/ Checked(j) \/ BackupFails(j)
          PROVE  AskedJob(j)'
      <3>1. UNCHANGED <<op, dry, copied, changed>> /\ answer[j] = "none"
        BY <2>4 DEF Captured, Status, Checked, BackupFails, GitTypeOK
      <3>2. \/ /\ pc[j] = "capture" /\ op[j] # "status"
               /\ \/ pc'[j] = "done" /\ dry[j]
                  \/ pc'[j] = "checked" /\ ~ dry[j] /\ answer' = answer
            \/ pc[j] = "capture" /\ op[j] = "status" /\ pc'[j] = "done"
            \/ /\ pc[j] = "checked" /\ op[j] \in Mutating
               /\ \/ pc'[j] = "done" /\ answer'[j] = "error"
                  \/ pc'[j] = "backup" /\ answer' = answer
            \/ pc[j] = "backup" /\ pc'[j] = "done" /\ answer'[j] = "error"
        BY <2>4, Moves DEF Captured, Status, Checked, BackupFails
      <3>. QED
        BY <2>2, <3>1, <3>2 DEF AskedJob, Unchanging, Mutating
    <2>5. ASSUME BackupDone(j) \/ RefuseAdd(j) \/ StartGit(j) \/ GitFails(j) \/ Report(j)
          PROVE  AskedJob(j)'
      <3>1. UNCHANGED <<op, dry, copied, changed>> /\ answer[j] = "none"
        BY <2>5 DEF BackupDone, RefuseAdd, StartGit, GitFails, Report, GitTypeOK
      <3>2. \/ pc[j] = "backup" /\ pc'[j] = "add" /\ answer' = answer
            \/ pc[j] \in {"add", "git"} /\ pc'[j] = "done" /\ answer'[j] = "error"
            \/ pc[j] = "add" /\ pc'[j] = "git" /\ answer' = answer
            \/ pc[j] = "after" /\ pc'[j] = "done" /\ answer'[j] = "ok"
        BY <2>5, Moves DEF BackupDone, RefuseAdd, StartGit, GitFails, Report
      <3>. QED
        BY <2>2, <3>1, <3>2 DEF AskedJob, BackedUp, Unchanging
    <2>6. ASSUME GitSucceeds(j) \/ GitTimesOut(j)
          PROVE  AskedJob(j)'
      <3>1. /\ UNCHANGED <<op, dry, copied>> /\ changed' = changed \cup {j}
            /\ pc[j] = "git" /\ answer[j] = "none"
        BY <2>6 DEF GitSucceeds, GitTimesOut, Changes, GitTypeOK
      <3>2. \/ pc'[j] = "after" /\ answer' = answer
            \/ pc'[j] = "done" /\ answer'[j] = "error"
        BY <2>6, Moves DEF GitSucceeds, GitTimesOut
      <3>. QED
        BY <2>2, <3>1, <3>2 DEF AskedJob, CopiesJob, BackedUp, Unchanging, Mutating
    <2>7. ASSUME StartClone(j) \/ CloneFills(j) \/ CloneSucceeds(j) \/ CloneFails(j)
          PROVE  AskedJob(j)'
      <3>1. UNCHANGED <<op, dry, copied>> /\ answer[j] = "none"
        BY <2>7 DEF StartClone, CloneFills, CloneSucceeds, CloneFails, GitTypeOK
      <3>2. \/ /\ pc[j] = "checked" /\ op[j] = "clone" /\ changed' = changed
               /\ \/ pc'[j] = "done" /\ (answer'[j] = "error" \/ dry[j])
                  \/ pc'[j] = "clone" /\ ~ dry[j] /\ answer' = answer
            \/ /\ pc[j] = "clone"
               /\ \/ pc'[j] = "done" /\ answer'[j] = "error" /\ changed' = changed
                  \/ pc'[j] = "clone" /\ answer' = answer /\ changed' = changed \cup {j}
                  \/ j \in changed /\ pc'[j] = "after" /\ answer' = answer /\ changed' = changed
        BY <2>7, Moves DEF StartClone, CloneFills, CloneSucceeds, CloneFails
      <3>. QED
        BY <2>2, <3>1, <3>2 DEF AskedJob, Unchanging
    <2>8. ASSUME NEW n \in Names, CopyName(j, n)
          PROVE  AskedJob(j)'
      <3>1. UNCHANGED <<pc, op, dry, changed, answer>> /\ pc[j] = "backup"
        BY <2>8 DEF CopyName
      <3>. QED
        BY <2>2, <3>1 DEF AskedJob, Unchanging
    <2>9. ASSUME NEW n \in Names, Add(j, n)
          PROVE  AskedJob(j)'
      <3>1. /\ pc[j] = "add" /\ UNCHANGED <<op, dry, copied>> /\ answer[j] = "none"
            /\ \/ pc'[j] = "done" /\ answer'[j] = "error" /\ changed' = changed
               \/ pc' = pc /\ answer' = answer /\ changed' = changed \cup {j}
        BY <2>9, Moves DEF Add, GitTypeOK
      <3>. QED
        BY <2>2, <3>1 DEF AskedJob, CopiesJob, BackedUp, Unchanging, Mutating
    <2>. QED
      BY <1>4, <2>1, <2>3, <2>4, <2>5, <2>6, <2>7, <2>8, <2>9 DEF JobStep
  <1>. QED
    BY <1>2, <1>3, <1>4, StepCases DEF Asked

-----------------------------------------------------------------------------
(* Filling: git clone refuses a path that another clone has begun to fill. *)

LEMMA FillingStep ==
    ASSUME GitInv, [GitNext]_gitVars
    PROVE  Filling'
  <1> USE DEF GitInv, history, request
  <1>1. CASE UNCHANGED gitVars
    BY <1>1 DEF gitVars, Filling, Fills
  <1>2. ASSUME NEW n \in Names, Edit(n)
        PROVE  Filling'
    BY <1>2 DEF Edit, Filling, Fills
  <1>3. ASSUME NEW j \in Jobs, JobStep(j) \/ \E n \in Names : CopyName(j, n) \/ Add(j, n)
        PROVE  Filling'
    <2>1. \A i \in Jobs \ {j} : Fills(i)' <=> Fills(i)
      BY <1>3, OthersStay DEF Fills
    <2>2. AskedJob(j)
      BY DEF Asked
    <2>3. ASSUME repo' = repo, ~ Fills(j)'
          PROVE  Filling'
      BY <2>1, <2>3 DEF Filling
    <2>4. ASSUME repo' = repo, pc'[j] # "clone"
          PROVE  Filling'
      BY <2>3, <2>4 DEF Fills
    <2>5. CASE Begin(j) \/ Captured(j) \/ Status(j) \/ Checked(j) \/ BackupDone(j) \/ BackupFails(j)
      BY <2>4, <2>5, Moves DEF Begin, Captured, Status, Checked, BackupDone, BackupFails
    <2>6. CASE RefuseAdd(j) \/ StartGit(j) \/ GitSucceeds(j) \/ GitFails(j) \/ GitTimesOut(j)
               \/ Report(j)
      BY <2>4, <2>6, Moves DEF RefuseAdd, StartGit, GitSucceeds, GitFails, GitTimesOut, Report
    <2>7. CASE \E n \in Names : CopyName(j, n) \/ Add(j, n)
      BY <2>4, <2>7, Moves DEF CopyName, Add
    <2>8. CASE StartClone(j)
      <3>1. j \notin changed /\ changed' = changed /\ repo' = repo
        BY <2>2, <2>8 DEF StartClone, AskedJob, Unchanging
      <3>. QED
        BY <2>3, <3>1 DEF Fills
    <2>9. CASE CloneFills(j)
      <3>1. CASE repo = "absent"
        <4>1. repo' = "partial" /\ \A i \in Jobs : ~ Fills(i)
          BY <2>9, <3>1 DEF CloneFills, Filling
        <4>. QED
          BY <2>1, <4>1 DEF Filling
      <3>2. CASE repo # "absent"
        BY <2>4, <2>9, <3>2, Moves DEF CloneFills
      <3>. QED
        BY <3>1, <3>2
    <2>10. CASE CloneSucceeds(j) \/ CloneFails(j)
      <3>1. Fills(j) /\ ~ Fills(j)'
        BY <2>10, Moves DEF CloneSucceeds, CloneFails, Fills
      <3>2. \A i \in Jobs : ~ Fills(i)'
        BY <2>1, <3>1 DEF Filling
      <3>. QED
        BY <3>2 DEF Filling
    <2>. QED
      BY <1>3, <2>5, <2>6, <2>7, <2>8, <2>9, <2>10 DEF JobStep
  <1>. QED
    BY <1>1, <1>2, <1>3, StepCases

-----------------------------------------------------------------------------
(* The theorems                                                            *)

LEMMA GitInvInit == GitInit => GitInv
  <1> SUFFICES ASSUME GitInit
               PROVE  GitInv
    OBVIOUS
  <1>1. GitTypeOK /\ Histories
    BY DEF GitInit, GitTypeOK, Histories, Ops, Mutating, Places, Backups
  <1>2. Copies /\ Asked /\ Filling
    BY DEF GitInit, Copies, CopiesJob, Asked, AskedJob, Unchanging, Filling, Fills
  <1>. QED
    BY <1>1, <1>2 DEF GitInv

LEMMA GitInvStep == GitInv /\ [GitNext]_gitVars => GitInv'
  <1> SUFFICES ASSUME GitInv, [GitNext]_gitVars
               PROVE  GitInv'
    OBVIOUS
  <1>1. ASSUME UNCHANGED gitVars
        PROVE  GitTypeOK' /\ Histories'
    BY <1>1 DEF gitVars, GitInv, GitTypeOK, Histories
  <1>2. GitTypeOK' /\ Histories'
    BY <1>1, StepCases, JobTypes, EditTypes DEF GitInv
  <1>. QED
    BY <1>2, CopiesStep, AskedStep, FillingStep DEF GitInv

THEOREM GitInvariant == GitSpec => []GitInv
  BY GitInvInit, GitInvStep, PTL DEF GitSpec

\* Type correctness.
THEOREM GitTypeCorrect == GitSpec => []GitTypeOK
  <1>1. GitInv => GitTypeOK
    BY DEF GitInv
  <1>. QED
    BY <1>1, GitInvariant, PTL

\* What GitExec's git removes is in the backup of that job, or came after the copy.
THEOREM RemovalsKept == GitSpec => []RemovedIsKept
  <1>1. GitInv => RemovedIsKept
    BY DEF GitInv, Copies, CopiesJob, Kept, RemovedIsKept
  <1>. QED
    BY <1>1, GitInvariant, PTL

\* A job changes the repository only if it was asked to and has backed it up, and says that
\* it did only if it has.
THEOREM ChangesMeant == GitSpec => []ChangeIsMeant
  <1>1. GitInv => ChangeIsMeant
    BY DEF GitInv, Histories, Asked, AskedJob, BackedUp, ChangeIsMeant, ChangeIsBackedUp, DoneWasDone
  <1>. QED
    BY <1>1, GitInvariant, PTL

-----------------------------------------------------------------------------
(* The parts of the composition: a behaviour of one takes its steps only   *)

\* What GitSpec guarantees holds of every part: the others leave the repository alone.
THEOREM OperatingIsGit == OperatingSpec => GitSpec
  <1>1. OperatingInit => GitInit
    BY DEF OperatingInit
  <1>2. [OperatingNext]_all => [GitNext]_gitVars
    BY DEF OperatingNext, all
  <1>. QED
    BY <1>1, <1>2, PTL DEF OperatingSpec, GitSpec

DaemonsPart == part = "daemons" => Da!DaemonInv

LEMMA DaemonsPartStep == DaemonsPart /\ [OperatingNext]_all => DaemonsPart'
  <1> SUFFICES ASSUME DaemonsPart, [OperatingNext]_all, part' = "daemons"
               PROVE  Da!DaemonInv'
    BY DEF DaemonsPart
  <1>1. part = "daemons" /\ [Da!DaemonNext]_(Da!daemonVars)
    BY DEF OperatingNext, all, slots, Da!daemonVars, Da!cliVars, Da!srvVars, Da!jobVars, Da!history
  <1>. QED
    BY <1>1, OperatingAssumption, Da!DaemonInvStep DEF DaemonsPart

THEOREM DaemonsInvariant == OperatingSpec => []DaemonsPart
  <1>1. OperatingInit => DaemonsPart
    BY OperatingAssumption, Da!DaemonInvInit DEF OperatingInit, DaemonsPart
  <1>. QED
    BY <1>1, DaemonsPartStep, PTL DEF OperatingSpec

\* ensure_daemon_running: no two daemons listen, and the one that listens can be reached.
THEOREM DaemonsAlone == OperatingSpec => []OneDaemon
  <1>1. DaemonsPart => OneDaemon
    BY Da!InvOneDaemon DEF DaemonsPart, OneDaemon
  <1>. QED
    BY <1>1, DaemonsInvariant, PTL

\* status, jobs, wait: a client is told the truth of its job.
THEOREM ClientsToldTrue == OperatingSpec => []ToldTrue
  <1>1. DaemonsPart => ToldTrue
    BY Da!InvToldTrue DEF DaemonsPart, ToldTrue
  <1>. QED
    BY <1>1, DaemonsInvariant, PTL

RecordsPart ==
    /\ part = "sessions" => Re!SessInv
    /\ part = "monitor" => Re!MonInv
    /\ part = "queries" => Re!OqInv
    /\ part = "adapters" => Re!AdInv

LEMMA RecordsPartStep == RecordsPart /\ [OperatingNext]_all => RecordsPart'
  <1> SUFFICES ASSUME RecordsPart, [OperatingNext]_all
               PROVE  RecordsPart'
    OBVIOUS
  <1>1. part' = part
    BY DEF OperatingNext, all
  <1>2. ASSUME part = "sessions" PROVE Re!SessInv'
    <2>1. [Re!SessNext]_(Re!sessVars)
      BY <1>2 DEF OperatingNext, all, slots, Re!sessVars, Re!args, Re!loop
    <2>. QED
      BY <1>2, <2>1, OperatingAssumption, Re!SessInvStep DEF RecordsPart
  <1>3. ASSUME part = "monitor" PROVE Re!MonInv'
    <2>1. [Re!MonNext]_(Re!monVars)
      BY <1>3 DEF OperatingNext, all, slots, Re!monVars
    <2>. QED
      BY <1>3, <2>1, OperatingAssumption, Re!MonInvStep DEF RecordsPart
  <1>4. ASSUME part = "queries" PROVE Re!OqInv'
    <2>1. [Re!OqNext]_(Re!oqVars)
      BY <1>4 DEF OperatingNext, all, slots, Re!oqVars, Re!askVars
    <2>. QED
      BY <1>4, <2>1, OperatingAssumption, Re!OqInvStep DEF RecordsPart
  <1>5. ASSUME part = "adapters" PROVE Re!AdInv'
    <2>1. [Re!AdNext]_(Re!adVars)
      BY <1>5 DEF OperatingNext, all, slots, Re!adVars
    <2>. QED
      BY <1>5, <2>1, OperatingAssumption, Re!AdInvStep DEF RecordsPart
  <1>. QED
    BY <1>1, <1>2, <1>3, <1>4, <1>5 DEF RecordsPart

THEOREM RecordsInvariant == OperatingSpec => []RecordsPart
  <1>1. OperatingInit => RecordsPart
    BY OperatingAssumption, Re!SessInvInit, Re!MonInvInit, Re!OqInvInit, Re!AdInvInit
       DEF OperatingInit, RecordsPart
  <1>. QED
    BY <1>1, RecordsPartStep, PTL DEF OperatingSpec

\* session_run, add_job, update_session_status: a session that one run has used says what was
\* recorded in it and how that run ended, and no step is shown as good whose job did not complete.
THEOREM SessionsHonest == OperatingSpec => []SessionsTrue
  <1>1. RecordsPart => SessionsTrue
    BY OperatingAssumption, Re!InvSessions DEF RecordsPart, SessionsTrue
  <1>. QED
    BY <1>1, RecordsInvariant, PTL

\* monitor_loop, add_alert: the alerts are the latest of those that were due, all of them, in
\* order, none that was not due and none twice.
THEOREM AlertsHonest == OperatingSpec => []AlertsAreDue
  <1>1. RecordsPart => AlertsAreDue
    BY OperatingAssumption, Re!InvAlerts DEF RecordsPart, AlertsAreDue
  <1>. QED
    BY <1>1, RecordsInvariant, PTL

\* handle_observe_*: a client that is told of a run is told what its bundle shows.
THEOREM AnswersHonest == OperatingSpec => []ObserveAnswersHold
  <1>1. Re!OqInv => Re!AnswersHold
    BY DEF Re!OqInv, Re!AnswersHold
  <1>2. RecordsPart => ObserveAnswersHold
    BY <1>1 DEF RecordsPart, ObserveAnswersHold
  <1>. QED
    BY <1>2, RecordsInvariant, PTL

\* capture_artifact, reduce_artifacts, export_all: captured, counted and written agree.
THEOREM EvidenceHonest == OperatingSpec => []EvidenceAddsUp
  <1>1. RecordsPart => EvidenceAddsUp
    BY OperatingAssumption, Re!InvEvidence DEF RecordsPart, EvidenceAddsUp
  <1>. QED
    BY <1>1, RecordsInvariant, PTL

\* Type correctness of every part.
THEOREM OperatingTypeCorrect == OperatingSpec => []OperatingTypeOK
  <1>1. Da!DaemonInv => Da!DaemonTypeOK
    BY Da!TypesImply DEF Da!DaemonInv
  <1>2. GitTypeOK /\ DaemonsPart /\ RecordsPart => OperatingTypeOK
    BY <1>1, OperatingAssumption, Re!InvSessions, Re!InvAlerts, Re!InvOqTypeOK, Re!InvEvidence
       DEF DaemonsPart, RecordsPart, OperatingTypeOK
  <1>. QED
    BY <1>2, OperatingIsGit, GitTypeCorrect, DaemonsInvariant, RecordsInvariant, PTL
==============================================================================
