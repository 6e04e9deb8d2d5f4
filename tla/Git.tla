-------------------------------- MODULE Git --------------------------------
(***************************************************************************)
(* The GitExec capability (core/src/capabilities/git_exec.rs): jobs that   *)
(* clone, pull, commit, revert, clean and report one repository, with the  *)
(* backup before a mutation, the polled git subprocess and its timeout.    *)
(*                                                                         *)
(* A file of the repository is absent, untracked, staged or tracked; what  *)
(* git itself does to it is external.  Other programs create files.        *)
(***************************************************************************)
EXTENDS Naturals, FiniteSets

CONSTANTS Jobs,      \* executions of GitExec on one path
          Names,     \* file names
          Secret,    \* those is_secret_file knows
          MaxClean,  \* MAX_CLEAN_FILES
          MaxEdits,  \* bound: files that other programs create
          None

ASSUME GitAssumption == Secret \subseteq Names /\ MaxClean \in Nat

VARIABLES
    pc, op, dry, args,  \* a job, its operation, dry_run, and its files argument
    repo,               \* the path: "absent", "partial" or "whole"
    place,              \* where each name is
    lock,               \* .git/index.lock: a job, "stale" or None
    backup, copied,     \* a job's backup, and the names already copied
    answer,
    removed, fresh,     \* history: names a job's git removed; names created since copied
    changed,            \* history: jobs whose git changed the repository
    edits

gitVars == <<pc, op, dry, args, repo, place, lock, backup, copied, answer, removed, fresh,
             changed, edits>>
request == <<op, dry, args>>
history == <<removed, fresh, changed, edits>>

Mutating == {"pull", "commit", "revert", "clean"}
Ops == Mutating \cup {"clone", "status"}
Places == {"none", "untracked", "staged", "tracked"}
Backups == [Names -> Places]

GitTypeOK ==
    /\ pc \in [Jobs -> {"new", "capture", "checked", "backup", "add", "git", "clone",
                        "after", "done"}]
    /\ op \in [Jobs -> Ops] /\ dry \in [Jobs -> BOOLEAN] /\ args \in [Jobs -> SUBSET Names]
    /\ repo \in {"absent", "partial", "whole"} /\ place \in [Names -> Places]
    /\ lock \in Jobs \cup {"stale", None}
    /\ backup \in [Jobs -> Backups] /\ copied \in [Jobs -> SUBSET Names]
    /\ answer \in [Jobs -> {"none", "ok", "error"}]
    /\ \A j \in Jobs : pc[j] = "done" <=> answer[j] # "none"
    /\ repo # "whole" => \A n \in Names : place[n] = "none"

GitInit ==
    /\ pc = [j \in Jobs |-> "new"] /\ op = [j \in Jobs |-> "status"]
    /\ dry = [j \in Jobs |-> FALSE] /\ args = [j \in Jobs |-> {}]
    /\ repo \in {"absent", "whole"}
    /\ place \in [Names -> Places] /\ (repo = "absent" => place = [n \in Names |-> "none"])
    /\ lock = None
    /\ backup = [j \in Jobs |-> [n \in Names |-> "none"]]
    /\ copied = [j \in Jobs |-> {}]
    /\ answer = [j \in Jobs |-> "none"]
    /\ removed = [j \in Jobs |-> {}] /\ fresh = [j \in Jobs |-> {}]
    /\ changed = {} /\ edits = 0

Goto(j, label) == pc' = [pc EXCEPT ![j] = label] /\ UNCHANGED answer
Answer(j, a) ==
    /\ pc' = [pc EXCEPT ![j] = "done"]
    /\ answer' = [answer EXCEPT ![j] = a]

-----------------------------------------------------------------------------
(* Arguments                                                               *)

\* A branch name is given by what validate_branch_name looks for in it.
BranchOk(b) ==
    b \cap {"empty", "..", "@{", "--", "refs/", "control", "meta", ".lock"} = {}

ShaOk(s) == s.length \in 7..40 /\ s.hex

UrlOk(u) == u.scheme \in {"https", "git@"} /\ u.host = "public"

Inputs(o) ==
    [url : IF o = "clone" THEN [scheme : {"https", "git@", "http"}, host : {"public", "internal"}]
           ELSE {[scheme |-> "https", host |-> "public"]},
     sha : IF o = "revert" THEN [length : {6, 7, 40, 41}, hex : BOOLEAN]
           ELSE {[length |-> 40, hex |-> TRUE]},
     message : IF o = "commit" THEN BOOLEAN ELSE {TRUE},
     branch : {{}, {"--"}}, path : BOOLEAN]

\* What is checked before any of git is run; every path but a clone's must exist.
Valid(o, in) ==
    /\ in.path /\ BranchOk(in.branch) /\ UrlOk(in.url) /\ ShaOk(in.sha) /\ in.message
    /\ o # "clone" => repo # "absent"

Begin(j) ==
    /\ pc[j] = "new"
    /\ \E o \in Ops : \E in \in Inputs(o), d \in BOOLEAN :
        /\ op' = [op EXCEPT ![j] = o]
        /\ IF Valid(o, in)
           THEN /\ dry' = [dry EXCEPT ![j] = d]
                /\ \E fs \in IF o = "commit" THEN SUBSET Names ELSE {{}} :
                      args' = [args EXCEPT ![j] = fs]
                /\ Goto(j, IF o = "clone" THEN "checked" ELSE "capture")
           ELSE Answer(j, "error") /\ UNCHANGED <<dry, args>>
    /\ UNCHANGED <<repo, place, lock, backup, copied, history>>

-----------------------------------------------------------------------------
(* Before the mutation                                                     *)

\* The subprocess inherits the job's own output, so what the caller reads back is empty.
GitOutput(lines) == {}

\* capture_state: the commands it runs may fail, which its fields swallow.
Captured(j) ==
    /\ pc[j] = "capture" /\ op[j] # "status"
    /\ IF dry[j] THEN Answer(j, "ok") ELSE Goto(j, "checked")
    /\ UNCHANGED <<request, repo, place, lock, backup, copied, history>>

\* status does not look at dry_run, and it captures the state only.
Status(j) ==
    /\ pc[j] = "capture" /\ op[j] = "status"
    /\ Answer(j, "ok")
    /\ UNCHANGED <<request, repo, place, lock, backup, copied, history>>

Untracked == {n \in Names : place[n] = "untracked"}

\* clean counts what it is about to remove.
CleanAllowed == Cardinality(GitOutput(Untracked)) <= MaxClean

Checked(j) ==
    /\ pc[j] = "checked" /\ op[j] \in Mutating
    /\ IF op[j] = "clean" /\ ~ CleanAllowed THEN Answer(j, "error") ELSE Goto(j, "backup")
    /\ UNCHANGED <<request, repo, place, lock, backup, copied, history>>

\* Mutant of CopyName: only what git tracks is copied.
CopyTracked(j, n) ==
    /\ pc[j] = "backup" /\ n \notin copied[j]
    /\ copied' = [copied EXCEPT ![j] = @ \cup {n}]
    /\ backup' = [backup EXCEPT ![j][n] = IF place[n] = "untracked" THEN "none" ELSE @]
    /\ UNCHANGED <<pc, request, repo, place, lock, answer, history>>

\* copy_recursive visits one name after the other while others change the tree.
CopyName(j, n) ==
    /\ pc[j] = "backup" /\ n \notin copied[j]
    /\ copied' = [copied EXCEPT ![j] = @ \cup {n}]
    /\ backup' = [backup EXCEPT ![j][n] = place[n]]
    /\ UNCHANGED <<pc, request, repo, place, lock, answer, history>>

BackedUp(j) == copied[j] = Names

\* A commit without files asks ls-files what to add.
AddsToDo(j) == IF args[j] # {} THEN args[j] ELSE GitOutput(Untracked) \ Secret

BackupDone(j) ==
    /\ pc[j] = "backup" /\ BackedUp(j)
    /\ args' = [args EXCEPT ![j] = IF op[j] = "commit" THEN AddsToDo(j) ELSE {}]
    /\ Goto(j, "add")
    /\ UNCHANGED <<op, dry, repo, place, lock, backup, copied, history>>

\* Mutant of BackupFails: the operation goes on without a backup.
BackupOptional(j) ==
    /\ pc[j] = "backup"
    /\ Goto(j, "add")
    /\ UNCHANGED <<request, repo, place, lock, backup, copied, history>>

\* Too large, no space, an unreadable file.
BackupFails(j) ==
    /\ pc[j] = "backup"
    /\ Answer(j, "error")
    /\ UNCHANGED <<request, repo, place, lock, backup, copied, history>>

-----------------------------------------------------------------------------
(* git                                                                     *)

\* validate_add_file refuses a secret; the names before it stay staged.
RefuseAdd(j) ==
    /\ pc[j] = "add" /\ args[j] \cap Secret # {}
    /\ Answer(j, "error")
    /\ UNCHANGED <<request, repo, place, lock, backup, copied, history>>

\* git add of a name that does not exist fails, and so does any git that finds the lock.
Add(j, n) ==
    /\ pc[j] = "add" /\ n \in args[j] \ Secret
    /\ IF place[n] = "none" \/ lock # None THEN Answer(j, "error") /\ UNCHANGED <<args, place, changed>>
       ELSE /\ args' = [args EXCEPT ![j] = @ \ {n}]
            /\ place' = [place EXCEPT ![n] = IF @ = "untracked" THEN "staged" ELSE @]
            /\ changed' = changed \cup {j}
            /\ UNCHANGED <<pc, answer>>
    /\ UNCHANGED <<op, dry, repo, lock, backup, copied, removed, fresh, edits>>

NeedsLock(j) == op[j] # "clean"

StartGit(j) ==
    /\ pc[j] = "add" /\ args[j] = {}
    /\ IF NeedsLock(j) /\ lock # None THEN Answer(j, "error") /\ UNCHANGED lock
       ELSE /\ lock' = IF NeedsLock(j) THEN j ELSE lock
            /\ Goto(j, "git")
    /\ UNCHANGED <<request, repo, place, backup, copied, history>>

\* What the command may do to the tree, external to the capability.
Effect(j) ==
    CASE op[j] = "commit" -> {[n \in Names |-> IF place[n] = "staged" THEN "tracked" ELSE place[n]]}
      [] op[j] = "revert" -> {[place EXCEPT ![n] = "none"] : n \in {m \in Names : place[m] = "tracked"}}
      [] op[j] = "clean"  -> {[n \in Names |-> IF place[n] = "untracked" THEN "none" ELSE place[n]]}
      [] op[j] = "pull"   -> {place} \cup {[place EXCEPT ![n] = "tracked"] : n \in {m \in Names : place[m] = "none"}}

\* A killed clean has removed some of the files.
PartOf(j) ==
    IF op[j] = "clean"
    THEN {[n \in Names |-> IF n \in s THEN "none" ELSE place[n]] : s \in SUBSET Untracked}
    ELSE {place}

Becomes(tree) ==
    /\ place' = tree
    /\ LET new == {n \in Names : place[n] = "none" /\ tree[n] # "none"}
       IN fresh' = [j \in Jobs |-> fresh[j] \cup (new \cap copied[j])]

Changes(j, tree) ==
    /\ Becomes(tree)
    /\ changed' = changed \cup {j}
    /\ removed' = [removed EXCEPT ![j] = @ \cup {n \in Names : place[n] # "none" /\ tree[n] = "none"}]

Unlocked(j) == IF lock = j THEN None ELSE lock

GitSucceeds(j) ==
    /\ pc[j] = "git" /\ repo = "whole"
    /\ op[j] = "commit" => \E n \in Names : place[n] = "staged"
    /\ \E tree \in Effect(j) : Changes(j, tree)
    /\ lock' = Unlocked(j)
    /\ Goto(j, "after")
    /\ UNCHANGED <<request, repo, backup, copied, edits>>

GitFails(j) ==
    /\ pc[j] = "git"
    /\ lock' = Unlocked(j)
    /\ Answer(j, "error")
    /\ UNCHANGED <<request, repo, place, backup, copied, history>>

\* The timeout kills git, which then cannot remove its lock file.
GitTimesOut(j) ==
    /\ pc[j] = "git"
    /\ \E tree \in PartOf(j) : Changes(j, tree)
    /\ lock' = IF lock = j THEN "stale" ELSE lock
    /\ Answer(j, "error")
    /\ UNCHANGED <<request, repo, backup, copied, edits>>

\* capture_state again, and the answer.
Report(j) ==
    /\ pc[j] = "after"
    /\ Answer(j, "ok")
    /\ UNCHANGED <<request, repo, place, lock, backup, copied, history>>

-----------------------------------------------------------------------------
(* clone                                                                   *)

\* The target exists, the disk is full, or this was a dry run.
StartClone(j) ==
    /\ pc[j] = "checked" /\ op[j] = "clone"
    /\ \/ repo # "absent" /\ Answer(j, "error") /\ UNCHANGED repo
       \/ repo = "absent" /\ Answer(j, IF dry[j] THEN "ok" ELSE "error") /\ UNCHANGED repo
       \/ repo = "absent" /\ ~ dry[j] /\ Goto(j, "clone") /\ UNCHANGED repo
    /\ UNCHANGED <<request, place, lock, backup, copied, history>>

\* git refuses a target that another clone has begun to fill.
CloneFills(j) ==
    /\ pc[j] = "clone"
    /\ IF repo = "absent" THEN repo' = "partial" /\ changed' = changed \cup {j} /\ UNCHANGED <<pc, answer>>
       ELSE j \notin changed /\ Answer(j, "error") /\ UNCHANGED <<repo, changed>>
    /\ UNCHANGED <<request, place, lock, backup, copied, removed, fresh, edits>>

CloneSucceeds(j) ==
    /\ pc[j] = "clone" /\ j \in changed
    /\ repo' = "whole"
    /\ \E tree \in [Names -> {"none", "tracked"}] : Becomes(tree)
    /\ Goto(j, "after")
    /\ UNCHANGED <<request, lock, backup, copied, removed, changed, edits>>

\* A git that fails removes what it has made; a git that is killed leaves it.
CloneFails(j) ==
    /\ pc[j] = "clone" /\ j \in changed
    /\ repo' \in {"absent", "partial"}
    /\ Answer(j, "error")
    /\ UNCHANGED <<request, place, lock, backup, copied, history>>

-----------------------------------------------------------------------------
\* Another program creates a file.
Edit(n) ==
    /\ edits < MaxEdits /\ repo = "whole" /\ place[n] = "none"
    /\ Becomes([place EXCEPT ![n] = "untracked"])
    /\ edits' = edits + 1
    /\ UNCHANGED <<pc, request, repo, lock, backup, copied, answer, removed, changed>>

GitNext ==
    \/ \E j \in Jobs :
        \/ Begin(j) \/ Captured(j) \/ Status(j) \/ Checked(j) \/ BackupDone(j) \/ BackupFails(j)
        \/ RefuseAdd(j) \/ StartGit(j) \/ GitSucceeds(j) \/ GitFails(j) \/ GitTimesOut(j)
        \/ Report(j) \/ StartClone(j) \/ CloneFills(j) \/ CloneSucceeds(j) \/ CloneFails(j)
        \/ \E n \in Names : CopyName(j, n) \/ Add(j, n)
    \/ \E n \in Names : Edit(n)

GitSpec == GitInit /\ [][GitNext]_gitVars

-----------------------------------------------------------------------------
(* Properties                                                              *)

\* What GitExec's git removes from the tree is in the backup of that job, unless the file
\* appeared after the backup had passed its name: the backup comes before the mutation and a
\* failed backup ends the job.
RemovedIsKept ==
    \A j \in Jobs : \A n \in removed[j] :
        backup[j][n] # "none" \/ n \in fresh[j]

\* A job that is a dry run, that was refused, or whose backup failed has not run a git that
\* changes the repository, whatever was executed beside it.
ChangeIsBackedUp ==
    \A j \in changed :
        /\ ~ dry[j] /\ op[j] # "status"
        /\ op[j] # "clone" => BackedUp(j)

\* An operation that is answered as done has been done: git ran to the end and succeeded.
\* An error says nothing: names before the failing one stay staged, a timed out clean has
\* removed some files.
DoneWasDone ==
    \A j \in Jobs : answer[j] = "ok" /\ ~ dry[j] /\ op[j] # "status" => j \in changed

\* GitExec does to the repository what it was asked and answers for, neither more nor less.
ChangeIsMeant == ChangeIsBackedUp /\ DoneWasDone

\* git_exec.rs: "Maximum number of untracked files allowed for `git clean -fd`."
CleanIsBounded == \A j \in Jobs : op[j] = "clean" => Cardinality(removed[j]) <= MaxClean
=============================================================================
