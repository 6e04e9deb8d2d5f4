-------------------------------- MODULE Reads --------------------------------
(***************************************************************************)
(* FileRead (core/src/capabilities/file_read.rs) and the validation of the *)
(* path it is given (core/src/validation/path.rs), look by look, while     *)
(* other programs change the file and the directory it is in.  The path is *)
(* own/F; another directory, out, which no prefix allows, has a file of    *)
(* that name too.                                                          *)
(***************************************************************************)
EXTENDS Common, Integers, Sequences

CONSTANTS Inodes,      \* files that come and go in the directory
          Outside,     \* the file out/F
          MaxLen,      \* bound: length of a file
          MaxBytes,    \* max_bytes values a request has
          MaxFileSize, \* MAX_FILE_SIZE
          ReadChanges  \* bound: changes other programs make

VARIABLES
    rd_dir,                       \* own: a directory, or a link to out
    rd_entry,                     \* what own/F is: a file, a directory, a link to out/F, or absent
    rd_content,                   \* the bytes of every file
    rd_changes,                   \* how many changes were made
    rd_pc, rd_max,                \* the request: where it is, its max_bytes
    rd_known,                     \* whether the second look found the path
    rd_resolved,                  \* the path the validation returned
    rd_inode, rd_data, rd_end,    \* the open file, what was read, whether its end was seen
    rd_answer,
    rd_swapped                    \* history: own was turned into a link after it was resolved

rdVars == <<rd_dir, rd_entry, rd_content, rd_changes, rd_pc, rd_max, rd_known, rd_resolved,
            rd_inode, rd_data, rd_end, rd_answer, rd_swapped>>

Files == Inodes \cup {Outside}
Bytes == {"text", "other"}          \* a byte of a character, a byte of none

RdTypeOK ==
    /\ rd_dir \in {"directory", "link"}
    /\ rd_entry \in Inodes \cup {"absent", "directory", "link"}
    /\ rd_content \in [Files -> Seq(Bytes)]
    /\ rd_pc \in {"idle", "exists", "canonicalize", "is_file", "open", "read", "done", "refused"}
    /\ rd_resolved \in {None, "own", "out"}
    /\ rd_inode \in Files \cup {None}

RdInit ==
    /\ rd_dir = "directory" /\ rd_entry \in Inodes \cup {"absent", "directory", "link"}
    /\ rd_content \in [Files -> {<<"text">>, <<"text", "other">>}]
    /\ rd_changes = 0
    /\ rd_pc = "idle" /\ rd_max = 0 /\ rd_known = FALSE /\ rd_resolved = None
    /\ rd_inode = None /\ rd_data = <<>> /\ rd_end = FALSE
    /\ rd_answer = None /\ rd_swapped = FALSE

treeVars == <<rd_dir, rd_entry, rd_content, rd_changes, rd_swapped>>
openVars == <<rd_inode, rd_data, rd_end, rd_answer>>

Go(pc) == rd_pc' = pc

\* What own/F leads to when links are followed.
Target == IF rd_dir = "link" \/ rd_entry = "link" THEN Outside ELSE rd_entry

-----------------------------------------------------------------------------
(* validate_path                                                           *)

\* The first look, after the checks of the text, which refuse it and change nothing.
Exists(max) ==
    /\ rd_pc = "idle"
    /\ rd_max' = max /\ Go(IF Target = "absent" THEN "refused" ELSE "exists")
    /\ UNCHANGED <<rd_known, rd_resolved, treeVars, openVars>>

\* The second look decides how the path is resolved: by itself or by its parent.
ExistsAgain ==
    /\ rd_pc = "exists"
    /\ rd_known' = (Target # "absent") /\ Go("canonicalize")
    /\ UNCHANGED <<rd_max, rd_resolved, treeVars, openVars>>

\* canonicalize follows every link there is by now.
Canonicalize ==
    /\ rd_pc = "canonicalize"
    /\ IF rd_known /\ Target = "absent"
       THEN Go("refused") /\ UNCHANGED rd_resolved
       ELSE /\ Go("is_file")
            /\ rd_resolved' = IF rd_dir = "link" \/ (rd_known /\ rd_entry = "link") THEN "out" ELSE "own"
    /\ UNCHANGED <<rd_max, rd_known, treeVars, openVars>>

\* path_in_prefix on the resolved path.
Allowed(resolved) == resolved = "own"

\* resolved.exists() && !is_file(), then the prefixes, on the text alone.
Validated ==
    /\ rd_pc = "is_file"
    /\ Go(IF (rd_resolved = "own" /\ Target = "directory") \/ ~Allowed(rd_resolved)
          THEN "refused" ELSE "open")
    /\ UNCHANGED <<rd_max, rd_known, rd_resolved, treeVars, openVars>>

-----------------------------------------------------------------------------
(* FileRead                                                                *)

\* open_file_nofollow: the last component must not be a link, those before may.
Opened ==
    IF rd_dir = "link" THEN Outside
    ELSE IF rd_entry \in Inodes THEN rd_entry ELSE None

Open ==
    /\ rd_pc = "open"
    /\ IF rd_max = 0 \/ rd_max > MaxFileSize \/ Opened = None
       THEN Go("refused") /\ UNCHANGED rd_inode
       ELSE Go("read") /\ rd_inode' = Opened
    /\ UNCHANGED <<rd_max, rd_known, rd_resolved, treeVars, rd_data, rd_end, rd_answer>>

\* Mutant of ProbeLimit: no byte beyond the limit is asked for.
NoProbe == rd_max

\* One byte beyond the limit tells whether there is more.
ProbeLimit == rd_max + 1

\* One read of read_to_end.
Read ==
    /\ rd_pc = "read" /\ Len(rd_data) < ProbeLimit /\ ~rd_end
    /\ IF Len(rd_data) < Len(rd_content[rd_inode])
       THEN /\ rd_data' = Append(rd_data, rd_content[rd_inode][Len(rd_data) + 1])
            /\ UNCHANGED rd_end
       ELSE rd_end' = TRUE /\ UNCHANGED rd_data
    /\ UNCHANGED <<rd_pc, rd_max, rd_known, rd_resolved, treeVars, rd_inode, rd_answer>>

\* bytes_to_utf8_string: what precedes the first byte that is of no character.
Text(bytes) ==
    LET valid == {n \in 0..Len(bytes) : \A k \in 1..n : bytes[k] = "text"}
    IN  SubSeq(bytes, 1, CHOOSE n \in valid : \A m \in valid : m <= n)

Smaller(a, b) == IF a < b THEN a ELSE b

\* The answer: the bytes up to the limit, and whether one was discarded.
Answer ==
    /\ rd_pc = "read" /\ (Len(rd_data) = ProbeLimit \/ rd_end)
    /\ LET bytes == SubSeq(rd_data, 1, Smaller(Len(rd_data), rd_max))
       IN  rd_answer' = [bytes_read |-> Len(bytes), truncated |-> Len(rd_data) > rd_max,
                         content |-> Text(bytes)]
    /\ Go("done")
    /\ UNCHANGED <<rd_max, rd_known, rd_resolved, treeVars, rd_inode, rd_data, rd_end>>

-----------------------------------------------------------------------------
(* Other programs                                                          *)

Change ==
    /\ rd_pc \notin {"done", "refused"}
    /\ rd_changes < ReadChanges /\ rd_changes' = rd_changes + 1
    /\ UNCHANGED <<rd_pc, rd_max, rd_known, rd_resolved, openVars>>

\* A file is renamed to own/F (FileWrite, Undo), or own/F is deleted, made a link, a directory.
ChangeEntry ==
    /\ Change /\ rd_entry' \in (Inodes \cup {"absent", "directory", "link"}) \ {rd_entry}
    /\ UNCHANGED <<rd_dir, rd_content, rd_swapped>>

\* A file grows, or is emptied to be written anew.
ChangeContent ==
    /\ Change
    /\ \E f \in Files :
         \/ /\ Len(rd_content[f]) < MaxLen
            /\ \E b \in Bytes : rd_content' = [rd_content EXCEPT ![f] = Append(@, b)]
         \/ rd_content[f] # <<>> /\ rd_content' = [rd_content EXCEPT ![f] = <<>>]
    /\ UNCHANGED <<rd_dir, rd_entry, rd_swapped>>

\* The directory is replaced by a link, or the link by the directory.
SwapDirectory ==
    /\ Change
    /\ rd_dir' = IF rd_dir = "link" THEN "directory" ELSE "link"
    /\ rd_swapped' = (rd_swapped \/ rd_pc \in {"is_file", "open"})
    /\ UNCHANGED <<rd_entry, rd_content>>

RdNext ==
    \/ \E max \in MaxBytes : Exists(max)
    \/ ExistsAgain \/ Canonicalize \/ Validated \/ Open \/ Read \/ Answer
    \/ ChangeEntry \/ ChangeContent \/ SwapDirectory

RdSpec == RdInit /\ [][RdNext]_rdVars

-----------------------------------------------------------------------------
(* Properties                                                              *)

\* What is read lies under the allowed prefixes, whatever links appear after
\* the path was validated, unless the directory itself was swapped by then:
\* the one exposure path.rs names.
ReadsInside == rd_inode = Outside => rd_swapped

\* "truncated" is a witness (file_read.rs): with it a byte beyond the limit was
\* read, without it the end of the file was reached, however the file changed.
TruncatedIsWitness ==
    rd_answer # None =>
        /\ rd_answer.truncated => Len(rd_data) > rd_max
        /\ ~rd_answer.truncated => rd_end /\ rd_answer.bytes_read = Len(rd_data)
        /\ rd_answer.bytes_read <= rd_max

\* A read that succeeds is of the file the path was validated for, and says
\* whether it is all of it.
ReadIsTrue == ReadsInside /\ TruncatedIsWitness
=============================================================================
