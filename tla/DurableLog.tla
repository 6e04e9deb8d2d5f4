----------------------------- MODULE DurableLog -----------------------------
(***************************************************************************)
(* What the write-ahead log promises to those who append to it and to      *)
(* those who read all of it: a sequence of events in the order they were   *)
(* acknowledged, each once, none of which disappears, comes back or moves, *)
(* except the events in mayLose (retention has given them up, or they were *)
(* appended in one of the exposures module Wal defines).                   *)
(***************************************************************************)
EXTENDS Naturals, Sequences

CONSTANT Events

VARIABLES
    log,      \* what a reader of the whole log sees
    acked,    \* events whose append returned Ok
    mayLose   \* events the log no longer answers for

Elements(s) == {s[i] : i \in DOMAIN s}

\* after is before without some elements, which are in lost, and in the same order.
Thinned(before, after, lost) ==
    /\ Elements(after) \subseteq Elements(before)
    /\ Elements(before) \ Elements(after) \subseteq lost
    /\ \A k, l \in DOMAIN after : k < l =>
           \E i, j \in DOMAIN before : i < j /\ before[i] = after[k] /\ before[j] = after[l]

LogInit ==
    /\ log = <<>>
    /\ acked = {}
    /\ mayLose \subseteq Events

\* An event reaches the end of the log, once, and is acknowledged or not.
Write(e) ==
    /\ e \notin Elements(log) \cup acked
    /\ log' = Append(log, e)
    /\ acked' \in {acked, acked \cup {e}}
    /\ mayLose \subseteq mayLose'

\* An event is acknowledged but the log does not answer for it.
WriteExposed(e) ==
    /\ e \in mayLose'
    /\ acked' = acked \cup {e}
    /\ UNCHANGED log
    /\ mayLose \subseteq mayLose'

\* Events that may be lost leave; the others stay in their order.
Retire ==
    /\ mayLose \subseteq mayLose'
    /\ \E before \in {log}, after \in {log'} : Thinned(before, after, mayLose')
    /\ UNCHANGED acked

LogNext == Retire \/ \E e \in Events : Write(e) \/ WriteExposed(e)

LogSpec == LogInit /\ [][LogNext]_<<log, acked, mayLose>>
=============================================================================
