------------------------------- MODULE MCWal --------------------------------
(* Instances of Wal for TLC: see the .cfg files.                           *)
EXTENDS Wal
=============================================================================
