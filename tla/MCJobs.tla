------------------------------- MODULE MCJobs -------------------------------
(* Instances of JobLifecycle for TLC: see the .cfg files.                  *)
EXTENDS JobLifecycle
=============================================================================
