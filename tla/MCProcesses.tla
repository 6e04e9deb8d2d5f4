---------------------------- MODULE MCProcesses ----------------------------
(* Processes with small sets of model values.                              *)
EXTENDS Processes
CONSTANTS p1, p2, p3, h1, k1
=============================================================================
