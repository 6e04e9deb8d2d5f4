------------------------------- MODULE MCGit -------------------------------
(* Git with small sets of model values.                                    *)
EXTENDS Git
=============================================================================
