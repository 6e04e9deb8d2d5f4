----------------------------- MODULE MCSessions -----------------------------
(* Sessions with small sets of model values.                               *)
EXTENDS Sessions
CONSTANTS r1, r2
PromptLengths == [r \in Runs |-> 1]
=============================================================================
