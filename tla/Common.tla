------------------------------- MODULE Common --------------------------------
(***************************************************************************)
(* What the models of an execution's looks at the machine share.           *)
(***************************************************************************)

CONSTANT None   \* what is absent: a value, a setting, an open file, a snapshot
=============================================================================
