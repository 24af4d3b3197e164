--------------------------- MODULE MC_AttemptLoop ---------------------------
(***************************************************************************)
(* AttemptLoop on small instances.                                         *)
(***************************************************************************)
EXTENDS AttemptLoop

CONSTANTS m1
OneMessage == {m1}
=============================================================================
