------------------------ MODULE MC_SessionLifecycle ------------------------
(***************************************************************************)
(* SessionLifecycle on small instances.                                    *)
(***************************************************************************)
EXTENDS SessionLifecycle, TLC

CONSTANTS a, b
TwoWindows == {a, b}
AnyWindow == Permutations(TwoWindows)
=============================================================================
