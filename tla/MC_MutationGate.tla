--------------------------- MODULE MC_MutationGate ---------------------------
(***************************************************************************)
(* MutationGate on small instances.                                        *)
(***************************************************************************)
EXTENDS MutationGate, TLC

CONSTANTS w1, w2, rm, sudo
OneAgent == {w1}
TwoAgents == {w1, w2}
OneCommand == {rm}
TwoCommands == {rm, sudo}
AnyCall == Permutations(TwoAgents) \cup Permutations(TwoCommands)
=============================================================================
