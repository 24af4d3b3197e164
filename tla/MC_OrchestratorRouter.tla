------------------------ MODULE MC_OrchestratorRouter ------------------------
(***************************************************************************)
(* OrchestratorRouter on small instances.                                  *)
(***************************************************************************)
EXTENDS OrchestratorRouter, TLC

CONSTANTS hub, w1, w2
OneWorker == {w1}
TwoWorkers == {w1, w2}
AnyWorker == Permutations(TwoWorkers)
=============================================================================
