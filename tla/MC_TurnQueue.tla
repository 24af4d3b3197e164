---------------------------- MODULE MC_TurnQueue ----------------------------
(***************************************************************************)
(* TurnQueue on small instances: the orchestrator and one or two workers.  *)
(***************************************************************************)
EXTENDS TurnQueue

CONSTANTS orch, w1, w2
AllAgents == {orch, w1, w2}
OneWorker == {orch, w1}
=============================================================================
