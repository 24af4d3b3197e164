----------------------- MODULE MC_ParticipantControl -----------------------
(***************************************************************************)
(* ParticipantControl on small instances.                                  *)
(***************************************************************************)
EXTENDS ParticipantControl

CONSTANTS w1, w2
OneWorker == {w1}
TwoWorkers == {w1, w2}
=============================================================================
