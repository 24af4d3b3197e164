---------------------------- MODULE MC_ChainRouter ----------------------------
(***************************************************************************)
(* ChainRouter on small instances.                                         *)
(***************************************************************************)
EXTENDS ChainRouter, TLC

CONSTANTS p1, p2, p3
TwoParticipants == {p1, p2}
ThreeParticipants == {p1, p2, p3}
=============================================================================
