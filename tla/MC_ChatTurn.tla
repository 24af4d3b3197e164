----------------------------- MODULE MC_ChatTurn -----------------------------
(***************************************************************************)
(* ChatTurn on small instances.                                            *)
(***************************************************************************)
EXTENDS ChatTurn

CONSTANTS a, b, chat
TwoWindows == {a, b}
OneChat == {chat}
=============================================================================
