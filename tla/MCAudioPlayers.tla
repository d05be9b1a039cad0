--------------------------- MODULE MCAudioPlayers ---------------------------
(***************************************************************************)
(* A small instance of AudioPlayers for TLC.                               *)
(***************************************************************************)
EXTENDS AudioPlayers

EngineAndWorker == {"engine", "worker"}
OneSample == {2}
=============================================================================
