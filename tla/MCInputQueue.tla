---------------------------- MODULE MCInputQueue ----------------------------
(***************************************************************************)
(* Small instances of InputQueue for TLC.                                  *)
(***************************************************************************)
EXTENDS InputQueue

MainAndEngine == {"main", "engine"}
SelectAndStart == {"BACK", "START"}
=============================================================================
