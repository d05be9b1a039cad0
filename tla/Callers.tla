------------------------------- MODULE Callers -------------------------------
(***************************************************************************)
(* What the shims of this directory share: the threads of the game that    *)
(* call them, and a value for "nothing" (NULL).                            *)
(***************************************************************************)
EXTENDS Integers

CONSTANTS Threads, None

ASSUME NoneAssumption == None \notin Int
=============================================================================
