---------------------------- MODULE MCBridgeOnce ----------------------------
(***************************************************************************)
(* Small instances of BridgeOnce for TLC.                                  *)
(***************************************************************************)
EXTENDS BridgeOnce, TLC

CONSTANTS t1, t2, t3, a, b

\* The routine of b calls pthread_once on a.
OneInside == a :> {} @@ b :> {a}
=============================================================================
