----------------------------- MODULE MCBridgeSync -----------------------------
(***************************************************************************)
(* Small instances of BridgeSync for TLC.                                  *)
(***************************************************************************)
EXTENDS BridgeSync, TLC

CONSTANTS t1, t2, m1, m2, rw, cv, o1, o2, o3, o4

TwoMutexes == m1 :> "mutex" @@ m2 :> "mutex"
MutexAndCond == m1 :> "mutex" @@ cv :> "cond"
MutexAndRwlock == m1 :> "mutex" @@ rw :> "rwlock"

\* Deadlines the condition variables of the bridge can reach.
AllMonotonic == [s \in Slots |-> "monotonic"]

\* Memory is never reused for another object without a destroy.
NoReuse == {}

\* Threads are interchangeable, and so are heap addresses.
Symmetry == Permutations(Threads) \cup Permutations(Objs)
=============================================================================
