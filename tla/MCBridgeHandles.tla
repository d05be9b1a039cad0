--------------------------- MODULE MCBridgeHandles ---------------------------
(***************************************************************************)
(* Small instances of BridgeHandles for TLC.                               *)
(***************************************************************************)
EXTENDS BridgeHandles, TLC

CONSTANTS t1, t2, m1, m2, rw, cv, o1, o2, o3, o4

\* A mutex and an rwlock: calloc under g_lock, and before it.
MutexAndRwlock == m1 :> "mutex" @@ rw :> "rwlock"

\* A condition variable and its mutex: calls of two objects.
MutexAndCond == m1 :> "mutex" @@ cv :> "cond"

TwoMutexes == m1 :> "mutex" @@ m2 :> "mutex"

\* Reused memory never holds an address the bridge wrote, or does not occur, or
\* may still hold one.
CleanStorage == {Null, Garbage}
NoReuse == {}
StaleStorage == {Null, Garbage} \cup Objs

\* Threads are interchangeable, and so are heap addresses.
Symmetry == Permutations(Threads) \cup Permutations(Objs)
=============================================================================
