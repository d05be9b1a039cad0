------------------------------ MODULE PosixSync ------------------------------
(***************************************************************************)
(* What the application is promised by the pthread functions it imports:   *)
(* recursive mutexes, rwlocks and condition variables, seen only through   *)
(* the calls that have returned.  No slot, table or heap address appears   *)
(* here.  Module BridgeSync is shown to implement this one.                *)
(***************************************************************************)
EXTENDS Naturals

CONSTANTS Threads, Slots, Kind, MaxDepth, Null

VARIABLES
    hold,     \* hold[t][s]: times t holds mutex s, or 1 for a write lock
    shared,   \* shared[t]: the rwlocks t holds for reading
    waiting   \* Null, or what t waits for in pthread_cond_wait

syncVars == <<hold, shared, waiting>>

Waits == [cv : Slots, mutex : Slots, woken : BOOLEAN]

TypeOK ==
    /\ hold \in [Threads -> [Slots -> 0 .. MaxDepth]]
    /\ shared \in [Threads -> SUBSET Slots]
    /\ waiting \in [Threads -> Waits \cup {Null}]

Init ==
    /\ hold = [t \in Threads |-> [s \in Slots |-> 0]]
    /\ shared = [t \in Threads |-> {}]
    /\ waiting = [t \in Threads |-> Null]

Add(t, s, n) == hold' = [hold EXCEPT ![t][s] = @ + n]
Remove(t, s, n) == hold' = [hold EXCEPT ![t][s] = @ - n]

NobodyElseHolds(t, s) == \A u \in Threads \ {t} : hold[u][s] = 0

MutexLock(t, m) ==
    /\ Kind[m] = "mutex"
    /\ NobodyElseHolds(t, m)
    /\ Add(t, m, 1)
    /\ UNCHANGED <<shared, waiting>>

MutexUnlock(t, m) ==
    /\ Kind[m] = "mutex" /\ hold[t][m] > 0
    /\ Remove(t, m, 1)
    /\ UNCHANGED <<shared, waiting>>

WriteLock(t, r) ==
    /\ Kind[r] = "rwlock"
    /\ \A u \in Threads : hold[u][r] = 0 /\ r \notin shared[u]
    /\ Add(t, r, 1)
    /\ UNCHANGED <<shared, waiting>>

ReadLock(t, r) ==
    /\ Kind[r] = "rwlock"
    /\ \A u \in Threads : hold[u][r] = 0
    /\ shared' = [shared EXCEPT ![t] = @ \cup {r}]
    /\ UNCHANGED <<hold, waiting>>

RwUnlock(t, r) ==
    /\ Kind[r] = "rwlock"
    /\ \/ hold[t][r] > 0 /\ Remove(t, r, 1) /\ UNCHANGED shared
       \/ /\ r \in shared[t]
          /\ shared' = [shared EXCEPT ![t] = @ \ {r}]
          /\ UNCHANGED hold
    /\ UNCHANGED waiting

\* The mutex is released and the thread sleeps, in one step: no signal sent by
\* whoever takes the mutex next can be missed.
CondWait(t, c, m) ==
    /\ Kind[c] = "cond" /\ Kind[m] = "mutex"
    /\ waiting[t] = Null /\ hold[t][m] > 0
    /\ Remove(t, m, 1)
    /\ waiting' = [waiting EXCEPT ![t] = [cv |-> c, mutex |-> m, woken |-> FALSE]]
    /\ UNCHANGED shared

Asleep(t, c) == waiting[t] # Null /\ waiting[t].cv = c /\ ~waiting[t].woken

\* A signal wakes one sleeper of c, a broadcast all; a deadline wakes its own.
Wake(S) ==
    /\ S # {}
    /\ \E c \in Slots : /\ \A t \in S : Asleep(t, c)
                        /\ S = {t \in Threads : Asleep(t, c)} \/ \E t \in S : S = {t}
    /\ waiting' = [t \in Threads |->
                     IF t \in S THEN [waiting[t] EXCEPT !.woken = TRUE] ELSE waiting[t]]
    /\ UNCHANGED <<hold, shared>>

Reacquire(t) ==
    /\ waiting[t] # Null /\ waiting[t].woken
    /\ NobodyElseHolds(t, waiting[t].mutex)
    /\ Add(t, waiting[t].mutex, 1)
    /\ waiting' = [waiting EXCEPT ![t] = Null]
    /\ UNCHANGED shared

Next ==
    \/ \E t \in Threads :
          \/ \E s \in Slots : \/ MutexLock(t, s) \/ MutexUnlock(t, s)
                              \/ WriteLock(t, s) \/ ReadLock(t, s) \/ RwUnlock(t, s)
                              \/ \E m \in Slots : CondWait(t, s, m)
          \/ Reacquire(t)
    \/ \E S \in SUBSET Threads : Wake(S)

Spec == Init /\ [][Next]_syncVars

-----------------------------------------------------------------------------

\* A mutex has one holder; a write lock excludes every other lock.
Exclusion ==
    \A s \in Slots : \A t, u \in Threads :
        t # u /\ hold[t][s] > 0 => hold[u][s] = 0 /\ s \notin shared[u]
=============================================================================
