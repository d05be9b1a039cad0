----------------------------- MODULE BridgeSync -----------------------------
(***************************************************************************)
(* src/pthread_bridge.c as the application sees it: the bridge functions   *)
(* for mutexes, condition variables and rwlocks, each of which resolves    *)
(* its Bionic objects (module BridgeHandles) and then makes the glibc call *)
(* on what it resolved.                                                    *)
(*                                                                         *)
(* glibc is external: its objects are modelled by what POSIX says of the   *)
(* calls the bridge makes (recursive mutexes, wait and release in one      *)
(* step, a signal wakes one sleeper).  The application is external too; it *)
(* unlocks only what it locked and destroys nothing that is held.          *)
(***************************************************************************)
EXTENDS BridgeHandles

CONSTANTS
    MaxDepth,   \* bound: how often one thread locks one mutex
    Clock       \* Clock[s]: clock of the deadlines the application gives for s

ASSUME DepthAssumption == MaxDepth \in Nat \ {0}
ASSUME WaitAssumption == Null \notin [cv : Slots, mutex : Slots, woken : BOOLEAN]
ASSUME ClockAssumption == Clock \in [Slots -> {"realtime", "monotonic"}]

VARIABLES
    op,       \* the bridge function each thread is in
    asleep,   \* "no", "asleep" in pthread_cond_wait, or "woken"
    owner,    \* glibc: owner of a mutex, writer of an rwlock, by address
    depth,    \* glibc: lock count of a mutex
    readers,  \* glibc: readers of an rwlock
    hold,     \* what each thread holds, by the calls that have returned
    shared    \* the rwlocks each thread holds for reading

glibcVars == <<owner, depth, readers>>
clientVars == <<hold, shared>>
syncVars == <<op, asleep, glibcVars, clientVars>>
vars == <<handleVars, syncVars>>

-----------------------------------------------------------------------------

MutexOps == {"lock", "unlock", "trylock"}
RwOps == {"rdlock", "wrlock", "rwunlock"}
CondOps == {"signal", "broadcast"}
WaitOps == {"wait", "timedwait"}

TypeOK ==
    /\ HandleTypeOK
    /\ op \in [Threads -> MutexOps \cup RwOps \cup CondOps \cup WaitOps \cup {"none"}]
    /\ asleep \in [Threads -> {"no", "asleep", "woken"}]
    /\ owner \in [Objs -> Threads \cup {Null}]
    /\ depth \in [Objs -> 0 .. MaxDepth]
    /\ readers \in [Objs -> SUBSET Threads]
    /\ hold \in [Threads -> [Slots -> 0 .. MaxDepth]]
    /\ shared \in [Threads -> SUBSET Slots]

Init ==
    /\ HandleInit
    /\ op = [t \in Threads |-> "none"]
    /\ asleep = [t \in Threads |-> "no"]
    /\ owner = [o \in Objs |-> Null]
    /\ depth = [o \in Objs |-> 0]
    /\ readers = [o \in Objs |-> {}]
    /\ hold = [t \in Threads |-> [s \in Slots |-> 0]]
    /\ shared = [t \in Threads |-> {}]

Held(s) == \E t \in Threads : hold[t][s] > 0 \/ s \in shared[t]

-----------------------------------------------------------------------------
(***************************************************************************)
(* Entry of the bridge functions.                                          *)
(***************************************************************************)

Ask(t, f) ==
    /\ op' = [op EXCEPT ![t] = f]
    /\ UNCHANGED <<asleep, glibcVars, clientVars>>

\* Which functions the application may call on s now.
Allowed(t, s) ==
    CASE Kind[s] = "mutex" ->
           (IF hold[t][s] < MaxDepth THEN {"lock", "trylock"} ELSE {})
             \cup (IF hold[t][s] > 0 THEN {"unlock"} ELSE {})
      [] Kind[s] = "rwlock" ->
           IF hold[t][s] > 0 \/ s \in shared[t] THEN {"rwunlock"}
                                                ELSE {"rdlock", "wrlock"}
      [] Kind[s] = "cond" -> CondOps

CallUse(t, s) == EnterUse(t, s) /\ \E f \in Allowed(t, s) : Ask(t, f)

CallWait(t, c, m) ==
    /\ EnterWait(t, c, m)
    /\ hold[t][m] > 0
    /\ \E f \in WaitOps : Ask(t, f)

CallInit(t, s) == EnterInit(t, s) /\ ~Held(s) /\ UNCHANGED syncVars
CallDestroy(t, s) == EnterDestroy(t, s) /\ ~Held(s) /\ UNCHANGED syncVars
Reuse(s) == Recycle(s) /\ ~Held(s) /\ UNCHANGED syncVars

-----------------------------------------------------------------------------
(***************************************************************************)
(* Inside the bridge.  pthread_X_init leaves a new object unlocked.        *)
(***************************************************************************)

Create(t) ==
    /\ Alloc(t) \/ PreAlloc(t)
    /\ owner' = [owner EXCEPT ![fresh'[t]] = Null]
    /\ depth' = [depth EXCEPT ![fresh'[t]] = 0]
    /\ readers' = [readers EXCEPT ![fresh'[t]] = {}]
    /\ UNCHANGED <<op, asleep, clientVars>>

Resolve(t) ==
    /\ pc[t] \notin {"alloc", "prealloc"}
    /\ Lock(t) \/ Advance(t)
    /\ UNCHANGED syncVars

-----------------------------------------------------------------------------
(***************************************************************************)
(* The glibc calls, on the address the thread resolved.                    *)
(***************************************************************************)

At(t, f) == pc[t] = "call" /\ op[t] = f

Return(t) ==
    /\ Finish(t)
    /\ op' = [op EXCEPT ![t] = "none"]
    /\ asleep' = [asleep EXCEPT ![t] = "no"]

Gain(t, s) == hold' = [hold EXCEPT ![t][s] = @ + 1]
Lose(t, s) == hold' = [hold EXCEPT ![t][s] = @ - 1]

\* A recursive mutex o can be taken by t.
Available(t, o) == owner[o] \in {Null, t}
Take(t, o) ==
    /\ owner' = [owner EXCEPT ![o] = t]
    /\ depth' = [depth EXCEPT ![o] = @ + 1]

\* pthread_mutex_unlock of a mutex the caller does not own does nothing (EPERM).
Drop(t, o) ==
    IF owner[o] = t
      THEN /\ depth' = [depth EXCEPT ![o] = @ - 1]
           /\ owner' = [owner EXCEPT ![o] = IF depth[o] = 1 THEN Null ELSE t]
      ELSE UNCHANGED <<owner, depth>>

MutexLock(t) ==
    /\ At(t, "lock") \/ At(t, "trylock")
    /\ Available(t, ptr[t])
    /\ Take(t, ptr[t])
    /\ Gain(t, arg[t])
    /\ Return(t)
    /\ UNCHANGED <<readers, shared>>

TryLockBusy(t) ==
    /\ At(t, "trylock")
    /\ ~Available(t, ptr[t])
    /\ Return(t)
    /\ UNCHANGED <<glibcVars, clientVars>>

\* Mutant: the bridge returns without calling pthread_mutex_unlock.
MutexUnlockNothing(t) ==
    /\ At(t, "unlock")
    /\ Lose(t, arg[t])
    /\ Return(t)
    /\ UNCHANGED <<glibcVars, shared>>

MutexUnlock(t) ==
    /\ At(t, "unlock")
    /\ Drop(t, ptr[t])
    /\ Lose(t, arg[t])
    /\ Return(t)
    /\ UNCHANGED <<readers, shared>>

WriteLock(t) ==
    /\ At(t, "wrlock")
    /\ owner[ptr[t]] = Null /\ readers[ptr[t]] = {}
    /\ owner' = [owner EXCEPT ![ptr[t]] = t]
    /\ Gain(t, arg[t])
    /\ Return(t)
    /\ UNCHANGED <<depth, readers, shared>>

\* Mutant: b_rwlock_rdlock does not wait for the writer.
ReadLockAnyway(t) ==
    /\ At(t, "rdlock")
    /\ readers' = [readers EXCEPT ![ptr[t]] = @ \cup {t}]
    /\ shared' = [shared EXCEPT ![t] = @ \cup {arg[t]}]
    /\ Return(t)
    /\ UNCHANGED <<owner, depth, hold>>

ReadLock(t) ==
    /\ At(t, "rdlock")
    /\ owner[ptr[t]] = Null
    /\ readers' = [readers EXCEPT ![ptr[t]] = @ \cup {t}]
    /\ shared' = [shared EXCEPT ![t] = @ \cup {arg[t]}]
    /\ Return(t)
    /\ UNCHANGED <<owner, depth, hold>>

RwUnlock(t) ==
    /\ At(t, "rwunlock")
    /\ IF owner[ptr[t]] = t
         THEN owner' = [owner EXCEPT ![ptr[t]] = Null] /\ UNCHANGED readers
         ELSE readers' = [readers EXCEPT ![ptr[t]] = @ \ {t}] /\ UNCHANGED owner
    /\ IF hold[t][arg[t]] > 0
         THEN Lose(t, arg[t]) /\ UNCHANGED shared
         ELSE shared' = [shared EXCEPT ![t] = @ \ {arg[t]}] /\ UNCHANGED hold
    /\ Return(t)
    /\ UNCHANGED depth

\* Mutant: a wait on a mutex locked twice releases both levels.
CondSleepFully(t) ==
    /\ At(t, "wait") \/ At(t, "timedwait")
    /\ asleep[t] = "no"
    /\ owner' = [owner EXCEPT ![ptr[t]] = Null]
    /\ depth' = [depth EXCEPT ![ptr[t]] = 0]
    /\ Lose(t, arg[t])
    /\ asleep' = [asleep EXCEPT ![t] = "asleep"]
    /\ UNCHANGED <<handleVars, op, readers, shared>>

\* pthread_cond_wait releases one level of the mutex as it goes to sleep.
CondSleep(t) ==
    /\ At(t, "wait") \/ At(t, "timedwait")
    /\ asleep[t] = "no"
    /\ Drop(t, ptr[t])
    /\ Lose(t, arg[t])
    /\ asleep' = [asleep EXCEPT ![t] = "asleep"]
    /\ UNCHANGED <<handleVars, op, readers, shared>>

Sleepers(o) == {t \in Threads : asleep[t] = "asleep" /\ cptr[t] = o}

\* The sleepers in S wake up; t, who woke them, returns.
WakeUp(t, S) ==
    /\ Finish(t)
    /\ op' = [op EXCEPT ![t] = "none"]
    /\ asleep' = [u \in Threads |-> IF u \in S THEN "woken" ELSE asleep[u]]
    /\ UNCHANGED <<glibcVars, clientVars>>

CondSignal(t) ==
    /\ At(t, "signal")
    /\ IF Sleepers(ptr[t]) = {}
         THEN WakeUp(t, {})
         ELSE \E u \in Sleepers(ptr[t]) : WakeUp(t, {u})

CondBroadcast(t) == At(t, "broadcast") /\ WakeUp(t, Sleepers(ptr[t]))

\* Every condition variable is created on CLOCK_MONOTONIC whatever its attributes
\* say (new_monotonic_cond): a deadline on the real-time clock, decades ahead of
\* the monotonic one, does not come.
Deadline(t) ==
    /\ At(t, "timedwait") /\ asleep[t] = "asleep"
    /\ Clock[other[t]] = "monotonic"
    /\ asleep' = [asleep EXCEPT ![t] = "woken"]
    /\ UNCHANGED <<handleVars, op, glibcVars, clientVars>>

CondReturn(t) ==
    /\ pc[t] = "call" /\ asleep[t] = "woken"
    /\ Available(t, ptr[t])
    /\ Take(t, ptr[t])
    /\ Gain(t, arg[t])
    /\ Return(t)
    /\ UNCHANGED <<readers, shared>>

\* b_X_init and b_X_destroy make no further call.
ReplaceReturn(t) ==
    /\ pc[t] = "call" /\ fn[t] \in Replaces
    /\ Finish(t)
    /\ UNCHANGED syncVars

-----------------------------------------------------------------------------

Client(t) ==
    \E s \in Slots : \/ CallUse(t, s) \/ CallInit(t, s) \/ CallDestroy(t, s)
                     \/ \E m \in Slots : CallWait(t, s, m)

Glibc(t) ==
    \/ MutexLock(t) \/ TryLockBusy(t) \/ MutexUnlock(t)
    \/ WriteLock(t) \/ ReadLock(t) \/ RwUnlock(t)
    \/ CondSleep(t) \/ CondSignal(t) \/ CondBroadcast(t) \/ Deadline(t)
    \/ CondReturn(t) \/ ReplaceReturn(t)

Next ==
    \/ \E t \in Threads : Client(t) \/ Create(t) \/ Resolve(t) \/ Glibc(t)
    \/ \E s \in Slots : Reuse(s)

Spec == Init /\ [][Next]_vars

-----------------------------------------------------------------------------
(***************************************************************************)
(* Properties.                                                             *)
(***************************************************************************)

\* A mutex is held by one thread at a time, and a write lock excludes all other
\* locks, whatever threads lock first, destroy and create elsewhere meanwhile
\* ("para evitar corrupcao de memoria ou deadlocks", pthread_bridge.c:6).
Exclusion ==
    \A s \in Slots : \A t, u \in Threads :
        t # u /\ hold[t][s] > 0 => hold[u][s] = 0 /\ s \notin shared[u]

\* lock and unlock of one Bionic mutex reach the same glibc object: what the
\* application holds is what glibc thinks it holds, level for level, so no unlock
\* is refused and no lock is left behind.
HoldsMatch ==
    \A t \in Threads, s \in Slots :
        /\ hold[t][s] > 0 => slot[s] \in Objs /\ owner[slot[s]] = t
        /\ hold[t][s] > 0 /\ Kind[s] = "mutex" => depth[slot[s]] = hold[t][s]
        /\ s \in shared[t] => slot[s] \in Objs /\ t \in readers[slot[s]]

\* A signal or broadcast on a condition variable somebody sleeps on wakes a
\* sleeper: waiter and signaller resolved the same object (cond_real).
NoLostWakeup ==
    [][\A t, u \in Threads :
          (\/ CondSignal(t) \/ CondBroadcast(t))
            /\ asleep[u] = "asleep" /\ other[u] = arg[t]
          => \E v \in Threads : asleep[v] = "asleep" /\ asleep'[v] = "woken"
                                /\ other[v] = arg[t]]_vars

\* trylock reports EBUSY only when another thread really holds the mutex.
BusyIsTrue ==
    [][\A t \in Threads :
          TryLockBusy(t) => \E u \in Threads \ {t} : hold[u][arg[t]] > 0]_vars

\* Refinement: a thread waits in the abstract specification from the release of
\* its mutex until pthread_cond_wait returns.
Waiting ==
    [t \in Threads |->
        IF asleep[t] = "no" THEN Null
        ELSE [cv |-> other[t], mutex |-> arg[t], woken |-> asleep[t] = "woken"]]

Posix == INSTANCE PosixSync WITH waiting <- Waiting

\* The bridge implements what pthread promises the application: every step is a
\* step of PosixSync or leaves what the application sees unchanged.
ImplementsPosix == Posix!Spec
=============================================================================
