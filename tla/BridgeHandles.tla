---------------------------- MODULE BridgeHandles ----------------------------
(***************************************************************************)
(* The handle table of src/pthread_bridge.c.                               *)
(*                                                                         *)
(* A Bionic mutex, condition variable or rwlock (a slot) keeps in its      *)
(* first word the address of a glibc object on the heap.  Every b_* call   *)
(* first turns the slot into that address (mtx_real, cond_real, rw_real):  *)
(* a scan of g_tracked_objs without any lock, then, if the scan misses, a  *)
(* second look under g_lock that creates the object when there is none.    *)
(* b_X_init and b_X_destroy edit the table and the slot under g_lock, so   *)
(* the unlocked scans race with them.  Here every read of shared memory by *)
(* a scan is a step of its own, and so is every write under g_lock that a  *)
(* scan can see.                                                           *)
(*                                                                         *)
(* What the glibc object then does is left to module BridgeSync, which     *)
(* extends this one: here a call ends when it holds its object (Finish).   *)
(***************************************************************************)
EXTENDS Naturals, FiniteSets

CONSTANTS
    Threads,            \* threads of the game engine and of the port
    Slots,              \* Bionic synchronisation objects of the application
    Kind,               \* Kind[s]: "mutex", "cond" or "rwlock"
    Objs,               \* heap addresses calloc may return
    MAX_TRACKED_OBJS,   \* size of g_tracked_objs (8192 in the source)
    Null,               \* NULL, and the small integers of Bionic initialisers
    Garbage,            \* any other word that is not the address of an object
    Storage,            \* words that reused, uninitialised memory may hold
    MaxLeaks            \* bound: objects whose slot was reused undestroyed

ASSUME KindAssumption == Kind \in [Slots -> {"mutex", "cond", "rwlock"}]
ASSUME ObjsAssumption == IsFiniteSet(Objs) /\ Null \notin Objs /\ Garbage \notin Objs
ASSUME NullAssumption == Null \notin Threads /\ Null \notin Slots /\ Null # Garbage
ASSUME SizeAssumption == MAX_TRACKED_OBJS \in Nat
ASSUME StorageAssumption == Storage \subseteq Objs \cup {Null, Garbage}

VARIABLES
    g_lock,          \* holder of g_lock, or Null
    g_tracked_objs,  \* the array of tracked addresses
    g_num_tracked,   \* how many of its entries are in use
    slot,            \* first word of each Bionic object
    ready,           \* the application initialised the object (client side)
    live,            \* addresses calloc'd and not freed
    pc,              \* where each thread is
    fn,              \* the kind of call it is in
    arg,             \* the slot the call is working on
    other,           \* the other slot of b_cond_wait and b_cond_timedwait
    ptr,             \* address under test, to_free, or the resolved object
    cptr,            \* the resolved condition variable, in b_cond_wait
    fresh,           \* object made by the call and not yet in the slot
    idx,             \* loop index i
    lim              \* last g_num_tracked the scan loaded

tableVars == <<g_lock, g_tracked_objs, g_num_tracked, slot, ready, live>>
localVars == <<pc, fn, arg, other, ptr, cptr, fresh, idx, lim>>
handleVars == <<tableVars, localVars>>

-----------------------------------------------------------------------------

Words == Objs \cup {Null, Garbage}

Resolves == {"use", "wait"}
Replaces == {"init", "destroy"}

\* The program counters between pthread_mutex_lock(&g_lock) and its unlock.
Locked == {"check", "alloc", "track", "store", "publish",
           "untrack", "fill", "clear", "free", "unlock"}

Labels == Locked \cup {"idle", "read", "test", "probe", "prealloc", "lock",
                       "return", "call"}

HandleTypeOK ==
    /\ g_lock \in Threads \cup {Null}
    /\ g_tracked_objs \in [0 .. MAX_TRACKED_OBJS - 1 -> Objs \cup {Null}]
    /\ g_num_tracked \in 0 .. MAX_TRACKED_OBJS
    /\ slot \in [Slots -> Words]
    /\ ready \in [Slots -> BOOLEAN]
    /\ live \in SUBSET Objs
    /\ pc \in [Threads -> Labels]
    /\ fn \in [Threads -> Resolves \cup Replaces \cup {"none"}]
    /\ arg \in [Threads -> Slots \cup {Null}]
    /\ other \in [Threads -> Slots \cup {Null}]
    /\ ptr \in [Threads -> Words]
    /\ cptr \in [Threads -> Words]
    /\ fresh \in [Threads -> Objs \cup {Null}]
    /\ idx \in [Threads -> 0 .. MAX_TRACKED_OBJS]
    /\ lim \in [Threads -> 0 .. MAX_TRACKED_OBJS]

\* Static storage is zero; what the application took from the heap is not.
HandleInit ==
    /\ g_lock = Null
    /\ g_tracked_objs = [i \in 0 .. MAX_TRACKED_OBJS - 1 |-> Null]
    /\ g_num_tracked = 0
    /\ slot \in [Slots -> {Null, Garbage}]
    /\ ready = [s \in Slots |-> slot[s] = Null]
    /\ live = {}
    /\ pc = [t \in Threads |-> "idle"]
    /\ fn = [t \in Threads |-> "none"]
    /\ arg = [t \in Threads |-> Null]
    /\ other = [t \in Threads |-> Null]
    /\ ptr = [t \in Threads |-> Null]
    /\ cptr = [t \in Threads |-> Null]
    /\ fresh = [t \in Threads |-> Null]
    /\ idx = [t \in Threads |-> 0]
    /\ lim = [t \in Threads |-> 0]

\* is_tracked_obj, as the holder of g_lock evaluates it: nothing moves meanwhile.
Tracked(p) == \E i \in 0 .. g_num_tracked - 1 : g_tracked_objs[i] = p

InCall(t, s) == pc[t] # "idle" /\ (arg[t] = s \/ other[t] = s)
InUse(s) == \E t \in Threads : InCall(t, s)
Replacing(s) == \E t \in Threads : InCall(t, s) /\ fn[t] \in Replaces

Goto(t, label) == pc' = [pc EXCEPT ![t] = label]

-----------------------------------------------------------------------------
(***************************************************************************)
(* The application enters a bridge function.  It keeps the POSIX contract: *)
(* it uses only initialised objects, and initialises or destroys an object *)
(* only while no call on it is in progress.                                *)
(***************************************************************************)

Enter(t, f, s, o) ==
    /\ pc[t] = "idle"
    /\ fn' = [fn EXCEPT ![t] = f]
    /\ arg' = [arg EXCEPT ![t] = s]
    /\ other' = [other EXCEPT ![t] = o]
    /\ UNCHANGED <<tableVars, ptr, cptr, fresh, idx, lim>>

\* b_mutex_lock, b_cond_signal, b_rwlock_rdlock...: functions of one object.
EnterUse(t, s) ==
    /\ ready[s] /\ ~Replacing(s)
    /\ Enter(t, "use", s, Null)
    /\ Goto(t, "read")

\* b_cond_wait and b_cond_timedwait: the condition variable, then the mutex.
EnterWait(t, c, m) ==
    /\ Kind[c] = "cond" /\ Kind[m] = "mutex"
    /\ ready[c] /\ ~Replacing(c)
    /\ ready[m] /\ ~Replacing(m)
    /\ Enter(t, "wait", c, m)
    /\ Goto(t, "read")

\* b_rwlock_init calls calloc before it takes g_lock; the other two, under it.
EnterInit(t, s) ==
    /\ ~InUse(s)
    /\ Enter(t, "init", s, Null)
    /\ Goto(t, IF Kind[s] = "rwlock" THEN "prealloc" ELSE "lock")

EnterDestroy(t, s) ==
    /\ ready[s] /\ ~InUse(s)
    /\ Enter(t, "destroy", s, Null)
    /\ Goto(t, "lock")

\* The memory of an object is freed without b_X_destroy and used again for
\* another object of the same kind: its first word is what was there.
Leaked == {o \in live : /\ \A s \in Slots : slot[s] # o
                        /\ \A t \in Threads : fresh[t] # o /\ ptr[t] # o}

Recycle(s) ==
    /\ ~InUse(s)
    /\ slot[s] \in Objs => Cardinality(Leaked) < MaxLeaks
    /\ \E w \in Storage \cup {slot[s]} :
          /\ slot' = [slot EXCEPT ![s] = w]
          /\ ready' = [ready EXCEPT ![s] = (w = Null)]
    /\ UNCHANGED <<g_lock, g_tracked_objs, g_num_tracked, live, localVars>>

-----------------------------------------------------------------------------
(***************************************************************************)
(* The unlocked scan: is_tracked_obj in mtx_real.                            *)
(***************************************************************************)

ReadSlot(t) ==
    /\ pc[t] = "read"
    /\ ptr' = [ptr EXCEPT ![t] = slot[arg[t]]]
    /\ idx' = [idx EXCEPT ![t] = 0]
    /\ lim' = [lim EXCEPT ![t] = g_num_tracked]
    /\ Goto(t, IF slot[arg[t]] = Null THEN "lock" ELSE "test")
    /\ UNCHANGED <<tableVars, fn, arg, other, cptr, fresh>>

\* i < g_num_tracked.  g_num_tracked is neither volatile nor atomic: a build
\* may load it on every iteration or keep the value of an earlier load.
TestBound(t) ==
    /\ pc[t] = "test"
    /\ \E n \in {g_num_tracked, lim[t]} :
          /\ lim' = [lim EXCEPT ![t] = n]
          /\ Goto(t, IF idx[t] < n THEN "probe" ELSE "lock")
    /\ UNCHANGED <<tableVars, fn, arg, other, ptr, cptr, fresh, idx>>

\* g_tracked_objs[i] == ptr: the entry may be past the end by now.
Probe(t) ==
    /\ pc[t] = "probe"
    /\ IF g_tracked_objs[idx[t]] = ptr[t]
         THEN Goto(t, "return") /\ UNCHANGED idx
         ELSE Goto(t, "test") /\ idx' = [idx EXCEPT ![t] = @ + 1]
    /\ UNCHANGED <<tableVars, fn, arg, other, ptr, cptr, fresh, lim>>

-----------------------------------------------------------------------------
(***************************************************************************)
(* Under g_lock.                                                           *)
(***************************************************************************)

Lock(t) ==
    /\ pc[t] = "lock"
    /\ g_lock = Null
    /\ g_lock' = t
    /\ Goto(t, "check")
    /\ UNCHANGED <<g_tracked_objs, g_num_tracked, slot, ready, live,
                   fn, arg, other, ptr, cptr, fresh, idx, lim>>

\* Mutant: the second look is left out and the first locker always creates.
CheckResolveOnce(t) ==
    /\ pc[t] = "check" /\ fn[t] \in Resolves
    /\ Goto(t, "alloc")
    /\ UNCHANGED <<tableVars, fn, arg, other, ptr, cptr, fresh, idx, lim>>

\* mtx_real looks again, now that nobody else can create the object.
CheckResolve(t) ==
    /\ pc[t] = "check" /\ fn[t] \in Resolves
    /\ Goto(t, IF Tracked(slot[arg[t]]) THEN "unlock" ELSE "alloc")
    /\ UNCHANGED <<tableVars, fn, arg, other, ptr, cptr, fresh, idx, lim>>

\* An object the slot already names is destroyed and will be freed (to_free).
CheckReplace(t) ==
    /\ pc[t] = "check" /\ fn[t] \in Replaces
    /\ IF Tracked(slot[arg[t]])
         THEN /\ ptr' = [ptr EXCEPT ![t] = slot[arg[t]]]
              /\ Goto(t, "untrack")
         ELSE /\ Goto(t, CASE fn[t] = "destroy" -> "clear"
                           [] fn[t] = "init" /\ fresh[t] = Null -> "alloc"
                           [] OTHER -> "track")
              /\ UNCHANGED ptr
    /\ UNCHANGED <<tableVars, fn, arg, other, cptr, fresh, idx, lim>>

\* calloc and pthread_X_init; the address may be one that was freed before.
NewObject(t, from, to) ==
    /\ pc[t] = from
    /\ \E o \in Objs \ live :
          /\ fresh' = [fresh EXCEPT ![t] = o]
          /\ live' = live \cup {o}
    /\ Goto(t, to)
    /\ UNCHANGED <<g_lock, g_tracked_objs, g_num_tracked, slot, ready,
                   fn, arg, other, ptr, cptr, idx, lim>>

Alloc(t) == NewObject(t, "alloc", "track")
PreAlloc(t) == NewObject(t, "prealloc", "lock")

\* track_obj: g_num_tracked++ and the store it indexes are two writes; when the
\* table is full the object is not recorded, and nobody is told.
Track(t) ==
    /\ pc[t] = "track"
    /\ IF g_num_tracked < MAX_TRACKED_OBJS
         THEN g_num_tracked' = g_num_tracked + 1 /\ Goto(t, "store")
         ELSE UNCHANGED g_num_tracked /\ Goto(t, "publish")
    /\ UNCHANGED <<g_lock, g_tracked_objs, slot, ready, live,
                   fn, arg, other, ptr, cptr, fresh, idx, lim>>

Store(t) ==
    /\ pc[t] = "store"
    /\ g_tracked_objs' = [g_tracked_objs EXCEPT ![g_num_tracked - 1] = fresh[t]]
    /\ Goto(t, "publish")
    /\ UNCHANGED <<g_lock, g_num_tracked, slot, ready, live,
                   fn, arg, other, ptr, cptr, fresh, idx, lim>>

\* *slot = new object
Publish(t) ==
    /\ pc[t] = "publish"
    /\ slot' = [slot EXCEPT ![arg[t]] = fresh[t]]
    /\ ready' = [ready EXCEPT ![arg[t]] = TRUE]
    /\ fresh' = [fresh EXCEPT ![t] = Null]
    /\ Goto(t, "unlock")
    /\ UNCHANGED <<g_lock, g_tracked_objs, g_num_tracked, live,
                   fn, arg, other, ptr, cptr, idx, lim>>

\* untrack_obj: --g_num_tracked, then the last entry over the removed one.  The
\* entry it leaves past the end keeps its value.
Untrack(t) ==
    /\ pc[t] = "untrack"
    /\ \E i \in 0 .. g_num_tracked - 1 :
          /\ g_tracked_objs[i] = ptr[t]
          /\ \A j \in 0 .. i - 1 : g_tracked_objs[j] # ptr[t]
          /\ idx' = [idx EXCEPT ![t] = i]
    /\ g_num_tracked' = g_num_tracked - 1
    /\ Goto(t, "fill")
    /\ UNCHANGED <<g_lock, g_tracked_objs, slot, ready, live,
                   fn, arg, other, ptr, cptr, fresh, lim>>

\* Mutant: the last entry is not moved over the removed one.
FillNothing(t) ==
    /\ pc[t] = "fill"
    /\ Goto(t, IF fn[t] = "init" THEN "free" ELSE "clear")
    /\ UNCHANGED <<tableVars, fn, arg, other, ptr, cptr, fresh, idx, lim>>

\* Mutant: the count is decremented a second time.
FillTwice(t) ==
    /\ pc[t] = "fill"
    /\ g_num_tracked' = g_num_tracked - 1
    /\ Goto(t, IF fn[t] = "init" THEN "free" ELSE "clear")
    /\ UNCHANGED <<g_lock, g_tracked_objs, slot, ready, live,
                   fn, arg, other, ptr, cptr, fresh, idx, lim>>

Fill(t) ==
    /\ pc[t] = "fill"
    /\ g_tracked_objs' =
          [g_tracked_objs EXCEPT ![idx[t]] = g_tracked_objs[g_num_tracked]]
    /\ Goto(t, IF fn[t] = "init" THEN "free" ELSE "clear")
    /\ UNCHANGED <<g_lock, g_num_tracked, slot, ready, live,
                   fn, arg, other, ptr, cptr, fresh, idx, lim>>

\* Mutant: the slot of a destroyed object keeps the address that is freed.
ClearNothing(t) ==
    /\ pc[t] = "clear"
    /\ ready' = [ready EXCEPT ![arg[t]] = TRUE]
    /\ Goto(t, IF ptr[t] = Null THEN "unlock" ELSE "free")
    /\ UNCHANGED <<g_lock, g_tracked_objs, g_num_tracked, slot, live,
                   fn, arg, other, ptr, cptr, fresh, idx, lim>>

\* Mutant: destroying what was never used returns without releasing g_lock.
ClearReturns(t) ==
    /\ pc[t] = "clear"
    /\ slot' = [slot EXCEPT ![arg[t]] = Null]
    /\ ready' = [ready EXCEPT ![arg[t]] = TRUE]
    /\ Goto(t, IF ptr[t] = Null THEN "call" ELSE "free")
    /\ UNCHANGED <<g_lock, g_tracked_objs, g_num_tracked, live,
                   fn, arg, other, ptr, cptr, fresh, idx, lim>>

\* *slot = NULL
Clear(t) ==
    /\ pc[t] = "clear"
    /\ slot' = [slot EXCEPT ![arg[t]] = Null]
    /\ ready' = [ready EXCEPT ![arg[t]] = TRUE]
    /\ Goto(t, IF ptr[t] = Null THEN "unlock" ELSE "free")
    /\ UNCHANGED <<g_lock, g_tracked_objs, g_num_tracked, live,
                   fn, arg, other, ptr, cptr, fresh, idx, lim>>

Free(t) ==
    /\ pc[t] = "free"
    /\ live' = live \ {ptr[t]}
    /\ ptr' = [ptr EXCEPT ![t] = Null]
    /\ Goto(t, CASE fn[t] = "destroy" -> "unlock"
                 [] fn[t] = "init" /\ fresh[t] = Null -> "alloc"
                 [] OTHER -> "track")
    /\ UNCHANGED <<g_lock, g_tracked_objs, g_num_tracked, slot, ready,
                   fn, arg, other, cptr, fresh, idx, lim>>

Unlock(t) ==
    /\ pc[t] = "unlock"
    /\ g_lock' = Null
    /\ Goto(t, IF fn[t] \in Resolves THEN "return" ELSE "call")
    /\ UNCHANGED <<g_tracked_objs, g_num_tracked, slot, ready, live,
                   fn, arg, other, ptr, cptr, fresh, idx, lim>>

-----------------------------------------------------------------------------
(***************************************************************************)
(* return *slot: the slot is read again, outside g_lock.  b_cond_wait then *)
(* resolves its mutex the same way.                                        *)
(***************************************************************************)

ReturnCond(t) ==
    /\ pc[t] = "return" /\ fn[t] = "wait" /\ cptr[t] = Null
    /\ cptr' = [cptr EXCEPT ![t] = slot[arg[t]]]
    /\ arg' = [arg EXCEPT ![t] = other[t]]
    /\ other' = [other EXCEPT ![t] = arg[t]]
    /\ Goto(t, "read")
    /\ UNCHANGED <<tableVars, fn, ptr, fresh, idx, lim>>

ReturnReal(t) ==
    /\ pc[t] = "return" /\ ~(fn[t] = "wait" /\ cptr[t] = Null)
    /\ ptr' = [ptr EXCEPT ![t] = slot[arg[t]]]
    /\ Goto(t, "call")
    /\ UNCHANGED <<tableVars, fn, arg, other, cptr, fresh, idx, lim>>

\* The real call is made and the bridge function returns.
Finish(t) ==
    /\ pc[t] = "call"
    /\ Goto(t, "idle")
    /\ fn' = [fn EXCEPT ![t] = "none"]
    /\ arg' = [arg EXCEPT ![t] = Null]
    /\ other' = [other EXCEPT ![t] = Null]
    /\ ptr' = [ptr EXCEPT ![t] = Null]
    /\ cptr' = [cptr EXCEPT ![t] = Null]
    /\ idx' = [idx EXCEPT ![t] = 0]
    /\ lim' = [lim EXCEPT ![t] = 0]
    /\ UNCHANGED <<tableVars, fresh>>

-----------------------------------------------------------------------------

\* The steps of a thread from the entry of a bridge function to its real call.
Advance(t) ==
    \/ ReadSlot(t) \/ TestBound(t) \/ Probe(t)
    \/ CheckResolve(t) \/ CheckReplace(t)
    \/ Alloc(t) \/ PreAlloc(t) \/ Track(t) \/ Store(t) \/ Publish(t)
    \/ Untrack(t) \/ Fill(t) \/ Clear(t) \/ Free(t)
    \/ Unlock(t) \/ ReturnCond(t) \/ ReturnReal(t)

HandleNext ==
    \/ \E t \in Threads :
          \/ \E s \in Slots : \/ EnterUse(t, s)
                              \/ EnterInit(t, s)
                              \/ EnterDestroy(t, s)
                              \/ \E m \in Slots : EnterWait(t, s, m)
          \/ Lock(t)
          \/ Advance(t)
          \/ Finish(t)
    \/ \E s \in Slots : Recycle(s)

HandleSpec == HandleInit /\ [][HandleNext]_handleVars

(***************************************************************************)
(* A running thread is scheduled (weak fairness).  g_lock is a glibc mutex *)
(* held for a bounded number of steps: a thread that waits for it while it *)
(* is released again and again gets it in the end (strong fairness).       *)
(* Nothing is assumed of the application's calls.                          *)
(***************************************************************************)
HandleFairness ==
    \A t \in Threads : /\ WF_handleVars(Advance(t))
                       /\ WF_handleVars(Finish(t))
                       /\ SF_handleVars(Lock(t))

HandleFairSpec == HandleSpec /\ HandleFairness

-----------------------------------------------------------------------------
(***************************************************************************)
(* Properties.                                                             *)
(***************************************************************************)

\* A thread about to make the real call of a lock, unlock, signal or wait.
Resolved(t) == pc[t] = "call" /\ fn[t] \in Resolves

\* The objects a resolved call passes to glibc: <<slot, address>>.
Holds(t) ==
    IF ~Resolved(t) THEN {}
    ELSE {<<arg[t], ptr[t]>>} \cup
         (IF fn[t] = "wait" THEN {<<other[t], cptr[t]>>} ELSE {})

\* glibc is only ever given the address of an object that is allocated, although
\* the scan runs without a lock and free() runs in other threads
\* (mtx_real, pthread_bridge.c:86-96, against b_mutex_destroy, 129-144).
NoUseAfterFree == \A t \in Threads : \A h \in Holds(t) : h[2] \in live

\* Two threads use the same glibc object exactly when they use the same Bionic
\* object: racing first lockers agree on one object, and distinct Bionic objects
\* never share one (the second look under g_lock, pthread_bridge.c:92).
OneObjectPerSlot ==
    \A t, u \in Threads : \A h \in Holds(t), k \in Holds(u) :
        h[1] = k[1] <=> h[2] = k[2]

\* Between critical sections the table lists, once each, exactly the allocated
\* objects that b_rwlock_init is not still preparing ("rastreamento estrito",
\* pthread_bridge.c:47): nothing leaks out of it and no freed address stays.
TableExact ==
    g_lock = Null =>
        /\ \A i, j \in 0 .. g_num_tracked - 1 :
              g_tracked_objs[i] = g_tracked_objs[j] => i = j
        /\ {g_tracked_objs[i] : i \in 0 .. g_num_tracked - 1}
              = live \ {fresh[t] : t \in Threads}

\* The object of a Bionic object that some thread has resolved is not replaced
\* or freed under it (b_mutex_init and a second creation both write *slot).
ObjectStable ==
    [][\A t \in Threads :
          Resolved(t) /\ pc'[t] = "call" => slot'[arg[t]] = ptr[t]]_handleVars

\* Every bridge call gets as far as its real call: the scan, the race for g_lock
\* and the critical section always end.
CallReturns == \A t \in Threads : pc[t] # "idle" ~> pc[t] = "idle"
=============================================================================
