--------------------------- MODULE BridgeSyncProofs ---------------------------
(***************************************************************************)
(* Proofs about BridgeSync, for any number of threads, Bionic objects and  *)
(* heap addresses: what the application holds is what glibc thinks it      *)
(* holds, and the bridge implements PosixSync.                             *)
(*                                                                         *)
(* A step of BridgeSync is a step of BridgeHandles or leaves the handles   *)
(* alone (HandleStep), so the invariant of BridgeHandlesProofs holds here  *)
(* too: what it says of slots, table and addresses is not proved again.    *)
(***************************************************************************)
EXTENDS BridgeSync, BridgeHandlesProofs

-----------------------------------------------------------------------------
(***************************************************************************)
(* The inductive invariant.                                                *)
(***************************************************************************)

\* The slot names its object and nobody is about to overwrite it.
InPlace(s) == slot[s] \in Objs /\ ~Dangling(s)

\* The condition variable and the mutex of a wait: b_cond_wait resolves the first,
\* then the second.
WaitsOn(t) == IF cptr[t] = Null THEN arg[t] ELSE other[t]
WaitsWith(t) == IF cptr[t] = Null THEN other[t] ELSE arg[t]

\* The bridge function fits the kind of object it was called on.
OpOK(t) ==
    /\ pc[t] = "idle" \/ fn[t] \in Replaces => op[t] = "none"
    /\ pc[t] # "idle" /\ fn[t] = "use" =>
          \/ Kind[arg[t]] = "mutex" /\ op[t] \in MutexOps
          \/ Kind[arg[t]] = "rwlock" /\ op[t] \in RwOps
          \/ Kind[arg[t]] = "cond" /\ op[t] \in CondOps
    /\ pc[t] # "idle" /\ fn[t] = "wait" =>
          /\ op[t] \in WaitOps
          /\ Kind[WaitsOn(t)] = "cond"
          /\ Kind[WaitsWith(t)] = "mutex"
    /\ asleep[t] # "no" => pc[t] = "call" /\ fn[t] = "wait"

OpInv == \A t \in Threads : OpOK(t)

\* What the caller held when it called, it holds until the call takes effect.
RightsOK(t) ==
    /\ op[t] \in {"lock", "trylock"} => hold[t][arg[t]] < MaxDepth
    /\ op[t] = "unlock" => hold[t][arg[t]] > 0
    /\ op[t] \in {"rdlock", "wrlock"} => hold[t][arg[t]] = 0 /\ arg[t] \notin shared[t]
    /\ op[t] = "rwunlock" => hold[t][arg[t]] > 0 \/ arg[t] \in shared[t]
    /\ op[t] \in WaitOps /\ asleep[t] = "no" => hold[t][WaitsWith(t)] > 0
    /\ asleep[t] # "no" => hold[t][arg[t]] < MaxDepth

RightsInv == \A t \in Threads : RightsOK(t)

KindInv ==
    \A t \in Threads, s \in Slots :
        /\ hold[t][s] > 0 => Kind[s] # "cond"
        /\ Kind[s] = "rwlock" => hold[t][s] <= 1
        /\ s \in shared[t] => Kind[s] = "rwlock"

\* What is held has its object, and no b_X_init or b_X_destroy works on it.
HeldInv ==
    \A s \in Slots :
        Held(s) => /\ slot[s] \in Objs
                   /\ \A t \in Threads :
                         pc[t] # "idle" /\ fn[t] \in Replaces => arg[t] # s

\* The glibc object o knows exactly who holds s.
Agrees(s, o) ==
    /\ \A t \in Threads : owner[o] = t <=> hold[t][s] > 0
    /\ \A t \in Threads : t \in readers[o] <=> s \in shared[t]
    /\ Kind[s] = "mutex" /\ owner[o] = Null => depth[o] = 0
    /\ Kind[s] = "mutex" => \A t \in Threads : owner[o] = t => depth[o] = hold[t][s]
    /\ owner[o] # Null => readers[o] = {}

GlibcInv == \A s \in Slots : InPlace(s) => Agrees(s, slot[s])

\* An object made and not yet in its slot is unlocked.
UnlockedInv ==
    \A t \in Threads :
        fresh[t] # Null => /\ owner[fresh[t]] = Null
                           /\ depth[fresh[t]] = 0
                           /\ readers[fresh[t]] = {}

SyncInv ==
    /\ IInv
    /\ TypeOK
    /\ OpInv
    /\ RightsInv
    /\ KindInv
    /\ HeldInv
    /\ GlibcInv
    /\ UnlockedInv
-----------------------------------------------------------------------------
(***************************************************************************)
(* A step of BridgeSync, seen from the handle table.                       *)
(***************************************************************************)

\* A glibc call changes no handle, or ends the call of its thread.
LEMMA GlibcHandles ==
    ASSUME NEW t \in Threads, Glibc(t) PROVE Finish(t) \/ UNCHANGED handleVars
BY DEF Glibc, MutexLock, TryLockBusy, MutexUnlock, WriteLock, ReadLock, RwUnlock,
       CondSleep, CondSignal, CondBroadcast, Deadline, CondReturn, ReplaceReturn,
       Return, WakeUp

\* What the application does, and what glibc does, moves the handles as
\* BridgeHandles allows.
LEMMA HandleStep == [Next]_vars => [HandleNext]_handleVars
<1>1. ASSUME NEW t \in Threads, Client(t) PROVE HandleNext
  BY <1>1 DEF Client, CallUse, CallInit, CallDestroy, CallWait, HandleNext
<1>2. ASSUME NEW t \in Threads, Create(t) \/ Resolve(t) PROVE HandleNext
  BY <1>2 DEF Create, Resolve, HandleNext, Advance
<1>3. ASSUME NEW t \in Threads, Glibc(t) PROVE HandleNext \/ UNCHANGED handleVars
  BY <1>3, GlibcHandles DEF HandleNext
<1>4. ASSUME NEW s \in Slots, Reuse(s) PROVE HandleNext
  BY <1>4 DEF Reuse, HandleNext
<1>5. UNCHANGED vars => UNCHANGED handleVars
  BY DEF vars
<1> QED
  BY <1>1, <1>2, <1>3, <1>4, <1>5 DEF Next

\* Every behaviour of the bridge with glibc is one of its handle table: all that
\* BridgeHandlesProofs shows holds for BridgeSync (pthread_bridge.c:48-308).
THEOREM SyncImplementsHandles == Spec => HandleSpec
<1>1. Init => HandleInit
  BY DEF Init
<1> QED
  BY <1>1, HandleStep, PTL DEF Spec, HandleSpec

\* A slot gets an object in place only from the thread that publishes it.
LEMMA PlaceKept ==
    ASSUME Fits, IInv, [HandleNext]_handleVars, NEW s \in Slots, InPlace(s)'
    PROVE  \/ InPlace(s) /\ slot'[s] = slot[s]
           \/ \E t \in Threads :
                 Publish(t) /\ arg[t] = s /\ slot'[s] = fresh[t] /\ fresh[t] # Null
<1> USE NullAssumption
<1>1. ASSUME NEW t \in Threads, Publish(t)
      PROVE  \/ InPlace(s) /\ slot'[s] = slot[s]
             \/ arg[t] = s /\ slot'[s] = fresh[t] /\ fresh[t] # Null
  <2>1. fresh[t] # Null
    BY <1>1 DEF Publish, IInv, FreshInv, FreshOK
  <2>2. g_lock = t
    BY <1>1 DEF Publish, IInv, LockInv, Locked
  <2>3. arg[t] # s => slot'[s] = slot[s] /\ ~Dangling(s)
    BY <1>1, <2>2 DEF Publish, IInv, HandleTypeOK, Dangling
  <2>4. arg[t] = s => slot'[s] = fresh[t]
    BY <1>1 DEF Publish, IInv, HandleTypeOK
  <2> QED
    BY <2>1, <2>3, <2>4 DEF InPlace
<1>2. ASSUME NEW t \in Threads, Clear(t) \/ Free(t)
      PROVE  InPlace(s) /\ slot'[s] = slot[s]
  <2>1. g_lock = t /\ g_lock' = t
    BY <1>2 DEF Clear, Free, IInv, LockInv, Locked
  <2>2. arg' = arg
    BY <1>2 DEF Clear, Free
  <2>3. Dangling(s) <=> arg[t] = s
    BY <1>2, <2>1 DEF Clear, Free, Dangling, Phase
  <2>4. slot'[s] = slot[s] \/ slot'[s] = Null
    BY <1>2 DEF Clear, Free, IInv, HandleTypeOK
  <2>5. slot'[s] # Null
    BY ObjsAssumption DEF InPlace
  <2>6. arg[t] # s
    <3> SUFFICES ASSUME arg[t] = s PROVE FALSE
      OBVIOUS
    <3>1. CASE Clear(t)
      BY <3>1, <2>5 DEF Clear, IInv, HandleTypeOK
    <3>2. CASE Free(t)
      <4>1. fn[t] = "destroy" => slot[s] = Null
        BY <3>2 DEF Free, IInv, SlotInv
      <4>2. pc'[t] \in {"alloc", "track"} \/ fn[t] = "destroy"
        BY <3>2 DEF Free, Goto, IInv, HandleTypeOK
      <4>3. pc'[t] \in {"alloc", "track"}
        BY <3>2, <4>1, <4>2, <2>5 DEF Free
      <4> QED
        BY <4>3, <2>1, <2>2 DEF InPlace, Dangling, Phase
    <3> QED
      BY <1>2, <3>1, <3>2
  <2> QED
    BY <2>3, <2>4, <2>5, <2>6 DEF InPlace
<1>3. ASSUME NEW t \in Threads, Fill(t) \/ Alloc(t) \/ Track(t) \/ Store(t)
      PROVE  InPlace(s) /\ slot'[s] = slot[s]
  <2>1. g_lock = t /\ g_lock' = t /\ arg' = arg /\ slot' = slot
    BY <1>3 DEF Fill, Alloc, NewObject, Track, Store, IInv, LockInv, Locked
  <2>2. pc'[t] \in {"free", "clear", "track", "store", "publish"}
    BY <1>3 DEF Fill, Alloc, NewObject, Track, Store, Goto, IInv, HandleTypeOK
  <2>3. arg[t] # s
    BY <2>1, <2>2 DEF InPlace, Dangling, Phase
  <2> QED
    BY <2>1, <2>3 DEF InPlace, Dangling
<1>4. ASSUME NEW r \in Slots, Recycle(r)
      PROVE  InPlace(s) /\ slot'[s] = slot[s]
  <2>1. slot'[s] = slot[s] \/ slot'[s] \in Storage
    BY <1>4 DEF Recycle, IInv, HandleTypeOK
  <2>2. slot'[s] = slot[s]
    BY <2>1 DEF InPlace, Fits
  <2>3. Dangling(s)' = Dangling(s)
    BY <1>4 DEF Recycle, localVars, Dangling, Phase
  <2> QED
    BY <2>2, <2>3 DEF InPlace
<1>5. ASSUME NEW t \in Threads, pc[t] \notin Locked, slot' = slot,
             g_lock' = g_lock \/ g_lock = Null,
             \A u \in Threads : u # t => pc'[u] = pc[u] /\ arg'[u] = arg[u]
      PROVE  InPlace(s) /\ slot'[s] = slot[s]
  <2>1. g_lock # t
    BY <1>5 DEF IInv, LockInv
  <2>2. Dangling(s) => Dangling(s)'
    BY <1>5, <2>1 DEF Dangling, Phase
  <2> QED
    BY <1>5, <2>2 DEF InPlace
<1>6. ASSUME NEW t \in Threads,
             \/ CheckResolve(t) \/ CheckReplace(t) \/ Untrack(t) \/ Unlock(t)
      PROVE  InPlace(s) /\ slot'[s] = slot[s]
  <2>1. g_lock = t /\ slot' = slot
    BY <1>6 DEF CheckResolve, CheckReplace, Untrack, Unlock, IInv, LockInv, Locked,
                tableVars
  <2>2. ~Dangling(s)
    BY <1>6, <2>1 DEF CheckResolve, CheckReplace, Untrack, Unlock, Dangling, Phase
  <2> QED
    BY <2>1, <2>2 DEF InPlace
<1>7. ASSUME NEW t \in Threads, NEW r \in Slots, NEW m \in Slots,
             \/ EnterUse(t, r) \/ EnterInit(t, r) \/ EnterDestroy(t, r)
             \/ EnterWait(t, r, m)
      PROVE  InPlace(s) /\ slot'[s] = slot[s]
  BY <1>5, <1>7 DEF EnterUse, EnterInit, EnterDestroy, EnterWait, Enter, Goto,
       tableVars, Locked, IInv, HandleTypeOK
<1>8. ASSUME NEW t \in Threads,
             \/ ReadSlot(t) \/ TestBound(t) \/ Probe(t) \/ PreAlloc(t) \/ Lock(t)
             \/ ReturnCond(t) \/ ReturnReal(t) \/ Finish(t)
      PROVE  InPlace(s) /\ slot'[s] = slot[s]
  <2>1. /\ pc[t] \notin Locked /\ slot' = slot
        /\ g_lock' = g_lock \/ g_lock = Null
    BY <1>8 DEF ReadSlot, TestBound, Probe, PreAlloc, NewObject, Lock, ReturnCond,
         ReturnReal, Finish, tableVars, Locked
  <2>2. \E l \in Labels : pc' = [pc EXCEPT ![t] = l]
    BY <1>8 DEF ReadSlot, TestBound, Probe, PreAlloc, NewObject, Lock, ReturnCond,
         ReturnReal, Finish, Goto, Labels, Locked
  <2>3. \A u \in Threads : u # t => arg'[u] = arg[u]
    BY <1>8 DEF ReadSlot, TestBound, Probe, PreAlloc, NewObject, Lock, ReturnCond,
         ReturnReal, Finish, IInv, HandleTypeOK
  <2>4. \A u \in Threads : u # t => pc'[u] = pc[u]
    BY <2>2 DEF IInv, HandleTypeOK
  <2> QED
    BY <2>1, <2>3, <2>4, <1>5
<1>9. UNCHANGED handleVars => InPlace(s) /\ slot'[s] = slot[s]
  BY DEF handleVars, tableVars, localVars, InPlace, Dangling, Phase
<1> QED
  BY <1>1, <1>2, <1>3, <1>4, <1>6, <1>7, <1>8, <1>9 DEF HandleNext, Advance

-----------------------------------------------------------------------------
(***************************************************************************)
(* The object of a call.                                                   *)
(***************************************************************************)

\* A slot in place has a listed, allocated object that no other slot in place has
\* and that nobody is still making.
LEMMA PlaceUnique ==
    ASSUME IInv, NEW s \in Slots, InPlace(s)
    PROVE  /\ slot[s] \in live
           /\ \A r \in Slots : InPlace(r) /\ r # s => slot[r] # slot[s]
           /\ \A t \in Threads : fresh[t] # slot[s]
<1> USE ObjsAssumption
<1>1. Listed(slot[s]) /\ slot[s] \in live
  BY DEF InPlace, IInv, SlotInv, TableInv, Listed
<1>2. \A r \in Slots : InPlace(r) /\ r # s => slot[r] # slot[s]
  BY DEF InPlace, IInv, SlotInv
<1>3. ASSUME NEW t \in Threads, fresh[t] = slot[s] PROVE FALSE
  <2>1. pc[t] = "publish"
    BY <1>1, <1>3 DEF InPlace, IInv, FreshInv, FreshOK
  <2>2. Phase = "publish" /\ g_lock = t
    BY <2>1 DEF IInv, LockInv, Locked, Phase
  <2>3. arg[t] = s
    BY <1>3, <2>1 DEF IInv, SlotInv
  <2> QED
    BY <2>2, <2>3 DEF InPlace, Dangling
<1> QED
  BY <1>1, <1>2, <1>3

\* What a call passes to glibc is the object in place in its slot.
LEMMA CallInPlace ==
    ASSUME IInv, NEW t \in Threads, Resolved(t)
    PROVE  /\ arg[t] \in Slots /\ InPlace(arg[t]) /\ ptr[t] = slot[arg[t]]
           /\ fn[t] = "wait" =>
                /\ other[t] \in Slots /\ InPlace(other[t])
                /\ cptr[t] = slot[other[t]] /\ cptr[t] \in Objs
<1>1. <<arg[t], ptr[t]>> \in Holds(t)
  BY DEF Holds
<1>2. arg[t] \in Slots /\ InPlace(arg[t]) /\ ptr[t] = slot[arg[t]]
  BY <1>1, HoldsSlot, SlotInUse DEF InPlace
<1>3. fn[t] = "wait" => <<other[t], cptr[t]>> \in Holds(t)
  BY DEF Holds
<1>4. fn[t] = "wait" =>
        /\ other[t] \in Slots /\ InPlace(other[t])
        /\ cptr[t] = slot[other[t]] /\ cptr[t] \in Objs
  BY <1>3, HoldsSlot, SlotInUse DEF InPlace
<1> QED
  BY <1>2, <1>4

-----------------------------------------------------------------------------
(***************************************************************************)
(* Steps of the application and of the bridge: nothing is locked or        *)
(* unlocked, and glibc changes at most an object nobody has.               *)
(***************************************************************************)

\* Who holds what still agrees: a slot that gets an object gets an unlocked one,
\* and nobody held the slot.
LEMMA QuietAgrees ==
    ASSUME Fits, SyncInv, [HandleNext]_handleVars, UNCHANGED clientVars,
           \A o \in live : /\ owner'[o] = owner[o] /\ depth'[o] = depth[o]
                           /\ readers'[o] = readers[o]
    PROVE  GlibcInv'
<1> USE NullAssumption
<1> SUFFICES ASSUME NEW s \in Slots, InPlace(s)' PROVE Agrees(s, slot[s])'
  BY DEF GlibcInv
<1>1. CASE InPlace(s) /\ slot'[s] = slot[s]
  <2>1. slot[s] \in live
    BY <1>1, PlaceUnique DEF SyncInv
  <2>2. Agrees(s, slot[s])
    BY <1>1 DEF SyncInv, GlibcInv
  <2> QED
    BY <1>1, <2>1, <2>2 DEF Agrees, clientVars
<1>2. CASE \E t \in Threads :
             Publish(t) /\ arg[t] = s /\ slot'[s] = fresh[t] /\ fresh[t] # Null
  <2>1. PICK t \in Threads :
          Publish(t) /\ arg[t] = s /\ slot'[s] = fresh[t] /\ fresh[t] # Null
    BY <1>2
  <2>2. fresh[t] \in live
    BY <2>1 DEF SyncInv, IInv, FreshInv, FreshOK
  <2>3. owner[fresh[t]] = Null /\ depth[fresh[t]] = 0 /\ readers[fresh[t]] = {}
    BY <2>1 DEF SyncInv, UnlockedInv
  <2>4. ~Held(s)
    <3>1. fn[t] \in Resolves => slot[s] \notin Objs
      BY <2>1 DEF Publish, SyncInv, IInv, SlotInv
    <3>2. fn[t] \in Resolves \/ fn[t] \in Replaces
      BY <2>1 DEF Publish, SyncInv, IInv, CallInv, CallOK, HandleTypeOK
    <3> QED
      BY <2>1, <3>1, <3>2 DEF Publish, SyncInv, HeldInv
  <2>5. \A u \in Threads : hold[u][s] = 0 /\ s \notin shared[u]
    BY <2>4 DEF Held, SyncInv, TypeOK
  <2> QED
    BY <2>1, <2>2, <2>3, <2>5 DEF Agrees, clientVars
<1> QED
  BY <1>1, <1>2, PlaceKept DEF SyncInv

\* Objects being made stay unlocked.
LEMMA QuietUnlocked ==
    ASSUME SyncInv,
           \A o \in live : /\ owner'[o] = owner[o] /\ depth'[o] = depth[o]
                           /\ readers'[o] = readers[o],
           \A t \in Threads :
              \/ fresh'[t] = fresh[t] \/ fresh'[t] = Null
              \/ /\ owner'[fresh'[t]] = Null /\ depth'[fresh'[t]] = 0
                 /\ readers'[fresh'[t]] = {}
    PROVE  UnlockedInv'
<1> SUFFICES ASSUME NEW t \in Threads, fresh'[t] # Null
             PROVE  /\ owner'[fresh'[t]] = Null /\ depth'[fresh'[t]] = 0
                    /\ readers'[fresh'[t]] = {}
  BY DEF UnlockedInv
<1>1. CASE fresh'[t] = fresh[t]
  <2>1. fresh[t] \in live
    BY <1>1 DEF SyncInv, IInv, FreshInv, FreshOK
  <2> QED
    BY <1>1, <2>1 DEF SyncInv, UnlockedInv
<1> QED
  BY <1>1

\* A step of a thread on its way to the object: the call, and what it works on,
\* stay what they are.
LEMMA Way ==
    ASSUME IInv, NEW t \in Threads, Create(t) \/ Resolve(t)
    PROVE  /\ fn' = fn
           /\ pc[t] \notin {"idle", "call"} /\ pc'[t] \notin {"idle", pc[t]}
           /\ fn[t] # "wait" => arg'[t] = arg[t]
           /\ fn[t] = "wait" =>
                WaitsOn(t)' = WaitsOn(t) /\ WaitsWith(t)' = WaitsWith(t)
           /\ \A u \in Threads : u # t =>
                /\ pc'[u] = pc[u] /\ arg'[u] = arg[u] /\ other'[u] = other[u]
                /\ cptr'[u] = cptr[u]
<1> USE ObjsAssumption, NullAssumption
<1>1. CASE ReturnCond(t)
  <2>1. slot[arg[t]] # Null
    BY <1>1 DEF ReturnCond, IInv, ResolveInv, ResolveOK
  <2> QED
    BY <1>1, <2>1 DEF ReturnCond, Goto, IInv, HandleTypeOK, WaitsOn, WaitsWith
<1>2. CASE ~ReturnCond(t)
  <2>1. fn' = fn /\ arg' = arg /\ other' = other /\ cptr' = cptr
    BY <1>2 DEF Create, Resolve, Alloc, PreAlloc, NewObject, Advance, Lock, ReadSlot,
         TestBound, Probe, CheckResolve, CheckReplace, Track, Store, Publish, Untrack,
         Fill, Clear, Free, Unlock, ReturnReal
  <2>2. pc[t] \notin {"idle", "call"}
    BY <1>2 DEF Create, Resolve, Alloc, PreAlloc, NewObject, Advance, Lock, ReadSlot,
         TestBound, Probe, CheckResolve, CheckReplace, Track, Store, Publish, Untrack,
         Fill, Clear, Free, Unlock, ReturnReal
  <2>3. \E l \in Labels \ {"idle", pc[t]} : pc' = [pc EXCEPT ![t] = l]
    BY <1>2 DEF Create, Resolve, Alloc, PreAlloc, NewObject, Advance, Lock, ReadSlot,
         TestBound, Probe, CheckResolve, CheckReplace, Track, Store, Publish, Untrack,
         Fill, Clear, Free, Unlock, ReturnReal, Goto, Labels, Locked, IInv, CallInv,
         CallOK, HandleTypeOK
  <2> QED
    BY <2>1, <2>2, <2>3 DEF WaitsOn, WaitsWith, IInv, HandleTypeOK
<1> QED
  BY <1>1, <1>2

\* What is held stays in its slot, unless the application reuses memory it holds.
LEMMA QuietHeld ==
    ASSUME SyncInv, [HandleNext]_handleVars, UNCHANGED clientVars,
           \A s \in Slots : slot'[s] # slot[s] /\ Recycle(s) => ~Held(s),
           \A t \in Threads :
              \/ pc'[t] = "idle"
              \/ fn'[t] \notin Replaces
              \/ pc[t] # "idle" /\ fn'[t] = fn[t] /\ arg'[t] = arg[t]
              \/ arg'[t] \in Slots /\ ~Held(arg'[t])
    PROVE  HeldInv'
<1> USE ObjsAssumption DEF SyncInv
<1>1. ASSUME NEW s \in Slots PROVE Held(s)' <=> Held(s)
  BY DEF Held, clientVars
<1>2. ASSUME NEW s \in Slots, Held(s), slot'[s] # slot[s] PROVE slot'[s] \in Objs
  <2>1. CASE \E t \in Threads : Publish(t)
    <3>1. PICK t \in Threads : Publish(t)
      BY <2>1
    <3>2. slot'[s] = fresh[t] /\ fresh[t] # Null
      BY <1>2, <3>1 DEF Publish, IInv, HandleTypeOK, FreshInv, FreshOK
    <3> QED
      BY <3>2 DEF IInv, HandleTypeOK
  <2>2. CASE \E t \in Threads : Clear(t)
    <3>1. PICK t \in Threads : Clear(t)
      BY <2>2
    <3>2. arg[t] = s /\ pc[t] = "clear"
      BY <1>2, <3>1 DEF Clear, IInv, HandleTypeOK
    <3>3. fn[t] \in Replaces
      BY <3>2 DEF IInv, CallInv, CallOK
    <3> QED
      BY <1>2, <3>2, <3>3 DEF HeldInv
  <2>3. CASE \E r \in Slots : Recycle(r)
    BY <1>2, <2>3 DEF Recycle, IInv, HandleTypeOK
  <2>4. CASE /\ ~\E t \in Threads : Publish(t) \/ Clear(t)
             /\ ~\E r \in Slots : Recycle(r)
    BY <1>2, <2>4 DEF HandleNext, Advance, EnterUse, EnterWait, EnterInit,
         EnterDestroy, Enter, ReadSlot, TestBound, Probe, Lock, CheckResolve,
         CheckReplace, Alloc, PreAlloc, NewObject, Track, Store, Untrack, Fill,
         Free, Unlock, ReturnCond, ReturnReal, Finish, handleVars, tableVars
  <2> QED
    BY <2>1, <2>2, <2>3, <2>4
<1>3. ASSUME NEW s \in Slots, Held(s), NEW t \in Threads,
             pc'[t] # "idle", fn'[t] \in Replaces
      PROVE  arg'[t] # s
  BY <1>3 DEF HeldInv
<1> QED
  BY <1>1, <1>2, <1>3 DEF HeldInv

\* A thread inside the bridge keeps the invariant.
LEMMA BridgeStepKeeps ==
    ASSUME Fits, SyncInv, NEW t \in Threads, Create(t) \/ Resolve(t)
    PROVE  SyncInv'
<1> USE NullAssumption, ObjsAssumption DEF SyncInv
<1>1. HandleNext /\ UNCHANGED <<op, asleep, clientVars>>
  BY DEF Create, Resolve, HandleNext, Advance, syncVars
<1>2. IInv'
  BY <1>1, NextKeeps
<1>3. /\ \A o \in live : /\ owner'[o] = owner[o] /\ depth'[o] = depth[o]
                         /\ readers'[o] = readers[o]
      /\ \A u \in Threads :
           \/ fresh'[u] = fresh[u] \/ fresh'[u] = Null
           \/ /\ owner'[fresh'[u]] = Null /\ depth'[fresh'[u]] = 0
              /\ readers'[fresh'[u]] = {}
      /\ owner' \in [Objs -> Threads \cup {Null}]
      /\ depth' \in [Objs -> 0 .. MaxDepth]
      /\ readers' \in [Objs -> SUBSET Threads]
  <2>1. CASE Create(t)
    <3>1. PICK o \in Objs \ live : fresh' = [fresh EXCEPT ![t] = o]
      BY <2>1 DEF Create, Alloc, PreAlloc, NewObject
    <3>2. fresh'[t] = o /\ \A u \in Threads : u # t => fresh'[u] = fresh[u]
      BY <3>1 DEF IInv, HandleTypeOK
    <3>3. /\ owner' = [owner EXCEPT ![o] = Null]
          /\ depth' = [depth EXCEPT ![o] = 0]
          /\ readers' = [readers EXCEPT ![o] = {}]
      BY <2>1, <3>2 DEF Create
    <3> QED
      BY <3>2, <3>3, DepthAssumption DEF TypeOK
  <2>2. CASE Resolve(t)
    <3>1. UNCHANGED glibcVars
      BY <2>2 DEF Resolve, syncVars
    <3>2. \A u \in Threads : fresh'[u] = fresh[u] \/ fresh'[u] = Null
      BY <2>2 DEF Resolve, Advance, Lock, ReadSlot, TestBound, Probe, CheckResolve,
           CheckReplace, Alloc, PreAlloc, NewObject, Track, Store, Publish, Untrack,
           Fill, Clear, Free, Unlock, ReturnCond, ReturnReal, tableVars, IInv,
           HandleTypeOK
    <3> QED
      BY <3>1, <3>2 DEF glibcVars, TypeOK
  <2> QED
    BY <2>1, <2>2
<1>4. TypeOK'
  BY <1>1, <1>2, <1>3 DEF TypeOK, clientVars, IInv
<1>5. OpInv'
  BY <1>1, Way DEF OpInv, OpOK, WaitsOn, WaitsWith, Replaces
<1>6. RightsInv'
  <2>1. ASSUME NEW u \in Threads, u # t PROVE RightsOK(u)'
    BY <1>1, <2>1, Way DEF RightsInv, RightsOK, WaitsWith, clientVars
  <2>2. RightsOK(t)'
    <3>1. pc[t] # "idle" /\ fn[t] \in {"use", "wait"} \cup Replaces /\ asleep[t] = "no"
      BY Way DEF OpInv, OpOK, IInv, CallInv, CallOK, HandleTypeOK, Resolves
    <3>2. CASE fn[t] = "wait"
      BY <1>1, <3>1, <3>2, Way DEF RightsInv, RightsOK, OpInv, OpOK, clientVars, WaitOps
    <3>3. CASE fn[t] = "use"
      BY <1>1, <3>1, <3>3, Way DEF RightsInv, RightsOK, OpInv, OpOK, clientVars,
           MutexOps, RwOps, CondOps, WaitOps
    <3>4. CASE fn[t] \in Replaces
      BY <1>1, <3>1, <3>4 DEF RightsInv, RightsOK, OpInv, OpOK, WaitOps
    <3> QED
      BY <3>1, <3>2, <3>3, <3>4
  <2> QED
    BY <2>1, <2>2 DEF RightsInv
<1>7. KindInv'
  BY <1>1 DEF KindInv, clientVars
<1>8. HeldInv'
  <2>1. \A s \in Slots : ~Recycle(s)
    BY Way DEF Recycle, localVars
  <2>2. \A u \in Threads :
           \/ fn'[u] \notin Replaces
           \/ pc[u] # "idle" /\ fn'[u] = fn[u] /\ arg'[u] = arg[u]
           \/ pc'[u] = "idle"
    BY Way DEF Replaces
  <2> QED
    BY <1>1, <2>1, <2>2, QuietHeld
<1>9. GlibcInv'
  BY <1>1, <1>3, QuietAgrees
<1>10. UnlockedInv'
  BY <1>3, QuietUnlocked
<1> QED
  BY <1>2, <1>4, <1>5, <1>6, <1>7, <1>8, <1>9, <1>10

\* The application calls a bridge function, or reuses the memory of an object
\* nobody holds.
LEMMA ClientStepKeeps ==
    ASSUME Fits, SyncInv,
           \/ \E t \in Threads : Client(t)
           \/ \E s \in Slots : Reuse(s)
    PROVE  SyncInv'
<1> USE NullAssumption, ObjsAssumption DEF SyncInv
<1>1. HandleNext
  BY DEF Client, CallUse, CallInit, CallDestroy, CallWait, Reuse, HandleNext
<1>2. IInv' /\ HandleTypeOK'
  BY <1>1, NextKeeps DEF IInv
<1>3. UNCHANGED <<asleep, glibcVars, clientVars, fresh, live>>
  BY DEF Client, CallUse, CallInit, CallDestroy, CallWait, Ask, Reuse, syncVars,
         EnterUse, EnterInit, EnterDestroy, EnterWait, Enter, Recycle, tableVars,
         localVars
<1>4. KindInv' /\ GlibcInv' /\ UnlockedInv'
  BY <1>1, <1>3, QuietAgrees, QuietUnlocked DEF KindInv, clientVars, glibcVars
<1>5. ASSUME NEW t \in Threads, NEW s \in Slots, CallUse(t, s)
      PROVE  TypeOK' /\ OpInv' /\ RightsInv' /\ HeldInv'
  <2>1. PICK f \in Allowed(t, s) : op' = [op EXCEPT ![t] = f]
    BY <1>5 DEF CallUse, Ask
  <2>2. /\ pc[t] = "idle" /\ pc'[t] = "read" /\ fn'[t] = "use" /\ arg'[t] = s
        /\ cptr' = cptr
        /\ \A u \in Threads : u # t =>
             /\ pc'[u] = pc[u] /\ fn'[u] = fn[u] /\ arg'[u] = arg[u]
             /\ other'[u] = other[u]
    BY <1>5 DEF CallUse, EnterUse, Enter, Goto, IInv, HandleTypeOK
  <2>3. asleep[t] = "no"
    BY <2>2 DEF OpInv, OpOK
  <2>4. /\ Kind[s] = "mutex" =>
             /\ f \in MutexOps
             /\ f \in {"lock", "trylock"} => hold[t][s] < MaxDepth
             /\ f = "unlock" => hold[t][s] > 0
        /\ Kind[s] = "rwlock" =>
             /\ f \in RwOps
             /\ f \in {"rdlock", "wrlock"} => ~(hold[t][s] > 0) /\ s \notin shared[t]
             /\ f = "rwunlock" => hold[t][s] > 0 \/ s \in shared[t]
        /\ Kind[s] = "cond" => f \in CondOps
    BY DEF Allowed, MutexOps, RwOps
  <2>5. Kind[s] \in {"mutex", "cond", "rwlock"} /\ hold[t][s] \in Nat
    BY KindAssumption DEF TypeOK
  <2>6. op'[t] = f /\ \A u \in Threads : u # t => op'[u] = op[u]
    BY <2>1 DEF TypeOK
  <2>7. TypeOK'
    BY <1>2, <1>3, <2>1, <2>4, <2>5 DEF TypeOK, glibcVars, clientVars
  <2>8. OpInv'
    BY <1>3, <2>2, <2>3, <2>4, <2>5, <2>6 DEF OpInv, OpOK, WaitsOn, WaitsWith,
         Replaces
  <2>9. RightsInv'
    BY <1>3, <2>2, <2>3, <2>4, <2>5, <2>6 DEF RightsInv, RightsOK, WaitsWith, MutexOps,
         RwOps, CondOps, WaitOps, clientVars
  <2>10. HeldInv'
    <3>1. \A r \in Slots : ~Recycle(r)
      BY <2>2 DEF Recycle, localVars
    <3> QED
      BY <1>1, <1>3, <2>2, <3>1, QuietHeld DEF Replaces
  <2> QED
    BY <2>7, <2>8, <2>9, <2>10
<1>6. ASSUME NEW t \in Threads, NEW c \in Slots, NEW m \in Slots, CallWait(t, c, m)
      PROVE  TypeOK' /\ OpInv' /\ RightsInv' /\ HeldInv'
  <2>1. PICK f \in WaitOps : op' = [op EXCEPT ![t] = f]
    BY <1>6 DEF CallWait, Ask
  <2>2. /\ pc[t] = "idle" /\ pc'[t] = "read" /\ fn'[t] = "wait" /\ arg'[t] = c
        /\ other'[t] = m /\ cptr' = cptr /\ Kind[c] = "cond" /\ Kind[m] = "mutex"
        /\ hold[t][m] > 0
        /\ \A u \in Threads : u # t =>
             /\ pc'[u] = pc[u] /\ fn'[u] = fn[u] /\ arg'[u] = arg[u]
             /\ other'[u] = other[u]
    BY <1>6 DEF CallWait, EnterWait, Enter, Goto, IInv, HandleTypeOK
  <2>3. asleep[t] = "no" /\ cptr[t] = Null
    BY <2>2 DEF OpInv, OpOK, IInv, ResolveInv, ResolveOK
  <2>4. op'[t] = f /\ \A u \in Threads : u # t => op'[u] = op[u]
    BY <2>1 DEF TypeOK
  <2>5. TypeOK'
    BY <1>2, <1>3, <2>1 DEF TypeOK, glibcVars, clientVars
  <2>6. OpInv'
    BY <1>3, <2>2, <2>3, <2>4 DEF OpInv, OpOK, WaitsOn, WaitsWith, Replaces
  <2>7. RightsInv'
    BY <1>3, <2>2, <2>3, <2>4 DEF RightsInv, RightsOK, WaitsWith, WaitOps, clientVars
  <2>8. HeldInv'
    <3>1. \A r \in Slots : ~Recycle(r)
      BY <2>2 DEF Recycle, localVars
    <3> QED
      BY <1>1, <1>3, <2>2, <3>1, QuietHeld DEF Replaces
  <2> QED
    BY <2>5, <2>6, <2>7, <2>8
<1>7. ASSUME NEW t \in Threads, NEW s \in Slots, CallInit(t, s) \/ CallDestroy(t, s)
      PROVE  TypeOK' /\ OpInv' /\ RightsInv' /\ HeldInv'
  <2>1. op' = op /\ ~Held(s)
    BY <1>7 DEF CallInit, CallDestroy, syncVars
  <2>2. /\ pc[t] = "idle" /\ pc'[t] # "idle" /\ fn'[t] \in Replaces /\ arg'[t] = s
        /\ cptr' = cptr
        /\ \A u \in Threads : u # t =>
             /\ pc'[u] = pc[u] /\ fn'[u] = fn[u] /\ arg'[u] = arg[u]
             /\ other'[u] = other[u]
    BY <1>7 DEF CallInit, CallDestroy, EnterInit, EnterDestroy, Enter, Goto, IInv,
         HandleTypeOK, Replaces
  <2>3. asleep[t] = "no" /\ op[t] = "none"
    BY <2>2 DEF OpInv, OpOK
  <2>4. TypeOK'
    BY <1>2, <1>3, <2>1 DEF TypeOK, glibcVars, clientVars
  <2>5. OpInv'
    BY <1>3, <2>1, <2>2, <2>3 DEF OpInv, OpOK, WaitsOn, WaitsWith, Replaces
  <2>6. RightsInv'
    BY <1>3, <2>1, <2>2, <2>3 DEF RightsInv, RightsOK, WaitsWith, WaitOps, clientVars
  <2>7. HeldInv'
    <3>1. \A r \in Slots : ~Recycle(r)
      BY <2>2 DEF Recycle, localVars
    <3> QED
      BY <1>1, <1>3, <2>1, <2>2, <3>1, QuietHeld
  <2> QED
    BY <2>4, <2>5, <2>6, <2>7
<1>8. ASSUME NEW s \in Slots, Reuse(s)
      PROVE  TypeOK' /\ OpInv' /\ RightsInv' /\ HeldInv'
  <2>1. UNCHANGED <<op, localVars>> /\ ~Held(s)
    BY <1>8 DEF Reuse, Recycle, syncVars
  <2>2. \A r \in Slots : slot'[r] # slot[r] => r = s
    BY <1>8 DEF Reuse, Recycle, IInv, HandleTypeOK
  <2>3. TypeOK' /\ OpInv' /\ RightsInv'
    BY <1>2, <1>3, <2>1 DEF TypeOK, glibcVars, clientVars, localVars, OpInv, OpOK,
         RightsInv, RightsOK, WaitsOn, WaitsWith
  <2>4. HeldInv'
    BY <1>1, <1>3, <2>1, <2>2, QuietHeld DEF localVars
  <2> QED
    BY <2>3, <2>4
<1> QED
  BY <1>2, <1>4, <1>5, <1>6, <1>7, <1>8 DEF Client

-----------------------------------------------------------------------------
(***************************************************************************)
(* The glibc calls.                                                        *)
(***************************************************************************)

\* A call that locks and unlocks nothing but its own object, for nobody but its
\* own thread, keeps the invariant if that object still agrees with its holders.
LEMMA CallStepKeeps ==
    ASSUME Fits, SyncInv, NEW t \in Threads, NEW a \in Slots, NEW o \in Objs,
           Resolved(t), a = arg[t], o = ptr[t], [Next]_vars, TypeOK',
           \A p \in Objs : p # o => /\ owner'[p] = owner[p] /\ depth'[p] = depth[p]
                                    /\ readers'[p] = readers[p],
           \A u \in Threads, s \in Slots :
              u # t \/ s # a => /\ hold'[u][s] = hold[u][s]
                                /\ s \in shared'[u] <=> s \in shared[u],
           Agrees(a, o)',
           /\ hold'[t][a] > 0 => Kind[a] # "cond"
           /\ Kind[a] = "rwlock" => hold'[t][a] <= 1
           /\ a \in shared'[t] => Kind[a] = "rwlock",
           \A u \in Threads : u # t =>
              /\ op'[u] = op[u]
              /\ asleep'[u] = asleep[u] \/ (asleep[u] # "no" /\ asleep'[u] # "no"),
           \/ Finish(t) /\ op'[t] = "none" /\ asleep'[t] = "no"
           \/ /\ UNCHANGED <<handleVars, op>> /\ fn[t] = "wait" /\ asleep'[t] # "no"
              /\ hold'[t][a] < MaxDepth
    PROVE  SyncInv'
<1> USE NullAssumption, ObjsAssumption DEF SyncInv
<1>1. pc[t] = "call" /\ fn[t] \in Resolves /\ InPlace(a) /\ o = slot[a]
  BY CallInPlace DEF Resolved
<1>2. IInv' /\ HandleTypeOK'
  BY HandleStep, NextKeeps DEF IInv
<1>3. /\ UNCHANGED <<tableVars, fresh>>
      /\ \A u \in Threads : u # t =>
           /\ pc'[u] = pc[u] /\ fn'[u] = fn[u] /\ arg'[u] = arg[u]
           /\ other'[u] = other[u] /\ cptr'[u] = cptr[u]
  BY DEF Finish, Goto, handleVars, tableVars, localVars, IInv, HandleTypeOK
<1>4. OpInv'
  <2>1. \A u \in Threads : u # t => OpOK(u)'
    BY <1>3 DEF OpInv, OpOK, WaitsOn, WaitsWith
  <2>2. CASE Finish(t) /\ op'[t] = "none" /\ asleep'[t] = "no"
    <3>1. pc'[t] = "idle"
      BY <2>2 DEF Finish, Goto, IInv, HandleTypeOK
    <3> QED
      BY <2>1, <2>2, <3>1 DEF OpInv, OpOK
  <2>3. CASE UNCHANGED <<handleVars, op>> /\ fn[t] = "wait"
    BY <1>1, <2>1, <2>3 DEF handleVars, localVars, OpInv, OpOK, WaitsOn, WaitsWith,
         Replaces
  <2> QED
    BY <2>2, <2>3
<1>5. RightsInv'
  <2>1. ASSUME NEW u \in Threads, u # t PROVE RightsOK(u)'
    <3>1. arg[u] \in Slots \/ op[u] = "none"
      BY DEF IInv, CallInv, CallOK, OpInv, OpOK
    <3>2. op[u] \in WaitOps => WaitsWith(u) \in Slots
      BY DEF IInv, CallInv, CallOK, OpInv, OpOK, WaitOps, WaitsWith, MutexOps, RwOps,
           CondOps, HandleTypeOK, Resolves, Replaces
    <3>3. asleep[u] # "no" => arg[u] \in Slots
      BY DEF IInv, CallInv, CallOK, OpInv, OpOK
    <3>4. WaitsWith(u)' = WaitsWith(u) /\ arg'[u] = arg[u] /\ op'[u] = op[u]
      BY <1>3, <2>1 DEF WaitsWith
    <3>5. RightsOK(u)
      BY DEF RightsInv
    <3> QED
      BY <2>1, <3>1, <3>2, <3>3, <3>4, <3>5 DEF RightsOK, WaitOps
  <2>2. RightsOK(t)'
    <3>1. CASE op'[t] = "none" /\ asleep'[t] = "no"
      BY <3>1 DEF RightsOK, WaitOps
    <3>2. CASE /\ UNCHANGED <<handleVars, op>> /\ fn[t] = "wait" /\ asleep'[t] # "no"
               /\ hold'[t][a] < MaxDepth
      <4>1. op'[t] \in WaitOps /\ arg'[t] = a
        BY <1>1, <3>2 DEF handleVars, localVars, OpInv, OpOK
      <4> QED
        BY <3>2, <4>1 DEF RightsOK, WaitOps
    <3> QED
      BY <3>1, <3>2
  <2> QED
    BY <2>1, <2>2 DEF RightsInv
<1>6. KindInv'
  <2> SUFFICES ASSUME NEW u \in Threads, NEW s \in Slots
               PROVE  /\ hold'[u][s] > 0 => Kind[s] # "cond"
                      /\ Kind[s] = "rwlock" => hold'[u][s] <= 1
                      /\ s \in shared'[u] => Kind[s] = "rwlock"
    BY DEF KindInv
  <2>1. CASE u = t /\ s = a
    BY <2>1
  <2>2. CASE u # t \/ s # a
    BY <2>2 DEF KindInv
  <2> QED
    BY <2>1, <2>2
<1>7. HeldInv'
  <2> SUFFICES ASSUME NEW s \in Slots, Held(s)'
               PROVE  /\ slot[s] \in Objs
                      /\ \A u \in Threads :
                           pc'[u] # "idle" /\ fn'[u] \in Replaces => arg'[u] # s
    BY <1>3 DEF HeldInv, tableVars
  <2>1. \A u \in Threads :
           pc'[u] # "idle" /\ fn'[u] \in Replaces =>
             u # t /\ pc[u] # "idle" /\ fn[u] \in Replaces /\ arg'[u] = arg[u]
    BY <1>1, <1>3 DEF Finish, Goto, handleVars, localVars, IInv, HandleTypeOK, Resolves,
         Replaces
  <2>2. CASE s = a
    <3>1. \A u \in Threads :
             u # t /\ pc[u] # "idle" /\ fn[u] \in Replaces => arg[u] # a
      BY <1>1 DEF IInv, ContractInv, InCall
    <3> QED
      BY <1>1, <2>1, <2>2, <3>1 DEF InPlace
  <2>3. CASE s # a
    <3>1. Held(s)
      BY <2>3 DEF Held
    <3> QED
      BY <2>1, <3>1 DEF HeldInv
  <2> QED
    BY <2>2, <2>3
<1>8. ASSUME NEW s \in Slots, InPlace(s)' PROVE Agrees(s, slot[s])'
  <2>1. g_lock # t
    BY <1>1 DEF IInv, LockInv, Locked
  <2>2. InPlace(s) /\ slot'[s] = slot[s]
    BY <1>3, <1>8, <2>1 DEF InPlace, Dangling, Phase, tableVars
  <2>3. CASE s = a
    BY <1>1, <2>2, <2>3
  <2>4. CASE s # a
    <3>1. slot[s] # o /\ slot[s] \in Objs
      BY <1>1, <2>2, <2>4, PlaceUnique DEF InPlace
    <3>2. Agrees(s, slot[s])
      BY <2>2 DEF GlibcInv
    <3> QED
      BY <2>2, <2>4, <3>1, <3>2 DEF Agrees
  <2> QED
    BY <2>3, <2>4
<1>9. UnlockedInv'
  <2> SUFFICES ASSUME NEW u \in Threads, fresh'[u] # Null
               PROVE  /\ owner'[fresh'[u]] = Null /\ depth'[fresh'[u]] = 0
                      /\ readers'[fresh'[u]] = {}
    BY DEF UnlockedInv
  <2>1. fresh'[u] = fresh[u]
    BY <1>3
  <2>2. fresh[u] # o /\ fresh[u] \in Objs
    BY <1>1, <2>1, PlaceUnique DEF IInv, HandleTypeOK
  <2>3. owner[fresh[u]] = Null /\ depth[fresh[u]] = 0 /\ readers[fresh[u]] = {}
    BY <2>1 DEF UnlockedInv
  <2> QED
    BY <2>1, <2>2, <2>3
<1> QED
  BY <1>2, <1>4, <1>5, <1>6, <1>7, <1>8, <1>9 DEF GlibcInv

\* A call that glibc answers without touching a lock.
LEMMA NoLockKeeps ==
    ASSUME Fits, SyncInv, NEW t \in Threads, Resolved(t), [Next]_vars,
           UNCHANGED <<glibcVars, clientVars>>, TypeOK',
           \A u \in Threads : u # t =>
              /\ op'[u] = op[u]
              /\ asleep'[u] = asleep[u] \/ (asleep[u] # "no" /\ asleep'[u] # "no"),
           \/ Finish(t) /\ op'[t] = "none" /\ asleep'[t] = "no"
           \/ UNCHANGED <<handleVars, op>> /\ asleep[t] # "no" /\ asleep'[t] # "no"
    PROVE  SyncInv'
<1>1. /\ arg[t] \in Slots /\ ptr[t] \in Objs
      /\ InPlace(arg[t]) /\ ptr[t] = slot[arg[t]]
  BY CallInPlace DEF SyncInv, InPlace
<1>2. PICK a \in Slots, o \in Objs : a = arg[t] /\ o = ptr[t]
  BY <1>1
<1>3. Agrees(a, o)'
  <2>1. Agrees(a, o)
    BY <1>1, <1>2 DEF SyncInv, GlibcInv
  <2> QED
    BY <2>1 DEF Agrees, glibcVars, clientVars
<1>4. asleep[t] # "no" => fn[t] = "wait" /\ hold'[t][a] < MaxDepth
  BY <1>2 DEF SyncInv, OpInv, OpOK, RightsInv, RightsOK, clientVars
<1>5. /\ hold'[t][a] > 0 => Kind[a] # "cond"
      /\ Kind[a] = "rwlock" => hold'[t][a] <= 1
      /\ a \in shared'[t] => Kind[a] = "rwlock"
  BY DEF SyncInv, KindInv, clientVars
<1> QED
  BY <1>2, <1>3, <1>4, <1>5, CallStepKeeps DEF glibcVars, clientVars

\* The function a thread is about to call tells the kind of its object.
LEMMA OpKind ==
    ASSUME SyncInv, NEW t \in Threads, pc[t] = "call", op[t] # "none"
    PROVE  /\ Resolved(t) /\ arg[t] \in Slots /\ ptr[t] \in Objs
           /\ Agrees(arg[t], ptr[t])
           /\ op[t] \in MutexOps => Kind[arg[t]] = "mutex" /\ asleep[t] = "no"
           /\ op[t] \in RwOps => Kind[arg[t]] = "rwlock" /\ asleep[t] = "no"
           /\ op[t] \in CondOps => Kind[arg[t]] = "cond" /\ asleep[t] = "no"
           /\ op[t] \in WaitOps <=> fn[t] = "wait"
           /\ op[t] \in WaitOps =>
                /\ other[t] \in Slots /\ cptr[t] # Null
                /\ Kind[other[t]] = "cond" /\ Kind[arg[t]] = "mutex"
<1> USE ObjsAssumption DEF SyncInv
<1>1. fn[t] \in {"use", "wait"} /\ Resolved(t)
  BY DEF IInv, CallInv, CallOK, OpInv, OpOK, HandleTypeOK, Resolved, Resolves, Replaces
<1>2. arg[t] \in Slots /\ ptr[t] \in Objs /\ Agrees(arg[t], ptr[t])
  BY <1>1, CallInPlace DEF GlibcInv, InPlace
<1>3. fn[t] = "wait" => other[t] \in Slots /\ cptr[t] # Null
  BY <1>1, CallInPlace
<1> QED
  BY <1>1, <1>2, <1>3 DEF OpInv, OpOK, WaitsOn, WaitsWith, MutexOps, RwOps, CondOps,
     WaitOps

\* Taking one more level of a mutex nobody else has: glibc and the application
\* count the same.
LEMMA TakeAgrees ==
    ASSUME SyncInv, NEW t \in Threads, NEW a \in Slots, NEW o \in Objs,
           Kind[a] = "mutex", Agrees(a, o), hold[t][a] < MaxDepth,
           Available(t, o), Take(t, o), Gain(t, a), UNCHANGED <<readers, shared>>
    PROVE  /\ Agrees(a, o)'
           /\ owner' \in [Objs -> Threads \cup {Null}]
           /\ depth' \in [Objs -> 0 .. MaxDepth]
           /\ hold' \in [Threads -> [Slots -> 0 .. MaxDepth]]
           /\ \A p \in Objs : p # o => owner'[p] = owner[p] /\ depth'[p] = depth[p]
           /\ \A u \in Threads, s \in Slots :
                u # t \/ s # a => hold'[u][s] = hold[u][s]
           /\ Posix!NobodyElseHolds(t, a)
<1> USE NullAssumption, DepthAssumption DEF SyncInv
<1>1. /\ owner \in [Objs -> Threads \cup {Null}] /\ depth \in [Objs -> 0 .. MaxDepth]
      /\ hold \in [Threads -> [Slots -> 0 .. MaxDepth]]
      /\ readers \in [Objs -> SUBSET Threads]
  BY DEF TypeOK
<1>2. depth[o] = hold[t][a] /\ \A u \in Threads : u # t => hold[u][a] = 0
  BY <1>1 DEF Agrees, Available
<1>3. hold'[t][a] = hold[t][a] + 1 /\ hold[t][a] + 1 \in 0 .. MaxDepth
  BY <1>1 DEF Gain
<1>4. \A u \in Threads, s \in Slots :
         u # t \/ s # a => hold'[u][s] = hold[u][s]
  BY <1>1 DEF Gain
<1>5. hold' \in [Threads -> [Slots -> 0 .. MaxDepth]]
  BY <1>1, <1>3 DEF Gain
<1>6. /\ owner'[o] = t /\ depth'[o] = depth[o] + 1
      /\ \A p \in Objs : p # o => owner'[p] = owner[p] /\ depth'[p] = depth[p]
  BY <1>1 DEF Take
<1>7. /\ owner' \in [Objs -> Threads \cup {Null}]
      /\ depth' \in [Objs -> 0 .. MaxDepth]
  BY <1>1, <1>2, <1>3 DEF Take
<1>8. readers[o] = {}
  <2>1. \A u \in Threads : a \notin shared[u]
    BY DEF KindInv
  <2> QED
    BY <1>1, <2>1 DEF Agrees
<1>9. Agrees(a, o)'
  BY <1>1, <1>2, <1>3, <1>4, <1>6, <1>8 DEF Agrees
<1> QED
  BY <1>2, <1>4, <1>5, <1>6, <1>7, <1>9 DEF Posix!NobodyElseHolds

\* Giving one level back.
LEMMA DropAgrees ==
    ASSUME SyncInv, NEW t \in Threads, NEW a \in Slots, NEW o \in Objs,
           Kind[a] = "mutex", Agrees(a, o), hold[t][a] > 0,
           Drop(t, o), Lose(t, a), UNCHANGED <<readers, shared>>
    PROVE  /\ Agrees(a, o)'
           /\ owner' \in [Objs -> Threads \cup {Null}]
           /\ depth' \in [Objs -> 0 .. MaxDepth]
           /\ hold' \in [Threads -> [Slots -> 0 .. MaxDepth]]
           /\ \A p \in Objs : p # o => owner'[p] = owner[p] /\ depth'[p] = depth[p]
           /\ \A u \in Threads, s \in Slots :
                u # t \/ s # a => hold'[u][s] = hold[u][s]
           /\ hold'[t][a] < MaxDepth
<1> USE NullAssumption, DepthAssumption DEF SyncInv
<1>1. /\ owner \in [Objs -> Threads \cup {Null}] /\ depth \in [Objs -> 0 .. MaxDepth]
      /\ hold \in [Threads -> [Slots -> 0 .. MaxDepth]]
      /\ readers \in [Objs -> SUBSET Threads]
  BY DEF TypeOK
<1>2. /\ owner[o] = t /\ depth[o] = hold[t][a]
      /\ \A u \in Threads : u # t => hold[u][a] = 0
  BY <1>1 DEF Agrees
<1>3. hold'[t][a] = hold[t][a] - 1 /\ hold[t][a] - 1 \in 0 .. MaxDepth
  BY <1>1 DEF Lose
<1>4. \A u \in Threads, s \in Slots :
         u # t \/ s # a => hold'[u][s] = hold[u][s]
  BY <1>1 DEF Lose
<1>5. hold' \in [Threads -> [Slots -> 0 .. MaxDepth]]
  BY <1>1, <1>3 DEF Lose
<1>6. /\ owner'[o] = (IF depth[o] = 1 THEN Null ELSE t) /\ depth'[o] = depth[o] - 1
      /\ \A p \in Objs : p # o => owner'[p] = owner[p] /\ depth'[p] = depth[p]
  BY <1>1, <1>2 DEF Drop
<1>7. /\ owner' \in [Objs -> Threads \cup {Null}]
      /\ depth' \in [Objs -> 0 .. MaxDepth]
  BY <1>1, <1>2, <1>3 DEF Drop
<1>8. readers[o] = {}
  BY <1>2 DEF Agrees
<1>9. Agrees(a, o)'
  BY <1>1, <1>2, <1>3, <1>4, <1>6, <1>8 DEF Agrees
<1> QED
  BY <1>1, <1>3, <1>4, <1>5, <1>6, <1>7, <1>9

\* A thread that is not waiting afterwards; the others wait as before.
LEMMA WaitingAfter ==
    ASSUME SyncInv, NEW t \in Threads, Return(t)
    PROVE  /\ Waiting' = [Waiting EXCEPT ![t] = Null]
           /\ asleep[t] = "no" => Waiting' = Waiting
           /\ op'[t] = "none" /\ asleep'[t] = "no"
           /\ \A u \in Threads : u # t => op'[u] = op[u] /\ asleep'[u] = asleep[u]
           /\ op' \in [Threads -> MutexOps \cup RwOps \cup CondOps \cup WaitOps
                                    \cup {"none"}]
           /\ asleep' \in [Threads -> {"no", "asleep", "woken"}]
BY DEF SyncInv, TypeOK, HandleTypeOK, Return, Finish, Waiting

\* The sync part of the types, from the parts a call changes.
LEMMA TypesAfter ==
    ASSUME Fits, SyncInv, [Next]_vars,
           op' \in [Threads -> MutexOps \cup RwOps \cup CondOps \cup WaitOps \cup {"none"}],
           asleep' \in [Threads -> {"no", "asleep", "woken"}],
           owner' \in [Objs -> Threads \cup {Null}],
           depth' \in [Objs -> 0 .. MaxDepth],
           readers' \in [Objs -> SUBSET Threads],
           hold' \in [Threads -> [Slots -> 0 .. MaxDepth]],
           shared' \in [Threads -> SUBSET Slots]
    PROVE  TypeOK'
BY HandleStep, NextKeeps DEF SyncInv, TypeOK, IInv

\* lock, and a trylock that succeeds: nobody else holds the mutex.
LEMMA MutexLockKeeps ==
    ASSUME Fits, SyncInv, [Next]_vars, NEW t \in Threads, MutexLock(t)
    PROVE  SyncInv' /\ Posix!Next
<1>1. pc[t] = "call" /\ op[t] \in {"lock", "trylock"} /\ op[t] # "none"
  BY DEF MutexLock, At
<1>2. PICK a \in Slots, o \in Objs : a = arg[t] /\ o = ptr[t]
  BY <1>1, OpKind
<1>3. /\ Resolved(t) /\ Agrees(a, o) /\ Kind[a] = "mutex" /\ asleep[t] = "no"
      /\ hold[t][a] < MaxDepth
  BY <1>1, <1>2, OpKind DEF MutexOps, SyncInv, RightsInv, RightsOK
<1>4. /\ Available(t, o) /\ Take(t, o) /\ Gain(t, a) /\ Return(t) /\ Finish(t)
      /\ UNCHANGED <<readers, shared>>
  BY <1>2 DEF MutexLock, Return
<1>5. /\ Agrees(a, o)'
      /\ owner' \in [Objs -> Threads \cup {Null}]
      /\ depth' \in [Objs -> 0 .. MaxDepth]
      /\ hold' \in [Threads -> [Slots -> 0 .. MaxDepth]]
      /\ \A p \in Objs : p # o => owner'[p] = owner[p] /\ depth'[p] = depth[p]
      /\ \A u \in Threads, s \in Slots : u # t \/ s # a => hold'[u][s] = hold[u][s]
      /\ Posix!NobodyElseHolds(t, a)
  BY <1>3, <1>4, TakeAgrees
<1>6. TypeOK'
  BY <1>4, <1>5, WaitingAfter, TypesAfter DEF SyncInv, TypeOK
<1>7. SyncInv'
  <2>1. a \notin shared'[t]
    BY <1>3, <1>4 DEF SyncInv, KindInv
  <2>2. \A u \in Threads, s \in Slots : s \in shared'[u] <=> s \in shared[u]
    BY <1>4
  <2> QED
    BY <1>2, <1>3, <1>4, <1>5, <1>6, <2>1, <2>2, WaitingAfter, CallStepKeeps
<1>8. Posix!MutexLock(t, a)
  BY <1>3, <1>4, <1>5, WaitingAfter DEF Posix!MutexLock, Posix!Add, Gain
<1> QED
  BY <1>7, <1>8 DEF Posix!Next

\* unlock gives back one level of a mutex its caller holds.
LEMMA MutexUnlockKeeps ==
    ASSUME Fits, SyncInv, [Next]_vars, NEW t \in Threads, MutexUnlock(t)
    PROVE  SyncInv' /\ Posix!Next
<1>1. pc[t] = "call" /\ op[t] = "unlock" /\ op[t] # "none"
  BY DEF MutexUnlock, At
<1>2. PICK a \in Slots, o \in Objs : a = arg[t] /\ o = ptr[t]
  BY <1>1, OpKind
<1>3. /\ Resolved(t) /\ Agrees(a, o) /\ Kind[a] = "mutex" /\ asleep[t] = "no"
      /\ hold[t][a] > 0
  BY <1>1, <1>2, OpKind DEF MutexOps, SyncInv, RightsInv, RightsOK
<1>4. /\ Drop(t, o) /\ Lose(t, a) /\ Return(t) /\ Finish(t)
      /\ UNCHANGED <<readers, shared>>
  BY <1>2 DEF MutexUnlock, Return
<1>5. /\ Agrees(a, o)'
      /\ owner' \in [Objs -> Threads \cup {Null}]
      /\ depth' \in [Objs -> 0 .. MaxDepth]
      /\ hold' \in [Threads -> [Slots -> 0 .. MaxDepth]]
      /\ \A p \in Objs : p # o => owner'[p] = owner[p] /\ depth'[p] = depth[p]
      /\ \A u \in Threads, s \in Slots : u # t \/ s # a => hold'[u][s] = hold[u][s]
  BY <1>3, <1>4, DropAgrees
<1>6. TypeOK'
  BY <1>4, <1>5, WaitingAfter, TypesAfter DEF SyncInv, TypeOK
<1>7. SyncInv'
  <2>1. a \notin shared'[t]
    BY <1>3, <1>4 DEF SyncInv, KindInv
  <2>2. \A u \in Threads, s \in Slots : s \in shared'[u] <=> s \in shared[u]
    BY <1>4
  <2> QED
    BY <1>2, <1>3, <1>4, <1>5, <1>6, <2>1, <2>2, WaitingAfter, CallStepKeeps
<1>8. Posix!MutexUnlock(t, a)
  BY <1>3, <1>4, WaitingAfter DEF Posix!MutexUnlock, Posix!Remove, Lose
<1> QED
  BY <1>7, <1>8 DEF Posix!Next

\* A trylock that fails changes nothing.
LEMMA TryLockBusyKeeps ==
    ASSUME Fits, SyncInv, [Next]_vars, NEW t \in Threads, TryLockBusy(t)
    PROVE  SyncInv' /\ UNCHANGED Posix!syncVars
<1>1. pc[t] = "call" /\ op[t] = "trylock" /\ op[t] # "none"
  BY DEF TryLockBusy, At
<1>2. Resolved(t) /\ asleep[t] = "no"
  BY <1>1, OpKind DEF MutexOps
<1>3. Return(t) /\ Finish(t) /\ UNCHANGED <<glibcVars, clientVars>>
  BY DEF TryLockBusy, Return
<1>4. TypeOK'
  BY <1>3, WaitingAfter, TypesAfter DEF SyncInv, TypeOK, glibcVars, clientVars
<1>5. SyncInv'
  BY <1>2, <1>3, <1>4, WaitingAfter, NoLockKeeps
<1> QED
  BY <1>2, <1>3, <1>5, WaitingAfter DEF Posix!syncVars, clientVars

\* A writer gets an rwlock nobody holds.
LEMMA WriteLockKeeps ==
    ASSUME Fits, SyncInv, [Next]_vars, NEW t \in Threads, WriteLock(t)
    PROVE  SyncInv' /\ Posix!Next
<1> USE NullAssumption, DepthAssumption
<1>1. pc[t] = "call" /\ op[t] = "wrlock" /\ op[t] # "none"
  BY DEF WriteLock, At
<1>2. PICK a \in Slots, o \in Objs : a = arg[t] /\ o = ptr[t]
  BY <1>1, OpKind
<1>3. /\ Resolved(t) /\ Agrees(a, o) /\ Kind[a] = "rwlock" /\ asleep[t] = "no"
      /\ hold[t][a] = 0
  BY <1>1, <1>2, OpKind DEF RwOps, SyncInv, RightsInv, RightsOK
<1>4. /\ owner[o] = Null /\ readers[o] = {}
      /\ owner' = [owner EXCEPT ![o] = t]
      /\ Gain(t, a) /\ Return(t) /\ Finish(t) /\ UNCHANGED <<depth, readers, shared>>
  BY <1>2 DEF WriteLock, Return
<1>5. /\ owner \in [Objs -> Threads \cup {Null}]
      /\ hold \in [Threads -> [Slots -> 0 .. MaxDepth]]
  BY DEF SyncInv, TypeOK
<1>6. \A u \in Threads : hold[u][a] = 0 /\ a \notin shared[u]
  BY <1>3, <1>4, <1>5 DEF Agrees
<1>7. /\ hold'[t][a] = 1 /\ hold' \in [Threads -> [Slots -> 0 .. MaxDepth]]
      /\ \A u \in Threads, s \in Slots : u # t \/ s # a => hold'[u][s] = hold[u][s]
  <2>1. hold[t][a] + 1 = 1 /\ 1 \in 0 .. MaxDepth
    BY <1>3
  <2> QED
    BY <1>4, <1>5, <2>1 DEF Gain
<1>8. /\ owner'[o] = t /\ owner' \in [Objs -> Threads \cup {Null}]
      /\ \A p \in Objs : p # o => owner'[p] = owner[p]
  BY <1>4, <1>5
<1>9. Agrees(a, o)'
  BY <1>3, <1>4, <1>6, <1>7, <1>8 DEF Agrees
<1>10. TypeOK'
  BY <1>4, <1>7, <1>8, WaitingAfter, TypesAfter DEF SyncInv, TypeOK
<1>11. SyncInv'
  <2>1. a \notin shared'[t]
    BY <1>4, <1>6
  <2>2. \A u \in Threads, s \in Slots : s \in shared'[u] <=> s \in shared[u]
    BY <1>4
  <2>3. /\ hold'[t][a] > 0 => Kind[a] # "cond"
        /\ Kind[a] = "rwlock" => hold'[t][a] <= 1
    BY <1>3, <1>7
  <2> QED
    BY <1>2, <1>3, <1>4, <1>7, <1>8, <1>9, <1>10, <2>1, <2>2, <2>3, WaitingAfter,
       CallStepKeeps
<1>12. Posix!WriteLock(t, a)
  BY <1>3, <1>4, <1>6, WaitingAfter DEF Posix!WriteLock, Posix!Add, Gain
<1> QED
  BY <1>11, <1>12 DEF Posix!Next

\* A reader gets an rwlock that has no writer.
LEMMA ReadLockKeeps ==
    ASSUME Fits, SyncInv, [Next]_vars, NEW t \in Threads, ReadLock(t)
    PROVE  SyncInv' /\ Posix!Next
<1> USE NullAssumption
<1>1. pc[t] = "call" /\ op[t] = "rdlock" /\ op[t] # "none"
  BY DEF ReadLock, At
<1>2. PICK a \in Slots, o \in Objs : a = arg[t] /\ o = ptr[t]
  BY <1>1, OpKind
<1>3. /\ Resolved(t) /\ Agrees(a, o) /\ Kind[a] = "rwlock" /\ asleep[t] = "no"
  BY <1>1, <1>2, OpKind DEF RwOps
<1>4. /\ owner[o] = Null
      /\ readers' = [readers EXCEPT ![o] = @ \cup {t}]
      /\ shared' = [shared EXCEPT ![t] = @ \cup {a}]
      /\ Return(t) /\ Finish(t) /\ UNCHANGED <<owner, depth, hold>>
  BY <1>2 DEF ReadLock, Return
<1>5. /\ readers \in [Objs -> SUBSET Threads] /\ shared \in [Threads -> SUBSET Slots]
      /\ hold \in [Threads -> [Slots -> 0 .. MaxDepth]]
  BY DEF SyncInv, TypeOK
<1>6. \A u \in Threads : hold[u][a] = 0
  BY <1>3, <1>4, <1>5 DEF Agrees
<1>7. /\ \A u \in Threads : a \in shared'[u] <=> u = t \/ a \in shared[u]
      /\ \A u \in Threads, s \in Slots :
           u # t \/ s # a => (s \in shared'[u] <=> s \in shared[u])
      /\ shared' \in [Threads -> SUBSET Slots]
  BY <1>4, <1>5
<1>8. /\ \A u \in Threads : u \in readers'[o] <=> u = t \/ u \in readers[o]
      /\ \A p \in Objs : p # o => readers'[p] = readers[p]
      /\ readers' \in [Objs -> SUBSET Threads]
  BY <1>4, <1>5
<1>9. Agrees(a, o)'
  BY <1>3, <1>4, <1>6, <1>7, <1>8 DEF Agrees
<1>10. TypeOK'
  BY <1>4, <1>7, <1>8, WaitingAfter, TypesAfter DEF SyncInv, TypeOK
<1>11. SyncInv'
  <2>1. \A u \in Threads, s \in Slots : hold'[u][s] = hold[u][s]
    BY <1>4
  <2>2. /\ hold'[t][a] > 0 => Kind[a] # "cond"
        /\ Kind[a] = "rwlock" => hold'[t][a] <= 1
    BY <1>6, <2>1
  <2> QED
    BY <1>2, <1>3, <1>4, <1>7, <1>8, <1>9, <1>10, <2>1, <2>2, WaitingAfter,
       CallStepKeeps
<1>12. Posix!ReadLock(t, a)
  BY <1>3, <1>4, <1>6, WaitingAfter DEF Posix!ReadLock
<1> QED
  BY <1>11, <1>12 DEF Posix!Next

\* pthread_rwlock_unlock finds the caller as the writer or among the readers.
LEMMA RwUnlockKeeps ==
    ASSUME Fits, SyncInv, [Next]_vars, NEW t \in Threads, RwUnlock(t)
    PROVE  SyncInv' /\ Posix!Next
<1> USE NullAssumption, DepthAssumption
<1>1. pc[t] = "call" /\ op[t] = "rwunlock" /\ op[t] # "none"
  BY DEF RwUnlock, At
<1>2. PICK a \in Slots, o \in Objs : a = arg[t] /\ o = ptr[t]
  BY <1>1, OpKind
<1>3. /\ Resolved(t) /\ Agrees(a, o) /\ Kind[a] = "rwlock" /\ asleep[t] = "no"
      /\ hold[t][a] > 0 \/ a \in shared[t]
      /\ hold[t][a] <= 1
  BY <1>1, <1>2, OpKind DEF RwOps, SyncInv, RightsInv, RightsOK, KindInv
<1>4. Return(t) /\ Finish(t) /\ depth' = depth
  BY DEF RwUnlock, Return
<1>5. /\ owner \in [Objs -> Threads \cup {Null}]
      /\ readers \in [Objs -> SUBSET Threads] /\ shared \in [Threads -> SUBSET Slots]
      /\ hold \in [Threads -> [Slots -> 0 .. MaxDepth]]
  BY DEF SyncInv, TypeOK
<1>6. CASE hold[t][a] > 0
  <2>1. /\ owner[o] = t /\ readers[o] = {} /\ hold[t][a] = 1
        /\ \A u \in Threads : a \notin shared[u]
        /\ \A u \in Threads : u # t => hold[u][a] = 0
    BY <1>3, <1>5, <1>6 DEF Agrees
  <2>2. /\ owner' = [owner EXCEPT ![o] = Null] /\ Lose(t, a)
        /\ UNCHANGED <<readers, shared>>
    BY <1>2, <1>6, <2>1 DEF RwUnlock
  <2>3. /\ hold'[t][a] = 0 /\ hold' \in [Threads -> [Slots -> 0 .. MaxDepth]]
        /\ \A u \in Threads, s \in Slots : u # t \/ s # a => hold'[u][s] = hold[u][s]
    <3>1. hold[t][a] - 1 = 0 /\ 0 \in 0 .. MaxDepth
      BY <2>1
    <3> QED
      BY <1>5, <2>2, <3>1 DEF Lose
  <2>4. /\ owner'[o] = Null /\ owner' \in [Objs -> Threads \cup {Null}]
        /\ \A p \in Objs : p # o => owner'[p] = owner[p]
    BY <1>5, <2>2
  <2>5. Agrees(a, o)'
    BY <1>3, <2>1, <2>2, <2>3, <2>4 DEF Agrees
  <2>6. TypeOK'
    BY <1>4, <2>2, <2>3, <2>4, WaitingAfter, TypesAfter DEF SyncInv, TypeOK
  <2>7. SyncInv'
    <3>1. \A u \in Threads, s \in Slots : s \in shared'[u] <=> s \in shared[u]
      BY <2>2
    <3>2. /\ hold'[t][a] > 0 => Kind[a] # "cond"
          /\ Kind[a] = "rwlock" => hold'[t][a] <= 1
      BY <2>3
    <3> QED
      BY <1>2, <1>3, <1>4, <2>2, <2>3, <2>4, <2>5, <2>6, <3>1, <3>2, WaitingAfter,
         CallStepKeeps
  <2>8. Posix!RwUnlock(t, a)
    BY <1>3, <1>4, <1>6, <2>2, WaitingAfter DEF Posix!RwUnlock, Posix!Remove, Lose
  <2> QED
    BY <2>7, <2>8 DEF Posix!Next
<1>7. CASE ~(hold[t][a] > 0)
  <2>1. /\ a \in shared[t] /\ t \in readers[o] /\ owner[o] = Null
        /\ \A u \in Threads : hold[u][a] = 0
    BY <1>3, <1>5, <1>7 DEF Agrees
  <2>2. /\ readers' = [readers EXCEPT ![o] = @ \ {t}]
        /\ shared' = [shared EXCEPT ![t] = @ \ {a}]
        /\ UNCHANGED <<owner, hold>>
    BY <1>2, <1>7, <2>1 DEF RwUnlock
  <2>3. /\ \A u \in Threads : a \in shared'[u] <=> u # t /\ a \in shared[u]
        /\ \A u \in Threads, s \in Slots :
             u # t \/ s # a => (s \in shared'[u] <=> s \in shared[u])
        /\ shared' \in [Threads -> SUBSET Slots]
    BY <1>5, <2>2
  <2>4. /\ \A u \in Threads : u \in readers'[o] <=> u # t /\ u \in readers[o]
        /\ \A p \in Objs : p # o => readers'[p] = readers[p]
        /\ readers' \in [Objs -> SUBSET Threads]
    BY <1>5, <2>2
  <2>5. Agrees(a, o)'
    BY <1>3, <2>1, <2>2, <2>3, <2>4 DEF Agrees
  <2>6. TypeOK'
    BY <1>4, <2>2, <2>3, <2>4, WaitingAfter, TypesAfter DEF SyncInv, TypeOK
  <2>7. SyncInv'
    <3>1. \A u \in Threads, s \in Slots : hold'[u][s] = hold[u][s]
      BY <2>2
    <3>2. /\ hold'[t][a] > 0 => Kind[a] # "cond"
          /\ Kind[a] = "rwlock" => hold'[t][a] <= 1
      BY <2>1, <3>1
    <3> QED
      BY <1>2, <1>3, <1>4, <2>2, <2>3, <2>4, <2>5, <2>6, <3>1, <3>2, WaitingAfter,
         CallStepKeeps
  <2>8. Posix!RwUnlock(t, a)
    BY <1>3, <1>4, <2>1, <2>2, WaitingAfter DEF Posix!RwUnlock
  <2> QED
    BY <2>7, <2>8 DEF Posix!Next
<1> QED
  BY <1>6, <1>7

-----------------------------------------------------------------------------
(***************************************************************************)
(* Condition variables.                                                    *)
(***************************************************************************)

\* Sleepers and signallers of one Bionic condition variable resolved one object.
LEMMA SameCond ==
    ASSUME SyncInv, NEW t \in Threads, pc[t] = "call", op[t] \in CondOps,
           NEW u \in Threads, asleep[u] # "no"
    PROVE  cptr[u] = ptr[t] <=> other[u] = arg[t]
<1>1. Resolved(t)
  BY OpKind DEF CondOps
<1>2. Resolved(u) /\ fn[u] = "wait"
  BY DEF SyncInv, OpInv, OpOK, Resolved, Resolves
<1>3. /\ arg[t] \in Slots /\ InPlace(arg[t]) /\ ptr[t] = slot[arg[t]]
      /\ other[u] \in Slots /\ InPlace(other[u]) /\ cptr[u] = slot[other[u]]
  BY <1>1, <1>2, CallInPlace DEF SyncInv
<1> QED
  BY <1>3, PlaceUnique DEF SyncInv

\* Setting the third field of a wait.
LEMMA WokenSet ==
    ASSUME NEW c, NEW m, NEW w, w = [cv |-> c, mutex |-> m, woken |-> FALSE]
    PROVE  [w EXCEPT !.woken = TRUE] = [cv |-> c, mutex |-> m, woken |-> TRUE]
<1>1. \A d : [w EXCEPT !.woken = d] = [cv |-> c, mutex |-> m, woken |-> d]
  OBVIOUS
<1> QED
  BY <1>1, Zenon

\* The threads the abstract specification sees asleep on a condition variable.
LEMMA SeenAsleep ==
    ASSUME SyncInv, NEW u \in Threads
    PROVE  /\ asleep[u] = "no" => Waiting[u] = Null
           /\ asleep[u] # "no" =>
                /\ Waiting[u] # Null /\ other[u] \in Slots /\ arg[u] \in Slots
                /\ Waiting[u].cv = other[u] /\ Waiting[u].mutex = arg[u]
                /\ Waiting[u].woken <=> asleep[u] = "woken"
           /\ \A c : Posix!Asleep(u, c) <=> asleep[u] = "asleep" /\ other[u] = c
<1>1. asleep[u] = "no" => Waiting[u] = Null
  BY DEF Waiting
<1>2. asleep[u] # "no" =>
        /\ Waiting[u] # Null /\ other[u] \in Slots /\ arg[u] \in Slots
        /\ Waiting[u].cv = other[u] /\ Waiting[u].mutex = arg[u]
        /\ Waiting[u].woken <=> asleep[u] = "woken"
  <2> SUFFICES ASSUME asleep[u] # "no"
               PROVE  /\ Waiting[u] # Null /\ other[u] \in Slots /\ arg[u] \in Slots
                      /\ Waiting[u].cv = other[u] /\ Waiting[u].mutex = arg[u]
                      /\ Waiting[u].woken <=> asleep[u] = "woken"
    OBVIOUS
  <2>1. Resolved(u) /\ fn[u] = "wait"
    BY DEF SyncInv, OpInv, OpOK, Resolved, Resolves
  <2>2. other[u] \in Slots /\ arg[u] \in Slots
    BY <2>1, CallInPlace DEF SyncInv
  <2>3. Waiting[u] = [cv |-> other[u], mutex |-> arg[u], woken |-> asleep[u] = "woken"]
    BY DEF Waiting
  <2>4. Waiting[u] \in [cv : Slots, mutex : Slots, woken : BOOLEAN]
    BY <2>2, <2>3
  <2>5. Waiting[u].woken <=> asleep[u] = "woken"
    <3>1. CASE asleep[u] = "woken"
      <4>1. Waiting[u] = [cv |-> other[u], mutex |-> arg[u], woken |-> TRUE]
        BY <3>1 DEF Waiting
      <4> QED
        BY <3>1, <4>1
    <3>2. CASE asleep[u] # "woken"
      <4>1. Waiting[u] = [cv |-> other[u], mutex |-> arg[u], woken |-> FALSE]
        BY <3>2 DEF Waiting
      <4> QED
        BY <3>2, <4>1
    <3> QED
      BY <3>1, <3>2
  <2>6. Waiting[u] # Null
    BY <2>4, WaitAssumption
  <2>7. Waiting[u].cv = other[u] /\ Waiting[u].mutex = arg[u]
    BY <2>3
  <2> QED
    BY <2>2, <2>5, <2>6, <2>7, Zenon
<1>3. asleep[u] \in {"no", "asleep", "woken"}
  BY DEF SyncInv, TypeOK
<1> QED
  BY <1>1, <1>2, <1>3 DEF Posix!Asleep

\* pthread_cond_wait gives one level of its mutex back as it falls asleep.
LEMMA CondSleepKeeps ==
    ASSUME Fits, SyncInv, [Next]_vars, NEW t \in Threads, CondSleep(t)
    PROVE  SyncInv' /\ Posix!Next
<1>1. pc[t] = "call" /\ op[t] \in WaitOps /\ op[t] # "none" /\ asleep[t] = "no"
  BY DEF CondSleep, At, WaitOps
<1>2. PICK a \in Slots, o \in Objs : a = arg[t] /\ o = ptr[t]
  BY <1>1, OpKind
<1>3. /\ Resolved(t) /\ Agrees(a, o) /\ Kind[a] = "mutex" /\ fn[t] = "wait"
      /\ other[t] \in Slots /\ Kind[other[t]] = "cond" /\ cptr[t] # Null
  BY <1>1, <1>2, OpKind
<1>4. hold[t][a] > 0
  BY <1>1, <1>2, <1>3 DEF SyncInv, RightsInv, RightsOK, WaitsWith
<1>5. /\ Drop(t, o) /\ Lose(t, a) /\ asleep' = [asleep EXCEPT ![t] = "asleep"]
      /\ UNCHANGED <<handleVars, op, readers, shared>>
  BY <1>2 DEF CondSleep
<1>6. /\ Agrees(a, o)'
      /\ owner' \in [Objs -> Threads \cup {Null}]
      /\ depth' \in [Objs -> 0 .. MaxDepth]
      /\ hold' \in [Threads -> [Slots -> 0 .. MaxDepth]]
      /\ \A p \in Objs : p # o => owner'[p] = owner[p] /\ depth'[p] = depth[p]
      /\ \A u \in Threads, s \in Slots : u # t \/ s # a => hold'[u][s] = hold[u][s]
      /\ hold'[t][a] < MaxDepth
  BY <1>3, <1>4, <1>5, DropAgrees
<1>7. /\ asleep' \in [Threads -> {"no", "asleep", "woken"}] /\ asleep'[t] = "asleep"
      /\ \A u \in Threads : u # t => asleep'[u] = asleep[u]
  BY <1>5 DEF SyncInv, TypeOK
<1>8. TypeOK'
  BY <1>5, <1>6, <1>7, TypesAfter DEF SyncInv, TypeOK
<1>9. SyncInv'
  <2>1. a \notin shared'[t]
    BY <1>3, <1>5 DEF SyncInv, KindInv
  <2>2. \A u \in Threads, s \in Slots : s \in shared'[u] <=> s \in shared[u]
    BY <1>5
  <2> QED
    BY <1>2, <1>3, <1>5, <1>6, <1>7, <1>8, <2>1, <2>2, CallStepKeeps
<1>10. Posix!CondWait(t, other[t], a)
  <2>1. Waiting[t] = Null
    BY <1>1, SeenAsleep
  <2>2. Waiting' = [Waiting EXCEPT ![t] =
                      [cv |-> other[t], mutex |-> a, woken |-> FALSE]]
    BY <1>2, <1>5, <1>7 DEF Waiting, handleVars, localVars
  <2> QED
    BY <1>3, <1>4, <1>5, <2>1, <2>2 DEF Posix!CondWait, Posix!Remove, Lose
<1> QED
  BY <1>3, <1>9, <1>10 DEF Posix!Next

\* Waking the threads in S: the sleepers a signal, a broadcast or a deadline wakes.
LEMMA WakeMaps ==
    ASSUME SyncInv, NEW S \in SUBSET Threads, S # {}, NEW c \in Slots,
           \A u \in S : asleep[u] = "asleep" /\ other[u] = c,
           \/ S = {u \in Threads : asleep[u] = "asleep" /\ other[u] = c}
           \/ \E u \in S : S = {u},
           \A u \in Threads : asleep'[u] = IF u \in S THEN "woken" ELSE asleep[u],
           \A u \in Threads :
              asleep[u] # "no" => arg'[u] = arg[u] /\ other'[u] = other[u],
           UNCHANGED clientVars
    PROVE  Posix!Next
<1>1. \A u \in S : Posix!Asleep(u, c)
  BY SeenAsleep
<1>2. {u \in Threads : asleep[u] = "asleep" /\ other[u] = c}
        = {u \in Threads : Posix!Asleep(u, c)}
  BY SeenAsleep
<1>3. ASSUME NEW u \in Threads
      PROVE  Waiting'[u] = IF u \in S THEN [Waiting[u] EXCEPT !.woken = TRUE]
                                      ELSE Waiting[u]
  <2>1. CASE u \in S
    <3>1. Waiting[u] = [cv |-> other[u], mutex |-> arg[u], woken |-> FALSE]
      BY <2>1 DEF Waiting
    <3>2. Waiting'[u] = [cv |-> other[u], mutex |-> arg[u], woken |-> TRUE]
      BY <2>1 DEF Waiting
    <3>3. [Waiting[u] EXCEPT !.woken = TRUE]
            = [cv |-> other[u], mutex |-> arg[u], woken |-> TRUE]
      BY <3>1, WokenSet, Zenon
    <3> QED
      BY <2>1, <3>2, <3>3
  <2>2. CASE u \notin S
    BY <2>2 DEF Waiting
  <2> QED
    BY <2>1, <2>2
<1>4. Waiting' = [u \in Threads |-> IF u \in S THEN [Waiting[u] EXCEPT !.woken = TRUE]
                                             ELSE Waiting[u]]
  BY <1>3 DEF Waiting
<1>5. Posix!Wake(S)
  BY <1>1, <1>2, <1>4 DEF Posix!Wake, clientVars
<1> QED
  BY <1>5 DEF Posix!Next

\* A signal or a broadcast wakes sleepers of its condition variable, or nobody
\* when nobody sleeps.
LEMMA WakeUpKeeps ==
    ASSUME Fits, SyncInv, [Next]_vars, NEW t \in Threads, CondSignal(t) \/ CondBroadcast(t)
    PROVE  SyncInv' /\ [Posix!Next]_(Posix!syncVars)
<1>1. pc[t] = "call" /\ op[t] \in CondOps /\ op[t] # "none"
  BY DEF CondSignal, CondBroadcast, At, CondOps
<1>2. Resolved(t) /\ arg[t] \in Slots /\ asleep[t] = "no"
  BY <1>1, OpKind
<1>3. PICK S \in SUBSET Sleepers(ptr[t]) :
         WakeUp(t, S) /\ (S = Sleepers(ptr[t]) \/ \E u \in S : S = {u})
  <2>1. CASE CondBroadcast(t)
    BY <2>1 DEF CondBroadcast
  <2>2. CASE CondSignal(t)
    <3>1. CASE Sleepers(ptr[t]) = {}
      BY <2>2, <3>1 DEF CondSignal
    <3>2. CASE Sleepers(ptr[t]) # {}
      BY <2>2, <3>2 DEF CondSignal
    <3> QED
      BY <3>1, <3>2
  <2> QED
    BY <2>1, <2>2
<1>4. /\ S \in SUBSET Threads /\ t \notin S
      /\ \A u \in S : asleep[u] = "asleep" /\ other[u] = arg[t]
  BY <1>1, <1>2, SameCond DEF Sleepers
<1>5. Sleepers(ptr[t]) = {u \in Threads : asleep[u] = "asleep" /\ other[u] = arg[t]}
  BY <1>1, SameCond DEF Sleepers
<1>6. /\ Finish(t) /\ UNCHANGED <<glibcVars, clientVars>>
      /\ asleep' \in [Threads -> {"no", "asleep", "woken"}]
      /\ \A u \in Threads : asleep'[u] = IF u \in S THEN "woken" ELSE asleep[u]
      /\ op' \in [Threads -> MutexOps \cup RwOps \cup CondOps \cup WaitOps \cup {"none"}]
      /\ op'[t] = "none" /\ \A u \in Threads : u # t => op'[u] = op[u]
  BY <1>3 DEF WakeUp, SyncInv, TypeOK
<1>7. TypeOK'
  BY <1>6, TypesAfter DEF SyncInv, TypeOK, glibcVars, clientVars
<1>8. SyncInv'
  <2>1. \A u \in Threads : u # t =>
           asleep'[u] = asleep[u] \/ (asleep[u] # "no" /\ asleep'[u] # "no")
    BY <1>4, <1>6
  <2> QED
    BY <1>2, <1>4, <1>6, <1>7, <2>1, NoLockKeeps
<1>9. \A u \in Threads : asleep[u] # "no" => arg'[u] = arg[u] /\ other'[u] = other[u]
  BY <1>2, <1>6 DEF Finish, SyncInv, IInv, HandleTypeOK
<1>10. CASE S = {}
  <2>1. Waiting' = Waiting
    BY <1>6, <1>9, <1>10 DEF Waiting
  <2> QED
    BY <1>6, <1>8, <2>1 DEF Posix!syncVars, clientVars
<1>11. CASE S # {}
  <2>1. PICK c \in Slots : c = arg[t]
    BY <1>2
  <2> QED
    BY <1>3, <1>4, <1>5, <1>6, <1>8, <1>9, <1>11, <2>1, WakeMaps
<1> QED
  BY <1>10, <1>11

\* A deadline wakes its own thread.
LEMMA DeadlineKeeps ==
    ASSUME Fits, SyncInv, [Next]_vars, NEW t \in Threads, Deadline(t)
    PROVE  SyncInv' /\ Posix!Next
<1>1. /\ pc[t] = "call" /\ op[t] # "none" /\ asleep[t] = "asleep"
      /\ asleep' = [asleep EXCEPT ![t] = "woken"]
      /\ UNCHANGED <<handleVars, op, glibcVars, clientVars>>
  BY DEF Deadline, At
<1>2. Resolved(t) /\ other[t] \in Slots
  BY <1>1, OpKind, SeenAsleep
<1>3. /\ asleep' \in [Threads -> {"no", "asleep", "woken"}]
      /\ \A u \in Threads : asleep'[u] = IF u \in {t} THEN "woken" ELSE asleep[u]
  BY <1>1 DEF SyncInv, TypeOK
<1>4. TypeOK'
  BY <1>1, <1>3, TypesAfter DEF SyncInv, TypeOK, glibcVars, clientVars
<1>5. SyncInv'
  BY <1>1, <1>2, <1>3, <1>4, NoLockKeeps
<1>6. Posix!Next
  <2>1. PICK c \in Slots, S \in SUBSET Threads : c = other[t] /\ S = {t}
    BY <1>2
  <2>2. \A u \in Threads :
           asleep[u] # "no" => arg'[u] = arg[u] /\ other'[u] = other[u]
    BY <1>1 DEF handleVars, localVars
  <2>3. /\ \A u \in S : asleep[u] = "asleep" /\ other[u] = c
        /\ S # {} /\ \E u \in S : S = {u}
        /\ \A u \in Threads : asleep'[u] = IF u \in S THEN "woken" ELSE asleep[u]
    BY <1>1, <1>3, <2>1
  <2> QED
    BY <1>1, <2>2, <2>3, WakeMaps
<1> QED
  BY <1>5, <1>6

\* pthread_cond_wait returns with the mutex taken again.
LEMMA CondReturnKeeps ==
    ASSUME Fits, SyncInv, [Next]_vars, NEW t \in Threads, CondReturn(t)
    PROVE  SyncInv' /\ Posix!Next
<1>1. pc[t] = "call" /\ asleep[t] = "woken"
  BY DEF CondReturn
<1>2. op[t] \in WaitOps /\ op[t] # "none"
  BY <1>1 DEF SyncInv, OpInv, OpOK, WaitOps
<1>3. PICK a \in Slots, o \in Objs : a = arg[t] /\ o = ptr[t]
  BY <1>1, <1>2, OpKind
<1>4. Resolved(t) /\ Agrees(a, o) /\ Kind[a] = "mutex" /\ hold[t][a] < MaxDepth
  BY <1>1, <1>2, <1>3, OpKind DEF SyncInv, RightsInv, RightsOK
<1>5. /\ Available(t, o) /\ Take(t, o) /\ Gain(t, a) /\ Return(t) /\ Finish(t)
      /\ UNCHANGED <<readers, shared>>
  BY <1>3 DEF CondReturn, Return
<1>6. /\ Agrees(a, o)'
      /\ owner' \in [Objs -> Threads \cup {Null}]
      /\ depth' \in [Objs -> 0 .. MaxDepth]
      /\ hold' \in [Threads -> [Slots -> 0 .. MaxDepth]]
      /\ \A p \in Objs : p # o => owner'[p] = owner[p] /\ depth'[p] = depth[p]
      /\ \A u \in Threads, s \in Slots : u # t \/ s # a => hold'[u][s] = hold[u][s]
      /\ Posix!NobodyElseHolds(t, a)
  BY <1>4, <1>5, TakeAgrees
<1>7. TypeOK'
  BY <1>5, <1>6, WaitingAfter, TypesAfter DEF SyncInv, TypeOK
<1>8. SyncInv'
  <2>1. a \notin shared'[t]
    BY <1>4, <1>5 DEF SyncInv, KindInv
  <2>2. \A u \in Threads, s \in Slots : s \in shared'[u] <=> s \in shared[u]
    BY <1>5
  <2> QED
    BY <1>3, <1>4, <1>5, <1>6, <1>7, <2>1, <2>2, WaitingAfter, CallStepKeeps
<1>9. Posix!Reacquire(t)
  <2>1. Waiting[t] # Null /\ Waiting[t].woken /\ Waiting[t].mutex = a
    BY <1>1, <1>3, SeenAsleep
  <2> QED
    BY <1>5, <1>6, <2>1, WaitingAfter DEF Posix!Reacquire, Posix!Add, Gain
<1> QED
  BY <1>8, <1>9 DEF Posix!Next

\* b_X_init and b_X_destroy return.
LEMMA ReplaceReturnKeeps ==
    ASSUME Fits, SyncInv, [Next]_vars, NEW t \in Threads, ReplaceReturn(t)
    PROVE  SyncInv' /\ UNCHANGED Posix!syncVars
<1> USE DEF SyncInv
<1>1. /\ pc[t] = "call" /\ fn[t] \in Replaces /\ Finish(t) /\ UNCHANGED syncVars
      /\ HandleNext
  BY DEF ReplaceReturn, HandleNext
<1>2. op[t] = "none" /\ asleep[t] = "no"
  BY <1>1 DEF OpInv, OpOK, Replaces
<1>3. /\ pc'[t] = "idle" /\ UNCHANGED <<tableVars, fresh>>
      /\ \A u \in Threads : u # t =>
           /\ pc'[u] = pc[u] /\ fn'[u] = fn[u] /\ arg'[u] = arg[u]
           /\ other'[u] = other[u] /\ cptr'[u] = cptr[u]
  BY <1>1 DEF Finish, Goto, IInv, HandleTypeOK
<1>4. IInv' /\ TypeOK'
  BY <1>1, NextKeeps DEF TypeOK, IInv, syncVars, glibcVars, clientVars
<1>5. OpInv'
  BY <1>1, <1>2, <1>3 DEF OpInv, OpOK, WaitsOn, WaitsWith, syncVars
<1>6. RightsInv'
  BY <1>1, <1>2, <1>3 DEF RightsInv, RightsOK, WaitsWith, WaitOps, syncVars, clientVars
<1>7. KindInv'
  BY <1>1 DEF KindInv, syncVars, clientVars
<1>8. HeldInv'
  <2>1. \A s \in Slots : slot'[s] = slot[s]
    BY <1>3 DEF tableVars
  <2>2. \A u \in Threads :
           \/ pc'[u] = "idle"
           \/ pc[u] # "idle" /\ fn'[u] = fn[u] /\ arg'[u] = arg[u]
           \/ fn'[u] \notin Replaces
    BY <1>3 DEF Finish
  <2>3. \A u \in Threads :
           pc'[u] # "idle" /\ fn'[u] \in Replaces =>
             pc[u] # "idle" /\ fn[u] \in Replaces /\ arg'[u] = arg[u]
    BY <1>3
  <2> QED
    BY <1>1, <2>1, <2>3 DEF HeldInv, Held, syncVars, clientVars
<1>9. GlibcInv' /\ UnlockedInv'
  BY <1>1, <1>3, QuietAgrees, QuietUnlocked DEF syncVars, glibcVars
<1>10. Waiting' = Waiting
  BY <1>1, <1>2, <1>3 DEF Waiting, syncVars
<1> QED
  BY <1>1, <1>4, <1>5, <1>6, <1>7, <1>8, <1>9, <1>10 DEF Posix!syncVars, syncVars,
     clientVars

\* What the application and the bridge do on the way changes nothing the
\* application sees.
LEMMA QuietMaps ==
    ASSUME SyncInv,
           \/ \E t \in Threads : Client(t) \/ Create(t) \/ Resolve(t)
           \/ \E s \in Slots : Reuse(s)
    PROVE  UNCHANGED Posix!syncVars
<1> USE DEF SyncInv
<1>1. UNCHANGED <<asleep, clientVars>>
  BY DEF Client, CallUse, CallInit, CallDestroy, CallWait, Ask, Reuse, Create, Resolve,
         syncVars
<1>2. ASSUME NEW u \in Threads, asleep[u] # "no"
      PROVE  arg'[u] = arg[u] /\ other'[u] = other[u]
  <2>1. pc[u] = "call"
    BY <1>2 DEF OpInv, OpOK
  <2>2. CASE \E t \in Threads : Client(t)
    BY <2>1, <2>2 DEF Client, CallUse, CallInit, CallDestroy, CallWait, EnterUse,
       EnterInit, EnterDestroy, EnterWait, Enter, IInv, HandleTypeOK
  <2>3. CASE \E t \in Threads : Create(t) \/ Resolve(t)
    BY <2>1, <2>3, Way
  <2>4. CASE \E s \in Slots : Reuse(s)
    BY <2>4 DEF Reuse, Recycle, localVars
  <2> QED
    BY <2>2, <2>3, <2>4
<1>3. Waiting' = Waiting
  BY <1>1, <1>2 DEF Waiting
<1> QED
  BY <1>1, <1>3 DEF Posix!syncVars, clientVars

-----------------------------------------------------------------------------
(***************************************************************************)
(* The theorems.                                                           *)
(***************************************************************************)

\* Nothing is held at the start.
LEMMA SyncInitHolds == Init => SyncInv /\ Posix!Init
<1> SUFFICES ASSUME Init PROVE SyncInv /\ Posix!Init
  OBVIOUS
<1> USE NullAssumption, DepthAssumption
<1>1. IInv
  BY InitHolds DEF Init
<1>2. TypeOK
  BY <1>1 DEF Init, TypeOK, IInv
<1>3. OpInv /\ RightsInv /\ KindInv
  BY DEF Init, HandleInit, OpInv, OpOK, RightsInv, RightsOK, KindInv, WaitOps
<1>4. HeldInv
  BY DEF Init, HeldInv, Held
<1>5. GlibcInv /\ UnlockedInv
  BY ObjsAssumption DEF Init, HandleInit, GlibcInv, InPlace, UnlockedInv
<1>6. Posix!Init
  BY DEF Init, Posix!Init, Waiting
<1> QED
  BY <1>1, <1>2, <1>3, <1>4, <1>5, <1>6 DEF SyncInv

\* Every step keeps the invariant and is a step of PosixSync, or one that the
\* application does not see.
LEMMA SyncNextKeeps ==
    ASSUME Fits, SyncInv, [Next]_vars
    PROVE  SyncInv' /\ [Posix!Next]_(Posix!syncVars)
<1>1. ASSUME NEW t \in Threads, Client(t) \/ Create(t) \/ Resolve(t)
      PROVE  SyncInv' /\ [Posix!Next]_(Posix!syncVars)
  BY <1>1, ClientStepKeeps, BridgeStepKeeps, QuietMaps
<1>2. ASSUME NEW s \in Slots, Reuse(s)
      PROVE  SyncInv' /\ [Posix!Next]_(Posix!syncVars)
  BY <1>2, ClientStepKeeps, QuietMaps
<1>3. ASSUME NEW t \in Threads, Glibc(t)
      PROVE  SyncInv' /\ [Posix!Next]_(Posix!syncVars)
  <2>1. CASE MutexLock(t) \/ MutexUnlock(t) \/ TryLockBusy(t)
    BY <2>1, MutexLockKeeps, MutexUnlockKeeps, TryLockBusyKeeps
  <2>2. CASE WriteLock(t) \/ ReadLock(t) \/ RwUnlock(t)
    BY <2>2, WriteLockKeeps, ReadLockKeeps, RwUnlockKeeps
  <2>3. CASE CondSleep(t) \/ CondSignal(t) \/ CondBroadcast(t)
    BY <2>3, CondSleepKeeps, WakeUpKeeps
  <2>4. CASE Deadline(t) \/ CondReturn(t) \/ ReplaceReturn(t)
    BY <2>4, DeadlineKeeps, CondReturnKeeps, ReplaceReturnKeeps
  <2> QED
    BY <1>3, <2>1, <2>2, <2>3, <2>4 DEF Glibc
<1>4. CASE UNCHANGED vars
  <2>1. IInv'
    BY <1>4, NextKeeps DEF SyncInv, vars
  <2>2. UNCHANGED <<handleVars, glibcVars, clientVars, op, asleep>>
    BY <1>4 DEF vars, syncVars
  <2>3. TypeOK' /\ OpInv' /\ RightsInv' /\ KindInv' /\ HeldInv'
    BY <2>1, <2>2 DEF SyncInv, IInv, TypeOK, OpInv, OpOK, RightsInv, RightsOK, KindInv,
       HeldInv, Held, WaitsOn, WaitsWith, handleVars, tableVars, localVars, glibcVars,
       clientVars
  <2>4. GlibcInv' /\ UnlockedInv'
    BY <2>2, QuietAgrees, QuietUnlocked DEF handleVars, localVars, glibcVars
  <2>5. UNCHANGED Posix!syncVars
    BY <2>2 DEF Posix!syncVars, Waiting, clientVars, handleVars, localVars
  <2> QED
    BY <2>1, <2>3, <2>4, <2>5 DEF SyncInv
<1> QED
  BY <1>1, <1>2, <1>3, <1>4 DEF Next

\* The inductive invariant of mutexes, rwlocks and condition variables as the
\* application uses them (pthread_bridge.c:48-308).
THEOREM SyncInvariance == ASSUME Fits PROVE Spec => []SyncInv
<1>1. SyncInv /\ [Next]_vars => SyncInv'
  BY SyncNextKeeps
<1> QED
  BY <1>1, SyncInitHolds, PTL DEF Spec

\* Type correctness: no lock count leaves 0 .. MaxDepth.
THEOREM SyncTypeCorrect == ASSUME Fits PROVE Spec => []TypeOK
<1>1. SyncInv => TypeOK
  BY DEF SyncInv
<1> QED
  BY <1>1, SyncInvariance, PTL

\* What is held is in place.
LEMMA HeldInPlace == ASSUME SyncInv, NEW s \in Slots, Held(s) PROVE InPlace(s)
<1>1. /\ slot[s] \in Objs
      /\ \A u \in Threads : pc[u] # "idle" /\ fn[u] \in Replaces => arg[u] # s
  BY DEF SyncInv, HeldInv
<1> SUFFICES ASSUME Dangling(s) PROVE FALSE
  BY <1>1 DEF InPlace
<1>2. /\ g_lock \in Threads /\ arg[g_lock] = s
      /\ pc[g_lock] \in {"fill", "clear", "free", "alloc", "track", "store", "publish"}
  BY DEF Dangling, Phase
<1>3. fn[g_lock] \notin Replaces
  BY <1>1, <1>2
<1>4. fn[g_lock] \in Resolves /\ pc[g_lock] \in {"alloc", "track", "store", "publish"}
  BY <1>2, <1>3 DEF SyncInv, IInv, HandleTypeOK, CallInv, CallOK
<1> QED
  BY <1>1, <1>2, <1>4 DEF SyncInv, IInv, SlotInv

\* lock and unlock reach the same glibc object: it counts what its holder holds.
THEOREM LocksMatch == ASSUME Fits PROVE Spec => []HoldsMatch
<1>1. ASSUME SyncInv, NEW t \in Threads, NEW s \in Slots,
             hold[t][s] > 0 \/ s \in shared[t]
      PROVE  slot[s] \in Objs /\ Agrees(s, slot[s])
  <2>1. InPlace(s)
    BY <1>1, HeldInPlace DEF Held
  <2> QED
    BY <1>1, <2>1 DEF SyncInv, GlibcInv, InPlace
<1>2. SyncInv => HoldsMatch
  BY <1>1 DEF HoldsMatch, Agrees
<1> QED
  BY <1>2, SyncInvariance, PTL

\* A mutex or a write lock has one holder, whatever threads lock first, destroy
\* and create meanwhile (pthread_bridge.c:6).
THEOREM LocksExclude == ASSUME Fits PROVE Spec => []Exclusion
<1>1. ASSUME SyncInv, NEW s \in Slots, NEW t \in Threads, NEW u \in Threads,
             t # u, hold[t][s] > 0
      PROVE  hold[u][s] = 0 /\ s \notin shared[u]
  <2>1. InPlace(s)
    BY <1>1, HeldInPlace DEF Held
  <2>2. Agrees(s, slot[s])
    BY <1>1, <2>1 DEF SyncInv, GlibcInv
  <2>3. owner[slot[s]] = t /\ readers[slot[s]] = {}
    BY <1>1, <2>2, NullAssumption DEF Agrees
  <2>4. hold[u][s] \in Nat
    BY <1>1 DEF SyncInv, TypeOK
  <2> QED
    BY <1>1, <2>2, <2>3, <2>4 DEF Agrees
<1>2. SyncInv => Exclusion
  BY <1>1 DEF Exclusion
<1> QED
  BY <1>2, SyncInvariance, PTL

\* A signal or broadcast on a condition variable with a sleeper wakes one: waiter
\* and signaller resolved one object (cond_real, pthread_bridge.c:174-184).
THEOREM WakeupsArrive == ASSUME Fits PROVE Spec => NoLostWakeup
<1>1. ASSUME SyncInv, NEW t \in Threads, NEW u \in Threads,
             CondSignal(t) \/ CondBroadcast(t),
             asleep[u] = "asleep", other[u] = arg[t]
      PROVE  \E v \in Threads : asleep[v] = "asleep" /\ asleep'[v] = "woken"
                               /\ other[v] = arg[t]
  <2>1. pc[t] = "call" /\ op[t] \in CondOps
    BY <1>1 DEF CondSignal, CondBroadcast, At, CondOps
  <2>2. u \in Sleepers(ptr[t])
    BY <1>1, <2>1, SameCond DEF Sleepers
  <2>3. PICK S \in SUBSET Sleepers(ptr[t]) : S # {} /\ WakeUp(t, S)
    <3>1. CASE CondBroadcast(t)
      BY <2>2, <3>1 DEF CondBroadcast
    <3>2. CASE CondSignal(t)
      BY <2>2, <3>2 DEF CondSignal
    <3> QED
      BY <1>1, <3>1, <3>2
  <2>4. PICK v \in S : v \in Threads /\ asleep[v] = "asleep" /\ cptr[v] = ptr[t]
    BY <2>3 DEF Sleepers
  <2>5. asleep'[v] = "woken"
    BY <2>3, <2>4 DEF WakeUp
  <2>6. other[v] = arg[t]
    BY <1>1, <2>1, <2>4, SameCond
  <2> QED
    BY <2>4, <2>5, <2>6
<1>2. SyncInv =>
        [\A t, u \in Threads :
            (\/ CondSignal(t) \/ CondBroadcast(t))
              /\ asleep[u] = "asleep" /\ other[u] = arg[t]
            => \E v \in Threads : asleep[v] = "asleep" /\ asleep'[v] = "woken"
                                  /\ other[v] = arg[t]]_vars
  BY <1>1
<1> QED
  BY <1>2, SyncInvariance, PTL DEF NoLostWakeup

\* trylock reports EBUSY only for a mutex another thread holds.
THEOREM BusyIsHonest == ASSUME Fits PROVE Spec => BusyIsTrue
<1>1. ASSUME SyncInv, NEW t \in Threads, TryLockBusy(t)
      PROVE  \E u \in Threads \ {t} : hold[u][arg[t]] > 0
  <2>1. pc[t] = "call" /\ op[t] = "trylock" /\ op[t] # "none"
    BY <1>1 DEF TryLockBusy, At
  <2>2. ptr[t] \in Objs /\ Agrees(arg[t], ptr[t])
    BY <1>1, <2>1, OpKind
  <2>3. owner[ptr[t]] \in Threads \ {t}
    BY <1>1, <2>2 DEF TryLockBusy, Available, SyncInv, TypeOK
  <2> QED
    BY <2>2, <2>3 DEF Agrees
<1>2. SyncInv => [\A t \in Threads :
                    TryLockBusy(t) => \E u \in Threads \ {t} : hold[u][arg[t]] > 0]_vars
  BY <1>1
<1> QED
  BY <1>2, SyncInvariance, PTL DEF BusyIsTrue

\* The bridge implements what pthread promises: each step is a step of PosixSync,
\* or one the application does not see.
THEOREM SyncImplementsPosix == ASSUME Fits PROVE Spec => ImplementsPosix
<1>1. SyncInv /\ [Next]_vars => [Posix!Next]_(Posix!syncVars)
  BY SyncNextKeeps
<1>2. Init => Posix!Init
  BY SyncInitHolds
<1> QED
  BY <1>1, <1>2, SyncInvariance, PTL DEF Spec, ImplementsPosix, Posix!Spec
=============================================================================
