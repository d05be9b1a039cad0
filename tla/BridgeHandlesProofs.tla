------------------------- MODULE BridgeHandlesProofs -------------------------
(***************************************************************************)
(* Proofs about BridgeHandles, for any number of threads, objects and      *)
(* addresses, as long as the table is large enough for all objects alive   *)
(* at a time and reused memory holds no address the bridge wrote there.    *)
(***************************************************************************)
EXTENDS BridgeHandles, FiniteSetTheorems, TLAPS

\* What the theorems assume of the constants; run handles_stale_storage and run
\* sync_table_full show that neither half can be dropped.
Fits == Cardinality(Objs) <= MAX_TRACKED_OBJS /\ Storage \cap Objs = {}

-----------------------------------------------------------------------------
(***************************************************************************)
(* The inductive invariant.                                                *)
(***************************************************************************)

Index == 0 .. MAX_TRACKED_OBJS - 1

\* What the holder of g_lock is doing.
Phase == IF g_lock \in Threads THEN pc[g_lock] ELSE "idle"

\* The entries that count: untrack_obj leaves a hole for one step, and track_obj
\* an entry not yet written.
Used(i) ==
    IF Phase = "fill" THEN i <= g_num_tracked /\ i # idx[g_lock]
    ELSE IF Phase = "store" THEN i < g_num_tracked - 1
    ELSE i < g_num_tracked

Listed(o) == \E i \in Index : Used(i) /\ g_tracked_objs[i] = o

\* The slot the holder of g_lock is about to overwrite.
Dangling(s) ==
    /\ Phase \in {"fill", "clear", "free", "alloc", "track", "store", "publish"}
    /\ arg[g_lock] = s

Dropping(t) == pc[t] \in {"fill", "clear", "free"} /\ ptr[t] # Null

LockInv == \A t \in Threads : pc[t] \in Locked <=> g_lock = t

CallOK(t) ==
    /\ pc[t] # "idle" => fn[t] # "none" /\ arg[t] \in Slots
    /\ pc[t] # "idle" /\ fn[t] = "wait" => other[t] \in Slots
    /\ pc[t] \in {"read", "test", "probe", "return"} => fn[t] \in Resolves
    /\ pc[t] \in {"prealloc", "untrack", "fill", "clear", "free"}
         => fn[t] \in Replaces
    /\ pc[t] \in {"prealloc", "alloc", "track", "store", "publish"}
         => fn[t] # "destroy"
    /\ pc[t] = "prealloc" => fn[t] = "init"
    /\ pc[t] = "clear" => fn[t] = "destroy"
    /\ pc[t] = "probe" => idx[t] < lim[t]

CallInv == \A t \in Threads : CallOK(t)

ContractInv ==
    \A t, u \in Threads :
        t # u /\ pc[t] # "idle" /\ fn[t] \in Replaces => ~InCall(u, arg[t])

FreshOK(t) ==
    /\ pc[t] \in {"track", "store", "publish"} => fresh[t] # Null
    /\ fresh[t] # Null =>
          /\ fresh[t] \in live
          /\ pc[t] = "publish" <=> Listed(fresh[t])
          /\ \/ pc[t] \in {"track", "store", "publish"}
             \/ /\ fn[t] = "init"
                /\ pc[t] \in {"lock", "check", "untrack", "fill", "free"}

FreshInv ==
    /\ \A t \in Threads : FreshOK(t)
    /\ \A t, u \in Threads : t # u /\ fresh[t] = fresh[u] => fresh[t] = Null

PtrOK(t) ==
    /\ pc[t] = "idle" => ptr[t] = Null
    /\ fn[t] \in Replaces /\ pc[t] \notin {"untrack", "fill", "clear", "free"}
         => ptr[t] = Null
    /\ pc[t] = "untrack" =>
          ptr[t] \in Objs /\ Listed(ptr[t]) /\ ptr[t] = slot[arg[t]]
    /\ pc[t] \in {"fill", "free"} => ptr[t] # Null
    /\ Dropping(t) =>
          /\ ptr[t] \in live /\ ~Listed(ptr[t])
          /\ \A u \in Threads : fresh[u] # ptr[t]

PtrInv == \A t \in Threads : PtrOK(t)

TableInv ==
    /\ Phase = "fill" =>
          g_num_tracked < MAX_TRACKED_OBJS /\ idx[g_lock] <= g_num_tracked
    /\ Phase = "store" => g_num_tracked > 0
    /\ \A i, j \in Index :
          Used(i) /\ Used(j) /\ g_tracked_objs[i] = g_tracked_objs[j] => i = j
    /\ \A i \in Index : Used(i) => g_tracked_objs[i] \in live
    /\ \A o \in live : \/ Listed(o)
                       \/ \E t \in Threads : fresh[t] = o
                       \/ \E t \in Threads : Dropping(t) /\ ptr[t] = o

SlotInv ==
    /\ \A s \in Slots : slot[s] \in Objs /\ ~Dangling(s) => Listed(slot[s])
    /\ \A s, r \in Slots :
          s # r /\ ~Dangling(s) /\ ~Dangling(r) /\ slot[s] = slot[r]
            => slot[s] \notin Objs
    /\ \A t \in Threads, s \in Slots :
          pc[t] = "publish" /\ s # arg[t] => slot[s] # fresh[t]
    /\ \A t \in Threads :
          fn[t] = "destroy" /\ pc[t] = "free" => slot[arg[t]] = Null
    /\ \A t \in Threads :
          fn[t] \in Resolves /\ pc[t] \in {"alloc", "track", "store", "publish"}
            => slot[arg[t]] \notin Objs

ResolveOK(t) ==
    /\ pc[t] \in {"test", "probe"} =>
          ptr[t] = Garbage \/ (ptr[t] \in Objs /\ ptr[t] = slot[arg[t]])
    /\ pc[t] = "return" \/ (pc[t] = "unlock" /\ fn[t] \in Resolves)
         => slot[arg[t]] \in Objs
    /\ Resolved(t) => ptr[t] \in Objs /\ ptr[t] = slot[arg[t]]
    /\ fn[t] = "wait" /\ pc[t] # "idle" /\ (cptr[t] # Null \/ pc[t] = "call")
         => cptr[t] \in Objs /\ cptr[t] = slot[other[t]]
    /\ pc[t] = "idle" \/ fn[t] # "wait" => cptr[t] = Null

ResolveInv == \A t \in Threads : ResolveOK(t)

IInv ==
    /\ HandleTypeOK
    /\ LockInv
    /\ CallInv
    /\ ContractInv
    /\ FreshInv
    /\ PtrInv
    /\ TableInv
    /\ SlotInv
    /\ ResolveInv

-----------------------------------------------------------------------------
(***************************************************************************)
(* Steps of a thread that neither holds g_lock nor takes it.               *)
(***************************************************************************)

\* Such a step leaves the table, and what its entries mean, as they are.
LEMMA LocalStepTable ==
    ASSUME IInv, NEW t \in Threads, NEW l \in Labels \ Locked,
           pc[t] \notin Locked, Goto(t, l),
           UNCHANGED <<g_lock, g_tracked_objs, g_num_tracked>>,
           \A u \in Threads : u # t => arg'[u] = arg[u] /\ idx'[u] = idx[u]
    PROVE  /\ Phase' = Phase
           /\ \A i \in Index : Used(i)' = Used(i)
           /\ \A o : Listed(o)' = Listed(o)
           /\ \A s : Dangling(s)' = Dangling(s)
<1>1. g_lock # t
  BY DEF IInv, LockInv
<1>2. Phase' = Phase
  BY <1>1 DEF Phase, Goto, IInv, HandleTypeOK
<1>3. g_lock \in Threads => arg'[g_lock] = arg[g_lock] /\ idx'[g_lock] = idx[g_lock]
  BY <1>1
<1>4. Phase # "idle" => g_lock \in Threads
  BY DEF Phase
<1>5. \A i \in Index : Used(i)' = Used(i)
  BY <1>2, <1>3, <1>4 DEF Used
<1>6. \A o : Listed(o)' = Listed(o)
  BY <1>5 DEF Listed, Index
<1>7. \A s : Dangling(s)' = Dangling(s)
  BY <1>2, <1>3, <1>4 DEF Dangling
<1> QED
  BY <1>2, <1>5, <1>6, <1>7

\* The table part of the invariant survives such a step.
LEMMA LocalStepTableInv ==
    ASSUME IInv, NEW t \in Threads, NEW l \in Labels \ Locked,
           pc[t] \notin Locked, Goto(t, l), UNCHANGED <<tableVars, fresh>>,
           \A u \in Threads :
              u # t => arg'[u] = arg[u] /\ idx'[u] = idx[u] /\ ptr'[u] = ptr[u]
    PROVE  TableInv'
<1>1. /\ Phase' = Phase
      /\ \A i \in Index : Used(i)' = Used(i)
      /\ \A o : Listed(o)' = Listed(o)
  BY LocalStepTable DEF tableVars
<1>2. \A u \in Threads : Dropping(u)' <=> Dropping(u)
  BY DEF Dropping, Goto, IInv, HandleTypeOK, Locked
<1>3. \A u \in Threads : Dropping(u) => ptr'[u] = ptr[u]
  BY DEF Dropping, Locked
<1>4. Phase # "idle" => g_lock \in Threads /\ g_lock # t
  BY DEF Phase, IInv, LockInv
<1>5. \A o \in live : \/ Listed(o)'
                      \/ \E u \in Threads : fresh'[u] = o
                      \/ \E u \in Threads : Dropping(u)' /\ ptr'[u] = o
  BY <1>1, <1>2, <1>3 DEF IInv, TableInv, tableVars
<1> QED
  BY <1>1, <1>4, <1>5 DEF IInv, TableInv, tableVars

\* A thread enters a function of one object: the contract of ready and Replacing
\* keeps init and destroy away from it.
LEMMA EnterUseKeeps ==
    ASSUME IInv, NEW t \in Threads, NEW s \in Slots, EnterUse(t, s)
    PROVE IInv'
<1> USE KindAssumption, ObjsAssumption, NullAssumption, SizeAssumption
<1> USE DEF IInv, EnterUse, Enter, Goto, tableVars
<1>0. PICK l \in {"read"} : pc' = [pc EXCEPT ![t] = l]
  BY DEF EnterUse, Enter
<1>1. /\ Phase' = Phase
      /\ \A i \in Index : Used(i)' = Used(i)
      /\ \A o : Listed(o)' = Listed(o)
      /\ \A r : Dangling(r)' = Dangling(r)
  BY <1>0, LocalStepTable DEF HandleTypeOK, Labels, Locked
<1>2. HandleTypeOK'
  BY <1>0 DEF HandleTypeOK, Labels, Words, CallInv, CallOK, Resolves, Replaces
<1>3. LockInv'
  BY <1>0 DEF LockInv, HandleTypeOK, Locked
<1>4. CallInv'
  BY <1>0 DEF CallInv, CallOK, HandleTypeOK, Resolves, Replaces
<1>5. ContractInv'
  BY <1>0 DEF ContractInv, InCall, CallInv, CallOK, HandleTypeOK, InUse, Replacing,
       Resolves, Replaces
<1>6. FreshInv'
  BY <1>0, <1>1 DEF FreshInv, FreshOK, HandleTypeOK, CallInv, CallOK, Resolves,
       Replaces
<1>7. ASSUME NEW u \in Threads PROVE PtrOK(u)'
  <2>1. CASE u = t
    BY <1>0, <1>1, <2>1 DEF PtrInv, PtrOK, Dropping, HandleTypeOK, CallInv, CallOK,
         Resolves, Replaces
  <2>2. CASE u # t
    BY <1>0, <1>1, <2>2 DEF PtrInv, PtrOK, Dropping, HandleTypeOK
  <2> QED
    BY <2>1, <2>2
<1>8. TableInv'
  BY <1>0, LocalStepTableInv DEF HandleTypeOK, Labels, Locked
<1>9. SlotInv'
  BY <1>0, <1>1 DEF SlotInv, HandleTypeOK
<1>10. ResolveInv'
  BY <1>0 DEF ResolveInv, ResolveOK, HandleTypeOK, Resolved, CallInv, CallOK, Words,
       Resolves, Replaces
<1> QED
  BY <1>2, <1>3, <1>4, <1>5, <1>6, <1>7, <1>8, <1>9, <1>10 DEF PtrInv

\* The same for b_cond_wait, which is in two objects at once.
LEMMA EnterWaitKeeps ==
    ASSUME IInv, NEW t \in Threads, NEW s \in Slots, NEW m \in Slots, EnterWait(t, s, m)
    PROVE IInv'
<1> USE KindAssumption, ObjsAssumption, NullAssumption, SizeAssumption
<1> USE DEF IInv, EnterWait, Enter, Goto, tableVars
<1>0. PICK l \in {"read"} : pc' = [pc EXCEPT ![t] = l]
  BY DEF EnterWait, Enter
<1>a. /\ pc[t] \notin Locked /\ UNCHANGED <<g_lock, fresh>>
      /\ \A u \in Threads :
            u # t => arg'[u] = arg[u] /\ idx'[u] = idx[u] /\ ptr'[u] = ptr[u]
  BY DEF HandleTypeOK, Locked
<1>1. /\ Phase' = Phase
      /\ \A i \in Index : Used(i)' = Used(i)
      /\ \A o : Listed(o)' = Listed(o)
      /\ \A r : Dangling(r)' = Dangling(r)
  BY <1>a, LocalStepTable DEF Labels, Locked
<1>2. HandleTypeOK'
  BY <1>0 DEF HandleTypeOK, Labels, Words, CallInv, CallOK, Resolves, Replaces
<1>3. LockInv'
  BY <1>0 DEF LockInv, HandleTypeOK, Locked
<1>4. CallInv'
  BY <1>0 DEF CallInv, CallOK, HandleTypeOK, Resolves, Replaces
<1>5. ContractInv'
  BY <1>0 DEF ContractInv, InCall, CallInv, CallOK, HandleTypeOK, InUse, Replacing,
       Resolves, Replaces
<1>6. FreshInv'
  BY <1>0, <1>1 DEF FreshInv, FreshOK, HandleTypeOK, CallInv, CallOK, Resolves,
       Replaces
<1>7. ASSUME NEW u \in Threads PROVE PtrOK(u)'
  <2>1. CASE u = t
    BY <1>0, <1>1, <2>1 DEF PtrInv, PtrOK, Dropping, HandleTypeOK, CallInv, CallOK,
         Resolves, Replaces
  <2>2. CASE u # t
    BY <1>0, <1>1, <2>2 DEF PtrInv, PtrOK, Dropping, HandleTypeOK
  <2> QED
    BY <2>1, <2>2
<1>8. TableInv'
  BY <1>a, LocalStepTableInv DEF Labels, Locked
<1>9. SlotInv'
  BY <1>0, <1>1 DEF SlotInv, HandleTypeOK
<1>10. ResolveInv'
  BY <1>0 DEF ResolveInv, ResolveOK, HandleTypeOK, Resolved, CallInv, CallOK, Words,
       Resolves, Replaces
<1> QED
  BY <1>2, <1>3, <1>4, <1>5, <1>6, <1>7, <1>8, <1>9, <1>10 DEF PtrInv

\* Nobody is in a call on the object that b_X_init starts to replace.
LEMMA EnterInitKeeps ==
    ASSUME IInv, NEW t \in Threads, NEW s \in Slots, EnterInit(t, s)
    PROVE IInv'
<1> USE KindAssumption, ObjsAssumption, NullAssumption, SizeAssumption
<1> USE DEF IInv, EnterInit, Enter, Goto, tableVars
<1>0. PICK l \in {"prealloc", "lock"} : pc' = [pc EXCEPT ![t] = l]
  BY DEF EnterInit, Enter
<1>1. /\ Phase' = Phase
      /\ \A i \in Index : Used(i)' = Used(i)
      /\ \A o : Listed(o)' = Listed(o)
      /\ \A r : Dangling(r)' = Dangling(r)
  BY <1>0, LocalStepTable DEF HandleTypeOK, Labels, Locked
<1>2. HandleTypeOK'
  BY <1>0 DEF HandleTypeOK, Labels, Words, CallInv, CallOK, Resolves, Replaces
<1>3. LockInv'
  BY <1>0 DEF LockInv, HandleTypeOK, Locked
<1>4. CallInv'
  BY <1>0 DEF CallInv, CallOK, HandleTypeOK, Resolves, Replaces
<1>5. ContractInv'
  BY <1>0 DEF ContractInv, InCall, CallInv, CallOK, HandleTypeOK, InUse, Replacing,
       Resolves, Replaces
<1>6. FreshInv'
  BY <1>0, <1>1 DEF FreshInv, FreshOK, HandleTypeOK, CallInv, CallOK, Resolves,
       Replaces
<1>7. ASSUME NEW u \in Threads PROVE PtrOK(u)'
  <2>1. CASE u = t
    BY <1>0, <1>1, <2>1 DEF PtrInv, PtrOK, Dropping, HandleTypeOK, CallInv, CallOK,
         Resolves, Replaces
  <2>2. CASE u # t
    BY <1>0, <1>1, <2>2 DEF PtrInv, PtrOK, Dropping, HandleTypeOK
  <2> QED
    BY <2>1, <2>2
<1>8. TableInv'
  BY <1>0, LocalStepTableInv DEF HandleTypeOK, Labels, Locked
<1>9. SlotInv'
  BY <1>0, <1>1 DEF SlotInv, HandleTypeOK
<1>10. ResolveInv'
  BY <1>0 DEF ResolveInv, ResolveOK, HandleTypeOK, Resolved, CallInv, CallOK, Words,
       Resolves, Replaces
<1> QED
  BY <1>2, <1>3, <1>4, <1>5, <1>6, <1>7, <1>8, <1>9, <1>10 DEF PtrInv

\* Nor on the one that b_X_destroy starts to drop.
LEMMA EnterDestroyKeeps ==
    ASSUME IInv, NEW t \in Threads, NEW s \in Slots, EnterDestroy(t, s)
    PROVE IInv'
<1> USE KindAssumption, ObjsAssumption, NullAssumption, SizeAssumption
<1> USE DEF IInv, EnterDestroy, Enter, Goto, tableVars
<1>0. PICK l \in {"lock"} : pc' = [pc EXCEPT ![t] = l]
  BY DEF EnterDestroy, Enter
<1>1. /\ Phase' = Phase
      /\ \A i \in Index : Used(i)' = Used(i)
      /\ \A o : Listed(o)' = Listed(o)
      /\ \A r : Dangling(r)' = Dangling(r)
  BY <1>0, LocalStepTable DEF HandleTypeOK, Labels, Locked
<1>2. HandleTypeOK'
  BY <1>0 DEF HandleTypeOK, Labels, Words, CallInv, CallOK, Resolves, Replaces
<1>3. LockInv'
  BY <1>0 DEF LockInv, HandleTypeOK, Locked
<1>4. CallInv'
  BY <1>0 DEF CallInv, CallOK, HandleTypeOK, Resolves, Replaces
<1>5. ContractInv'
  BY <1>0 DEF ContractInv, InCall, CallInv, CallOK, HandleTypeOK, InUse, Replacing,
       Resolves, Replaces
<1>6. FreshInv'
  BY <1>0, <1>1 DEF FreshInv, FreshOK, HandleTypeOK, CallInv, CallOK, Resolves,
       Replaces
<1>7. ASSUME NEW u \in Threads PROVE PtrOK(u)'
  <2>1. CASE u = t
    BY <1>0, <1>1, <2>1 DEF PtrInv, PtrOK, Dropping, HandleTypeOK, CallInv, CallOK,
         Resolves, Replaces
  <2>2. CASE u # t
    BY <1>0, <1>1, <2>2 DEF PtrInv, PtrOK, Dropping, HandleTypeOK
  <2> QED
    BY <2>1, <2>2
<1>8. TableInv'
  BY <1>0, LocalStepTableInv DEF HandleTypeOK, Labels, Locked
<1>9. SlotInv'
  BY <1>0, <1>1 DEF SlotInv, HandleTypeOK
<1>10. ResolveInv'
  BY <1>0 DEF ResolveInv, ResolveOK, HandleTypeOK, Resolved, CallInv, CallOK, Words,
       Resolves, Replaces
<1> QED
  BY <1>2, <1>3, <1>4, <1>5, <1>6, <1>7, <1>8, <1>9, <1>10 DEF PtrInv

\* What the scan reads from the slot is Null, garbage or the object of the slot.
LEMMA ReadSlotKeeps == ASSUME IInv, NEW t \in Threads, ReadSlot(t) PROVE IInv'
<1> USE KindAssumption, ObjsAssumption, NullAssumption, SizeAssumption
<1> USE DEF IInv, ReadSlot, Goto, tableVars
<1>0. PICK l \in {"lock", "test"} : pc' = [pc EXCEPT ![t] = l]
  BY DEF ReadSlot
<1>1. /\ Phase' = Phase
      /\ \A i \in Index : Used(i)' = Used(i)
      /\ \A o : Listed(o)' = Listed(o)
      /\ \A s : Dangling(s)' = Dangling(s)
  BY <1>0, LocalStepTable DEF HandleTypeOK, Labels, Locked
<1>2. HandleTypeOK'
  BY <1>0 DEF HandleTypeOK, Labels, Words, CallInv, CallOK, Resolves, Replaces
<1>3. LockInv'
  BY <1>0 DEF LockInv, HandleTypeOK, Locked
<1>4. CallInv'
  BY <1>0 DEF CallInv, CallOK, HandleTypeOK, Resolves, Replaces
<1>5. ContractInv'
  BY <1>0 DEF ContractInv, InCall, CallInv, CallOK, HandleTypeOK, InUse, Replacing,
       Resolves, Replaces
<1>6. FreshInv'
  BY <1>0, <1>1 DEF FreshInv, FreshOK, HandleTypeOK, CallInv, CallOK, Resolves,
       Replaces
<1>7. ASSUME NEW u \in Threads PROVE PtrOK(u)'
  <2>1. CASE u = t
    BY <1>0, <1>1, <2>1 DEF PtrInv, PtrOK, Dropping, HandleTypeOK, CallInv, CallOK,
         Resolves, Replaces
  <2>2. CASE u # t
    BY <1>0, <1>1, <2>2 DEF PtrInv, PtrOK, Dropping, HandleTypeOK
  <2> QED
    BY <2>1, <2>2
<1>8. TableInv'
  BY <1>0, LocalStepTableInv DEF HandleTypeOK, Labels, Locked
<1>9. SlotInv'
  BY <1>0, <1>1 DEF SlotInv, HandleTypeOK
<1>10. ResolveInv'
  BY <1>0 DEF ResolveInv, ResolveOK, HandleTypeOK, Resolved, CallInv, CallOK, Words,
       Resolves, Replaces
<1> QED
  BY <1>2, <1>3, <1>4, <1>5, <1>6, <1>7, <1>8, <1>9, <1>10 DEF PtrInv

\* The loop test, with a current or an old bound.
LEMMA TestBoundKeeps ==
    ASSUME IInv, NEW t \in Threads, TestBound(t)
    PROVE IInv'
<1> USE KindAssumption, ObjsAssumption, NullAssumption, SizeAssumption
<1> USE DEF IInv, TestBound, Goto, tableVars
<1>0. PICK l \in {"probe", "lock"} : pc' = [pc EXCEPT ![t] = l]
  BY DEF TestBound
<1>1. /\ Phase' = Phase
      /\ \A i \in Index : Used(i)' = Used(i)
      /\ \A o : Listed(o)' = Listed(o)
      /\ \A s : Dangling(s)' = Dangling(s)
  BY <1>0, LocalStepTable DEF HandleTypeOK, Labels, Locked
<1>2. HandleTypeOK'
  BY <1>0 DEF HandleTypeOK, Labels, Words, CallInv, CallOK, Resolves, Replaces
<1>3. LockInv'
  BY <1>0 DEF LockInv, HandleTypeOK, Locked
<1>4. CallInv'
  BY <1>0 DEF CallInv, CallOK, HandleTypeOK, Resolves, Replaces
<1>5. ContractInv'
  BY <1>0 DEF ContractInv, InCall, CallInv, CallOK, HandleTypeOK, InUse, Replacing,
       Resolves, Replaces
<1>6. FreshInv'
  BY <1>0, <1>1 DEF FreshInv, FreshOK, HandleTypeOK, CallInv, CallOK, Resolves,
       Replaces
<1>7. ASSUME NEW u \in Threads PROVE PtrOK(u)'
  <2>1. CASE u = t
    BY <1>0, <1>1, <2>1 DEF PtrInv, PtrOK, Dropping, HandleTypeOK, CallInv, CallOK,
         Resolves, Replaces
  <2>2. CASE u # t
    BY <1>0, <1>1, <2>2 DEF PtrInv, PtrOK, Dropping, HandleTypeOK
  <2> QED
    BY <2>1, <2>2
<1>8. TableInv'
  BY <1>0, LocalStepTableInv DEF HandleTypeOK, Labels, Locked
<1>9. SlotInv'
  BY <1>0, <1>1 DEF SlotInv, HandleTypeOK
<1>10. ResolveInv'
  BY <1>0 DEF ResolveInv, ResolveOK, HandleTypeOK, Resolved, CallInv, CallOK, Words,
       Resolves, Replaces
<1> QED
  BY <1>2, <1>3, <1>4, <1>5, <1>6, <1>7, <1>8, <1>9, <1>10 DEF PtrInv

\* A probe that hits, even past the end of the table, hits the object of the slot.
LEMMA ProbeKeeps == ASSUME IInv, NEW t \in Threads, Probe(t) PROVE IInv'
<1> USE KindAssumption, ObjsAssumption, NullAssumption, SizeAssumption
<1> USE DEF IInv, Probe, Goto, tableVars
<1>0. PICK l \in {"return", "test"} : pc' = [pc EXCEPT ![t] = l]
  BY DEF Probe
<1>1. /\ Phase' = Phase
      /\ \A i \in Index : Used(i)' = Used(i)
      /\ \A o : Listed(o)' = Listed(o)
      /\ \A s : Dangling(s)' = Dangling(s)
  BY <1>0, LocalStepTable DEF HandleTypeOK, Labels, Locked
<1>2. HandleTypeOK'
  <2>1. pc' \in [Threads -> Labels]
    BY <1>0 DEF HandleTypeOK, Labels
  <2>2. idx[t] < lim[t] /\ lim[t] \in 0 .. MAX_TRACKED_OBJS /\ idx[t] \in Nat
    BY DEF CallInv, CallOK, HandleTypeOK
  <2>3. idx[t] + 1 \in 0 .. MAX_TRACKED_OBJS
    BY <2>2
  <2>4. idx' \in [Threads -> 0 .. MAX_TRACKED_OBJS]
    BY <2>3 DEF HandleTypeOK
  <2> QED
    BY <2>1, <2>4 DEF HandleTypeOK
<1>3. LockInv'
  BY <1>0 DEF LockInv, HandleTypeOK, Locked
<1>4. CallInv'
  BY <1>0 DEF CallInv, CallOK, HandleTypeOK, Resolves, Replaces
<1>5. ContractInv'
  BY <1>0 DEF ContractInv, InCall, CallInv, CallOK, HandleTypeOK, InUse, Replacing,
       Resolves, Replaces
<1>6. FreshInv'
  BY <1>0, <1>1 DEF FreshInv, FreshOK, HandleTypeOK, CallInv, CallOK, Resolves,
       Replaces
<1>7. ASSUME NEW u \in Threads PROVE PtrOK(u)'
  <2>1. CASE u = t
    BY <1>0, <1>1, <2>1 DEF PtrInv, PtrOK, Dropping, HandleTypeOK, CallInv, CallOK,
         Resolves, Replaces
  <2>2. CASE u # t
    BY <1>0, <1>1, <2>2 DEF PtrInv, PtrOK, Dropping, HandleTypeOK
  <2> QED
    BY <2>1, <2>2
<1>8. TableInv'
  BY <1>0, LocalStepTableInv DEF HandleTypeOK, Labels, Locked
<1>9. SlotInv'
  BY <1>0, <1>1 DEF SlotInv, HandleTypeOK
<1>10. ResolveInv'
  BY <1>0 DEF ResolveInv, ResolveOK, HandleTypeOK, Resolved, CallInv, CallOK, Words,
       Resolves, Replaces
<1> QED
  BY <1>2, <1>3, <1>4, <1>5, <1>6, <1>7, <1>8, <1>9, <1>10 DEF PtrInv

\* b_cond_wait has its condition variable and turns to its mutex.
LEMMA ReturnCondKeeps ==
    ASSUME IInv, NEW t \in Threads, ReturnCond(t)
    PROVE IInv'
<1> USE KindAssumption, ObjsAssumption, NullAssumption, SizeAssumption
<1> USE DEF IInv, ReturnCond, Goto, tableVars
<1>0. PICK l \in {"read"} : pc' = [pc EXCEPT ![t] = l]
  BY DEF ReturnCond
<1>1. /\ Phase' = Phase
      /\ \A i \in Index : Used(i)' = Used(i)
      /\ \A o : Listed(o)' = Listed(o)
      /\ \A s : Dangling(s)' = Dangling(s)
  BY <1>0, LocalStepTable DEF HandleTypeOK, Labels, Locked
<1>2. HandleTypeOK'
  BY <1>0 DEF HandleTypeOK, Labels, Words, CallInv, CallOK, Resolves, Replaces
<1>3. LockInv'
  BY <1>0 DEF LockInv, HandleTypeOK, Locked
<1>4. CallInv'
  BY <1>0 DEF CallInv, CallOK, HandleTypeOK, Resolves, Replaces
<1>5. ContractInv'
  BY <1>0 DEF ContractInv, InCall, CallInv, CallOK, HandleTypeOK, InUse, Replacing,
       Resolves, Replaces
<1>6. FreshInv'
  BY <1>0, <1>1 DEF FreshInv, FreshOK, HandleTypeOK, CallInv, CallOK, Resolves,
       Replaces
<1>7. ASSUME NEW u \in Threads PROVE PtrOK(u)'
  <2>1. CASE u = t
    BY <1>0, <1>1, <2>1 DEF PtrInv, PtrOK, Dropping, HandleTypeOK, CallInv, CallOK,
         Resolves, Replaces
  <2>2. CASE u # t
    BY <1>0, <1>1, <2>2 DEF PtrInv, PtrOK, Dropping, HandleTypeOK
  <2> QED
    BY <2>1, <2>2
<1>8. TableInv'
  BY <1>0, LocalStepTableInv DEF HandleTypeOK, Labels, Locked
<1>9. SlotInv'
  BY <1>0, <1>1 DEF SlotInv, HandleTypeOK
<1>10. ResolveInv'
  BY <1>0 DEF ResolveInv, ResolveOK, HandleTypeOK, Resolved, CallInv, CallOK, Words,
       Resolves, Replaces
<1> QED
  BY <1>2, <1>3, <1>4, <1>5, <1>6, <1>7, <1>8, <1>9, <1>10 DEF PtrInv

\* The slot read again outside g_lock still names the object.
LEMMA ReturnRealKeeps ==
    ASSUME IInv, NEW t \in Threads, ReturnReal(t)
    PROVE IInv'
<1> USE KindAssumption, ObjsAssumption, NullAssumption, SizeAssumption
<1> USE DEF IInv, ReturnReal, Goto, tableVars
<1>0. PICK l \in {"call"} : pc' = [pc EXCEPT ![t] = l]
  BY DEF ReturnReal
<1>1. /\ Phase' = Phase
      /\ \A i \in Index : Used(i)' = Used(i)
      /\ \A o : Listed(o)' = Listed(o)
      /\ \A s : Dangling(s)' = Dangling(s)
  BY <1>0, LocalStepTable DEF HandleTypeOK, Labels, Locked
<1>2. HandleTypeOK'
  BY <1>0 DEF HandleTypeOK, Labels, Words, CallInv, CallOK, Resolves, Replaces
<1>3. LockInv'
  BY <1>0 DEF LockInv, HandleTypeOK, Locked
<1>4. CallInv'
  BY <1>0 DEF CallInv, CallOK, HandleTypeOK, Resolves, Replaces
<1>5. ContractInv'
  BY <1>0 DEF ContractInv, InCall, CallInv, CallOK, HandleTypeOK, InUse, Replacing,
       Resolves, Replaces
<1>6. FreshInv'
  BY <1>0, <1>1 DEF FreshInv, FreshOK, HandleTypeOK, CallInv, CallOK, Resolves,
       Replaces
<1>7. ASSUME NEW u \in Threads PROVE PtrOK(u)'
  <2>1. CASE u = t
    BY <1>0, <1>1, <2>1 DEF PtrInv, PtrOK, Dropping, HandleTypeOK, CallInv, CallOK,
         Resolves, Replaces
  <2>2. CASE u # t
    BY <1>0, <1>1, <2>2 DEF PtrInv, PtrOK, Dropping, HandleTypeOK
  <2> QED
    BY <2>1, <2>2
<1>8. TableInv'
  BY <1>0, LocalStepTableInv DEF HandleTypeOK, Labels, Locked
<1>9. SlotInv'
  BY <1>0, <1>1 DEF SlotInv, HandleTypeOK
<1>10. ResolveInv'
  BY <1>0 DEF ResolveInv, ResolveOK, HandleTypeOK, Resolved, CallInv, CallOK, Words,
       Resolves, Replaces
<1> QED
  BY <1>2, <1>3, <1>4, <1>5, <1>6, <1>7, <1>8, <1>9, <1>10 DEF PtrInv

\* The call ends and its locals are reset.
LEMMA FinishKeeps == ASSUME IInv, NEW t \in Threads, Finish(t) PROVE IInv'
<1> USE KindAssumption, ObjsAssumption, NullAssumption, SizeAssumption
<1> USE DEF IInv, Finish, Goto, tableVars
<1>0. PICK l \in {"idle"} : pc' = [pc EXCEPT ![t] = l]
  BY DEF Finish
<1>1. /\ Phase' = Phase
      /\ \A i \in Index : Used(i)' = Used(i)
      /\ \A o : Listed(o)' = Listed(o)
      /\ \A s : Dangling(s)' = Dangling(s)
  BY <1>0, LocalStepTable DEF HandleTypeOK, Labels, Locked
<1>2. HandleTypeOK'
  <2>1. /\ pc' \in [Threads -> Labels]
        /\ arg' \in [Threads -> Slots \cup {Null}]
        /\ other' \in [Threads -> Slots \cup {Null}]
    BY DEF HandleTypeOK, Labels
  <2>2. ptr' \in [Threads -> Words] /\ cptr' \in [Threads -> Words]
    BY DEF HandleTypeOK, Words
  <2>3. /\ idx' \in [Threads -> 0 .. MAX_TRACKED_OBJS]
        /\ lim' \in [Threads -> 0 .. MAX_TRACKED_OBJS]
    BY DEF HandleTypeOK
  <2> QED
    BY <2>1, <2>2, <2>3 DEF HandleTypeOK
<1>3. LockInv'
  BY <1>0 DEF LockInv, HandleTypeOK, Locked
<1>4. CallInv'
  BY <1>0 DEF CallInv, CallOK, HandleTypeOK, Resolves, Replaces
<1>5. ContractInv'
  BY <1>0 DEF ContractInv, InCall, CallInv, CallOK, HandleTypeOK, InUse, Replacing,
       Resolves, Replaces
<1>6. FreshInv'
  BY <1>0, <1>1 DEF FreshInv, FreshOK, HandleTypeOK, CallInv, CallOK, Resolves,
       Replaces
<1>7. ASSUME NEW u \in Threads PROVE PtrOK(u)'
  <2>1. CASE u = t
    BY <1>0, <1>1, <2>1 DEF PtrInv, PtrOK, Dropping, HandleTypeOK, CallInv, CallOK,
         Resolves, Replaces
  <2>2. CASE u # t
    BY <1>0, <1>1, <2>2 DEF PtrInv, PtrOK, Dropping, HandleTypeOK
  <2> QED
    BY <2>1, <2>2
<1>8. TableInv'
  BY <1>0, LocalStepTableInv DEF HandleTypeOK, Labels, Locked
<1>9. SlotInv'
  BY <1>0, <1>1 DEF SlotInv, HandleTypeOK
<1>10. ResolveInv'
  BY <1>0 DEF ResolveInv, ResolveOK, HandleTypeOK, Resolved, CallInv, CallOK, Words,
       Resolves, Replaces
<1> QED
  BY <1>2, <1>3, <1>4, <1>5, <1>6, <1>7, <1>8, <1>9, <1>10 DEF PtrInv

-----------------------------------------------------------------------------
(***************************************************************************)
(* Steps that take, hold or release g_lock.                                *)
(***************************************************************************)

\* Only one thread is in the critical section.
LEMMA Holder ==
    ASSUME IInv, NEW t \in Threads, pc[t] \in Locked
    PROVE  /\ g_lock = t
           /\ Phase = pc[t]
           /\ \A u \in Threads : u # t => pc[u] \notin Locked
BY DEF IInv, LockInv, Phase

\* Away from the two half-done writes the entries that count are the first
\* g_num_tracked.
LEMMA QuietTable ==
    ASSUME Phase \notin {"fill", "store"}, Phase' \notin {"fill", "store"},
           UNCHANGED <<g_tracked_objs, g_num_tracked>>
    PROVE  /\ \A i : Used(i) <=> i < g_num_tracked
           /\ \A i : Used(i)' <=> i < g_num_tracked
           /\ \A o : Listed(o)' = Listed(o)
<1>1. /\ \A i : Used(i) <=> i < g_num_tracked
      /\ \A i : Used(i)' <=> i < g_num_tracked
  BY DEF Used
<1> QED
  BY <1>1 DEF Listed, Index

\* What is_tracked_obj answers under g_lock is whether the address is listed.
LEMMA TrackedListed ==
    ASSUME IInv, Phase \notin {"fill", "store"}, NEW o
    PROVE  Tracked(o) <=> Listed(o)
<1>1. \A i \in Index : Used(i) <=> i < g_num_tracked
  BY DEF Used
<1>2. g_num_tracked \in 0 .. MAX_TRACKED_OBJS
  BY DEF IInv, HandleTypeOK
<1>3. \A i : i \in 0 .. g_num_tracked - 1 <=> i \in Index /\ i < g_num_tracked
  BY <1>2, SizeAssumption DEF Index
<1> QED
  BY <1>1, <1>3 DEF Tracked, Listed

\* g_lock is taken: between critical sections the table is whole.
LEMMA LockKeeps == ASSUME IInv, NEW t \in Threads, Lock(t) PROVE IInv'
<1> USE KindAssumption, ObjsAssumption, NullAssumption, SizeAssumption
<1> USE DEF IInv, Lock, Goto
<1>0. PICK l \in {"check"} : pc' = [pc EXCEPT ![t] = l]
  BY DEF Lock
<1>1. /\ g_lock = Null /\ Phase = "idle" /\ pc[t] = "lock"
      /\ \A u \in Threads : pc[u] \notin Locked
  BY DEF LockInv, Phase
<1>2. /\ Phase' = "check"
      /\ \A i : Used(i) <=> i < g_num_tracked
      /\ \A i : Used(i)' <=> i < g_num_tracked
      /\ \A o : Listed(o)' = Listed(o)
  <2>1. Phase' = "check"
    BY <1>0 DEF Phase, HandleTypeOK
  <2> QED
    BY <2>1, <1>1, QuietTable
<1>3. HandleTypeOK'
  BY <1>0 DEF HandleTypeOK, Labels, Locked, Words, CallInv, CallOK, Resolves, Replaces
<1>4. LockInv'
  BY <1>0, <1>1 DEF LockInv, HandleTypeOK, Locked
<1>5. CallInv'
  BY <1>0 DEF CallInv, CallOK, HandleTypeOK, Resolves, Replaces
<1>6. ContractInv'
  BY <1>0 DEF ContractInv, InCall, CallInv, CallOK, HandleTypeOK, Resolves, Replaces
<1>7. FreshInv'
  BY <1>0, <1>1, <1>2 DEF FreshInv, FreshOK, HandleTypeOK, CallInv, CallOK, Resolves,
       Replaces, Locked
<1>8. PtrInv'
  <2> SUFFICES ASSUME NEW u \in Threads PROVE PtrOK(u)'
    BY DEF PtrInv
  <2>1. CASE u = t
    BY <1>0, <1>1, <1>2, <2>1 DEF PtrInv, PtrOK, Dropping, HandleTypeOK, CallInv,
         CallOK, Resolves, Replaces, Locked
  <2>2. CASE u # t
    BY <1>0, <1>1, <1>2, <2>2 DEF PtrInv, PtrOK, Dropping, HandleTypeOK, Locked
  <2> QED
    BY <2>1, <2>2
<1>9. TableInv'
  BY <1>0, <1>1, <1>2 DEF TableInv, Dropping, HandleTypeOK, Locked
<1>10. SlotInv'
  BY <1>0, <1>1, <1>2 DEF SlotInv, Dangling, HandleTypeOK, CallInv, CallOK, Resolves,
       Replaces, Locked
<1>11. ResolveInv'
  <2> SUFFICES ASSUME NEW u \in Threads PROVE ResolveOK(u)'
    BY DEF ResolveInv
  <2>1. CASE u = t
    BY <1>0, <1>1, <1>2, <2>1 DEF ResolveInv, ResolveOK, HandleTypeOK, Resolved,
         CallInv, CallOK, Resolves, Replaces
  <2>2. CASE u # t
    BY <1>0, <1>1, <1>2, <2>2 DEF ResolveInv, ResolveOK, HandleTypeOK, Resolved
  <2> QED
    BY <2>1, <2>2
<1> QED
  BY <1>3, <1>4, <1>5, <1>6, <1>7, <1>8, <1>9, <1>10, <1>11

\* The second look of mtx_real sends the thread on to create only what is missing.
LEMMA CheckResolveKeeps ==
    ASSUME IInv, NEW t \in Threads, CheckResolve(t)
    PROVE IInv'
<1> USE KindAssumption, ObjsAssumption, NullAssumption, SizeAssumption
<1> USE DEF IInv, CheckResolve, tableVars, Goto
<1>0. PICK l \in {"unlock", "alloc"} : pc' = [pc EXCEPT ![t] = l]
  BY DEF CheckResolve, tableVars
<1>1. /\ g_lock = t /\ Phase = pc[t] /\ pc[t] = "check"
      /\ \A u \in Threads : u # t => pc[u] \notin Locked
  BY Holder DEF CheckResolve, Locked
<1>2. /\ Phase' = l
      /\ \A i : Used(i) <=> i < g_num_tracked
      /\ \A i : Used(i)' <=> i < g_num_tracked
      /\ \A o : Listed(o)' = Listed(o)
  <2>1. Phase' = l
    BY <1>0, <1>1 DEF Phase, HandleTypeOK
  <2> QED
    BY <2>1, <1>1, QuietTable
<1>a. /\ Tracked(slot[arg[t]]) <=> Listed(slot[arg[t]])
      /\ Listed(slot[arg[t]]) => slot[arg[t]] \in live
      /\ \A s \in Slots : ~Dangling(s)
  BY <1>1, TrackedListed DEF Listed, TableInv, Dangling
<1>3. HandleTypeOK'
  BY <1>0 DEF HandleTypeOK, Labels, Locked, Words, CallInv, CallOK, Resolves, Replaces
<1>4. LockInv'
  BY <1>0, <1>1 DEF LockInv, HandleTypeOK, Locked
<1>5. CallInv'
  BY <1>0 DEF CallInv, CallOK, HandleTypeOK, Resolves, Replaces
<1>6. ContractInv'
  BY <1>0 DEF ContractInv, InCall, CallInv, CallOK, HandleTypeOK, Resolves, Replaces
<1>7. FreshInv'
  BY <1>0, <1>1, <1>2 DEF FreshInv, FreshOK, HandleTypeOK, CallInv, CallOK, Resolves,
       Replaces, Locked
<1>8. PtrInv'
  <2> SUFFICES ASSUME NEW u \in Threads PROVE PtrOK(u)'
    BY DEF PtrInv
  <2>1. CASE u = t
    BY <1>0, <1>1, <1>2, <2>1 DEF PtrInv, PtrOK, Dropping, HandleTypeOK, CallInv,
         CallOK, Resolves, Replaces, Locked
  <2>2. CASE u # t
    BY <1>0, <1>1, <1>2, <2>2 DEF PtrInv, PtrOK, Dropping, HandleTypeOK, Locked
  <2> QED
    BY <2>1, <2>2
<1>9. TableInv'
  BY <1>0, <1>1, <1>2 DEF TableInv, Dropping, HandleTypeOK, Locked
<1>10. SlotInv'
  BY <1>0, <1>1, <1>2, <1>a DEF SlotInv, Dangling, HandleTypeOK, CallInv, CallOK,
       Resolves, Replaces
<1>11. ResolveInv'
  <2> SUFFICES ASSUME NEW u \in Threads PROVE ResolveOK(u)'
    BY DEF ResolveInv
  <2>1. CASE u = t
    BY <1>0, <1>1, <1>2, <1>a, <2>1 DEF ResolveInv, ResolveOK, HandleTypeOK,
         Resolved, CallInv, CallOK, Resolves, Replaces
  <2>2. CASE u # t
    BY <1>0, <1>1, <1>2, <2>2 DEF ResolveInv, ResolveOK, HandleTypeOK, Resolved
  <2> QED
    BY <2>1, <2>2
<1> QED
  BY <1>3, <1>4, <1>5, <1>6, <1>7, <1>8, <1>9, <1>10, <1>11

\* The look of b_X_init and b_X_destroy finds the object they replace.
LEMMA CheckReplaceKeeps ==
    ASSUME IInv, NEW t \in Threads, CheckReplace(t)
    PROVE IInv'
<1> USE KindAssumption, ObjsAssumption, NullAssumption, SizeAssumption
<1> USE DEF IInv, CheckReplace, tableVars, Goto
<1>0. PICK l \in {"untrack", "clear", "alloc", "track"} : pc' = [pc EXCEPT ![t] = l]
  BY DEF CheckReplace, tableVars
<1>1. /\ g_lock = t /\ Phase = pc[t] /\ pc[t] = "check"
      /\ \A u \in Threads : u # t => pc[u] \notin Locked
  BY Holder DEF CheckReplace, Locked
<1>2. /\ Phase' = l
      /\ \A i : Used(i) <=> i < g_num_tracked
      /\ \A i : Used(i)' <=> i < g_num_tracked
      /\ \A o : Listed(o)' = Listed(o)
  <2>1. Phase' = l
    BY <1>0, <1>1 DEF Phase, HandleTypeOK
  <2> QED
    BY <2>1, <1>1, QuietTable
<1>a. /\ Tracked(slot[arg[t]]) <=> Listed(slot[arg[t]])
      /\ Listed(slot[arg[t]]) => slot[arg[t]] \in live
      /\ \A s \in Slots : ~Dangling(s)
  BY <1>1, TrackedListed DEF Listed, TableInv, Dangling
<1>3. HandleTypeOK'
  BY <1>0 DEF HandleTypeOK, Labels, Locked, Words, CallInv, CallOK, Resolves, Replaces
<1>4. LockInv'
  BY <1>0, <1>1 DEF LockInv, HandleTypeOK, Locked
<1>5. CallInv'
  BY <1>0 DEF CallInv, CallOK, HandleTypeOK, Resolves, Replaces
<1>6. ContractInv'
  BY <1>0 DEF ContractInv, InCall, CallInv, CallOK, HandleTypeOK, Resolves, Replaces
<1>7. FreshInv'
  BY <1>0, <1>1, <1>2 DEF FreshInv, FreshOK, HandleTypeOK, CallInv, CallOK, Resolves,
       Replaces, Locked
<1>8. PtrInv'
  <2> SUFFICES ASSUME NEW u \in Threads PROVE PtrOK(u)'
    BY DEF PtrInv
  <2>1. CASE u = t
    BY <1>0, <1>1, <1>2, <1>a, <2>1 DEF PtrInv, PtrOK, Dropping, HandleTypeOK,
         CallInv, CallOK, Resolves, Replaces, Locked
  <2>2. CASE u # t
    BY <1>0, <1>1, <1>2, <2>2 DEF PtrInv, PtrOK, Dropping, HandleTypeOK, Locked
  <2> QED
    BY <2>1, <2>2
<1>9. TableInv'
  BY <1>0, <1>1, <1>2 DEF TableInv, Dropping, HandleTypeOK, Locked
<1>10. SlotInv'
  BY <1>0, <1>1, <1>2 DEF SlotInv, Dangling, HandleTypeOK, CallInv, CallOK, Resolves,
       Replaces, Locked
<1>11. ResolveInv'
  <2> SUFFICES ASSUME NEW u \in Threads PROVE ResolveOK(u)'
    BY DEF ResolveInv
  <2>1. CASE u = t
    BY <1>0, <1>1, <1>2, <2>1 DEF ResolveInv, ResolveOK, HandleTypeOK, Resolved,
         CallInv, CallOK, Resolves, Replaces
  <2>2. CASE u # t
    BY <1>0, <1>1, <1>2, <2>2 DEF ResolveInv, ResolveOK, HandleTypeOK, Resolved
  <2> QED
    BY <2>1, <2>2
<1> QED
  BY <1>3, <1>4, <1>5, <1>6, <1>7, <1>8, <1>9, <1>10, <1>11

\* g_lock is released with the table whole again.
LEMMA UnlockKeeps == ASSUME IInv, NEW t \in Threads, Unlock(t) PROVE IInv'
<1> USE KindAssumption, ObjsAssumption, NullAssumption, SizeAssumption
<1> USE DEF IInv, Unlock, Goto
<1>0. PICK l \in {"return", "call"} : pc' = [pc EXCEPT ![t] = l]
  BY DEF Unlock
<1>1. /\ g_lock = t /\ Phase = pc[t] /\ pc[t] = "unlock"
      /\ \A u \in Threads : u # t => pc[u] \notin Locked
  BY Holder DEF Unlock, Locked
<1>2. /\ Phase' = "idle"
      /\ \A i : Used(i) <=> i < g_num_tracked
      /\ \A i : Used(i)' <=> i < g_num_tracked
      /\ \A o : Listed(o)' = Listed(o)
  <2>1. Phase' = "idle"
    BY DEF Phase
  <2> QED
    BY <2>1, <1>1, QuietTable
<1>3. HandleTypeOK'
  BY <1>0 DEF HandleTypeOK, Labels, Locked, Words, CallInv, CallOK, Resolves, Replaces
<1>4. LockInv'
  BY <1>0, <1>1 DEF LockInv, HandleTypeOK, Locked
<1>5. CallInv'
  BY <1>0 DEF CallInv, CallOK, HandleTypeOK, Resolves, Replaces
<1>6. ContractInv'
  BY <1>0 DEF ContractInv, InCall, CallInv, CallOK, HandleTypeOK, Resolves, Replaces
<1>7. FreshInv'
  BY <1>0, <1>1, <1>2 DEF FreshInv, FreshOK, HandleTypeOK, CallInv, CallOK, Resolves,
       Replaces, Locked
<1>8. PtrInv'
  <2> SUFFICES ASSUME NEW u \in Threads PROVE PtrOK(u)'
    BY DEF PtrInv
  <2>1. CASE u = t
    BY <1>0, <1>1, <1>2, <2>1 DEF PtrInv, PtrOK, Dropping, HandleTypeOK, CallInv,
         CallOK, Resolves, Replaces, Locked
  <2>2. CASE u # t
    BY <1>0, <1>1, <1>2, <2>2 DEF PtrInv, PtrOK, Dropping, HandleTypeOK, Locked
  <2> QED
    BY <2>1, <2>2
<1>9. TableInv'
  BY <1>0, <1>1, <1>2 DEF TableInv, Dropping, HandleTypeOK, Locked
<1>10. SlotInv'
  BY <1>0, <1>1, <1>2 DEF SlotInv, Dangling, HandleTypeOK, CallInv, CallOK, Resolves,
       Replaces, Locked
<1>11. ResolveInv'
  <2> SUFFICES ASSUME NEW u \in Threads PROVE ResolveOK(u)'
    BY DEF ResolveInv
  <2>1. CASE u = t
    BY <1>0, <1>1, <1>2, <2>1 DEF ResolveInv, ResolveOK, HandleTypeOK, Resolved,
         CallInv, CallOK, Resolves, Replaces
  <2>2. CASE u # t
    BY <1>0, <1>1, <1>2, <2>2 DEF ResolveInv, ResolveOK, HandleTypeOK, Resolved
  <2> QED
    BY <2>1, <2>2
<1> QED
  BY <1>3, <1>4, <1>5, <1>6, <1>7, <1>8, <1>9, <1>10, <1>11

\* calloc under g_lock: the address is neither in the table nor in a slot.
LEMMA AllocKeeps == ASSUME IInv, NEW t \in Threads, Alloc(t) PROVE IInv'
<1> USE KindAssumption, ObjsAssumption, NullAssumption, SizeAssumption
<1> USE DEF IInv, Alloc, NewObject, Goto
<1>0. PICK l \in {"track"} : pc' = [pc EXCEPT ![t] = l]
  BY DEF Alloc, NewObject
<1>1. /\ g_lock = t /\ Phase = pc[t] /\ pc[t] = "alloc"
      /\ \A u \in Threads : u # t => pc[u] \notin Locked
  BY Holder DEF Locked
<1>2. /\ Phase' = l
      /\ \A i : Used(i) <=> i < g_num_tracked
      /\ \A i : Used(i)' <=> i < g_num_tracked
      /\ \A o : Listed(o)' = Listed(o)
  <2>1. Phase' = l
    BY <1>0, <1>1 DEF Phase, HandleTypeOK
  <2> QED
    BY <2>1, <1>1, QuietTable
<1>a. PICK o \in Objs \ live : /\ fresh' = [fresh EXCEPT ![t] = o]
                             /\ live' = live \cup {o}
  OBVIOUS
<1>b. ~Listed(o)
  BY <1>a, <1>1 DEF Listed, TableInv
<1>c. fresh[t] = Null /\ \A u \in Threads : fresh[u] # o
  <2>1. fresh[t] = Null
    BY <1>1 DEF FreshInv, FreshOK
  <2>2. ASSUME NEW u \in Threads PROVE fresh[u] # o
    BY <1>a DEF FreshInv, FreshOK
  <2> QED
    BY <2>1, <2>2
<1>3. HandleTypeOK'
  BY <1>0, <1>a DEF HandleTypeOK, Labels, Locked
<1>4. LockInv'
  BY <1>0, <1>1 DEF LockInv, HandleTypeOK, Locked
<1>5. CallInv'
  BY <1>0 DEF CallInv, CallOK, HandleTypeOK, Resolves, Replaces
<1>6. ContractInv'
  BY <1>0 DEF ContractInv, InCall, CallInv, CallOK, HandleTypeOK, Resolves, Replaces
<1>7. FreshInv'
  BY <1>0, <1>1, <1>2, <1>a, <1>b, <1>c DEF FreshInv, FreshOK, HandleTypeOK, CallInv,
       CallOK, Resolves, Replaces, Locked
<1>8. PtrInv'
  <2> SUFFICES ASSUME NEW u \in Threads PROVE PtrOK(u)'
    BY DEF PtrInv
  <2>1. CASE u = t
    BY <1>0, <1>1, <1>2, <2>1 DEF PtrInv, PtrOK, Dropping, HandleTypeOK, CallInv,
         CallOK, Resolves, Replaces, Locked
  <2>2. CASE u # t
    BY <1>0, <1>1, <1>2, <2>2 DEF PtrInv, PtrOK, Dropping, HandleTypeOK, Locked
  <2> QED
    BY <2>1, <2>2
<1>9. TableInv'
  <2>1. ASSUME NEW x \in live'
        PROVE  \/ Listed(x)'
               \/ \E u \in Threads : fresh'[u] = x
               \/ \E u \in Threads : Dropping(u)' /\ ptr'[u] = x
    <3>1. CASE x = o
      BY <1>a, <3>1 DEF HandleTypeOK
    <3>2. CASE x \in live
      <4>1. \A u \in Threads : fresh[u] # Null => fresh'[u] = fresh[u]
        BY <1>a, <1>c DEF HandleTypeOK
      <4>2. \A u \in Threads : Dropping(u) => Dropping(u)' /\ ptr'[u] = ptr[u]
        BY <1>0, <1>1 DEF Dropping, HandleTypeOK
      <4>3. x \in Objs
        BY <3>2 DEF HandleTypeOK
      <4> QED
        BY <1>2, <3>2, <4>1, <4>2, <4>3 DEF TableInv
    <3> QED
      BY <1>a, <3>1, <3>2
  <2> QED
    BY <1>0, <1>1, <1>2, <2>1, <1>a DEF TableInv
<1>10. SlotInv'
  BY <1>0, <1>1, <1>2 DEF SlotInv, Dangling, HandleTypeOK, CallInv, CallOK, Resolves,
       Replaces, Locked
<1>11. ResolveInv'
  <2> SUFFICES ASSUME NEW u \in Threads PROVE ResolveOK(u)'
    BY DEF ResolveInv
  <2>1. CASE u = t
    BY <1>0, <1>1, <1>2, <2>1 DEF ResolveInv, ResolveOK, HandleTypeOK, Resolved,
         CallInv, CallOK, Resolves, Replaces
  <2>2. CASE u # t
    BY <1>0, <1>1, <1>2, <2>2 DEF ResolveInv, ResolveOK, HandleTypeOK, Resolved
  <2> QED
    BY <2>1, <2>2
<1> QED
  BY <1>3, <1>4, <1>5, <1>6, <1>7, <1>8, <1>9, <1>10, <1>11

\* calloc of b_rwlock_init before g_lock, while others edit the table.
LEMMA PreAllocKeeps == ASSUME IInv, NEW t \in Threads, PreAlloc(t) PROVE IInv'
<1> USE KindAssumption, ObjsAssumption, NullAssumption, SizeAssumption
<1> USE DEF IInv, PreAlloc, NewObject, Goto
<1>0. PICK l \in {"lock"} : pc' = [pc EXCEPT ![t] = l]
  BY DEF PreAlloc, NewObject
<1>1. /\ g_lock # t /\ pc[t] = "prealloc" /\ fn[t] = "init"
      /\ Phase # "idle" => g_lock \in Threads
  BY DEF LockInv, Locked, CallInv, CallOK, Phase
<1>2. /\ Phase' = Phase
      /\ \A i \in Index : Used(i)' = Used(i)
      /\ \A o : Listed(o)' = Listed(o)
      /\ \A s : Dangling(s)' = Dangling(s)
  BY <1>0, <1>1, LocalStepTable DEF HandleTypeOK, Labels, Locked
<1>a. PICK o \in Objs \ live : /\ fresh' = [fresh EXCEPT ![t] = o]
                             /\ live' = live \cup {o}
  OBVIOUS
<1>b. ~Listed(o)
  BY <1>a DEF Listed, TableInv
<1>c. fresh[t] = Null /\ \A u \in Threads : fresh[u] # o
  <2>1. fresh[t] = Null
    BY <1>1 DEF FreshInv, FreshOK
  <2>2. ASSUME NEW u \in Threads PROVE fresh[u] # o
    BY <1>a DEF FreshInv, FreshOK
  <2> QED
    BY <2>1, <2>2
<1>3. HandleTypeOK'
  BY <1>0, <1>a DEF HandleTypeOK, Labels, Locked
<1>4. LockInv'
  BY <1>0, <1>1 DEF LockInv, HandleTypeOK, Locked
<1>5. CallInv'
  BY <1>0 DEF CallInv, CallOK, HandleTypeOK, Resolves, Replaces
<1>6. ContractInv'
  BY <1>0 DEF ContractInv, InCall, CallInv, CallOK, HandleTypeOK, Resolves, Replaces
<1>7. FreshInv'
  BY <1>0, <1>1, <1>2, <1>a, <1>b, <1>c DEF FreshInv, FreshOK, HandleTypeOK, CallInv,
       CallOK, Resolves, Replaces, Locked
<1>8. PtrInv'
  <2> SUFFICES ASSUME NEW u \in Threads PROVE PtrOK(u)'
    BY DEF PtrInv
  <2>1. CASE u = t
    BY <1>0, <1>1, <1>2, <2>1 DEF PtrInv, PtrOK, Dropping, HandleTypeOK, CallInv,
         CallOK, Resolves, Replaces, Locked
  <2>2. CASE u # t
    BY <1>0, <1>1, <1>2, <2>2 DEF PtrInv, PtrOK, Dropping, HandleTypeOK, Locked
  <2> QED
    BY <2>1, <2>2
<1>9. TableInv'
  <2>1. ASSUME NEW x \in live'
        PROVE  \/ Listed(x)'
               \/ \E u \in Threads : fresh'[u] = x
               \/ \E u \in Threads : Dropping(u)' /\ ptr'[u] = x
    <3>1. CASE x = o
      BY <1>a, <3>1 DEF HandleTypeOK
    <3>2. CASE x \in live
      <4>1. \A u \in Threads : fresh[u] # Null => fresh'[u] = fresh[u]
        BY <1>a, <1>c DEF HandleTypeOK
      <4>2. \A u \in Threads : Dropping(u) => Dropping(u)' /\ ptr'[u] = ptr[u]
        BY <1>0, <1>1 DEF Dropping, HandleTypeOK
      <4>3. x \in Objs
        BY <3>2 DEF HandleTypeOK
      <4> QED
        BY <1>2, <3>2, <4>1, <4>2, <4>3 DEF TableInv
    <3> QED
      BY <1>a, <3>1, <3>2
  <2> QED
    BY <1>0, <1>1, <1>2, <2>1, <1>a DEF TableInv
<1>10. SlotInv'
  BY <1>0, <1>1, <1>2, <1>a DEF SlotInv, HandleTypeOK
<1>11. ResolveInv'
  <2> SUFFICES ASSUME NEW u \in Threads PROVE ResolveOK(u)'
    BY DEF ResolveInv
  <2>1. CASE u = t
    BY <1>0, <1>1, <1>2, <2>1 DEF ResolveInv, ResolveOK, HandleTypeOK, Resolved,
         CallInv, CallOK, Resolves, Replaces
  <2>2. CASE u # t
    BY <1>0, <1>1, <1>2, <2>2 DEF ResolveInv, ResolveOK, HandleTypeOK, Resolved
  <2> QED
    BY <2>1, <2>2
<1> QED
  BY <1>3, <1>4, <1>5, <1>6, <1>7, <1>8, <1>9, <1>10, <1>11

\* The slot gets its new, recorded object.
LEMMA PublishKeeps == ASSUME IInv, NEW t \in Threads, Publish(t) PROVE IInv'
<1> USE KindAssumption, ObjsAssumption, NullAssumption, SizeAssumption
<1> USE DEF IInv, Publish, Goto
<1>0. PICK l \in {"unlock"} : pc' = [pc EXCEPT ![t] = l]
  BY DEF Publish
<1>1. /\ g_lock = t /\ Phase = pc[t] /\ pc[t] = "publish"
      /\ \A u \in Threads : u # t => pc[u] \notin Locked
  BY Holder DEF Publish, Locked
<1>2. /\ Phase' = l
      /\ \A i : Used(i) <=> i < g_num_tracked
      /\ \A i : Used(i)' <=> i < g_num_tracked
      /\ \A o : Listed(o)' = Listed(o)
  <2>1. Phase' = l
    BY <1>0, <1>1 DEF Phase, HandleTypeOK
  <2> QED
    BY <2>1, <1>1, QuietTable
<1>a. /\ fresh[t] \in Objs /\ Listed(fresh[t]) /\ arg[t] \in Slots
      /\ fn[t] \in {"use", "wait", "init"}
      /\ \A s \in Slots : s # arg[t] => slot'[s] = slot[s]
      /\ slot'[arg[t]] = fresh[t]
  BY <1>1 DEF FreshInv, FreshOK, HandleTypeOK, CallInv, CallOK, Resolves, Replaces
<1>b. \A s \in Slots : ~Dangling(s)' /\ (Dangling(s) <=> s = arg[t])
  BY <1>0, <1>1, <1>2 DEF Dangling
<1>c. ASSUME NEW u \in Threads, u # t, InCall(u, arg[t])
      PROVE  slot[arg[t]] \notin Objs
  BY <1>1, <1>a, <1>c DEF ContractInv, SlotInv, Resolves, Replaces
<1>3. HandleTypeOK'
  BY <1>0 DEF HandleTypeOK, Labels, Locked, Words, CallInv, CallOK, Resolves, Replaces
<1>4. LockInv'
  BY <1>0, <1>1 DEF LockInv, HandleTypeOK, Locked
<1>5. CallInv'
  BY <1>0 DEF CallInv, CallOK, HandleTypeOK, Resolves, Replaces
<1>6. ContractInv'
  BY <1>0 DEF ContractInv, InCall, CallInv, CallOK, HandleTypeOK, Resolves, Replaces
<1>7. FreshInv'
  BY <1>0, <1>1, <1>2 DEF FreshInv, FreshOK, HandleTypeOK, CallInv, CallOK, Resolves,
       Replaces, Locked
<1>8. PtrInv'
  <2> SUFFICES ASSUME NEW u \in Threads PROVE PtrOK(u)'
    BY DEF PtrInv
  <2>1. CASE u = t
    BY <1>0, <1>1, <1>2, <2>1 DEF PtrInv, PtrOK, Dropping, HandleTypeOK, CallInv,
         CallOK, Resolves, Replaces, Locked
  <2>2. CASE u # t
    BY <1>0, <1>1, <1>2, <2>2 DEF PtrInv, PtrOK, Dropping, HandleTypeOK, Locked
  <2> QED
    BY <2>1, <2>2
<1>9. TableInv'
  <2>1. ASSUME NEW x \in live
        PROVE  \/ Listed(x)'
               \/ \E u \in Threads : fresh'[u] = x
               \/ \E u \in Threads : Dropping(u)' /\ ptr'[u] = x
    <3>1. \A u \in Threads : u # t => fresh'[u] = fresh[u]
      BY DEF HandleTypeOK
    <3>2. \A u \in Threads : ~Dropping(u)
      BY <1>1 DEF Dropping, Locked
    <3> QED
      BY <1>2, <1>a, <3>1, <3>2 DEF TableInv
  <2> QED
    BY <1>0, <1>1, <1>2, <2>1 DEF TableInv
<1>10. SlotInv'
  <2>1. \A s \in Slots : slot'[s] \in Objs => Listed(slot[s])'
    BY <1>2, <1>a, <1>b DEF SlotInv
  <2>2. \A s, r \in Slots : s # r /\ slot'[s] = slot'[r] => slot'[s] \notin Objs
    BY <1>1, <1>a, <1>b DEF SlotInv
  <2>3. \A u \in Threads : pc'[u] \notin {"publish", "free", "alloc", "track", "store"}
    BY <1>0, <1>1 DEF HandleTypeOK, Locked
  <2> QED
    BY <2>1, <2>2, <2>3 DEF SlotInv
<1>11. ResolveInv'
  <2> SUFFICES ASSUME NEW u \in Threads PROVE ResolveOK(u)'
    BY DEF ResolveInv
  <2>1. CASE u = t
    BY <1>0, <1>1, <1>2, <1>a, <2>1 DEF ResolveInv, SlotInv, ResolveOK, HandleTypeOK,
         Resolved, CallInv, CallOK, Resolves, Replaces
  <2>2. CASE u # t
    <3>1. UNCHANGED <<pc[u], fn[u], arg[u], other[u], ptr[u], cptr[u]>>
      BY <1>0, <2>2 DEF HandleTypeOK
    <3>2. ResolveOK(u) /\ CallOK(u)
      BY DEF ResolveInv, CallInv
    <3>3. pc[u] = "idle" \/ (slot'[arg[u]] = slot[arg[u]]) \/ slot[arg[u]] \notin Objs
      BY <1>a, <1>c, <3>2, <2>2 DEF InCall, CallOK, HandleTypeOK
    <3>4. cptr[u] = Null \/ (slot'[other[u]] = slot[other[u]]) \/ slot[other[u]] \notin Objs
      BY <1>a, <1>c, <3>2, <2>2 DEF InCall, CallOK, ResolveOK, HandleTypeOK
    <3>5. Resolved(u)' = Resolved(u)
      BY <3>1 DEF Resolved
    <3> QED
      BY <3>1, <3>2, <3>3, <3>4, <3>5 DEF ResolveOK, Resolved, CallOK, Resolves
  <2> QED
    BY <2>1, <2>2
<1> QED
  BY <1>3, <1>4, <1>5, <1>6, <1>7, <1>8, <1>9, <1>10, <1>11

\* b_X_destroy empties the slot before it frees the object.
LEMMA ClearKeeps == ASSUME IInv, NEW t \in Threads, Clear(t) PROVE IInv'
<1> USE KindAssumption, ObjsAssumption, NullAssumption, SizeAssumption
<1> USE DEF IInv, Clear, Goto
<1>0. PICK l \in {"unlock", "free"} : pc' = [pc EXCEPT ![t] = l]
  BY DEF Clear
<1>1. /\ g_lock = t /\ Phase = pc[t] /\ pc[t] = "clear"
      /\ \A u \in Threads : u # t => pc[u] \notin Locked
  BY Holder DEF Clear, Locked
<1>2. /\ Phase' = l
      /\ \A i : Used(i) <=> i < g_num_tracked
      /\ \A i : Used(i)' <=> i < g_num_tracked
      /\ \A o : Listed(o)' = Listed(o)
  <2>1. Phase' = l
    BY <1>0, <1>1 DEF Phase, HandleTypeOK
  <2> QED
    BY <2>1, <1>1, QuietTable
<1>c. ASSUME NEW u \in Threads, u # t PROVE ~InCall(u, arg[t])
  BY <1>1, <1>c DEF ContractInv, CallInv, CallOK, Replaces
<1>3. HandleTypeOK'
  BY <1>0 DEF HandleTypeOK, Labels, Locked, Words, CallInv, CallOK, Resolves, Replaces
<1>4. LockInv'
  BY <1>0, <1>1 DEF LockInv, HandleTypeOK, Locked
<1>5. CallInv'
  BY <1>0 DEF CallInv, CallOK, HandleTypeOK, Resolves, Replaces
<1>6. ContractInv'
  BY <1>0 DEF ContractInv, InCall, CallInv, CallOK, HandleTypeOK, Resolves, Replaces
<1>7. FreshInv'
  BY <1>0, <1>1, <1>2 DEF FreshInv, FreshOK, HandleTypeOK, CallInv, CallOK, Resolves,
       Replaces, Locked
<1>8. PtrInv'
  <2> SUFFICES ASSUME NEW u \in Threads PROVE PtrOK(u)'
    BY DEF PtrInv
  <2>1. CASE u = t
    BY <1>0, <1>1, <1>2, <2>1 DEF PtrInv, PtrOK, Dropping, HandleTypeOK, CallInv,
         CallOK, Resolves, Replaces, Locked
  <2>2. CASE u # t
    BY <1>0, <1>1, <1>2, <2>2 DEF PtrInv, PtrOK, Dropping, HandleTypeOK, Locked
  <2> QED
    BY <2>1, <2>2
<1>9. TableInv'
  BY <1>0, <1>1, <1>2 DEF TableInv, Dropping, HandleTypeOK, Locked
<1>10. SlotInv'
  BY <1>0, <1>1, <1>2 DEF SlotInv, Dangling, HandleTypeOK, CallInv, CallOK, Resolves,
       Replaces, Locked
<1>11. ResolveInv'
  <2> SUFFICES ASSUME NEW u \in Threads PROVE ResolveOK(u)'
    BY DEF ResolveInv
  <2>1. CASE u = t
    BY <1>0, <1>1, <1>2, <2>1 DEF ResolveInv, ResolveOK, HandleTypeOK, Resolved,
         CallInv, CallOK, Resolves, Replaces
  <2>2. CASE u # t
    <3>1. UNCHANGED <<pc[u], fn[u], arg[u], other[u], ptr[u], cptr[u]>>
      BY <1>0, <2>2 DEF HandleTypeOK
    <3>2. ResolveOK(u) /\ CallOK(u)
      BY DEF ResolveInv, CallInv
    <3>3. pc[u] = "idle" \/ (slot'[arg[u]] = slot[arg[u]]) \/ slot[arg[u]] \notin Objs
      BY <1>c, <3>2, <2>2 DEF CallOK, InCall, HandleTypeOK
    <3>4. cptr[u] = Null \/ (slot'[other[u]] = slot[other[u]]) \/ slot[other[u]] \notin Objs
      BY <1>c, <3>2, <2>2 DEF CallOK, InCall, ResolveOK, HandleTypeOK
    <3>5. Resolved(u)' = Resolved(u)
      BY <3>1 DEF Resolved
    <3> QED
      BY <3>1, <3>2, <3>3, <3>4, <3>5 DEF ResolveOK, Resolved, CallOK, Resolves
  <2> QED
    BY <2>1, <2>2
<1> QED
  BY <1>3, <1>4, <1>5, <1>6, <1>7, <1>8, <1>9, <1>10, <1>11

\* What is freed is in no slot, in no entry that counts and in no hand.
LEMMA FreeKeeps == ASSUME IInv, NEW t \in Threads, Free(t) PROVE IInv'
<1> USE KindAssumption, ObjsAssumption, NullAssumption, SizeAssumption
<1> USE DEF IInv, Free, Goto
<1>0. PICK l \in {"unlock", "alloc", "track"} : pc' = [pc EXCEPT ![t] = l]
  BY DEF Free
<1>1. /\ g_lock = t /\ Phase = pc[t] /\ pc[t] = "free"
      /\ \A u \in Threads : u # t => pc[u] \notin Locked
  BY Holder DEF Free, Locked
<1>2. /\ Phase' = l
      /\ \A i : Used(i) <=> i < g_num_tracked
      /\ \A i : Used(i)' <=> i < g_num_tracked
      /\ \A o : Listed(o)' = Listed(o)
  <2>1. Phase' = l
    BY <1>0, <1>1 DEF Phase, HandleTypeOK
  <2> QED
    BY <2>1, <1>1, QuietTable
<1>a. /\ ptr[t] \in live /\ ~Listed(ptr[t])
      /\ \A u \in Threads : fresh[u] # ptr[t]
  BY <1>1 DEF PtrInv, PtrOK, Dropping
<1>3. HandleTypeOK'
  BY <1>0 DEF HandleTypeOK, Labels, Locked, Words, CallInv, CallOK, Resolves, Replaces
<1>4. LockInv'
  BY <1>0, <1>1 DEF LockInv, HandleTypeOK, Locked
<1>5. CallInv'
  BY <1>0 DEF CallInv, CallOK, HandleTypeOK, Resolves, Replaces
<1>6. ContractInv'
  BY <1>0 DEF ContractInv, InCall, CallInv, CallOK, HandleTypeOK, Resolves, Replaces
<1>7. FreshInv'
  <2>1. ASSUME NEW u \in Threads PROVE FreshOK(u)'
    <3>1. CASE u = t
      BY <1>0, <1>1, <1>2, <1>a, <3>1 DEF FreshInv, FreshOK, HandleTypeOK, CallInv,
           CallOK, Replaces
    <3>2. CASE u # t
      BY <1>0, <1>2, <1>a, <3>2 DEF FreshInv, FreshOK, HandleTypeOK
    <3> QED
      BY <3>1, <3>2
  <2> QED
    BY <2>1 DEF FreshInv
<1>8. PtrInv'
  <2> SUFFICES ASSUME NEW u \in Threads PROVE PtrOK(u)'
    BY DEF PtrInv
  <2>1. CASE u = t
    BY <1>0, <1>1, <1>2, <2>1 DEF PtrInv, PtrOK, Dropping, HandleTypeOK, CallInv,
         CallOK, Resolves, Replaces, Locked
  <2>2. CASE u # t
    BY <1>0, <1>1, <1>2, <2>2 DEF PtrInv, PtrOK, Dropping, HandleTypeOK, Locked
  <2> QED
    BY <2>1, <2>2
<1>9. TableInv'
  <2>1. ASSUME NEW x \in live \ {ptr[t]}
        PROVE  \/ Listed(x)'
               \/ \E u \in Threads : fresh'[u] = x
               \/ \E u \in Threads : Dropping(u)' /\ ptr'[u] = x
    <3>1. \A u \in Threads : u # t => ~Dropping(u)
      BY <1>1 DEF Dropping, Locked
    <3> QED
      BY <1>2, <3>1 DEF TableInv
  <2>2. \A i \in Index : Used(i) => g_tracked_objs[i] # ptr[t]
    BY <1>a DEF Listed
  <2> QED
    BY <1>0, <1>1, <1>2, <2>1, <2>2 DEF TableInv
<1>10. SlotInv'
  BY <1>0, <1>1, <1>2 DEF SlotInv, Dangling, HandleTypeOK, CallInv, CallOK, Resolves,
       Replaces, Locked
<1>11. ResolveInv'
  <2> SUFFICES ASSUME NEW u \in Threads PROVE ResolveOK(u)'
    BY DEF ResolveInv
  <2>1. CASE u = t
    BY <1>0, <1>1, <1>2, <2>1 DEF ResolveInv, ResolveOK, HandleTypeOK, Resolved,
         CallInv, CallOK, Resolves, Replaces
  <2>2. CASE u # t
    BY <1>0, <1>1, <1>2, <2>2 DEF ResolveInv, ResolveOK, HandleTypeOK, Resolved
  <2> QED
    BY <2>1, <2>2
<1> QED
  BY <1>3, <1>4, <1>5, <1>6, <1>7, <1>8, <1>9, <1>10, <1>11

\* There is room for a new object: the others are listed once each and are fewer
\* than the addresses there are.
LEMMA Room ==
    ASSUME IInv, Fits, NEW t \in Threads, pc[t] = "track"
    PROVE  g_num_tracked < MAX_TRACKED_OBJS
<1> USE ObjsAssumption, SizeAssumption
<1>1. g_lock = t /\ Phase = "track"
  BY Holder DEF Locked
<1>2. /\ fresh[t] \in Objs /\ ~Listed(fresh[t])
      /\ g_num_tracked \in 0 .. MAX_TRACKED_OBJS
      /\ g_tracked_objs \in [Index -> Objs \cup {Null}]
  BY DEF IInv, FreshInv, FreshOK, HandleTypeOK, Index
<1> SUFFICES ASSUME g_num_tracked >= MAX_TRACKED_OBJS PROVE FALSE
  BY <1>2
<1>3. \A i \in Index : Used(i)
  BY <1>1, <1>2 DEF Used, Index
<1>4. \A i \in Index : g_tracked_objs[i] \in Objs \ {fresh[t]}
  BY <1>2, <1>3 DEF IInv, TableInv, HandleTypeOK, Listed
<1>5. g_tracked_objs \in [Index -> Objs \ {fresh[t]}]
  BY <1>2, <1>4
<1>6. /\ IsFiniteSet(Objs \ {fresh[t]})
      /\ Cardinality(Objs \ {fresh[t]}) = Cardinality(Objs) - 1
      /\ Cardinality(Objs) \in Nat
  BY <1>2, FS_RemoveElement, FS_CardinalityType
<1>7. IsFiniteSet(Index) /\ Cardinality(Index) = MAX_TRACKED_OBJS
  BY FS_Interval DEF Index
<1>8. PICK i, j \in Index : i # j /\ g_tracked_objs[i] = g_tracked_objs[j]
  BY <1>5, <1>6, <1>7, FS_PigeonHole DEF Fits
<1> QED
  BY <1>3, <1>8 DEF IInv, TableInv

\* The count moves first: the entry it now includes is not yet written.
LEMMA TrackKeeps == ASSUME IInv, Fits, NEW t \in Threads, Track(t) PROVE IInv'
<1> USE KindAssumption, ObjsAssumption, NullAssumption, SizeAssumption
<1> USE DEF IInv, Track, Goto
<1>0. PICK l \in {"store"} : pc' = [pc EXCEPT ![t] = l]
  BY Room DEF Track
<1>1. /\ g_lock = t /\ Phase = pc[t] /\ pc[t] = "track"
      /\ \A u \in Threads : u # t => pc[u] \notin Locked
  BY Holder DEF Track, Locked
<1>2. /\ Phase' = "store" /\ g_num_tracked' = g_num_tracked + 1
      /\ \A i \in Index : Used(i) <=> i < g_num_tracked
      /\ \A i \in Index : Used(i)' <=> i < g_num_tracked
      /\ \A o : Listed(o)' = Listed(o)
      /\ \A s : Dangling(s)' = Dangling(s)
  <2>1. Phase' = "store" /\ g_num_tracked' = g_num_tracked + 1
    BY <1>1, Room DEF Phase, HandleTypeOK
  <2>2. \A i \in Index : Used(i) <=> i < g_num_tracked
    BY <1>1 DEF Used
  <2>3. \A i \in Index : Used(i)' <=> i < g_num_tracked
    BY <2>1 DEF Used, HandleTypeOK
  <2>4. \A s : Dangling(s)' = Dangling(s)
    BY <1>1, <2>1 DEF Dangling
  <2> QED
    BY <2>1, <2>2, <2>3, <2>4 DEF Listed
<1>3. HandleTypeOK'
  BY <1>0, <1>2, Room, <1>1 DEF HandleTypeOK, Labels, Locked
<1>4. LockInv'
  BY <1>0, <1>1 DEF LockInv, HandleTypeOK, Locked
<1>5. CallInv'
  BY <1>0 DEF CallInv, CallOK, HandleTypeOK, Resolves, Replaces
<1>6. ContractInv'
  BY <1>0 DEF ContractInv, InCall, CallInv, CallOK, HandleTypeOK, Resolves, Replaces
<1>7. FreshInv'
  BY <1>0, <1>1, <1>2 DEF FreshInv, FreshOK, HandleTypeOK, CallInv, CallOK, Resolves,
       Replaces, Locked
<1>8. PtrInv'
  <2> SUFFICES ASSUME NEW u \in Threads PROVE PtrOK(u)'
    BY DEF PtrInv
  <2>1. CASE u = t
    BY <1>0, <1>1, <1>2, <2>1 DEF PtrInv, PtrOK, Dropping, HandleTypeOK, CallInv,
         CallOK, Resolves, Replaces, Locked
  <2>2. CASE u # t
    BY <1>0, <1>1, <1>2, <2>2 DEF PtrInv, PtrOK, Dropping, HandleTypeOK, Locked
  <2> QED
    BY <2>1, <2>2
<1>9. TableInv'
  <2>1. ASSUME NEW x \in live
        PROVE  \/ Listed(x)'
               \/ \E u \in Threads : fresh'[u] = x
               \/ \E u \in Threads : Dropping(u)' /\ ptr'[u] = x
    <3>1. \A u \in Threads : ~Dropping(u)
      BY <1>1 DEF Dropping, Locked
    <3> QED
      BY <1>2, <3>1 DEF TableInv
  <2>2. g_num_tracked' > 0
    BY <1>2 DEF HandleTypeOK
  <2> QED
    BY <1>2, <2>1, <2>2 DEF TableInv
<1>10. SlotInv'
  BY <1>0, <1>1, <1>2 DEF SlotInv, HandleTypeOK, Locked
<1>11. ResolveInv'
  <2> SUFFICES ASSUME NEW u \in Threads PROVE ResolveOK(u)'
    BY DEF ResolveInv
  <2>1. CASE u = t
    BY <1>0, <1>1, <1>2, <2>1 DEF ResolveInv, ResolveOK, HandleTypeOK, Resolved,
         CallInv, CallOK, Resolves, Replaces
  <2>2. CASE u # t
    BY <1>0, <1>1, <1>2, <2>2 DEF ResolveInv, ResolveOK, HandleTypeOK, Resolved
  <2> QED
    BY <2>1, <2>2
<1> QED
  BY <1>3, <1>4, <1>5, <1>6, <1>7, <1>8, <1>9, <1>10, <1>11

\* The entry is written and the object is listed.
LEMMA StoreKeeps == ASSUME IInv, NEW t \in Threads, Store(t) PROVE IInv'
<1> USE KindAssumption, ObjsAssumption, NullAssumption, SizeAssumption
<1> USE DEF IInv, Store, Goto
<1>0. PICK l \in {"publish"} : pc' = [pc EXCEPT ![t] = l]
  BY DEF Store
<1>1. /\ g_lock = t /\ Phase = pc[t] /\ pc[t] = "store"
      /\ \A u \in Threads : u # t => pc[u] \notin Locked
  BY Holder DEF Store, Locked
<1>a. /\ g_num_tracked \in 1 .. MAX_TRACKED_OBJS
      /\ fresh[t] \in live /\ fresh[t] \in Objs
      /\ g_num_tracked - 1 \in Index
      /\ g_tracked_objs \in [Index -> Objs \cup {Null}]
      /\ ~Listed(fresh[t])
  BY <1>1 DEF TableInv, HandleTypeOK, FreshInv, FreshOK, Index
<1>2. /\ Phase' = "publish"
      /\ \A i \in Index : Used(i) <=> i < g_num_tracked - 1
      /\ \A i \in Index : Used(i)' <=> i < g_num_tracked
      /\ \A i \in Index : g_tracked_objs'[i] =
            IF i = g_num_tracked - 1 THEN fresh[t] ELSE g_tracked_objs[i]
      /\ \A s : Dangling(s)' = Dangling(s)
  <2>1. Phase' = "publish"
    BY <1>1 DEF Phase, HandleTypeOK
  <2> QED
    BY <1>1, <1>a, <2>1 DEF Used, Dangling
<1>e. \A o : Listed(o)' = (Listed(o) \/ o = fresh[t])
  <2>1. ASSUME NEW o, Listed(o)' PROVE Listed(o) \/ o = fresh[t]
    BY <1>2, <1>a, <2>1 DEF Listed, Index
  <2>2. ASSUME NEW o, Listed(o) PROVE Listed(o)'
    BY <1>2, <1>a, <2>2 DEF Listed, Index
  <2>3. Listed(fresh[t])'
    BY <1>2, <1>a DEF Listed, Index
  <2> QED
    BY <2>1, <2>2, <2>3 DEF Listed
<1>3. HandleTypeOK'
  BY <1>0, <1>a DEF HandleTypeOK, Labels, Locked, Index
<1>4. LockInv'
  BY <1>0, <1>1 DEF LockInv, HandleTypeOK, Locked
<1>5. CallInv'
  BY <1>0 DEF CallInv, CallOK, HandleTypeOK, Resolves, Replaces
<1>6. ContractInv'
  BY <1>0 DEF ContractInv, InCall, CallInv, CallOK, HandleTypeOK, Resolves, Replaces
<1>7. FreshInv'
  <2>1. ASSUME NEW u \in Threads PROVE FreshOK(u)'
    <3>0. Listed(fresh[u])' = (Listed(fresh[u]) \/ fresh[u] = fresh[t])
      BY <1>e
    <3>1. CASE u = t
      BY <1>0, <1>1, <3>0, <1>a, <3>1 DEF FreshInv, FreshOK, HandleTypeOK
    <3>2. CASE u # t
      <4>1. pc'[u] = pc[u] /\ pc[u] # "publish"
        BY <1>0, <1>1, <3>2 DEF HandleTypeOK, Locked
      <4>2. fresh[u] # Null => fresh[u] # fresh[t]
        BY <3>2 DEF FreshInv
      <4> QED
        BY <3>0, <4>1, <4>2 DEF FreshInv, FreshOK
    <3> QED
      BY <3>1, <3>2
  <2> QED
    BY <2>1 DEF FreshInv
<1>8. PtrInv'
  <2> SUFFICES ASSUME NEW u \in Threads PROVE PtrOK(u)'
    BY DEF PtrInv
  <2>1. CASE u = t
    BY <1>0, <1>1, <2>1 DEF PtrInv, PtrOK, Dropping, HandleTypeOK
  <2>2. CASE u # t
    BY <1>0, <1>1, <2>2 DEF PtrInv, PtrOK, Dropping, HandleTypeOK, Locked
  <2> QED
    BY <2>1, <2>2
<1>9. TableInv'
  <2>1. ASSUME NEW x \in live
        PROVE  \/ Listed(x)'
               \/ \E u \in Threads : fresh'[u] = x
               \/ \E u \in Threads : Dropping(u)' /\ ptr'[u] = x
    <3>1. \A u \in Threads : ~Dropping(u)
      BY <1>1 DEF Dropping, Locked
    <3>2. Listed(x) => Listed(x)'
      BY <1>e
    <3> QED
      BY <3>1, <3>2 DEF TableInv
  <2>2. \A i \in Index : Used(i) => g_tracked_objs[i] # fresh[t]
    BY <1>a DEF Listed
  <2>3. \A i \in Index : Used(i)' => Used(i) \/ i = g_num_tracked - 1
    BY <1>2, <1>a DEF Index
  <2>4. \A i, j \in Index :
          Used(i)' /\ Used(j)' /\ g_tracked_objs'[i] = g_tracked_objs'[j] => i = j
    BY <1>2, <2>2, <2>3 DEF TableInv
  <2>5. \A i \in Index : Used(i)' => g_tracked_objs'[i] \in live
    BY <1>2, <1>a, <2>3 DEF TableInv
  <2> QED
    BY <1>2, <2>1, <2>4, <2>5 DEF TableInv
<1>10. SlotInv'
  <2>1. \A s \in Slots : s # arg[t] => slot[s] # fresh[t]
    BY <1>1, <1>a DEF SlotInv, Dangling
  <2>2. \A s \in Slots : slot[s] \in Objs /\ ~Dangling(s) => Listed(slot[s])'
    BY <1>e DEF SlotInv
  <2>3. \A u \in Threads : u # t => pc'[u] = pc[u] /\ pc[u] # "publish"
    BY <1>0, <1>1 DEF HandleTypeOK, Locked
  <2>4. pc'[t] = "publish"
    BY <1>0 DEF HandleTypeOK
  <2> QED
    BY <1>1, <1>2, <2>1, <2>2, <2>3, <2>4 DEF SlotInv
<1>11. ResolveInv'
  <2> SUFFICES ASSUME NEW u \in Threads PROVE ResolveOK(u)'
    BY DEF ResolveInv
  <2>1. CASE u = t
    BY <1>0, <1>1, <1>2, <2>1 DEF ResolveInv, ResolveOK, HandleTypeOK, Resolved,
         CallInv, CallOK, Resolves, Replaces
  <2>2. CASE u # t
    BY <1>0, <1>1, <1>2, <2>2 DEF ResolveInv, ResolveOK, HandleTypeOK, Resolved
  <2> QED
    BY <2>1, <2>2
<1> QED
  BY <1>3, <1>4, <1>5, <1>6, <1>7, <1>8, <1>9, <1>10, <1>11

\* The count moves back first: the removed entry is a hole.
LEMMA UntrackKeeps == ASSUME IInv, NEW t \in Threads, Untrack(t) PROVE IInv'
<1> USE KindAssumption, ObjsAssumption, NullAssumption, SizeAssumption
<1> USE DEF IInv, Untrack, Goto
<1>0. PICK l \in {"fill"} : pc' = [pc EXCEPT ![t] = l]
  BY DEF Untrack
<1>1. /\ g_lock = t /\ Phase = pc[t] /\ pc[t] = "untrack"
      /\ \A u \in Threads : u # t => pc[u] \notin Locked
  BY Holder DEF Untrack, Locked
<1>a. PICK n \in 0 .. g_num_tracked - 1 :
        g_tracked_objs[n] = ptr[t] /\ idx' = [idx EXCEPT ![t] = n]
  OBVIOUS
<1>b. /\ g_num_tracked \in 1 .. MAX_TRACKED_OBJS /\ n \in Index
      /\ ptr[t] \in Objs /\ ptr[t] = slot[arg[t]] /\ arg[t] \in Slots
      /\ fn[t] \in Replaces
  BY <1>a, <1>1 DEF HandleTypeOK, Index, PtrInv, PtrOK, CallInv, CallOK
<1>2. /\ Phase' = "fill" /\ g_num_tracked' = g_num_tracked - 1 /\ idx'[t] = n
      /\ \A i \in Index : Used(i) <=> i < g_num_tracked
      /\ \A i \in Index : Used(i)' <=> i < g_num_tracked /\ i # n
      /\ \A s : ~Dangling(s) /\ (Dangling(s)' <=> s = arg[t])
  <2>1. Phase' = "fill" /\ idx'[t] = n
    BY <1>0, <1>1, <1>a DEF Phase, HandleTypeOK
  <2>2. \A i \in Index : Used(i) <=> i < g_num_tracked
    BY <1>1 DEF Used
  <2>3. \A i \in Index : Used(i)' <=> i < g_num_tracked /\ i # n
    BY <1>1, <1>b, <2>1 DEF Used, Index
  <2> QED
    BY <1>1, <2>1, <2>2, <2>3 DEF Dangling
<1>e. \A o : Listed(o)' = (Listed(o) /\ o # ptr[t])
  <2>0. Used(n)
    BY <1>a, <1>b, <1>2
  <2>1. \A i \in Index : Used(i) /\ g_tracked_objs[i] = ptr[t] => i = n
    BY <1>a, <1>b, <2>0 DEF TableInv
  <2> QED
    BY <1>2, <1>a, <2>1 DEF Listed
<1>c. ptr[t] \in live /\ Listed(ptr[t])
  BY <1>a, <1>b, <1>2 DEF TableInv, Listed
<1>d. \A u \in Threads : fresh[u] # ptr[t]
  <2> SUFFICES ASSUME NEW u \in Threads, fresh[u] = ptr[t] PROVE FALSE
    OBVIOUS
  <2>1. pc[u] = "publish"
    BY <1>b, <1>c DEF FreshInv, FreshOK
  <2> QED
    BY <1>1, <2>1 DEF Locked
<1>3. HandleTypeOK'
  BY <1>0, <1>a, <1>b DEF HandleTypeOK, Labels, Locked
<1>4. LockInv'
  BY <1>0, <1>1 DEF LockInv, HandleTypeOK, Locked
<1>5. CallInv'
  BY <1>0 DEF CallInv, CallOK, HandleTypeOK, Resolves, Replaces
<1>6. ContractInv'
  BY <1>0 DEF ContractInv, InCall, CallInv, CallOK, HandleTypeOK, Resolves, Replaces
<1>7. FreshInv'
  <2>1. ASSUME NEW u \in Threads PROVE FreshOK(u)'
    <3>1. Listed(fresh[u])' <=> Listed(fresh[u])
      BY <1>e, <1>d
    <3>2. CASE u = t
      BY <1>0, <1>1, <3>1, <3>2 DEF FreshInv, FreshOK, HandleTypeOK
    <3>3. CASE u # t
      BY <1>0, <3>1, <3>3 DEF FreshInv, FreshOK, HandleTypeOK
    <3> QED
      BY <3>2, <3>3
  <2> QED
    BY <2>1 DEF FreshInv
<1>8. PtrInv'
  <2> SUFFICES ASSUME NEW u \in Threads PROVE PtrOK(u)'
    BY DEF PtrInv
  <2>1. CASE u = t
    <3>1. ~Listed(ptr[t])'
      BY <1>e
    <3> QED
      BY <1>0, <1>b, <1>c, <1>d, <2>1, <3>1 DEF PtrOK, HandleTypeOK
  <2>2. CASE u # t
    BY <1>0, <1>1, <2>2 DEF PtrInv, PtrOK, Dropping, HandleTypeOK, Locked
  <2> QED
    BY <2>1, <2>2
<1>9. TableInv'
  <2>1. ASSUME NEW x \in live
        PROVE  \/ Listed(x)'
               \/ \E u \in Threads : fresh'[u] = x
               \/ \E u \in Threads : Dropping(u)' /\ ptr'[u] = x
    <3>1. \A u \in Threads : ~Dropping(u)
      BY <1>1 DEF Dropping, Locked
    <3>2. Listed(x) => Listed(x)' \/ x = ptr[t]
      BY <1>e
    <3>3. Dropping(t)' /\ ptr'[t] = ptr[t]
      BY <1>0, <1>b DEF Dropping, HandleTypeOK
    <3> QED
      BY <3>1, <3>2, <3>3 DEF TableInv
  <2>2. /\ \A i, j \in Index :
               Used(i)' /\ Used(j)' /\ g_tracked_objs[i] = g_tracked_objs[j] => i = j
        /\ \A i \in Index : Used(i)' => g_tracked_objs[i] \in live
    BY <1>2 DEF TableInv
  <2>3. g_num_tracked' < MAX_TRACKED_OBJS /\ idx'[g_lock] <= g_num_tracked'
    BY <1>1, <1>2, <1>a, <1>b
  <2> QED
    BY <1>2, <2>1, <2>2, <2>3 DEF TableInv
<1>10. SlotInv'
  <2>1. \A s \in Slots : s # arg[t] => slot[s] # ptr[t]
    BY <1>2, <1>b DEF SlotInv
  <2>2. \A s \in Slots : slot[s] \in Objs /\ ~Dangling(s)' => Listed(slot[s])'
    BY <1>2, <1>e, <2>1 DEF SlotInv
  <2>3. \A u \in Threads : u # t => pc'[u] = pc[u]
    BY <1>0 DEF HandleTypeOK
  <2>4. pc'[t] = "fill"
    BY <1>0 DEF HandleTypeOK
  <2> QED
    BY <1>2, <2>2, <2>3, <2>4 DEF SlotInv
<1>11. ResolveInv'
  <2> SUFFICES ASSUME NEW u \in Threads PROVE ResolveOK(u)'
    BY DEF ResolveInv
  <2>1. CASE u = t
    BY <1>0, <1>1, <1>2, <2>1 DEF ResolveInv, ResolveOK, HandleTypeOK, Resolved,
         CallInv, CallOK, Resolves, Replaces
  <2>2. CASE u # t
    BY <1>0, <1>1, <1>2, <2>2 DEF ResolveInv, ResolveOK, HandleTypeOK, Resolved
  <2> QED
    BY <2>1, <2>2
<1> QED
  BY <1>3, <1>4, <1>5, <1>6, <1>7, <1>8, <1>9, <1>10, <1>11

\* The last entry fills the hole: no object is lost, none is listed twice.
LEMMA FillKeeps == ASSUME IInv, NEW t \in Threads, Fill(t) PROVE IInv'
<1> USE KindAssumption, ObjsAssumption, NullAssumption, SizeAssumption
<1> USE DEF IInv, Fill, Goto
<1>0. PICK l \in {"free", "clear"} : pc' = [pc EXCEPT ![t] = l]
  BY DEF Fill
<1>1. /\ g_lock = t /\ Phase = pc[t] /\ pc[t] = "fill"
      /\ \A u \in Threads : u # t => pc[u] \notin Locked
  BY Holder DEF Fill, Locked
<1>a. /\ g_num_tracked \in Index /\ idx[t] \in Index
      /\ idx[t] <= g_num_tracked
      /\ g_tracked_objs \in [Index -> Objs \cup {Null}]
  BY <1>1 DEF TableInv, HandleTypeOK, Index
<1>b. \A i \in Index : g_tracked_objs'[i] =
            IF i = idx[t] THEN g_tracked_objs[g_num_tracked] ELSE g_tracked_objs[i]
  BY <1>a
<1>2. /\ Phase' \in {"free", "clear"}
      /\ \A i \in Index : Used(i) <=> i <= g_num_tracked /\ i # idx[t]
      /\ \A i \in Index : Used(i)' <=> i < g_num_tracked
      /\ \A s : Dangling(s)' = Dangling(s)
  <2>1. Phase' \in {"free", "clear"}
    BY <1>0, <1>1 DEF Phase, HandleTypeOK
  <2> QED
    BY <1>1, <2>1 DEF Used, Dangling
<1>e. \A o : Listed(o)' = Listed(o)
  <2>1. ASSUME NEW o, Listed(o)' PROVE Listed(o)
    <3>1. PICK i \in Index : Used(i)' /\ g_tracked_objs'[i] = o
      BY <2>1 DEF Listed
    <3>2. CASE i = idx[t]
      BY <1>a, <1>b, <1>2, <3>1, <3>2 DEF Listed, Index
    <3>3. CASE i # idx[t]
      BY <1>a, <1>b, <1>2, <3>1, <3>3 DEF Listed, Index
    <3> QED
      BY <3>2, <3>3
  <2>2. ASSUME NEW o, Listed(o) PROVE Listed(o)'
    <3>1. PICK i \in Index : Used(i) /\ g_tracked_objs[i] = o
      BY <2>2 DEF Listed
    <3>2. CASE i = g_num_tracked
      BY <1>a, <1>b, <1>2, <3>1, <3>2 DEF Listed, Index
    <3>3. CASE i # g_num_tracked
      BY <1>a, <1>b, <1>2, <3>1, <3>3 DEF Listed, Index
    <3> QED
      BY <3>2, <3>3
  <2> QED
    BY <2>1, <2>2 DEF Listed
<1>3. HandleTypeOK'
  BY <1>0, <1>a DEF HandleTypeOK, Labels, Locked, Index
<1>4. LockInv'
  BY <1>0, <1>1 DEF LockInv, HandleTypeOK, Locked
<1>5. CallInv'
  BY <1>0 DEF CallInv, CallOK, HandleTypeOK, Resolves, Replaces
<1>6. ContractInv'
  BY <1>0 DEF ContractInv, InCall, CallInv, CallOK, HandleTypeOK, Resolves, Replaces
<1>7. FreshInv'
  <2>1. ASSUME NEW u \in Threads PROVE FreshOK(u)'
    <3>1. Listed(fresh[u])' = Listed(fresh[u])
      BY <1>e
    <3>2. CASE u = t
      BY <1>0, <1>1, <3>1, <3>2 DEF FreshInv, FreshOK, HandleTypeOK, CallInv, CallOK,
           Replaces
    <3>3. CASE u # t
      BY <1>0, <3>1, <3>3 DEF FreshInv, FreshOK, HandleTypeOK
    <3> QED
      BY <3>2, <3>3
  <2> QED
    BY <2>1 DEF FreshInv
<1>8. PtrInv'
  <2> SUFFICES ASSUME NEW u \in Threads PROVE PtrOK(u)'
    BY DEF PtrInv
  <2>0. Listed(ptr[u])' = Listed(ptr[u])
    BY <1>e
  <2>1. CASE u = t
    BY <1>0, <1>1, <2>0, <2>1 DEF PtrInv, PtrOK, Dropping, HandleTypeOK
  <2>2. CASE u # t
    BY <1>0, <1>1, <2>0, <2>2 DEF PtrInv, PtrOK, Dropping, HandleTypeOK, Locked
  <2> QED
    BY <2>1, <2>2
<1>9. TableInv'
  <2>1. ASSUME NEW x \in live
        PROVE  \/ Listed(x)'
               \/ \E u \in Threads : fresh'[u] = x
               \/ \E u \in Threads : Dropping(u)' /\ ptr'[u] = x
    <3>1. \A u \in Threads : Dropping(u) => Dropping(u)'
      BY <1>0, <1>1 DEF Dropping, HandleTypeOK, Locked
    <3>2. Listed(x) => Listed(x)'
      BY <1>e
    <3> QED
      BY <3>1, <3>2 DEF TableInv
  <2>2. \A i, j \in Index :
          Used(i)' /\ Used(j)' /\ g_tracked_objs'[i] = g_tracked_objs'[j] => i = j
    <3> SUFFICES ASSUME NEW i \in Index, NEW j \in Index, Used(i)', Used(j)',
                        g_tracked_objs'[i] = g_tracked_objs'[j]
                 PROVE  i = j
      OBVIOUS
    <3>1. CASE i = idx[t] /\ j # idx[t]
      BY <1>a, <1>b, <1>2, <3>1 DEF TableInv, Index
    <3>2. CASE i # idx[t] /\ j = idx[t]
      BY <1>a, <1>b, <1>2, <3>2 DEF TableInv, Index
    <3>3. CASE i # idx[t] /\ j # idx[t]
      BY <1>a, <1>b, <1>2, <3>3 DEF TableInv, Index
    <3> QED
      BY <3>1, <3>2, <3>3
  <2>3. ASSUME NEW i \in Index, Used(i)' PROVE g_tracked_objs'[i] \in live
    BY <1>a, <1>b, <1>2, <2>3 DEF TableInv, Index
  <2> QED
    BY <1>2, <2>1, <2>2, <2>3 DEF TableInv
<1>10. SlotInv'
  <2>1. \A s \in Slots : slot[s] \in Objs /\ ~Dangling(s)' => Listed(slot[s])'
    BY <1>2, <1>e DEF SlotInv
  <2>2. \A u \in Threads : u # t => pc'[u] = pc[u]
    BY <1>0 DEF HandleTypeOK
  <2>3. pc'[t] \in {"free", "clear"} /\ (pc'[t] = "free" => fn[t] = "init")
    BY <1>0 DEF HandleTypeOK
  <2> QED
    BY <1>2, <2>1, <2>2, <2>3 DEF SlotInv
<1>11. ResolveInv'
  <2> SUFFICES ASSUME NEW u \in Threads PROVE ResolveOK(u)'
    BY DEF ResolveInv
  <2>1. CASE u = t
    BY <1>0, <1>1, <1>2, <2>1 DEF ResolveInv, ResolveOK, HandleTypeOK, Resolved,
         CallInv, CallOK, Resolves, Replaces
  <2>2. CASE u # t
    BY <1>0, <1>1, <1>2, <2>2 DEF ResolveInv, ResolveOK, HandleTypeOK, Resolved
  <2> QED
    BY <2>1, <2>2
<1> QED
  BY <1>3, <1>4, <1>5, <1>6, <1>7, <1>8, <1>9, <1>10, <1>11

-----------------------------------------------------------------------------
(***************************************************************************)
(* The environment, the initial states, and the invariant itself.          *)
(***************************************************************************)

\* Reused memory does not hold an address of the table (Fits).
LEMMA RecycleKeeps ==
    ASSUME IInv, Fits, NEW s \in Slots, Recycle(s)
    PROVE IInv'
<1> USE KindAssumption, ObjsAssumption, NullAssumption, StorageAssumption
<1> USE DEF IInv, Recycle, localVars
<1>1. PICK w \in Storage \cup {slot[s]} : /\ slot' = [slot EXCEPT ![s] = w]
                                         /\ ready' = [ready EXCEPT ![s] = (w = Null)]
  OBVIOUS
<1>2. /\ slot'[s] \in Objs => slot'[s] = slot[s]
      /\ \A r \in Slots : r # s => slot'[r] = slot[r]
      /\ slot' \in [Slots -> Words]
  BY <1>1 DEF Fits, HandleTypeOK, Words
<1>3. /\ Phase' = Phase
      /\ \A i \in Index : Used(i)' = Used(i)
      /\ \A o : Listed(o)' = Listed(o)
      /\ \A r : Dangling(r)' = Dangling(r)
  BY DEF Phase, Used, Listed, Dangling
<1>4. \A u \in Threads : ~InCall(u, s)
  BY DEF InUse
<1>5. HandleTypeOK'
  BY <1>1, <1>2 DEF HandleTypeOK
<1>6. LockInv' /\ CallInv' /\ ContractInv'
  BY DEF LockInv, CallInv, CallOK, ContractInv, InCall
<1>7. FreshInv'
  BY <1>3 DEF FreshInv, FreshOK
<1>8. PtrInv'
  BY <1>2, <1>3, <1>4 DEF PtrInv, PtrOK, Dropping, InCall, CallInv, CallOK
<1>9. TableInv'
  BY <1>3 DEF TableInv, Dropping
<1>10. SlotInv'
  <2>1. ~Dangling(s)
    BY <1>4 DEF Dangling, InCall, Phase
  <2>2. /\ \A r \in Slots : slot'[r] \in Objs /\ ~Dangling(r) => Listed(slot[r])'
        /\ \A r, q \in Slots :
              r # q /\ ~Dangling(r) /\ ~Dangling(q) /\ slot'[r] = slot'[q]
                => slot'[r] \notin Objs
    BY <1>2, <1>3, <2>1 DEF SlotInv
  <2>3. \A t \in Threads : pc[t] # "idle" => arg[t] \in Slots /\ arg[t] # s
    BY <1>4 DEF CallInv, CallOK, InCall
  <2>4. \A t \in Threads, r \in Slots :
            pc[t] = "publish" /\ r # arg[t] => slot'[r] # fresh[t]
    <3>1. \A t \in Threads : pc[t] = "publish" => fresh[t] \in Objs
      BY DEF FreshInv, FreshOK, HandleTypeOK
    <3> QED
      BY <1>2, <3>1 DEF SlotInv
  <2> QED
    BY <1>2, <1>3, <2>2, <2>3, <2>4 DEF SlotInv
<1>11. ResolveInv'
  BY <1>2, <1>4 DEF ResolveInv, ResolveOK, Resolved, InCall, CallInv, CallOK, Resolves
<1> QED
  BY <1>5, <1>6, <1>7, <1>8, <1>9, <1>10, <1>11

\* The table starts empty and no slot names an object.
LEMMA InitHolds == HandleInit => IInv
<1> USE KindAssumption, ObjsAssumption, NullAssumption, SizeAssumption
<1> SUFFICES ASSUME HandleInit PROVE IInv
  OBVIOUS
<1> USE DEF HandleInit
<1>1. Phase = "idle" /\ \A i \in Index : ~Used(i)
  BY DEF Phase, Used, Index
<1>2. HandleTypeOK
  BY DEF HandleTypeOK, Words, Labels, Locked
<1>3. LockInv /\ CallInv /\ ContractInv
  BY DEF LockInv, Locked, CallInv, CallOK, ContractInv, Resolves, Replaces
<1>4. FreshInv /\ PtrInv
  BY DEF FreshInv, FreshOK, PtrInv, PtrOK, Dropping, Replaces
<1>5. TableInv
  BY <1>1 DEF TableInv
<1>6. SlotInv
  BY <1>1 DEF SlotInv, Dangling
<1>7. ResolveInv
  BY DEF ResolveInv, ResolveOK, Resolved, Resolves
<1> QED
  BY <1>2, <1>3, <1>4, <1>5, <1>6, <1>7 DEF IInv

\* Every step keeps the invariant.
LEMMA NextKeeps == ASSUME Fits, IInv, [HandleNext]_handleVars PROVE IInv'
<1>1. ASSUME NEW t \in Threads, NEW s \in Slots, EnterUse(t, s) PROVE IInv'
  BY <1>1, EnterUseKeeps
<1>2. ASSUME NEW t \in Threads, NEW s \in Slots, EnterInit(t, s) PROVE IInv'
  BY <1>2, EnterInitKeeps
<1>3. ASSUME NEW t \in Threads, NEW s \in Slots, EnterDestroy(t, s) PROVE IInv'
  BY <1>3, EnterDestroyKeeps
<1>4. ASSUME NEW t \in Threads, NEW s \in Slots, NEW m \in Slots, EnterWait(t, s, m)
      PROVE  IInv'
  BY <1>4, EnterWaitKeeps
<1>5. ASSUME NEW t \in Threads, Lock(t) PROVE IInv'
  BY <1>5, LockKeeps
<1>6. ASSUME NEW t \in Threads, Advance(t) PROVE IInv'
  <2>1. CASE ReadSlot(t) \/ TestBound(t) \/ Probe(t)
    BY <2>1, ReadSlotKeeps, TestBoundKeeps, ProbeKeeps
  <2>2. CASE CheckResolve(t) \/ CheckReplace(t)
    BY <2>2, CheckResolveKeeps, CheckReplaceKeeps
  <2>3. CASE Alloc(t) \/ PreAlloc(t) \/ Publish(t)
    BY <2>3, AllocKeeps, PreAllocKeeps, PublishKeeps
  <2>4. CASE Track(t) \/ Store(t) \/ Untrack(t) \/ Fill(t)
    BY <2>4, TrackKeeps, StoreKeeps, UntrackKeeps, FillKeeps
  <2>5. CASE Clear(t) \/ Free(t) \/ Unlock(t)
    BY <2>5, ClearKeeps, FreeKeeps, UnlockKeeps
  <2>6. CASE ReturnCond(t) \/ ReturnReal(t)
    BY <2>6, ReturnCondKeeps, ReturnRealKeeps
  <2> QED
    BY <1>6, <2>1, <2>2, <2>3, <2>4, <2>5, <2>6 DEF Advance
<1>7. ASSUME NEW t \in Threads, Finish(t) PROVE IInv'
  BY <1>7, FinishKeeps
<1>8. ASSUME NEW s \in Slots, Recycle(s) PROVE IInv'
  BY <1>8, RecycleKeeps
<1>9. CASE UNCHANGED handleVars
  <2>1. /\ Phase' = Phase
        /\ \A i \in Index : Used(i)' = Used(i)
        /\ \A o : Listed(o)' = Listed(o)
        /\ \A r : Dangling(r)' = Dangling(r)
    BY <1>9 DEF handleVars, tableVars, localVars, Phase, Used, Listed, Dangling
  <2>2. HandleTypeOK' /\ LockInv' /\ CallInv' /\ ContractInv'
    BY <1>9 DEF handleVars, tableVars, localVars, IInv, HandleTypeOK, LockInv,
                CallInv, CallOK, ContractInv, InCall
  <2>3. FreshInv' /\ PtrInv'
    BY <1>9, <2>1 DEF handleVars, tableVars, localVars, IInv,
                      FreshInv, FreshOK, PtrInv, PtrOK, Dropping
  <2>4. TableInv' /\ SlotInv'
    BY <1>9, <2>1 DEF handleVars, tableVars, localVars, IInv,
                      TableInv, Dropping, SlotInv
  <2>5. ResolveInv'
    BY <1>9 DEF handleVars, tableVars, localVars, IInv, ResolveInv, ResolveOK,
         Resolved
  <2> QED
    BY <2>2, <2>3, <2>4, <2>5 DEF IInv
<1> QED
  BY <1>1, <1>2, <1>3, <1>4, <1>5, <1>6, <1>7, <1>8, <1>9 DEF HandleNext

\* The inductive invariant holds in every reachable state of the bridge
\* (pthread_bridge.c:48-308), provided the table is never too small.
THEOREM Invariance == ASSUME Fits PROVE HandleSpec => []IInv
<1>1. HandleInit => IInv
  BY InitHolds
<1>2. IInv /\ [HandleNext]_handleVars => IInv'
  BY NextKeeps
<1> QED
  BY <1>1, <1>2, PTL DEF HandleSpec

-----------------------------------------------------------------------------
(***************************************************************************)
(* The properties of BridgeHandles.                                        *)
(***************************************************************************)

\* An object that a thread outside the critical section refers to through its
\* slot is allocated and listed.
LEMMA SlotInUse ==
    ASSUME IInv, NEW t \in Threads, NEW s \in Slots,
           InCall(t, s), pc[t] \notin Locked, slot[s] \in Objs
    PROVE  /\ ~Dangling(s)
           /\ Listed(slot[s])
           /\ slot[s] \in live
<1>1. ~Dangling(s)
  <2> SUFFICES ASSUME Dangling(s) PROVE FALSE
    OBVIOUS
  <2>1. /\ g_lock \in Threads /\ pc[g_lock] # "idle" /\ g_lock # t
        /\ arg[g_lock] = s
    BY DEF Dangling, Phase, Locked
  <2>2. fn[g_lock] \notin Replaces
    BY <2>1 DEF IInv, ContractInv
  <2>3. pc[g_lock] \in {"alloc", "track", "store", "publish"}
    BY <2>1, <2>2 DEF Dangling, Phase, IInv, CallInv, CallOK
  <2>4. fn[g_lock] \in Resolves
    BY <2>1, <2>2 DEF IInv, HandleTypeOK, CallInv, CallOK
  <2> QED
    BY <2>1, <2>3, <2>4 DEF IInv, SlotInv
<1>2. Listed(slot[s])
  BY <1>1 DEF IInv, SlotInv
<1> QED
  BY <1>1, <1>2 DEF IInv, TableInv, Listed

\* What a resolved call holds is what its slots hold.
LEMMA HoldsSlot ==
    ASSUME IInv, NEW t \in Threads, NEW h \in Holds(t)
    PROVE  /\ h[1] \in Slots /\ InCall(t, h[1]) /\ pc[t] \notin Locked
           /\ h[2] = slot[h[1]] /\ h[2] \in Objs
<1>1. Resolved(t) /\ pc[t] = "call"
  BY DEF Holds, Resolved
<1>2. arg[t] \in Slots /\ ptr[t] = slot[arg[t]] /\ ptr[t] \in Objs
  BY <1>1 DEF IInv, CallInv, CallOK, ResolveInv, ResolveOK
<1>3. fn[t] = "wait" =>
        other[t] \in Slots /\ cptr[t] = slot[other[t]] /\ cptr[t] \in Objs
  BY <1>1 DEF IInv, CallInv, CallOK, ResolveInv, ResolveOK
<1> QED
  BY <1>1, <1>2, <1>3 DEF Holds, InCall, Locked

\* Type correctness.
THEOREM TypeCorrect == ASSUME Fits PROVE HandleSpec => []HandleTypeOK
<1>1. IInv => HandleTypeOK
  BY DEF IInv
<1> QED
  BY <1>1, Invariance, PTL

\* glibc is never given the address of a freed object, for any number of threads
\* (mtx_real, cond_real and rw_real against the destroy and init functions).
THEOREM NeverFreed == ASSUME Fits PROVE HandleSpec => []NoUseAfterFree
<1>1. IInv => NoUseAfterFree
  BY HoldsSlot, SlotInUse DEF NoUseAfterFree
<1> QED
  BY <1>1, Invariance, PTL

\* Threads agree on the object of a Bionic object, and distinct ones have distinct
\* objects: the unlocked first look of mtx_real never makes a second object.
THEOREM Agreement == ASSUME Fits PROVE HandleSpec => []OneObjectPerSlot
<1>1. ASSUME IInv, NEW t \in Threads, NEW u \in Threads,
             NEW h \in Holds(t), NEW k \in Holds(u)
      PROVE  h[1] = k[1] <=> h[2] = k[2]
  <2>1. /\ h[1] \in Slots /\ ~Dangling(h[1]) /\ h[2] = slot[h[1]] /\ h[2] \in Objs
        /\ k[1] \in Slots /\ ~Dangling(k[1]) /\ k[2] = slot[k[1]] /\ k[2] \in Objs
    BY <1>1, HoldsSlot, SlotInUse
  <2> QED
    BY <1>1, <2>1 DEF IInv, SlotInv
<1>2. IInv => OneObjectPerSlot
  BY <1>1 DEF OneObjectPerSlot
<1> QED
  BY <1>2, Invariance, PTL

\* Between critical sections the table is exactly the list of objects in service:
\* the swap of untrack_obj loses none and keeps none twice.
THEOREM Exactness == ASSUME Fits PROVE HandleSpec => []TableExact
<1> USE NullAssumption, SizeAssumption
<1>1. ASSUME IInv, g_lock = Null
      PROVE  /\ \A i, j \in 0 .. g_num_tracked - 1 :
                   g_tracked_objs[i] = g_tracked_objs[j] => i = j
             /\ {g_tracked_objs[i] : i \in 0 .. g_num_tracked - 1}
                   = live \ {fresh[t] : t \in Threads}
  <2>1. Phase = "idle" /\ g_num_tracked \in 0 .. MAX_TRACKED_OBJS
    BY <1>1 DEF Phase, IInv, HandleTypeOK
  <2>2. \A i : i \in 0 .. g_num_tracked - 1 <=> i \in Index /\ Used(i)
    BY <2>1 DEF Used, Index
  <2>3. \A t \in Threads : pc[t] \notin Locked
    BY <1>1 DEF IInv, LockInv
  <2>4. \A o : Listed(o) <=> \E i \in 0 .. g_num_tracked - 1 : g_tracked_objs[i] = o
    BY <2>2 DEF Listed
  <2>5. ASSUME NEW o PROVE Listed(o) <=> o \in live \ {fresh[t] : t \in Threads}
    <3>1. Listed(o) => o \in live
      BY <1>1 DEF IInv, TableInv, Listed
    <3>2. ASSUME NEW t \in Threads, fresh[t] = o, o \in live PROVE ~Listed(o)
      <4>1. fresh[t] # Null /\ pc[t] # "publish"
        BY <1>1, <3>2, <2>3, ObjsAssumption DEF IInv, HandleTypeOK, Locked
      <4> QED
        BY <1>1, <3>2, <4>1 DEF IInv, FreshInv, FreshOK
    <3>3. ASSUME o \in live, \A t \in Threads : fresh[t] # o PROVE Listed(o)
      <4>1. \A t \in Threads : ~Dropping(t)
        BY <2>3 DEF Dropping, Locked
      <4> QED
        BY <1>1, <3>3, <4>1 DEF IInv, TableInv
    <3> QED
      BY <3>1, <3>2, <3>3
  <2>6. \A i, j \in 0 .. g_num_tracked - 1 :
            g_tracked_objs[i] = g_tracked_objs[j] => i = j
    BY <1>1, <2>2 DEF IInv, TableInv
  <2> QED
    BY <2>4, <2>5, <2>6
<1>2. IInv => TableExact
  BY <1>1 DEF TableExact
<1> QED
  BY <1>2, Invariance, PTL

\* No step takes the object of a Bionic object away from a thread that resolved it.
THEOREM Stability == ASSUME Fits PROVE HandleSpec => ObjectStable
<1>1. ASSUME IInv, IInv', [HandleNext]_handleVars, NEW t \in Threads,
             Resolved(t), pc'[t] = "call"
      PROVE  slot'[arg[t]] = ptr[t]
  <2>1. /\ arg[t] \in Slots /\ slot[arg[t]] = ptr[t] /\ ptr[t] \in Objs
        /\ InCall(t, arg[t]) /\ pc[t] = "call"
    BY <1>1 DEF Resolved, IInv, CallInv, CallOK, ResolveInv, ResolveOK, InCall
  <2>2. ~Dangling(arg[t])
    BY <1>1, <2>1, SlotInUse DEF Locked
  <2>3. slot'[arg[t]] = slot[arg[t]] \/ \E s \in Slots : Recycle(s) /\ s = arg[t]
    <3>1. CASE \E u \in Threads : Publish(u)
      <4>1. PICK u \in Threads : Publish(u)
        BY <3>1
      <4>2. arg[u] # arg[t]
        BY <1>1, <4>1, <2>2, Holder DEF Publish, Dangling, Locked
      <4> QED
        BY <1>1, <4>1, <4>2, <2>1 DEF Publish, IInv, HandleTypeOK
    <3>2. CASE \E u \in Threads : Clear(u)
      <4>1. PICK u \in Threads : Clear(u)
        BY <3>2
      <4>2. arg[u] # arg[t]
        BY <1>1, <4>1, <2>2, Holder DEF Clear, Dangling, Locked
      <4> QED
        BY <1>1, <4>1, <4>2, <2>1 DEF Clear, IInv, HandleTypeOK
    <3>3. CASE \E s \in Slots : Recycle(s)
      BY <1>1, <2>1, <3>3 DEF Recycle, IInv, HandleTypeOK
    <3>4. CASE /\ ~\E u \in Threads : Publish(u) \/ Clear(u)
               /\ ~\E s \in Slots : Recycle(s)
      <4>1. slot' = slot
        BY <1>1, <3>4 DEF HandleNext, Advance, EnterUse, EnterWait, EnterInit,
             EnterDestroy, Enter, ReadSlot, TestBound, Probe, Lock, CheckResolve,
             CheckReplace, Alloc, PreAlloc, NewObject, Track, Store, Untrack, Fill,
             Free, Unlock, ReturnCond, ReturnReal, Finish, handleVars, tableVars
      <4> QED
        BY <4>1
    <3> QED
      BY <3>1, <3>2, <3>3, <3>4
  <2>4. ASSUME NEW s \in Slots, Recycle(s), s = arg[t] PROVE FALSE
    BY <2>1, <2>4 DEF Recycle, InUse
  <2> QED
    BY <2>1, <2>3, <2>4
<1>2. IInv /\ IInv' /\ [HandleNext]_handleVars =>
        [\A t \in Threads :
            Resolved(t) /\ pc'[t] = "call" => slot'[arg[t]] = ptr[t]]_handleVars
  BY <1>1
<1> QED
  BY <1>2, Invariance, PTL DEF HandleSpec, ObjectStable
=============================================================================
