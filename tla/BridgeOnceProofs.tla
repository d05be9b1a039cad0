-------------------------- MODULE BridgeOnceProofs --------------------------
(***************************************************************************)
(* b_once implements pthread_once, for any threads, controls and nesting.  *)
(***************************************************************************)
EXTENDS BridgeOnce, TLAPS

\* t is between *st = 1 and *st = 2.
Running(t, c) == at[t][c] \in {"init", "relock", "set"}

\* Only the holder of g_lock tests or sets a control.
LockInv == \A t \in Threads, c \in Onces :
              at[t][c] \in {"test", "set"} => g_lock = t /\ top[t] = c

\* The control follows the one thread that runs its routine.
ControlInv == \A c \in Onces :
    /\ st[c] = 0 <=> runs[c] = 0
    /\ st[c] = 2 => c \in ended
    /\ st[c] = 0 => c \notin ended
    /\ \A t \in Threads :
          /\ Running(t, c) => st[c] = 1
          /\ Running(t, c) => (at[t][c] = "init" <=> c \notin ended)
          /\ \A u \in Threads : Running(t, c) /\ Running(u, c) => t = u

IInv == TypeOK /\ LockInv /\ ControlInv

-----------------------------------------------------------------------------

\* Nothing has been called yet.
LEMMA InitHolds == Init => IInv
  BY DEF Init, IInv, TypeOK, LockInv, ControlInv, Running, Labels

\* A thread moves in its call on one control; no other call does.
LEMMA Moves ==
    ASSUME TypeOK, NEW t \in Threads, NEW c \in Onces, NEW l \in Labels, Goto(t, c, l)
    PROVE  /\ at' \in [Threads -> [Onces -> Labels]]
           /\ \A u \in Threads, d \in Onces :
                 at'[u][d] = IF u = t /\ d = c THEN l ELSE at[u][d]
  BY DEF TypeOK, Goto

\* g_lock has one holder, who is in one call.
LEMMA OneHolder ==
    ASSUME IInv, NEW t \in Threads, NEW c \in Onces, at[t][c] \in {"test", "set"}
    PROVE  /\ g_lock = t /\ top[t] = c
           /\ \A u \in Threads, d \in Onces :
                 at[u][d] \in {"test", "set"} => u = t /\ d = c
  BY DEF IInv, LockInv

\* A step that neither starts nor ends a routine, nor sets a control.
LEMMA Unseen ==
    ASSUME IInv, UNCHANGED <<st, runs, ended>>,
           \A u \in Threads, d \in Onces :
              /\ Running(u, d)' <=> Running(u, d)
              /\ Running(u, d) => (at'[u][d] = "init" <=> at[u][d] = "init")
    PROVE  ControlInv'
<1> SUFFICES ASSUME NEW d \in Onces
             PROVE  /\ st[d] = 0 <=> runs[d] = 0
                    /\ st[d] = 2 => d \in ended
                    /\ st[d] = 0 => d \notin ended
                    /\ \A u \in Threads :
                          /\ Running(u, d) => st[d] = 1
                          /\ Running(u, d) => (at[u][d] = "init" <=> d \notin ended)
                          /\ \A v \in Threads :
                                Running(u, d) /\ Running(v, d) => u = v
  BY DEF ControlInv
<1> QED
  BY DEF IInv, ControlInv

\* Entering b_once, from the application or from a routine, touches no control.
LEMMA EnterKeeps ==
    ASSUME IInv, NEW t \in Threads, NEW c \in Onces, Enter(t, c), top[t] # c,
           top[t] # Null => at[t][top[t]] = "init",
           todo' \in [Threads -> [Onces -> SUBSET Onces]]
    PROVE  IInv'
<1> USE NullAssumption DEF IInv, Enter, controlVars, seenVars
<1>0. /\ at' \in [Threads -> [Onces -> Labels]]
      /\ \A u \in Threads, d \in Onces :
            at'[u][d] = IF u = t /\ d = c THEN "lock" ELSE at[u][d]
  BY Moves DEF Labels
<1>1. TypeOK'
  BY <1>0 DEF TypeOK, Labels
<1>2. LockInv'
  <2> SUFFICES ASSUME NEW u \in Threads, NEW d \in Onces, at'[u][d] \in {"test", "set"}
               PROVE  g_lock' = u /\ top'[u] = d
    BY DEF LockInv
  <2> QED
    BY <1>0 DEF LockInv, TypeOK
<1>3. ControlInv'
  BY <1>0, Unseen DEF Running
<1> QED
  BY <1>1, <1>2, <1>3

\* g_lock is taken by the innermost call of a thread.
LEMMA AcquireKeeps ==
    ASSUME IInv, NEW t \in Threads, NEW c \in Onces, Acquire(t, c)
    PROVE  IInv'
<1> USE NullAssumption DEF IInv, Acquire, stackVars, seenVars
<1>0. /\ at' \in [Threads -> [Onces -> Labels]]
      /\ \A u \in Threads, d \in Onces :
            at'[u][d] = IF u = t /\ d = c
                          THEN (IF at[t][c] = "lock" THEN "test" ELSE "set")
                          ELSE at[u][d]
  BY Moves DEF Labels
<1>1. TypeOK'
  BY <1>0 DEF TypeOK, Labels
<1>2. LockInv'
  <2> SUFFICES ASSUME NEW u \in Threads, NEW d \in Onces, at'[u][d] \in {"test", "set"}
               PROVE  g_lock' = u /\ top'[u] = d
    BY DEF LockInv
  <2> QED
    BY <1>0, OneHolder DEF LockInv
<1>3. ControlInv'
  BY <1>0, Unseen DEF Running
<1> QED
  BY <1>1, <1>2, <1>3

\* Waiting for another thread's routine, and looking again.
LEMMA WaitKeeps ==
    ASSUME IInv, NEW t \in Threads, NEW c \in Onces, Wait(t, c) \/ WakeUp(t, c)
    PROVE  IInv'
<1> USE NullAssumption DEF IInv, Wait, WakeUp, stackVars, seenVars, controlVars
<1>0. /\ at' \in [Threads -> [Onces -> Labels]]
      /\ \A u \in Threads, d \in Onces :
            at'[u][d] = IF u = t /\ d = c
                          THEN (IF at[t][c] = "test" THEN "sleep" ELSE "lock")
                          ELSE at[u][d]
  BY Moves DEF Labels
<1>1. TypeOK'
  BY <1>0 DEF TypeOK, Labels
<1>2. LockInv'
  <2> SUFFICES ASSUME NEW u \in Threads, NEW d \in Onces, at'[u][d] \in {"test", "set"}
               PROVE  g_lock' = u /\ top'[u] = d
    BY DEF LockInv
  <2> QED
    BY <1>0, OneHolder DEF LockInv
<1>3. ControlInv'
  BY <1>0, Unseen DEF Running
<1> QED
  BY <1>1, <1>2, <1>3

\* The routine starts: no thread was running it.
LEMMA BeginKeeps ==
    ASSUME IInv, NEW t \in Threads, NEW c \in Onces, Begin(t, c)
    PROVE  IInv' /\ Posix!Start(c)
<1> USE NullAssumption DEF IInv, Begin
<1>0. /\ at' \in [Threads -> [Onces -> Labels]]
      /\ \A u \in Threads, d \in Onces :
            at'[u][d] = IF u = t /\ d = c THEN "init" ELSE at[u][d]
  BY Moves DEF Labels
<1>1. TypeOK'
  <2>1. Needs[c] \in SUBSET Onces
    BY NeedsAssumption
  <2>2. todo' \in [Threads -> [Onces -> SUBSET Onces]]
    BY <2>1 DEF TypeOK
  <2>3. runs' \in [Onces -> 0 .. 1] /\ st' \in [Onces -> 0 .. 2]
    BY DEF TypeOK, ControlInv
  <2> QED
    BY <1>0, <2>2, <2>3 DEF TypeOK
<1>2. LockInv'
  <2> SUFFICES ASSUME NEW u \in Threads, NEW d \in Onces, at'[u][d] \in {"test", "set"}
               PROVE  g_lock' = u /\ top'[u] = d
    BY DEF LockInv
  <2> QED
    BY <1>0, OneHolder DEF LockInv
<1>3. \A u \in Threads : ~Running(u, c)
  BY <1>0 DEF ControlInv
<1>4. c \notin ended
  BY <1>0 DEF ControlInv
<1>5. ControlInv'
  BY <1>0, <1>3, <1>4 DEF ControlInv, Running, TypeOK
<1>6. Posix!Start(c)
  <2>1. runs[c] = 0
    BY DEF ControlInv
  <2> QED
    BY <2>1 DEF Posix!Start
<1> QED
  BY <1>1, <1>2, <1>5, <1>6

\* The routine ends: the control still says that it is running.
LEMMA InitReturnsKeeps ==
    ASSUME IInv, NEW t \in Threads, NEW c \in Onces, InitReturns(t, c)
    PROVE  IInv' /\ Posix!End(c)
<1> USE DEF IInv, InitReturns, controlVars, stackVars
<1>0. /\ at' \in [Threads -> [Onces -> Labels]]
      /\ \A u \in Threads, d \in Onces :
            at'[u][d] = IF u = t /\ d = c THEN "relock" ELSE at[u][d]
  BY Moves DEF Labels
<1>1. TypeOK'
  BY <1>0 DEF TypeOK, Labels
<1>2. LockInv'
  <2> SUFFICES ASSUME NEW u \in Threads, NEW d \in Onces, at'[u][d] \in {"test", "set"}
               PROVE  g_lock' = u /\ top'[u] = d
    BY DEF LockInv
  <2> QED
    BY <1>0 DEF LockInv
<1>3. ControlInv'
  <2>1. \A u \in Threads, d \in Onces : Running(u, d)' <=> Running(u, d)
    BY <1>0 DEF Running
  <2>2. \A u \in Threads : Running(u, c) => u = t
    BY DEF ControlInv, Running
  <2>3. st[c] = 1 /\ c \notin ended
    BY DEF ControlInv, Running
  <2> QED
    BY <1>0, <2>1, <2>2, <2>3 DEF ControlInv
<1>4. Posix!End(c)
  BY <1>0 DEF Posix!End, ControlInv, Running, TypeOK
<1> QED
  BY <1>1, <1>2, <1>3, <1>4

\* A call returns, at once or after it has run the routine: the routine has ended.
LEMMA LeaveKeeps ==
    ASSUME IInv, NEW t \in Threads, NEW c \in Onces,
           ReturnDone(t, c) \/ Set(t, c)
    PROVE  IInv' /\ Posix!Return(t, c)
<1> USE NullAssumption DEF IInv, ReturnDone, Set, Leave
<1>0. /\ at' \in [Threads -> [Onces -> Labels]]
      /\ \A u \in Threads, d \in Onces :
            at'[u][d] = IF u = t /\ d = c THEN "out" ELSE at[u][d]
  BY Moves DEF Labels
<1>1. c \in ended
  BY <1>0 DEF ControlInv, Running
<1>2. TypeOK'
  <2>1. from[t][c] \in Onces \cup {Null} /\ returned[t] \subseteq Onces
    BY DEF TypeOK
  <2>2. /\ st' \in [Onces -> 0 .. 2]
        /\ from' \in [Threads -> [Onces -> Onces \cup {Null}]]
        /\ top' \in [Threads -> Onces \cup {Null}]
        /\ returned' \in [Threads -> SUBSET Onces]
    <3>1. CASE ReturnDone(t, c)
      BY <2>1, <3>1 DEF TypeOK
    <3>2. CASE Set(t, c)
      BY <2>1, <3>2 DEF TypeOK
    <3> QED
      BY <3>1, <3>2
  <2> QED
    BY <1>0, <2>2 DEF TypeOK
<1>3. LockInv'
  <2> SUFFICES ASSUME NEW u \in Threads, NEW d \in Onces, at'[u][d] \in {"test", "set"}
               PROVE  g_lock' = u /\ top'[u] = d
    BY DEF LockInv
  <2> QED
    BY <1>0, OneHolder DEF LockInv
<1>4. ControlInv'
  BY <1>0, <1>1 DEF ControlInv, Running, TypeOK
<1>5. Posix!Return(t, c)
  BY <1>1 DEF Posix!Return
<1> QED
  BY <1>2, <1>3, <1>4, <1>5

-----------------------------------------------------------------------------

\* Every step keeps the invariant and is a step of PosixOnce, or one that the
\* application does not see.
LEMMA NextKeeps ==
    ASSUME IInv, [Next]_vars
    PROVE  IInv' /\ [Posix!Next]_(Posix!onceVars)
<1> USE DEF IInv
<1>1. ASSUME NEW t \in Threads, NEW c \in Onces, Call(t, c) \/ CallInside(t, c)
      PROVE  IInv' /\ UNCHANGED seenVars
  <2>1. Enter(t, c) /\ top[t] # c /\ (top[t] # Null => at[t][top[t]] = "init")
    BY <1>1, NullAssumption DEF Call, CallInside, Enter
  <2>2. todo' \in [Threads -> [Onces -> SUBSET Onces]]
    <3>1. CASE Call(t, c)
      BY <3>1 DEF Call, TypeOK
    <3>2. CASE CallInside(t, c)
      <4>1. top[t] \in Onces
        BY <3>2 DEF CallInside, TypeOK
      <4>2. todo[t] \in [Onces -> SUBSET Onces]
        BY DEF TypeOK
      <4> QED
        BY <3>2, <4>1, <4>2 DEF CallInside, TypeOK
    <3> QED
      BY <1>1, <3>1, <3>2
  <2> QED
    BY <2>1, <2>2, EnterKeeps DEF Enter
<1>2. ASSUME NEW t \in Threads, NEW c \in Onces,
             Acquire(t, c) \/ Wait(t, c) \/ WakeUp(t, c)
      PROVE  IInv' /\ UNCHANGED seenVars
  BY <1>2, AcquireKeeps, WaitKeeps DEF Acquire, Wait, WakeUp
<1>3. ASSUME NEW t \in Threads, NEW c \in Onces,
             \/ Begin(t, c) \/ InitReturns(t, c) \/ ReturnDone(t, c) \/ Set(t, c)
      PROVE  IInv' /\ Posix!Next
  BY <1>3, BeginKeeps, InitReturnsKeeps, LeaveKeeps DEF Posix!Next
<1>4. CASE UNCHANGED vars
  BY <1>4 DEF vars, controlVars, stackVars, seenVars, TypeOK, LockInv, ControlInv,
              Running, Posix!onceVars
<1>5. CASE Next
  BY <1>1, <1>2, <1>3, <1>5 DEF Next, Step, seenVars, Posix!onceVars
<1> QED
  BY <1>4, <1>5

\* The types, and that no routine is started twice, in every reachable state.
THEOREM TypeCorrect == Spec => []TypeOK
<1>1. IInv => TypeOK
  BY DEF IInv
<1> QED
  BY <1>1, InitHolds, NextKeeps, PTL DEF Spec

\* b_once implements pthread_once: one thread runs the routine, and nobody returns
\* before it has ended.
THEOREM Implements == Spec => ImplementsOnce
<1>1. Init => Posix!Init
  BY DEF Init, Posix!Init
<1> QED
  BY <1>1, InitHolds, NextKeeps, PTL DEF Spec, ImplementsOnce, Posix!Spec
=============================================================================
