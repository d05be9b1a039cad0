----------------------------- MODULE BridgeOnce -----------------------------
(***************************************************************************)
(* b_once of src/pthread_bridge.c, pthread_once on the g_lock of the       *)
(* bridge.  The routine runs with g_lock released, so that it may call the *)
(* bridge again: b_once of other controls among them, one inside another.  *)
(* A call that finds the routine running releases g_lock, sleeps and looks *)
(* again.                                                                  *)
(***************************************************************************)
EXTENDS Naturals, FiniteSets

CONSTANTS
    Threads, Onces, Null,
    Needs   \* Needs[c]: the controls the routine of c calls pthread_once on

\* A routine that needs its own control, at any remove, is undefined in POSIX
\* (and waits for itself for ever here).
ASSUME NeedsAssumption ==
    /\ Needs \in [Onces -> SUBSET Onces]
    /\ \E rank \in [Onces -> 1 .. Cardinality(Onces)] :
          \A c \in Onces : \A d \in Needs[c] : rank[d] < rank[c]
ASSUME NullAssumption == Null \notin Threads /\ Null \notin Onces

VARIABLES
    g_lock,    \* holder of g_lock, or Null
    st,        \* the int of each control: 0 new, 1 running, 2 done
    at,        \* at[t][c]: where t is in its call on c
    todo,      \* todo[t][c]: calls the routine of c has still to make
    from,      \* from[t][c]: the control whose routine called c, or Null
    top,       \* the innermost call of each thread
    runs, ended, returned   \* what the application sees, as in PosixOnce

controlVars == <<g_lock, st>>
stackVars == <<todo, from, top>>
seenVars == <<runs, ended, returned>>
vars == <<controlVars, at, stackVars, seenVars>>

Labels == {"out", "lock", "test", "sleep", "init", "relock", "set"}

TypeOK ==
    /\ g_lock \in Threads \cup {Null}
    /\ st \in [Onces -> 0 .. 2]
    /\ at \in [Threads -> [Onces -> Labels]]
    /\ todo \in [Threads -> [Onces -> SUBSET Onces]]
    /\ from \in [Threads -> [Onces -> Onces \cup {Null}]]
    /\ top \in [Threads -> Onces \cup {Null}]
    /\ runs \in [Onces -> 0 .. 1]
    /\ ended \in SUBSET Onces
    /\ returned \in [Threads -> SUBSET Onces]

Init ==
    /\ g_lock = Null
    /\ st = [c \in Onces |-> 0]
    /\ at = [t \in Threads |-> [c \in Onces |-> "out"]]
    /\ todo = [t \in Threads |-> [c \in Onces |-> {}]]
    /\ from = [t \in Threads |-> [c \in Onces |-> Null]]
    /\ top = [t \in Threads |-> Null]
    /\ runs = [c \in Onces |-> 0]
    /\ ended = {}
    /\ returned = [t \in Threads |-> {}]

-----------------------------------------------------------------------------

Goto(t, c, label) == at' = [at EXCEPT ![t][c] = label]

\* b_once(c) is called by the application or from the routine of top[t].
Enter(t, c) ==
    /\ at[t][c] = "out"
    /\ Goto(t, c, "lock")
    /\ from' = [from EXCEPT ![t][c] = top[t]]
    /\ top' = [top EXCEPT ![t] = c]
    /\ UNCHANGED <<controlVars, seenVars>>

Call(t, c) == top[t] = Null /\ Enter(t, c) /\ UNCHANGED todo

CallInside(t, c) ==
    /\ top[t] # Null
    /\ at[t][top[t]] = "init" /\ c \in todo[t][top[t]]
    /\ todo' = [todo EXCEPT ![t][top[t]] = @ \ {c}]
    /\ Enter(t, c)

\* pthread_mutex_lock(&g_lock), before the test and after the routine.
Acquire(t, c) ==
    /\ top[t] = c /\ at[t][c] \in {"lock", "relock"}
    /\ g_lock = Null
    /\ g_lock' = t
    /\ Goto(t, c, IF at[t][c] = "lock" THEN "test" ELSE "set")
    /\ UNCHANGED <<st, stackVars, seenVars>>

\* Mutant: the thread sleeps without releasing g_lock.
WaitLocked(t, c) ==
    /\ at[t][c] = "test" /\ st[c] = 1
    /\ Goto(t, c, "sleep")
    /\ UNCHANGED <<controlVars, stackVars, seenVars>>

\* while (*st == 1): g_lock is released for usleep(200).
Wait(t, c) ==
    /\ at[t][c] = "test" /\ st[c] = 1
    /\ g_lock' = Null
    /\ Goto(t, c, "sleep")
    /\ UNCHANGED <<st, stackVars, seenVars>>

WakeUp(t, c) ==
    /\ at[t][c] = "sleep"
    /\ Goto(t, c, "lock")
    /\ UNCHANGED <<controlVars, stackVars, seenVars>>

\* Mutant: after usleep the routine is run although it has started (if, not while).
BeginAnyway(t, c) ==
    /\ at[t][c] = "test" /\ st[c] # 2
    /\ st' = [st EXCEPT ![c] = 1]
    /\ g_lock' = Null
    /\ todo' = [todo EXCEPT ![t][c] = Needs[c]]
    /\ runs' = [runs EXCEPT ![c] = @ + 1]
    /\ Goto(t, c, "init")
    /\ UNCHANGED <<from, top, ended, returned>>

\* *st = 1 and g_lock is released: the routine starts.
Begin(t, c) ==
    /\ at[t][c] = "test" /\ st[c] = 0
    /\ st' = [st EXCEPT ![c] = 1]
    /\ g_lock' = Null
    /\ todo' = [todo EXCEPT ![t][c] = Needs[c]]
    /\ runs' = [runs EXCEPT ![c] = @ + 1]
    /\ Goto(t, c, "init")
    /\ UNCHANGED <<from, top, ended, returned>>

InitReturns(t, c) ==
    /\ top[t] = c /\ at[t][c] = "init" /\ todo[t][c] = {}
    /\ ended' = ended \cup {c}
    /\ Goto(t, c, "relock")
    /\ UNCHANGED <<controlVars, stackVars, runs, returned>>

\* g_lock is released, b_once returns 0 to whoever called it.
Leave(t, c) ==
    /\ g_lock' = Null
    /\ Goto(t, c, "out")
    /\ returned' = [returned EXCEPT ![t] = @ \cup {c}]
    /\ top' = [top EXCEPT ![t] = from[t][c]]
    /\ from' = [from EXCEPT ![t][c] = Null]
    /\ UNCHANGED <<todo, runs, ended>>

ReturnDone(t, c) == at[t][c] = "test" /\ st[c] = 2 /\ Leave(t, c) /\ UNCHANGED st

\* *st = 2
Set(t, c) ==
    /\ at[t][c] = "set"
    /\ st' = [st EXCEPT ![c] = 2]
    /\ Leave(t, c)

-----------------------------------------------------------------------------

Step(t, c) ==
    \/ CallInside(t, c)
    \/ Wait(t, c) \/ WakeUp(t, c)
    \/ Begin(t, c) \/ InitReturns(t, c)
    \/ ReturnDone(t, c) \/ Set(t, c)

Next == \E t \in Threads, c \in Onces : Call(t, c) \/ Acquire(t, c) \/ Step(t, c)

Spec == Init /\ [][Next]_vars

\* As in BridgeHandles: running threads run, and g_lock is not denied for ever to
\* one who waits while it is released again and again.
Fairness ==
    \A t \in Threads, c \in Onces : WF_vars(Step(t, c)) /\ SF_vars(Acquire(t, c))

FairSpec == Spec /\ Fairness

-----------------------------------------------------------------------------

\* b_once keeps the promise of pthread_once: of threads that race for a control
\* one runs the routine, and all the others return after it has ended
\* (the loop of pthread_bridge.c:314-325).
Posix == INSTANCE PosixOnce
ImplementsOnce == Posix!Spec

\* Every call returns, also from inside a routine: nobody holds g_lock while a
\* routine runs or while it waits for one (pthread_bridge.c:315-317, 321-323).
OnceReturns == \A t \in Threads, c \in Onces : at[t][c] # "out" ~> at[t][c] = "out"
=============================================================================
