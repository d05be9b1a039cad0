---------------------------- MODULE ShimsProofs ----------------------------
(***************************************************************************)
(* The invariants of the four small shims, for any number of threads,      *)
(* strings, contexts, chunks and assets.  One part for each shim: what it  *)
(* keeps, and that each of its steps keeps it.  A step of another shim     *)
(* leaves its variables alone.                                             *)
(***************************************************************************)
EXTENDS Shims, FiniteSetTheorems, TLAPS

-----------------------------------------------------------------------------
(***************************************************************************)
(* EGL contexts.                                                           *)
(***************************************************************************)

\* Contexts are numbered from 1, the share root is remembered as soon as there is one,
\* and what SDL has current was created.
ContextInv ==
    /\ \E n \in Nat : DOMAIN groups = 1 .. n /\ (g_share_root = None <=> n = 0)
    /\ \A t \in Threads : target[t] # None => target[t] \in DOMAIN groups

EglInv == EglTypeOK /\ ContextInv /\ TargetAgrees /\ NoStrayGroup

\* There is no context at the start.
LEMMA EglInitHolds ==
    ASSUME EglInit PROVE EglInv
<1>1. DOMAIN groups = {} /\ 1 .. 0 = {}
  BY DEF EglInit
<1>2. EglTypeOK
  BY <1>1 DEF EglInit, EglTypeOK, Ids
<1>3. ContextInv
  BY <1>1 DEF EglInit, ContextInv
<1>4. TargetAgrees
  BY DEF EglInit, TargetAgrees
<1>5. NoStrayGroup
  BY <1>1 DEF NoStrayGroup
<1> QED BY <1>2, <1>3, <1>4, <1>5 DEF EglInv

\* A new context joins the others: the first is alone, and every later one shares, for
\* the attribute has been set by then.
LEMMA CreateKeeps ==
    ASSUME EglInv, NEW t \in Threads, CreateContext(t)
    PROVE  EglInv'
<1> DEFINE c == Created + 1
<1>1. PICK n \in Nat : DOMAIN groups = 1 .. n /\ (g_share_root = None <=> n = 0)
  BY DEF EglInv, ContextInv
<1>2. c = n + 1
  BY <1>1, FS_Interval DEF Created
<1>3. /\ c \in Ids /\ c \in Nat /\ c # None
      /\ groups' = [d \in 1 .. c |-> IF d < c THEN groups[d]
                      ELSE IF share' /\ target[t] # None THEN groups[target[t]] ELSE c]
      /\ target' = [target EXCEPT ![t] = c]
      /\ contexts' = contexts \cup {c}
      /\ moved' = moved \cup {t}
      /\ lone' = IF g_share_root # None /\ target[t] = None THEN lone \cup {c} ELSE lone
      /\ g_share_root' = IF g_share_root = None THEN c ELSE g_share_root
      /\ g_window' = g_window /\ g_current_context' = g_current_context
      /\ share' = (share \/ g_share_root # None)
  BY <1>1, <1>2, NoneAssumption DEF CreateContext, NewContext, Ids
<1>4. /\ DOMAIN groups' = 1 .. n + 1
      /\ \A d \in 1 .. n : groups'[d] = groups[d]
      /\ groups'[n + 1] = IF share' /\ target[t] # None THEN groups[target[t]] ELSE n + 1
  BY <1>1, <1>2, <1>3
<1>5. g_share_root' # None
  BY <1>3
<1>6. /\ target[t] # None => target[t] \in 1 .. n
      /\ \A d \in 1 .. n : d \in Ids /\ groups[d] \in Ids
      /\ n + 1 \in Ids
  BY <1>1, <1>2, <1>3 DEF EglInv, EglTypeOK, ContextInv
<1>7. EglTypeOK'
  <2>1. DOMAIN groups' \subseteq Ids
    BY <1>4, <1>6
  <2>2. \A d \in DOMAIN groups' : groups'[d] \in Ids
    <3> SUFFICES ASSUME NEW d \in 1 .. n + 1 PROVE groups'[d] \in Ids
      BY <1>4
    <3>1. CASE d \in 1 .. n
      BY <3>1, <1>4, <1>6
    <3>2. CASE d = n + 1
      BY <3>2, <1>4, <1>6
    <3> QED BY <3>1, <3>2
  <2>3. contexts' \subseteq DOMAIN groups' /\ lone' \subseteq DOMAIN groups'
    <3>1. 1 .. n \subseteq 1 .. n + 1 /\ c \in 1 .. n + 1
      BY <1>2
    <3>2. contexts \subseteq 1 .. n /\ lone \subseteq 1 .. n
      BY <1>1 DEF EglInv, EglTypeOK
    <3> QED BY <3>1, <3>2, <1>3, <1>4
  <2>4. share' \in BOOLEAN /\ g_window' \in BOOLEAN
    BY <1>3 DEF EglInv, EglTypeOK
  <2>5. target' \in [Threads -> Ids \cup {None}] /\ g_share_root' \in Ids \cup {None}
    BY <1>3 DEF EglInv, EglTypeOK
  <2> QED BY <2>1, <2>2, <2>3, <2>4, <2>5, <1>3 DEF EglInv, EglTypeOK
<1>8. ContextInv'
  <2>1. \A u \in Threads : target'[u] # None => target'[u] \in 1 .. n + 1
    <3> SUFFICES ASSUME NEW u \in Threads, target'[u] # None PROVE target'[u] \in 1 .. n + 1
      OBVIOUS
    <3>1. CASE u = t
      BY <3>1, <1>2, <1>3 DEF EglInv, EglTypeOK
    <3>2. CASE u # t
      <4>1. target'[u] = target[u]
        BY <3>2, <1>3 DEF EglInv, EglTypeOK
      <4>2. target[u] \in 1 .. n
        BY <4>1, <1>1 DEF EglInv, ContextInv
      <4> QED BY <4>1, <4>2
    <3> QED BY <3>1, <3>2
  <2>2. n + 1 \in Nat /\ n + 1 # 0
    OBVIOUS
  <2> QED BY <2>1, <2>2, <1>4, <1>5 DEF ContextInv
<1>9. TargetAgrees'
  BY <1>3 DEF EglInv, TargetAgrees, EglTypeOK
<1>10. NoStrayGroup'
  <2> SUFFICES ASSUME NEW d \in 1 .. n + 1 PROVE groups'[d] \in {1} \cup lone'
    BY <1>4 DEF NoStrayGroup
  <2>1. lone \subseteq lone' /\ \A e \in 1 .. n : groups[e] \in {1} \cup lone
    BY <1>1, <1>3 DEF EglInv, NoStrayGroup
  <2>2. CASE d \in 1 .. n
    BY <2>1, <2>2, <1>4
  <2>3. CASE d = n + 1 /\ share' /\ target[t] # None
    BY <2>1, <2>3, <1>4, <1>6
  <2>4. CASE d = n + 1 /\ g_share_root = None
    <3>1. n = 0 /\ target[t] = None
      BY <2>4, <1>1, <1>6
    <3> QED BY <2>4, <3>1, <1>4
  <2>5. CASE d = n + 1 /\ g_share_root # None /\ target[t] = None
    <3>1. groups'[d] = n + 1 /\ lone' = lone \cup {n + 1}
      BY <2>5, <1>2, <1>3, <1>4
    <3> QED BY <3>1
  <2>6. g_share_root # None => share'
    BY <1>3
  <2> QED BY <2>2, <2>3, <2>4, <2>5, <2>6
<1> QED BY <1>7, <1>8, <1>9, <1>10 DEF EglInv

\* The steps that create no context.
LEMMA EglStepKeeps ==
    ASSUME EglInv, EglNext PROVE EglInv'
<1>1. CASE \E t \in Threads : CreateContext(t)
  BY <1>1, CreateKeeps
<1>2. ASSUME groups' = groups, g_share_root' = g_share_root, lone' = lone, EglTypeOK',
             \A t \in Threads : target'[t] = None \/ target'[t] = target[t]
                                 \/ target'[t] \in contexts,
             TargetAgrees'
      PROVE  EglInv'
  <2>1. ContextInv'
    BY <1>2 DEF EglInv, ContextInv, EglTypeOK
  <2>2. NoStrayGroup'
    BY <1>2 DEF EglInv, NoStrayGroup
  <2> QED BY <1>2, <2>1, <2>2 DEF EglInv
<1>3. CASE SetWindow
  BY <1>2, <1>3 DEF SetWindow, EglInv, EglTypeOK, TargetAgrees
<1>4. CASE CreateFails
  <2>1. share' \in BOOLEAN
    BY <1>4 DEF CreateFails, EglInv, EglTypeOK
  <2> QED BY <1>2, <1>4, <2>1 DEF CreateFails, EglInv, EglTypeOK, TargetAgrees
<1>5. CASE MakeCurrentFails \/ AskDisplay \/ AskSurface \/ SwapBuffers
  BY <1>2, <1>5 DEF MakeCurrentFails, AskDisplay, AskSurface, SwapBuffers, eglVars, EglInv,
     EglTypeOK, TargetAgrees
<1>6. ASSUME NEW t \in Threads, Unbind(t) PROVE EglInv'
  BY <1>2, <1>6 DEF Unbind, EglInv, EglTypeOK, TargetAgrees
<1>7. ASSUME NEW t \in Threads, UnbindFails(t) PROVE EglInv'
  BY <1>2, <1>7 DEF UnbindFails, EglInv, EglTypeOK, TargetAgrees
<1>8. ASSUME NEW t \in Threads, NEW c \in contexts, MakeCurrent(t, c) PROVE EglInv'
  <2>1. c \in Ids
    BY DEF EglInv, EglTypeOK
  <2> QED BY <1>2, <1>8, <2>1 DEF MakeCurrent, EglInv, EglTypeOK, TargetAgrees
<1>9. ASSUME NEW t \in Threads, NEW c \in contexts, DestroyContext(t, c) PROVE EglInv'
  BY <1>2, <1>9 DEF DestroyContext, EglInv, EglTypeOK, TargetAgrees
<1> QED BY <1>1, <1>3, <1>4, <1>5, <1>6, <1>7, <1>8, <1>9 DEF EglNext

\* The other shims do not touch the contexts.
LEMMA EglStutterKeeps ==
    ASSUME EglInv, UNCHANGED eglVars PROVE EglInv'
  BY DEF EglInv, EglTypeOK, ContextInv, TargetAgrees, NoStrayGroup, eglVars

-----------------------------------------------------------------------------
(***************************************************************************)
(* The guard before free.                                                  *)
(***************************************************************************)

\* How far a pointer gets, and that until something is misused it is a chunk in use
\* that only one thread has, and no longer the game.
FreeingInv ==
    /\ \A t \in Threads : freeing[t].at \in {"page", "header", "free"} => ~Guarded(freeing[t].ptr)
    /\ \A t \in Threads : freeing[t].at \in {"header", "free"} => freeing[t].ptr # "unmapped"
    /\ ~misused =>
          /\ \A t \in Threads : freeing[t].ptr # "lookalike"
          /\ \A t \in Threads : freeing[t].at = "free" => freeing[t].ptr \in Chunks
          /\ \A t \in Threads : freeing[t].ptr \in Chunks =>
                chunk[freeing[t].ptr] = "used" /\ freeing[t].ptr \notin mine
          /\ \A t, u \in Threads :
                freeing[t].ptr \in Chunks /\ freeing[t].ptr = freeing[u].ptr => t = u
    /\ \A t \in Threads : freeing[t].at = "idle" <=> freeing[t].ptr = None

AllocInv == AllocTypeOK /\ FreeingInv /\ FreeExact

\* Nothing is allocated at the start.
LEMMA AllocInitHolds ==
    ASSUME AllocInit PROVE AllocInv
<1>1. AllocTypeOK
  BY DEF AllocInit, AllocTypeOK, NotFreeing
<1>2. FreeingInv
  BY HeapAssumption DEF AllocInit, FreeingInv, NotFreeing, Strangers
<1>3. FreeExact
  BY DEF AllocInit, FreeExact
<1> QED BY <1>1, <1>2, <1>3 DEF AllocInv

\* However the process ends, it ends with one of these.
LEMMA EndType ==
    ASSUME NEW sig \in {SIGABRT, SIGSEGV}, Crash(sig)
    PROVE  ended' \in {0, Killed, 128 + SIGABRT, 128 + SIGSEGV}
  BY DEF Crash

\* The game gets a chunk that nobody has.
LEMMA MallocKeeps ==
    ASSUME AllocInv, NEW t \in Threads, Malloc(t)
    PROVE  AllocInv'
<1>1. PICK c \in Chunks : chunk[c] = "free" /\ chunk' = [chunk EXCEPT ![c] = "used"]
                           /\ mine' = mine \cup {c}
  BY DEF Malloc
<1>2. UNCHANGED <<freeing, handler, misused, glibcAborts, ended>>
  BY DEF Malloc
<1>3. AllocTypeOK'
  BY <1>1, <1>2 DEF AllocInv, AllocTypeOK
<1>4. chunk'[c] = "used" /\ \A d \in Chunks \ {c} : chunk'[d] = chunk[d]
  BY <1>1 DEF AllocInv, AllocTypeOK
<1>5. FreeingInv'
  BY <1>1, <1>2, <1>4 DEF AllocInv, FreeingInv, Guarded
<1>6. FreeExact'
  BY <1>1, <1>2, <1>4 DEF AllocInv, FreeExact, InFlight
<1> QED BY <1>3, <1>5, <1>6 DEF AllocInv

\* realloc frees the old chunk without asking the guard.
LEMMA ReallocKeeps ==
    ASSUME AllocInv, NEW t \in Threads, NEW p \in Chunks \cup Strangers, Realloc(t, p)
    PROVE  AllocInv'
<1>1. UNCHANGED <<freeing, handler>>
  BY DEF Realloc
<1>2. CASE p \in mine
  <2>1. PICK c \in Chunks : /\ chunk[c] = "free"
                            /\ chunk' = [chunk EXCEPT ![p] = "free", ![c] = "used"]
                            /\ mine' = (mine \ {p}) \cup {c}
    BY <1>2 DEF Realloc
  <2>2. UNCHANGED <<misused, glibcAborts, ended>>
    BY <1>2 DEF Realloc
  <2>3. p \in Chunks /\ mine' \subseteq Chunks
    BY <1>2, <2>1 DEF AllocInv, AllocTypeOK
  <2>4. /\ chunk' \in [Chunks -> {"free", "used"}]
        /\ chunk'[c] = "used" /\ (p # c => chunk'[p] = "free")
        /\ \A d \in Chunks \ {c, p} : chunk'[d] = chunk[d]
    BY <2>1, <2>3 DEF AllocInv, AllocTypeOK
  <2>5. AllocTypeOK'
    BY <1>1, <2>2, <2>3, <2>4 DEF AllocInv, AllocTypeOK
  <2>6. FreeingInv'
    BY <1>1, <1>2, <2>1, <2>2, <2>3, <2>4 DEF AllocInv, FreeingInv, Guarded
  <2>7. FreeExact'
    BY <1>1, <1>2, <2>1, <2>2, <2>3, <2>4 DEF AllocInv, FreeExact, InFlight
  <2> QED BY <2>5, <2>6, <2>7 DEF AllocInv
<1>3. CASE p \notin mine
  <2>1. misused' = TRUE /\ glibcAborts' = TRUE /\ Crash(SIGABRT) /\ UNCHANGED <<chunk, mine>>
    BY <1>3 DEF Realloc
  <2>2. AllocTypeOK'
    BY <1>1, <2>1, EndType DEF AllocInv, AllocTypeOK
  <2>3. FreeingInv'
    BY <1>1, <2>1 DEF AllocInv, FreeingInv, Guarded
  <2>4. FreeExact'
    BY <1>1, <2>1 DEF AllocInv, FreeExact, InFlight
  <2> QED BY <2>2, <2>3, <2>4 DEF AllocInv
<1> QED BY <1>2, <1>3

\* The chunk goes from the game to the thread that frees it.
LEMMA CallFreeKeeps ==
    ASSUME AllocInv, NEW t \in Threads, NEW p \in Chunks \cup Strangers, CallFree(t, p)
    PROVE  AllocInv'
<1>1. /\ freeing[t].at = "idle" /\ freeing[t].ptr = None
      /\ freeing' = [freeing EXCEPT ![t] = [at |-> "guard", ptr |-> p]]
      /\ mine' = mine \ {p}
      /\ misused' = (misused \/ p = "lookalike" \/ p \in Chunks \ mine)
      /\ UNCHANGED <<chunk, handler, glibcAborts, ended>>
  BY DEF CallFree, Running, AllocInv, FreeingInv
<1>2. /\ freeing'[t] = [at |-> "guard", ptr |-> p]
      /\ \A u \in Threads \ {t} : freeing'[u] = freeing[u]
  BY <1>1 DEF AllocInv, AllocTypeOK
<1>3. AllocTypeOK'
  <2>1. freeing' \in [Threads -> [at : {"idle", "guard", "page", "header", "free"},
                                  ptr : Chunks \cup Strangers \cup {None}]]
    BY <1>1 DEF AllocInv, AllocTypeOK
  <2>2. mine' \subseteq Chunks /\ misused' \in BOOLEAN
    BY <1>1 DEF AllocInv, AllocTypeOK
  <2> QED BY <1>1, <2>1, <2>2 DEF AllocInv, AllocTypeOK
<1>4. FreeingInv'
  <2>1. \A u \in Threads : freeing'[u].at # "guard" => u # t /\ freeing'[u] = freeing[u]
    BY <1>2
  <2>2. \A u \in Threads : freeing'[u].at \in {"idle", "page", "header", "free"} =>
           freeing'[u] = freeing[u]
    BY <2>1
  <2>3. ASSUME ~misused'
        PROVE  /\ \A u \in Threads : freeing'[u].ptr # "lookalike"
               /\ \A u \in Threads : freeing'[u].at = "free" => freeing'[u].ptr \in Chunks
               /\ \A u \in Threads : freeing'[u].ptr \in Chunks =>
                     chunk'[freeing'[u].ptr] = "used" /\ freeing'[u].ptr \notin mine'
               /\ \A u, v \in Threads :
                     freeing'[u].ptr \in Chunks /\ freeing'[u].ptr = freeing'[v].ptr => u = v
    <3>1. ~misused /\ p # "lookalike" /\ (p \in Chunks => p \in mine)
      BY <1>1, <2>3
    <3>2. p \in Chunks => chunk[p] = "used" /\ \A u \in Threads : freeing[u].ptr # p
      BY <3>1 DEF AllocInv, FreeExact, FreeingInv
    <3> QED BY <1>1, <1>2, <3>1, <3>2 DEF AllocInv, FreeingInv
  <2>4. \A u \in Threads : freeing'[u].at = "idle" <=> freeing'[u].ptr = None
    <3>1. freeing'[t].at # "idle" /\ freeing'[t].ptr # None
      BY <1>2, HeapAssumption
    <3> QED BY <1>2, <3>1 DEF AllocInv, FreeingInv
  <2> QED BY <2>2, <2>3, <2>4 DEF AllocInv, FreeingInv, Guarded
<1>5. FreeExact'
  <2>1. InFlight \cap Chunks \subseteq InFlight' /\ p \in InFlight'
    <3>1. \A u \in Threads : freeing[u].ptr \in Chunks => u # t
      BY <1>1, HeapAssumption
    <3> QED BY <1>2, <3>1 DEF InFlight
  <2>2. misused => misused'
    BY <1>1
  <2> QED BY <1>1, <2>1, <2>2 DEF AllocInv, FreeExact
<1> QED BY <1>3, <1>4, <1>5 DEF AllocInv

\* A thread looks at its pointer, and goes on or returns: it lets go of no chunk in
\* use, and goes on only with what passed the test.
LEMMA LookKeeps ==
    ASSUME AllocInv, NEW t \in Threads, UNCHANGED <<chunk, mine, misused, glibcAborts, handler>>,
           ended' \in {0, Killed, 128 + SIGABRT, 128 + SIGSEGV},
           \/ UNCHANGED freeing
           \/ /\ Return(t)
              /\ freeing[t].ptr \in Chunks => chunk[freeing[t].ptr] # "used"
           \/ \E step \in {"page", "header", "free"} :
                /\ Go(t, step) /\ ~Guarded(freeing[t].ptr) /\ freeing[t].at # "idle"
                /\ step # "page" => freeing[t].ptr # "unmapped"
                /\ step = "free" => freeing[t].ptr \in Chunks \/ misused
    PROVE  AllocInv'
<1>1. CASE UNCHANGED freeing
  BY <1>1 DEF AllocInv, AllocTypeOK, FreeingInv, FreeExact, InFlight, Guarded
<1>2. CASE Return(t) /\ (freeing[t].ptr \in Chunks => chunk[freeing[t].ptr] # "used")
  <2>1. /\ freeing'[t] = NotFreeing /\ freeing' \in [Threads -> [at : {"idle", "guard", "page", "header", "free"},
                                  ptr : Chunks \cup Strangers \cup {None}]]
        /\ \A u \in Threads \ {t} : freeing'[u] = freeing[u]
    BY <1>2 DEF Return, NotFreeing, AllocInv, AllocTypeOK
  <2>2. freeing'[t].at = "idle" /\ freeing'[t].ptr = None /\ None \notin Chunks /\ "lookalike" \notin Chunks
    BY <2>1, HeapAssumption DEF NotFreeing, Strangers
  <2>3. AllocTypeOK'
    BY <2>1 DEF AllocInv, AllocTypeOK
  <2>4. FreeingInv'
    <3>1. freeing'[t].ptr # "lookalike"
      BY <2>2, HeapAssumption DEF Strangers
    <3> QED BY <2>1, <2>2, <3>1 DEF AllocInv, FreeingInv, Guarded
  <2>5. FreeExact'
    <3>1. \A c \in InFlight : c \in InFlight' \/ c = freeing[t].ptr
      BY <2>1 DEF InFlight
    <3> QED BY <1>2, <3>1 DEF AllocInv, FreeExact
  <2> QED BY <2>3, <2>4, <2>5 DEF AllocInv
<1>3. ASSUME NEW step \in {"page", "header", "free"}, Go(t, step), ~Guarded(freeing[t].ptr),
             freeing[t].at # "idle",
             step # "page" => freeing[t].ptr # "unmapped",
             step = "free" => freeing[t].ptr \in Chunks \/ misused
      PROVE  AllocInv'
  <2>1. /\ freeing'[t].at = step /\ freeing'[t].ptr = freeing[t].ptr
        /\ freeing' \in [Threads -> [at : {"idle", "guard", "page", "header", "free"},
                                  ptr : Chunks \cup Strangers \cup {None}]]
        /\ \A u \in Threads \ {t} : freeing'[u] = freeing[u]
    BY <1>3 DEF Go, AllocInv, AllocTypeOK
  <2>2. \A u \in Threads : freeing'[u].ptr = freeing[u].ptr
    BY <2>1
  <2>3. AllocTypeOK'
    BY <2>1 DEF AllocInv, AllocTypeOK
  <2>4. FreeingInv'
    BY <1>3, <2>1, <2>2 DEF AllocInv, FreeingInv, Guarded
  <2>5. FreeExact'
    BY <2>2 DEF AllocInv, FreeExact, InFlight
  <2> QED BY <2>3, <2>4, <2>5 DEF AllocInv
<1> QED BY <1>1, <1>2, <1>3

\* The first look of bionic_free: at the pointer.
LEMMA CheckPointerKeeps ==
    ASSUME AllocInv, NEW t \in Threads, CheckPointer(t)
    PROVE  AllocInv'
<1>1. ended' \in {0, Killed, 128 + SIGABRT, 128 + SIGSEGV}
  BY DEF CheckPointer, AllocInv, AllocTypeOK
<1>2. Guarded(freeing[t].ptr) => freeing[t].ptr \notin Chunks
  BY HeapAssumption DEF Guarded, Strangers
<1> QED BY <1>1, <1>2, LookKeeps DEF CheckPointer

\* The second: at the page, which may have gone meanwhile.
LEMMA CheckPageKeeps ==
    ASSUME AllocInv, NEW t \in Threads, CheckPage(t)
    PROVE  AllocInv'
<1>1. ended' \in {0, Killed, 128 + SIGABRT, 128 + SIGSEGV} /\ ~Guarded(freeing[t].ptr)
  BY DEF CheckPage, AllocInv, AllocTypeOK, FreeingInv
<1>2. /\ ~Mapped(freeing[t].ptr) /\ freeing[t].ptr \in Chunks => chunk[freeing[t].ptr] # "used"
      /\ Mapped(freeing[t].ptr) => freeing[t].ptr # "unmapped"
  BY HeapAssumption DEF Mapped, Chunks, Strangers
<1>3. CASE Mapped(freeing[t].ptr)
  BY <1>1, <1>2, <1>3, LookKeeps DEF CheckPage
<1>4. CASE ~Mapped(freeing[t].ptr)
  BY <1>1, <1>2, <1>4, LookKeeps DEF CheckPage
<1> QED BY <1>3, <1>4

\* The third: at the word before the pointer.
LEMMA CheckHeaderKeeps ==
    ASSUME AllocInv, NEW t \in Threads, CheckHeader(t)
    PROVE  AllocInv'
<1> DEFINE p == freeing[t].ptr
<1>1. /\ ended \in {0, Killed, 128 + SIGABRT, 128 + SIGSEGV}
      /\ ~Guarded(p) /\ p # "unmapped" /\ p \in Chunks \cup Strangers \cup {None}
      /\ UNCHANGED <<chunk, mine, handler, misused, glibcAborts>>
      /\ freeing[t].at = "header"
  BY DEF CheckHeader, AllocInv, AllocTypeOK, FreeingInv
<1>2. CASE ~Mapped(p)
  <2>1. Crash(SIGSEGV) /\ UNCHANGED freeing
    BY <1>2 DEF CheckHeader
  <2> QED BY <1>1, <2>1, EndType, LookKeeps
<1>3. CASE Mapped(p)
  <2>1. PICK ok \in Plausible(p) : (IF ok THEN Go(t, "free") ELSE Return(t)) /\ UNCHANGED ended
    BY <1>3 DEF CheckHeader
  <2>2. p \in Chunks /\ chunk[p] = "used" => ok = TRUE
    BY <2>1 DEF Plausible
  <2>3. ok = TRUE => p \in Chunks \/ misused
    <3>1. CASE p = "lookalike"
      BY <3>1 DEF AllocInv, FreeingInv
    <3>2. CASE p = "foreign"
      BY <3>2, <2>1, HeapAssumption DEF Plausible, Strangers
    <3>3. CASE p = None
      BY <3>3, <1>1 DEF AllocInv, FreeingInv
    <3> QED BY <3>1, <3>2, <3>3, <1>1 DEF Guarded, Strangers
  <2>4. ok \in BOOLEAN
    BY <2>1 DEF Plausible
  <2>5. CASE ok = TRUE
    <3>1. Go(t, "free") /\ ended' = ended
      BY <2>1, <2>5
    <3> QED BY <1>1, <2>3, <2>5, <3>1, LookKeeps
  <2>6. CASE ok = FALSE
    <3>1. Return(t) /\ ended' = ended
      BY <2>1, <2>6
    <3> QED BY <1>1, <2>2, <2>6, <3>1, LookKeeps
  <2> QED BY <2>4, <2>5, <2>6
<1> QED BY <1>2, <1>3

\* A chunk is freed and let go of at once; anything else ends the process.
LEMMA FreeKeeps ==
    ASSUME AllocInv, NEW t \in Threads, Free(t)
    PROVE  AllocInv'
<1> DEFINE p == freeing[t].ptr
<1>1. /\ freeing[t].at = "free" /\ GlibcFree(p) /\ UNCHANGED <<mine, handler, misused>>
      /\ freeing'[t] = NotFreeing
      /\ freeing' \in [Threads -> [at : {"idle", "guard", "page", "header", "free"},
                                  ptr : Chunks \cup Strangers \cup {None}]]
      /\ \A u \in Threads \ {t} : freeing'[u] = freeing[u]
  BY DEF Free, Return, NotFreeing, AllocInv, AllocTypeOK
<1>2. freeing'[t].at = "idle" /\ freeing'[t].ptr = None /\ None \notin Chunks /\ "lookalike" \notin Chunks
  BY <1>1, HeapAssumption DEF NotFreeing, Strangers
<1>3. InFlight \ {p} \subseteq InFlight'
  BY <1>1 DEF InFlight
<1>4. CASE p \in Chunks /\ chunk[p] = "used"
  <2>1. /\ chunk' = [chunk EXCEPT ![p] = "free"] /\ UNCHANGED <<glibcAborts, ended>>
        /\ chunk' \in [Chunks -> {"free", "used"}]
        /\ chunk'[p] = "free" /\ \A c \in Chunks \ {p} : chunk'[c] = chunk[c]
    BY <1>1, <1>4 DEF GlibcFree, AllocInv, AllocTypeOK
  <2>2. AllocTypeOK'
    BY <1>1, <2>1 DEF AllocInv, AllocTypeOK
  <2>3. FreeingInv'
    <3>1. freeing'[t].ptr # "lookalike"
      BY <1>2, HeapAssumption DEF Strangers
    <3>2. ~misused => \A u \in Threads \ {t} : freeing[u].ptr # p
      BY <1>4 DEF AllocInv, FreeingInv
    <3> QED BY <1>1, <1>2, <1>4, <2>1, <3>1, <3>2 DEF AllocInv, FreeingInv, Guarded
  <2>4. FreeExact'
    <3>1. ~misused => p \notin mine
      BY <1>4 DEF AllocInv, FreeingInv
    <3> QED BY <1>1, <1>3, <2>1, <3>1 DEF AllocInv, FreeExact
  <2> QED BY <2>2, <2>3, <2>4 DEF AllocInv
<1>5. CASE ~(p \in Chunks /\ chunk[p] = "used")
  <2>1. glibcAborts' = TRUE /\ Crash(SIGABRT) /\ UNCHANGED chunk
    BY <1>1, <1>5 DEF GlibcFree
  <2>2. misused /\ misused'
    BY <1>1, <1>5 DEF AllocInv, FreeingInv
  <2>3. AllocTypeOK'
    BY <1>1, <2>1, EndType DEF AllocInv, AllocTypeOK
  <2>4. FreeingInv'
    BY <1>1, <1>2, <2>2 DEF AllocInv, FreeingInv, Guarded
  <2>5. FreeExact'
    BY <1>1, <1>3, <1>5, <2>1, <2>2 DEF AllocInv, FreeExact
  <2> QED BY <2>3, <2>4, <2>5 DEF AllocInv
<1> QED BY <1>4, <1>5

\* The other shims do not touch the heap.
LEMMA AllocStutterKeeps ==
    ASSUME AllocInv, UNCHANGED allocVars PROVE AllocInv'
  BY DEF AllocInv, AllocTypeOK, FreeingInv, FreeExact, InFlight, Guarded, allocVars

\* Every step of the allocator keeps the invariant.
LEMMA AllocStepKeeps ==
    ASSUME AllocInv, AllocNext PROVE AllocInv'
<1>1. CASE Abort \/ StackCheckFails \/ Sigaction
  <2>1. ended' \in {0, Killed, 128 + SIGABRT, 128 + SIGSEGV}
    BY <1>1, EndType DEF Abort, StackCheckFails, Sigaction, AllocInv, AllocTypeOK
  <2>2. handler' \in {"crash_handler", "other"} /\ UNCHANGED <<chunk, mine, freeing, misused, glibcAborts>>
    BY <1>1 DEF Abort, StackCheckFails, Sigaction, AllocInv, AllocTypeOK
  <2> QED BY <2>1, <2>2 DEF AllocInv, AllocTypeOK, FreeingInv, FreeExact, InFlight, Guarded
<1>2. ASSUME NEW t \in Threads, GetProperty(t) \/ Log(t) \/ Checked(t) PROVE AllocInv'
  BY <1>2, AllocStutterKeeps DEF GetProperty, Log, Checked
<1> QED BY <1>1, <1>2, MallocKeeps, ReallocKeeps, CallFreeKeeps, CheckPointerKeeps,
           CheckPageKeeps, CheckHeaderKeeps, FreeKeeps DEF AllocNext

-----------------------------------------------------------------------------
(***************************************************************************)
(* Assets over stdio.                                                      *)
(***************************************************************************)

FileType == [open : BOOLEAN, pos : Nat, base : Nat, data : Nat, held : 0 .. BUFSIZ, koff : Nat]

\* A FILE's position is in its buffer; the buffer is where stdio thinks; and it ends where
\* the kernel's offset is.
Placed(f) == f.base <= f.pos /\ f.pos <= f.base + f.held
RightBuffer(f) == f.data = f.base /\ (f.held = 0 \/ f.base + f.held <= LENGTH)
Level(f) == f.koff = f.base + f.held

FileInv ==
    \A h \in Handles :
        /\ assets[h].pos = at[h] /\ Placed(assets[h])
        /\ h \notin misfilled => RightBuffer(assets[h])
        /\ h \notin adrift => Level(assets[h])

AssetInv == AssetTypeOK /\ FileInv

\* A read of the kernel stays in the file.
LEMMA FillIs ==
    ASSUME NEW k \in Nat
    PROVE  Fill(k) \in 0 .. BUFSIZ /\ (Fill(k) = 0 \/ k + Fill(k) <= LENGTH)
  BY FileAssumption DEF Fill, Least

\* A closed FILE is empty.
LEMMA ClosedIs ==
    /\ Closed \in FileType /\ Closed.pos = 0 /\ Closed.base = 0 /\ Closed.data = 0
    /\ Closed.held = 0 /\ Closed.koff = 0
    /\ Placed(Closed) /\ RightBuffer(Closed) /\ Level(Closed)
  BY FileAssumption DEF Closed, FileType, Placed, RightBuffer, Level

\* No asset is open at the start.
LEMMA AssetInitHolds ==
    ASSUME AssetInit PROVE AssetInv
<1>1. AssetTypeOK
  BY ClosedIs DEF AssetInit, AssetTypeOK, FileType
<1>2. FileInv
  BY ClosedIs DEF AssetInit, FileInv
<1> QED BY <1>1, <1>2 DEF AssetInv

\* What a FILE is after fread, and how much that got.
LEMMA FreadGets ==
    ASSUME NEW f \in FileType, Placed(f), NEW n \in 1 .. BUFSIZ
    PROVE  LET g == AfterRead(f, n)
               got == Len(Bytes(f, n)) IN
           /\ g \in FileType /\ Placed(g) /\ got \in Nat /\ g.pos = f.pos + got
           /\ n <= Ahead(f) /\ RightBuffer(f) => RightBuffer(g)
           /\ ~(n <= Ahead(f)) /\ Level(f) => RightBuffer(g)
           /\ Level(f) => Level(g)
<1> DEFINE g == AfterRead(f, n)
           ahead == Ahead(f)
           fill == Fill(f.koff)
           end == f.pos + ahead
           more == Least(n - ahead, fill)
           got == Len(Bytes(f, n))
<1>1. /\ f.open \in BOOLEAN /\ f.pos \in Nat /\ f.base \in Nat /\ f.data \in Nat
      /\ f.held \in 0 .. BUFSIZ /\ f.koff \in Nat /\ LENGTH \in Nat /\ BUFSIZ \in Nat \ {0}
  BY FileAssumption DEF FileType
<1>2. ahead \in 0 .. BUFSIZ /\ end = f.base + f.held /\ end \in Nat
  BY <1>1 DEF Placed, Ahead
<1>3. fill \in 0 .. BUFSIZ /\ (fill = 0 \/ f.koff + fill <= LENGTH)
  BY <1>1, FillIs
<1>4. n \in 1 .. BUFSIZ /\ n \in Nat
  BY <1>1
<1>5. CASE n <= ahead
  <2>1. g = [f EXCEPT !.pos = @ + n]
    BY <1>2, <1>4, <1>5 DEF AfterRead
  <2>2. got = n
    <3>1. Least(n, ahead) = n /\ Least(0, fill) = 0
      BY <1>2, <1>3, <1>4, <1>5 DEF Least
    <3> QED BY <3>1, <1>4 DEF Bytes
  <2>3. /\ g.pos = f.pos + n /\ g.base = f.base /\ g.data = f.data /\ g.held = f.held
        /\ g.koff = f.koff
    BY <2>1 DEF FileType
  <2>4. g \in FileType
    BY <1>1, <1>4, <2>1 DEF FileType
  <2>5. Placed(g)
    BY <1>1, <1>2, <1>4, <1>5, <2>3 DEF Placed
  <2>6. (RightBuffer(f) => RightBuffer(g)) /\ (Level(f) => Level(g))
    BY <2>3 DEF RightBuffer, Level
  <2>7. /\ g \in FileType /\ Placed(g) /\ got \in Nat /\ g.pos = f.pos + got
        /\ RightBuffer(f) => RightBuffer(g)
        /\ Level(f) => Level(g)
    <3> HIDE DEF g, got
    <3> QED BY <1>4, <2>2, <2>3, <2>4, <2>5, <2>6
  <2> QED BY <1>5, <2>7
<1>6. CASE ~(n <= ahead)
  <2>1. got = ahead + more /\ more \in 0 .. fill /\ more <= n - ahead
    <3>1. Least(n, ahead) = ahead
      BY <1>2, <1>4, <1>6 DEF Least
    <3>2. more \in 0 .. fill /\ more <= n - ahead
      BY <1>2, <1>3, <1>4, <1>6 DEF Least
    <3> QED BY <3>1, <3>2, <1>2, <1>3 DEF Bytes
  <2>2. CASE n - ahead < BUFSIZ /\ n - ahead <= fill
    <3>1. g = [f EXCEPT !.pos = @ + n, !.base = end, !.data = f.koff, !.held = fill,
                        !.koff = @ + fill]
      BY <1>2, <1>4, <1>6, <2>2 DEF AfterRead
    <3>2. /\ g.pos = f.pos + n /\ g.base = end /\ g.data = f.koff /\ g.held = fill
          /\ g.koff = f.koff + fill
      BY <3>1 DEF FileType
    <3>3. g \in FileType
      <4>1. f.pos + n \in Nat /\ f.koff + fill \in Nat
        BY <1>1, <1>3, <1>4
      <4> HIDE DEF end, fill
      <4> QED BY <1>2, <1>3, <3>1, <4>1 DEF FileType
    <3>4. got = n
      BY <1>2, <1>3, <1>4, <2>1, <2>2 DEF Least
    <3>5. Placed(g) /\ got \in Nat /\ g.pos = f.pos + got
      <4> HIDE DEF g, got, fill
      <4> QED BY <1>1, <1>2, <1>3, <1>4, <1>6, <2>2, <3>2, <3>4 DEF Placed
    <3>6. Level(f) => RightBuffer(g) /\ Level(g)
      <4> HIDE DEF g, got, fill
      <4> QED BY <1>1, <1>2, <1>3, <3>2 DEF Level, RightBuffer
    <3> QED BY <1>6, <3>3, <3>5, <3>6
  <2>3. CASE ~(n - ahead < BUFSIZ /\ n - ahead <= fill)
    <3>1. g = [f EXCEPT !.pos = end + fill, !.base = end + fill, !.data = f.koff + fill,
                        !.held = 0, !.koff = @ + fill]
      BY <1>2, <1>4, <1>6, <2>3 DEF AfterRead
    <3>2. /\ g.pos = end + fill /\ g.base = end + fill /\ g.data = f.koff + fill /\ g.held = 0
          /\ g.koff = f.koff + fill
      BY <3>1 DEF FileType
    <3>3. g \in FileType
      <4>1. end + fill \in Nat /\ f.koff + fill \in Nat /\ 0 \in 0 .. BUFSIZ
        BY <1>1, <1>2, <1>3
      <4> HIDE DEF end, fill
      <4> QED BY <3>1, <4>1 DEF FileType
    <3>4. got = ahead + fill
      BY <1>1, <1>2, <1>3, <1>4, <2>1, <2>3 DEF Least
    <3>5. Placed(g) /\ got \in Nat /\ g.pos = f.pos + got
      <4> HIDE DEF g, got, fill
      <4> QED BY <1>1, <1>2, <1>3, <3>2, <3>4 DEF Placed
    <3>6. Level(f) => RightBuffer(g) /\ Level(g)
      <4> HIDE DEF g, got, fill
      <4> QED BY <1>1, <1>2, <1>3, <3>2 DEF Level, RightBuffer
    <3> QED BY <1>6, <3>3, <3>5, <3>6
  <2> QED BY <2>2, <2>3
<1> QED BY <1>5, <1>6

\* What a FILE is after fseek: level; and right, unless the seek stayed in a wrong buffer.
LEMMA SoughtIs ==
    ASSUME NEW f \in FileType, NEW pos \in Offsets, NEW g \in Sought(f, pos)
    PROVE  /\ g \in FileType /\ Placed(g) /\ g.pos = pos /\ Level(g)
           /\ ~InBuffer(f, pos) \/ RightBuffer(f) => RightBuffer(g)
<1>1. /\ f.open \in BOOLEAN /\ f.pos \in Nat /\ f.base \in Nat /\ f.data \in Nat
      /\ f.held \in 0 .. BUFSIZ /\ f.koff \in Nat /\ LENGTH \in Nat /\ BUFSIZ \in Nat \ {0}
      /\ pos \in 0 .. LENGTH
  BY FileAssumption DEF FileType, Offsets
<1>2. CASE InBuffer(f, pos)
  <2>1. g = [f EXCEPT !.pos = pos, !.koff = f.base + f.held]
    BY <1>2 DEF Sought
  <2>2. /\ g.pos = pos /\ g.base = f.base /\ g.data = f.data /\ g.held = f.held
        /\ g.koff = f.base + f.held
    BY <2>1 DEF FileType
  <2>3. g \in FileType
    <3>1. f.base + f.held \in Nat /\ pos \in Nat
      BY <1>1
    <3> QED BY <2>1, <3>1 DEF FileType
  <2>4. Placed(g) /\ Level(g) /\ (RightBuffer(f) => RightBuffer(g))
    BY <1>1, <1>2, <2>2 DEF Placed, Level, RightBuffer, InBuffer
  <2> QED BY <1>2, <2>2, <2>3, <2>4
<1>3. CASE ~InBuffer(f, pos)
  <2>1. PICK b \in 0 .. pos : pos - b < BUFSIZ /\ \E n \in {pos - b, Fill(b)} : g = Filled(b, pos, n)
    BY <1>3 DEF Sought
  <2>2. PICK n \in {pos - b, Fill(b)} : g = Filled(b, pos, n)
    BY <2>1
  <2>3. b \in Nat /\ b <= pos /\ pos \in Nat
    BY <1>1, <2>1
  <2>4. n \in 0 .. BUFSIZ /\ pos <= b + n /\ (n = 0 \/ b + n <= LENGTH)
    <3>1. CASE n = pos - b
      BY <1>1, <2>1, <2>3, <3>1
    <3>2. CASE n = Fill(b)
      BY <1>1, <2>1, <2>3, <3>2 DEF Fill, Least
    <3> QED BY <2>2, <3>1, <3>2
  <2>5. /\ g.pos = pos /\ g.base = b /\ g.data = b /\ g.held = n /\ g.koff = b + n
    BY <2>2 DEF Filled
  <2>6. g \in FileType
    <3>1. b + n \in Nat
      BY <2>3, <2>4
    <3> QED BY <2>2, <2>3, <2>4, <3>1 DEF Filled, FileType
  <2>7. Placed(g) /\ Level(g) /\ RightBuffer(g)
    BY <2>3, <2>4, <2>5 DEF Placed, Level, RightBuffer
  <2> QED BY <2>5, <2>6, <2>7
<1> QED BY <1>2, <1>3

\* An asset's FILE may be changed for one that is where the game thinks.
LEMMA ChangeKeeps ==
    ASSUME AssetInv, NEW h \in Handles, NEW g \in FileType, Placed(g),
           assets' = [assets EXCEPT ![h] = g], at' = [at EXCEPT ![h] = g.pos],
           shared' \subseteq Handles, adrift' \subseteq shared', misfilled' \subseteq shared',
           adrift \subseteq adrift' \cup {h}, misfilled \subseteq misfilled' \cup {h},
           h \notin misfilled' => RightBuffer(g), h \notin adrift' => Level(g)
    PROVE  AssetInv'
<1>1. g.pos \in Nat
  BY DEF FileType
<1>2. AssetTypeOK'
  BY <1>1 DEF AssetInv, AssetTypeOK, FileType
<1>3. /\ assets'[h] = g /\ at'[h] = g.pos
      /\ \A k \in Handles \ {h} : assets'[k] = assets[k] /\ at'[k] = at[k]
  BY DEF AssetInv, AssetTypeOK
<1>4. FileInv'
  <2> SUFFICES ASSUME NEW k \in Handles
               PROVE  /\ assets'[k].pos = at'[k] /\ Placed(assets'[k])
                      /\ k \notin misfilled' => RightBuffer(assets'[k])
                      /\ k \notin adrift' => Level(assets'[k])
    BY DEF FileInv, Placed, RightBuffer, Level
  <2>1. CASE k = h
    BY <1>3, <2>1
  <2>2. CASE k # h
    BY <1>3, <2>2 DEF AssetInv, FileInv
  <2> QED BY <2>1, <2>2
<1> QED BY <1>2, <1>4 DEF AssetInv

\* The other shims do not touch the assets.
LEMMA AssetStutterKeeps ==
    ASSUME AssetInv, UNCHANGED <<assets, at, shared, adrift, misfilled>> PROVE AssetInv'
  BY DEF AssetInv, AssetTypeOK, FileInv, Placed, RightBuffer, Level

\* A FILE that was closed or not has the type and its position in its buffer.
LEMMA AssetIs ==
    ASSUME AssetInv, NEW h \in Handles
    PROVE  /\ assets[h] \in FileType /\ assets[h].pos = at[h] /\ Placed(assets[h])
           /\ h \notin misfilled => RightBuffer(assets[h])
           /\ h \notin adrift => Level(assets[h])
           /\ shared \subseteq Handles /\ adrift \subseteq shared /\ misfilled \subseteq shared
  BY DEF AssetInv, AssetTypeOK, FileInv, FileType

\* AAsset_read moves the position by what it got.
LEMMA ReadKeeps ==
    ASSUME AssetInv, NEW h \in Handles, NEW n \in 1 .. BUFSIZ, Read(h, n)
    PROVE  AssetInv'
<1> DEFINE f == assets[h]
           g == AfterRead(f, n)
           got == Len(Bytes(f, n))
<1>1. /\ assets' = [assets EXCEPT ![h] = g] /\ at' = [at EXCEPT ![h] = @ + got]
      /\ shared' = shared /\ adrift' = adrift
      /\ misfilled' = IF n <= Ahead(f) THEN misfilled
                      ELSE IF h \in adrift THEN misfilled \cup {h} ELSE misfilled \ {h}
  BY DEF Read
<1>2. /\ f \in FileType /\ f.pos = at[h] /\ Placed(f)
      /\ h \notin misfilled => RightBuffer(f)
      /\ h \notin adrift => Level(f)
      /\ shared \subseteq Handles /\ adrift \subseteq shared /\ misfilled \subseteq shared
  BY AssetIs
<1>3. /\ g \in FileType /\ Placed(g) /\ got \in Nat /\ g.pos = f.pos + got
      /\ n <= Ahead(f) /\ RightBuffer(f) => RightBuffer(g)
      /\ ~(n <= Ahead(f)) /\ Level(f) => RightBuffer(g)
      /\ Level(f) => Level(g)
  BY <1>2, FreadGets
<1> HIDE DEF f, g, got
<1>4. at' = [at EXCEPT ![h] = g.pos]
  BY <1>1, <1>2, <1>3
<1>5. /\ misfilled' \subseteq shared /\ misfilled \subseteq misfilled' \cup {h}
      /\ h \notin misfilled' => RightBuffer(g)
  <2>1. CASE n <= Ahead(f)
    BY <1>1, <1>2, <1>3, <2>1
  <2>2. CASE ~(n <= Ahead(f)) /\ h \in adrift
    BY <1>1, <1>2, <2>2
  <2>3. CASE ~(n <= Ahead(f)) /\ h \notin adrift
    BY <1>1, <1>2, <1>3, <2>3
  <2> QED BY <2>1, <2>2, <2>3
<1> QED BY <1>1, <1>2, <1>3, <1>4, <1>5, ChangeKeeps

\* Every step of the asset shim keeps the invariant.
LEMMA AssetStepKeeps ==
    ASSUME AssetInv, AssetNext PROVE AssetInv'
<1>1. CASE OpenNone \/ GetLength \/ AskConfiguration \/ SetBuffersGeometry
            \/ \E name \in FileNames : SaveFile(name)
  BY <1>1, AssetStutterKeeps DEF OpenNone, GetLength, AskConfiguration, SetBuffersGeometry,
     SaveFile, assetVars
<1>2. ASSUME NEW h \in Handles, NEW name \in FileNames, Open(h, name) PROVE AssetInv'
  <2>1. PICK f \in Sought(Closed, LENGTH) : \E g \in Sought(f, 0) : assets' = [assets EXCEPT ![h] = g]
    BY <1>2 DEF Open
  <2>2. PICK g \in Sought(f, 0) : assets' = [assets EXCEPT ![h] = g]
    BY <2>1
  <2>3. LENGTH \in Offsets /\ 0 \in Offsets
    BY FileAssumption DEF Offsets
  <2>4. f \in FileType /\ RightBuffer(f)
    BY <2>3, ClosedIs, SoughtIs
  <2>5. g \in FileType /\ Placed(g) /\ g.pos = 0 /\ Level(g) /\ RightBuffer(g)
    BY <2>3, <2>4, SoughtIs
  <2>6. at' = [at EXCEPT ![h] = g.pos] /\ UNCHANGED <<shared, adrift, misfilled>>
    BY <1>2, <2>5 DEF Open
  <2> QED BY <2>2, <2>5, <2>6, AssetIs, ChangeKeeps
<1>3. ASSUME NEW h \in Handles, NEW n \in 1 .. BUFSIZ, Read(h, n) PROVE AssetInv'
  BY <1>3, ReadKeeps
<1>4. ASSUME NEW h \in Handles, NEW pos \in Offsets, Seek(h, pos) PROVE AssetInv'
  <2>1. PICK g \in Sought(assets[h], pos) : assets' = [assets EXCEPT ![h] = g]
    BY <1>4 DEF Seek
  <2>2. /\ g \in FileType /\ Placed(g) /\ g.pos = pos /\ Level(g)
        /\ ~InBuffer(assets[h], pos) \/ RightBuffer(assets[h]) => RightBuffer(g)
    BY AssetIs, SoughtIs
  <2>3. /\ at' = [at EXCEPT ![h] = g.pos] /\ adrift' = adrift \ {h} /\ shared' = shared
        /\ misfilled' = IF InBuffer(assets[h], pos) THEN misfilled ELSE misfilled \ {h}
    BY <1>4, <2>2 DEF Seek
  <2>4. h \notin misfilled' => RightBuffer(g)
    <3>1. CASE InBuffer(assets[h], pos)
      BY <2>2, <2>3, <3>1, AssetIs
    <3>2. CASE ~InBuffer(assets[h], pos)
      BY <2>2, <3>2
    <3> QED BY <3>1, <3>2
  <2>5. misfilled' \subseteq shared /\ misfilled \subseteq misfilled' \cup {h}
    BY <2>3, AssetIs
  <2> QED BY <2>1, <2>2, <2>3, <2>4, <2>5, AssetIs, ChangeKeeps
<1>5. ASSUME NEW h \in Handles, OpenFileDescriptor(h) PROVE AssetInv'
  BY <1>5 DEF OpenFileDescriptor, AssetInv, AssetTypeOK, FileInv, Placed, RightBuffer, Level
<1>6. ASSUME NEW h \in Handles, NEW pos \in Offsets, UseDescriptor(h, pos) PROVE AssetInv'
  <2> DEFINE f == assets[h]
             g == [f EXCEPT !.koff = pos]
  <2>1. /\ assets' = [assets EXCEPT ![h] = g] /\ at' = at /\ h \in shared
        /\ adrift' = adrift \cup {h} /\ shared' = shared /\ misfilled' = misfilled
    BY <1>6 DEF UseDescriptor
  <2>2. f \in FileType /\ f.pos = at[h] /\ Placed(f) /\ (h \notin misfilled => RightBuffer(f))
    BY AssetIs
  <2>3. pos \in Nat
    BY FileAssumption DEF Offsets
  <2>4. /\ g \in FileType /\ g.pos = f.pos /\ g.base = f.base /\ g.data = f.data
        /\ g.held = f.held
    BY <2>2, <2>3 DEF FileType
  <2> HIDE DEF f, g
  <2>5. Placed(g) /\ (h \notin misfilled => RightBuffer(g))
    BY <2>2, <2>4 DEF Placed, RightBuffer
  <2>6. at' = [at EXCEPT ![h] = g.pos]
    BY <2>1, <2>2, <2>4 DEF AssetInv, AssetTypeOK
  <2> QED BY <2>1, <2>4, <2>5, <2>6, AssetIs, ChangeKeeps
<1>7. ASSUME NEW h \in Handles, Close(h) PROVE AssetInv'
  <2>1. /\ assets' = [assets EXCEPT ![h] = Closed] /\ at' = [at EXCEPT ![h] = Closed.pos]
        /\ shared' = shared \ {h} /\ adrift' = adrift \ {h} /\ misfilled' = misfilled \ {h}
    BY <1>7, ClosedIs DEF Close
  <2>2. /\ shared' \subseteq Handles /\ adrift' \subseteq shared' /\ misfilled' \subseteq shared'
        /\ adrift \subseteq adrift' \cup {h} /\ misfilled \subseteq misfilled' \cup {h}
    BY <2>1, AssetIs
  <2> QED BY <2>1, <2>2, ClosedIs, ChangeKeeps
<1> QED BY <1>1, <1>2, <1>3, <1>4, <1>5, <1>6, <1>7 DEF AssetNext

\* The invariant makes the next fread give what the game expects.
LEMMA ReadsFollow ==
    ASSUME AssetInv PROVE ReadsInPlace
<1> SUFFICES ASSUME NEW h \in Handles \ misfilled, NEW n \in 1 .. BUFSIZ,
                    h \notin adrift \/ n <= Ahead(assets[h])
             PROVE  Bytes(assets[h], n) = Expected(at[h], n)
  BY DEF ReadsInPlace
<1> DEFINE f == assets[h]
           ahead == Ahead(f)
           buffered == Least(n, ahead)
           more == Least(n - buffered, Fill(f.koff))
<1>1. /\ f \in FileType /\ f.pos = at[h] /\ Placed(f) /\ RightBuffer(f)
      /\ h \notin adrift => Level(f)
  BY AssetIs
<1>2. /\ f.pos \in Nat /\ f.base \in Nat /\ f.data \in Nat /\ f.held \in 0 .. BUFSIZ
      /\ f.koff \in Nat /\ LENGTH \in Nat /\ BUFSIZ \in Nat \ {0}
      /\ f.data = f.base /\ (f.held = 0 \/ f.base + f.held <= LENGTH)
      /\ f.base <= f.pos /\ f.pos <= f.base + f.held /\ n \in 1 .. BUFSIZ
  BY <1>1, FileAssumption DEF FileType, Placed, RightBuffer
<1>3. ahead = f.base + f.held - f.pos /\ ahead \in 0 .. BUFSIZ
  BY <1>2 DEF Ahead
<1>4. Fill(f.koff) \in 0 .. BUFSIZ
  BY <1>2, FillIs
<1>5. Bytes(f, n) = [i \in 1 .. buffered + more |->
         IF i <= buffered THEN f.data + (f.pos - f.base) + i - 1 ELSE f.koff + i - buffered - 1]
  BY DEF Bytes
<1>6. CASE n <= ahead
  <2>1. buffered = n /\ more = 0
    BY <1>2, <1>3, <1>4, <1>6 DEF Least
  <2>2. Least(n, LENGTH - f.pos) = n
    BY <1>2, <1>3, <1>6 DEF Least
  <2>3. \A i \in 1 .. n : f.data + (f.pos - f.base) + i - 1 = f.pos + i - 1 /\ i <= n
    BY <1>2
  <2>4. n + 0 = n
    BY <1>2
  <2> HIDE DEF f, buffered, more
  <2> QED BY <1>1, <1>5, <2>1, <2>2, <2>3, <2>4 DEF Expected, f
<1>7. CASE ~(n <= ahead)
  <2>1. Level(f) /\ f.koff = f.pos + ahead
    BY <1>1, <1>2, <1>3, <1>7 DEF Level
  <2>2. buffered = ahead
    BY <1>2, <1>3, <1>7 DEF Least
  <2>3. more \in Nat
    BY <1>2, <1>3, <1>4, <1>7, <2>2 DEF Least
  <2>4. 1 .. buffered + more = 1 .. Least(n, LENGTH - f.pos)
    <3>1. CASE f.koff < LENGTH
      <4>1. Fill(f.koff) = Least(BUFSIZ, LENGTH - (f.pos + ahead))
        BY <2>1, <3>1 DEF Fill
      <4>2. more = Least(n - ahead, Least(BUFSIZ, LENGTH - (f.pos + ahead)))
        BY <2>2, <4>1
      <4>3. ahead + more = Least(n, LENGTH - f.pos)
        <5> DEFINE left == LENGTH - (f.pos + ahead)
        <5>1. left \in Int /\ left > 0 /\ LENGTH - f.pos = left + ahead
          <6> HIDE DEF f, ahead
          <6>1. f.pos \in Nat /\ ahead \in Nat /\ LENGTH \in Nat /\ f.pos + ahead < LENGTH
            BY <1>2, <1>3, <2>1, <3>1
          <6> QED BY <6>1
        <5>2. n - ahead \in Int /\ n - ahead <= BUFSIZ /\ n = (n - ahead) + ahead
          BY <1>2, <1>3
        <5>3. CASE n - ahead < left
          <6>1. more = n - ahead
            <7> HIDE DEF more, ahead, f, left
            <7> QED BY <1>2, <4>2, <5>1, <5>2, <5>3 DEF Least, left
          <6>2. Least(n, LENGTH - f.pos) = n
            <7> HIDE DEF more, ahead, left
            <7> QED BY <1>2, <1>3, <5>1, <5>2, <5>3 DEF Least
          <6> HIDE DEF more, ahead
          <6> QED BY <5>2, <6>1, <6>2, <1>2, <1>3
        <5>4. CASE ~(n - ahead < left)
          <6>1. more = left
            <7> HIDE DEF more, ahead, f, left
            <7> QED BY <1>2, <4>2, <5>1, <5>2, <5>4 DEF Least, left
          <6>2. Least(n, LENGTH - f.pos) = left + ahead
            <7> HIDE DEF more, ahead, left
            <7> QED BY <1>2, <1>3, <5>1, <5>2, <5>4 DEF Least
          <6> HIDE DEF more, ahead, left
          <6> QED BY <5>1, <6>1, <6>2, <1>3
        <5> QED BY <5>3, <5>4
      <4> QED BY <2>2, <4>3
    <3>2. CASE ~(f.koff < LENGTH) /\ f.held = 0
      <4>1. Fill(f.koff) = 0
        BY <3>2 DEF Fill
      <4>2. ahead = 0 /\ f.koff = f.pos /\ LENGTH - f.pos <= 0
        BY <1>2, <1>3, <2>1, <3>2
      <4>3. more = 0
        BY <1>2, <2>2, <4>1, <4>2 DEF Least
      <4>4. Least(n, LENGTH - f.pos) <= 0
        BY <1>2, <4>2 DEF Least
      <4>5. Least(n, LENGTH - f.pos) \in Int
        BY <1>2 DEF Least
      <4> HIDE DEF more, buffered, ahead
      <4> QED BY <2>2, <4>2, <4>3, <4>4, <4>5
    <3>3. CASE ~(f.koff < LENGTH) /\ f.held # 0
      <4>1. Fill(f.koff) = 0
        BY <3>3 DEF Fill
      <4>2. more = 0
        BY <1>2, <1>3, <1>7, <2>2, <4>1 DEF Least
      <4>3. ahead + 0 = Least(n, LENGTH - f.pos)
        <5> HIDE DEF f, more, ahead
        <5> QED BY <1>2, <1>3, <1>7, <2>1, <3>3 DEF Least
      <4> QED BY <2>2, <4>2, <4>3
    <3> QED BY <3>1, <3>2, <3>3
  <2>5. \A i \in 1 .. buffered + more :
           (IF i <= buffered THEN f.data + (f.pos - f.base) + i - 1
            ELSE f.koff + i - buffered - 1) = f.pos + i - 1
    <3> HIDE DEF more, buffered, ahead
    <3> QED BY <1>2, <1>3, <2>1, <2>2, <2>3
  <2> HIDE DEF f, buffered, more
  <2> QED BY <1>1, <1>5, <2>4, <2>5 DEF Expected, f
<1> QED BY <1>6, <1>7

-----------------------------------------------------------------------------
(***************************************************************************)
(* The ring of strings.                                                    *)
(***************************************************************************)

\* h was made when the counter was d: the counter and what others have loaded of it have
\* moved on, each by one at most for a string begun since.
Follows(h, d) ==
    /\ h.jstr = Index(d) /\ h.nth <= began
    /\ d + 1 <= g_jstring_count /\ g_jstring_count <= d + 1 + (began - h.nth)
    /\ \A t \in Threads : making[t].at # "idle" =>
          d + 1 <= making[t].count /\ making[t].count <= d + making[t].nth - h.nth
    /\ began - h.nth < MAX_JSTRINGS =>
          g_jstrings[h.jstr].handle = h.jstr /\ g_jstrings[h.jstr].value = h.value

MakingInv ==
    /\ g_jstring_count <= began
    /\ \A t \in Threads : making[t].at # "idle" =>
          /\ making[t].count < making[t].nth /\ making[t].nth <= began
          /\ making[t].idx = Index(making[t].count)
    /\ \A t \in Threads : making[t].at # "idle" /\ making[t].alone =>
          /\ \A u \in Threads \ {t} : making[u].at = "idle"
          /\ making[t].at = "copy" =>
                /\ g_jstring_count = making[t].count + 1
                /\ g_jstrings[making[t].idx].handle = making[t].idx
    /\ \A i \in Places : g_jstrings[i].handle \in {i, None}

RingInv == \A h \in held : h.alone => \E d \in Nat : Follows(h, d)

JniInv == JniTypeOK /\ MakingInv /\ RingInv

\* A count names a place in the ring.
LEMMA IndexType ==
    ASSUME NEW a \in Nat PROVE Index(a) \in Places
  BY JniAssumption DEF Index, Places

\* Numbers less than a round apart have different places.
LEMMA IndexDiffers ==
    ASSUME NEW a \in Nat, NEW b \in Nat, a < b, b - a < MAX_JSTRINGS
    PROVE  Index(a) # Index(b)
<1> DEFINE n == MAX_JSTRINGS
           p == a \div n
           q == b \div n
<1>1. n \in Nat /\ n > 0
  BY JniAssumption
<1>2. /\ a = n * p + (a % n) /\ p \in Int
      /\ b = n * q + (b % n) /\ q \in Int
  BY <1>1
<1>3. SUFFICES ASSUME a % n = b % n PROVE FALSE
  BY DEF Index
<1> HIDE DEF n, p, q
<1>4. b - a = n * q - n * p
  BY <1>1, <1>2, <1>3
<1>5. CASE q <= p
  <2>1. n * q <= n * p
    BY <1>1, <1>2, <1>5
  <2> QED BY <1>1, <1>2, <1>4, <2>1
<1>6. CASE q >= p + 1
  <2>1. n * q >= n * (p + 1) /\ n * (p + 1) = n * p + n
    BY <1>1, <1>2, <1>6
  <2> QED BY <1>1, <1>2, <1>4, <2>1 DEF n
<1> QED BY <1>2, <1>5, <1>6

\* The ring is empty at the start.
LEMMA JniInitHolds ==
    ASSUME JniInit PROVE JniInv
<1>1. 0 \in Places /\ 0 \in 0 .. MaxStrings /\ 0 \in Nat
  BY JniAssumption DEF Places
<1>2. JniTypeOK
  BY <1>1 DEF JniInit, JniTypeOK, NotMaking, Strings
<1>3. MakingInv
  <2>1. \A t \in Threads : making[t].at = "idle"
    BY DEF JniInit, NotMaking
  <2>2. \A i \in Places : g_jstrings[i].handle \in {i, None}
    BY DEF JniInit
  <2>3. g_jstring_count <= began
    <3>1. g_jstring_count = 0 /\ began = 0
      BY DEF JniInit
    <3> QED BY <3>1
  <2> QED BY <2>1, <2>2, <2>3 DEF MakingInv
<1>4. RingInv
  BY DEF JniInit, RingInv
<1> QED BY <1>2, <1>3, <1>4 DEF JniInv

\* make_jstring loads the counter; the string has a number from now on.
LEMMA MakeLoadKeeps ==
    ASSUME JniInv, NEW t \in Threads, NEW v \in Strings, MakeLoad(t, v)
    PROVE  JniInv'
<1> DEFINE others == {u \in Threads \ {t} : making[u].at # "idle"}
           m == [at |-> "store", idx |-> Index(g_jstring_count), count |-> g_jstring_count,
                 value |-> v, nth |-> began + 1, alone |-> others = {}]
<1>1. /\ making[t].at = "idle" /\ began < MaxStrings /\ began' = began + 1
      /\ making' = [u \in Threads |->
                      IF u = t THEN m
                      ELSE IF u \in others THEN [making[u] EXCEPT !.alone = FALSE] ELSE making[u]]
      /\ UNCHANGED <<g_jstrings, g_jstring_count, held>>
  BY DEF MakeLoad
<1>2. /\ began \in Nat /\ began' \in 0 .. MaxStrings /\ g_jstring_count \in Nat
      /\ g_jstring_count <= began
  BY <1>1, JniAssumption DEF JniInv, JniTypeOK, MakingInv
<1>3. Index(g_jstring_count) \in Places
  BY <1>2, IndexType
<1>4. making'[t] = m /\ \A u \in Threads \ {t} :
         /\ making'[u].at = making[u].at /\ making'[u].idx = making[u].idx
         /\ making'[u].count = making[u].count /\ making'[u].nth = making[u].nth
         /\ making'[u].at # "idle" => making'[u].alone = FALSE
  <2>1. making'[t] = m
    BY <1>1
  <2>2. ASSUME NEW u \in Threads \ {t}
        PROVE  /\ making'[u].at = making[u].at /\ making'[u].idx = making[u].idx
               /\ making'[u].count = making[u].count /\ making'[u].nth = making[u].nth
               /\ making'[u].at # "idle" => making'[u].alone = FALSE
    <3>1. making[u] \in [at : {"idle", "store", "copy"}, idx : Places, count : Nat,
                         value : Strings, nth : Nat, alone : BOOLEAN]
      BY DEF JniInv, JniTypeOK
    <3>2. CASE u \in others
      BY <1>1, <3>1, <3>2
    <3>3. CASE u \notin others
      BY <1>1, <3>3
    <3> QED BY <3>2, <3>3
  <2> QED BY <2>1, <2>2
<1>5. JniTypeOK'
  <2>1. ASSUME NEW u \in Threads
        PROVE  making'[u] \in [at : {"idle", "store", "copy"}, idx : Places, count : Nat,
                               value : Strings, nth : Nat, alone : BOOLEAN]
    <3>1. CASE u = t
      <4>1. m \in [at : {"idle", "store", "copy"}, idx : Places, count : Nat,
                   value : Strings, nth : Nat, alone : BOOLEAN]
        <5> DEFINE b == others = {}
        <5>1. b \in BOOLEAN
          OBVIOUS
        <5> HIDE DEF b
        <5>2. began + 1 \in Nat
          BY <1>2
        <5>3. [at |-> "store", idx |-> Index(g_jstring_count), count |-> g_jstring_count,
               value |-> v, nth |-> began + 1, alone |-> b]
                 \in [at : {"idle", "store", "copy"}, idx : Places, count : Nat,
                      value : Strings, nth : Nat, alone : BOOLEAN]
          BY <1>2, <1>3, <5>1, <5>2
        <5> QED BY <5>3 DEF b
      <4> QED BY <1>4, <3>1, <4>1
    <3>2. CASE u # t
      BY <1>1, <3>2 DEF JniInv, JniTypeOK
    <3> QED BY <3>1, <3>2
  <2>2. making' \in [Threads -> [at : {"idle", "store", "copy"}, idx : Places, count : Nat,
                               value : Strings, nth : Nat, alone : BOOLEAN]]
    BY <1>1, <2>1
  <2> QED BY <1>1, <1>2, <2>2 DEF JniInv, JniTypeOK
<1>6. /\ m.at = "store" /\ m.idx = Index(g_jstring_count) /\ m.count = g_jstring_count
      /\ m.nth = began + 1 /\ m.alone = (others = {})
  OBVIOUS
<1> HIDE DEF m
<1>7. MakingInv'
  <2>1. g_jstring_count' <= began'
    BY <1>1, <1>2
  <2>2. ASSUME NEW u \in Threads, making'[u].at # "idle"
        PROVE  /\ making'[u].count < making'[u].nth /\ making'[u].nth <= began'
               /\ making'[u].idx = Index(making'[u].count)
    <3>1. CASE u = t
      BY <1>1, <1>2, <1>4, <1>6, <3>1
    <3>2. CASE u # t
      <4>1. /\ making[u].count < making[u].nth /\ making[u].nth <= began
            /\ making[u].idx = Index(making[u].count) /\ making[u].nth \in Nat
        BY <1>4, <2>2, <3>2 DEF JniInv, MakingInv, JniTypeOK
      <4> QED BY <1>1, <1>2, <1>4, <3>2, <4>1
    <3> QED BY <3>1, <3>2
  <2>3. ASSUME NEW u \in Threads, making'[u].at # "idle", making'[u].alone
        PROVE  u = t /\ \A w \in Threads \ {u} : making'[w].at = "idle"
    <3>1. u = t
      BY <1>4, <2>3
    <3>2. others = {}
      BY <1>4, <1>6, <2>3, <3>1
    <3> QED BY <1>4, <3>1, <3>2
  <2>4. making'[t].at # "copy"
    BY <1>4, <1>6
  <2>5. \A i \in Places : g_jstrings'[i].handle \in {i, None}
    BY <1>1 DEF JniInv, MakingInv
  <2> QED BY <2>1, <2>2, <2>3, <2>4, <2>5 DEF MakingInv
<1>8. RingInv'
  <2> SUFFICES ASSUME NEW h \in held, h.alone PROVE \E d \in Nat : Follows(h, d)'
    BY <1>1 DEF RingInv
  <2>1. PICK d \in Nat : Follows(h, d)
    BY DEF JniInv, RingInv
  <2>2. h.nth \in Nat
    BY DEF JniInv, JniTypeOK
  <2>3. h.jstr = Index(d) /\ h.nth <= began'
    BY <1>1, <1>2, <2>1, <2>2 DEF Follows
  <2>4. d + 1 <= g_jstring_count' /\ g_jstring_count' <= d + 1 + (began' - h.nth)
    BY <1>1, <1>2, <2>1, <2>2 DEF Follows
  <2>5. ASSUME NEW u \in Threads, making'[u].at # "idle"
        PROVE  d + 1 <= making'[u].count /\ making'[u].count <= d + making'[u].nth - h.nth
    <3>1. CASE u = t
      BY <1>2, <1>4, <1>6, <2>1, <2>2, <3>1 DEF Follows
    <3>2. CASE u # t
      BY <1>4, <2>1, <2>5, <3>2 DEF Follows
    <3> QED BY <3>1, <3>2
  <2>6. began' - h.nth < MAX_JSTRINGS => began - h.nth < MAX_JSTRINGS
    BY <1>1, <1>2, <2>2, JniAssumption
  <2>7. began' - h.nth < MAX_JSTRINGS =>
          g_jstrings'[h.jstr].handle = h.jstr /\ g_jstrings'[h.jstr].value = h.value
    BY <1>1, <2>1, <2>6 DEF Follows
  <2> QED BY <2>3, <2>4, <2>5, <2>7 DEF Follows
<1> QED BY <1>5, <1>7, <1>8 DEF JniInv

\* Whoever writes a place now does not write that of a string made before.
LEMMA OtherPlace ==
    ASSUME JniInv, NEW t \in Threads, making[t].at # "idle",
           NEW h \in held, NEW d \in Nat, Follows(h, d), began - h.nth < MAX_JSTRINGS
    PROVE  making[t].idx # h.jstr
<1> DEFINE k == making[t].count
<1>1. /\ k \in Nat /\ making[t].nth \in Nat /\ h.nth \in Nat /\ began \in Nat
      /\ making[t].nth <= began /\ making[t].idx = Index(k) /\ MAX_JSTRINGS \in Nat
  BY JniAssumption DEF JniInv, JniTypeOK, MakingInv
<1>2. h.jstr = Index(d) /\ d + 1 <= k /\ k <= d + making[t].nth - h.nth
  BY DEF Follows
<1> HIDE DEF k
<1>3. d < k /\ k - d < MAX_JSTRINGS
  BY <1>1, <1>2
<1> QED BY <1>1, <1>2, <1>3, IndexDiffers

\* It stores the counter and the handle.
LEMMA MakeStoreKeeps ==
    ASSUME JniInv, NEW t \in Threads, MakeStore(t)
    PROVE  JniInv'
<1> DEFINE m == making[t]
<1>1. /\ m.at = "store" /\ g_jstring_count' = m.count + 1
      /\ g_jstrings' = [g_jstrings EXCEPT ![m.idx] = [handle |-> m.idx, value |-> "torn"]]
      /\ making' = [making EXCEPT ![t].at = "copy"]
      /\ UNCHANGED <<began, held>>
  BY DEF MakeStore
<1>2. /\ m.count \in Nat /\ m.nth \in Nat /\ m.idx \in Places /\ began \in 0 .. MaxStrings
      /\ m.count < m.nth /\ m.nth <= began
  BY <1>1 DEF JniInv, JniTypeOK, MakingInv
<1>3. /\ g_jstring_count' \in 0 .. MaxStrings /\ g_jstring_count' <= began'
  BY <1>1, <1>2, JniAssumption
<1>4. /\ making'[t].at = "copy" /\ making'[t].idx = m.idx /\ making'[t].count = m.count
      /\ making'[t].nth = m.nth /\ making'[t].alone = m.alone
      /\ \A u \in Threads \ {t} : making'[u] = making[u]
  BY <1>1 DEF JniInv, JniTypeOK
<1>5. /\ g_jstrings'[m.idx] = [handle |-> m.idx, value |-> "torn"]
      /\ \A i \in Places \ {m.idx} : g_jstrings'[i] = g_jstrings[i]
  BY <1>1, <1>2 DEF JniInv, JniTypeOK
<1>6. JniTypeOK'
  <2>1. g_jstrings' \in [Places -> [handle : Places \cup {None}, value : Strings]]
    BY <1>1, <1>2 DEF JniInv, JniTypeOK, Strings
  <2>2. making' \in [Threads -> [at : {"idle", "store", "copy"}, idx : Places, count : Nat,
                               value : Strings, nth : Nat, alone : BOOLEAN]]
    BY <1>1 DEF JniInv, JniTypeOK
  <2> QED BY <1>1, <1>3, <2>1, <2>2 DEF JniInv, JniTypeOK
<1>7. MakingInv'
  <2>1. ASSUME NEW u \in Threads, making'[u].at # "idle"
        PROVE  /\ making[u].at # "idle" /\ making'[u].count < making'[u].nth
               /\ making'[u].nth <= began' /\ making'[u].idx = Index(making'[u].count)
    BY <1>1, <1>4, <2>1 DEF JniInv, MakingInv
  <2>2. ASSUME NEW u \in Threads, making'[u].at # "idle", making'[u].alone
        PROVE  /\ \A w \in Threads \ {u} : making'[w].at = "idle"
               /\ making'[u].at = "copy" =>
                    /\ g_jstring_count' = making'[u].count + 1
                    /\ g_jstrings'[making'[u].idx].handle = making'[u].idx
    <3>1. making[u].at # "idle" /\ making[u].alone
      BY <1>1, <1>4, <2>2
    <3>2. \A w \in Threads \ {u} : making[w].at = "idle"
      BY <3>1 DEF JniInv, MakingInv
    <3>3. u = t
      BY <1>1, <3>2
    <3> QED BY <1>1, <1>4, <1>5, <3>2, <3>3
  <2>3. \A i \in Places : g_jstrings'[i].handle \in {i, None}
    BY <1>5 DEF JniInv, MakingInv
  <2> QED BY <1>3, <2>1, <2>2, <2>3 DEF MakingInv
<1>8. RingInv'
  <2> SUFFICES ASSUME NEW h \in held, h.alone PROVE \E d \in Nat : Follows(h, d)'
    BY <1>1 DEF RingInv
  <2>1. PICK d \in Nat : Follows(h, d)
    BY DEF JniInv, RingInv
  <2>2. h.nth \in Nat /\ h.jstr \in Places
    BY DEF JniInv, JniTypeOK
  <2>3. d + 1 <= m.count /\ m.count <= d + m.nth - h.nth
    BY <1>1, <2>1 DEF Follows
  <2>4. d + 1 <= g_jstring_count' /\ g_jstring_count' <= d + 1 + (began' - h.nth)
    BY <1>1, <1>2, <2>2, <2>3
  <2>5. ASSUME NEW u \in Threads, making'[u].at # "idle"
        PROVE  d + 1 <= making'[u].count /\ making'[u].count <= d + making'[u].nth - h.nth
    BY <1>1, <1>4, <2>1, <2>5 DEF Follows
  <2>6. began - h.nth < MAX_JSTRINGS => g_jstrings'[h.jstr] = g_jstrings[h.jstr]
    BY <1>1, <1>5, <2>1, <2>2, OtherPlace
  <2> QED BY <1>1, <2>1, <2>4, <2>5, <2>6 DEF Follows
<1> QED BY <1>6, <1>7, <1>8 DEF JniInv

\* It copies the characters and returns the jstring.
LEMMA MakeCopyKeeps ==
    ASSUME JniInv, NEW t \in Threads, MakeCopy(t)
    PROVE  JniInv'
<1> DEFINE m == making[t]
           e == [jstr |-> m.idx, value |-> m.value, nth |-> m.nth, alone |-> m.alone]
<1>1. PICK v \in {m.value, "torn"} :
        /\ v = "torn" => \E u \in Threads \ {t} : making[u].at = "copy" /\ making[u].idx = m.idx
        /\ g_jstrings' = [g_jstrings EXCEPT ![m.idx].value = v]
  BY DEF MakeCopy
<1>2. /\ m.at = "copy" /\ held' = held \cup {e} /\ making' = [making EXCEPT ![t] = NotMaking]
      /\ UNCHANGED <<g_jstring_count, began>>
  BY DEF MakeCopy
<1>3. /\ m \in [at : {"idle", "store", "copy"}, idx : Places, count : Nat,
                value : Strings, nth : Nat, alone : BOOLEAN]
      /\ m.count < m.nth /\ m.nth <= began /\ m.idx = Index(m.count)
      /\ began \in 0 .. MaxStrings
  BY <1>2 DEF JniInv, JniTypeOK, MakingInv
<1>4. /\ making'[t].at = "idle" /\ \A u \in Threads \ {t} : making'[u] = making[u]
  BY <1>2 DEF JniInv, JniTypeOK, NotMaking
<1>5. /\ g_jstrings'[m.idx].value = v /\ g_jstrings'[m.idx].handle = g_jstrings[m.idx].handle
      /\ \A i \in Places \ {m.idx} : g_jstrings'[i] = g_jstrings[i]
  BY <1>1, <1>3 DEF JniInv, JniTypeOK
<1>6. JniTypeOK'
  <2>1. v \in Strings
    BY <1>1, <1>3 DEF Strings
  <2>2. g_jstrings' \in [Places -> [handle : Places \cup {None}, value : Strings]]
    BY <1>1, <1>3, <2>1 DEF JniInv, JniTypeOK
  <2>3. NotMaking \in [at : {"idle", "store", "copy"}, idx : Places, count : Nat,
                       value : Strings, nth : Nat, alone : BOOLEAN]
    BY JniAssumption DEF NotMaking, Places, Strings
  <2>4. making' \in [Threads -> [at : {"idle", "store", "copy"}, idx : Places, count : Nat,
                               value : Strings, nth : Nat, alone : BOOLEAN]]
    BY <1>2, <2>3 DEF JniInv, JniTypeOK
  <2>5. m.nth \in 1 .. MaxStrings
    BY <1>3, JniAssumption
  <2>6. held' \in SUBSET [jstr : Places, value : Strings, nth : 1 .. MaxStrings, alone : BOOLEAN]
    BY <1>2, <1>3, <2>5 DEF JniInv, JniTypeOK
  <2> QED BY <1>2, <2>2, <2>4, <2>6 DEF JniInv, JniTypeOK
<1>7. MakingInv'
  <2>1. \A u \in Threads : making'[u].at # "idle" => u # t /\ making'[u] = making[u]
    BY <1>4
  <2>2. \A i \in Places : g_jstrings'[i].handle \in {i, None}
    BY <1>3, <1>5 DEF JniInv, MakingInv
  <2>3. \A u \in Threads : making'[u].at # "idle" => ~making'[u].alone
    BY <1>2, <1>4, <2>1 DEF JniInv, MakingInv
  <2> QED BY <1>2, <2>1, <2>2, <2>3 DEF JniInv, MakingInv
<1>8. RingInv'
  <2> SUFFICES ASSUME NEW h \in held', h.alone PROVE \E d \in Nat : Follows(h, d)'
    BY DEF RingInv
  <2>1. CASE h \in held
    <3>1. PICK d \in Nat : Follows(h, d)
      BY <2>1 DEF JniInv, RingInv
    <3>2. h.jstr \in Places
      BY <2>1 DEF JniInv, JniTypeOK
    <3>3. began - h.nth < MAX_JSTRINGS => g_jstrings'[h.jstr] = g_jstrings[h.jstr]
      BY <1>2, <1>5, <2>1, <3>1, <3>2, OtherPlace
    <3>4. \A u \in Threads : making'[u].at # "idle" => making'[u] = making[u]
      BY <1>4
    <3> QED BY <1>2, <3>1, <3>3, <3>4 DEF Follows
  <2>2. CASE h = e
    <3>1. /\ \A u \in Threads \ {t} : making[u].at = "idle"
          /\ g_jstring_count = m.count + 1 /\ g_jstrings[m.idx].handle = m.idx
      BY <1>2, <2>2 DEF JniInv, MakingInv
    <3>2. v = m.value
      BY <1>1, <3>1
    <3>3. \A u \in Threads : making'[u].at = "idle"
      BY <1>4, <3>1
    <3>4. h.jstr = m.idx /\ h.value = m.value /\ h.nth = m.nth
      BY <2>2
    <3>5. PICK d \in Nat : d = m.count
      BY <1>3
    <3>6. h.nth = m.nth /\ m.nth \in Nat /\ d < m.nth /\ m.nth <= began /\ began \in Nat
      BY <1>3, <3>4, <3>5, JniAssumption
    <3>7. h.jstr = Index(d)
      BY <1>3, <3>4, <3>5
    <3>8. g_jstring_count' = d + 1 /\ began' = began
      BY <1>2, <3>1, <3>5
    <3>9. g_jstrings'[h.jstr].handle = h.jstr /\ g_jstrings'[h.jstr].value = h.value
      BY <1>5, <3>1, <3>2, <3>4
    <3> HIDE DEF e, m
    <3>10. Follows(h, d)'
      BY <3>3, <3>6, <3>7, <3>8, <3>9 DEF Follows
    <3> QED BY <3>10
  <2> QED BY <1>2, <2>1, <2>2
<1> QED BY <1>6, <1>7, <1>8 DEF JniInv

\* The other shims do not touch the strings.
LEMMA JniStutterKeeps ==
    ASSUME JniInv, UNCHANGED jniVars PROVE JniInv'
  BY DEF JniInv, JniTypeOK, MakingInv, RingInv, Follows, jniVars

\* Every step of the JNI shim keeps the invariant.
LEMMA JniStepKeeps ==
    ASSUME JniInv, JniNext PROVE JniInv'
<1>1. ASSUME NEW t \in Threads, NEW v \in Texts, MakeLoad(t, v) PROVE JniInv'
  BY <1>1, MakeLoadKeeps DEF Strings
<1>2. ASSUME NEW name \in Names PROVE StringOf(StubMethod(name)) \in Strings /\ "package" \in Strings
  BY DEF StringOf, Strings
<1>3. ASSUME NEW t \in Threads, NEW name \in Names,
             CallObjectMethod(t, name) \/ CallStaticObjectMethod(t, name)
      PROVE  JniInv'
  BY <1>2, <1>3, MakeLoadKeeps, JniStutterKeeps DEF CallObjectMethod, CallStaticObjectMethod
<1>4. ASSUME NEW t \in Threads,
             FindClass(t) \/ GetField(t) \/ CallMethod(t) \/ GetStringUTFChars(t)
                \/ KeepReference(t)
      PROVE  JniInv'
  BY <1>4, JniStutterKeeps DEF FindClass, GetField, CallMethod, GetStringUTFChars, KeepReference
<1> QED BY <1>1, <1>3, <1>4, MakeStoreKeeps, MakeCopyKeeps DEF JniNext, NewStringUTF

\* The place of a string still has its handle, and no other place has it.
LEMMA RingHolds ==
    ASSUME JniInv PROVE HeldStrings
<1> SUFFICES ASSUME NEW h \in held, h.alone, began - h.nth < MAX_JSTRINGS
             PROVE  Resolve(h.jstr) = h.value
  BY DEF HeldStrings
<1>1. PICK d \in Nat : Follows(h, d)
  BY DEF JniInv, RingInv
<1>2. /\ h.jstr \in Places /\ g_jstrings[h.jstr].handle = h.jstr
      /\ g_jstrings[h.jstr].value = h.value
  BY <1>1 DEF Follows, JniInv, JniTypeOK
<1>3. \A i \in Places : g_jstrings[i].handle = h.jstr => i = h.jstr
  BY <1>2, NoneAssumption DEF JniInv, MakingInv, Places
<1>4. (CHOOSE i \in Places : g_jstrings[i].handle = h.jstr) = h.jstr
  BY <1>2, <1>3
<1> QED BY <1>2, <1>4 DEF Resolve

-----------------------------------------------------------------------------
(***************************************************************************)
(* The four together.                                                      *)
(***************************************************************************)

IInv == JniInv /\ EglInv /\ AllocInv /\ AssetInv

\* The inductive invariant of the shims: the conjunction of the four above.
THEOREM Invariance == Spec => []IInv
<1>1. Init => IInv
  BY JniInitHolds, EglInitHolds, AllocInitHolds, AssetInitHolds DEF Init, IInv
<1>2. IInv /\ [Next]_vars => IInv'
  <2> SUFFICES ASSUME IInv, [Next]_vars PROVE IInv'
    OBVIOUS
  <2>1. JniInv'
    BY JniStepKeeps, JniStutterKeeps DEF IInv, Next, vars
  <2>2. EglInv'
    BY EglStepKeeps, EglStutterKeeps DEF IInv, Next, vars
  <2>3. AllocInv'
    BY AllocStepKeeps, AllocStutterKeeps DEF IInv, Next, vars
  <2>4. AssetInv'
    BY AssetStepKeeps, AssetStutterKeeps DEF IInv, Next, vars, assetVars
  <2> QED BY <2>1, <2>2, <2>3, <2>4 DEF IInv
<1> QED BY <1>1, <1>2, PTL DEF Spec

\* Every variable of the four shims keeps its type: places stay in the ring, offsets in
\* the file, contexts among those created.
THEOREM TypeCorrect == Spec => []ShimsTypeOK
<1>1. IInv => ShimsTypeOK
  BY DEF IInv, JniInv, EglInv, AllocInv, AssetInv, ShimsTypeOK
<1> QED BY <1>1, Invariance, PTL

\* A string reads as it was made until the ring has come round, whatever other threads
\* do to the counter (jni_shim.c:27-45).
THEOREM StringsHold == Spec => []HeldStrings
<1>1. IInv => HeldStrings
  BY RingHolds DEF IInv
<1> QED BY <1>1, Invariance, PTL

\* What a thread draws into is what it bound, unless it created or destroyed a context
\* itself or SDL refused to unbind one (egl_shim.c:88, 118-139, 175-184).
THEOREM TargetsAgree == Spec => []TargetAgrees
<1>1. IInv => TargetAgrees
  BY DEF IInv, EglInv
<1> QED BY <1>1, Invariance, PTL

\* In whatever order threads create, bind and destroy contexts, each is in the group of
\* the first or in one that a context created with nothing current began
\* (egl_shim.c:84-97).
THEOREM ContextsShare == Spec => []NoStrayGroup
<1>1. IInv => NoStrayGroup
  BY DEF IInv, EglInv
<1> QED BY <1>1, Invariance, PTL

\* The guard lets exactly the chunks in use through to glibc's free, for any number of
\* threads, until the game misuses a pointer (bionic_shims.c:98-134).
THEOREM GuardIsExact == Spec => []FreeExact
<1>1. IInv => FreeExact
  BY DEF IInv, AllocInv
<1> QED BY <1>1, Invariance, PTL

\* Reads follow the position for files and buffers of any size, from the buffer until it
\* is filled while the game has moved a descriptor, and from the file again after a seek
\* (asset_shim.c:91-102, 135-141).
THEOREM ReadsAreInPlace == Spec => []ReadsInPlace
<1>1. IInv => ReadsInPlace
  BY ReadsFollow DEF IInv
<1> QED BY <1>1, Invariance, PTL
=============================================================================
