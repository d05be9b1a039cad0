----------------------------- MODULE EglContexts -----------------------------
(***************************************************************************)
(* src/egl_shim.c: EGL contexts made by SDL.  SDL makes a new context      *)
(* current on the thread that creates it, and when told to share shares    *)
(* it with whatever was current on that thread before.  SDL and the EGL    *)
(* below it are external: a context is current on one thread at most, and  *)
(* one deleted while current elsewhere lives on until it is unbound there. *)
(***************************************************************************)
EXTENDS Callers, Integers, FiniteSets

CONSTANT MaxContexts    \* bound: contexts ever created

ASSUME EglAssumption == MaxContexts \in Nat

VARIABLES
    g_window,           \* is there a window
    g_share_root,       \* the first context: only tested, never shared with
    share,              \* SDL_GL_SHARE_WITH_CURRENT_CONTEXT
    g_current_context,  \* what eglMakeCurrent bound last on each thread
    target,             \* what SDL has current on each thread
    contexts,           \* not destroyed
    groups,             \* the share group of each context ever created
    moved,              \* threads that since their last eglMakeCurrent created or destroyed
                        \* one, or whose unbinding SDL refused
    lone                \* contexts created, the first apart, with nothing current

eglVars == <<g_window, g_share_root, share, g_current_context, target, contexts, groups,
             moved, lone>>

-----------------------------------------------------------------------------

Ids == 1 .. MaxContexts
Created == Cardinality(DOMAIN groups)

EglTypeOK ==
    /\ g_window \in BOOLEAN /\ share \in BOOLEAN
    /\ g_share_root \in Ids \cup {None}
    /\ g_current_context \in [Threads -> Ids \cup {None}]
    /\ target \in [Threads -> Ids \cup {None}]
    /\ contexts \subseteq DOMAIN groups
    /\ DOMAIN groups \subseteq Ids /\ \A c \in DOMAIN groups : groups[c] \in Ids
    /\ moved \subseteq Threads /\ lone \subseteq DOMAIN groups

EglInit ==
    /\ g_window = FALSE /\ share = FALSE /\ g_share_root = None
    /\ g_current_context = [t \in Threads |-> None]
    /\ target = [t \in Threads |-> None]
    /\ contexts = {} /\ groups = [c \in {} |-> 0] /\ moved = {} /\ lone = {}

-----------------------------------------------------------------------------

SetWindow ==
    /\ g_window' = TRUE
    /\ UNCHANGED <<g_share_root, share, g_current_context, target, contexts, groups, moved, lone>>

\* What SDL_GL_CreateContext gives thread t when the attribute is shared or not.
NewContext(t, shared) ==
    LET c == Created + 1 IN
    /\ c \in Ids
    /\ groups' = [d \in 1 .. c |-> IF d < c THEN groups[d]
                                   ELSE IF shared /\ target[t] # None THEN groups[target[t]] ELSE c]
    /\ target' = [target EXCEPT ![t] = c]
    /\ contexts' = contexts \cup {c}
    /\ moved' = moved \cup {t}
    /\ lone' = IF g_share_root # None /\ target[t] = None THEN lone \cup {c} ELSE lone
    /\ g_share_root' = IF g_share_root = None THEN c ELSE g_share_root

\* Mutant: the attribute is set after the context was created.
CreateLate(t) ==
    /\ g_window
    /\ share' = (share \/ g_share_root # None)
    /\ NewContext(t, share)
    /\ UNCHANGED <<g_window, g_current_context>>

\* The context to share with that the application names is ignored.
CreateContext(t) ==
    /\ g_window
    /\ share' = (share \/ g_share_root # None)
    /\ NewContext(t, share')
    /\ UNCHANGED <<g_window, g_current_context>>

\* No window, or SDL fails: the attribute stays set.
CreateFails ==
    /\ share' = (share \/ (g_window /\ g_share_root # None))
    /\ UNCHANGED <<g_window, g_share_root, g_current_context, target, contexts, groups, moved, lone>>

MakeCurrent(t, c) ==
    /\ g_window
    /\ \A u \in Threads \ {t} : target[u] # c
    /\ target' = [target EXCEPT ![t] = c]
    /\ g_current_context' = [g_current_context EXCEPT ![t] = c]
    /\ moved' = moved \ {t}
    /\ UNCHANGED <<g_window, g_share_root, share, contexts, groups, lone>>

\* No window, or SDL refuses: current elsewhere, say.
MakeCurrentFails == UNCHANGED eglVars

\* Mutant: SDL is not told.
UnbindForgets(t) ==
    /\ g_window
    /\ g_current_context' = [g_current_context EXCEPT ![t] = None]
    /\ moved' = moved \ {t}
    /\ UNCHANGED <<g_window, g_share_root, share, target, contexts, groups, lone>>

Unbind(t) ==
    /\ g_window
    /\ target' = [target EXCEPT ![t] = None]
    /\ g_current_context' = [g_current_context EXCEPT ![t] = None]
    /\ moved' = moved \ {t}
    /\ UNCHANGED <<g_window, g_share_root, share, contexts, groups, lone>>

\* SDL refuses, which nothing looks at.
UnbindFails(t) ==
    /\ g_window
    /\ g_current_context' = [g_current_context EXCEPT ![t] = None]
    /\ moved' = moved \cup {t}
    /\ UNCHANGED <<g_window, g_share_root, share, target, contexts, groups, lone>>

\* SDL unbinds it from the thread that deletes it; the shim forgets nothing.
DestroyContext(t, c) ==
    /\ contexts' = contexts \ {c}
    /\ target' = [target EXCEPT ![t] = IF @ = c THEN None ELSE @]
    /\ moved' = IF target[t] = c THEN moved \cup {t} ELSE moved
    /\ UNCHANGED <<g_window, g_share_root, share, g_current_context, groups, lone>>

\* Displays, configurations, surfaces: constants. Swapping shows what was drawn.
AskDisplay == UNCHANGED eglVars
AskSurface == UNCHANGED eglVars
SwapBuffers == UNCHANGED eglVars

EglNext ==
    \/ SetWindow \/ CreateFails \/ MakeCurrentFails \/ AskDisplay \/ AskSurface \/ SwapBuffers
    \/ \E t \in Threads :
          \/ CreateContext(t) \/ Unbind(t) \/ UnbindFails(t)
          \/ \E c \in contexts : MakeCurrent(t, c) \/ DestroyContext(t, c)

-----------------------------------------------------------------------------

\* A thread draws into the context it bound last, unless it created a context since,
\* which EGL promises not to change the binding but SDL binds, destroyed its own, or SDL
\* refused to unbind, which the shim overlooks: no other thread can change where it draws
\* (egl_shim.c:88, 118-139, 175-184).
TargetAgrees == \A t \in Threads : target[t] = g_current_context[t] \/ t \in moved

\* Textures are visible everywhere: in whatever order and by whichever threads contexts
\* are created, bound and destroyed, the first of them too, each shares with the first.
\* A context created by a thread that has nothing current shares with none, whatever the
\* application asked for, and begins a group of its own; no others do, so that there are
\* never more groups than such contexts and the first (egl_shim.c:84-97).
NoStrayGroup == \A c \in DOMAIN groups : groups[c] \in {1} \cup lone
=============================================================================
