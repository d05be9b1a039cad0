------------------------------ MODULE Allocator ------------------------------
(***************************************************************************)
(* src/bionic_shims.c: the guard before free, and the ends of the process  *)
(* it can lead to (crash_handler in main.c).  The game's malloc, calloc,   *)
(* posix_memalign and realloc are glibc's own (imports.gen.c); free and    *)
(* delete are bionic_free, which looks at a pointer, then at its page, and *)
(* then at the word before it, while other threads allocate and free.      *)
(*                                                                         *)
(* glibc is external: it unmaps a big chunk when that is freed, and keeps  *)
(* a small one mapped.  Besides chunks the game frees pointers that never  *)
(* came from malloc, which is why the guard is there.                      *)
(***************************************************************************)
EXTENDS Callers, Integers, Sequences

CONSTANTS Small, Big    \* chunks of glibc's heap

VARIABLES
    chunk,              \* is it free, or in use
    mine,               \* chunks the game has and has not freed
    freeing,            \* what each thread is freeing, and how far bionic_free is
    handler,            \* of SIGSEGV, SIGABRT and the like
    misused,            \* the game freed a dangling pointer or one nobody can tell
                        \* from a chunk, or gave realloc what the guard is for
    glibcAborts,        \* glibc was given what is not a chunk in use
    ended               \* 0: running; else the exit status

allocVars == <<chunk, mine, freeing, handler, misused, glibcAborts, ended>>

-----------------------------------------------------------------------------

Chunks == Small \cup Big
Strangers == {"null", "low", "image", "odd", "unmapped", "foreign", "lookalike"}

ASSUME HeapAssumption ==
    /\ Small \cap Big = {} /\ Chunks \cap Strangers = {}
    /\ None \notin Chunks \cup Strangers

SIGABRT == 6
SIGSEGV == 11
Killed == 1

NotFreeing == [at |-> "idle", ptr |-> None]

AllocTypeOK ==
    /\ chunk \in [Chunks -> {"free", "used"}]
    /\ mine \subseteq Chunks
    /\ freeing \in [Threads -> [at : {"idle", "guard", "page", "header", "free"},
                                ptr : Chunks \cup Strangers \cup {None}]]
    /\ handler \in {"crash_handler", "other"}
    /\ misused \in BOOLEAN /\ glibcAborts \in BOOLEAN
    /\ ended \in {0, Killed, 128 + SIGABRT, 128 + SIGSEGV}

AllocInit ==
    /\ chunk = [c \in Chunks |-> "free"] /\ mine = {}
    /\ freeing = [t \in Threads |-> NotFreeing]
    /\ handler = "crash_handler"
    /\ misused = FALSE /\ glibcAborts = FALSE /\ ended = 0

Running(t) == ended = 0 /\ freeing[t].at = "idle"
Go(t, at) == freeing' = [freeing EXCEPT ![t].at = at]
Return(t) == freeing' = [freeing EXCEPT ![t] = NotFreeing]

\* crash_handler prints and exits, unless the chain of frames it follows is broken
\* (the signal is blocked then) or the game has a handler of its own.
Crash(sig) == ended' \in IF handler = "crash_handler" THEN {128 + sig, Killed} ELSE {Killed}

\* glibc's free: a chunk in use is freed, anything else ends the process.
GlibcFree(p) ==
    IF p \in Chunks /\ chunk[p] = "used"
      THEN chunk' = [chunk EXCEPT ![p] = "free"] /\ UNCHANGED <<glibcAborts, ended>>
      ELSE glibcAborts' = TRUE /\ Crash(SIGABRT) /\ UNCHANGED chunk

-----------------------------------------------------------------------------

\* malloc, calloc and posix_memalign are glibc's.
Malloc(t) ==
    /\ Running(t)
    /\ \E c \in Chunks :
          chunk[c] = "free" /\ chunk' = [chunk EXCEPT ![c] = "used"] /\ mine' = mine \cup {c}
    /\ UNCHANGED <<freeing, handler, misused, glibcAborts, ended>>

\* It is not bionic_realloc: nothing guards it.
Realloc(t, p) ==
    /\ Running(t)
    /\ p \in mine \cup {"image", "odd"}
    /\ IF p \in mine
         THEN /\ \E c \in Chunks : /\ chunk[c] = "free"
                                   /\ chunk' = [chunk EXCEPT ![p] = "free", ![c] = "used"]
                                   /\ mine' = (mine \ {p}) \cup {c}
              /\ UNCHANGED <<misused, glibcAborts, ended>>
         ELSE misused' = TRUE /\ glibcAborts' = TRUE /\ Crash(SIGABRT) /\ UNCHANGED <<chunk, mine>>
    /\ UNCHANGED <<freeing, handler>>

\* free, delete and delete[] by the game.
CallFree(t, p) ==
    /\ Running(t)
    /\ freeing' = [freeing EXCEPT ![t] = [at |-> "guard", ptr |-> p]]
    /\ mine' = mine \ {p}
    /\ misused' = (misused \/ p = "lookalike" \/ p \in Chunks \ mine)
    /\ UNCHANGED <<chunk, handler, glibcAborts, ended>>

\* Mutant: the library's own memory is not recognised.
GuardImage(p) == p \in {"null", "low", "odd"}

\* NULL, below 0x10000, inside the library, or not on a multiple of 16.
Guarded(p) == p \in {"null", "low", "image", "odd"}

CheckPointer(t) ==
    /\ ended = 0 /\ freeing[t].at = "guard"
    /\ IF Guarded(freeing[t].ptr) THEN Return(t) ELSE Go(t, "page")
    /\ UNCHANGED <<chunk, mine, handler, misused, glibcAborts, ended>>

Mapped(p) == p # "unmapped" /\ (p \in Big => chunk[p] = "used")

\* mincore, of the page that holds the word before.
CheckPage(t) ==
    /\ ended = 0 /\ freeing[t].at = "page"
    /\ IF Mapped(freeing[t].ptr) THEN Go(t, "header") ELSE Return(t)
    /\ UNCHANGED <<chunk, mine, handler, misused, glibcAborts, ended>>

\* Does the word before look like the size of a chunk? Once a chunk was freed, or
\* was never one, it may be anything.
Plausible(p) ==
    IF p = "lookalike" \/ (p \in Chunks /\ chunk[p] = "used") THEN {TRUE}
    ELSE IF p = "foreign" THEN {FALSE} ELSE BOOLEAN

CheckHeader(t) ==
    LET p == freeing[t].ptr IN
    /\ ended = 0 /\ freeing[t].at = "header"
    /\ IF Mapped(p)
         THEN /\ \E ok \in Plausible(p) : IF ok THEN Go(t, "free") ELSE Return(t)
              /\ UNCHANGED ended
         ELSE Crash(SIGSEGV) /\ UNCHANGED freeing
    /\ UNCHANGED <<chunk, mine, handler, misused, glibcAborts>>

Free(t) ==
    /\ ended = 0 /\ freeing[t].at = "free"
    /\ GlibcFree(freeing[t].ptr)
    /\ Return(t)
    /\ UNCHANGED <<mine, handler, misused>>

-----------------------------------------------------------------------------

\* abort by the game: _exit. A smashed stack: glibc's abort, and the handler; both
\* follow a chain of frames, and may stumble.
Abort ==
    /\ ended = 0
    /\ ended' = 128 + SIGABRT \/ Crash(SIGSEGV)
    /\ UNCHANGED <<chunk, mine, freeing, handler, misused, glibcAborts>>

StackCheckFails ==
    /\ ended = 0
    /\ Crash(SIGABRT) \/ Crash(SIGSEGV)
    /\ UNCHANGED <<chunk, mine, freeing, handler, misused, glibcAborts>>

\* The game installs its own handler, by my_sigaction, for any signal.
Sigaction ==
    /\ ended = 0 /\ handler' = "other"
    /\ UNCHANGED <<chunk, mine, freeing, misused, glibcAborts, ended>>

\* Properties and errno, logging, and the _chk functions, which ignore the size of
\* the destination that they are given: nothing of their own to remember.
GetProperty(t) == Running(t) /\ UNCHANGED allocVars
Log(t) == Running(t) /\ UNCHANGED allocVars
Checked(t) == Running(t) /\ UNCHANGED allocVars

AllocNext ==
    \/ Abort \/ StackCheckFails \/ Sigaction
    \/ \E t \in Threads :
          \/ Malloc(t) \/ CheckPointer(t) \/ CheckPage(t) \/ CheckHeader(t) \/ Free(t)
          \/ GetProperty(t) \/ Log(t) \/ Checked(t)
          \/ \E p \in Chunks \cup Strangers : CallFree(t, p) \/ Realloc(t, p)

-----------------------------------------------------------------------------

InFlight == {freeing[t].ptr : t \in Threads}

\* The guard refuses no chunk in use: whatever the game frees, a chunk stays in use
\* only while the game has it or bionic_free is at work on it.  And only chunks in use
\* get past it, so that glibc never aborts and nobody loses memory it has, until the
\* game frees a dangling pointer, or one that looks like a chunk, or calls realloc
\* with what only free guards against (bionic_shims.c:98-134, imports.gen.c:380).
FreeExact ==
    /\ \A c \in Chunks : chunk[c] = "used" => c \in mine \cup InFlight
    /\ ~misused => ~glibcAborts /\ \A c \in mine : chunk[c] = "used"
=============================================================================
