------------------------------ MODULE Lifecycle ------------------------------
(***************************************************************************)
(* From ANativeActivity_onCreate to _exit: the second half of main         *)
(* (main.c), the command pipes and ALooper_pollAll (android_shim.c).       *)
(*                                                                         *)
(* main calls the activity's callbacks and then polls SDL until the app is *)
(* to be destroyed; the engine polls its looper on a thread of its own.    *)
(* An engine built on the NDK's glue creates an android_app of its own,    *)
(* which onCreate stores in g_activity.instance when it returns; one that  *)
(* is not uses the shim's g_app.  The engine, its glue, SDL and the player *)
(* are external.  InputQueue has what polling does to the pad.             *)
(***************************************************************************)
EXTENDS Integers, Sequences

CONSTANTS
    MAX_LOOPER_FDS,
    MaxEvents,          \* bound: SDL events
    MaxReady            \* bound: times the engine's other descriptor is readable

ASSUME LifecycleAssumption ==
    MAX_LOOPER_FDS \in Nat /\ MaxEvents \in Nat /\ MaxReady \in Nat

VARIABLES
    onMain,             \* where main is, and the callback it makes
    onEngine,           \* where the engine's thread is
    instance,           \* what android_shim_get_app returns
    own,                \* the app the engine works with
    app,                \* both android_apps
    pipe,               \* the unread commands of each
    g_looper_fds,       \* registered descriptors: "engine" is the app's msgread
    other,              \* another descriptor of the engine: readable, and how often it was
    sdl,                \* events SDL holds, and how many there were
    inputs,             \* is the input queue not empty
    asked,              \* events that ask for the end, seen before and after the loop began
    exited

lifeVars == <<onMain, onEngine, instance, own, app, pipe, g_looper_fds, other, sdl,
              inputs, asked, exited>>

-----------------------------------------------------------------------------

Apps == {"g_app", "engine"}
StartUp == <<"START", "RESUME", "INIT_WINDOW", "GAINED_FOCUS">>
Commands == {StartUp[k] : k \in DOMAIN StartUp} \cup {"DESTROY"}
Sources == {"glue", "shim", "other", "none"}

LifecycleTypeOK ==
    /\ onMain \in [at : {"create", "created", "call", "wait", "loop", "poll", "destroy", "freeing"},
                   call : DOMAIN StartUp]
    /\ onEngine \in [at : {"none", "start", "poll", "events", "input", "command", "gone"},
                     source : Sources]
    /\ instance \in Apps /\ own \in Apps
    /\ app \in [Apps -> [window : BOOLEAN, activityState : Commands \cup {"0", "1"},
                         destroyRequested : BOOLEAN, running : BOOLEAN, destroyed : BOOLEAN]]
    /\ \A a \in Apps : \A k \in DOMAIN pipe[a] : pipe[a][k] \in Commands
    /\ Len(g_looper_fds) <= MAX_LOOPER_FDS
    /\ other \in [readable : BOOLEAN, times : 0 .. MaxReady]
    /\ inputs \in BOOLEAN /\ exited \in BOOLEAN
    /\ asked \in [early : BOOLEAN, ever : BOOLEAN]

LifecycleInit ==
    /\ onMain = [at |-> "create", call |-> 1]
    /\ onEngine = [at |-> "none", source |-> "none"]
    /\ instance = "g_app" /\ own \in Apps
    /\ app = [a \in Apps |-> [window |-> a = "g_app", activityState |-> "0",
                              destroyRequested |-> FALSE, running |-> FALSE,
                              destroyed |-> FALSE]]
    /\ pipe = [a \in Apps |-> <<>>]
    /\ g_looper_fds = <<>>
    /\ other = [readable |-> FALSE, times |-> 0]
    /\ sdl = [queue |-> <<>>, times |-> 0]
    /\ inputs = FALSE
    /\ asked = [early |-> FALSE, ever |-> FALSE]
    /\ exited = FALSE

-----------------------------------------------------------------------------
(***************************************************************************)
(* Events of the player, and android_shim_poll_events by either thread.    *)
(***************************************************************************)

Player ==
    /\ sdl.times < MaxEvents
    /\ \E e \in {"quit", "hotkey", "input"} :
          sdl' = [queue |-> Append(sdl.queue, e), times |-> sdl.times + 1]
    /\ UNCHANGED <<onMain, onEngine, instance, own, app, pipe, g_looper_fds, other, inputs,
                   asked, exited>>

Looping == onMain.at \in {"loop", "poll", "destroy", "freeing"}

\* android_shim_send_cmd, to whatever is the app now.
SendDestroy == pipe' = [pipe EXCEPT ![instance] = Append(@, "DESTROY")]

Asked == asked' = [early |-> asked.early \/ ~Looping, ever |-> TRUE]

\* One event; done: none was left, or it was SDL_QUIT.
PollEvent(done) ==
    IF sdl.queue = <<>>
      THEN done /\ UNCHANGED <<sdl, pipe, inputs, asked, exited>>
      ELSE /\ sdl' = [sdl EXCEPT !.queue = Tail(@)]
           /\ \/ Head(sdl.queue) = "quit" /\ SendDestroy /\ Asked /\ done
                 /\ UNCHANGED <<inputs, exited>>
              \/ Head(sdl.queue) = "hotkey" /\ exited' = TRUE /\ Asked
                 /\ UNCHANGED <<pipe, inputs, onMain, onEngine>>
              \/ Head(sdl.queue) = "input" /\ inputs' = TRUE
                 /\ UNCHANGED <<pipe, asked, exited, onMain, onEngine>>

-----------------------------------------------------------------------------
(***************************************************************************)
(* main.                                                                   *)
(***************************************************************************)

MainAt(at) == onMain' = [onMain EXCEPT !.at = at]
EngineAt(at, source) == onEngine' = [at |-> at, source |-> source]

\* onCreate starts the engine's thread; with the glue it waits until that runs.
OnCreate ==
    /\ onMain.at = "create"
    /\ MainAt("created")
    /\ EngineAt(IF own = "engine" THEN "start" ELSE "poll", "none")
    /\ UNCHANGED <<instance, own, app, pipe, g_looper_fds, other, sdl, inputs, asked, exited>>

\* Then it stores the instance, and main fetches it; g_app has no callbacks.
Created ==
    /\ onMain.at = "created"
    /\ own = "engine" => app[own].running
    /\ instance' = own
    /\ MainAt(IF own = "engine" THEN "call" ELSE "loop")
    /\ UNCHANGED <<onEngine, own, app, pipe, g_looper_fds, other, sdl, inputs, asked, exited>>

\* onStart, onResume, onNativeWindowCreated and onWindowFocusChanged write a command;
\* the first three wait until the engine has carried it out.
CallBack ==
    /\ onMain.at = "call"
    /\ pipe' = [pipe EXCEPT ![own] = Append(@, StartUp[onMain.call])]
    /\ MainAt(IF StartUp[onMain.call] = "GAINED_FOCUS" THEN "loop" ELSE "wait")
    /\ UNCHANGED <<onEngine, instance, own, app, g_looper_fds, other, sdl, inputs, asked, exited>>

CallReturns ==
    /\ onMain.at = "wait"
    /\ IF StartUp[onMain.call] = "INIT_WINDOW" THEN app[own].window
       ELSE app[own].activityState = StartUp[onMain.call]
    /\ onMain' = [at |-> "call", call |-> onMain.call + 1]
    /\ UNCHANGED <<onEngine, instance, own, app, pipe, g_looper_fds, other, sdl, inputs, asked,
                   exited>>

\* Mutant: the loop watches g_app.
LoopGlobal ==
    /\ onMain.at = "loop"
    /\ MainAt(IF app["g_app"].destroyRequested THEN "destroy" ELSE "poll")
    /\ UNCHANGED <<onEngine, instance, own, app, pipe, g_looper_fds, other, sdl, inputs, asked,
                   exited>>

\* real_app is what get_app returned after onCreate.
Loop ==
    /\ onMain.at = "loop"
    /\ MainAt(IF app[own].destroyRequested THEN "destroy" ELSE "poll")
    /\ UNCHANGED <<onEngine, instance, own, app, pipe, g_looper_fds, other, sdl, inputs, asked,
                   exited>>

MainPoll ==
    /\ onMain.at = "poll"
    /\ PollEvent(MainAt("loop"))
    /\ UNCHANGED <<onEngine, instance, own, app, g_looper_fds, other>>

\* onDestroy asks once more and waits for the engine to be gone; g_app has none.
OnDestroy ==
    /\ onMain.at = "destroy"
    /\ IF own = "engine"
         THEN /\ pipe' = [pipe EXCEPT ![own] = Append(@, "DESTROY")]
              /\ MainAt("freeing")
              /\ UNCHANGED exited
         ELSE exited' = TRUE /\ UNCHANGED <<pipe, onMain>>
    /\ UNCHANGED <<onEngine, instance, own, app, g_looper_fds, other, sdl, inputs, asked>>

Exit ==
    /\ onMain.at = "freeing"
    /\ app[own].destroyed
    /\ exited' = TRUE
    /\ UNCHANGED <<onMain, onEngine, instance, own, app, pipe, g_looper_fds, other, sdl, inputs,
                   asked>>

-----------------------------------------------------------------------------
(***************************************************************************)
(* The looper.                                                             *)
(***************************************************************************)

\* Mutant: one descriptor too many.
AddedPast(fd) ==
    IF (\E k \in DOMAIN g_looper_fds : g_looper_fds[k] = fd) \/ Len(g_looper_fds) > MAX_LOOPER_FDS
      THEN g_looper_fds ELSE Append(g_looper_fds, fd)

\* ALooper_addFd: a full table drops the descriptor without a word.
Added(fd) ==
    IF (\E k \in DOMAIN g_looper_fds : g_looper_fds[k] = fd) \/ Len(g_looper_fds) = MAX_LOOPER_FDS
      THEN g_looper_fds ELSE Append(g_looper_fds, fd)

\* The glue's thread registers its pipe and says that it runs.
EngineStart ==
    /\ onEngine.at = "start"
    /\ g_looper_fds' = Added("engine")
    /\ app' = [app EXCEPT ![own].running = TRUE]
    /\ EngineAt("poll", "none")
    /\ UNCHANGED <<onMain, instance, own, pipe, other, sdl, inputs, asked, exited>>

\* The engine registers another descriptor, before its pipe or after.
AddOther ==
    /\ onEngine.at \in {"start", "poll"}
    /\ g_looper_fds' = Added("other")
    /\ UNCHANGED <<onMain, onEngine, instance, own, app, pipe, other, sdl, inputs, asked, exited>>

OtherReadable ==
    /\ ~other.readable /\ other.times < MaxReady
    /\ other' = [readable |-> TRUE, times |-> other.times + 1]
    /\ UNCHANGED <<onMain, onEngine, instance, own, app, pipe, g_looper_fds, sdl, inputs, asked,
                   exited>>

Readable(fd) == IF fd = "other" THEN other.readable ELSE pipe[fd] # <<>>

\* Mutant: a pipe that is not in the table is not polled.
PolledRegistered == g_looper_fds

\* The registered descriptors, and the app's pipe if it is not one of them.
Polled ==
    IF \E k \in DOMAIN g_looper_fds : g_looper_fds[k] = instance THEN g_looper_fds
    ELSE Append(g_looper_fds, instance)

\* The source of a descriptor that can be read: the glue's, or that of g_app.
SourceOf(fd) == IF fd = "other" THEN "other" ELSE IF fd = "engine" THEN "glue" ELSE "shim"

\* ALooper_pollAll up to its poll: the first that is readable is returned.
Poll ==
    /\ onEngine.at = "poll"
    /\ LET R == {k \in DOMAIN Polled : Readable(Polled[k])} IN
         IF R = {} THEN EngineAt("events", "none")
         ELSE EngineAt("command", SourceOf(Polled[CHOOSE k \in R : \A j \in R : k <= j]))
    /\ UNCHANGED <<onMain, instance, own, app, pipe, g_looper_fds, other, sdl, inputs, asked,
                   exited>>

EnginePoll ==
    /\ onEngine.at = "events"
    /\ PollEvent(EngineAt("input", "none"))
    /\ UNCHANGED <<onMain, instance, own, app, g_looper_fds, other>>

\* LOOPER_ID_INPUT: process_input, or the glue's, empties the queue.
EngineInput ==
    /\ onEngine.at = "input"
    /\ inputs' = FALSE
    /\ EngineAt("poll", "none")
    /\ UNCHANGED <<onMain, instance, own, app, pipe, g_looper_fds, other, sdl, asked, exited>>

\* What the shim's process_cmd does with a command.
Processed(a, cmd) ==
    CASE cmd = "INIT_WINDOW" -> [a EXCEPT !.window = TRUE]
      [] cmd \in {"RESUME", "START", "GAINED_FOCUS"} -> [a EXCEPT !.activityState = "1"]
      [] cmd = "DESTROY" -> [a EXCEPT !.destroyRequested = TRUE]

\* What the glue's does.
GlueProcessed(a, cmd) ==
    CASE cmd = "INIT_WINDOW" -> [a EXCEPT !.window = TRUE]
      [] cmd \in {"RESUME", "START"} -> [a EXCEPT !.activityState = cmd]
      [] cmd = "GAINED_FOCUS" -> a
      [] cmd = "DESTROY" -> [a EXCEPT !.destroyRequested = TRUE]

\* The engine calls the source's process with its own app: a command is read from
\* that app's pipe, whoever's source it is.
Process ==
    /\ onEngine.at = "command" /\ onEngine.source \in {"glue", "shim"}
    /\ pipe[own] # <<>>
    /\ pipe' = [pipe EXCEPT ![own] = Tail(@)]
    /\ LET a == IF onEngine.source = "shim" THEN Processed(app[own], Head(pipe[own]))
                ELSE GlueProcessed(app[own], Head(pipe[own])) IN
         IF a.destroyRequested
           THEN app' = [app EXCEPT ![own] = [a EXCEPT !.destroyed = TRUE]] /\ EngineAt("gone", "none")
           ELSE app' = [app EXCEPT ![own] = a] /\ EngineAt("poll", "none")
    /\ UNCHANGED <<onMain, instance, own, g_looper_fds, other, sdl, inputs, asked, exited>>

ProcessOther ==
    /\ onEngine.at = "command" /\ onEngine.source = "other"
    /\ other' = [other EXCEPT !.readable = FALSE]
    /\ EngineAt("poll", "none")
    /\ UNCHANGED <<onMain, instance, own, app, pipe, g_looper_fds, sdl, inputs, asked, exited>>

\* Mutant: ANativeActivity_finish is obeyed.
FinishObeyed ==
    /\ onEngine.at = "poll"
    /\ SendDestroy
    /\ UNCHANGED <<onMain, onEngine, instance, own, app, g_looper_fds, other, sdl, inputs, asked,
                   exited>>

\* ANativeActivity_finish is ignored.
Finish ==
    /\ onEngine.at = "poll"
    /\ UNCHANGED lifeVars

-----------------------------------------------------------------------------

MainStep ==
    OnCreate \/ Created \/ CallBack \/ CallReturns \/ Loop \/ MainPoll \/ OnDestroy \/ Exit

EngineStep == EngineStart \/ Poll \/ EnginePoll \/ EngineInput \/ Process \/ ProcessOther

LifecycleNext ==
    ~exited /\ (MainStep \/ EngineStep \/ AddOther \/ Finish \/ Player \/ OtherReadable)

-----------------------------------------------------------------------------

QuitPending ==
    \/ \E k \in DOMAIN sdl.queue : sdl.queue[k] = "quit"
    \/ \E k \in DOMAIN pipe[instance] : pipe[instance][k] = "DESTROY"

\* Once the main loop runs a request to quit, wherever it is, ends the process: not
\* lost between the two pollers, nor by a full looper table, nor behind another
\* descriptor (main.c:526-536, android_shim.c:109-116, 178-184, 405-482).
ShutdownCompletes == (Looping /\ QuitPending) ~> exited

\* The process ends only because the player asked, although the engine may try to
\* finish its activity (main.c:526-536, android_shim.c:178-193, 590-593).
EndsOnRequest == onMain.at \in {"destroy", "freeing"} \/ exited => asked.ever
=============================================================================
