----------------------------- MODULE InputQueue -----------------------------
(***************************************************************************)
(* Gamepad input in src/android_shim.c: android_shim_poll_events takes SDL *)
(* events, turns them into Android key and touch events and pushes these   *)
(* into g_input_queue, a ring without a lock; the engine's thread takes    *)
(* them out one at a time (AInputQueue_getEvent), works on the event in    *)
(* its slot, and finishes it.                                              *)
(*                                                                         *)
(* SDL is polled by the main loop (main.c:527) and, inside ALooper_pollAll,*)
(* by the engine's thread: Pollers is who does.  SDL (whose own queue is   *)
(* locked) and the player's hands are external.                            *)
(***************************************************************************)
EXTENDS Integers, Sequences

CONSTANTS
    Pollers,            \* the threads that poll SDL, of "main" and "engine"
    MAX_INPUT_EVENTS,   \* slots of the ring (128 in the source)
    Buttons,            \* pad buttons that have a key; "BACK" is select
    MaxEvents,          \* bound: SDL events the player causes
    None

ASSUME PollersAssumption == Pollers \subseteq {"main", "engine"}
ASSUME SizeAssumption == MAX_INPUT_EVENTS \in Nat /\ MAX_INPUT_EVENTS > 1
ASSUME NoneAssumption == None \notin 0 .. MAX_INPUT_EVENTS - 1
ASSUME KeyAssumption == Buttons \cap {"R2", "L2"} = {}   \* key codes differ
ASSUME BoundsAssumption == {"BACK", "START"} \subseteq Buttons /\ MaxEvents \in Nat

VARIABLES
    sdl,              \* SDL's queue of events
    pad,              \* buttons and triggers the player holds down
    made,             \* SDL events so far
    pressed,          \* g_select_pressed, g_start_pressed
    down,             \* r2_down, l2_down: the triggers reported as down
    g_aim_active,
    g_input_queue, g_input_head, g_input_tail, g_current_event,
    at,               \* where each thread is
    taken,            \* the event SDL_PollEvent gave each thread
    todo,             \* events the poll still has to push
    head,             \* g_input_head as input_queue_push has read it
    engineSees,       \* keys the engine believes to be down
    balance,          \* pushes that returned 1, less the events taken out
    dropped,          \* some push found the ring full
    overlapped,       \* a thread took an event while another had one in hand
    quit              \* "no", "asked" (DESTROY was sent), "exit" (exit(0))

padVars == <<sdl, pad, made>>
flagVars == <<pressed, down, g_aim_active>>
ringVars == <<g_input_queue, g_input_head, g_input_tail>>
engineVars == <<g_current_event, engineSees>>
pastVars == <<balance, dropped, overlapped>>
vars == <<padVars, flagVars, ringVars, engineVars, pastVars, at, taken, todo, head, quit>>

-----------------------------------------------------------------------------

Index == 0 .. MAX_INPUT_EVENTS - 1
Triggers == {"R2", "L2"}
Keys == Buttons \cup Triggers

Key(isDown, k) == [type |-> "key", action |-> IF isDown THEN "DOWN" ELSE "UP", code |-> k]
Motion(a, p) == [type |-> "motion", action |-> a, pointer |-> p]

AndroidEvents ==
    {Key(d, k) : d \in BOOLEAN, k \in Keys}
      \cup {Motion(a, p) : a \in {"DOWN", "UP", "MOVE"}, p \in 0 .. 1}

\* An axis value is given by the side of its threshold it is on.
SdlEvents ==
    [type : {"button"}, of : Buttons, on : BOOLEAN]
      \cup [type : {"trigger"}, of : Triggers, on : BOOLEAN]
      \cup [type : {"stick"}, of : {"left", "right"}, on : BOOLEAN]
      \cup {[type |-> "quit"]}

ASSUME EventAssumption == None \notin AndroidEvents \cup SdlEvents

Engine == "engine"
Threads == Pollers \cup {Engine}
Pushing == {"push", "check", "write", "advance"}
InHand == Pushing \cup {"event"}
Labels == InHand \cup {"poll", "drain", "handle", "finish"}

InputTypeOK ==
    /\ sdl \in Seq(SdlEvents) /\ Len(sdl) <= MaxEvents
    /\ pad \in SUBSET Keys
    /\ made \in 0 .. MaxEvents
    /\ pressed \in SUBSET {"BACK", "START"}
    /\ down \in SUBSET Triggers
    /\ g_aim_active \in BOOLEAN
    /\ g_input_queue \in [Index -> AndroidEvents \cup {None}]
    /\ g_input_head \in Index
    /\ g_input_tail \in Index
    /\ g_current_event \in Index \cup {None}
    /\ at \in [Threads -> Labels]
    /\ taken \in [Threads -> SdlEvents \cup {None}]
    /\ todo \in [Threads -> Seq(AndroidEvents)]
    /\ \A t \in Threads : Len(todo[t]) <= 2
    /\ head \in [Threads -> Index]
    /\ engineSees \in SUBSET Keys
    /\ balance \in Int
    /\ dropped \in BOOLEAN /\ overlapped \in BOOLEAN
    /\ quit \in {"no", "asked", "exit"}

Init ==
    /\ sdl = <<>> /\ pad = {} /\ made = 0
    /\ pressed = {} /\ down = {} /\ g_aim_active = FALSE
    /\ g_input_queue = [i \in Index |-> None]
    /\ g_input_head = 0 /\ g_input_tail = 0 /\ g_current_event = None
    /\ at = [t \in Threads |-> IF t \in Pollers THEN "poll" ELSE "drain"]
    /\ taken = [t \in Threads |-> None]
    /\ todo = [t \in Threads |-> <<>>]
    /\ head = [t \in Threads |-> 0]
    /\ engineSees = {}
    /\ balance = 0 /\ dropped = FALSE /\ overlapped = FALSE
    /\ quit = "no"

Running == quit # "exit"
Goto(t, label) == at' = [at EXCEPT ![t] = label]
Succ(i) == (i + 1) % MAX_INPUT_EVENTS
Count == (g_input_head - g_input_tail + MAX_INPUT_EVENTS) % MAX_INPUT_EVENTS

-----------------------------------------------------------------------------

\* The player presses, releases, moves a stick, closes the window.  Buttons go
\* down and up in turn; an axis may report many values on one side.
Play(e) ==
    /\ Running /\ made < MaxEvents
    /\ e.type = "button" => e.on # (e.of \in pad)
    /\ sdl' = Append(sdl, e)
    /\ made' = made + 1
    /\ pad' = IF e.type \in {"button", "trigger"}
                THEN IF e.on THEN pad \cup {e.of} ELSE pad \ {e.of}
                ELSE pad
    /\ UNCHANGED <<flagVars, ringVars, engineVars, pastVars, at, taken, todo, head, quit>>

-----------------------------------------------------------------------------
(***************************************************************************)
(* android_shim_poll_events.                                               *)
(***************************************************************************)

\* SELECT and START held together call exit(0).
Hotkey(e) ==
    IF e.type = "button" /\ e.of \in {"BACK", "START"}
      THEN IF e.on THEN pressed \cup {e.of} ELSE pressed \ {e.of}
      ELSE pressed

\* A trigger is reported when it crosses its threshold; R2 also touches the screen
\* where the right stick aims.
OfTrigger(e) ==
    IF e.on = (e.of \in down) THEN <<>>
    ELSE IF e.of = "R2" THEN <<Key(e.on, "R2"), Motion(IF e.on THEN "DOWN" ELSE "UP", 1)>>
    ELSE <<Key(e.on, "L2")>>

\* The left stick reports every value; the right one is silent while it rests.
OfStick(e) ==
    IF e.of = "right" /\ ~e.on /\ ~g_aim_active THEN <<>>
    ELSE <<Motion(IF e.on THEN "MOVE" ELSE "UP", IF e.of = "left" THEN 0 ELSE 1)>>

\* The events pushed for e.
Emitted(e) ==
    IF e.type = "button" THEN <<Key(e.on, e.of)>>
    ELSE IF e.type = "trigger" THEN OfTrigger(e)
    ELSE OfStick(e)

\* Mutant: r2_down and l2_down are never reset.
TriggersStuck(e) ==
    down' = IF e.type = "trigger" /\ e.on THEN down \cup {e.of} ELSE down

TriggersAfter(e) ==
    down' = IF e.type = "trigger"
              THEN IF e.on THEN down \cup {e.of} ELSE down \ {e.of}
              ELSE down

\* SDL_PollEvent
TakeEvent(t) ==
    /\ Running /\ at[t] = "poll" /\ sdl # <<>> /\ Head(sdl).type # "quit"
    /\ taken' = [taken EXCEPT ![t] = Head(sdl)]
    /\ sdl' = Tail(sdl)
    /\ overlapped' = (overlapped \/ \E u \in Pollers \ {t} : at[u] \in InHand)
    /\ Goto(t, "event")
    /\ UNCHANGED <<pad, made, flagVars, ringVars, engineVars, balance, dropped, todo, head,
                   quit>>

\* By the flags as they are now, which the other poller may have changed since.
Poll(t) ==
    /\ Running /\ at[t] = "event"
    /\ LET e == taken[t] IN
         /\ pressed' = Hotkey(e)
         /\ IF e.type = "button" /\ e.on /\ pressed' = {"BACK", "START"}
              THEN quit' = "exit" /\ UNCHANGED <<at, taken, todo, down, g_aim_active>>
              ELSE /\ todo' = [todo EXCEPT ![t] = Emitted(e)]
                   /\ taken' = [taken EXCEPT ![t] = None]
                   /\ Goto(t, IF Emitted(e) = <<>> THEN "poll" ELSE "push")
                   /\ TriggersAfter(e)
                   /\ g_aim_active' = IF e.type = "stick" /\ e.of = "right"
                                        THEN e.on ELSE g_aim_active
                   /\ UNCHANGED quit
    /\ UNCHANGED <<padVars, ringVars, engineVars, pastVars, head>>

\* When a poll is over the main thread sleeps and polls again, and the engine's
\* looks at its input.
AfterPoll(t) == Goto(t, IF t = Engine THEN "drain" ELSE "poll")

\* SDL_QUIT: android_shim_send_cmd(APP_CMD_DESTROY) and return.
PollQuit(t) ==
    /\ Running /\ at[t] = "poll" /\ sdl # <<>> /\ Head(sdl).type = "quit"
    /\ quit' = "asked"
    /\ sdl' = Tail(sdl)
    /\ AfterPoll(t)
    /\ UNCHANGED <<pad, made, flagVars, ringVars, engineVars, pastVars, taken, todo, head>>

PollNone(t) ==
    /\ Running /\ at[t] = "poll" /\ sdl = <<>>
    /\ AfterPoll(t)
    /\ UNCHANGED <<padVars, flagVars, ringVars, engineVars, pastVars, taken, todo, head,
                   quit>>

-----------------------------------------------------------------------------
(***************************************************************************)
(* input_queue_push.                                                       *)
(***************************************************************************)

NextEvent(t) ==
    /\ todo' = [todo EXCEPT ![t] = Tail(@)]
    /\ Goto(t, IF Len(todo[t]) = 1 THEN "poll" ELSE "push")

\* next = (g_input_head + 1) % MAX_INPUT_EVENTS
PushRead(t) ==
    /\ Running /\ at[t] = "push"
    /\ head' = [head EXCEPT ![t] = g_input_head]
    /\ Goto(t, "check")
    /\ UNCHANGED <<padVars, flagVars, ringVars, engineVars, pastVars, taken, todo, quit>>

\* Mutant: the ring is never full.
PushCheckNot(t) ==
    /\ Running /\ at[t] = "check"
    /\ Goto(t, "write") /\ UNCHANGED <<todo, dropped>>
    /\ UNCHANGED <<padVars, flagVars, ringVars, engineVars, taken, head, balance,
                   overlapped, quit>>

\* if (next == g_input_tail) return 0; the event is dropped.
PushCheck(t) ==
    /\ Running /\ at[t] = "check"
    /\ IF Succ(head[t]) = g_input_tail
         THEN dropped' = TRUE /\ NextEvent(t)
         ELSE Goto(t, "write") /\ UNCHANGED <<todo, dropped>>
    /\ UNCHANGED <<padVars, flagVars, ringVars, engineVars, taken, head, balance,
                   overlapped, quit>>

\* g_input_queue[g_input_head] = *ev: a plain int, which the compiler may have
\* kept or load again.
PushWrite(t) ==
    /\ Running /\ at[t] = "write"
    /\ \E i \in {head[t], g_input_head} :
          g_input_queue' = [g_input_queue EXCEPT ![i] = Head(todo[t])]
    /\ Goto(t, "advance")
    /\ UNCHANGED <<padVars, flagVars, g_input_head, g_input_tail, engineVars,
                   pastVars, taken, todo, head, quit>>

\* Mutant: the index runs past the end of the array.
PushAdvancePast(t) ==
    /\ Running /\ at[t] = "advance"
    /\ g_input_head' = head[t] + 1
    /\ balance' = balance + 1
    /\ NextEvent(t)
    /\ UNCHANGED <<padVars, flagVars, g_input_queue, g_input_tail, engineVars,
                   taken, head, dropped, overlapped, quit>>

\* g_input_head = next
PushAdvance(t) ==
    /\ Running /\ at[t] = "advance"
    /\ g_input_head' = Succ(head[t])
    /\ balance' = balance + 1
    /\ NextEvent(t)
    /\ UNCHANGED <<padVars, flagVars, g_input_queue, g_input_tail, engineVars,
                   taken, head, dropped, overlapped, quit>>

-----------------------------------------------------------------------------
(***************************************************************************)
(* The engine's input loop (external, as process_input does it).           *)
(***************************************************************************)

\* AInputQueue_getEvent.  Only this thread moves the tail, so the test of the
\* head and the move are one step.
GetEvent ==
    /\ Running /\ at[Engine] = "drain" /\ g_input_tail # g_input_head
    /\ g_current_event' = g_input_tail
    /\ g_input_tail' = Succ(g_input_tail)
    /\ balance' = balance - 1
    /\ Goto(Engine, "handle")
    /\ UNCHANGED <<padVars, flagVars, g_input_queue, g_input_head, engineSees,
                   taken, todo, head, dropped, overlapped, quit>>

\* AInputQueue_getEvent returns -1 and the loop ends.
GetNone ==
    /\ Running /\ at[Engine] = "drain" /\ g_input_tail = g_input_head
    /\ Goto(Engine, IF Engine \in Pollers THEN "poll" ELSE "drain")
    /\ UNCHANGED <<padVars, flagVars, ringVars, engineVars, pastVars, taken, todo, head,
                   quit>>

\* The handler reads the event through the pointer (AInputEvent_getType...).
Handle ==
    /\ Running /\ at[Engine] = "handle"
    /\ LET e == g_input_queue[g_current_event] IN
         engineSees' = IF e = None \/ e.type # "key" THEN engineSees
                       ELSE IF e.action = "DOWN" THEN engineSees \cup {e.code}
                       ELSE engineSees \ {e.code}
    /\ Goto(Engine, "finish")
    /\ UNCHANGED <<padVars, flagVars, ringVars, g_current_event, pastVars, taken, todo,
                   head, quit>>

\* Mutant: g_current_event is not reset.
FinishKeeps ==
    /\ Running /\ at[Engine] = "finish"
    /\ Goto(Engine, "drain")
    /\ UNCHANGED <<padVars, flagVars, ringVars, engineVars, pastVars, taken, todo, head,
                   quit>>

\* AInputQueue_finishEvent
Finish ==
    /\ Running /\ at[Engine] = "finish"
    /\ g_current_event' = None
    /\ Goto(Engine, "drain")
    /\ UNCHANGED <<padVars, flagVars, ringVars, engineSees, pastVars, taken, todo, head,
                   quit>>

-----------------------------------------------------------------------------

PollStep(t) ==
    \/ TakeEvent(t) \/ Poll(t) \/ PollQuit(t) \/ PollNone(t)
    \/ PushRead(t) \/ PushCheck(t) \/ PushWrite(t) \/ PushAdvance(t)

EngineStep == GetEvent \/ GetNone \/ Handle \/ Finish

Next ==
    \/ \E e \in SdlEvents : Play(e)
    \/ \E t \in Pollers : PollStep(t)
    \/ EngineStep

Spec == Init /\ [][Next]_vars

\* Both threads keep polling; nothing is assumed of the player.
Fairness == WF_vars(EngineStep) /\ \A t \in Pollers : WF_vars(PollStep(t))
FairSpec == Spec /\ Fairness

-----------------------------------------------------------------------------

Queued == [k \in 1 .. Count |->
             g_input_queue[(g_input_tail + k - 1) % MAX_INPUT_EVENTS]]
Current == IF g_current_event = None THEN None ELSE g_input_queue[g_current_event]
Fifo == INSTANCE BoundedFifo
          WITH Items <- AndroidEvents, Capacity <- MAX_INPUT_EVENTS - 1,
               items <- Queued, current <- Current

\* As long as the two pollers take turns, the ring is a bounded queue: events come
\* out in order, none twice, and the slot the engine works on is not written before
\* it is finished, although the tail has left it behind (android_shim.c:70-72).
ImplementsFifo == Fifo!Init /\ [][overlapped' \/ Fifo!Next]_<<Queued, Current>>

\* Nothing is on its way from the pad to the engine.
Quiet == /\ Running /\ sdl = <<>> /\ Count = 0 /\ g_current_event = None
         /\ \A t \in Pollers : at[t] \in {"poll", "drain"}

\* When all is handled, nothing was dropped and the pollers took turns, the engine
\* believes to be down exactly the buttons and triggers that are (hysteresis of the
\* triggers, order of downs and ups; android_shim.c:199-305).
EngineAgrees == Quiet /\ ~dropped /\ ~overlapped => engineSees = pad

\* input_queue_push refuses an event only when the ring is full, and what it took
\* comes out once (android_shim.c:62): between pushes, the ring holds exactly the
\* events taken and not yet got.
NothingLost ==
    (\A t \in Pollers : at[t] \notin {"check", "write", "advance"}) => balance = Count

\* Every burst of input is worked off in the end, whatever the race did to the
\* indices of the ring (android_shim.c:60-73).
InputDrains == []<>(Quiet \/ ~Running)
=============================================================================
