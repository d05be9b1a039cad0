-------------------------- MODULE InputQueueProofs --------------------------
(***************************************************************************)
(* The event ring of android_shim.c, for any size, buttons and pollers:    *)
(* its indices stay in the array even when two threads push at once; no    *)
(* event is lost as long as only one does; while they take turns the ring  *)
(* is a queue, and the engine comes to know which keys are down.           *)
(***************************************************************************)
EXTENDS InputQueue, SequenceTheorems, TLAPS

\* A thread in input_queue_push has an event to push, one between SDL_PollEvent and
\* its flags an event of SDL; the engine at work has one.
WorkInv ==
    /\ \A t \in Threads :
          /\ at[t] \in Pushing => todo[t] # <<>>
          /\ at[t] = "event" <=> taken[t] # None
          /\ taken[t] # None => taken[t].type # "quit"
    /\ at[Engine] \in {"handle", "finish"} => g_current_event # None
    /\ Len(sdl) <= made

IInv == InputTypeOK /\ WorkInv

\* What InputTypeOK says of where the threads are and what they have to push.
TodoTypeOK ==
    /\ at \in [Threads -> Labels]
    /\ todo \in [Threads -> Seq(AndroidEvents)]
    /\ \A t \in Threads : Len(todo[t]) <= 2

-----------------------------------------------------------------------------

\* The next index is an index, and not past the end.
LEMMA SuccIndex ==
    ASSUME NEW i \in Index
    PROVE  Succ(i) \in Index /\ Succ(i) = IF i = MAX_INPUT_EVENTS - 1 THEN 0 ELSE i + 1
  BY SizeAssumption DEF Index, Succ

\* The distance from tail to head, without the modulo.
LEMMA CountIs ==
    ASSUME NEW h \in Index, NEW t \in Index
    PROVE  (h - t + MAX_INPUT_EVENTS) % MAX_INPUT_EVENTS
             = IF h >= t THEN h - t ELSE h - t + MAX_INPUT_EVENTS
<1>1. CASE h >= t
  BY <1>1, SizeAssumption DEF Index
<1>2. CASE ~(h >= t)
  BY <1>2, SizeAssumption DEF Index
<1> QED BY <1>1, <1>2

\* Sequences of at most two events.
LEMMA Short ==
    ASSUME NEW a \in AndroidEvents, NEW b \in AndroidEvents,
           NEW q, q \in {<<>>, <<a>>, <<a, b>>}
    PROVE  q \in Seq(AndroidEvents) /\ Len(q) <= 2
<1>1. CASE q = <<>>
  BY <1>1
<1>2. CASE q = <<a>>
  BY <1>2
<1>3. CASE q = <<a, b>>
  BY <1>3
<1> QED BY <1>1, <1>2, <1>3

\* What is left of a sequence after its first item.
LEMMA Rest ==
    ASSUME NEW q \in Seq(AndroidEvents), q # <<>>
    PROVE  /\ Tail(q) \in Seq(AndroidEvents) /\ Len(Tail(q)) = Len(q) - 1
           /\ Len(q) # 1 <=> Tail(q) # <<>>
<1>1. Len(q) \in Nat
  BY EmptySeq
<1>2. Tail(q) \in Seq(AndroidEvents) /\ Len(Tail(q)) = Len(q) - 1
  BY HeadTailProperties
<1>3. Tail(q) = <<>> <=> Len(Tail(q)) = 0
  BY <1>2, EmptySeq
<1> QED BY <1>1, <1>2, <1>3

\* At most two Android events come of one SDL event.
LEMMA EmittedType ==
    ASSUME InputTypeOK, NEW e \in SdlEvents, e.type # "quit"
    PROVE  Emitted(e) \in Seq(AndroidEvents) /\ Len(Emitted(e)) <= 2
<1>1. CASE e \in [type : {"button"}, of : Buttons, on : BOOLEAN]
  <2>1. Emitted(e) = <<Key(e.on, e.of)>>
    BY <1>1 DEF Emitted
  <2>2. Key(e.on, e.of) \in AndroidEvents
    BY <1>1 DEF AndroidEvents, Keys
  <2> QED BY <2>1, <2>2, Short
<1>2. CASE e \in [type : {"trigger"}, of : Triggers, on : BOOLEAN]
  <2>1. Emitted(e) \in {<<>>, <<Key(e.on, "L2")>>,
          <<Key(e.on, "R2"), Motion(IF e.on THEN "DOWN" ELSE "UP", 1)>>}
    BY <1>2 DEF Emitted, OfTrigger
  <2>2. Key(e.on, "L2") \in AndroidEvents /\ Key(e.on, "R2") \in AndroidEvents
    BY <1>2 DEF AndroidEvents, Keys, Triggers
  <2>3. Motion(IF e.on THEN "DOWN" ELSE "UP", 1) \in AndroidEvents
    BY DEF AndroidEvents
  <2> QED BY <2>1, <2>2, <2>3, Short
<1>3. CASE e \in [type : {"stick"}, of : {"left", "right"}, on : BOOLEAN]
  <2>1. PICK a \in {"MOVE", "UP"}, p \in 0 .. 1 : Emitted(e) \in {<<>>, <<Motion(a, p)>>}
    BY <1>3 DEF Emitted, OfStick
  <2>2. Motion(a, p) \in AndroidEvents
    BY DEF AndroidEvents
  <2> QED BY <2>1, <2>2, Short
<1> QED BY <1>1, <1>2, <1>3 DEF SdlEvents

\* A push is over: the next one begins, or the loop goes on.
LEMMA NextEventKeeps ==
    ASSUME IInv, NEW t \in Threads, at[t] \in Pushing, NextEvent(t),
           sdl' = sdl, made' = made, taken' = taken, g_current_event' = g_current_event
    PROVE  WorkInv' /\ TodoTypeOK'
<1> DEFINE q == todo[t]
<1>1. q \in Seq(AndroidEvents) /\ q # <<>> /\ Len(q) <= 2
  BY DEF IInv, InputTypeOK, WorkInv
<1>2. /\ Tail(q) \in Seq(AndroidEvents) /\ Len(Tail(q)) <= 2
      /\ Len(q) # 1 => Tail(q) # <<>>
  BY <1>1, Rest
<1>3. /\ todo' = [todo EXCEPT ![t] = Tail(q)]
      /\ at' = [at EXCEPT ![t] = IF Len(q) = 1 THEN "poll" ELSE "push"]
  BY DEF NextEvent, Goto
<1> HIDE DEF q
<1>4. /\ todo' \in [Threads -> Seq(AndroidEvents)] /\ at' \in [Threads -> Labels]
      /\ \A u \in Threads : Len(todo'[u]) <= 2
  BY <1>2, <1>3 DEF IInv, InputTypeOK, Labels, InHand, Pushing
<1>5. WorkInv'
  BY <1>2, <1>3 DEF IInv, InputTypeOK, WorkInv, Pushing, Threads, Engine
<1> QED BY <1>4, <1>5 DEF TodoTypeOK

-----------------------------------------------------------------------------

\* It holds at the start: the ring is empty and nobody is at work.
LEMMA InitHolds == Init => IInv
<1> SUFFICES ASSUME Init PROVE IInv
  OBVIOUS
<1>1. 0 \in Index /\ 0 \in 0 .. MaxEvents
  BY SizeAssumption, BoundsAssumption DEF Index
<1>2. sdl \in Seq(SdlEvents) /\ Len(sdl) = 0 /\ made = 0
  BY DEF Init
<1>3. /\ todo \in [Threads -> Seq(AndroidEvents)]
      /\ \A t \in Threads : Len(todo[t]) = 0
  BY DEF Init
<1>4. at \in [Threads -> {"poll", "drain"}] /\ taken = [t \in Threads |-> None]
  BY DEF Init
<1>5. WorkInv
  BY <1>2, <1>4 DEF WorkInv, Pushing, Threads, Engine
<1>6. at \in [Threads -> Labels] /\ taken \in [Threads -> SdlEvents \cup {None}]
  BY <1>4 DEF Labels
<1>7. g_input_queue \in [Index -> AndroidEvents \cup {None}] /\ head \in [Threads -> Index]
  BY <1>1 DEF Init
<1>8. /\ pad = {} /\ pressed = {} /\ down = {} /\ engineSees = {} /\ balance = 0
      /\ g_aim_active = FALSE /\ dropped = FALSE /\ overlapped = FALSE /\ quit = "no"
      /\ g_input_head = 0 /\ g_input_tail = 0 /\ g_current_event = None
  BY DEF Init
<1>9. Len(sdl) <= MaxEvents /\ \A t \in Threads : Len(todo[t]) <= 2
  BY <1>2, <1>3, BoundsAssumption
<1>10. /\ pad \in SUBSET Keys /\ pressed \in SUBSET {"BACK", "START"}
       /\ down \in SUBSET Triggers /\ engineSees \in SUBSET Keys
       /\ g_aim_active \in BOOLEAN /\ dropped \in BOOLEAN /\ overlapped \in BOOLEAN
       /\ quit \in {"no", "asked", "exit"}
  BY <1>8, Zenon
<1>11. /\ g_input_head \in Index /\ g_input_tail \in Index /\ made \in 0 .. MaxEvents
       /\ g_current_event \in Index \cup {None}
  BY <1>1, <1>2, <1>8, Zenon
<1>12. balance \in Int
  BY <1>8
<1>13. InputTypeOK
  BY <1>2, <1>3, <1>6, <1>7, <1>9, <1>10, <1>11, <1>12, Zenon DEF InputTypeOK
<1> QED BY <1>5, <1>13 DEF IInv

\* The player acts: SDL has one more event.
LEMMA PlayKeeps ==
    ASSUME IInv, NEW e \in SdlEvents, Play(e)
    PROVE  IInv'
<1> USE DEF IInv
<1>1. sdl' \in Seq(SdlEvents) /\ Len(sdl') = Len(sdl) + 1
  BY DEF InputTypeOK, Play
<1>2. pad' \in SUBSET Keys
  BY DEF InputTypeOK, Play, SdlEvents, Keys
<1>3. made' \in 0 .. MaxEvents /\ Len(sdl') <= made'
  BY <1>1, BoundsAssumption DEF InputTypeOK, WorkInv, Play
<1> QED
  BY <1>1, <1>2, <1>3, BoundsAssumption DEF InputTypeOK, WorkInv, Play, flagVars,
     ringVars, engineVars, pastVars

\* A poller takes an event from SDL.
LEMMA TakeKeeps ==
    ASSUME IInv, NEW t \in Pollers, TakeEvent(t)
    PROVE  IInv'
<1> USE DEF IInv
<1> DEFINE e == Head(sdl)
<1>1. e \in SdlEvents /\ sdl' \in Seq(SdlEvents) /\ Len(sdl') = Len(sdl) - 1
  BY DEF InputTypeOK, TakeEvent
<1>2. /\ e.type # "quit" /\ at[t] = "poll" /\ t \in Threads
      /\ taken' = [taken EXCEPT ![t] = e] /\ at' = [at EXCEPT ![t] = "event"]
      /\ UNCHANGED <<pad, made, pressed, down, g_aim_active>>
      /\ UNCHANGED <<g_input_queue, g_input_head, g_input_tail>>
      /\ UNCHANGED <<g_current_event, engineSees, balance, dropped, todo, head, quit>>
  BY DEF TakeEvent, Goto, Threads, flagVars, ringVars, engineVars
<1> HIDE DEF e
<1>3. e # None
  BY <1>1, EventAssumption
<1>4. Len(sdl') <= MaxEvents /\ Len(sdl') <= made'
  BY <1>1, <1>2, BoundsAssumption DEF InputTypeOK, WorkInv, TakeEvent
<1>5. /\ at' \in [Threads -> Labels] /\ taken' \in [Threads -> SdlEvents \cup {None}]
      /\ overlapped' \in BOOLEAN
  BY <1>1, <1>2 DEF InputTypeOK, Labels, InHand, TakeEvent
<1>6. WorkInv'
  BY <1>2, <1>3, <1>4 DEF InputTypeOK, WorkInv, Pushing
<1> QED BY <1>1, <1>2, <1>4, <1>5, <1>6 DEF InputTypeOK

\* By its flags it has at most two events to push.
LEMMA PollKeeps ==
    ASSUME IInv, NEW t \in Pollers, Poll(t)
    PROVE  IInv'
<1> USE DEF IInv
<1> DEFINE e == taken[t]
<1>1. e \in SdlEvents /\ e.type # "quit" /\ at[t] = "event" /\ t \in Threads
  BY DEF InputTypeOK, WorkInv, Poll, Threads
<1>2. pressed' \in SUBSET {"BACK", "START"}
  BY DEF InputTypeOK, Poll, Hotkey
<1>3. down' \in SUBSET Triggers
  BY <1>1 DEF InputTypeOK, Poll, TriggersAfter, SdlEvents
<1>4. g_aim_active' \in BOOLEAN
  BY <1>1 DEF InputTypeOK, Poll, SdlEvents
<1>5. /\ pad' = pad /\ made' = made /\ sdl' = sdl /\ g_input_queue' = g_input_queue
      /\ g_input_head' = g_input_head /\ g_input_tail' = g_input_tail
      /\ g_current_event' = g_current_event /\ engineSees' = engineSees
      /\ head' = head /\ balance' = balance /\ dropped' = dropped
      /\ overlapped' = overlapped
  BY DEF Poll, padVars, ringVars, engineVars, pastVars
<1>6. /\ todo' \in [Threads -> Seq(AndroidEvents)]
      /\ \A u \in Threads : Len(todo'[u]) <= 2
      /\ at' \in [Threads -> Labels] /\ taken' \in [Threads -> SdlEvents \cup {None}]
      /\ WorkInv' /\ quit' \in {"no", "asked", "exit"}
  <2>1. CASE UNCHANGED <<at, taken, todo>>
    BY <1>5, <2>1 DEF InputTypeOK, WorkInv, Poll
  <2>2. CASE /\ todo' = [todo EXCEPT ![t] = Emitted(e)]
             /\ taken' = [taken EXCEPT ![t] = None]
             /\ Goto(t, IF Emitted(e) = <<>> THEN "poll" ELSE "push")
    <3>1. Emitted(e) \in Seq(AndroidEvents) /\ Len(Emitted(e)) <= 2
      BY <1>1, EmittedType
    <3>2. quit' \in {"no", "asked", "exit"}
      BY DEF InputTypeOK, Poll
    <3> HIDE DEF e
    <3>3. /\ todo' \in [Threads -> Seq(AndroidEvents)]
          /\ \A u \in Threads : Len(todo'[u]) <= 2
          /\ at' \in [Threads -> Labels] /\ taken' \in [Threads -> SdlEvents \cup {None}]
      BY <1>1, <2>2, <3>1 DEF InputTypeOK, Goto, Labels, InHand, Pushing
    <3>4. ASSUME NEW u \in Threads
          PROVE  /\ at'[u] \in Pushing => todo'[u] # <<>>
                 /\ at'[u] = "event" <=> taken'[u] # None
                 /\ taken'[u] # None => taken'[u].type # "quit"
      BY <1>1, <2>2 DEF InputTypeOK, WorkInv, Goto, Pushing
    <3>5. at'[Engine] \in {"handle", "finish"} => at[Engine] \in {"handle", "finish"}
      BY <1>1, <2>2 DEF InputTypeOK, Goto, Threads
    <3>6. WorkInv'
      BY <1>5, <3>4, <3>5 DEF WorkInv
    <3> QED BY <3>2, <3>3, <3>6
  <2> QED BY <2>1, <2>2 DEF Poll
<1> QED
  BY <1>2, <1>3, <1>4, <1>5, <1>6 DEF InputTypeOK

\* The steps that only move a poller out of its poll.
LEMMA EndPollKeeps ==
    ASSUME IInv, NEW t \in Pollers, PollQuit(t) \/ PollNone(t)
    PROVE  IInv'
<1> USE DEF IInv
<1>1. sdl' \in Seq(SdlEvents) /\ Len(sdl') <= Len(sdl)
  <2>1. CASE PollQuit(t)
    BY <2>1 DEF InputTypeOK, PollQuit
  <2>2. CASE PollNone(t)
    BY <2>2 DEF InputTypeOK, PollNone, padVars
  <2> QED BY <2>1, <2>2
<1>2. at[t] = "poll" /\ at' = [at EXCEPT ![t] = IF t = Engine THEN "drain" ELSE "poll"]
  BY DEF PollQuit, PollNone, AfterPoll, Goto
<1>3. t \in Threads
  BY DEF Threads
<1>4. quit' \in {"no", "asked", "exit"} /\ made' = made /\ pad' = pad
  BY DEF InputTypeOK, PollQuit, PollNone, padVars
<1>5. UNCHANGED <<flagVars, ringVars, engineVars, pastVars, taken, todo, head>>
  BY DEF PollQuit, PollNone
<1> QED
  BY <1>1, <1>2, <1>3, <1>4, <1>5, BoundsAssumption DEF InputTypeOK, WorkInv,
     Pushing, InHand, Labels,
     flagVars, ringVars, engineVars, pastVars

\* input_queue_push reads the head.
LEMMA PushReadKeeps ==
    ASSUME IInv, NEW t \in Pollers, PushRead(t)
    PROVE  IInv'
  BY DEF IInv, InputTypeOK, WorkInv, Pushing, InHand, Labels, PushRead, Goto, Threads,
     padVars, flagVars, ringVars, engineVars, pastVars

\* It finds the ring full and drops the event, or goes on.
LEMMA PushCheckKeeps ==
    ASSUME IInv, NEW t \in Pollers, PushCheck(t)
    PROVE  IInv'
<1>1. CASE NextEvent(t) /\ dropped' = TRUE
  <2>1. /\ UNCHANGED <<sdl, made, pad, pressed, down, g_aim_active>>
        /\ UNCHANGED <<g_input_queue, g_input_head, g_input_tail>>
        /\ UNCHANGED <<g_current_event, engineSees, taken, head, balance, overlapped, quit>>
    BY DEF PushCheck, padVars, flagVars, ringVars, engineVars
  <2>2. t \in Threads /\ at[t] \in Pushing
    BY DEF PushCheck, Pushing, Threads
  <2>3. sdl' = sdl /\ made' = made /\ taken' = taken /\ g_current_event' = g_current_event
    BY <2>1
  <2>4. WorkInv' /\ TodoTypeOK'
    BY <1>1, <2>2, <2>3, NextEventKeeps
  <2> QED BY <1>1, <2>1, <2>4 DEF IInv, InputTypeOK, TodoTypeOK
<1>2. CASE Goto(t, "write") /\ UNCHANGED <<todo, dropped>>
  BY <1>2 DEF IInv, InputTypeOK, WorkInv, Pushing, InHand, Labels, PushCheck, Goto, Threads,
     padVars, flagVars, ringVars, engineVars
<1> QED BY <1>1, <1>2 DEF PushCheck

\* It writes the event at the head it has read.
LEMMA PushWriteKeeps ==
    ASSUME IInv, NEW t \in Pollers, PushWrite(t)
    PROVE  IInv'
<1>1. Head(todo[t]) \in AndroidEvents
  BY DEF IInv, InputTypeOK, WorkInv, Pushing, InHand, Labels, PushWrite, Threads
<1>2. g_input_queue' \in [Index -> AndroidEvents \cup {None}]
  BY <1>1 DEF IInv, InputTypeOK, PushWrite
<1> QED
  BY <1>2 DEF IInv, InputTypeOK, WorkInv, Pushing, InHand, Labels, PushWrite, Goto, Threads,
     padVars, flagVars, engineVars, pastVars

\* It stores the next head, from the value read or a newer one.
LEMMA PushAdvanceKeeps ==
    ASSUME IInv, NEW t \in Pollers, PushAdvance(t)
    PROVE  IInv'
<1>1. g_input_head' \in Index
  BY SuccIndex DEF IInv, InputTypeOK, PushAdvance, Threads
<1>2. /\ UNCHANGED <<sdl, made, pad, pressed, down, g_aim_active>>
      /\ UNCHANGED <<g_input_queue, g_input_tail, g_current_event, engineSees>>
      /\ UNCHANGED <<head, dropped, overlapped, quit>>
      /\ sdl' = sdl /\ made' = made /\ taken' = taken /\ g_current_event' = g_current_event
      /\ at[t] \in Pushing /\ t \in Threads /\ NextEvent(t) /\ balance' = balance + 1
  BY DEF PushAdvance, Pushing, Threads, padVars, flagVars, engineVars
<1>3. WorkInv' /\ TodoTypeOK'
  BY <1>2, NextEventKeeps
<1> QED BY <1>1, <1>2, <1>3 DEF IInv, InputTypeOK, TodoTypeOK

\* The engine takes an event.
LEMMA GetEventKeeps ==
    ASSUME IInv, GetEvent
    PROVE  IInv'
<1>1. g_input_tail' \in Index
  BY SuccIndex DEF IInv, InputTypeOK, GetEvent
<1>2. g_current_event' \in Index /\ g_current_event' # None
  BY NoneAssumption DEF IInv, InputTypeOK, GetEvent, Index
<1> QED
  BY <1>1, <1>2 DEF IInv, InputTypeOK, WorkInv, Pushing, InHand, Labels, GetEvent, Goto,
     Threads, Engine,
     padVars, flagVars

\* The engine reads it through g_current_event.
LEMMA HandleKeeps ==
    ASSUME IInv, Handle
    PROVE  IInv'
<1> USE DEF IInv
<1> DEFINE e == g_input_queue[g_current_event]
<1>1. e \in AndroidEvents \cup {None}
  BY DEF InputTypeOK, WorkInv, Handle
<1>2. e # None /\ e.type = "key" => e.code \in Keys
  BY <1>1 DEF AndroidEvents, Key, Motion
<1>3. engineSees' \in SUBSET Keys
  BY <1>2 DEF InputTypeOK, Handle
<1> QED
  BY <1>3 DEF InputTypeOK, WorkInv, Pushing, InHand, Labels, Handle, Goto, Threads, Engine,
     padVars, flagVars, ringVars, pastVars

\* The engine finds nothing, or has finished its event.
LEMMA LoopKeeps ==
    ASSUME IInv, GetNone \/ Finish
    PROVE  IInv'
<1>1. CASE GetNone
  BY <1>1 DEF IInv, InputTypeOK, WorkInv, Pushing, InHand, Labels, GetNone, Goto,
     Threads, Engine,
     padVars, flagVars, ringVars, engineVars, pastVars
<1>2. CASE Finish
  BY <1>2 DEF IInv, InputTypeOK, WorkInv, Pushing, InHand, Labels, Finish, Goto, Threads,
     Engine,
     padVars, flagVars, ringVars, pastVars
<1> QED BY <1>1, <1>2

\* Every step keeps the invariant.
LEMMA StepKeeps ==
    ASSUME IInv, [Next]_vars
    PROVE  IInv'
<1>1. CASE \E e \in SdlEvents : Play(e)
  BY <1>1, PlayKeeps
<1>2. ASSUME NEW t \in Pollers, PollStep(t)
      PROVE  IInv'
  BY <1>2, TakeKeeps, PollKeeps, EndPollKeeps, PushReadKeeps, PushCheckKeeps,
     PushWriteKeeps, PushAdvanceKeeps DEF PollStep
<1>3. CASE EngineStep
  BY <1>3, GetEventKeeps, HandleKeeps, LoopKeeps DEF EngineStep
<1>4. CASE UNCHANGED vars
  BY <1>4 DEF IInv, InputTypeOK, WorkInv, Pushing, InHand, Labels, vars, padVars,
     flagVars, ringVars,
     engineVars, pastVars
<1> QED BY <1>1, <1>2, <1>3, <1>4 DEF Next

\* The indices and the work in progress, with both pollers (android_shim.c:60-96).
THEOREM Invariance == Spec => []IInv
<1>1. IInv /\ [Next]_vars => IInv'
  BY StepKeeps
<1> QED BY <1>1, InitHolds, PTL DEF Spec

\* The indices of the ring and the pointer to the current event stay inside the
\* array (android_shim.c:33-36), however the pushes of the two pollers interleave.
THEOREM TypeCorrect == Spec => []InputTypeOK
<1>1. IInv => InputTypeOK
  BY DEF IInv
<1> QED BY <1>1, Invariance, PTL

-----------------------------------------------------------------------------

OnePoller == \A t, u \in Pollers : t = u

\* What the poller has read is still so when it writes, and the tail has not
\* come round.
SoloInv ==
    /\ balance = Count
    /\ \A t \in Pollers :
          /\ at[t] \in {"check", "write", "advance"} => head[t] = g_input_head
          /\ at[t] \in {"write", "advance"} => Succ(head[t]) # g_input_tail

\* A step of the poller in its poll, or of the player, leaves the ring alone.
LEMMA SoloFrame ==
    ASSUME SoloInv, UNCHANGED <<ringVars, balance, head>>,
           \A t \in Pollers : at'[t] \in {"check", "write", "advance"} => at'[t] = at[t]
    PROVE  SoloInv'
  BY DEF SoloInv, Count, Succ, ringVars

\* The only poller takes an event: the head is where it was.
LEMMA SoloPoll ==
    ASSUME OnePoller, IInv, SoloInv, NEW t \in Pollers, PollStep(t)
    PROVE  SoloInv'
<1> t \in Threads
  BY DEF Threads
<1> at \in [Threads -> Labels]
  BY DEF IInv, InputTypeOK
<1> Pollers = {t}
  BY DEF OnePoller
<1>1. CASE TakeEvent(t) \/ Poll(t) \/ PollQuit(t) \/ PollNone(t)
  BY <1>1, SoloFrame DEF TakeEvent, Poll, PollQuit, PollNone, AfterPoll, Goto, pastVars
<1>2. CASE PushRead(t)
  BY <1>2 DEF SoloInv, Count, PushRead, Goto, ringVars, pastVars, IInv, InputTypeOK
<1>3. CASE PushCheck(t)
  BY <1>3 DEF SoloInv, Count, Succ, PushCheck, NextEvent, Goto, ringVars
<1>4. CASE PushWrite(t)
  BY <1>4 DEF SoloInv, Count, Succ, PushWrite, Goto, pastVars
<1>5. CASE PushAdvance(t)
  <2>1. /\ g_input_head \in Index /\ g_input_tail \in Index
        /\ head[t] = g_input_head /\ Succ(g_input_head) # g_input_tail
    BY <1>5 DEF IInv, InputTypeOK, SoloInv, PushAdvance
  <2>2. g_input_head' = Succ(g_input_head) /\ g_input_tail' = g_input_tail
    BY <1>5, <2>1 DEF PushAdvance
  <2>3. Count' = Count + 1
    <3>1. /\ Count = IF g_input_head >= g_input_tail
                       THEN g_input_head - g_input_tail
                       ELSE g_input_head - g_input_tail + MAX_INPUT_EVENTS
          /\ Count' = IF g_input_head' >= g_input_tail
                        THEN g_input_head' - g_input_tail
                        ELSE g_input_head' - g_input_tail + MAX_INPUT_EVENTS
      BY <2>1, <2>2, SuccIndex, CountIs DEF Count
    <3>2. g_input_head' = IF g_input_head = MAX_INPUT_EVENTS - 1 THEN 0 ELSE g_input_head + 1
      BY <2>1, <2>2, SuccIndex
    <3> QED BY <2>1, <2>2, <3>1, <3>2, SizeAssumption DEF Index
  <2>4. balance' = balance + 1 /\ at'[t] \in {"poll", "push"}
    BY <1>5 DEF PushAdvance, NextEvent, Goto
  <2> QED BY <2>3, <2>4 DEF SoloInv
<1> QED BY <1>1, <1>2, <1>3, <1>4, <1>5 DEF PollStep

\* What the engine does never touches the head.
LEMMA SoloEngine ==
    ASSUME IInv, SoloInv, EngineStep
    PROVE  SoloInv'
<1> Pollers \subseteq Threads /\ Engine \in Threads
  BY DEF Threads
<1> at \in [Threads -> Labels]
  BY DEF IInv, InputTypeOK
<1>1. CASE GetNone \/ Handle \/ Finish
  BY <1>1, SoloFrame DEF GetNone, Handle, Finish, Goto, pastVars, ringVars
<1>2. CASE GetEvent
  <2>1. /\ g_input_head \in Index /\ g_input_tail \in Index
        /\ g_input_head # g_input_tail /\ head' = head
        /\ g_input_head' = g_input_head /\ g_input_tail' = Succ(g_input_tail)
    BY <1>2 DEF IInv, InputTypeOK, GetEvent
  <2>2. Count' = Count - 1
    <3>1. /\ Count = IF g_input_head >= g_input_tail
                       THEN g_input_head - g_input_tail
                       ELSE g_input_head - g_input_tail + MAX_INPUT_EVENTS
          /\ Count' = IF g_input_head >= g_input_tail'
                        THEN g_input_head - g_input_tail'
                        ELSE g_input_head - g_input_tail' + MAX_INPUT_EVENTS
      BY <2>1, SuccIndex, CountIs DEF Count
    <3>2. g_input_tail' = IF g_input_tail = MAX_INPUT_EVENTS - 1 THEN 0 ELSE g_input_tail + 1
      BY <2>1, SuccIndex
    <3> QED BY <2>1, <3>1, <3>2, SizeAssumption DEF Index
  <2>3. balance' = balance - 1
    BY <1>2 DEF GetEvent
  <2>4. Succ(g_input_head) # Succ(g_input_tail)
    BY <2>1, SuccIndex, SizeAssumption DEF Index
  <2>5. \A t \in Pollers : at'[t] \in {"check", "write", "advance"} => at'[t] = at[t]
    BY <1>2 DEF GetEvent, Goto
  <2> QED BY <2>1, <2>2, <2>3, <2>4, <2>5 DEF SoloInv
<1> QED BY <1>1, <1>2 DEF EngineStep

\* With one thread that polls SDL, input_queue_push loses nothing that it accepted
\* (android_shim.c:60-66): the second poller alone is what input_two_pollers shows.
THEOREM OnePollerLosesNothing == ASSUME OnePoller PROVE Spec => []NothingLost
<1>1. Init => SoloInv
  BY SizeAssumption, CountIs DEF Init, SoloInv, Count, Index, Threads
<1>2. IInv /\ SoloInv /\ [Next]_vars => SoloInv'
  <2> SUFFICES ASSUME IInv, SoloInv, [Next]_vars PROVE SoloInv'
    OBVIOUS
  <2>1. CASE \E e \in SdlEvents : Play(e)
    BY <2>1, SoloFrame DEF Play, pastVars
  <2>2. CASE \E t \in Pollers : PollStep(t)
    BY <2>2, OnePoller, SoloPoll
  <2>3. CASE EngineStep
    BY <2>3, SoloEngine
  <2>4. CASE UNCHANGED vars
    BY <2>4, SoloFrame DEF vars, pastVars
  <2> QED BY <2>1, <2>2, <2>3, <2>4 DEF Next
<1>3. SoloInv => NothingLost
  BY DEF SoloInv, NothingLost
<1> QED BY <1>1, <1>2, <1>3, Invariance, PTL DEF Spec

-----------------------------------------------------------------------------
(***************************************************************************)
(* The ring as a queue, while the pollers take turns.                      *)
(***************************************************************************)

Slots == [Index -> AndroidEvents \cup {None}]

Distance(h, t) == (h - t + MAX_INPUT_EVENTS) % MAX_INPUT_EVENTS
Place(t, k) == (t + k - 1) % MAX_INPUT_EVENTS

\* What is in the ring from t up to h.
Slice(q, h, t) == [k \in 1 .. Distance(h, t) |-> q[Place(t, k)]]

\* The places in use, without the modulo.
LEMMA PlaceIs ==
    ASSUME NEW h \in Index, NEW t \in Index
    PROVE  /\ Distance(h, t) \in Index
           /\ Distance(h, t) = IF h >= t THEN h - t ELSE h - t + MAX_INPUT_EVENTS
           /\ \A k \in 1 .. MAX_INPUT_EVENTS :
                /\ Place(t, k) \in Index
                /\ Place(t, k) = IF t + k - 1 < MAX_INPUT_EVENTS
                                   THEN t + k - 1 ELSE t + k - 1 - MAX_INPUT_EVENTS
<1>1. /\ Distance(h, t) = IF h >= t THEN h - t ELSE h - t + MAX_INPUT_EVENTS
      /\ Distance(h, t) \in Index
  BY CountIs, SizeAssumption DEF Distance, Index
<1>2. ASSUME NEW k \in 1 .. MAX_INPUT_EVENTS
      PROVE  Place(t, k) = IF t + k - 1 < MAX_INPUT_EVENTS
                             THEN t + k - 1 ELSE t + k - 1 - MAX_INPUT_EVENTS
  <2>1. PICK s \in Nat : s = t + k - 1 /\ s < 2 * MAX_INPUT_EVENTS
    BY SizeAssumption DEF Index
  <2>2. s % MAX_INPUT_EVENTS
          = IF s < MAX_INPUT_EVENTS THEN s ELSE s - MAX_INPUT_EVENTS
    <3>1. CASE s < MAX_INPUT_EVENTS
      BY <2>1, <3>1, SizeAssumption
    <3>2. CASE ~(s < MAX_INPUT_EVENTS)
      <4>1. PICK d \in Index : s = d - 0 + MAX_INPUT_EVENTS
        BY <2>1, <3>2, SizeAssumption DEF Index
      <4>2. 0 \in Index /\ d >= 0
        BY SizeAssumption DEF Index
      <4>3. (d - 0 + MAX_INPUT_EVENTS) % MAX_INPUT_EVENTS = d - 0
        BY <4>2, CountIs
      <4>4. d - 0 = s - MAX_INPUT_EVENTS
        BY <4>1, SizeAssumption DEF Index
      <4>5. s % MAX_INPUT_EVENTS = s - MAX_INPUT_EVENTS
        BY <4>1, <4>3, <4>4, Zenon
      <4> QED BY <3>2, <4>5
    <3> QED BY <3>1, <3>2
  <2>3. Place(t, k) = s % MAX_INPUT_EVENTS
    BY <2>1 DEF Place
  <2>4. Place(t, k) = IF s < MAX_INPUT_EVENTS THEN s ELSE s - MAX_INPUT_EVENTS
    BY <2>2, <2>3, Zenon
  <2> QED BY <2>1, <2>4, SizeAssumption DEF Index
<1>3. ASSUME NEW k \in 1 .. MAX_INPUT_EVENTS
      PROVE  Place(t, k) \in Index
  BY <1>2, SizeAssumption DEF Index
<1> QED BY <1>1, <1>2, <1>3

\* What is in the ring is a sequence.
LEMMA SliceIs ==
    ASSUME NEW q \in Slots, NEW h \in Index, NEW t \in Index
    PROVE  /\ Slice(q, h, t) \in Seq(AndroidEvents \cup {None})
           /\ Len(Slice(q, h, t)) = Distance(h, t)
           /\ \A k \in 1 .. Distance(h, t) : Slice(q, h, t)[k] = q[Place(t, k)]
<1>1. /\ Distance(h, t) \in Nat
      /\ \A k \in 1 .. Distance(h, t) : k \in 1 .. MAX_INPUT_EVENTS
  BY PlaceIs, SizeAssumption DEF Index
<1>2. Slice(q, h, t) \in [1 .. Distance(h, t) -> AndroidEvents \cup {None}]
  BY <1>1, PlaceIs DEF Slice, Slots
<1> QED BY <1>1, <1>2 DEF Slice

\* The head moves on: the ring has one more event.
LEMMA SlicePut ==
    ASSUME NEW q \in Slots, NEW h \in Index, NEW t \in Index, Succ(h) # t
    PROVE  /\ Slice(q, Succ(h), t) = Append(Slice(q, h, t), q[h])
           /\ Distance(h, t) < MAX_INPUT_EVENTS - 1
<1> DEFINE S == AndroidEvents \cup {None}
           n == Distance(h, t)
           r == Append(Slice(q, h, t), q[h])
<1>1. Succ(h) \in Index /\ Succ(h) = IF h = MAX_INPUT_EVENTS - 1 THEN 0 ELSE h + 1
  BY SuccIndex
<1>2. n \in Nat /\ Distance(Succ(h), t) = n + 1 /\ n < MAX_INPUT_EVENTS - 1
  <2>1. /\ n = IF h >= t THEN h - t ELSE h - t + MAX_INPUT_EVENTS
        /\ Distance(Succ(h), t)
             = IF Succ(h) >= t THEN Succ(h) - t ELSE Succ(h) - t + MAX_INPUT_EVENTS
    BY <1>1, PlaceIs
  <2> HIDE DEF n
  <2> QED BY <1>1, <2>1, SizeAssumption DEF Index
<1>3. Place(t, n + 1) = h
  <2>1. n + 1 \in 1 .. MAX_INPUT_EVENTS
    BY <1>2, SizeAssumption
  <2>2. n = IF h >= t THEN h - t ELSE h - t + MAX_INPUT_EVENTS
    BY PlaceIs
  <2>3. Place(t, n + 1) = IF t + (n + 1) - 1 < MAX_INPUT_EVENTS
                            THEN t + (n + 1) - 1 ELSE t + (n + 1) - 1 - MAX_INPUT_EVENTS
    BY <2>1, PlaceIs
  <2> HIDE DEF n
  <2> QED BY <2>1, <2>2, <2>3, SizeAssumption DEF Index
<1>4. /\ Slice(q, h, t) \in Seq(S) /\ Len(Slice(q, h, t)) = n
      /\ \A k \in 1 .. n : Slice(q, h, t)[k] = q[Place(t, k)]
  BY SliceIs
<1>5. /\ Slice(q, Succ(h), t) \in Seq(S) /\ Len(Slice(q, Succ(h), t)) = n + 1
      /\ \A k \in 1 .. n + 1 : Slice(q, Succ(h), t)[k] = q[Place(t, k)]
  <2>1. /\ Slice(q, Succ(h), t) \in Seq(S)
        /\ Len(Slice(q, Succ(h), t)) = Distance(Succ(h), t)
        /\ \A k \in 1 .. Distance(Succ(h), t) :
             Slice(q, Succ(h), t)[k] = q[Place(t, k)]
    BY <1>1, SliceIs
  <2> QED BY <1>2, <2>1
<1>6. /\ r \in Seq(S) /\ Len(r) = n + 1 /\ r[n + 1] = q[h]
      /\ \A k \in 1 .. n : r[k] = Slice(q, h, t)[k]
  <2>1. q[h] \in S
    BY DEF Slots
  <2> HIDE DEF S
  <2> QED BY <1>4, <2>1, AppendProperties
<1> HIDE DEF r, S, n
<1>7. ASSUME NEW k \in 1 .. n + 1 PROVE Slice(q, Succ(h), t)[k] = r[k]
  <2>1. CASE k = n + 1
    BY <2>1, <1>3, <1>5, <1>6
  <2>2. CASE k # n + 1
    <3>1. k \in 1 .. n
      BY <2>2, <1>2
    <3> QED BY <3>1, <1>4, <1>5, <1>6
  <2> QED BY <2>1, <2>2
<1>8. Slice(q, Succ(h), t) = r
  BY <1>5, <1>6, <1>7, SeqEqual
<1> QED BY <1>2, <1>8 DEF r, n

\* The tail moves on: the ring has lost its first event.
LEMMA SliceTake ==
    ASSUME NEW q \in Slots, NEW h \in Index, NEW t \in Index, h # t
    PROVE  /\ Slice(q, h, t) # <<>> /\ Head(Slice(q, h, t)) = q[t]
           /\ Slice(q, h, Succ(t)) = Tail(Slice(q, h, t))
<1> DEFINE S == AndroidEvents \cup {None}
           n == Distance(h, t)
           s == Slice(q, h, t)
           r == Slice(q, h, Succ(t))
<1>1. Succ(t) \in Index /\ Succ(t) = IF t = MAX_INPUT_EVENTS - 1 THEN 0 ELSE t + 1
  BY SuccIndex
<1>2. n \in Nat \ {0} /\ Distance(h, Succ(t)) = n - 1 /\ n < MAX_INPUT_EVENTS
  <2>1. /\ n = IF h >= t THEN h - t ELSE h - t + MAX_INPUT_EVENTS
        /\ Distance(h, Succ(t))
             = IF h >= Succ(t) THEN h - Succ(t) ELSE h - Succ(t) + MAX_INPUT_EVENTS
    BY <1>1, PlaceIs
  <2> HIDE DEF n
  <2> QED BY <1>1, <2>1, SizeAssumption DEF Index
<1>3. s \in Seq(S) /\ Len(s) = n /\ \A k \in 1 .. n : s[k] = q[Place(t, k)]
  BY SliceIs
<1>4. r \in Seq(S) /\ Len(r) = n - 1 /\ \A k \in 1 .. n - 1 : r[k] = q[Place(Succ(t), k)]
  <2>1. /\ r \in Seq(S) /\ Len(r) = Distance(h, Succ(t))
        /\ \A k \in 1 .. Distance(h, Succ(t)) : r[k] = q[Place(Succ(t), k)]
    BY <1>1, SliceIs
  <2> QED BY <1>2, <2>1
<1>5. ASSUME NEW k \in 1 .. n - 1 PROVE Place(Succ(t), k) = Place(t, k + 1)
  <2>1. k \in 1 .. MAX_INPUT_EVENTS /\ k + 1 \in 1 .. MAX_INPUT_EVENTS
    BY <1>2, SizeAssumption
  <2>2. /\ Place(Succ(t), k)
             = IF Succ(t) + k - 1 < MAX_INPUT_EVENTS
                 THEN Succ(t) + k - 1 ELSE Succ(t) + k - 1 - MAX_INPUT_EVENTS
        /\ Place(t, k + 1)
             = IF t + (k + 1) - 1 < MAX_INPUT_EVENTS
                 THEN t + (k + 1) - 1 ELSE t + (k + 1) - 1 - MAX_INPUT_EVENTS
    BY <1>1, <2>1, PlaceIs
  <2> HIDE DEF n
  <2> QED BY <1>1, <1>2, <2>1, <2>2, SizeAssumption DEF Index
<1>6. Place(t, 1) = t
  BY PlaceIs, SizeAssumption DEF Index
<1> HIDE DEF n, s, r, S
<1>7. s # <<>>
  BY <1>2, <1>3, EmptySeq
<1>8. Head(s) = q[t]
  BY <1>2, <1>3, <1>6, <1>7
<1>9. /\ Tail(s) \in Seq(S) /\ Len(Tail(s)) = n - 1
      /\ \A k \in 1 .. n - 1 : Tail(s)[k] = s[k + 1]
  BY <1>3, <1>7, HeadTailProperties
<1>10. \A k \in 1 .. n - 1 : r[k] = Tail(s)[k]
  <2> SUFFICES ASSUME NEW k \in 1 .. n - 1 PROVE r[k] = Tail(s)[k]
    OBVIOUS
  <2>1. k + 1 \in 1 .. n
    BY <1>2
  <2> QED BY <2>1, <1>3, <1>4, <1>5, <1>9
<1>11. r = Tail(s)
  BY <1>4, <1>9, <1>10, SeqEqual
<1> QED BY <1>7, <1>8, <1>11 DEF s, r

\* A write at the head is not seen before the head moves.
LEMMA SliceWrite ==
    ASSUME NEW q \in Slots, NEW h \in Index, NEW t \in Index,
           NEW p \in Slots, \A i \in Index \ {h} : p[i] = q[i]
    PROVE  Slice(p, h, t) = Slice(q, h, t)
<1>1. ASSUME NEW k \in 1 .. Distance(h, t) PROVE p[Place(t, k)] = q[Place(t, k)]
  <2>1. k \in 1 .. MAX_INPUT_EVENTS
    BY PlaceIs, SizeAssumption DEF Index
  <2>2. /\ Place(t, k) \in Index
        /\ Place(t, k) = IF t + k - 1 < MAX_INPUT_EVENTS
                           THEN t + k - 1 ELSE t + k - 1 - MAX_INPUT_EVENTS
        /\ Distance(h, t) = IF h >= t THEN h - t ELSE h - t + MAX_INPUT_EVENTS
    BY <2>1, PlaceIs
  <2>3. Place(t, k) # h
    BY <2>2, SizeAssumption DEF Index
  <2> QED BY <2>2, <2>3 DEF Slots
<1> QED BY <1>1 DEF Slice

\* What is to be pushed, and what is worked on, says where the threads are.
StageInv ==
    /\ \A t \in Threads : todo[t] # <<>> => at[t] \in Pushing /\ t \in Pollers
    /\ \A t \in Threads : taken[t] # None => t \in Pollers
    /\ g_current_event # None => at[Engine] \in {"handle", "finish"}

\* It has no event of SDL's, nor one to push.
Idle(t) == todo[t] = <<>> /\ taken[t] = None

\* One thread at a time has an event in hand; the head it has read is the head, and its
\* slot is free, not that of the current event, which is the one before the tail.
TurnInv ==
    /\ \A t, u \in Threads : ~Idle(t) /\ ~Idle(u) => t = u
    /\ \A t \in Threads :
          /\ at[t] \in {"check", "write", "advance"} => head[t] = g_input_head
          /\ at[t] \in {"write", "advance"} => Succ(g_input_head) # g_input_tail
          /\ at[t] = "advance" => g_input_queue[g_input_head] = Head(todo[t])
    /\ g_current_event # None =>
          Succ(g_current_event) = g_input_tail /\ Current \in AndroidEvents
    /\ Queued \in Seq(AndroidEvents)

FifoInv == StageInv /\ (~overlapped => TurnInv)

LEMMA QueuedIs ==
    /\ Queued = Slice(g_input_queue, g_input_head, g_input_tail)
    /\ Queued' = Slice(g_input_queue', g_input_head', g_input_tail')
  BY DEF Queued, Count, Slice, Distance, Place

\* The steps after which nobody has more or less to push, or to work on.
LEMMA StageFrame ==
    ASSUME StageInv, UNCHANGED <<taken, todo, g_current_event>>,
           \A t \in Threads : at[t] \in Pushing => at'[t] \in Pushing,
           at[Engine] \in {"handle", "finish"} => at'[Engine] \in {"handle", "finish"}
    PROVE  StageInv'
  BY DEF StageInv

\* Nobody pushes in its poll, nor the engine at work.
LEMMA StageSteps ==
    ASSUME IInv, StageInv, [Next]_vars
    PROVE  StageInv'
<1> Pollers \subseteq Threads /\ Engine \in Threads
  BY DEF Threads
<1> /\ at \in [Threads -> Labels] /\ todo \in [Threads -> Seq(AndroidEvents)]
    /\ taken \in [Threads -> SdlEvents \cup {None}]
    /\ \A t \in Threads : /\ at[t] \in Pushing => todo[t] # <<>>
                          /\ at[t] = "event" <=> taken[t] # None
    /\ at[Engine] \in {"handle", "finish"} => g_current_event # None
  BY DEF IInv, InputTypeOK, WorkInv
<1>1. CASE (\E e \in SdlEvents : Play(e)) \/ UNCHANGED vars
  BY <1>1, StageFrame DEF Play, engineVars, vars
<1>2. ASSUME NEW t \in Pollers, PollStep(t) PROVE StageInv'
  <2>1. CASE TakeEvent(t) \/ Poll(t) \/ PollQuit(t) \/ PollNone(t)
    <3>1. CASE UNCHANGED <<at, taken, todo, g_current_event>>
      BY <3>1, StageFrame
    <3>2. CASE UNCHANGED <<taken, todo, g_current_event>> /\ AfterPoll(t) /\ at[t] = "poll"
      BY <3>2, StageFrame DEF AfterPoll, Goto, Pushing
    <3>3. CASE /\ UNCHANGED g_current_event /\ at[t] = "event"
               /\ todo' = [todo EXCEPT ![t] = Emitted(taken[t])]
               /\ taken' = [taken EXCEPT ![t] = None]
               /\ Goto(t, IF Emitted(taken[t]) = <<>> THEN "poll" ELSE "push")
      BY <3>3 DEF StageInv, Goto, Pushing
    <3>4. CASE /\ UNCHANGED <<todo, g_current_event>> /\ at[t] = "poll" /\ Goto(t, "event")
               /\ taken' = [taken EXCEPT ![t] = Head(sdl)]
      BY <3>4 DEF StageInv, Goto, Pushing
    <3> QED
      BY <2>1, <3>1, <3>2, <3>3, <3>4 DEF TakeEvent, Poll, PollQuit, PollNone, engineVars
  <2>2. CASE PushRead(t) \/ PushWrite(t)
    BY <2>2, StageFrame DEF PushRead, PushWrite, Goto, Pushing, engineVars
  <2>3. CASE /\ UNCHANGED <<taken, todo, g_current_event>> /\ at[t] = "check"
             /\ Goto(t, "write")
    BY <2>3, StageFrame DEF Goto, Pushing
  <2>4. CASE NextEvent(t) /\ UNCHANGED <<taken, g_current_event>> /\ at[t] \in Pushing
    <3>1. todo[t] \in Seq(AndroidEvents) /\ todo[t] # <<>>
      BY <2>4
    <3>2. Len(todo[t]) = 1 => Tail(todo[t]) = <<>>
      BY <3>1, Rest
    <3> QED BY <2>4, <3>2 DEF NextEvent, Goto, Pushing, StageInv
  <2> QED
    BY <1>2, <2>1, <2>2, <2>3, <2>4 DEF PollStep, PushCheck, PushAdvance, Pushing,
       engineVars
<1>3. CASE EngineStep
  <2>1. CASE GetEvent
    BY <2>1 DEF GetEvent, Goto, StageInv, Pushing
  <2>2. CASE GetNone
    BY <2>2 DEF GetNone, Goto, StageInv, Pushing, engineVars
  <2>3. CASE Handle
    BY <2>3 DEF Handle, Goto, StageInv, Pushing
  <2>4. CASE Finish
    BY <2>4 DEF Finish, Goto, StageInv, Pushing
  <2> QED BY <1>3, <2>1, <2>2, <2>3, <2>4 DEF EngineStep
<1> QED BY <1>1, <1>2, <1>3 DEF Next

\* The ring and what is to be pushed stay, and nobody goes on with a push.
LEMMA TurnFrame ==
    ASSUME TurnInv, UNCHANGED <<ringVars, g_current_event, taken, todo, head>>,
           \A t \in Threads : at'[t] \in {"check", "write", "advance"} => at'[t] = at[t]
    PROVE  TurnInv' /\ UNCHANGED <<Queued, Current>>
<1>1. UNCHANGED <<Queued, Current>>
  BY DEF Queued, Current, Count, ringVars
<1> QED BY <1>1 DEF TurnInv, Idle, Succ, ringVars

\* What follows of WorkInv and StageInv for the thread that pushes.
LEMMA Turns ==
    ASSUME IInv, StageInv, TurnInv, NEW t \in Pollers, at[t] \in Pushing
    PROVE  /\ t \in Threads /\ todo[t] \in Seq(AndroidEvents) /\ todo[t] # <<>>
           /\ Head(todo[t]) \in AndroidEvents
           /\ taken[t] = None
           /\ \A u \in Threads \ {t} : Idle(u) /\ at[u] \notin Pushing
<1>1. t \in Threads /\ taken[t] = None
  BY DEF Threads, IInv, WorkInv, Pushing
<1>2. todo[t] \in Seq(AndroidEvents) /\ todo[t] # <<>>
  BY <1>1 DEF IInv, InputTypeOK, WorkInv
<1>3. ASSUME NEW u \in Threads \ {t} PROVE Idle(u) /\ at[u] \notin Pushing
  BY <1>1, <1>2 DEF TurnInv, Idle, IInv, WorkInv
<1> QED BY <1>1, <1>2, <1>3, HeadTailProperties

\* A thread that takes an event in its turn: all others have none in hand.
LEMMA TakeTurn ==
    ASSUME IInv, StageInv, TurnInv, NEW t \in Pollers, TakeEvent(t), ~overlapped'
    PROVE  /\ TurnInv' /\ UNCHANGED <<Queued, Current>>
           /\ \A u \in Threads : Idle(u) /\ todo'[u] = <<>> /\ (u # t => taken'[u] = None)
<1> t \in Threads /\ Pollers \subseteq Threads
  BY DEF Threads
<1>1. /\ at \in [Threads -> Labels] /\ taken \in [Threads -> SdlEvents \cup {None}]
      /\ \A u \in Threads : at[u] = "event" <=> taken[u] # None
  BY DEF IInv, InputTypeOK, WorkInv
<1>2. /\ at[t] = "poll" /\ UNCHANGED <<ringVars, g_current_event, todo, head>>
      /\ at' = [at EXCEPT ![t] = "event"] /\ taken' = [taken EXCEPT ![t] = Head(sdl)]
  BY DEF TakeEvent, Goto, engineVars
<1>3. ASSUME NEW u \in Threads PROVE Idle(u)
  <2>1. u \in Pollers \ {t} => at[u] \notin InHand
    BY DEF TakeEvent
  <2>2. at[u] \in Pushing \/ at[u] = "event" => u \in Pollers \ {t}
    BY <1>1, <1>2, <1>3 DEF StageInv, Pushing, IInv, WorkInv, InputTypeOK, Threads, Engine
  <2> QED BY <1>1, <2>1, <2>2 DEF StageInv, InHand, Idle
<1>4. \A u \in Threads : todo'[u] = <<>> /\ (u # t => taken'[u] = None)
  BY <1>1, <1>2, <1>3 DEF Idle
<1>5. \A u \in Threads : at'[u] \in {"check", "write", "advance"} => at'[u] = at[u]
  BY <1>1, <1>2
<1>6. UNCHANGED <<Queued, Current>>
  BY <1>2 DEF Queued, Current, Count, ringVars
<1>7. TurnInv'
  BY <1>2, <1>4, <1>5, <1>6 DEF TurnInv, Idle, Succ, ringVars
<1> QED BY <1>3, <1>4, <1>6, <1>7

\* It has events to push for it: all others still have none in hand.
LEMMA PollTurn ==
    ASSUME IInv, StageInv, TurnInv, NEW t \in Pollers, Poll(t)
    PROVE  /\ TurnInv' /\ UNCHANGED <<Queued, Current>>
           /\ todo[t] = <<>> /\ \A u \in Threads \ {t} : Idle(u) /\ Idle(u)'
<1> t \in Threads /\ Pollers \subseteq Threads
  BY DEF Threads
<1>1. /\ at \in [Threads -> Labels] /\ todo \in [Threads -> Seq(AndroidEvents)]
      /\ taken \in [Threads -> SdlEvents \cup {None}]
  BY DEF IInv, InputTypeOK
<1>2. /\ at[t] = "event" /\ taken[t] # None /\ todo[t] = <<>>
      /\ UNCHANGED <<ringVars, g_current_event, head>>
  BY DEF Poll, engineVars, IInv, WorkInv, StageInv, Pushing
<1>3. \A u \in Threads \ {t} : Idle(u)
  BY <1>2 DEF TurnInv, Idle
<1>4. \/ UNCHANGED <<at, taken, todo>>
      \/ /\ todo' = [todo EXCEPT ![t] = Emitted(taken[t])]
         /\ taken' = [taken EXCEPT ![t] = None]
         /\ Goto(t, IF Emitted(taken[t]) = <<>> THEN "poll" ELSE "push")
  BY DEF Poll
<1>5. \A u \in Threads \ {t} : Idle(u)'
  BY <1>1, <1>3, <1>4 DEF Idle
<1>6. \A u \in Threads : at'[u] \in {"check", "write", "advance"} => at'[u] = at[u]
  BY <1>1, <1>2, <1>4 DEF Goto
<1>7. UNCHANGED <<Queued, Current>>
  BY <1>2 DEF Queued, Current, Count, ringVars
<1>8. \A u \in Threads : at[u] \notin {"check", "write", "advance"}
  BY <1>2, <1>3 DEF IInv, WorkInv, Idle, Pushing
<1>9. TurnInv'
  BY <1>2, <1>5, <1>6, <1>7, <1>8 DEF TurnInv, Succ, ringVars
<1> QED BY <1>2, <1>3, <1>5, <1>7, <1>9

\* input_queue_push, up to the store of the head, shows nothing to the engine.
LEMMA PushTurn ==
    ASSUME IInv, StageInv, TurnInv, NEW t \in Pollers,
           PushRead(t) \/ PushCheck(t) \/ PushWrite(t)
    PROVE  TurnInv' /\ UNCHANGED <<Queued, Current>>
<1> at[t] \in Pushing
  BY DEF PushRead, PushCheck, PushWrite, Pushing
<1>1. /\ t \in Threads /\ todo[t] \in Seq(AndroidEvents) /\ todo[t] # <<>>
      /\ taken' = taken /\ \A u \in Threads \ {t} : Idle(u) /\ at[u] \notin Pushing
  BY Turns DEF PushRead, PushCheck, PushWrite
<1>2. /\ at \in [Threads -> Labels] /\ todo \in [Threads -> Seq(AndroidEvents)]
      /\ head \in [Threads -> Index] /\ g_input_queue \in Slots
      /\ g_input_head \in Index /\ g_input_tail \in Index
      /\ g_current_event \in Index \cup {None}
  BY DEF IInv, InputTypeOK, Slots
<1>3. CASE PushRead(t)
  <2>1. /\ UNCHANGED <<ringVars, g_current_event, todo>>
        /\ head' = [head EXCEPT ![t] = g_input_head] /\ at' = [at EXCEPT ![t] = "check"]
    BY <1>3 DEF PushRead, engineVars, Goto
  <2>2. UNCHANGED <<Queued, Current>>
    BY <2>1 DEF Queued, Current, Count, ringVars
  <2>3. \A u \in Threads \ {t} : at'[u] \notin Pushing
    BY <1>1, <1>2, <2>1
  <2>4. at'[t] = "check" /\ head'[t] = g_input_head
    BY <1>1, <1>2, <2>1
  <2> QED BY <1>1, <2>1, <2>2, <2>3, <2>4 DEF TurnInv, Idle, Succ, ringVars, Pushing
<1>4. CASE PushCheck(t) /\ Goto(t, "write") /\ UNCHANGED todo /\ Succ(head[t]) # g_input_tail
  <2>1. /\ UNCHANGED <<ringVars, g_current_event, todo, head>>
        /\ at' = [at EXCEPT ![t] = "write"] /\ at[t] = "check"
    BY <1>4 DEF PushCheck, engineVars, Goto
  <2>2. UNCHANGED <<Queued, Current>>
    BY <2>1 DEF Queued, Current, Count, ringVars
  <2>3. \A u \in Threads \ {t} : at'[u] \notin Pushing
    BY <1>1, <1>2, <2>1
  <2>4. at'[t] = "write" /\ head[t] = g_input_head /\ Succ(g_input_head) # g_input_tail
    BY <1>1, <1>2, <1>4, <2>1 DEF TurnInv
  <2> QED BY <1>1, <2>1, <2>2, <2>3, <2>4 DEF TurnInv, Idle, Succ, ringVars, Pushing
<1>5. CASE PushCheck(t) /\ NextEvent(t)
  <2>1. /\ UNCHANGED <<ringVars, g_current_event, head>>
        /\ todo' = [todo EXCEPT ![t] = Tail(@)]
        /\ at' = [at EXCEPT ![t] = IF Len(todo[t]) = 1 THEN "poll" ELSE "push"]
    BY <1>5 DEF PushCheck, NextEvent, engineVars, Goto
  <2>2. UNCHANGED <<Queued, Current>>
    BY <2>1 DEF Queued, Current, Count, ringVars
  <2>3. \A u \in Threads : at'[u] \notin {"check", "write", "advance"}
    BY <1>1, <1>2, <2>1 DEF Pushing
  <2>4. \A u \in Threads \ {t} : Idle(u)'
    BY <1>1, <1>2, <2>1 DEF Idle
  <2> QED BY <2>1, <2>2, <2>3, <2>4 DEF TurnInv, Succ, ringVars
<1>6. CASE PushWrite(t)
  <2>1. /\ head[t] = g_input_head /\ Succ(g_input_head) # g_input_tail
    BY <1>1, <1>6 DEF TurnInv, PushWrite
  <2>2. /\ g_input_queue' = [g_input_queue EXCEPT ![g_input_head] = Head(todo[t])]
        /\ at' = [at EXCEPT ![t] = "advance"]
        /\ UNCHANGED <<g_input_head, g_input_tail, g_current_event, todo, head>>
    BY <1>6, <2>1 DEF PushWrite, engineVars, Goto
  <2>3. UNCHANGED Queued
    <3>1. Slice(g_input_queue', g_input_head, g_input_tail)
            = Slice(g_input_queue, g_input_head, g_input_tail)
      <4>1. /\ g_input_queue' \in Slots
            /\ \A i \in Index \ {g_input_head} : g_input_queue'[i] = g_input_queue[i]
        BY <1>1, <1>2, <2>2, HeadTailProperties DEF Slots
      <4> QED BY <1>2, <4>1, SliceWrite
    <3> QED BY <2>2, <3>1, QueuedIs
  <2>4. UNCHANGED Current
    <3>1. CASE g_current_event = None
      BY <3>1, <2>2 DEF Current
    <3>2. CASE g_current_event # None
      <4>1. g_current_event \in Index /\ g_current_event # g_input_head
        BY <1>2, <2>1, <3>2 DEF TurnInv
      <4> QED BY <1>2, <2>2, <4>1 DEF Current, Slots
    <3> QED BY <3>1, <3>2
  <2>5. \A u \in Threads \ {t} : at'[u] \notin Pushing
    BY <1>1, <1>2, <2>2
  <2>6. /\ at'[t] = "advance"
        /\ g_input_queue'[g_input_head] = Head(todo[t])
    BY <1>1, <1>2, <2>2 DEF Slots
  <2>7. /\ Succ(g_input_head)' = Succ(g_input_head)
        /\ Succ(g_current_event)' = Succ(g_current_event)
    BY <2>2 DEF Succ
  <2> QED BY <1>1, <2>1, <2>2, <2>3, <2>4, <2>5, <2>6, <2>7 DEF TurnInv, Idle, Pushing
<1> QED BY <1>3, <1>4, <1>5, <1>6 DEF PushCheck

\* The store of the head: the engine sees one event more.
LEMMA AdvanceTurn ==
    ASSUME IInv, StageInv, TurnInv, NEW t \in Pollers, PushAdvance(t)
    PROVE  /\ TurnInv' /\ UNCHANGED Current
           /\ Queued' = Append(Queued, Head(todo[t]))
           /\ Head(todo[t]) \in AndroidEvents /\ Len(Queued) < MAX_INPUT_EVENTS - 1
<1>1. at[t] = "advance" /\ at[t] \in Pushing
  BY DEF PushAdvance, Pushing
<1>2. /\ t \in Threads /\ todo[t] \in Seq(AndroidEvents) /\ todo[t] # <<>>
      /\ Head(todo[t]) \in AndroidEvents
      /\ \A u \in Threads \ {t} : Idle(u) /\ at[u] \notin Pushing
  BY <1>1, Turns
<1>3. /\ at \in [Threads -> Labels] /\ todo \in [Threads -> Seq(AndroidEvents)]
      /\ head \in [Threads -> Index] /\ g_input_queue \in Slots
      /\ g_input_head \in Index /\ g_input_tail \in Index
  BY DEF IInv, InputTypeOK, Slots
<1>4. /\ head[t] = g_input_head /\ Succ(g_input_head) # g_input_tail
      /\ g_input_queue[g_input_head] = Head(todo[t])
  BY <1>1, <1>2 DEF TurnInv
<1>5. /\ g_input_head' = Succ(g_input_head)
      /\ UNCHANGED <<g_input_queue, g_input_tail, g_current_event, taken, head>>
      /\ todo' = [todo EXCEPT ![t] = Tail(@)]
      /\ at' = [at EXCEPT ![t] = IF Len(todo[t]) = 1 THEN "poll" ELSE "push"]
  BY <1>4 DEF PushAdvance, NextEvent, Goto, engineVars
<1>6. Queued' = Append(Queued, Head(todo[t])) /\ Len(Queued) < MAX_INPUT_EVENTS - 1
  <2> DEFINE s == Slice(g_input_queue, g_input_head, g_input_tail)
  <2>1. /\ Slice(g_input_queue, Succ(g_input_head), g_input_tail)
             = Append(s, g_input_queue[g_input_head])
        /\ Distance(g_input_head, g_input_tail) < MAX_INPUT_EVENTS - 1
    BY <1>3, <1>4, SlicePut
  <2>2. Len(s) = Distance(g_input_head, g_input_tail)
    BY <1>3, SliceIs
  <2>3. Queued = s /\ Queued' = Slice(g_input_queue, Succ(g_input_head), g_input_tail)
    BY <1>5, QueuedIs
  <2> HIDE DEF s
  <2> QED BY <1>4, <2>1, <2>2, <2>3
<1>7. UNCHANGED Current
  BY <1>5 DEF Current
<1>8. \A u \in Threads : at'[u] \notin {"check", "write", "advance"}
  BY <1>2, <1>3, <1>5 DEF Pushing
<1>9. \A u \in Threads \ {t} : Idle(u)'
  BY <1>2, <1>3, <1>5 DEF Idle
<1>10. Queued' \in Seq(AndroidEvents)
  BY <1>2, <1>6, AppendProperties DEF TurnInv
<1>11. Succ(g_current_event)' = Succ(g_current_event)
  BY <1>5 DEF Succ
<1>12. TurnInv'
  BY <1>5, <1>7, <1>8, <1>9, <1>10, <1>11 DEF TurnInv
<1> QED BY <1>2, <1>6, <1>7, <1>12

\* AInputQueue_getEvent takes the first event of the queue.
LEMMA GetTurn ==
    ASSUME IInv, StageInv, TurnInv, GetEvent
    PROVE  /\ TurnInv' /\ Queued # <<>> /\ Queued' = Tail(Queued)
           /\ Current = None /\ Current' = Head(Queued) /\ Current' \in AndroidEvents
<1>1. /\ at \in [Threads -> Labels] /\ g_input_queue \in Slots
      /\ g_input_head \in Index /\ g_input_tail \in Index
      /\ Engine \in Threads
  BY DEF IInv, InputTypeOK, Slots, Threads
<1>2. /\ g_input_tail # g_input_head /\ at[Engine] = "drain"
      /\ g_current_event' = g_input_tail /\ g_input_tail' = Succ(g_input_tail)
      /\ at' = [at EXCEPT ![Engine] = "handle"]
      /\ UNCHANGED <<g_input_queue, g_input_head, taken, todo, head>>
  BY DEF GetEvent, Goto
<1>3. /\ Queued # <<>> /\ Head(Queued) = g_input_queue[g_input_tail]
      /\ Queued' = Tail(Queued)
  <2>1. Queued' = Slice(g_input_queue, g_input_head, Succ(g_input_tail))
    BY <1>2, QueuedIs
  <2> QED BY <1>1, <1>2, <2>1, SliceTake, QueuedIs
<1>4. Head(Queued) \in AndroidEvents /\ Queued' \in Seq(AndroidEvents)
  BY <1>3, HeadTailProperties DEF TurnInv
<1>5. g_current_event = None /\ Current = None
  BY <1>2 DEF StageInv, Current
<1>6. Current' = Head(Queued)
  BY <1>1, <1>2, <1>3, NoneAssumption DEF Current, Index
<1>7. \A t \in Threads : at'[t] \in {"check", "write", "advance"} => at'[t] = at[t]
  BY <1>1, <1>2
<1>8. ASSUME NEW t \in Threads, at'[t] \in {"write", "advance"}
      PROVE  Succ(g_input_head)' # g_input_tail'
  BY <1>1, <1>2, SuccIndex, SizeAssumption DEF Index, Succ
<1>9. Succ(g_current_event)' = g_input_tail'
  BY <1>2 DEF Succ
<1>10. TurnInv'
  BY <1>2, <1>4, <1>6, <1>7, <1>8, <1>9 DEF TurnInv, Idle
<1> QED BY <1>3, <1>4, <1>5, <1>6, <1>10

\* AInputQueue_finishEvent
LEMMA FinishTurn ==
    ASSUME IInv, StageInv, TurnInv, Finish
    PROVE  TurnInv' /\ UNCHANGED Queued /\ Current # None /\ Current' = None
<1>1. /\ g_current_event' = None /\ at' = [at EXCEPT ![Engine] = "drain"]
      /\ UNCHANGED <<g_input_queue, g_input_head, g_input_tail, taken, todo, head>>
      /\ at[Engine] = "finish" /\ at \in [Threads -> Labels]
  BY DEF Finish, Goto, ringVars, IInv, InputTypeOK
<1>2. g_current_event # None /\ Current # None
  BY <1>1, EventAssumption DEF TurnInv, IInv, WorkInv
<1>3. UNCHANGED Queued /\ Current' = None
  BY <1>1 DEF Queued, Count, Current
<1>4. \A t \in Threads : at'[t] \in {"check", "write", "advance"} => at'[t] = at[t]
  BY <1>1
<1>5. TurnInv'
  BY <1>1, <1>3, <1>4 DEF TurnInv, Idle, Succ
<1> QED BY <1>2, <1>3, <1>5

\* The other steps: the player's, the end of a poll, the engine's handler.
LEMMA OtherTurns ==
    ASSUME IInv, StageInv, TurnInv,
           \/ \E e \in SdlEvents : Play(e)
           \/ \E t \in Pollers : PollQuit(t) \/ PollNone(t)
           \/ GetNone \/ Handle \/ UNCHANGED vars
    PROVE  TurnInv' /\ UNCHANGED <<Queued, Current>>
<1> /\ at \in [Threads -> Labels] /\ Pollers \subseteq Threads /\ Engine \in Threads
  BY DEF IInv, InputTypeOK, Threads
<1>1. UNCHANGED <<ringVars, g_current_event, taken, todo, head>>
  BY DEF Play, PollQuit, PollNone, GetNone, Handle, vars, engineVars
<1>2. \A t \in Threads : at'[t] \in {"check", "write", "advance"} => at'[t] = at[t]
  <2>1. CASE at' = at
    BY <2>1
  <2>2. CASE \E u \in Threads, l \in {"poll", "drain", "finish"} : Goto(u, l)
    BY <2>2 DEF Goto
  <2>3. \/ at' = at
        \/ \E u \in Threads, l \in {"poll", "drain", "finish"} : Goto(u, l)
    BY DEF Play, PollQuit, PollNone, AfterPoll, GetNone, Handle, vars
  <2> QED BY <2>1, <2>2, <2>3
<1> QED BY <1>1, <1>2, TurnFrame

\* Every step that the pollers take in turn is one of the abstract queue, or none of
\* its business.
LEMMA TurnSteps ==
    ASSUME IInv, StageInv, TurnInv, [Next]_vars, ~overlapped'
    PROVE  TurnInv' /\ [Fifo!Next]_<<Queued, Current>>
<1>1. CASE \/ \E e \in SdlEvents : Play(e)
           \/ \E t \in Pollers : PollQuit(t) \/ PollNone(t)
           \/ GetNone \/ Handle \/ UNCHANGED vars
  BY <1>1, OtherTurns
<1>2. ASSUME NEW t \in Pollers, TakeEvent(t) \/ Poll(t)
      PROVE  TurnInv' /\ UNCHANGED <<Queued, Current>>
  BY <1>2, TakeTurn, PollTurn
<1>3. ASSUME NEW t \in Pollers, PushRead(t) \/ PushCheck(t) \/ PushWrite(t)
      PROVE  TurnInv' /\ UNCHANGED <<Queued, Current>>
  BY <1>3, PushTurn
<1>4. ASSUME NEW t \in Pollers, PushAdvance(t)
      PROVE  TurnInv' /\ Fifo!Next
  BY <1>4, AdvanceTurn DEF Fifo!Next, Fifo!Put
<1>5. CASE GetEvent
  BY <1>5, GetTurn DEF Fifo!Next, Fifo!Take
<1>6. CASE Finish
  BY <1>6, FinishTurn DEF Fifo!Next, Fifo!Done
<1> QED BY <1>1, <1>2, <1>3, <1>4, <1>5, <1>6 DEF Next, PollStep, EngineStep

LEMMA FifoInit == Init => FifoInv /\ Fifo!Init
<1> SUFFICES ASSUME Init PROVE FifoInv /\ Fifo!Init
  OBVIOUS
<1>1. /\ g_current_event = None /\ g_input_head = 0 /\ g_input_tail = 0
      /\ \A t \in Threads : Idle(t) /\ at[t] \in {"poll", "drain"}
  BY DEF Init, Idle
<1>2. 0 \in Index /\ Count = 0
  BY <1>1, SizeAssumption, CountIs DEF Count, Index
<1>3. Queued = <<>> /\ Current = None
  BY <1>1, <1>2 DEF Queued, Current
<1> QED BY <1>1, <1>3 DEF FifoInv, StageInv, TurnInv, Idle, Fifo!Init

\* Overlapping polls are never forgotten.
LEMMA OverlapStays == ASSUME [Next]_vars, ~overlapped' PROVE ~overlapped
  BY DEF Next, Play, PollStep, TakeEvent, Poll, PollQuit, PollNone, PushRead, PushCheck,
     PushWrite, PushAdvance, EngineStep, GetEvent, GetNone, Handle, Finish, vars, pastVars

\* Where the threads are in a push and what the engine works on, and, while they take
\* turns, whose slot is whose.
THEOREM FifoInvariance == Spec => []FifoInv
<1>1. IInv /\ FifoInv /\ [Next]_vars => FifoInv'
  BY StageSteps, TurnSteps, OverlapStays DEF FifoInv
<1> QED BY <1>1, FifoInit, Invariance, PTL DEF Spec

\* While the pollers take turns the ring of any size is a bounded queue: events come
\* out in order and once, and the engine's event is not written before it is finished
\* (android_shim.c:60-96).
THEOREM EventsInOrder == Spec => ImplementsFifo
<1>1. IInv /\ FifoInv /\ [Next]_vars => [overlapped' \/ Fifo!Next]_<<Queued, Current>>
  BY TurnSteps, OverlapStays DEF FifoInv
<1> QED BY <1>1, FifoInit, Invariance, FifoInvariance, PTL DEF Spec, ImplementsFifo

-----------------------------------------------------------------------------
(***************************************************************************)
(* What the engine believes once all that is under way has reached it.     *)
(***************************************************************************)

\* The keys that an event of SDL or of Android reports as pressed, as released.
Downs(x) ==
    IF x.type = "key" THEN IF x.action = "DOWN" THEN {x.code} ELSE {}
    ELSE IF x.type \in {"button", "trigger"} THEN IF x.on THEN {x.of} ELSE {}
    ELSE {}
Ups(x) ==
    IF x.type = "key" THEN IF x.action = "DOWN" THEN {} ELSE {x.code}
    ELSE IF x.type \in {"button", "trigger"} THEN IF x.on THEN {} ELSE {x.of}
    ELSE {}

\* The keys down after an event, and after a sequence of them: the last word counts.
Apply(S, x) == {k \in Keys : k \in Downs(x) \/ (k \in S /\ k \notin Ups(x))}
After(S, q) ==
    {k \in Keys :
       \/ k \in S /\ \A i \in 1 .. Len(q) : k \notin Ups(q[i])
       \/ \E i \in 1 .. Len(q) : /\ k \in Downs(q[i])
                                 /\ \A j \in i + 1 .. Len(q) : k \notin Ups(q[j])}

LEMMA AfterNone == ASSUME NEW S \in SUBSET Keys PROVE After(S, <<>>) = S
  BY DEF After

\* One event more at the end.
LEMMA AfterAppend ==
    ASSUME NEW S, NEW T, NEW q \in Seq(T), NEW x \in T
    PROVE  After(S, Append(q, x)) = Apply(After(S, q), x)
<1> DEFINE r == Append(q, x)
           n == Len(q)
<1>1. n \in Nat /\ Len(r) = n + 1 /\ r[n + 1] = x /\ \A i \in 1 .. n : r[i] = q[i]
  BY AppendProperties, LenProperties
<1> HIDE DEF r, n
<1>2. ASSUME NEW k \in Keys PROVE k \in After(S, r) <=> k \in Apply(After(S, q), x)
  <2>1. (\A i \in 1 .. Len(r) : k \notin Ups(r[i]))
          <=> (\A i \in 1 .. n : k \notin Ups(q[i])) /\ k \notin Ups(x)
    BY <1>1
  <2>2. (\E i \in 1 .. Len(r) : /\ k \in Downs(r[i])
                                /\ \A j \in i + 1 .. Len(r) : k \notin Ups(r[j]))
          <=> \/ k \in Downs(x)
              \/ /\ k \notin Ups(x)
                 /\ \E i \in 1 .. n : /\ k \in Downs(q[i])
                                      /\ \A j \in i + 1 .. n : k \notin Ups(q[j])
    <3>1. ASSUME NEW i \in 1 .. n
          PROVE  (\A j \in i + 1 .. Len(r) : k \notin Ups(r[j]))
                   <=> k \notin Ups(x) /\ \A j \in i + 1 .. n : k \notin Ups(q[j])
      BY <1>1
    <3>2. \A j \in (n + 1) + 1 .. Len(r) : k \notin Ups(r[j])
      BY <1>1
    <3>3. 1 .. Len(r) = 1 .. n \cup {n + 1}
      BY <1>1
    <3> QED BY <1>1, <3>1, <3>2, <3>3
  <2> QED BY <2>1, <2>2 DEF After, Apply, n
<1> QED BY <1>2 DEF After, Apply, r

\* One event less at the front.
LEMMA AfterTail ==
    ASSUME NEW S, NEW T, NEW q \in Seq(T), q # <<>>
    PROVE  After(S, q) = After(Apply(S, Head(q)), Tail(q))
<1> DEFINE r == Tail(q)
           n == Len(q) - 1
           x == Head(q)
<1>1. /\ n \in Nat /\ Len(q) = n + 1 /\ Len(r) = n /\ q[1] = x
      /\ \A i \in 1 .. n : r[i] = q[i + 1]
  BY HeadTailProperties, EmptySeq
<1> HIDE DEF r, n, x
<1>2. ASSUME NEW k \in Keys PROVE k \in After(S, q) <=> k \in After(Apply(S, x), r)
  <2>1. ASSUME NEW i \in 0 .. n
        PROVE  (\A j \in (i + 1) + 1 .. n + 1 : k \notin Ups(q[j]))
                 <=> (\A j \in i + 1 .. n : k \notin Ups(r[j]))
    <3>1. ASSUME \A j \in (i + 1) + 1 .. n + 1 : k \notin Ups(q[j]), NEW j \in i + 1 .. n
          PROVE  k \notin Ups(r[j])
      <4>1. j + 1 \in (i + 1) + 1 .. n + 1 /\ j \in 1 .. n
        BY <1>1
      <4> QED BY <1>1, <3>1, <4>1
    <3>2. ASSUME \A j \in i + 1 .. n : k \notin Ups(r[j]),
                 NEW j \in (i + 1) + 1 .. n + 1
          PROVE  k \notin Ups(q[j])
      <4>1. PICK m \in i + 1 .. n : j = m + 1 /\ m \in 1 .. n
        BY <1>1
      <4> QED BY <1>1, <3>2, <4>1
    <3> QED BY <3>1, <3>2
  <2>2. (\A j \in (0 + 1) + 1 .. n + 1 : k \notin Ups(q[j]))
          <=> (\A j \in 0 + 1 .. n : k \notin Ups(r[j]))
    <3>1. 0 \in 0 .. n
      BY <1>1
    <3> QED BY <2>1, <3>1, Zenon
  <2>3. (\A j \in 1 .. n + 1 : k \notin Ups(q[j]))
          <=> k \notin Ups(x) /\ \A j \in 1 .. n : k \notin Ups(r[j])
    <3>1. 1 .. n + 1 = {1} \cup (0 + 1) + 1 .. n + 1 /\ 0 + 1 .. n = 1 .. n
      BY <1>1
    <3> QED BY <1>1, <2>2, <3>1
  <2>4. (\E i \in 1 .. n + 1 : /\ k \in Downs(q[i])
                               /\ \A j \in i + 1 .. n + 1 : k \notin Ups(q[j]))
          <=> \/ k \in Downs(x) /\ \A j \in 1 .. n : k \notin Ups(r[j])
              \/ \E i \in 1 .. n : /\ k \in Downs(r[i])
                                   /\ \A j \in i + 1 .. n : k \notin Ups(r[j])
    <3> DEFINE P(i) == k \in Downs(q[i]) /\ \A j \in i + 1 .. n + 1 : k \notin Ups(q[j])
               R(i) == k \in Downs(r[i]) /\ \A j \in i + 1 .. n : k \notin Ups(r[j])
    <3>1. P(1) <=> k \in Downs(x) /\ \A j \in 1 .. n : k \notin Ups(r[j])
      <4>1. 1 + 1 .. n + 1 = (0 + 1) + 1 .. n + 1 /\ 0 + 1 .. n = 1 .. n
        BY <1>1
      <4> QED BY <1>1, <2>2, <4>1
    <3>2. ASSUME NEW i \in 1 .. n PROVE P(i + 1) <=> R(i)
      <4>1. i \in 0 .. n /\ i + 1 \in 1 .. n + 1
        BY <1>1
      <4> QED BY <1>1, <2>1, <4>1
    <3> HIDE DEF P, R
    <3>3. ASSUME NEW i \in 1 .. n + 1, P(i) PROVE P(1) \/ \E m \in 1 .. n : R(m)
      <4>1. CASE i = 1
        BY <3>3, <4>1
      <4>2. CASE i # 1
        <5>1. PICK m \in 1 .. n : i = m + 1
          BY <1>1, <4>2
        <5> QED BY <3>2, <3>3, <5>1
      <4> QED BY <4>1, <4>2
    <3>4. ASSUME NEW m \in 1 .. n, R(m) PROVE \E i \in 1 .. n + 1 : P(i)
      <4>1. m + 1 \in 1 .. n + 1
        BY <1>1
      <4> QED BY <3>2, <3>4, <4>1
    <3>5. 1 \in 1 .. n + 1
      BY <1>1
    <3>6. (\E i \in 1 .. n + 1 : P(i)) <=> P(1) \/ \E m \in 1 .. n : R(m)
      BY <3>3, <3>4, <3>5
    <3> QED BY <3>1, <3>6 DEF P, R
  <2>5. k \in After(S, q)
          <=> \/ k \in S /\ \A j \in 1 .. n + 1 : k \notin Ups(q[j])
              \/ \E i \in 1 .. n + 1 : /\ k \in Downs(q[i])
                                       /\ \A j \in i + 1 .. n + 1 : k \notin Ups(q[j])
    BY <1>1 DEF After
  <2>6. k \in After(Apply(S, x), r)
          <=> \/ k \in Apply(S, x) /\ \A j \in 1 .. n : k \notin Ups(r[j])
              \/ \E i \in 1 .. n : /\ k \in Downs(r[i])
                                   /\ \A j \in i + 1 .. n : k \notin Ups(r[j])
    BY <1>1 DEF After
  <2>7. k \in Apply(S, x) <=> k \in Downs(x) \/ (k \in S /\ k \notin Ups(x))
    BY DEF Apply
  <2> QED BY <2>3, <2>4, <2>5, <2>6, <2>7
<1> QED BY <1>2 DEF After, x, r

LEMMA AfterOne ==
    ASSUME NEW S \in SUBSET Keys, NEW x PROVE After(S, <<x>>) = Apply(S, x)
<1>1. <<>> \in Seq({x}) /\ x \in {x} /\ <<x>> = Append(<<>>, x)
  OBVIOUS
<1>2. \A q \in Seq({x}) : After(S, Append(q, x)) = Apply(After(S, q), x)
  BY <1>1, AfterAppend
<1> QED BY <1>1, <1>2, AfterNone, Zenon

LEMMA AfterTwo ==
    ASSUME NEW S \in SUBSET Keys, NEW x, NEW y
    PROVE  After(S, <<x, y>>) = Apply(Apply(S, x), y)
<1>1. /\ <<x>> \in Seq({x, y}) /\ y \in {x, y} /\ <<x, y>> = Append(<<x>>, y)
  OBVIOUS
<1>2. \A q \in Seq({x, y}) : After(S, Append(q, y)) = Apply(After(S, q), y)
  BY <1>1, AfterAppend
<1> QED BY <1>1, <1>2, AfterOne, Zenon

\* What the events say of the keys.
LEMMA KeySays ==
    ASSUME NEW d \in BOOLEAN, NEW k
    PROVE  /\ Downs(Key(d, k)) = IF d THEN {k} ELSE {}
           /\ Ups(Key(d, k)) = IF d THEN {} ELSE {k}
<1>1. CASE d
  BY <1>1 DEF Downs, Ups, Key
<1>2. CASE ~d
  BY <1>2 DEF Downs, Ups, Key
<1> QED BY <1>1, <1>2

LEMMA MotionSays ==
    ASSUME NEW a, NEW p PROVE Downs(Motion(a, p)) = {} /\ Ups(Motion(a, p)) = {}
  BY DEF Downs, Ups, Motion

LEMMA SdlSays ==
    ASSUME NEW e \in SdlEvents
    PROVE  /\ e.type \in {"button", "trigger", "stick", "quit"}
           /\ e.type = "button" => e.of \in Buttons
           /\ e.type = "trigger" => e.of \in Triggers
           /\ e.type \in {"button", "trigger"} =>
                /\ Downs(e) = IF e.on THEN {e.of} ELSE {}
                /\ Ups(e) = IF e.on THEN {} ELSE {e.of}
           /\ e.type \notin {"button", "trigger"} => Downs(e) = {} /\ Ups(e) = {}
<1>1. CASE e \in [type : {"button"}, of : Buttons, on : BOOLEAN]
  BY <1>1 DEF Downs, Ups
<1>2. CASE e \in [type : {"trigger"}, of : Triggers, on : BOOLEAN]
  BY <1>2 DEF Downs, Ups
<1>3. CASE e \in [type : {"stick"}, of : {"left", "right"}, on : BOOLEAN]
  BY <1>3 DEF Downs, Ups
<1>4. CASE e = [type |-> "quit"]
  BY <1>4 DEF Downs, Ups
<1> QED BY <1>1, <1>2, <1>3, <1>4 DEF SdlEvents

\* The events pushed for an SDL event say of the keys what it says, provided that
\* down is what the engine will believe of the triggers, as it is again afterwards.
LEMMA EmittedSays ==
    ASSUME NEW S \in SUBSET Keys, S \cap Triggers = down,
           NEW e \in SdlEvents, e.type # "quit", TriggersAfter(e)
    PROVE  /\ After(S, Emitted(e)) = Apply(S, e)
           /\ Apply(S, e) \cap Triggers = down'
<1>1. CASE e.type = "button"
  <2>1. /\ Emitted(e) = <<Key(e.on, e.of)>> /\ down' = down
        /\ e.of \in Buttons /\ e.on \in BOOLEAN /\ e.of \notin Triggers
    <3>1. e \in [type : {"button"}, of : Buttons, on : BOOLEAN]
      BY <1>1 DEF SdlEvents
    <3> QED BY <1>1, <3>1, KeyAssumption DEF Emitted, TriggersAfter, Triggers
  <2>2. Apply(S, Key(e.on, e.of)) = Apply(S, e)
    BY <1>1, <2>1, KeySays, SdlSays DEF Apply
  <2>3. Apply(S, e) \cap Triggers = S \cap Triggers
    BY <1>1, <2>1, SdlSays DEF Apply, Keys
  <2> QED BY <2>1, <2>2, <2>3, AfterOne
<1>2. CASE e.type = "trigger"
  <2>1. e.of \in Triggers /\ e.on \in BOOLEAN
    <3>1. e \in [type : {"trigger"}, of : Triggers, on : BOOLEAN]
      BY <1>2 DEF SdlEvents
    <3> QED BY <3>1
  <2>2. Apply(S, e) = IF e.on THEN S \cup {e.of} ELSE S \ {e.of}
    BY <1>2, <2>1, SdlSays DEF Apply, Keys
  <2>3. down' = IF e.on THEN down \cup {e.of} ELSE down \ {e.of}
    BY <1>2 DEF TriggersAfter
  <2>4. Apply(S, e) \cap Triggers = down'
    BY <2>1, <2>2, <2>3
  <2>5. Emitted(e) = OfTrigger(e)
    BY <1>2 DEF Emitted
  <2>6. CASE e.on = (e.of \in down)
    <3>1. Emitted(e) = <<>>
      BY <2>5, <2>6 DEF OfTrigger
    <3>2. e.of \in down <=> e.of \in S
      BY <2>1
    <3>3. CASE e.on
      <4>1. e.of \in S
        BY <2>6, <3>2, <3>3, Zenon
      <4> QED BY <2>2, <2>4, <3>1, <3>3, <4>1, AfterNone
    <3>4. CASE ~e.on
      <4>1. e.of \notin S
        BY <2>6, <3>2, <3>4, Zenon
      <4> QED BY <2>2, <2>4, <3>1, <3>4, <4>1, AfterNone
    <3> QED BY <3>3, <3>4
  <2>7. CASE ~(e.on = (e.of \in down))
    <3>1. Apply(S, Key(e.on, e.of)) = Apply(S, e)
      BY <1>2, <2>1, KeySays, SdlSays DEF Apply
    <3>2. CASE e.of = "L2"
      <4>1. Emitted(e) = <<Key(e.on, e.of)>>
        BY <2>5, <2>7, <3>2 DEF OfTrigger
      <4> QED BY <2>4, <3>1, <4>1, AfterOne
    <3>3. CASE e.of = "R2"
      <4>1. PICK a : Emitted(e) = <<Key(e.on, e.of), Motion(a, 1)>>
        BY <2>5, <2>7, <3>3 DEF OfTrigger
      <4>2. Apply(Apply(S, e), Motion(a, 1)) = Apply(S, e)
        BY MotionSays DEF Apply
      <4> QED BY <2>4, <3>1, <4>1, <4>2, AfterTwo
    <3> QED BY <2>1, <3>2, <3>3 DEF Triggers
  <2> QED BY <2>6, <2>7
<1>3. CASE e.type = "stick"
  <2>1. PICK a, p : Emitted(e) \in {<<>>, <<Motion(a, p)>>}
    BY <1>3 DEF Emitted, OfStick
  <2>2. Apply(S, e) = S /\ Apply(S, Motion(a, p)) = S
    BY <1>3, SdlSays, MotionSays DEF Apply
  <2>3. down' = down
    BY <1>3 DEF TriggersAfter
  <2> QED BY <2>1, <2>2, <2>3, AfterNone, AfterOne
<1> QED BY <1>1, <1>2, <1>3, SdlSays

\* What the engine will believe after the event it works on, then after the ring, the
\* events of the poll under way, the one it has taken, and those that SDL holds.
AfterWork == IF at[Engine] = "handle" THEN Apply(engineSees, Current) ELSE engineSees
AfterRing == After(AfterWork, Queued)
AfterPush(t) == After(AfterRing, todo[t])
AfterTaken(t) ==
    IF taken[t] = None THEN AfterPush(t) ELSE Apply(AfterPush(t), taken[t])
AfterPolls(t) == After(AfterTaken(t), sdl)

\* In the end it will believe what is so, and of the triggers what the poll's flags say.
Agree ==
    \A t \in Threads : (\A u \in Threads \ {t} : Idle(u)) =>
        AfterPolls(t) = pad /\ AfterPush(t) \cap Triggers = down

AgreeInv == Running /\ ~dropped /\ ~overlapped => Agree

LEMMA KeySets ==
    ASSUME InputTypeOK
    PROVE  /\ AfterWork \in SUBSET Keys /\ AfterRing \in SUBSET Keys
           /\ \A t \in Threads : /\ AfterPush(t) \in SUBSET Keys
                                 /\ AfterTaken(t) \in SUBSET Keys
  BY DEF AfterWork, AfterRing, AfterPush, AfterTaken, After, Apply, InputTypeOK

\* Nothing is polled, and what the engine has before it says what it said.
LEMMA AgreeFrame ==
    ASSUME Agree, AfterRing' = AfterRing, UNCHANGED <<taken, todo, sdl, pad, down>>
    PROVE  Agree'
  BY DEF Agree, AfterPolls, AfterTaken, AfterPush, Idle

\* SDL reports what the player does.
LEMMA AgreePlay ==
    ASSUME IInv, Agree, NEW e \in SdlEvents, Play(e), UNCHANGED <<Queued, Current>>
    PROVE  Agree'
<1>1. /\ sdl \in Seq(SdlEvents) /\ sdl' = Append(sdl, e) /\ pad \in SUBSET Keys
      /\ UNCHANGED <<at, engineSees, taken, todo, down>>
  BY DEF IInv, InputTypeOK, Play, engineVars, flagVars
<1>2. pad' = Apply(pad, e)
  BY <1>1, SdlSays DEF Play, Apply, Keys
<1>3. ASSUME NEW S PROVE After(S, sdl') = Apply(After(S, sdl), e)
  BY <1>1, AfterAppend
<1>4. \A t \in Threads : AfterPush(t)' = AfterPush(t) /\ AfterTaken(t)' = AfterTaken(t)
  BY <1>1 DEF AfterTaken, AfterPush, AfterRing, AfterWork
<1> QED BY <1>1, <1>2, <1>3, <1>4 DEF Agree, AfterPolls, Idle

\* The event at the front of SDL's queue is the poll's.
LEMMA AgreeTake ==
    ASSUME IInv, StageInv, TurnInv, Agree, NEW t \in Pollers, TakeEvent(t), ~overlapped'
    PROVE  Agree'
<1> DEFINE e == Head(sdl)
<1>1. /\ sdl \in Seq(SdlEvents) /\ sdl # <<>> /\ sdl' = Tail(sdl) /\ at[t] = "poll"
      /\ UNCHANGED <<pad, down, engineSees, todo>> /\ at \in [Threads -> Labels]
      /\ taken' = [taken EXCEPT ![t] = e] /\ taken \in [Threads -> SdlEvents \cup {None}]
      /\ t \in Threads
  BY DEF IInv, InputTypeOK, TakeEvent, flagVars, engineVars, Threads
<1>2. e # None
  BY <1>1, HeadTailProperties, EventAssumption
<1>3. /\ UNCHANGED <<Queued, Current>> /\ \A u \in Threads : Idle(u) /\ todo'[u] = <<>>
  BY TakeTurn
<1>4. AfterRing' = AfterRing
  BY <1>1, <1>3 DEF AfterRing, AfterWork, TakeEvent, Goto
<1>5. \A u \in Threads : AfterPush(u)' = AfterPush(t) /\ AfterTaken(u) = AfterPush(t)
  BY <1>1, <1>3, <1>4 DEF AfterPush, AfterTaken, Idle
<1>6. AfterPolls(t) = pad /\ AfterPush(t) \cap Triggers = down
  BY <1>1, <1>3 DEF Agree
<1>7. After(AfterPush(t), sdl) = After(Apply(AfterPush(t), e), Tail(sdl))
  BY <1>1, AfterTail
<1> HIDE DEF e
<1>8. ASSUME NEW u \in Threads, \A v \in Threads \ {u} : Idle(v)'
      PROVE  u = t
  BY <1>1, <1>2, <1>8 DEF Idle
<1>9. AfterTaken(t)' = Apply(AfterPush(t), e)
  BY <1>1, <1>2, <1>5 DEF AfterTaken
<1>10. AfterPolls(t)' = pad
  BY <1>1, <1>5, <1>6, <1>7, <1>9 DEF AfterPolls
<1> QED BY <1>1, <1>5, <1>6, <1>8, <1>10 DEF Agree

\* A poll turns an SDL event into Android events that say the same.
LEMMA AgreePoll ==
    ASSUME IInv, StageInv, TurnInv, Agree, NEW t \in Pollers, Poll(t), Running'
    PROVE  Agree'
<1> DEFINE e == taken[t]
<1>1. /\ e \in SdlEvents /\ e.type # "quit" /\ e # None
      /\ at[t] = "event" /\ UNCHANGED <<sdl, pad, engineSees>>
      /\ todo \in [Threads -> Seq(AndroidEvents)] /\ at \in [Threads -> Labels]
      /\ taken \in [Threads -> SdlEvents \cup {None}] /\ t \in Threads
  BY DEF IInv, InputTypeOK, WorkInv, Poll, padVars, engineVars, Threads
<1>2. /\ todo' = [todo EXCEPT ![t] = Emitted(e)] /\ TriggersAfter(e)
      /\ taken' = [taken EXCEPT ![t] = None]
      /\ Goto(t, IF Emitted(e) = <<>> THEN "poll" ELSE "push")
  BY DEF Poll, Running
<1>3. /\ UNCHANGED <<Queued, Current>> /\ todo[t] = <<>>
      /\ \A u \in Threads \ {t} : Idle(u) /\ Idle(u)'
  BY PollTurn
<1> HIDE DEF e
<1>4. AfterWork' = AfterWork
  BY <1>1, <1>2, <1>3 DEF AfterWork, Goto
<1>5. AfterRing' = AfterRing /\ AfterRing \in SUBSET Keys
  BY <1>3, <1>4, KeySets DEF AfterRing, IInv
<1>6. After(AfterRing, <<>>) = AfterRing
  BY <1>5, AfterNone
<1>7. After(Apply(AfterRing, e), sdl) = pad /\ AfterRing \cap Triggers = down
  BY <1>1, <1>3, <1>6 DEF Agree, AfterPolls, AfterTaken, AfterPush, e
<1>8. /\ After(AfterRing, Emitted(e)) = Apply(AfterRing, e)
      /\ Apply(AfterRing, e) \cap Triggers = down'
  BY <1>1, <1>2, <1>5, <1>7, EmittedSays
<1>9. ASSUME NEW u \in Threads, \A v \in Threads \ {u} : Idle(v)'
      PROVE  After(AfterRing, todo'[u]) = Apply(AfterRing, e) /\ taken'[u] = None
  <2>1. CASE u = t
    BY <1>1, <1>2, <1>8, <2>1
  <2>2. CASE u # t
    <3>1. todo'[u] = <<>> /\ taken'[u] = None /\ Emitted(e) = <<>>
      BY <1>1, <1>2, <1>3, <1>9, <2>2 DEF Idle
    <3> QED BY <3>1, <1>8
  <2> QED BY <2>1, <2>2
<1>10. ASSUME NEW u \in Threads, \A v \in Threads \ {u} : Idle(v)'
       PROVE  AfterPolls(u)' = pad' /\ AfterPush(u)' \cap Triggers = down'
  BY <1>1, <1>5, <1>7, <1>8, <1>9, <1>10 DEF AfterPolls, AfterTaken, AfterPush
<1> QED BY <1>10 DEF Agree

\* SDL_QUIT says nothing of the keys.
LEMMA AgreeQuit ==
    ASSUME IInv, Agree, NEW t \in Pollers, PollQuit(t), UNCHANGED <<Queued, Current>>
    PROVE  Agree'
<1>1. /\ sdl \in Seq(SdlEvents) /\ sdl # <<>> /\ sdl' = Tail(sdl) /\ Head(sdl).type = "quit"
      /\ UNCHANGED <<pad, down, engineSees, taken, todo>>
  BY DEF IInv, InputTypeOK, PollQuit, engineVars, flagVars
<1>2. at'[Engine] = "handle" <=> at[Engine] = "handle"
  BY DEF PollQuit, AfterPoll, Goto, IInv, InputTypeOK, Threads
<1>3. Head(sdl) \in SdlEvents
  BY <1>1, HeadTailProperties
<1>4. ASSUME NEW S \in SUBSET Keys PROVE After(S, sdl') = After(S, sdl)
  <2>1. Apply(S, Head(sdl)) = S
    BY <1>1, <1>3, SdlSays DEF Apply
  <2> QED BY <1>1, <2>1, AfterTail
<1>5. \A u \in Threads : /\ AfterPush(u)' = AfterPush(u)
                         /\ AfterTaken(u)' = AfterTaken(u) /\ AfterTaken(u) \in SUBSET Keys
  BY <1>1, <1>2, KeySets DEF AfterTaken, AfterPush, AfterRing, AfterWork, IInv
<1> QED BY <1>1, <1>4, <1>5 DEF Agree, AfterPolls, Idle

\* A push moves an event from the poll to the ring.
LEMMA AgreeAdvance ==
    ASSUME IInv, StageInv, TurnInv, Agree, NEW t \in Pollers, PushAdvance(t)
    PROVE  Agree'
<1> DEFINE x == Head(todo[t])
<1>1. /\ t \in Threads /\ todo[t] \in Seq(AndroidEvents) /\ todo[t] # <<>>
      /\ x \in AndroidEvents /\ taken[t] = None
      /\ \A u \in Threads \ {t} : Idle(u)
  BY Turns DEF PushAdvance, Pushing
<1>2. UNCHANGED Current /\ Queued' = Append(Queued, x) /\ Queued \in Seq(AndroidEvents)
  BY AdvanceTurn DEF TurnInv
<1>3. /\ todo' = [todo EXCEPT ![t] = Tail(@)] /\ todo \in [Threads -> Seq(AndroidEvents)]
      /\ UNCHANGED <<pad, sdl, down, engineSees, taken>>
  BY DEF PushAdvance, NextEvent, padVars, flagVars, engineVars, IInv, InputTypeOK
<1>4. at'[Engine] = "handle" <=> at[Engine] = "handle"
  BY DEF PushAdvance, NextEvent, Goto, IInv, InputTypeOK, Threads
<1> HIDE DEF x
<1>5. AfterWork' = AfterWork
  BY <1>2, <1>3, <1>4 DEF AfterWork
<1>6. AfterRing' = Apply(AfterRing, x) /\ AfterRing' \in SUBSET Keys
  BY <1>1, <1>2, <1>5, AfterAppend DEF AfterRing, Apply
<1>7. After(AfterRing', Tail(todo[t])) = AfterPush(t)
  BY <1>1, <1>6, AfterTail DEF AfterPush, x
<1>8. After(AfterRing', <<>>) = AfterRing'
  BY <1>6, AfterNone
<1>9. ASSUME NEW u \in Threads, \A v \in Threads \ {u} : Idle(v)'
      PROVE  After(AfterRing', todo'[u]) = AfterPush(t) /\ taken'[u] = None
  <2>1. CASE u = t
    BY <1>1, <1>3, <1>7, <2>1
  <2>2. CASE u # t
    <3>1. todo'[u] = <<>> /\ taken'[u] = None /\ Tail(todo[t]) = <<>>
      BY <1>1, <1>3, <1>9, <2>2 DEF Idle
    <3> QED BY <3>1, <1>7
  <2> QED BY <2>1, <2>2
<1>10. After(AfterPush(t), sdl) = pad /\ AfterPush(t) \cap Triggers = down
  BY <1>1 DEF Agree, AfterPolls, AfterTaken
<1> QED BY <1>3, <1>9, <1>10 DEF Agree, AfterPolls, AfterTaken, AfterPush

\* The engine takes an event out of the ring, and believes it.
LEMMA AgreeEngine ==
    ASSUME IInv, StageInv, TurnInv, Agree, GetEvent \/ Handle
    PROVE  Agree'
<1> at \in [Threads -> Labels] /\ Engine \in Threads
  BY DEF IInv, InputTypeOK, Threads
<1>1. CASE GetEvent
  <2>1. /\ Queued # <<>> /\ Queued' = Tail(Queued) /\ Current' = Head(Queued)
        /\ Queued \in Seq(AndroidEvents)
    BY <1>1, GetTurn DEF TurnInv
  <2>2. /\ UNCHANGED <<engineSees, taken, todo, sdl, pad, down>>
        /\ at[Engine] = "drain" /\ at'[Engine] = "handle"
    BY <1>1 DEF GetEvent, Goto, padVars, flagVars
  <2>3. AfterWork' = Apply(AfterWork, Head(Queued))
    BY <2>1, <2>2 DEF AfterWork
  <2>4. AfterRing' = AfterRing
    BY <2>1, <2>3, AfterTail DEF AfterRing
  <2> QED BY <2>2, <2>4, AgreeFrame
<1>2. CASE Handle
  <2>1. UNCHANGED <<Queued, Current>>
    BY <1>2, OtherTurns
  <2>2. /\ UNCHANGED <<taken, todo, sdl, pad, down>>
        /\ at[Engine] = "handle" /\ at'[Engine] = "finish"
    BY <1>2 DEF Handle, Goto, padVars, flagVars
  <2>3. g_current_event # None /\ Current \in AndroidEvents
        /\ Current = g_input_queue[g_current_event]
    BY <2>2 DEF TurnInv, IInv, WorkInv, Current
  <2>4. engineSees' = Apply(engineSees, Current)
    <3>1. engineSees \in SUBSET Keys
      BY DEF IInv, InputTypeOK
    <3>2. engineSees' = IF Current.type # "key" THEN engineSees
                        ELSE IF Current.action = "DOWN" THEN engineSees \cup {Current.code}
                        ELSE engineSees \ {Current.code}
      BY <1>2, <2>3, EventAssumption DEF Handle
    <3>3. CASE \E d \in BOOLEAN, k \in Keys : Current = Key(d, k)
      BY <3>1, <3>2, <3>3 DEF Key, Apply, Downs, Ups
    <3>4. CASE \E a, p : Current = Motion(a, p)
      BY <3>1, <3>2, <3>4 DEF Motion, Apply, Downs, Ups
    <3> QED BY <2>3, <3>3, <3>4 DEF AndroidEvents
  <2>5. AfterRing' = AfterRing
    BY <2>1, <2>2, <2>4 DEF AfterRing, AfterWork
  <2> QED BY <2>2, <2>5, AgreeFrame
<1> QED BY <1>1, <1>2

\* The steps that change neither what is under way nor what the engine believes.
LEMMA AgreeOther ==
    ASSUME IInv, StageInv, TurnInv, Agree, ~overlapped', Running', ~dropped',
           \/ \E t \in Pollers :
                 PollNone(t) \/ PushRead(t) \/ PushCheck(t) \/ PushWrite(t)
           \/ GetNone \/ Finish \/ UNCHANGED vars
    PROVE  Agree'
<1> at \in [Threads -> Labels] /\ Engine \in Threads /\ Pollers \subseteq Threads
  BY DEF IInv, InputTypeOK, Threads
<1>1. UNCHANGED <<sdl, pad, down, engineSees>>
  BY DEF PollNone, PushRead, PushCheck, PushWrite, GetNone, Finish, vars, padVars,
     flagVars, engineVars
<1>2. UNCHANGED <<taken, todo>>
  BY DEF PollNone, PushRead, PushCheck, PushWrite, GetNone, Finish, vars
<1>3. UNCHANGED Queued
  BY OtherTurns, PushTurn, FinishTurn
<1>4. AfterWork' = AfterWork
  <2>1. CASE Finish
    BY <1>1, <2>1 DEF Finish, Goto, AfterWork
  <2>2. CASE ~Finish
    <3>1. UNCHANGED Current
      BY <2>2, OtherTurns, PushTurn
    <3>2. at'[Engine] = "handle" <=> at[Engine] = "handle"
      BY <2>2, <1>2 DEF PollNone, AfterPoll, PushRead, PushCheck, PushWrite, GetNone, Goto,
         vars
    <3> QED BY <1>1, <3>1, <3>2 DEF AfterWork
  <2> QED BY <2>1, <2>2
<1>5. AfterRing' = AfterRing
  BY <1>3, <1>4 DEF AfterRing
<1> QED BY <1>1, <1>2, <1>5, AgreeFrame

\* Nor does the end of the program, or a dropped event.
LEMMA PastStays ==
    ASSUME [Next]_vars, Running', ~dropped' PROVE Running /\ ~dropped
  BY DEF Next, Play, PollStep, TakeEvent, Poll, PollQuit, PollNone, PushRead, PushCheck,
     PushWrite, PushAdvance, EngineStep, GetEvent, GetNone, Handle, Finish, vars, pastVars,
     Running

LEMMA AgreeSteps ==
    ASSUME IInv, FifoInv, AgreeInv, [Next]_vars
    PROVE  AgreeInv'
<1> SUFFICES ASSUME Running', ~dropped', ~overlapped' PROVE Agree'
  BY DEF AgreeInv
<1>1. StageInv /\ TurnInv /\ Agree
  BY PastStays, OverlapStays DEF FifoInv, AgreeInv
<1>2. ASSUME NEW e \in SdlEvents, Play(e) PROVE Agree'
  BY <1>1, <1>2, OtherTurns, AgreePlay
<1>3. ASSUME NEW t \in Pollers, TakeEvent(t) \/ Poll(t) PROVE Agree'
  BY <1>1, <1>3, AgreeTake, AgreePoll
<1>4. ASSUME NEW t \in Pollers, PollQuit(t) PROVE Agree'
  BY <1>1, <1>4, OtherTurns, AgreeQuit
<1>5. ASSUME NEW t \in Pollers, PushAdvance(t) PROVE Agree'
  BY <1>1, <1>5, AgreeAdvance
<1>6. CASE GetEvent \/ Handle
  BY <1>1, <1>6, AgreeEngine
<1>7. CASE \/ \E t \in Pollers :
                 PollNone(t) \/ PushRead(t) \/ PushCheck(t) \/ PushWrite(t)
           \/ GetNone \/ Finish \/ UNCHANGED vars
  BY <1>1, <1>7, AgreeOther
<1> QED BY <1>2, <1>3, <1>4, <1>5, <1>6, <1>7 DEF Next, PollStep, EngineStep

LEMMA AgreeInit == Init => AgreeInv
<1> SUFFICES ASSUME Init PROVE Agree
  BY DEF AgreeInv
<1>1. /\ sdl = <<>> /\ pad = {} /\ down = {} /\ engineSees = {}
      /\ g_input_head = 0 /\ g_input_tail = 0
      /\ \A t \in Threads : Idle(t) /\ at[t] \in {"poll", "drain"}
  BY DEF Init, Idle
<1>2. 0 \in Index /\ Count = 0
  BY <1>1, SizeAssumption, CountIs DEF Count, Index
<1>3. Queued = <<>>
  BY <1>1, <1>2 DEF Queued
<1>4. AfterWork = {}
  BY <1>1 DEF AfterWork, Threads
<1>5. After({}, <<>>) = {}
  BY AfterNone
<1> QED
  BY <1>1, <1>3, <1>4, <1>5 DEF Agree, AfterPolls, AfterTaken, AfterPush, AfterRing, Idle

\* While the pollers take turns and the ring has room, the game will in the end believe
\* to be down what is down (android_shim.c:199-305).
THEOREM BeliefsInvariance == Spec => []AgreeInv
<1>1. IInv /\ FifoInv /\ AgreeInv /\ [Next]_vars => AgreeInv'
  BY AgreeSteps
<1> QED BY <1>1, AgreeInit, Invariance, FifoInvariance, PTL DEF Spec

\* When nothing is under way any more, it does: no key hangs and none is missed, for any
\* buttons, any number of events and any size of the ring.
THEOREM KeysAgree == Spec => []EngineAgrees
<1>1. IInv /\ FifoInv /\ AgreeInv => EngineAgrees
  <2> SUFFICES ASSUME IInv, FifoInv, AgreeInv, Quiet, ~dropped, ~overlapped
               PROVE  engineSees = pad
    BY DEF EngineAgrees
  <2>1. Engine \in Threads
    BY DEF Threads
  <2>2. \A t \in Threads : Idle(t)
    BY DEF FifoInv, StageInv, IInv, WorkInv, Quiet, Pushing, Idle
  <2>3. AfterWork = engineSees
    BY DEF AfterWork, IInv, WorkInv, Quiet
  <2>4. Queued = <<>>
    BY DEF Queued, Quiet
  <2>5. After(engineSees, <<>>) = engineSees
    BY AfterNone DEF IInv, InputTypeOK
  <2>6. AfterPolls(Engine) = pad
    BY <2>1, <2>2 DEF AgreeInv, Agree, Quiet
  <2> QED
    BY <2>1, <2>2, <2>3, <2>4, <2>5, <2>6 DEF AfterPolls, AfterTaken, AfterPush, AfterRing,
       Idle, Quiet
<1> QED BY <1>1, Invariance, FifoInvariance, BeliefsInvariance, PTL
=============================================================================
