---------------------------- MODULE AudioPlayers ----------------------------
(***************************************************************************)
(* src/opensles_shim.c: audio players in a fixed table, each with a ring   *)
(* of bytes that bq_Enqueue fills and SDL's audio thread empties under     *)
(* g_audio_lock.  ALooper_pollAll pumps the players without that lock: it  *)
(* calls the application's buffer callback of every player that runs low.  *)
(*                                                                         *)
(* A section under the lock is one step.  A player is known to the         *)
(* application by the number of its creation; a queued byte carries the    *)
(* number of the player it was meant for and its half of a sample.  SDL    *)
(* and the application, callbacks included, are external.                  *)
(***************************************************************************)
EXTENDS Integers, Sequences

CONSTANTS
    MAX_PLAYERS,
    RING_BUFFER_SIZE,
    Threads,            \* threads of the application
    Pumper,             \* the one that calls ALooper_pollAll
    CHUNK,              \* samples SDL asks for at a time
    Sizes,              \* bytes of the buffers enqueued: whole samples
    MaxMade,            \* bound: players ever created
    MaxCalls,           \* bound: calls the application makes outside callbacks
    None

ASSUME PlayersAssumption == MAX_PLAYERS \in Nat \ {0}
ASSUME RingAssumption ==                \* the code masks: a power of two
    /\ RING_BUFFER_SIZE \in Nat \ {0} /\ RING_BUFFER_SIZE % 2 = 0
    /\ CHUNK \in Nat \ {0}
ASSUME AppAssumption ==
    /\ Pumper \in Threads
    /\ \A n \in Sizes : n \in Nat /\ n % 2 = 0
    /\ MaxMade \in Nat /\ MaxCalls \in Nat
ASSUME NoneAssumption == None \notin Nat

VARIABLES
    g_players,
    g_audio_device,     \* is SDL's device open
    live,               \* players the application has and did not destroy
    made,               \* calls of CreateAudioPlayer that succeeded
    calls,              \* calls of the application so far
    thread,             \* where each thread is
    raced,              \* slots changed by one thread while another was at work there
    overtaken,          \* players destroyed while another thread was at work there
    nullCall            \* a callback was called through NULL

playerVars == <<g_players, g_audio_device>>
appVars == <<live, made, overtaken>>
vars == <<playerVars, appVars, calls, thread, raced, nullCall>>

-----------------------------------------------------------------------------

Slots == 0 .. MAX_PLAYERS - 1
Index == 0 .. RING_BUFFER_SIZE - 1
Bytes == [of : 0 .. MaxMade, half : 0 .. 1]
Silence == [of |-> 0, half |-> 0]
Contexts == (1 .. MaxMade) \cup {None}

Player ==
    [in_use : BOOLEAN, playing : BOOLEAN, is_muted : BOOLEAN,
     bq_callback : Contexts, bq_context : Contexts,
     ring_head : Index, ring_tail : Index, ring : [Index -> Bytes]]

\* A slot after memset, and after obj_Destroy left the rest of it alone.
Blank ==
    [in_use |-> FALSE, playing |-> FALSE, is_muted |-> FALSE,
     bq_callback |-> None, bq_context |-> None,
     ring_head |-> 0, ring_tail |-> 0, ring |-> [i \in Index |-> Silence]]

Labels == {"idle", "scan", "call", "callback", "register"}
Idle == [at |-> "idle", slot |-> 0, pumping |-> FALSE, cb |-> None, ctx |-> None]

AudioTypeOK ==
    /\ g_players \in [Slots -> Player]
    /\ g_audio_device \in BOOLEAN
    /\ live \in SUBSET (Slots \X (1 .. MaxMade))
    /\ made \in 0 .. MaxMade /\ calls \in 0 .. MaxCalls
    /\ thread \in [Threads -> [at : Labels, slot : Slots, pumping : BOOLEAN,
                               cb : Contexts, ctx : Contexts]]
    /\ raced \in SUBSET Slots /\ overtaken \in SUBSET (Slots \X (1 .. MaxMade))
    /\ nullCall \in BOOLEAN

Init ==
    /\ g_players = [p \in Slots |-> Blank]
    /\ g_audio_device \in BOOLEAN       \* android_shim_init tried to open it
    /\ live = {} /\ made = 0 /\ calls = 0
    /\ thread = [t \in Threads |-> Idle]
    /\ raced = {} /\ overtaken = {} /\ nullCall = FALSE

-----------------------------------------------------------------------------

Mod(i) == i % RING_BUFFER_SIZE
Used(ps) == Mod(ps.ring_head - ps.ring_tail)
Free(ps) == Mod(ps.ring_tail - ps.ring_head - 1)
Least(a, b) == IF a < b THEN a ELSE b

\* raced grows when t looks at slot p while another thread is between the two writes
\* of a registration, or changes it while another thread will come back to it.
Other(t, p, where) == \E u \in Threads \ {t} : thread[u].slot = p /\ thread[u].at \in where
Busy == {"call", "callback", "register"}
Race(t, p, where) == raced' = IF Other(t, p, where) THEN raced \cup {p} ELSE raced
Look(t, p) == Race(t, p, {"register"})
Touch(t, p) == Race(t, p, Busy)

CanCall(t) == thread[t].at = "idle" /\ calls < MaxCalls

-----------------------------------------------------------------------------
(***************************************************************************)
(* The table of players.                                                   *)
(***************************************************************************)

\* opensles_shim_init tries again to open the device as long as it has none.
OpenDevice == g_audio_device' \in {g_audio_device, TRUE}

FreeSlots == {p \in Slots : ~g_players[p].in_use}

\* Mutant: in_use is not set.
CreateUnmarked(t) ==
    /\ CanCall(t) /\ made < MaxMade
    /\ OpenDevice
    /\ \E p \in FreeSlots :
         /\ \A q \in FreeSlots : p <= q
         /\ g_players' = [g_players EXCEPT ![p] = Blank]
         /\ live' = live \cup {<<p, made + 1>>}
         /\ Touch(t, p)
    /\ made' = made + 1
    /\ UNCHANGED <<overtaken, thread, nullCall>>

\* engine_CreateAudioPlayer takes the first slot that is not in use.
Create(t) ==
    /\ CanCall(t) /\ made < MaxMade
    /\ OpenDevice
    /\ \E p \in FreeSlots :
         /\ \A q \in FreeSlots : p <= q
         /\ g_players' = [g_players EXCEPT ![p] = [Blank EXCEPT !.in_use = TRUE]]
         /\ live' = live \cup {<<p, made + 1>>}
         /\ Touch(t, p)
    /\ made' = made + 1
    /\ UNCHANGED <<overtaken, thread, nullCall>>

\* Out of player slots: SL_RESULT_MEMORY_FAILURE, and *pPlayer stays as it was.
CreateNone(t) ==
    /\ CanCall(t) /\ FreeSlots = {}
    /\ OpenDevice
    /\ UNCHANGED <<g_players, appVars, thread, raced, nullCall>>

\* slCreateEngine and engine_CreateOutputMix hand out the one engine and the one mix.
CreateEngine(t) ==
    /\ CanCall(t)
    /\ OpenDevice
    /\ UNCHANGED <<g_players, appVars, thread, raced, nullCall>>

\* Mutant: the ring keeps what was not played.
DestroyedKeeps(ps) == [ps EXCEPT !.in_use = FALSE, !.playing = FALSE, !.bq_callback = None]

\* What obj_Destroy resets.
Destroyed(ps) ==
    [ps EXCEPT !.in_use = FALSE, !.playing = FALSE, !.ring_head = 0, !.ring_tail = 0,
               !.bq_callback = None]

Destroy(t, h) ==
    /\ CanCall(t)
    /\ g_players' = [g_players EXCEPT ![h[1]] = Destroyed(@)]
    /\ live' = live \ {h}
    /\ overtaken' = IF Other(t, h[1], Busy) THEN overtaken \cup {h} ELSE overtaken
    /\ Touch(t, h[1])
    /\ UNCHANGED <<g_audio_device, made, thread, nullCall>>

-----------------------------------------------------------------------------
(***************************************************************************)
(* The buffer queue, play and volume interfaces of a player.               *)
(***************************************************************************)

\* bq_RegisterCallback publishes the callback, and in a second write its context.
Register(t, h) ==
    /\ CanCall(t)
    /\ g_players' = [g_players EXCEPT ![h[1]].bq_callback = h[2]]
    /\ thread' = [thread EXCEPT ![t] = [Idle EXCEPT !.at = "register", !.slot = h[1],
                                                    !.ctx = h[2]]]
    /\ Touch(t, h[1])
    /\ UNCHANGED <<g_audio_device, appVars, nullCall>>

RegisterContext(t) ==
    /\ thread[t].at = "register"
    /\ g_players' = [g_players EXCEPT ![thread[t].slot].bq_context = thread[t].ctx]
    /\ thread' = [thread EXCEPT ![t] = Idle]
    /\ Touch(t, thread[t].slot)
    /\ UNCHANGED <<g_audio_device, appVars, nullCall>>

Clear(t, h) ==
    /\ CanCall(t)
    /\ g_players' = [g_players EXCEPT ![h[1]].ring_head = 0, ![h[1]].ring_tail = 0]
    /\ UNCHANGED <<g_audio_device, appVars, thread, raced, nullCall>>

Buffer(owner, size) == [i \in 1 .. size |-> [of |-> owner, half |-> (i + 1) % 2]]

\* Mutant: the ring is filled to the last byte.
WriteOver(ps, buffer) ==
    LET to_write == Least(Len(buffer), RING_BUFFER_SIZE - Used(ps))
        At(i) == Mod(i - ps.ring_head)
    IN  [ps EXCEPT !.ring_head = Mod(@ + to_write),
                   !.ring = [i \in Index |-> IF At(i) < to_write THEN buffer[At(i) + 1]
                                             ELSE @[i]]]

\* Mutant: the new head is not masked.
WriteUnmasked(ps, buffer) ==
    [ps EXCEPT !.ring_head = @ + Least(Len(buffer), Free(ps))]

\* What does not fit is cut off.
Write(ps, buffer) ==
    LET to_write == Least(Len(buffer), Free(ps))
        At(i) == Mod(i - ps.ring_head)
    IN  [ps EXCEPT !.ring_head = Mod(@ + to_write),
                   !.ring = [i \in Index |-> IF At(i) < to_write THEN buffer[At(i) + 1]
                                             ELSE @[i]]]

Enqueue(t, h, size) ==
    /\ CanCall(t)
    /\ g_players' = [g_players EXCEPT ![h[1]] = Write(@, Buffer(h[2], size))]
    /\ UNCHANGED <<g_audio_device, appVars, thread, raced, nullCall>>

\* play_SetPlayState calls the callback at once, on the caller's thread.
SetPlayState(t, h, playing) ==
    /\ CanCall(t)
    /\ g_players' = [g_players EXCEPT ![h[1]].playing = playing]
    /\ LET cb == g_players[h[1]].bq_callback IN
         thread' = IF playing /\ cb # None
                     THEN [thread EXCEPT ![t] = [Idle EXCEPT !.at = "call", !.slot = h[1],
                                                             !.cb = cb]]
                     ELSE thread
    /\ Look(t, h[1])
    /\ UNCHANGED <<g_audio_device, appVars, nullCall>>

SetMute(t, h, mute) ==
    /\ CanCall(t)
    /\ g_players' = [g_players EXCEPT ![h[1]].is_muted = mute]
    /\ UNCHANGED <<g_audio_device, appVars, thread, raced, nullCall>>

\* The methods that answer what nothing ever changes, or take what nothing reads:
\* positions, markers, durations and events of the play interface; stereo; seeking
\* and looping; states, priorities and callbacks of an object.
AskPlay(t) == CanCall(t) /\ UNCHANGED <<playerVars, appVars, thread, raced, nullCall>>
AskVolume(t) == CanCall(t) /\ UNCHANGED <<playerVars, appVars, thread, raced, nullCall>>
AskSeek(t) == CanCall(t) /\ UNCHANGED <<playerVars, appVars, thread, raced, nullCall>>
AskObject(t) == CanCall(t) /\ UNCHANGED <<playerVars, appVars, thread, raced, nullCall>>

-----------------------------------------------------------------------------
(***************************************************************************)
(* opensles_shim_pump_callbacks, and the call of a callback.               *)
(***************************************************************************)

ScanFrom(t, p) ==
    thread' = [thread EXCEPT ![t] =
                 IF p \in Slots THEN [Idle EXCEPT !.at = "scan", !.slot = p, !.pumping = TRUE]
                 ELSE Idle]

Pump ==
    /\ thread[Pumper].at = "idle"
    /\ ScanFrom(Pumper, 0)
    /\ UNCHANGED <<playerVars, appVars, calls, raced, nullCall>>

RunsLow(ps) == Used(ps) < RING_BUFFER_SIZE \div 2

\* Mutant: the test of in_use and bq_callback is forgotten.
ScanAnyway(t) ==
    /\ thread[t].at = "scan"
    /\ LET p == thread[t].slot  ps == g_players[p] IN
         /\ IF RunsLow(ps)
              THEN thread' = [thread EXCEPT ![t].at = "call", ![t].cb = ps.bq_callback]
              ELSE ScanFrom(t, p + 1)
         /\ Look(t, p)
    /\ UNCHANGED <<playerVars, appVars, nullCall>>

\* Mutant: a player that is not playing ends the scan.
ScanStops(t) ==
    /\ thread[t].at = "scan"
    /\ LET p == thread[t].slot  ps == g_players[p] IN
         /\ IF ps.in_use /\ ps.bq_callback # None /\ RunsLow(ps)
              THEN thread' = [thread EXCEPT ![t].at = "call", ![t].cb = ps.bq_callback]
              ELSE ScanFrom(t, IF ps.playing THEN p + 1 ELSE MAX_PLAYERS)
         /\ Look(t, p)
    /\ UNCHANGED <<playerVars, appVars, nullCall>>

Scan(t) ==
    /\ thread[t].at = "scan"
    /\ LET p == thread[t].slot  ps == g_players[p] IN
         /\ IF ps.in_use /\ ps.bq_callback # None /\ RunsLow(ps)
              THEN thread' = [thread EXCEPT ![t].at = "call", ![t].cb = ps.bq_callback]
              ELSE ScanFrom(t, p + 1)
         /\ Look(t, p)
    /\ UNCHANGED <<playerVars, appVars, nullCall>>

\* bq_callback is not volatile: the call uses what the test has read or reads it
\* again; the context is read now.
Call(t) ==
    /\ thread[t].at = "call"
    /\ LET p == thread[t].slot  ps == g_players[p] IN
         \E cb \in {thread[t].cb, ps.bq_callback} :
            IF cb = None
              THEN nullCall' = TRUE /\ thread' = [thread EXCEPT ![t] = Idle]
              ELSE /\ thread' = [thread EXCEPT ![t].at = "callback", ![t].cb = cb,
                                               ![t].ctx = ps.bq_context]
                   /\ UNCHANGED nullCall
    /\ UNCHANGED <<playerVars, appVars, raced>>

\* The callback may enqueue the sound of its context on the queue it was called
\* for; then it returns to the scan or to play_SetPlayState.
Return(t, size) ==
    /\ thread[t].at = "callback"
    /\ LET p == thread[t].slot  c == thread[t].ctx IN
         /\ g_players' = IF size = 0 \/ c = None THEN g_players
                         ELSE [g_players EXCEPT ![p] = Write(@, Buffer(c, size))]
         /\ IF thread[t].pumping THEN ScanFrom(t, p + 1)
            ELSE thread' = [thread EXCEPT ![t] = Idle]
    /\ UNCHANGED <<g_audio_device, appVars, raced, nullCall>>

-----------------------------------------------------------------------------
(***************************************************************************)
(* sdl_audio_callback: one chunk of every player that plays.               *)
(***************************************************************************)

\* Mutant: the tail advances by samples, not by bytes.
AdvancedBySamples(ps) ==
    LET to_read == Least(CHUNK, Used(ps) \div 2)
    IN  IF ps.in_use /\ ps.playing /\ ~ps.is_muted
          THEN [ps EXCEPT !.ring_tail = Mod(@ + to_read)] ELSE ps

Mixed(ps) ==
    LET to_read == Least(CHUNK, Used(ps) \div 2)
    IN  IF ps.in_use /\ ps.playing /\ ~ps.is_muted
          THEN [ps EXCEPT !.ring_tail = Mod(@ + 2 * to_read)] ELSE ps

Mix ==
    /\ g_audio_device
    /\ g_players' = [p \in Slots |-> Mixed(g_players[p])]
    /\ UNCHANGED <<g_audio_device, appVars, calls, thread, raced, nullCall>>

-----------------------------------------------------------------------------

AppStep(t) ==
    /\ calls' = calls + 1
    /\ \/ Create(t) \/ CreateNone(t) \/ CreateEngine(t)
       \/ AskPlay(t) \/ AskVolume(t) \/ AskSeek(t) \/ AskObject(t)
       \/ \E h \in live :
             \/ Destroy(t, h) \/ Register(t, h) \/ Clear(t, h)
             \/ \E n \in Sizes : Enqueue(t, h, n)
             \/ \E b \in BOOLEAN : SetPlayState(t, h, b) \/ SetMute(t, h, b)

InsideStep(t) ==
    /\ UNCHANGED calls
    /\ \/ RegisterContext(t) \/ Scan(t) \/ Call(t)
       \/ \E n \in Sizes \cup {0} : Return(t, n)

Next ==
    \/ \E t \in Threads : AppStep(t) \/ InsideStep(t)
    \/ Pump
    \/ Mix

Spec == Init /\ [][Next]_vars

\* The engine polls its looper for ever, a call that was begun goes on, SDL's audio
\* thread runs.
Fairness ==
    /\ SF_vars(Pump) /\ WF_vars(Mix)
    /\ \A t \in Threads : WF_vars(InsideStep(t))
FairSpec == Spec /\ Fairness

-----------------------------------------------------------------------------

Content(p) ==
    [k \in 1 .. Used(g_players[p]) |->
        g_players[p].ring[Mod(g_players[p].ring_tail + k - 1)]]

Fifo(p) == INSTANCE ByteFifo
             WITH Buffers <- {Buffer(c, n) : c \in 1 .. MaxMade, n \in Sizes},
                  Capacity <- RING_BUFFER_SIZE - 1, content <- Content(p)

Reset(p) == g_players'[p].ring_head = 0 /\ g_players'[p].ring_tail = 0
Drained(p) == g_players'[p].ring_head = g_players[p].ring_head

\* Full, empty and wrapped, the ring is a queue of one byte less than its size: sound
\* is played in order, none is lost but what bq_Enqueue cut off for want of room, and
\* a reset leaves nothing behind (opensles_shim.c:106-121, 194, 205-215).
RingIsFifo ==
    /\ \A p \in Slots : Fifo(p)!Init
    /\ [][\A p \in Slots :
            \/ Fifo(p)!Next /\ (Fifo(p)!Empty => Reset(p) \/ Drained(p))
            \/ Content(p)' = Content(p)]_vars

\* Each slot in use belongs to exactly one player the application still has, and to
\* none if it is free: a slot is neither given twice nor lost, however players come
\* and go (opensles_shim.c:457, 517-529).
SlotsOwned ==
    \A p \in Slots :
        /\ g_players[p].in_use = (\E h \in live : h[1] = p)
        /\ \A h, k \in live : h[1] = p /\ k[1] = p => h = k

Owner(p) == CHOOSE h \in live : h[1] = p

\* The players whose sound a slot may ever play: the one that has it, and those that
\* were destroyed while another thread was about to call, ran or registered their
\* callback.
Heard == live \cup overtaken

\* A callback is called through NULL only after a player was destroyed between the
\* unlocked test and the call.  The context it gets is never that of a player of
\* another slot, nor of one that was destroyed with nobody at work there.  And while no
\* other thread changed the slot between the test and the call, or between the two
\* writes of the registration, the player is in use and callback and context are its
\* own (opensles_shim.c:161-167, 187-188, 266).
CallbackOwned ==
    /\ nullCall => overtaken # {}
    /\ \A t \in Threads :
          LET p == thread[t].slot  c == thread[t].ctx IN
          thread[t].at = "callback" =>
             /\ c = None \/ <<p, c>> \in Heard
             /\ p \notin raced =>
                   g_players[p].in_use /\ thread[t].cb = Owner(p)[2] /\ c = Owner(p)[2]

\* In every slot, whatever was destroyed there and created anew: a byte that waits in
\* the ring is of the player that has the slot, or of one that was destroyed while
\* another thread was at work for it.  obj_Destroy does not wait for that thread, and
\* its callback may still enqueue (opensles_shim.c:161-167, 456-464); there is no other
\* way for the sound of one player into the ring of another.
SoundBelongs ==
    \A p \in Slots : \A k \in 1 .. Used(g_players[p]) :
        \/ g_players[p].in_use /\ Content(p)[k].of = Owner(p)[2]
        \/ <<p, Content(p)[k].of>> \in overtaken

\* Once a buffer of whole samples was cut at an odd byte, every later sample of that
\* player stays torn until the ring is emptied by Clear, Destroy or reuse: no sequence
\* of enqueues and reads ever realigns it (opensles_shim.c:106, 207-209).
CutIsPermanent ==
    [][\A p \in Slots :
         g_players[p].ring_head % 2 = 1 /\ g_players'[p].ring_head % 2 = 0
           => g_players'[p].ring_head = 0 /\ g_players'[p].ring_tail = 0]_vars

\* A player that has a callback and runs low gets its callback called, unless it is
\* refilled or destroyed before: no other player and no other thread can starve it
\* (opensles_shim.c:159-168).
Wants(p) == g_players[p].in_use /\ g_players[p].bq_callback # None /\ RunsLow(g_players[p])
Refilled ==
    \A p \in Slots :
        Wants(p) ~> (~Wants(p) \/ \E t \in Threads :
                        thread[t].at = "callback" /\ thread[t].slot = p)
=============================================================================
