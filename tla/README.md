# A verification project for alienport

alienport runs the Android build of a game (an ARM64 `.so` compiled against
Bionic) on a Linux handheld. It loads the library itself, resolves its imports
against a table of shims, and plays the part of Android: activity, looper, input
queue, EGL, OpenSL ES, JNI, assets and, because Bionic and glibc lay out their
pthread objects differently, the whole pthread API. There is no test suite, and
most of what can go wrong depends on the interleaving of the game's threads. This
directory holds TLA+ models of those parts, checked with TLC on small instances,
and proofs, checked with TLAPS, for every instance.

All paths below are relative to the repository's `src/` directory.

## 1. Inventory

### Components

| component | source | state it keeps | operations |
|---|---|---|---|
| pthread bridge: mutexes, condition variables, rwlocks | `pthread_bridge.c` | `g_lock`; the table `g_tracked_objs[8192]`, `g_num_tracked`; the first word of every Bionic object | `b_mutex_*`, `b_cond_*`, `b_rwlock_*` |
| pthread bridge: once | `pthread_bridge.c:310-332` | one `int` per control | `b_once`, `b_pthread_once` |
| pthread bridge: signals | `pthread_bridge.c:334-344` | the kernel's table of handlers | `my_sigaction` |
| input queue and gamepad mapping | `android_shim.c:33-96, 178-308, 508-588` | ring of 128 events, `g_current_event`, stick, trigger and hotkey flags | push, pop, `android_shim_poll_events`, `AInputQueue_*` |
| lifecycle, looper and commands | `android_shim.c:98-176, 310-498`, `main.c:482-538` | the command pipe, `android_app`, the table of looper descriptors | `send_cmd`, `process_cmd`, `ALooper_*`, the main loop |
| OpenSL ES shim | `opensles_shim.c` | 16 player slots, each with a 512 KiB byte ring; `g_audio_lock` | create, destroy, Enqueue, Clear, SetPlayState, volume, the pump, the SDL audio callback |
| ELF loader | `so_util.c`, `main.c:195-480`, `imports.gen.c` | the image, its segments and their protection, the imports table | load, relocate, resolve, hook, patch canaries, run constructors |
| JNI shim | `jni_shim.c` | a ring of strings and its counter; constant objects | `NewStringUTF`, `Call*Method`, lookups that return constants |
| EGL shim | `egl_shim.c` | the window, contexts, the share root | create, destroy, make current, swap |
| asset shim | `asset_shim.c` | the asset directory; open assets | open, read, seek, close; `AAsset_getBuffer` is not in the imports table |
| bionic shims | `bionic_shims.c` | none of its own: glibc's heap behind a guard | `bionic_free` and delete, `abort`, properties, logging, checked string functions, ctype tables |
| crash handler | `main.c:141-193` | none | prints registers and frames, ends the process with 128 + signal |
| `pthread_preload.c` | not in `CMakeLists.txt` | - | never built |
| launcher, build and patch scripts | `Alien Shooter.sh`, `scripts/`, `CMakeLists.txt` | - | - |

### How they interact

- The engine's threads call the bridge for every lock, wait and once. Bridge calls
  share `g_lock` and the table.
- `main` loads the library, calls its `ANativeActivity_onCreate`, fires the
  lifecycle callbacks (the engine's own glue turns them into commands of a pipe)
  and then polls SDL sixty times a second until `destroyRequested` is set.
- The engine's thread sits in `ALooper_pollAll`, which pumps the audio callbacks,
  polls the command pipe, polls SDL *as well*, and reports input.
- SDL calls `sdl_audio_callback` on a thread of its own; it shares the rings with
  `Enqueue`, which the engine calls from the callbacks that the looper pumps.

### What is hard

- Concurrency: the lock-free scan of the handle table against its swap-remove;
  two threads that push into the same unlocked event ring; the audio pump, which
  uses player slots without the lock that protects them.
- Ordering: lazily created objects, `once` routines inside one another, the boot
  sequence, the shutdown through a pipe.
- Limits: a full handle table, event ring, byte ring, player table, looper table
  and string pool. Each is dropped on the floor silently.
- Failure: imports that do not resolve, `mprotect` and `write` whose result is
  ignored.

`PROJECT.json` lists each hazard at its line with the properties that watch it.

### What makes each component correct

- Bridge: no call reaches a freed object; all threads agree on one object per
  Bionic object; the table lists exactly the live objects; every call returns;
  and, as a whole, the promises of POSIX.
- Once: the routine runs once, nobody returns before it has ended, all return.
- Input: events are delivered in order, once, unchanged until finished; the game's
  idea of what is pressed agrees with the pad when the queue is empty.
- Lifecycle: the program starts or says why not; a request to quit, wherever it is,
  ends it, and nothing else does.
- Audio: bytes are played in the order they were accepted, by the player they were
  given to; a callback reaches the player it belongs to; a low player is refilled.
- Loader: every slot holds what its relocation asks for; nothing runs before it is
  relocated, patched, executable and visible to the instruction cache; hooks do not
  damage what they do not replace.
- JNI, EGL, assets: handles name what they were created for; a thread draws where it
  thinks; reads come from where the game thinks it is.
- bionic_free: it refuses no chunk and lets nothing else through.

## 2. Plan

In order of importance. All modules are written; what is left is at the end.

1. `BridgeHandles` (handle table), then `BridgeSync` (the functions on top of it)
   against the abstract `PosixSync`; `BridgeHandlesProofs`, `BridgeSyncProofs`.
2. `BridgeOnce` against the abstract `PosixOnce`; `BridgeOnceProofs`.
3. `InputQueue`: the ring as a bounded FIFO (abstract `BoundedFifo`), with one
   producer and with the two that the program has; the gamepad mapping;
   `InputQueueProofs`.
4. `AudioPlayers`: player slots, pump, callbacks, mixer; each ring refines the abstract
   `ByteFifo`; `AudioPlayersProofs`, the refinement included.
5. `Loader` (boot) and `Lifecycle` (activity, looper, commands, shutdown), composed in
   `Program`; `ProgramProofs`, and `HooksProofs` for the text.
6. `JniStrings`, `EglContexts`, `Allocator`, `Assets` over `Callers`, put side by side in
   `Shims`; `ShimsProofs`.

Every safety property of every passing run is proved; liveness is left to TLC.

## 3. Modules

### BridgeHandles: the handle table

A *slot* is a Bionic object; `slot[s]` is its first word: `Null` (zero, and the
small integers below 0x10000 that `is_tracked_obj` rejects), the address of a glibc
object (`Objs`), or `Garbage`. `live` is the set of addresses that `calloc` gave out
and `free` has not taken back; an address may be given out again.

| code | model |
|---|---|
| a `b_*` function is entered | `EnterUse`, `EnterWait`, `EnterInit`, `EnterDestroy` |
| `is_tracked_obj(*slot)` before `g_lock` | `ReadSlot`, then `TestBound` and `Probe` for each entry |
| `pthread_mutex_lock(&g_lock)` | `Lock` |
| the check under `g_lock` | `CheckResolve` (`X_real`), `CheckReplace` (`b_X_init`, `b_X_destroy`) |
| `calloc` and `pthread_X_init` | `Alloc`, and `PreAlloc` for `b_rwlock_init`, which allocates before it locks |
| `track_obj` | `Track` (`g_num_tracked++`), `Store` (the entry) |
| `untrack_obj` | `Untrack` (`--g_num_tracked`), `Fill` (the entry) |
| `*slot = object`, `*slot = NULL` | `Publish`, `Clear` |
| `free`, unlock | `Free`, `Unlock` |
| `return *slot` | `ReturnCond`, `ReturnReal` |

Everything that another thread can see happen in the middle is a step of its own:
each entry the unlocked scan reads, each write under `g_lock` that such a scan can
read. `g_num_tracked` is a plain `int` read in a loop without a lock, so a compiler
may keep it in a register: `TestBound` uses either its current value or the last one
loaded. Checks under `g_lock` are one step, because all writers hold it.

The application is external and keeps the POSIX contract (`EnterX`): it uses
initialised objects only, and initialises or destroys an object only while no call
on it is in progress. `Recycle` is the one thing it does behind the bridge's back,
legally: memory of an object is given up without a destroy (C++ code does so) and
used for another object, so that the first word is whatever was there.

`ready` and `live` are history variables. `op`-level detail (which function) is
left to `BridgeSync`.

### BridgeSync and PosixSync: what the application sees

`PosixSync` is the promise: who holds what (`hold`, `shared`) and who waits, in terms
of calls that have returned. `BridgeSync` extends `BridgeHandles`: when a call
has resolved its objects it makes the glibc call on the *addresses* it resolved.
glibc's objects (`owner`, `depth`, `readers`) are external, modelled from POSIX. If two
threads resolved different objects for one mutex, both could lock it: nothing in
`BridgeSync` prevents that but the table. The refinement mapping takes `hold` and
`shared` as they are, and a thread counts as waiting from the release of its mutex
until `pthread_cond_wait` returns.

`Deadline` models `pthread_cond_timedwait` timing out. Since `new_monotonic_cond`
ignores the attributes, a deadline on the real-time clock never comes; the runs use
monotonic ones.

### BridgeOnce and PosixOnce

`at[t][c]` is where thread `t` is in its call on control `c`; a routine may call
`b_once` on the controls in `Needs[c]`, so calls nest (`from`, `top`). `Begin` is
`*st = 1` and the release of `g_lock`; `Set` is `*st = 2`. The unlock and relock around
`usleep(200)` are `Wait`, `WakeUp` and `Acquire`. A test and the unlock after it are one
step: `*st` is only read under `g_lock`. `PosixOnce` has three steps: a routine starts,
ends, a call returns.

A routine that needs its own control, even indirectly, waits for itself for ever
(`NeedsAssumption` excludes it; POSIX leaves it undefined).

### InputQueue and BoundedFifo

A turn of the loop in `android_shim_poll_events` begins with `SDL_PollEvent` (`TakeEvent`, into
`taken`). `Poll` is the rest of the turn: by the flags as they are then, which the other poller
may have changed since, it updates the flags (`pressed` for SELECT and START, `down` for the
triggers, `g_aim_active`) and leaves in `todo` the one or two Android events to push. An axis
value is abstracted to the side of its threshold it is on, and coordinates are left
out. `PushRead`, `PushCheck`, `PushWrite` and `PushAdvance` are `input_queue_push`; since
`g_input_head` is a plain `int`, the store may use the value read before or a newer one.
The engine takes an event (`GetEvent`), reads it through the pointer into the ring
(`Handle`) and finishes it (`Finish`), as `process_input` does.

The main loop and the engine's `ALooper_pollAll` both poll SDL, so both push. While they
take turns (`~overlapped`: no thread takes an event while another has one in hand) the
ring refines `BoundedFifo`, the item in work included, and the engine's idea of the keys
agrees with the pad. When they overlap, only `InputTypeOK` and `InputDrains` are left.

Memory is taken to be sequentially consistent: on ARM64 the store of `g_input_head` could
also become visible before the event, which the model does not show.

### AudioPlayers and ByteFifo

| code | model |
|---|---|
| `engine_CreateAudioPlayer` | `Create` (the first free slot, cleared), `CreateNone` (all are in use) |
| `slCreateEngine`, `engine_CreateOutputMix` | `CreateEngine` (which may open the device at last) |
| `obj_Destroy` | `Destroy` |
| `bq_RegisterCallback` | `Register` (the callback), `RegisterContext` (its context, a second write) |
| `bq_Enqueue`, `bq_Clear` | `Enqueue` with `Write`, `Clear` |
| `play_SetPlayState` | `SetPlayState`, which goes on to `Call` on the same thread |
| `vol_SetMute`; volume, stereo, positions, seeking | `SetMute`; `AskVolume`, `AskPlay`, `AskSeek`, `AskObject` (nothing that matters changes) |
| `opensles_shim_pump_callbacks` | `Pump`, then `Scan` slot by slot, `Call`, `Return` |
| `sdl_audio_callback` | `Mix` with `Mixed` for every slot |

A section under `g_audio_lock` is one step. The pump and `play_SetPlayState` read
`in_use`, `bq_callback` and `bq_context` without it, so a test (`Scan`) and the call
(`Call`) are two steps and the callback runs (`"callback"`) until `Return`; the context is
read at the call. The application knows a player by the number of its creation
(`live`: pairs of slot and number); that number is also its context, and every byte it
enqueues carries it, with its half of a sample, so that `SoundBelongs` and `RingIsFifo`
can tell whose byte is where.

Nothing makes a thread that is between test and call, or in the callback, notice that another
destroys the player or gives its slot away. Two history variables tell what comes of it:
`overtaken` holds the players destroyed while another thread was at work for them, `raced`
the slots that one thread has changed while another was at work there.

- `SoundBelongs` speaks of every slot. The sound of an overtaken player may turn up in the
  ring of the one that got its slot; no other stray sound may.
- `CallbackOwned` says of every slot that a call through NULL needs an overtaken player, and that
  the context is of a player that has the slot or of an overtaken one of that slot. That
  the player is in use, and callback and context are its own, it promises for slots that are
  not `raced` only: for the others the code does not hold it.

Gain and stereo panning scale samples and are left out.

`ByteFifo` is a queue of bounded length that cuts what does not fit, plays whole samples
and can be emptied. `Content` maps a ring to it.

### Loader, Lifecycle and Program

`Loader` is `main` up to `ANativeActivity_onCreate`, one action per call it makes.
An image is what the ELF file says: decoded words, symbols, relocations, slots of
`.init_array`. `prot` is the protection of the text, `stale` the words that the instruction
cache may not yet show, `policy` what the kernel grants. `SoLoad`, `Relocate`, `Resolve`,
`HookLicense`, `HookPlayCore`, `HookBundle`, `Patch` or `NoPatch`, `Construct`,
`Finalize`, `FindEntry` and `ShimInit` are `so_load`, `so_relocate`, `so_resolve`, the
three groups of hooks, `so_patch_stack_canaries` (or its early returns),
`so_execute_init_array`, `so_finalize` with `so_flush_caches`, `so_find_addr`,
`android_shim_init`. `dynlib_functions` and the lists of hooks are CONSTANTs.

`Lifecycle` is the rest. `onMain` is where `main` is, `onEngine` where the
engine's thread is; the engine with its NDK glue is external, and may or may not use that
glue (`own`): with it, there are two `android_app`s, the glue's and the shim's `g_app`.
`OnCreate`, `Created`, `CallBack`, `CallReturns`, `Loop`, `MainPoll`, `OnDestroy`, `Exit` are
`main.c:482-538`; `Poll`, `EnginePoll`, `EngineInput` are `ALooper_pollAll` with what
the engine does about its answer; `Process` is `process_cmd` or the glue's. `PollEvent` is
what `android_shim_poll_events` does for an event, reduced to quitting, the hotkey that
ends the process, and other input (its mapping is `InputQueue`'s).

`Program` joins both: nothing of `Lifecycle` happens before the loader reaches `"create"`.

### JniStrings, EglContexts, Allocator, Assets, Shims

- `JniStrings`: `make_jstring` is `MakeLoad`, `MakeStore`, `MakeCopy`, since nothing locks
  the ring. `held` is what the game got; `alone` says that no other thread was making
  a string meanwhile. All functions of the vtable that answer constants are actions that
  change nothing. `StubMethod` takes an unknown name for `getInstance`, as `stub_method` does.
  `NewString` and `GetStringChars` are the UTF-8 functions under other
  names in the code.
- `EglContexts`: SDL binds a new context on its creator's thread although EGL would not
  (`target` against `g_current_context`); it shares with what is current there, which
  may be nothing (`lone`). `moved` marks threads whose binding SDL changed without
  `eglMakeCurrent`, or refused to change (`UnbindFails`: `egl_shim.c:124-125` forgets the context
  all the same).
- `Allocator`: `bionic_free` looks at the pointer (`CheckPointer`), at its page (`CheckPage`) and at
  the word before it (`CheckHeader`), then frees (`Free`); other threads allocate and free in
  between. The imports table binds malloc, calloc, posix_memalign and realloc to glibc's own
  (`Malloc`, and `Realloc`, which has no guard); `bionic_malloc`, `bionic_calloc` and
  `bionic_realloc` are bound by nothing. `Crash` is `crash_handler`, or the
  default action once the game has installed its own handler (`Sigaction`).
- `Assets`: an asset is a `FILE`: its position, where stdio thinks its buffer starts (`base`),
  where the bytes in it really come from (`data`), how many they are (`held`) and the kernel's
  offset (`koff`). stdio is external, modelled on glibc: a seek inside the buffer keeps it, any
  other drops it and may fill it anew from a place a little before the one sought (`Sought`).
  `AAsset_openFileDescriptor` duplicates the descriptor, which shares the kernel's offset; the
  asset is `adrift` from when the game moves that until the next seek, and `misfilled` when
  its buffer was filled meanwhile, until that buffer is used up or a seek leads out of it.
- `Shims`: the four side by side. They share no state, so a behaviour exercises one of
  them (`shim`), and the run checks each on its own instance.

## 4. Runs

Sizes are for two TLC workers.

| run | instance | shows |
|---|---|---|
| `handles` | 2 threads, a mutex and an rwlock, 4 addresses, one leak; 69 000 states | `HandleTypeOK`, `NoUseAfterFree`, `OneObjectPerSlot`, `TableExact`, `ObjectStable` |
| `handles_live` | 2 threads, a mutex and a condition variable, 3 addresses; 207 000 states | `CallReturns` under fairness |
| `handles_stale_storage` | as `handles`, two mutexes, reused memory may hold addresses | **violated**: `NoUseAfterFree` |
| `sync_cond` | 2 threads, a recursive mutex (depth 2) and a condition variable; 105 000 states | `TypeOK`, `HoldsMatch`, `NoLostWakeup`, `BusyIsTrue`, `ImplementsPosix` |
| `sync_rwlock` | 2 threads, a mutex and an rwlock; 161 000 states | `Exclusion`, `ImplementsPosix` |
| `sync_table_full` | 2 threads, two mutexes, a table of one entry | **violated**: `Exclusion` |
| `once` | 3 threads, two controls, one nested in the other; 10 000 states | `TypeOK`, `ImplementsOnce`, `OnceReturns` |
| `input` | 2 pollers, 3 slots (two events), 3 SDL events; 1 352 000 states, 2 min | `InputTypeOK`, `EngineAgrees`, `ImplementsFifo`, `InputDrains` |
| `input_two_pollers` | the same with 2 SDL events | **violated**: `NothingLost` |
| `audio` | 2 threads, 2 slots, 2 players made, rings of 4 bytes, 6 calls; 202 000 states, 40 s | `AudioTypeOK`, `SlotsOwned`, `CallbackOwned`, `SoundBelongs`, `RingIsFifo`, `CutIsPermanent`, `Refilled` |
| `program` | 5 libraries, 1 looper descriptor, 2 SDL events; 148 000 states, 45 s | `ProgramTypeOK`, `CodeExecutable`, `ImportsBound`, `TextAsIntended`, `EndsOnRequest`, `ShutdownCompletes`, `StartsOrQuits` |
| `shims` | 2 threads; ring of 3 strings, 4 made; 3 contexts; 3 chunks; an asset of 5 bytes, buffers of 3; 275 000 states, 30 s | `ShimsTypeOK`, `HeldStrings`, `TargetAgrees`, `NoStrayGroup`, `FreeExact`, `ReadsInPlace` |

Why the bounds are enough. Two threads are one scanning and one editing the table;
two slots are one to look up and one whose destroy moves its entry; a table of three
or four entries lets the scan be overtaken by the swap, read past the end and restart.
One more address than slots lets an address come back while an old copy is being
scanned for. With three threads (two mutexes, no leaks) the same properties hold on
164 000 states; that run adds nothing new and is not kept. `MaxLeaks`
bounds objects whose slot was reused, `MaxDepth` the recursion of a mutex. Symmetry is
over threads and addresses and is used by safety runs only. For safety the proofs
remove all the bounds of this section (section 5).

In `input`, three SDL events are enough to press, release and press again, to fill the
two places of the ring (R2 alone pushes two events) and to wrap around.

In `audio`, a ring of four bytes holds a sample and a half: a second buffer is cut at an
odd byte, indices wrap, and the ring is full and empty. Two players and two slots let
one be destroyed and its slot be given again while the pump is inside the callback
of the old one; six calls are enough for create, register, play, enqueue, destroy, create.

In `program`, the libraries differ in where the second function to hook begins (the same
address, two words on, four words on), in whether the text begins on a page, and in
whether they have the entry point; their relocations are of every kind, and one asks for
a symbol that exists in the table, on the host and nowhere. A looper table of one entry is
full as soon as the engine adds a descriptor of its own. Two SDL events are a request to
quit and another, or two requests, one for each poller.

In `shims`, four strings in a ring of three wrap it; three contexts are a first one, one
shared with it and one that is created after a destroy; two small chunks and a big one tell an
address that is mapped after it was freed from one that is not; a file of five
bytes is a buffer of three and a shorter one, so that a seek may lead into the buffer, out of it on
either side, or to the end.

`CHECK_DEADLOCK FALSE` in `audio`, `program` and `shims`, where calls, events and strings are
bounded and the process may end; in the `input*` runs, where SELECT and START together call
`exit(0)`, and in the `sync_*` runs, where an application may lock two mutexes in opposite
orders, or wait for a signal that nobody sends. Elsewhere deadlock is checked.

### Fairness

- Weak fairness of each thread's own steps (`Advance`, `Finish`; `Step` in `BridgeOnce`):
  threads are scheduled preemptively by Linux.
- Strong fairness of taking `g_lock`: it is a glibc mutex held for a bounded number of
  steps (a few writes, a `calloc`), which its waiters take in turn or by luck; `b_once`
  even sleeps 200 us between two attempts. Weak fairness would not do: the lock may be
  free only from time to time.
- Weak fairness of each poller and of the engine in `InputQueue`: both loop for ever
  (`main.c:526`, the engine's own loop). None for the player.
- `AudioPlayers`: strong fairness of `Pump` (the engine calls `ALooper_pollAll` for
  ever, between other calls of the same thread), weak fairness of `Mix` (SDL's thread) and of
  what is inside a call. `Refilled` only promises that the callback is called, so the
  application need not do anything for it.
- `Program`: weak fairness of booting, of `main`'s steps and of the engine's: three loops
  that Linux schedules. None for the player, nor for the engine's other descriptor.
- None for the application's calls. A `once` routine is assumed to return once the
  calls it makes have returned.

### What the models show beside the findings

No document of the repository promises otherwise, so these are not findings; each is
in a model, and where a property would be false because of it the property says so.

- A quit before `main` reaches its loop may end the engine's thread while `main` waits in a
  callback for it: the process hangs (`asked.early` in `StartsOrQuits`).
- With `PATCH_CANARY=0` the constructors run before the instruction cache is cleared of
  the words written (`CodeExecutable`).
- Without writable code, an unaligned text, a refusal of `mprotect` (whose result is not
  read) or the patch turned off crash the first constructor.
- A buffer cut at an odd byte tears every later sample of that player (`CutIsPermanent`).
- A callback may run for a destroyed or recycled player (`raced`), or through NULL; what it
  enqueues goes into the ring of the player that got the slot (`overtaken`).
- A context other than the first, created by a thread with nothing current, is in a share
  group of its own; creating a context rebinds the creating thread; a refused unbind is
  taken for done (`lone`, `moved`).
- `realloc` (`imports.gen.c:380`) is not guarded as `free` is.
- A duplicated descriptor moves the asset it came from (`adrift`). A buffer filled then stays
  wrong when `AAsset_seek` goes to a place inside it: stdio does not read it again (`misfilled`).
- The fourth place in which assets are looked for repeats the third.

### Findings

1. `sync_table_full`. `track_obj` (`pthread_bridge.c:53`) ignores the object when the
   table is full; `mtx_real` stores it in the slot all the same. The next call on the
   mutex does not find the address in the table and creates another object: two threads
   hold the mutex. The comment above the table promises strict tracking. 8192 is out of
   TLC's reach; a table of one entry shows the same. Memory of C++ mutexes that are
   freed without `pthread_mutex_destroy` fills the table for good, since nothing else
   removes their entries.
2. `handles_stale_storage`. `b_mutex_init` frees the object named by the first word of
   the storage it is given (`pthread_bridge.c:103`). POSIX lets that storage be
   uninitialised, and the bridge itself spills such addresses to stacks; if the word
   happens to be the object of another mutex, that mutex is destroyed under its users.
3. `input_two_pollers`. `input_queue_push` has no lock and two threads call it. Both read
   the same head, both write that slot, both return 1: one event is lost. If it is a key
   UP, the key stays down in the game.

## 5. Proofs

`BridgeHandlesProofs` proves all five safety properties of `BridgeHandles` for any
numbers of threads, slots, addresses and table entries, under

    Fits == Cardinality(Objs) <= MAX_TRACKED_OBJS /\ Storage \cap Objs = {}

that is: the table has room for all objects that can be alive, and reused memory holds
no address that the bridge wrote. The two violated runs show that neither half can be
dropped.

The argument. `TableExact` only speaks of the moments when `g_lock` is free, and says
nothing of slots; it is not inductive. The invariant `IInv` adds, part by part:

- `LockInv`: the program counters between lock and unlock belong to the holder;
- `CallInv`, `ContractInv`: what each program counter implies of the call, and that an
  object that is being replaced is in no other call;
- `FreshInv`: an object made by `calloc` and not yet in its slot is known to its maker
  only;
- `PtrInv`: what a thread is about to free is in no entry that counts;
- `TableInv`: the entries that count (`Used`) are distinct and live, whatever step of
  `track_obj` or `untrack_obj` the holder is at, and every live object is in one, or in
  its maker's hands, or about to be freed;
- `SlotInv`: a slot that names an object names a listed one, and no two slots the same,
  but for the slot that the holder is just replacing (`Dangling`);
- `ResolveInv`: what a scanning thread compares against is `Garbage` or the object its slot still
  names, so that a hit, even on an entry past the end, is a hit on the right object.
  A miss is harmless: the thread looks again under `g_lock`.

Each action has a lemma `<Action>Keeps`; actions that touch neither `g_lock` nor the table
share `LocalStepTable`. `Room` turns `Fits` into room for one more entry by counting.

`BridgeSyncProofs` proves the properties of the `sync_*` runs, the refinement of `PosixSync`
included, under the same `Fits` (`sync_table_full` shows what happens without it). A step of
`BridgeSync` is a step of `BridgeHandles` or leaves the handles alone (`HandleStep`,
`SyncImplementsHandles`), so the handle table's invariant holds here and is not proved again.
`SyncInv` adds to it: which functions fit which kind of object (`OpInv`), that what the
caller held when it called it still holds when the call takes effect (`RightsInv`,
`HeldInv`), that an object not yet published is unlocked (`UnlockedInv`) and, which is the point,
that the glibc object *in place* in a slot records exactly what the application holds of
that slot (`GlibcInv`). What a slot names is in place unless the holder of `g_lock` is about
to replace or clear it (`Dangling`). A second object for one mutex would break this. `PlaceKept` says that no other step changes what is in place. `WaitAssumption` only says
that `Null` is no record of a waiting thread.

`BridgeOnceProofs` proves that `BridgeOnce` keeps its types (no routine is started
twice) and implements `PosixOnce`, from an invariant that ties the `int` of a control to
the one thread inside its routine.

`InputQueueProofs` proves for any size of the ring that its indices and the pointer to the
current event stay in the array even when both pollers race (`TypeCorrect`), and that with
one poller nothing accepted is lost (`OnePollerLosesNothing`, under `OnePoller`). The first
needs `WorkInv` (a thread in `input_queue_push` has an event to push); the second needs
`SoloInv`: the head that the poller has read is still the head when it stores it, and the
tail has not come round to it. `CountIs` and `SuccIndex` do the modular arithmetic once. With
two pollers `SoloInv` is what breaks, which is finding 3.

With both pollers, as long as they take turns, the ring implements `BoundedFifo`
(`EventsInOrder`): `TurnInv` says that one thread at a time has an event in hand (the others are
`Idle`), taken from SDL or still to push, that the slot it writes is free, and that the current event is in the place just before the tail, which a
push never reaches. The contents are `Slice`, a function of ring, head and tail; `SliceWrite`,
`SlicePut` and `SliceTake` say what a write, an advance of the head and one of the tail do to it.

`KeysAgree` (`EngineAgrees`) follows the keys through all the places an event may be in. What
the engine will believe is what it believes now, corrected by the event in its hands
(`AfterWork`), by the ring (`AfterRing`), by what is being pushed (`AfterPush`), by the event
taken but not yet looked at (`AfterTaken`) and by what SDL still holds (`AfterPolls`); the last word about a key counts (`Apply`, `After`). `Agree` says that
the result is what the pad says, and of the triggers what the flags say. Every step moves a
word from one place to the next and leaves the result, unless an event is dropped. That
L2 and R2 are not among the buttons is `KeyAssumption`; `EventAssumption` says that `None` is no
event.

`AudioPlayersProofs` proves all safety properties of the `audio` run for any number of
slots, threads, players and calls, and any even size of the ring, when the application
enqueues whole samples (`RingAssumption`, `AppAssumption`). The invariant is
`AudioTypeOK /\ SlotsOwned /\ MarkInv /\ SoundInv`. `CallbackOwned` speaks of threads inside
a callback only; `MarkInv` adds what the registration under way and the call about to be made
have in hand. For slots that were not `raced` (`MarkOf`), callback and context are those of a
player that is live, except between the two writes, when no other thread is at work there. For all
slots (`HeardOf`), a context that a callback may get is of a player in `Heard`, that is one
that is live or was overtaken there, and the callback is not NULL unless somebody was overtaken.
`SoundInv` says that the bytes in use are of players in `Heard`, and that tails are even: with
`SlotsOwned`, which leaves one live player per slot, that is `SoundBelongs` for every slot.
The lemmas on `Mod` (`DistanceIs`,
`AdvanceIs`, `PlaceIs`) do the arithmetic of the ring once; `WriteUsed` and `MixedUsed` say
what a write and a read do to the distance from the tail; `HeldWrite` and `HeldMixed` turn that
into appending and dropping. `RingSteps` shows that a step does one of four things to a
ring, from which `CutStays` and the refinement of `ByteFifo` (`RingIsQueue`) follow.

`ShimsProofs` proves all properties of the `shims` run, for any numbers of threads, strings,
contexts, chunks and assets, and any lengths of ring, file and buffer, under the
assumptions of the modules. The four invariants share no variables. `JniInv` adds that the
counter of a string made alone is no older than the strings after it, so that its place differs
from those of the next `MAX_JSTRINGS - 1` (`IndexDiffers`); `EglInv` that the share root is
remembered as soon as there is a context and that what is current was created (`ContextInv`); `AllocInv` what
each stage of `bionic_free` knows of its pointer; `AssetInv` that the position is where the last
seek left it and inside the buffer (`Placed`), that the buffer is what stdio thinks it is unless
it was filled adrift (`RightBuffer`), and that the kernel's offset is at its end unless the asset is
adrift now (`Level`). `ReadsInPlace` follows from the latter two alone.

`ProgramProofs` proves that what runs is executable and up to date (`CodeRuns`), that
slots hold the very entry of the table, or the address and addend, that their relocations ask
for (`SlotsAreBound`), that the process ends only when the
player asked (`EndsWhenAsked`) and that types are kept (`TypeCorrect`), for any library, hooks,
table and number of events. It assumes (`ImagesAssumption`, `TableAssumption`) that relocations
are of the four types the code handles and write to the data, that the words of the file are
what `Loader` decodes them to, and that entries of the table for one name are all 0 or none is.
`ProtInv` says which protection the text has at each stage, `BindInv` what the slots hold between
`so_relocate` and `so_resolve`, and `Calm` that before the player asks no pipe holds
`APP_CMD_DESTROY` and no app wants to be destroyed.

`HooksProofs` proves `TextAsIntended` for any text and any three lists of hooks. `WordAt(n, i)`
is word `i` when the first `n` hooks of all three lists are installed: the file's, or that of the
last hook that covers it. `GroupHooks` shows that one group takes the text from `WordAt(m, _)` to
`WordAt(m + n, _)`; `TextInv` says which `n` each stage has reached, and that after the canary
patch a word is that or was a jump to `__stack_chk_fail`. That functions are apart
and no address of a hook decodes to such a jump are premises of the property, not assumptions:
the invariant holds without them, the property would not. The last hook exists because
numbers are well-founded (`LastIs`).

Only model-checked: the liveness properties `CallReturns`, `OnceReturns`, `InputDrains`,
`Refilled`, `ShutdownCompletes` and `StartsOrQuits`, because fairness and ENABLED are beyond the
prover.

## 6. Not modelled

- `pthread_preload.c`: not among the sources of `CMakeLists.txt`.
- `hashmap.h` (third-party, used by nothing that is built), `util.c`, `error.c`, the launcher, the build
  and patch scripts.
- Bridge: NULL arguments (each function returns 0), `calloc` failure (the code does not
  check it), spurious wakeups, error numbers except `EBUSY`, the attribute functions (an
  `int` that nothing reads). `sem_t` is glibc's own, 32 bytes where Bionic's has 16: memory
  outside the models.
- Signals: `sa_mask`, and that `my_sigaction` takes the handler to be the first word.
- Commands: a full pipe (64K commands) and a failing `write`.
- Audio: gain, panning and clamping of samples; what the application does with the `*pPlayer` that
  a failed creation leaves as it was; destruction of the engine object, which
  runs the player's destructor over unrelated static memory (`opensles_shim.c:565`).
- Loader: parsing of the ELF headers beyond whether they are accepted; what the hooks
  themselves do (`main.c:33-139`: they answer constants, and one marks an object of the game as
  initialised); the contents of `dynlib_functions`.
- Crash handler: what it prints.
- Assets: `AAsset_getBuffer`, which the imports table does not have.
- bionic shims: the ctype tables and the formatting of logs; `bionic_malloc`, `bionic_calloc` and
  `bionic_realloc`, which the table does not have either.
- JNI: the printing of calls.
