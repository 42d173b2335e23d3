# A formal model of the BTD5 Vita loader

The repository loads the Android build of Bloons TD 5 on a PS Vita: it maps the
Android `libnative.so`, answers its imports with bridges to the Vita's libraries,
and drives the game's native callbacks from a main loop.  This directory models
the parts of the loader that hold state and are hard to test: threads that share
tables without locks, two threads that feed one gesture to the game, a write
cache between a finished save and the card, and objects of one pthread
implementation that wrap objects of another.

Paths are relative to `src/source/` unless they start with `src/`.

## 1. Inventory

| component | code | state | operations | modelled by |
|---|---|---|---|---|
| Profile stream bridge | `reimpl/io.c` 38-137, 216-236 | table of open profile streams, save generation, time of the last close | fopen, fclose | `ProfileStreams` |
| Profile commit | `main.c` 126-284, 445-543, 664-740 | mutex, committed generation, last sync, retry time; the worker's locals | `sync_profile_storage`, worker loop, pause, resume, clean exit, watchdog, fallback | `ProfileSync`, promise in `DurableSave` |
| Front touch pipeline | `reimpl/controls.c` 60-666, 737-800 | sample queue, early-DOWN flags, gestures, cancelled contacts, deferred release | sampler loop, frame poll, screen change, cancellation | `TouchPipeline` |
| Pad and virtual cursor | `reimpl/controls.c` 658-780, 837-1183 | held buttons, synthetic pointer, suppression, the START timer, whether the cursor is shown | `poll_pad`; when the cursor goes idle and hides | `PadCursor` |
| Screen classification | `reimpl/ui_context.c` | cached context, generation, last path | `ui_context_update` and the touch layer's reaction; the checked reads of the engine's memory | `UiContext`, `NativeReads` |
| pthread bridge: mutexes, conditions | `reimpl/pthr.c` 300-636, 662-848 | the word in each Android object, registry, registry lock | lock, trylock, unlock, wait, timedwait, signal, broadcast, init, destroy | `PthrBridge` |
| pthread bridge: threads, once, semaphores | `reimpl/pthr.c` 119-296, 509-573, 638-660, 785-800, 850-1033 | worker slots, recorded operations, once flags, tokens | create, trampoline, once, `sem_*`, bounded wait of the start-up barrier | `PthrThreads` |
| Music player | `music.c` | handles, active player, playing flag, command generation; the decoder's locals | load, play, pause, unload; decoder thread | `MusicPlayer` |
| GL state cache | `utils/glutil.c` 60-555, `reimpl/egl.c` | what was last bound or set | about thirty setters, deletes, overlay, `eglMakeCurrent` | `GLStateCache`, promise in `PlainGL` |
| Boot selection, data check, settings | `game.c`, `main.c`, `utils/init.c`, `utils/dialog.c`, `utils/settings.c` | choice file, selected version, `config.txt` | consume, relaunch, pick, validate, fingerprint, load and link, save | `StartUp` |
| Preferences | `java.c` 170-255 | `preferences.bin` | get, store | `Preferences` |
| Asset manager | `reimpl/asset_manager.cpp` | position, size, open flag, stream of an asset | open, read, seek, lengths, descriptor, close | `AssetFile` |
| Java side | `java.c`, `src/lib/falso_jni/` | path of the last `File`; objects, references, strings, arrays, fields | method and field lookup, constructors, `mkdirs`, strings, references | `JavaMethods`, `JavaBridge`, `JavaStrings`, `JavaObjects` |
| Calendar | `reimpl/time64.c` | static date per thread | `gmtime`, `localtime`, `mktime` | `Calendar` |
| Logger | `utils/logger.c` | two line buffers, the mutex around them, the file | session, lines of any thread | `Logger` |
| ELF loader | `src/lib/so_util/so_util.c`, `utils/init.c` | blocks, segments, sections, relocated words, patches, caches | load, relocate, resolve, patch, flush, bind | `Loader` |
| Native patches | `patch.c`, `engine_callsite.S` | call sites, registers and stack inside a bridge; sampled times | three bridges, the phase profiler, its report | `CallsiteBridge`, `PhaseProbe` |
| Diagnostics, tick watchdog | `diagnostics.c`, `main.c` 286-350, 664-735 | stage, tick counters, surface flag | stage stores, tick accounts, watchdog thread | `TickWatchdog` |
| Import table, start-up straight line, host tools | `dynlib.c`, see `PROJECT.json` | | | not modelled, section 7 |

How they interact:

* The engine's threads enter the bridges at any moment.  The main loop calls
  `update_lifecycle()`, `controls_poll()` and `native_tick()` in turn; the game
  saves inside those callbacks or on its own workers.
* `io.c` and `main.c` share four atomics: the generation, the close time, the
  commit state and the mutex around it.  The worker and the main thread are the
  only callers of `sync_profile_storage()`.
* The sampler thread and the main thread share the sample queue (under a mutex),
  the early-DOWN flags (atomics) and the cached screen (unsynchronised reads).
  Both send pointer events to the engine.
* Every mutex and condition of the engine goes through `pthr.c`.
* The music commands come from any engine thread, the decoder is a thread of the
  loader; they share three atomics and no lock.  The tick watchdog reads the main
  thread's counters in the same way.
* `ui_context_update()` runs once per frame on the main thread; `TouchPipeline` and
  `PadCursor` see only that the screen changed, `UiContext` models why and when.
* The engine reaches the file, asset, Java, GL and time services by the imports of
  `dynlib.c`.  They share no state with one another.

What makes each correct, in a sentence: a generation announced as committed is
on the card; each finger's events form a gesture (DOWN, MOVEs, one UP or CANCEL);
an Android mutex is one native mutex, seen only while it is initialised; a
play command is heard and an old track is not; the GL driver is in the state the
engine asked for; what a file held before a power loss is used at most once or
kept; a string or a log line that several threads make at once comes out whole;
and the engine runs only from a whole image, across bridges that do not show.  The hazards behind those
sentences are listed, line by line, in `PROJECT.json`.

## 2. Modules

| module | what it is |
|---|---|
| `ProfileStreams` | the table of open saves, one step per compare-and-swap |
| `ProfileSync` | extends it with `sync_profile_storage()`, the worker, the main loop, clock and card |
| `DurableSave` | the promise: numbered saves, a flush, an announced checkpoint |
| `StreamProofs` | theorems about `ProfileStreams` |
| `ProfileProofs` | theorems about `ProfileSync`; extends `StreamProofs` |
| `TouchPipeline` | sampler thread, frame thread and the game's view of each pointer |
| `TouchProofs` | theorems about `TouchPipeline` |
| `PadCursor` | the pad half of a frame and when its cursor is drawn; the front touch is an input |
| `UiContext` | the walk over the engine's screens against an engine that opens, closes and reuses them |
| `NativeReads` | the address arithmetic and the reads under that walk |
| `PthrBridge` | the bridge's calls, step by step between two accesses other threads can see |
| `PthrProofs` | theorems about `PthrBridge` |
| `PthrThreads` | worker slots, once, semaphores, the start-up barrier |
| `MusicPlayer` | commands and decoder, one atomic access per step |
| `GLStateCache`, `PlainGL` | the wrappers that leave calls out, and GL without them |
| `LiveProofs` | theorems about `MusicPlayer`, `PthrThreads` and `TickWatchdog` |
| `StartUp` | version picker, choice file, check of data and fingerprint, load and link, `config.txt`, clean exit; power losses |
| `Preferences` | the read-modify-write of `preferences.bin`; power losses |
| `AssetFile` | an `AAsset` over a stdio stream |
| `JavaMethods` | calls by name and number |
| `JavaBridge` | `java.io.File` and the conversions of its path |
| `JavaStrings` | the two forms of a string and the threads that convert and read it |
| `JavaObjects` | what local and global references, arrays and fields lead to |
| `Logger` | the lines of several threads through two shared buffers |
| `Calendar` | 64-bit dates on a 32-bit `time_t` |
| `CalendarProofs` | theorems about `Calendar` |
| `TickWatchdog` | tick accounts, stages and the thread that reads them |
| `Loader` | from the file to the engine's entry points |
| `CallsiteBridge`, `PhaseProbe` | registers through the assembler bridges; the profiler behind them |
| `ServiceProofs` | theorems about `AssetFile`, `PadCursor`, `StartUp`, `Preferences`, `UiContext`, `JavaBridge`, `GLStateCache` (which implements `PlainGL`) and their union `MCServices` |
| `EngineProofs` | theorems about `Loader`, `CallsiteBridge`, `PhaseProbe`, `JavaStrings`, `Logger`, `NativeReads`, and about the union `MCEngine`; extends `PthrProofs` |
| `MCServices`, `MCLive`, `MCEngine` | unions of parts that share no state (section 3) |
| other `MC*` | symmetry sets and constant values for TLC |

Conventions: a *history* variable is read by properties and never by a guard of
the code's actions.  Operators in pairs (`PopThenLoad` and `LoadThenPop`) are a line of the code
and a plausible mistake in it; only the first is used, and `PROJECT.json` names
the property that notices when the second takes its place.

### 2.1 Profile saves

`ProfileStreams` has a program counter per thread: `Fopen`, `TrackSlot` (one slot
of `track_profile_write_stream()`), `CallFclose`, `UntrackSlot`, `Fclose`, `Stamp`,
`Bump`.  FILE addresses are recycled by the C library, for saves and for other
files; that is what makes the order of untracking and closing matter.
`unsynced`, `closing` and `stray` say what a loss of power would take: the saves
with a generation, those that wait for one, and data no generation counts.

`ProfileSync` splits `sync_profile_storage()` where another thread can get in:
`SyncEntry` (the check before the mutex), `SyncLock` (the second check, under it),
`IoSyncOk` or `IoSyncFail`, `SyncStore` or `SyncFailed`.  The worker's loop is split
at each shared read, because it reads the clock before the close time.
Timestamps are kept as ages and `Tick` ages them; the code's unsigned subtraction
is kept (`Elapsed`), so a close later than `now` wraps as it does in the code and
`quiet` is true at once.  The worker may therefore commit before the documented
quiet period is over (`main.c` 238); the properties hold all the same.

`DurableSave` is refined under `saves <- generation, volatile <- unsynced,
checkpoint <- committed`: announcing needs every announced save to be out of the
write cache, and a checkpoint never falls back.

Left out: `open()` without a stream (such saves are not tracked by the code
either), the wrap of the 32-bit generation after 2^32 saves, `sceIoSync` of other
files (only `sceIoSync` moves saves to the card here, which is the worst case).
Inside a callback on the main thread every file that is opened is also closed.
The watchdog's 3 s may end at any moment.

### 2.2 Front touch

A sample is a function from the contacts on the glass to their places.  The
sampler's loop is `SamplerRead`, `SamplerDown` (one early DOWN each), `SamplerPush`.
The frame thread goes through `FrameContext` (a new screen or not), `FrameCancel`,
`FrameDrop`, `FrameClear` (three separate steps, as the code cancels, drops the
queue and clears the flags without one lock), then `FrameHold`, `FrameRelease`,
`FramePop` or `FrameDrained`, and `FramePad`, after which `nativeTick()` runs.
`FramePeek` is the poll without a sampler thread.  `EventsOf` and `GestureAfter`
are `process_touch_sample()`; `down`, `misfit` and `fresh` are the game's view.

Left out: pressure, the order of contacts within one report, the 500 ms limit on
the hold of a strip drag (whether it has passed is open in `FrameRelease`), the
settings write behind the Low Graphics tile, the virtual cursor.  The panel gives
an id out again only when no sample with it is in flight; it has 128 of them.
Setting the flag of an early DOWN and sending it are one step, as is popping and
processing a sample; nothing between the two is visible to the other thread.

### 2.3 Mutexes and conditions

`word[o]` is the four bytes of an Android object: NULL (also the normal static
initializer), another static initializer, what other memory holds, or the address
of a native object.  A call is `Call`, `Check` (the fast path's look at the word),
and, if need be, `Enter`, `Lookup`, `NativeInit`, `Publish` and `Recheck` (the
static initialization and the second look), then the native call.  A destruction
is `Forget`, `Free`, `Clear`: the registry under the lock, the rest outside.
`Reuse` gives the memory of an object another content, as the game's allocator
does.  Allocation and native initialization may fail anywhere.

`Allowed` says which calls POSIX allows.  With `Forgetful` the callers may also
give a mutex away without `pthread_mutex_destroy()`, which costs nothing on Bionic;
only `pthr_reuse` runs them (`engine` has the others), and the proof of mutual
exclusion covers both.
Stores are seen in program order: the publishing store at `pthr.c` 446 is a plain
one, ordered in practice by the C library's lock around the code before it.
The kinds of a mutex are not told apart (every call is by a thread that is not
inside yet), a broadcast may miss sleepers (as the comment at `pthr.c` 785 reports),
and a call that reaches no live native object is noted in `misused` and returns
(`Misuse`, a case of `NativeCall`; `NoMisuse` says that careful callers never get there).

### 2.4 Pad and screens

A frame of `PadCursor` is a round of phases in the order of the code: the screen
change, the front touch (an input), the pad sample, Circle, Start, Cross and R,
Select and the tile, and the drawing, which is when an idle cursor hides.
`gamePointer` is what the engine believes of the synthetic pointer, `startOutcome`
what a press of START has led to.  Of the cursor's place only "on the tile or not"
is kept, and whether a stick is out of its dead zone is an input.

`UiContext` keeps the engine's screens as a tree over recycled addresses; the
engine may open, close, disable and reuse them between two walks.  `PollSame` and
`PollChanged` are `ui_context_update()` with its path, its cache and its classes,
and with them what the touch layer does to a gesture that is under way.  RTTI
offsets and demangling are left out; classes have the bases that `MCServices`
gives them.

`NativeReads` is the layer below: `bounded_range_valid()` and the three sources of
memory it is asked about, with unsigned sums that wrap, and the reading of a
`std::string` of libc++ from them.  The engine writes to what is read meanwhile, so
each read gives any value, and the property is about addresses only.

### 2.5 Threads, once, semaphores

`PthrThreads` follows a worker through its slot field by field (`pthr.c` 119-200),
the operation that is recorded around each blocking call, `pthread_once()` with
its two stores, semaphores with a bounded number of tokens, and the wait of the
start-up barrier that the loader bounds because a broadcast may be lost.  The
native library and the engine's barrier are external.  `Passed` counts the rounds a
thread has been let through: bounded waits must let nobody through early
(`NobodyPassesEarly`) and everybody in the end (`BarrierPassed`).

### 2.6 Music

Each access of `active_player`, `active_playing` and `play_generation` is a step,
on both sides.  A track is a few grains.  `late[h]` counts the grains of `h` that
are output since the latest command that should have silenced `h`, and starts again
with each such command; `unheard` is the play of which no sample has reached the
port, which nothing but that sample or a newer command resets, and `fate` says
whether the decoder's iteration that began before it, or the track's own end,
has taken its flag away.

### 2.7 Files, settings, Java side, calendar

A file in `StartUp` and `Preferences` is a pair: what programs see, and what is on
the card; a loss of power falls back to the second, at any step.  `Preferences`
has a step each for opening, writing, syncing.  `AssetFile` compares the position
the loader keeps with the one of the stream.  `JavaBridge` keeps UTF-8 and UTF-16
units as pairs of a letter and a position, so that a string cut in the middle of
a letter is seen as such.  A thread may construct any number of Files and call
`mkdirs()` at any moment; the constructor that gets no characters empties the
thread's path (`FileConstructorFails`).  The File that `mkdirs()` is called on plays
no part in the code, so the property speaks of the thread's last one (section 4
says what happens to the others).  `Calendar` computes with the code's cycles, borrows
and C division; time zones and `asctime` are left out.

`JavaStrings` has a step for each access another thread can see: the test of the
UTF-8 field, the making of the array, the encoding, its final zero, the copy.  Each
reader of the characters converts again into the array the others read from, under
no lock; `met` marks a copy that another conversion overlapped.

`JavaObjects` is about what a reference leads to.  The fake has no collector: a
local or a global reference is the object, and `DeleteGlobalRef()` frees it.  The
engine is held to the rules of JNI and to nothing else, and that is enough to lead
it to freed memory (the run `references`).

`Logger` follows each line from the test of the mutex over its making, the two
buffers, the console and the file to the unlocking.  `sessionLine` says that the
session's first line, before there are other threads, could make the mutex.

`StartUp` checks what is installed (`libraries`, `assets`, `genuine`) and goes through
loading and linking with their fatal ends; what the loader does in between is `Loader`.

### 2.8 GL

`GLStateCache` keeps the driver's state `gl` beside the cache; a wrapper changes
`gl` only when the code passes the call on.  `PlainGL` applies each call.  The
refinement says that leaving calls out, deletions, the overlay and a new context
are invisible.  Calls that GL would refuse are left out, and so are shaders: their
cache on disk is off in the build (`CMakeLists.txt` 101), and without it the wrappers
only pass the source on.

### 2.9 Under the engine

`Loader` walks through `soloader_init_all()` with every failure: no file, a wrong
magic, no memory at any segment, too many segments, missing sections, an unknown
relocation, a missing symbol.  A word is a base and an offset, so that a word with
the address of the image, of an import or of the file is told apart.  A word that
refers into the middle of an import gets the import's beginning, as in the code
(`AddendDropped`): the relocation adds the addend, the resolution then stores over it.

`CallsiteBridge` executes the three bridges from call to call.  A register holds
the name of a value, so that any loss shows; each call leaves junk where the
procedure call standard allows it.  `PhaseProbe` runs the profiler's begin, enter,
exit and end through any placement of the calls within a tick, with a clock that
moves at will.

## 3. Runs

| run | question | bounds and why they are enough |
|---|---|---|
| `services` | do nine services under the engine keep their promises, each explored alone? | saves: three threads, so that two can move around a third's scan, three addresses in two slots, so that the table overflows and addresses are recycled; start: two picks, two toggles, one loss of power; preferences: two writers, three stores, a table of two entries and a key that does not fit; assets: two of two bytes, seeks and reads beyond them; Java: two threads of two Files each, whose constructors may fail, a buffer shorter than two of the paths; calendar: the seconds around month edges of 22 years and the ends of `time_t`; pad: two buttons held at a time, a START hold of two frames, the cursor on or off the tile and shown or hidden; screens: two addresses and three openings, so that an address is reused; GL: four calls, among them one outside each cached range |
| `sync` | is what is announced on the card; does the bridge implement `DurableSave`? | main, an engine thread and the worker; two saves, so that one can finish while the other is committed; every interval is one tick, ages above two are alike |
| `live` | is every save committed, every play heard, every waiter at the barrier let through, and none too early, every hang reported; is no old track heard? | one save with and without the worker and any number of failed syncs; two commanders with four commands on two handles; two workers with one slot, two rounds of the barrier; two ticks |
| `exit_watchdog` | is storage committed before the watchdog starts? (no) | as `sync` |
| `touch` | do the two threads send well-formed gestures, lose no tap, and keep a release out of the frame of its DOWN? | two fingers, two places, a queue of two, four samples, two screen changes: overflow, coalescing and a change between any two steps occur |
| `touch_live` | does each release arrive; does a placement drag end with UP? | one finger, three places (one a small move from another), five samples, three screen changes |
| `touch_replay`, `touch_held`, `touch_phantom` | do the comments on suppressed contacts hold? (no) | as `touch` or `touch_live` |
| `pthr_reuse` | is a usable object always served when memory is reused without a destruction? (no) | two threads, two mutexes, a condition |
| `references` | does a reference that JNI lets an engine keep always lead to a live object? (no) | two threads, two blocks for three objects, so that a freed one is given to another; two global references to one object |
| `engine` | do seven parts under the engine keep theirs, each explored alone? | loader: 64 files, whole and broken in each way, of both versions, an entry that the table has twice, one that it lacks and one referred to with an addend, two data segments where three may be asked for; bridges: deltas on each side of zero, 1/30 and one second; probe: four ticks, four units of time, samples every third tick; strings: two threads on one string, made in either way, wide or not; log: the main thread and another, with and without a first line; reads: 64 addresses, so that sums wrap, with segments next to address zero, next to each other and next to the last one, a segment more than the loader keeps and a name as long as its room; mutexes: three threads (one builds, one destroys, one uses), two mutexes and a condition in a registry of two, so that it fills up, three native objects, so that a freed one is given to another |

`services`, `live` and `engine` are unions.  Their parts share no variable, none
calls or waits for another, and `part` chooses one for a whole behaviour: the
states are those of each part alone, and interleaving them would add products
of states and no new state of any part.  The fairness of a part is required in
its own behaviours only (`LiveFair`).

`MaxSaves`, `AgeCap`, `MaxStall`, `MaxSamples`, `MaxChanges`, `MaxPicks`, `MaxToggles`,
`MaxLosses`, `MaxStores`, `MaxCuts`, `MaxSize`, `MaxSeek`, `MaxCount`, `MaxFiles`, `MaxHeld`,
`MaxOpens`, `MaxDepth`, `MaxPath`, `MaxCalls`, `MaxCommands`, `MaxRounds`, `MaxTokens`, `MaxTicks`,
`MaxTick`, `MaxNow`, `MaxMade` and `MaxRefs` are bounds of the models; `SlotCount`,
`Capacity`, `PhaseLimit`, the retries, `Slots`, `MaxEntries`, `PathBytes`, `HoldFrames`,
`MaxThreads`, `Hang`, `Poll`, `MaxDataSeg`, `MaxSegments`, `Word`, `FirstAddress`,
`StringSize`, `LongestName`, `OutputSize`, `NameOffset`, `Periodic`, `Cooldown`, `SlowTick`, `OneFrame`,
`OneSecond` and the times are the code's constants made small.  `AgeCap` is at least
each interval plus `MaxStall`, the longest time the worker may sit between reading
the clock and using it, so that capping an age decides no comparison.  Deadlock
is checked in `sync`, `live` and the touch runs up to their bounds.  It is not
checked for `PthrBridge`, whose callers may stop one another by their own locking
order, nor in `services`, `engine` and `references`, whose parts end at their bounds
or in a fatal error.

### Properties

* Profile: `TableHoldsOpenSaves`, `RoomMeansTracked`; `CommittedIsDurable`,
  `CommittedAdvances`, `ForcedCommitDelivers`, `ImplementsDurableSave`, `EverySaveCommitted`.
* Touch, pad, screens: `PointersFit`, `NoStuckPointer`, `NoTapLost`, `ReleaseWaitsAFrame`,
  `PlacementCompletes`, `ReleasesArrive`; `PadPointerSound`, `StartDecidesOnce`; `OldDownStaysOut`.
* pthread bridge: `MutualExclusion`, `NoMisuse`, `RegistryExact`, `NothingLeaks`;
  `SlotFieldsOwned`, `NobodyPassesEarly`, `BarrierPassed`.
* Music: `AtMostOneLateGrain`, `PlayIsHeard`.  GL: `ImplementsPlainGL`.
* Files and Java: `ChoiceUsedOnce`, `LowGraphicsKept`, `PreferencesKept`, `NeverBeyondEnd`,
  `MkdirsMakesItsFile`, `DatesComeBack`, `CharactersComeWhole`.
* Under the engine: `OnlyWholeImagesRun`, `BridgesAreTransparent`, `NestedTimesFit`,
  `ReadsStayInside`, `OneLineAtATime`.  Watchdog: `HangIsReported`.

`ServicesTypeOK` joins the type invariants of its parts; those of the other modules
are proved and not run (section 5), but for the parts of `MCEngine`, whose
invariants contain them.  Each property is stated in words where it is defined.

### Fairness

For saves, `live` assumes weak fairness of time, of the worker and of the main loop: the
Vita schedules every ready thread and neither loop blocks outside the steps
shown.  Strong fairness of "a native callback returns" is needed because the
callback may open and close files for as long as it likes, which disables its
return over and over; strong fairness of a successful `sceIoSync` says that a card
asked again and again answers in the end.  The mutex is not fair.  With the
worker missing, `EverySaveCommitted` excuses a system UI that stays open, as the
fallback runs in the main loop only.

The decoder thread and a command that has begun go on (`DecoderStep`,
`CommandStep`); nobody has to give a command.  At the barrier the bounded wait ends
and the thread then looks again (`BoundedWaitEnds`, `BarrierCheck`); broadcasts may be
lost, and whether a thread comes to the barrier at all is open.  The watchdog
thread runs and time passes (`DogStep`, `TimePasses`); a tick need not end.

`touch_live` assumes weak fairness of the frame loop and of the sampler finishing
the sample it has read.  Nothing obliges the finger to move or to lift.

## 4. What the runs found

* **Cancelled drags are replayed** (`touch_replay`, `controls.c` 436).  The hold of
  a release replays the newest MOVE of every unclaimed drag without looking at
  `cancelled_touch_ids[]`, against the comment at `controls.c` 824-827.
* **A finger known only from the queue is not suppressed** (`touch_held`,
  `controls.c` 804).  At a screen change its samples are dropped, and its next one
  is a new DOWN on the new screen, against the comment at `controls.c` 801-803.
* **A dropped release leaves its contact behind** (`touch_phantom`, `controls.c` 804).
  The cursor stays hidden and Cross and R stay dead until the next touch.
* **The watchdog may start with nothing committed** (`exit_watchdog`, `main.c` 529).
  The result of the first commit of a clean exit is ignored, against the comment
  at `main.c` 520.
* **Reused mutexes are refused** (`pthr_reuse`, `pthr.c` 600).  The registry knows an
  object by its address only.  A mutex in memory that held another one which was
  never destroyed is found there, keeps its NULL word, and every lock returns EINVAL.
* **A deleted reference frees the object under the others** (`references`,
  `FalsoJNI.c` 198).  A global reference is the object, which the comment at
  `FalsoJNI.c` 191-193 calls safe; the first `DeleteGlobalRef()` frees it, whoever else
  has a reference, and may hand `free()` a handle that is no block.

Each is a behaviour of the model; whether the engine ever forgets to destroy a
mutex, or keeps a second reference, or a player notices a late MOVE, is not decided here.

### Observations

Met while modelling.  No document says otherwise, or no run isolates it.

* Music: a track that ends, or a failed open, clears `active_playing` even when a
  newer play has set it (`music.c` 144); that play is never heard.  A one-shot track
  that has ended is not rewound by a play of the same handle, which is not heard
  either (`music.c` 255), and a file that could not be opened is not tried again for
  the same command.  An unloaded track keeps its handle until no track is left
  (`music.c` 215).
* Touch: an early DOWN whose samples a screen change or an overflow drops is never
  followed by UP or CANCEL (`controls.c` 277): its pointer stays down in the game until
  a later contact of the same number ends.  `NoStuckPointer` excepts those pointers.
* Threads: `pthread_exit` does not go through the trampoline, so it leaves the worker's
  slot in use (`dynlib.c` 885).  The second caller of `pthread_once` may return before
  the first one's routine has ended (`pthr.c` 923).  `sem_timedwait` gives up after
  1 ms if its deadline is in the future, and waits for a negative time read
  as unsigned if it has passed (`pthr.c` 995-999).
  `pthread_attr_getdetachstate` always answers joinable (`bionic.c` 94).
* Preferences: overlapping stores overwrite each other's entries (`java.c` 226),
  a read during a store sees a truncated file, and a key of 64 characters or more
  is never found again, so that each store of it adds an entry.
* Assets: after a seek beyond the end the remaining length is negative or huge
  (`asset_manager.cpp` 255).
* Time: `gmtime64` and `localtime64` share one static result between all threads
  (`time64.c` 794-800; `dynlib.c` 1036-1039).  `__epoch` (`reimpl/sys.c` 40) is 9506 s less
  than the 62135596800 s from year 1 to 1970.
* Screens: an object opened at the address of a closed one is taken for it as
  long as the path reads the same (`ui_context.c`).
* Java: a second File constructed on the same thread before `mkdirs()` of the first, or
  a File of another thread, makes the directory of the calling thread's last File
  (`java.c` 38-52, 85-96).
  `GetStringLength` and `GetStringUTFLength` answer in other units than their names
  say.  `NewString` leaves room for one byte per unit, so that what is not ASCII is cut;
  `GetStringRegion` and `GetStringUTFRegion` copy from the array's descriptor instead of
  its characters.  Threads that ask for the characters of one string convert it again
  into the array the others read (`FalsoJNI_ImplBridge.c` 348): for a string of
  `NewString` one may get a half-made text, and for a wide one of `NewStringUTF` a text
  without its end.  The functions that end in A pass arguments nobody set
  (`FalsoJNI_ImplBridge.c` 371).  An unknown field name gives the id of `WINDOW_SERVICE`.
  `MonitorEnter` does nothing.  Local references and the arrays of strings are never freed.
* Logger: in a package without a log, or when the mutex of the first line could not be
  made, two threads may make it at once (`utils/logger.c` 109, 127): their lines mix, or
  one waits for a mutex that was replaced.
* Loader: a file with too many data segments is freed and answered with a positive
  result (`so_util.c` 191), which `utils/init.c` 84 takes for success; only the later test
  of the exception index stops the start.  A failed allocation leaves the file open
  (`so_util.c` 340).  The range test for a missing import adds the address of an
  array (`so_util.c` 419).  The addend of an `ABS32` import is lost (`so_util.c` 488), which
  type_infos that import the vtables of `dynlib.c` 148-150 need: `ui_context.c` 329-334
  looks for those vtables plus eight, which such a word never holds.  By its comment
  (343) both supported builds have vtables of their own.  A THUMB hook at an odd half-word loses two bytes.
* GL: `glClearColorx` goes past the cache (`dynlib.c` 624).  `glShaderSource` with no
  source makes the next compilation be left out.
* Imports: `lseek64` does nothing (`dynlib.c` 536); with `USE_SCELIBC_IO` streams of one
  library meet descriptors of another; `setjmp` and `longjmp` are newlib's
  (`dynlib.c` 1096-1097) although `jmp.c` 1-5 calls the two layouts of a `jmp_buf`
  incompatible and provides the pair `_setjmp`, `_longjmp` for that reason, so that a
  buffer filled by one pair must not be used by the other; `readdir` shares one static
  entry between all directories.

## 5. What is proved

TLAPS checks the theorems for all values of the constants that satisfy the
modules' assumptions.

`ProfileProofs` (`TypeCorrect`, `CommittedSurvives`, `CommitsAdvance`,
`ForcedDelivers`, `BridgeImplementsPromise`).  `CommittedIsDurable` is not inductive:
one must know why the generation a commit announces has no data left in the
cache.  `DurableInv` adds that the mutex is held exactly in the critical section,
that the generation read there lies between the committed and the current one,
that after a successful sync every save still in the cache has a larger number,
and that a caller outside a commit is in none of its steps.  `ForcedInv`
says that what was at risk when a forced commit was requested is on the card once
its `sceIoSync` has succeeded.  The refinement follows:
`IoSyncOk` is a flush, `SyncStore` an announcement, `Bump` a finished save, and all
else stutters.

`StreamProofs` has the table of open saves (`StreamsTypeCorrect`, `TableIsHonest`,
`FullTableIsHonest`); `BridgeTableIsHonest` in `ProfileProofs` carries it over to
`ProfileSync`.  A scan sees one slot per step while other threads fill and empty slots, so the proof says what a scan knows of
the slots it has passed.  `TableInv`: a stream is in the table at most once
and has one owner, and a scan that looks for a held stream has not passed its slot.
`CrowdInv`: the saves at or behind a slot, those that still look for one there and
those that found none, together with the slots before it, are never more than
were open at once.  So a save that found no slot means that more than
`SlotCount` were.

`PthrProofs` (`TypeCorrect`, `MutualExclusionHolds`, `RegistryLockReleased`), with or
without destruction.  `IInv` links the parts: the holder of the registry's lock
is the one thread that builds (`HolderInv`); a word that is a pointer belongs to a
registered object or to one in destruction, leads to a live native object, and no
two do to the same (`LinkInv`); an object under construction belongs to nobody yet
(`BuildInv`); nobody uses what is initialised or destroyed (`ExclusiveInv`); a
thread inside a mutex owns the native mutex its word leads to (`OwnerInv`).  Mutual
exclusion is the last with "one word, one owner".

In the same module, if objects are destroyed before their memory is reused:
`NoMisuseHolds`, `UsableServedHolds`, `RegistryExactHolds`, `NothingLeaksHolds`.  `UseInv` adds, relative to
`IInv`, that a registered object is usable or on its way in or out, that a usable
one which is not registered holds a static initializer, and that what a thread is
about to call is registered.  That is what the second look at the word and the
fast path without the lock rely on.  `LeakInv` ties each native object in use to a
linked object or to its builder.

`LiveProofs`.  `OneLateGrain` rests on `LateInv`: a track that has put out its late
grain since it was silenced is not about to be decoded, for the decoder first looks at
the generation and at the active player, or has found that track active but not
playing.  `SlotsAreOwned` rests on `SlotInv`: the id in a slot is that of the
thread that looks after it, and a slot is given back only when all it
said of its thread is gone.  `BarrierHolds` rests on `BarrierInv`: the barrier's
counter is the number of those who have yet to come to the present round, everybody has
come to each round before it, and nobody waits for a later one.
`WatchTypeCorrect`: the watchdog never reports a tick that has not begun.

`ServiceProofs`.  `AssetsReadInside`: the loader's position and the stream's agree,
and no read goes beyond the end.  `PadPointerIsSound` and `StartHasOneOutcome`: the synthetic
pointer is down for the engine exactly while the code thinks so, and in each phase of
a frame one knows which buttons, the old or the new, account for it, and that the
cursor that holds it down is shown (`PointerInv`, `StartInv`).  `ChoicesAreOneShot`
and `GraphicsChoiceKept`: for each place where power can be lost, what the card and the
programs see of the choice file and of `config.txt` (`PickInv`, `GraphicsInv`).
`PreferencesAreKept`: as long as no two stores have overlapped, the one that is under
way holds the whole table (`PrefInv`); `TablesHaveRoom` and `PrefTypeCorrect` say that
no table outgrows the array.

`CacheTruthful` and `WrappersImplementGL`, in the same module, are about GL.
`CacheInv`: wherever the cache holds a value it is the one in `gl`, and a binding or a
pointer is cached only while the unit or the buffer it was made with is known.  Each
wrapper then takes the step of `PlainGL`, or leaves a call out whose step there
changes nothing.

`OldDownsStayOut` (and `ScreensTypeCorrect`), in the same module, is about the screens.
The loader knows a screen by its address, so one has to know that what the address
leads to has not changed.  `TreeInv`: a screen has one parent, and a closed one no
children.  It makes the path to a screen unique (`OnePath`), and the engine, which
links only what it opens, cannot give a living screen another path.  `SeenInv`: unless
a screen was opened at the address seen last, that screen has the name and every
path to it the classification that the loader recorded.  `VisitedInv`: a gesture that
lives has been delivered on the recorded screen alone, or it and the record have seen
the placement pair only.

`MkdirsReportsItsFile`, in the same module too: a name survives the way to UTF-16 and
back, for every text.  The loops of the conversions are one recursive function
(`Joined`); `JoinedStepwise` unfolds it step by step and the rest argues by the least
step that goes wrong.  Four bytes are enough for a letter (`AllBytes`), its units fit
where its bytes do (`AllUnits`), the units in front give the letters back whatever lies
behind them (`UnitsBack`), and a longer text has the same bytes in front
(`BytesAgain`).  `JavaInv` then follows the name through the string and the thread's
buffer to the directory; that the thread's path is empty after a constructor without
characters is what keeps an older name out.  Assumed: paths are sequences of letters, i.e. valid UTF-8.

`CalendarProofs` (`DatesAlwaysComeBack`, `CalendarTypeCorrect`), for every instant of a
`time_t`.  The table
`DaysSince` counts the leap years one by one; `DaysCounted` gives it the closed form
`NewYear`, by the least year for which that fails.  Then a loop over years, which stops at
the first year that what is left fits in, stops in the year of the day (`YearsOnStop`, `YearsBackStop`), and
no 32-bit instant is a whole cycle of 400 years from an anchor (`NoWholeCycle`).
`GmtimeFields`: C's quotients, rounded towards zero, with the borrows of `WRAP` are
those rounded down.  `DateOfInstant` goes back from the date to the instant and on to the
next midnight, which overflows on the last day alone.

`EngineProofs`.  `EngineStartsWhole`: `BlocksInv`, `WordsInv` and `CodeInv` say of each
stage what has been allocated, relocated, resolved and patched; every failure ends
elsewhere.
`BridgesDoNotShow`: at each instruction group, where the values that must survive a
call are (`BridgeInv`).  `SampledTimesNest`: the profiler's sums and open spans fit into
one another, whatever the clock does (`ProbeInv`).
`StringsComeWhole`: `StringsInv` says what each array of a string may hold beside the
conversions that are under way, and that a copy during which none was is whole.
`LinesComeWhole`: after a first line that could make the mutex, nobody makes another,
and the two buffers belong to its owner (`LogInv`).  `ReadsAreInside`: the unsigned
comparisons admit an address only if all bytes asked for lie in one block
(`ValidIsInside`), and the lengths used are those that were compared (`ReadsInv`).

`TouchProofs` (`GesturesFit`, `PointersComeUp`, `TapsAreSeen`, `ReleasesWait`,
`PlacementsComplete`).  The properties speak of what the game has been told; `TouchInv` ties that
to the two threads.  `SamplerInv`: a contact whose early DOWN is still to be sent is in
no sample the frame thread can see.  `FlagsInv`: the flag of an early DOWN, and a
contact the frame thread has not been told of, belong to a sample on its way.
`ViewInv`: a pointer is down for the game exactly if it is in the last processed sample
and not cancelled, or its early DOWN is flagged.  `LastInv`: the newest sample on its
way is the sampler's previous one, which is why a pointer that is still down when all
is settled is one whose samples were dropped.  `FreshInv` says which pointers went down in
this frame, `PlacingInv` which gesture opened the placement screen.  Contacts in
`lost` are those whose samples were dropped behind an early DOWN (section 4); the
properties that except them say so.

The unions.  `UnionIsItsParts` and `EngineIsItsParts`: a behaviour of `ServicesSpec`
is one of each of the nine services, and one of `EngineSpec` is one of each of the seven
parts below the engine, `PthrBridge` among them.  So what is proved of a part
alone is what TLC checks in the union: `ServicesAreSafe`, `EngineIsSafe` and, for music
and threads, `LiveIsSafe` state it; `ServicesTypeCorrect` joins the type invariants.

`UsableServed` is proved for callers that destroy what they reuse, and run
(`pthr_reuse`) for those that do not.  `RegistryLockReleased` states `HolderBuilds`,
which is proved only: each error path gives the registry's lock back.

The theorems assume what section 2.3 lists, and facts about constants that are
`ASSUME`d in the modules and evaluated by TLC in the runs.  Two of them say
something of the code's surroundings: an ELF file has at most one executable segment
(`LoaderAssumption`), and a segment or heap has its bounds among the addresses, though
its end may be past the last one (`SegmentsAssumption`).

What the proofs changed: `AtMostOneLateGrain` used to count all late grains
of a track and held only because a run has few commands; it now counts
since the command that silences the track, which is what the code ensures.
`Loader`'s `Resolved` had two cases that overlapped.

Every safety invariant, action property and refinement that a passing run checks is
a theorem.  Model-checked only is liveness, which is out of the prover's reach:
`EverySaveCommitted`, `PlayIsHeard`, `BarrierPassed`, `HangIsReported`, `ReleasesArrive`.
So are the counterexamples of section 4, which are single behaviours.

## 6. Plan

Done: every part of section 1 that section 7 does not list, the promises
`DurableSave` and `PlainGL`, and the proofs of section 5.

Possible next: a composition of `PadCursor` with `TouchPipeline`, which would replace the
pad's input by the pipeline's output; `PadPointerIsSound` holds for any input, so it
adds no new step of the pad.  The stage hooks of a debug build.

## 7. Not modelled

* The import table of `dynlib.c`, a list of about 900 addresses: whether each entry is the
  right one is not a question of behaviour.  Reading it showed what section 4 says.
* What `controls_draw_cursor()` draws, and the three readings of `poll_stick()`, whose
  event reaches a handler that does nothing.
* Straight-line start-up (clocks, `vglInit`, modules), the telemetry of the main loop and
  its JNI entry points that only answer.
* Host-side build scripts, log analysis and source checks.
* libc shims without state, `elf.h` and `jni.h`, which are declarations.
* In the loader `so_mem_load`, linking a second module, the arenas and the
  LDMIA trampolines: nothing in this program calls them.
* The stage hooks that a debug build puts around engine functions with `SO_CONTINUE`:
  `Loader` installs them, nothing runs them.
* The shader cache on disk and shader programs; the listing of asset directories.
* Values of numeric fields and array elements of the Java side; JNI functions that
  answer a constant.
* Kinds of mutexes, thread attributes, volume and resampling, time zones, pressure
  of a touch.
