# Verification project for daw-project

The formal model of the collaborative DAW in this repository: TLA+ modules for
the parts whose correctness depends on the order in which threads, processes,
tabs and servers act, TLC configurations that check them on small instances,
and TLAPS proofs of results that hold for every instance.

- [The system](#the-system): inventory of parts, state, operations, interactions
- [Modules](#modules): what is modelled, and how it corresponds to the code
- [Runs](#runs): what each run checks and shows, bounds, fairness
- [Counterexamples](#counterexamples): where the code and its comments disagree
- [Proofs](#proofs): what holds for every instance, and why
- [Not modelled](#not-modelled) and [Plan](#plan)

To check a run, `tlc -config GraphRetirement.cfg MCGraphRetirement` in this
directory; to check the proofs, `tlapm GraphRetirement_proofs.tla`.

## The system

Three programs. The **engine** (`engine/`, C++) plays the project: an audio
callback, a control loop, a network client, a local WebSocket server, and one
child process per VST3 plugin. The **server** (`server/`, Rust) stores one
Automerge document per project and relays changes. The **web client** (`web/`,
TypeScript) edits the document, drives the engine over its WebSocket, and talks
to its peers through the server.

| Part | State it keeps | Operations | Why it is hard |
|---|---|---|---|
| Audio callback (`audio_callback.cpp`) | generation, transport atomics, session clock | one call per device period: pop commands, load the graph, loop policy, sub-blocks, telemetry | never locks, races the control loop on every atomic |
| Control loop (`main.cpp`) | current graph, retirement queue, eviction set, capture deadlines | build and swap graphs, free, evict and restart children, switch project, capture plugin state | shares everything with every other thread |
| Graph and registry (`audio_graph.cpp`, `plugin_registry.h`) | nodes with raw ring pointers, plugin handles | process, copy monitor state to the next graph | freed by one thread, used by another |
| Session slots (`audio_graph.cpp`, `midi_schedule.h`) | launched and queued slot of each track, count of engaged tracks, grid of the first launch, session clock | launch, quantised launch, stop, promote, play the looped notes | written by connection threads and the callback; positions are integers modulo a loop |
| Musical time (`tempo.h`, `tempo.ts`, `resolve_time.cpp`, `automation.h`, `automation.ts`) | none | ticks to samples and back, clips, notes, the session's bar, the value of a lane | integers, in two languages that must agree |
| Plugin bridge and child (`plugin_bridge.cpp`, `plugin_host_main.cpp`, `proxy_node.cpp`) | shared segment: audio slots with stamps, parameter and MIDI queues, heartbeat | deposit, collect, serve, push, drain, restart cold | two processes without a lock, either may stop at any instruction |
| Rings (`ring_buffer.h`, `tap_ring.h`) | two masked indices, a buffer | push, pop | correct for one pusher and one popper only |
| Transport (`transport_state.h`) | position, play flag, loop braces, content end, user-region flag | commands, end of content, follow the content, project switch | several atomics that belong together, written by two threads |
| Engine document (`automerge_document.cpp`) | the Automerge document, its projection | apply change, merge, read, write captured state | bounds and defaults, twice (C++ and TypeScript) |
| Sync server (`websocket.rs`, `file_store.rs`, `sync.rs`) | project files, `store_lock`, sessions, broadcast channels | open, seed, receive, apply, persist, broadcast, relay signals, leave | tasks aborted at an await, file operations that go on without them, crashes |
| Tab document (`project.ts`, `undo.ts`) | document, undo and redo stacks, open group | some fifty mutators, each capturing its inverse; undo, redo, groups | inverses replayed later, over other replicas' changes |
| Gestures and screen (`gestures.ts`, `piano_roll.ts`, `automation_lane.ts`, `render.ts`, `*_reorder.ts`, `clip_selection.ts`...) | the gesture under way, the page (a cache of the document), the selection | pointer down, move, release, Escape; commands; render | spread over many turns, while others change what it took hold of |
| Tab network (`server_client.ts`, `wiring.ts`) | outbox and its localStorage keys, verification cycles, resync timer | send, queue, adopt orphan queues, flush, adopt or merge or push a first document, resync | lost sends, late sessions, several tabs on one storage |
| Engine network (`engine/src/network/server_client.cpp`) | reconnection back-off, waiting changes | send change, receive, merge | no queue while disconnected |
| Jam and shared transport (`jam.ts`, `transport_sync.ts`, `session_clock.ts`, `presence.ts`) | clock offset, anchors, peer connections, fan-out | estimate, publish, follow, rejoin, signal | relay that drops and reorders; asynchronous handlers |
| Engine client (`engine_client.ts`, `project_guard.ts`, `loop_region.ts`, `export.ts`) | connection to the engine, token, reconnection timer, loop button and region, banner, export button | connect, close, refresh, re-assert, command, switch project, export | close events of connections already left; an engine that restarts knows nothing; other tabs use it too |
| Protocol (`messages.proto`, `messages.ts`, `protocol.ts`) | none | write and read frames, choose the payload | the two ends are updated apart |

How they interact. The tab changes its document and sends the change to the
server; the server stores it and broadcasts it to the other sessions of the
project; an engine applies it, bumps `doc_version`, and its control loop builds
a graph from a snapshot of the document and hands it to the callback; the graph's
proxy nodes talk to the plugin children through shared memory. Commands go from
the tab straight to the engine's WebSocket server, whose connection threads push
them into a ring that the callback drains; telemetry comes back through another.
A signal channel of the server relays presence, clock and jam messages without
storing them.

What makes the parts correct, one line each:

- no thread follows a pointer to a freed graph, or to a ring that was unmapped;
  retired graphs are freed, removed children stopped, the last edit is heard;
- the proxy never returns a stale or mixed block, events are lost only from the
  old end of a full queue, and a restart resumes;
- what the ring accepted comes out, once and in order;
- playback is continuous over loops, seeks and concurrent braces; it ends;
- what was broadcast is on disk, the file can always be read, a stored change
  has its past, every request is answered, no error keeps the lock;
- every replica ends with every change, whatever broke; nobody loses own work;
- a queued change survives kills; what a dead tab queued is delivered;
- an undo restores what the user saw, and takes away nothing of others; a gesture is
  one undo, however it ends; the page shows what there is;
- a tab has one connection to the engine, and gets it back; the engine comes to do
  what the tab shows;
- audio connections between tabs are neither leaked nor torn down by a retry, and
  all engines that heard the newest anchor follow it;
- a queued slot starts on the grid, whole; an instrument holds no note its slot does
  not hold; positions in ticks and in samples agree.

## Modules

Every action stands for one step that other actors can interleave with: one
access to shared memory where threads share it without a lock, one await-to-await
stretch in the server, one turn of the event loop in a tab. Program counters
(`pc`, `cpc`, `wpc`...) say where an actor stands between two such steps. Data is
reduced to what the properties tell apart: a block of audio is its number, a
change is a number or a model value, a document a set of changes, except in
`ProjectEdits`, where the fields of the document are the point.

### GraphRetirement: the hand-over of the audio graph

Four kinds of actors. The callback: `CallbackEnter` (generation becomes odd),
`CallbackLoad` (raw pointer), `CallbackExit`. A WebSocket connection thread:
`ReaderAcquire` and `ReaderRelease` of a `shared_ptr` copy. The network thread:
`ApplyChange` to the document, then `BumpVersion`. The control loop, one program
counter over `main.cpp`'s loop: `BeginRebuild`/`NoRebuild` (reads `doc_version`),
`TakeSnapshot`, `BuildGraph` (which pulls plugin handles into the registry),
`SwapSlot`, `SwapRaw`, `Retire` (generation snapshot after the raw exchange),
`Reclaim` (`isRetireSafe`: no callback was inside at the swap, or the generation has
moved since, or the device is stopped; and no other owner), `Evict` (staged: only with an empty retirement queue, kept set
remembered when the graph was built, telemetry rewired first), `PollTelemetry`,
`BeginShutdown`, `FinishShutdown`, and `SwitchProject`, which empties the document without
bumping `doc_version` (what it empties is not rebuilt): the client then connects again (`netPc` is "away")
and the state it receives is a change like another. `retired` maps to `retired_graphs`, `alive` to
allocated graphs, `uses` and `content` to what a graph's proxy nodes point at,
`registry` to `PluginInstanceRegistry`. An address that was freed is built at
again, as malloc does. The accesses are totally ordered: the swap, the increment
and the snapshot are `seq_cst` in the code. The branch of a failed build (`main.cpp:1750`) is left out:
`buildGraph` always returns a graph.

### ProxyPipeline: audio between callback and plugin child

`BeginBlock`, `DepositHalf` (a block is copied in two halves), `StampInput`,
`PublishInput`, `Choose` (wet if the slot's stamp is the wanted block, else dry, or
bypass when the dead path applies), `CopyHalf` are `ProxyNode::process`; `PollInput`,
`EndBacklog`, `SkipOverwritten`, `BeginProcess`, `ProcessHalf`, `PublishOutput` are the
`--serve` loop of the child, catch-up window included. `ChildDies` at any step,
`ChildRestarts` on the same segment: stamps, inputs and outputs of the old life
stay. Slots, `Depth` and the halves are `kRingSlots`, the depth `proxyDepthFor`
grants, and the smallest number of accesses a copy can be torn between.

### OverwriteFifo and LossyFifo: parameter and MIDI channels

`OverwriteFifo` has the writer (`BeginPush`, `MakeRoom` - the compare-exchange that
advances the reader's index -, `WriteFirst`, `WriteSecond`, `PublishPush`) and the
reader (`BeginPop`, `ReadFirst`, `ReadSecond`, `Claim` - its own compare-exchange -),
field by field, and the reader's death and restart. `LossyFifo` is what is promised:
append, lose the oldest only when full, deliver the oldest. The refinement maps
its queue to the slots between the two indices.

### SpscRing and BoundedFifo: command, telemetry and live MIDI rings

`LoadHead`, `CheckFull`, `WriteSlot`, `PublishHead` for each pusher, `LoadTail`,
`ReadSlot`, `PublishTail` for the consumer. The set `Pusher` is a parameter: the
ring's header allows one, the command ring has more. `BoundedFifo` is the promise.

`MCRings` puts the audio thread between the two: it is the consumer of the command
ring and the writer of a child's channel, one operation at a time.

### TransportLoop: the transport and the loop policy

The callback: `CallbackEnter`, `PopCommand` (play, stop, seek, and the five stores of
a SetLoop: `LoopFlag`, `LoopContent`, `LoopStoreStart`, `LoopStoreEnd`, `LoopToggle`),
`LoadTransport`, `LoadStart`, `LoadEnd`, `Park`, `ProcessBlock` (wrap, cut to the brace
or to the end of the content), `LastBlock`, `PublishPosition`. The control loop: after a
rebuild `SetContentEnd`, `FollowContent`, `ControlStoreStart`, `ControlStoreEnd`; at a
project switch `BeginSwitch`, `SwitchSeek`, `SwitchFlag`, `SwitchContent`. `Send` pushes
a browser's command. Each atomic of `TransportState` is a variable and each of its
stores and loads a step; regions and seek targets include ill-formed ones (empty,
crossed, negative), which the code filters or clamps. Commands are taken in turn
from a queue: the ring itself is in SpscRing. `MCTransportLoop` is the instance TLC checks: it takes
the module in by `INSTANCE`, with `Block`, `Targets` and `playing` under other names
(`SubBlock`, `SeekTargets`, `running`), because SessionSlots uses them too and one module
proves about both.

### ProjectStore and DurableLog: the server's file

One session per connection with its own task: `Join`, `Load`, `StartWrite` of a seed,
`Receive`, `Read`, write, rename, `Publish`, `End`; the error paths `SendFails`,
`OpenFails`, `Refuse`, `PersistFails`; and the blocking pool: `Create` (truncate), `Fill`,
`Rename`, each able to fail (`CreateFails`, `FillFails`, `RenameFails`). An aborted task drops its lock guard while the pool
goes on with its operation - if `AbortMidFile` allows the abort to fall there.
`Crash` forgets everything but the disk. `DurableLog` promises that the stored set only
grows, each change after what it needs, and that only stored changes are announced.

### DocSync: replicas and their connections

`Make` (a local change, sent, queued or only applied, as tab and engine differ),
`Connect`, `Load` (the server subscribes, then reads the snapshot), `DocumentArrives`
(adopt, merge, push what the server lacks, owe verification cycles), `Receive` (hold
back what misses its past, set the resync timer), `ChangeArrives` at the server
(apply, store, refuse), `Broadcast`, `Resync`, `Drop` of a connection - the old session
lives on at the server and may still handle what was under way -, `Abandon`,
`Crash`. The broadcast channel is bounded and a slow receiver skips the oldest.
What is pushed goes up in causal order (`InOrder`).
Storing one change is one step here: its own interleavings are in ProjectStore,
whose `DurableBeforeBroadcast` and `LogSpec` justify the step.

### Outbox: the queue of a tab

`SendChange`, `Document` (the handler of the first document begins), `ReadKeys`,
`PersistMerged`, `RemoveKeys` (the three steps of an adoption), `Flush`, `Store` (the
server), `Drop`, `Open`, `Close` (a tab closed or killed at any step). `storage` is
localStorage, one key per tab. A queue is a set: nothing depends on its order,
since a change that arrives before its past is held back. `Parallel` says whether other tabs may touch the storage
during an adoption, `QuotaFails` whether a write may throw. `MCOutbox` is the instance TLC checks, by
`INSTANCE` as well: `life`, `wire`, `drops` and `MaxDrops` are `tabLife`, `handedOver`, `breaks` and
`MaxBreaks` there, the other names being EngineClient's.

### EngineClient and Protocol: a tab and its engine

`EngineClient` has the tab: `Connect` (within the actions that call it), `Opened`
(authenticate, then the button and the region asserted again), `Refused`, `Closed`
(one silent refresh of a stale token, else the timer), `Refreshed`, `RefreshFails`,
`TimerFires`, `TabReceives` (state, export status), `GuardPolls` and `ClaimEngine` (the
banner), `ToggleLoop`, `DrawRegion`, `ClearRegion`, `Export` with its belt `WatchFires` and its
download `FetchEnds`, `Reload`, `JoinEngine`, `VersionReload`; and the engine, another
process: `EngineStarts` (a new life has a new token, no loop, no region), `EngineDies`,
`EngineReceives`, `Broadcast`, `JobEnds`, `OtherTabExports`, `OtherTabSwitches`, and
connections that `Drop`. Frames are sequences on each socket. `Protocol` has the fields of every
message and `Encode` and `Decode`, with unknown fields skipped and defaults left out;
the sockets of `EngineClient` carry the frames themselves, and `MCEngineClient` checks apart, once for all
frames and for ends that know fewer or more fields, that each is understood as it was said.

### JamSession and SharedTransport: tabs that play together

`JamSession`: `PressJam`, `StreamReady`, `HearJoin`, `HearOffer`, `HearAnswer`, `HearBye`
(up to the await), `Described` (after it), `Connect`, `PeerLost` (the other end is gone), `NetworkFails` (one end only:
what was connected is "disconnected"), `Resume` (it is connected again or given up), `Retry`
(the 5 s timer), `Reconnect` (the relay loses what was under way), `Reload`. `SharedTransport` adds
anchors over the same relay: `ToggleSync`, `Play`, `Stop`, `TakeAnchor` (last writer
wins, ties to the larger id), `AnswerWhere` (rejoin), `RetryApply` of an anchor that waits for
a clock estimate, `Measure`, `EngineLinks`. A tab applies an anchor by driving its own engine; who
listens to a jam is not driven. Times are counted in things said (`Moment`): what a user does
is later than what was said before, unless an anchor is still under way to others and may have been said at
the same instant - then the tie goes to the larger id on both sides (`Newer`, `Older`). This is an assumption
on clocks and users, not a guard: `publish` compares with nothing, and `Hasty` lifts it.

### ProjectEdits, Journal and UndoJournal: mutators and the journal

`ProjectEdits` has one operator per mutator of `project.ts`: from a document and its
arguments to the inverse it captures and the document after; the early returns are
`Refused`. `Mutate` dispatches (`applyInverse` goes through the same mutators),
`TargetKey` is `targetKey`. `Journal` has what `undo.ts` does to a group and an entry;
`UndoJournal` adds the stacks and the group under way:
`Edit`, `Gesture` (cut, move to another track or cell, duplicate a scene: several
mutators in a turn), `BeginGroup`/`EndGroup` (a drag over several turns), `Undo`, `Redo`,
`RemoteChange`. Fields handled alike share one field of the model (gain for gain, pan,
name, mute and the like); clamping to a constant range is left out, clamping to a
bound that depends on the document (fades) is there.

### Screen and Gestures: the hand on the page

`Screen` is what `render.ts` compares, rebuilds and shows: the rows of tracks and clips,
the rack, the piano roll, the cells, and the selection. `Gestures` has eleven pointer
gestures (`PointerDown`, `Move`, `Frame` - at most one write per animation frame -, `Release`,
`Escape`), the commands of keyboard, menus and browser (`Command`), `Undo`, `Redo`, and what
others do (`RemoteChange`). A gesture starts from what the screen shows and writes to the
document as it is by then.

### SessionSlots: the clip launcher

`Command`, then `CallStep` (`Stop`, `Launch`, `NoSuchSlot`: `AudioGraph::launchSlot`, track by track)
for the connection threads; `BeginBlock`, `SkipTrack`, `LoadQueued`, `PlayTrack` (promotion of a
queued slot that is due, the seam of the loop, note-offs of the old and note-ons of the
new) and `IdleBlock` for the callback; `Rebuild` for a new graph, which starts with no slot
and a session clock of zero. Time is counted from the next block, modulo `Period`:
the code only takes differences and remainders by lengths that divide it.

### MusicalTime: ticks, samples, envelopes

Operators only: `EffectiveMap`, `BoundaryTable`, `SamplesAtTick` and `TickAtSample` with their
single rounding per segment, clips and notes of `resolve_time.cpp`, the bar of the session
grid, the value of a lane. `MCSessionSlots` checks them on fixed maps and lanes as
`PositionsAreSound`, and with `BarsFit` that what SessionSlots takes for granted - a clip of a bar
lasts a session quantum - follows from the conversions.

### How the modules fit together

GraphRetirement swaps the graph whose proxy nodes are ProxyPipeline's engine side; the
eviction it stages is what makes ProxyPipeline's segment outlive its users. SpscRing
carries TransportLoop's commands; MCRings runs it and OverwriteFifo on one audio thread. OverwriteFifo shares its segment, and its child's
deaths and restarts, with ProxyPipeline. ProjectStore refines DurableLog, the server
of DocSync; Outbox details DocSync's tab queue; UndoJournal's and Gestures' edits make DocSync's
changes. EngineClient is the connection over which TransportLoop's and SessionSlots' commands
arrive, in Protocol's frames; SharedTransport gives some of them in the name of other tabs, over a jam's relay.
SessionSlots' lengths come from MusicalTime; its `Rebuild` is GraphRetirement's swap. The abstract specifications are LossyFifo, BoundedFifo and DurableLog.

## Runs

Every run completes, with 2 workers, in about two minutes at most. Deadlock is
checked in `graph_retirement` and `session_slots`, where nothing needs to stop: the control
loop turns, the callback returns. The others say CHECK_DEADLOCK FALSE: their bounds on pushes,
blocks, changes, gestures or crashes make the system stop, as an idle system does.

| Run | Shows | Instance | States |
|---|---|---|---|
| `graph_retirement` | no pointer to a freed graph, no unmapped ring under a reachable graph, telemetry only on registered handles (`IInv`); the last edit is heard, retired graphs are freed, removed children stopped | 3 graph addresses, 1 plugin, 1 reader, generation up to 6, 2 document changes or project switches | 132 thousand |
| `proxy_pipeline` | what the graph gets is the block it wants, whole; a live child stamps all that can still be collected | 4 slots, depth 2, 6 blocks, 2 lives of the child | 414 thousand |
| `rings` | refinement of BoundedFifo and of LossyFifo on one audio thread (`ImplementsQueues`); both drain | ring of 4 slots (3 usable), 1 pusher, 5 pushes; channel of 2, 4 events, 2 lives of its reader | 556 thousand |
| `project_store` | file whole and closed, durable before broadcast, refinement of DurableLog, every request answered | 2 sessions, 2 changes of which one needs the other, 3 changes received, 1 crash | 151 thousand |
| `doc_sync` | durability, closure, survival of own work, held-back changes are asked for again; convergence and the end of verification cycles | 1 tab, 1 engine, a channel of 1 message, 2 changes, 1 failure | 297 thousand |
| `engine_client` | one connection or one attempt, frames heard as said; authenticated for good, loop and region re-asserted, the banner true, the export button back | 2 projects, 2 lives of the engine, 1 broken connection or token fetch, 2 acts of users | 372 thousand |
| `outbox` | a queued change is kept, an orphan queue delivered | 2 tabs, 2 changes, 1 broken connection | 17 thousand |
| `session` | no connection out of sight, live ones survive retries, listeners hear, listeners are not driven, engines follow the newest anchor | 3 pages of which 2 are open at first, 3 events (acts, failures, early timers), four pairs of addresses, one listener at a time | 96 thousand |
| `transport_loop` | continuity of playback and no sub-block across its brace (`PlaysAsTold`), the callback returns, playback ends | callbacks of 3 frames, sub-blocks of 2, 2 commands, 1 rebuild or switch | 162 thousand |
| `undo_journal` | undo and redo are exact, and spare what others made | 2 tracks, 2 scenes, 2 clips, a device, a lane; 2 edits, 2 entries | 37 thousand |
| `gestures` | a gesture is one undo, the page shows what there is, no drop loses or doubles a clip or merges notes, the main clip is selected | 3 tracks; 2 gestures, commands or changes of others, 2 moves each | 299 thousand |
| `session_slots` | queued slots start in phase, whole and in any event; no note is held that the slot does not hold; conversions neither drift nor gap | 2 tracks, blocks of 2 samples, loops of 3 and 6, 3 commands | 675 thousand |

### Why these bounds are enough to be interesting

- `graph_retirement`: three addresses let a graph be current, one retired and one
  under construction at once, and a freed address be built at again; generations up
  to 6 let three callbacks straddle two swaps; two changes start one rebuild while
  another is under way.
- `proxy_pipeline`: six blocks wrap four slots, so that every slot is overwritten;
  depth 2 is the largest that four slots allow; the second life inherits what the
  first left half done.
- `rings`: more events than slots on both sides, so that full, overwritten,
  wrapped and empty all happen.
- `project_store`: a second session can be anywhere while the first holds the lock;
  the third received change repeats one that is stored; the crash can fall between
  truncating, filling, renaming and broadcasting.
- `doc_sync`: one failure is enough for a change lost on the way to the server that a
  later change needs, and for an old session that stores late; a channel of one
  message makes a receiver lag (`Convergence` excludes runs that lagged, see below).
- `outbox`: the second tab adopts what the first left and may be killed in turn.
- `transport_loop`: a callback of two sub-blocks, the second a single frame, meets
  every brace exactly, one short and one past; regions and targets include ill-formed ones.
- `undo_journal`: an undo of the second edit runs in the document of the first; two
  entries can be undone and redone in any order, a remote change may fall between any
  two steps. `UndoJournal.cfg` with `MaxEdits = 3` and one value for each argument reaches
  the bound of the stacks (`MAX_ENTRIES`): 1.6 million states, no error.
- `engine_client`: the second life has another token, so that the first one's is stale; the second
  project lets another tab take the engine away in the middle of an export.
- `session`: a third page is a reload or a newcomer; three events give a press, a failure and
  an early timer, or play, stop and a reconnection.
- `gestures`: one act for the user and one for the others in the middle of his gesture, or a
  gesture and its undo; two moves show that the second continues from the first.
- `session_slots`: a loop that wraps in the middle of a block, at its end, and a longer one; three
  commands launch, queue and stop on one track while the other keeps the grid. Four
  commands without rebuilds were checked as well: 5.3 million states, no error.

### Fairness

No run assumes that anything *begins*: no edit, callback, push, connection attempt of
a closed tab, crash or restart is forced, except where a property is about it.

- `graph_retirement`: a callback that entered leaves, a reader drops its copy, a change that
  was applied is counted, the control loop turns. The device thread and the loop
  never wait for one another.
- `proxy_pipeline`, `rings`: a thread that began an operation ends it (there is
  no lock to wait for); a live child polls, the callback drains commands at each period.
- `transport_loop`: the device calls back again and again, which is what a running device does.
- `project_store`: weak fairness for tasks and pool threads, strong fairness for taking the
  lock: tokio's mutex is first come, first served.
- `doc_sync`: event loops run, the network delivers on a connection that stays, timers
  fire, clients reconnect (both clients do, with back-off, for ever).
- `outbox`: a tab's task runs on; every tab is opened some day; the first document of a
  connection that opens again and again arrives some day (strong fairness).
- `engine_client`: sockets open, fail or close, frames arrive on a connection that lives, timers fire, the
  engine reports and its jobs end. Nothing makes an engine start: the properties speak of one that stays up.
- `session`: signals under way are handled or lost, awaits of the browser end, connections whose two ends
  are described connect, the 5 s retry goes on.
- `undo_journal`, `gestures` and `session_slots` state no liveness: a user may stop anywhere; that a queued
  slot is served is a safety property there (`QueueIsServed`: its block is still to come and the callback runs).

### Mutants

Operators named after what goes wrong (`RetireSafeEarly`, `KeptLast`, `DueLate`...)
stand beside the definitions they replace. PROJECT.json pairs each with the property
that catches it: the generation gate one step early, eviction that does not wait,
a queue full one too late, a lock kept after an error, a change
stored without its past, a first document adopted over edits, an inverse replayed
forwards, and so on.

## Counterexamples

Places where the code does otherwise than its comments say, or than one would want. The runs
above leave them out by a constant or a bound; each configuration below, or the
named change to one, gives the counterexample. A configuration with its own file is named
without `.cfg`; "with" says what to change in the file of a run, the property being the only
one left in it.

**Engine and server**

| Configuration | Property | What happens |
|---|---|---|
| `SpscRing_commands` | `AcceptedIsPopped` | a project switch pushes its seek from the control loop (`main.cpp:1623`) while connection threads push commands: two pushes write one slot of a ring made for one pusher, a command whose `push()` returned true never arrives |
| `OverwriteFifo_restart` | `RestartIsClean` | MIDI pushed while a child was dead is played by the next one, though `shared_audio_ring.h:146` says events are never replayed |
| `ProxyPipeline` | `PublishedIsUntorn` | the engine overwrites an input after the child's last check: the child publishes a mixed block. It is never collected (`CollectedIsWanted` holds) |
| `ProxyPipeline` | `WetFromOneLife` | a block half written by a dead child is completed by the next: a wet block of two lives |
| `TransportLoop` | `UserRegionSurvives` | a rebuild tests the user-region flag, the callback then stores a user region, the rebuild overwrites it |
| `TransportLoop` with `MaxControl = 2` | `BracesFollowContent` | the callback clears a region and stores the content end it loaded before a rebuild moved it: the braces stay at the old end |
| `TransportLoop` | `SwitchIsClean` | a command queued before a project switch is applied after its direct stores |
| `SessionSlots` with `Racing = TRUE` | `OnTheGrid`, `HoldsItsNotes` | a stop between the callback's look at the queue and its promotion misses the promoted slot; the count of engaged tracks is wrong from then on, although the comment at `audio_graph.cpp:221` gives the window one block |
| `SessionSlots` with `Slots <- LastNoteToTheEnd` | `HoldsItsNotes` | a note that ends with its loop, whose seam falls on a block boundary, gets no note-off |
| `SessionSlots` | `QuietWithoutSlots` | a rebuild forgets the slots that were playing: their notes stay held |
| `SessionSlots` | `StartsAtOnce` | a first launch takes the clock of the last block for its start: one block of it is never heard |
| `ProjectStore` with `AbortMidFile = TRUE` | `DurableBeforeBroadcast`, `FileIsWhole` | `recv_task.abort()` (`websocket.rs:275`) falls on an awaited file operation: the lock is freed, the operation goes on and meets the next session's temporary file. A change is broadcast that is not on disk, or a file that was just emptied moved into place |
| `ProjectStore` | `NoGhostMembers` | an early return while a session is set up leaves it registered |
| `DocSync` with two tabs, no engine, no failure | `LagIsRecovered` | a skipped change that nothing later builds on is not noticed |
| `DocSync` with `AbandonMidway = TRUE` | `Convergence` | a session that ends between storing and broadcasting: the other replicas are never told |

**Tab**

| Configuration | Property | What happens |
|---|---|---|
| `Outbox` with `Parallel = TRUE` | `QueuedIsKept` | two tabs adopt at once, one removes the key the other has just rewritten |
| `Outbox` with `QuotaFails = TRUE` | `QueuedIsKept` | a full storage: the merged queue is not written, the adopted keys are removed |
| `Outbox` | `FlushedIsRecoverable` | an adopted change handed to a dead socket is in no document and no storage |
| `UndoJournal_points` | `RemoteWorkSurvives` | the inverse of an added automation point holds an index; after another replica's insertion it designates that replica's point, and undo removes it |
| `UndoJournal_split` | `HistoryIsExact` | undo of a cut restores fades while the clip is still short |
| `UndoJournal` with `deleteTrack` for types, none for others | `HistoryIsExact` | undo of a track deletion appends the track at the end |
| `UndoJournal` with `toggleNote` and `updateNote` for types and `MaxEdits = 3` | `HistoryIsExact` | a note toggled again by a redo has a new id, the next entry addresses the old one |
| `Gestures` | `ShownClipsAreThere` | the comparison of structures counts the clips of a track: two that somebody else exchanged while he was offline are shown where they were |
| `Gestures` with `PointInPeace = FALSE` | `GestureIsOneUndo` | a redraw takes a held point away from the pointer: the group of the drag stays open (`automation_lane.ts:247`), and what comes next is undone with it |
| `EngineClient` with `SPECIFICATION Spec`, `MaxActs = 3` | `NoSurpriseWav` | an export that another tab asked for is downloaded here, under the name of the project shown |
| the same | `OnlyOnIsAsserted` | a region kept with the loop off turns it on at the next connection, though `wiring.ts:226` asserts only an explicit on |
| `SharedTransport` with `Error = {0, 1}` | `AnchorsConverge` | two tabs date one anchor differently and keep different last writers |
| `SharedTransport` with `Hasty = TRUE` | `AnchorsConverge` | buttons pressed before the effect of others is seen: a stop before the telemetry of a play is no anchor (`transport.ts:51`), a rejoin answer dated now beats an older stop under way (`transport_sync.ts:19`), the single waiting anchor is overwritten by another sender's (`:12`) |

Seen while modelling, and not stated as properties: two tabs that both wait to listen answer each
other's JOIN for ever (`jam.ts:206`; the `Crowd` constant, with a relay that grows without bound); a tab
that starts as a listener does so before its engine connects, so that an engine that was
playing is never stopped (`wiring.ts:386`), and a listener's own Stop still publishes; the retry of an anchor
that waits for a clock never gives up (`transport_sync.ts:132`); solo and mute are not asserted
again to an engine that restarted, and the mute of the context menu reads a `Map` as a record, so that
it never unmutes; relaunching the slot that plays sends no all-notes-off, and a muted track keeps
what it held and misses its boundary; with a tempo point at tick 0 that differs from the
register, the session's bar follows the register and the slots' lengths the map; two automation points
at the same time before all others give the first one's value, where `automation.ts:25` and `automation.h:11`
say the second's.

## Proofs

Eight modules hold theorems. Each proves an inductive invariant and derives the results
from it; those of GraphRetirement are checked by its run as well, those of the others were
checked with TLC on the instances of the runs when they were found. The proofs make no assumption on the
number of graphs, plugins, readers, sessions, replicas, tabs or changes, on the capacities of
rings, channels and queues, nor on the bounds of the runs.

**GraphRetirement_proofs.** From `GraphRetirementAssumption` (the null values are not
among the addresses and ids, the debug proxies are plugins).

| Theorem | States |
|---|---|
| `Invariant` | `Spec => []IInv` |
| `TypeCorrect` | every variable keeps its type; the retirement queue holds real graphs only |
| `Safety` | `NoUseAfterFree` |
| `RingSafety` | `RingsStayMapped` |
| `TelemetrySafety` | `TelemetryHandleAlive` |

`NoUseAfterFree` is not inductive: that no pointer dangles now says nothing of the graph
freed next. `IInv` adds what makes the generation gate work: the generation is odd
exactly while a callback is inside (`GenerationMarksCallback`); where the swap stands,
so which of the two slots already holds the new graph (`SwapProgress`); every allocated
graph is current, new, or in exactly one entry of the queue (`Ownership`); and a
callback that runs an older graph than the raw slot's is inside the very generation that the
graph's entry recorded (`CallbackGraphGuarded`), so the gate stays shut until it leaves.
For the rings, `RingsOwned` says which handles the current graph's nodes need and that with
an empty queue no other graph can be reached; then evicting the rest is safe.

**ProjectStore_proofs.** From `ProjectStoreAssumption`, of the behaviours in which no file operation outlives
the task that awaits it: `NoJobOutlivesTask`, a hypothesis of each theorem. The code does not ensure it:
`recv_task.abort()` (`websocket.rs:275`) may fall on an awaited file operation, and then the results are false
(`ProjectStore.cfg` with `AbortMidFile = TRUE`). Errors, crashes and aborts at any other await are included.

| Theorem | States |
|---|---|
| `Invariant` | `Spec /\ []NoJobOutlivesTask => []IInv` |
| `Durability` | likewise `DurableBeforeBroadcast` |
| `Readability` | likewise `FileIsWhole` |
| `ImplementsLog` | `Spec /\ []NoJobOutlivesTask => LogSpec`: the server implements DurableLog |
| `AbortsSpareJobs` | `~AbortMidFile => (Spec => []NoJobOutlivesTask)`: an abort on a file operation is the only way to break the hypothesis |

`IInv` says who may touch the files - the holder of `store_lock`, through one job at a
time (`LockHeldInside`, `JobsUnderLock`) -, that the image it is writing is what is stored plus
its request, whose needs are stored (`ImageExtendsFile`), and where the write stands:
beside the project file until the rename has ended, in its place then (`WriteProgress`).
Only a rename changes the stored set, which is a `Store` of DurableLog or a stutter; only
a broadcast is an `Announce`.

**Callback_proofs.** The two states of the audio callback that other threads write. The transport
(`Loop`, as MCTransportLoop names it), from its assumption alone; the clip launcher, from
`SessionSlotsAssumption` and, as hypotheses, `~Racing` (a launch does not meet the callback inside a
track) and for the notes `NotesEndInside` (a note ends before its slot does). Without either the
launcher's results are false: the two lines of `SessionSlots` in the counterexamples.

| Theorem | States |
|---|---|
| `LoopInvariantHolds` | `Loop!Spec => []LoopInv` |
| `PlaybackFollows` | `PlaysAsTold`: every sub-block starts where the last one ended, where a seek said, or at the start of its loop, and none crosses the brace it was cut to |
| `SlotInvariantHolds` | `~Racing`: `Spec => []SlotInv` |
| `OnTheGridHolds` | `~Racing`: `OnTheGrid` - a queued slot starts with its first sample, in phase with the anchor, and the callback that must promote it keeps looking |
| `HoldsItsNotesHolds` | `~Racing`, `NotesEndInside`: `HoldsItsNotes` - after every block an instrument holds only notes its slot holds at this place of its loop |

The braces of the transport are four stores of two threads, and its invariant says nothing of them but that each
is a frame (`BracesWellFormed`): the code needs no more, because the callback loads every brace
once and decides with what it loaded. `ExpectedIsHere` ties what a listener expects to the position, which is
`position_` between callbacks and the callback's own copy inside one.

The launcher's invariant ties the count of engaged tracks, which the callback trusts to skip its work, to
the tracks that are engaged (`Counted`), and says that what a launch and the callback have read of a
track is still there when they use it (`CallIsFresh`, `SeenIsFresh`). The clocks are counted from the next
block: `Clocks` bounds them, `OnTime` says that a boundary still to come has not gone by and that what
plays has started, `OnGrid` that what is queued, and what was promoted whole, starts whole quanta
from the anchor, `Quiet` and `InTune` what the instruments hold. That ageing every
clock by a block, modulo `Period`, changes no phase is a matter of remainders by a length that divides the
period (`Division` to `GridPoint`). The heart of the last theorem is `PlayedIsHeld`: the events
`Events` makes for a block of a slot, seam included, played on what the slot held at the start, leave what it
holds at the end. It looks at the last event of each pitch, at its offset.

**ProxyPipeline_proofs.** From `ProxyPipelineAssumption` (`Depth <= Slots - 2`, as `proxyDepthFor` grants).

| Theorem | States |
|---|---|
| `InvariantHolds` | `Spec => []IInv` |
| `CollectedHolds` | `CollectedIsWanted` |

A block is *fresh* while the engine has not begun to reuse its slot; the wanted block always is. The child
does write into slots that have changed hands, and dies there with half a block written: `OutputKept`
and `ProcessProgress` are about fresh blocks only, and hold of outputs that nobody vouches for yet. That is
what lets the engine test the stamp at one moment and copy the samples at others.

**Rings_proofs.** From the assumptions of the two channels and `OnePusher`, which `ring_buffer.h:12`
asks of its users. (With two, `SpscRing_commands` fails.)

| Theorem | States |
|---|---|
| `InvariantHolds` | `OnePusher => (BothSpec => [](RingInv /\ ChannelInv))` |
| `QueuesImplemented` | `OnePusher => (BothSpec => ImplementsQueues)`: SpscRing implements BoundedFifo, OverwriteFifo implements LossyFifo |

One lemma per step says which step of the abstract queue it is, if any. `RingInv` says that what a
thread of the ring has read of an index stays true until it acts on it (only it moves its own; the other end only
makes room, or fills); `ChannelInv` that what the child copied is the pending event as long as the
read index has not moved, which is what its compare-exchange tests. The indices of the ring are masked, those
of the channel count on: two lemmas on remainders (`Remainder`, `DistinctRemainders`) carry the slots.

**DocSync_proofs.** From `DocSyncAssumption`.

| Theorem | States |
|---|---|
| `InvariantHolds` | `Spec => []IInv` |
| `DurabilityHolds` | `DurableAndClosed` |
| `EditsHold` | `EditsSurvive` |
| `HeldBackIsNoticed` | `HeldBackMeansResync` |

`Durable` (what a replica knows of others is on disk) needs to hold of everything under way
(`Carried`) and of snapshots taken before the broadcasts that follow them (`SnapshotsAreClosed`,
`SnapshotCovers`); that the first document may replace what an engine has rests on `FirstThingsFirst`. The
last theorem rests on the test of `applyChange` (`project.ts:175`), which looks at direct dependencies: in
a document that holds nothing back, the latest change missing from the past of another is one of its direct
dependencies (`MissingIsNoticed`), so that nothing is held back silently.

**Tab_proofs.** What a tab keeps going by itself: its connection, from `EngineClientAssumption`; the queue of
its unsent changes (`Mail`, as MCOutbox names it), with `~Parallel` and `~QuotaFails` as hypotheses - one tab
at a time adopts, and the storage has room -; the journal and the hand over it (`History`, `Hand`), with
`HasRoom`, which is `JournalAssumption`, and `PointInPeace`. Without `~Parallel`, `~QuotaFails` or `PointInPeace`
the results are false (see the counterexamples).

| Theorem | States |
|---|---|
| `SocketInvariantHolds` | `Spec => []SocketInv` |
| `SingleConnectionHolds` | `SingleConnection` of EngineClient |
| `MailInvariantHolds` | `~Parallel /\ ~QuotaFails => (Mail!Spec => []MailInv)` |
| `QueuedHolds` | `~Parallel /\ ~QuotaFails => (Mail!Spec => []QueuedIsKept)` |
| `StacksHold` | `HasRoom => (History!Spec => []History!StacksOK)`: bounded stacks without empty entries, in step with the documents they lead back to, nothing captured outside a group |
| `GestureIsOneEntry` | `HasRoom /\ PointInPeace => (Hand!Spec => [](Hand!NothingPending /\ Hand!OneEntry))` |

*The connection.* A socket that dies, a timer that fires, a token that arrives: each may open the next
connection, and nothing in the code compares them. That they do not meet is `OneAttempt`: there is one live
socket and neither timer nor fetch, or exactly one of the two and no live socket. `Budget` says which connection of a burst
this is, and that the second one has the refresh behind it.

*The queue.* `KeptInStorage` says more than the property: the storage alone has every change that was queued and not
handed to a socket, whatever dies. `Adopting` follows an adoption: the keys to be removed are another tab's,
and what they hold is under the adopter's own key by then.

*The journal and the hand.* What a mutator does to the document stays unexpanded here: the results hold whatever
it captures. Two lemmas say what a push and a pop do to a bounded stack. `JournalInv` pairs each stack with the
ghost that tells where its entries lead; a push moves both or neither, also when the oldest entry falls out.
`HandInv` adds to `NothingPending` and `OneEntry` why they hold at the release: a group is open as long as a
frame is due or a point or fader is held (`GroupIsOpen`), so that all the gesture wrote is in it, and the
stack is as the gesture found it until then (`NotYet`). `NothingPending` and `OneEntry` are two parts of
`GestureIsOneUndo`; the third, that undoing the entry shows the document of before, is about what the mutators do.

**SharedTransport_proofs.** From `JamAssumption` and `TransportAssumption`; any number of tabs and of
listeners (`Crowd` or not), hasty users, wrong clocks - but for the last theorem, which has
`Exact == Error = {0} /\ ~Hasty` as its hypothesis: without either half it is false (see the counterexamples).

| Theorem | States |
|---|---|
| `InvariantHolds` | `Spec => []IInv` |
| `NothingStrayHolds` | `NoStrayConnection` |
| `SessionIsKept` | `SessionHolds`: a live connection ends only when the network fails or one end leaves; a listener's engine is not started |
| `EnginesConverge` | `Exact => (Spec => []AnchorsConverge)` |

That a late or repeated offer does not tear a live connection down is an argument about all that is under way
(`InTurn`): the offers in a queue rise, each is later than the offer its hearer last answered, and none is
later than the connection its sender holds now. If both ends hold the same connection, an offer still under
way would have to be later than it and no later. The rest of `IInv` ties `opened` to `peers` (`Held`,
`Numbered`) and says that who is out of the jam holds nothing (`Out`).

That engines converge is an argument about the anchors that come to a tab (`Coming`: under way to it, or waiting
for a clock). `AnchorInv` says that they are of the one other page (`OneSpeaker`) and in the order of
their times (`InTheirOrder`), that none is newer than the newest (`NewestIsLast`), and of the audience (`Agreed`)
that the last of what comes either says what the newest says or is going to be refused as older, and that a tab to
which only refused anchors come does what the newest says already. Two anchors of the same instant are the
delicate case: the newest is then its owner's last (`Own`), who refuses the other, and the other tab takes it. A
rejoin answer is no exception, because while somebody asks no anchor is under way (`Questions`). Losing a message
takes a tab out of the audience, loading a page gives it an id nobody has spoken under (`Met`).

What stays with TLC. Every liveness property: fairness is out of the prover's reach (`DocumentReachesAudio`,
`ResourcesAreReleased`, `BothDrain`, `Convergence`, `OrphansDelivered`, `ListenersHear` and the others).
What a replay or a gesture does to the document, since calls are folded over sequences and this is an
induction over data: `HistoryIsExact` and `RemoteWorkSurvives` of UndoJournal, `UndoneAsBefore`, `ShownAsIs`, `MainInLot` and
`NothingLost` of Gestures. `PositionsAreSound` of MusicalTime, whose sums over a map are recursive, and
`FramesAreUnderstood` of Protocol, whose encoding is.

## Not modelled

PROJECT.json lists every part with the reason. In short: the signal path is
floating-point code of a single thread, covered by the repository's golden renders;
the widgets, meters and waveforms of the views are drawing; the constructors of the generated
protocol code are unused; scripts, fixtures, and utilities (hash, crash handler, path filter) hold no
shared state. Planned parts are below.

Abstractions a reader should know of:

- Accesses are sequentially consistent. The code's acquire and release pairs on the rings and
  the shared segment give the orders the models use; reorderings that C++ would allow
  beyond them are not explored.
- Automerge is a set of changes closed under dependencies: merge is union, a
  change whose past is missing is held back. Concurrent writes to one field are not
  distinguished, except in ProjectEdits, which applies them in turn.
- Gestures: tracks have no kind (drops on the wrong kind are refused in the code), names, pan and zoom
  are left out, the length and the velocity of a note are one field, which one drag and the wheel change, an upload is the placing of its clip; the user gives no
  command while a button is down; a pointer is released or the gesture cancelled with Escape
  (the code handles no pointercancel). Automation points are told apart by time and value as in the code.
- SharedTransport: users press jam buttons while the transport is at rest, and the other way
  round; they wait for what they see, and what they do is dated after it (`Hasty` lifts both). Of two
pages the one loaded later has the larger id. Clock estimates are exact up to `Error`. An engine
  stays up here: its failures are in EngineClient.
- EngineClient: commands that leave no state at the tab (play, seek, editor, tap) are not repeated here.
- SessionSlots: a slot and its start are one store; every block has `Block` samples; commands
  fall between blocks, their calls between two tracks (`Racing` lifts that); a launch under way keeps the old graph
  alive, so that a rebuild waits for it. Timeline notes, live MIDI and the limit of 256 events are left out.
- MusicalTime: `MaxTick` is 2^14 for 2^36; rates and tempos are counted in hundreds. One definition stands
  for the C++ and the TypeScript conversions, which are written alike: a divergence of the two would not show.
- JamSession: one tab listens at a time. DocSync: the tab's path for a merge that throws is left out.
- A receiver that lags is not told what it missed, in the code as in the model:
  `Convergence` is claimed for behaviours without lag only.
- Authentication, payload limits and malformed messages are input validation, without
  influence on the orders modelled here.

## Plan

1. **PluginLifecycle** - debounced captures under a version, restarts with the pending
   state, back-off, stems and their keys, the export job (`main.cpp`, `plugin_bridge.cpp`,
   `stem_render.cpp`, `export_job.cpp`). Captures end; a restart resumes the last capture; a capture
   made of an old snapshot does not undo what others wrote.
2. **MonitorState** - solo and mute set between `copyMonitorState` and the swap: what GraphRetirement's
   readers lose.
3. **DocumentReading** - what `automerge_document.cpp`, `schema.ts`, `sanitize.ts` and `validate.ts`
   make of any document: both sides bound and repair the same fields.

Proofs: with an induction over sequences within reach, `MainInLot` and the part of `NothingLost` that
`moveClipToTrack` decides.
