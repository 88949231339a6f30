# RoudaMix: a verification project

RoudaMix is a real-time audio mixer and VST3 host for Windows. A C++ engine
process owns the audio graph, the devices and the plugins; a Rust bridge (Tauri)
starts the engine, talks to it over a named pipe and a shared-memory block, and
serves a Svelte user interface. This directory holds TLA+ modules translated
from the source, the TLC configurations that check them, and theorems about them
that TLAPS checks. `PROJECT.json` says which lines of the source each definition
stands for.

## 1. Inventory

Paths of the engine are relative to `src/engine/src/`, the others to `src/`.

| Component | Where | State | Operations | Talks to |
|---|---|---|---|---|
| Render graph publication | `engine/src/`: `graph_retire.hpp`, `audio_engine.cpp` | `rt_graph_`, the retire queue's entries, `readers_` | build, exchange, retire, reap, wait for the readers, attach loudness | every control operation; the callback and the telemetry publisher read |
| Plugin quiescence, monitor shadows | `audio_engine.cpp`, `rack.hpp` | plugin chain, `bypass`, `monitor_bypass`, primary and monitor state, shadows | presets, bypass flags, add, remove, move, copy, paste, latency notices, start, stop | publishes graphs; calls `getState`, `setState`, `terminate` |
| Route planner | `route_planner.cpp` | none (pure) | slot dispositions, shadow decisions, PDC sources and sinks | called by every commit |
| PDC planner | `pdc_planner.cpp`, `graph_topo.hpp` | none (pure) | arrival times, edge delays, caps | called by every commit |
| PDC delay line | `pdc_delay_line.cpp` | ring, write cursor, settled and pending delay, transition | `prepare`, `reset`, `set_delay`, `process_add` | control thread writes the target, callback reads it |
| Track graph | `audio_engine.cpp`, `track_graph.cpp`, `graph_topo.hpp` | tracks, sends, sidechains, chains, the two system outputs, delay lines | add, remove, move, set a track; sends, sidechains, plugins and flags; latency notices; `ensure_system_outputs` | planners, session, router |
| Audio callback | `audio_engine.cpp`, `process` | pointers into the buffers of each track | play one block of the published graph | devices, plugins, delay lines |
| Parameter ring, FIFO | `rack.hpp`, `spsc_fifo.hpp` | two counters and slots | push, drain; write, read, drop oldest | control and callback; two device clocks |
| Router | `router.cpp` | epoch, revision, the connection's sink | dispatches commands, orders events and replies | pipe thread, main thread, engine |
| Engine process, pipe | `../main.cpp`, `frame_io.cpp`, `protocol.cpp` | generation of the connection, message queue, watchdog | accept, authenticate, read, post, reply | bridge, router |
| Devices | `asio_device.cpp`, `wasapi_clock.cpp`, `render_sink.cpp`, `app_capture.cpp`, `mic_capture.cpp` | driver and its buffers, clock, pump threads, control panel | open, prepare, start, stop, close, rebuild, failure notice | engine |
| Telemetry | `telemetry.cpp`, `src-tauri/src/shm.rs` | shared block, sequence number | publish; read a snapshot | bridge |
| Loudness | `loudness*.cpp` | taps, a measuring worker | attach, detach | graph publication |
| VST3 host | `vst3_host.cpp` | plugin modules and instances | load, state calls, process | engine |
| Plugin registry, scan | `vst_registry.cpp`, `sandbox.cpp`, `router.cpp` | registry and its file, scan job | start, cancel, approve, commit | a worker process, UI |
| Editor host | `editor_host.cpp` | windows | open, close | VST3 host |
| Session files | `session.cpp`, `session_projection.cpp` | file | save, load, migrate | track graph |
| Bridge | `src-tauri/src/bridge.rs`, `spawn.rs` | phase, writer, pending replies, child process | connect, authenticate, send with a deadline, disconnect, respawn | engine, UI |
| Settings, UI state | `src-tauri/src/settings.rs`, `portable.rs`; `ui/src/App.svelte`, `ui/src/lib` | files; a mirror of the engine | load, save; reduce snapshots and events | bridge |

### What is hard here

* **The callback takes no lock.** Every graph operation runs beside a callback
  and a telemetry publisher that only raise a counter, load a pointer, traverse
  and lower the counter. Deletion, plugin state access and termination are safe
  only because of the order of single atomics on both sides.
* **The wait may give up.** `wait_rt_blocks_drained` has a timeout, and every
  caller has its own idea of what to do then.
* **Rollbacks are written by hand.** A dozen operations undo their own change on
  failure; each undoes a slightly different set of fields, and what it undoes
  has to agree with the graph that is published.
* **Allocation may fail between two steps** that belong together: after the
  exchange of the graph pointer and before the old graph is queued.
* **Other processes come and go**: replies that come after their deadline, a
  connection that ends between a command and its effect, an engine that is
  respawned while a retry button spawns another.
* **Three threads share the engine's command path** (pipe thread, main thread,
  scan thread) and hold different locks when they send; what one connection
  sees of them, and what the next one finds, depends on how these overlap.
* **The interface guesses**: that an engine is another one, that the session is
  saved, that an event is of its own scan.

* **Two paths through one chain share buffers.** The monitor path points into the
  primary path's buffers for as long as both are alike, and both swap pointers
  at every plugin.
* **Files are replaced in steps.** The process may end, or a call may fail,
  between any two; one of the files has two writers.

`PROJECT.json` lists these hazards one by one, at the line where they bite,
with the properties that cover them and, for those without one, the reason.

### What makes each component correct

* Graph publication: a reader never holds a deleted graph; each graph is deleted
  once and by one owner; nothing is leaked but by a failed allocation; a wait
  that reports success leaves nobody on an older graph; the destructor leaves
  nothing behind.
* Plugin quiescence: no state call and no termination overlaps `process`; what is
  published is what the control thread holds; a failed operation changes nothing
  the user asked for; shadows have one owner and mirror their primary.
* Planners and callback: a full-PDC output plays every way to it, through every
  plugin in force, and all of them equally late; a low-latency output plays every
  way without the plugins bypassed for it, and no later than those need.
* Delay line: a transition reads only what was written, and ends at the last
  delay that was asked for.
* Track graph: always acyclic, without dangling sends, with its system outputs;
  a refused command changes nothing.
* Devices: a block runs with the buffers its graph was made for; a stream that
  runs has all it needs; a pump or clock that fails is noticed.
* Rings: nothing is read before it was written; the newest value of a parameter
  is delivered.
* Router, pipe, bridge: one reply for each command, to the connection that asked,
  after the status it caused; a client that has read everything shows the
  engine's state; nobody waits for a reply that cannot come.
* Scan: a cancellation ends the job it was for; the list shown is the registry;
  nobody waits for a scan that has ended.
* Saved files: never half a version; what was reported as saved is in the file or
  its backup after any failure or crash, and the next process finds it.
* Telemetry: a reader that accepts a snapshot has one that was published as a
  whole.

## 2. The modules

| Module | Kind | What it is |
|---|---|---|
| `SafeReclaim` | abstract specification | a reader keeps what it took; only what nobody holds or can take is freed |
| `GraphReclaim` | component | the retire queue, the reader latch and every engine operation on the graph pointer |
| `GraphReclaim_proofs` | proofs | its invariants for every value of the constants, and the refinement |
| `PluginQuiescence` | component | every engine operation that touches a plugin, with the slot decisions of the route planner |
| `PluginQuiescence_proofs` | proofs | accesses are quiescent, callbacks run the master, shadows have one slot, failures keep the user's settings |
| `ScanJob` | component | the scan thread, the commands and the connection it shares with the router, the interface's record |
| `ScanJob_proofs` | proofs | a cancellation ends the job it was for; the list of an undisturbed page is the registry |
| `Router` | component | the pipe thread, the main thread, the router's dispatch, the client's view and dirty flag |
| `Router_proofs` | proofs | commands are answered once, after their status; baselines have their revision; no status is lost |
| `Bridge` | component | the connection loop, commands in flight, spawning, the guess that an engine was replaced |
| `Bridge_proofs` | proofs | commands in flight are answered, the map of replies is bounded, a change of engine is noticed |
| `RoutePlan` | operators | the topological order, `plan_plugin_delay`, `plan_routes`, `plan_route_suspension` |
| `Render` | operators | `process`: one block through a published graph, as sets of paths |
| `Tracks` | component | the engine's tracks, every command that publishes a graph of them, and what the graph plays |
| `Tracks_proofs` | proofs | routes stay sound and without loops, the cycle check is exact, the graph follows the tracks, refused commands change nothing, the system outputs stay, the planner's delays meet, full-PDC outputs play every way in full and on time, low-latency outputs theirs with no delay but its plugins', the delay lines follow the plan |
| `AudioStream` | component | start, stop, rebuild, the ASIO driver, the WASAPI clock, the pumps and the control panel |
| `AudioStream_proofs` | proofs | a block fits the buffers, a running stream is whole, failures are noticed |
| `SavedFile` | component | session, plugin registry and settings, replaced call by call |
| `SavedFile_proofs` | proofs | the file is never half, reported saves are kept and found |
| `MC*` | model values | the symmetry sets, sessions and channels TLC uses |

### `SafeReclaim`

Three variables: the graphs that exist, the graph a reader would take now, and
the graph each reader holds. `Free` is the promise: it needs a graph that is
neither. Nothing is said about counters, queues or grace periods.

### `GraphReclaim`

One control thread (the dispatcher works under the engine's mutex), any number of
callbacks and publishers. Each atomic operation is a step: a reader's
registration (`ReaderEnter`), its load of the pointer (`ReaderLoad`) and its
release (`ReaderExit`); the control thread's exchange (`PublishCandidate`,
`UnlinkGraph`), the queueing of the old graph (`RetireUnlinked`), the single
look at `readers_` in `reap` (`ReapCheck`), and each deletion (`SweepOne`).
`ctl` is the place the control thread has reached and `op` the operation it is
running; `AfterSwap`, `AfterRetire`, `AfterSweep` and `AfterDrain` say where an
operation goes after a part it shares with others, which is how the nesting of
C++ calls is kept without a stack.

* `cand`, `unlinked` and `saved` are the locals of `commit_graph_candidate`,
  `retire_graph` and `with_quiescent_plugin_graph` that own a graph.
* `retired[g]` counts the queue's entries for `g`, so that queueing twice is
  visible; `aged` is the set of graphs whose entry is older than the grace
  period, which elapses at any time (`GraceElapses`).
* A deleted address may be handed out again by `Build`, as an allocator does.
* A growing vector may throw at `push_back` (`RetireFails`,
  `AttachRetireFails`) and at `reserve` in `reap` (`ReapFails`). In a `noexcept`
  function that ends the program (`terminated`).
* `stop` publishes no graph and forces the reap, which skips the grace period
  but not the latch. Its two waits are one here: what differs after a timeout
  (plugins are terminated or not) is `PluginQuiescence`'s subject.
* Deadlock is checked: `Ended` is the only way to stop.

### `PluginQuiescence`

One track that reaches a low-latency output, any set of plugins and shadows, one
callback. Building and exchanging a graph is one step here, since
`GraphReclaim` shows what the parts do. `master` is what the control thread
holds (`tracks_`), `graph` the instances that the published graph may call,
`block` those the block in flight may call. An access to a plugin's state lasts
from the step that enters its place of `ctl` to the step that leaves it, so a
block that begins or ends in between overlaps it.

* `Uses`, `Diverged`, `NeedShadow` and `Missing` are `plan_routes` for this
  track: once a slot runs in the primary path but not in the monitor path, every
  later processing slot needs a shadow. `process` may also drain parameters into
  a suspended primary, so a suspended slot counts as used.
* `Prepare` is `prepare_monitor_variants` with its three outcomes; `Drained` and
  the `...TimesOut` actions are the two results of the wait.
* Each operation keeps what its source keeps to undo itself in `saved`, and its
  failure actions put back exactly the fields that the source puts back.
  `refused` says that the last attempt to publish was turned down; the code does
  not look at that result on most of its undo paths.
* `stale` are the shadows whose state is not that of their primary.

Not in this module: placeholders of plugins that could not be loaded, more than
one track (`Tracks` has them), the contents of a state, the editor.

### `ScanJob`

`scanner` is where `scan_job_thread` is: none, the loop over roots, the worker
process, `save_atomic`, the commit under `scan_mutex_`, the last event, ended.
`link` follows `Router::connect` in the three steps another thread can see: it
reads `last_scan_` into `copy`, sets the sink, sends the snapshot. The job
thread needs neither of its locks to send, so `Sent` drops an event or puts it on
the new connection according to `HasSink` alone.

* `start_scan` and `cancel_scan` are one step each: they hold the locks
  throughout. The join of an older thread is the guard of `HandleStartScan`.
* `requests` and `events` are the two directions of the pipe. `replies` is a set:
  the interface gets them by a promise and events by an emitter, and nothing
  orders the two.
* `ui` is the reducer of `scanJob.ts` with `applyStatus.ts` and the epoch test of
  `App.svelte`; a reload counts `page` up and replies to an older page are
  dropped.
* Left out: progress numbers, the text of refusals, a failed write of the
  registry file other than as a failed job, and the file itself.

### `Router`

The engine's content is a stamp: two states a session file would store alike
have the same one. Commands are grouped by what they do to it (`Kinds`): nothing,
a broadcast edit, a silent parameter, a stream command, save, load,
`ensure_system_outputs`. `engine_mutex_` makes each dispatch, connect and
disconnect one step. What it does not cover is kept apart: `MainTakes` compares a
task's generation, and the `Dispatch...` action comes later.

* `frames` is the pipe, in order; a frame to a client that has gone, or for a
  generation other than the sink's, is dropped (`SendTo`). Host messages go to
  the current connection (`SendCurrent`).
* `EditorEdits` is `performEdit` of a plugin window; it runs on the main thread
  between two messages, without the router.
* `ui.clean` and `ui.revision` are `revisionDirty.ts`; `Resolve` is the
  continuation of a reply's promise, which runs after any number of events.
* A refused edit and a stream command leave the content as it is; in the code a refused
  `track_set_source` can fall back to no source (`audio_engine.cpp:1519`), and `start`
  notes its device, rate and block size for the session (`:637`).
* Left out: frames that are too large or not read within five seconds, protocol
  errors without an id, structured exceptions, clipboard, loudness, the device
  panel, shutdown; timeouts of commands are in `Bridge`.

### `Bridge`

The engine process is the environment: at most one (the singleton mutex), it
starts, listens, answers, breaks the connection, stops reading, dies. `runner`
follows `run`, `serve` and `set_disconnected`; `retry` the task of the retry
button. Counting a spawned engine and copying the counter into the shared state
are two steps (`RunNotes`, `RunStores`) because both tasks do it. `at[s]` is how
far `send` has come with a command: registered and about to write, waiting, or
answered in one of four ways.

* `greeting` is the epoch in the snapshot of a connection; the engine moves its
  epoch at any time (`Mutate`).
* A command that `fail_all` has failed but that has not taken the write lock
  stays at `"write"`, as its task does.
* `ui` is what `App.svelte` remembers of the connection; `ui.proc` is the process
  its session record is about, which no code knows: it is what the guess is
  measured against.
* A change of the shared state and its event are one step, as are the events of two
  tasks one after the other. `serve` ends when a stream ends or breaks, which stands for
  a frame of a bad length too.
* Replies come in any order. Frame encoding, the telemetry reader and the keepalive are
  left out: a ping that is aborted leaves an entry that only `fail_all` removes.

### `RoutePlan`, `Render` and `Tracks`

`RoutePlan` is the three planners as operators: `TopoOrder` with its edges in the
source's order, a walk written as a recursive function on the number of visited
tracks (so that it can be proved about), and `Loopless`, what it means to have no
loop, which the cycle check is compared with; `PlanPluginDelay` with its accumulation, edge delays, buffer bytes
and caps, `PlanRoutes` with the actions of both paths of each slot, and
`PlanRouteSuspension`. Latencies and caps are small numbers; the order in which
buffers are counted against the cap is that of the code.

`Render` plays one block. A buffer holds a set of paths: where each comes from,
how late it is, which plugins it went through, which tracks' gain it got. What the
code does with pointers is kept: `in` and `out` of each path are names of buffers,
`process` swaps them, and `ReusePrimary` makes the monitor path point at the
primary path's buffer. So what a later slot writes can be heard where it should
not. Levels, meters, crossfades and pending edits are left out.

`Tracks` is the control side. `node` and `order` are `tracks_`, `graph` is what was
published with its plan, `lines` the delay lines that graphs share: those of the
sends, by edge, and those of the dry signals, by plugin and path. Each command is
one step: the changes it makes before it tries, `Attempt` (prepare the shadows,
plan, commit), and the hand-written rollback with whatever it leaves (`Refuse`,
`RolledBack`, `Recover`). Many commands, removing and moving a plugin among them,
ignore a refused swap; they are modelled that way, and `GraphFollowsTracks` says what
is left: the graph is that of the tracks, or the planner has none for them (section 5
shows that this happens). The swap inside a rollback, and the preparation of shadows in
a command that ignores its result, are taken not to fail a second time. `nextSlot` is the next instance id. `MaxChain` bounds the
model; the code limits only the chain it loads (`session.cpp:408`). Faults are a swap that fails, a shadow that cannot be prepared, and the
retirement that throws before the lines are retargeted. `Init` is a loaded session
with its system outputs ensured. `ToggleDest` and `ToggleSidechain` are what the
interface sends (`TrackStrip.svelte`).

A block is not a step of its own: its outcome is a function of the published graph
and its lines, so the properties look at it in every state. The reference they
compare it with is `Ways`: the ways from the inputs along sends, with the plugins
in force and the tracks on them, computed from sends and chains alone, without
plan, order of slots' actions or buffers.

### `AudioStream`

Tracks differ in what they need: an application capture, a microphone, a render
sink, a channel of the driver. `dev` is `AsioDevice` (open, buffers with their
channel map, running), `hw` whether the driver calls, `gate` whether
`Impl::active()` lets the call through;
`clock` is `WasapiClock`, `pump[t]` the pump of a track, `queue` the notices posted
to the main window, `panel` the panel thread. `op` is the place of the control
thread inside an operation, with what it needs to undo it: a block, a failure, the
panel and the posting of a notice come between its steps.

* `graph` is what matters of a published graph here: the buffers its channels were
  resolved against. `block.with` is the graph a block has taken.
* `Well` and `Ill` are the two outcomes of a call to the driver or Windows.
* Nothing is assumed of the driver's stop but that it begins no new callback. The one
  in progress becomes `late` and goes on, before `process` or inside a graph, beside
  whatever the control thread does next (`Overtaken`). `stop()` is split at its wait:
  `Halt` joins the clock, tells the driver and retires the graph; `Drain` goes on when no
  reader is left or both timeouts have passed (the fault `undrained`). A callback it did
  not wait for is marked `left`, at once if it has not come as far as `process`, since
  the count does not see it. A rebuild, a failed open and `close()` wait for nobody and
  mark it too (`audio_engine.cpp:1323`).
* `Prepare` makes every buffer it is asked for; the code skips channels of a sample type
  it does not know (`asio_device.cpp:406`, `:417`), which no property looks at.

### `SavedFile`

One file of one of three kinds, with its backup and its temporary file; a version
is the set of edits it contains. Each file system call is a step that may fail or, for
the reads before a save and the open of a new process, part of one; the process may end
after each. `Locked` is `_wfopen_s`, which shares with nobody.
The kinds differ as the code does: the registry has two writers, of which the scan
adopts its candidate only when it is saved; the settings are patched from what
`read_doc` finds, which is the backup, or nothing, also when an intact file cannot be
read (`settings.rs:382-399`); what such a read misses is `missed` in the record of the
save, and given up when the save is done. The settings keep nothing in memory. Assumed
of Windows: a rename is atomic and replaces its target, and what `_commit` or `sync_all`
returned for stays written. Not modelled: formats, migration, directories. A scan's
candidate is taken from the registry when it is saved; what follows from its being the
copy of the scan's start is `ScanJob`'s (`ApprovalsHold`).

## 3. Runs

| Run | Checks | Bounds |
|---|---|---|
| `graph_reclaim` | `TypeOK`, `NoUseAfterFree`, `QueueOwnsItsGraphs`, `LeaksAreFailures`, `CleanExit`, `RefinesSafeReclaim`, `OperationsEnd` | 3 graphs, a callback, a publisher, 1 failed allocation |
| `quiescence` | `TypeOK`, `QuiescentAccess`, `PublishedIsMaster`, `FailureKeepsIntent`, `ShadowsAreOwned` | 2 plugins, 3 shadows, 3 failures |
| `tracks` | `TypeOK`, `RoutesAreSound`, `GraphFollowsTracks`, `FullOutputsAreAligned`, `LowOutputsHearTheirPlugins`, `RefusalsKeepTracks`, `SystemOutputsStay` | a new engine, two sessions of five tracks and one whose paths part within a chain, chains of up to three plugins, 2 commands or notices, 1 fault, latencies 1 and 2, caps of 4 samples and 6 buffers |
| `stream` | `TypeOK`, `BlocksFitBuffers`, `RunningIsWhole`, `FailuresAreNoticed`, `LostClockEnds` | an application, an input (microphone or channel) and an output with 2 channels; both masters; 4 operations, 3 failures, 1 panel |
| `scan` | `CancelHitsItsJob`, `ConnectedListIsRegistry`, `FirstScanEnds`, `RequestsAreHandled` | 1 root, 2 modules (one below the root), 2 starts, 2 cancels, one disturbance: a drop, a reload, an approval or a thread that cannot be created |
| `router` | `RepliesAreAsked`, `StatusBeforeReply`, `BaselineIsCurrent` | all kinds of commands and host messages; 2 connections, 2 commands, 1 host message, 1 editor edit |
| `router_live` | `CommandsEnd`, `FirstViewIsCurrent` | queries, edits and loads; 2 connections, 2 commands, 1 host message, 1 throw |
| `bridge` | `NoCommandIsForgotten`, `PendingIsInFlight`, `EngineChangeIsNoticed` | 2 commands; one death, break, stall, mutation, idle spawn and retry |
| `bridge_live` | `Reconnects` | 1 command; one of each, failed spawns included |
| `saved_file` | `NeverHalf`, `ReportedIsKept`, `SettingsAreFound` | each kind; 4 saves, 3 failed calls, 2 crashes |
| `preset_rollback`, `stream_disturbed` | one finding each (section 5) | as small as the counterexample needs |

Where a run does not list the module's `TypeOK`, it holds on the same instance; it
is left to the proofs or to whoever changes the module.

Two runs state what the code gives up. `BlocksFitBuffers` covers a callback that outlives
the driver's stop for as long as `stop()` waits for it, not one that a rebuild goes on
beside. `ReportedIsKept` and `SettingsAreFound` ask of a save that it keep what it could
read, and of a new process what it found. The findings `LateBlocksFit`, `SavesKeepOthers`
and `RestartOpensIt` (section 5) are the same statements without the exception.

Two properties of `tracks` state what they leave out: states after a retirement that
throws, in which the lines do not follow the plan (`LinesFollowPlan`, section 5), and
chains in which `process` lets the two paths write each other's buffers.
`FullOutputsAreAligned` leaves out a shared slot with two behind it that only the
primary path processes (`Entangled`); with one such slot the pointers of the paths
stay out of step and the primary path is safe. `LowOutputsHearTheirPlugins` leaves
out a shared slot with one such slot and a processing one behind it (`Overwritten`),
and speaks of states in which each wanted shadow is there, works and has its primary's
latency (`Mirrored`: a refused one plays dry by design). Without the exceptions TLC
finds `stream_disturbed` and, with its configuration, `MonitorIsUndisturbed` violated.
With them both hold, beyond the run's sessions, of every chain of at most six plugins
that are each in force, bypassed or bypassed for the monitor; and both are proved for
all (section 4), where `Entangled` and `Overwritten` are what the proofs have to exclude.
That the lines follow the plan until a retirement throws, and do so again with the next
commit, is proved as well.

Why these are enough. *Graphs*: an operation owns at most two besides the graph
in use, so three let it have its saved copy and its candidate while a reader is
on the oldest, and let an address be reused. *Readers*: the two kinds differ in
who joins them, so one of each is needed; they do not talk to each other, and the
latch is a sum. *Failures*: one is enough to reach every error path of
`GraphReclaim`; three in `PluginQuiescence` let a failure inside a rollback
inside a rollback happen. *Plugins*: divergence is a relation of two slots, so
two show it. *Shadows*: one more than the slots that can need one at a time,
since a replaced one may still be in a block. *Scans*: what can be confused is a
job and the one before it, or a cancellation and a second one; a page, or a
connection, and the one before it. *Commands*: two can answer each other's
reply, overtake each other or be split by a connection's end; connections are
told apart by comparing generations, for which two suffice. *Engines*: one death
and one idle spawn give three processes to be confused. *Tracks*: five tracks give
two inputs that meet in an effect and in an output, beside a sidechain; two
commands from three starts are every command, refused or not, after every other,
also after one in which something failed;
what needs three plugins is a shared one, one bypassed for the monitor and one
behind it, which the fourth session starts with. *Streams*: three failures are one that stops an operation, one in its
rollback and one of a pump beside it; two channels make a rebuild to others and
back. *Saves*: two interrupted ones before one that succeeds and one that loses it
is what an error in the order of the renames needs.

All these bounds are constants of the models, and the theorems hold without
them. The plugins and shadows are symmetric: they are only compared, and their
run has no liveness property.

`ConnectedListIsRegistry`, `FirstScanEnds` and `FirstViewIsCurrent` are limited
to an undisturbed, or a first, connection because the unlimited properties do
not hold of the code: section 5 lists the counterexamples. `CHECK_DEADLOCK` is
off where the environment (the user, the client, the engine process) may stop
acting when its bound is used up; the runs of `GraphReclaim` and
`PluginQuiescence` check deadlock.

### Fairness

`FairSpec` asks two things. A reader that has registered goes on to load and
release: a callback returns, and a publisher's traversal is a bounded loop. The
control thread finishes the operation it began: it holds the engine mutex and
waits for nothing but the bounded wait (`DrainTimesOut` is always possible while
readers are there) and the join of the publisher, which the readers' fairness
ends. No fairness is asked for requests, for callbacks or for the clock. That is
why `OperationsEnd` is a real question: `wait_rt_blocks_drained` polls a count
that later blocks raise again, and only its timeout ends it. (This is
`GraphReclaim`.)

`ScanJob`: the bridge reconnects for ever, the dispatcher and the page run their
queues, the scan thread goes on, since a worker is killed after ten minutes; no
user has to press a button. `Router`: the engine's pipe and main threads run and
the bridge reads its pipe; clients need not come back. `Bridge`: the runtime runs
its tasks; a started engine comes to listen; and, strongly fair, the try of the
loop that spawns is reached again and again, because the code counts the failed
tries and spawns at the first and at every twentieth. Nothing is asked of a
hanging engine, which is why `Reconnects` excepts it: no code looks for one.

`AudioStream`: the control thread goes on (strongly, since the lock it waits for is
also given to others), blocks come to their graph and end, late ones too, a device that
runs calls. Nobody has to close
the control panel; that a second request for it may then wait for ever is in
section 5.
`LostClockEnds` asks more than that a notice is handled: the clock that failed may
have been replaced, or the operation under way may be the one that takes it down.

## 4. What is proved

All theorems hold for every set of graphs, callbacks, publishers, plugins,
shadows, commands, connections and sessions, and every bound on failures, from the named
assumptions of the modules:
the sets are disjoint where they should be, readers are finitely many.

**`GraphReclaim_proofs`.** The invariant of the runs is not inductive: that no
reader holds a deleted graph depends on where the control thread is between the
load of `readers_` and a deletion. `IInv` adds, in named parts, that `readers_`
is the number of registered readers; that each graph has exactly one owner, for
every place of the control thread; that between a look at zero readers
(`~busy`) and the end of the sweep, whoever has registered since can only obtain
the graph in use, which is not queued; and which places each operation visits.
`Invariance` proves `Spec => []IInv` with one lemma per action that disturbs it.
From it follow `TypeCorrect`, `ReadersAreSafe`, `QueueOwnership`, `LeakBound`,
`Quiescence`, `DestructorIsClean` and, step by step, `Refinement`: every step of
`GraphReclaim` is a step of `SafeReclaim` or a stutter. It has to be an
invariant of the *order* in the code: `reap` reads the latch before it looks at
the entries, and a reader registers before it loads. Exchange either pair and
the proof, like the runs of the mutants, fails.

**`PluginQuiescence_proofs`.** `TypeCorrect` says that chains, flags and shadows
stay well formed; `AccessIsQuiescent` that `QuiescentAccess` is an invariant.
`IInv` adds three things: no two slots share a shadow, in the chain and in the
copy an operation keeps to undo itself (`Ownership`); an operation has a target
plugin at every place that uses one (`Targeted`); and (`Guard`) what cannot be
called where: outside a block nothing, between the swap and the end of a preset's
access neither the plugin nor its shadow by the published graph and, once the
wait has succeeded, by the block in flight, and while the safety graph is
published for a preparation, a paste or a stop nothing at all. Without `Ownership`
a preset could be read while another slot's shadow, the same instance, runs.

`CallbacksRunTheMaster`, `EveryShadowHasItsSlot` and `FailuresKeepTheIntent` need to
know what an operation can still put back. `Intact` says it for each place:
which operation is there (`Doing`), how far the user's settings are from those it
found, which is at most the one flag or the one slot it is about (`Undoable`), that
the copy it keeps is well formed (`Slots`), and that the saved graph of a capture or
a paste is the one of the saved chain (`Published`). So an undo, wherever it starts,
gives the settings back, and the last publication of each operation is the master's.

**`ScanJob_proofs`.** `CancelIsAimed`: a job that ends as cancelled is one that
`cancel_scan` was handled for. The flag is one for all jobs and outlives them, so
the invariant says whose it is (`FlagIsOfThisJob`): a raised flag belongs to the
job whose id is current, because `start_scan` clears it where it moves the id, and
only after the older thread is joined.

`ListsFollowTheRegistry`: as long as the first connection lasts and the page is not
reloaded, a page that waits for nothing lists the registry. `Listed` is a disjunction
of the situations page, pipe and scan thread can be in together: nothing asked;
asked and not yet answered; scanning; announced, the last event on its way; and
misled, when a late reply has named an older job and the page waits for that one. In
each it says what `requests`, `events` and `replies` hold, and each action leads from one
to another. `Shapes` is kept through disturbances too.

**`Router_proofs`.** `CommandsAreAnsweredOnce`, `StatusComesFirst`,
`BaselineHasItsRevision` and `NoStatusIsLost`, for any commands, host messages,
connections and edits. That a reply is awaited is inductive only with the whole way
of a command: its id is in one place, the pipe, the queue, the main thread or its
reply (`IsOnce`, `IsInOnePlace`), no id is in use before it is drawn (`IsKnown`), and
what is on its way for the connection that is served is awaited by its client
(`IsAwaited`); `Connected` says whose frames the pipe holds. `InOrder` and
`Acknowledged` say that statuses are in the order of the engine's states and that the
reply of a change has one before it that is as new; `Baselines` that a reply about
the present state has the present revision; `Announced` that the present state is on
its way to a first client. `Counted` says that every message moves each counter at
most once, so that a dispatch always has room under the model's bounds. The nine kinds of
dispatch are first summed up (`DispatchIs`): what one does to the engine (`Moved`)
and what it sends, a reply at most and its events before it (`Sent`); that the
invariant is kept is then proved once for all of them.

**`Bridge_proofs`.** `CommandsAreAnswered` and `MapIsBounded`, for any number of
commands, engines and connections. The step that matters is the interleaving of
`set_disconnected` (clear the writer, fail the pending replies) with `send`
(register, write, wait); it goes through because the write half is always that
of the connection being served until it is cleared (`WriterIsServed`), so that
nothing can begin to wait after the replies were failed.

`EngineChangesAreNoticed`: the interface tells engines apart by two numbers that move
for other reasons too, yet no change of engine stays unseen once bridge and retry are
at rest. `Watched` says that an interface that shows an engine of before has the
number of a newer one on its way (`Noticed`), that a number is stored once though two
tasks draw and store them (`Numbered`), and that the interface's record is that of
the last state sent to it (`Shown`).

**`Tracks_proofs`.** For any sessions, latencies, caps, numbers of tracks and commands.

`SoundSends`, `Refusals` and `SystemOutputsRemain` hold whatever `PlanRoutes` and the
shadows' preparation return: what a plan computes is never expanded, so each rollback
is shown to put back what its command changed on every way a preparation or a swap can
end. The invariant adds that ids are below the next one and listed once each in the
order, that the tracks and slots are well formed, that sends and sidechains are sound,
and that system roles come in pairs. The long part is that a role given to the second
output neither takes nor loses the first one's track.

`RoutesStaySound` adds that no signal comes back to its track. `CycleCheckIsExact` is
what it rests on: the walk comes to every track if and only if there is no loop
(`Loopless`: every set of tracks has one that nothing in the set feeds). The walk is a
recursive function on numbers; the library's induction needs an operator as an
argument, so its existence (`Iterates`) and each induction on it are done with a least
counterexample (`LeastOne`), from the library's well-foundedness of the naturals. What
a step keeps is `Queue`: each queued track has no source or was opened by a visited
one, once; all that a visited track opens is queued. If the walk ends early, the tracks
left all have a source among them, which is a loop; if it comes to all, the first
visited of any set has none in it. Commands that are not checked must take sends away
or leave them (`EasedHasNoLoop`).

`TypeCorrect` follows instance ids: those of every chain after a command are picked
from the chains before it, once each, or are the one `add_plugin` draws (`Neat`,
`Drawn`). `GraphIsOfTheTracks`: whatever is published last is what the tracks end up
as, or the planner refuses those. It was first stated without the second half, which
the small instance bears out and the proof attempt refuted (section 5,
`TracksAreWithinLimits`).

`OutputsStayAligned` is that `FullOutputsAreAligned` always holds, and the longest
argument here, since it opens everything from the planner to the block. In its order:

* *Folds.* The planners and the block are folds of the community modules, recursive
  functions on the subsets of the indices. Each is turned into a sequence of values
  with a first one and a step (`SetIterates`, `LeftIterates`, `LeftWalked`; `Turned`
  for values that have no type to name), and every induction below is one on numbers
  over such a sequence (`Counting`).
* *The plan.* `WalkIsOrdered`: the walk has each track once, behind all that feed it.
  So `PathIs`: a track's path is its own latency after the largest of those into it;
  `ReachIsClosed`: what reaches an output is in reach; `DelaysMeet`: where something
  reaches a full-PDC output, each way in with its delay is as late as the largest,
  also where the planner inserts none because there is one way only. This is
  `PlanIsAligned`.
* *A chain.* `Phase` says where the two paths are after each slot: in one buffer; each
  in its own two; or *behind*, where the monitor path is in the buffer the primary path
  writes next, or in its own with that one to write. Behind, a plugin in the primary path
  alone would mix the two, and `Entangled` excludes just that; everywhere else the primary
  path keeps its signal whatever the monitor path does (`PhaseKeeps`). So a chain delays
  its signal by its latency and leads it through the plugins in force, in order
  (`ChainPasses`).
* *The block.* `Flows` is what holds after each track of the order: what it plays is the
  ways to it, each late by its path; what waits for a later one has gone through the
  tracks before and is late by the largest path of those (`FlowsOn`). At the end this is
  `BlockIsAligned`.
* *The state.* `GraphIsPlanned`: the published graph is of tracks the engine had, sound,
  without loops and well formed, and its plan is the planner's for them; each commit,
  rollback and notice publishes so or not at all (`Laying`).

What is assumed of a state is in the property: the lines follow the plan, and no chain in
the graph is entangled. `PlanIsAligned` and `BlockIsAligned` are also of graphs that no
session leads to.

`LowOutputsStayHeard` is the same of `LowOutputsHearTheirPlugins`, by the same state
(`GraphIsPlanned`) and the same fold of the block, but along another argument, since the
monitor path has no plan of its own to be on time for:

* *A way's latency* is a sum over its plugins, each found by its id wherever it is, which
  needs `IdsAreUnique`. It grows with each plugin (`LatencyGrows`), so a signal that is as
  late as its ways say (`IsHeard`) stays so through a plugin, a fade and a mix.
* *Muted chains.* The ways a low-latency output plays are those of the graph in which each
  plugin that is bypassed for the monitor counts as bypassed (`Muted`,
  `PlayedWaysTurn`); with that the lemmas on ways serve for both paths.
* *The planner's splits.* A track's chain is planned from what the tracks before it made
  of its two inputs. `SplitsAre` takes the second fold of the planner apart: `Diverting`
  says which tracks' inputs one track makes differ, by a split chain or a delay.
* *A chain.* `Hearing` says where the monitor path is after each slot: in the primary
  path's buffer, in a buffer of its own, or left behind in one that no plugin writes any
  more, which is what `Overwritten` excludes (`HearingKeeps`). If the planner is told that
  the inputs are one, they are; so the monitor path plays the chain without the muted
  plugins, and if the chain has not split, both paths end in one signal (`MonitorRuns`).
* *The block.* `Hears` is what holds after each track, of the tracks a low-latency output
  hears: what waits for one in the monitor path is what the tracks before it play, and
  unless the planner knows better, the primary path has the same (`HearsOn`). At the end
  this is `BlockIsAtOnce`.

Of a state it assumes that the lines follow the plan, that each wanted shadow works and
has its plugin's latency, and that no chain is overwritten.

That the lines follow is not taken on faith: `LinesFollowUntilRetireThrows` shows that a
failed preparation, a refused swap or a rollback never leaves them to an older plan, and
that while nothing, or nothing but those, has failed they follow it; `EveryCommitRetargets`
that any step that publishes sets them, unless its own retirement throws.
`OutputsPlayInTime` is `OutputsStayAligned` with its first condition so removed.

**`AudioStream_proofs`.** `BlocksFit`, `StreamsAreWhole`, `NoticesAreKept` and
`TypeCorrect`, for any tracks, channels, commands and failures. None of the three
is inductive. That a block fits the buffers needs to know what a block that begins
*later* would take: `GraphFits` says that whatever runs has a graph made for it, and
`Reached` and `HasGraph` what each place of `start` and of a rebuild has already
stopped, retired or published; `OneMaster` says that the driver calls exactly while
the device runs and that a device and a clock never run together. `Callbacks` says of
the callbacks that outlive the driver's stop that the control thread waits for them or
has gone on without them, and that the former still find the buffers they took their
graph for. So `BlocksFit` assumes nothing of the driver; it excepts the callbacks that
nobody waits for, and section 5 shows what becomes of those (`LateBlocksFit`). That a
running stream has a graph holds only up to a refused publication, which the
property names.

**`SavedFile_proofs`.** `FileIsNeverHalf`, `ReportedSavesAreKept` and
`ReadersFindSettings`, for any number of saves, failed calls (reads too) and crashes. That
reported edits are in the file or the backup is not inductive, since a rename
removes one of the two. The invariant says where they are at each place of a save:
in the file if there is one, else in the backup, and always in the text that is
about to take the file's place, unless the read that the text is based on missed them;
the backup is touched only while the file holds them, and a torn temporary file is never
moved by its only writer, nor by one of two unless a write has failed. What the theorems
except is what the code gives up: settings that a save overwrites because it could not
read them (`SavesKeepOthers`, section 5), and a session that a new process cannot open.

Only model-checked: what is said under fairness (`OperationsEnd`, `LostClockEnds`,
`RequestsAreHandled`, `FirstScanEnds`, `CommandsEnd`, `Reconnects`), since liveness is
beyond the prover. Every other property of a passing run is stated by a theorem. The
findings are counterexamples of TLC.

## 5. Findings

Each is a run that TLC finds violated, with the line of the repository it
contradicts in `PROJECT.json`.

| Run | What the code does |
|---|---|
| `preset_rollback` | After a failed preparation `load_preset` restores the plugin's state when the graph that processes it may be published again. |
| `stream_disturbed` | Where both paths of a chain are alike the monitor path points into the primary path's buffer. Each plugin bypassed for the monitor then swaps the primary path's buffers alone: behind a second one both paths point at one buffer, and the track's gain is applied to it twice. The Stream plays the track with its gain squared, and with five plugins the monitor's signal. Bypassing plugins for the monitor changes what the audience hears. |

The other disagreements met while modelling are kept for whoever works on that
code. TLC refutes the property with the named configuration; where a row says
*with*, the property takes the place of the properties of that configuration, whose
constants it needs.

| Module | Configuration, property | What the code does |
|---|---|---|
| `MCGraphReclaim` | `MCGraphReclaimQueued`, `QueuedIsUnlinked` | `attach_loudness` queues the graph in use and replaces it afterwards; a comment (`audio_engine.cpp:1353`) says that a queued graph is unlinked. No deletion comes in between, so `NoUseAfterFree` holds all the same. |
| `MCGraphReclaim` | `MCGraphReclaimCommit`, `CommitSurvives` | An allocation failure of the reap after a commit leaves a `noexcept` function: the program ends where a comment (`:1029`) expects a late deletion. |
| `MCPluginQuiescence` | `MCPluginCapture`, `CaptureIsQuiescent` | `remove_plugin` and the rollbacks capture a primary's state without the safety graph. |
| `MCPluginQuiescence` | `MCPluginInitialize`, `InitializeIsQuiescent` | A `start` after a `stop` that gave up waiting terminates and initialises plugins that the old block may be inside. |
| `MCPluginQuiescence` | `MCPluginDiverged`, `DivergedSlotsHaveShadows` | `move_plugin` publishes a chain whose monitor path diverges and does not create the shadow. |
| `MCPluginQuiescence` | `MCPluginMirror`, `ShadowsMirrorState` | A failed preset load leaves a shadow built from the refused state. |
| `MCTracks` | with `MCTracksUndisturbed`, `MonitorIsUndisturbed` | With one plugin bypassed for the monitor behind a shared one, and another after it, the primary path writes the buffer the monitor path is in: low-latency outputs play the bypassed plugin's output, processed twice by the next. |
| `MCTracks` | with `MCTracksUndisturbed`, `SuspensionKeepsTheGain` | In the safety graph the monitor path of a track that diverged points at the primary's buffer, and both gains are applied to it: a low-latency output, and with it the send, is faded twice while plugins are suspended. |
| `MCTracks` | with `MCTracksUndisturbed`, `FailureKeepsTheWay` | The dry buffer is cleared before its delay line reads it; behind a plugin that failed or is suspended that buffer is the input, so a failing plugin after it loses the signal, where the design (`docs/plugin-latency-pdc-design.md:39`) keeps it as delayed dry audio. |
| `MCTracks` | with `MCTracksUndisturbed`, `SuspensionKeepsTheWay` | The same for two delayed plugins of one chain while all are suspended. |
| `MCTracks` | with `MCTracksUndisturbed`, `TotalIsHeard` | The total that a low-latency output reports is not always that of a way it plays. |
| `MCTracks` | with `MCTracksUndisturbed`, `CompensationIsHeard` | Nor is the compensation of a full-PDC output the delay inserted in one of its ways. |
| `MCTracks` | `MCTracksLimits`, `TracksAreWithinLimits` | `remove_plugin` and `move_plugin` look neither at the preparation of shadows nor at `swap_graph`'s result (`audio_engine.cpp:2107`, `:2130`). A plugin bypassed for the monitor can hide what a later one costs; with it removed the planner refuses, the command reports success, and the callbacks keep playing the removed plugin. The design (`docs/plugin-latency-pdc-design.md:37`) says that a change by the user that would exceed a limit fails and leaves everything unchanged. |
| `MCTracks` | with `MCTracks`, `LinesFollowPlan` | A retirement that throws after the commit skips the retargeting of the shared lines; the comment (`audio_engine.cpp:1029`) says that it costs a late deletion. Outputs stay misaligned until the next commit. |
| `MCTracks` | with `MCTracksUndisturbed` and `MaxTracks = 1`, `Sessions = {<<>>}`, `TracksAreLimited` | `ensure_system_outputs` makes its tracks without `track_add`, which a comment (`:1377`) calls the only way in: there can be two more than `kMaxTracks`, and a session saved so is refused by the next load. |
| `MCAudioStream` | with `MCAudioStream`, `DriverOutlivesPanel` | A `start` or a rebuild between the panel thread's test of the device and its count closes the driver under the panel, which the comment at `audio_engine.cpp:2429` says `start` refuses. |
| `MCAudioStream` | with `MCAudioStream`, `HealthyPumpIsKept` | The notice of a failed pump names its track only; when it is handled it takes down whatever pump the track has then. |
| `MCAudioStream` | with `MCAudioStream`, `RunningHasGraph` | A rebuild stops the stream's graph first; if the swap that follows is refused the stream runs without one. |
| `MCAudioStream` | with `MCAudioStream`, `CreateReleases` | `AppCapture::create` opens the process (`app_capture.cpp:166`); only the pump thread closes the handle, and there is none when a later step fails. |
| `MCAudioStream` | with `MCAudioStream`, `PanelBlocksNobody` | A second request to open the panel that comes before the first thread has counted itself joins that thread, which ends when the user closes the panel; a comment (`router.cpp:565`) says it is not reopened. The command holds `engine_mutex_` meanwhile. |
| `MCAudioStream` | with `MCAudioStream` and `MaxFaults = 0`, `LateBlocksFit` | A callback may outlive the driver's stop, as the comment at `audio_engine.cpp:728` says; `stop()` waits for it, a rebuild does not: it recreates the buffers under a callback that is inside the graph of the old ones. |
| `MCAudioStream` | with `MCAudioStream` and `MaxFaults = 0`, `LiveSourceIsHeard` | A source refused by a rebuild or a swap goes back to the old one, whose pump was stopped and is not made again: the track is silent and shows no error. |
| `MCScanJob` | `MCScanJobLost`, `ListIsRegistry` | A scan that commits between the two steps of `connect` is in neither its snapshot nor its events. |
| `MCScanJob` | `MCScanJobStuck`, `UiScanEnds` | If the connection is lost around the last event of a scan, the interface shows a scan that never ends: the next snapshot is not applied to it. |
| `MCScanJob` | `MCScanJobApproval`, `ApprovalsHold` | A finished scan replaces the registry, approvals given meanwhile included. |
| `MCScanJob` | with `MCScanJob`, `SnapshotComesFirst` | A scan event may precede the snapshot of a connection. |
| `MCScanJob` | with `MCScanJob`, `LateEventsAreIgnored` | A page that waits for its job id takes the events of the older page's job. |
| `MCScanJob` | with `MCScanJob`, `RunningHasThread` | A thread that cannot be created leaves a job that is called running. |
| `MCRouter` | `MCRouterStale`, `ViewIsCurrent` | A command of the older connection runs after the snapshot of the newer one, which never hears of it. |
| `MCRouter` | `MCRouterClean`, `CleanMeansSaved` | The continuation of a save's reply sets the interface's revision back behind a newer status: unsaved changes are shown as saved. |
| `MCRouter` | with `MCRouterClean` and `MaxPosts = 0`, `MaxEdits = 1`, `EditsMoveTheRevision` | An edit in a plugin's window does not move the revision. |
| `MCRouter` | with `MCRouter`, `EpochCountsMutations` | A mutation while no client is connected does not move the epoch. |
| `MCBridge` | `MCBridgePhase`, `PhaseIsConnected` | The retry task writes `connecting` over `connected`. |
| `MCBridge` | `MCBridgeLate`, `LateWriteReconnects` | A write that timed out never ends the connection, where a comment (`bridge.rs:223`) expects a reconnection. |
| `MCBridge` | `MCBridgeReset`, `ReplacementIsReal` | The epoch of one and the same engine moves with every mutation; from the second reconnection on the interface takes it for another engine and drops its session record. |
| `MCBridge` | `MCBridgeResent`, `FailedIsNotSent` | A command that was failed at a disconnection may still be written to the next connection and executed. |
| `MCSavedFile` | `MCSavedFileRestart`, `RestartOpensIt` | A process that ends between the two renames of a session leaves only the backup, and `load` does not look at it. |
| `MCSavedFile` | `MCSavedFileRegistry`, `FailureKeepsFile` | The scan thread and a retried plugin save the registry through the same two files: one moves or removes what the other made, and with no call failing by itself file and backup can both be gone. |
| `MCSavedFile` | with `MCSavedFile` and `MaxFaults = 1`, `SavesKeepOthers` | One failed read of an intact settings file makes `read_doc` return the older backup or an empty document (`settings.rs:382-399`); `set_settings` patches and saves that, so that settings reported as saved are overwritten. The comment at `:407` wants to keep a save from destroying the only good copy. |
| `MCSavedFile` | `MCSavedFileDamage`, `SettingsAreFound` | After something else damaged the settings, `read_doc` takes the backup, but the save that follows removes it to make room for the damaged file. |

Read in the code and not in a model: a track with both a send and a sidechain to
another has its delay lines counted four times against the limit
(`pdc_planner.cpp:50`); `track_set` keeps a new name and colour when it refuses the
gain; the microphone's and render sink's pumps do not notice a device that stops
signalling; `load` drops the display name of a plugin that was saved as a
placeholder (`session.cpp:472`), where it keeps that of one that fails now.

## 6. The plan

In the order of importance of the behaviour:

1. `SafeReclaim`, `GraphReclaim` and its theorems: done.
2. `PluginQuiescence` and its first theorems: done.
3. `ScanJob`, `Router`, `Bridge` and theorems for every safety property their runs
   check: done.
4. `RoutePlan`, `Render`, `Tracks`, and the theorems that need no more of a plan than
   its walk: done. The transition of a delay line between two delays is left.
5. `AudioStream` and its theorems: done.
6. `SavedFile` and its theorems: done. Session load as a transaction on a running
   engine is left.
7. What `plan_plugin_delay` computes, what a block makes of it, and
   `FullOutputsAreAligned`: done.
8. `LowOutputsHearTheirPlugins`, for every chain and every graph, and what the delay
   lines are set to: done.

## 7. Not modelled

* Arithmetic on samples: levels, meters, crossfades, the measuring of loudness,
  resampling and drift between device clocks (`spsc_fifo.hpp`, the pumps' buffers).
* The parameter ring and the telemetry block: one writer and one reader around one
  pair of atomics; what can go wrong is a data race or a full ring, and their
  readers have no state that depends on the order.
* COM calls of the plugins, Windows driver calls, window handling: each is a step
  that succeeds or fails where a module calls it.
* File formats, migrations and projections; the portable mode's choice of paths.
* Nested message loops of plugins, structured exceptions inside handlers, frames
  that are too large, the idle watchdog: they depend on code outside the
  repository or on time alone.
