------------------------------ MODULE AudioStream ------------------------------
(***************************************************************************)
(* The audio stream: AsioDevice with its driver, the WASAPI clock, the     *)
(* pump threads of captures, microphones and render sinks, the thread of   *)
(* the hardware panel, and AudioEngine's start, stop, source and output    *)
(* changes, which open, rebuild and close all of them.  The control        *)
(* thread's operations are split where another thread can come between.    *)
(* A driver that is told to stop need not have left its callback: a block  *)
(* in progress then goes on beside whatever the control thread does.       *)
(*                                                                         *)
(* The rate, the block size and the samples are left out; a graph is       *)
(* represented by what its channel positions were resolved against.        *)
(***************************************************************************)
EXTENDS Naturals, Sequences, FiniteSets

CONSTANTS
    Tracks,      \* the tracks with a source or an output of their own
    Kind,        \* what pumps a track's sound: "app", "mic" or "render"
    Chans,       \* the ASIO channels a track may be given
    Outs,        \* the output channels among them
    DefaultOuts, \* the outputs taken when no track asks for one
    MaxFaults,   \* bound: different faults in one run
    MaxOps       \* bound: commands in one run

VARIABLES
    dev,         \* AsioDevice: driver open, buffers made, their map, running_
    gate,        \* Impl::active() is this device
    hw,          \* the driver calls back
    clock,       \* clock_, a WasapiClock and its pump thread
    graph,       \* what rt_graph_ was resolved against
    block,       \* the block in progress: who drives it, with which graph
    late,        \* blocks the driver was told to stop under: with which graph,
                 \* and whether the control thread went on without them
    seen,        \* a block ended since the baseline of start's wait
    src,         \* a track's source or output: nothing, its pump, a channel
    pump,        \* the pump thread of a track
    trackError,  \* track_error is not empty
    streamError, \* stream_error_ is not empty
    queue,       \* WM_APP_CAPTURE_ERR messages; Master stands for track 0
    panel,       \* the panel thread
    op,          \* the control thread's operation in progress
    faults,      \* the faults met so far
    ops          \* commands so far

vars == <<dev, gate, hw, clock, graph, block, late, seen, src, pump, trackError,
          streamError, queue, panel, op, faults, ops>>
device == <<dev, gate, hw>>
sound == <<src, pump, trackError>>
callbacks == <<block, late>>

\* Track 0, which no track has, stands for the clock.
Master == "master"

ASSUME StreamAssumption ==
    /\ Master \notin Tracks
    /\ Kind \in [Tracks -> {"app", "mic", "render"}]
    /\ MaxFaults \in Nat /\ MaxOps \in Nat

NoGraph == [of |-> "none", map |-> {}]
NotTaken == [of |-> "untaken", map |-> {}]    \* a block that is no reader yet
NoBlock == [by |-> "none", with |-> NoGraph]
Closed == [open |-> FALSE, buffers |-> FALSE, map |-> dev.map, running |-> FALSE]
NoClock == [there |-> FALSE, running |-> FALSE, failed |-> FALSE, pump |-> "none"]
Idle == [pc |-> "idle"]

FaultKinds == {"probe", "prepare", "driver", "silent", "create", "lost",
               "clock", "plugin", "swap", "leak", "undrained"}
AllChans == (UNION {Chans[t] : t \in Tracks}) \cup DefaultOuts
Graphs == [of : {"none", "asio", "clock"}, map : SUBSET AllChans]
Taken == Graphs \cup {NotTaken}

TypeOK ==
    /\ dev \in [open : BOOLEAN, buffers : BOOLEAN, map : SUBSET AllChans, running : BOOLEAN]
    /\ gate \in BOOLEAN /\ hw \in BOOLEAN /\ seen \in BOOLEAN
    /\ clock \in [there : BOOLEAN, running : BOOLEAN, failed : BOOLEAN,
                  pump : {"none", "run", "ended"}]
    /\ graph \in Graphs
    /\ block \in [by : {"none", "asio", "clock"}, with : Taken]
    /\ late \subseteq [with : Taken, left : BOOLEAN]
    /\ src \in [Tracks -> {"none", "pump"} \cup AllChans]
    /\ pump \in [Tracks -> {"none", "run", "mute", "failed"}]
    /\ trackError \in [Tracks -> BOOLEAN] /\ streamError \in BOOLEAN
    /\ queue \in Seq(Tracks \cup {Master})
    /\ panel \in {"none", "spawned", "checked", "inside", "ended"}
    /\ op.pc \in {"idle", "join", "open", "arm", "go", "wait", "rollback", "rebuild",
                 "restore", "publish", "drain"}
    /\ faults \subseteq FaultKinds

Init ==
    /\ dev = [open |-> FALSE, buffers |-> FALSE, map |-> {}, running |-> FALSE]
    /\ gate = FALSE /\ hw = FALSE /\ seen = FALSE
    /\ clock = NoClock /\ graph = NoGraph /\ block = NoBlock /\ late = {}
    /\ src = [t \in Tracks |-> "none"]
    /\ pump = [t \in Tracks |-> "none"]
    /\ trackError = [t \in Tracks |-> FALSE] /\ streamError = FALSE
    /\ queue = <<>> /\ panel = "none" /\ op = Idle
    /\ faults = {} /\ ops = 0

(***************************************************************************)
(* Helpers.                                                                *)
(***************************************************************************)

\* The outcomes of a step that can fail: well, or ill for a reason not met yet.
Well == faults' = faults
Ill(f) == /\ f \notin faults /\ Cardinality(faults) < MaxFaults
          /\ faults' = faults \cup {f}

StreamRunning == IF clock.there THEN clock.running ELSE dev.running
PanelOpen == panel = "inside"

\* asio_channel_union: what the tracks ask for, and an output at least.
\* Fault: a track's channel is taken whatever the type of its source.
Union_Raw(s) == {s[t] : t \in Tracks} \cup DefaultOuts
Union(s) ==
    LET asked == {s[t] : t \in Tracks} \ {"none", "pump"}
    IN  IF asked \cap Outs = {} THEN asked \cup DefaultOuts ELSE asked

\* commit_graph_candidate resolves channels against what stands at that time.
Fresh(d, c) == [of |-> IF c.there THEN "clock" ELSE "asio", map |-> d.map]

\* swap_graph: a refused plan or a failed allocation leaves the graph alone.
Swap == \/ Well /\ graph' = Fresh(dev, clock)
        \/ Ill("swap") /\ UNCHANGED graph

\* The clock's stop joins its thread, which ends the block in progress first.
ClockJoined == block.by # "clock"

\* The driver's stop waits for nobody: a block in progress is late from then on.
Overtaken(left) ==
    IF block.by = "asio"
      THEN block' = NoBlock /\ late' = late \cup {[with |-> block.with, left |-> left]}
      ELSE UNCHANGED callbacks

StopDriver == /\ hw' = FALSE
              /\ gate' = (gate /\ ~dev.buffers)

\* retire_graph.
RetireGraph == graph' = NoGraph

\* stop() up to its wait: the clock is joined, the driver told, the graph retired.
\* What follows the wait is then.
\* Fault: running_ stays set.
Halt_Running(close, then) ==
    /\ ClockJoined /\ StopDriver /\ Overtaken(FALSE)
    /\ clock' = NoClock /\ RetireGraph
    /\ op' = [pc |-> "drain", close |-> close, then |-> then]
    /\ UNCHANGED dev
Halt(close, then) ==
    /\ ClockJoined /\ StopDriver /\ Overtaken(FALSE)
    /\ dev' = [dev EXCEPT !.running = FALSE]
    /\ clock' = NoClock /\ RetireGraph
    /\ op' = [pc |-> "drain", close |-> close, then |-> then]

(***************************************************************************)
(* Pump threads: AppCapture, MicCapture, RenderSink.                       *)
(***************************************************************************)

\* What the three create()s acquire, in turn.
AppCreate == <<"client", "process", "event", "service">>
MicCreate == <<"client", "event", "service">>
RenderCreate == <<"client", "event", "service">>

\* A failure after the first n releases them, except the handle of the process:
\* only the thread closes it, and stop() does nothing before there is one.
Leaks(acquires, n) == {acquires[i] : i \in 1..n} \cap {"process"}
CreateFails(k) ==
    LET acquires == CASE k = "app" -> AppCreate
                      [] k = "mic" -> MicCreate
                      [] k = "render" -> RenderCreate
    IN  \E n \in 0..Len(acquires) :
            IF Leaks(acquires, n) = {} THEN Ill("create") ELSE Ill("leak")

\* stop_* and ensure_*: the old thread is joined before a new one is created.
\* bad: the tracks whose create fails; their error is shown, the others' cleared.
Ensure(ts, bad) ==
    /\ pump' = [t \in Tracks |-> IF t \notin ts THEN pump[t]
                                 ELSE IF t \in bad THEN "none" ELSE "run"]
    /\ trackError' = [t \in Tracks |-> IF t \in ts THEN t \in bad ELSE trackError[t]]

\* How a pump's device goes and its thread finds out: a call to it fails, or the
\* captured process has ended.  One that just stops signalling is waited for
\* again and again.
AppNotices == {"error", "exited"}
MicNotices == {"error"}
RenderNotices == {"error"}
Notices(k) == CASE k = "app" -> AppNotices
                [] k = "mic" -> MicNotices
                [] k = "render" -> RenderNotices

\* The thread that finds out releases what it holds, sets failed_ and posts the
\* track's number.
\* Fault: nothing is posted once the control thread has begun an operation.
PumpFails_Dropped(t, how) ==
    /\ pump[t] = "run" /\ Ill("lost") /\ how \in Notices(Kind[t])
    /\ pump' = [pump EXCEPT ![t] = "failed"]
    /\ queue' = IF op = Idle THEN Append(queue, t) ELSE queue
    /\ UNCHANGED <<device, clock, graph, callbacks, seen, src, trackError, streamError,
                   panel, op, ops>>
PumpFails(t, how) ==
    /\ pump[t] = "run" /\ Ill("lost") /\ how \in Notices(Kind[t])
    /\ pump' = [pump EXCEPT ![t] = "failed"]
    /\ queue' = Append(queue, t)
    /\ UNCHANGED <<device, clock, graph, callbacks, seen, src, trackError, streamError,
                   panel, op, ops>>

PumpFallsSilent(t) ==
    /\ pump[t] = "run" /\ Ill("lost")
    /\ pump' = [pump EXCEPT ![t] = "mute"]
    /\ UNCHANGED <<device, clock, graph, callbacks, seen, src, trackError, streamError,
                   queue, panel, op, ops>>

(***************************************************************************)
(* The WASAPI clock's pump, and the driver's callback.                     *)
(***************************************************************************)

\* Only the thread that turns running_ off itself sets failed_ and posts 0.
ClockFails ==
    /\ clock.pump = "run" /\ clock.running /\ block.by # "clock" /\ Ill("clock")
    /\ clock' = [clock EXCEPT !.running = FALSE, !.failed = TRUE, !.pump = "ended"]
    /\ queue' = Append(queue, Master)
    /\ UNCHANGED <<device, graph, callbacks, seen, sound, streamError, panel, op, ops>>

ClockBlockBegins ==
    /\ clock.pump = "run" /\ clock.running /\ block.by = "none"
    /\ block' = [by |-> "clock", with |-> graph]
    /\ UNCHANGED <<late, device, clock, graph, seen, sound, streamError, queue, panel,
                   op, faults, ops>>

\* buffer_switch does nothing unless a device is active.
DriverBlockBegins ==
    /\ hw /\ gate /\ dev.buffers /\ block.by = "none"
    /\ block' = [by |-> "asio", with |-> NotTaken]
    /\ UNCHANGED <<late, device, clock, graph, seen, sound, streamError, queue,
                   panel, op, faults, ops>>

\* process counts itself among the readers and takes the graph.
BlockTakes ==
    /\ \/ /\ block.with = NotTaken /\ block' = [block EXCEPT !.with = graph]
          /\ UNCHANGED late
       \/ \E b \in late :
             /\ b.with = NotTaken
             /\ late' = (late \ {b}) \cup {[b EXCEPT !.with = graph]}
             /\ UNCHANGED block
    /\ UNCHANGED <<device, clock, graph, seen, sound, streamError, queue, panel,
                   op, faults, ops>>

\* The driver's callbacks are counted also when they are late.
BlockEnds ==
    /\ \/ /\ block.by # "none" /\ block.with # NotTaken
          /\ block' = NoBlock /\ seen' = TRUE
          /\ UNCHANGED late
       \/ \E b \in late :
             /\ b.with # NotTaken /\ late' = late \ {b}
             /\ seen' = (seen \/ ~clock.there)
             /\ UNCHANGED block
    /\ UNCHANGED <<device, clock, graph, sound, streamError, queue, panel, op,
                   faults, ops>>

(***************************************************************************)
(* The panel.                                                              *)
(***************************************************************************)

\* handle_open_device_panel: a counted thread means the panel is open, which
\* is refused; any other thread is joined before a new one is made.
OpenPanel ==
    /\ op = Idle /\ ops < MaxOps /\ StreamRunning /\ ~PanelOpen
    /\ ops' = ops + 1
    /\ IF panel \in {"none", "ended"}
         THEN panel' = "spawned" /\ UNCHANGED op
         ELSE op' = [pc |-> "join"] /\ UNCHANGED panel
    /\ UNCHANGED <<device, clock, graph, callbacks, seen, sound, streamError, queue, faults>>

JoinPanel ==
    /\ op.pc = "join" /\ panel = "ended"
    /\ panel' = "spawned" /\ op' = Idle
    /\ UNCHANGED <<device, clock, graph, callbacks, seen, sound, streamError, queue,
                   faults, ops>>

\* open_control_panel in its thread: it reads the stream's state, then counts
\* itself in and goes into the driver if there is one, until the user closes it.
PanelReads ==
    /\ panel = "spawned"
    /\ panel' = IF ~clock.there /\ dev.running THEN "checked" ELSE "ended"
    /\ UNCHANGED <<device, clock, graph, callbacks, seen, sound, streamError, queue,
                   op, faults, ops>>
PanelEnters ==
    /\ panel = "checked"
    /\ panel' = IF dev.open THEN "inside" ELSE "ended"
    /\ UNCHANGED <<device, clock, graph, callbacks, seen, sound, streamError, queue,
                   op, faults, ops>>
PanelLeaves ==
    /\ panel = "inside" /\ panel' = "ended"
    /\ UNCHANGED <<device, clock, graph, callbacks, seen, sound, streamError, queue,
                   op, faults, ops>>

(***************************************************************************)
(* AsioDevice, as the operations below use it.                             *)
(***************************************************************************)

\* probe and prepare: what runs is stopped and its buffers given back, without a
\* look at the readers; buffers are made for the channels of map and the gate is
\* taken.
Prepare(map) ==
    /\ Overtaken(TRUE)
    /\ dev' = [open |-> TRUE, buffers |-> TRUE, map |-> map, running |-> FALSE]
    /\ gate' = TRUE /\ hw' = FALSE

\* start: the driver calls back from now on.
Run(map) ==
    /\ Overtaken(TRUE)
    /\ dev' = [open |-> TRUE, buffers |-> TRUE, map |-> map, running |-> TRUE]
    /\ gate' = TRUE /\ hw' = TRUE

CloseDevice == StopDriver /\ Overtaken(TRUE) /\ dev' = Closed

(***************************************************************************)
(* start.                                                                  *)
(***************************************************************************)

\* A failed clock is stopped and joined first; an open panel refuses.
Start(m) ==
    /\ op = Idle /\ ops < MaxOps /\ ops' = ops + 1
    /\ ~dev.running /\ ~clock.running
    /\ LET opens == [pc |-> "open", master |-> m]
       IN  IF clock.there
             THEN Halt(FALSE, opens)
             ELSE /\ op' = IF PanelOpen THEN Idle ELSE opens
                  /\ UNCHANGED <<device, clock, graph, callbacks>>
    /\ UNCHANGED <<seen, sound, streamError, queue, panel, faults>>

\* A driver that is open is taken as it is, unless the rate must change: then it
\* is closed, and the one opened may be refused for what it says of itself.
ProbeFails == Ill("probe") /\ CloseDevice

\* The driver is probed and prepared; or the clock is created.  A failure leaves
\* the driver closed.
OpenAsio ==
    /\ op.pc = "open" /\ op.master = "asio"
    /\ \/ Well /\ Prepare(Union(src)) /\ op' = [op EXCEPT !.pc = "arm"]
       \/ (ProbeFails \/ (Ill("prepare") /\ CloseDevice)) /\ op' = Idle
    /\ UNCHANGED <<clock, graph, seen, sound, streamError, queue, panel, ops>>
OpenClock ==
    /\ op.pc = "open" /\ op.master = "clock"
    /\ \/ Well /\ clock' = [NoClock EXCEPT !.there = TRUE] /\ op' = [op EXCEPT !.pc = "arm"]
       \/ Ill("probe") /\ op' = Idle /\ UNCHANGED clock
    /\ UNCHANGED <<device, graph, callbacks, seen, sound, streamError, queue, panel, ops>>

\* Every pump is made anew, a failure being the track's own; the plugins are
\* initialised; the graph is published.
Arm ==
    /\ op.pc = "arm"
    /\ LET ts == {t \in Tracks : src[t] = "pump"}
       IN  \/ /\ Ensure(ts, {}) /\ Swap
              /\ op' = [op EXCEPT !.pc = IF faults' = faults THEN "go" ELSE "rollback"]
           \/ \E t \in ts : /\ Ensure(ts, {t}) /\ CreateFails(Kind[t])
                            /\ graph' = Fresh(dev, clock)
                            /\ op' = [op EXCEPT !.pc = "go"]
           \/ /\ Ensure(ts, {}) /\ Ill("plugin") /\ UNCHANGED graph
              /\ op' = [op EXCEPT !.pc = "rollback"]
    /\ UNCHANGED <<device, clock, callbacks, seen, src, streamError, queue, panel, ops>>

Go ==
    /\ op.pc = "go"
    /\ \/ /\ Well /\ seen' = FALSE /\ op' = [op EXCEPT !.pc = "wait"]
          /\ IF op.master = "asio"
               THEN Run(dev.map) /\ UNCHANGED clock
               ELSE /\ clock' = [clock EXCEPT !.running = TRUE, !.pump = "run"]
                    /\ UNCHANGED <<device, callbacks>>
       \/ /\ Ill("driver") /\ op' = [op EXCEPT !.pc = "rollback"]
          /\ UNCHANGED <<device, clock, callbacks, seen>>
    /\ UNCHANGED <<graph, sound, streamError, queue, panel, ops>>

\* The stream must deliver a block within the wait, and the clock still run.
Wait ==
    /\ op.pc = "wait"
    /\ \/ /\ seen /\ Well /\ StreamRunning
          /\ streamError' = FALSE /\ op' = Idle
       \/ /\ (~seen /\ Ill("silent")) \/ (~StreamRunning /\ Well)
          /\ op' = [op EXCEPT !.pc = "rollback"] /\ UNCHANGED streamError
    /\ UNCHANGED <<device, clock, graph, callbacks, seen, sound, queue, panel, ops>>

\* StartRollback: stop(), then the driver is closed.
Rollback ==
    /\ op.pc = "rollback"
    /\ Halt(TRUE, Idle)
    /\ UNCHANGED <<seen, sound, streamError, queue, panel, faults, ops>>

(***************************************************************************)
(* stop, and the notices of failed threads.                                *)
(***************************************************************************)

Stop ==
    /\ op = Idle /\ ops < MaxOps /\ ops' = ops + 1
    /\ Halt(FALSE, Idle)
    /\ UNCHANGED <<seen, sound, streamError, queue, panel, faults>>

\* A block that has not come as far as process, or found no graph, is no reader.
Readers == {b \in late : b.with \notin {NotTaken, NoGraph}}

\* wait_rt_blocks_drained.
\* Fault: its answer is not asked for.
Drained_Unasked == TRUE
Drained == Readers = {}

GoOnWithout(bs) == late' = (late \ bs) \cup {[b EXCEPT !.left = TRUE] : b \in bs}

\* The rest of stop(), once no block is a reader or the wait gives up, and of what
\* called it: StartRollback closes the driver, start is refused by an open panel.
Drain ==
    /\ op.pc = "drain"
    /\ \/ Drained /\ Well /\ GoOnWithout(late \ Readers)
       \/ ~Drained /\ Ill("undrained") /\ GoOnWithout(late)
    /\ pump' = [t \in Tracks |-> "none"]
    /\ dev' = IF op.close THEN Closed ELSE dev
    /\ op' = IF PanelOpen THEN Idle ELSE op.then
    /\ UNCHANGED <<gate, hw, clock, graph, block, seen, src, trackError, streamError,
                   queue, panel, ops>>

\* handle_track_failed(0): the clock is stopped only if it is one that failed.
\* Fault: the error is shown and the clock left as it is.
MasterFailed_Shown ==
    /\ streamError' = clock.failed
    /\ UNCHANGED <<device, clock, graph, callbacks, op>>
MasterFailed ==
    IF clock.failed THEN Halt(FALSE, Idle) /\ streamError' = TRUE
                    ELSE UNCHANGED <<device, clock, graph, callbacks, streamError, op>>

\* handle_track_failed(t): the track loses whatever pump it has now.
TrackFailed(t) ==
    /\ pump' = [pump EXCEPT ![t] = "none"]
    /\ trackError' = [trackError EXCEPT ![t] = @ \/ pump[t] # "none"]

HandleNotice ==
    /\ op = Idle /\ queue # <<>>
    /\ queue' = Tail(queue)
    /\ IF Head(queue) = Master
         THEN MasterFailed /\ UNCHANGED <<pump, trackError>>
         ELSE /\ TrackFailed(Head(queue))
              /\ UNCHANGED <<device, clock, graph, callbacks, streamError, op>>
    /\ UNCHANGED <<seen, src, panel, faults, ops>>

(***************************************************************************)
(* track_set_source and track_set_output.                                  *)
(***************************************************************************)

\* A refused plan takes a change of source back; track_set_output does not look.
KeepsRefused(t) == Kind[t] = "render"

\* A capture, a microphone or a render sink.  While the stream runs it is
\* created at once; if that fails the track is left with nothing.
SetPump(t) ==
    /\ op = Idle /\ ops < MaxOps /\ ops' = ops + 1
    /\ \/ /\ ~StreamRunning /\ Well
          /\ pump' = [pump EXCEPT ![t] = "none"]
          /\ trackError' = [trackError EXCEPT ![t] = FALSE]
          /\ src' = [src EXCEPT ![t] = "pump"] /\ graph' = Fresh(dev, clock)
       \/ /\ StreamRunning /\ Ensure({t}, {})
          /\ src' = [src EXCEPT ![t] = "pump"] /\ Swap
       \/ /\ StreamRunning /\ Ensure({t}, {t}) /\ CreateFails(Kind[t])
          /\ src' = [src EXCEPT ![t] = "none"] /\ graph' = Fresh(dev, clock)
    /\ UNCHANGED <<device, clock, callbacks, seen, streamError, queue, panel, op>>

\* A channel of the device, or nothing.  The pump is stopped and the error
\* cleared first; a running device whose buffers lack the channel is rebuilt.
SetChannel(t, c) ==
    /\ op = Idle /\ ops < MaxOps /\ ops' = ops + 1
    /\ pump' = [pump EXCEPT ![t] = "none"]
    /\ trackError' = [trackError EXCEPT ![t] = FALSE]
    /\ LET old == src[t]
           new == [src EXCEPT ![t] = c]
           lacks == c # "none" /\ dev.running /\ ~(Union(new) \subseteq dev.map)
       IN  \/ /\ ~lacks /\ Swap
              /\ src' = IF faults' # faults /\ ~KeepsRefused(t) THEN src ELSE new
              /\ UNCHANGED op
           \/ /\ lacks /\ PanelOpen /\ Well /\ UNCHANGED <<src, op>>
              /\ graph' = Fresh(dev, clock)
           \/ /\ lacks /\ ~PanelOpen /\ Well
              /\ src' = new /\ RetireGraph
              /\ op' = [pc |-> "rebuild", track |-> t, old |-> old, map |-> dev.map]
    /\ UNCHANGED <<device, clock, callbacks, seen, streamError, queue, panel>>

\* rebuild_asio_channels: the graph is gone already; the device is prepared
\* for the new channels and started, and the caller publishes.
Rebuild ==
    /\ op.pc = "rebuild"
    /\ \/ Well /\ Run(Union(src)) /\ op' = [op EXCEPT !.pc = "publish"]
       \/ /\ Ill("prepare") \/ Ill("driver")
          /\ CloseDevice /\ op' = [op EXCEPT !.pc = "restore"]
    /\ UNCHANGED <<clock, graph, seen, sound, streamError, queue, panel, ops>>
Publish ==
    /\ op.pc = "publish" /\ Swap /\ op' = Idle
    /\ src' = IF faults' # faults /\ ~KeepsRefused(op.track)
                THEN [src EXCEPT ![op.track] = op.old] ELSE src
    /\ UNCHANGED <<device, clock, callbacks, seen, pump, trackError, streamError, queue,
                   panel, ops>>

\* The old channels again, in a driver opened anew; or the device stays closed.
Restore ==
    /\ op.pc = "restore" /\ op' = [op EXCEPT !.pc = "publish"]
    /\ \/ Well /\ Run(op.map)
       \/ ProbeFails \/ ((Ill("prepare") \/ Ill("driver")) /\ CloseDevice)
    /\ src' = [src EXCEPT ![op.track] = op.old]
    /\ UNCHANGED <<clock, graph, seen, pump, trackError, streamError, queue,
                   panel, ops>>

(***************************************************************************)
(* The next step.                                                          *)
(***************************************************************************)

Control ==
    \/ JoinPanel \/ OpenAsio \/ OpenClock \/ Arm \/ Go \/ Wait \/ Rollback
    \/ Rebuild \/ Restore \/ Publish \/ HandleNotice \/ Drain

Next ==
    \/ Control
    \/ \E m \in {"asio", "clock"} : Start(m)
    \/ Stop \/ OpenPanel
    \/ \E t \in Tracks : \/ SetPump(t)
                         \/ \E c \in Chans[t] \cup {"none"} : SetChannel(t, c)
    \/ \E t \in Tracks : PumpFallsSilent(t) \/ \E how \in {"error", "exited"} : PumpFails(t, how)
    \/ ClockFails \/ ClockBlockBegins \/ DriverBlockBegins \/ BlockTakes \/ BlockEnds
    \/ PanelReads \/ PanelEnters \/ PanelLeaves

Spec == Init /\ [][Next]_vars

\* The control thread goes on, blocks end and the panel thread goes on but for
\* its user.  A stop waits for the block in progress and not for later ones:
\* running_ is off, or the driver told, before it waits.  A stream without the
\* fault "silent" delivers blocks; with it, start's wait gives up.
Fairness ==
    /\ SF_vars(Control)
    /\ WF_vars(BlockTakes) /\ WF_vars(BlockEnds)
    /\ WF_vars(DriverBlockBegins) /\ WF_vars(ClockBlockBegins)
    /\ WF_vars(PanelReads) /\ WF_vars(PanelEnters)

FairSpec == Spec /\ Fairness

(***************************************************************************)
(* Properties.                                                             *)
(***************************************************************************)

\* A graph that a block of the driver has taken is for the buffers that stand.
Fits(g) == g \in {NoGraph, NotTaken} \/ (dev.buffers /\ g = Fresh(dev, NoClock))

\* A block reads and writes channels by positions of the buffers that stand:
\* no block of the driver runs a graph resolved against other buffers or for
\* the clock, nor a block of the clock one resolved for the driver.  That holds
\* also of a callback that outlives the driver's stop, unless the control thread
\* went on without it: a rebuild does not wait, stop()'s wait may give up, and it
\* counts only the callbacks that have come as far as process.
BlocksFitBuffers ==
    /\ block.by = "asio" => Fits(block.with)
    /\ block.by = "clock" => block.with.of \in {"none", "clock"}
    /\ \A b \in late : ~b.left => Fits(b.with)

\* What the rebuild would have to keep: nobody changes the buffers under a
\* callback that is still in its graph.
LateBlocksFit == \A b \in late : Fits(b.with)

\* Between operations the stream is whole: a device that runs is open, has
\* buffers and the gate, and is called; and there is a graph to run, unless a
\* publication failed.
RunningIsWhole ==
    op = Idle /\ StreamRunning =>
        /\ dev.running => dev.open /\ dev.buffers /\ gate /\ hw
        /\ "swap" \in faults \/ graph # NoGraph

\* Between operations a track that is to be pumped while the stream runs is
\* pumped, or shows an error.
LiveSourceIsHeard ==
    op = Idle /\ StreamRunning =>
        \A t \in Tracks : src[t] = "pump" /\ pump[t] = "none" => trackError[t]

\* The driver is not closed under the panel that is open in it.
DriverOutlivesPanel == [][dev.open /\ ~dev'.open => ~PanelOpen]_vars

\* A notice takes down the pump that failed, not one made since.
HealthyPumpIsKept ==
    [][\A t \in Tracks : queue # queue' /\ Len(queue') < Len(queue) /\ pump[t] = "run"
                         /\ Head(queue) = t => pump'[t] = "run"]_vars

\* A graph is there to run whenever the stream runs between operations.
RunningHasGraph == op = Idle /\ StreamRunning => graph # NoGraph

\* A failed creation of a pump releases all it acquired.
CreateReleases == "leak" \notin faults

\* The control thread answers, whether or not the user closes the panel.
PanelBlocksNobody == op.pc = "join" ~> op = Idle

\* A thread that died on its own is reported: the notice of a pump or clock
\* that failed is on its way to the control thread for as long as it stands.
FailuresAreNoticed ==
    /\ \A t \in Tracks : pump[t] = "failed" => \E i \in DOMAIN queue : queue[i] = t
    /\ clock.failed => \E i \in DOMAIN queue : queue[i] = Master

\* A clock that failed is taken down, whatever operation meets it.
LostClockEnds == clock.failed ~> ~clock.there
=============================================================================
