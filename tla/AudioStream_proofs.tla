--------------------------- MODULE AudioStream_proofs ---------------------------
(***************************************************************************)
(* Proofs about AudioStream, for any tracks, channels, operations and      *)
(* failures: a block runs with the buffers its graph was made for, also    *)
(* when it outlives the driver's stop, for as long as it is waited for; a  *)
(* stream that runs is whole; and a thread that failed is noticed.         *)
(***************************************************************************)
EXTENDS AudioStream, SequenceTheorems, TLAPS

(***************************************************************************)
(* The invariant.                                                          *)
(***************************************************************************)

Devices == [open : BOOLEAN, buffers : BOOLEAN, map : SUBSET AllChans, running : BOOLEAN]
Clocks == [there : BOOLEAN, running : BOOLEAN, failed : BOOLEAN,
           pump : {"none", "run", "ended"}]

\* An operation in progress, with what it needs to go on or to undo itself, and
\* what may come after the wait of stop().
Opens == [pc : {"open"}, master : {"asio", "clock"}]
Operations ==
    {Idle, [pc |-> "join"]}
        \cup [pc : {"open", "arm", "go", "wait", "rollback"}, master : {"asio", "clock"}]
        \cup [pc : {"rebuild", "restore", "publish"}, track : Tracks,
              old : {"none", "pump"} \cup AllChans, map : SUBSET AllChans]
        \cup [pc : {"drain"}, close : BOOLEAN, then : {Idle} \cup Opens]

Typed == TypeOK /\ op \in Operations

\* The driver calls exactly while the device runs, which it does with its
\* buffers and the gate; and a device and a clock never run together.
OneMaster ==
    /\ hw = dev.running
    /\ dev.running => dev.open /\ dev.buffers /\ gate /\ ~clock.there
    /\ clock.running => clock.there

\* What a block that begins now takes fits.
GraphFits ==
    /\ dev.running /\ graph # NoGraph => graph = Fresh(dev, NoClock)
    /\ clock.running => graph.of \in {"none", "clock"}

\* What an operation has reached.
Reached ==
    /\ op.pc \in {"open", "arm", "go"} => ~dev.running /\ ~clock.running
    /\ op.pc = "open" => ~clock.there
    /\ op.pc \in {"arm", "go"} => (clock.there <=> op.master = "clock")
    /\ op.pc = "go" => graph = Fresh(dev, clock)
    /\ op.pc \in {"rebuild", "restore", "publish"} => ~clock.there
    /\ op.pc \in {"rebuild", "restore"} => graph = NoGraph
    /\ op.pc = "restore" => ~dev.running
    /\ op.pc = "drain" => graph = NoGraph /\ ~dev.running /\ ~clock.there

\* Whatever runs has a graph, once it has been started or published.
HasGraph ==
    /\ op.pc = "wait" => graph # NoGraph
    /\ op.pc \in {"idle", "join"} /\ StreamRunning => "swap" \in faults \/ graph # NoGraph

\* The driver's block in progress is one it was not stopped under; the late ones
\* are waited for, or the control thread has gone on without them.
Callbacks ==
    /\ block \in [by : {"none", "asio", "clock"}, with : Taken]
    /\ late \subseteq [with : Taken, left : BOOLEAN]
    /\ block.by = "asio" => dev.running
    /\ \A b \in late : ~b.left => op.pc = "drain"
    /\ BlocksFitBuffers

IInv ==
    /\ Typed /\ OneMaster /\ GraphFits /\ Reached /\ HasGraph
    /\ FailuresAreNoticed
    /\ Callbacks

(***************************************************************************)
(* Operations, channels and notices.                                       *)
(***************************************************************************)

\* An operation that goes on keeps what it needs.
LEMMA StartGoesOn ==
    ASSUME op \in Operations, op.pc \in {"open", "arm", "go", "wait", "rollback"},
           NEW q \in {"open", "arm", "go", "wait", "rollback"}
    PROVE  /\ [op EXCEPT !.pc = q] \in Operations
           /\ [op EXCEPT !.pc = q].pc = q
           /\ [op EXCEPT !.pc = q].master = op.master
           /\ op.master \in {"asio", "clock"}
<1>1. op \in [pc : {"open", "arm", "go", "wait", "rollback"}, master : {"asio", "clock"}]
  BY DEF Operations, Idle
<1> QED BY <1>1 DEF Operations

LEMMA RebuildGoesOn ==
    ASSUME op \in Operations, op.pc \in {"rebuild", "restore", "publish"},
           NEW q \in {"rebuild", "restore", "publish"}
    PROVE  /\ [op EXCEPT !.pc = q] \in Operations
           /\ [op EXCEPT !.pc = q].pc = q
           /\ op.map \in SUBSET AllChans
           /\ op.track \in Tracks
           /\ op.old \in {"none", "pump"} \cup AllChans
<1>1. op \in [pc : {"rebuild", "restore", "publish"}, track : Tracks,
               old : {"none", "pump"} \cup AllChans, map : SUBSET AllChans]
  BY DEF Operations, Idle
<1> QED BY <1>1 DEF Operations

\* What an operation begins with, and no operation.
LEMMA OperationType ==
    /\ Idle \in Operations /\ [pc |-> "join"] \in Operations
    /\ \A m \in {"asio", "clock"} : [pc |-> "open", master |-> m] \in Operations
    /\ \A t \in Tracks, o \in {"none", "pump"} \cup AllChans, m \in SUBSET AllChans :
          [pc |-> "rebuild", track |-> t, old |-> o, map |-> m] \in Operations
BY DEF Operations

LEMMA UnionType ==
    ASSUME TypeOK PROVE Union(src) \in SUBSET AllChans
<1>1. {src[t] : t \in Tracks} \ {"none", "pump"} \subseteq AllChans
  BY DEF TypeOK
<1>2. DefaultOuts \subseteq AllChans
  BY DEF AllChans
<1> QED BY <1>1, <1>2 DEF Union

LEMMA ChannelType ==
    ASSUME NEW t \in Tracks PROVE Chans[t] \subseteq AllChans
BY DEF AllChans

LEMMA PlaceType ==
    ASSUME NEW o \in Operations
    PROVE  o.pc \in {"idle", "join", "open", "arm", "go", "wait", "rollback", "rebuild",
                    "restore", "publish", "drain"}
BY DEF Operations, Idle

LEMMA DrainGoesOn ==
    ASSUME op \in Operations, op.pc = "drain"
    PROVE  /\ op.then \in Operations
           /\ op.then = Idle \/ op.then.pc = "open"
           /\ Idle \in Operations
<1>1. op \in [pc : {"drain"}, close : BOOLEAN, then : {Idle} \cup Opens]
  BY DEF Operations, Idle
<1> QED BY <1>1 DEF Operations, Opens

\* What stop() leaves before it waits.
LEMMA HaltType ==
    ASSUME TypeOK, NEW close, NEW then, Halt(close, then)
    PROVE  /\ dev' \in Devices /\ ~dev'.running
           /\ gate' \in BOOLEAN /\ hw' = FALSE
           /\ clock' = NoClock /\ clock' \in Clocks
           /\ graph' = NoGraph /\ graph' \in Graphs
           /\ op'.pc = "drain"
<1>1. hw' = FALSE /\ gate' = (gate /\ ~dev.buffers)
  BY DEF Halt, StopDriver
<1>2. dev' \in Devices /\ ~dev'.running
  BY DEF TypeOK, Devices, Halt
<1>3. NoClock \in Clocks /\ NoGraph \in Graphs
  BY DEF NoClock, Clocks, NoGraph, Graphs
<1>4. op'.pc = "drain"
  BY DEF Halt
<1> QED BY <1>1, <1>2, <1>3, <1>4 DEF TypeOK, Halt, RetireGraph

LEMMA ClosedType ==
    ASSUME TypeOK, CloseDevice
    PROVE  /\ dev' \in Devices /\ ~dev'.running /\ gate' \in BOOLEAN /\ hw' = FALSE
           /\ hw' = dev'.running
<1>1. hw' = FALSE /\ gate' = (gate /\ ~dev.buffers)
  BY DEF CloseDevice, StopDriver
<1>2. dev' \in Devices /\ dev'.running = FALSE
  BY DEF TypeOK, Devices, CloseDevice, Closed
<1> QED BY <1>1, <1>2

LEMMA RunType ==
    ASSUME NEW map \in SUBSET AllChans, Run(map) \/ Prepare(map)
    PROVE  /\ dev' \in Devices /\ dev'.open /\ dev'.buffers /\ dev'.map = map
           /\ gate' = TRUE /\ hw' \in BOOLEAN /\ hw' = dev'.running
           /\ Run(map) => dev'.running
           /\ Prepare(map) => ~dev'.running
<1>1. CASE Run(map)
  BY <1>1 DEF Run, Prepare, Devices
<1>2. CASE Prepare(map)
  BY <1>2 DEF Run, Prepare, Devices
<1> QED BY <1>1, <1>2

LEMMA ClockType ==
    ASSUME TypeOK
    PROVE  /\ clock \in Clocks
           /\ [NoClock EXCEPT !.there = TRUE] \in Clocks
           /\ [clock EXCEPT !.running = TRUE, !.pump = "run"] \in Clocks
           /\ [clock EXCEPT !.running = TRUE, !.pump = "run"].there = clock.there
<1>1. clock \in Clocks
  BY DEF TypeOK, Clocks
<1>2. [NoClock EXCEPT !.there = TRUE] \in Clocks
  BY DEF NoClock, Clocks
<1>3. /\ [clock EXCEPT !.running = TRUE, !.pump = "run"] \in Clocks
      /\ [clock EXCEPT !.running = TRUE, !.pump = "run"].there = clock.there
  BY <1>1 DEF Clocks
<1> QED BY <1>1, <1>2, <1>3

LEMMA EnsureType ==
    ASSUME TypeOK, NEW ts, NEW bad, Ensure(ts, bad)
    PROVE  /\ pump' \in [Tracks -> {"none", "run", "mute", "failed"}]
           /\ trackError' \in [Tracks -> BOOLEAN]
<1>1. pump' \in [Tracks -> {"none", "run", "mute", "failed"}]
  BY DEF TypeOK, Ensure
<1>2. \A t \in Tracks : (IF t \in ts THEN t \in bad ELSE trackError[t]) \in BOOLEAN
  <2> SUFFICES ASSUME NEW t \in Tracks
               PROVE  (IF t \in ts THEN t \in bad ELSE trackError[t]) \in BOOLEAN
    OBVIOUS
  <2>1. CASE t \in ts
    BY <2>1
  <2>2. CASE t \notin ts
    BY <2>2 DEF TypeOK
  <2> QED BY <2>1, <2>2
<1> QED BY <1>1, <1>2 DEF Ensure

\* A notice that is posted is there, and so are those before it.
LEMMA Posted ==
    ASSUME NEW S, NEW q \in Seq(S), NEW e \in S
    PROVE  /\ Append(q, e) \in Seq(S)
           /\ \E i \in DOMAIN Append(q, e) : Append(q, e)[i] = e
           /\ \A i \in DOMAIN q : i \in DOMAIN Append(q, e) /\ Append(q, e)[i] = q[i]
<1>1. Len(q) + 1 \in DOMAIN Append(q, e) /\ Append(q, e)[Len(q) + 1] = e
  OBVIOUS
<1> QED BY <1>1

\* Taking a notice leaves those of others.
LEMMA NoticeTaken ==
    ASSUME NEW S, NEW q \in Seq(S), q # <<>>, NEW i \in DOMAIN q, q[i] # Head(q)
    PROVE  \E j \in DOMAIN Tail(q) : Tail(q)[j] = q[i]
<1>1. i - 1 \in DOMAIN Tail(q) /\ Tail(q)[i - 1] = q[i]
  OBVIOUS
<1> QED BY <1>1

\* The callbacks where none comes or goes, where the driver is stopped without a
\* wait, and where stop() is about to wait.
LEMMA CallbacksStay ==
    ASSUME IInv, UNCHANGED callbacks, dev' = dev, op.pc = "drain" => op'.pc = "drain"
    PROVE  Callbacks'
BY DEF IInv, Callbacks, callbacks, BlocksFitBuffers, Fits, Fresh, NoClock, NoGraph, NotTaken

LEMMA LateBlock ==
    ASSUME NEW g \in Taken, NEW l \in BOOLEAN
    PROVE  /\ [with |-> g, left |-> l] \in [with : Taken, left : BOOLEAN]
           /\ [with |-> g, left |-> l].with = g
           /\ [with |-> g, left |-> l].left = l
OBVIOUS

LEMMA CallbacksOvertaken ==
    ASSUME IInv, Overtaken(TRUE), op.pc # "drain"
    PROVE  Callbacks'
<1>1. CASE block.by = "asio"
  <2>1. block' = NoBlock /\ late' = late \cup {[with |-> block.with, left |-> TRUE]}
    BY <1>1 DEF Overtaken
  <2>2. block.with \in Taken /\ NoBlock \in [by : {"none", "asio", "clock"}, with : Taken]
    BY DEF IInv, Callbacks, NoBlock, NoGraph, Taken, Graphs
  <2>3. PICK x \in [with : Taken, left : BOOLEAN] : x.left /\ late' = late \cup {x}
    BY <2>1, <2>2, LateBlock
  <2>4. /\ late' \subseteq [with : Taken, left : BOOLEAN]
        /\ \A b \in late' : b.left
    BY <2>3 DEF IInv, Callbacks
  <2> QED BY <2>1, <2>2, <2>4 DEF Callbacks, BlocksFitBuffers, NoBlock
<1>2. CASE block.by # "asio"
  BY <1>2 DEF IInv, Callbacks, BlocksFitBuffers, Overtaken, callbacks
<1> QED BY <1>1, <1>2

LEMMA CallbacksHalted ==
    ASSUME IInv, NEW close, NEW then, Halt(close, then), op.pc # "drain"
    PROVE  Callbacks'
<1>1. op'.pc = "drain" /\ dev'.buffers = dev.buffers /\ dev'.map = dev.map
  BY DEF Halt, IInv, Typed, TypeOK
<1>2. \A g : Fits(g) => Fits(g)'
  BY <1>1 DEF Fits, Fresh, NoClock
<1>3. CASE block.by = "asio"
  <2>1. block' = NoBlock /\ late' = late \cup {[with |-> block.with, left |-> FALSE]}
    BY <1>3 DEF Halt, Overtaken
  <2>2. block.with \in Taken /\ NoBlock \in [by : {"none", "asio", "clock"}, with : Taken]
    BY DEF IInv, Callbacks, NoBlock, NoGraph, Taken, Graphs
  <2>3. Fits(block.with)
    BY <1>3 DEF IInv, Callbacks, BlocksFitBuffers
  <2>4. PICK x \in [with : Taken, left : BOOLEAN] : x.with = block.with /\ late' = late \cup {x}
    BY <2>1, <2>2, LateBlock
  <2>5. /\ late' \subseteq [with : Taken, left : BOOLEAN]
        /\ \A b \in late' : ~b.left => Fits(b.with)'
    BY <1>2, <2>3, <2>4 DEF IInv, Callbacks, BlocksFitBuffers
  <2> QED BY <1>1, <2>1, <2>2, <2>5 DEF Callbacks, BlocksFitBuffers, NoBlock
<1>4. CASE block.by # "asio"
  BY <1>1, <1>4 DEF Halt, IInv, Callbacks, BlocksFitBuffers, Overtaken, callbacks
<1> QED BY <1>3, <1>4

USE StreamAssumption
    DEF IInv, Typed, OneMaster, GraphFits, Reached, HasGraph, FailuresAreNoticed,
        TypeOK, Graphs, Idle, Fresh, NoClock, NoGraph, StreamRunning,
        Devices, Clocks

LEMMA PumpFailsKeeps ==
    ASSUME IInv, NEW t \in Tracks, NEW how, PumpFails(t, how)
    PROVE  IInv'
<1>0. Callbacks'
  BY CallbacksStay DEF PumpFails, device
<1>1. Typed'
  BY DEF PumpFails, Ill, device, callbacks, FaultKinds
<1>2. OneMaster' /\ GraphFits' /\ Reached' /\ HasGraph'
  BY <1>1
  DEF PumpFails, Ill, device, FaultKinds
<1>3. FailuresAreNoticed'
  <2>1. queue \in Seq(Tracks \cup {Master}) /\ t \in Tracks \cup {Master}
    OBVIOUS
  <2>2. queue' = Append(queue, t)
    BY DEF PumpFails
  <2>3. \E i \in DOMAIN queue' : queue'[i] = t
    BY <2>1, <2>2, Posted
  <2>4. \A i \in DOMAIN queue : i \in DOMAIN queue' /\ queue'[i] = queue[i]
    BY <2>1, <2>2, Posted
  <2>5. \A u \in Tracks : pump'[u] = "failed" => \E i \in DOMAIN queue' : queue'[i] = u
    BY <2>3, <2>4 DEF PumpFails, sound
  <2>6. clock'.failed => \E i \in DOMAIN queue' : queue'[i] = Master
    BY <2>3, <2>4 DEF PumpFails
  <2> QED BY <2>5, <2>6
<1> QED BY <1>0, <1>1, <1>2, <1>3

LEMMA PumpFallsSilentKeeps ==
    ASSUME IInv, NEW t \in Tracks, PumpFallsSilent(t)
    PROVE  IInv'
<1>0. Callbacks'
  BY CallbacksStay DEF PumpFallsSilent, device
<1> QED BY <1>0 DEF Callbacks, PumpFallsSilent, Ill, device, FaultKinds

LEMMA ClockFailsKeeps == ASSUME IInv, ClockFails PROVE IInv'
<1>0. Callbacks'
  BY CallbacksStay DEF ClockFails, device
<1>1. Typed'
  <2>1. op' \in Operations
    BY DEF ClockFails, Ill, device, sound, FaultKinds
  <2>2. /\ dev' \in Devices
        /\ gate' \in BOOLEAN /\ hw' \in BOOLEAN /\ seen' \in BOOLEAN
    BY DEF ClockFails, Ill, device, sound, FaultKinds
  <2>3. /\ clock' \in Clocks
        /\ graph' \in Graphs
    BY <2>2
    DEF ClockFails, Ill, device, sound, FaultKinds
  <2>4. /\ src' \in [Tracks -> {"none", "pump"} \cup AllChans]
        /\ pump' \in [Tracks -> {"none", "run", "mute", "failed"}]
        /\ trackError' \in [Tracks -> BOOLEAN] /\ streamError' \in BOOLEAN
    BY DEF ClockFails, Ill, device, sound, FaultKinds
  <2>5. /\ queue' \in Seq(Tracks \cup {Master})
        /\ panel' \in {"none", "spawned", "checked", "inside", "ended"}
        /\ faults' \subseteq FaultKinds
    BY DEF ClockFails, Ill, device, sound, FaultKinds
  <2>6. op'.pc \in {"idle", "join", "open", "arm", "go", "wait", "rollback", "rebuild",
                   "restore", "publish", "drain"}
    BY <2>1, PlaceType
  <2> QED BY <1>0, <2>1, <2>2, <2>3, <2>4, <2>5, <2>6 DEF Callbacks
<1>2. OneMaster' /\ GraphFits' /\ Reached' /\ HasGraph'
  BY <1>1
  DEF ClockFails, Ill, device, sound, FaultKinds
<1>3. FailuresAreNoticed'
  <2>1. queue \in Seq(Tracks \cup {Master}) /\ Master \in Tracks \cup {Master}
    OBVIOUS
  <2>2. queue' = Append(queue, Master)
    BY DEF ClockFails
  <2>3. \E i \in DOMAIN queue' : queue'[i] = Master
    BY <2>1, <2>2, Posted
  <2>4. \A i \in DOMAIN queue : i \in DOMAIN queue' /\ queue'[i] = queue[i]
    BY <2>1, <2>2, Posted
  <2>5. \A u \in Tracks : pump'[u] = "failed" => \E i \in DOMAIN queue' : queue'[i] = u
    BY <2>3, <2>4 DEF ClockFails, sound
  <2>6. clock'.failed => \E i \in DOMAIN queue' : queue'[i] = Master
    BY <2>3, <2>4 DEF ClockFails
  <2> QED BY <2>5, <2>6
<1> QED BY <1>0, <1>1, <1>2, <1>3

LEMMA ClockBlockBeginsKeeps == ASSUME IInv, ClockBlockBegins PROVE IInv'
<1>1. block' = [by |-> "clock", with |-> graph] /\ clock.running
  BY DEF ClockBlockBegins
<1>2. Callbacks'
  BY <1>1 DEF ClockBlockBegins, device, Callbacks, BlocksFitBuffers, Fits, Taken
<1> QED BY <1>2 DEF ClockBlockBegins, device, sound, Callbacks

LEMMA DriverBlockBeginsKeeps == ASSUME IInv, DriverBlockBegins PROVE IInv'
<1>1. block' = [by |-> "asio", with |-> NotTaken] /\ dev.running
  BY DEF DriverBlockBegins
<1>2. Callbacks'
  BY <1>1 DEF DriverBlockBegins, device, Callbacks, BlocksFitBuffers, Fits, Taken
<1>3. Typed'
  BY <1>2 DEF DriverBlockBegins, device, sound, Callbacks
<1>4. OneMaster' /\ GraphFits'
  BY DEF DriverBlockBegins, device
<1>5. Reached' /\ HasGraph'
  BY DEF DriverBlockBegins, device
<1>6. FailuresAreNoticed'
  BY DEF DriverBlockBegins, sound
<1> QED BY <1>2, <1>3, <1>4, <1>5, <1>6

\* A block that takes the graph gets one for the buffers that stand, or none.
LEMMA BlockTakesKeeps == ASSUME IInv, BlockTakes PROVE IInv'
<1>1. graph \in Taken /\ (dev.running => Fits(graph)) /\ Fits(NoGraph)
  BY DEF Taken, Fits
<1>2. CASE block.with = NotTaken /\ block' = [block EXCEPT !.with = graph] /\ UNCHANGED late
  <2>1. block'.by = block.by /\ block'.with = graph /\ block.by # "clock"
    BY <1>2 DEF Callbacks, BlocksFitBuffers, NotTaken
  <2>2. block' \in [by : {"none", "asio", "clock"}, with : Taken]
    BY <1>1, <1>2 DEF Callbacks
  <2>3. Callbacks'
    BY <1>1, <1>2, <2>1, <2>2 DEF BlockTakes, device, Callbacks, BlocksFitBuffers, Fits
  <2> QED BY <2>3 DEF BlockTakes, device, sound, Callbacks
<1>3. ASSUME NEW b \in late, UNCHANGED block,
             late' = (late \ {b}) \cup {[b EXCEPT !.with = graph]}
      PROVE  IInv'
  <2>1. b \in [with : Taken, left : BOOLEAN]
    BY DEF Callbacks
  <2>2. /\ [b EXCEPT !.with = graph] \in [with : Taken, left : BOOLEAN]
        /\ [b EXCEPT !.with = graph].left = b.left /\ [b EXCEPT !.with = graph].with = graph
    BY <1>1, <2>1
  <2>3. ~b.left => graph = NoGraph
    BY DEF Callbacks
  <2>4. dev' = dev /\ op' = op
    BY DEF BlockTakes, device
  <2>5. Callbacks'
    BY <1>1, <1>3, <2>2, <2>3, <2>4 DEF Callbacks, BlocksFitBuffers, Fits
  <2> QED BY <2>5 DEF BlockTakes, device, sound, Callbacks
<1> QED BY <1>2, <1>3 DEF BlockTakes

LEMMA BlockEndsKeeps == ASSUME IInv, BlockEnds PROVE IInv'
<1>1. NoBlock \in [by : {"none", "asio", "clock"}, with : Taken] /\ NoBlock.by = "none"
  BY DEF NoBlock, Taken
<1>2. (block' = NoBlock \/ block' = block) /\ late' \subseteq late /\ dev' = dev /\ op' = op
  BY DEF BlockEnds, device
<1>3. Callbacks'
  BY <1>1, <1>2 DEF Callbacks, BlocksFitBuffers, Fits
<1>4. seen' \in BOOLEAN
  BY DEF BlockEnds
<1> QED BY <1>3, <1>4 DEF BlockEnds, device, sound, Callbacks

LEMMA OpenPanelKeeps == ASSUME IInv, OpenPanel PROVE IInv'
<1>0. Callbacks'
  BY CallbacksStay DEF OpenPanel, device
<1>1. op' \in Operations
  BY OperationType DEF OpenPanel
<1> QED BY <1>0, <1>1 DEF Callbacks, OpenPanel, device, sound, PanelOpen

LEMMA JoinPanelKeeps == ASSUME IInv, JoinPanel PROVE IInv'
<1>0. Callbacks'
  BY CallbacksStay DEF JoinPanel, device
<1>1. op' \in Operations
  BY OperationType DEF JoinPanel
<1> QED BY <1>0, <1>1 DEF Callbacks, JoinPanel, device, sound

LEMMA PanelReadsKeeps == ASSUME IInv, PanelReads PROVE IInv'
<1>0. Callbacks'
  BY CallbacksStay DEF PanelReads, device
<1> QED BY <1>0 DEF Callbacks, PanelReads, device, sound

LEMMA PanelEntersKeeps == ASSUME IInv, PanelEnters PROVE IInv'
<1>0. Callbacks'
  BY CallbacksStay DEF PanelEnters, device
<1> QED BY <1>0 DEF Callbacks, PanelEnters, device, sound

LEMMA PanelLeavesKeeps == ASSUME IInv, PanelLeaves PROVE IInv'
<1>0. Callbacks'
  BY CallbacksStay DEF PanelLeaves, device
<1> QED BY <1>0 DEF Callbacks, PanelLeaves, device, sound

\* stop() up to its wait, whoever calls it.
LEMMA HaltKeeps ==
    ASSUME IInv, NEW close \in BOOLEAN, NEW then \in {Idle} \cup Opens, Halt(close, then),
           op.pc # "drain", UNCHANGED <<seen, sound, panel, faults>>,
           queue' \in Seq(Tracks \cup {Master}), streamError' \in BOOLEAN,
           \A u \in Tracks : pump[u] = "failed" => \E i \in DOMAIN queue' : queue'[i] = u
    PROVE  IInv'
<1>1. /\ dev' \in Devices /\ ~dev'.running /\ gate' \in BOOLEAN /\ hw' = FALSE
      /\ clock' = NoClock /\ clock' \in Clocks /\ graph' = NoGraph /\ graph' \in Graphs
      /\ op'.pc = "drain"
  BY HaltType
<1>2. Callbacks'
  BY CallbacksHalted
<1>3. op' \in Operations
  <2>1. op' \in [pc : {"drain"}, close : BOOLEAN, then : {Idle} \cup Opens]
    BY DEF Halt
  <2> QED BY <2>1 DEF Operations
<1>4. Typed'
  BY <1>1, <1>2, <1>3 DEF Callbacks, sound
<1>5. OneMaster' /\ GraphFits' /\ Reached' /\ HasGraph'
  BY <1>1
<1>6. FailuresAreNoticed'
  BY <1>1 DEF sound
<1> QED BY <1>2, <1>4, <1>5, <1>6

LEMMA StartKeeps == ASSUME IInv, NEW m \in {"asio", "clock"}, Start(m) PROVE IInv'
<1>1. CASE clock.there
  <2>1. Halt(FALSE, [pc |-> "open", master |-> m]) /\ op.pc # "drain"
    BY <1>1 DEF Start
  <2>2. [pc |-> "open", master |-> m] \in {Idle} \cup Opens
    BY DEF Opens
  <2>3. UNCHANGED <<seen, sound, panel, faults, queue, streamError>>
    BY DEF Start
  <2> QED BY <2>1, <2>2, <2>3, HaltKeeps
<1>2. CASE ~clock.there
  <2>1. /\ UNCHANGED <<device, clock, graph, callbacks, seen, sound, streamError, queue, panel, faults>>
        /\ op' \in {Idle, [pc |-> "open", master |-> m]} /\ op = Idle
        /\ ~dev.running /\ ~clock.running
    BY <1>2 DEF Start
  <2>2. Callbacks'
    BY <2>1, CallbacksStay DEF device
  <2>3. op' \in Operations
    BY <2>1, OperationType
  <2>4. Typed'
    BY <2>1, <2>2, <2>3 DEF device, sound, Callbacks
  <2>5. OneMaster' /\ GraphFits' /\ Reached' /\ HasGraph' /\ FailuresAreNoticed'
    BY <1>2, <2>1 DEF device, sound
  <2> QED BY <2>2, <2>4, <2>5
<1> QED BY <1>1, <1>2

LEMMA OpenAsioKeeps == ASSUME IInv, OpenAsio PROVE IInv'
<1>0. Callbacks'
  BY CallbacksOvertaken, CallbacksStay DEF OpenAsio, device, Prepare, ProbeFails, CloseDevice
<1>1. Typed'
  <2>1. op' \in Operations
    BY StartGoesOn, OperationType DEF OpenAsio
  <2>2. /\ dev' \in Devices
        /\ gate' \in BOOLEAN /\ hw' \in BOOLEAN /\ seen' \in BOOLEAN
    BY UnionType, RunType, ClosedType DEF OpenAsio, ProbeFails
  <2>3. /\ clock' \in Clocks
        /\ graph' \in Graphs
    BY <2>2
    DEF OpenAsio, sound, Well, Ill, FaultKinds, Prepare, ProbeFails, CloseDevice,
       Closed, StopDriver
  <2>4. /\ src' \in [Tracks -> {"none", "pump"} \cup AllChans]
        /\ pump' \in [Tracks -> {"none", "run", "mute", "failed"}]
        /\ trackError' \in [Tracks -> BOOLEAN] /\ streamError' \in BOOLEAN
    BY UnionType
    DEF OpenAsio, sound, Well, Ill, FaultKinds, Prepare, ProbeFails, CloseDevice,
       Closed, StopDriver
  <2>5. /\ queue' \in Seq(Tracks \cup {Master})
        /\ panel' \in {"none", "spawned", "checked", "inside", "ended"}
        /\ faults' \subseteq FaultKinds
    BY DEF OpenAsio, sound, Well, Ill, FaultKinds, Prepare, ProbeFails, CloseDevice,
       Closed, StopDriver
  <2>6. op'.pc \in {"idle", "join", "open", "arm", "go", "wait", "rollback", "rebuild",
                   "restore", "publish", "drain"}
    BY <2>1, PlaceType
  <2> QED BY <1>0, <2>1, <2>2, <2>3, <2>4, <2>5, <2>6 DEF Callbacks
<1>2. OneMaster' /\ GraphFits' /\ Reached' /\ HasGraph'
  <2>1. op' = Idle \/ (op'.pc = "arm" /\ op'.master = op.master)
    BY StartGoesOn DEF OpenAsio
  <2>2. op.master = "asio" /\ op.pc = "open"
    BY DEF OpenAsio
  <2>3. ~dev'.running /\ hw' = dev'.running /\ clock' = clock /\ graph' = graph
    BY UnionType, RunType, ClosedType DEF OpenAsio, ProbeFails
  <2> QED BY <2>1, <2>2, <2>3
<1>3. FailuresAreNoticed'
  BY DEF OpenAsio, sound, Well, Ill, FaultKinds, Prepare, ProbeFails, CloseDevice,
     Closed, StopDriver
<1> QED BY <1>0, <1>1, <1>2, <1>3

LEMMA OpenClockKeeps == ASSUME IInv, OpenClock PROVE IInv'
<1>0. Callbacks'
  BY CallbacksStay DEF OpenClock, device
<1>1. Typed'
  <2>1. op' \in Operations
    BY StartGoesOn, OperationType DEF OpenClock
  <2>2. /\ dev' \in Devices
        /\ gate' \in BOOLEAN /\ hw' \in BOOLEAN /\ seen' \in BOOLEAN
    BY UnionType
    DEF OpenClock, device, sound, Well, Ill, FaultKinds
  <2>3. /\ clock' \in Clocks
        /\ graph' \in Graphs
    <3>1. clock' = clock \/ clock' = [NoClock EXCEPT !.there = TRUE]
      BY DEF OpenClock
    <3>2. graph' = graph
      BY DEF OpenClock
    <3>3. clock' \in Clocks
      BY <3>1, ClockType
    <3> QED BY <3>2, <3>3
  <2>4. /\ src' \in [Tracks -> {"none", "pump"} \cup AllChans]
        /\ pump' \in [Tracks -> {"none", "run", "mute", "failed"}]
        /\ trackError' \in [Tracks -> BOOLEAN] /\ streamError' \in BOOLEAN
    BY UnionType
    DEF OpenClock, device, sound, Well, Ill, FaultKinds
  <2>5. /\ queue' \in Seq(Tracks \cup {Master})
        /\ panel' \in {"none", "spawned", "checked", "inside", "ended"}
        /\ faults' \subseteq FaultKinds
    BY DEF OpenClock, device, sound, Well, Ill, FaultKinds
  <2>6. op'.pc \in {"idle", "join", "open", "arm", "go", "wait", "rollback", "rebuild",
                   "restore", "publish", "drain"}
    BY <2>1, PlaceType
  <2> QED BY <1>0, <2>1, <2>2, <2>3, <2>4, <2>5, <2>6 DEF Callbacks
<1>2. OneMaster' /\ GraphFits' /\ Reached' /\ HasGraph'
  <2>1. \/ op' = Idle /\ clock' = clock
        \/ op'.pc = "arm" /\ op'.master = op.master /\ clock' = [NoClock EXCEPT !.there = TRUE]
    BY StartGoesOn DEF OpenClock
  <2>2. op.master = "clock" /\ op.pc = "open"
    BY DEF OpenClock
  <2>3. dev' = dev /\ gate' = gate /\ hw' = hw /\ graph' = graph
    BY DEF OpenClock, device
  <2> QED BY <2>1, <2>2, <2>3
<1>3. FailuresAreNoticed'
  BY DEF OpenClock, device, sound, Well, Ill, FaultKinds
<1> QED BY <1>0, <1>1, <1>2, <1>3

LEMMA ArmKeeps == ASSUME IInv, Arm PROVE IInv'
<1>0. Callbacks'
  BY CallbacksStay DEF Arm, device
<1>1. Typed'
  <2>1. op' \in Operations
    <3>1. op.pc = "arm" /\ \E q \in {"go", "rollback"} : op' = [op EXCEPT !.pc = q]
      BY DEF Arm
    <3>2. PICK q \in {"go", "rollback"} : op' = [op EXCEPT !.pc = q]
      BY <3>1
    <3> QED BY <3>1, <3>2, StartGoesOn
  <2>2. /\ dev' \in Devices
        /\ gate' \in BOOLEAN /\ hw' \in BOOLEAN /\ seen' \in BOOLEAN
    BY UnionType
    DEF Arm, device, Ensure, Swap, Well, Ill, FaultKinds, CreateFails
  <2>3. /\ clock' \in Clocks
        /\ graph' \in Graphs
    BY <2>2
    DEF Arm, device, Ensure, Swap, Well, Ill, FaultKinds, CreateFails
  <2>4. /\ src' \in [Tracks -> {"none", "pump"} \cup AllChans]
        /\ pump' \in [Tracks -> {"none", "run", "mute", "failed"}]
        /\ trackError' \in [Tracks -> BOOLEAN] /\ streamError' \in BOOLEAN
    BY EnsureType DEF Arm
  <2>5. /\ queue' \in Seq(Tracks \cup {Master})
        /\ panel' \in {"none", "spawned", "checked", "inside", "ended"}
        /\ faults' \subseteq FaultKinds
    BY DEF Arm, device, Ensure, Swap, Well, Ill, FaultKinds, CreateFails
  <2>6. op'.pc \in {"idle", "join", "open", "arm", "go", "wait", "rollback", "rebuild",
                   "restore", "publish", "drain"}
    BY <2>1, PlaceType
  <2> QED BY <1>0, <2>1, <2>2, <2>3, <2>4, <2>5, <2>6 DEF Callbacks
<1>2. OneMaster' /\ GraphFits' /\ Reached' /\ HasGraph'
  <2>1. op.pc = "arm" /\ \E q \in {"go", "rollback"} : op' = [op EXCEPT !.pc = q]
    BY DEF Arm
  <2>2. op'.pc \in {"go", "rollback"} /\ op'.master = op.master
    BY <2>1, StartGoesOn
  <2>3. op'.pc = "go" => graph' = Fresh(dev, clock)
    BY <2>1, StartGoesOn DEF Arm, Swap, Well, Ill
  <2>4. dev' = dev /\ gate' = gate /\ hw' = hw /\ clock' = clock
    BY DEF Arm, device
  <2> QED BY <2>1, <2>2, <2>3, <2>4
<1>3. FailuresAreNoticed'
  BY DEF Arm, device, Ensure, Swap, Well, Ill, FaultKinds, CreateFails
<1> QED BY <1>0, <1>1, <1>2, <1>3

LEMMA GoKeeps == ASSUME IInv, Go PROVE IInv'
<1>0. Callbacks'
  BY CallbacksOvertaken, CallbacksStay DEF Go, device, Run
<1>1. Typed'
  <2>1. op' \in Operations
    <3>1. op.pc = "go" /\ \E q \in {"wait", "rollback"} : op' = [op EXCEPT !.pc = q]
      BY DEF Go
    <3>2. PICK q \in {"wait", "rollback"} : op' = [op EXCEPT !.pc = q]
      BY <3>1
    <3> QED BY <3>1, <3>2, StartGoesOn
  <2>2. /\ dev' \in Devices
        /\ gate' \in BOOLEAN /\ hw' \in BOOLEAN /\ seen' \in BOOLEAN
    BY RunType DEF Go, device
  <2>3. /\ clock' \in Clocks
        /\ graph' \in Graphs
    <3>1. clock' = clock \/ clock' = [clock EXCEPT !.running = TRUE, !.pump = "run"]
      BY DEF Go
    <3>2. graph' = graph
      BY DEF Go
    <3>3. clock' \in Clocks
      BY <3>1, ClockType
    <3> QED BY <3>2, <3>3
  <2>4. /\ src' \in [Tracks -> {"none", "pump"} \cup AllChans]
        /\ pump' \in [Tracks -> {"none", "run", "mute", "failed"}]
        /\ trackError' \in [Tracks -> BOOLEAN] /\ streamError' \in BOOLEAN
    BY UnionType
    DEF Go, device, sound, Well, Ill, FaultKinds, Run
  <2>5. /\ queue' \in Seq(Tracks \cup {Master})
        /\ panel' \in {"none", "spawned", "checked", "inside", "ended"}
        /\ faults' \subseteq FaultKinds
    BY DEF Go, device, sound, Well, Ill, FaultKinds, Run
  <2>6. op'.pc \in {"idle", "join", "open", "arm", "go", "wait", "rollback", "rebuild",
                   "restore", "publish", "drain"}
    BY <2>1, PlaceType
  <2> QED BY <1>0, <2>1, <2>2, <2>3, <2>4, <2>5, <2>6 DEF Callbacks
<1>2. OneMaster' /\ GraphFits' /\ Reached' /\ HasGraph'
  <2>1. op.pc = "go" /\ graph' = graph /\ graph = Fresh(dev, clock) /\ faults \subseteq faults'
    BY DEF Go, Well, Ill
  <2>2. CASE op'.pc = "rollback"
    BY <2>1, <2>2, StartGoesOn DEF Go, device, Well, Ill
  <2>3. CASE op'.pc = "wait" /\ op.master = "asio"
    <3>1. dev' = [open |-> TRUE, buffers |-> TRUE, map |-> dev.map, running |-> TRUE]
      BY <2>3, StartGoesOn DEF Go, Run
    <3>2. clock' = clock /\ gate' /\ hw'
      BY <2>3, StartGoesOn DEF Go, Run
    <3>3. ~clock.there /\ ~clock.running
      BY <2>1, <2>3
    <3> QED BY <2>1, <2>3, <3>1, <3>2, <3>3
  <2>4. CASE op'.pc = "wait" /\ op.master # "asio"
    <3>1. dev' = dev /\ gate' = gate /\ hw' = hw
      BY <2>4, StartGoesOn DEF Go, device
    <3>2. clock' = [clock EXCEPT !.running = TRUE, !.pump = "run"]
      BY <2>4, StartGoesOn DEF Go
    <3>3. clock.there /\ ~dev.running
      BY <2>1, <2>4, StartGoesOn
    <3>4. clock'.there
      BY <3>2, <3>3, ClockType
    <3> QED BY <2>1, <2>4, <3>1, <3>3, <3>4
  <2>5. op'.pc \in {"wait", "rollback"}
    BY <2>1, StartGoesOn DEF Go
  <2> QED BY <2>2, <2>3, <2>4, <2>5
<1>3. FailuresAreNoticed'
  <2>1. pump' = pump /\ queue' = queue /\ clock'.failed = clock.failed
    BY DEF Go, sound
  <2> QED BY <2>1
<1> QED BY <1>0, <1>1, <1>2, <1>3

LEMMA WaitKeeps == ASSUME IInv, Wait PROVE IInv'
<1>0. Callbacks'
  BY CallbacksStay DEF Wait, device
<1>1. Typed'
  <2>1. op' \in Operations
    BY StartGoesOn, OperationType DEF Wait
  <2>2. /\ dev' \in Devices
        /\ gate' \in BOOLEAN /\ hw' \in BOOLEAN /\ seen' \in BOOLEAN
    BY UnionType
    DEF Wait, device, sound, Well, Ill, FaultKinds
  <2>3. /\ clock' \in Clocks
        /\ graph' \in Graphs
    BY <2>2
    DEF Wait, device, sound, Well, Ill, FaultKinds
  <2>4. /\ src' \in [Tracks -> {"none", "pump"} \cup AllChans]
        /\ pump' \in [Tracks -> {"none", "run", "mute", "failed"}]
        /\ trackError' \in [Tracks -> BOOLEAN] /\ streamError' \in BOOLEAN
    BY UnionType
    DEF Wait, device, sound, Well, Ill, FaultKinds
  <2>5. /\ queue' \in Seq(Tracks \cup {Master})
        /\ panel' \in {"none", "spawned", "checked", "inside", "ended"}
        /\ faults' \subseteq FaultKinds
    BY DEF Wait, device, sound, Well, Ill, FaultKinds
  <2>6. op'.pc \in {"idle", "join", "open", "arm", "go", "wait", "rollback", "rebuild",
                   "restore", "publish", "drain"}
    BY <2>1, PlaceType
  <2> QED BY <1>0, <2>1, <2>2, <2>3, <2>4, <2>5, <2>6 DEF Callbacks
<1>2. OneMaster' /\ GraphFits' /\ Reached' /\ HasGraph'
  <2>1. op.pc = "wait" /\ (op' = Idle \/ op'.pc = "rollback")
    BY StartGoesOn DEF Wait
  <2>2. dev' = dev /\ gate' = gate /\ hw' = hw /\ clock' = clock /\ graph' = graph
    BY DEF Wait, device
  <2> QED BY <2>1, <2>2
<1>3. FailuresAreNoticed'
  BY DEF Wait, device, sound, Well, Ill, FaultKinds
<1> QED BY <1>0, <1>1, <1>2, <1>3

LEMMA RollbackKeeps == ASSUME IInv, Rollback PROVE IInv'
<1>1. Halt(TRUE, Idle) /\ op.pc # "drain"
  BY DEF Rollback
<1>2. UNCHANGED <<seen, sound, panel, faults, queue, streamError>>
  BY DEF Rollback
<1>3. /\ queue' \in Seq(Tracks \cup {Master}) /\ streamError' \in BOOLEAN
      /\ \A u \in Tracks : pump[u] = "failed" => \E i \in DOMAIN queue' : queue'[i] = u
  BY <1>2
<1> QED BY <1>1, <1>2, <1>3, HaltKeeps

LEMMA StopKeeps == ASSUME IInv, Stop PROVE IInv'
<1>1. Halt(FALSE, Idle) /\ op.pc # "drain"
  BY DEF Stop
<1>2. UNCHANGED <<seen, sound, panel, faults, queue, streamError>>
  BY DEF Stop
<1>3. /\ queue' \in Seq(Tracks \cup {Master}) /\ streamError' \in BOOLEAN
      /\ \A u \in Tracks : pump[u] = "failed" => \E i \in DOMAIN queue' : queue'[i] = u
  BY <1>2
<1> QED BY <1>1, <1>2, <1>3, HaltKeeps

\* The rest of stop(): whoever is still there is late for good.
LEMMA DrainKeeps == ASSUME IInv, Drain PROVE IInv'
<1>1. late' = {[b EXCEPT !.left = TRUE] : b \in late}
  BY DEF Drain, GoOnWithout, Drained, Readers
<1>2. \A b \in late' : b \in [with : Taken, left : BOOLEAN] /\ b.left
  <2>1. \A b \in [with : Taken, left : BOOLEAN] :
            /\ [b EXCEPT !.left = TRUE] \in [with : Taken, left : BOOLEAN]
            /\ [b EXCEPT !.left = TRUE].left
    OBVIOUS
  <2> QED BY <1>1, <2>1 DEF Callbacks
<1>3. op.pc = "drain" /\ op.then \in Operations /\ (op.then = Idle \/ op.then.pc = "open")
  BY DrainGoesOn DEF Drain
<1>4. op' \in Operations /\ (op' = Idle \/ op'.pc = "open")
  <2>1. op' = Idle \/ op' = op.then
    BY DEF Drain
  <2> QED BY <1>3, <2>1, OperationType
<1>5. /\ dev' \in Devices /\ ~dev'.running /\ ~dev.running
      /\ UNCHANGED <<gate, hw, clock, graph, block, seen, src, trackError, streamError, queue, panel>>
      /\ pump' = [t \in Tracks |-> "none"] /\ graph = NoGraph /\ ~clock.there
  BY <1>3 DEF Drain, Closed
<1>6. Callbacks'
  BY <1>2, <1>5 DEF Callbacks, BlocksFitBuffers
<1>7. faults' \subseteq FaultKinds
  <2>1. faults' = faults \/ faults' = faults \cup {"undrained"}
    BY DEF Drain, Well, Ill
  <2> QED BY <2>1 DEF FaultKinds
<1>8. Typed'
  BY <1>4, <1>5, <1>6, <1>7 DEF Callbacks
<1>9. OneMaster' /\ GraphFits' /\ Reached' /\ HasGraph'
  BY <1>4, <1>5
<1>10. FailuresAreNoticed'
  BY <1>5
<1> QED BY <1>6, <1>8, <1>9, <1>10

LEMMA HandleNoticeKeeps == ASSUME IInv, HandleNotice PROVE IInv'
<1>1. op = Idle /\ queue \in Seq(Tracks \cup {Master}) /\ queue # <<>> /\ queue' = Tail(queue)
  BY DEF HandleNotice
<1>2. queue' \in Seq(Tracks \cup {Master})
  BY <1>1
<1>3. \A i \in DOMAIN queue : queue[i] # Head(queue) =>
          \E j \in DOMAIN queue' : queue'[j] = queue[i]
  BY <1>1, NoticeTaken
<1>4. UNCHANGED <<seen, src, panel, faults>>
  BY DEF HandleNotice
<1>5. CASE Head(queue) = Master /\ clock.failed
  <2>1. Halt(FALSE, Idle) /\ streamError' \in BOOLEAN /\ UNCHANGED sound
    BY <1>5 DEF HandleNotice, MasterFailed, sound
  <2>2. \A u \in Tracks : pump[u] = "failed" => \E i \in DOMAIN queue' : queue'[i] = u
    BY <1>3, <1>5
  <2> QED BY <1>1, <1>2, <1>4, <2>1, <2>2, HaltKeeps
<1>6. CASE ~(Head(queue) = Master /\ clock.failed)
  <2>1. UNCHANGED <<device, clock, graph, callbacks, streamError, op>>
    BY <1>6 DEF HandleNotice, MasterFailed
  <2>2. /\ pump' \in [Tracks -> {"none", "run", "mute", "failed"}]
        /\ trackError' \in [Tracks -> BOOLEAN]
        /\ \A u \in Tracks : pump'[u] = "failed" => pump[u] = "failed" /\ u # Head(queue)
    <3>1. CASE Head(queue) = Master
      BY <1>6, <3>1 DEF HandleNotice
    <3>2. CASE Head(queue) # Master
      <4>1. TrackFailed(Head(queue))
        BY <3>2 DEF HandleNotice
      <4>2. \A h \in Tracks : (trackError[h] \/ pump[h] # "none") \in BOOLEAN
        OBVIOUS
      <4>3. trackError' \in [Tracks -> BOOLEAN]
        BY <4>1, <4>2 DEF TrackFailed
      <4> QED BY <4>1, <4>3 DEF TrackFailed
    <3> QED BY <3>1, <3>2
  <2>3. Callbacks'
    BY <2>1, CallbacksStay DEF device
  <2>4. Typed'
    BY <1>2, <1>4, <2>1, <2>2, <2>3 DEF device, Callbacks
  <2>5. OneMaster' /\ GraphFits' /\ Reached' /\ HasGraph'
    BY <1>1, <1>4, <2>1 DEF device
  <2>6. FailuresAreNoticed'
    <3>1. clock'.failed => clock.failed /\ Head(queue) # Master
      BY <1>6, <2>1
    <3> QED BY <1>3, <2>2, <3>1
  <2> QED BY <2>3, <2>4, <2>5, <2>6
<1> QED BY <1>5, <1>6

LEMMA SetPumpKeeps == ASSUME IInv, NEW t \in Tracks, SetPump(t) PROVE IInv'
<1>0. Callbacks'
  BY CallbacksStay DEF SetPump, device
<1>1. Typed'
  <2>1. op' \in Operations
    BY DEF SetPump, device, Ensure, Swap, Well, Ill, FaultKinds, CreateFails
  <2>2. /\ dev' \in Devices
        /\ gate' \in BOOLEAN /\ hw' \in BOOLEAN /\ seen' \in BOOLEAN
    BY DEF SetPump, device, Ensure, Swap, Well, Ill, FaultKinds, CreateFails
  <2>3. /\ clock' \in Clocks
        /\ graph' \in Graphs
    BY <2>2
    DEF SetPump, device, Ensure, Swap, Well, Ill, FaultKinds, CreateFails
  <2>4. /\ src' \in [Tracks -> {"none", "pump"} \cup AllChans]
        /\ pump' \in [Tracks -> {"none", "run", "mute", "failed"}]
        /\ trackError' \in [Tracks -> BOOLEAN] /\ streamError' \in BOOLEAN
    <3>1. src' \in [Tracks -> {"none", "pump"} \cup AllChans] /\ streamError' \in BOOLEAN
      BY DEF SetPump
    <3>2. CASE StreamRunning
      BY <3>1, <3>2, EnsureType DEF SetPump
    <3>3. CASE ~StreamRunning
      BY <3>3, <3>1 DEF SetPump
    <3> QED BY <3>2, <3>3
  <2>5. /\ queue' \in Seq(Tracks \cup {Master})
        /\ panel' \in {"none", "spawned", "checked", "inside", "ended"}
        /\ faults' \subseteq FaultKinds
    BY DEF SetPump, device, Ensure, Swap, Well, Ill, FaultKinds, CreateFails
  <2>6. op'.pc \in {"idle", "join", "open", "arm", "go", "wait", "rollback", "rebuild",
                   "restore", "publish", "drain"}
    BY <2>1, PlaceType
  <2> QED BY <1>0, <2>1, <2>2, <2>3, <2>4, <2>5, <2>6 DEF Callbacks
<1>2. OneMaster' /\ GraphFits' /\ Reached' /\ HasGraph'
  BY <1>1
  DEF SetPump, device, Ensure, Swap, Well, Ill, FaultKinds, CreateFails
<1>3. FailuresAreNoticed'
  BY DEF SetPump, device, Ensure, Swap, Well, Ill, FaultKinds, CreateFails
<1> QED BY <1>0, <1>1, <1>2, <1>3

LEMMA SetChannelKeeps ==
    ASSUME IInv, NEW t \in Tracks, NEW c \in Chans[t] \cup {"none"}, SetChannel(t, c)
    PROVE  IInv'
<1>0. Callbacks'
  BY CallbacksStay DEF SetChannel, device
<1>1. Typed'
  <2>1. op' \in Operations
    <3>1. src[t] \in {"none", "pump"} \cup AllChans /\ dev.map \in SUBSET AllChans
      OBVIOUS
    <3>2. op' = op \/ op' = [pc |-> "rebuild", track |-> t, old |-> src[t], map |-> dev.map]
      BY DEF SetChannel
    <3>3. [pc |-> "rebuild", track |-> t, old |-> src[t], map |-> dev.map] \in Operations
      BY <3>1, OperationType
    <3> QED BY <3>2, <3>3
  <2>2. /\ dev' \in Devices
        /\ gate' \in BOOLEAN /\ hw' \in BOOLEAN /\ seen' \in BOOLEAN
    BY ChannelType
    DEF SetChannel, device, Swap, Well, Ill, FaultKinds, RetireGraph, PanelOpen
  <2>3. /\ clock' \in Clocks
        /\ graph' \in Graphs
    BY <2>2
    DEF SetChannel, device, Swap, Well, Ill, FaultKinds, RetireGraph, PanelOpen
  <2>4. /\ src' \in [Tracks -> {"none", "pump"} \cup AllChans]
        /\ pump' \in [Tracks -> {"none", "run", "mute", "failed"}]
        /\ trackError' \in [Tracks -> BOOLEAN] /\ streamError' \in BOOLEAN
    BY ChannelType
    DEF SetChannel, device, Swap, Well, Ill, FaultKinds, RetireGraph, PanelOpen
  <2>5. /\ queue' \in Seq(Tracks \cup {Master})
        /\ panel' \in {"none", "spawned", "checked", "inside", "ended"}
        /\ faults' \subseteq FaultKinds
    BY DEF SetChannel, device, Swap, Well, Ill, FaultKinds, RetireGraph, PanelOpen
  <2>6. op'.pc \in {"idle", "join", "open", "arm", "go", "wait", "rollback", "rebuild",
                   "restore", "publish", "drain"}
    BY <2>1, PlaceType
  <2> QED BY <1>0, <2>1, <2>2, <2>3, <2>4, <2>5, <2>6 DEF Callbacks
<1>2. OneMaster' /\ GraphFits' /\ Reached' /\ HasGraph'
  BY <1>1
  DEF SetChannel, device, Swap, Well, Ill, FaultKinds, RetireGraph, PanelOpen
<1>3. FailuresAreNoticed'
  BY DEF SetChannel, device, Swap, Well, Ill, FaultKinds, RetireGraph, PanelOpen
<1> QED BY <1>0, <1>1, <1>2, <1>3

LEMMA RebuildKeeps == ASSUME IInv, Rebuild PROVE IInv'
<1>0. Callbacks'
  BY CallbacksOvertaken, CallbacksStay DEF Rebuild, device, Run, CloseDevice
<1>1. Typed'
  <2>1. op' \in Operations
    BY RebuildGoesOn DEF Rebuild
  <2>2. /\ dev' \in Devices
        /\ gate' \in BOOLEAN /\ hw' \in BOOLEAN /\ seen' \in BOOLEAN
    BY UnionType, RunType, ClosedType DEF Rebuild
  <2>3. /\ clock' \in Clocks
        /\ graph' \in Graphs
    BY <2>2
    DEF Rebuild, sound, Well, Ill, FaultKinds, Run, CloseDevice, Closed, StopDriver
  <2>4. /\ src' \in [Tracks -> {"none", "pump"} \cup AllChans]
        /\ pump' \in [Tracks -> {"none", "run", "mute", "failed"}]
        /\ trackError' \in [Tracks -> BOOLEAN] /\ streamError' \in BOOLEAN
    BY RebuildGoesOn, UnionType
    DEF Rebuild, sound, Well, Ill, FaultKinds, Run, CloseDevice, Closed, StopDriver
  <2>5. /\ queue' \in Seq(Tracks \cup {Master})
        /\ panel' \in {"none", "spawned", "checked", "inside", "ended"}
        /\ faults' \subseteq FaultKinds
    BY DEF Rebuild, sound, Well, Ill, FaultKinds, Run, CloseDevice, Closed,
       StopDriver
  <2>6. op'.pc \in {"idle", "join", "open", "arm", "go", "wait", "rollback", "rebuild",
                   "restore", "publish", "drain"}
    BY <2>1, PlaceType
  <2> QED BY <1>0, <2>1, <2>2, <2>3, <2>4, <2>5, <2>6 DEF Callbacks
<1>2. OneMaster' /\ GraphFits' /\ Reached' /\ HasGraph'
  <2>1. op.pc = "rebuild" /\ clock' = clock /\ graph' = graph
    BY DEF Rebuild
  <2>2. \/ op'.pc = "publish" /\ dev'.running /\ dev'.open /\ dev'.buffers /\ gate'
        \/ op'.pc = "restore" /\ ~dev'.running
    BY <2>1, RebuildGoesOn, UnionType, RunType, ClosedType DEF Rebuild
  <2>3. hw' = dev'.running
    BY UnionType, RunType, ClosedType DEF Rebuild
  <2> QED BY <2>1, <2>2, <2>3
<1>3. FailuresAreNoticed'
  BY DEF Rebuild, sound, Well, Ill, FaultKinds, Run, CloseDevice, Closed, StopDriver
<1> QED BY <1>0, <1>1, <1>2, <1>3

LEMMA PublishKeeps == ASSUME IInv, Publish PROVE IInv'
<1>0. Callbacks'
  BY CallbacksStay DEF Publish, device
<1>1. Typed'
  <2>1. op' \in Operations
    BY OperationType DEF Publish
  <2>2. /\ dev' \in Devices
        /\ gate' \in BOOLEAN /\ hw' \in BOOLEAN /\ seen' \in BOOLEAN
    BY RebuildGoesOn, UnionType
    DEF Publish, device, Swap, Well, Ill, FaultKinds
  <2>3. /\ clock' \in Clocks
        /\ graph' \in Graphs
    BY <2>2
    DEF Publish, device, Swap, Well, Ill, FaultKinds
  <2>4. /\ src' \in [Tracks -> {"none", "pump"} \cup AllChans]
        /\ pump' \in [Tracks -> {"none", "run", "mute", "failed"}]
        /\ trackError' \in [Tracks -> BOOLEAN] /\ streamError' \in BOOLEAN
    BY RebuildGoesOn, UnionType
    DEF Publish, device, Swap, Well, Ill, FaultKinds
  <2>5. /\ queue' \in Seq(Tracks \cup {Master})
        /\ panel' \in {"none", "spawned", "checked", "inside", "ended"}
        /\ faults' \subseteq FaultKinds
    BY DEF Publish, device, Swap, Well, Ill, FaultKinds
  <2>6. op'.pc \in {"idle", "join", "open", "arm", "go", "wait", "rollback", "rebuild",
                   "restore", "publish", "drain"}
    BY <2>1, PlaceType
  <2> QED BY <1>0, <2>1, <2>2, <2>3, <2>4, <2>5, <2>6 DEF Callbacks
<1>2. OneMaster' /\ GraphFits' /\ Reached' /\ HasGraph'
  BY <1>1
  DEF Publish, device, Swap, Well, Ill, FaultKinds
<1>3. FailuresAreNoticed'
  BY DEF Publish, device, Swap, Well, Ill, FaultKinds
<1> QED BY <1>0, <1>1, <1>2, <1>3

LEMMA RestoreKeeps == ASSUME IInv, Restore PROVE IInv'
<1>0. Callbacks'
  BY CallbacksOvertaken, CallbacksStay DEF Restore, device, Run, ProbeFails, CloseDevice
<1>1. Typed'
  <2>1. op' \in Operations
    BY RebuildGoesOn DEF Restore
  <2>2. /\ dev' \in Devices
        /\ gate' \in BOOLEAN /\ hw' \in BOOLEAN /\ seen' \in BOOLEAN
    BY RebuildGoesOn, RunType, ClosedType DEF Restore, ProbeFails
  <2>3. /\ clock' \in Clocks
        /\ graph' \in Graphs
    BY <2>2
    DEF Restore, Well, Ill, FaultKinds, Run, ProbeFails, CloseDevice, Closed,
       StopDriver
  <2>4. /\ src' \in [Tracks -> {"none", "pump"} \cup AllChans]
        /\ pump' \in [Tracks -> {"none", "run", "mute", "failed"}]
        /\ trackError' \in [Tracks -> BOOLEAN] /\ streamError' \in BOOLEAN
    BY RebuildGoesOn, UnionType
    DEF Restore, Well, Ill, FaultKinds, Run, ProbeFails, CloseDevice, Closed,
       StopDriver
  <2>5. /\ queue' \in Seq(Tracks \cup {Master})
        /\ panel' \in {"none", "spawned", "checked", "inside", "ended"}
        /\ faults' \subseteq FaultKinds
    BY DEF Restore, Well, Ill, FaultKinds, Run, ProbeFails, CloseDevice, Closed,
       StopDriver
  <2>6. op'.pc \in {"idle", "join", "open", "arm", "go", "wait", "rollback", "rebuild",
                   "restore", "publish", "drain"}
    BY <2>1, PlaceType
  <2> QED BY <1>0, <2>1, <2>2, <2>3, <2>4, <2>5, <2>6 DEF Callbacks
<1>2. OneMaster' /\ GraphFits' /\ Reached' /\ HasGraph'
  <2>1. op.pc = "restore" /\ clock' = clock /\ graph' = graph
    BY DEF Restore
  <2>2. op'.pc = "publish"
    BY <2>1, RebuildGoesOn DEF Restore
  <2>3. /\ dev'.running => dev'.open /\ dev'.buffers /\ gate'
        /\ hw' = dev'.running
    BY RebuildGoesOn, RunType, ClosedType DEF Restore, ProbeFails
  <2> QED BY <2>1, <2>2, <2>3
<1>3. FailuresAreNoticed'
  BY DEF Restore, Well, Ill, FaultKinds, Run, ProbeFails, CloseDevice, Closed,
     StopDriver
<1> QED BY <1>0, <1>1, <1>2, <1>3

LEMMA InitHolds == ASSUME Init PROVE IInv
<1>1. Typed
  <2>1. NoClock \in Clocks /\ NoGraph \in Graphs /\ dev \in Devices /\ op \in Operations
    BY OperationType DEF Init
  <2>2. queue \in Seq(Tracks \cup {Master})
    BY DEF Init
  <2>3. /\ src \in [Tracks -> {"none", "pump"} \cup AllChans]
        /\ pump \in [Tracks -> {"none", "run", "mute", "failed"}]
        /\ trackError \in [Tracks -> BOOLEAN]
    BY DEF Init
  <2>4. block \in [by : {"none", "asio", "clock"}, with : Taken] /\ late \subseteq [with : Taken, left : BOOLEAN]
    BY DEF Init, NoBlock, Taken
  <2> QED BY <2>1, <2>2, <2>3, <2>4 DEF Init
<1>2. OneMaster /\ GraphFits /\ Reached /\ HasGraph /\ FailuresAreNoticed
  BY DEF Init
<1>3. Callbacks
  BY DEF Init, Callbacks, BlocksFitBuffers, NoBlock, Taken
<1> QED BY <1>1, <1>2, <1>3

LEMMA StutterKeeps == ASSUME IInv, UNCHANGED vars PROVE IInv'
<1>1. Callbacks'
  BY CallbacksStay DEF vars, callbacks
<1> QED BY <1>1 DEF vars, Callbacks

HIDE StreamAssumption
    DEF IInv, Typed, OneMaster, GraphFits, Reached, HasGraph, FailuresAreNoticed,
        TypeOK, Graphs, Idle, Fresh, NoClock, NoGraph, StreamRunning,
        Devices, Clocks

(***************************************************************************)
(* The theorems.                                                           *)
(***************************************************************************)

\* Every step keeps the invariant: the control thread's operations, the pump
\* threads, the driver and the panel, in any order.
THEOREM Invariance == Spec => []IInv
<1>1. Init => IInv
  BY InitHolds
<1>2. IInv /\ [Next]_vars => IInv'
  <2> SUFFICES ASSUME IInv, [Next]_vars PROVE IInv'
    OBVIOUS
  <2>1. CASE Control
    BY <2>1, JoinPanelKeeps, OpenAsioKeeps, OpenClockKeeps, ArmKeeps, GoKeeps, WaitKeeps,
       RollbackKeeps, RebuildKeeps, RestoreKeeps, PublishKeeps, HandleNoticeKeeps, DrainKeeps
    DEF Control
  <2>2. CASE (\E m \in {"asio", "clock"} : Start(m)) \/ Stop \/ OpenPanel
    BY <2>2, StartKeeps, StopKeeps, OpenPanelKeeps
  <2>3. CASE \E t \in Tracks : \/ SetPump(t)
                               \/ \E c \in Chans[t] \cup {"none"} : SetChannel(t, c)
    BY <2>3, SetPumpKeeps, SetChannelKeeps
  <2>4. CASE \E t \in Tracks : \/ PumpFallsSilent(t)
                               \/ \E how \in {"error", "exited"} : PumpFails(t, how)
    BY <2>4, PumpFallsSilentKeeps, PumpFailsKeeps
  <2>5. CASE ClockFails \/ ClockBlockBegins \/ DriverBlockBegins \/ BlockTakes \/ BlockEnds
    BY <2>5, ClockFailsKeeps, ClockBlockBeginsKeeps, DriverBlockBeginsKeeps, BlockTakesKeeps,
       BlockEndsKeeps
  <2>6. CASE PanelReads \/ PanelEnters \/ PanelLeaves
    BY <2>6, PanelReadsKeeps, PanelEntersKeeps, PanelLeavesKeeps
  <2>7. CASE UNCHANGED vars
    BY <2>7, StutterKeeps
  <2> QED BY <2>1, <2>2, <2>3, <2>4, <2>5, <2>6, <2>7 DEF Next
<1> QED BY <1>1, <1>2, PTL DEF Spec

\* Every variable keeps its type.
THEOREM TypeCorrect == Spec => []TypeOK
<1>1. IInv => TypeOK
  BY DEF IInv, Typed
<1> QED BY <1>1, Invariance, PTL

\* No block of a driver or clock that runs ever reads or writes by positions of
\* other buffers than those that stand, nor does a callback that outlives the
\* driver's stop for as long as stop() waits for it.
THEOREM BlocksFit == Spec => []BlocksFitBuffers
<1>1. IInv => BlocksFitBuffers
  BY DEF IInv, Callbacks
<1> QED BY <1>1, Invariance, PTL

\* Whatever operation ended last, and however it did, a stream that runs is
\* whole.
THEOREM StreamsAreWhole == Spec => []RunningIsWhole
<1>1. IInv => RunningIsWhole
  BY DEF IInv, OneMaster, HasGraph, Idle, RunningIsWhole
<1> QED BY <1>1, Invariance, PTL

\* The notice of a thread that failed is on its way until the thread is taken
\* down: no operation in between loses it.
THEOREM NoticesAreKept == Spec => []FailuresAreNoticed
<1>1. IInv => FailuresAreNoticed
  BY DEF IInv
<1> QED BY <1>1, Invariance, PTL
=============================================================================
