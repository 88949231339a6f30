---------------------------- MODULE GraphReclaim ----------------------------
(***************************************************************************)
(* Publication and reclamation of the render graph: the GraphRetireQueue   *)
(* with its reader latch, the operations of AudioEngine that publish,      *)
(* unlink and delete graphs, and the threads that read them.               *)
(*                                                                         *)
(* One control thread (the dispatcher, under the engine mutex) builds and  *)
(* publishes graphs; the audio callback and the telemetry publisher take   *)
(* the current graph without a lock.  Every atomic operation on the graph  *)
(* pointer or on the reader count is a step of its own, and so is every    *)
(* deletion, so that a reader may run between any two of them.             *)
(***************************************************************************)
EXTENDS Naturals, FiniteSets

CONSTANTS
  Graphs,      \* addresses of TrackGraph objects; a deleted one may be reused
  Callbacks,   \* audio callback threads
  Publishers,  \* telemetry publisher threads
  None,        \* the null pointer
  MaxFailures  \* bound: how often growing the queue's vector may fail

Readers == Callbacks \cup Publishers

ASSUME GraphsAssumption   == None \notin Graphs
ASSUME ReadersAssumption  == IsFiniteSet(Callbacks) /\ IsFiniteSet(Publishers)
ASSUME ThreadsAssumption  == Callbacks \cap Publishers = {}
ASSUME FailuresAssumption == MaxFailures \in Nat

VARIABLES
  (* memory *)
  allocated,   \* the graphs that exist
  leaked,      \* graphs nobody will delete (their retirement failed)
  (* AudioEngine and GraphRetireQueue *)
  rtGraph,     \* rt_graph_
  retired,     \* retired[g]: how many entries_ of the queue name g
  aged,        \* graphs whose entry is older than kGraceMs
  readers,     \* readers_
  streaming,   \* the driver delivers callbacks
  publishing,  \* the publisher thread exists and is not told to exit
  (* the control thread *)
  ctl,         \* where the control thread is
  op,          \* the operation it is running
  cand,        \* fresh / safe: a graph built and not yet published
  unlinked,    \* old: a graph exchanged out and not yet retired
  saved,       \* original: the copy kept while plugins are quiescent
  busy,        \* what reap read from readers_
  failures,    \* how often growing the queue's vector has failed
  (* the reader threads *)
  pc,          \* pc[r]
  ptr          \* ptr[r]: the graph r is traversing

memVars    == <<allocated, leaked>>
queueVars  == <<retired, aged>>
threadVars == <<readers, pc, ptr>>
driverVars == <<streaming, publishing>>
ctlVars    == <<ctl, op, cand, unlinked, saved, busy, failures>>
vars == <<memVars, rtGraph, queueVars, threadVars, driverVars, ctlVars>>

Ops == {"none", "swap", "start", "prepare", "quiesce", "publish", "restore",
        "attach", "rebuild", "stop", "destroy", "final"}

Places == {"idle", "build", "retire", "reap", "sweep", "drain", "action",
           "discard", "restore", "unlink", "device", "probe", "attach",
           "attachRetire", "attachStore", "join", "close", "dead",
           "terminated"}

Queue == {g \in Graphs : retired[g] > 0}

TypeOK ==
  /\ allocated \in SUBSET Graphs
  /\ leaked \in SUBSET Graphs
  /\ rtGraph \in Graphs \cup {None}
  /\ retired \in [Graphs -> Nat]
  /\ aged \in SUBSET Graphs
  /\ readers \in Nat
  /\ streaming \in BOOLEAN
  /\ publishing \in BOOLEAN
  /\ ctl \in Places
  /\ op \in Ops
  /\ cand \in Graphs \cup {None}
  /\ unlinked \in Graphs \cup {None}
  /\ saved \in Graphs \cup {None}
  /\ busy \in BOOLEAN
  /\ failures \in 0 .. MaxFailures
  /\ pc \in [Readers -> {"idle", "entered", "holding", "leaving"}]
  /\ ptr \in [Readers -> Graphs \cup {None}]

Init ==
  /\ allocated = {}
  /\ leaked = {}
  /\ rtGraph = None
  /\ retired = [g \in Graphs |-> 0]
  /\ aged = {}
  /\ readers = 0
  /\ streaming = FALSE
  /\ publishing = FALSE
  /\ ctl = "idle"
  /\ op = "none"
  /\ cand = None
  /\ unlinked = None
  /\ saved = None
  /\ busy = FALSE
  /\ failures = 0
  /\ pc = [r \in Readers |-> "idle"]
  /\ ptr = [r \in Readers |-> None]

-----------------------------------------------------------------------------
(***************************************************************************)
(* Readers: AudioEngine::process and the publisher loop, both through      *)
(* GraphReadGuard, which calls acquire_graph and release_graph.            *)
(***************************************************************************)

Runs(r) == IF r \in Callbacks THEN streaming ELSE publishing

\* reader_enter: registration precedes the load of the pointer.
ReaderEnter(r) ==
  /\ ctl # "terminated"
  /\ pc[r] = "idle"
  /\ Runs(r)
  /\ readers' = readers + 1
  /\ pc' = [pc EXCEPT ![r] = "entered"]
  /\ UNCHANGED <<ptr, memVars, rtGraph, queueVars, driverVars, ctlVars>>

ReaderLoad(r) ==
  /\ ctl # "terminated"
  /\ pc[r] = "entered"
  /\ ptr' = [ptr EXCEPT ![r] = rtGraph]
  /\ pc' = [pc EXCEPT ![r] = IF rtGraph = None THEN "leaving" ELSE "holding"]
  /\ UNCHANGED <<readers, memVars, rtGraph, queueVars, driverVars, ctlVars>>

\* Fault: release_graph is called also for a graph that was not obtained.
ReaderExit_Twice(r) ==
  /\ ctl # "terminated"
  /\ pc[r] \in {"holding", "leaving"}
  /\ readers' = readers - (IF pc[r] = "leaving" THEN 2 ELSE 1)
  /\ ptr' = [ptr EXCEPT ![r] = None]
  /\ pc' = [pc EXCEPT ![r] = "idle"]
  /\ UNCHANGED <<memVars, rtGraph, queueVars, driverVars, ctlVars>>

\* reader_exit, at the end of the traversal or because there was no graph.
ReaderExit(r) ==
  /\ ctl # "terminated"
  /\ pc[r] \in {"holding", "leaving"}
  /\ readers' = readers - 1
  /\ ptr' = [ptr EXCEPT ![r] = None]
  /\ pc' = [pc EXCEPT ![r] = "idle"]
  /\ UNCHANGED <<memVars, rtGraph, queueVars, driverVars, ctlVars>>

\* The clock passes tick + kGraceMs for one entry of the queue.
GraceElapses(g) ==
  /\ ctl # "terminated"
  /\ g \in Queue \ aged
  /\ aged' = aged \cup {g}
  /\ UNCHANGED <<retired, memVars, rtGraph, threadVars, driverVars, ctlVars>>

-----------------------------------------------------------------------------
(***************************************************************************)
(* The control thread.  Continuations: where an operation goes after the   *)
(* part it shares with other operations.                                   *)
(***************************************************************************)

AfterSwap ==
  CASE op = "start"                 -> "device"
    [] op \in {"prepare", "quiesce"} -> "drain"
    [] op = "publish"               -> "discard"
    [] OTHER                        -> "idle"

AfterRetire ==
  CASE op \in {"stop", "destroy"}    -> "drain"
    [] op \in {"restore", "rebuild"} -> "idle"
    [] OTHER                         -> "reap"

\* Inside the two swaps the handler that catches a failed retire is also
\* around the reap, which is therefore skipped; retire_graph and the restore
\* step swallow the failure and go on.
AfterFailedRetire == IF AfterRetire = "reap" THEN AfterSwap ELSE AfterRetire

AfterSweep ==
  CASE op = "attach"  -> "attach"
    [] op = "stop"    -> "idle"
    [] op = "destroy" -> "close"
    [] op = "final"   -> "dead"
    [] OTHER          -> AfterSwap

AfterAbort ==
  CASE op = "start"   -> "unlink"   \* StartRollback calls stop
    [] op = "quiesce" -> "discard"
    [] op = "publish" -> "restore"
    [] OTHER          -> "idle"

Fails ==
  /\ failures < MaxFailures
  /\ failures' = failures + 1

Begin(o, place) ==
  /\ ctl = "idle"
  /\ op' = o
  /\ ctl' = place

(***************************************************************************)
(* Building and publishing: commit_graph_candidate (swap_graph, start, the *)
(* publishing variant of with_quiescent_plugin_graph) and                  *)
(* swap_safety_graph.                                                      *)
(***************************************************************************)

Build(g) ==
  /\ g \notin allocated
  /\ allocated' = allocated \cup {g}
  /\ cand' = g

BeginSwap(g) ==
  /\ Begin("swap", "build")
  /\ Build(g)
  /\ UNCHANGED <<leaked, rtGraph, queueVars, threadVars, driverVars,
                 unlinked, saved, busy, failures>>

\* start: everything before swap_graph works on plugins and devices only.
BeginStart(g) ==
  /\ ~streaming
  /\ Begin("start", "build")
  /\ Build(g)
  /\ UNCHANGED <<leaked, rtGraph, queueVars, threadVars, driverVars,
                 unlinked, saved, busy, failures>>

\* swap_safety_graph has nothing to copy, and reports success, when there is no
\* graph in use.
BeginSafety(o, g) ==
  \/ /\ rtGraph # None
     /\ Begin(o, "build")
     /\ Build(g)
  \/ /\ rtGraph = None
     /\ Begin(o, "drain")
     /\ UNCHANGED <<allocated, cand>>

\* prepare_monitor_variants when a shadow is missing; only while streaming.
BeginPrepare(g) ==
  /\ streaming
  /\ BeginSafety("prepare", g)
  /\ UNCHANGED <<leaked, rtGraph, queueVars, threadVars, driverVars,
                 unlinked, saved, busy, failures>>

\* The candidate is refused (the plan is over a limit, a delay line cannot be
\* had) or an allocation fails half way: it is deleted, the graph in use is
\* not touched.
AbortCandidate ==
  /\ ctl = "build"
  /\ allocated' = allocated \ {cand}
  /\ cand' = None
  /\ ctl' = AfterAbort
  /\ op' = IF op = "start" THEN "stop" ELSE op
  /\ UNCHANGED <<leaked, rtGraph, queueVars, threadVars, driverVars,
                 unlinked, saved, busy, failures>>

\* rt_graph_.exchange(candidate)
PublishCandidate ==
  /\ ctl = "build"
  /\ unlinked' = rtGraph
  /\ rtGraph' = cand
  /\ cand' = None
  /\ ctl' = "retire"
  /\ UNCHANGED <<memVars, queueVars, threadVars, driverVars, op, saved, busy,
                 failures>>

(***************************************************************************)
(* GraphRetireQueue::retire and ::reap                                     *)
(***************************************************************************)

Retire(g) ==
  retired' = IF g = None THEN retired ELSE [retired EXCEPT ![g] = @ + 1]

RetireUnlinked ==
  /\ ctl = "retire"
  /\ Retire(unlinked)
  /\ unlinked' = None
  /\ ctl' = AfterRetire
  /\ UNCHANGED <<aged, memVars, rtGraph, threadVars, driverVars, op, cand,
                 saved, busy, failures>>

\* push_back throws: the graph stays allocated and nobody will delete it.
RetireFails ==
  /\ ctl = "retire"
  /\ unlinked # None
  /\ Fails
  /\ leaked' = leaked \cup {unlinked}
  /\ unlinked' = None
  /\ ctl' = AfterFailedRetire
  /\ UNCHANGED <<allocated, rtGraph, queueVars, threadVars, driverVars, op,
                 cand, saved, busy>>

\* Fault: reap does not look at readers_.
ReapCheck_Blind ==
  /\ ctl = "reap"
  /\ busy' = FALSE
  /\ ctl' = "sweep"
  /\ UNCHANGED <<memVars, rtGraph, queueVars, threadVars, driverVars, op,
                 cand, unlinked, saved, failures>>

\* reap loads readers_ once, before it looks at the entries.
ReapCheck ==
  /\ ctl = "reap"
  /\ busy' = (readers # 0)
  /\ ctl' = "sweep"
  /\ UNCHANGED <<memVars, rtGraph, queueVars, threadVars, driverVars, op,
                 cand, unlinked, saved, failures>>

\* still.reserve throws.  attach_loudness calls reap itself and its callers
\* catch; every other call goes through reap_retired_graphs, which is noexcept,
\* and ~AudioEngine, so the program terminates.
ReapFails ==
  /\ ctl = "reap"
  /\ Queue # {}
  /\ Fails
  /\ ctl' = IF op = "attach" THEN "idle" ELSE "terminated"
  /\ UNCHANGED <<memVars, rtGraph, queueVars, threadVars, driverVars, op,
                 cand, unlinked, saved, busy>>

Forced == op \in {"stop", "destroy", "final"}

\* Fault: a forced reap skips the latch as well as the grace period.
MayDelete_Forced(g) == Forced \/ (~busy /\ g \in aged)

MayDelete(g) == ~busy /\ (Forced \/ g \in aged)

\* delete e.graph, for one entry
SweepOne(g) ==
  /\ ctl = "sweep"
  /\ g \in Queue
  /\ MayDelete(g)
  /\ allocated' = allocated \ {g}
  /\ retired' = [retired EXCEPT ![g] = @ - 1]
  /\ aged' = aged \ {g}
  /\ UNCHANGED <<leaked, rtGraph, threadVars, driverVars, ctlVars>>

SweepDone ==
  /\ ctl = "sweep"
  /\ \A g \in Queue : ~MayDelete(g)
  /\ ctl' = AfterSweep
  /\ UNCHANGED <<memVars, rtGraph, queueVars, threadVars, driverVars, op,
                 cand, unlinked, saved, busy, failures>>

(***************************************************************************)
(* wait_rt_blocks_drained polls readers_ until it is zero or the timeout   *)
(* passes.  stop waits twice and then deletes and terminates or does not;  *)
(* either way it goes on to the forced reap.                               *)
(***************************************************************************)

AfterDrain ==
  CASE op = "prepare"                       -> "idle"
    [] op = "quiesce"                       -> "action"
    [] op \in {"stop", "destroy"}           -> "reap"

Drained ==
  /\ ctl = "drain"
  /\ readers = 0
  /\ ctl' = AfterDrain
  /\ UNCHANGED <<memVars, rtGraph, queueVars, threadVars, driverVars, op,
                 cand, unlinked, saved, busy, failures>>

\* Fault: the wait has no timeout.
DrainTimesOut_Never == FALSE /\ UNCHANGED vars

DrainTimesOut ==
  /\ ctl = "drain"
  /\ readers # 0
  /\ ctl' = IF op = "quiesce" THEN "restore" ELSE AfterDrain
  /\ UNCHANGED <<memVars, rtGraph, queueVars, threadVars, driverVars, op,
                 cand, unlinked, saved, busy, failures>>

(***************************************************************************)
(* with_quiescent_plugin_graph: a copy of the graph in use is kept, the    *)
(* safety graph is published, the readers drain, the action runs, and the  *)
(* copy or a new graph is published.                                       *)
(***************************************************************************)

\* new TrackGraph(*active), then swap_safety_graph
BeginQuiesce(copy, g) ==
  /\ copy # g
  /\ saved' = IF rtGraph = None THEN None ELSE copy
  /\ \/ /\ rtGraph # None
        /\ Begin("quiesce", "build")
        /\ {copy, g} \cap allocated = {}
        /\ allocated' = allocated \cup {copy, g}
        /\ cand' = g
     \/ /\ rtGraph = None
        /\ Begin("quiesce", "drain")
        /\ UNCHANGED <<allocated, cand>>
  /\ UNCHANGED <<leaked, rtGraph, queueVars, threadVars, driverVars, unlinked,
                 busy, failures>>

\* The action fails, or succeeds and nothing is to be published (a capture).
ActionDone ==
  /\ ctl = "action"
  /\ ctl' = "restore"
  /\ UNCHANGED <<memVars, rtGraph, queueVars, threadVars, driverVars, op,
                 cand, unlinked, saved, busy, failures>>

\* The action succeeds and the new chain is published by swap_graph.
ActionPublishes(g) ==
  /\ ctl = "action"
  /\ Build(g)
  /\ op' = "publish"
  /\ ctl' = "build"
  /\ UNCHANGED <<leaked, rtGraph, queueVars, threadVars, driverVars, unlinked,
                 saved, busy, failures>>

\* ~Restore without committed: the copy goes back in, the safety graph out.
RestoreSaved ==
  /\ ctl = "restore"
  /\ unlinked' = rtGraph
  /\ rtGraph' = saved
  /\ saved' = None
  /\ op' = "restore"
  /\ ctl' = "retire"
  /\ UNCHANGED <<memVars, queueVars, threadVars, driverVars, cand, busy,
                 failures>>

\* The unique_ptr of the copy goes out of scope.
DiscardSaved ==
  /\ ctl = "discard"
  /\ allocated' = allocated \ {saved}
  /\ saved' = None
  /\ ctl' = "idle"
  /\ UNCHANGED <<leaked, rtGraph, queueVars, threadVars, driverVars, op, cand,
                 unlinked, busy, failures>>

(***************************************************************************)
(* attach_loudness: reaps first, retires the graph in use while readers    *)
(* can still take it, and only then publishes the copy.                    *)
(***************************************************************************)

BeginAttach ==
  /\ Begin("attach", "reap")
  /\ UNCHANGED <<memVars, rtGraph, queueVars, threadVars, driverVars, cand,
                 unlinked, saved, busy, failures>>

AttachBuild(g) ==
  /\ ctl = "attach"
  /\ \/ /\ rtGraph # None
        /\ Build(g)
        /\ ctl' = "attachRetire"
     \/ /\ ctl' = "idle"    \* no graph in use, or no memory for the copy
        /\ UNCHANGED <<allocated, cand>>
  /\ UNCHANGED <<leaked, rtGraph, queueVars, threadVars, driverVars, op,
                 unlinked, saved, busy, failures>>

AttachRetire ==
  /\ ctl = "attachRetire"
  /\ Retire(rtGraph)
  /\ ctl' = "attachStore"
  /\ UNCHANGED <<aged, memVars, rtGraph, threadVars, driverVars, op, cand,
                 unlinked, saved, busy, failures>>

\* Fault: the copy is a raw pointer, lost when retire throws.
AttachRetireFails_Drops ==
  /\ ctl = "attachRetire"
  /\ Fails
  /\ cand' = None
  /\ ctl' = "idle"
  /\ UNCHANGED <<memVars, rtGraph, queueVars, threadVars, driverVars, op,
                 unlinked, saved, busy>>

AttachRetireFails ==
  /\ ctl = "attachRetire"
  /\ Fails
  /\ allocated' = allocated \ {cand}
  /\ cand' = None
  /\ ctl' = "idle"
  /\ UNCHANGED <<leaked, rtGraph, queueVars, threadVars, driverVars, op,
                 unlinked, saved, busy>>

AttachStore ==
  /\ ctl = "attachStore"
  /\ rtGraph' = cand
  /\ cand' = None
  /\ ctl' = "idle"
  /\ UNCHANGED <<memVars, queueVars, threadVars, driverVars, op, unlinked,
                 saved, busy, failures>>

(***************************************************************************)
(* The stream: start, stop, rebuild_asio_channels and ~AudioEngine.        *)
(***************************************************************************)

\* device_.start (or clock_->start): callbacks come from here on.
DeviceStarts ==
  /\ ctl = "device"
  /\ streaming' = TRUE
  /\ ctl' = "probe"
  /\ UNCHANGED <<memVars, rtGraph, queueVars, threadVars, publishing, op, cand,
                 unlinked, saved, busy, failures>>

\* The callback counter moved: start succeeds and makes sure of the publisher.
ProbeSucceeds ==
  /\ ctl = "probe"
  /\ publishing' = TRUE
  /\ ctl' = "idle"
  /\ UNCHANGED <<memVars, rtGraph, queueVars, threadVars, streaming, op, cand,
                 unlinked, saved, busy, failures>>

\* The device does not start or delivers nothing: StartRollback stops.
ProbeFails ==
  /\ ctl \in {"device", "probe"}
  /\ streaming' = FALSE
  /\ op' = "stop"
  /\ ctl' = "unlink"
  /\ UNCHANGED <<memVars, rtGraph, queueVars, threadVars, publishing, cand,
                 unlinked, saved, busy, failures>>

\* stop, also through handle_track_failed: the driver starts no more callbacks,
\* the one in flight goes on.
BeginStop ==
  /\ Begin("stop", "unlink")
  /\ streaming' = FALSE
  /\ UNCHANGED <<memVars, rtGraph, queueVars, threadVars, publishing, cand,
                 unlinked, saved, busy, failures>>

\* Fault: retire_graph loads the pointer where it should exchange it.
UnlinkGraph_Loads ==
  /\ ctl = "unlink"
  /\ unlinked' = rtGraph
  /\ ctl' = "retire"
  /\ UNCHANGED <<memVars, rtGraph, queueVars, threadVars, driverVars, op, cand,
                 saved, busy, failures>>

\* retire_graph: rt_graph_.exchange(nullptr)
UnlinkGraph ==
  /\ ctl = "unlink"
  /\ unlinked' = rtGraph
  /\ rtGraph' = None
  /\ ctl' = "retire"
  /\ UNCHANGED <<memVars, queueVars, threadVars, driverVars, op, cand, saved,
                 busy, failures>>

\* rebuild_asio_channels unlinks the graph around the restart of the driver,
\* which either runs again or is closed.
BeginRebuild ==
  /\ streaming
  /\ Begin("rebuild", "unlink")
  /\ streaming' \in BOOLEAN
  /\ UNCHANGED <<memVars, rtGraph, queueVars, threadVars, publishing, cand,
                 unlinked, saved, busy, failures>>

\* ~AudioEngine raises exiting_ ...
BeginDestroy ==
  /\ Begin("destroy", "join")
  /\ publishing' = FALSE
  /\ UNCHANGED <<memVars, rtGraph, queueVars, threadVars, streaming, cand,
                 unlinked, saved, busy, failures>>

\* ... joins the publisher and stops ...
PublisherJoined ==
  /\ ctl = "join"
  /\ \A r \in Publishers : pc[r] = "idle"
  /\ streaming' = FALSE
  /\ ctl' = "unlink"
  /\ UNCHANGED <<memVars, rtGraph, queueVars, threadVars, publishing, op, cand,
                 unlinked, saved, busy, failures>>

\* Fault: the destructor does not reap once more after the driver is closed.
DeviceClosed_NoReap ==
  /\ ctl = "close"
  /\ \A r \in Callbacks : pc[r] = "idle"
  /\ allocated' = allocated \ {rtGraph}
  /\ rtGraph' = None
  /\ op' = "final"
  /\ ctl' = "dead"
  /\ UNCHANGED <<leaked, queueVars, threadVars, driverVars, cand, unlinked,
                 saved, busy, failures>>

\* ... closes the driver, which returns from its last callback first, deletes
\* what the pointer still names and reaps.
DeviceClosed ==
  /\ ctl = "close"
  /\ \A r \in Callbacks : pc[r] = "idle"
  /\ allocated' = allocated \ {rtGraph}
  /\ rtGraph' = None
  /\ op' = "final"
  /\ ctl' = "reap"
  /\ UNCHANGED <<leaked, queueVars, threadVars, driverVars, cand, unlinked,
                 saved, busy, failures>>

\* Nothing runs after the destructor or after std::terminate.
Ended ==
  /\ ctl \in {"dead", "terminated"}
  /\ UNCHANGED vars

-----------------------------------------------------------------------------

Request ==
  \/ \E g \in Graphs : BeginSwap(g) \/ BeginStart(g) \/ BeginPrepare(g)
  \/ \E copy, g \in Graphs : BeginQuiesce(copy, g)
  \/ BeginAttach
  \/ BeginStop
  \/ BeginRebuild
  \/ BeginDestroy

Step ==
  \/ AbortCandidate \/ PublishCandidate
  \/ RetireUnlinked \/ RetireFails
  \/ ReapCheck \/ ReapFails
  \/ \E g \in Graphs : SweepOne(g)
  \/ SweepDone
  \/ Drained \/ DrainTimesOut
  \/ ActionDone
  \/ \E g \in Graphs : ActionPublishes(g)
  \/ RestoreSaved \/ DiscardSaved
  \/ \E g \in Graphs : AttachBuild(g)
  \/ AttachRetire \/ AttachRetireFails \/ AttachStore
  \/ DeviceStarts \/ ProbeSucceeds \/ ProbeFails
  \/ UnlinkGraph
  \/ PublisherJoined \/ DeviceClosed

Reading(r) == ReaderEnter(r) \/ ReaderLoad(r) \/ ReaderExit(r)

Next ==
  \/ Request
  \/ Step
  \/ \E r \in Readers : Reading(r)
  \/ \E g \in Graphs : GraceElapses(g)
  \/ Ended

\* A reader that registered finishes its traversal; the control thread finishes
\* what it began.  Nobody is obliged to issue a request or a callback.
Fairness ==
  /\ \A r \in Readers : WF_vars(ReaderLoad(r)) /\ WF_vars(ReaderExit(r))
  /\ WF_vars(Step)

Spec == Init /\ [][Next]_vars

FairSpec == Spec /\ Fairness

-----------------------------------------------------------------------------
(***************************************************************************)
(* Properties                                                              *)
(***************************************************************************)

\* acquire_graph: a graph somebody is traversing, or could take now, exists.
NoUseAfterFree ==
  /\ \A r \in Readers : ptr[r] # None => ptr[r] \in allocated
  /\ rtGraph # None => rtGraph \in allocated

\* The retire queue never deletes twice, and never deletes what another owner
\* still has: a queued graph has one entry and is nobody else's, except that
\* attach_loudness queues the graph in use just before it replaces it.
QueueOwnsItsGraphs ==
  \A g \in Queue :
    /\ g \in allocated
    /\ retired[g] = 1
    /\ g \notin {cand, unlinked, saved} \cup leaked
    /\ g = rtGraph => ctl = "attachStore"

\* "previous graph leaked once": on every path, with every failure, a graph that
\* exists is in use, queued, or in the hands of the control thread, but for at
\* most one graph for each retirement that failed.
LeaksAreFailures ==
  /\ allocated = leaked \cup Queue \cup ({rtGraph, cand, unlinked, saved} \ {None})
  /\ Cardinality(leaked) <= failures

\* with_quiescent_plugin_graph, wait_rt_blocks_drained: when the action runs,
\* no reader is left on a graph other than the safety graph.
QuiescentReaders ==
  ctl = "action" => \A r \in Readers : ptr[r] \in {None, rtGraph}

\* ~AudioEngine: "readers are zero by then, reap clears everything".
CleanExit ==
  ctl = "dead" => /\ readers = 0
                  /\ allocated = leaked

\* Readers are served only graphs that are not yet in the queue: what a comment
\* above acquire_graph says ("a graph is either in use or unlinked and queued").
QueuedIsUnlinked == rtGraph \notin Queue

\* What the comment at the end of commit_graph_candidate says of an exception
\* after the exchange: it costs at most a late or lost deletion.
CommitSurvives == [][op = "swap" /\ ctl = "reap" => ctl' # "terminated"]_vars

\* Whatever the readers do, an operation of the control thread comes to an end.
OperationsEnd ==
  ctl # "idle" ~> ctl \in {"idle", "dead", "terminated"}

Abstract == INSTANCE SafeReclaim
  WITH allocated <- allocated, current <- rtGraph, held <- ptr

\* The engine's mechanism keeps the promise of SafeReclaim.
RefinesSafeReclaim == Abstract!Spec
=============================================================================
