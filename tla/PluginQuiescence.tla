-------------------------- MODULE PluginQuiescence --------------------------
(***************************************************************************)
(* VST3 forbids touching a processor's state, or terminating it, while the *)
(* audio callback may be inside its process().  AudioEngine keeps the two  *)
(* apart by publishing a graph that does not call the plugin, waiting      *)
(* until the blocks in flight have let go of the older graph, and only     *)
(* then touching it.  This module models every operation of the engine     *)
(* that touches a plugin or decides which plugins the published graph      *)
(* calls, on one track that feeds a low-latency output, against one audio  *)
(* callback thread.                                                        *)
(*                                                                         *)
(* Building and exchanging a graph is one step here (GraphReclaim has its  *)
(* parts), and so is each call into a plugin's state, which lasts from the *)
(* step that enters its place to the step that leaves it.                  *)
(***************************************************************************)
EXTENDS Naturals, SequencesExt

CONSTANTS
  Plugins,     \* plugin instances of the track
  Shadows,     \* monitor shadow instances
  None,        \* no instance
  MaxFailures  \* bound: swaps refused, plugin calls failed, waits timed out

ASSUME InstancesAssumption ==
  /\ Plugins \cap Shadows = {}
  /\ None \notin Plugins \cup Shadows
ASSUME FailuresAssumption == MaxFailures \in Nat

Instances == Plugins \cup Shadows

VARIABLES
  master,   \* tracks_: what the control thread holds
  graph,    \* the instances the published graph may call
  refused,  \* the last attempt to publish the master was refused
  running,  \* stream_running()
  inBlock,  \* the callback is inside process(), registered as a reader
  block,    \* the instances that block may call
  ctl,      \* where the control thread is
  op,       \* the operation it is running
  target,   \* the slot the operation is about
  saved,    \* what the operation keeps to undo itself
  stale,    \* shadows whose state is not that of their primary
  outcome,  \* how the last operation ended
  failures

rtVars   == <<inBlock, block>>
opVars   == <<op, target, saved>>
ctlVars  == <<ctl, opVars, outcome>>
vars == <<master, graph, refused, running, rtVars, ctlVars, stale, failures>>

Configs == [chain     : Seq(Plugins),
            bypass    : SUBSET Plugins,
            mbypass   : SUBSET Plugins,   \* monitor_bypass
            suspended : SUBSET Plugins,   \* primary_state = kSuspended
            degraded  : SUBSET Plugins,   \* monitor_state = kDegraded
            shadow    : [Plugins -> Shadows \cup {None}]]

EmptyConfig == [chain |-> <<>>, bypass |-> {}, mbypass |-> {}, suspended |-> {},
                degraded |-> {}, shadow |-> [p \in Plugins |-> None]]

NoSave == [config |-> EmptyConfig, graph |-> {}]

Ops == {"none", "save", "load", "bypass", "add", "remove", "capture", "paste",
        "latency", "shadowLatency", "start", "stop"}

Places == {"idle", "saveDrain", "saveIO", "loadDrain", "loadIO", "rollback",
           "prepareDrain", "ensure", "prepared", "prepareFailed", "suspend",
           "rawEnsure", "captureDrain", "captureIO", "pasteDrain",
           "pasteEnsure", "initialize", "stopDrain", "terminate"}

TypeOK ==
  /\ master \in Configs
  /\ graph \in SUBSET Instances
  /\ refused \in BOOLEAN
  /\ running \in BOOLEAN
  /\ inBlock \in BOOLEAN
  /\ block \in SUBSET Instances
  /\ ctl \in Places
  /\ op \in Ops
  /\ target \in Plugins \cup {None}
  /\ saved \in [config : Configs, graph : SUBSET Instances]
  /\ stale \in SUBSET Shadows
  /\ outcome \in {"none", "ok", "failed"}
  /\ failures \in 0 .. MaxFailures

Init ==
  /\ master = EmptyConfig
  /\ graph = {}
  /\ refused = FALSE
  /\ running = FALSE
  /\ inBlock = FALSE
  /\ block = {}
  /\ ctl = "idle"
  /\ op = "none"
  /\ target = None
  /\ saved = NoSave
  /\ stale = {}
  /\ outcome = "none"
  /\ failures = 0

-----------------------------------------------------------------------------
(***************************************************************************)
(* plan_routes, for a chain whose track reaches a low-latency output, and  *)
(* what AudioEngine::process does with each slot of the plan.              *)
(***************************************************************************)

InChain(c) == {p \in Plugins : Contains(c.chain, p)}

\* primary_processes
Processes(c, p) == p \notin c.bypass \cup c.suspended

\* monitor_diverged when the loop reaches slot p: some slot before it runs in
\* the primary path only.
Diverged(c, p) ==
  \E i, j \in DOMAIN c.chain :
    /\ i < j
    /\ c.chain[j] = p
    /\ c.chain[i] \in c.mbypass
    /\ Processes(c, c.chain[i])

\* The slots whose monitor path is a process of its own.
NeedShadow(c) ==
  {p \in InChain(c) : Processes(c, p) /\ Diverged(c, p) /\ p \notin c.mbypass}

\* ShadowDisposition::kCreate
Missing(c) == {p \in NeedShadow(c) : c.shadow[p] = None}

\* What run_path may call: kProcess, and kDrainParameters of a suspended
\* primary or a degraded shadow when the ring has edits.
Uses(c) ==
  (InChain(c) \ c.bypass)
    \cup {c.shadow[p] : p \in NeedShadow(c) \ Missing(c)}

\* Fault: the null pointer is not told from a shadow.
ShadowOf_Null(c, p) == {c.shadow[p]}

ShadowOf(c, p) == {c.shadow[p]} \ {None}

\* A fresh slot, or no slot, for p.
Reset(c, p) ==
  [c EXCEPT !.bypass = @ \ {p}, !.mbypass = @ \ {p}, !.suspended = @ \ {p},
            !.degraded = @ \ {p}, !.shadow[p] = None]

\* chain.erase(it), chain.pop_back()
Erased(c, i) == [Reset(c, c.chain[i]) EXCEPT !.chain = RemoveAt(@, i)]

\* Instances that somebody still refers to; a new object is none of them.
Referenced ==
  graph \cup block \cup saved.graph \cup InChain(master) \cup InChain(saved.config)
    \cup {master.shadow[p] : p \in Plugins}
    \cup {saved.config.shadow[p] : p \in Plugins}

Inject(M) ==
  {f \in [M -> Shadows \ Referenced] : \A p, q \in M : f[p] = f[q] => p = q}

\* The commit at the end of ensure_monitor_shadows: shadows no longer needed are
\* released, the missing ones installed, both in state kActive.
WithShadows(c, f) ==
  [c EXCEPT !.shadow = [p \in Plugins |->
                          IF p \in Missing(c) THEN f[p]
                          ELSE IF p \in NeedShadow(c) THEN @[p] ELSE None],
            !.degraded = @ \cap (NeedShadow(c) \ Missing(c))]

-----------------------------------------------------------------------------
(***************************************************************************)
(* AudioEngine::process on the callback thread, under its GraphReadGuard.  *)
(***************************************************************************)

BlockBegins ==
  /\ running
  /\ ~inBlock
  /\ inBlock' = TRUE
  /\ block' = graph
  /\ UNCHANGED <<master, graph, refused, running, ctlVars, stale, failures>>

BlockEnds ==
  /\ inBlock
  /\ inBlock' = FALSE
  /\ block' = {}
  /\ UNCHANGED <<master, graph, refused, running, ctlVars, stale, failures>>

-----------------------------------------------------------------------------
(***************************************************************************)
(* What the operations share.                                              *)
(***************************************************************************)

Fails ==
  /\ failures < MaxFailures
  /\ failures' = failures + 1

\* swap_graph: commit_graph_candidate, or nothing.
Swap(c) ==
  /\ graph' = Uses(c)
  /\ refused' = FALSE
  /\ UNCHANGED failures

SwapRefused ==
  /\ Fails
  /\ refused' = TRUE
  /\ UNCHANGED graph

\* A swap whose result the caller does not look at.
SwapUnchecked(c) == Swap(c) \/ SwapRefused

Idle == ctl = "idle"

Enter(place, o, t, keep) ==
  /\ ctl' = place
  /\ op' = o
  /\ target' = t
  /\ saved' = keep
  /\ UNCHANGED outcome

Goto(place) ==
  /\ ctl' = place
  /\ UNCHANGED <<opVars, outcome>>

Finish(result) ==
  /\ ctl' = "idle"
  /\ op' = "none"
  /\ target' = None
  /\ saved' = NoSave
  /\ outcome' = result

Keep == [config |-> master, graph |-> graph]

\* prepare_monitor_variants.  It fails outright when the plan is over a limit
\* (and so is the swap it then tries) or the safety graph cannot be had; the
\* graph in use stays.
Prepare(c, o, t) ==
  \/ /\ running
     /\ Missing(c) # {}
     /\ graph' = {}
     /\ Enter("prepareDrain", o, t, Keep)
     /\ UNCHANGED failures
  \/ /\ ~running \/ Missing(c) = {}
     /\ Enter("ensure", o, t, Keep)
     /\ UNCHANGED <<graph, failures>>
  \/ /\ Fails
     /\ Enter("prepareFailed", o, t, Keep)
     /\ UNCHANGED graph

(***************************************************************************)
(* wait_rt_blocks_drained.  It may also time out because of the telemetry  *)
(* publisher, which holds the same latch.                                  *)
(***************************************************************************)

AfterDrain ==
  CASE ctl = "saveDrain"    -> "saveIO"
    [] ctl = "loadDrain"    -> "loadIO"
    [] ctl = "prepareDrain" -> "ensure"
    [] ctl = "captureDrain" -> "captureIO"
    [] ctl = "stopDrain"    -> "terminate"

\* Fault: the wait does not look at the reader latch.
Drained_Blind ==
  /\ ctl \in {"saveDrain", "loadDrain", "prepareDrain", "captureDrain", "stopDrain"}
  /\ Goto(AfterDrain)
  /\ UNCHANGED <<master, graph, refused, running, rtVars, stale, failures>>

Drained ==
  /\ ctl \in {"saveDrain", "loadDrain", "prepareDrain", "captureDrain", "stopDrain"}
  /\ ~inBlock
  /\ Goto(AfterDrain)
  /\ UNCHANGED <<master, graph, refused, running, rtVars, stale, failures>>

-----------------------------------------------------------------------------
(***************************************************************************)
(* save_preset and load_preset: the slot is bypassed in the published      *)
(* graph for the time of the access.                                       *)
(***************************************************************************)

Bypassed(p) == [master EXCEPT !.bypass = @ \cup {p}]

\* s->bypass = orig_bypass
Unbypassed == [master EXCEPT !.bypass = (@ \ {target}) \cup (saved.config.bypass \cap {target})]

BeginPreset(o, p) ==
  /\ Idle
  /\ p \in InChain(master)
  /\ \/ /\ Swap(Bypassed(p))
        /\ master' = Bypassed(p)
        /\ Enter(IF o = "save" THEN "saveDrain" ELSE "loadDrain", o, p, Keep)
     \/ /\ SwapRefused
        /\ Finish("failed")
        /\ UNCHANGED master
  /\ UNCHANGED <<running, rtVars, stale>>

\* Fault: an early return that restores the flag but not the graph.
PresetGivesUp_Quietly ==
  /\ ctl \in {"saveDrain", "loadDrain", "loadIO"}
  /\ Fails
  /\ master' = Unbypassed
  /\ Finish("failed")
  /\ UNCHANGED <<graph, refused, running, rtVars, stale>>

\* The wait timed out, or the state could not be captured.
PresetGivesUp ==
  /\ ctl \in {"saveDrain", "loadDrain", "loadIO"}
  /\ Fails
  /\ master' = Unbypassed
  /\ \/ graph' = Uses(Unbypassed) /\ refused' = FALSE
     \/ graph' = graph /\ refused' = TRUE
  /\ Finish("failed")
  /\ UNCHANGED <<running, rtVars, stale>>

\* The result of the last swap is not looked at, nor is the file's here.
SaveDone ==
  /\ ctl = "saveIO"
  /\ master' = Unbypassed
  /\ SwapUnchecked(Unbypassed)
  /\ \E result \in {"ok", "failed"} : Finish(result)
  /\ UNCHANGED <<running, rtVars, stale>>

\* Primary and shadow have taken the preset; a suspended or degraded instance
\* gets another chance, and the monitor variants are prepared.
Reactivated ==
  [Unbypassed EXCEPT
     !.suspended = @ \ {target},
     !.degraded = IF master.shadow[target] = None THEN @ ELSE @ \ {target}]

LoadAccepted ==
  /\ ctl = "loadIO"
  /\ master' = Reactivated
  /\ \/ /\ running
        /\ Missing(Reactivated) # {}
        /\ graph' = {}
        /\ Goto("prepareDrain")
        /\ UNCHANGED failures
     \/ /\ ~running \/ Missing(Reactivated) = {}
        /\ Goto("ensure")
        /\ UNCHANGED <<graph, failures>>
     \/ /\ Fails
        /\ Goto("rollback")
        /\ UNCHANGED graph
  /\ UNCHANGED <<refused, running, rtVars, stale>>

\* The file or the shadow is refused, after the primary may have taken it.
LoadRejected ==
  /\ ctl = "loadIO"
  /\ Fails
  /\ master' = Unbypassed
  /\ Goto("rollback")
  /\ UNCHANGED <<graph, refused, running, rtVars, stale>>

\* The runtime state before the operation: a latency notice is about one of the
\* two instances, a preset about both.
RolledBack ==
  [master EXCEPT
     !.suspended = IF op = "shadowLatency" THEN @
                   ELSE (@ \ {target}) \cup (saved.config.suspended \cap {target}),
     !.degraded  = IF op = "latency" THEN @
                   ELSE (@ \ {target}) \cup (saved.config.degraded \cap {target})]

\* restore_runtime_state of the primary and, when there is one now, the shadow,
\* whose captured state is empty when it did not exist before.

LoadRolledBack ==
  /\ ctl = "rollback"
  /\ master' = RolledBack
  /\ SwapUnchecked(RolledBack)
  /\ stale' = IF saved.config.shadow[target] = None
              THEN stale \cup ShadowOf(master, target) ELSE stale
  /\ Finish("failed")
  /\ UNCHANGED <<running, rtVars>>

-----------------------------------------------------------------------------
(***************************************************************************)
(* Operations that change the chain or a flag, prepare the monitor         *)
(* variants and publish, or take the change back.                          *)
(***************************************************************************)

BeginPrepared(c, o, p) ==
  /\ Idle
  /\ master' = c
  /\ Prepare(c, o, p)
  /\ UNCHANGED <<refused, running, rtVars, stale>>

Toggle(S, p) == IF p \in S THEN S \ {p} ELSE S \cup {p}

\* commit_bypass_flag, for set_bypass and set_monitor_bypass
BeginBypass(p) ==
  /\ p \in InChain(master)
  /\ \/ BeginPrepared([master EXCEPT !.bypass = Toggle(@, p)], "bypass", p)
     \/ BeginPrepared([master EXCEPT !.mbypass = Toggle(@, p)], "bypass", p)

\* add_plugin
BeginAdd(p) ==
  /\ p \notin Referenced
  /\ BeginPrepared([master EXCEPT !.chain = Append(@, p)], "add", p)

\* handle_latency_changed: a slot that was suspended or degraded is tried again.
BeginLatency(p) ==
  /\ p \in InChain(master)
  /\ BeginPrepared([master EXCEPT !.suspended = @ \ {p}], "latency", p)

BeginShadowLatency(p) ==
  /\ p \in InChain(master)
  /\ master.shadow[p] # None
  /\ BeginPrepared([master EXCEPT !.degraded = @ \ {p}], "shadowLatency", p)

\* The wait after the safety graph timed out: prepare fails, and the safety
\* graph stays published until the operation publishes something.
PrepareTimesOut ==
  /\ ctl = "prepareDrain"
  /\ Fails
  /\ Goto("prepareFailed")
  /\ UNCHANGED <<master, graph, refused, running, rtVars, stale>>

\* ensure_monitor_shadows captured the primaries and built every shadow.
EnsureDone ==
  /\ ctl = "ensure"
  /\ \E f \in Inject(Missing(master)) :
       /\ master' = WithShadows(master, f)
       /\ stale' = stale \ {f[p] : p \in Missing(master)}
  /\ Goto("prepared")
  /\ UNCHANGED <<graph, refused, running, rtVars, failures>>

\* A shadow cannot be loaded, filled, initialised or pre-rolled; when streaming,
\* the master goes back into the graph as it is.
EnsureFails ==
  /\ ctl = "ensure"
  /\ Missing(master) # {}
  /\ Fails
  /\ \/ running /\ graph' = Uses(master) /\ refused' = FALSE
     \/ running /\ refused' = TRUE /\ UNCHANGED graph
     \/ ~running /\ UNCHANGED <<graph, refused>>
  /\ Goto("prepareFailed")
  /\ UNCHANGED <<master, running, rtVars, stale>>

Commit ==
  /\ ctl \in {"prepared", "suspend"}
  /\ Swap(master)
  /\ Finish(IF ctl = "suspend" THEN "failed" ELSE "ok")
  /\ stale' = IF op = "load" THEN stale \ ShadowOf(saved.config, target) ELSE stale
  /\ UNCHANGED <<master, running, rtVars>>

\* Fault: the rollback is written for set_bypass alone.
Undone_Bypass ==
  IF op = "add" THEN [Reset(master, target) EXCEPT !.chain = Front(@)]
  ELSE [master EXCEPT
          !.bypass  = (@ \ {target}) \cup (saved.config.bypass \cap {target})]

\* The undone master of commit_bypass_flag and add_plugin; shadows stay.
Undone ==
  IF op = "add" THEN [Reset(master, target) EXCEPT !.chain = Front(@)]
  ELSE [master EXCEPT
          !.bypass  = (@ \ {target}) \cup (saved.config.bypass \cap {target}),
          !.mbypass = (@ \ {target}) \cup (saved.config.mbypass \cap {target})]

\* swap_graph after a successful prepare is refused.
CommitRefused ==
  /\ ctl = "prepared"
  /\ SwapRefused
  /\ \/ /\ op \in {"bypass", "add"}
        /\ master' = Undone
        /\ Goto("rawEnsure")
     \/ /\ op = "load"
        /\ Goto("rollback")
        /\ UNCHANGED master
     \/ /\ op = "latency"
        /\ master' = [master EXCEPT !.suspended = @ \cup {target}]
        /\ Goto("suspend")
     \/ /\ op = "shadowLatency"
        /\ master' = [master EXCEPT !.degraded = @ \cup {target}]
        /\ Goto("suspend")
  /\ UNCHANGED <<running, rtVars, stale>>

PrepareFailed ==
  /\ ctl = "prepareFailed"
  /\ \/ /\ op = "bypass"
        /\ master' = Undone
        /\ Goto("rawEnsure")
        /\ UNCHANGED <<graph, refused, failures>>
     \/ /\ op = "add"
        /\ master' = Undone
        /\ SwapUnchecked(Undone)
        /\ Finish("failed")
     \/ /\ op = "load"
        /\ Goto("rollback")
        /\ UNCHANGED <<master, graph, refused, failures>>
     \/ /\ op = "latency"
        /\ Goto("prepared")
        /\ UNCHANGED <<master, graph, refused, failures>>
     \/ /\ op = "shadowLatency"
        /\ master' = [master EXCEPT !.degraded = @ \cup {target}]
        /\ Goto("prepared")
        /\ UNCHANGED <<graph, refused, failures>>
  /\ UNCHANGED <<running, rtVars, stale>>

\* Even with the slot suspended or degraded the plan is refused: back to the
\* state before the notice, whose swap is not looked at.
SuspendRefused ==
  /\ ctl = "suspend"
  /\ Fails
  /\ master' = RolledBack
  /\ \/ graph' = Uses(RolledBack) /\ refused' = FALSE
     \/ refused' = TRUE /\ UNCHANGED graph
  /\ Finish("failed")
  /\ UNCHANGED <<running, rtVars, stale>>

-----------------------------------------------------------------------------
(***************************************************************************)
(* Operations that call ensure_monitor_shadows without prepare: the        *)
(* rollbacks above and remove_plugin.  Whether it succeeds is not looked   *)
(* at; a swap follows.                                                     *)
(***************************************************************************)

BeginRemove(i) ==
  /\ Idle
  /\ i \in DOMAIN master.chain
  /\ master' = Erased(master, i)
  /\ Enter("rawEnsure", "remove", master.chain[i], Keep)
  /\ UNCHANGED <<graph, refused, running, rtVars, stale, failures>>

RawEnsure ==
  /\ ctl = "rawEnsure"
  /\ \/ \E f \in Inject(Missing(master)) :
          /\ master' = WithShadows(master, f)
          /\ stale' = stale \ {f[p] : p \in Missing(master)}
          /\ SwapUnchecked(WithShadows(master, f))
     \/ /\ Fails
        /\ \/ Missing(master) # {} /\ graph' = Uses(master) /\ refused' = FALSE
           \/ refused' = TRUE /\ UNCHANGED graph
        /\ UNCHANGED <<master, stale>>
  /\ Finish(IF op = "remove" THEN "ok" ELSE "failed")
  /\ UNCHANGED <<running, rtVars>>

\* move_plugin: no shadow is prepared or released.
Moved(from, to) ==
  [master EXCEPT !.chain = InsertAt(RemoveAt(@, from), to, @[from])]

MovePlugin(from, to) ==
  /\ Idle
  /\ from \in DOMAIN master.chain
  /\ to \in DOMAIN master.chain
  /\ master' = Moved(from, to)
  /\ SwapUnchecked(Moved(from, to))
  /\ Finish("ok")
  /\ UNCHANGED <<running, rtVars, stale>>

-----------------------------------------------------------------------------
(***************************************************************************)
(* with_quiescent_plugin_graph: capture_plugin, insert_plugin_snapshot.    *)
(***************************************************************************)

BeginCapture(p) ==
  /\ Idle
  /\ p \in InChain(master)
  /\ graph' = {}
  /\ Enter("captureDrain", "capture", p, Keep)
  /\ UNCHANGED <<master, refused, running, rtVars, stale, failures>>

\* The slot is in no chain yet: it is a local of insert_plugin_snapshot.
BeginPaste(p) ==
  /\ Idle
  /\ p \notin Referenced
  /\ graph' = {}
  /\ Enter("pasteDrain", "paste", p, Keep)
  /\ UNCHANGED <<master, refused, running, rtVars, stale, failures>>

\* Fault: the snapshot is a copy of the source slot, monitor_shadow included.
PasteInserts_Shallow ==
  /\ ctl = "pasteDrain"
  /\ ~inBlock
  /\ \E at \in 1 .. Len(master.chain) + 1, source \in InChain(master) :
       master' = [master EXCEPT
                    !.chain = InsertAt(@, at, target),
                    !.shadow[target] = master.shadow[source]]
  /\ Goto("pasteEnsure")
  /\ UNCHANGED <<graph, refused, running, rtVars, stale, failures>>

\* The insertion, the copied flags, and then ensure_monitor_shadows.
PasteInserts ==
  /\ ctl = "pasteDrain"
  /\ ~inBlock
  /\ \E at \in 1 .. Len(master.chain) + 1, flags \in SUBSET {"bypass", "mbypass"} :
       master' = [master EXCEPT
                    !.chain   = InsertAt(@, at, target),
                    !.bypass  = @ \cup (IF "bypass" \in flags THEN {target} ELSE {}),
                    !.mbypass = @ \cup (IF "mbypass" \in flags THEN {target} ELSE {})]
  /\ Goto("pasteEnsure")
  /\ UNCHANGED <<graph, refused, running, rtVars, stale, failures>>

PasteDone ==
  /\ ctl = "pasteEnsure"
  /\ \E f \in Inject(Missing(master)) :
       /\ master' = WithShadows(master, f)
       /\ stale' = stale \ {f[p] : p \in Missing(master)}
       /\ Swap(WithShadows(master, f))
  /\ Finish("ok")
  /\ UNCHANGED <<running, rtVars>>

\* ~Restore without committed: the saved chains and the copy of the graph.
QuiescentRestore ==
  /\ \/ ctl \in {"captureDrain", "pasteDrain", "pasteEnsure"} /\ Fails
     \/ ctl = "captureIO" /\ UNCHANGED failures
  /\ master' = saved.config
  /\ graph' = saved.graph
  /\ \/ UNCHANGED refused
     \/ ctl = "pasteEnsure" /\ refused' = TRUE
  /\ \E result \in {"ok", "failed"} :
       /\ result = "ok" => ctl = "captureIO"
       /\ Finish(result)
  /\ UNCHANGED <<running, rtVars, stale>>

-----------------------------------------------------------------------------
(***************************************************************************)
(* stop and start.                                                         *)
(***************************************************************************)

\* stop, up to retire_graph
BeginStop ==
  /\ Idle
  /\ running' = FALSE
  /\ graph' = {}
  /\ Enter("stopDrain", "stop", None, NoSave)
  /\ UNCHANGED <<master, refused, rtVars, stale, failures>>

\* Both waits time out: the plugins stay initialised.
StopTimesOut ==
  /\ ctl = "stopDrain"
  /\ Fails
  /\ Finish("failed")
  /\ UNCHANGED <<master, graph, refused, running, rtVars, stale>>

Terminated ==
  /\ ctl = "terminate"
  /\ Finish("ok")
  /\ UNCHANGED <<master, graph, refused, running, rtVars, stale, failures>>

\* start: terminate and initialize of every plugin, then the graph, then the
\* device.
BeginStart ==
  /\ Idle
  /\ ~running
  /\ Enter("initialize", "start", None, NoSave)
  /\ UNCHANGED <<master, graph, refused, running, rtVars, stale, failures>>

StartDone ==
  /\ ctl = "initialize"
  /\ running' = TRUE
  /\ Swap(master)
  /\ Finish("ok")
  /\ UNCHANGED <<master, rtVars, stale>>

\* StartRollback calls stop.
StartFails ==
  /\ ctl = "initialize"
  /\ Fails
  /\ graph' = {}
  /\ Goto("stopDrain")
  /\ UNCHANGED <<master, refused, running, rtVars, stale>>

-----------------------------------------------------------------------------

Request ==
  \/ \E p \in Plugins :
       \/ BeginPreset("save", p) \/ BeginPreset("load", p)
       \/ BeginBypass(p) \/ BeginAdd(p)
       \/ BeginLatency(p) \/ BeginShadowLatency(p)
       \/ BeginCapture(p) \/ BeginPaste(p)
  \/ \E i \in DOMAIN master.chain : BeginRemove(i)
  \/ \E from, to \in DOMAIN master.chain : MovePlugin(from, to)
  \/ BeginStop
  \/ BeginStart

Step ==
  \/ Drained
  \/ PresetGivesUp \/ SaveDone
  \/ LoadAccepted \/ LoadRejected \/ LoadRolledBack
  \/ PrepareTimesOut \/ EnsureDone \/ EnsureFails
  \/ Commit \/ CommitRefused \/ PrepareFailed \/ SuspendRefused
  \/ RawEnsure
  \/ PasteInserts \/ PasteDone \/ QuiescentRestore
  \/ StopTimesOut \/ Terminated \/ StartDone \/ StartFails

Next == Request \/ Step \/ BlockBegins \/ BlockEnds

Spec == Init /\ [][Next]_vars

-----------------------------------------------------------------------------
(***************************************************************************)
(* Properties                                                              *)
(***************************************************************************)

\* The instances whose state or lifetime the control thread is working on.
Access ==
  CASE ctl \in {"saveIO", "captureIO"}          -> {target}
    [] ctl \in {"loadIO", "rollback"}           -> {target} \cup ShadowOf(master, target)
    [] ctl \in {"ensure", "rawEnsure", "pasteEnsure"} -> Missing(master)
    [] ctl \in {"initialize", "terminate"}      ->
         InChain(master) \cup UNION {ShadowOf(master, p) : p \in InChain(master)}
    [] OTHER                                    -> {}

\* "getState and RT process must not run concurrently (VST3 contract)": where the
\* engine arranges for it, neither the block in flight nor a later one calls an
\* instance that the control thread is working on.
QuiescentAccess ==
  \/ ctl \in {"saveIO", "loadIO", "captureIO", "pasteEnsure", "terminate"}
  \/ ctl = "ensure" /\ running
  => Access \cap (block \cup graph) = {}

\* Bypassing for an access, the safety graph, a failure at any point: once an
\* operation is over, callbacks run what the master says, unless the attempt to
\* publish it was refused.
PublishedIsMaster ==
  Idle /\ running /\ ~refused => graph = Uses(master)

\* An operation that reports failure has left no change in what the user asked
\* for: the chain and both bypass flags.
Intent(c) == <<c.chain, c.bypass, c.mbypass>>

FailureKeepsIntent ==
  [][~Idle /\ Idle' /\ outcome' = "failed" /\ op \notin {"start", "stop"}
       => Intent(master') = Intent(saved.config)]_vars

\* Two slots never share a shadow, and only a slot of the chain has one.
ShadowsAreOwned ==
  \A p, q \in Plugins :
    master.shadow[p] # None =>
      /\ p \in InChain(master)
      /\ master.shadow[p] = master.shadow[q] => p = q

\* load_preset: "setState and RT process must not run concurrently", in the
\* rollback too.
RollbackIsQuiescent == ctl = "rollback" => Access \cap block = {}

\* The same rule for the shadow captures of remove_plugin and of the rollbacks.
CaptureIsQuiescent == ctl = "rawEnsure" => Access \cap block = {}

\* stop: "terminate only once drained", in start too.
InitializeIsQuiescent == ctl = "initialize" => Access \cap block = {}

\* A slot whose monitor path diverges gets a shadow of its own on demand (when
\* nothing has failed).
DivergedSlotsHaveShadows ==
  Idle /\ running /\ failures = 0 => Missing(master) = {}

\* Shadows mirror the preset of their primary.
ShadowsMirrorState ==
  Idle => \A p \in Plugins : master.shadow[p] \notin stale
=============================================================================
