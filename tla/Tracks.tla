-------------------------------- MODULE Tracks --------------------------------
(***************************************************************************)
(* The tracks of the audio engine, the commands that change them, and the  *)
(* graph the audio thread plays.                                           *)
(*                                                                         *)
(* node and order are tracks_ (by id, and its sequence); graph is what     *)
(* rt_graph_ points to, with its route plan; lines are the delays set in   *)
(* the shared delay lines (pdc_delay_states_, dry_delay_states_), which    *)
(* outlive a graph; nextId and nextSlot are next_track_id_ and             *)
(* next_instance_id_. A command runs under the engine mutex and is one     *)
(* action; what a reader may see half-way is GraphReclaim's and            *)
(* PluginQuiescence's subject, the plugin operations in detail are         *)
(* PluginQuiescence's too. Names, colours, gain, mute, sources and sinks   *)
(* take no part in the plan and are left out.                              *)
(*                                                                         *)
(* A slot's shadow is "none", "active" or "degraded"; its state (that of   *)
(* the primary instance) "active" or "suspended".                          *)
(***************************************************************************)
EXTENDS Render

CONSTANTS Sessions,              \* the tracks a session was loaded with
          Latencies,             \* what a plugin may report
          MaxTracks,             \* kMaxTracks
          MaxChain,              \* bound: plugins of a track
          FaultKinds, MaxFaults, \* what may go wrong, how often
          MaxOps                 \* bound: commands

VARIABLES node, order, nextId, nextSlot, graph, lines, reply, faults, ops
vars == <<node, order, nextId, nextSlot, graph, lines, reply, faults, ops>>

Kinds == {"audio", "fx", "output"}
Roles == {"none", "monitor", "stream"}
Ids == 1..(nextId - 1)
Slots(n) == UNION {{n[t].chain[i] : i \in DOMAIN n[t].chain} : t \in DOMAIN n}

Sound(n) ==
    \A t \in DOMAIN n :
        /\ n[t].dests \subseteq {d \in DOMAIN n \ {t} : ~IsSource(n[d])}
        /\ n[t].sidechain \subseteq {d \in DOMAIN n : n[d].kind = "fx"}
        /\ n[t].sidechain # {} => IsSource(n[t])

SystemRoles == {"monitor", "stream"}
Holders(n, role) == {t \in DOMAIN n : n[t].role = role}

IsTrack(t) ==
    /\ {"kind", "role", "policy", "dests", "sidechain", "chain"} = DOMAIN t
    /\ t.kind \in Kinds /\ t.role \in Roles /\ t.policy \in {"full", "low"}
    /\ t.chain \in Seq(Range(t.chain))
IsSlot(s) ==
    /\ {"id", "latency", "bypass", "monitorBypass", "state", "shadow", "shadowLatency"} = DOMAIN s
    /\ s.id \in Nat /\ s.latency \in Nat /\ s.shadowLatency \in Nat
    /\ s.state \in {"active", "suspended"}
    /\ s.shadow \in {"none", "active", "degraded"}
    /\ s.shadow = "none" => s.shadowLatency = 0
\* A plugin is addressed by its id, whatever the track.
IdsAreUnique(n) ==
    \A t, u \in DOMAIN n : \A i \in DOMAIN n[t].chain, j \in DOMAIN n[u].chain :
        n[t].chain[i].id = n[u].chain[j].id => t = u /\ i = j
Whole(n) ==
    /\ \A t \in DOMAIN n : IsTrack(n[t]) /\ \A i \in DOMAIN n[t].chain : IsSlot(n[t].chain[i])
    /\ IdsAreUnique(n)

ASSUME BoundsAssumption ==
    /\ MaxTracks \in Nat /\ MaxChain \in Nat /\ MaxFaults \in Nat /\ MaxOps \in Nat
    /\ Latencies \subseteq Nat

\* A session is restored by the commands below, and ends with
\* ensure_system_outputs when its file has tracks.
ASSUME SessionsAreRestored ==
    \A s \in Sessions :
        /\ s \in Seq(Range(s)) /\ Sound(s) /\ Loopless(s) /\ Whole(s)
        /\ \A q, r \in SystemRoles :
              Holders(s, q) # {} => \E t \in DOMAIN s : Holders(s, r) = {t}

TypeOK ==
    /\ nextId \in Nat /\ nextSlot \in Nat
    /\ DOMAIN node \subseteq Ids /\ Range(order) = DOMAIN node /\ IsInjective(order)
    /\ Whole(node) /\ \A s \in Slots(node) : s.id < nextSlot
    /\ faults \in 0..MaxFaults /\ ops \in 0..MaxOps
-----------------------------------------------------------------------------
(* Publication.                                                            *)
Edit(n, t, field, value) == [n EXCEPT ![t] = [n[t] EXCEPT ![field] = value]]

\* Fault: a released shadow leaves its latency behind.
Disposed_Late(s, plan) ==
    CASE plan = "create" -> [s EXCEPT !.shadow = "active", !.shadowLatency = s.latency]
      [] plan = "release" -> [s EXCEPT !.shadow = "none"]
      [] OTHER -> s
Disposed(s, plan) ==
    CASE plan = "create" -> [s EXCEPT !.shadow = "active", !.shadowLatency = s.latency]
      [] plan = "release" -> [s EXCEPT !.shadow = "none", !.shadowLatency = 0]
      [] OTHER -> s

\* ensure_monitor_shadows: creates what the plan lacks and releases what it
\* does not need; changes nothing when there is no plan.
DisposedBy(n, plan) ==
    IF ~plan.ok THEN n
    ELSE [t \in DOMAIN n |-> [n[t] EXCEPT !.chain = [i \in DOMAIN n[t].chain |->
             Disposed(n[t].chain[i], plan.tracks[t].slots[i].shadow)]]]
Ensured(n, o) == DisposedBy(n, PlanRoutes(n, o))

DryKeys(n) == {<<s.id, v>> : s \in Slots(n), v \in {"primary", "monitor"}}
SlotOf(n, id) == CHOOSE s \in Slots(n) : s.id = id
Held(n, id) == CHOOSE p \in (DOMAIN n) \X (1..MaxChain) :
                  p[2] \in DOMAIN n[p[1]].chain /\ n[p[1]].chain[p[2]].id = id
PlanAt(plan, p) == plan.tracks[p[1]].slots[p[2]]
DryDelay(n, plan, id, variant) ==
    IF PlanAt(plan, Held(n, id))[variant] # "process" THEN 0
    ELSE IF variant = "primary" THEN SlotOf(n, id).latency ELSE SlotOf(n, id).shadowLatency

\* A dry line is made for the latency it was first asked for and kept while
\* it is long enough; max 0 is no line. New lines are made with their delay;
\* the targets of lines in use are set once the graph is published, unless
\* that part is skipped.
DryLine(key, want, skipped) ==
    IF want = 0 THEN [delay |-> 0, max |-> 0]
    ELSE IF key \in DOMAIN lines.dry /\ lines.dry[key].max >= want
    THEN [lines.dry[key] EXCEPT !.delay = IF skipped THEN @ ELSE want]
    ELSE [delay |-> want, max |-> want]
LinesFor(n, plan, skipped) ==
    [pdc |-> [e \in DOMAIN plan.delays |->
                 IF skipped /\ e \in DOMAIN lines.pdc THEN lines.pdc[e] ELSE plan.delays[e]],
     dry |-> [k \in DryKeys(n) |-> DryLine(k, DryDelay(n, plan, k[1], k[2]), skipped)]]

Well == faults' = faults
Ill(f) == f \in FaultKinds /\ faults < MaxFaults /\ faults' = faults + 1

\* swap_graph: refused when there is no plan or an allocation fails. An
\* exception of retire or reap comes after the graph is published.
Publish(n, o, plan, skipped) ==
    /\ graph' = [node |-> n, order |-> o, plan |-> plan]
    /\ lines' = LinesFor(n, plan, skipped)
    /\ IF skipped THEN Ill("retire") ELSE Well
SwapPlanned(n, o, plan) ==
    \/ plan.ok /\ \E skipped \in BOOLEAN : Publish(n, o, plan, skipped)
    \/ UNCHANGED <<graph, lines>> /\ IF plan.ok THEN Ill("swap") ELSE Well
Swap(n, o) == SwapPlanned(n, o, PlanRoutes(n, o))

\* The swap of a rollback: without a plan the graph stays what it is.
RecoverPlanned(n, plan) ==
    IF plan.ok THEN /\ graph' = [node |-> n, order |-> order, plan |-> plan]
                    /\ lines' = LinesFor(n, plan, FALSE)
               ELSE UNCHANGED <<graph, lines>>
Recover(n) == node' = n /\ RecoverPlanned(n, PlanRoutes(n, order))

Answer(ok) == ops < MaxOps /\ reply' = ok /\ ops' = ops + 1
Refuse == Answer(FALSE) /\ Well /\ UNCHANGED <<node, order, nextId, nextSlot, graph, lines>>

\* The tracks as they were, with the shadows they have now.
WithShadows(old, now) ==
    [t \in DOMAIN old |-> [old[t] EXCEPT !.chain = [i \in DOMAIN old[t].chain |->
        [old[t].chain[i] EXCEPT !.shadow = now[t].chain[i].shadow,
                                !.shadowLatency = now[t].chain[i].shadowLatency]]]]

\* Fault: the rollback forgets the tracks.
RolledBack_Not(old, now) == now
RolledBack(old, now) == Ensured(WithShadows(old, now), order)

\* What the commands with a rollback share: shadows first, then the graph;
\* when either fails the old tracks are prepared and published again.
Accept(tried, plan) ==
    plan.ok /\ node' = tried /\ Answer(TRUE) /\ \E skipped \in BOOLEAN :
        Publish(tried, order, plan, skipped)
Reject(fits, fault) ==
    Answer(FALSE) /\ IF fits THEN Ill(fault) ELSE fault = "swap" /\ Well
AttemptPlanned(new, tried, plan) ==
    \/ Accept(tried, plan)
    \/ \E fault \in {"prepare", "swap"} :
          /\ Reject(plan.ok, fault)
          /\ Recover(RolledBack(node, IF fault = "prepare" THEN new ELSE tried))
AttemptEnsured(new, tried) == AttemptPlanned(new, tried, PlanRoutes(tried, order))
Attempt(new) == UNCHANGED <<order, nextId, nextSlot>> /\ AttemptEnsured(new, Ensured(new, order))
-----------------------------------------------------------------------------
\* After a session was loaded: its tracks by id, in order.
Loaded(n, o, plan) ==
    /\ node = n /\ order = o /\ nextId = 1 + Len(o)
    /\ nextSlot = 1 + Largest({s.id : s \in Slots(n)})
    /\ graph = [node |-> n, order |-> o, plan |-> plan]
    /\ lines = [pdc |-> plan.delays,
                dry |-> [k \in DryKeys(n) |->
                            [delay |-> DryDelay(n, plan, k[1], k[2]),
                             max |-> DryDelay(n, plan, k[1], k[2])]]]
    /\ reply = TRUE /\ faults = 0 /\ ops = 0
LoadedEnsured(n, o) == Loaded(n, o, PlanRoutes(n, o))
Init == \E session \in Sessions :
            LET ids == [i \in DOMAIN session |-> i]
            IN  LoadedEnsured(Ensured(session, ids), ids)

\* A command names a track that is there, or a slot of it; how many commands
\* there are is bounded, and by that the ids.
Tids == 1..(MaxTracks + 2 * MaxOps)
Addressed(t) == ops < MaxOps /\ t \in DOMAIN node
Plugged(t, i) == Addressed(t) /\ i \in DOMAIN node[t].chain

Fresh(kind) == [kind |-> kind, role |-> "none", policy |-> "full",
                dests |-> {}, sidechain |-> {}, chain |-> <<>>]

TrackAdd(kind) ==
    IF Len(order) >= MaxTracks THEN Refuse
    ELSE /\ ops < MaxOps
         /\ node' = [t \in DOMAIN node \cup {nextId} |->
                        IF t = nextId THEN Fresh(kind) ELSE node[t]]
         /\ order' = Append(order, nextId)
         /\ nextId' = nextId + 1 /\ UNCHANGED nextSlot
         /\ Swap(node', order') /\ Answer(TRUE)

Without(n, t) ==
    [s \in DOMAIN n \ {t} |-> [n[s] EXCEPT !.dests = @ \ {t}, !.sidechain = @ \ {t}]]

Erased(o, t) == RemoveAt(o, CHOOSE k \in DOMAIN o : o[k] = t)

TrackRemove(t) == Addressed(t) /\
    IF node[t].role # "none" THEN Refuse
    ELSE /\ order' = Erased(order, t)
         /\ node' = Ensured(Without(node, t), order')
         /\ UNCHANGED <<nextId, nextSlot>>
         /\ Swap(node', order') /\ Answer(TRUE)

SetPolicy(t, policy) ==
    Addressed(t) /\ IF node[t].kind # "output" THEN Refuse
    ELSE node[t].policy # policy /\ Attempt(Edit(node, t, "policy", policy))

\* Fault: any track may be a destination.
MayReceive_Any(t) == TRUE
MayReceive(t) == ~IsSource(t)

SetDests(t, dests) ==
    LET new == Edit(node, t, "dests", dests)
    IN  IF \/ t \in dests \/ \E d \in dests : ~MayReceive(node[d])
           \/ GraphHasCycle(new, order) THEN Refuse
        ELSE Attempt(new)

SetSidechain(t, sources) ==
    LET new == [s \in DOMAIN node |-> [node[s] EXCEPT !.sidechain =
                   IF s \in sources THEN @ \cup {t} ELSE @ \ {t}]]
    IN  IF \/ node[t].kind # "fx" \/ t \in sources
           \/ \E s \in sources : ~IsSource(node[s])
           \/ GraphHasCycle(new, order) THEN Refuse
        ELSE Attempt(new)

\* The interface adds or takes away one at a time.
Toggled(S, d) == IF d \in S THEN S \ {d} ELSE S \cup {d}
ToggleDest(t, d) == Addressed(t) /\ d \in DOMAIN node /\ SetDests(t, Toggled(node[t].dests, d))
ToggleSidechain(t, s) ==
    Addressed(t) /\ s \in DOMAIN node /\ SetSidechain(t, Toggled({r \in DOMAIN node : t \in node[r].sidechain}, s))

TrackMove(t, i) ==
    LET rest == Erased(order, t)
    IN  /\ Addressed(t) /\ i \in DOMAIN order /\ order[i] # t
        /\ order' = InsertAt(rest, i, t)
        /\ UNCHANGED <<node, nextId, nextSlot>>
        /\ Swap(node, order') /\ Answer(TRUE)

\* Fault: a track that already has a role is taken for the other one.
Candidates_Any(n) == {t \in DOMAIN n : n[t].kind = "output"}
Candidates(n) == {t \in DOMAIN n : n[t].kind = "output" /\ n[t].role = "none"}
PolicyOf(role) == IF role = "monitor" THEN "low" ELSE "full"

\* One role: later holders lose it, a free output gets it, or a new track.
EnsureRole(s, role) ==
    LET holders == {i \in DOMAIN s.order : s.node[s.order[i]].role = role}
        free == {i \in DOMAIN s.order : s.order[i] \in Candidates(s.node)}
        Give(n, t, r) == [n EXCEPT ![t].role = r,
                                   ![t].policy = IF r = "none" THEN "full" ELSE PolicyOf(r)]
    IN  IF holders # {}
        THEN [s EXCEPT !.node = [t \in DOMAIN s.node |->
                 IF \E i \in holders \ {Min(holders)} : s.order[i] = t
                 THEN Give(s.node, t, "none")[t] ELSE s.node[t]]]
        ELSE IF free # {} THEN [s EXCEPT !.node = Give(@, s.order[Min(free)], role)]
        ELSE [node |-> [t \in DOMAIN s.node \cup {s.nextId} |->
                 IF t = s.nextId
                 THEN [Fresh("output") EXCEPT !.role = role, !.policy = PolicyOf(role)]
                 ELSE s.node[t]],
              order |-> Append(s.order, s.nextId), nextId |-> s.nextId + 1]

SystemOutputs(s) == EnsureRole(EnsureRole(s, "monitor"), "stream")

EnsureSystemOutputs == ops < MaxOps /\
    \E new \in {SystemOutputs([node |-> node, order |-> order, nextId |-> nextId])} :
        /\ new.node # node
        /\ node' = new.node /\ order' = new.order /\ nextId' = new.nextId /\ UNCHANGED nextSlot
        /\ Swap(new.node, new.order) /\ Answer(TRUE)

\* Name, colour, gain and mute: the tracks as they are, published again.
TrackSet == Answer(TRUE) /\ UNCHANGED <<node, order, nextId, nextSlot>> /\ Swap(node, order)
-----------------------------------------------------------------------------
(* Plugins, as far as they change the plan.                                *)
NewSlot(latency) ==
    [id |-> nextSlot, latency |-> latency, bypass |-> FALSE, monitorBypass |-> FALSE,
     state |-> "active", shadow |-> "none", shadowLatency |-> 0]

\* Refused at once, the chain only loses the new slot; refused by the swap,
\* the shadows are prepared again.
Popped(n, t) == [n EXCEPT ![t].chain = Front(@)]
AddEnsured(t, new, tried, plan) ==
    \/ Accept(tried, plan)
    \/ \E fault \in {"prepare", "swap"} :
          /\ Reject(plan.ok, fault)
          /\ Recover(IF fault = "prepare" \/ tried = new THEN Popped(new, t)
                     ELSE Ensured(Popped(tried, t), order))
AddTried(t, new, tried) == AddEnsured(t, new, tried, PlanRoutes(tried, order))
AddPlugin(t, latency) ==
    LET new == [node EXCEPT ![t].chain = Append(@, NewSlot(latency))]
    IN  /\ Addressed(t) /\ Len(node[t].chain) < MaxChain
        /\ nextSlot' = nextSlot + 1 /\ UNCHANGED <<order, nextId>>
        /\ AddTried(t, new, Ensured(new, order))

\* Fault: the graph is planned before the shadows are released.
RemovePlugin_Late(t, i) ==
    LET new == [node EXCEPT ![t].chain = RemoveAt(@, i)]
    IN  /\ Plugged(t, i)
        /\ node' = Ensured(new, order) /\ UNCHANGED <<order, nextId, nextSlot>>
        /\ Swap(new, order) /\ Answer(TRUE)
RemovePlugin(t, i) ==
    /\ Plugged(t, i)
    /\ node' = Ensured([node EXCEPT ![t].chain = RemoveAt(@, i)], order)
    /\ UNCHANGED <<order, nextId, nextSlot>>
    /\ Swap(node', order) /\ Answer(TRUE)

\* Shadows are not prepared here.
MovePlugin(t, i, j) ==
    /\ Plugged(t, i) /\ Plugged(t, j) /\ i # j
    /\ node' = [node EXCEPT ![t].chain = InsertAt(RemoveAt(@, i), j, @[i])]
    /\ UNCHANGED <<order, nextId, nextSlot>>
    /\ Swap(node', order) /\ Answer(TRUE)

Flipped(slot, flag) == [slot EXCEPT ![flag] = ~@]
CommitBypassFlag(t, i, flag) ==
    Plugged(t, i) /\ Attempt([node EXCEPT ![t].chain[i] = Flipped(@, flag)])

\* A notice of latency: the first state with a plan is published; tried also
\* gives way to the next when its swap fails.
SettlePlanned(tried, plan, held, back) ==
    /\ UNCHANGED <<order, nextId, nextSlot>> /\ Answer(TRUE)
    /\ \/ plan.ok /\ node' = tried /\ \E skipped \in BOOLEAN :
              Publish(tried, order, plan, skipped)
       \/ /\ IF plan.ok THEN Ill("swap") ELSE Well
          /\ Recover(IF PlanRoutes(held, order).ok THEN held ELSE back)
Settle(tried, held, back) == SettlePlanned(tried, PlanRoutes(tried, order), held, back)

\* The plugin processes again with its new latency, or is suspended when that
\* is beyond the limits, or, beyond them even so, is as it was.
PrimarySettles(tried, t, i, slot) ==
    Settle(tried, [tried EXCEPT ![t].chain[i].state = "suspended"],
           [tried EXCEPT ![t].chain[i] = [@ EXCEPT !.latency = slot.latency,
                                                   !.state = slot.state]])
PrimaryLatencyChanged(t, i, latency) ==
    LET slot == node[t].chain[i]
    IN  /\ Plugged(t, i) /\ slot.latency # latency
        /\ PrimarySettles(Ensured([node EXCEPT ![t].chain[i] = [@ EXCEPT !.latency = latency,
                                                                 !.state = "active"]], order),
                          t, i, slot)

\* The shadow reports: beyond the limits only the monitor path goes dry. A
\* shadow released on the way is not degraded but gone.
Degraded(n, t, i) ==
    [n EXCEPT ![t].chain[i].shadow = IF @ = "none" THEN @ ELSE "degraded"]
ShadowSettles(tried, t, i, slot) == Settle(tried, Degraded(tried, t, i), [tried EXCEPT ![t].chain[i] = slot])
ShadowPrepared(seen, plan, t, i, slot) ==
    ShadowSettles(IF plan.ok THEN DisposedBy(seen, plan) ELSE Degraded(seen, t, i), t, i, slot)
ShadowLatencyChanged(t, i, latency) ==
    LET slot == node[t].chain[i]
        seen == [node EXCEPT ![t].chain[i] =
                    [@ EXCEPT !.shadowLatency = latency, !.shadow = "active"]]
    IN  /\ Plugged(t, i) /\ slot.shadow # "none" /\ slot.shadowLatency # latency
        /\ ShadowPrepared(seen, PlanRoutes(seen, order), t, i, slot)
-----------------------------------------------------------------------------
Next ==
    \/ \E kind \in Kinds : TrackAdd(kind)
    \/ \E t \in Tids : TrackRemove(t)
    \/ \E t \in Tids, policy \in {"full", "low"} : SetPolicy(t, policy)
    \/ \E t, d \in Tids : ToggleDest(t, d)
    \/ \E t, s \in Tids : ToggleSidechain(t, s)
    \/ \E t, i \in Tids : TrackMove(t, i)
    \/ \E t \in Tids, l \in Latencies : AddPlugin(t, l)
    \/ \E t \in Tids, i \in 1..MaxChain : RemovePlugin(t, i)
    \/ \E t \in Tids, i, j \in 1..MaxChain : MovePlugin(t, i, j)
    \/ \E t \in Tids, i \in 1..MaxChain, flag \in {"bypass", "monitorBypass"} :
          CommitBypassFlag(t, i, flag)
    \/ \E t \in Tids, i \in 1..MaxChain, l \in Latencies : PrimaryLatencyChanged(t, i, l)
    \/ \E t \in Tids, i \in 1..MaxChain, l \in Latencies : ShadowLatencyChanged(t, i, l)
    \/ EnsureSystemOutputs
    \/ TrackSet

Spec == Init /\ [][Next]_vars
-----------------------------------------------------------------------------
(* Sends go to tracks that are there and have an input bus, sidechains from *)
(* inputs to effects.                                                      *)
SendsAreSound == Sound(node)

(* No signal comes back to its track, by sends or sidechains, and the walk *)
(* of the planner, which orders the tracks, comes to all of them.          *)
RoutesAreSound == SendsAreSound /\ Loopless(node) /\ ~GraphHasCycle(node, order)

(* As long as nothing failed, the audio thread plays the tracks as they    *)
(* are, through every rollback, or they are beyond the planner's limits.   *)
GraphFollowsTracks ==
    faults = 0 => \/ graph.node = node /\ graph.order = order
                  \/ ~PlanRoutes(node, order).ok

(* docs/plugin-latency-pdc-design.md:37: a change by the user that would   *)
(* exceed a limit fails, and leaves everything as it was; a plugin that    *)
(* does so while it runs is suspended (:47).                               *)
TracksAreWithinLimits == faults = 0 => PlanRoutes(node, order).ok

Chain(t, Keeps(_)) == FoldLeft(LAMBDA ids, s : IF Keeps(s) THEN Append(ids, s.id) ELSE ids, <<>>, t.chain)

(* Reference: the ways from the inputs to each track, each with the         *)
(* plugins and the tracks on it.                                           *)
Ways(n, topo, Keeps(_)) ==
    FoldLeft(LAMBDA w, t : [w EXCEPT ![t] =
                 {[v EXCEPT !.through = @ \o Chain(n[t], Keeps), !.faded = Append(@, t)] :
                     v \in IF IsSource(n[t]) THEN {[from |-> t, through |-> <<>>, faded |-> <<>>]}
                           ELSE UNION {w[s] : s \in {r \in DOMAIN n : t \in n[r].dests}}}],
             [t \in DOMAIN n |-> {}], topo)
Carries(signal) == {[from |-> p.from, through |-> p.through, faded |-> p.faded] : p \in signal}
DryDelays == [k \in DOMAIN lines.dry |-> lines.dry[k].delay]
Heard(failing) == Block(graph.node, graph.plan, lines.pdc, DryDelays, failing)

(* The delay lines in use are set to what the published plan says.         *)
LinesFollowPlan == lines.pdc = graph.plan.delays

\* Behind a slot that both paths share, two plugins run in the primary path
\* alone: it writes the buffer the monitor path is still in, or both are in one.
Entangled(slots) == \E i, j, k \in DOMAIN slots :
    /\ i < j /\ j < k
    /\ slots[i].monitor = "reuse"
    /\ \A m \in {j, k} : slots[m].primary = "process" /\ slots[m].monitor \in {"dry", "drain"}

(* A full-PDC output plays every way to it, through every plugin in force, *)
(* all late by the total its plan reports; and wherever a full-PDC output  *)
(* listens, sends and sidechains arrive together. Unless a chain's paths   *)
(* are entangled: process has no copy that would keep them apart.          *)
PlaysWays(b, o, ways) ==
    /\ Carries(Sink(graph.node, b, o)) = ways[o]
    /\ \A p \in Sink(graph.node, b, o) : p.late = graph.plan.total[o]
Aligned(b, full, ways) ==
    /\ \A o \in full : PlaysWays(b, o, ways)
    /\ \A t \in ReverseReach(graph.node, graph.plan.topo, full) :
          \A p, q \in b.bus[t].in \cup b.bus[t].sc : p.late = q.late
WaysOf(Keeps(_)) == Ways(graph.node, graph.plan.topo, Keeps)
FullOutputsAreAligned ==
    LinesFollowPlan /\ (\A t \in DOMAIN graph.node : ~Entangled(graph.plan.tracks[t].slots))
    => Aligned(Heard({}), OutputsOf(graph.node, "full"), WaysOf(PrimaryProcesses))

(* docs/plugin-latency-pdc-design.md:17: a bypass for the monitor affects   *)
(* only low-latency outputs, also when the paths part in the middle of a   *)
(* chain.                                                                  *)
StreamIsUndisturbed ==
    LinesFollowPlan =>
        Aligned(Heard({}), OutputsOf(graph.node, "full"), WaysOf(PrimaryProcesses))

(* A low-latency output plays every way to it without the plugins bypassed *)
(* for it, late by nothing but the plugins on the way.                     *)
LatencyOf(n, way) == FoldLeft(LAMBDA sum, id : sum + SlotOf(n, id).latency, 0, way)
Plays(s) == PrimaryProcesses(s) /\ ~s.monitorBypass
\* Every shadow the plan wants is there, works, and reports what its primary does.
Mirrored ==
    /\ \A s \in Slots(graph.node) :
          s.shadow = "none" \/ (s.shadow = "active" /\ s.shadowLatency = s.latency)
    /\ \A t \in DOMAIN graph.node : \A i \in DOMAIN graph.node[t].chain :
          graph.plan.tracks[t].slots[i].shadow # "create"
PlaysAtOnce(b, ways) ==
    \A o \in OutputsOf(graph.node, "low") :
        /\ Carries(Sink(graph.node, b, o)) = ways[o]
        /\ \A p \in Sink(graph.node, b, o) : p.late = LatencyOf(graph.node, p.through)
\* The monitor path was left in a buffer of the primary path, which a later
\* plugin writes: process has no copy to keep it.
Overwritten(slots) == \E i, j, k \in DOMAIN slots :
    /\ i < j /\ j < k
    /\ slots[i].monitor = "reuse" /\ slots[j].monitor # "reuse"
    /\ slots[j].primary = "process" /\ slots[k].primary = "process"
LowOutputsHearTheirPlugins ==
    LinesFollowPlan /\ Mirrored
        /\ (\A t \in DOMAIN graph.node : ~Overwritten(graph.plan.tracks[t].slots))
    => PlaysAtOnce(Heard({}), WaysOf(Plays))

(* And so it does when the paths part in the middle of a chain: bypassing a *)
(* plugin for the monitor changes what low-latency outputs hear by that      *)
(* plugin and nothing else.                                                *)
MonitorIsUndisturbed == LinesFollowPlan /\ Mirrored => PlaysAtOnce(Heard({}), WaysOf(Plays))

(* Whichever plugin fails, its dry signal keeps the way and the delay: a    *)
(* full-PDC output loses nothing but that plugin.                          *)
KeepsWays(b, ways) == \A o \in OutputsOf(graph.node, "full") : PlaysWays(b, o, ways)
FailureKeepsTheWay ==
    \A s \in Slots(graph.node) :
        LET Kept(r) == PrimaryProcesses(r) /\ r.id # s.id
        IN  KeepsWays(Heard({<<s.id, "primary">>}), WaysOf(Kept))

(* While the plugins are suspended their delays are kept.                  *)
Safety == Block(graph.node, PlanRouteSuspension(graph.plan), lines.pdc, DryDelays, {})
SuspensionKeepsTheWay == LET Nothing(s) == FALSE IN KeepsWays(Safety, WaysOf(Nothing))

(* A track's gain is applied once, also while its plugins are suspended.   *)
FadedOnce(b) ==
    \A o \in Outputs(graph.node) : \A p \in Sink(graph.node, b, o) : IsInjective(p.faded)
SuspensionKeepsTheGain == FadedOnce(Safety)

(* The total a low-latency output reports is that of the latest way it      *)
(* plays.                                                                  *)
TotalIsHeard ==
    Mirrored =>
        \A o \in OutputsOf(graph.node, "low") :
            graph.plan.total[o] = Largest({p.late : p \in Sink(graph.node, Heard({}), o)})

(* The compensation an output reports is the longest that was inserted in  *)
(* a way it plays.                                                         *)
CompensationIsHeard ==
    \A o \in OutputsOf(graph.node, "full") : graph.plan.compensation[o] =
        Largest({p.late - LatencyOf(graph.node, p.through) : p \in Sink(graph.node, Heard({}), o)})

(* At most kMaxTracks tracks.                                              *)
TracksAreLimited == Len(order) <= MaxTracks

(* A command that is refused leaves the tracks as they were.               *)
Plain(s) == [s EXCEPT !.shadow = "none", !.shadowLatency = 0]
Intent(n) == [t \in DOMAIN n |-> [n[t] EXCEPT !.chain =
                 [i \in DOMAIN n[t].chain |-> Plain(n[t].chain[i])]]]
RefusalsKeepTracks ==
    [][ops' # ops /\ ~reply' => Intent(node') = Intent(node) /\ order' = order]_vars

(* As soon as one system output is there both are, one of each, and they   *)
(* stay: removing is refused, and a new role never takes the other's track. *)
OneOfEach(old, new) ==
    \A q, r \in SystemRoles :
        Holders(old, q) \cup Holders(new, q) # {} => Cardinality(Holders(new, r)) = 1
SystemOutputsStay == [][OneOfEach(node, node')]_vars
=============================================================================
