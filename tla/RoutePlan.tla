------------------------------ MODULE RoutePlan -------------------------------
(***************************************************************************)
(* The planner of RoudaMix: from the tracks and their plugin chains, the   *)
(* delay of every edge and what each path does with each plugin.           *)
(*                                                                         *)
(*   build_topo, reverse_reach   order and reachability, dest and          *)
(*                               sidechain edges alike                     *)
(*   plan_plugin_delay           a delay for each edge into a summing      *)
(*                               point that some full-PDC output hears,    *)
(*                               and the total of each output              *)
(*   plan_routes                 primary and monitor action of each slot   *)
(*                                                                         *)
(* node is the engine's tracks_ by id, order its sequence of ids. A track  *)
(* has a source of its own iff it is an input (kind "audio"). The sums are *)
(* of at most 128 tracks of 64 plugins with 32-bit latencies and cannot    *)
(* overflow 64 bits.                                                       *)
(***************************************************************************)
EXTENDS Naturals, Sequences, FiniteSets, SequencesExt, FiniteSetsExt

CONSTANTS MaxPath,      \* max_path_samples, two seconds
          MaxBuffers    \* max_buffer_bytes, in delay lines

ASSUME LimitsAssumption == MaxPath \in Nat /\ MaxBuffers \in Nat

Largest(S) == Max(S \cup {0})
IsSource(t) == t.kind = "audio"
UsesInputBus(t) == ~IsSource(t)
-----------------------------------------------------------------------------
(* Edges and order.                                                        *)
Edges(node) ==
    {e \in [from : DOMAIN node, to : DOMAIN node, aux : BOOLEAN] :
        e.to \in IF e.aux THEN node[e.from].sidechain ELSE node[e.from].dests}
Targets(t) == t.dests \cup t.sidechain
Into(node, t) == {s \in DOMAIN node : t \in Targets(node[s])}
\* The i-th element has i - 1 below it.
Sorted(S) == [i \in 1..Cardinality(S) |->
                 CHOOSE x \in S : Cardinality({y \in S : y < x}) = i - 1]

\* The tracks whose last edge comes from q[k]: dests are walked first.
Opened(node, q, k) ==
    LET t == node[q[k]]
        now == {d \in Targets(t) : Into(node, d) \subseteq {q[i] : i \in 1..k}}
    IN  Sorted(now \ t.sidechain) \o Sorted(now \cap t.sidechain)

\* Kahn's walk; shorter than order iff there is a cycle.
Sources(node, order) ==
    LET at == Sorted({i \in DOMAIN order : Into(node, order[i]) = {}})
    IN  [j \in DOMAIN at |-> order[at[j]]]
Advanced(node, q, k) == IF k > Len(q) THEN q ELSE q \o Opened(node, q, k)
TopoOrder(node, order) ==
    LET walk[k \in Nat] == IF k = 0 THEN Sources(node, order)
                           ELSE Advanced(node, walk[k - 1], k)
    IN  walk[Len(order)]

GraphHasCycle(node, order) == Len(TopoOrder(node, order)) # Len(order)

\* Reference: among any tracks one gets nothing from the others or itself.
Loopless(node) ==
    \A S \in SUBSET DOMAIN node : S # {} => \E t \in S : Into(node, t) \cap S = {}

\* Fault: a track reaches what its neighbour is, not what it reaches.
ReverseReach_Near(node, topo, seeds) ==
    seeds \cup {t \in DOMAIN node : Targets(node[t]) \cap seeds # {}}
ReverseReach(node, topo, seeds) ==
    FoldRight(LAMBDA t, reach : IF Targets(node[t]) \cap reach # {}
                                THEN reach \cup {t} ELSE reach,
              topo, seeds)

Outputs(node) == {t \in DOMAIN node : node[t].kind = "output"}
OutputsOf(node, policy) == {t \in Outputs(node) : node[t].policy = policy}
-----------------------------------------------------------------------------
(* plan_plugin_delay. own is a track's latency on the path in question.    *)
Accumulated(node, topo, own) ==
    FoldLeft(LAMBDA acc, t : [acc EXCEPT ![t] =
                 own[t] + Largest({acc[s] : s \in Into(node, t)})],
             [t \in DOMAIN node |-> 0], topo)

Merges(node, topo) ==
    {t \in ReverseReach(node, topo, OutputsOf(node, "full")) :
        Cardinality({e \in Edges(node) : e.to = t}) > 1}

EdgeDelays(node, topo, path) ==
    LET merges == Merges(node, topo)
    IN  [e \in {f \in Edges(node) : f.to \in merges} |->
            Largest({path[s] : s \in Into(node, e.to)}) - path[e.from]]

\* Each entry of incoming emits every edge between the two tracks, so a pair
\* with a dest and a sidechain edge is counted four times.
BuffersOf(node, delays) ==
    Cardinality({p \in (DOMAIN delays) \X (DOMAIN delays) :
                    p[1].from = p[2].from /\ p[1].to = p[2].to})

Compensation(node, topo, path) ==
    LET reach == ReverseReach(node, topo, OutputsOf(node, "full"))
        Local(s, t) == IF t \in reach
                       THEN Largest({path[r] : r \in Into(node, t)}) - path[s] ELSE 0
    IN  FoldLeft(LAMBDA acc, t : [acc EXCEPT ![t] =
                     Largest({acc[s] + Local(s, t) : s \in Into(node, t)})],
                 [t \in DOMAIN node |-> 0], topo)

\* path is what the primary buses add up to, heard what the monitor buses do.
PlanPluginDelay(node, topo, path, heard, delays) ==
    LET Total(o) == IF node[o].policy = "full" THEN path[o] ELSE heard[o]
    IN  [ok |-> /\ Len(topo) = Cardinality(DOMAIN node)
                /\ BuffersOf(node, delays) <= MaxBuffers
                /\ \A o \in Outputs(node) : Total(o) <= MaxPath,
         delays |-> delays, total |-> [o \in Outputs(node) |-> Total(o)],
         compensation |-> Compensation(node, topo, path)]
-----------------------------------------------------------------------------
(* plan_routes.                                                            *)
PrimaryProcesses(s) == ~s.bypass /\ s.state # "suspended"
PrimaryLatency(s) == IF PrimaryProcesses(s) THEN s.latency ELSE 0
ChainLatency(chain) == FoldLeft(LAMBDA n, s : n + PrimaryLatency(s), 0, chain)

PrimaryAction(s) == IF PrimaryProcesses(s) THEN "process"
                    ELSE IF s.bypass THEN "dry" ELSE "drain"

\* required: the track reaches a low-latency output; split: its monitor
\* signal differs from the primary one, before this slot.
MonitorAction(s, required, split) ==
    IF ~required THEN "reuse"
    ELSE IF ~PrimaryProcesses(s) THEN IF split THEN "dry" ELSE "reuse"
    ELSE IF ~split /\ ~s.monitorBypass THEN "reuse"
    ELSE IF s.monitorBypass \/ s.shadow = "none" THEN "dry"
    ELSE IF s.shadow = "active" THEN "process" ELSE "drain"

Splits(s, required) == required /\ PrimaryProcesses(s) /\ s.monitorBypass

ShadowPlan(s, required, split) ==
    IF required /\ PrimaryProcesses(s) /\ split /\ ~s.monitorBypass
    THEN IF s.shadow = "none" THEN "create" ELSE "reuse"
    ELSE IF s.shadow = "none" THEN "none" ELSE "release"

MonitorLatency(s, required, action) ==
    IF ~required \/ ~PrimaryProcesses(s) THEN 0
    ELSE IF action = "reuse" THEN s.latency
    ELSE IF action = "process" THEN s.shadowLatency ELSE 0

\* One slot after the other; split is carried from slot to slot.
PlanChain(chain, required, before) ==
    FoldLeft(LAMBDA p, s :
                 LET action == MonitorAction(s, required, p.split)
                 IN  [slots |-> Append(p.slots,
                          [primary |-> PrimaryAction(s), monitor |-> action,
                           shadow |-> ShadowPlan(s, required, p.split)]),
                      split |-> p.split \/ Splits(s, required),
                      latency |-> p.latency + MonitorLatency(s, required, action)],
             [slots |-> <<>>, split |-> before, latency |-> 0], chain)

\* The tracks in order; split collects those whose input has diverged.
PlanTracks(node, topo, delays) ==
    LET low == ReverseReach(node, topo, OutputsOf(node, "low"))
        Diverts(t, d, p) ==
            LET e == [from |-> t, to |-> d, aux |-> FALSE]
            IN  /\ d \in low /\ UsesInputBus(node[d])
                /\ p.split \/ (e \in DOMAIN delays /\ delays[e] > 0)
    IN  FoldLeft(LAMBDA acc, t :
            LET p == PlanChain(node[t].chain, t \in low,
                               t \in low /\ UsesInputBus(node[t]) /\ t \in acc.split)
            IN  [split |-> acc.split \cup {d \in node[t].dests : Diverts(t, d, p)},
                 plan |-> [acc.plan EXCEPT ![t] = p]],
            [split |-> {}, plan |-> [t \in DOMAIN node |-> PlanChain(<<>>, FALSE, FALSE)]],
            topo).plan

\* The slots depend on the delays of the full-PDC edges, and the totals of
\* the low-latency outputs on the slots: the planner runs twice, and its first
\* result differs from the second in those totals only.
PlanSlots(node, topo, path, delays, tracks) ==
    LET pdc == PlanPluginDelay(node, topo, path,
                   Accumulated(node, topo, [t \in DOMAIN node |-> tracks[t].latency]), delays)
    IN  [ok |-> pdc.ok, delays |-> pdc.delays, total |-> pdc.total,
         compensation |-> pdc.compensation, topo |-> topo, tracks |-> tracks]
PlanPaths(node, topo, path) ==
    LET delays == EdgeDelays(node, topo, path)
    IN  PlanSlots(node, topo, path, delays, PlanTracks(node, topo, delays))
PlanRoutes(node, order) ==
    LET topo == TopoOrder(node, order)
    IN  PlanPaths(node, topo,
                  Accumulated(node, topo, [t \in DOMAIN node |-> ChainLatency(node[t].chain)]))

\* plan_route_suspension: what processed is delayed, the rest is dry.
Suspended(action) == IF action = "process" THEN "delayDry"
                     ELSE IF action = "reuse" THEN "reuse" ELSE "dry"
PlanRouteSuspension(plan) ==
    [plan EXCEPT !.tracks = [t \in DOMAIN plan.tracks |->
        [plan.tracks[t] EXCEPT !.slots = [i \in DOMAIN plan.tracks[t].slots |->
            [plan.tracks[t].slots[i] EXCEPT !.primary = Suspended(@),
                                            !.monitor = Suspended(@)]]]]]
=============================================================================
