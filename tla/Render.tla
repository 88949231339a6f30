-------------------------------- MODULE Render --------------------------------
(***************************************************************************)
(* One audio block through a published graph (AudioEngine::process), when  *)
(* its delay lines have settled.                                           *)
(*                                                                         *)
(* A buffer holds a signal: the set of the paths that were summed into it. *)
(* A path is the input it comes from, the samples it is late, the plugins  *)
(* it went through, and the tracks whose gain was applied to it. Buffers   *)
(* are kept apart from the pointers to them, since process swaps pointers  *)
(* and lets the monitor path point into the primary path's buffers. What a *)
(* gain is, meters, mute and the telemetry change no path and are left     *)
(* out, the crossfade is over, and no parameter edit is pending.           *)
(***************************************************************************)
EXTENDS RoutePlan

Silence == {}
Origin(t) == {[from |-> t, late |-> 0, through |-> <<>>, faded |-> <<>>]}
Late(signal, n) == {[p EXCEPT !.late = @ + n] : p \in signal}
Faded(signal, t) == {[p EXCEPT !.faded = Append(@, t)] : p \in signal}
Through(signal, id, n) ==
    {[p EXCEPT !.late = @ + n, !.through = Append(@, id)] : p \in signal}

\* The pointers of a track: in is cur or monitor, out the buffer the next
\* plugin writes; val is what the buffers hold.
Pointers(bus) ==
    [primary |-> [in |-> "in", out |-> "alt"],
     monitor |-> [in |-> "monitor_in", out |-> "monitor_alt"],
     val |-> [b \in {"in", "alt", "dry", "monitor_in", "monitor_alt", "monitor_dry"} |->
                 IF b = "in" THEN bus.in
                 ELSE IF b = "monitor_in" THEN bus.monitor ELSE Silence]]
DryOf(path) == IF path = "primary" THEN "dry" ELSE "monitor_dry"

\* The dry buffer is cleared before the delay line reads its input: an input
\* that is the dry buffer itself is lost.
Delayed(val, path, in, n) ==
    [val EXCEPT ![DryOf(path)] = IF in = DryOf(path) THEN Silence ELSE Late(val[in], n)]

\* A plugin that fails leaves the delayed dry signal. n is its dry line, 0
\* for none. in and out are the path's pointers before the plugin.
Ran(r, path, in, out, s, latency, n, fails) ==
    IF fails
    THEN [r EXCEPT ![path].in = IF n = 0 THEN in ELSE DryOf(path)]
    ELSE [r EXCEPT !.val[out] = Through(r.val[in], s.id, latency),
                   ![path] = [in |-> out, out |-> in]]
Process(r, path, s, latency, n, fails) ==
    Ran(IF n = 0 THEN r ELSE [r EXCEPT !.val = Delayed(@, path, r[path].in, n)],
        path, r[path].in, r[path].out, s, latency, n, fails)

RunPath(r, path, action, s, latency, n, fails) ==
    IF action = "process" THEN Process(r, path, s, latency, n, fails)
    ELSE IF action = "delayDry" /\ n > 0
    THEN [r EXCEPT !.val = Delayed(@, path, r[path].in, n), ![path].in = DryOf(path)]
    ELSE r

\* Fault: the monitor path keeps its own buffer where it should share.
ReusePrimary_Not(r) == r
ReusePrimary(r) == [r EXCEPT !.monitor.in = r.primary.in]

RunMonitor(r, s, p, dry, failing) ==
    IF p.monitor = "reuse" THEN ReusePrimary(r)
    ELSE RunPath(r, "monitor", p.monitor, s, s.shadowLatency,
                 dry[<<s.id, "monitor">>], <<s.id, "monitor">> \in failing)
RunSlot(r, s, p, dry, failing) ==
    RunMonitor(RunPath(r, "primary", p.primary, s, s.latency,
                       dry[<<s.id, "primary">>], <<s.id, "primary">> \in failing),
               s, p, dry, failing)

\* The gain is applied in place: to the primary buffer, and when the paths
\* differ to the monitor's, were it the same one.
Gained(r, t, split) ==
    LET Gain(val, b) == [val EXCEPT ![b] = Faded(@, t)]
        once == Gain(r.val, r.primary.in)
    IN  IF split THEN Gain(once, r.monitor.in) ELSE once
Given(r, val, split) ==
    [primary |-> val[r.primary.in],
     monitor |-> val[IF split THEN r.monitor.in ELSE r.primary.in]]
Ended(r, t, split) == Given(r, Gained(r, t, split), split)
RunTrack(t, track, p, bus, dry, failing) ==
    LET start == IF IsSource(track)
                 THEN [bus EXCEPT !.in = Origin(t), !.monitor = Origin(t)] ELSE bus
    IN  Ended(FoldLeftDomain(LAMBDA q, i : RunSlot(q, track.chain[i], p.slots[i], dry, failing),
                             Pointers(start), track.chain),
              t, p.split)

Sends(bus, t, track, out, pdc) ==
    [d \in DOMAIN bus |->
        LET Pdc(aux) == LET e == [from |-> t, to |-> d, aux |-> aux]
                        IN  IF e \in DOMAIN pdc THEN pdc[e] ELSE 0
        IN  [in |-> bus[d].in \cup IF d \in track.dests THEN Late(out.primary, Pdc(FALSE))
                                                       ELSE Silence,
             monitor |-> bus[d].monitor \cup IF d \in track.dests THEN out.monitor
                                                                 ELSE Silence,
             sc |-> bus[d].sc \cup IF d \in track.sidechain
                                   THEN Late(out.primary, Pdc(TRUE)) ELSE Silence]]

\* Every track's buses as its plugins find them, and what it gives on.
After(b, t, track, out, pdc) ==
    [bus |-> Sends(b.bus, t, track, out, pdc), out |-> [b.out EXCEPT ![t] = out]]
Block(node, plan, pdc, dry, failing) ==
    FoldLeft(LAMBDA b, t :
                 After(b, t, node[t],
                       RunTrack(t, node[t], plan.tracks[t], b.bus[t], dry, failing), pdc),
             [bus |-> [t \in DOMAIN node |-> [in |-> Silence, monitor |-> Silence, sc |-> Silence]],
              out |-> [t \in DOMAIN node |-> [primary |-> Silence, monitor |-> Silence]]],
             plan.topo)

\* What an output track plays.
Sink(node, block, o) ==
    IF node[o].policy = "low" THEN block.out[o].monitor ELSE block.out[o].primary
=============================================================================
