------------------------------- MODULE MCTracks -------------------------------
(***************************************************************************)
(* A new engine, sessions with two inputs, an effect and the two system    *)
(* outputs, and one of a single input.                                     *)
(***************************************************************************)
EXTENDS Tracks

Slot(id, latency, monitorBypass) ==
    [id |-> id, latency |-> latency, bypass |-> FALSE, monitorBypass |-> monitorBypass,
     state |-> "active", shadow |-> "none", shadowLatency |-> 0]
Track(kind, role, dests, sidechain, chain) ==
    [kind |-> kind, role |-> role, policy |-> IF role = "monitor" THEN "low" ELSE "full",
     dests |-> dests, sidechain |-> sidechain, chain |-> chain]
Monitor == Track("output", "monitor", {}, {}, <<>>)
Stream == Track("output", "stream", {}, {}, <<>>)

\* One input to both, with a plugin bypassed for the monitor between two.
Parted == <<Track("audio", "none", {2, 3}, {},
                  <<Slot(1, 1, FALSE), Slot(2, 0, TRUE), Slot(3, 1, FALSE)>>), Monitor, Stream>>

\* The second input is late, and drives the effect or the stream beside it.
MCSessions ==
    {<<>>,
     <<Track("audio", "none", {3}, {}, <<Slot(1, 1, FALSE)>>),
       Track("audio", "none", {4}, {3}, <<>>),
       Track("fx", "none", {4, 5}, {}, <<Slot(2, 2, FALSE)>>), Monitor, Stream>>,
     <<Track("audio", "none", {3, 5}, {}, <<>>),
       Track("audio", "none", {3}, {}, <<Slot(1, 1, FALSE)>>),
       Track("fx", "none", {4, 5}, {}, <<Slot(2, 1, FALSE), Slot(3, 0, TRUE)>>), Monitor, Stream>>,
     Parted}

\* One input that only the monitor hears, with a plugin bypassed for it.
MCMonitored ==
    {<<Track("audio", "none", {2}, {}, <<Slot(1, 0, TRUE), Slot(2, 1, FALSE)>>), Monitor, Stream>>}
=============================================================================
