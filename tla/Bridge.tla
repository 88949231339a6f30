------------------------------ MODULE Bridge ------------------------------
(***************************************************************************)
(* The bridge of the user interface to the engine: the connection loop     *)
(* (run, serve, set_disconnected), the commands in flight (send and the    *)
(* pending map), the spawning of engines by the loop and by the retry      *)
(* button, and the user interface's guess that an engine was replaced.     *)
(*                                                                         *)
(* The engine process is the environment: at most one runs, it starts,     *)
(* listens, answers, may close the connection, stop reading it, or die.    *)
(***************************************************************************)
EXTENDS Naturals

CONSTANTS
  Sends,         \* commands the interface issues, once each
  MaxDeaths, MaxBreaks, MaxStalls, MaxMutations, MaxIdle, MaxFails, MaxRetries  \* bounds

ASSUME BoundsAssumption ==
  {MaxDeaths, MaxBreaks, MaxStalls, MaxMutations, MaxIdle, MaxFails, MaxRetries}
    \subseteq Nat

VARIABLES
  (* the engine process *)
  engine,    \* what it is doing
  proc,      \* which process it is, counted from 1
  epoch,     \* its epoch
  greeting,  \* the epoch in the snapshot it sent when it was connected
  asked,     \* commands of this connection it has yet to answer
  (* run and serve *)
  runner,    \* where the loop is
  conn,      \* which connection it has, or had last
  runNote,   \* boot_gen as the loop's fetch_add returned it
  (* respawn *)
  retry,     \* where the task of the retry button is
  retryNote,
  (* Inner *)
  state,     \* SharedState
  bootGen,   \* boot_gen
  writer,    \* the connection of the write half; 0 when there is none
  pending,   \* the keys of PendingMap
  (* send *)
  at,        \* where each command is
  over,      \* the connection it was written to
  late,      \* the connection on which a write timed out last
  (* the interface *)
  ui,
  count

engineVars == <<engine, proc, epoch, greeting, asked>>
runVars    == <<runner, conn, runNote>>
retryVars  == <<retry, retryNote>>
innerVars  == <<state, bootGen, writer, pending>>
sendVars   == <<at, over, late>>
vars == <<engineVars, runVars, retryVars, innerVars, sendVars, ui, count>>

Procs == 0 .. (MaxDeaths + 1)
Boots == 0 .. (MaxDeaths + 1 + MaxIdle)
Conns == 0 .. (MaxDeaths + MaxBreaks + 1)
Phases == {"connecting", "spawning", "connected", "spawn_failed", "disconnected"}
Ended  == {"ok", "disconnected", "not_connected", "timeout"}

TypeOK ==
  /\ engine \in {"none", "starting", "listening", "serving", "stuck"}
  /\ proc \in Procs /\ asked \in SUBSET Sends
  /\ epoch \in 0 .. MaxMutations /\ greeting \in 0 .. MaxMutations
  /\ runner \in {"open", "spawn", "note", "store", "hello", "writer", "serve", "clear",
                 "fail"}
  /\ conn \in Conns /\ runNote \in Boots
  /\ retry \in {"idle", "asked", "spawn", "note", "store"} /\ retryNote \in Boots
  /\ state \in [connected : BOOLEAN, phase : Phases, epoch : 0 .. MaxMutations,
                boot : Boots]
  /\ bootGen \in Boots /\ writer \in Conns /\ pending \in SUBSET Sends
  /\ at \in [Sends -> {"new", "write", "wait"} \cup Ended]
  /\ over \in [Sends -> Conns] /\ late \in Conns
  /\ ui \in [phase : Phases, epoch : 0 .. MaxMutations, boot : Boots, proc : Procs]
  /\ count \in [deaths : 0 .. MaxDeaths, breaks : 0 .. MaxBreaks, stalls : 0 .. MaxStalls,
                mutations : 0 .. MaxMutations, idle : 0 .. MaxIdle, fails : 0 .. MaxFails,
                retries : 0 .. MaxRetries]

Init ==
  /\ engine = "none" /\ proc = 0 /\ epoch = 0 /\ greeting = 0 /\ asked = {}
  /\ runner = "open" /\ conn = 0 /\ runNote = 0
  /\ retry = "idle" /\ retryNote = 0
  /\ state = [connected |-> FALSE, phase |-> "connecting", epoch |-> 0, boot |-> 0]
  /\ bootGen = 0 /\ writer = 0 /\ pending = {}
  /\ at = [s \in Sends |-> "new"] /\ over = [s \in Sends |-> 0] /\ late = 0
  /\ ui = [phase |-> "connecting", epoch |-> 0, boot |-> 0, proc |-> 0]
  /\ count = [deaths |-> 0, breaks |-> 0, stalls |-> 0, mutations |-> 0, idle |-> 0,
              fails |-> 0, retries |-> 0]

Uses(bound, max) == count[bound] < max /\ count' = [count EXCEPT ![bound] = @ + 1]

-----------------------------------------------------------------------------
(***************************************************************************)
(* The interface: onConnection of App.svelte.  ui.proc is the process its  *)
(* session record is about; 0 when it has none.                            *)
(***************************************************************************)

\* epochChanged
Changed(older, newer) == older # 0 /\ older # newer

\* The interface takes the engine for another one and drops what it knew.
Replaced(s) == Changed(ui.epoch, s.epoch) \/ Changed(ui.boot, s.boot)

\* app.emit("connection", shared())
Emit(s) ==
  /\ state' = s
  /\ ui' = [phase |-> s.phase, epoch |-> s.epoch, boot |-> s.boot,
            proc |-> IF Replaced(s) \/ ui.proc = 0
                     THEN IF s.connected THEN proc ELSE 0
                     ELSE ui.proc]

\* set_phase
SetPhase(phase) == Emit([state EXCEPT !.phase = phase])

-----------------------------------------------------------------------------
(***************************************************************************)
(* The engine process.                                                     *)
(***************************************************************************)

Listen ==
  /\ engine = "starting"
  /\ engine' = "listening"
  /\ UNCHANGED <<proc, epoch, greeting, asked, runVars, retryVars, innerVars, sendVars, ui, count>>

\* publish_effect counts what it tells a client; see EpochCountsMutations.
Mutate ==
  /\ engine = "serving"
  /\ Uses("mutations", MaxMutations)
  /\ epoch' = epoch + 1
  /\ UNCHANGED <<engine, proc, greeting, asked, runVars, retryVars, innerVars, sendVars, ui>>

\* It leaves the connection: a bad frame, or two minutes of silence.
Break ==
  /\ engine = "serving"
  /\ Uses("breaks", MaxBreaks)
  /\ engine' = "listening"
  /\ asked' = {}
  /\ UNCHANGED <<proc, epoch, greeting, runVars, retryVars, innerVars, sendVars, ui>>

\* Its pipe thread blocks.
Stall ==
  /\ engine = "serving"
  /\ Uses("stalls", MaxStalls)
  /\ engine' = "stuck"
  /\ UNCHANGED <<proc, epoch, greeting, asked, runVars, retryVars, innerVars, sendVars, ui>>

Die ==
  /\ engine # "none"
  /\ Uses("deaths", MaxDeaths)
  /\ engine' = "none"
  /\ epoch' = 0
  /\ asked' = {}
  /\ UNCHANGED <<proc, greeting, runVars, retryVars, innerVars, sendVars, ui>>

-----------------------------------------------------------------------------
(***************************************************************************)
(* run                                                                     *)
(***************************************************************************)

Holds == engine \in {"serving", "stuck"}      \* the pipe is connected

RunOpens ==
  /\ runner = "open"
  /\ SetPhase("connecting")
  /\ IF engine = "listening"
     THEN /\ engine' = "serving" /\ runner' = "hello"
          /\ conn' = conn + 1 /\ greeting' = epoch
     ELSE /\ runner' \in {"open", "spawn"}    \* it spawns at the first and each 20th try
          /\ UNCHANGED <<engine, conn, greeting>>
  /\ UNCHANGED <<proc, epoch, asked, runNote, retryVars, bootGen, writer, pending,
                 sendVars, count>>

\* spawn_supervised succeeds: another process, or one that finds the singleton
\* mutex taken and leaves.
SpawnsEngine ==
  \/ /\ engine = "none"
     /\ engine' = "starting"
     /\ proc' = proc + 1
     /\ UNCHANGED <<epoch, greeting, asked, count>>
  \/ /\ engine # "none"
     /\ Uses("idle", MaxIdle)
     /\ UNCHANGED engineVars

RunSpawns ==
  /\ runner = "spawn"
  /\ SetPhase("spawning")
  /\ runner' = "note"
  /\ UNCHANGED <<engineVars, conn, runNote, retryVars, bootGen, writer, pending,
                 sendVars, count>>

\* note_engine_spawned: fetch_add, and later the copy in the shared state.
RunNotes ==
  /\ runner = "note"
  /\ \/ /\ SpawnsEngine
        /\ bootGen' = bootGen + 1 /\ runNote' = bootGen'
        /\ runner' = "store"
        /\ UNCHANGED <<state, ui>>
     \/ /\ Uses("fails", MaxFails)
        /\ SetPhase("spawn_failed")
        /\ runner' = "open"
        /\ UNCHANGED <<engineVars, bootGen, runNote>>
     \/ /\ engine # "none" /\ count.idle = MaxIdle      \* beyond the bound
        /\ runner' = "open"
        /\ UNCHANGED <<engineVars, bootGen, runNote, state, ui, count>>
  /\ UNCHANGED <<conn, retryVars, writer, pending, sendVars>>

RunStores ==
  /\ runner = "store"
  /\ Emit([state EXCEPT !.boot = runNote, !.phase = "connecting"])
  /\ runner' = "open"
  /\ UNCHANGED <<engineVars, conn, runNote, retryVars, bootGen, writer, pending,
                 sendVars, count>>

-----------------------------------------------------------------------------
(***************************************************************************)
(* serve and set_disconnected                                              *)
(***************************************************************************)

ServeHello ==
  /\ runner = "hello"
  /\ runner' = IF engine = "serving" THEN "writer" ELSE "clear"
  /\ state' = IF engine = "serving" THEN state
              ELSE [state EXCEPT !.connected = FALSE, !.phase = "disconnected"]
  /\ UNCHANGED <<engineVars, conn, runNote, retryVars, bootGen, writer, pending,
                 sendVars, ui, count>>

ServeSetsWriter ==
  /\ runner = "writer"
  /\ writer' = conn
  /\ runner' = "serve"
  /\ UNCHANGED <<engineVars, conn, runNote, retryVars, state, bootGen, pending,
                 sendVars, ui, count>>

\* on_snapshot
ServeSnapshot ==
  /\ runner = "serve" /\ engine = "serving" /\ ~state.connected
  /\ Emit([state EXCEPT !.connected = TRUE, !.phase = "connected", !.epoch = greeting])
  /\ UNCHANGED <<engineVars, runVars, retryVars, bootGen, writer, pending, sendVars,
                 count>>

ServeReply(s) ==
  /\ runner = "serve" /\ engine = "serving"
  /\ s \in asked
  /\ asked' = asked \ {s}
  /\ pending' = pending \ {s}
  /\ at' = IF s \in pending THEN [at EXCEPT ![s] = "ok"] ELSE at
  /\ UNCHANGED <<engine, proc, epoch, greeting, runVars, retryVars, state, bootGen, writer, over,
                 late, ui, count>>

\* The read fails; set_disconnected begins.
ServeEnds ==
  /\ runner = "serve" /\ ~Holds
  /\ state' = [state EXCEPT !.connected = FALSE, !.phase = "disconnected"]
  /\ runner' = "clear"
  /\ UNCHANGED <<engineVars, conn, runNote, retryVars, bootGen, writer, pending,
                 sendVars, ui, count>>

ClearsWriter ==
  /\ runner = "clear"
  /\ runner' = "fail"
  /\ writer' = 0
  /\ UNCHANGED <<engineVars, conn, runNote, retryVars, state, bootGen, pending,
                 sendVars, ui, count>>

\* Fault: the replies of the lost connection are left waiting.
FailsPending_Not ==
  /\ runner = "fail"
  /\ runner' = "open"
  /\ Emit(state)
  /\ UNCHANGED <<engineVars, conn, runNote, retryVars, bootGen, writer, pending, sendVars,
                 count>>

\* Fault: the loop ends with its first connection.
FailsPending_Ends ==
  /\ runner = "fail"
  /\ pending' = {}
  /\ at' = [s \in Sends |-> IF s \in pending /\ at[s] = "wait" THEN "disconnected"
                            ELSE at[s]]
  /\ Emit(state)
  /\ UNCHANGED <<engineVars, runVars, retryVars, bootGen, writer, over, late, count>>

\* PendingMap::fail_all.  A command that has yet to be written finds its reply
\* when it comes to wait for it.
FailsPending ==
  /\ runner = "fail"
  /\ runner' = "open"
  /\ pending' = {}
  /\ at' = [s \in Sends |-> IF s \in pending /\ at[s] = "wait" THEN "disconnected"
                            ELSE at[s]]
  /\ Emit(state)
  /\ UNCHANGED <<engineVars, conn, runNote, retryVars, bootGen, writer, over, late, count>>

-----------------------------------------------------------------------------
(***************************************************************************)
(* respawn, by the retry button.                                           *)
(***************************************************************************)

UiRetry ==
  /\ ui.phase \in {"spawn_failed", "disconnected"}
  /\ retry = "idle"
  /\ Uses("retries", MaxRetries)
  /\ retry' = "asked"
  /\ UNCHANGED <<engineVars, runVars, retryNote, innerVars, sendVars, ui>>

RetryBegins ==
  /\ retry = "asked"
  /\ SetPhase("spawning")
  /\ retry' = "spawn"
  /\ UNCHANGED <<engineVars, runVars, retryNote, bootGen, writer, pending, sendVars,
                 count>>

RetrySpawns ==
  /\ retry = "spawn"
  /\ \/ SpawnsEngine /\ retry' = "note" /\ UNCHANGED <<state, ui>>
     \/ /\ Uses("fails", MaxFails)
        /\ SetPhase("spawn_failed")
        /\ retry' = "idle"
        /\ UNCHANGED engineVars
  /\ UNCHANGED <<runVars, retryNote, bootGen, writer, pending, sendVars>>

\* Fault: the retry does not count.
RetryNotes_Not ==
  /\ retry = "note"
  /\ retryNote' = state.boot
  /\ retry' = "store"
  /\ UNCHANGED <<engineVars, runVars, innerVars, sendVars, ui, count>>

RetryNotes ==
  /\ retry = "note"
  /\ bootGen' = bootGen + 1
  /\ retryNote' = bootGen'
  /\ retry' = "store"
  /\ UNCHANGED <<engineVars, runVars, state, writer, pending, sendVars, ui, count>>

RetryStores ==
  /\ retry = "store"
  /\ Emit([state EXCEPT !.boot = retryNote, !.phase = "connecting"])
  /\ retry' = "idle"
  /\ UNCHANGED <<engineVars, runVars, retryNote, bootGen, writer, pending, sendVars,
                 count>>

-----------------------------------------------------------------------------
(***************************************************************************)
(* send                                                                    *)
(***************************************************************************)

SendRegisters(s) ==
  /\ at[s] = "new"
  /\ pending' = pending \cup {s}
  /\ at' = [at EXCEPT ![s] = "write"]
  /\ UNCHANGED <<engineVars, runVars, retryVars, state, bootGen, writer, over, late, ui,
                 count>>

NotWritten(s) ==
  /\ at' = [at EXCEPT ![s] = "not_connected"]
  /\ pending' = pending \ {s}
  /\ UNCHANGED <<asked, over>>

\* Under the write lock.  A pipe the engine has closed refuses the frame; one it
\* does not read takes what fits and then makes the writer wait for its timeout.
SendWrites(s) ==
  /\ at[s] = "write"
  /\ \/ /\ writer # 0 /\ Holds
        /\ asked' = asked \cup {s}
        /\ over' = [over EXCEPT ![s] = writer]
        /\ at' = [at EXCEPT ![s] = IF s \in pending THEN "wait" ELSE "disconnected"]
        /\ UNCHANGED <<pending, late>>
     \/ writer # 0 /\ engine = "stuck" /\ NotWritten(s) /\ late' = writer
     \/ ~(writer # 0 /\ Holds) /\ NotWritten(s) /\ UNCHANGED late
  /\ UNCHANGED <<engine, proc, epoch, greeting, runVars, retryVars, state, bootGen, writer, ui,
                 count>>

\* Fault: the entry of a command that gave up stays in the map.
SendTimesOut_Keeps(s) ==
  /\ at[s] = "wait"
  /\ at' = [at EXCEPT ![s] = "timeout"]
  /\ UNCHANGED <<engineVars, runVars, retryVars, innerVars, over, late, ui, count>>

SendTimesOut(s) ==
  /\ at[s] = "wait"
  /\ at' = [at EXCEPT ![s] = "timeout"]
  /\ pending' = pending \ {s}
  /\ UNCHANGED <<engineVars, runVars, retryVars, state, bootGen, writer, over, late, ui,
                 count>>

-----------------------------------------------------------------------------

Process == Listen \/ Mutate \/ Break \/ Stall \/ Die
Run     == RunOpens \/ RunSpawns \/ RunNotes \/ RunStores
Serve   == \/ ServeHello \/ ServeSetsWriter \/ ServeSnapshot
           \/ \E s \in Sends : ServeReply(s)
           \/ ServeEnds \/ ClearsWriter \/ FailsPending
Retry   == RetryBegins \/ RetrySpawns \/ RetryNotes \/ RetryStores
Send    == \E s \in Sends : SendRegisters(s) \/ SendWrites(s) \/ SendTimesOut(s)

Next == Process \/ Run \/ Serve \/ UiRetry \/ Retry \/ Send

Spec == Init /\ [][Next]_vars

\* The runtime runs its tasks, a started engine comes to listen, and the first
\* or the twentieth try in a row spawns one.
Fairness ==
  /\ WF_vars(Run) /\ SF_vars(RunOpens /\ runner' = "spawn")
  /\ WF_vars(Serve) /\ WF_vars(Retry) /\ WF_vars(Listen)
  /\ \A s \in Sends : WF_vars(SendWrites(s))

FairSpec == Spec /\ Fairness

-----------------------------------------------------------------------------
(***************************************************************************)
(* Properties                                                              *)
(***************************************************************************)

\* Commands in flight fail at once when the connection is lost: one that still
\* waits was written to the connection that is up, or is about to be failed.
NoCommandIsForgotten ==
  \A s \in Sends :
    at[s] = "wait" => /\ s \in pending
                      /\ \/ runner = "serve" /\ over[s] = conn
                         \/ runner \in {"clear", "fail"}

\* "pending would accumulate without end": a command that has returned has no
\* entry in the map.
PendingIsInFlight == \A s \in pending : at[s] \in {"write", "wait"}

Settled == runner = "serve" /\ retry = "idle" /\ engine = "serving" /\ state.connected

\* "bootGen tells a new engine when the epoch cannot": an interface that shows
\* a connection does not keep the session record of an earlier engine.
EngineChangeIsNoticed == Settled => ui.proc = proc

\* "connected and phase say the same".
PhaseIsConnected == state.connected => state.phase = "connected"

\* "another epoch is another engine", "the engine is not affected by a
\* disconnection": the record is dropped only when its engine is gone.
ReplacementIsReal ==
  [][ui' # ui /\ ui.proc # 0 /\ Replaced(state') => engine = "none" \/ proc # ui.proc]_vars

\* "commands in flight fail, and are not sent again behind the caller's back": one
\* that was failed at a disconnection is not written to the next connection.
FailedIsNotSent ==
  [][\A s \in Sends : at[s] = "write" /\ s \notin pending => s \notin asked']_vars

\* "a write timeout counts as a disconnection, the keepalive reconnects".
LateWriteReconnects == late # 0 /\ late = conn ~> (late # conn \/ runner # "serve")

\* The bridge connects again, whatever engine died or connection broke, unless
\* there is an engine that keeps the pipe and does nothing.
Reconnects == ~state.connected ~> state.connected \/ engine = "stuck"
=============================================================================
