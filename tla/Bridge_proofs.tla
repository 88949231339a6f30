---------------------------- MODULE Bridge_proofs ----------------------------
(***************************************************************************)
(* Commands in flight across disconnections, for any number of commands,   *)
(* engines and connections: none waits for a reply that cannot come, and   *)
(* none leaves its entry behind.  And the interface's record: it is about  *)
(* the engine that is connected.                                           *)
(***************************************************************************)
EXTENDS Bridge, TLAPS

Stages == {"new", "write", "wait", "ok", "disconnected", "not_connected", "timeout"}

\* The shapes the steps below rely on.
Shapes ==
  /\ at \in [Sends -> Stages]
  /\ over \in [Sends -> Nat]
  /\ pending \subseteq Sends
  /\ conn \in Nat

\* The write half belongs to the connection that is served, until
\* set_disconnected has taken it away.
WriterIsServed == writer # 0 => runner \in {"serve", "clear"} /\ writer = conn

IInv == Shapes /\ WriterIsServed /\ NoCommandIsForgotten /\ PendingIsInFlight

flightVars == <<runner, conn, writer, pending, at, over>>

LEMMA InitEstablishes == Init => IInv
  BY DEF Init, IInv, Shapes, Stages, WriterIsServed, NoCommandIsForgotten, PendingIsInFlight

LEMMA StutterPreserves == IInv /\ UNCHANGED flightVars => IInv'
  BY DEF flightVars, IInv, Shapes, WriterIsServed, NoCommandIsForgotten, PendingIsInFlight

\* The engine and the retry button do not touch the commands.
LEMMA OutsideIsStutter == Process \/ UiRetry \/ Retry => UNCHANGED flightVars
<1> USE DEF flightVars, engineVars, runVars, retryVars, innerVars, sendVars
<1>1. Process => UNCHANGED flightVars
  BY DEF Process, Listen, Mutate, Break, Stall, Die
<1>2. UiRetry => UNCHANGED flightVars
  BY DEF UiRetry
<1>3. Retry => UNCHANGED flightVars
  BY DEF Retry, RetryBegins, RetrySpawns, RetryNotes, RetryStores
<1> QED BY <1>1, <1>2, <1>3

\* The loop moves between connections only where there is no write half and
\* nothing waits.
LEMMA RunPreserves == IInv /\ Run => IInv'
<1> SUFFICES ASSUME IInv, Run PROVE IInv'
  OBVIOUS
<1>1. runner \in {"open", "spawn", "note", "store"}
  BY DEF Run, RunOpens, RunSpawns, RunNotes, RunStores
<1>2. runner' \in {"open", "spawn", "note", "store", "hello"}
  BY DEF Run, RunOpens, RunSpawns, RunNotes, RunStores
<1>3. UNCHANGED <<writer, pending, at, over>>
  BY DEF Run, RunOpens, RunSpawns, RunNotes, RunStores, sendVars
<1>4. conn' \in Nat
  BY DEF Run, RunOpens, RunSpawns, RunNotes, RunStores, IInv, Shapes
<1>5. writer = 0 /\ \A s \in Sends : at[s] # "wait"
  BY <1>1 DEF IInv, WriterIsServed, NoCommandIsForgotten
<1> QED BY <1>2, <1>3, <1>4, <1>5
        DEF IInv, Shapes, WriterIsServed, NoCommandIsForgotten, PendingIsInFlight

\* The connection: its start, its snapshot, its replies, and the three steps of
\* its end.
LEMMA ServePreserves == IInv /\ Serve => IInv'
<1> SUFFICES ASSUME IInv, Serve PROVE IInv'
  OBVIOUS
<1> USE DEF IInv, Shapes, Stages, WriterIsServed, NoCommandIsForgotten, PendingIsInFlight
<1>1. CASE ServeHello
  BY <1>1 DEF ServeHello, sendVars
<1>2. CASE ServeSetsWriter
  <2>1. \A s \in Sends : at[s] # "wait"
    BY <1>2 DEF ServeSetsWriter
  <2> QED BY <1>2, <2>1 DEF ServeSetsWriter, sendVars
<1>3. CASE ServeSnapshot
  BY <1>3, StutterPreserves DEF ServeSnapshot, flightVars, runVars, sendVars
<1>4. ASSUME NEW s \in Sends, ServeReply(s) PROVE IInv'
  <2>1. UNCHANGED <<runner, conn, writer, over>> /\ runner = "serve"
    BY <1>4 DEF ServeReply, runVars
  <2>2. pending' = pending \ {s}
    BY <1>4 DEF ServeReply
  <2>3. at' \in [Sends -> Stages]
    BY <1>4 DEF ServeReply
  <2>4. \A t \in Sends : t # s => at'[t] = at[t]
    BY <1>4 DEF ServeReply
  <2>5. at'[s] # "wait"
    BY <1>4 DEF ServeReply
  <2> QED BY <2>1, <2>2, <2>3, <2>4, <2>5
<1>5. CASE ServeEnds
  BY <1>5 DEF ServeEnds, sendVars
<1>6. CASE ClearsWriter
  BY <1>6 DEF ClearsWriter, sendVars
<1>7. CASE FailsPending
  <2>1. runner = "fail" /\ runner' = "open" /\ pending' = {}
        /\ UNCHANGED <<conn, writer, over>>
    BY <1>7 DEF FailsPending
  <2>2. at' \in [Sends -> Stages]
    BY <1>7 DEF FailsPending
  <2>3. \A s \in Sends : at'[s] # "wait"
    BY <1>7 DEF FailsPending
  <2>4. writer = 0
    BY <2>1
  <2> QED BY <2>1, <2>2, <2>3, <2>4
<1> QED BY <1>1, <1>2, <1>3, <1>4, <1>5, <1>6, <1>7 DEF Serve

\* A command registers before it is written, is written to the connection of
\* the write half, and takes its entry along when it gives up.
LEMMA SendPreserves == IInv /\ Send => IInv'
<1> SUFFICES ASSUME IInv, NEW s \in Sends,
                    SendRegisters(s) \/ SendWrites(s) \/ SendTimesOut(s)
             PROVE IInv'
  BY DEF Send
<1> USE DEF IInv, Shapes, Stages, WriterIsServed, NoCommandIsForgotten, PendingIsInFlight
<1>0. UNCHANGED <<runner, conn, writer>>
  BY DEF SendRegisters, SendWrites, SendTimesOut, runVars
<1>1. CASE SendRegisters(s)
  <2>1. pending' = pending \cup {s} /\ over' = over
    BY <1>1 DEF SendRegisters
  <2>2. at' = [at EXCEPT ![s] = "write"]
    BY <1>1 DEF SendRegisters
  <2> QED BY <1>0, <2>1, <2>2
<1>2. CASE SendWrites(s)
  <2>1. CASE NotWritten(s)
    BY <1>0, <2>1 DEF NotWritten
  <2>2. CASE ~NotWritten(s)
    <3>1. writer # 0 /\ pending' = pending /\ over' = [over EXCEPT ![s] = writer]
      BY <1>2, <2>2 DEF SendWrites
    <3>2. at' = [at EXCEPT ![s] = IF s \in pending THEN "wait" ELSE "disconnected"]
      BY <1>2, <2>2 DEF SendWrites
    <3>3. at[s] = "write" /\ writer = conn /\ runner \in {"serve", "clear"}
      BY <1>2, <3>1 DEF SendWrites
    <3> QED BY <1>0, <3>1, <3>2, <3>3
  <2> QED BY <2>1, <2>2
<1>3. CASE SendTimesOut(s)
  BY <1>0, <1>3 DEF SendTimesOut
<1> QED BY <1>1, <1>2, <1>3

LEMMA Invariant == Spec => []IInv
<1>1. Init => IInv
  BY InitEstablishes
<1>2. IInv /\ [Next]_vars => IInv'
  <2> SUFFICES ASSUME IInv, [Next]_vars PROVE IInv'
    OBVIOUS
  <2>1. CASE Next
    BY <2>1, OutsideIsStutter, StutterPreserves, RunPreserves, ServePreserves, SendPreserves
       DEF Next
  <2>2. CASE UNCHANGED vars
    BY <2>2, StutterPreserves DEF vars, flightVars, runVars, innerVars, sendVars
  <2> QED BY <2>1, <2>2
<1> QED BY <1>1, <1>2, PTL DEF Spec

-----------------------------------------------------------------------------
(***************************************************************************)
(* The interface and the engine it shows.  Every spawn is numbered before  *)
(* it is stored, so a store that has yet to come changes what the          *)
(* interface sees, unless nothing has been stored yet.                     *)
(***************************************************************************)

Shown ==
  /\ state \in [connected : BOOLEAN, phase : Phases, epoch : Nat, boot : Nat]
  /\ ui.boot = state.boot /\ ui.epoch = state.epoch
  /\ ui.proc \in Nat /\ proc \in Nat
  /\ greeting \in Nat /\ epoch \in Nat
  /\ engine # "none" \/ ui.proc # 0 => proc # 0
  /\ state.connected => runner = "serve" /\ ui.proc # 0

\* A number is stored once.
Numbered ==
  /\ bootGen \in Nat /\ state.boot <= bootGen
  /\ runner = "store" => runNote \in 1 .. bootGen /\ runNote # state.boot
  /\ retry = "store" => retryNote \in 1 .. bootGen /\ retryNote # state.boot
  /\ runner = "store" /\ retry = "store" => runNote # retryNote

Numbering == retry \in {"note", "store"}

\* An interface that shows an engine of before: the number of the new one, or
\* that of one between, is on its way.
Noticed ==
  /\ state.boot = 0 /\ proc # 0 => Numbering \/ runner = "store"
  /\ state.boot = 0 /\ ui.proc # 0 => Numbering
  /\ ui.proc \notin {0, proc} =>
       \/ runner = "store" /\ (state.boot = 0 => Numbering)
       \/ Numbering /\ state.boot # 0

Watched == Shown /\ Numbered /\ Noticed

watchedVars == <<engine, proc, epoch, greeting, runner, runNote, retry, retryNote, state,
                 bootGen, ui>>

\* What app.emit does to the interface's record.
LEMMA Emitted ==
  ASSUME Shown, NEW s, Emit(s),
         s \in [connected : BOOLEAN, phase : Phases, epoch : Nat, boot : Nat]
  PROVE  /\ state' = s /\ state' \in [connected : BOOLEAN, phase : Phases, epoch : Nat, boot : Nat]
         /\ ui'.boot = s.boot /\ ui'.epoch = s.epoch
         /\ ui'.proc \in {0, ui.proc, proc} /\ ui'.proc \in Nat
         /\ s.connected /\ proc # 0 => ui'.proc # 0
         /\ ui.proc = 0 /\ ~s.connected => ui'.proc = 0
         /\ state.boot # 0 /\ s.boot # state.boot => ui'.proc \in {0, proc}
<1>1. /\ state' = s /\ ui'.boot = s.boot /\ ui'.epoch = s.epoch
      /\ ui'.proc = IF Replaced(s) \/ ui.proc = 0
                    THEN IF s.connected THEN proc ELSE 0
                    ELSE ui.proc
  BY DEF Emit
<1>2. ui.boot = state.boot /\ ui.proc \in Nat /\ proc \in Nat
  BY DEF Shown
<1>3. state.boot # 0 /\ s.boot # state.boot => Replaced(s)
  BY <1>2 DEF Replaced, Changed
<1> QED BY <1>1, <1>2, <1>3

\* An emission about the same engine and the same connection changes no record.
LEMMA EmittedAgain ==
  ASSUME Shown, NEW s, Emit(s),
         s \in [connected : BOOLEAN, phase : Phases, epoch : Nat, boot : Nat],
         s.boot = state.boot, s.epoch = state.epoch, s.connected => state.connected
  PROVE  /\ state' = s /\ ui'.boot = ui.boot /\ ui'.epoch = ui.epoch
         /\ ui'.proc = ui.proc
<1>1. /\ state' = s /\ ui'.boot = s.boot /\ ui'.epoch = s.epoch
      /\ ui'.proc = IF Replaced(s) \/ ui.proc = 0
                    THEN IF s.connected THEN proc ELSE 0
                    ELSE ui.proc
  BY DEF Emit
<1>2. ~Replaced(s)
  BY DEF Replaced, Changed, Shown
<1>3. ui.proc = 0 => ~s.connected
  BY DEF Shown
<1> QED BY <1>1, <1>2, <1>3 DEF Shown

\* The same engine, the same numbers and the same record.
LEMMA SameRecord ==
  ASSUME Watched, UNCHANGED <<proc, greeting, epoch, runNote, retryNote, bootGen>>,
         state' \in [connected : BOOLEAN, phase : Phases, epoch : Nat, boot : Nat],
         state'.boot = state.boot, state'.epoch = ui'.epoch,
         ui'.boot = ui.boot, ui'.proc = ui.proc,
         engine' # "none" => engine # "none",
         state'.connected => runner' = "serve" /\ ui.proc # 0,
         runner' = "store" <=> runner = "store",
         retry' = "store" <=> retry = "store",
         retry' = "note" <=> retry = "note"
  PROVE  Watched'
<1>1. Shown'
  BY DEF Watched, Shown
<1>2. Numbered'
  BY DEF Watched, Numbered
<1>3. Noticed'
  BY DEF Watched, Noticed, Numbering
<1> QED BY <1>1, <1>2, <1>3 DEF Watched

LEMMA WatchedAtFirst == Init => Watched
BY DEF Init, Watched, Shown, Numbered, Noticed, Numbering, Phases

LEMMA WatchedStutter == Watched /\ UNCHANGED watchedVars => Watched'
BY DEF watchedVars, Watched, Shown, Numbered, Noticed, Numbering

LEMMA PhaseSet ==
  ASSUME Watched, NEW phase \in Phases, SetPhase(phase)
  PROVE  /\ state' = [state EXCEPT !.phase = phase]
         /\ state' \in [connected : BOOLEAN, phase : Phases, epoch : Nat, boot : Nat]
         /\ state'.boot = state.boot /\ state'.epoch = state.epoch
         /\ state'.connected = state.connected
         /\ ui'.boot = ui.boot /\ ui'.epoch = ui.epoch /\ ui'.proc = ui.proc
<1> DEFINE s == [state EXCEPT !.phase = phase]
<1>1. /\ s \in [connected : BOOLEAN, phase : Phases, epoch : Nat, boot : Nat]
      /\ s.boot = state.boot /\ s.epoch = state.epoch /\ s.connected = state.connected
  BY DEF Watched, Shown
<1>2. Emit(s) /\ Shown
  BY DEF SetPhase, Watched
<1> HIDE DEF s
<1>3. /\ state' = s /\ ui'.boot = ui.boot /\ ui'.epoch = ui.epoch
      /\ ui'.proc = ui.proc
  BY <1>1, <1>2, EmittedAgain
<1> QED BY <1>1, <1>3 DEF s

\* A number that is stored, by the loop or by the retry button.
LEMMA StoredNote ==
  ASSUME Watched, NEW n \in Nat,
         Emit([state EXCEPT !.boot = n, !.phase = "connecting"]),
         n # 0, n # state.boot
  PROVE  /\ state' \in [connected : BOOLEAN, phase : Phases, epoch : Nat, boot : Nat]
         /\ state'.boot = n /\ state'.epoch = state.epoch
         /\ state'.connected = state.connected
         /\ ui'.boot = n /\ ui'.epoch = state.epoch
         /\ ui'.proc \in {0, ui.proc, proc} /\ ui'.proc \in Nat
         /\ state.connected => ui'.proc # 0
         /\ ui.proc = 0 => ui'.proc = 0
         /\ state.boot # 0 => ui'.proc \in {0, proc}
<1> DEFINE s == [state EXCEPT !.boot = n, !.phase = "connecting"]
<1>1. /\ s \in [connected : BOOLEAN, phase : Phases, epoch : Nat, boot : Nat]
      /\ s.boot = n /\ s.epoch = state.epoch /\ s.connected = state.connected
  BY DEF Watched, Shown, Phases
<1>2. Emit(s) /\ Shown
  BY DEF Watched
<1> HIDE DEF s
<1>3. ui.proc = 0 => ~s.connected
  BY <1>1, <1>2 DEF Shown
<1>4. state.connected => proc # 0
  BY <1>2 DEF Shown
<1> QED BY <1>1, <1>2, <1>3, <1>4, Emitted

\* The engine process: only a death changes what the record is compared with.
LEMMA ProcessWatched == Watched /\ Process => Watched'
<1> SUFFICES ASSUME Watched, Process PROVE Watched'
  OBVIOUS
<1> USE DEF runVars, retryVars, innerVars, Watched, Shown
<1>1. CASE Listen
  BY <1>1, SameRecord DEF Listen
<1>2. CASE Mutate
  BY <1>2 DEF Mutate, Numbered, Noticed, Numbering
<1>3. CASE Break
  BY <1>3, SameRecord DEF Break
<1>4. CASE Stall
  BY <1>4, SameRecord DEF Stall
<1>5. CASE Die
  BY <1>5 DEF Die, Numbered, Noticed, Numbering
<1> QED BY <1>1, <1>2, <1>3, <1>4, <1>5 DEF Process

\* A new engine comes with a number that is still to be stored.
LEMMA RunWatched == Watched /\ Run => Watched'
<1> SUFFICES ASSUME Watched, Run PROVE Watched'
  OBVIOUS
<1> USE DEF engineVars, retryVars
<1>0. /\ state.connected => runner = "serve"
      /\ state \in [connected : BOOLEAN, phase : Phases, epoch : Nat, boot : Nat]
      /\ ui.boot = state.boot /\ ui.epoch = state.epoch
      /\ ui.proc \in Nat /\ proc \in Nat /\ greeting \in Nat /\ epoch \in Nat
      /\ engine # "none" => proc # 0
      /\ ui.proc # 0 => proc # 0
  BY DEF Watched, Shown
<1>1. CASE RunOpens
  <2>1. SetPhase("connecting") /\ "connecting" \in Phases
    BY <1>1 DEF RunOpens, Phases
  <2>2. /\ runner = "open" /\ runner' \in {"open", "spawn", "hello"}
        /\ UNCHANGED <<proc, epoch, runNote, retry, retryNote, bootGen>>
        /\ engine' # "none" => engine # "none"
        /\ greeting' \in Nat
    BY <1>0, <1>1 DEF RunOpens
  <2>3. ~state.connected
    BY <1>0, <2>2
  <2>4. Shown'
    BY <1>0, <2>1, <2>2, <2>3, PhaseSet DEF Shown
  <2>5. Numbered' /\ Noticed'
    BY <2>1, <2>2, PhaseSet DEF Watched, Numbered, Noticed, Numbering
  <2> QED BY <2>4, <2>5 DEF Watched
<1>2. CASE RunSpawns
  <2>1. SetPhase("spawning") /\ "spawning" \in Phases
    BY <1>2 DEF RunSpawns, Phases
  <2> QED BY <1>0, <1>2, <2>1, PhaseSet, SameRecord DEF RunSpawns
<1>3. CASE RunNotes
  <2>1. CASE SpawnsEngine /\ bootGen' = bootGen + 1 /\ runNote' = bootGen' /\ runner' = "store"
             /\ UNCHANGED <<state, ui>>
    <3>1. /\ runner = "note" /\ UNCHANGED <<retry, retryNote>>
          /\ proc' \in Nat /\ greeting' \in Nat /\ epoch' \in Nat
          /\ proc' # 0
      BY <1>0, <1>3, <2>1 DEF RunNotes, SpawnsEngine
    <3>2. bootGen \in Nat /\ state.boot \in Nat /\ state.boot <= bootGen
      BY <1>0 DEF Watched, Numbered
    <3>3. Shown'
      BY <1>0, <2>1, <3>1 DEF Shown
    <3>4. Numbered'
      BY <2>1, <3>1, <3>2 DEF Watched, Numbered
    <3>5. Noticed'
      BY <2>1, <3>1 DEF Watched, Noticed, Numbering
    <3> QED BY <3>3, <3>4, <3>5 DEF Watched
  <2>2. CASE SetPhase("spawn_failed") /\ runner' = "open"
             /\ UNCHANGED <<engineVars, bootGen, runNote>>
    <3>1. "spawn_failed" \in Phases
      BY DEF Phases
    <3> QED BY <1>0, <1>3, <2>2, <3>1, PhaseSet, SameRecord DEF RunNotes
  <2>3. CASE runner' = "open" /\ UNCHANGED <<engineVars, bootGen, runNote, state, ui, count>>
    BY <1>0, <1>3, <2>3, SameRecord DEF RunNotes
  <2> QED BY <1>3, <2>1, <2>2, <2>3 DEF RunNotes
<1>4. CASE RunStores
  <2>1. /\ runner = "store" /\ runner' = "open"
        /\ Emit([state EXCEPT !.boot = runNote, !.phase = "connecting"])
        /\ UNCHANGED <<engine, proc, epoch, greeting, runNote, retry, retryNote, bootGen>>
    BY <1>4 DEF RunStores
  <2>2. runNote \in 1 .. bootGen /\ runNote # state.boot /\ bootGen \in Nat
    BY <2>1 DEF Watched, Numbered
  <2>3. runNote \in Nat /\ runNote # 0 /\ runNote <= bootGen
    BY <2>2
  <2>4. /\ state' \in [connected : BOOLEAN, phase : Phases, epoch : Nat, boot : Nat]
        /\ state'.boot = runNote /\ state'.epoch = state.epoch
        /\ state'.connected = state.connected
        /\ ui'.boot = runNote /\ ui'.epoch = state.epoch
        /\ ui'.proc \in {0, ui.proc, proc} /\ ui'.proc \in Nat
        /\ ui.proc = 0 => ui'.proc = 0
        /\ state.boot # 0 => ui'.proc \in {0, proc}
    BY <2>1, <2>2, <2>3, StoredNote
  <2>5. Shown'
    BY <1>0, <2>1, <2>4 DEF Shown
  <2>6. Numbered'
    BY <2>1, <2>3, <2>4 DEF Watched, Numbered
  <2>7. Noticed'
    BY <2>1, <2>3, <2>4 DEF Watched, Noticed, Numbering
  <2> QED BY <2>5, <2>6, <2>7 DEF Watched
<1> QED BY <1>1, <1>2, <1>3, <1>4 DEF Run

\* serve: the snapshot gives the interface the engine that is connected.
LEMMA ServeWatched == Watched /\ Serve => Watched'
<1> SUFFICES ASSUME Watched, Serve PROVE Watched'
  OBVIOUS
<1> USE DEF engineVars, retryVars, runVars, innerVars
<1>0. /\ state.connected => runner = "serve" /\ ui.proc # 0
      /\ state \in [connected : BOOLEAN, phase : Phases, epoch : Nat, boot : Nat]
      /\ ui.boot = state.boot /\ ui.epoch = state.epoch
      /\ ui.proc \in Nat /\ proc \in Nat /\ greeting \in Nat /\ epoch \in Nat
      /\ engine # "none" => proc # 0
      /\ ui.proc # 0 => proc # 0
  BY DEF Watched, Shown
<1>d. LET s == [state EXCEPT !.connected = FALSE, !.phase = "disconnected"]
      IN  /\ s \in [connected : BOOLEAN, phase : Phases, epoch : Nat, boot : Nat]
          /\ s.boot = state.boot /\ s.epoch = state.epoch /\ ~s.connected
  BY <1>0 DEF Phases
<1>1. CASE ServeHello
  <2>1. CASE engine = "serving"
    BY <1>0, <1>1, <2>1, SameRecord DEF ServeHello
  <2>2. CASE engine # "serving"
    BY <1>0, <1>d, <1>1, <2>2, SameRecord DEF ServeHello
  <2> QED BY <2>1, <2>2
<1>2. CASE ServeSetsWriter
  BY <1>0, <1>2, SameRecord DEF ServeSetsWriter
<1>3. CASE ServeSnapshot
  <2> DEFINE s == [state EXCEPT !.connected = TRUE, !.phase = "connected", !.epoch = greeting]
  <2>1. /\ s \in [connected : BOOLEAN, phase : Phases, epoch : Nat, boot : Nat]
        /\ s.boot = state.boot /\ s.connected
    BY <1>0 DEF Phases
  <2>2. /\ Emit(s) /\ runner = "serve" /\ engine = "serving"
        /\ UNCHANGED <<engine, proc, epoch, greeting, runner, runNote, retry, retryNote, bootGen>>
    BY <1>3 DEF ServeSnapshot
  <2> HIDE DEF s
  <2>3. /\ state' = s /\ ui'.boot = s.boot /\ ui'.epoch = s.epoch
        /\ ui'.proc \in {0, ui.proc, proc} /\ ui'.proc \in Nat
        /\ proc # 0 => ui'.proc # 0
    BY <2>1, <2>2, Emitted DEF Watched
  <2>4. Shown'
    BY <1>0, <2>1, <2>2, <2>3 DEF Shown
  <2>5. Numbered'
    BY <2>1, <2>2, <2>3 DEF Watched, Numbered
  <2>6. Noticed'
    BY <1>0, <2>1, <2>2, <2>3 DEF Watched, Noticed, Numbering
  <2> QED BY <2>4, <2>5, <2>6 DEF Watched
<1>4. ASSUME NEW s \in Sends, ServeReply(s) PROVE Watched'
  BY <1>4, WatchedStutter DEF ServeReply, watchedVars
<1>5. CASE ServeEnds
  BY <1>0, <1>d, <1>5, SameRecord DEF ServeEnds
<1>6. CASE ClearsWriter
  BY <1>0, <1>6, SameRecord DEF ClearsWriter
<1>7. CASE FailsPending
  <2>1. Emit(state) /\ runner = "fail"
    BY <1>7 DEF FailsPending
  <2>2. /\ state' = state /\ ui'.boot = ui.boot /\ ui'.epoch = ui.epoch
        /\ ui'.proc = ui.proc
    BY <1>0, <2>1, EmittedAgain DEF Watched
  <2> QED BY <1>0, <1>7, <2>2, SameRecord DEF FailsPending
<1> QED BY <1>1, <1>2, <1>3, <1>4, <1>5, <1>6, <1>7 DEF Serve

\* The retry button: its number and its store are two steps.
LEMMA RetryWatched == Watched /\ (UiRetry \/ Retry) => Watched'
<1> SUFFICES ASSUME Watched, UiRetry \/ Retry PROVE Watched'
  OBVIOUS
<1> USE DEF engineVars, runVars, innerVars
<1>0. /\ state.connected => runner = "serve" /\ ui.proc # 0
      /\ state \in [connected : BOOLEAN, phase : Phases, epoch : Nat, boot : Nat]
      /\ ui.boot = state.boot /\ ui.epoch = state.epoch
      /\ ui.proc \in Nat /\ proc \in Nat /\ greeting \in Nat /\ epoch \in Nat
      /\ engine # "none" => proc # 0
      /\ ui.proc # 0 => proc # 0
  BY DEF Watched, Shown
<1>1. CASE UiRetry
  BY <1>0, <1>1, SameRecord DEF UiRetry
<1>2. CASE RetryBegins
  <2>1. SetPhase("spawning") /\ "spawning" \in Phases
    BY <1>2 DEF RetryBegins, Phases
  <2> QED BY <1>0, <1>2, <2>1, PhaseSet, SameRecord DEF RetryBegins
<1>3. CASE RetrySpawns
  <2>1. CASE SpawnsEngine /\ retry' = "note" /\ UNCHANGED <<state, ui>>
    <3>1. /\ retry = "spawn" /\ UNCHANGED <<runner, runNote, retryNote, bootGen>>
          /\ proc' \in Nat /\ greeting' \in Nat /\ epoch' \in Nat
          /\ proc' # 0
      BY <1>0, <1>3, <2>1 DEF RetrySpawns, SpawnsEngine
    <3>2. Shown'
      BY <1>0, <2>1, <3>1 DEF Shown
    <3>3. Numbered'
      BY <2>1, <3>1 DEF Watched, Numbered
    <3>4. Noticed'
      BY <2>1, <3>1 DEF Watched, Noticed, Numbering
    <3> QED BY <3>2, <3>3, <3>4 DEF Watched
  <2>2. CASE SetPhase("spawn_failed") /\ retry' = "idle" /\ UNCHANGED engineVars
    <3>1. "spawn_failed" \in Phases
      BY DEF Phases
    <3> QED BY <1>0, <1>3, <2>2, <3>1, PhaseSet, SameRecord DEF RetrySpawns
  <2> QED BY <1>3, <2>1, <2>2 DEF RetrySpawns
<1>4. CASE RetryNotes
  <2>1. /\ retry = "note" /\ retry' = "store"
        /\ bootGen' = bootGen + 1 /\ retryNote' = bootGen + 1
        /\ UNCHANGED <<engine, proc, epoch, greeting, runner, runNote, state, ui>>
    BY <1>4 DEF RetryNotes
  <2>2. bootGen \in Nat /\ state.boot \in Nat /\ state.boot <= bootGen
    BY <1>0 DEF Watched, Numbered
  <2>3. Shown'
    BY <1>0, <2>1 DEF Shown
  <2>4. Numbered'
    BY <2>1, <2>2 DEF Watched, Numbered
  <2>5. Noticed'
    BY <2>1 DEF Watched, Noticed, Numbering
  <2> QED BY <2>3, <2>4, <2>5 DEF Watched
<1>5. CASE RetryStores
  <2>1. /\ retry = "store" /\ retry' = "idle"
        /\ Emit([state EXCEPT !.boot = retryNote, !.phase = "connecting"])
        /\ UNCHANGED <<engine, proc, epoch, greeting, runner, runNote, retryNote, bootGen>>
    BY <1>5 DEF RetryStores
  <2>2. retryNote \in 1 .. bootGen /\ retryNote # state.boot /\ bootGen \in Nat
    BY <2>1 DEF Watched, Numbered
  <2>3. retryNote \in Nat /\ retryNote # 0 /\ retryNote <= bootGen
    BY <2>2
  <2>4. /\ state' \in [connected : BOOLEAN, phase : Phases, epoch : Nat, boot : Nat]
        /\ state'.boot = retryNote /\ state'.epoch = state.epoch
        /\ state'.connected = state.connected
        /\ ui'.boot = retryNote /\ ui'.epoch = state.epoch
        /\ ui'.proc \in {0, ui.proc, proc} /\ ui'.proc \in Nat
        /\ state.connected => ui'.proc # 0
        /\ ui.proc = 0 => ui'.proc = 0
        /\ state.boot # 0 => ui'.proc \in {0, proc}
    BY <2>1, <2>2, <2>3, StoredNote
  <2>5. Shown'
    BY <1>0, <2>1, <2>4 DEF Shown
  <2>6. Numbered'
    BY <2>1, <2>3, <2>4 DEF Watched, Numbered
  <2>7. Noticed'
    BY <2>1, <2>3, <2>4 DEF Watched, Noticed, Numbering
  <2> QED BY <2>5, <2>6, <2>7 DEF Watched
<1> QED BY <1>1, <1>2, <1>3, <1>4, <1>5 DEF Retry

LEMMA SendWatched == Watched /\ Send => Watched'
<1>1. Send => UNCHANGED watchedVars
  BY DEF Send, SendRegisters, SendWrites, SendTimesOut, watchedVars, engineVars, runVars,
         retryVars
<1> QED BY <1>1, WatchedStutter

LEMMA StaysWatched == Spec => []Watched
<1>1. Watched /\ [Next]_vars => Watched'
  <2> SUFFICES ASSUME Watched, [Next]_vars PROVE Watched'
    OBVIOUS
  <2>1. CASE Next
    BY <2>1, ProcessWatched, RunWatched, ServeWatched, RetryWatched, SendWatched DEF Next
  <2>2. CASE UNCHANGED vars
    BY <2>2, WatchedStutter
       DEF vars, watchedVars, engineVars, runVars, retryVars, innerVars
  <2> QED BY <2>1, <2>2
<1> QED BY WatchedAtFirst, <1>1, PTL DEF Spec

-----------------------------------------------------------------------------
(***************************************************************************)
(* Theorems                                                                *)
(***************************************************************************)

\* send: a command that waits was written to the connection that is served, or
\* set_disconnected is about to fail it.
THEOREM CommandsAreAnswered == Spec => []NoCommandIsForgotten
<1>1. IInv => NoCommandIsForgotten
  BY DEF IInv
<1> QED BY <1>1, Invariant, PTL

\* PendingMap: no entry outlives its command.
THEOREM MapIsBounded == Spec => []PendingIsInFlight
<1>1. IInv => PendingIsInFlight
  BY DEF IInv
<1> QED BY <1>1, Invariant, PTL

\* boot_gen and the epoch: an interface that shows a connection shows the record of
\* the engine that is connected, whichever of the loop and the retry button spawned
\* it and in whatever order their numbers were stored.
THEOREM EngineChangesAreNoticed == Spec => []EngineChangeIsNoticed
<1>1. Watched => EngineChangeIsNoticed
  BY DEF Watched, Shown, Noticed, Numbering, EngineChangeIsNoticed, Settled
<1> QED BY <1>1, StaysWatched, PTL
=============================================================================
