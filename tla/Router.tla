------------------------------ MODULE Router ------------------------------
(***************************************************************************)
(* The engine's command path: the pipe thread that serves one client at a  *)
(* time, the main thread that runs posted messages, the Router that        *)
(* dispatches commands and broadcasts what changed, and the client's       *)
(* record of the engine.                                                   *)
(*                                                                         *)
(* The engine's state is a stamp: two states a session file would store    *)
(* alike have the same stamp.  engine_mutex_ makes connect, disconnect and *)
(* a dispatch atomic against each other; the generation check of the main  *)
(* thread is outside it.                                                   *)
(***************************************************************************)
EXTENDS Integers, Sequences

CONSTANTS
  Kinds,          \* the commands the client sends
  HostKinds,      \* what editor windows and audio threads post
  MaxConnections, MaxAsks, MaxPosts, MaxEdits, MaxThrows    \* bounds

AllKinds     == {"query", "edit", "param", "stream", "save", "load", "ensure"}
AllHostKinds == {"bypass", "preset", "savePreset", "trackFailed", "latency"}

ASSUME KindsAssumption  == Kinds \subseteq AllKinds /\ HostKinds \subseteq AllHostKinds
ASSUME BoundsAssumption ==
  {MaxConnections, MaxAsks, MaxPosts, MaxEdits, MaxThrows} \subseteq Nat

VARIABLES
  content,     \* the engine's state, as a stamp
  baseline,    \* the stamp last written to or read from a session file
  stamp,       \* the newest stamp
  revision,    \* revision_
  epoch,       \* epoch_
  place,       \* where the pipe thread is
  gen,         \* g_conn_gen
  sinkGen,     \* connection_generation_
  sinkOn,      \* frame_sink_ is set
  queue,       \* messages posted to the main window
  task,        \* the message the main thread has taken
  requests,    \* commands in the pipe
  frames,      \* frames in the pipe
  online,      \* the client holds the pipe open
  pending,     \* commands the client waits for
  replies,     \* replies whose continuation has not run
  ui,          \* what the user interface knows
  used         \* how much of each bound is used

engineVars == <<content, baseline, stamp, revision, epoch>>
pipeVars   == <<place, gen, sinkGen, sinkOn>>
mainVars   == <<queue, task>>
clientVars == <<online, pending, replies, ui>>
vars == <<engineVars, pipeVars, mainVars, requests, frames, clientVars, used>>

None == [gen |-> 0, id |-> 0, kind |-> "none"]

NoRevision == -1

Ids    == 1 .. MaxAsks
Gens   == 0 .. MaxConnections
Stamps == 0 .. (MaxAsks + MaxPosts + MaxEdits)
Revisions == 0 .. (MaxAsks + MaxPosts)

Commands == [id : Ids, kind : Kinds]
Tasks    == [gen : Gens, id : Ids, kind : Kinds] \cup [gen : {0}, id : {0}, kind : HostKinds]
Replies  == [type : {"reply"}, id : Ids, kind : Kinds, ok : BOOLEAN,
             content : Stamps, revision : {NoRevision} \cup Revisions]
Events   == [type : {"snapshot", "status"}, content : Stamps, revision : Revisions]

TypeOK ==
  /\ content \in Stamps /\ baseline \in Stamps /\ stamp \in Stamps
  /\ revision \in Revisions /\ epoch \in Revisions
  /\ place \in {"listen", "connect", "serve", "leave"}
  /\ gen \in Gens /\ sinkGen \in Gens /\ sinkOn \in BOOLEAN
  /\ queue \in Seq(Tasks) /\ task \in {None} \cup Tasks
  /\ requests \in Seq(Commands) /\ frames \in Seq(Events \cup Replies)
  /\ online \in BOOLEAN /\ pending \in SUBSET Ids /\ replies \in SUBSET Replies
  /\ ui \in [content : Stamps, revision : {NoRevision} \cup Revisions,
             clean : {NoRevision} \cup Revisions]
  /\ used \in [asks : 0 .. MaxAsks, posts : 0 .. MaxPosts, edits : 0 .. MaxEdits,
               throws : 0 .. MaxThrows]

Init ==
  /\ content = 0 /\ baseline = 0 /\ stamp = 0
  /\ revision = 0 /\ epoch = 0
  /\ place = "listen" /\ gen = 0
  /\ sinkGen = 0 /\ sinkOn = FALSE
  /\ queue = <<>> /\ task = None
  /\ requests = <<>> /\ frames = <<>>
  /\ online = FALSE /\ pending = {} /\ replies = {}
  /\ ui = [content |-> 0, revision |-> NoRevision, clean |-> NoRevision]
  /\ used = [asks |-> 0, posts |-> 0, edits |-> 0, throws |-> 0]

-----------------------------------------------------------------------------
(***************************************************************************)
(* Sending.  A frame written to a client that has gone is dropped.         *)
(***************************************************************************)

Event(type) == [type |-> type, content |-> content', revision |-> revision']

SendCurrent(s) == IF sinkOn /\ online THEN frames \o s ELSE frames

SendTo(generation, s) == IF generation = sinkGen THEN SendCurrent(s) ELSE frames

Advances(effect) == effect \in {"dirty", "silent"}     \* policy_for

\* Fault: only a change of the stream is broadcast.
Broadcasts_Stream(effect) == effect = "status"

Broadcasts(effect) == effect \in {"dirty", "status"}     \* policy_for

-----------------------------------------------------------------------------
(***************************************************************************)
(* The pipe thread: pipe_serve_inner and serve_client.                     *)
(***************************************************************************)

\* ConnectNamedPipe returns: another generation begins.
Accept ==
  /\ place = "listen"
  /\ gen < MaxConnections
  /\ place' = "connect"
  /\ gen' = gen + 1
  /\ online' = TRUE
  /\ UNCHANGED <<engineVars, sinkGen, sinkOn, mainVars, requests, frames, pending,
                 replies, ui, used>>

\* auth_client fails; Router::disconnect finds another generation in charge.
AuthFails ==
  /\ place = "connect"
  /\ place' = "listen"
  /\ online' = FALSE
  /\ requests' = <<>>
  /\ pending' = {}
  /\ UNCHANGED <<engineVars, gen, sinkGen, sinkOn, mainVars, frames, replies, ui, used>>

\* Router::connect
Connect ==
  /\ place = "connect"
  /\ place' = "serve"
  /\ sinkGen' = gen
  /\ sinkOn' = TRUE
  /\ UNCHANGED engineVars
  /\ frames' = IF online THEN Append(frames, Event("snapshot")) ELSE frames
  /\ UNCHANGED <<gen, mainVars, requests, clientVars, used>>

\* A frame is read, parsed and posted.
ServeReads ==
  /\ place = "serve"
  /\ requests # <<>>
  /\ requests' = Tail(requests)
  /\ queue' = Append(queue, [gen |-> gen, id |-> Head(requests).id,
                             kind |-> Head(requests).kind])
  /\ UNCHANGED <<engineVars, pipeVars, task, frames, clientVars, used>>

\* The read fails when the client has closed its end.
ServeEnds ==
  /\ place = "serve"
  /\ requests = <<>> /\ ~online
  /\ place' = "leave"
  /\ UNCHANGED <<engineVars, gen, sinkGen, sinkOn, mainVars, requests, frames,
                 clientVars, used>>

\* A malformed frame, a full message queue or two minutes of silence.
ServeGivesUp ==
  /\ place = "serve"
  /\ place' = "leave"
  /\ UNCHANGED <<engineVars, gen, sinkGen, sinkOn, mainVars, requests, frames,
                 clientVars, used>>

\* Router::disconnect, then the pipe is closed and what is in it discarded.
Disconnect ==
  /\ place = "leave"
  /\ place' = "listen"
  /\ sinkOn' = (sinkOn /\ sinkGen # gen)
  /\ online' = FALSE
  /\ requests' = <<>>
  /\ frames' = <<>>
  /\ pending' = {}
  /\ UNCHANGED <<engineVars, gen, sinkGen, mainVars, replies, ui, used>>

-----------------------------------------------------------------------------
(***************************************************************************)
(* The main thread: main_wnd_proc.                                         *)
(***************************************************************************)

\* Fault: the newest generation counts as an old one.
Stale_OffByOne(t) == t.id # 0 /\ t.gen <= gen

\* A command of an older connection; host messages have no generation.
Stale(t) == t.id # 0 /\ t.gen # gen

MainTakes ==
  /\ task = None
  /\ queue # <<>>
  /\ queue' = Tail(queue)
  /\ task' = IF Stale(Head(queue)) THEN None ELSE Head(queue)
  /\ UNCHANGED <<engineVars, pipeVars, requests, frames, clientVars, used>>

IsCommand(kinds) == task.id # 0 /\ task.kind \in kinds

Reply(ok, rev) ==
  [type |-> "reply", id |-> task.id, kind |-> task.kind, ok |-> ok,
   content |-> content', revision |-> rev]

Finished == task' = None /\ UNCHANGED <<queue, requests, pipeVars, clientVars>>

\* Fault: the reply is sent before the status it belongs to.
Complete_ReplyFirst(effect, rev) ==
  /\ revision' = IF Advances(effect) THEN revision + 1 ELSE revision
  /\ epoch' = IF Broadcasts(effect) THEN epoch + 1 ELSE epoch
  /\ frames' = SendTo(task.gen, IF Broadcasts(effect)
                                THEN <<Reply(TRUE, rev), Event("status")>>
                                ELSE <<Reply(TRUE, rev)>>)

\* Fault: the answer goes to whoever is connected.
Complete_Current(effect, rev) ==
  /\ revision' = IF Advances(effect) THEN revision + 1 ELSE revision
  /\ epoch' = IF Broadcasts(effect) THEN epoch + 1 ELSE epoch
  /\ frames' = SendCurrent(IF Broadcasts(effect)
                           THEN <<Event("status"), Reply(TRUE, rev)>>
                           ELSE <<Reply(TRUE, rev)>>)

\* complete, for an outcome that is ok
Complete(effect, rev) ==
  /\ revision' = IF Advances(effect) THEN revision + 1 ELSE revision
  /\ epoch' = IF Broadcasts(effect) THEN epoch + 1 ELSE epoch
  /\ frames' = SendTo(task.gen, IF Broadcasts(effect)
                                THEN <<Event("status"), Reply(TRUE, rev)>>
                                ELSE <<Reply(TRUE, rev)>>)

\* complete, for a failure; some push the status as well
Refuse(push) ==
  /\ UNCHANGED engineVars
  /\ frames' = SendTo(task.gen, IF push THEN <<Reply(FALSE, NoRevision), Event("status")>>
                                ELSE <<Reply(FALSE, NoRevision)>>)

Changes == stamp' = stamp + 1 /\ content' = stamp'

DispatchQuery ==
  /\ IsCommand({"query"})
  /\ UNCHANGED <<content, baseline, stamp>>
  /\ Complete("none", NoRevision)
  /\ Finished /\ UNCHANGED used

\* Track, plugin and routing commands.
DispatchEdit ==
  /\ IsCommand({"edit"})
  /\ \/ Changes /\ UNCHANGED baseline /\ Complete("dirty", NoRevision)
     \/ \E push \in BOOLEAN : Refuse(push)
  /\ Finished /\ UNCHANGED used

\* set_param
DispatchParam ==
  /\ IsCommand({"param"})
  /\ \/ Changes /\ UNCHANGED baseline /\ Complete("silent", NoRevision)
     \/ Refuse(FALSE)
  /\ Finished /\ UNCHANGED used

\* start and stop
DispatchStream ==
  /\ IsCommand({"stream"})
  /\ \/ UNCHANGED <<content, baseline, stamp>> /\ Complete("status", NoRevision)
     \/ \E push \in BOOLEAN : Refuse(push)
  /\ Finished /\ UNCHANGED used

DispatchSave ==
  /\ IsCommand({"save"})
  /\ \/ /\ baseline' = content /\ UNCHANGED <<content, stamp>>
        /\ Complete("none", revision)
     \/ Refuse(FALSE)
  /\ Finished /\ UNCHANGED used

\* Fault: the reply holds the revision from before the load.
LoadedRevision_Old == revision

LoadedRevision == revision + 1

DispatchLoad ==
  /\ IsCommand({"load"})
  /\ \/ Changes /\ baseline' = content' /\ Complete("dirty", LoadedRevision)
     \/ Refuse(FALSE)
  /\ Finished /\ UNCHANGED used

\* ensure_system_outputs: what it makes of an empty scene is a baseline, too.
DispatchEnsure ==
  /\ IsCommand({"ensure"})
  /\ \/ Changes /\ baseline' = content' /\ Complete("dirty", revision + 1)
     \/ baseline' = content /\ UNCHANGED <<content, stamp>> /\ Complete("none", revision)
  /\ Finished /\ UNCHANGED used

\* dispatch_guarded: a handler throws; what it had done by then stays.
DispatchThrows ==
  /\ task.id # 0
  /\ used.throws < MaxThrows
  /\ used' = [used EXCEPT !.throws = @ + 1]
  /\ Changes \/ UNCHANGED <<content, stamp>>
  /\ UNCHANGED <<baseline, revision, epoch>>
  /\ frames' = SendTo(task.gen, <<Reply(FALSE, NoRevision)>>)
  /\ Finished

\* publish_effect
Publish(effect) ==
  /\ revision' = IF Advances(effect) THEN revision + 1 ELSE revision
  /\ epoch' = IF Broadcasts(effect) /\ sinkOn THEN epoch + 1 ELSE epoch
  /\ frames' = IF Broadcasts(effect) THEN SendCurrent(<<Event("status")>>) ELSE frames

IsHost(kinds) == task.id = 0 /\ task.kind \in kinds

HostMutates ==
  /\ IsHost({"bypass", "preset"})
  /\ \/ Changes /\ Publish("dirty")
     \/ UNCHANGED <<content, stamp>> /\ Publish("status")      \* it failed
     \/ UNCHANGED <<content, stamp, revision, epoch, frames>>   \* unknown instance
  /\ UNCHANGED baseline
  /\ Finished /\ UNCHANGED used

HostSavesPreset ==
  /\ IsHost({"savePreset"})
  /\ UNCHANGED <<content, baseline, stamp>>
  /\ Publish("status") \/ UNCHANGED <<revision, epoch, frames>>
  /\ Finished /\ UNCHANGED used

\* handle_track_failed
TrackFailed ==
  /\ IsHost({"trackFailed"})
  /\ UNCHANGED <<content, baseline, stamp>>
  /\ Publish("status")
  /\ Finished /\ UNCHANGED used

\* handle_latency_changed
LatencyChanged ==
  /\ IsHost({"latency"})
  /\ UNCHANGED engineVars
  /\ frames' = SendCurrent(<<Event("status")>>)
  /\ Finished /\ UNCHANGED used

\* PostMessage of a host command or a notice.
Post(kind) ==
  /\ used.posts < MaxPosts
  /\ used' = [used EXCEPT !.posts = @ + 1]
  /\ queue' = Append(queue, [gen |-> 0, id |-> 0, kind |-> kind])
  /\ UNCHANGED <<engineVars, pipeVars, task, requests, frames, clientVars>>

\* performEdit of a plugin's editor, on the main thread between two messages.
EditorEdits ==
  /\ task = None
  /\ used.edits < MaxEdits
  /\ used' = [used EXCEPT !.edits = @ + 1]
  /\ Changes
  /\ UNCHANGED <<baseline, revision, epoch, pipeVars, mainVars, requests, frames,
                 clientVars>>

-----------------------------------------------------------------------------
(***************************************************************************)
(* The client: the bridge's pending replies, and revisionDirty.            *)
(***************************************************************************)

Ask(kind) ==
  /\ online
  /\ used.asks < MaxAsks
  /\ used' = [used EXCEPT !.asks = @ + 1]
  /\ requests' = Append(requests, [id |-> used'.asks, kind |-> kind])
  /\ pending' = pending \cup {used'.asks}
  /\ UNCHANGED <<engineVars, pipeVars, mainVars, frames, online, replies, ui>>

\* The bridge reads a frame: an event is applied, a reply completes its promise.
BridgeReads ==
  /\ frames # <<>>
  /\ frames' = Tail(frames)
  /\ LET f == Head(frames) IN
       IF f.type = "reply"
       THEN /\ pending' = pending \ {f.id}
            /\ replies' = IF f.id \in pending THEN replies \cup {f} ELSE replies
            /\ UNCHANGED ui
       ELSE /\ ui' = [ui EXCEPT !.content = f.content, !.revision = f.revision]
            /\ UNCHANGED <<pending, replies>>
  /\ UNCHANGED <<engineVars, pipeVars, mainVars, requests, online, used>>

\* The promise's continuation: baselineConfirmed after save, load and ensure.
Resolve(r) ==
  /\ r \in replies
  /\ replies' = replies \ {r}
  /\ ui' = IF r.ok /\ r.kind \in {"save", "load", "ensure"}
           THEN [ui EXCEPT !.revision = r.revision, !.clean = r.revision]
           ELSE ui
  /\ UNCHANGED <<engineVars, pipeVars, mainVars, requests, frames, online, pending, used>>

\* The client goes; what it waits for fails.
Drop ==
  /\ online
  /\ online' = FALSE
  /\ frames' = <<>>
  /\ pending' = {}
  /\ UNCHANGED <<engineVars, pipeVars, mainVars, requests, replies, ui, used>>

-----------------------------------------------------------------------------

PipeThread == \/ Accept \/ AuthFails \/ Connect
              \/ ServeReads \/ ServeEnds \/ ServeGivesUp \/ Disconnect

Dispatch == \/ DispatchQuery \/ DispatchEdit \/ DispatchParam \/ DispatchStream
            \/ DispatchSave \/ DispatchLoad \/ DispatchEnsure \/ DispatchThrows
            \/ HostMutates \/ HostSavesPreset \/ TrackFailed \/ LatencyChanged

MainThread == MainTakes \/ Dispatch

Next ==
  \/ PipeThread
  \/ MainThread
  \/ EditorEdits
  \/ \E kind \in HostKinds : Post(kind)
  \/ \E kind \in Kinds : Ask(kind)
  \/ BridgeReads
  \/ \E r \in replies : Resolve(r)
  \/ Drop

Spec == Init /\ [][Next]_vars

\* The engine's two threads run, and the bridge reads its pipe.
Fairness == /\ WF_vars(Connect \/ ServeReads \/ ServeEnds \/ Disconnect)
            /\ WF_vars(MainThread)
            /\ WF_vars(BridgeReads)

FairSpec == Spec /\ Fairness

-----------------------------------------------------------------------------
(***************************************************************************)
(* Properties                                                              *)
(***************************************************************************)

IsReply(f) == f.type = "reply"

\* "exactly one reply per command", to the connection that asked: a reply in the
\* pipe is one the client waits for, and no two answer the same command.
RepliesAreAsked ==
  \A i \in DOMAIN frames :
    IsReply(frames[i]) =>
      /\ frames[i].id \in pending
      /\ \A j \in DOMAIN frames : IsReply(frames[j]) /\ frames[j].id = frames[i].id => i = j

\* Stamps the client has seen when it has read the first n frames.
Seen(n) == {ui.content} \cup {frames[i].content : i \in {k \in 1 .. n : ~IsReply(frames[k])}}

\* The status precedes the reply: when a broadcast change is acknowledged the
\* client has seen it, or something newer.
StatusBeforeReply ==
  \A n \in DOMAIN frames :
    IsReply(frames[n]) /\ frames[n].ok /\ frames[n].kind \in {"edit", "load"}
      => \E c \in Seen(n) : c >= frames[n].content

Quiet == /\ place = "serve" /\ online
         /\ queue = <<>> /\ task = None
         /\ requests = <<>> /\ frames = <<>> /\ replies = {}

\* "get_snapshot after a reconnection aligns": a client that has read everything
\* shows the state of the engine.
ViewIsCurrent == Quiet => ui.content = content

\* On the first connection, as long as no handler throws and every change is one
\* the engine announces: no status is lost or overtaken by an older one.
FirstViewIsCurrent ==
  gen = 1 /\ used.throws = 0 /\ used.edits = 0 /\ "param" \notin Kinds => ViewIsCurrent

\* The baseline the interface holds is a revision at which the engine held what
\* the file held: save, load and ensure_system_outputs reply with the revision
\* of the state they leave.
BaselineIsCurrent ==
  \A r \in replies :
    r.ok /\ r.kind \in {"save", "load", "ensure"} /\ r.content = content
      => r.revision = revision

\* "revision: all successful mutations, for the client's dirty flag": an
\* interface that shows no unsaved changes hides none.
CleanMeansSaved ==
  Quiet /\ ui.clean # NoRevision /\ ui.revision = ui.clean => content = baseline

\* "performEdit: like set_param", and set_param moves the revision: an edit in a
\* plugin's window moves it.
EditsMoveTheRevision == [][EditorEdits => revision' # revision]_vars

\* "epoch: +1 for each successful mutation".
EpochCountsMutations ==
  [][HostMutates /\ content' # content => epoch' = epoch + 1]_vars

\* Every command is answered, or its connection ends.
CommandsEnd == \A id \in Ids : id \in pending ~> id \notin pending
=============================================================================
