---------------------------- MODULE Router_proofs ----------------------------
(***************************************************************************)
(* Proofs about Router, for any commands, host messages, connections,      *)
(* edits and failures: every command is answered once, to the connection   *)
(* that asked; a status is never overtaken by the reply that belongs to    *)
(* it; and what a reply says of the revision was so.                       *)
(***************************************************************************)
EXTENDS Router, SequenceTheorems, TLAPS

(***************************************************************************)
(* The invariant.                                                          *)
(***************************************************************************)

IsEvent(f) == ~IsReply(f)

\* Messages on their way to a dispatch.
Outstanding == Len(requests) + Len(queue) + (IF task = None THEN 0 ELSE 1)

\* A message is dispatched once, and a dispatch moves each counter once.
Counted ==
  /\ content = stamp
  /\ revision + Outstanding <= used.asks + used.posts
  /\ epoch + Outstanding <= used.asks + used.posts
  /\ stamp + Outstanding <= used.asks + used.posts + used.edits

\* The sink is that of the connection that is served, and what the pipe holds
\* is for its client.
Connected ==
  /\ sinkOn <=> place \in {"serve", "leave"}
  /\ sinkOn => sinkGen = gen
  /\ place # "listen" => gen >= 1
  /\ place = "listen" => ~online /\ requests = <<>>
  /\ ~online \/ ~sinkOn => frames = <<>>

\* A command that has been posted belongs to a connection there has been.
Posted(t) == t.id # 0 => t.gen \in 1 .. gen

\* A command is in one place: the pipe, the queue, the main thread, or its
\* reply in the pipe.
IsOnce ==
  /\ \A i, j \in DOMAIN requests : requests[i].id = requests[j].id => i = j
  /\ \A i, j \in DOMAIN queue : queue[i].id # 0 /\ queue[i].id = queue[j].id => i = j
  /\ \A i, j \in DOMAIN frames :
       IsReply(frames[i]) /\ IsReply(frames[j]) /\ frames[i].id = frames[j].id => i = j

IsInOnePlace ==
  /\ \A i \in DOMAIN requests :
       /\ requests[i].id # task.id
       /\ \A j \in DOMAIN queue : requests[i].id # queue[j].id
       /\ \A j \in DOMAIN frames : IsReply(frames[j]) => requests[i].id # frames[j].id
  /\ \A i \in DOMAIN queue : queue[i].id # 0 =>
       /\ queue[i].id # task.id
       /\ \A j \in DOMAIN frames : IsReply(frames[j]) => queue[i].id # frames[j].id
  /\ \A j \in DOMAIN frames : IsReply(frames[j]) => frames[j].id # task.id

\* No command has an id yet to be given.
IsKnown ==
  /\ \A i \in DOMAIN requests : requests[i].id <= used.asks
  /\ \A i \in DOMAIN queue : queue[i].id <= used.asks
  /\ task.id <= used.asks
  /\ \A i \in DOMAIN frames : IsReply(frames[i]) => frames[i].id <= used.asks

\* What the connection's client asked and has not read the reply of, it waits for.
IsAwaited ==
  /\ \A i \in DOMAIN queue : Posted(queue[i])
  /\ Posted(task)
  /\ online =>
       /\ \A i \in DOMAIN requests : requests[i].id \in pending
       /\ \A i \in DOMAIN queue : queue[i].id # 0 /\ queue[i].gen = gen
            => queue[i].id \in pending
       /\ task.id # 0 /\ task.gen = gen => task.id \in pending
  /\ \A i \in DOMAIN frames : IsReply(frames[i]) => frames[i].id \in pending

\* The client sees the engine's states in their order.
InOrder ==
  /\ ui.content <= content
  /\ \A i \in DOMAIN frames :
       /\ frames[i].content <= content
       /\ IsEvent(frames[i]) => ui.content <= frames[i].content
  /\ \A i, j \in DOMAIN frames :
       i < j /\ IsEvent(frames[i]) /\ IsEvent(frames[j])
         => frames[i].content <= frames[j].content

\* The client has seen, or will have seen before frame n, a state as new as c.
SeenBefore(n, c) ==
  ui.content >= c \/ \E k \in 1 .. n - 1 : IsEvent(frames[k]) /\ frames[k].content >= c

Acknowledged ==
  \A n \in DOMAIN frames :
    IsReply(frames[n]) /\ frames[n].ok /\ frames[n].kind \in {"edit", "load"}
      => SeenBefore(n, frames[n].content)

\* A baseline of the state the engine is in has its revision.
IsBaseline(r) == r.ok /\ r.kind \in {"save", "load", "ensure"}

Truthful(r) ==
  /\ r.content <= content
  /\ IsBaseline(r) /\ r.content = content => r.revision = revision

Baselines ==
  /\ \A r \in replies : Truthful(r)
  /\ \A i \in DOMAIN frames : IsReply(frames[i]) => Truthful(frames[i])

\* The state the engine is in is on its way to the client.
Announced ==
  gen = 1 /\ used.throws = 0 /\ used.edits = 0 /\ "param" \notin Kinds /\ online /\ sinkOn =>
    \/ ui.content = content
    \/ \E k \in DOMAIN frames : IsEvent(frames[k]) /\ frames[k].content = content

IInv ==
  /\ TypeOK /\ Counted /\ Connected
  /\ IsOnce /\ IsInOnePlace /\ IsKnown /\ IsAwaited
  /\ InOrder /\ Acknowledged /\ Baselines /\ Announced

(***************************************************************************)
(* A dispatch, as the invariant sees it.                                   *)
(***************************************************************************)

\* What it does to the engine: nothing, or a step of each counter.
Moved ==
  /\ task # None /\ task' = None
  /\ UNCHANGED <<queue, requests, pipeVars, clientVars>>
  /\ \/ UNCHANGED <<content, stamp, revision>>
     \/ content' = stamp + 1 /\ stamp' = stamp + 1 /\ revision' \in {revision, revision + 1}
  /\ baseline' \in {baseline, content'}
  /\ epoch' \in {epoch, epoch + 1}
  /\ used' \in {used, [used EXCEPT !.throws = @ + 1]}
  /\ used'.throws \in 0 .. MaxThrows

\* What it sends: one reply at most, to the connection that asked, after the
\* status of what it changed.
Sent(s) ==
  /\ s \in Seq(Events \cup Replies)
  /\ frames' = frames \o s
  /\ s # <<>> => sinkOn /\ online
  /\ \A i \in DOMAIN s : s[i].content = content'
  /\ \A i \in DOMAIN s : IsReply(s[i]) =>
       /\ s[i].id = task.id /\ task.id # 0 /\ task.gen = gen
       /\ IsBaseline(s[i]) => s[i].revision = revision'
       /\ \A j \in DOMAIN s : IsReply(s[j]) => i = j
       /\ s[i].ok /\ s[i].kind \in {"edit", "load"} => \E k \in 1 .. i - 1 : IsEvent(s[k])
  /\ gen = 1 /\ used'.throws = 0 /\ "param" \notin Kinds /\ online /\ sinkOn
       /\ content' # content
       => \E k \in DOMAIN s : IsEvent(s[k])

\* While a message is dispatched, there is room for what it does.
LEMMA RoomForOne ==
    ASSUME IInv, task # None
    PROVE  /\ task \in Tasks
           /\ content = stamp /\ stamp \in Stamps /\ stamp + 1 \in Stamps
           /\ revision \in Revisions /\ revision + 1 \in Revisions
           /\ epoch \in Revisions /\ epoch + 1 \in Revisions
<1>1. Len(requests) \in Nat /\ Len(queue) \in Nat
  BY DEF IInv, TypeOK
<1>2. Outstanding >= 1
  BY <1>1 DEF Outstanding
<1>3. Outstanding \in Nat
  BY <1>1 DEF Outstanding
<1>4. /\ used.asks \in 0 .. MaxAsks /\ used.posts \in 0 .. MaxPosts
      /\ used.edits \in 0 .. MaxEdits
      /\ MaxAsks \in Nat /\ MaxPosts \in Nat /\ MaxEdits \in Nat
  BY BoundsAssumption DEF IInv, TypeOK
<1>5. content \in Nat /\ stamp \in Nat /\ revision \in Nat /\ epoch \in Nat
  BY DEF IInv, TypeOK, Stamps, Revisions
<1>6. stamp + 1 \in Stamps
  BY <1>2, <1>3, <1>4, <1>5 DEF IInv, Counted, Stamps
<1>7. revision + 1 \in Revisions /\ epoch + 1 \in Revisions
  BY <1>2, <1>3, <1>4, <1>5 DEF IInv, Counted, Revisions
<1> QED BY <1>6, <1>7 DEF IInv, TypeOK, Counted

LEMMA CommandIs ==
    ASSUME task \in Tasks, task.id # 0
    PROVE  task.id \in Ids /\ task.kind \in Kinds /\ task.gen \in Gens
BY DEF Tasks

LEMMA HostIs ==
    ASSUME task \in Tasks, task.id = 0
    PROVE  task.kind \in HostKinds
BY DEF Tasks, Ids

\* What is sent reaches the pipe whole, or not at all.
LEMMA SentIsTyped ==
    ASSUME NEW e \in Events, NEW r \in Replies
    PROVE  <<>> \in Seq(Events \cup Replies) /\ <<e>> \in Seq(Events \cup Replies)
           /\ <<r>> \in Seq(Events \cup Replies)
           /\ <<e, r>> \in Seq(Events \cup Replies) /\ <<r, e>> \in Seq(Events \cup Replies)
OBVIOUS

LEMMA ReplyType ==
    ASSUME task \in Tasks, task.id # 0, content' \in Stamps,
           NEW ok \in BOOLEAN, NEW rev \in {NoRevision} \cup Revisions
    PROVE  /\ Reply(ok, rev) \in Replies
           /\ Reply(ok, rev).type = "reply" /\ Reply(ok, rev).id = task.id
           /\ Reply(ok, rev).kind = task.kind /\ Reply(ok, rev).ok = ok
           /\ Reply(ok, rev).content = content' /\ Reply(ok, rev).revision = rev
BY CommandIs DEF Reply, Replies

LEMMA EventType ==
    ASSUME content' \in Stamps, revision' \in Revisions, NEW type \in {"snapshot", "status"}
    PROVE  /\ Event(type) \in Events
           /\ Event(type).type = type
           /\ Event(type).content = content' /\ Event(type).revision = revision'
BY DEF Event, Events

LEMMA CompleteSends ==
    ASSUME IInv, task \in Tasks, task.id # 0, content' \in Stamps, revision' \in Revisions,
           NEW effect, NEW rev \in {NoRevision} \cup Revisions, Complete(effect, rev),
           task.kind \in {"edit", "load"} => Broadcasts(effect),
           task.kind \in {"save", "load", "ensure"} => rev = revision',
           content' # content /\ "param" \notin Kinds => Broadcasts(effect)
    PROVE  \E s : Sent(s)
<1> DEFINE r == Reply(TRUE, rev)
           e == Event("status")
           s == IF Broadcasts(effect) THEN <<e, r>> ELSE <<r>>
<1>1. /\ r \in Replies /\ IsReply(r) /\ r.id = task.id /\ r.kind = task.kind /\ r.ok
      /\ r.content = content' /\ r.revision = rev
  BY ReplyType DEF IsReply
<1>2. e \in Events /\ IsEvent(e) /\ e.content = content'
  BY EventType DEF IsReply, IsEvent
<1>3. s \in Seq(Events \cup Replies)
  <2> HIDE DEF r, e
  <2> QED BY <1>1, <1>2, SentIsTyped
<1>4. frames \in Seq(Events \cup Replies)
  BY DEF IInv, TypeOK
<1> HIDE DEF r, e
<1>6. CASE task.gen = sinkGen /\ sinkOn /\ online
  <2>1. frames' = frames \o s
    BY <1>6 DEF Complete, SendTo, SendCurrent, r, e
  <2>2. task.gen = gen
    BY <1>6 DEF IInv, Connected
  <2>3. CASE Broadcasts(effect)
    <3>1. s = <<e, r>>
      BY <2>3
    <3>2. 2 \in DOMAIN s /\ s[1] = e /\ s[2] = r /\ DOMAIN s = {1, 2}
      BY <3>1
    <3> HIDE DEF s
    <3>3. IsEvent(s[1]) /\ \A i \in DOMAIN s : IsReply(s[i]) => i = 2 /\ s[i] = r
      BY <1>1, <1>2, <3>2 DEF IsEvent
    <3>4. \A i \in DOMAIN s : s[i].content = content'
      BY <1>1, <1>2, <3>2
    <3>5. 1 \in 1 .. 2 - 1
      OBVIOUS
    <3>6. \A i \in DOMAIN s : IsReply(s[i]) =>
            /\ s[i].id = task.id /\ task.id # 0 /\ task.gen = gen
            /\ IsBaseline(s[i]) => s[i].revision = revision'
            /\ \A j \in DOMAIN s : IsReply(s[j]) => i = j
            /\ s[i].ok /\ s[i].kind \in {"edit", "load"} => \E k \in 1 .. i - 1 : IsEvent(s[k])
      BY <1>1, <2>2, <3>3, <3>5 DEF IsBaseline
    <3>7. \E k \in DOMAIN s : IsEvent(s[k])
      BY <3>2, <3>3
    <3>8. Sent(s)
      BY <1>3, <1>6, <2>1, <3>4, <3>6, <3>7 DEF Sent
    <3> QED BY <3>8
  <2>4. CASE ~Broadcasts(effect)
    <3>1. s = <<r>>
      BY <2>4
    <3>2. s[1] = r /\ DOMAIN s = {1}
      BY <3>1
    <3>3. Sent(s)
      BY <1>1, <1>2, <1>3, <2>1, <2>2, <2>4, <1>6, <3>2 DEF Sent, IsBaseline, IsEvent
    <3> QED BY <3>3
  <2> QED BY <2>3, <2>4
<1>7. CASE ~(task.gen = sinkGen /\ sinkOn /\ online)
  <2>1. frames' = frames \o <<>>
    BY <1>4, <1>7 DEF Complete, SendTo, SendCurrent
  <2>2. ~(gen = 1 /\ online /\ sinkOn)
    BY <1>7, CommandIs DEF IInv, Connected, IsAwaited, Posted
  <2>3. Sent(<<>>)
    BY <2>1, <2>2 DEF Sent
  <2> QED BY <2>3
<1> QED BY <1>6, <1>7

LEMMA RefuseSends ==
    ASSUME IInv, task \in Tasks, task.id # 0, content' \in Stamps, revision' \in Revisions,
           NEW s \in {<<Reply(FALSE, NoRevision)>>, <<Reply(FALSE, NoRevision), Event("status")>>},
           frames' = SendTo(task.gen, s), content' = content \/ used'.throws # 0
    PROVE  \E t : Sent(t)
<1> DEFINE r == Reply(FALSE, NoRevision)
           e == Event("status")
<1>1. r \in Replies /\ IsReply(r) /\ r.id = task.id /\ r.ok = FALSE /\ r.content = content'
  BY ReplyType DEF IsReply
<1>2. e \in Events /\ IsEvent(e) /\ e.content = content'
  BY EventType DEF IsReply, IsEvent
<1>5. s = <<r>> \/ s = <<r, e>>
  OBVIOUS
<1>3. s \in Seq(Events \cup Replies)
  <2> HIDE DEF r, e
  <2> QED BY <1>1, <1>2, <1>5, SentIsTyped
<1>4. frames \in Seq(Events \cup Replies)
  BY DEF IInv, TypeOK
<1> HIDE DEF r, e
<1>6. CASE task.gen = sinkGen /\ sinkOn /\ online
  <2>1. frames' = frames \o s
    BY <1>6 DEF SendTo, SendCurrent
  <2>2. task.gen = gen
    BY <1>6 DEF IInv, Connected
  <2>3. Sent(s)
    BY <1>1, <1>2, <1>3, <1>5, <2>1, <2>2, <1>6 DEF Sent, IsBaseline, IsEvent
  <2> QED BY <2>3
<1>7. CASE ~(task.gen = sinkGen /\ sinkOn /\ online)
  <2>1. frames' = frames \o <<>>
    BY <1>4, <1>7 DEF SendTo, SendCurrent
  <2>2. Sent(<<>>)
    BY <2>1 DEF Sent
  <2> QED BY <2>2
<1> QED BY <1>6, <1>7

LEMMA PublishSends ==
    ASSUME IInv, content' \in Stamps, revision' \in Revisions,
           \/ frames' = SendCurrent(<<Event("status")>>)
           \/ frames' = frames /\ content' = content
    PROVE  \E s : Sent(s)
<1> DEFINE e == Event("status")
<1>1. e \in Events /\ IsEvent(e) /\ e.content = content'
  BY EventType DEF IsReply, IsEvent
<1>2. frames \in Seq(Events \cup Replies)
  BY DEF IInv, TypeOK
<1> HIDE DEF e
<1>3. CASE frames' = SendCurrent(<<e>>) /\ sinkOn /\ online
  <2>1. frames' = frames \o <<e>>
    BY <1>3 DEF SendCurrent
  <2>2. Sent(<<e>>)
    BY <1>1, <1>3, <2>1 DEF Sent, IsEvent
  <2> QED BY <2>2
<1>4. CASE frames' = frames /\ (content' = content \/ ~(sinkOn /\ online))
  <2>1. frames' = frames \o <<>>
    BY <1>2, <1>4
  <2>2. Sent(<<>>)
    BY <1>4, <2>1 DEF Sent
  <2> QED BY <2>2
<1> QED BY <1>3, <1>4 DEF SendCurrent, e

\* Every dispatch is one of these.
LEMMA QueryIs == ASSUME IInv, DispatchQuery PROVE Moved /\ \E s : Sent(s)
<1>1. task # None /\ task.id # 0 /\ task.kind = "query"
      /\ UNCHANGED <<content, stamp, baseline>>
      /\ Complete("none", NoRevision)
  BY DEF DispatchQuery, IsCommand, None
<1>2. revision' = revision /\ epoch' = epoch /\ content' \in Stamps
  BY <1>1, RoomForOne DEF Complete, Advances, Broadcasts
<1>3. \E s : Sent(s)
  BY <1>1, <1>2, RoomForOne, CompleteSends
<1>4. Moved
  BY <1>1, <1>2 DEF Moved, DispatchQuery, Finished, IInv, TypeOK
<1> QED BY <1>3, <1>4

LEMMA EditIs == ASSUME IInv, DispatchEdit PROVE Moved /\ \E s : Sent(s)
<1>1. task # None /\ task.id # 0 /\ task.kind = "edit"
  BY DEF DispatchEdit, IsCommand, None
<1>2. CASE Changes /\ UNCHANGED baseline /\ Complete("dirty", NoRevision)
  <2>1. /\ revision' = revision + 1 /\ epoch' = epoch + 1
        /\ content' = stamp + 1 /\ stamp' = stamp + 1
    BY <1>2 DEF Complete, Advances, Broadcasts, Changes
  <2>2. Broadcasts("dirty")
    BY DEF Broadcasts
  <2>3. \E s : Sent(s)
    BY <1>1, <1>2, <2>1, <2>2, RoomForOne, CompleteSends
  <2>4. Moved
    BY <1>1, <1>2, <2>1 DEF Moved, DispatchEdit, Finished, IInv, TypeOK
  <2> QED BY <2>3, <2>4
<1>3. CASE \E push \in BOOLEAN : Refuse(push)
  <2>1. UNCHANGED engineVars
    BY <1>3 DEF Refuse
  <2>2. \E s : Sent(s)
    BY <1>1, <1>3, <2>1, RoomForOne, RefuseSends DEF Refuse, engineVars
  <2>3. Moved
    BY <1>1, <2>1 DEF Moved, DispatchEdit, Finished, engineVars, IInv, TypeOK
  <2> QED BY <2>2, <2>3
<1> QED BY <1>2, <1>3 DEF DispatchEdit

LEMMA ParamIs == ASSUME IInv, DispatchParam PROVE Moved /\ \E s : Sent(s)
<1>1. task # None /\ task.id # 0 /\ task.kind = "param"
  BY DEF DispatchParam, IsCommand, None
<1>2. CASE Changes /\ UNCHANGED baseline /\ Complete("silent", NoRevision)
  <2>1. /\ revision' = revision + 1 /\ epoch' = epoch
        /\ content' = stamp + 1 /\ stamp' = stamp + 1
    BY <1>2 DEF Complete, Advances, Broadcasts, Changes
  <2>2. "param" \in Kinds
    BY <1>1, RoomForOne, CommandIs
  <2>3. \E s : Sent(s)
    BY <1>1, <1>2, <2>1, <2>2, RoomForOne, CompleteSends
  <2>4. Moved
    BY <1>1, <1>2, <2>1 DEF Moved, DispatchParam, Finished, IInv, TypeOK
  <2> QED BY <2>3, <2>4
<1>3. CASE Refuse(FALSE)
  <2>1. UNCHANGED engineVars
    BY <1>3 DEF Refuse
  <2>2. \E s : Sent(s)
    BY <1>1, <1>3, <2>1, RoomForOne, RefuseSends DEF Refuse, engineVars
  <2>3. Moved
    BY <1>1, <2>1 DEF Moved, DispatchParam, Finished, engineVars, IInv, TypeOK
  <2> QED BY <2>2, <2>3
<1> QED BY <1>2, <1>3 DEF DispatchParam

LEMMA StreamIs == ASSUME IInv, DispatchStream PROVE Moved /\ \E s : Sent(s)
<1>1. task # None /\ task.id # 0 /\ task.kind = "stream"
  BY DEF DispatchStream, IsCommand, None
<1>2. CASE UNCHANGED <<content, baseline, stamp>> /\ Complete("status", NoRevision)
  <2>1. revision' = revision /\ epoch' = epoch + 1 /\ content' \in Stamps
    BY <1>1, <1>2, RoomForOne DEF Complete, Advances, Broadcasts
  <2>2. \E s : Sent(s)
    BY <1>1, <1>2, <2>1, RoomForOne, CompleteSends
  <2>3. Moved
    BY <1>1, <1>2, <2>1 DEF Moved, DispatchStream, Finished, IInv, TypeOK
  <2> QED BY <2>2, <2>3
<1>3. CASE \E push \in BOOLEAN : Refuse(push)
  <2>1. UNCHANGED engineVars
    BY <1>3 DEF Refuse
  <2>2. \E s : Sent(s)
    BY <1>1, <1>3, <2>1, RoomForOne, RefuseSends DEF Refuse, engineVars
  <2>3. Moved
    BY <1>1, <2>1 DEF Moved, DispatchStream, Finished, engineVars, IInv, TypeOK
  <2> QED BY <2>2, <2>3
<1> QED BY <1>2, <1>3 DEF DispatchStream

LEMMA SaveIs == ASSUME IInv, DispatchSave PROVE Moved /\ \E s : Sent(s)
<1>1. task # None /\ task.id # 0 /\ task.kind = "save"
  BY DEF DispatchSave, IsCommand, None
<1>2. CASE baseline' = content /\ UNCHANGED <<content, stamp>> /\ Complete("none", revision)
  <2>1. revision' = revision /\ epoch' = epoch /\ content' \in Stamps
    BY <1>1, <1>2, RoomForOne DEF Complete, Advances, Broadcasts
  <2>2. \E s : Sent(s)
    BY <1>1, <1>2, <2>1, RoomForOne, CompleteSends
  <2>3. Moved
    BY <1>1, <1>2, <2>1 DEF Moved, DispatchSave, Finished, IInv, TypeOK
  <2> QED BY <2>2, <2>3
<1>3. CASE Refuse(FALSE)
  <2>1. UNCHANGED engineVars
    BY <1>3 DEF Refuse
  <2>2. \E s : Sent(s)
    BY <1>1, <1>3, <2>1, RoomForOne, RefuseSends DEF Refuse, engineVars
  <2>3. Moved
    BY <1>1, <2>1 DEF Moved, DispatchSave, Finished, engineVars, IInv, TypeOK
  <2> QED BY <2>2, <2>3
<1> QED BY <1>2, <1>3 DEF DispatchSave

LEMMA LoadIs == ASSUME IInv, DispatchLoad PROVE Moved /\ \E s : Sent(s)
<1>1. task # None /\ task.id # 0 /\ task.kind = "load"
  BY DEF DispatchLoad, IsCommand, None
<1>2. CASE Changes /\ baseline' = content' /\ Complete("dirty", LoadedRevision)
  <2>1. /\ revision' = revision + 1 /\ epoch' = epoch + 1
        /\ content' = stamp + 1 /\ stamp' = stamp + 1
        /\ LoadedRevision = revision'
    BY <1>2 DEF Complete, Advances, Broadcasts, Changes, LoadedRevision
  <2>2. Broadcasts("dirty")
    BY DEF Broadcasts
  <2>3. \E s : Sent(s)
    BY <1>1, <1>2, <2>1, <2>2, RoomForOne, CompleteSends
  <2>4. Moved
    BY <1>1, <1>2, <2>1 DEF Moved, DispatchLoad, Finished, IInv, TypeOK
  <2> QED BY <2>3, <2>4
<1>3. CASE Refuse(FALSE)
  <2>1. UNCHANGED engineVars
    BY <1>3 DEF Refuse
  <2>2. \E s : Sent(s)
    BY <1>1, <1>3, <2>1, RoomForOne, RefuseSends DEF Refuse, engineVars
  <2>3. Moved
    BY <1>1, <2>1 DEF Moved, DispatchLoad, Finished, engineVars, IInv, TypeOK
  <2> QED BY <2>2, <2>3
<1> QED BY <1>2, <1>3 DEF DispatchLoad

LEMMA EnsureIs == ASSUME IInv, DispatchEnsure PROVE Moved /\ \E s : Sent(s)
<1>1. task # None /\ task.id # 0 /\ task.kind = "ensure"
  BY DEF DispatchEnsure, IsCommand, None
<1>2. CASE Changes /\ baseline' = content' /\ Complete("dirty", revision + 1)
  <2>1. /\ revision' = revision + 1 /\ epoch' = epoch + 1
        /\ content' = stamp + 1 /\ stamp' = stamp + 1
    BY <1>2 DEF Complete, Advances, Broadcasts, Changes
  <2>2. Broadcasts("dirty")
    BY DEF Broadcasts
  <2>3. \E s : Sent(s)
    BY <1>1, <1>2, <2>1, <2>2, RoomForOne, CompleteSends
  <2>4. Moved
    BY <1>1, <1>2, <2>1 DEF Moved, DispatchEnsure, Finished, IInv, TypeOK
  <2> QED BY <2>3, <2>4
<1>3. CASE baseline' = content /\ UNCHANGED <<content, stamp>> /\ Complete("none", revision)
  <2>1. revision' = revision /\ epoch' = epoch /\ content' \in Stamps
    BY <1>1, <1>3, RoomForOne DEF Complete, Advances, Broadcasts
  <2>2. \E s : Sent(s)
    BY <1>1, <1>3, <2>1, RoomForOne, CompleteSends
  <2>3. Moved
    BY <1>1, <1>3, <2>1 DEF Moved, DispatchEnsure, Finished, IInv, TypeOK
  <2> QED BY <2>2, <2>3
<1> QED BY <1>2, <1>3 DEF DispatchEnsure

LEMMA ThrowIs == ASSUME IInv, DispatchThrows PROVE Moved /\ \E s : Sent(s)
<1>1. task # None /\ task.id # 0 /\ UNCHANGED <<baseline, revision, epoch>>
  BY DEF DispatchThrows, None
<1>2. used' = [used EXCEPT !.throws = @ + 1] /\ used'.throws \in 1 .. MaxThrows
  BY BoundsAssumption DEF DispatchThrows, IInv, TypeOK
<1>3. content' \in Stamps /\ revision' \in Revisions
  BY <1>1, RoomForOne DEF DispatchThrows, Changes
<1>4. \E s : Sent(s)
  BY <1>1, <1>2, <1>3, RoomForOne, RefuseSends DEF DispatchThrows
<1>5. Moved
  BY <1>1, <1>2 DEF Moved, DispatchThrows, Finished, Changes
<1> QED BY <1>4, <1>5

LEMMA HostMutatesIs == ASSUME IInv, HostMutates PROVE Moved /\ \E s : Sent(s)
<1>1. task # None /\ baseline' = baseline
  BY DEF HostMutates, IsHost, None
<1>2. CASE Changes /\ Publish("dirty")
  <2>1. /\ revision' = revision + 1 /\ epoch' \in {epoch, epoch + 1}
        /\ content' = stamp + 1 /\ stamp' = stamp + 1
        /\ frames' = SendCurrent(<<Event("status")>>)
    BY <1>2 DEF Publish, Advances, Broadcasts, Changes
  <2>2. \E s : Sent(s)
    BY <1>1, <2>1, RoomForOne, PublishSends
  <2>3. Moved
    BY <1>1, <2>1 DEF Moved, HostMutates, Finished, IInv, TypeOK
  <2> QED BY <2>2, <2>3
<1>3. CASE UNCHANGED <<content, stamp>> /\ Publish("status")
  <2>1. /\ revision' = revision /\ epoch' \in {epoch, epoch + 1}
        /\ frames' = SendCurrent(<<Event("status")>>)
    BY <1>3 DEF Publish, Advances, Broadcasts
  <2>2. \E s : Sent(s)
    BY <1>1, <1>3, <2>1, RoomForOne, PublishSends
  <2>3. Moved
    BY <1>1, <1>3, <2>1 DEF Moved, HostMutates, Finished, IInv, TypeOK
  <2> QED BY <2>2, <2>3
<1>4. CASE UNCHANGED <<content, stamp, revision, epoch, frames>>
  <2>1. \E s : Sent(s)
    BY <1>1, <1>4, RoomForOne, PublishSends
  <2>2. Moved
    BY <1>1, <1>4 DEF Moved, HostMutates, Finished, IInv, TypeOK
  <2> QED BY <2>1, <2>2
<1> QED BY <1>2, <1>3, <1>4 DEF HostMutates

LEMMA NoticeIs ==
    ASSUME IInv, HostSavesPreset \/ TrackFailed \/ LatencyChanged
    PROVE  Moved /\ \E s : Sent(s)
<1>1. task # None /\ UNCHANGED <<content, baseline, stamp, revision>>
  BY DEF HostSavesPreset, TrackFailed, LatencyChanged, IsHost, None, Publish, Advances,
     engineVars
<1>2. epoch' \in {epoch, epoch + 1}
  BY DEF HostSavesPreset, TrackFailed, LatencyChanged, Publish, engineVars
<1>3. frames' = SendCurrent(<<Event("status")>>) \/ frames' = frames
  BY DEF HostSavesPreset, TrackFailed, LatencyChanged, Publish, Broadcasts
<1>4. \E s : Sent(s)
  BY <1>1, <1>3, RoomForOne, PublishSends
<1>5. Moved
  BY <1>1, <1>2
     DEF Moved, HostSavesPreset, TrackFailed, LatencyChanged, Finished, IInv, TypeOK
<1> QED BY <1>4, <1>5

LEMMA DispatchIs == ASSUME IInv, Dispatch PROVE Moved /\ \E s : Sent(s)
BY QueryIs, EditIs, ParamIs, StreamIs, SaveIs, LoadIs, EnsureIs, ThrowIs, HostMutatesIs,
   NoticeIs
   DEF Dispatch

(***************************************************************************)
(* The dispatch keeps the invariant.                                       *)
(***************************************************************************)

LEMMA ConcatIs ==
    ASSUME NEW S, NEW q \in Seq(S), NEW s \in Seq(S)
    PROVE  /\ q \o s \in Seq(S)
           /\ Len(q \o s) = Len(q) + Len(s)
           /\ \A i \in DOMAIN q : i \in DOMAIN (q \o s) /\ (q \o s)[i] = q[i]
           /\ \A k \in DOMAIN s : Len(q) + k \in DOMAIN (q \o s) /\ (q \o s)[Len(q) + k] = s[k]
           /\ \A i \in DOMAIN (q \o s) :
                i \in DOMAIN q \/ \E k \in DOMAIN s : i = Len(q) + k
<1>1. /\ q \o s \in Seq(S) /\ Len(q \o s) = Len(q) + Len(s)
      /\ Len(q) \in Nat /\ Len(s) \in Nat
      /\ DOMAIN q = 1 .. Len(q) /\ DOMAIN s = 1 .. Len(s)
  OBVIOUS
<1>2. DOMAIN (q \o s) = 1 .. Len(q) + Len(s)
  BY <1>1
<1>3. \A i \in DOMAIN q : i \in DOMAIN (q \o s) /\ (q \o s)[i] = q[i]
  BY <1>1, <1>2
<1>4. \A k \in DOMAIN s : Len(q) + k \in DOMAIN (q \o s) /\ (q \o s)[Len(q) + k] = s[k]
  BY <1>1, <1>2
<1>5. ASSUME NEW i \in DOMAIN (q \o s), i \notin DOMAIN q
      PROVE  \E k \in DOMAIN s : i = Len(q) + k
  <2>1. i - Len(q) \in DOMAIN s /\ i = Len(q) + (i - Len(q))
    BY <1>1, <1>2, <1>5
  <2> QED BY <2>1
<1> QED BY <1>1, <1>3, <1>4, <1>5

LEMMA DispatchKeeps == ASSUME IInv, Dispatch PROVE IInv'
<1> PICK s : Sent(s)
  BY DispatchIs
<1> DEFINE n == Len(frames)
<1>m. Moved
  BY DispatchIs
<1>r. /\ task \in Tasks /\ task # None /\ task' = None
      /\ content = stamp /\ stamp \in Stamps /\ stamp + 1 \in Stamps
      /\ revision \in Revisions /\ revision + 1 \in Revisions
      /\ epoch \in Revisions /\ epoch + 1 \in Revisions
  BY <1>m, RoomForOne DEF Moved
<1>u. UNCHANGED <<queue, requests, place, gen, sinkGen, sinkOn, online, pending, replies, ui>>
  BY <1>m DEF Moved, pipeVars, clientVars
<1>f. /\ frames \in Seq(Events \cup Replies) /\ s \in Seq(Events \cup Replies)
      /\ frames' = frames \o s
  BY DEF Sent, IInv, TypeOK
<1>g. /\ frames' \in Seq(Events \cup Replies)
      /\ n \in Nat /\ DOMAIN frames = 1 .. n /\ DOMAIN s = 1 .. Len(s) /\ Len(s) \in Nat
      /\ \A i \in DOMAIN frames : i \in DOMAIN frames' /\ frames'[i] = frames[i]
      /\ \A k \in DOMAIN s : n + k \in DOMAIN frames' /\ frames'[n + k] = s[k]
      /\ \A i \in DOMAIN frames' : i \in DOMAIN frames \/ \E k \in DOMAIN s : i = n + k
  BY <1>f, ConcatIs
<1>e. \A k \in DOMAIN s : IsReply(s[k]) =>
        /\ s[k].id = task.id /\ task.id # 0 /\ task.gen = gen
        /\ \A j \in DOMAIN s : IsReply(s[j]) => k = j
  BY DEF Sent
<1>c. content' \in {content, content + 1} /\ content' \in Stamps
        /\ \A k \in DOMAIN s : s[k].content = content'
  BY <1>m, <1>r DEF Moved, Sent
<1>n. None.id = 0 /\ None.gen = 0
  BY DEF None
<1>p. content \in Nat /\ ui.content \in Nat
        /\ \A i \in DOMAIN frames : frames[i].content \in Nat
  <2>1. \A i \in DOMAIN frames : frames[i] \in Events \cup Replies
    BY <1>f
  <2>2. \A f \in Events \cup Replies : f.content \in Stamps
    BY DEF Events, Replies
  <2> QED BY <2>1, <2>2, <1>r DEF IInv, TypeOK, Stamps
<1> HIDE DEF n
<1>1. TypeOK'
  <2>1. /\ content' \in Stamps /\ baseline' \in Stamps /\ stamp' \in Stamps
        /\ revision' \in Revisions /\ epoch' \in Revisions
    BY <1>m, <1>r DEF Moved, IInv, TypeOK
  <2>2. used' \in [asks : 0 .. MaxAsks, posts : 0 .. MaxPosts, edits : 0 .. MaxEdits,
                   throws : 0 .. MaxThrows]
    BY <1>m DEF Moved, IInv, TypeOK
  <2> QED BY <1>u, <1>g, <1>r, <2>1, <2>2 DEF IInv, TypeOK
<1>2. Counted'
  <2>1. used'.asks = used.asks /\ used'.posts = used.posts /\ used'.edits = used.edits
    BY <1>m DEF Moved, IInv, TypeOK
  <2>2. Outstanding' = Outstanding - 1 /\ Outstanding \in Nat
    BY <1>r, <1>u DEF Outstanding, IInv, TypeOK
  <2>3. /\ content' = stamp' /\ stamp' \in {stamp, stamp + 1}
        /\ revision' \in {revision, revision + 1} /\ epoch' \in {epoch, epoch + 1}
    BY <1>m, <1>r DEF Moved
  <2>4. used.asks \in Nat /\ used.posts \in Nat /\ used.edits \in Nat
    BY BoundsAssumption DEF IInv, TypeOK
  <2>5. stamp \in Nat /\ revision \in Nat /\ epoch \in Nat
    BY <1>r DEF Stamps, Revisions
  <2> QED BY <2>1, <2>2, <2>3, <2>4, <2>5 DEF IInv, Counted
<1>3. Connected'
  <2>1. ~online \/ ~sinkOn => frames' = <<>>
    <3>1. ASSUME ~online \/ ~sinkOn PROVE frames' = <<>>
      <4>1. s = <<>> /\ frames = <<>>
        BY <3>1 DEF Sent, IInv, Connected
      <4> QED BY <4>1, <1>f
    <3> QED BY <3>1
  <2> QED BY <1>u, <2>1 DEF IInv, Connected
<1>4. IsOnce'
  <2>1. ASSUME NEW i \in DOMAIN frames', NEW j \in DOMAIN frames',
               IsReply(frames'[i]), IsReply(frames'[j]), frames'[i].id = frames'[j].id
        PROVE  i = j
    <3>1. CASE i \in DOMAIN frames /\ j \in DOMAIN frames
      BY <2>1, <3>1, <1>g DEF IInv, IsOnce
    <3>2. CASE i \notin DOMAIN frames /\ j \notin DOMAIN frames
      BY <2>1, <3>2, <1>g, <1>e
    <3>3. CASE i \in DOMAIN frames /\ j \notin DOMAIN frames
      BY <2>1, <3>3, <1>g, <1>e DEF IInv, IsInOnePlace
    <3>4. CASE i \notin DOMAIN frames /\ j \in DOMAIN frames
      BY <2>1, <3>4, <1>g, <1>e DEF IInv, IsInOnePlace
    <3> QED BY <3>1, <3>2, <3>3, <3>4
  <2> QED BY <2>1, <1>u DEF IInv, IsOnce
<1>5. IsInOnePlace'
  <2>1. \A i \in DOMAIN requests : requests[i].id # 0
    <3>1. \A i \in DOMAIN requests : requests[i] \in Commands
      BY DEF IInv, TypeOK
    <3>2. \A c \in Commands : c.id # 0
      BY DEF Commands, Ids
    <3> QED BY <3>1, <3>2
  <2>2. ASSUME NEW j \in DOMAIN frames', IsReply(frames'[j])
        PROVE  /\ frames'[j].id # 0
               /\ \A i \in DOMAIN requests : requests[i].id # frames'[j].id
               /\ \A i \in DOMAIN queue : queue[i].id # 0 => queue[i].id # frames'[j].id
    <3>1. CASE j \in DOMAIN frames
      <4>1. frames'[j] = frames[j] /\ frames[j] \in Replies
        <5>1. frames'[j] = frames[j]
          BY <3>1, <1>g
        <5>2. frames[j] \in Events \cup Replies
          BY <3>1, <1>f
        <5>3. \A f \in Events : ~IsReply(f)
          BY DEF Events, IsReply
        <5> QED BY <2>2, <5>1, <5>2, <5>3
      <4>2. frames'[j].id # 0
        BY <4>1 DEF Replies, Ids
      <4> QED BY <2>2, <3>1, <4>1, <4>2 DEF IInv, IsInOnePlace
    <3>2. CASE j \notin DOMAIN frames
      BY <2>2, <3>2, <1>g, <1>e DEF IInv, IsInOnePlace
    <3> QED BY <3>1, <3>2
  <2> QED BY <2>1, <2>2, <1>u, <1>r, <1>n DEF IInv, IsInOnePlace
<1>6. IsKnown'
  <2>1. used'.asks = used.asks /\ used.asks \in Nat
    BY <1>m, BoundsAssumption DEF Moved, IInv, TypeOK
  <2>2. ASSUME NEW j \in DOMAIN frames', IsReply(frames'[j]) PROVE frames'[j].id <= used.asks
    <3>1. CASE j \in DOMAIN frames
      BY <2>2, <3>1, <1>g DEF IInv, IsKnown
    <3>2. CASE j \notin DOMAIN frames
      BY <2>2, <3>2, <1>g, <1>e DEF IInv, IsKnown
    <3> QED BY <3>1, <3>2
  <2> QED BY <2>1, <2>2, <1>u, <1>r, <1>n DEF IInv, IsKnown
<1>7. IsAwaited'
  <2>1. ASSUME NEW j \in DOMAIN frames', IsReply(frames'[j]) PROVE frames'[j].id \in pending
    <3>1. CASE j \in DOMAIN frames
      BY <2>1, <3>1, <1>g DEF IInv, IsAwaited
    <3>2. CASE j \notin DOMAIN frames
      <4>1. s # <<>>
        BY <2>1, <3>2, <1>g
      <4>2. online
        BY <4>1 DEF Sent
      <4> QED BY <2>1, <3>2, <4>2, <1>g, <1>e DEF IInv, IsAwaited
    <3> QED BY <3>1, <3>2
  <2> QED BY <2>1, <1>u, <1>r, <1>n DEF IInv, IsAwaited, Posted
<1>8. InOrder'
  <2>1. ui.content <= content'
    BY <1>c, <1>p DEF IInv, InOrder
  <2>2. ASSUME NEW i \in DOMAIN frames'
        PROVE  frames'[i].content <= content' /\ (IsEvent(frames'[i])
                 => ui.content <= frames'[i].content)
    <3>1. CASE i \in DOMAIN frames
      BY <3>1, <1>g, <1>c, <1>p DEF IInv, InOrder
    <3>2. CASE i \notin DOMAIN frames
      BY <3>2, <1>g, <1>c, <1>p, <2>1
    <3> QED BY <3>1, <3>2
  <2>3. ASSUME NEW i \in DOMAIN frames', NEW j \in DOMAIN frames',
               i < j, IsEvent(frames'[i]), IsEvent(frames'[j])
        PROVE  frames'[i].content <= frames'[j].content
    <3>1. CASE j \in DOMAIN frames
      <4>1. i \in DOMAIN frames
        BY <2>3, <3>1, <1>g
      <4> QED BY <2>3, <3>1, <4>1, <1>g DEF IInv, InOrder
    <3>2. CASE j \notin DOMAIN frames
      <4>1. frames'[j].content = content'
        BY <3>2, <1>g, <1>c
      <4> QED BY <4>1, <2>2
    <3> QED BY <3>1, <3>2
  <2> QED BY <2>1, <2>2, <2>3, <1>u DEF InOrder, IsEvent, IsReply
<1>9. Acknowledged'
  <2>1. ASSUME NEW i \in DOMAIN frames', IsReply(frames'[i]), frames'[i].ok,
               frames'[i].kind \in {"edit", "load"}
        PROVE  \/ ui.content >= frames'[i].content
               \/ \E k \in 1 .. i - 1 : IsEvent(frames'[k])
                    /\ frames'[k].content >= frames'[i].content
    <3>1. CASE i \in DOMAIN frames
      <4>1. \A k \in 1 .. i - 1 : frames'[k] = frames[k]
        BY <3>1, <1>g
      <4> QED BY <2>1, <3>1, <4>1, <1>g DEF IInv, Acknowledged, SeenBefore
    <3>2. CASE i \notin DOMAIN frames
      <4>1. PICK k \in DOMAIN s : i = n + k
        BY <3>2, <1>g
      <4>2. frames'[i] = s[k]
        BY <4>1, <1>g
      <4>3. PICK l \in 1 .. k - 1 : IsEvent(s[l])
        BY <2>1, <4>2 DEF Sent
      <4>4. l \in DOMAIN s
        BY <4>3, <1>g
      <4>5. frames'[n + l] = s[l] /\ n + l \in 1 .. i - 1
        BY <4>1, <4>3, <4>4, <1>g
      <4>6. frames'[n + l].content >= frames'[i].content
        BY <4>2, <4>4, <4>5, <1>c DEF Stamps
      <4> QED BY <4>3, <4>5, <4>6
    <3> QED BY <3>1, <3>2
  <2> QED BY <2>1, <1>u DEF Acknowledged, SeenBefore, IsEvent, IsReply
<1>10. Baselines'
  <2>1. ASSUME NEW r, r.content \in Nat, Truthful(r)
        PROVE  r.content <= content' /\ (IsBaseline(r) /\ r.content = content'
                 => r.revision = revision')
    <3>1. r.content <= content /\ (IsBaseline(r) /\ r.content = content
            => r.revision = revision)
      BY <2>1 DEF Truthful
    <3>2. CASE UNCHANGED <<content, revision>>
      BY <3>1, <3>2
    <3>3. CASE content' = content + 1
      <4>1. r.content <= content' /\ r.content # content'
        BY <2>1, <3>1, <3>3, <1>p
      <4> QED BY <4>1
    <3> QED BY <3>2, <3>3, <1>m, <1>r DEF Moved
  <2>2. \A r \in replies : r.content \in Nat
    BY DEF IInv, TypeOK, Replies, Stamps
  <2>3. ASSUME NEW i \in DOMAIN frames', IsReply(frames'[i])
        PROVE  /\ frames'[i].content <= content'
               /\ IsBaseline(frames'[i]) /\ frames'[i].content = content'
                    => frames'[i].revision = revision'
    <3>1. CASE i \in DOMAIN frames
      <4>1. Truthful(frames[i]) /\ frames[i].content \in Nat /\ frames'[i] = frames[i]
        BY <2>3, <3>1, <1>g, <1>p DEF IInv, Baselines
      <4> QED BY <2>1, <4>1
    <3>2. CASE i \notin DOMAIN frames
      BY <2>3, <3>2, <1>g, <1>c DEF Sent, Stamps
    <3> QED BY <3>1, <3>2
  <2> QED BY <2>1, <2>2, <2>3, <1>u DEF IInv, Baselines, Truthful, IsBaseline, IsReply
<1>11. Announced'
  <2> SUFFICES ASSUME gen = 1, used'.throws = 0, used'.edits = 0, "param" \notin Kinds,
                      online, sinkOn
               PROVE  \/ ui.content = content'
                      \/ \E k \in DOMAIN frames' : IsEvent(frames'[k])
                           /\ frames'[k].content = content'
    BY <1>u DEF Announced, IsEvent, IsReply
  <2>1. CASE content' = content
    <3>1. used.throws = 0 /\ used.edits = 0
      BY <1>m DEF Moved, IInv, TypeOK
    <3> QED BY <2>1, <3>1, <1>g DEF IInv, Announced
  <2>2. CASE content' # content
    <3>1. PICK k \in DOMAIN s : IsEvent(s[k])
      BY <2>2 DEF Sent
    <3> QED BY <3>1, <1>g, <1>c
  <2> QED BY <2>1, <2>2
<1> QED BY <1>1, <1>2, <1>3, <1>4, <1>5, <1>6, <1>7, <1>8, <1>9, <1>10, <1>11 DEF IInv

(***************************************************************************)
(* The pipe thread, the main window's queue and the client keep it, too.   *)
(***************************************************************************)

LEMMA TailIs ==
    ASSUME NEW S, NEW q \in Seq(S), q # <<>>
    PROVE  /\ Head(q) \in S /\ Head(q) = q[1] /\ 1 \in DOMAIN q
           /\ Tail(q) \in Seq(S) /\ Len(Tail(q)) = Len(q) - 1 /\ Len(q) \in Nat
           /\ \A i \in DOMAIN Tail(q) : i \in Nat /\ i + 1 \in DOMAIN q /\ i + 1 # 1
                /\ Tail(q)[i] = q[i + 1]
           /\ \A i \in DOMAIN q : i = 1 \/ (i \in Int /\ i - 1 \in DOMAIN Tail(q)
                /\ Tail(q)[i - 1] = q[i])
<1>1. /\ Len(q) \in Nat /\ Len(q) > 0 /\ DOMAIN q = 1 .. Len(q) /\ Head(q) = q[1]
      /\ Tail(q) \in Seq(S) /\ Len(Tail(q)) = Len(q) - 1
      /\ DOMAIN Tail(q) = 1 .. Len(Tail(q))
  OBVIOUS
<1>2. \A i \in 1 .. Len(q) - 1 : Tail(q)[i] = q[i + 1]
  BY <1>1
<1>3. q[1] \in S
  BY <1>1
<1> QED BY <1>1, <1>2, <1>3

LEMMA AppendIs ==
    ASSUME NEW S, NEW q \in Seq(S), NEW e \in S
    PROVE  /\ Append(q, e) \in Seq(S) /\ Len(Append(q, e)) = Len(q) + 1 /\ Len(q) \in Nat
           /\ \A i \in DOMAIN q : i \in DOMAIN Append(q, e) /\ Append(q, e)[i] = q[i]
           /\ \A i \in DOMAIN Append(q, e) :
                \/ i \in DOMAIN q
                \/ i = Len(q) + 1 /\ i \notin DOMAIN q /\ Append(q, e)[i] = e
<1>1. /\ Len(q) \in Nat /\ DOMAIN q = 1 .. Len(q)
      /\ Append(q, e) \in Seq(S) /\ Len(Append(q, e)) = Len(q) + 1
      /\ DOMAIN Append(q, e) = 1 .. Len(q) + 1
  OBVIOUS
<1>2. Append(q, e)[Len(q) + 1] = e /\ \A i \in 1 .. Len(q) : Append(q, e)[i] = q[i]
  BY <1>1
<1> QED BY <1>1, <1>2

\* What the sequences hold.
LEMMA ElementIs ==
    ASSUME IInv
    PROVE  /\ \A i \in DOMAIN requests : requests[i] \in Commands /\ requests[i].id # 0
           /\ \A i \in DOMAIN queue : queue[i] \in Tasks
           /\ \A i \in DOMAIN frames : frames[i] \in Events \cup Replies
                /\ frames[i].content \in Nat
           /\ \A i \in DOMAIN frames : IsReply(frames[i]) <=> frames[i] \in Replies
           /\ \A r \in replies : r \in Replies /\ r.content \in Nat
<1>1. /\ \A i \in DOMAIN requests : requests[i] \in Commands
      /\ \A i \in DOMAIN queue : queue[i] \in Tasks
      /\ \A i \in DOMAIN frames : frames[i] \in Events \cup Replies
      /\ \A r \in replies : r \in Replies
  BY DEF IInv, TypeOK
<1>2. \A c \in Commands : c.id # 0
  BY DEF Commands, Ids
<1>3. \A f \in Events : ~IsReply(f) /\ f.content \in Nat
  BY DEF Events, IsReply, Stamps
<1>4. \A f \in Replies : IsReply(f) /\ f.content \in Nat
  BY DEF Replies, IsReply, Stamps
<1> QED BY <1>1, <1>2, <1>3, <1>4

\* No more messages on their way, and the counters as they were.
LEMMA CountedKept ==
    ASSUME IInv, UNCHANGED <<content, stamp, revision, epoch>>,
           Outstanding' \in Nat, Outstanding \in Nat,
           used'.asks \in Nat, used'.posts \in Nat, used'.edits \in Nat,
           used'.edits = used.edits,
           Outstanding' - Outstanding <= (used'.asks + used'.posts) - (used.asks + used.posts)
    PROVE  Counted'
<1>1. stamp \in Nat /\ revision \in Nat /\ epoch \in Nat
  BY DEF IInv, TypeOK, Stamps, Revisions
<1>2. used.asks \in Nat /\ used.posts \in Nat /\ used.edits \in Nat
  BY BoundsAssumption DEF IInv, TypeOK
<1> QED BY <1>1, <1>2 DEF IInv, Counted

\* What the client sees and will see is what it was, or the pipe is emptied.
LEMMA ViewKept ==
    ASSUME IInv, UNCHANGED <<content, revision, ui>>, frames' \in {frames, <<>>},
           replies' \subseteq replies
    PROVE  InOrder' /\ Acknowledged' /\ Baselines'
<1>1. DOMAIN <<>> = {}
  OBVIOUS
<1>2. InOrder'
  BY <1>1 DEF IInv, InOrder, IsEvent, IsReply
<1>3. Acknowledged'
  <2>1. CASE frames' = frames
    BY <2>1 DEF IInv, Acknowledged, SeenBefore, IsEvent, IsReply
  <2>2. CASE frames' = <<>>
    BY <1>1, <2>2 DEF Acknowledged
  <2> QED BY <2>1, <2>2
<1>4. Baselines'
  <2>1. \A r \in replies : Truthful(r)' <=> Truthful(r)
    BY DEF Truthful, IsBaseline
  <2>2. \A r \in replies' : Truthful(r)'
    BY <2>1 DEF IInv, Baselines
  <2>3. \A i \in DOMAIN frames' : IsReply(frames[i])' => Truthful(frames[i])'
    BY <1>1 DEF IInv, Baselines, Truthful, IsBaseline, IsReply
  <2> QED BY <2>2, <2>3 DEF Baselines, Truthful, IsBaseline
<1> QED BY <1>2, <1>3, <1>4

LEMMA AcceptKeeps == ASSUME IInv, Accept PROVE IInv'
<1>1. /\ place = "listen" /\ place' = "connect" /\ gen' = gen + 1 /\ online' = TRUE
      /\ UNCHANGED <<content, baseline, stamp, revision, epoch, sinkGen, sinkOn, queue, task,
                     requests, frames, pending, replies, ui, used>>
  BY DEF Accept, engineVars, mainVars
<1>2. gen \in Nat /\ gen' \in Gens
  BY BoundsAssumption DEF Accept, IInv, TypeOK, Gens
<1>3. sinkOn = FALSE /\ requests = <<>> /\ frames = <<>> /\ DOMAIN <<>> = {}
  BY <1>1 DEF IInv, Connected, TypeOK
<1>4. TypeOK' /\ Connected'
  BY <1>1, <1>2, <1>3 DEF IInv, TypeOK, Connected
<1>5. Counted' /\ IsOnce' /\ IsInOnePlace' /\ IsKnown'
  BY <1>1 DEF IInv, Counted, Outstanding, IsOnce, IsInOnePlace, IsKnown, IsReply
<1>6. IsAwaited'
  <2>1. \A t : Posted(t) => Posted(t)' /\ (t.id # 0 => t.gen # gen')
    BY <1>1, <1>2 DEF Posted
  <2> QED BY <1>1, <1>3, <2>1 DEF IInv, IsAwaited
<1>7. InOrder' /\ Acknowledged' /\ Baselines'
  BY <1>1, ViewKept
<1>8. Announced'
  BY <1>1, <1>3 DEF Announced
<1> QED BY <1>4, <1>5, <1>6, <1>7, <1>8 DEF IInv

LEMMA NothingIsTyped == <<>> \in Seq(Commands) /\ <<>> \in Seq(Events \cup Replies)
OBVIOUS

\* The connection's end, wherever it is noticed: its commands that are not in
\* the queue, its frames and its promises are gone.
LEMMA Leaving ==
    ASSUME IInv, requests' \in {requests, <<>>}, frames' = <<>>, online' = FALSE, pending' = {},
           UNCHANGED <<content, baseline, stamp, revision, epoch, gen, sinkGen, queue, task,
                       replies, ui, used>>
    PROVE  /\ Counted' /\ IsOnce' /\ IsInOnePlace' /\ IsKnown' /\ IsAwaited'
           /\ InOrder' /\ Acknowledged' /\ Baselines' /\ Announced'
<1>1. DOMAIN <<>> = {} /\ Len(<<>>) = 0
  OBVIOUS
<1>2. Counted'
  <2>1. Len(requests) \in Nat /\ Len(queue) \in Nat
    BY DEF IInv, TypeOK
  <2>2. used.asks \in Nat /\ used.posts \in Nat /\ used.edits \in Nat
    BY BoundsAssumption DEF IInv, TypeOK
  <2>3. Outstanding \in Nat /\ Outstanding' \in Nat /\ Outstanding' <= Outstanding
    BY <1>1, <2>1 DEF Outstanding
  <2> QED BY <2>2, <2>3, CountedKept
<1>3. IsOnce' /\ IsInOnePlace' /\ IsKnown'
  BY <1>1 DEF IInv, IsOnce, IsInOnePlace, IsKnown
<1>4. IsAwaited'
  BY <1>1 DEF IInv, IsAwaited, Posted
<1>5. InOrder' /\ Acknowledged' /\ Baselines'
  BY ViewKept
<1>6. Announced'
  BY DEF Announced
<1> QED BY <1>2, <1>3, <1>4, <1>5, <1>6

LEMMA AuthFailsKeeps == ASSUME IInv, AuthFails PROVE IInv'
<1>1. /\ place = "connect" /\ place' = "listen" /\ online' = FALSE /\ requests' = <<>>
      /\ pending' = {}
      /\ UNCHANGED <<content, baseline, stamp, revision, epoch, gen, sinkGen, sinkOn, queue,
                     task,
                     frames, replies, ui, used>>
  BY DEF AuthFails, engineVars, mainVars
<1>2. sinkOn = FALSE /\ frames = <<>>
  BY <1>1 DEF IInv, Connected, TypeOK
<1>3. TypeOK'
  BY <1>1, NothingIsTyped DEF IInv, TypeOK
<1>4. Connected'
  BY <1>1, <1>2 DEF IInv, Connected
<1> QED BY <1>1, <1>2, <1>3, <1>4, Leaving DEF IInv

LEMMA DisconnectKeeps == ASSUME IInv, Disconnect PROVE IInv'
<1>1. /\ place = "leave" /\ place' = "listen" /\ online' = FALSE /\ requests' = <<>>
      /\ frames' = <<>> /\ pending' = {} /\ sinkOn' = (sinkOn /\ sinkGen # gen)
      /\ UNCHANGED <<content, baseline, stamp, revision, epoch, gen, sinkGen, queue, task,
                     replies, ui, used>>
  BY DEF Disconnect, engineVars, mainVars
<1>2. sinkOn' = FALSE
  BY <1>1 DEF IInv, Connected
<1>3. TypeOK'
  BY <1>1, <1>2, NothingIsTyped DEF IInv, TypeOK
<1>4. Connected'
  BY <1>1, <1>2 DEF Connected
<1> QED BY <1>1, <1>3, <1>4, Leaving DEF IInv

LEMMA DropKeeps == ASSUME IInv, Drop PROVE IInv'
<1>1. /\ online /\ online' = FALSE /\ frames' = <<>> /\ pending' = {}
      /\ UNCHANGED <<content, baseline, stamp, revision, epoch, place, gen, sinkGen, sinkOn,
                     queue,
                     task, requests, replies, ui, used>>
  BY DEF Drop, engineVars, pipeVars, mainVars
<1>2. TypeOK'
  BY <1>1, NothingIsTyped DEF IInv, TypeOK
<1>3. Connected'
  BY <1>1 DEF IInv, Connected
<1> QED BY <1>1, <1>2, <1>3, Leaving DEF IInv

LEMMA OneIs ==
    ASSUME NEW S, NEW e \in S
    PROVE  Append(<<>>, e) = <<e>> /\ <<e>> \in Seq(S) /\ DOMAIN <<e>> = {1} /\ <<e>>[1] = e
OBVIOUS

LEMMA ConnectKeeps == ASSUME IInv, Connect PROVE IInv'
<1> DEFINE e == Event("snapshot")
<1>1. /\ place = "connect" /\ place' = "serve" /\ sinkGen' = gen /\ sinkOn' = TRUE
      /\ frames' = IF online THEN Append(frames, e) ELSE frames
      /\ UNCHANGED <<content, baseline, stamp, revision, epoch, gen, queue, task, requests,
                     online, pending, replies, ui, used>>
  BY DEF Connect, engineVars, mainVars, clientVars
<1>2. sinkOn = FALSE /\ frames = <<>>
  BY <1>1 DEF IInv, Connected, TypeOK
<1>3. e \in Events /\ IsEvent(e) /\ e.content = content
  BY <1>1, EventType DEF IInv, TypeOK, IsEvent, IsReply
<1> HIDE DEF e
<1> DEFINE one == <<e>>
<1>o. /\ Append(<<>>, e) = one /\ one \in Seq(Events \cup Replies)
      /\ DOMAIN one = {1} /\ one[1] = e
  <2>1. e \in Events \cup Replies
    BY <1>3
  <2> QED BY <2>1, OneIs
<1> HIDE DEF one
<1>4. (online /\ frames' = one) \/ (~online /\ frames' = <<>>)
  BY <1>1, <1>2, <1>o
<1>5. frames' \in Seq(Events \cup Replies)
  BY <1>4, <1>o, NothingIsTyped
<1>6. \A i \in DOMAIN frames' : i = 1 /\ IsEvent(frames'[i]) /\ ~IsReply(frames'[i])
                                /\ frames'[i].content = content
  <2>1. DOMAIN <<>> = {}
    OBVIOUS
  <2> QED BY <2>1, <1>3, <1>4, <1>o DEF IsEvent
<1>7. content \in Nat /\ ui.content \in Nat /\ ui.content <= content
  BY DEF IInv, TypeOK, Stamps, InOrder
<1>8. TypeOK'
  BY <1>1, <1>5 DEF IInv, TypeOK
<1>9. Connected'
  BY <1>1, <1>4 DEF IInv, Connected
<1>10. Counted'
  BY <1>1 DEF IInv, Counted, Outstanding
<1>11. IsOnce' /\ IsInOnePlace' /\ IsKnown'
  BY <1>1, <1>2, <1>6 DEF IInv, IsOnce, IsInOnePlace, IsKnown, IsReply
<1>12. IsAwaited'
  BY <1>1, <1>6 DEF IInv, IsAwaited, Posted, IsReply
<1>13. InOrder'
  BY <1>1, <1>6, <1>7 DEF InOrder, IsEvent, IsReply
<1>14. Acknowledged'
  BY <1>6 DEF Acknowledged, IsReply
<1>15. Baselines'
  BY <1>1, <1>6 DEF IInv, Baselines, Truthful, IsBaseline, IsReply
<1>16. Announced'
  <2>1. online => 1 \in DOMAIN frames'
    BY <1>4, <1>o
  <2> QED BY <1>1, <1>6, <2>1 DEF Announced, IsEvent, IsReply
<1> QED BY <1>8, <1>9, <1>10, <1>11, <1>12, <1>13, <1>14, <1>15, <1>16 DEF IInv

LEMMA ServeStops == ASSUME IInv, ServeEnds \/ ServeGivesUp PROVE IInv'
<1>1. /\ place = "serve" /\ place' = "leave"
      /\ UNCHANGED <<content, baseline, stamp, revision, epoch, gen, sinkGen, sinkOn, queue,
                     task,
                     requests, frames, online, pending, replies, ui, used>>
  BY DEF ServeEnds, ServeGivesUp, engineVars, mainVars, clientVars
<1>2. TypeOK' /\ Connected'
  BY <1>1 DEF IInv, TypeOK, Connected
<1>3. Counted' /\ IsOnce' /\ IsInOnePlace' /\ IsKnown' /\ IsAwaited'
  BY <1>1 DEF IInv, Counted, Outstanding, IsOnce, IsInOnePlace, IsKnown, IsAwaited, Posted,
     IsReply
<1>4. InOrder' /\ Acknowledged' /\ Baselines'
  BY <1>1, ViewKept
<1>5. Announced'
  BY <1>1 DEF IInv, Announced, IsEvent, IsReply
<1> QED BY <1>2, <1>3, <1>4, <1>5 DEF IInv

LEMMA ServeReadsKeeps == ASSUME IInv, ServeReads PROVE IInv'
<1> DEFINE m == [gen |-> gen, id |-> Head(requests).id, kind |-> Head(requests).kind]
<1>1. /\ place = "serve" /\ requests # <<>> /\ requests' = Tail(requests)
      /\ queue' = Append(queue, m)
      /\ UNCHANGED <<content, baseline, stamp, revision, epoch, place, gen, sinkGen, sinkOn,
                     task,
                     frames, online, pending, replies, ui, used>>
  BY DEF ServeReads, engineVars, pipeVars, clientVars
<1>2. /\ requests \in Seq(Commands) /\ queue \in Seq(Tasks) /\ gen \in Gens
      /\ gen \in Nat /\ gen >= 1
  BY <1>1 DEF IInv, TypeOK, Connected, Gens
<1>3. /\ Head(requests) \in Commands /\ Head(requests) = requests[1] /\ 1 \in DOMAIN requests
      /\ requests' \in Seq(Commands) /\ Len(requests') = Len(requests) - 1
      /\ Len(requests) \in Nat
      /\ \A i \in DOMAIN requests' : i \in Nat /\ i + 1 \in DOMAIN requests /\ i + 1 # 1
                                     /\ requests'[i] = requests[i + 1]
  BY <1>1, <1>2, TailIs
<1>4. m \in Tasks /\ m.gen = gen /\ m.id = requests[1].id /\ m.id # 0
  <2>1. Head(requests).id \in Ids /\ Head(requests).kind \in Kinds
    BY <1>3 DEF Commands
  <2>2. m \in [gen : Gens, id : Ids, kind : Kinds]
    BY <1>2, <2>1
  <2> QED BY <1>3, <2>1, <2>2 DEF Tasks, Ids
<1> HIDE DEF m
<1>5. /\ queue' \in Seq(Tasks) /\ Len(queue') = Len(queue) + 1 /\ Len(queue) \in Nat
      /\ \A i \in DOMAIN queue' :
           \/ i \in DOMAIN queue /\ queue'[i] = queue[i]
           \/ i = Len(queue) + 1 /\ i \notin DOMAIN queue /\ queue'[i] = m
  BY <1>1, <1>2, <1>4, AppendIs
<1>6. TypeOK'
  BY <1>1, <1>3, <1>5 DEF IInv, TypeOK
<1>7. Connected'
  BY <1>1 DEF IInv, Connected
<1>8. Counted'
  <2>1. Outstanding' = Outstanding
    BY <1>1, <1>3, <1>5 DEF Outstanding
  <2> QED BY <1>1, <2>1 DEF IInv, Counted
<1>9. IsOnce'
  <2>1. ASSUME NEW i \in DOMAIN requests', NEW j \in DOMAIN requests',
               requests'[i].id = requests'[j].id
        PROVE  i = j
    <3>1. i + 1 = j + 1
      BY <1>3, <2>1 DEF IInv, IsOnce
    <3> QED BY <1>3, <3>1
  <2>2. ASSUME NEW i \in DOMAIN queue', NEW j \in DOMAIN queue', queue'[i].id # 0,
               queue'[i].id = queue'[j].id
        PROVE  i = j
    BY <1>3, <1>4, <1>5, <2>2 DEF IInv, IsOnce, IsInOnePlace
  <2> QED BY <1>1, <2>1, <2>2 DEF IInv, IsOnce, IsReply
<1>10. IsInOnePlace'
  <2>1. ASSUME NEW i \in DOMAIN requests', NEW j \in DOMAIN queue'
        PROVE  requests'[i].id # queue'[j].id
    <3>1. requests[i + 1].id # requests[1].id
      BY <1>3 DEF IInv, IsOnce
    <3> QED BY <1>3, <1>4, <1>5, <3>1 DEF IInv, IsInOnePlace
  <2>2. ASSUME NEW i \in DOMAIN requests'
        PROVE  /\ requests'[i].id # task.id
               /\ \A j \in DOMAIN frames : IsReply(frames[j]) => requests'[i].id # frames[j].id
    BY <1>3 DEF IInv, IsInOnePlace
  <2>3. ASSUME NEW i \in DOMAIN queue', queue'[i].id # 0
        PROVE  /\ queue'[i].id # task.id
               /\ \A j \in DOMAIN frames : IsReply(frames[j]) => queue'[i].id # frames[j].id
    BY <1>3, <1>4, <1>5, <2>3 DEF IInv, IsInOnePlace
  <2> QED BY <1>1, <2>1, <2>2, <2>3 DEF IInv, IsInOnePlace, IsReply
<1>11. IsKnown'
  <2>1. \A i \in DOMAIN requests' : requests'[i].id <= used.asks
    BY <1>3 DEF IInv, IsKnown
  <2>2. \A i \in DOMAIN queue' : queue'[i].id <= used.asks
    BY <1>3, <1>4, <1>5 DEF IInv, IsKnown
  <2> QED BY <1>1, <2>1, <2>2 DEF IInv, IsKnown, IsReply
<1>12. IsAwaited'
  <2>1. \A i \in DOMAIN queue' : queue'[i].id # 0 => queue'[i].gen \in 1 .. gen
    BY <1>2, <1>4, <1>5 DEF IInv, IsAwaited, Posted
  <2>2. online => \A i \in DOMAIN requests' : requests'[i].id \in pending
    BY <1>3 DEF IInv, IsAwaited
  <2>3. online => \A i \in DOMAIN queue' : queue'[i].id # 0 /\ queue'[i].gen = gen
          => queue'[i].id \in pending
    BY <1>3, <1>4, <1>5 DEF IInv, IsAwaited
  <2> QED BY <1>1, <2>1, <2>2, <2>3 DEF IInv, IsAwaited, Posted, IsReply
<1>13. InOrder' /\ Acknowledged' /\ Baselines'
  BY <1>1, ViewKept
<1>14. Announced'
  BY <1>1 DEF IInv, Announced, IsEvent, IsReply
<1> QED BY <1>6, <1>7, <1>8, <1>9, <1>10, <1>11, <1>12, <1>13, <1>14 DEF IInv

LEMMA MainTakesKeeps == ASSUME IInv, MainTakes PROVE IInv'
<1>1. /\ task = None /\ queue # <<>> /\ queue' = Tail(queue) /\ task' \in {None, Head(queue)}
      /\ UNCHANGED <<content, baseline, stamp, revision, epoch, place, gen, sinkGen, sinkOn,
                     requests, frames, online, pending, replies, ui, used>>
  BY DEF MainTakes, engineVars, pipeVars, clientVars
<1>2. /\ Head(queue) \in Tasks /\ Head(queue) = queue[1] /\ 1 \in DOMAIN queue
      /\ queue' \in Seq(Tasks) /\ Len(queue') = Len(queue) - 1 /\ Len(queue) \in Nat
      /\ \A i \in DOMAIN queue' : i \in Nat /\ i + 1 \in DOMAIN queue /\ i + 1 # 1
                                  /\ queue'[i] = queue[i + 1]
  BY <1>1, TailIs DEF IInv, TypeOK
<1>3. None.id = 0 /\ None.gen = 0 /\ (task' = None \/ task' = queue[1])
  BY <1>1, <1>2 DEF None
<1>4. TypeOK'
  BY <1>1, <1>2 DEF IInv, TypeOK
<1>5. Connected'
  BY <1>1 DEF IInv, Connected
<1>6. Counted'
  <2>1. Len(requests) \in Nat /\ used.asks \in Nat /\ used.posts \in Nat /\ used.edits \in Nat
    BY BoundsAssumption DEF IInv, TypeOK
  <2>2. Outstanding \in Nat /\ Outstanding' \in Nat /\ Outstanding' <= Outstanding
    BY <1>1, <1>2, <2>1 DEF Outstanding
  <2> QED BY <1>1, <2>1, <2>2, CountedKept
<1>7. IsOnce'
  <2>1. ASSUME NEW i \in DOMAIN queue', NEW j \in DOMAIN queue', queue'[i].id # 0,
               queue'[i].id = queue'[j].id
        PROVE  i = j
    <3>1. i + 1 = j + 1
      BY <1>2, <2>1 DEF IInv, IsOnce
    <3> QED BY <1>2, <3>1
  <2> QED BY <1>1, <2>1 DEF IInv, IsOnce, IsReply
<1>8. IsInOnePlace'
  <2>1. ASSUME NEW i \in DOMAIN queue', queue'[i].id # 0
        PROVE  /\ queue'[i].id # task'.id
               /\ \A j \in DOMAIN frames : IsReply(frames[j]) => queue'[i].id # frames[j].id
               /\ \A j \in DOMAIN requests : requests[j].id # queue'[i].id
    <3>1. queue[i + 1].id # queue[1].id
      BY <1>2, <2>1 DEF IInv, IsOnce
    <3> QED BY <1>2, <1>3, <2>1, <3>1 DEF IInv, IsInOnePlace
  <2>2. \A i \in DOMAIN requests :
          /\ requests[i].id # task'.id
          /\ \A j \in DOMAIN queue' : requests[i].id # queue'[j].id
          /\ \A j \in DOMAIN frames : IsReply(frames[j]) => requests[i].id # frames[j].id
    BY <1>2, <1>3, ElementIs DEF IInv, IsInOnePlace
  <2>3. \A j \in DOMAIN frames : IsReply(frames[j]) => frames[j].id # task'.id
    <3>1. ASSUME NEW j \in DOMAIN frames, IsReply(frames[j]) PROVE frames[j].id # 0
      BY <3>1, ElementIs DEF Replies, Ids
    <3> QED BY <1>2, <1>3, <3>1 DEF IInv, IsInOnePlace
  <2> QED BY <1>1, <2>1, <2>2, <2>3 DEF IsInOnePlace, IsReply
<1>9. IsKnown'
  <2>1. used.asks \in Nat
    BY DEF IInv, TypeOK
  <2> QED BY <1>1, <1>2, <1>3, <2>1 DEF IInv, IsKnown, IsReply
<1>10. IsAwaited'
  BY <1>1, <1>2, <1>3 DEF IInv, IsAwaited, Posted, IsReply
<1>11. InOrder' /\ Acknowledged' /\ Baselines'
  BY <1>1, ViewKept
<1>12. Announced'
  BY <1>1 DEF IInv, Announced, IsEvent, IsReply
<1> QED BY <1>4, <1>5, <1>6, <1>7, <1>8, <1>9, <1>10, <1>11, <1>12 DEF IInv

\* The bounds are used up one by one.
LEMMA UsedIs ==
    ASSUME IInv
    PROVE  /\ used \in [asks : 0 .. MaxAsks, posts : 0 .. MaxPosts, edits : 0 .. MaxEdits,
                        throws : 0 .. MaxThrows]
           /\ used.asks \in 0 .. MaxAsks /\ used.posts \in 0 .. MaxPosts
           /\ used.edits \in 0 .. MaxEdits /\ used.throws \in 0 .. MaxThrows
           /\ MaxAsks \in Nat /\ MaxPosts \in Nat /\ MaxEdits \in Nat /\ MaxThrows \in Nat
BY BoundsAssumption DEF IInv, TypeOK

LEMMA OnePosted ==
    ASSUME IInv, used.posts < MaxPosts, used' = [used EXCEPT !.posts = @ + 1]
    PROVE  /\ used' \in [asks : 0 .. MaxAsks, posts : 0 .. MaxPosts, edits : 0 .. MaxEdits,
                         throws : 0 .. MaxThrows]
           /\ used'.asks = used.asks /\ used'.posts = used.posts + 1
           /\ used'.edits = used.edits
           /\ used'.throws = used.throws
           /\ used.asks \in Nat /\ used.posts \in Nat /\ used.edits \in Nat
BY UsedIs

LEMMA OneEdited ==
    ASSUME IInv, used.edits < MaxEdits, used' = [used EXCEPT !.edits = @ + 1]
    PROVE  /\ used' \in [asks : 0 .. MaxAsks, posts : 0 .. MaxPosts, edits : 0 .. MaxEdits,
                         throws : 0 .. MaxThrows]
           /\ used'.asks = used.asks /\ used'.posts = used.posts
           /\ used'.edits = used.edits + 1
           /\ used.asks \in Nat /\ used.posts \in Nat /\ used.edits \in Nat
BY UsedIs

LEMMA OneAsked ==
    ASSUME IInv, used.asks < MaxAsks, used' = [used EXCEPT !.asks = @ + 1]
    PROVE  /\ used' \in [asks : 0 .. MaxAsks, posts : 0 .. MaxPosts, edits : 0 .. MaxEdits,
                         throws : 0 .. MaxThrows]
           /\ used'.asks = used.asks + 1 /\ used'.posts = used.posts
           /\ used'.edits = used.edits
           /\ used'.throws = used.throws /\ used'.asks \in Ids
           /\ used.asks \in Nat /\ used.posts \in Nat /\ used.edits \in Nat
BY UsedIs DEF Ids

LEMMA PostKeeps == ASSUME IInv, NEW kind \in HostKinds, Post(kind) PROVE IInv'
<1> DEFINE m == [gen |-> 0, id |-> 0, kind |-> kind]
<1>1. /\ used.posts < MaxPosts /\ used' = [used EXCEPT !.posts = @ + 1]
      /\ queue' = Append(queue, m)
      /\ UNCHANGED <<content, baseline, stamp, revision, epoch, place, gen, sinkGen, sinkOn,
                     task,
                     requests, frames, online, pending, replies, ui>>
  BY DEF Post, engineVars, pipeVars, clientVars
<1>2. m \in Tasks /\ m.id = 0
  BY DEF Tasks
<1> HIDE DEF m
<1>3. /\ queue' \in Seq(Tasks) /\ Len(queue') = Len(queue) + 1 /\ Len(queue) \in Nat
      /\ \A i \in DOMAIN queue' :
           \/ i \in DOMAIN queue /\ queue'[i] = queue[i]
           \/ i = Len(queue) + 1 /\ i \notin DOMAIN queue /\ queue'[i] = m
  BY <1>1, <1>2, AppendIs DEF IInv, TypeOK
<1>4. /\ used' \in [asks : 0 .. MaxAsks, posts : 0 .. MaxPosts, edits : 0 .. MaxEdits,
                    throws : 0 .. MaxThrows]
      /\ used'.asks = used.asks /\ used'.posts = used.posts + 1 /\ used'.edits = used.edits
      /\ used'.throws = used.throws /\ used.asks \in Nat /\ used.posts \in Nat
      /\ used.edits \in Nat
  BY <1>1, OnePosted
<1>5. TypeOK' /\ Connected'
  BY <1>1, <1>3, <1>4 DEF IInv, TypeOK, Connected
<1>6. Counted'
  <2>1. Outstanding' = Outstanding + 1 /\ Outstanding \in Nat
    BY <1>1, <1>3 DEF Outstanding, IInv, TypeOK
  <2> QED BY <1>1, <1>4, <2>1, CountedKept
<1>7. IsOnce'
  <2>1. \A i, j \in DOMAIN queue' : queue'[i].id # 0 /\ queue'[i].id = queue'[j].id => i = j
    BY <1>2, <1>3 DEF IInv, IsOnce
  <2> QED BY <1>1, <2>1 DEF IInv, IsOnce, IsReply
<1>8. IsInOnePlace'
  <2>1. \A i \in DOMAIN queue' : queue'[i].id # 0 => i \in DOMAIN queue /\ queue'[i] = queue[i]
    BY <1>2, <1>3
  <2>2. \A i \in DOMAIN requests : \A j \in DOMAIN queue' : requests[i].id # queue'[j].id
    BY <1>2, <1>3, ElementIs DEF IInv, IsInOnePlace
  <2> QED BY <1>1, <2>1, <2>2 DEF IInv, IsInOnePlace, IsReply
<1>9. IsKnown'
  BY <1>1, <1>2, <1>3, <1>4 DEF IInv, IsKnown, IsReply
<1>10. IsAwaited'
  BY <1>1, <1>2, <1>3 DEF IInv, IsAwaited, Posted, IsReply
<1>11. InOrder' /\ Acknowledged' /\ Baselines'
  BY <1>1, ViewKept
<1>12. Announced'
  BY <1>1, <1>4 DEF IInv, Announced, IsEvent, IsReply
<1> QED BY <1>5, <1>6, <1>7, <1>8, <1>9, <1>10, <1>11, <1>12 DEF IInv

LEMMA EditorEditsKeeps == ASSUME IInv, EditorEdits PROVE IInv'
<1>1. /\ used.edits < MaxEdits /\ used' = [used EXCEPT !.edits = @ + 1]
      /\ stamp' = stamp + 1 /\ content' = stamp'
      /\ UNCHANGED <<baseline, revision, epoch, place, gen, sinkGen, sinkOn, queue, task,
                     requests, frames, online, pending, replies, ui>>
  BY DEF EditorEdits, Changes, pipeVars, mainVars, clientVars
<1>2. /\ used' \in [asks : 0 .. MaxAsks, posts : 0 .. MaxPosts, edits : 0 .. MaxEdits,
                    throws : 0 .. MaxThrows]
      /\ used'.asks = used.asks /\ used'.posts = used.posts /\ used'.edits = used.edits + 1
      /\ used.asks \in Nat /\ used.posts \in Nat /\ used.edits \in Nat
  BY <1>1, OneEdited
<1>3. /\ content = stamp /\ content \in Nat /\ stamp \in Nat /\ revision \in Nat
      /\ epoch \in Nat
      /\ ui.content \in Nat
  BY DEF IInv, TypeOK, Counted, Stamps, Revisions
<1>4. Outstanding' = Outstanding /\ Outstanding \in Nat
  BY <1>1 DEF Outstanding, IInv, TypeOK
<1>5. Counted'
  BY <1>1, <1>2, <1>3, <1>4 DEF IInv, Counted
<1>6. TypeOK'
  <2>1. stamp + 1 \in Stamps
    BY <1>1, <1>2, <1>3, <1>4, <1>5, UsedIs DEF Counted, Stamps
  <2> QED BY <1>1, <1>2, <2>1 DEF IInv, TypeOK
<1>7. Connected' /\ IsOnce' /\ IsInOnePlace' /\ IsKnown' /\ IsAwaited'
  BY <1>1, <1>2 DEF IInv, Connected, IsOnce, IsInOnePlace, IsKnown, IsAwaited, Posted, IsReply
<1>8. content' = content + 1
  BY <1>1, <1>3
<1>9. InOrder'
  BY <1>1, <1>3, <1>8, ElementIs DEF IInv, InOrder, IsEvent, IsReply
<1>10. Acknowledged'
  BY <1>1 DEF IInv, Acknowledged, SeenBefore, IsEvent, IsReply
<1>11. Baselines'
  <2>1. ASSUME NEW r, r.content \in Nat, Truthful(r)
        PROVE  r.content <= content' /\ r.content # content'
    BY <1>3, <1>8, <2>1 DEF Truthful
  <2> QED BY <1>1, <2>1, ElementIs DEF IInv, Baselines, Truthful, IsReply
<1>12. Announced'
  BY <1>2 DEF Announced
<1> QED BY <1>5, <1>6, <1>7, <1>9, <1>10, <1>11, <1>12 DEF IInv

LEMMA AskKeeps == ASSUME IInv, NEW kind \in Kinds, Ask(kind) PROVE IInv'
<1> DEFINE c == [id |-> used'.asks, kind |-> kind]
<1>1. /\ online /\ used.asks < MaxAsks /\ used' = [used EXCEPT !.asks = @ + 1]
      /\ requests' = Append(requests, c) /\ pending' = pending \cup {used'.asks}
      /\ UNCHANGED <<content, baseline, stamp, revision, epoch, place, gen, sinkGen, sinkOn,
                     queue, task, frames, online, replies, ui>>
  BY DEF Ask, engineVars, pipeVars, mainVars
<1>2. /\ used' \in [asks : 0 .. MaxAsks, posts : 0 .. MaxPosts, edits : 0 .. MaxEdits,
                    throws : 0 .. MaxThrows]
      /\ used'.asks = used.asks + 1 /\ used'.posts = used.posts /\ used'.edits = used.edits
      /\ used'.throws = used.throws /\ used'.asks \in Ids
      /\ used.asks \in Nat /\ used.posts \in Nat /\ used.edits \in Nat
  BY <1>1, OneAsked
<1>3. c \in Commands /\ c.id = used.asks + 1
  BY <1>2 DEF Commands
<1> HIDE DEF c
<1>4. /\ requests' \in Seq(Commands) /\ Len(requests') = Len(requests) + 1
      /\ Len(requests) \in Nat
      /\ \A i \in DOMAIN requests' :
           \/ i \in DOMAIN requests /\ requests'[i] = requests[i]
           \/ i = Len(requests) + 1 /\ i \notin DOMAIN requests /\ requests'[i] = c
  BY <1>1, <1>3, AppendIs DEF IInv, TypeOK
<1>5. TypeOK'
  BY <1>1, <1>2, <1>4 DEF IInv, TypeOK
<1>6. Connected'
  BY <1>1 DEF IInv, Connected
<1>7. Counted'
  <2>1. Outstanding' = Outstanding + 1 /\ Outstanding \in Nat
    BY <1>1, <1>4 DEF Outstanding, IInv, TypeOK
  <2> QED BY <1>1, <1>2, <2>1, CountedKept
<1>8. /\ \A i \in DOMAIN requests : requests[i].id \in Nat /\ requests[i].id <= used.asks
      /\ \A i \in DOMAIN queue : queue[i].id \in Nat /\ queue[i].id <= used.asks
      /\ task.id \in Nat /\ task.id <= used.asks
      /\ \A i \in DOMAIN frames : IsReply(frames[i]) => frames[i].id \in Nat
           /\ frames[i].id <= used.asks
  <2>1. \A r \in Commands : r.id \in Nat
    BY DEF Commands, Ids
  <2>2. \A t \in {None} \cup Tasks : t.id \in Nat
    BY DEF Tasks, None, Ids
  <2>3. \A r \in Replies : r.id \in Nat
    BY DEF Replies, Ids
  <2>4. task \in {None} \cup Tasks
    BY DEF IInv, TypeOK
  <2> QED BY <2>1, <2>2, <2>3, <2>4, ElementIs DEF IInv, IsKnown
<1>9. IsOnce'
  <2>1. ASSUME NEW i \in DOMAIN requests', NEW j \in DOMAIN requests',
               requests'[i].id = requests'[j].id
        PROVE  i = j
    <3>1. CASE i \in DOMAIN requests /\ j \in DOMAIN requests
      BY <1>4, <2>1, <3>1 DEF IInv, IsOnce
    <3>2. CASE i \notin DOMAIN requests /\ j \notin DOMAIN requests
      BY <1>4, <3>2
    <3>3. \A k \in DOMAIN requests : requests[k].id # c.id
      BY <1>2, <1>3, <1>8
    <3>4. CASE i \in DOMAIN requests /\ j \notin DOMAIN requests
      BY <1>4, <2>1, <3>3, <3>4
    <3>5. CASE i \notin DOMAIN requests /\ j \in DOMAIN requests
      BY <1>4, <2>1, <3>3, <3>5
    <3> QED BY <3>1, <3>2, <3>4, <3>5
  <2> QED BY <1>1, <2>1 DEF IInv, IsOnce, IsReply
<1>10. IsInOnePlace'
  <2>1. ASSUME NEW i \in DOMAIN requests'
        PROVE  /\ requests'[i].id # task.id
               /\ \A j \in DOMAIN queue : requests'[i].id # queue[j].id
               /\ \A j \in DOMAIN frames : IsReply(frames[j]) => requests'[i].id # frames[j].id
    <3>1. CASE i \in DOMAIN requests
      BY <1>4, <3>1 DEF IInv, IsInOnePlace
    <3>2. CASE i \notin DOMAIN requests
      BY <1>2, <1>3, <1>4, <1>8, <3>2
    <3> QED BY <3>1, <3>2
  <2> QED BY <1>1, <2>1 DEF IInv, IsInOnePlace, IsReply
<1>11. IsKnown'
  <2>1. \A i \in DOMAIN requests' : requests'[i].id <= used.asks + 1
    BY <1>2, <1>3, <1>4, <1>8
  <2> QED BY <1>1, <1>2, <1>8, <2>1 DEF IsKnown, IsReply
<1>12. IsAwaited'
  <2>1. \A i \in DOMAIN requests' : requests'[i].id \in pending'
    BY <1>1, <1>2, <1>3, <1>4 DEF IInv, IsAwaited
  <2> QED BY <1>1, <2>1 DEF IInv, IsAwaited, Posted, IsReply
<1>13. InOrder' /\ Acknowledged' /\ Baselines'
  BY <1>1, ViewKept
<1>14. Announced'
  BY <1>1, <1>2 DEF IInv, Announced, IsEvent, IsReply
<1> QED BY <1>5, <1>6, <1>7, <1>9, <1>10, <1>11, <1>12, <1>13, <1>14 DEF IInv

LEMMA ResolveKeeps == ASSUME IInv, NEW r \in replies, Resolve(r) PROVE IInv'
<1>1. /\ replies' = replies \ {r} /\ ui'.content = ui.content
      /\ ui' \in [content : Stamps, revision : {NoRevision} \cup Revisions,
                  clean : {NoRevision} \cup Revisions]
      /\ UNCHANGED <<content, baseline, stamp, revision, epoch, place, gen, sinkGen, sinkOn,
                     queue,
                     task, requests, frames, online, pending, used>>
  <2>1. r.revision \in {NoRevision} \cup Revisions
    BY ElementIs DEF Replies
  <2>2. ui \in [content : Stamps, revision : {NoRevision} \cup Revisions,
                clean : {NoRevision} \cup Revisions]
    BY DEF IInv, TypeOK
  <2>3. ui' \in {ui, [ui EXCEPT !.revision = r.revision, !.clean = r.revision]}
    BY DEF Resolve
  <2> QED BY <2>1, <2>2, <2>3 DEF Resolve, engineVars, pipeVars, mainVars
<1>2. TypeOK' /\ Connected'
  BY <1>1 DEF IInv, TypeOK, Connected
<1>3. Counted' /\ IsOnce' /\ IsInOnePlace' /\ IsKnown' /\ IsAwaited'
  BY <1>1 DEF IInv, Counted, Outstanding, IsOnce, IsInOnePlace, IsKnown, IsAwaited, Posted,
     IsReply
<1>4. InOrder' /\ Acknowledged'
  BY <1>1 DEF IInv, InOrder, Acknowledged, SeenBefore, IsEvent, IsReply
<1>5. Baselines'
  BY <1>1 DEF IInv, Baselines, Truthful, IsBaseline, IsReply
<1>6. Announced'
  BY <1>1 DEF IInv, Announced, IsEvent, IsReply
<1> QED BY <1>2, <1>3, <1>4, <1>5, <1>6 DEF IInv

LEMMA BridgeReadsKeeps == ASSUME IInv, BridgeReads PROVE IInv'
<1> DEFINE f == Head(frames)
<1>1. /\ frames # <<>> /\ frames' = Tail(frames)
      /\ UNCHANGED <<content, baseline, stamp, revision, epoch, place, gen, sinkGen, sinkOn,
                     queue,
                     task, requests, online, used>>
  BY DEF BridgeReads, engineVars, pipeVars, mainVars
<1>2. /\ f = frames[1] /\ 1 \in DOMAIN frames
      /\ frames' \in Seq(Events \cup Replies)
      /\ \A i \in DOMAIN frames' : i \in Nat /\ i + 1 \in DOMAIN frames /\ i + 1 # 1
                                   /\ frames'[i] = frames[i + 1]
      /\ \A i \in DOMAIN frames :
           i = 1 \/ (i \in Int /\ i - 1 \in DOMAIN frames' /\ frames'[i - 1] = frames[i])
  BY <1>1, TailIs DEF IInv, TypeOK
<1>3. \/ /\ IsReply(f) /\ f \in Replies
         /\ pending' = pending \ {f.id} /\ replies' \in {replies, replies \cup {f}} /\ ui' = ui
      \/ /\ IsEvent(f) /\ f \in Events
         /\ ui' = [ui EXCEPT !.content = f.content, !.revision = f.revision]
         /\ pending' = pending /\ replies' = replies
  <2>1. CASE IsReply(f)
    BY <1>2, <2>1, ElementIs DEF BridgeReads, IsReply
  <2>2. CASE ~IsReply(f)
    <3>1. f \in Events
      BY <1>2, <2>2, ElementIs
    <3> QED BY <2>2, <3>1 DEF BridgeReads, IsReply, IsEvent
  <2> QED BY <2>1, <2>2
<1>4. DOMAIN frames \subseteq Int /\ DOMAIN frames' \subseteq Int
  BY <1>2 DEF IInv, TypeOK
<1>5. content \in Nat /\ ui.content \in Nat /\ ui.content <= content
      /\ \A i \in DOMAIN frames : frames[i].content \in Nat /\ frames[i].content <= content
  BY ElementIs DEF IInv, TypeOK, Stamps, InOrder
<1>6. /\ ui' \in [content : Stamps, revision : {NoRevision} \cup Revisions,
                  clean : {NoRevision} \cup Revisions]
      /\ ui'.content = IF IsReply(f) THEN ui.content ELSE f.content
  <2>1. ui \in [content : Stamps, revision : {NoRevision} \cup Revisions,
                clean : {NoRevision} \cup Revisions]
    BY DEF IInv, TypeOK
  <2>2. f \in Events => f.content \in Stamps /\ f.revision \in {NoRevision} \cup Revisions
    BY DEF Events
  <2> QED BY <1>3, <2>1, <2>2 DEF IsEvent
<1> HIDE DEF f
<1>7. /\ ui'.content \in Nat /\ ui'.content >= ui.content /\ ui'.content <= content
      /\ IsEvent(f) => ui'.content = f.content
  BY <1>2, <1>5, <1>6 DEF IInv, InOrder, IsEvent
<1>8. TypeOK'
  <2>1. pending' \in SUBSET Ids /\ replies' \in SUBSET Replies
    BY <1>3 DEF IInv, TypeOK
  <2> QED BY <1>1, <1>2, <1>6, <2>1 DEF IInv, TypeOK
<1>9. Connected'
  BY <1>1 DEF IInv, Connected
<1>10. Counted'
  BY <1>1 DEF IInv, Counted, Outstanding
<1>11. IsOnce'
  <2>1. ASSUME NEW i \in DOMAIN frames', NEW j \in DOMAIN frames',
               IsReply(frames'[i]), IsReply(frames'[j]), frames'[i].id = frames'[j].id
        PROVE  i = j
    <3>1. i + 1 = j + 1
      BY <1>2, <2>1 DEF IInv, IsOnce
    <3> QED BY <1>4, <3>1
  <2> QED BY <1>1, <2>1 DEF IInv, IsOnce, IsReply
<1>12. IsInOnePlace' /\ IsKnown'
  <2>1. ASSUME NEW i \in DOMAIN frames', IsReply(frames'[i])
        PROVE  i + 1 \in DOMAIN frames /\ IsReply(frames[i + 1])
                 /\ frames'[i].id = frames[i + 1].id
    BY <1>2, <2>1
  <2>2. IsInOnePlace'
    BY <1>1, <2>1 DEF IInv, IsInOnePlace, IsReply
  <2>3. IsKnown'
    BY <1>1, <2>1 DEF IInv, IsKnown, IsReply
  <2> QED BY <2>2, <2>3
<1>13. IsAwaited'
  <2>1. pending' = IF IsReply(f) THEN pending \ {f.id} ELSE pending
    BY <1>3 DEF IsEvent
  <2>2. \A i \in DOMAIN requests : requests[i].id \in pending => requests[i].id \in pending'
    BY <1>2, <2>1 DEF IInv, IsInOnePlace
  <2>3. \A i \in DOMAIN queue : queue[i].id # 0 /\ queue[i].id \in pending
          => queue[i].id \in pending'
    BY <1>2, <2>1 DEF IInv, IsInOnePlace
  <2>4. task.id # 0 /\ task.id \in pending => task.id \in pending'
    BY <1>2, <2>1 DEF IInv, IsInOnePlace
  <2>5. ASSUME NEW i \in DOMAIN frames', IsReply(frames'[i]) PROVE frames'[i].id \in pending'
    <3>1. i + 1 \in DOMAIN frames /\ i + 1 # 1 /\ frames'[i] = frames[i + 1]
      BY <1>2
    <3>2. frames[i + 1].id \in pending
      BY <2>5, <3>1 DEF IInv, IsAwaited
    <3>3. IsReply(f) => frames[i + 1].id # f.id
      BY <1>2, <2>5, <3>1 DEF IInv, IsOnce
    <3> QED BY <2>1, <3>1, <3>2, <3>3
  <2> QED BY <1>1, <2>2, <2>3, <2>4, <2>5 DEF IInv, IsAwaited, Posted, IsReply
<1>14. InOrder'
  <2>1. ASSUME NEW i \in DOMAIN frames'
        PROVE  frames'[i].content <= content /\ (IsEvent(frames'[i])
                 => ui'.content <= frames'[i].content)
    <3>1. frames'[i] = frames[i + 1] /\ i + 1 \in DOMAIN frames /\ 1 < i + 1
      BY <1>1, <1>2 DEF IInv, TypeOK
    <3>2. CASE IsReply(f)
      BY <1>6, <3>1, <3>2 DEF IInv, InOrder
    <3>3. CASE ~IsReply(f)
      BY <1>2, <1>7, <3>1, <3>3 DEF IInv, InOrder, IsEvent
    <3> QED BY <3>2, <3>3
  <2>2. ASSUME NEW i \in DOMAIN frames', NEW j \in DOMAIN frames',
               i < j, IsEvent(frames'[i]), IsEvent(frames'[j])
        PROVE  frames'[i].content <= frames'[j].content
    <3>1. i + 1 < j + 1
      BY <1>4, <2>2
    <3> QED BY <1>2, <2>2, <3>1 DEF IInv, InOrder
  <2> QED BY <1>1, <1>7, <2>1, <2>2 DEF InOrder, IsEvent, IsReply
<1>15. Acknowledged'
  <2>1. ASSUME NEW i \in DOMAIN frames', IsReply(frames'[i]), frames'[i].ok,
               frames'[i].kind \in {"edit", "load"}
        PROVE  \/ ui'.content >= frames'[i].content
               \/ \E k \in 1 .. i - 1 : IsEvent(frames'[k])
                    /\ frames'[k].content >= frames'[i].content
    <3>1. frames'[i] = frames[i + 1] /\ i + 1 \in DOMAIN frames /\ i \in Nat
      BY <1>2
    <3>2. frames[i + 1].content \in Nat
      BY <3>1, <1>5
    <3>3. CASE ui.content >= frames[i + 1].content
      BY <3>1, <3>2, <3>3, <1>5, <1>7
    <3>4. ASSUME NEW k \in 1 .. (i + 1) - 1, IsEvent(frames[k]),
                 frames[k].content >= frames[i + 1].content
          PROVE  \/ ui'.content >= frames'[i].content
                 \/ \E l \in 1 .. i - 1 :
                      IsEvent(frames'[l]) /\ frames'[l].content >= frames'[i].content
      <4>1. CASE k = 1
        BY <1>2, <1>7, <3>1, <3>4, <4>1
      <4>2. CASE k # 1
        <5>1. k \in DOMAIN frames /\ k - 1 \in 1 .. i - 1
          BY <3>1, <4>2 DEF IInv, TypeOK
        <5>2. frames'[k - 1] = frames[k]
          BY <1>2, <4>2, <5>1
        <5> QED BY <3>1, <3>4, <5>1, <5>2
      <4> QED BY <4>1, <4>2
    <3> QED BY <2>1, <3>1, <3>3, <3>4 DEF IInv, Acknowledged, SeenBefore
  <2> QED BY <2>1 DEF Acknowledged, SeenBefore, IsEvent, IsReply
<1>16. Baselines'
  <2>1. \A r \in replies' : Truthful(r)
    BY <1>2, <1>3 DEF IInv, Baselines
  <2>2. \A i \in DOMAIN frames' : IsReply(frames'[i]) => Truthful(frames'[i])
    BY <1>2 DEF IInv, Baselines
  <2> QED BY <1>1, <2>1, <2>2 DEF Baselines, Truthful, IsBaseline, IsReply
<1>17. Announced'
  <2> SUFFICES ASSUME gen = 1, used.throws = 0, used.edits = 0, "param" \notin Kinds,
                      online, sinkOn
               PROVE  \/ ui'.content = content
                      \/ \E k \in DOMAIN frames' : IsEvent(frames'[k])
                           /\ frames'[k].content = content
    BY <1>1 DEF Announced, IsEvent, IsReply
  <2>1. CASE ui.content = content
    BY <2>1, <1>5, <1>7
  <2>2. ASSUME NEW k \in DOMAIN frames, IsEvent(frames[k]), frames[k].content = content
        PROVE  \/ ui'.content = content
               \/ \E l \in DOMAIN frames' : IsEvent(frames'[l]) /\ frames'[l].content = content
    BY <2>2, <1>2, <1>7
  <2> QED BY <2>1, <2>2 DEF IInv, Announced
<1> QED BY <1>8, <1>9, <1>10, <1>11, <1>12, <1>13, <1>14, <1>15, <1>16, <1>17 DEF IInv

LEMMA InitHolds == Init => IInv
<1> SUFFICES ASSUME Init PROVE IInv
  OBVIOUS
<1>1. DOMAIN <<>> = {} /\ Len(<<>>) = 0
  OBVIOUS
<1>2. <<>> \in Seq(Commands) /\ <<>> \in Seq(Tasks) /\ <<>> \in Seq(Events \cup Replies)
  OBVIOUS
<1>3. None.id = 0
  BY DEF None
<1>4. 0 \in Stamps /\ 0 \in Revisions /\ 0 \in Gens
  BY BoundsAssumption DEF Stamps, Revisions, Gens
<1>5. used \in [asks : 0 .. MaxAsks, posts : 0 .. MaxPosts, edits : 0 .. MaxEdits,
                throws : 0 .. MaxThrows]
  BY BoundsAssumption DEF Init
<1>6. TypeOK
  BY <1>2, <1>4, <1>5 DEF Init, TypeOK
<1>7. Counted /\ Connected
  BY <1>1 DEF Init, Counted, Outstanding, Connected
<1>8. IsOnce /\ IsInOnePlace /\ IsKnown /\ IsAwaited
  BY <1>1, <1>3 DEF Init, IsOnce, IsInOnePlace, IsKnown, IsAwaited, Posted
<1>9. InOrder /\ Acknowledged /\ Baselines /\ Announced
  BY <1>1 DEF Init, InOrder, Acknowledged, Baselines, Announced
<1> QED BY <1>6, <1>7, <1>8, <1>9 DEF IInv

LEMMA StutterKeeps == ASSUME IInv, UNCHANGED vars PROVE IInv'
<1>1. UNCHANGED <<content, baseline, stamp, revision, epoch, place, gen, sinkGen, sinkOn,
                  queue,
                  task, requests, frames, online, pending, replies, ui, used>>
  BY DEF vars, engineVars, pipeVars, mainVars, clientVars
<1>2. TypeOK' /\ Connected'
  BY <1>1 DEF IInv, TypeOK, Connected
<1>3. Counted' /\ IsOnce' /\ IsInOnePlace' /\ IsKnown' /\ IsAwaited'
  BY <1>1 DEF IInv, Counted, Outstanding, IsOnce, IsInOnePlace, IsKnown, IsAwaited, Posted,
     IsReply
<1>4. InOrder' /\ Acknowledged' /\ Baselines'
  BY <1>1, ViewKept
<1>5. Announced'
  BY <1>1 DEF IInv, Announced, IsEvent, IsReply
<1> QED BY <1>2, <1>3, <1>4, <1>5 DEF IInv

\* The inductive invariant holds of every reachable state.
THEOREM Invariance == Spec => []IInv
<1>1. IInv /\ [Next]_vars => IInv'
  <2> SUFFICES ASSUME IInv, [Next]_vars PROVE IInv'
    OBVIOUS
  <2>1. CASE PipeThread
    BY <2>1, AcceptKeeps, AuthFailsKeeps, ConnectKeeps, ServeReadsKeeps, ServeStops,
       DisconnectKeeps
       DEF PipeThread
  <2>2. CASE MainThread
    BY <2>2, MainTakesKeeps, DispatchKeeps DEF MainThread
  <2>3. CASE EditorEdits
    BY <2>3, EditorEditsKeeps
  <2>4. CASE \E kind \in HostKinds : Post(kind)
    BY <2>4, PostKeeps
  <2>5. CASE \E kind \in Kinds : Ask(kind)
    BY <2>5, AskKeeps
  <2>6. CASE BridgeReads
    BY <2>6, BridgeReadsKeeps
  <2>7. CASE \E r \in replies : Resolve(r)
    BY <2>7, ResolveKeeps
  <2>8. CASE Drop
    BY <2>8, DropKeeps
  <2>9. CASE UNCHANGED vars
    BY <2>9, StutterKeeps
  <2> QED BY <2>1, <2>2, <2>3, <2>4, <2>5, <2>6, <2>7, <2>8, <2>9 DEF Next
<1> QED BY <1>1, InitHolds, PTL DEF Spec

(***************************************************************************)
(* What follows from it.                                                   *)
(***************************************************************************)

\* Type correctness, for any commands and any bounds.
THEOREM TypeCorrect == Spec => []TypeOK
<1>1. IInv => TypeOK
  BY DEF IInv
<1> QED BY <1>1, Invariance, PTL

\* serve_client, main_wnd_proc and complete answer a command once, and only on
\* the connection that asked: a reply in the pipe is one its client waits for,
\* and no two are of the same command.
THEOREM CommandsAreAnsweredOnce == Spec => []RepliesAreAsked
<1>1. IInv => RepliesAreAsked
  BY DEF IInv, IsAwaited, IsOnce, RepliesAreAsked
<1> QED BY <1>1, Invariance, PTL

\* complete sends the status before the reply: when a mutation is acknowledged
\* the client has been shown it, or something newer.
THEOREM StatusComesFirst == Spec => []StatusBeforeReply
<1>1. IInv => StatusBeforeReply
  <2> SUFFICES ASSUME IInv, NEW n \in DOMAIN frames, IsReply(frames[n]), frames[n].ok,
                      frames[n].kind \in {"edit", "load"}
               PROVE  \E c \in Seen(n) : c >= frames[n].content
    BY DEF StatusBeforeReply
  <2>1. CASE ui.content >= frames[n].content
    BY <2>1 DEF Seen
  <2>2. ASSUME NEW k \in 1 .. n - 1, IsEvent(frames[k]), frames[k].content >= frames[n].content
        PROVE  \E c \in Seen(n) : c >= frames[n].content
    <3>1. k \in 1 .. n
      BY DEF IInv, TypeOK
    <3>2. frames[k].content \in Seen(n)
      BY <2>2, <3>1 DEF Seen, IsEvent
    <3> QED BY <2>2, <3>2
  <2> QED BY <2>1, <2>2 DEF IInv, Acknowledged, SeenBefore
<1> QED BY <1>1, Invariance, PTL

\* The revision in the reply of a save, a load or ensure_system_outputs is the
\* revision of the state it leaves: when the client learns it, and the engine
\* still is in that state, it still has that revision.
THEOREM BaselineHasItsRevision == Spec => []BaselineIsCurrent
<1>1. IInv => BaselineIsCurrent
  BY DEF IInv, Baselines, Truthful, IsBaseline, BaselineIsCurrent
<1> QED BY <1>1, Invariance, PTL

\* The snapshot of Router::connect and the broadcasts of complete and
\* publish_effect leave no gap: a first connection's client that has read
\* everything shows the engine's state, as long as no handler throws and every
\* change is one the engine announces.
THEOREM NoStatusIsLost == Spec => []FirstViewIsCurrent
<1>1. IInv => FirstViewIsCurrent
  <2>1. DOMAIN <<>> = {}
    OBVIOUS
  <2> QED BY <2>1 DEF IInv, Connected, Announced, FirstViewIsCurrent, ViewIsCurrent, Quiet
<1> QED BY <1>1, Invariance, PTL
==============================================================================
