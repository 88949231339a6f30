--------------------------- MODULE ScanJob_proofs ---------------------------
(***************************************************************************)
(* A cancelled job was cancelled itself, and the list of a page that lost   *)
(* nothing is the registry: for any number of roots, modules and commands.  *)
(***************************************************************************)
EXTENDS ScanJob, SequenceTheorems, TLAPS

\* The flag is that of the current job: it is cleared where the job's id moves,
\* and nothing but handle_cancel_scan of that job raises it.
FlagIsOfThisJob == cancel => jobId \in hit

IInv == FlagIsOfThisJob /\ CancelHitsItsJob

LEMMA InitEstablishes == Init => IInv
  BY DEF Init, IInv, FlagIsOfThisJob, CancelHitsItsJob

\* Commands keep it: only handle_start_scan moves the id, and it clears the flag
\* and finds no job about to end.
LEMMA DispatchPreserves == IInv /\ Dispatch => IInv'
<1> SUFFICES ASSUME IInv, Dispatch PROVE IInv'
  OBVIOUS
<1> USE DEF IInv, FlagIsOfThisJob, CancelHitsItsJob
<1>1. CASE HandleStartScan
  <2>1. CASE running /\ UNCHANGED <<jobVars, threadVars>>
    BY <1>1, <2>1 DEF HandleStartScan, jobVars, threadVars, histVars
  <2>2. CASE NewJob
    BY <1>1, <2>2 DEF HandleStartScan, NewJob, histVars
  <2> QED BY <1>1, <2>1, <2>2 DEF HandleStartScan
<1>2. CASE HandleStartScanThrows
  BY <1>2 DEF HandleStartScanThrows
<1>3. CASE HandleCancelScan
  <2>1. UNCHANGED <<jobId, scanner, outcome>>
    BY <1>3 DEF HandleCancelScan, threadVars
  <2>2. hit \subseteq hit'
    BY <1>3 DEF HandleCancelScan
  <2>3. running => jobId \in hit'
    BY <1>3 DEF HandleCancelScan
  <2>4. cancel' => cancel \/ running
    BY ONLY <1>3 DEF HandleCancelScan
  <2> QED BY <2>1, <2>2, <2>3, <2>4
<1>4. CASE HandleGetSnapshot \/ HandleRetryPlugin
  BY <1>4 DEF HandleGetSnapshot, HandleRetryPlugin, jobVars, threadVars, histVars
<1> QED BY <1>1, <1>2, <1>3, <1>4 DEF Dispatch

\* The thread ends as cancelled only where it has seen the flag.
LEMMA ScanPreserves == IInv /\ Scan => IInv'
<1> SUFFICES ASSUME IInv, Scan PROVE IInv'
  OBVIOUS
<1> USE DEF IInv, FlagIsOfThisJob, CancelHitsItsJob
<1>1. CASE ScanRoot
  <2>1. UNCHANGED <<cancel, jobId, hit>>
    BY <1>1 DEF ScanRoot, jobVars, histVars
  <2>2. \/ cancel
        \/ outcome' # "cancelled"
        \/ scanner' \notin {"commit", "announce"}
    BY <1>1 DEF ScanRoot, Ends
  <2> QED BY <2>1, <2>2
<1>2. CASE ScanWorker
  <2>1. UNCHANGED <<cancel, jobId, hit>>
    BY <1>2 DEF ScanWorker, jobVars, histVars
  <2>2. \/ cancel
        \/ outcome' # "cancelled"
        \/ scanner' \notin {"commit", "announce"}
    BY <1>2 DEF ScanWorker, Ends
  <2> QED BY <2>1, <2>2
<1>3. CASE ScanSave
  BY <1>3 DEF ScanSave, Ends, jobVars, histVars
<1>4. CASE ScanCommit
  BY <1>4 DEF ScanCommit, histVars
<1>5. CASE ScanAnnounce
  BY <1>5 DEF ScanAnnounce, jobVars, histVars
<1> QED BY <1>1, <1>2, <1>3, <1>4, <1>5 DEF Scan

\* Connections, the interface and the pipe touch none of it.
LEMMA OthersPreserve ==
  IInv /\ (Connect \/ User \/ Deliver \/ Drop) => IInv'
<1> SUFFICES ASSUME IInv, Connect \/ User \/ Deliver \/ Drop PROVE IInv'
  OBVIOUS
<1>1. UNCHANGED <<cancel, jobId, hit, scanner, outcome>>
  <2>1. CASE Connect
    BY <2>1 DEF Connect, ConnectReads, ConnectSetsSink, ConnectSends, jobVars, threadVars,
                histVars
  <2>2. CASE User
    BY <2>2 DEF User, UiStart, UiCancel, UiReload, UiRetry, jobVars, threadVars, histVars
  <2>3. CASE Deliver
    BY <2>3 DEF Deliver, UiEvent, UiReply, jobVars, threadVars, histVars
  <2>4. CASE Drop
    BY <2>4 DEF Drop, jobVars, threadVars
  <2> QED BY <2>1, <2>2, <2>3, <2>4
<1> QED BY <1>1 DEF IInv, FlagIsOfThisJob, CancelHitsItsJob

\* A job that ends as cancelled is one a cancel_scan was handled for while it
\* ran: the flag of scan_job_ never reaches the next job.
THEOREM CancelIsAimed == Spec => []CancelHitsItsJob
<1>1. Init => IInv
  BY InitEstablishes
<1>2. IInv /\ [Next]_vars => IInv'
  <2> SUFFICES ASSUME IInv, [Next]_vars PROVE IInv'
    OBVIOUS
  <2>1. CASE Next
    BY <2>1, DispatchPreserves, ScanPreserves, OthersPreserve DEF Next
  <2>2. CASE UNCHANGED vars
    BY <2>2 DEF vars, jobVars, threadVars, histVars, IInv, FlagIsOfThisJob, CancelHitsItsJob
  <2> QED BY <2>1, <2>2
<1>3. IInv => CancelHitsItsJob
  BY DEF IInv
<1> QED BY <1>1, <1>2, <1>3, PTL DEF Spec

-----------------------------------------------------------------------------
(***************************************************************************)
(* The list of the page, as long as its first connection lasts.            *)
(***************************************************************************)

UiShapes ==
  [phase : {"idle", "scanning", "completed", "failed"}, job : Nat, pending : BOOLEAN,
   epoch : Nat, modules : SUBSET Modules, page : Nat]

RequestShapes ==
  [kind : {"start", "cancel", "snapshot"}, page : Nat]
    \cup [kind : {"retry"}, page : Nat, module : Modules]

EventShapes ==
  [kind : {"snapshot"}, modules : SUBSET Modules, epoch : Nat]
    \cup [kind : {"scan_progress", "scan_failed", "scan_cancelled"}, job : Nat]
    \cup [kind : {"scan_done"}, job : Nat, modules : SUBSET Modules]

ReplyShapes ==
  [kind : {"start"}, page : Nat, job : Nat] \cup [kind : {"refused"}, page : Nat]
    \cup [kind : {"snapshot"}, page : Nat, modules : SUBSET Modules]

Counts == [starts : Nat, cancels : Nat, drops : Nat, approvals : Nat, throws : Nat]

\* The types, without the bounds.
Shapes ==
  /\ ui \in UiShapes /\ count \in Counts
  /\ requests \in Seq(RequestShapes) /\ events \in Seq(EventShapes)
  /\ replies \subseteq ReplyShapes
  /\ registry \in SUBSET Modules /\ copy \in SUBSET Modules /\ candidate \in SUBSET Modules
  /\ jobId \in Nat /\ epoch \in Nat
  /\ outcome \in {"done", "failed", "cancelled"}
  /\ scanner \in {"none", "root", "worker", "save", "commit", "announce", "ended"}

Active == scanner \in {"root", "worker", "save", "commit", "announce"}

NoStart == \A i \in DOMAIN requests : requests[i].kind # "start"

OneStart ==
  \E i \in DOMAIN requests :
    \A j \in DOMAIN requests : requests[j].kind = "start" <=> j = i

Hears == ui.phase = "scanning" /\ Matches(jobId)

IsSnapshot(e) == e.kind = "snapshot" /\ e.epoch = 0

IsOfJob(e) == IsSnapshot(e) \/ (e.kind = "scan_progress" /\ e.job = jobId)

\* Nobody waits for a scan, and there is none.
Calm ==
  /\ ui.phase # "scanning" /\ NoStart /\ ~Active /\ ui.modules = registry
  /\ \A i \in DOMAIN events : IsSnapshot(events[i]) /\ events[i].modules = registry

\* The page waits, and its start_scan is on the way.
Asked ==
  /\ ui.phase = "scanning" /\ ui.pending /\ ui.job = NoJob
  /\ OneStart /\ ~Active /\ ui.modules = registry
  /\ \A i \in DOMAIN events : IsSnapshot(events[i])

\* The page takes the events of the job that runs.
Scanning ==
  /\ Hears /\ NoStart /\ Active
  /\ IF scanner = "announce" /\ outcome = "done" THEN registry = candidate
     ELSE ui.modules = registry
  /\ \A i \in DOMAIN events : IsOfJob(events[i])

\* The last event of the job it takes is on the way.
Announced ==
  /\ Hears /\ NoStart /\ ~Active
  /\ events # <<>>
  /\ LET e == events[Len(events)]
     IN  /\ e.kind \in {"scan_done", "scan_failed", "scan_cancelled"} /\ e.job = jobId
         /\ IF e.kind = "scan_done" THEN e.modules = registry ELSE ui.modules = registry
  /\ \A i \in DOMAIN events : i # Len(events) => IsOfJob(events[i])

\* A late reply has named an older job, and the page waits for that one.
Misled ==
  /\ ui.phase = "scanning" /\ ~ui.pending /\ ui.job <= jobId
  /\ Active => ui.job # jobId
  /\ \A i \in DOMAIN events :
       IsSnapshot(events[i]) \/ (events[i].kind # "snapshot" /\ events[i].job # ui.job)

\* Commands and replies of a page that has not been reloaded.
Wires ==
  /\ \A i \in DOMAIN requests : requests[i].kind \in {"start", "cancel"} /\ requests[i].page = 0
  /\ \A r \in replies : r.kind = "start" /\ r.page = 0 /\ r.job \in 1 .. jobId
  /\ epoch = 0 /\ ui.epoch = 0
  /\ running => Active /\ scanner # "announce" /\ jobId # 0

\* Before the first connection is up there is nothing to lose.
Before ==
  link # "up" => /\ ui.phase # "scanning" /\ ~Active
                 /\ requests = <<>> /\ events = <<>>
                 /\ link \in {"read", "sink"} => copy = registry

Listed == Wires /\ Before /\ (Calm \/ Asked \/ Scanning \/ Announced \/ Misled)

Lists == Shapes /\ (Undisturbed => Listed)

\* What the page makes of an event.
LEMMA ReactShape ==
  ASSUME ui \in UiShapes, NEW e \in EventShapes
  PROVE  React(e) \in UiShapes /\ React(e).page = ui.page
<1>1. CASE e.kind = "snapshot"
  <2>1. e.modules \in SUBSET Modules /\ e.epoch \in Nat
    BY <1>1 DEF EventShapes
  <2>2. Observes(ui, e.epoch) \in UiShapes /\ Observes(ui, e.epoch).page = ui.page
    <3>1. CASE ui.epoch # 0 /\ ui.epoch # e.epoch
      BY <2>1, <3>1 DEF Observes, UiShapes, NoJob
    <3>2. CASE ~(ui.epoch # 0 /\ ui.epoch # e.epoch)
      BY <2>1, <3>2 DEF Observes, UiShapes
    <3> QED BY <3>1, <3>2
  <2>3. React(e) = TakesList(Observes(ui, e.epoch), e.modules)
    BY <1>1 DEF React
  <2> HIDE DEF Observes
  <2> QED BY <2>1, <2>2, <2>3 DEF TakesList, UiShapes
<1>2. CASE e.kind # "snapshot" /\ ~Matches(e.job)
  BY <1>2 DEF React
<1>3. CASE e.kind # "snapshot" /\ Matches(e.job)
  <2>1. e.job \in Nat
    BY <1>3 DEF EventShapes
  <2>2. CASE e.kind = "scan_done"
    <3>1. e.modules \in SUBSET Modules
      BY <2>2 DEF EventShapes
    <3> QED BY <1>3, <2>1, <2>2, <3>1 DEF React, UiShapes
  <2>3. CASE e.kind = "scan_progress"
    BY <1>3, <2>1, <2>3 DEF React, UiShapes
  <2>4. CASE e.kind = "scan_failed"
    BY <1>3, <2>1, <2>4 DEF React, UiShapes
  <2>5. CASE e.kind = "scan_cancelled"
    BY <1>3, <2>1, <2>5 DEF React, UiShapes
  <2> QED BY <1>3, <2>2, <2>3, <2>4, <2>5 DEF EventShapes
<1> QED BY <1>1, <1>2, <1>3

LEMMA ReplyShape ==
  ASSUME ui \in UiShapes, replies \subseteq ReplyShapes, NEW r \in replies, UiReply(r)
  PROVE  ui' \in UiShapes /\ ui'.page = ui.page
<1>1. r \in ReplyShapes
  OBVIOUS
<1>2. CASE r.page # ui.page
  BY <1>2 DEF UiReply
<1>3. CASE r.page = ui.page /\ r.kind = "start"
  <2>1. r.job \in Nat
    BY <1>1, <1>3 DEF ReplyShapes
  <2>2. ui' = Confirms(r.job)
    BY <1>3 DEF UiReply
  <2> QED BY <2>1, <2>2 DEF Confirms, UiShapes, NoJob
<1>4. CASE r.page = ui.page /\ r.kind = "refused"
  <2>1. ui' = Rejects
    BY <1>4 DEF UiReply
  <2> QED BY <2>1 DEF Rejects, UiShapes, NoJob
<1>5. CASE r.page = ui.page /\ r.kind = "snapshot"
  <2>1. r.modules \in SUBSET Modules
    BY <1>1, <1>5 DEF ReplyShapes
  <2>2. ui' = TakesList(ui, r.modules)
    BY <1>5 DEF UiReply
  <2> QED BY <2>1, <2>2 DEF TakesList, UiShapes
<1> QED BY <1>1, <1>2, <1>3, <1>4, <1>5 DEF ReplyShapes

LEMMA UiShapeStep ==
  ASSUME Shapes, [Next]_vars
  PROVE  ui' \in UiShapes /\ ui'.page >= ui.page
<1>0. ui \in UiShapes /\ ui.page \in Nat
  BY DEF Shapes, UiShapes
<1>1. CASE UiReload
  <2>1. ui' = [FreshUi EXCEPT !.page = ui.page + 1, !.epoch = ui.epoch]
    BY <1>1 DEF UiReload
  <2>2. FreshUi \in UiShapes
    BY DEF FreshUi, UiShapes, NoJob
  <2>3. ui.page + 1 \in Nat /\ ui.epoch \in Nat
    BY <1>0 DEF UiShapes
  <2> HIDE DEF FreshUi
  <2>4. ui' \in UiShapes /\ ui'.page = ui.page + 1
    BY <2>1, <2>2, <2>3 DEF UiShapes
  <2> QED BY <1>0, <2>4
<1>2. CASE UiEvent
  <2>1. Head(events) \in EventShapes /\ ui' = React(Head(events))
    BY <1>2 DEF UiEvent, Shapes
  <2> QED BY <1>0, <2>1, ReactShape
<1>3. ASSUME NEW r \in replies, UiReply(r)
      PROVE  ui' \in UiShapes /\ ui'.page >= ui.page
  BY <1>0, <1>3, ReplyShape DEF Shapes
<1>4. CASE UiStart
  <2>1. \/ ui' = [ui EXCEPT !.phase = "scanning", !.job = NoJob, !.pending = TRUE]
        \/ ui' = [ui EXCEPT !.phase = "failed", !.job = NoJob, !.pending = FALSE]
    BY <1>4 DEF UiStart
  <2>2. CASE ui' = [ui EXCEPT !.phase = "scanning", !.job = NoJob, !.pending = TRUE]
    <3>1. ui' \in UiShapes /\ ui'.page = ui.page
      BY <1>0, <2>2 DEF UiShapes, NoJob
    <3> QED BY <1>0, <3>1
  <2>3. CASE ui' = [ui EXCEPT !.phase = "failed", !.job = NoJob, !.pending = FALSE]
    <3>1. ui' \in UiShapes /\ ui'.page = ui.page
      BY <1>0, <2>3 DEF UiShapes, NoJob
    <3> QED BY <1>0, <3>1
  <2> QED BY <2>1, <2>2, <2>3
<1>5. CASE Drop
  <2>1. ui' = Rejects
    BY <1>5 DEF Drop
  <2>2. ui' \in UiShapes /\ ui'.page = ui.page
    BY <1>0, <2>1 DEF Rejects, UiShapes, NoJob
  <2> QED BY <1>0, <2>2
<1>6. CASE ui' = ui
  BY <1>0, <1>6
<1> QED
  BY <1>1, <1>2, <1>3, <1>4, <1>5, <1>6
  DEF Next, Connect, ConnectReads, ConnectSetsSink, ConnectSends, Dispatch, HandleStartScan,
      HandleStartScanThrows, HandleCancelScan, HandleGetSnapshot, HandleRetryPlugin, Scan,
      ScanRoot, ScanWorker, ScanSave, ScanCommit, ScanAnnounce, User, UiCancel, UiRetry, Deliver,
      vars

LEMMA CountStep ==
  ASSUME Shapes, [Next]_vars
  PROVE  /\ count' \in Counts
         /\ count'.drops >= count.drops /\ count'.approvals >= count.approvals
         /\ count'.throws >= count.throws
<1>1. \/ count' = count
      \/ count' = [count EXCEPT !.starts = @ + 1]
      \/ count' = [count EXCEPT !.cancels = @ + 1]
      \/ count' = [count EXCEPT !.drops = @ + 1]
      \/ count' = [count EXCEPT !.approvals = @ + 1]
      \/ count' = [count EXCEPT !.throws = @ + 1]
  BY DEF Next, Connect, ConnectReads, ConnectSetsSink, ConnectSends, Dispatch, HandleStartScan,
         HandleStartScanThrows, HandleCancelScan, HandleGetSnapshot, HandleRetryPlugin, Scan,
         ScanRoot, ScanWorker, ScanSave, ScanCommit, ScanAnnounce, User, UiStart, UiCancel,
         UiReload, UiRetry, Deliver, UiEvent, UiReply, Drop, vars, histVars
<1>2. count \in Counts
  BY DEF Shapes
<1> QED BY <1>1, <1>2 DEF Counts

\* A prefix of a sequence.
LEMMA Prefix ==
  ASSUME NEW S, NEW s \in Seq(S), NEW n \in 0 .. Len(s)
  PROVE  SubSeq(s, 1, n) \in Seq(S)
BY SubSeqProperties

EngineShapes ==
  /\ registry \in SUBSET Modules /\ copy \in SUBSET Modules /\ candidate \in SUBSET Modules
  /\ jobId \in Nat /\ epoch \in Nat
  /\ outcome \in {"done", "failed", "cancelled"}
  /\ scanner \in {"none", "root", "worker", "save", "commit", "announce", "ended"}

WireShapes ==
  /\ requests \in Seq(RequestShapes) /\ events \in Seq(EventShapes)
  /\ replies \subseteq ReplyShapes

LEMMA EngineShapesStep ==
  ASSUME Shapes, [Next]_vars
  PROVE  EngineShapes'
<1> USE DEF jobVars, threadVars, linkVars, histVars, EngineShapes
<1>0. EngineShapes /\ requests \in Seq(RequestShapes)
  BY DEF Shapes
<1>1. CASE Connect
  BY <1>0, <1>1 DEF Connect, ConnectReads, ConnectSetsSink, ConnectSends
<1>2. CASE HandleStartScan
  <2>1. CASE UNCHANGED <<jobVars, threadVars>>
    BY <1>0, <1>2, <2>1 DEF HandleStartScan
  <2>2. CASE NewJob
    <3>1. /\ jobId' = jobId + 1 /\ candidate' = {} /\ scanner' = "root"
      BY <2>2 DEF NewJob
    <3>2. UNCHANGED <<registry, copy, epoch, outcome>>
      BY <1>2 DEF HandleStartScan
    <3> QED BY <1>0, <3>1, <3>2
  <2> QED BY <1>2, <2>1, <2>2 DEF HandleStartScan
<1>3. CASE HandleStartScanThrows
  BY <1>0, <1>3 DEF HandleStartScanThrows
<1>4. CASE HandleCancelScan
  BY <1>0, <1>4 DEF HandleCancelScan
<1>5. CASE HandleGetSnapshot
  BY <1>0, <1>5 DEF HandleGetSnapshot
<1>6. CASE HandleRetryPlugin
  <2>1. Head(requests) \in RequestShapes /\ Head(requests).kind = "retry"
    BY <1>0, <1>6 DEF HandleRetryPlugin, Receives
  <2>2. Head(requests).module \in Modules
    BY <2>1 DEF RequestShapes
  <2> QED BY <1>0, <1>6, <2>2 DEF HandleRetryPlugin
<1>7. CASE ScanRoot
  BY <1>0, <1>7 DEF ScanRoot, Ends
<1>8. CASE ScanWorker
  BY <1>0, <1>8, ModulesAssumption DEF ScanWorker, Ends
<1>9. CASE ScanSave
  BY <1>0, <1>9 DEF ScanSave, Ends
<1>10. CASE ScanCommit
  BY <1>0, <1>10 DEF ScanCommit
<1>11. CASE ScanAnnounce
  BY <1>0, <1>11 DEF ScanAnnounce
<1>12. CASE User
  BY <1>0, <1>12 DEF User, UiStart, UiCancel, UiReload, UiRetry
<1>13. CASE Deliver
  BY <1>0, <1>13 DEF Deliver, UiEvent, UiReply
<1>14. CASE Drop
  BY <1>0, <1>14 DEF Drop
<1>15. CASE UNCHANGED vars
  BY <1>0, <1>15 DEF vars
<1> QED BY <1>1, <1>2, <1>3, <1>4, <1>5, <1>6, <1>7, <1>8, <1>9, <1>10, <1>11, <1>12, <1>13,
           <1>14, <1>15
        DEF Next, Dispatch, Scan

LEMMA SentShapes ==
  ASSUME events \in Seq(EventShapes), NEW e \in EventShapes
  PROVE  Sent(e) \in Seq(EventShapes) /\ Append(events, e) \in Seq(EventShapes)
BY DEF Sent

LEMMA WireShapesStep ==
  ASSUME Shapes, [Next]_vars
  PROVE  WireShapes'
<1> USE DEF wireVars, WireShapes
<1>0. /\ WireShapes /\ ui.page \in Nat /\ jobId \in Nat /\ epoch \in Nat /\ jobId' \in Nat
      /\ registry \in SUBSET Modules /\ copy \in SUBSET Modules /\ candidate \in SUBSET Modules
  BY EngineShapesStep DEF Shapes, UiShapes, EngineShapes
<1>h. requests # <<>> => /\ Tail(requests) \in Seq(RequestShapes)
                         /\ Head(requests).page \in Nat
  <2> SUFFICES ASSUME requests # <<>>
               PROVE  Tail(requests) \in Seq(RequestShapes) /\ Head(requests).page \in Nat
    OBVIOUS
  <2>1. Head(requests) \in RequestShapes /\ Tail(requests) \in Seq(RequestShapes)
    BY <1>0
  <2> QED BY <2>1 DEF RequestShapes
<1>1. CASE ConnectReads
  BY <1>0, <1>1 DEF ConnectReads
<1>2. CASE ConnectSetsSink
  BY <1>0, <1>2 DEF ConnectSetsSink
<1>3. CASE ConnectSends
  <2>1. [kind |-> "snapshot", modules |-> copy, epoch |-> epoch] \in EventShapes
    BY <1>0 DEF EventShapes
  <2> QED BY <1>0, <1>3, <2>1, SentShapes DEF ConnectSends
<1>4. CASE HandleStartScan
  <2>1. [kind |-> "start", page |-> Head(requests).page, job |-> jobId'] \in ReplyShapes
    BY <1>0, <1>h, <1>4 DEF HandleStartScan, Receives, ReplyShapes
  <2> QED BY <1>0, <1>h, <1>4, <2>1 DEF HandleStartScan, Receives, Replied
<1>5. CASE HandleStartScanThrows
  <2>1. [kind |-> "refused", page |-> Head(requests).page] \in ReplyShapes
    BY <1>0, <1>h, <1>5 DEF HandleStartScanThrows, Receives, ReplyShapes
  <2> QED BY <1>0, <1>h, <1>5, <2>1 DEF HandleStartScanThrows, Receives, Replied
<1>6. CASE HandleCancelScan
  BY <1>0, <1>h, <1>6 DEF HandleCancelScan, Receives
<1>7. CASE HandleGetSnapshot
  <2>1. [kind |-> "snapshot", page |-> Head(requests).page, modules |-> registry] \in ReplyShapes
    BY <1>0, <1>h, <1>7 DEF HandleGetSnapshot, Receives, ReplyShapes
  <2> QED BY <1>0, <1>h, <1>7, <2>1 DEF HandleGetSnapshot, Receives, Replied
<1>8. CASE HandleRetryPlugin
  BY <1>0, <1>h, <1>8 DEF HandleRetryPlugin, Receives
<1>9. CASE ScanRoot
  <2>1. [kind |-> "scan_progress", job |-> jobId] \in EventShapes
    BY <1>0 DEF EventShapes
  <2> QED BY <1>0, <1>9, <2>1, SentShapes DEF ScanRoot
<1>10. CASE ScanWorker \/ ScanSave \/ ScanCommit
  BY <1>0, <1>10 DEF ScanWorker, ScanSave, ScanCommit
<1>11. CASE ScanAnnounce
  <2>1. LastEvent \in EventShapes
    BY <1>0 DEF EventShapes, LastEvent, Shapes
  <2> QED BY <1>0, <1>11, <2>1, SentShapes DEF ScanAnnounce
<1>12. CASE UiStart
  <2>1. [kind |-> "start", page |-> ui.page] \in RequestShapes
    BY <1>0 DEF RequestShapes
  <2> QED BY <1>0, <1>12, <2>1 DEF UiStart, Asks
<1>13. CASE UiCancel
  <2>1. [kind |-> "cancel", page |-> ui.page] \in RequestShapes
    BY <1>0 DEF RequestShapes
  <2> QED BY <1>0, <1>13, <2>1 DEF UiCancel, Asks
<1>14. CASE UiReload
  <2>1. ui'.page \in Nat
    BY UiShapeStep DEF UiShapes
  <2>2. [kind |-> "snapshot", page |-> ui'.page] \in RequestShapes
    BY <2>1 DEF RequestShapes
  <2> QED BY <1>0, <1>14, <2>2 DEF UiReload, Asks
<1>15. ASSUME NEW m \in Modules, UiRetry(m) PROVE WireShapes'
  <2>1. [kind |-> "retry", page |-> ui.page, module |-> m] \in RequestShapes
    BY <1>0 DEF RequestShapes
  <2> QED BY <1>0, <1>15, <2>1 DEF UiRetry, Asks
<1>16. CASE UiEvent
  BY <1>0, <1>16 DEF UiEvent
<1>17. ASSUME NEW r \in replies, UiReply(r) PROVE WireShapes'
  BY <1>0, <1>17 DEF UiReply
<1>18. CASE Drop
  <2>1. PICK n \in 0 .. Len(requests) : requests' = SubSeq(requests, 1, n)
    BY <1>18 DEF Drop
  <2>2. PICK k \in 0 .. Len(events) : events' = SubSeq(events, 1, k)
    BY <1>18 DEF Drop
  <2>3. requests' \in Seq(RequestShapes) /\ events' \in Seq(EventShapes)
    BY <1>0, <2>1, <2>2, Prefix
  <2> QED BY <1>18, <2>3 DEF Drop
<1>19. CASE UNCHANGED vars
  BY <1>0, <1>19 DEF vars
<1> QED BY <1>1, <1>2, <1>3, <1>4, <1>5, <1>6, <1>7, <1>8, <1>9, <1>10, <1>11, <1>12, <1>13,
           <1>14, <1>15, <1>16, <1>17, <1>18, <1>19
        DEF Next, Connect, Dispatch, Scan, User, Deliver

LEMMA ShapesStep ==
  ASSUME Shapes, [Next]_vars
  PROVE  Shapes' /\ (Undisturbed' => Undisturbed)
<1>1. Shapes'
  BY UiShapeStep, CountStep, EngineShapesStep, WireShapesStep
     DEF Shapes, EngineShapes, WireShapes
<1>2. /\ count'.drops >= count.drops /\ count'.approvals >= count.approvals
      /\ count'.throws >= count.throws /\ ui'.page >= ui.page
  BY UiShapeStep, CountStep
<1>3. /\ count.drops \in Nat /\ count.approvals \in Nat /\ count.throws \in Nat /\ ui.page \in Nat
      /\ count'.drops \in Nat /\ count'.approvals \in Nat /\ count'.throws \in Nat
      /\ ui'.page \in Nat
  BY <1>1 DEF Shapes, Counts, UiShapes
<1> QED BY <1>1, <1>2, <1>3 DEF Undisturbed, Troubles

\* A step that leaves the first connection undisturbed.
Undisturbing ==
  \/ Connect
  \/ HandleStartScan \/ HandleCancelScan
  \/ Scan
  \/ UiStart \/ UiCancel
  \/ Deliver
  \/ UNCHANGED vars

LEMMA UndisturbingStep ==
  ASSUME Lists, Undisturbed, Undisturbed', [Next]_vars
  PROVE  Undisturbing
<1>0. /\ Wires /\ count \in Counts /\ count' \in Counts /\ ui.page \in Nat /\ ui'.page \in Nat
      /\ requests \in Seq(RequestShapes)
  BY CountStep, UiShapeStep DEF Lists, Listed, Shapes, UiShapes
<1>1. /\ count'.drops = 0 /\ count'.approvals = 0 /\ count'.throws = 0 /\ ui'.page = 0
      /\ count.drops = 0 /\ count.approvals = 0 /\ count.throws = 0 /\ ui.page = 0
  <2>1. /\ count.drops \in Nat /\ count.approvals \in Nat /\ count.throws \in Nat
        /\ count'.drops \in Nat /\ count'.approvals \in Nat /\ count'.throws \in Nat
    BY <1>0 DEF Counts
  <2>2. count.drops + count.approvals + count.throws + ui.page = 0
    BY DEF Undisturbed, Troubles
  <2>3. count'.drops + count'.approvals + count'.throws + ui'.page = 0
    BY DEF Undisturbed, Troubles
  <2>4. count.drops = 0 /\ count.approvals = 0 /\ count.throws = 0 /\ ui.page = 0
    BY <1>0, <2>1, <2>2
  <2>5. count'.drops = 0 /\ count'.approvals = 0 /\ count'.throws = 0 /\ ui'.page = 0
    BY <1>0, <2>1, <2>3
  <2> QED BY <2>4, <2>5
<1>2. ~HandleStartScanThrows
  <2> SUFFICES ASSUME HandleStartScanThrows PROVE FALSE
    OBVIOUS
  <2>1. count' = [count EXCEPT !.throws = @ + 1]
    BY DEF HandleStartScanThrows
  <2> QED BY <1>0, <1>1, <2>1 DEF Counts
<1>3. ~Drop
  <2> SUFFICES ASSUME Drop PROVE FALSE
    OBVIOUS
  <2>1. count' = [count EXCEPT !.drops = @ + 1]
    BY DEF Drop
  <2> QED BY <1>0, <1>1, <2>1 DEF Counts
<1>4. ASSUME NEW m, UiRetry(m) PROVE FALSE
  <2>1. count' = [count EXCEPT !.approvals = @ + 1]
    BY <1>4 DEF UiRetry
  <2> QED BY <1>0, <1>1, <2>1 DEF Counts
<1>5. ~UiReload
  <2> SUFFICES ASSUME UiReload PROVE FALSE
    OBVIOUS
  <2>1. ui' = [FreshUi EXCEPT !.page = ui.page + 1, !.epoch = ui.epoch]
    BY DEF UiReload
  <2>2. ui'.page = ui.page + 1
    BY <2>1 DEF FreshUi
  <2> QED BY <1>0, <1>1, <2>2
<1>6. ~HandleGetSnapshot /\ ~HandleRetryPlugin
  <2>1. requests # <<>> => Head(requests).kind \in {"start", "cancel"}
    BY <1>0 DEF Wires
  <2> QED BY <2>1 DEF HandleGetSnapshot, HandleRetryPlugin, Receives
<1> QED BY <1>2, <1>3, <1>4, <1>5, <1>6 DEF Next, Dispatch, User, Undisturbing

\* start_scan in the queue of commands.
LEMMA CommandTaken ==
  ASSUME requests \in Seq(RequestShapes), requests # <<>>, requests' = Tail(requests)
  PROVE  /\ NoStart => NoStart' /\ Head(requests).kind # "start"
         /\ OneStart /\ Head(requests).kind = "start" => NoStart'
         /\ OneStart /\ Head(requests).kind # "start" => OneStart'
         /\ \A i \in DOMAIN requests' : i + 1 \in DOMAIN requests /\ requests'[i] = requests[i + 1]
         /\ Head(requests) = requests[1] /\ 1 \in DOMAIN requests
<1>1. /\ \A i \in DOMAIN requests' : i \in Nat \ {0} /\ i + 1 \in DOMAIN requests
                                      /\ requests'[i] = requests[i + 1]
      /\ \A i \in DOMAIN requests : i = 1 \/ (i - 1 \in DOMAIN requests' /\ i - 1 + 1 = i)
      /\ Head(requests) = requests[1] /\ 1 \in DOMAIN requests
      /\ \A i \in DOMAIN requests : i \in Nat
  OBVIOUS
<1>2. NoStart => NoStart' /\ Head(requests).kind # "start"
  BY <1>1 DEF NoStart
<1>3. ASSUME OneStart PROVE IF Head(requests).kind = "start" THEN NoStart' ELSE OneStart'
  <2>1. PICK i \in DOMAIN requests :
          \A j \in DOMAIN requests : requests[j].kind = "start" <=> j = i
    BY <1>3 DEF OneStart
  <2>2. CASE i = 1
    <3>1. \A j \in DOMAIN requests' : requests'[j].kind # "start"
      BY <1>1, <2>1, <2>2
    <3> QED BY <1>1, <2>1, <2>2, <3>1 DEF NoStart
  <2>3. CASE i # 1
    <3>1. i - 1 \in DOMAIN requests'
      BY <1>1, <2>3
    <3>2. \A j \in DOMAIN requests' : requests'[j].kind = "start" <=> j = i - 1
      <4> SUFFICES ASSUME NEW j \in DOMAIN requests'
                   PROVE  requests'[j].kind = "start" <=> j = i - 1
        OBVIOUS
      <4>1. /\ j \in Nat /\ i \in Nat /\ j + 1 \in DOMAIN requests
            /\ requests'[j] = requests[j + 1]
        BY <1>1
      <4>2. requests[j + 1].kind = "start" <=> j + 1 = i
        BY <2>1, <4>1
      <4> QED BY <4>1, <4>2
    <3>3. Head(requests).kind # "start"
      BY <1>1, <2>1, <2>3
    <3> QED BY <3>1, <3>2, <3>3 DEF OneStart
  <2> QED BY <2>2, <2>3
<1> QED BY <1>1, <1>2, <1>3

LEMMA CommandGiven ==
  ASSUME requests \in Seq(RequestShapes), NEW r \in RequestShapes,
         requests' = Append(requests, r)
  PROVE  /\ r.kind # "start" /\ NoStart => NoStart'
         /\ r.kind # "start" /\ OneStart => OneStart'
         /\ r.kind = "start" /\ NoStart => OneStart'
         /\ \A i \in DOMAIN requests' : requests'[i] = r
              \/ (i \in DOMAIN requests /\ requests'[i] = requests[i])
<1>1. /\ DOMAIN requests' = DOMAIN requests \cup {Len(requests) + 1}
      /\ Len(requests) + 1 \notin DOMAIN requests
      /\ requests'[Len(requests) + 1] = r
      /\ \A i \in DOMAIN requests : requests'[i] = requests[i]
  OBVIOUS
<1>2. r.kind # "start" /\ NoStart => NoStart'
  BY <1>1 DEF NoStart
<1>3. r.kind # "start" /\ OneStart => OneStart'
  BY <1>1 DEF OneStart
<1>4. r.kind = "start" /\ NoStart => OneStart'
  BY <1>1 DEF OneStart, NoStart
<1> QED BY <1>1, <1>2, <1>3, <1>4

\* The queue of events.
LEMMA EventTaken ==
  ASSUME events \in Seq(EventShapes), events # <<>>
  PROVE  /\ \A i \in DOMAIN Tail(events) : /\ i + 1 \in DOMAIN events
                                           /\ Tail(events)[i] = events[i + 1]
         /\ Head(events) = events[1] /\ 1 \in DOMAIN events /\ Head(events) \in EventShapes
         /\ Len(Tail(events)) = Len(events) - 1 /\ Len(events) \in Nat \ {0}
         /\ DOMAIN Tail(events) = 1 .. Len(events) - 1
         /\ Tail(events) \in Seq(EventShapes)
<1>1. /\ Head(events) = events[1] /\ 1 \in DOMAIN events /\ Head(events) \in EventShapes
      /\ Len(events) \in Nat \ {0} /\ DOMAIN events = 1 .. Len(events)
  OBVIOUS
<1>2. Len(Tail(events)) = Len(events) - 1 /\ Tail(events) \in Seq(EventShapes)
  OBVIOUS
<1>3. DOMAIN Tail(events) = 1 .. Len(events) - 1
  BY <1>2
<1>4. \A i \in 1 .. Len(events) - 1 : Tail(events)[i] = events[i + 1]
  OBVIOUS
<1> QED BY <1>1, <1>2, <1>3, <1>4

LEMMA EventSent ==
  ASSUME events \in Seq(EventShapes), NEW e \in EventShapes
  PROVE  LET s == Append(events, e)
         IN  /\ \A i \in DOMAIN s : (s[i] = e /\ i = Len(s)) \/ (i \in DOMAIN events /\ s[i] = events[i])
             /\ s # <<>> /\ s[Len(s)] = e
             /\ DOMAIN s = DOMAIN events \cup {Len(s)} /\ Len(s) \notin DOMAIN events
OBVIOUS

\* How the page takes the events of the first connection.
LEMMA TakesSnapshot ==
  ASSUME ui \in UiShapes, NEW e \in EventShapes, IsSnapshot(e), ui.epoch = 0
  PROVE  /\ React(e).phase = ui.phase /\ React(e).job = ui.job
         /\ React(e).pending = ui.pending /\ React(e).epoch = 0
         /\ React(e).modules = IF ui.phase = "scanning" THEN ui.modules ELSE e.modules
<1>1. Observes(ui, e.epoch) = [ui EXCEPT !.epoch = 0]
  BY DEF Observes, IsSnapshot
<1>2. React(e) = TakesList([ui EXCEPT !.epoch = 0], e.modules)
  BY <1>1 DEF React, IsSnapshot
<1> QED BY <1>2 DEF TakesList, UiShapes

LEMMA TakesProgress ==
  ASSUME ui \in UiShapes, NEW e \in EventShapes, e.kind = "scan_progress", Matches(e.job)
  PROVE  /\ React(e).phase = ui.phase /\ React(e).job = e.job
         /\ React(e).pending = ui.pending /\ React(e).epoch = ui.epoch
         /\ React(e).modules = ui.modules
<1>1. React(e) = [ui EXCEPT !.job = e.job]
  BY DEF React
<1> QED BY <1>1 DEF UiShapes

LEMMA TakesEnd ==
  ASSUME ui \in UiShapes, NEW e \in EventShapes, Matches(e.job),
         e.kind \in {"scan_done", "scan_failed", "scan_cancelled"}
  PROVE  /\ React(e).phase # "scanning" /\ React(e).epoch = ui.epoch
         /\ React(e).modules = IF e.kind = "scan_done" THEN e.modules ELSE ui.modules
<1>1. CASE e.kind = "scan_done"
  <2>1. React(e) = [ui EXCEPT !.phase = "completed", !.pending = FALSE, !.job = e.job,
                              !.modules = e.modules]
    BY <1>1 DEF React
  <2> QED BY <1>1, <2>1 DEF UiShapes
<1>2. CASE e.kind = "scan_failed"
  <2>1. React(e) = [ui EXCEPT !.phase = "failed", !.pending = FALSE, !.job = e.job]
    BY <1>2 DEF React
  <2> QED BY <1>2, <2>1 DEF UiShapes
<1>3. CASE e.kind = "scan_cancelled"
  <2>1. React(e) = [ui EXCEPT !.phase = "completed", !.pending = FALSE, !.job = e.job]
    BY <1>3 DEF React
  <2> QED BY <1>3, <2>1 DEF UiShapes
<1> QED BY <1>1, <1>2, <1>3

LEMMA TakesNothing ==
  ASSUME NEW e, e.kind # "snapshot", ~Matches(e.job)
  PROVE  React(e) = ui
BY DEF React

-----------------------------------------------------------------------------

Phase == Calm \/ Asked \/ Scanning \/ Announced \/ Misled

\* What none of the parts depends on.
listVars == <<running, jobId, registry, epoch, scanner, candidate, outcome, link, copy,
              requests, events, replies, ui>>

LEMMA ListStutter == Listed /\ UNCHANGED listVars => Listed'
BY DEF listVars, Listed, Wires, Before, Calm, Asked, Scanning, Announced, Misled, Active,
       NoStart, OneStart, Hears, Matches, IsSnapshot, IsOfJob

\* connect: the first snapshot holds the registry, which is still empty.
LEMMA ConnectLists ==
  ASSUME Shapes, Listed, Connect
  PROVE  Listed'
<1>1. /\ link # "up" /\ ui.phase # "scanning" /\ ~Active /\ requests = <<>> /\ events = <<>>
      /\ link \in {"read", "sink"} => copy = registry
  BY DEF Listed, Before, Connect, ConnectReads, ConnectSetsSink, ConnectSends
<1>2. Wires /\ Calm
  BY <1>1 DEF Listed, Asked, Scanning, Announced, Misled, Hears
<1>3. UNCHANGED <<running, jobId, registry, epoch, scanner, requests, replies, ui>>
  BY <1>1 DEF Connect, ConnectReads, ConnectSetsSink, ConnectSends, jobVars, threadVars,
              wireVars
<1>4. Wires'
  BY <1>2, <1>3 DEF Wires, Active
<1>5. CASE ConnectSends
  <2> DEFINE e == [kind |-> "snapshot", modules |-> copy, epoch |-> epoch]
  <2>1. link' = "up" /\ events' = Append(events, e)
    BY <1>5 DEF ConnectSends
  <2>2. IsSnapshot(e) /\ e.modules = registry
    BY <1>1, <1>2, <1>5 DEF IsSnapshot, Wires, ConnectSends
  <2>3. e \in EventShapes /\ events \in Seq(EventShapes)
    BY DEF EventShapes, Shapes
  <2> HIDE DEF e
  <2>4. \A i \in DOMAIN events' : events'[i] = e
    BY <1>1, <2>1, <2>3, EventSent
  <2>5. \A i \in DOMAIN events' : IsSnapshot(events'[i]) /\ events'[i].modules = registry'
    BY <1>3, <2>2, <2>4
  <2>6. Calm'
    BY <1>2, <1>3, <2>5 DEF Calm, Active, NoStart, IsSnapshot
  <2> QED BY <1>4, <2>1, <2>6 DEF Listed, Before
<1>6. CASE ConnectReads \/ ConnectSetsSink
  <2>1. events' = events /\ link' \in {"read", "sink"} /\ copy' = registry
    BY <1>1, <1>6 DEF ConnectReads, ConnectSetsSink, wireVars
  <2>2. Calm'
    BY <1>2, <1>3, <2>1 DEF Calm, Active, NoStart, IsSnapshot
  <2> QED BY <1>1, <1>3, <1>4, <2>1, <2>2 DEF Listed, Before, Active
<1> QED BY <1>5, <1>6 DEF Connect

\* A command the page gives or the dispatcher takes leaves the rest of Wires.
LEMMA ReplyKept ==
  ASSUME Shapes, Wires, NEW r, r.kind = "start", r.page = 0, r.job \in 1 .. jobId',
         replies' = Replied(r), jobId' \in Nat, jobId' >= jobId
  PROVE  \A q \in replies' : q.kind = "start" /\ q.page = 0 /\ q.job \in 1 .. jobId'
<1>1. \A q \in replies : q.kind = "start" /\ q.page = 0 /\ q.job \in 1 .. jobId /\ jobId \in Nat
  BY DEF Wires, Shapes
<1>2. \A q \in replies : q.kind = "start" /\ q.page = 0 /\ q.job \in 1 .. jobId'
  BY <1>1
<1> QED BY <1>2 DEF Replied

LEMMA StartLists ==
  ASSUME Shapes, Listed, HandleStartScan
  PROVE  Listed'
<1>0. /\ Wires /\ requests \in Seq(RequestShapes) /\ requests # <<>>
      /\ requests' = Tail(requests) /\ Head(requests).kind = "start"
      /\ UNCHANGED <<registry, epoch, link, copy, events, ui>> /\ jobId \in Nat
  BY DEF Shapes, Listed, HandleStartScan, Receives, linkVars
<1>1. link = "up"
  BY <1>0 DEF Listed, Before
<1>2. Asked \/ Misled
  BY <1>0, CommandTaken DEF Listed, Calm, Scanning, Announced
<1>3. \A i \in DOMAIN requests' : requests'[i].kind \in {"start", "cancel"} /\ requests'[i].page = 0
  BY <1>0, CommandTaken DEF Wires
<1>4. Head(requests).page = 0
  BY <1>0, CommandTaken DEF Wires
<1>5. CASE running /\ UNCHANGED <<jobVars, threadVars>>
  <2>1. Misled
    BY <1>0, <1>2, <1>5 DEF Asked, Wires
  <2>2. UNCHANGED <<running, jobId, scanner>> /\ jobId # 0 /\ Active
        /\ scanner # "announce"
    BY <1>0, <1>5 DEF jobVars, threadVars, Wires
  <2>3. replies' = Replied([kind |-> "start", page |-> Head(requests).page, job |-> jobId'])
    BY DEF HandleStartScan
  <2>4. \A q \in replies' : q.kind = "start" /\ q.page = 0 /\ q.job \in 1 .. jobId'
    BY <1>0, <1>4, <2>2, <2>3, ReplyKept
  <2>5. Wires'
    BY <1>0, <1>3, <2>2, <2>4 DEF Wires, Active
  <2>6. Misled'
    BY <1>0, <2>1, <2>2 DEF Misled, Active, IsSnapshot
  <2> QED BY <1>0, <1>1, <2>5, <2>6 DEF Listed, Before
<1>6. CASE NewJob /\ ~Active
  <2>1. jobId' = jobId + 1 /\ scanner' = "root"
    BY <1>6 DEF NewJob
  <2>2. Active' /\ scanner' # "announce" /\ jobId' # 0 /\ jobId' \in Nat /\ jobId' >= jobId
    BY <1>0, <2>1 DEF Active
  <2>3. replies' = Replied([kind |-> "start", page |-> Head(requests).page, job |-> jobId'])
    BY DEF HandleStartScan
  <2>4. \A q \in replies' : q.kind = "start" /\ q.page = 0 /\ q.job \in 1 .. jobId'
    BY <1>0, <1>4, <2>2, <2>3, ReplyKept
  <2>5. Wires'
    BY <1>0, <1>3, <2>2, <2>4 DEF Wires
  <2>6. ASSUME Asked PROVE Scanning'
    <3>1. NoStart'
      BY <1>0, <2>6, CommandTaken DEF Asked
    <3>2. Hears'
      BY <1>0, <2>6 DEF Asked, Hears, Matches
    <3>3. \A i \in DOMAIN events' : IsSnapshot(events'[i])
      BY <1>0, <2>6 DEF Asked
    <3> QED BY <1>0, <2>1, <2>2, <2>6, <3>1, <3>2, <3>3 DEF Scanning, Asked, IsOfJob, IsSnapshot
  <2>7. ASSUME Misled PROVE Misled'
    <3>1. ui.job \in Nat
      BY DEF Shapes, UiShapes
    <3>2. ui'.job <= jobId' /\ ui'.job # jobId'
      BY <1>0, <2>1, <2>7, <3>1 DEF Misled
    <3> QED BY <1>0, <2>7, <3>2 DEF Misled, IsSnapshot
  <2> QED BY <1>0, <1>1, <1>2, <2>5, <2>6, <2>7 DEF Listed, Before
<1> QED BY <1>5, <1>6 DEF HandleStartScan, Active

LEMMA CancelLists ==
  ASSUME Shapes, Listed, HandleCancelScan
  PROVE  Listed'
<1>0. /\ Wires /\ requests \in Seq(RequestShapes) /\ requests # <<>>
      /\ requests' = Tail(requests) /\ Head(requests).kind # "start"
      /\ UNCHANGED <<running, jobId, registry, epoch, scanner, candidate, outcome, link, copy,
                     events, replies, ui>>
  BY DEF Shapes, Listed, HandleCancelScan, Receives, linkVars, threadVars
<1>1. link = "up"
  BY <1>0 DEF Listed, Before
<1>2. Wires'
  BY <1>0, CommandTaken DEF Wires, Active
<1>3. (NoStart => NoStart') /\ (OneStart => OneStart')
  BY <1>0, CommandTaken
<1>4. Phase'
  BY <1>0, <1>3
     DEF Listed, Phase, Calm, Asked, Scanning, Announced, Misled, Active, Hears, Matches,
         IsSnapshot, IsOfJob
<1> QED BY <1>0, <1>1, <1>2, <1>4 DEF Listed, Before, Phase

\* scan_job_thread: it sends to the page that waits for its job, or to one that
\* waits for another.
LEMMA ScanLists ==
  ASSUME Shapes, Listed, Scan
  PROVE  Listed'
<1>0. /\ Wires /\ Active /\ link = "up" /\ (Scanning \/ Misled)
      /\ events \in Seq(EventShapes) /\ jobId \in Nat
      /\ UNCHANGED <<jobId, epoch, link, copy, requests, replies, ui>>
  <2>1. Active
    BY DEF Scan, ScanRoot, ScanWorker, ScanSave, ScanCommit, ScanAnnounce, Active
  <2>2. UNCHANGED <<jobId, epoch, link, copy, requests, replies, ui>>
    BY DEF Scan, ScanRoot, ScanWorker, ScanSave, ScanCommit, ScanAnnounce, jobVars, linkVars,
           wireVars
  <2> QED BY <2>1, <2>2 DEF Shapes, Listed, Before, Calm, Asked, Announced
<1>1. ASSUME Wires', Scanning' \/ Announced' \/ Misled' PROVE Listed'
  BY <1>0, <1>1 DEF Listed, Before
<1>2. ASSUME running' => Active' /\ scanner' # "announce" PROVE Wires'
  <2>1. running' => running
    BY <1>0 DEF Scan, ScanRoot, ScanWorker, ScanSave, ScanCommit, ScanAnnounce, jobVars
  <2> QED BY <1>0, <1>2, <2>1 DEF Wires
<1>3. ASSUME events' = events, Misled PROVE Misled'
  BY <1>0, <1>3 DEF Misled, IsSnapshot, Active
<1>4. ASSUME NEW e \in EventShapes, e.kind # "snapshot", e.job = jobId, Misled,
             events' = Append(events, e)
      PROVE  Misled'
  <2>1. \A i \in DOMAIN events' : events'[i] = e \/ (i \in DOMAIN events /\ events'[i] = events[i])
    BY <1>0, <1>4, EventSent
  <2>2. \A i \in DOMAIN events' :
          IsSnapshot(events'[i]) \/ (events'[i].kind # "snapshot" /\ events'[i].job # ui.job)
    BY <1>0, <1>4, <2>1 DEF Misled
  <2> QED BY <1>0, <1>4, <2>2 DEF Misled, IsSnapshot
<1>5. ASSUME events' = events, Scanning, scanner # "announce", registry' = registry, Active',
             scanner' # "announce"
      PROVE  Scanning'
  BY <1>0, <1>5 DEF Scanning, Hears, Matches, NoStart, IsOfJob, IsSnapshot
<1>6. CASE ScanRoot
  <2>1. /\ scanner = "root" /\ scanner' \in {"root", "worker", "save", "commit"}
        /\ registry' = registry /\ running' = running
    BY <1>6 DEF ScanRoot, Ends, jobVars
  <2>2. Active' /\ Wires'
    BY <1>2, <2>1 DEF Active
  <2>3. CASE events' = events
    BY <1>0, <1>1, <1>3, <1>5, <2>1, <2>2, <2>3
  <2>4. CASE events' = Sent([kind |-> "scan_progress", job |-> jobId])
    <3> DEFINE e == [kind |-> "scan_progress", job |-> jobId]
    <3>1. e \in EventShapes /\ e.kind = "scan_progress" /\ e.job = jobId
      BY <1>0 DEF EventShapes
    <3>2. events' = Append(events, e)
      BY <1>0, <2>4 DEF Sent, HasSink
    <3> HIDE DEF e
    <3>3. Misled => Misled'
      BY <1>4, <3>1, <3>2
    <3>4. ASSUME Scanning PROVE Scanning'
      <4>1. \A i \in DOMAIN events' : events'[i] = e
                                       \/ (i \in DOMAIN events /\ events'[i] = events[i])
        BY <1>0, <3>1, <3>2, EventSent
      <4>2. \A i \in DOMAIN events' : IsSnapshot(events'[i])
               \/ (events'[i].kind = "scan_progress" /\ events'[i].job = jobId)
        BY <3>1, <3>4, <4>1 DEF Scanning, IsOfJob
      <4> QED BY <1>0, <2>1, <2>2, <3>4, <4>2
              DEF Scanning, Hears, Matches, NoStart, IsOfJob, IsSnapshot
    <3> QED BY <1>0, <1>1, <2>2, <3>3, <3>4
  <2> QED BY <1>6, <2>3, <2>4 DEF ScanRoot
<1>7. CASE ScanWorker \/ ScanSave
  <2>1. /\ scanner # "announce" /\ scanner' \in {"root", "commit"}
        /\ registry' = registry /\ running' = running /\ events' = events
    BY <1>7 DEF ScanWorker, ScanSave, Ends, jobVars, wireVars
  <2>2. Active' /\ Wires'
    BY <1>2, <2>1 DEF Active
  <2> QED BY <1>0, <1>1, <1>3, <1>5, <2>1, <2>2
<1>8. CASE ScanCommit
  <2>1. /\ scanner = "commit" /\ scanner' = "announce" /\ events' = events
        /\ UNCHANGED <<candidate, outcome>>
        /\ registry' = IF outcome = "done" THEN candidate ELSE registry
        /\ ~running'
    BY <1>8 DEF ScanCommit, wireVars
  <2>2. Active' /\ Wires'
    BY <1>2, <2>1 DEF Active
  <2>3. ASSUME Scanning PROVE Scanning'
    BY <1>0, <2>1, <2>2, <2>3 DEF Scanning, Hears, Matches, NoStart, IsOfJob, IsSnapshot
  <2> QED BY <1>0, <1>1, <1>3, <2>1, <2>2, <2>3
<1>9. CASE ScanAnnounce
  <2>1. /\ scanner = "announce" /\ scanner' = "ended" /\ UNCHANGED <<registry, running>>
        /\ events' = Append(events, LastEvent)
    BY <1>0, <1>9 DEF ScanAnnounce, Sent, HasSink, jobVars
  <2>2. ~Active'
    BY <2>1 DEF Active
  <2>3. /\ LastEvent \in EventShapes /\ LastEvent.job = jobId
        /\ LastEvent.kind \in {"scan_done", "scan_failed", "scan_cancelled"}
        /\ IF outcome = "done" THEN LastEvent.kind = "scan_done" /\ LastEvent.modules = candidate
           ELSE LastEvent.kind # "scan_done"
    BY DEF LastEvent, EventShapes, Shapes
  <2> HIDE DEF LastEvent
  <2>4. Misled => Misled'
    BY <1>4, <2>1, <2>3
  <2>5. ASSUME Scanning PROVE Announced'
    <3>1. /\ \A i \in DOMAIN events' : i # Len(events') => i \in DOMAIN events /\ events'[i] = events[i]
          /\ events' # <<>> /\ events'[Len(events')] = LastEvent
      BY <1>0, <2>1, <2>3, EventSent
    <3>2. \A i \in DOMAIN events' : i # Len(events') =>
             \/ IsSnapshot(events'[i])
             \/ events'[i].kind = "scan_progress" /\ events'[i].job = jobId
      BY <2>5, <3>1 DEF Scanning, IsOfJob
    <3>3. IF outcome = "done" THEN registry = candidate ELSE ui.modules = registry
      BY <2>1, <2>5 DEF Scanning
    <3>4. Hears' /\ NoStart'
      BY <1>0, <2>5 DEF Scanning, Hears, Matches, NoStart
    <3> QED BY <1>0, <2>1, <2>2, <2>3, <3>1, <3>2, <3>3, <3>4 DEF Announced, IsOfJob, IsSnapshot
  <2>6. ~running
    BY <1>0, <2>1 DEF Wires
  <2> QED BY <1>0, <1>1, <1>2, <2>1, <2>4, <2>5, <2>6
<1> QED BY <1>6, <1>7, <1>8, <1>9 DEF Scan

\* startScan and cancelScan.
LEMMA UserLists ==
  ASSUME Shapes, Listed, ui.page = 0, UiStart \/ UiCancel
  PROVE  Listed'
<1>0. /\ Wires /\ requests \in Seq(RequestShapes) /\ ui \in UiShapes
      /\ UNCHANGED <<running, jobId, registry, epoch, scanner, candidate, outcome, link, copy,
                     events, replies>>
  BY DEF Shapes, Listed, UiStart, UiCancel, jobVars, threadVars, linkVars
<1>1. CASE UiCancel
  <2> DEFINE r == [kind |-> "cancel", page |-> ui.page]
  <2>1. /\ link = "up" /\ ui' = ui /\ requests' = Append(requests, r)
        /\ ui.phase = "scanning"
    BY <1>1 DEF UiCancel, Asks
  <2>2. r \in RequestShapes /\ r.kind = "cancel" /\ r.page = 0
    BY DEF RequestShapes
  <2> HIDE DEF r
  <2>3. /\ NoStart => NoStart'
        /\ OneStart => OneStart'
        /\ \A i \in DOMAIN requests' : requests'[i] = r
             \/ (i \in DOMAIN requests /\ requests'[i] = requests[i])
    BY <1>0, <2>1, <2>2, CommandGiven
  <2>4. Wires'
    BY <1>0, <2>1, <2>2, <2>3 DEF Wires, Active
  <2>5. Phase'
    BY <1>0, <2>1, <2>3
       DEF Listed, Phase, Calm, Asked, Scanning, Announced, Misled, Active, Hears, Matches,
           IsSnapshot, IsOfJob
  <2> QED BY <1>0, <2>1, <2>4, <2>5 DEF Listed, Before, Phase
<1>2. CASE UiStart /\ link = "up"
  <2> DEFINE r == [kind |-> "start", page |-> ui.page]
  <2>1. /\ ui' = [ui EXCEPT !.phase = "scanning", !.job = NoJob, !.pending = TRUE]
        /\ requests' = Append(requests, r) /\ ui.phase # "scanning"
    BY <1>2 DEF UiStart, Asks
  <2>2. r \in RequestShapes /\ r.kind = "start" /\ r.page = 0
    BY DEF RequestShapes
  <2>3. /\ ui'.phase = "scanning" /\ ui'.job = NoJob /\ ui'.pending
        /\ ui'.modules = ui.modules /\ ui'.epoch = ui.epoch
    BY <1>0, <2>1 DEF UiShapes
  <2>4. Calm
    BY <2>1 DEF Listed, Asked, Scanning, Announced, Misled, Hears
  <2> HIDE DEF r
  <2>5. /\ NoStart => OneStart'
        /\ \A i \in DOMAIN requests' : requests'[i] = r
             \/ (i \in DOMAIN requests /\ requests'[i] = requests[i])
    BY <1>0, <2>1, <2>2, CommandGiven
  <2>6. Wires'
    BY <1>0, <2>2, <2>3, <2>5 DEF Wires, Active
  <2>7. Asked'
    BY <1>0, <2>3, <2>4, <2>5 DEF Calm, Asked, Active, IsSnapshot
  <2> QED BY <1>0, <1>2, <2>6, <2>7 DEF Listed, Before
<1>3. CASE UiStart /\ link # "up"
  <2>1. /\ ui' = [ui EXCEPT !.phase = "failed", !.job = NoJob, !.pending = FALSE]
        /\ requests' = requests /\ ui.phase # "scanning"
    BY <1>3 DEF UiStart
  <2>2. /\ ui'.phase # "scanning"
        /\ ui'.modules = ui.modules /\ ui'.epoch = ui.epoch
    BY <1>0, <2>1 DEF UiShapes
  <2>3. Calm
    BY <2>1 DEF Listed, Asked, Scanning, Announced, Misled, Hears
  <2>4. Wires'
    BY <1>0, <2>1, <2>2 DEF Wires, Active
  <2>5. Calm'
    BY <1>0, <2>1, <2>2, <2>3 DEF Calm, Active, IsSnapshot, NoStart
  <2>6. Before'
    BY <1>0, <2>1, <2>2 DEF Listed, Before, Active
  <2> QED BY <2>4, <2>5, <2>6 DEF Listed
<1> QED BY <1>1, <1>2, <1>3

\* applyStatus and the reducer.
LEMMA EventLists ==
  ASSUME Shapes, Listed, UiEvent
  PROVE  Listed'
<1> DEFINE e == Head(events)
<1>0. /\ Wires /\ ui \in UiShapes /\ events \in Seq(EventShapes) /\ events # <<>>
      /\ events' = Tail(events) /\ ui' = React(e) /\ ui.epoch = 0 /\ jobId \in Nat
      /\ UNCHANGED <<running, jobId, registry, epoch, scanner, candidate, outcome, link, copy,
                     requests, replies>>
  BY DEF Shapes, Listed, Wires, UiEvent, jobVars, threadVars, linkVars
<1>1. /\ \A i \in DOMAIN events' : i + 1 \in DOMAIN events /\ events'[i] = events[i + 1]
      /\ e = events[1] /\ 1 \in DOMAIN events /\ e \in EventShapes
      /\ Len(events') = Len(events) - 1 /\ Len(events) \in Nat \ {0}
      /\ DOMAIN events' = 1 .. Len(events) - 1
      /\ events' \in Seq(EventShapes)
  BY <1>0, EventTaken
<1>2. link = "up"
  BY <1>0 DEF Listed, Before
<1> HIDE DEF e
<1>3. ASSUME ui'.epoch = 0, Phase' PROVE Listed'
  BY <1>0, <1>2, <1>3 DEF Listed, Before, Wires, Phase, Active
<1>4. CASE Calm
  <2>1. IsSnapshot(e) /\ e.modules = registry /\ ui.phase # "scanning"
    BY <1>1, <1>4 DEF Calm
  <2>2. ui'.phase # "scanning" /\ ui'.modules = registry /\ ui'.epoch = 0
    BY <1>0, <1>1, <2>1, TakesSnapshot
  <2>3. Calm'
    BY <1>0, <1>1, <1>4, <2>2 DEF Calm, Active, NoStart, IsSnapshot
  <2> QED BY <1>3, <2>2, <2>3 DEF Phase
<1>5. CASE Asked
  <2>1. IsSnapshot(e) /\ ui.phase = "scanning"
    BY <1>1, <1>5 DEF Asked
  <2>2. /\ ui'.phase = ui.phase /\ ui'.modules = ui.modules /\ ui'.epoch = 0
        /\ ui'.job = ui.job /\ ui'.pending = ui.pending
    BY <1>0, <1>1, <2>1, TakesSnapshot
  <2>3. OneStart'
    BY <1>0, <1>5 DEF Asked, OneStart
  <2>4. \A i \in DOMAIN events' : IsSnapshot(events'[i])
    BY <1>1, <1>5 DEF Asked
  <2>5. Asked'
    BY <1>0, <1>5, <2>2, <2>3, <2>4 DEF Asked, Active, IsSnapshot
  <2> QED BY <1>3, <2>2, <2>5 DEF Phase
<1>6. ASSUME IsOfJob(e), Hears
      PROVE  /\ ui'.modules = ui.modules /\ ui'.epoch = 0 /\ Hears'
  <2>1. CASE IsSnapshot(e)
    <3>1. /\ ui'.phase = ui.phase /\ ui'.modules = ui.modules /\ ui'.epoch = 0
          /\ ui'.job = ui.job /\ ui'.pending = ui.pending
      BY <1>0, <1>1, <1>6, <2>1, TakesSnapshot DEF Hears
    <3> QED BY <1>0, <1>6, <3>1 DEF Hears, Matches
  <2>2. CASE e.kind = "scan_progress" /\ e.job = jobId
    <3>1. /\ ui'.phase = ui.phase /\ ui'.modules = ui.modules /\ ui'.epoch = 0
          /\ ui'.job = jobId
      BY <1>0, <1>1, <1>6, <2>2, TakesProgress DEF Hears
    <3> QED BY <1>0, <1>6, <3>1 DEF Hears, Matches
  <2> QED BY <1>6, <2>1, <2>2 DEF IsOfJob
<1>7. CASE Scanning
  <2>1. IsOfJob(e) /\ Hears
    BY <1>1, <1>7 DEF Scanning
  <2>2. ui'.modules = ui.modules /\ ui'.epoch = 0 /\ Hears'
    BY <1>6, <2>1
  <2>3. Scanning'
    BY <1>0, <1>1, <1>7, <2>2 DEF Scanning, Active, NoStart, IsSnapshot, IsOfJob
  <2> QED BY <1>3, <2>2, <2>3 DEF Phase
<1>8. CASE Announced /\ Len(events) = 1
  <2>1. /\ Matches(e.job) /\ e.kind \in {"scan_done", "scan_failed", "scan_cancelled"}
        /\ IF e.kind = "scan_done" THEN e.modules = registry ELSE ui.modules = registry
    BY <1>1, <1>8 DEF Announced, Hears
  <2>2. ui'.phase # "scanning" /\ ui'.modules = registry /\ ui'.epoch = 0
    BY <1>0, <1>1, <2>1, TakesEnd
  <2>3. DOMAIN events' = {}
    BY <1>1, <1>8
  <2>4. Calm'
    BY <1>0, <1>8, <2>2, <2>3 DEF Announced, Calm, Active, NoStart
  <2> QED BY <1>3, <2>2, <2>4 DEF Phase
<1>9. CASE Announced /\ Len(events) # 1
  <2>1. IsOfJob(e) /\ Hears
    BY <1>1, <1>9 DEF Announced
  <2>2. ui'.modules = ui.modules /\ ui'.epoch = 0 /\ Hears'
    BY <1>6, <2>1
  <2>3. /\ Len(events') \in DOMAIN events' /\ events'[Len(events')] = events[Len(events)]
        /\ events' # <<>>
    <3>1. Len(events') \in DOMAIN events' /\ Len(events') + 1 = Len(events)
      BY <1>1, <1>9
    <3> QED BY <1>1, <3>1
  <2>4. \A i \in DOMAIN events' : i # Len(events') =>
          i + 1 \in DOMAIN events /\ i + 1 # Len(events) /\ events'[i] = events[i + 1]
    BY <1>1
  <2>5. \A i \in DOMAIN events' : i # Len(events') => IsOfJob(events'[i])
    BY <1>9, <2>4 DEF Announced
  <2>6. Announced'
    BY <1>0, <1>9, <2>2, <2>3, <2>5 DEF Announced, Active, NoStart, IsSnapshot, IsOfJob
  <2> QED BY <1>3, <2>2, <2>6 DEF Phase
<1>10. CASE Misled
  <2>1. /\ ui'.phase = ui.phase /\ ui'.job = ui.job /\ ui'.pending = ui.pending
        /\ ui'.epoch = 0
    <3>1. CASE IsSnapshot(e)
      BY <1>0, <1>1, <3>1, TakesSnapshot
    <3>2. CASE ~IsSnapshot(e) /\ e.kind # "snapshot"
      <4>1. e.job # ui.job /\ ~ui.pending
        BY <1>1, <1>10, <3>2 DEF Misled
      <4>2. ~Matches(e.job)
        BY <4>1 DEF Matches
      <4> QED BY <1>0, <3>2, <4>2, TakesNothing
    <3> QED BY <1>1, <1>10, <3>1, <3>2 DEF Misled
  <2>2. Misled'
    BY <1>0, <1>1, <1>10, <2>1 DEF Misled, Active, IsSnapshot
  <2> QED BY <1>3, <2>1, <2>2 DEF Phase
<1> QED BY <1>4, <1>5, <1>7, <1>8, <1>9, <1>10 DEF Listed

\* The reply that names the job, or one that names an older job.
LEMMA ReplyLists ==
  ASSUME Shapes, Listed, ui.page = 0, NEW r \in replies, UiReply(r)
  PROVE  Listed'
<1>0. /\ Wires /\ ui \in UiShapes /\ jobId \in Nat
      /\ replies' = replies \ {r}
      /\ UNCHANGED <<running, jobId, registry, epoch, scanner, candidate, outcome, link, copy,
                     requests, events>>
  BY DEF Shapes, Listed, UiReply, jobVars, threadVars, linkVars
<1>1. r.kind = "start" /\ r.page = 0 /\ r.job \in 1 .. jobId /\ ui' = Confirms(r.job)
  BY <1>0 DEF Wires, UiReply
<1>2. CASE ~(ui.phase = "scanning" /\ ui.pending)
  <2>1. ui' = ui
    BY <1>1, <1>2 DEF Confirms
  <2>2. Wires'
    BY <1>0, <2>1 DEF Wires, Active
  <2>3. Phase'
    BY <1>0, <2>1
       DEF Listed, Phase, Calm, Asked, Scanning, Announced, Misled, Active, NoStart, OneStart,
           Hears, Matches, IsSnapshot, IsOfJob
  <2> QED BY <1>0, <2>1, <2>2, <2>3 DEF Listed, Phase, Before, Active
<1>3. CASE ui.phase = "scanning" /\ ui.pending
  <2>1. /\ ui'.phase = "scanning" /\ ~ui'.pending /\ ui'.epoch = ui.epoch
        /\ ui'.modules = ui.modules
        /\ ui'.job = IF ui.job = NoJob THEN r.job ELSE ui.job
    BY <1>0, <1>1, <1>3 DEF Confirms, UiShapes
  <2>2. Wires'
    BY <1>0, <2>1 DEF Wires, Active
  <2>3. link = "up"
    BY <1>3 DEF Listed, Before
  <2>4. ASSUME Asked PROVE Misled'
    <3>1. ui'.job <= jobId
      BY <1>0, <1>1, <2>1, <2>4 DEF Asked
    <3> QED BY <1>0, <2>1, <2>4, <3>1 DEF Asked, Misled, Active, IsSnapshot
  <2>5. ASSUME Hears, ui'.job = jobId PROVE Hears'
    BY <1>0, <2>1, <2>5 DEF Hears, Matches
  <2>6. ASSUME Hears, ui'.job # jobId PROVE ui'.job < jobId
    BY <1>0, <1>1, <2>1, <2>6 DEF Hears, Matches
  <2>7. ASSUME Scanning PROVE Scanning' \/ Misled'
    <3>1. CASE ui'.job = jobId
      BY <1>0, <2>1, <2>5, <2>7, <3>1 DEF Scanning, Active, NoStart, IsSnapshot, IsOfJob
    <3>2. CASE ui'.job # jobId
      <4>1. ui'.job < jobId
        BY <2>6, <2>7, <3>2 DEF Scanning
      <4>2. ui'.job <= jobId
        BY <1>0, <4>1, <2>1, <1>1 DEF UiShapes
      <4> QED BY <1>0, <2>1, <2>7, <3>2, <4>2 DEF Scanning, Misled, Active, IsSnapshot, IsOfJob
    <3> QED BY <3>1, <3>2
  <2>8. ASSUME Announced PROVE Announced' \/ Misled'
    <3>1. CASE ui'.job = jobId
      BY <1>0, <2>1, <2>5, <2>8, <3>1 DEF Announced, Active, NoStart, IsSnapshot, IsOfJob
    <3>2. CASE ui'.job # jobId
      <4>1. ui'.job < jobId
        BY <2>6, <2>8, <3>2 DEF Announced
      <4>2. ui'.job <= jobId
        BY <1>0, <4>1, <2>1, <1>1 DEF UiShapes
      <4>3. \A i \in DOMAIN events : IsSnapshot(events[i])
              \/ (events[i].kind # "snapshot" /\ events[i].job = jobId)
        BY <2>8 DEF Announced, IsOfJob
      <4>4. ~Active
        BY <2>8 DEF Announced
      <4> QED BY <1>0, <2>1, <3>2, <4>2, <4>3, <4>4 DEF Misled, Active, IsSnapshot
    <3> QED BY <3>1, <3>2
  <2> QED BY <1>0, <1>3, <2>2, <2>3, <2>4, <2>7, <2>8 DEF Listed, Before, Calm, Misled
<1> QED BY <1>2, <1>3

LEMMA ListsAtFirst == Init => Lists
<1> SUFFICES ASSUME Init PROVE Lists
  OBVIOUS
<1>1. Shapes
  BY DEF Init, Shapes, FreshUi, UiShapes, Counts, NoJob
<1>2. Wires /\ Before /\ Calm
  BY DEF Init, Wires, Before, Calm, Active, NoStart, FreshUi
<1> QED BY <1>1, <1>2 DEF Lists, Listed

LEMMA StaysListed == Spec => []Lists
<1>1. ASSUME Lists, [Next]_vars PROVE Lists'
  <2>1. Shapes' /\ (Undisturbed' => Undisturbed)
    BY <1>1, ShapesStep DEF Lists
  <2>2. ASSUME Undisturbed' PROVE Listed'
    <3>1. Undisturbed /\ Shapes /\ Listed
      BY <1>1, <2>1, <2>2 DEF Lists
    <3>2. Undisturbing
      BY <1>1, <2>2, <3>1, UndisturbingStep
    <3>3. ui.page = 0
      <4>1. count.drops + count.approvals + count.throws + ui.page = 0
        BY <3>1 DEF Undisturbed, Troubles
      <4>2. /\ count.drops \in Nat /\ count.approvals \in Nat /\ count.throws \in Nat
            /\ ui.page \in Nat
        BY <3>1 DEF Shapes, Counts, UiShapes
      <4> QED BY <4>1, <4>2
    <3>4. CASE UNCHANGED vars
      BY <3>1, <3>4, ListStutter DEF vars, listVars, jobVars, threadVars, linkVars, wireVars
    <3> QED BY <3>1, <3>2, <3>3, <3>4, ConnectLists, StartLists, CancelLists, ScanLists, UserLists,
               EventLists, ReplyLists
            DEF Undisturbing, Deliver
  <2> QED BY <2>1, <2>2 DEF Lists
<1> QED BY ListsAtFirst, <1>1, PTL DEF Spec

\* As long as its first connection lasts, a page that waits for no scan lists the
\* engine's registry whenever nothing is on the way: no event, reply or cancel_scan
\* overtakes another into a list that is not the last job's.
THEOREM ListsFollowTheRegistry == Spec => []ConnectedListIsRegistry
<1>1. Lists => ConnectedListIsRegistry
  <2> SUFFICES ASSUME Lists, Undisturbed, Quiet, ui.phase # "scanning"
               PROVE  ui.modules = registry
    BY DEF ConnectedListIsRegistry, ListIsRegistry
  <2> QED BY DEF Lists, Listed, Calm, Asked, Scanning, Announced, Misled, Hears
<1> QED BY <1>1, StaysListed, PTL
=============================================================================
