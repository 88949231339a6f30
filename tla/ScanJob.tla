------------------------------ MODULE ScanJob ------------------------------
(***************************************************************************)
(* The plugin scan: a job thread in the engine, start_scan, cancel_scan,   *)
(* the approval of a module by retry_plugin, the snapshot a connection     *)
(* begins with, and the user interface's record of its job.                *)
(*                                                                         *)
(* The job thread works beside the dispatcher.  It takes scan_mutex_ only  *)
(* to commit, and sends its events to whatever connection there is then.   *)
(* Commands and events cross the pipe in order; the interface gets replies *)
(* and events over two ways that keep no order between them.               *)
(***************************************************************************)
EXTENDS Naturals, Sequences

CONSTANTS
  Modules,       \* plugin files
  Inside,        \* those below the scanned roots
  Roots,         \* how many roots a scan visits
  MaxStarts, MaxCancels, MaxDrops, MaxReloads, MaxApprovals, MaxThrows, \* bounds
  MaxTroubles    \* bound on drops, reloads, approvals and throws together

ASSUME ModulesAssumption == Inside \subseteq Modules
ASSUME BoundsAssumption  ==
  {Roots, MaxStarts, MaxCancels, MaxDrops, MaxReloads, MaxApprovals, MaxThrows,
   MaxTroubles} \subseteq Nat

VARIABLES
  (* Router *)
  running,    \* scan_job_.running
  cancel,     \* scan_job_.cancel
  jobId,      \* scan_job_.id; ids count from 1
  registry,   \* vst_registry_, and last_scan_ made from it
  epoch,      \* epoch_
  (* scan_job_thread *)
  scanner,    \* where the thread is
  left,       \* roots still to scan
  candidate,  \* what the workers reported so far
  outcome,
  (* the connection *)
  link,       \* where Router::connect is
  copy,       \* last_scan as connect read it
  requests,   \* commands on their way to the dispatcher
  events,     \* events on their way to the interface
  replies,    \* replies on their way to the interface
  (* App.svelte *)
  ui,
  (* history *)
  hit,        \* jobs a cancel_scan was told it is cancelling
  approved,   \* modules the user approved
  count       \* how much of each bound is used

jobVars    == <<running, cancel, jobId>>
threadVars == <<scanner, left, candidate, outcome>>
linkVars   == <<link, copy>>
wireVars   == <<requests, events, replies>>
histVars   == <<hit, approved, count>>
vars == <<jobVars, registry, epoch, threadVars, linkVars, wireVars, ui, histVars>>

Jobs == 1 .. MaxStarts
NoJob == 0

FreshUi == [phase |-> "idle", job |-> NoJob, pending |-> FALSE, epoch |-> 0,
            modules |-> {}, page |-> 0]

Requests == [kind : {"start", "cancel", "snapshot"}, page : 0 .. MaxReloads]
              \cup [kind : {"retry"}, page : 0 .. MaxReloads, module : Modules]

Events == [kind : {"scan_progress", "scan_failed", "scan_cancelled"}, job : Jobs]
            \cup [kind : {"scan_done"}, job : Jobs, modules : SUBSET Modules]
            \cup [kind : {"snapshot"}, modules : SUBSET Modules, epoch : 0 .. MaxApprovals]

Replies == [kind : {"start"}, page : 0 .. MaxReloads, job : Jobs]
             \cup [kind : {"refused"}, page : 0 .. MaxReloads]
             \cup [kind : {"snapshot"}, page : 0 .. MaxReloads, modules : SUBSET Modules]

TypeOK ==
  /\ running \in BOOLEAN
  /\ cancel \in BOOLEAN
  /\ jobId \in {NoJob} \cup Jobs
  /\ registry \in SUBSET Modules
  /\ epoch \in 0 .. MaxApprovals
  /\ scanner \in {"none", "root", "worker", "save", "commit", "announce", "ended"}
  /\ left \in 0 .. Roots
  /\ candidate \in SUBSET Modules
  /\ outcome \in {"done", "failed", "cancelled"}
  /\ link \in {"down", "read", "sink", "up"}
  /\ copy \in SUBSET Modules
  /\ requests \in Seq(Requests)
  /\ events \in Seq(Events)
  /\ replies \in SUBSET Replies
  /\ ui \in [phase : {"idle", "scanning", "completed", "failed"},
             job : {NoJob} \cup Jobs, pending : BOOLEAN, epoch : 0 .. MaxApprovals,
             modules : SUBSET Modules, page : 0 .. MaxReloads]
  /\ hit \in SUBSET Jobs
  /\ approved \in SUBSET Modules
  /\ count \in [starts : 0 .. MaxStarts, cancels : 0 .. MaxCancels,
                drops : 0 .. MaxDrops, approvals : 0 .. MaxApprovals,
                throws : 0 .. MaxThrows]

Init ==
  /\ running = FALSE
  /\ cancel = FALSE
  /\ jobId = NoJob
  /\ registry = {}
  /\ epoch = 0
  /\ scanner = "none"
  /\ left = 0
  /\ candidate = {}
  /\ outcome = "done"
  /\ link = "down"
  /\ copy = {}
  /\ requests = <<>>
  /\ events = <<>>
  /\ replies = {}
  /\ ui = FreshUi
  /\ hit = {}
  /\ approved = {}
  /\ count = [starts |-> 0, cancels |-> 0, drops |-> 0, approvals |-> 0, throws |-> 0]

-----------------------------------------------------------------------------
(***************************************************************************)
(* Router: the connection.  connect holds engine_mutex_ throughout, but    *)
(* the job thread does not need it to send.                                *)
(***************************************************************************)

Troubles == count.drops + count.approvals + count.throws + ui.page

HasSink == link \in {"sink", "up"}

\* send_current
Sent(frame) == IF HasSink THEN Append(events, frame) ELSE events

\* A new connection: tasks of the older one are dropped by their generation.
ConnectReads ==
  /\ link = "down"
  /\ link' = "read"
  /\ copy' = registry
  /\ requests' = <<>>
  /\ UNCHANGED <<jobVars, registry, epoch, threadVars, events, replies, ui, histVars>>

ConnectSetsSink ==
  /\ link = "read"
  /\ link' = "sink"
  /\ UNCHANGED <<jobVars, registry, epoch, threadVars, copy, wireVars, ui, histVars>>

ConnectSends ==
  /\ link = "sink"
  /\ link' = "up"
  /\ events' = Append(events, [kind |-> "snapshot", modules |-> copy, epoch |-> epoch])
  /\ UNCHANGED <<jobVars, registry, epoch, threadVars, copy, requests, replies, ui,
                 histVars>>

-----------------------------------------------------------------------------
(***************************************************************************)
(* Router: commands, under engine_mutex_.                                  *)
(***************************************************************************)

\* Replies of a command whose connection is gone go nowhere.
Replied(r) == IF link = "up" THEN replies \cup {r} ELSE replies

Receives(kind) ==
  /\ link \in {"up", "down"}
  /\ requests # <<>>
  /\ Head(requests).kind = kind
  /\ requests' = Tail(requests)

\* Fault: the flag of an earlier cancel_scan stays up.
NewJob_KeepsCancel ==
  /\ running' = TRUE
  /\ jobId' = jobId + 1
  /\ scanner' = "root"
  /\ left' = Roots
  /\ candidate' = {}
  /\ UNCHANGED cancel

NewJob ==
  /\ running' = TRUE
  /\ cancel' = FALSE
  /\ jobId' = jobId + 1
  /\ scanner' = "root"
  /\ left' = Roots
  /\ candidate' = {}

\* A job that is still running is shared; otherwise its thread is joined, which
\* waits for its last event, and a new one is made.
HandleStartScan ==
  /\ Receives("start")
  /\ \/ running /\ UNCHANGED <<jobVars, threadVars>>
     \/ /\ ~running
        /\ scanner \in {"none", "ended"}
        /\ NewJob
        /\ UNCHANGED outcome
  /\ replies' = Replied([kind |-> "start", page |-> Head(requests).page, job |-> jobId'])
  /\ UNCHANGED <<registry, epoch, linkVars, events, ui, histVars>>

\* The thread cannot be created: the exception leaves the handler after running
\* was set, and dispatch_guarded replies that the command failed.
HandleStartScanThrows ==
  /\ Receives("start")
  /\ ~running
  /\ scanner \in {"none", "ended"}
  /\ count.throws < MaxThrows /\ Troubles < MaxTroubles
  /\ count' = [count EXCEPT !.throws = @ + 1]
  /\ running' = TRUE
  /\ cancel' = FALSE
  /\ jobId' = jobId + 1
  /\ scanner' = "none"
  /\ replies' = Replied([kind |-> "refused", page |-> Head(requests).page])
  /\ UNCHANGED <<registry, epoch, left, candidate, outcome, linkVars, events, ui, hit,
                 approved>>

HandleCancelScan ==
  /\ Receives("cancel")
  /\ cancel' = (cancel \/ running)
  /\ hit' = IF running THEN hit \cup {jobId} ELSE hit
  /\ UNCHANGED <<running, jobId, registry, epoch, threadVars, linkVars, events,
                 replies, ui, approved, count>>

HandleGetSnapshot ==
  /\ Receives("snapshot")
  /\ replies' = Replied([kind |-> "snapshot", page |-> Head(requests).page,
                         modules |-> registry])
  /\ UNCHANGED <<jobVars, registry, epoch, threadVars, linkVars, events, ui, histVars>>

\* retry_plugin loads the placeholder; approve_module records it.
HandleRetryPlugin ==
  /\ Receives("retry")
  /\ \/ /\ registry' = registry \cup {Head(requests).module}
        /\ approved' = approved \cup {Head(requests).module}
        /\ epoch' = epoch + 1
     \/ /\ UNCHANGED <<registry, approved>>       \* it does not load, or has no
        /\ epoch' \in {epoch, epoch + 1}          \* fingerprint
  /\ UNCHANGED <<jobVars, threadVars, linkVars, events, replies, ui, hit, count>>

-----------------------------------------------------------------------------
(***************************************************************************)
(* scan_job_thread                                                         *)
(***************************************************************************)

Ends(result, place) ==
  /\ outcome' = result
  /\ scanner' = place
  /\ UNCHANGED <<left, candidate>>

MoreRoots == left > 0

\* The top of the loop: the cancel flag, the progress event, the directory.
ScanRoot ==
  /\ scanner = "root"
  /\ \/ /\ MoreRoots /\ cancel
        /\ Ends("cancelled", "commit")
        /\ UNCHANGED events
     \/ /\ MoreRoots /\ ~cancel
        /\ events' = Sent([kind |-> "scan_progress", job |-> jobId])
        /\ \/ Ends("failed", "commit")                    \* not accessible
           \/ /\ left' = left - 1                         \* does not exist
              /\ UNCHANGED <<scanner, candidate, outcome>>
           \/ /\ scanner' = "worker"
              /\ UNCHANGED <<left, candidate, outcome>>
     \/ /\ ~MoreRoots
        /\ Ends("done", "save")
        /\ UNCHANGED events
  /\ UNCHANGED <<jobVars, registry, epoch, linkVars, requests, replies, ui, histVars>>

\* run_worker: the lines it wrote, its failure or timeout, or the cancellation.
ScanWorker ==
  /\ scanner = "worker"
  /\ \/ \E found \in SUBSET Inside :
          /\ candidate' = candidate \cup found
          /\ left' = left - 1
          /\ scanner' = "root"
          /\ UNCHANGED outcome
     \/ Ends("failed", "commit")
     \/ cancel /\ Ends("cancelled", "commit")
  /\ UNCHANGED <<jobVars, registry, epoch, linkVars, wireVars, ui, histVars>>

\* save_atomic
ScanSave ==
  /\ scanner = "save"
  /\ \E result \in {"done", "failed"} : Ends(result, "commit")
  /\ UNCHANGED <<jobVars, registry, epoch, linkVars, wireVars, ui, histVars>>

\* Under scan_mutex_: the registry is replaced and the job stops running.
ScanCommit ==
  /\ scanner = "commit"
  /\ registry' = IF outcome = "done" THEN candidate ELSE registry
  /\ running' = FALSE
  /\ scanner' = "announce"
  /\ UNCHANGED <<cancel, jobId, epoch, left, candidate, outcome, linkVars, wireVars,
                 ui, histVars>>

LastEvent ==
  CASE outcome = "done"      -> [kind |-> "scan_done", job |-> jobId, modules |-> candidate]
    [] outcome = "failed"    -> [kind |-> "scan_failed", job |-> jobId]
    [] outcome = "cancelled" -> [kind |-> "scan_cancelled", job |-> jobId]

\* Fault: nothing is sent of a job that found nothing.
ScanAnnounce_Silent ==
  /\ scanner = "announce"
  /\ events' = IF candidate = {} THEN events ELSE Sent(LastEvent)
  /\ scanner' = "ended"
  /\ UNCHANGED <<jobVars, registry, epoch, left, candidate, outcome, linkVars,
                 requests, replies, ui, histVars>>

\* Fault: the last event is sent under scan_mutex_, which a start_scan that joins
\* the thread holds.
ScanAnnounce_Locks ==
  /\ ~(requests # <<>> /\ Head(requests).kind = "start")
  /\ scanner = "announce"
  /\ events' = Sent(LastEvent)
  /\ scanner' = "ended"
  /\ UNCHANGED <<jobVars, registry, epoch, left, candidate, outcome, linkVars,
                 requests, replies, ui, histVars>>

ScanAnnounce ==
  /\ scanner = "announce"
  /\ events' = Sent(LastEvent)
  /\ scanner' = "ended"
  /\ UNCHANGED <<jobVars, registry, epoch, left, candidate, outcome, linkVars,
                 requests, replies, ui, histVars>>

-----------------------------------------------------------------------------
(***************************************************************************)
(* The interface: App.svelte with the reducer of scanJob.ts.               *)
(***************************************************************************)

\* jobMatches
Matches(job) ==
  /\ ui.phase = "scanning"
  /\ \/ ui.job = job
     \/ ui.pending /\ ui.job = NoJob

Asks(request) == requests' = Append(requests, request)

\* startScan: startRequested, then the command, or startRejected when the
\* bridge is not connected.
UiStart ==
  /\ ui.phase # "scanning"
  /\ count.starts < MaxStarts
  /\ count' = [count EXCEPT !.starts = @ + 1]
  /\ \/ /\ link = "up"
        /\ Asks([kind |-> "start", page |-> ui.page])
        /\ ui' = [ui EXCEPT !.phase = "scanning", !.job = NoJob, !.pending = TRUE]
     \/ /\ link # "up"
        /\ ui' = [ui EXCEPT !.phase = "failed", !.job = NoJob, !.pending = FALSE]
        /\ UNCHANGED requests
  /\ UNCHANGED <<jobVars, registry, epoch, threadVars, linkVars, events, replies, hit,
                 approved>>

\* cancelScan; what the command replies is not used.
UiCancel ==
  /\ ui.phase = "scanning"
  /\ link = "up"
  /\ count.cancels < MaxCancels
  /\ count' = [count EXCEPT !.cancels = @ + 1]
  /\ Asks([kind |-> "cancel", page |-> ui.page])
  /\ UNCHANGED <<jobVars, registry, epoch, threadVars, linkVars, events, replies, ui,
                 hit, approved>>

UiRetry(m) ==
  /\ link = "up"
  /\ count.approvals < MaxApprovals /\ Troubles < MaxTroubles
  /\ count' = [count EXCEPT !.approvals = @ + 1]
  /\ Asks([kind |-> "retry", page |-> ui.page, module |-> m])
  /\ UNCHANGED <<jobVars, registry, epoch, threadVars, linkVars, events, replies, ui,
                 hit, approved>>

\* A new page starts from nothing and asks for a snapshot; the events still on
\* their way are delivered to it, the replies are not.
UiReload ==
  /\ link = "up"
  /\ ui.page < MaxReloads /\ Troubles < MaxTroubles
  /\ ui' = [FreshUi EXCEPT !.page = ui.page + 1, !.epoch = ui.epoch]
  /\ Asks([kind |-> "snapshot", page |-> ui'.page])
  /\ UNCHANGED <<jobVars, registry, epoch, threadVars, linkVars, events, replies,
                 histVars>>

\* applyStatus takes the list of a snapshot when no scan is running here.
TakesList(u, modules) == IF u.phase = "scanning" THEN u ELSE [u EXCEPT !.modules = modules]

\* The connection event of a snapshot: another epoch, unless the older was
\* zero, is taken for another engine, and the job is reset.
Observes(u, e) ==
  IF u.epoch # 0 /\ u.epoch # e
  THEN [u EXCEPT !.epoch = e, !.phase = "idle", !.job = NoJob, !.pending = FALSE]
  ELSE [u EXCEPT !.epoch = e]

\* Fault: the list of a finished scan is left to the next snapshot.
React_NoList(e) ==
  CASE e.kind = "snapshot" -> TakesList(Observes(ui, e.epoch), e.modules)
    [] e.kind # "snapshot" /\ ~Matches(e.job) -> ui
    [] e.kind = "scan_progress" /\ Matches(e.job) -> [ui EXCEPT !.job = e.job]
    [] e.kind \in {"scan_done", "scan_cancelled"} /\ Matches(e.job) ->
         [ui EXCEPT !.phase = "completed", !.pending = FALSE, !.job = e.job]
    [] e.kind = "scan_failed" /\ Matches(e.job) ->
         [ui EXCEPT !.phase = "failed", !.pending = FALSE, !.job = e.job]

React(e) ==
  CASE e.kind = "snapshot" -> TakesList(Observes(ui, e.epoch), e.modules)
    [] e.kind # "snapshot" /\ ~Matches(e.job) -> ui
    [] e.kind = "scan_progress" /\ Matches(e.job) -> [ui EXCEPT !.job = e.job]
    [] e.kind = "scan_done" /\ Matches(e.job) ->
         [ui EXCEPT !.phase = "completed", !.pending = FALSE, !.job = e.job,
                    !.modules = e.modules]
    [] e.kind = "scan_failed" /\ Matches(e.job) ->
         [ui EXCEPT !.phase = "failed", !.pending = FALSE, !.job = e.job]
    [] e.kind = "scan_cancelled" /\ Matches(e.job) ->
         [ui EXCEPT !.phase = "completed", !.pending = FALSE, !.job = e.job]

UiEvent ==
  /\ events # <<>>
  /\ events' = Tail(events)
  /\ ui' = React(Head(events))
  /\ UNCHANGED <<jobVars, registry, epoch, threadVars, linkVars, requests, replies,
                 histVars>>

\* startConfirmed
Confirms(job) ==
  IF ui.phase = "scanning" /\ ui.pending
  THEN [ui EXCEPT !.job = IF @ = NoJob THEN job ELSE @, !.pending = FALSE]
  ELSE ui

\* startRejected
Rejects == IF ui.phase = "scanning" /\ ui.pending
           THEN [ui EXCEPT !.phase = "failed", !.job = NoJob, !.pending = FALSE]
           ELSE ui

UiReply(r) ==
  /\ r \in replies
  /\ replies' = replies \ {r}
  /\ ui' = CASE r.page # ui.page                           -> ui
             [] r.page = ui.page /\ r.kind = "start"       -> Confirms(r.job)
             [] r.page = ui.page /\ r.kind = "refused"     -> Rejects
             [] r.page = ui.page /\ r.kind = "snapshot"    -> TakesList(ui, r.modules)
  /\ UNCHANGED <<jobVars, registry, epoch, threadVars, linkVars, requests, events,
                 histVars>>

\* The pipe breaks.  Commands the engine has read stay in its queue, events the
\* bridge has read are still delivered, the rest is lost; a start_scan that has
\* no reply yet is rejected.
Drop ==
  /\ link = "up"
  /\ count.drops < MaxDrops /\ Troubles < MaxTroubles
  /\ count' = [count EXCEPT !.drops = @ + 1]
  /\ link' = "down"
  /\ \E n \in 0 .. Len(requests) : requests' = SubSeq(requests, 1, n)
  /\ \E n \in 0 .. Len(events) : events' = SubSeq(events, 1, n)
  /\ replies' = {}
  /\ ui' = Rejects
  /\ UNCHANGED <<jobVars, registry, epoch, threadVars, copy, hit, approved>>

-----------------------------------------------------------------------------

Connect  == ConnectReads \/ ConnectSetsSink \/ ConnectSends
Dispatch == \/ HandleStartScan \/ HandleStartScanThrows \/ HandleCancelScan
            \/ HandleGetSnapshot \/ HandleRetryPlugin
Scan     == ScanRoot \/ ScanWorker \/ ScanSave \/ ScanCommit \/ ScanAnnounce
User     == UiStart \/ UiCancel \/ UiReload \/ \E m \in Modules : UiRetry(m)
Deliver  == UiEvent \/ \E r \in replies : UiReply(r)

Next == Connect \/ Dispatch \/ Scan \/ User \/ Deliver \/ Drop

Spec == Init /\ [][Next]_vars

\* The bridge reconnects for ever, the dispatcher and the page run their
\* queues, a worker is killed after ten minutes.  Nobody has to press a button.
Fairness ==
  /\ WF_vars(Connect)
  /\ WF_vars(Dispatch)
  /\ WF_vars(Scan)
  /\ WF_vars(UiEvent)
  /\ WF_vars(\E r \in replies : UiReply(r))

FairSpec == Spec /\ Fairness

-----------------------------------------------------------------------------
(***************************************************************************)
(* Properties                                                              *)
(***************************************************************************)

\* cancel_scan ends the job that was running when it was handled: a job never
\* ends as cancelled because an earlier one was.
CancelHitsItsJob ==
  scanner \in {"commit", "announce"} /\ outcome = "cancelled" => jobId \in hit

Quiet ==
  /\ link = "up"
  /\ scanner \in {"none", "ended"}
  /\ requests = <<>> /\ events = <<>> /\ replies = {}

\* "registry is written to Snapshot.lastScan": when nothing is under way, an
\* interface that is not waiting for a scan lists what the engine has.
ListIsRegistry == Quiet /\ ui.phase # "scanning" => ui.modules = registry

\* "server pushes one snapshot event first": until the snapshot of a connection
\* is sent nothing else is.
SnapshotComesFirst ==
  [][link = "sink" /\ Len(events') > Len(events)
       => events'[Len(events')].kind = "snapshot"]_vars

\* "a jobId that does not match is a late event of an earlier generation,
\* ignored": a page that is told its job has not taken another one's events.
LateEventsAreIgnored ==
  \A r \in replies :
    r.kind = "start" /\ r.page = ui.page => ui.job \in {NoJob, r.job}

\* "already running = reused: true, the current job is shared": a job called
\* running has a thread that will end it.
RunningHasThread == running => scanner \notin {"none", "ended"}

\* "the approval stays in effect in memory for this run".
ApprovalsHold == approved \subseteq registry

\* The interface does not wait for a scan for ever.
UiScanEnds == ui.phase = "scanning" ~> ui.phase # "scanning"

\* One connection, one page, no approval and no thread that could not be
\* started so far.
Undisturbed == Troubles = 0

\* The same of the list: as long as the connection that was there when the page
\* was loaded lasts, what connect, the thread and the page do about last_scan and
\* the events leaves the page with the engine's list.
ConnectedListIsRegistry == Undisturbed => ListIsRegistry

\* As long as that connection lasts, whatever the order of the events of the
\* first job, the reply that names it and a cancel_scan, the page learns of its
\* end.  (A later start can be confirmed by the reply to an older one.)
FirstScanEnds ==
  ui.phase = "scanning" /\ count.starts = 1 /\ Undisturbed
    ~> ui.phase # "scanning" \/ ~Undisturbed

\* The dispatcher is not blocked for ever by the join in handle_start_scan.
RequestsAreHandled == requests # <<>> ~> requests = <<>>
=============================================================================
