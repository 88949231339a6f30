------------------------- MODULE GraphReclaim_proofs -------------------------
(***************************************************************************)
(* Proofs about GraphReclaim, for any number of callback and publisher     *)
(* threads, any set of graphs and any bound on failures.                   *)
(***************************************************************************)
EXTENDS GraphReclaim, FiniteSetTheorems, TLAPS

Registered == {r \in Readers : pc[r] # "idle"}

\* readers_ counts the registered threads, and a thread has a graph exactly
\* while it is registered and past the load.
Counted ==
  /\ readers = Cardinality(Registered)
  /\ \A r \in Readers : ptr[r] # None <=> pc[r] = "holding"

\* Every graph has one owner.
Owned ==
  /\ allocated = leaked \cup Queue \cup ({rtGraph, cand, unlinked, saved} \
      {None})
  /\ \A g \in Queue : retired[g] = 1
  /\ Queue \cap leaked = {}
  /\ cand # None => cand \notin Queue \cup leaked \cup {rtGraph, unlinked,
      saved}
  /\ unlinked # None => unlinked \notin Queue \cup leaked \cup {rtGraph, saved}
  /\ saved # None => saved \notin Queue \cup leaked \cup {rtGraph}
  /\ rtGraph # None => rtGraph \notin leaked
  /\ IF ctl = "attachStore" THEN rtGraph \in Queue ELSE rtGraph \notin Queue

\* What the control thread has in its hands depends on where it is.
Hands ==
  /\ cand # None <=> ctl \in {"build", "attachRetire", "attachStore"}
  /\ unlinked # None => ctl = "retire"
  /\ saved # None => /\ op \in {"quiesce", "publish"}
                     /\ ctl \in {"build", "retire", "reap", "sweep", "drain",
                                 "action", "restore", "discard", "terminated"}
  /\ ctl \in {"attachRetire", "attachStore"} => rtGraph # None
  /\ ctl \in {"action", "restore", "discard"} => op \in {"quiesce", "publish"}
  /\ ctl \in {"attach", "attachRetire", "attachStore"} => op = "attach"
  /\ ctl = "build" => op \in {"swap", "start", "prepare", "quiesce", "publish"}
  /\ ctl \in {"device", "probe"} => op = "start"
  /\ ctl = "unlink" => op \in {"stop", "destroy", "rebuild"}
  /\ ctl = "drain" => op \in {"prepare", "quiesce", "stop", "destroy"}
  /\ ctl \in {"join", "close"} => op = "destroy"
  /\ ctl \in {"reap", "sweep"} => op \notin {"none", "restore", "rebuild"}
  /\ ctl = "retire" => op \notin {"none", "attach", "final"}
  /\ op = "publish" => ctl # "drain"

\* A reader's graph is one that readers may be left on, and none but the graph
\* in use where the control thread relies on it.
Held ==
  /\ \A r \in Readers : ptr[r] # None =>
       ptr[r] \in Queue \cup leaked \cup {rtGraph, unlinked}
  /\ (ctl = "sweep" /\ ~busy) => \A r \in Readers : ptr[r] \in {None, rtGraph}
  /\ ctl = "action" => \A r \in Readers : ptr[r] \in {None, rtGraph}

\* The stages of the destructor.
Ending ==
  /\ op \in {"destroy", "final"} =>
       /\ ~publishing
       /\ ctl # "join" => ~streaming /\ \A r \in Publishers : pc[r] = "idle"
       /\ ctl # "idle"
       /\ ctl \notin {"join", "unlink"} => rtGraph = None
  /\ op = "final" =>
       /\ \A r \in Readers : pc[r] = "idle"
       /\ ctl \in {"reap", "sweep", "dead", "terminated"}
       /\ ctl = "sweep" => ~busy
  /\ ctl = "dead" => op = "final" /\ Queue = {}

Budget ==
  /\ IsFiniteSet(leaked)
  /\ Cardinality(leaked) <= failures

IInv == TypeOK /\ Counted /\ Owned /\ Hands /\ Held /\ Ending /\ Budget

-----------------------------------------------------------------------------
(***************************************************************************)
(* The reader count                                                        *)
(***************************************************************************)

LEMMA RegisteredIsFinite == IsFiniteSet(Registered)
<1>1. IsFiniteSet(Readers)
  BY ReadersAssumption, FS_Union DEF Readers
<1> QED
  BY <1>1, FS_Subset DEF Registered

\* Only the three reader steps touch the latch and the readers' own state.
LEMMA OthersLeaveReaders ==
  ASSUME Request \/ Step \/ (\E g \in Graphs : GraceElapses(g))
  PROVE  UNCHANGED threadVars
BY DEF Request, Step, BeginSwap, BeginStart, BeginPrepare, BeginQuiesce,
    BeginAttach, BeginStop, BeginRebuild, BeginDestroy, AbortCandidate,
    PublishCandidate, RetireUnlinked, RetireFails, ReapCheck, ReapFails,
    SweepOne, SweepDone, Drained, DrainTimesOut, ActionDone, ActionPublishes,
    RestoreSaved, DiscardSaved, AttachBuild, AttachRetire, AttachRetireFails,
    AttachStore, DeviceStarts, ProbeSucceeds, ProbeFails, UnlinkGraph,
    PublisherJoined, DeviceClosed, GraceElapses,
       AfterAbort, AfterDrain, AfterFailedRetire, AfterRetire, AfterSwap,
           AfterSweep, Begin, BeginSafety, Build, Fails, Forced, MayDelete,
           Retire, threadVars

LEMMA CountedStep ==
  ASSUME IInv, [Next]_vars
  PROVE  Counted'
<1> USE DEF IInv, TypeOK, Counted
<1>1. ASSUME NEW r \in Readers, ReaderEnter(r)
      PROVE  Counted'
  <2>1. Registered' = Registered \cup {r} /\ r \notin Registered
    BY <1>1 DEF ReaderEnter, Registered
  <2>2. readers' = Cardinality(Registered')
    BY <1>1, <2>1, RegisteredIsFinite, FS_AddElement, FS_CardinalityType
    DEF ReaderEnter
  <2> QED
    BY <1>1, <2>2 DEF ReaderEnter
<1>2. ASSUME NEW r \in Readers, ReaderLoad(r)
      PROVE  Counted'
  <2>1. Registered' = Registered
    BY <1>2 DEF ReaderLoad, Registered
  <2> QED
    BY <1>2, <2>1, GraphsAssumption DEF ReaderLoad
<1>3. ASSUME NEW r \in Readers, ReaderExit(r)
      PROVE  Counted'
  <2>1. Registered' = Registered \ {r} /\ r \in Registered
    BY <1>3 DEF ReaderExit, Registered
  <2>2. readers' = Cardinality(Registered')
    BY <1>3, <2>1, RegisteredIsFinite, FS_RemoveElement, FS_CardinalityType
    DEF ReaderExit
  <2> QED
    BY <1>3, <2>2 DEF ReaderExit
<1>4. CASE UNCHANGED threadVars
  BY <1>4 DEF threadVars, Registered
<1> QED
  BY <1>1, <1>2, <1>3, <1>4, OthersLeaveReaders
  DEF Next, Reading, Ended, vars, threadVars

LEMMA NobodyRegistered ==
  ASSUME IInv, readers = 0
  PROVE  \A r \in Readers : pc[r] = "idle" /\ ptr[r] = None
<1>1. Registered = {}
  BY RegisteredIsFinite, FS_EmptySet DEF IInv, Counted
<1> QED
  BY <1>1 DEF IInv, Counted, Registered

LEMMA AllIdle ==
  ASSUME IInv, \A r \in Readers : pc[r] = "idle"
  PROVE  readers = 0
<1>1. Registered = {}
  BY DEF Registered
<1> QED
  BY <1>1, FS_EmptySet DEF IInv, Counted

-----------------------------------------------------------------------------
(***************************************************************************)
(* Each part of the invariant is preserved by every step.                  *)
(***************************************************************************)

LEMMA TypeStep ==
  ASSUME IInv, [Next]_vars
  PROVE  TypeOK'
<1> USE GraphsAssumption, ReadersAssumption, FailuresAssumption DEF IInv,
    TypeOK, Hands, Queue, Ops, Places, memVars, queueVars, threadVars,
    driverVars, ctlVars
<1>1. ASSUME NEW g \in Graphs, BeginSwap(g)
      PROVE  TypeOK'
  BY <1>1 DEF BeginSwap, Begin, Build
<1>2. ASSUME NEW g \in Graphs, BeginStart(g)
      PROVE  TypeOK'
  BY <1>2 DEF BeginStart, Begin, Build
<1>3. ASSUME NEW g \in Graphs, BeginPrepare(g)
      PROVE  TypeOK'
  BY <1>3 DEF BeginPrepare, BeginSafety, Begin, Build
<1>4. ASSUME NEW copy \in Graphs, NEW g \in Graphs, BeginQuiesce(copy, g)
      PROVE  TypeOK'
  BY <1>4 DEF BeginQuiesce, Begin
<1>5. CASE BeginAttach
  BY <1>5 DEF BeginAttach, Begin
<1>6. CASE BeginStop
  BY <1>6 DEF BeginStop, Begin
<1>7. CASE BeginRebuild
  BY <1>7 DEF BeginRebuild, Begin
<1>8. CASE BeginDestroy
  BY <1>8 DEF BeginDestroy, Begin
<1>9. CASE AbortCandidate
  BY <1>9 DEF AbortCandidate, AfterAbort
<1>10. CASE PublishCandidate
  BY <1>10 DEF PublishCandidate
<1>11. CASE RetireUnlinked
  BY <1>11 DEF RetireUnlinked, Retire, AfterRetire
<1>12. CASE RetireFails
  BY <1>12 DEF RetireFails, Fails, AfterFailedRetire, AfterRetire, AfterSwap
<1>13. CASE ReapCheck
  BY <1>13 DEF ReapCheck
<1>14. CASE ReapFails
  BY <1>14 DEF ReapFails, Fails
<1>15. ASSUME NEW g \in Graphs, SweepOne(g)
      PROVE  TypeOK'
  BY <1>15 DEF SweepOne, MayDelete, Forced
<1>16. CASE SweepDone
  BY <1>16 DEF SweepDone, MayDelete, Forced, AfterSweep, AfterSwap
<1>17. CASE Drained
  BY <1>17 DEF Drained, AfterDrain
<1>18. CASE DrainTimesOut
  BY <1>18 DEF DrainTimesOut, AfterDrain
<1>19. CASE ActionDone
  BY <1>19 DEF ActionDone
<1>20. ASSUME NEW g \in Graphs, ActionPublishes(g)
      PROVE  TypeOK'
  BY <1>20 DEF ActionPublishes, Build
<1>21. CASE RestoreSaved
  BY <1>21 DEF RestoreSaved
<1>22. CASE DiscardSaved
  BY <1>22 DEF DiscardSaved
<1>23. ASSUME NEW g \in Graphs, AttachBuild(g)
      PROVE  TypeOK'
  BY <1>23 DEF AttachBuild, Build
<1>24. CASE AttachRetire
  BY <1>24 DEF AttachRetire, Retire
<1>25. CASE AttachRetireFails
  BY <1>25 DEF AttachRetireFails, Fails
<1>26. CASE AttachStore
  BY <1>26 DEF AttachStore
<1>27. CASE DeviceStarts
  BY <1>27 DEF DeviceStarts
<1>28. CASE ProbeSucceeds
  BY <1>28 DEF ProbeSucceeds
<1>29. CASE ProbeFails
  BY <1>29 DEF ProbeFails
<1>30. CASE UnlinkGraph
  BY <1>30 DEF UnlinkGraph
<1>31. CASE PublisherJoined
  BY <1>31 DEF PublisherJoined
<1>32. CASE DeviceClosed
  BY <1>32 DEF DeviceClosed
<1>33. ASSUME NEW r \in Readers, ReaderEnter(r)
      PROVE  TypeOK'
  BY <1>33 DEF ReaderEnter, Runs
<1>34. ASSUME NEW r \in Readers, ReaderLoad(r)
      PROVE  TypeOK'
  BY <1>34 DEF ReaderLoad, Runs
<1>35. ASSUME NEW r \in Readers, ReaderExit(r)
      PROVE  TypeOK'
  <2>1. readers > 0
    BY <1>35, NobodyRegistered DEF ReaderExit
  <2> QED
    BY <1>35, <2>1 DEF ReaderExit
<1>36. ASSUME NEW g \in Graphs, GraceElapses(g)
      PROVE  TypeOK'
  BY <1>36 DEF GraceElapses
<1>37. CASE UNCHANGED vars
  BY <1>37 DEF vars
<1> QED
  BY <1>1, <1>2, <1>3, <1>4, <1>5, <1>6, <1>7, <1>8, <1>9, <1>10, <1>11, <1>12,
      <1>13, <1>14, <1>15, <1>16, <1>17, <1>18, <1>19, <1>20, <1>21, <1>22,
      <1>23, <1>24, <1>25, <1>26, <1>27, <1>28, <1>29, <1>30, <1>31, <1>32,
      <1>33, <1>34, <1>35, <1>36, <1>37
  DEF Next, Request, Step, Reading, Ended

LEMMA OwnedStep ==
  ASSUME IInv, [Next]_vars
  PROVE  Owned'
<1> USE GraphsAssumption, ReadersAssumption, FailuresAssumption DEF IInv,
    TypeOK, Hands, Owned, Queue, memVars, queueVars, threadVars, driverVars,
    ctlVars
<1>1. ASSUME NEW g \in Graphs, BeginSwap(g)
      PROVE  Owned'
  BY <1>1 DEF BeginSwap, Begin, Build
<1>2. ASSUME NEW g \in Graphs, BeginStart(g)
      PROVE  Owned'
  BY <1>2 DEF BeginStart, Begin, Build
<1>3. ASSUME NEW g \in Graphs, BeginPrepare(g)
      PROVE  Owned'
  BY <1>3 DEF BeginPrepare, BeginSafety, Begin, Build
<1>4. ASSUME NEW copy \in Graphs, NEW g \in Graphs, BeginQuiesce(copy, g)
      PROVE  Owned'
  BY <1>4 DEF BeginQuiesce, Begin
<1>5. CASE BeginAttach
  BY <1>5 DEF BeginAttach, Begin
<1>6. CASE BeginStop
  BY <1>6 DEF BeginStop, Begin
<1>7. CASE BeginRebuild
  BY <1>7 DEF BeginRebuild, Begin
<1>8. CASE BeginDestroy
  BY <1>8 DEF BeginDestroy, Begin
<1>9. CASE AbortCandidate
  BY <1>9 DEF AbortCandidate, AfterAbort
<1>10. CASE PublishCandidate
  BY <1>10 DEF PublishCandidate
<1>11. CASE RetireUnlinked
  BY <1>11 DEF RetireUnlinked, Retire, AfterRetire
<1>12. CASE RetireFails
  BY <1>12 DEF RetireFails, Fails, AfterFailedRetire, AfterRetire, AfterSwap
<1>13. CASE ReapCheck
  BY <1>13 DEF ReapCheck
<1>14. CASE ReapFails
  BY <1>14 DEF ReapFails, Fails
<1>15. ASSUME NEW g \in Graphs, SweepOne(g)
      PROVE  Owned'
  BY <1>15 DEF SweepOne, MayDelete, Forced
<1>16. CASE SweepDone
  BY <1>16 DEF SweepDone, MayDelete, Forced, AfterSweep, AfterSwap
<1>17. CASE Drained
  BY <1>17 DEF Drained, AfterDrain
<1>18. CASE DrainTimesOut
  BY <1>18 DEF DrainTimesOut, AfterDrain
<1>19. CASE ActionDone
  BY <1>19 DEF ActionDone
<1>20. ASSUME NEW g \in Graphs, ActionPublishes(g)
      PROVE  Owned'
  BY <1>20 DEF ActionPublishes, Build
<1>21. CASE RestoreSaved
  BY <1>21 DEF RestoreSaved
<1>22. CASE DiscardSaved
  BY <1>22 DEF DiscardSaved
<1>23. ASSUME NEW g \in Graphs, AttachBuild(g)
      PROVE  Owned'
  BY <1>23 DEF AttachBuild, Build
<1>24. CASE AttachRetire
  BY <1>24 DEF AttachRetire, Retire
<1>25. CASE AttachRetireFails
  BY <1>25 DEF AttachRetireFails, Fails
<1>26. CASE AttachStore
  BY <1>26 DEF AttachStore
<1>27. CASE DeviceStarts
  BY <1>27 DEF DeviceStarts
<1>28. CASE ProbeSucceeds
  BY <1>28 DEF ProbeSucceeds
<1>29. CASE ProbeFails
  BY <1>29 DEF ProbeFails
<1>30. CASE UnlinkGraph
  BY <1>30 DEF UnlinkGraph
<1>31. CASE PublisherJoined
  BY <1>31 DEF PublisherJoined
<1>32. CASE DeviceClosed
  BY <1>32 DEF DeviceClosed
<1>33. ASSUME NEW r \in Readers, ReaderEnter(r)
      PROVE  Owned'
  BY <1>33 DEF ReaderEnter, Runs
<1>34. ASSUME NEW r \in Readers, ReaderLoad(r)
      PROVE  Owned'
  BY <1>34 DEF ReaderLoad, Runs
<1>35. ASSUME NEW r \in Readers, ReaderExit(r)
      PROVE  Owned'
  BY <1>35 DEF ReaderExit, Runs
<1>36. ASSUME NEW g \in Graphs, GraceElapses(g)
      PROVE  Owned'
  BY <1>36 DEF GraceElapses
<1>37. CASE UNCHANGED vars
  BY <1>37 DEF vars
<1> QED
  BY <1>1, <1>2, <1>3, <1>4, <1>5, <1>6, <1>7, <1>8, <1>9, <1>10, <1>11, <1>12,
      <1>13, <1>14, <1>15, <1>16, <1>17, <1>18, <1>19, <1>20, <1>21, <1>22,
      <1>23, <1>24, <1>25, <1>26, <1>27, <1>28, <1>29, <1>30, <1>31, <1>32,
      <1>33, <1>34, <1>35, <1>36, <1>37
  DEF Next, Request, Step, Reading, Ended

LEMMA HandsStep ==
  ASSUME IInv, [Next]_vars
  PROVE  Hands'
<1> USE GraphsAssumption, ReadersAssumption, FailuresAssumption DEF IInv,
    TypeOK, Hands, Owned, Queue, memVars, queueVars, threadVars, driverVars,
    ctlVars
<1>1. ASSUME NEW g \in Graphs, BeginSwap(g)
      PROVE  Hands'
  BY <1>1 DEF BeginSwap, Begin, Build
<1>2. ASSUME NEW g \in Graphs, BeginStart(g)
      PROVE  Hands'
  BY <1>2 DEF BeginStart, Begin, Build
<1>3. ASSUME NEW g \in Graphs, BeginPrepare(g)
      PROVE  Hands'
  BY <1>3 DEF BeginPrepare, BeginSafety, Begin, Build
<1>4. ASSUME NEW copy \in Graphs, NEW g \in Graphs, BeginQuiesce(copy, g)
      PROVE  Hands'
  BY <1>4 DEF BeginQuiesce, Begin
<1>5. CASE BeginAttach
  BY <1>5 DEF BeginAttach, Begin
<1>6. CASE BeginStop
  BY <1>6 DEF BeginStop, Begin
<1>7. CASE BeginRebuild
  BY <1>7 DEF BeginRebuild, Begin
<1>8. CASE BeginDestroy
  BY <1>8 DEF BeginDestroy, Begin
<1>9. CASE AbortCandidate
  BY <1>9 DEF AbortCandidate, AfterAbort
<1>10. CASE PublishCandidate
  BY <1>10 DEF PublishCandidate
<1>11. CASE RetireUnlinked
  BY <1>11 DEF RetireUnlinked, Retire, AfterRetire
<1>12. CASE RetireFails
  BY <1>12 DEF RetireFails, Fails, AfterFailedRetire, AfterRetire, AfterSwap
<1>13. CASE ReapCheck
  BY <1>13 DEF ReapCheck
<1>14. CASE ReapFails
  BY <1>14 DEF ReapFails, Fails
<1>15. ASSUME NEW g \in Graphs, SweepOne(g)
      PROVE  Hands'
  BY <1>15 DEF SweepOne, MayDelete, Forced
<1>16. CASE SweepDone
  BY <1>16 DEF SweepDone, MayDelete, Forced, AfterSweep, AfterSwap
<1>17. CASE Drained
  BY <1>17 DEF Drained, AfterDrain
<1>18. CASE DrainTimesOut
  BY <1>18 DEF DrainTimesOut, AfterDrain
<1>19. CASE ActionDone
  BY <1>19 DEF ActionDone
<1>20. ASSUME NEW g \in Graphs, ActionPublishes(g)
      PROVE  Hands'
  BY <1>20 DEF ActionPublishes, Build
<1>21. CASE RestoreSaved
  BY <1>21 DEF RestoreSaved
<1>22. CASE DiscardSaved
  BY <1>22 DEF DiscardSaved
<1>23. ASSUME NEW g \in Graphs, AttachBuild(g)
      PROVE  Hands'
  BY <1>23 DEF AttachBuild, Build
<1>24. CASE AttachRetire
  BY <1>24 DEF AttachRetire, Retire
<1>25. CASE AttachRetireFails
  BY <1>25 DEF AttachRetireFails, Fails
<1>26. CASE AttachStore
  BY <1>26 DEF AttachStore
<1>27. CASE DeviceStarts
  BY <1>27 DEF DeviceStarts
<1>28. CASE ProbeSucceeds
  BY <1>28 DEF ProbeSucceeds
<1>29. CASE ProbeFails
  BY <1>29 DEF ProbeFails
<1>30. CASE UnlinkGraph
  BY <1>30 DEF UnlinkGraph
<1>31. CASE PublisherJoined
  BY <1>31 DEF PublisherJoined
<1>32. CASE DeviceClosed
  BY <1>32 DEF DeviceClosed
<1>33. ASSUME NEW r \in Readers, ReaderEnter(r)
      PROVE  Hands'
  BY <1>33 DEF ReaderEnter, Runs
<1>34. ASSUME NEW r \in Readers, ReaderLoad(r)
      PROVE  Hands'
  BY <1>34 DEF ReaderLoad, Runs
<1>35. ASSUME NEW r \in Readers, ReaderExit(r)
      PROVE  Hands'
  BY <1>35 DEF ReaderExit, Runs
<1>36. ASSUME NEW g \in Graphs, GraceElapses(g)
      PROVE  Hands'
  BY <1>36 DEF GraceElapses
<1>37. CASE UNCHANGED vars
  BY <1>37 DEF vars
<1> QED
  BY <1>1, <1>2, <1>3, <1>4, <1>5, <1>6, <1>7, <1>8, <1>9, <1>10, <1>11, <1>12,
      <1>13, <1>14, <1>15, <1>16, <1>17, <1>18, <1>19, <1>20, <1>21, <1>22,
      <1>23, <1>24, <1>25, <1>26, <1>27, <1>28, <1>29, <1>30, <1>31, <1>32,
      <1>33, <1>34, <1>35, <1>36, <1>37
  DEF Next, Request, Step, Reading, Ended

LEMMA HeldStep ==
  ASSUME IInv, [Next]_vars
  PROVE  Held'
<1> USE GraphsAssumption, ReadersAssumption, FailuresAssumption DEF IInv,
    TypeOK, Hands, Owned, Held, Counted, Queue, memVars, queueVars, threadVars,
    driverVars, ctlVars
<1>1. ASSUME NEW g \in Graphs, BeginSwap(g)
      PROVE  Held'
  BY <1>1 DEF BeginSwap, Begin, Build
<1>2. ASSUME NEW g \in Graphs, BeginStart(g)
      PROVE  Held'
  BY <1>2 DEF BeginStart, Begin, Build
<1>3. ASSUME NEW g \in Graphs, BeginPrepare(g)
      PROVE  Held'
  BY <1>3 DEF BeginPrepare, BeginSafety, Begin, Build
<1>4. ASSUME NEW copy \in Graphs, NEW g \in Graphs, BeginQuiesce(copy, g)
      PROVE  Held'
  BY <1>4 DEF BeginQuiesce, Begin
<1>5. CASE BeginAttach
  BY <1>5 DEF BeginAttach, Begin
<1>6. CASE BeginStop
  BY <1>6 DEF BeginStop, Begin
<1>7. CASE BeginRebuild
  BY <1>7 DEF BeginRebuild, Begin
<1>8. CASE BeginDestroy
  BY <1>8 DEF BeginDestroy, Begin
<1>9. CASE AbortCandidate
  BY <1>9 DEF AbortCandidate, AfterAbort
<1>10. CASE PublishCandidate
  BY <1>10 DEF PublishCandidate
<1>11. CASE RetireUnlinked
  BY <1>11 DEF RetireUnlinked, Retire, AfterRetire
<1>12. CASE RetireFails
  BY <1>12 DEF RetireFails, Fails, AfterFailedRetire, AfterRetire, AfterSwap
<1>13. CASE ReapCheck
  BY <1>13, NobodyRegistered DEF ReapCheck
<1>14. CASE ReapFails
  BY <1>14 DEF ReapFails, Fails
<1>15. ASSUME NEW g \in Graphs, SweepOne(g)
      PROVE  Held'
  BY <1>15 DEF SweepOne, MayDelete, Forced
<1>16. CASE SweepDone
  BY <1>16 DEF SweepDone, MayDelete, Forced, AfterSweep, AfterSwap
<1>17. CASE Drained
  BY <1>17, NobodyRegistered DEF Drained, AfterDrain
<1>18. CASE DrainTimesOut
  BY <1>18 DEF DrainTimesOut, AfterDrain
<1>19. CASE ActionDone
  BY <1>19 DEF ActionDone
<1>20. ASSUME NEW g \in Graphs, ActionPublishes(g)
      PROVE  Held'
  BY <1>20 DEF ActionPublishes, Build
<1>21. CASE RestoreSaved
  BY <1>21 DEF RestoreSaved
<1>22. CASE DiscardSaved
  BY <1>22 DEF DiscardSaved
<1>23. ASSUME NEW g \in Graphs, AttachBuild(g)
      PROVE  Held'
  BY <1>23 DEF AttachBuild, Build
<1>24. CASE AttachRetire
  BY <1>24 DEF AttachRetire, Retire
<1>25. CASE AttachRetireFails
  BY <1>25 DEF AttachRetireFails, Fails
<1>26. CASE AttachStore
  BY <1>26 DEF AttachStore
<1>27. CASE DeviceStarts
  BY <1>27 DEF DeviceStarts
<1>28. CASE ProbeSucceeds
  BY <1>28 DEF ProbeSucceeds
<1>29. CASE ProbeFails
  BY <1>29 DEF ProbeFails
<1>30. CASE UnlinkGraph
  BY <1>30 DEF UnlinkGraph
<1>31. CASE PublisherJoined
  BY <1>31 DEF PublisherJoined
<1>32. CASE DeviceClosed
  BY <1>32 DEF DeviceClosed, Ending, Readers
<1>33. ASSUME NEW r \in Readers, ReaderEnter(r)
      PROVE  Held'
  BY <1>33 DEF ReaderEnter, Runs
<1>34. ASSUME NEW r \in Readers, ReaderLoad(r)
      PROVE  Held'
  BY <1>34 DEF ReaderLoad, Runs
<1>35. ASSUME NEW r \in Readers, ReaderExit(r)
      PROVE  Held'
  BY <1>35 DEF ReaderExit, Runs
<1>36. ASSUME NEW g \in Graphs, GraceElapses(g)
      PROVE  Held'
  BY <1>36 DEF GraceElapses
<1>37. CASE UNCHANGED vars
  BY <1>37 DEF vars
<1> QED
  BY <1>1, <1>2, <1>3, <1>4, <1>5, <1>6, <1>7, <1>8, <1>9, <1>10, <1>11, <1>12,
      <1>13, <1>14, <1>15, <1>16, <1>17, <1>18, <1>19, <1>20, <1>21, <1>22,
      <1>23, <1>24, <1>25, <1>26, <1>27, <1>28, <1>29, <1>30, <1>31, <1>32,
      <1>33, <1>34, <1>35, <1>36, <1>37
  DEF Next, Request, Step, Reading, Ended

LEMMA EndingStep ==
  ASSUME IInv, [Next]_vars
  PROVE  Ending'
<1> USE GraphsAssumption, ReadersAssumption, FailuresAssumption DEF IInv,
    TypeOK, Hands, Ending, Owned, Queue, Readers, memVars, queueVars,
    threadVars, driverVars, ctlVars
<1>1. ASSUME NEW g \in Graphs, BeginSwap(g)
      PROVE  Ending'
  BY <1>1 DEF BeginSwap, Begin, Build
<1>2. ASSUME NEW g \in Graphs, BeginStart(g)
      PROVE  Ending'
  BY <1>2 DEF BeginStart, Begin, Build
<1>3. ASSUME NEW g \in Graphs, BeginPrepare(g)
      PROVE  Ending'
  BY <1>3 DEF BeginPrepare, BeginSafety, Begin, Build
<1>4. ASSUME NEW copy \in Graphs, NEW g \in Graphs, BeginQuiesce(copy, g)
      PROVE  Ending'
  BY <1>4 DEF BeginQuiesce, Begin
<1>5. CASE BeginAttach
  BY <1>5 DEF BeginAttach, Begin
<1>6. CASE BeginStop
  BY <1>6 DEF BeginStop, Begin
<1>7. CASE BeginRebuild
  BY <1>7 DEF BeginRebuild, Begin
<1>8. CASE BeginDestroy
  BY <1>8 DEF BeginDestroy, Begin
<1>9. CASE AbortCandidate
  BY <1>9 DEF AbortCandidate, AfterAbort
<1>10. CASE PublishCandidate
  BY <1>10 DEF PublishCandidate
<1>11. CASE RetireUnlinked
  BY <1>11 DEF RetireUnlinked, Retire, AfterRetire
<1>12. CASE RetireFails
  BY <1>12 DEF RetireFails, Fails, AfterFailedRetire, AfterRetire, AfterSwap
<1>13. CASE ReapCheck
  BY <1>13, AllIdle DEF ReapCheck
<1>14. CASE ReapFails
  BY <1>14 DEF ReapFails, Fails
<1>15. ASSUME NEW g \in Graphs, SweepOne(g)
      PROVE  Ending'
  BY <1>15 DEF SweepOne, MayDelete, Forced
<1>16. CASE SweepDone
  BY <1>16 DEF SweepDone, MayDelete, Forced, AfterSweep, AfterSwap
<1>17. CASE Drained
  BY <1>17 DEF Drained, AfterDrain
<1>18. CASE DrainTimesOut
  BY <1>18 DEF DrainTimesOut, AfterDrain
<1>19. CASE ActionDone
  BY <1>19 DEF ActionDone
<1>20. ASSUME NEW g \in Graphs, ActionPublishes(g)
      PROVE  Ending'
  BY <1>20 DEF ActionPublishes, Build
<1>21. CASE RestoreSaved
  BY <1>21 DEF RestoreSaved
<1>22. CASE DiscardSaved
  BY <1>22 DEF DiscardSaved
<1>23. ASSUME NEW g \in Graphs, AttachBuild(g)
      PROVE  Ending'
  BY <1>23 DEF AttachBuild, Build
<1>24. CASE AttachRetire
  BY <1>24 DEF AttachRetire, Retire
<1>25. CASE AttachRetireFails
  BY <1>25 DEF AttachRetireFails, Fails
<1>26. CASE AttachStore
  BY <1>26 DEF AttachStore
<1>27. CASE DeviceStarts
  BY <1>27 DEF DeviceStarts
<1>28. CASE ProbeSucceeds
  BY <1>28 DEF ProbeSucceeds
<1>29. CASE ProbeFails
  BY <1>29 DEF ProbeFails
<1>30. CASE UnlinkGraph
  BY <1>30 DEF UnlinkGraph
<1>31. CASE PublisherJoined
  BY <1>31 DEF PublisherJoined
<1>32. CASE DeviceClosed
  BY <1>32 DEF DeviceClosed
<1>33. ASSUME NEW r \in Readers, ReaderEnter(r)
      PROVE  Ending'
  BY <1>33 DEF ReaderEnter, Runs
<1>34. ASSUME NEW r \in Readers, ReaderLoad(r)
      PROVE  Ending'
  BY <1>34 DEF ReaderLoad, Runs
<1>35. ASSUME NEW r \in Readers, ReaderExit(r)
      PROVE  Ending'
  BY <1>35 DEF ReaderExit, Runs
<1>36. ASSUME NEW g \in Graphs, GraceElapses(g)
      PROVE  Ending'
  BY <1>36 DEF GraceElapses
<1>37. CASE UNCHANGED vars
  BY <1>37 DEF vars
<1> QED
  BY <1>1, <1>2, <1>3, <1>4, <1>5, <1>6, <1>7, <1>8, <1>9, <1>10, <1>11, <1>12,
      <1>13, <1>14, <1>15, <1>16, <1>17, <1>18, <1>19, <1>20, <1>21, <1>22,
      <1>23, <1>24, <1>25, <1>26, <1>27, <1>28, <1>29, <1>30, <1>31, <1>32,
      <1>33, <1>34, <1>35, <1>36, <1>37
  DEF Next, Request, Step, Reading, Ended

LEMMA BudgetStep ==
  ASSUME IInv, [Next]_vars
  PROVE  Budget'
<1> USE DEF IInv, TypeOK, Budget
<1>1. CASE RetireFails
  <2>1. failures' = failures + 1 /\ leaked' = leaked \cup {unlinked}
    BY <1>1 DEF RetireFails, Fails
  <2>2. /\ IsFiniteSet(leaked \cup {unlinked})
        /\ Cardinality(leaked \cup {unlinked}) <= Cardinality(leaked) + 1
    <3>1. Cardinality(leaked) \in Nat
      BY FS_CardinalityType
    <3>2. IsFiniteSet(leaked)
      OBVIOUS
    <3>3. /\ IsFiniteSet(leaked \cup {unlinked})
          /\ Cardinality(leaked \cup {unlinked}) =
               IF unlinked \in leaked THEN Cardinality(leaked)
                                      ELSE Cardinality(leaked) + 1
      BY <3>2, FS_AddElement
    <3> QED
      BY <3>1, <3>3
  <2>3. Cardinality(leaked) \in Nat /\ Cardinality(leaked \cup {unlinked}) \in Nat
    BY <2>2, FS_CardinalityType
  <2> QED
    BY <2>1, <2>2, <2>3, FailuresAssumption
<1>2. CASE ~RetireFails
  <2>1. leaked' = leaked /\ failures' \in {failures, failures + 1}
    BY <1>2
    DEF Next, Request, Step, Reading, Ended, Runs, BeginSwap, BeginStart,
        BeginPrepare, BeginQuiesce, BeginAttach, BeginStop, BeginRebuild,
        BeginDestroy, AbortCandidate, PublishCandidate, RetireUnlinked,
        ReapCheck, ReapFails, SweepOne, SweepDone, Drained, DrainTimesOut,
        ActionDone, ActionPublishes, RestoreSaved, DiscardSaved, AttachBuild,
        AttachRetire, AttachRetireFails, AttachStore, DeviceStarts,
        ProbeSucceeds, ProbeFails, UnlinkGraph, PublisherJoined, DeviceClosed,
        ReaderEnter, ReaderLoad, ReaderExit, GraceElapses,
        AfterAbort, AfterDrain, AfterFailedRetire, AfterRetire, AfterSwap,
            AfterSweep, Begin, BeginSafety, Build, Fails, Forced, MayDelete,
            Retire,
        vars, memVars, queueVars, threadVars, driverVars, ctlVars
  <2> QED
    BY <2>1, FS_CardinalityType, FailuresAssumption
<1> QED
  BY <1>1, <1>2

-----------------------------------------------------------------------------
(***************************************************************************)
(* The theorems                                                            *)
(***************************************************************************)

LEMMA InitInvariant == Init => IInv
<1> SUFFICES ASSUME Init
             PROVE  IInv
  OBVIOUS
<1> USE GraphsAssumption, FailuresAssumption DEF Init, Queue
<1>1. TypeOK
  <2>1. /\ retired \in [Graphs -> Nat]
        /\ pc \in [Readers -> {"idle", "entered", "holding", "leaving"}]
        /\ ptr \in [Readers -> Graphs \cup {None}]
    OBVIOUS
  <2>2. ctl \in Places /\ op \in Ops
    BY DEF Places, Ops
  <2>3. failures \in 0 .. MaxFailures
    OBVIOUS
  <2> QED
    BY <2>1, <2>2, <2>3 DEF TypeOK
<1>2. Counted
  <2>1. Registered = {}
    BY DEF Registered
  <2> QED
    BY <2>1, FS_EmptySet DEF Counted
<1>3. Owned /\ Hands /\ Held /\ Ending
  BY DEF Owned, Hands, Held, Ending
<1>4. Budget
  BY FS_EmptySet DEF Budget
<1> QED
  BY <1>1, <1>2, <1>3, <1>4 DEF IInv

\* The strengthened invariant is inductive.
THEOREM Invariance == Spec => []IInv
<1>1. IInv /\ [Next]_vars => IInv'
  BY TypeStep, CountedStep, OwnedStep, HandsStep, HeldStep, EndingStep,
     BudgetStep DEF IInv
<1> QED
  BY <1>1, InitInvariant, PTL DEF Spec

\* Type correctness, of which the part to be proved is that the reader count,
\* an unsigned integer in the code, never goes below zero.
THEOREM TypeCorrect == Spec => []TypeOK
<1>1. IInv => TypeOK
  BY DEF IInv
<1> QED
  BY <1>1, Invariance, PTL

\* No audio callback and no publisher ever traverses a deleted graph.
THEOREM ReadersAreSafe == Spec => []NoUseAfterFree
<1>1. IInv => NoUseAfterFree
  BY DEF IInv, TypeOK, Owned, Held, Hands, NoUseAfterFree, Queue
<1> QED
  BY <1>1, Invariance, PTL

\* No graph is deleted twice or while another owner has it.
THEOREM QueueOwnership == Spec => []QueueOwnsItsGraphs
<1>1. IInv => QueueOwnsItsGraphs
  BY GraphsAssumption DEF IInv, TypeOK, Owned, QueueOwnsItsGraphs, Queue
<1> QED
  BY <1>1, Invariance, PTL

\* A graph is lost only when its retirement failed, and then only that one.
THEOREM LeakBound == Spec => []LeaksAreFailures
<1>1. IInv => LeaksAreFailures
  BY DEF IInv, Owned, Budget, LeaksAreFailures
<1> QED
  BY <1>1, Invariance, PTL

\* Plugin state is touched only when every reader is on the safety graph.
THEOREM Quiescence == Spec => []QuiescentReaders
<1>1. IInv => QuiescentReaders
  BY DEF IInv, Held, QuiescentReaders
<1> QED
  BY <1>1, Invariance, PTL

\* The destructor leaves no reader and no graph behind.
THEOREM DestructorIsClean == Spec => []CleanExit
<1>1. ASSUME IInv, ctl = "dead"
      PROVE  readers = 0 /\ allocated = leaked
  <2>1. readers = 0
    BY <1>1, AllIdle DEF IInv, Ending
  <2>2. {rtGraph, cand, unlinked, saved} \subseteq {None}
    BY <1>1 DEF IInv, Ending, Hands
  <2>3. Queue = {}
    BY <1>1 DEF IInv, Ending
  <2> QED
    BY <1>1, <2>1, <2>2, <2>3 DEF IInv, Owned
<1>2. IInv => CleanExit
  BY <1>1 DEF CleanExit
<1> QED
  BY <1>2, Invariance, PTL

(***************************************************************************)
(* Refinement                                                              *)
(***************************************************************************)

LEMMA StepRefines ==
  ASSUME IInv, [Next]_vars
  PROVE  [Abstract!Next]_(Abstract!vars)
<1> USE GraphsAssumption, ReadersAssumption, FailuresAssumption DEF IInv,
    TypeOK, Owned, Hands, Held, Counted, Queue, Abstract!Next, Abstract!vars,
    Abstract!Publish, Abstract!Acquire, Abstract!Release,
    Abstract!Free, memVars, queueVars, threadVars, driverVars, ctlVars
<1>1. ASSUME NEW g \in Graphs, BeginSwap(g)
      PROVE  [Abstract!Next]_(Abstract!vars)
  <2>1. Abstract!Allocate({g})
    BY <1>1 DEF BeginSwap, Begin, Build, Abstract!Allocate
  <2> QED
    BY <2>1
<1>2. ASSUME NEW g \in Graphs, BeginStart(g)
      PROVE  [Abstract!Next]_(Abstract!vars)
  <2>1. Abstract!Allocate({g})
    BY <1>2 DEF BeginStart, Begin, Build, Abstract!Allocate
  <2> QED
    BY <2>1
<1>3. ASSUME NEW g \in Graphs, BeginPrepare(g)
      PROVE  [Abstract!Next]_(Abstract!vars)
  <2>1. Abstract!Allocate({g}) \/ UNCHANGED Abstract!vars
    BY <1>3 DEF BeginPrepare, BeginSafety, Begin, Build, Abstract!Allocate
  <2> QED
    BY <2>1
<1>4. ASSUME NEW copy \in Graphs, NEW g \in Graphs, BeginQuiesce(copy, g)
      PROVE  [Abstract!Next]_(Abstract!vars)
  <2>1. Abstract!Allocate({copy, g}) \/ UNCHANGED Abstract!vars
    BY <1>4 DEF BeginQuiesce, Begin, Abstract!Allocate
  <2> QED
    BY <2>1
<1>5. CASE BeginAttach
  BY <1>5 DEF BeginAttach, Begin
<1>6. CASE BeginStop
  BY <1>6 DEF BeginStop, Begin
<1>7. CASE BeginRebuild
  BY <1>7 DEF BeginRebuild, Begin
<1>8. CASE BeginDestroy
  BY <1>8 DEF BeginDestroy, Begin
<1>9. CASE AbortCandidate
  BY <1>9 DEF AbortCandidate, AfterAbort
<1>10. CASE PublishCandidate
  BY <1>10 DEF PublishCandidate
<1>11. CASE RetireUnlinked
  BY <1>11 DEF RetireUnlinked, Retire, AfterRetire
<1>12. CASE RetireFails
  BY <1>12 DEF RetireFails, Fails, AfterFailedRetire, AfterRetire, AfterSwap
<1>13. CASE ReapCheck
  BY <1>13 DEF ReapCheck
<1>14. CASE ReapFails
  BY <1>14 DEF ReapFails, Fails
<1>15. ASSUME NEW g \in Graphs, SweepOne(g)
      PROVE  [Abstract!Next]_(Abstract!vars)
  BY <1>15 DEF SweepOne, MayDelete, Forced
<1>16. CASE SweepDone
  BY <1>16 DEF SweepDone, MayDelete, Forced, AfterSweep, AfterSwap
<1>17. CASE Drained
  BY <1>17 DEF Drained, AfterDrain
<1>18. CASE DrainTimesOut
  BY <1>18 DEF DrainTimesOut, AfterDrain
<1>19. CASE ActionDone
  BY <1>19 DEF ActionDone
<1>20. ASSUME NEW g \in Graphs, ActionPublishes(g)
      PROVE  [Abstract!Next]_(Abstract!vars)
  <2>1. Abstract!Allocate({g})
    BY <1>20 DEF ActionPublishes, Build, Abstract!Allocate
  <2> QED
    BY <2>1
<1>21. CASE RestoreSaved
  BY <1>21 DEF RestoreSaved
<1>22. CASE DiscardSaved
  BY <1>22 DEF DiscardSaved
<1>23. ASSUME NEW g \in Graphs, AttachBuild(g)
      PROVE  [Abstract!Next]_(Abstract!vars)
  <2>1. Abstract!Allocate({g}) \/ UNCHANGED Abstract!vars
    BY <1>23 DEF AttachBuild, Build, Abstract!Allocate
  <2> QED
    BY <2>1
<1>24. CASE AttachRetire
  BY <1>24 DEF AttachRetire, Retire
<1>25. CASE AttachRetireFails
  BY <1>25 DEF AttachRetireFails, Fails
<1>26. CASE AttachStore
  BY <1>26 DEF AttachStore
<1>27. CASE DeviceStarts
  BY <1>27 DEF DeviceStarts
<1>28. CASE ProbeSucceeds
  BY <1>28 DEF ProbeSucceeds
<1>29. CASE ProbeFails
  BY <1>29 DEF ProbeFails
<1>30. CASE UnlinkGraph
  BY <1>30 DEF UnlinkGraph
<1>31. CASE PublisherJoined
  BY <1>31 DEF PublisherJoined
<1>32. CASE DeviceClosed
  BY <1>32 DEF DeviceClosed, Ending
<1>33. ASSUME NEW r \in Readers, ReaderEnter(r)
      PROVE  [Abstract!Next]_(Abstract!vars)
  BY <1>33 DEF ReaderEnter, Runs
<1>34. ASSUME NEW r \in Readers, ReaderLoad(r)
      PROVE  [Abstract!Next]_(Abstract!vars)
  BY <1>34 DEF ReaderLoad, Runs
<1>35. ASSUME NEW r \in Readers, ReaderExit(r)
      PROVE  [Abstract!Next]_(Abstract!vars)
  BY <1>35 DEF ReaderExit, Runs
<1>36. ASSUME NEW g \in Graphs, GraceElapses(g)
      PROVE  [Abstract!Next]_(Abstract!vars)
  BY <1>36 DEF GraceElapses
<1>37. CASE UNCHANGED vars
  BY <1>37 DEF vars
<1> QED
  BY <1>1, <1>2, <1>3, <1>4, <1>5, <1>6, <1>7, <1>8, <1>9, <1>10, <1>11, <1>12,
      <1>13, <1>14, <1>15, <1>16, <1>17, <1>18, <1>19, <1>20, <1>21, <1>22,
      <1>23, <1>24, <1>25, <1>26, <1>27, <1>28, <1>29, <1>30, <1>31, <1>32,
      <1>33, <1>34, <1>35, <1>36, <1>37
  DEF Next, Request, Step, Reading, Ended

\* Every behaviour of the engine is one of SafeReclaim.
THEOREM Refinement == Spec => RefinesSafeReclaim
<1>1. Init => Abstract!Init
  BY DEF Init, Abstract!Init
<1>2. IInv /\ [Next]_vars => [Abstract!Next]_(Abstract!vars)
  BY StepRefines
<1> QED
  BY <1>1, <1>2, Invariance, PTL DEF Spec, Abstract!Spec, RefinesSafeReclaim
=============================================================================
