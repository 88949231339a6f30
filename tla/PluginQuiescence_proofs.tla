----------------------- MODULE PluginQuiescence_proofs -----------------------
(***************************************************************************)
(* Proofs about PluginQuiescence, for any set of plugins and shadows and   *)
(* any number of failures.  A first invariant, IInv, keeps callbacks out   *)
(* of an instance that is worked on; a second, Intact, on top of it, says  *)
(* what an operation can still put back and what callbacks run.            *)
(***************************************************************************)
EXTENDS PluginQuiescence, SequenceTheorems, TLAPS

\* No shadow serves two slots.
Injective(c) ==
  \A p, q \in Plugins :
    c.shadow[p] # None /\ c.shadow[p] = c.shadow[q] => p = q

-----------------------------------------------------------------------------
(***************************************************************************)
(* Sequences                                                               *)
(***************************************************************************)

LEMMA RemoveAtType ==
  ASSUME NEW S, NEW s \in Seq(S), NEW i \in DOMAIN s
  PROVE  RemoveAt(s, i) \in Seq(S)
<1>1. SubSeq(s, 1, i - 1) \in Seq(S) /\ SubSeq(s, i + 1, Len(s)) \in Seq(S)
  BY SubSeqProperties
<1> QED
  BY <1>1, ConcatProperties DEF RemoveAt

LEMMA RemoveAtLen ==
  ASSUME NEW S, NEW s \in Seq(S), NEW i \in DOMAIN s
  PROVE  Len(RemoveAt(s, i)) = Len(s) - 1
<1>1. /\ SubSeq(s, 1, i - 1) \in Seq(S)
      /\ Len(SubSeq(s, 1, i - 1)) = i - 1
  BY SubSeqProperties
<1>2. /\ SubSeq(s, i + 1, Len(s)) \in Seq(S)
      /\ Len(SubSeq(s, i + 1, Len(s))) = Len(s) - i
  BY SubSeqProperties
<1>3. Len(RemoveAt(s, i)) = (i - 1) + (Len(s) - i)
  BY <1>1, <1>2, ConcatProperties DEF RemoveAt
<1>4. Len(s) \in Nat /\ i \in 1 .. Len(s)
  OBVIOUS
<1> QED
  BY <1>3, <1>4

LEMMA InsertAtType ==
  ASSUME NEW S, NEW s \in Seq(S), NEW i \in 1 .. Len(s) + 1, NEW e \in S
  PROVE  InsertAt(s, i, e) \in Seq(S)
<1>1. SubSeq(s, 1, i - 1) \in Seq(S) /\ SubSeq(s, i, Len(s)) \in Seq(S)
  BY SubSeqProperties
<1>2. <<e>> \in Seq(S)
  OBVIOUS
<1> QED
  BY <1>1, <1>2, ConcatProperties DEF InsertAt

LEMMA FrontType ==
  ASSUME NEW S, NEW s \in Seq(S)
  PROVE  Front(s) \in Seq(S)
BY SubSeqProperties DEF Front

-----------------------------------------------------------------------------
(***************************************************************************)
(* Configurations                                                          *)
(***************************************************************************)

LEMMA UsesType ==
  ASSUME NEW c \in Configs
  PROVE  Uses(c) \in SUBSET Instances
BY DEF Uses, InChain, NeedShadow, Missing, Configs, Instances

\* A bypassed slot is called by nobody, neither its primary nor its shadow.
LEMMA BypassedIsUnused ==
  ASSUME NEW c \in Configs, NEW t \in c.bypass, Injective(c)
  PROVE  ({t} \cup ShadowOf(c, t)) \cap Uses(c) = {}
BY InstancesAssumption
DEF Uses, InChain, NeedShadow, Missing, Processes, ShadowOf, Injective, Configs

LEMMA ResetType ==
  ASSUME NEW c \in Configs, NEW p \in Plugins
  PROVE  /\ Reset(c, p) \in Configs
         /\ Reset(c, p).chain = c.chain
         /\ Injective(c) => Injective(Reset(c, p))
BY DEF Reset, Configs, Injective

LEMMA ErasedType ==
  ASSUME NEW c \in Configs, NEW i \in DOMAIN c.chain
  PROVE  /\ Erased(c, i) \in Configs
         /\ Injective(c) => Injective(Erased(c, i))
<1>1. c.chain \in Seq(Plugins) /\ c.chain[i] \in Plugins
  BY DEF Configs
<1>2. RemoveAt(c.chain, i) \in Seq(Plugins)
  BY <1>1, RemoveAtType
<1>3. /\ Reset(c, c.chain[i]) \in Configs
      /\ Reset(c, c.chain[i]).chain = c.chain
      /\ Injective(c) => Injective(Reset(c, c.chain[i]))
  BY <1>1, ResetType
<1>4. /\ Erased(c, i) \in Configs
      /\ Erased(c, i).shadow = Reset(c, c.chain[i]).shadow
  BY <1>2, <1>3 DEF Erased, Configs
<1> QED
  BY <1>3, <1>4 DEF Injective

LEMMA MovedType ==
  ASSUME master \in Configs, NEW from \in DOMAIN master.chain,
         NEW to \in DOMAIN master.chain
  PROVE  /\ Moved(from, to) \in Configs
         /\ Moved(from, to).shadow = master.shadow
<1>1. master.chain \in Seq(Plugins) /\ master.chain[from] \in Plugins
  BY DEF Configs
<1>2. RemoveAt(master.chain, from) \in Seq(Plugins)
  BY <1>1, RemoveAtType
<1>3. to \in 1 .. Len(RemoveAt(master.chain, from)) + 1
  BY <1>1, RemoveAtLen
<1>4. InsertAt(RemoveAt(master.chain, from), to, master.chain[from]) \in Seq(Plugins)
  BY <1>1, <1>2, <1>3, InsertAtType
<1> QED
  BY <1>4 DEF Moved, Configs

LEMMA BypassedType ==
  ASSUME master \in Configs, NEW p \in Plugins
  PROVE  /\ Bypassed(p) \in Configs
         /\ Bypassed(p).shadow = master.shadow
         /\ p \in Bypassed(p).bypass
BY DEF Bypassed, Configs

LEMMA RestoredType ==
  ASSUME master \in Configs, saved.config \in Configs
  PROVE  /\ Unbypassed \in Configs  /\ Unbypassed.shadow = master.shadow
         /\ Reactivated \in Configs /\ Reactivated.shadow = master.shadow
         /\ RolledBack \in Configs  /\ RolledBack.shadow = master.shadow
<1>1. Unbypassed \in Configs /\ Unbypassed.shadow = master.shadow
  BY DEF Unbypassed, Configs
<1>2. Reactivated \in Configs /\ Reactivated.shadow = master.shadow
  BY <1>1 DEF Reactivated, Configs
<1>3. RolledBack \in Configs /\ RolledBack.shadow = master.shadow
  BY DEF RolledBack, Configs
<1> QED
  BY <1>1, <1>2, <1>3

LEMMA UndoneType ==
  ASSUME master \in Configs, saved.config \in Configs, target \in Plugins
  PROVE  /\ Undone \in Configs
         /\ Injective(master) => Injective(Undone)
<1>1. CASE op = "add"
  <2>1. Front(master.chain) \in Seq(Plugins)
    BY FrontType DEF Configs
  <2>2. /\ Reset(master, target) \in Configs
        /\ Reset(master, target).chain = master.chain
        /\ Injective(master) => Injective(Reset(master, target))
    BY ResetType
  <2>3. /\ Undone \in Configs
        /\ Undone.shadow = Reset(master, target).shadow
    BY <1>1, <2>1, <2>2 DEF Undone, Configs
  <2> QED
    BY <2>2, <2>3 DEF Injective
<1>2. CASE op # "add"
  BY <1>2 DEF Undone, Configs, Injective
<1> QED
  BY <1>1, <1>2

LEMMA WithShadowsType ==
  ASSUME NEW c \in Configs, NEW f \in Inject(Missing(c)),
         \A p \in Plugins : c.shadow[p] \in Referenced
  PROVE  /\ WithShadows(c, f) \in Configs
         /\ Injective(c) => Injective(WithShadows(c, f))
<1>1. f \in [Missing(c) -> Shadows \ Referenced]
  BY DEF Inject
<1>2. /\ WithShadows(c, f) \in Configs
      /\ \A p \in Plugins : WithShadows(c, f).shadow[p] =
           IF p \in Missing(c) THEN f[p]
           ELSE IF p \in NeedShadow(c) THEN c.shadow[p] ELSE None
  BY <1>1 DEF WithShadows, Configs
<1>3. \A p, q \in Missing(c) : f[p] = f[q] => p = q
  BY DEF Inject
<1> QED
  BY <1>1, <1>2, <1>3 DEF Injective

\* What a new slot or a new flag does to the configuration.
LEMMA ChangedType ==
  ASSUME master \in Configs, NEW p \in Plugins
  PROVE  /\ [master EXCEPT !.bypass = Toggle(@, p)] \in Configs
         /\ [master EXCEPT !.mbypass = Toggle(@, p)] \in Configs
         /\ [master EXCEPT !.chain = Append(@, p)] \in Configs
         /\ [master EXCEPT !.suspended = @ \ {p}] \in Configs
         /\ [master EXCEPT !.degraded = @ \ {p}] \in Configs
         /\ [master EXCEPT !.suspended = @ \cup {p}] \in Configs
         /\ [master EXCEPT !.degraded = @ \cup {p}] \in Configs
<1>1. Append(master.chain, p) \in Seq(Plugins)
  BY DEF Configs
<1>2. [master EXCEPT !.chain = Append(@, p)] \in Configs
  BY <1>1 DEF Configs
<1>3. /\ [master EXCEPT !.bypass = Toggle(@, p)] \in Configs
      /\ [master EXCEPT !.mbypass = Toggle(@, p)] \in Configs
  BY DEF Toggle, Configs
<1>4. /\ [master EXCEPT !.suspended = @ \ {p}] \in Configs
      /\ [master EXCEPT !.degraded = @ \ {p}] \in Configs
      /\ [master EXCEPT !.suspended = @ \cup {p}] \in Configs
      /\ [master EXCEPT !.degraded = @ \cup {p}] \in Configs
  BY DEF Configs
<1> QED
  BY <1>2, <1>3, <1>4

LEMMA PastedType ==
  ASSUME master \in Configs, target \in Plugins, PasteInserts
  PROVE  master' \in Configs /\ master'.shadow = master.shadow
<1>1. PICK at \in 1 .. Len(master.chain) + 1, flags \in SUBSET {"bypass", "mbypass"} :
       master' = [master EXCEPT
                    !.chain   = InsertAt(@, at, target),
                    !.bypass  = @ \cup (IF "bypass" \in flags THEN {target} ELSE {}),
                    !.mbypass = @ \cup (IF "mbypass" \in flags THEN {target} ELSE {})]
  BY DEF PasteInserts
<1>2. InsertAt(master.chain, at, target) \in Seq(Plugins)
  BY InsertAtType DEF Configs
<1> QED
  BY <1>1, <1>2 DEF Configs

LEMMA MasterIsReferenced ==
  \A p \in Plugins : master.shadow[p] \in Referenced
BY DEF Referenced

-----------------------------------------------------------------------------
(***************************************************************************)
(* The inductive invariant: what the published graph and the block in      *)
(* flight cannot call at each place of the control thread.                 *)
(***************************************************************************)

Touched == {target} \cup ShadowOf(master, target)

Ownership == Injective(master) /\ Injective(saved.config)

Targeted ==
  ctl \notin {"idle", "initialize", "stopDrain", "terminate"} => target \in Plugins

Guard ==
  /\ ~inBlock => block = {}
  /\ ctl \in {"saveDrain", "saveIO", "loadDrain", "loadIO"} =>
       Touched \cap graph = {}
  /\ ctl \in {"saveIO", "loadIO"} => Touched \cap block = {}
  /\ ctl \in {"prepareDrain", "captureDrain", "captureIO", "pasteDrain",
              "pasteEnsure", "stopDrain", "terminate"} => graph = {}
  /\ ctl \in {"captureIO", "pasteEnsure", "terminate"} => block = {}
  /\ ctl = "ensure" /\ running =>
       \/ Missing(master) = {}
       \/ graph = {} /\ block = {}

IInv == TypeOK /\ Targeted /\ Ownership /\ Guard

MasterOK == master \in Configs /\ Injective(master)

LEMMA MasterStep ==
  ASSUME IInv, [Next]_vars
  PROVE  MasterOK'
<1> USE DEF IInv, TypeOK, Targeted, Ownership, Injective, MasterOK
<1>1. ASSUME NEW p \in Plugins, NEW o \in {"save", "load"}, BeginPreset(o, p)
      PROVE  MasterOK'
  <2>1. master' \in {Bypassed(p), master}
    BY <1>1 DEF BeginPreset
  <2> QED
    BY <2>1, BypassedType
<1>2. ASSUME NEW p \in Plugins, BeginBypass(p)
      PROVE  MasterOK'
  <2>1. \/ master' = [master EXCEPT !.bypass = Toggle(@, p)]
        \/ master' = [master EXCEPT !.mbypass = Toggle(@, p)]
    BY <1>2 DEF BeginBypass, BeginPrepared
  <2>2. /\ [master EXCEPT !.bypass = Toggle(@, p)].shadow = master.shadow
        /\ [master EXCEPT !.mbypass = Toggle(@, p)].shadow = master.shadow
    BY DEF Configs
  <2> QED
    BY <2>1, <2>2, ChangedType
<1>3. ASSUME NEW p \in Plugins, BeginAdd(p)
      PROVE  MasterOK'
  BY <1>3, ChangedType DEF BeginAdd, BeginPrepared, Configs
<1>4. ASSUME NEW p \in Plugins, BeginLatency(p)
      PROVE  MasterOK'
  BY <1>4, ChangedType DEF BeginLatency, BeginPrepared, Configs
<1>5. ASSUME NEW p \in Plugins, BeginShadowLatency(p)
      PROVE  MasterOK'
  BY <1>5, ChangedType DEF BeginShadowLatency, BeginPrepared, Configs
<1>6. ASSUME NEW p \in Plugins, BeginCapture(p)
      PROVE  MasterOK'
  BY <1>6 DEF BeginCapture
<1>7. ASSUME NEW p \in Plugins, BeginPaste(p)
      PROVE  MasterOK'
  BY <1>7 DEF BeginPaste
<1>8. ASSUME NEW i \in DOMAIN master.chain, BeginRemove(i)
      PROVE  MasterOK'
  BY <1>8, ErasedType DEF BeginRemove
<1>9. ASSUME NEW from \in DOMAIN master.chain, NEW to \in DOMAIN master.chain,
             MovePlugin(from, to)
      PROVE  MasterOK'
  BY <1>9, MovedType DEF MovePlugin
<1>10. CASE BeginStop
  BY <1>10 DEF BeginStop
<1>11. CASE BeginStart
  BY <1>11 DEF BeginStart
<1>12. CASE Drained
  BY <1>12 DEF Drained
<1>13. CASE PresetGivesUp
  BY <1>13, RestoredType DEF PresetGivesUp
<1>14. CASE SaveDone
  BY <1>14, RestoredType DEF SaveDone
<1>15. CASE LoadAccepted
  BY <1>15, RestoredType DEF LoadAccepted
<1>16. CASE LoadRejected
  BY <1>16, RestoredType DEF LoadRejected
<1>17. CASE LoadRolledBack
  BY <1>17, RestoredType DEF LoadRolledBack
<1>18. CASE PrepareTimesOut
  BY <1>18 DEF PrepareTimesOut
<1>19. CASE EnsureDone
  BY <1>19, WithShadowsType, MasterIsReferenced DEF EnsureDone
<1>20. CASE EnsureFails
  BY <1>20 DEF EnsureFails
<1>21. CASE Commit
  BY <1>21 DEF Commit
<1>22. CASE CommitRefused
  <2>1. target \in Plugins
    BY <1>22 DEF CommitRefused
  <2>2. \/ master' \in {master, Undone}
        \/ master' = [master EXCEPT !.suspended = @ \cup {target}]
        \/ master' = [master EXCEPT !.degraded = @ \cup {target}]
    BY <1>22 DEF CommitRefused
  <2>3. /\ [master EXCEPT !.suspended = @ \cup {target}].shadow = master.shadow
        /\ [master EXCEPT !.degraded = @ \cup {target}].shadow = master.shadow
    BY DEF Configs
  <2> QED
    BY <2>1, <2>2, <2>3, UndoneType, ChangedType
<1>23. CASE PrepareFailed
  <2>1. target \in Plugins
    BY <1>23 DEF PrepareFailed
  <2>2. \/ master' \in {master, Undone}
        \/ master' = [master EXCEPT !.suspended = @ \cup {target}]
        \/ master' = [master EXCEPT !.degraded = @ \cup {target}]
    BY <1>23 DEF PrepareFailed
  <2>3. /\ [master EXCEPT !.suspended = @ \cup {target}].shadow = master.shadow
        /\ [master EXCEPT !.degraded = @ \cup {target}].shadow = master.shadow
    BY DEF Configs
  <2> QED
    BY <2>1, <2>2, <2>3, UndoneType, ChangedType
<1>24. CASE SuspendRefused
  BY <1>24, RestoredType DEF SuspendRefused
<1>25. CASE RawEnsure
  BY <1>25, WithShadowsType, MasterIsReferenced DEF RawEnsure
<1>26. CASE PasteInserts
  BY <1>26, PastedType DEF PasteInserts
<1>27. CASE PasteDone
  BY <1>27, WithShadowsType, MasterIsReferenced DEF PasteDone
<1>28. CASE QuiescentRestore
  BY <1>28 DEF QuiescentRestore
<1>29. CASE StopTimesOut
  BY <1>29 DEF StopTimesOut
<1>30. CASE Terminated
  BY <1>30 DEF Terminated
<1>31. CASE StartDone
  BY <1>31 DEF StartDone
<1>32. CASE StartFails
  BY <1>32 DEF StartFails
<1>33. CASE BlockBegins
  BY <1>33 DEF BlockBegins
<1>34. CASE BlockEnds
  BY <1>34 DEF BlockEnds
<1>35. CASE UNCHANGED vars
  BY <1>35 DEF vars
<1> QED
  BY <1>1, <1>2, <1>3, <1>4, <1>5, <1>6, <1>7, <1>8, <1>9, <1>10, <1>11, <1>12, <1>13,
     <1>14, <1>15, <1>16, <1>17, <1>18, <1>19, <1>20, <1>21, <1>22, <1>23, <1>24, <1>25,
     <1>26, <1>27, <1>28, <1>29, <1>30, <1>31, <1>32, <1>33, <1>34, <1>35
  DEF Next, Request, Step

LEMMA SaveType ==
  /\ NoSave \in [config : Configs, graph : SUBSET Instances]
  /\ Injective(NoSave.config)
  /\ TypeOK => Keep \in [config : Configs, graph : SUBSET Instances]
<1>1. EmptyConfig \in Configs /\ Injective(EmptyConfig)
  BY DEF EmptyConfig, Configs, Injective
<1>2. NoSave.config = EmptyConfig
  BY DEF NoSave
<1> QED
  BY <1>1, <1>2 DEF NoSave, Keep, TypeOK

LEMMA SavedStep ==
  ASSUME IInv, [Next]_vars
  PROVE  saved' \in {saved, NoSave, Keep}
<1> USE DEF rtVars, opVars, ctlVars
<1>1. ASSUME NEW p \in Plugins, NEW o \in {"save", "load"}, BeginPreset(o, p)
      PROVE  saved' \in {saved, NoSave, Keep}
  BY <1>1 DEF BeginPreset, Enter, Goto, Finish
<1>2. ASSUME NEW p \in Plugins, BeginBypass(p)
      PROVE  saved' \in {saved, NoSave, Keep}
  BY <1>2 DEF BeginBypass, BeginPrepared, Prepare, Enter, Goto, Finish
<1>3. ASSUME NEW p \in Plugins, BeginAdd(p)
      PROVE  saved' \in {saved, NoSave, Keep}
  BY <1>3 DEF BeginAdd, BeginPrepared, Prepare, Enter, Goto, Finish
<1>4. ASSUME NEW p \in Plugins, BeginLatency(p)
      PROVE  saved' \in {saved, NoSave, Keep}
  BY <1>4 DEF BeginLatency, BeginPrepared, Prepare, Enter, Goto, Finish
<1>5. ASSUME NEW p \in Plugins, BeginShadowLatency(p)
      PROVE  saved' \in {saved, NoSave, Keep}
  BY <1>5 DEF BeginShadowLatency, BeginPrepared, Prepare, Enter, Goto, Finish
<1>6. ASSUME NEW p \in Plugins, BeginCapture(p)
      PROVE  saved' \in {saved, NoSave, Keep}
  BY <1>6 DEF BeginCapture, Enter, Goto, Finish
<1>7. ASSUME NEW p \in Plugins, BeginPaste(p)
      PROVE  saved' \in {saved, NoSave, Keep}
  BY <1>7 DEF BeginPaste, Enter, Goto, Finish
<1>8. ASSUME NEW i \in DOMAIN master.chain, BeginRemove(i)
      PROVE  saved' \in {saved, NoSave, Keep}
  BY <1>8 DEF BeginRemove, Enter, Goto, Finish
<1>9. ASSUME NEW from \in DOMAIN master.chain, NEW to \in DOMAIN master.chain,
             MovePlugin(from, to)
      PROVE  saved' \in {saved, NoSave, Keep}
  BY <1>9 DEF MovePlugin, Enter, Goto, Finish
<1>10. CASE BeginStop
  BY <1>10 DEF BeginStop, Enter, Goto, Finish
<1>11. CASE BeginStart
  BY <1>11 DEF BeginStart, Enter, Goto, Finish
<1>12. CASE Drained
  BY <1>12 DEF Drained, AfterDrain, Enter, Goto, Finish
<1>13. CASE PresetGivesUp
  BY <1>13 DEF PresetGivesUp, Enter, Goto, Finish
<1>14. CASE SaveDone
  BY <1>14 DEF SaveDone, Enter, Goto, Finish
<1>15. CASE LoadAccepted
  BY <1>15 DEF LoadAccepted, Enter, Goto, Finish
<1>16. CASE LoadRejected
  BY <1>16 DEF LoadRejected, Enter, Goto, Finish
<1>17. CASE LoadRolledBack
  BY <1>17 DEF LoadRolledBack, Enter, Goto, Finish
<1>18. CASE PrepareTimesOut
  BY <1>18 DEF PrepareTimesOut, Enter, Goto, Finish
<1>19. CASE EnsureDone
  BY <1>19 DEF EnsureDone, Enter, Goto, Finish
<1>20. CASE EnsureFails
  BY <1>20 DEF EnsureFails, Enter, Goto, Finish
<1>21. CASE Commit
  BY <1>21 DEF Commit, Enter, Goto, Finish
<1>22. CASE CommitRefused
  BY <1>22 DEF CommitRefused, Enter, Goto, Finish
<1>23. CASE PrepareFailed
  BY <1>23 DEF PrepareFailed, Enter, Goto, Finish
<1>24. CASE SuspendRefused
  BY <1>24 DEF SuspendRefused, Enter, Goto, Finish
<1>25. CASE RawEnsure
  BY <1>25 DEF RawEnsure, Enter, Goto, Finish
<1>26. CASE PasteInserts
  BY <1>26 DEF PasteInserts, Enter, Goto, Finish
<1>27. CASE PasteDone
  BY <1>27 DEF PasteDone, Enter, Goto, Finish
<1>28. CASE QuiescentRestore
  BY <1>28 DEF QuiescentRestore, Enter, Goto, Finish
<1>29. CASE StopTimesOut
  BY <1>29 DEF StopTimesOut, Enter, Goto, Finish
<1>30. CASE Terminated
  BY <1>30 DEF Terminated, Enter, Goto, Finish
<1>31. CASE StartDone
  BY <1>31 DEF StartDone, Enter, Goto, Finish
<1>32. CASE StartFails
  BY <1>32 DEF StartFails, Enter, Goto, Finish
<1>33. CASE BlockBegins
  BY <1>33 DEF BlockBegins
<1>34. CASE BlockEnds
  BY <1>34 DEF BlockEnds
<1>35. CASE UNCHANGED vars
  BY <1>35 DEF vars
<1> QED
  BY <1>1, <1>2, <1>3, <1>4, <1>5, <1>6, <1>7, <1>8, <1>9, <1>10, <1>11, <1>12, <1>13,
     <1>14, <1>15, <1>16, <1>17, <1>18, <1>19, <1>20, <1>21, <1>22, <1>23, <1>24, <1>25,
     <1>26, <1>27, <1>28, <1>29, <1>30, <1>31, <1>32, <1>33, <1>34, <1>35
  DEF Next, Request, Step

ControlOK ==
  /\ ctl \in Places
  /\ op \in Ops
  /\ target \in Plugins \cup {None}
  /\ outcome \in {"none", "ok", "failed"}
  /\ Targeted

LEMMA ControlStep ==
  ASSUME IInv, [Next]_vars
  PROVE  ControlOK'
<1> USE DEF IInv, TypeOK, Targeted, ControlOK, Ops, Places, rtVars, opVars, ctlVars
<1>1. ASSUME NEW p \in Plugins, NEW o \in {"save", "load"}, BeginPreset(o, p)
      PROVE  ControlOK'
  BY <1>1 DEF BeginPreset, Idle, Enter, Goto, Finish
<1>2. ASSUME NEW p \in Plugins, BeginBypass(p)
      PROVE  ControlOK'
  BY <1>2 DEF BeginBypass, BeginPrepared, Prepare, Idle, Enter, Goto, Finish
<1>3. ASSUME NEW p \in Plugins, BeginAdd(p)
      PROVE  ControlOK'
  BY <1>3 DEF BeginAdd, BeginPrepared, Prepare, Idle, Enter, Goto, Finish
<1>4. ASSUME NEW p \in Plugins, BeginLatency(p)
      PROVE  ControlOK'
  BY <1>4 DEF BeginLatency, BeginPrepared, Prepare, Idle, Enter, Goto, Finish
<1>5. ASSUME NEW p \in Plugins, BeginShadowLatency(p)
      PROVE  ControlOK'
  BY <1>5 DEF BeginShadowLatency, BeginPrepared, Prepare, Idle, Enter, Goto, Finish
<1>6. ASSUME NEW p \in Plugins, BeginCapture(p)
      PROVE  ControlOK'
  BY <1>6 DEF BeginCapture, Idle, Enter, Goto, Finish
<1>7. ASSUME NEW p \in Plugins, BeginPaste(p)
      PROVE  ControlOK'
  BY <1>7 DEF BeginPaste, Idle, Enter, Goto, Finish
<1>8. ASSUME NEW i \in DOMAIN master.chain, BeginRemove(i)
      PROVE  ControlOK'
  <2>1. master.chain[i] \in Plugins
    BY DEF Configs
  <2> QED
    BY <1>8, <2>1 DEF BeginRemove, Idle, Enter, Goto, Finish
<1>9. ASSUME NEW from \in DOMAIN master.chain, NEW to \in DOMAIN master.chain,
             MovePlugin(from, to)
      PROVE  ControlOK'
  BY <1>9 DEF MovePlugin, Idle, Enter, Goto, Finish
<1>10. CASE BeginStop
  BY <1>10 DEF BeginStop, Idle, Enter, Goto, Finish
<1>11. CASE BeginStart
  BY <1>11 DEF BeginStart, Idle, Enter, Goto, Finish
<1>12. CASE Drained
  BY <1>12 DEF Drained, AfterDrain, Idle, Enter, Goto, Finish
<1>13. CASE PresetGivesUp
  BY <1>13 DEF PresetGivesUp, Idle, Enter, Goto, Finish
<1>14. CASE SaveDone
  BY <1>14 DEF SaveDone, Idle, Enter, Goto, Finish
<1>15. CASE LoadAccepted
  BY <1>15 DEF LoadAccepted, Idle, Enter, Goto, Finish
<1>16. CASE LoadRejected
  BY <1>16 DEF LoadRejected, Idle, Enter, Goto, Finish
<1>17. CASE LoadRolledBack
  BY <1>17 DEF LoadRolledBack, Idle, Enter, Goto, Finish
<1>18. CASE PrepareTimesOut
  BY <1>18 DEF PrepareTimesOut, Idle, Enter, Goto, Finish
<1>19. CASE EnsureDone
  BY <1>19 DEF EnsureDone, Idle, Enter, Goto, Finish
<1>20. CASE EnsureFails
  BY <1>20 DEF EnsureFails, Idle, Enter, Goto, Finish
<1>21. CASE Commit
  BY <1>21 DEF Commit, Idle, Enter, Goto, Finish
<1>22. CASE CommitRefused
  BY <1>22 DEF CommitRefused, Idle, Enter, Goto, Finish
<1>23. CASE PrepareFailed
  BY <1>23 DEF PrepareFailed, Idle, Enter, Goto, Finish
<1>24. CASE SuspendRefused
  BY <1>24 DEF SuspendRefused, Idle, Enter, Goto, Finish
<1>25. CASE RawEnsure
  BY <1>25 DEF RawEnsure, Idle, Enter, Goto, Finish
<1>26. CASE PasteInserts
  BY <1>26 DEF PasteInserts, Idle, Enter, Goto, Finish
<1>27. CASE PasteDone
  BY <1>27 DEF PasteDone, Idle, Enter, Goto, Finish
<1>28. CASE QuiescentRestore
  BY <1>28 DEF QuiescentRestore, Idle, Enter, Goto, Finish
<1>29. CASE StopTimesOut
  BY <1>29 DEF StopTimesOut, Idle, Enter, Goto, Finish
<1>30. CASE Terminated
  BY <1>30 DEF Terminated, Idle, Enter, Goto, Finish
<1>31. CASE StartDone
  BY <1>31 DEF StartDone, Idle, Enter, Goto, Finish
<1>32. CASE StartFails
  BY <1>32 DEF StartFails, Idle, Enter, Goto, Finish
<1>33. CASE BlockBegins
  BY <1>33 DEF BlockBegins
<1>34. CASE BlockEnds
  BY <1>34 DEF BlockEnds
<1>35. CASE UNCHANGED vars
  BY <1>35 DEF vars
<1> QED
  BY <1>1, <1>2, <1>3, <1>4, <1>5, <1>6, <1>7, <1>8, <1>9, <1>10, <1>11, <1>12, <1>13,
     <1>14, <1>15, <1>16, <1>17, <1>18, <1>19, <1>20, <1>21, <1>22, <1>23, <1>24, <1>25,
     <1>26, <1>27, <1>28, <1>29, <1>30, <1>31, <1>32, <1>33, <1>34, <1>35
  DEF Next, Request, Step

EngineOK ==
  /\ graph \in SUBSET Instances
  /\ refused \in BOOLEAN
  /\ running \in BOOLEAN
  /\ inBlock \in BOOLEAN
  /\ block \in SUBSET Instances
  /\ stale \in SUBSET Shadows
  /\ failures \in 0 .. MaxFailures

LEMMA EngineStep ==
  ASSUME IInv, MasterOK', [Next]_vars
  PROVE  EngineOK'
<1> USE FailuresAssumption DEF IInv, TypeOK, Targeted, EngineOK, rtVars, opVars, ctlVars
<1>0. Uses(master') \in SUBSET Instances
  BY UsesType DEF MasterOK
<1>1. ASSUME NEW p \in Plugins, NEW o \in {"save", "load"}, BeginPreset(o, p)
      PROVE  EngineOK'
  <2>1. graph' \in SUBSET Instances
    BY <1>1, <1>0 DEF BeginPreset, Fails, Swap, SwapRefused, SwapUnchecked
  <2>2. refused' \in BOOLEAN
    BY ONLY <1>1, refused \in BOOLEAN DEF BeginPreset, Fails, Swap, SwapRefused, SwapUnchecked
  <2>3. failures' \in 0 .. MaxFailures
    BY <1>1 DEF BeginPreset, Fails, Swap, SwapRefused, SwapUnchecked
  <2> QED
    BY <1>1, <2>1, <2>2, <2>3 DEF BeginPreset
<1>2. ASSUME NEW p \in Plugins, BeginBypass(p)
      PROVE  EngineOK'
  BY <1>2, <1>0 DEF BeginBypass, BeginPrepared, Prepare, Fails, Swap, SwapRefused, SwapUnchecked
<1>3. ASSUME NEW p \in Plugins, BeginAdd(p)
      PROVE  EngineOK'
  BY <1>3, <1>0 DEF BeginAdd, BeginPrepared, Prepare, Fails, Swap, SwapRefused, SwapUnchecked
<1>4. ASSUME NEW p \in Plugins, BeginLatency(p)
      PROVE  EngineOK'
  BY <1>4, <1>0 DEF BeginLatency, BeginPrepared, Prepare, Fails, Swap, SwapRefused, SwapUnchecked
<1>5. ASSUME NEW p \in Plugins, BeginShadowLatency(p)
      PROVE  EngineOK'
  BY <1>5, <1>0 DEF BeginShadowLatency, BeginPrepared, Prepare, Fails, Swap, SwapRefused, SwapUnchecked
<1>6. ASSUME NEW p \in Plugins, BeginCapture(p)
      PROVE  EngineOK'
  BY <1>6, <1>0 DEF BeginCapture, Fails, Swap, SwapRefused, SwapUnchecked
<1>7. ASSUME NEW p \in Plugins, BeginPaste(p)
      PROVE  EngineOK'
  BY <1>7, <1>0 DEF BeginPaste, Fails, Swap, SwapRefused, SwapUnchecked
<1>8. ASSUME NEW i \in DOMAIN master.chain, BeginRemove(i)
      PROVE  EngineOK'
  BY <1>8, <1>0 DEF BeginRemove, Fails, Swap, SwapRefused, SwapUnchecked
<1>9. ASSUME NEW from \in DOMAIN master.chain, NEW to \in DOMAIN master.chain,
             MovePlugin(from, to)
      PROVE  EngineOK'
  <2>1. graph' \in SUBSET Instances
    BY <1>9, <1>0 DEF MovePlugin, Fails, Swap, SwapRefused, SwapUnchecked
  <2>2. refused' \in BOOLEAN
    BY ONLY <1>9, refused \in BOOLEAN DEF MovePlugin, Fails, Swap, SwapRefused, SwapUnchecked
  <2>3. failures' \in 0 .. MaxFailures
    BY <1>9 DEF MovePlugin, Fails, Swap, SwapRefused, SwapUnchecked
  <2> QED
    BY <1>9, <2>1, <2>2, <2>3 DEF MovePlugin
<1>10. CASE BeginStop
  BY <1>10, <1>0 DEF BeginStop, Fails, Swap, SwapRefused, SwapUnchecked
<1>11. CASE BeginStart
  BY <1>11, <1>0 DEF BeginStart, Fails, Swap, SwapRefused, SwapUnchecked
<1>12. CASE Drained
  BY <1>12, <1>0 DEF Drained, AfterDrain, Fails, Swap, SwapRefused, SwapUnchecked
<1>13. CASE PresetGivesUp
  <2>1. graph' \in SUBSET Instances
    BY <1>13, <1>0 DEF PresetGivesUp, Fails, Swap, SwapRefused, SwapUnchecked
  <2>2. refused' \in BOOLEAN
    BY ONLY <1>13, refused \in BOOLEAN DEF PresetGivesUp, Fails, Swap, SwapRefused, SwapUnchecked
  <2>3. failures' \in 0 .. MaxFailures
    BY <1>13 DEF PresetGivesUp, Fails, Swap, SwapRefused, SwapUnchecked
  <2> QED
    BY <1>13, <2>1, <2>2, <2>3 DEF PresetGivesUp
<1>14. CASE SaveDone
  <2>1. graph' \in SUBSET Instances
    BY <1>14, <1>0 DEF SaveDone, Fails, Swap, SwapRefused, SwapUnchecked
  <2>2. refused' \in BOOLEAN
    BY ONLY <1>14, refused \in BOOLEAN DEF SaveDone, Fails, Swap, SwapRefused, SwapUnchecked
  <2>3. failures' \in 0 .. MaxFailures
    BY <1>14 DEF SaveDone, Fails, Swap, SwapRefused, SwapUnchecked
  <2> QED
    BY <1>14, <2>1, <2>2, <2>3 DEF SaveDone
<1>15. CASE LoadAccepted
  BY <1>15, <1>0 DEF LoadAccepted, Fails, Swap, SwapRefused, SwapUnchecked
<1>16. CASE LoadRejected
  BY <1>16, <1>0 DEF LoadRejected, Fails, Swap, SwapRefused, SwapUnchecked
<1>17. CASE LoadRolledBack
  <2>1. ShadowOf(master, target) \subseteq Shadows
    BY <1>17 DEF LoadRolledBack, ShadowOf, Configs
  <2>2. graph' \in SUBSET Instances
    BY <1>17, <1>0 DEF LoadRolledBack, Fails, Swap, SwapRefused, SwapUnchecked
  <2>3. refused' \in BOOLEAN
    BY ONLY <1>17, refused \in BOOLEAN DEF LoadRolledBack, Fails, Swap, SwapRefused, SwapUnchecked
  <2>4. failures' \in 0 .. MaxFailures
    BY <1>17 DEF LoadRolledBack, Fails, Swap, SwapRefused, SwapUnchecked
  <2> QED
    BY <1>17, <2>1, <2>2, <2>3, <2>4 DEF LoadRolledBack
<1>18. CASE PrepareTimesOut
  BY <1>18, <1>0 DEF PrepareTimesOut, Fails, Swap, SwapRefused, SwapUnchecked
<1>19. CASE EnsureDone
  BY <1>19, <1>0 DEF EnsureDone, Fails, Swap, SwapRefused, SwapUnchecked
<1>20. CASE EnsureFails
  <2>1. graph' \in SUBSET Instances
    BY <1>20, <1>0 DEF EnsureFails, Fails, Swap, SwapRefused, SwapUnchecked
  <2>2. refused' \in BOOLEAN
    BY ONLY <1>20, refused \in BOOLEAN DEF EnsureFails, Fails, Swap, SwapRefused, SwapUnchecked
  <2>3. failures' \in 0 .. MaxFailures
    BY <1>20 DEF EnsureFails, Fails, Swap, SwapRefused, SwapUnchecked
  <2> QED
    BY <1>20, <2>1, <2>2, <2>3 DEF EnsureFails
<1>21. CASE Commit
  <2>1. graph' \in SUBSET Instances
    BY <1>21, <1>0 DEF Commit, Fails, Swap, SwapRefused, SwapUnchecked
  <2>2. refused' \in BOOLEAN
    BY ONLY <1>21, refused \in BOOLEAN DEF Commit, Fails, Swap, SwapRefused, SwapUnchecked
  <2>3. failures' \in 0 .. MaxFailures
    BY <1>21 DEF Commit, Fails, Swap, SwapRefused, SwapUnchecked
  <2> QED
    BY <1>21, <2>1, <2>2, <2>3 DEF Commit
<1>22. CASE CommitRefused
  <2>1. graph' \in SUBSET Instances
    BY <1>22, <1>0 DEF CommitRefused, Fails, Swap, SwapRefused, SwapUnchecked
  <2>2. refused' \in BOOLEAN
    BY ONLY <1>22, refused \in BOOLEAN DEF CommitRefused, Fails, Swap, SwapRefused, SwapUnchecked
  <2>3. failures' \in 0 .. MaxFailures
    BY <1>22 DEF CommitRefused, Fails, Swap, SwapRefused, SwapUnchecked
  <2> QED
    BY <1>22, <2>1, <2>2, <2>3 DEF CommitRefused
<1>23. CASE PrepareFailed
  <2>1. graph' \in SUBSET Instances
    BY <1>23, <1>0 DEF PrepareFailed, Fails, Swap, SwapRefused, SwapUnchecked
  <2>2. refused' \in BOOLEAN
    BY ONLY <1>23, refused \in BOOLEAN DEF PrepareFailed, Fails, Swap, SwapRefused, SwapUnchecked
  <2>3. failures' \in 0 .. MaxFailures
    BY <1>23 DEF PrepareFailed, Fails, Swap, SwapRefused, SwapUnchecked
  <2> QED
    BY <1>23, <2>1, <2>2, <2>3 DEF PrepareFailed
<1>24. CASE SuspendRefused
  <2>1. graph' \in SUBSET Instances
    BY <1>24, <1>0 DEF SuspendRefused, Fails, Swap, SwapRefused, SwapUnchecked
  <2>2. refused' \in BOOLEAN
    BY ONLY <1>24, refused \in BOOLEAN DEF SuspendRefused, Fails, Swap, SwapRefused, SwapUnchecked
  <2>3. failures' \in 0 .. MaxFailures
    BY <1>24 DEF SuspendRefused, Fails, Swap, SwapRefused, SwapUnchecked
  <2> QED
    BY <1>24, <2>1, <2>2, <2>3 DEF SuspendRefused
<1>25. CASE RawEnsure
  <2>1. graph' \in SUBSET Instances
    BY <1>25, <1>0 DEF RawEnsure, Fails, Swap, SwapRefused, SwapUnchecked
  <2>2. refused' \in BOOLEAN
    BY ONLY <1>25, refused \in BOOLEAN DEF RawEnsure, Fails, Swap, SwapRefused, SwapUnchecked
  <2>3. failures' \in 0 .. MaxFailures
    BY <1>25 DEF RawEnsure, Fails, Swap, SwapRefused, SwapUnchecked
  <2> QED
    BY <1>25, <2>1, <2>2, <2>3 DEF RawEnsure
<1>26. CASE PasteInserts
  BY <1>26, <1>0 DEF PasteInserts, Fails, Swap, SwapRefused, SwapUnchecked
<1>27. CASE PasteDone
  <2>1. graph' \in SUBSET Instances
    BY <1>27, <1>0 DEF PasteDone, Fails, Swap, SwapRefused, SwapUnchecked
  <2>2. refused' \in BOOLEAN
    BY ONLY <1>27, refused \in BOOLEAN DEF PasteDone, Fails, Swap, SwapRefused, SwapUnchecked
  <2>3. failures' \in 0 .. MaxFailures
    BY <1>27 DEF PasteDone, Fails, Swap, SwapRefused, SwapUnchecked
  <2> QED
    BY <1>27, <2>1, <2>2, <2>3 DEF PasteDone
<1>28. CASE QuiescentRestore
  <2>1. graph' \in SUBSET Instances
    BY <1>28, <1>0 DEF QuiescentRestore, Fails, Swap, SwapRefused, SwapUnchecked
  <2>2. refused' \in BOOLEAN
    BY ONLY <1>28, refused \in BOOLEAN DEF QuiescentRestore, Fails, Swap, SwapRefused, SwapUnchecked
  <2>3. failures' \in 0 .. MaxFailures
    BY <1>28 DEF QuiescentRestore, Fails, Swap, SwapRefused, SwapUnchecked
  <2> QED
    BY <1>28, <2>1, <2>2, <2>3 DEF QuiescentRestore
<1>29. CASE StopTimesOut
  BY <1>29, <1>0 DEF StopTimesOut, Fails, Swap, SwapRefused, SwapUnchecked
<1>30. CASE Terminated
  BY <1>30, <1>0 DEF Terminated, Fails, Swap, SwapRefused, SwapUnchecked
<1>31. CASE StartDone
  <2>1. graph' \in SUBSET Instances
    BY <1>31, <1>0 DEF StartDone, Fails, Swap, SwapRefused, SwapUnchecked
  <2>2. refused' \in BOOLEAN
    BY ONLY <1>31, refused \in BOOLEAN DEF StartDone, Fails, Swap, SwapRefused, SwapUnchecked
  <2>3. failures' \in 0 .. MaxFailures
    BY <1>31 DEF StartDone, Fails, Swap, SwapRefused, SwapUnchecked
  <2> QED
    BY <1>31, <2>1, <2>2, <2>3 DEF StartDone
<1>32. CASE StartFails
  BY <1>32, <1>0 DEF StartFails, Fails, Swap, SwapRefused, SwapUnchecked
<1>33. CASE BlockBegins
  BY <1>33, <1>0 DEF BlockBegins
<1>34. CASE BlockEnds
  BY <1>34, <1>0 DEF BlockEnds
<1>35. CASE UNCHANGED vars
  BY <1>35 DEF vars
<1> QED
  BY <1>1, <1>2, <1>3, <1>4, <1>5, <1>6, <1>7, <1>8, <1>9, <1>10, <1>11, <1>12, <1>13,
     <1>14, <1>15, <1>16, <1>17, <1>18, <1>19, <1>20, <1>21, <1>22, <1>23, <1>24, <1>25,
     <1>26, <1>27, <1>28, <1>29, <1>30, <1>31, <1>32, <1>33, <1>34, <1>35
  DEF Next, Request, Step

LEMMA StateStep ==
  ASSUME IInv, [Next]_vars
  PROVE  (TypeOK /\ Targeted /\ Ownership)'
<1>1. MasterOK'
  BY MasterStep
<1>2. saved' \in [config : Configs, graph : SUBSET Instances] /\ Injective(saved.config)'
  BY SavedStep, SaveType DEF IInv, TypeOK, Ownership, Keep
<1>3. ControlOK'
  BY ControlStep
<1>4. EngineOK'
  BY <1>1, EngineStep
<1> QED
  BY <1>1, <1>2, <1>3, <1>4
  DEF TypeOK, Ownership, MasterOK, ControlOK, EngineOK

LEMMA GuardStep ==
  ASSUME IInv, [Next]_vars
  PROVE  Guard'
<1> USE DEF IInv, TypeOK, Targeted, Ownership, Guard, Touched, rtVars, opVars, ctlVars
<1>1. ASSUME NEW p \in Plugins, NEW o \in {"save", "load"}, BeginPreset(o, p)
      PROVE  Guard'
  <2>1. CASE Swap(Bypassed(p)) /\ master' = Bypassed(p) /\ target' = p
    <3>1. /\ Bypassed(p) \in Configs
          /\ p \in Bypassed(p).bypass
          /\ Injective(Bypassed(p))
      BY BypassedType DEF Injective
    <3>2. ({p} \cup ShadowOf(Bypassed(p), p)) \cap Uses(Bypassed(p)) = {}
      BY <3>1, BypassedIsUnused
    <3>3. Touched' \cap graph' = {}
      BY <2>1, <3>2 DEF Swap
    <3>4. ctl' \in {"saveDrain", "loadDrain", "idle"}
      BY <1>1 DEF BeginPreset, Enter, Finish
    <3> QED
      BY <1>1, <3>3, <3>4 DEF BeginPreset
  <2>2. CASE ctl' = "idle"
    BY <1>1, <2>2 DEF BeginPreset
  <2> QED
    BY <1>1, <2>1, <2>2 DEF BeginPreset, Enter, Finish
<1>2. ASSUME NEW p \in Plugins, BeginBypass(p)
      PROVE  Guard'
  BY <1>2 DEF BeginBypass, BeginPrepared, Prepare, Idle, Enter, Goto, Finish
<1>3. ASSUME NEW p \in Plugins, BeginAdd(p)
      PROVE  Guard'
  BY <1>3 DEF BeginAdd, BeginPrepared, Prepare, Idle, Enter, Goto, Finish
<1>4. ASSUME NEW p \in Plugins, BeginLatency(p)
      PROVE  Guard'
  BY <1>4 DEF BeginLatency, BeginPrepared, Prepare, Idle, Enter, Goto, Finish
<1>5. ASSUME NEW p \in Plugins, BeginShadowLatency(p)
      PROVE  Guard'
  BY <1>5 DEF BeginShadowLatency, BeginPrepared, Prepare, Idle, Enter, Goto, Finish
<1>6. ASSUME NEW p \in Plugins, BeginCapture(p)
      PROVE  Guard'
  BY <1>6 DEF BeginCapture, Idle, Enter, Goto, Finish
<1>7. ASSUME NEW p \in Plugins, BeginPaste(p)
      PROVE  Guard'
  BY <1>7 DEF BeginPaste, Idle, Enter, Goto, Finish
<1>8. ASSUME NEW i \in DOMAIN master.chain, BeginRemove(i)
      PROVE  Guard'
  BY <1>8 DEF BeginRemove, Idle, Enter, Goto, Finish
<1>9. ASSUME NEW from \in DOMAIN master.chain, NEW to \in DOMAIN master.chain,
             MovePlugin(from, to)
      PROVE  Guard'
  BY <1>9 DEF MovePlugin, Idle, Enter, Goto, Finish
<1>10. CASE BeginStop
  BY <1>10 DEF BeginStop, Idle, Enter, Goto, Finish
<1>11. CASE BeginStart
  BY <1>11 DEF BeginStart, Idle, Enter, Goto, Finish
<1>12. CASE Drained
  BY <1>12 DEF Drained, AfterDrain, Idle, Enter, Goto, Finish
<1>13. CASE PresetGivesUp
  BY <1>13 DEF PresetGivesUp, Idle, Enter, Goto, Finish
<1>14. CASE SaveDone
  BY <1>14 DEF SaveDone, Idle, Enter, Goto, Finish
<1>15. CASE LoadAccepted
  BY <1>15 DEF LoadAccepted, Idle, Enter, Goto, Finish
<1>16. CASE LoadRejected
  BY <1>16 DEF LoadRejected, Idle, Enter, Goto, Finish
<1>17. CASE LoadRolledBack
  BY <1>17 DEF LoadRolledBack, Idle, Enter, Goto, Finish
<1>18. CASE PrepareTimesOut
  BY <1>18 DEF PrepareTimesOut, Idle, Enter, Goto, Finish
<1>19. CASE EnsureDone
  BY <1>19 DEF EnsureDone, Idle, Enter, Goto, Finish
<1>20. CASE EnsureFails
  BY <1>20 DEF EnsureFails, Idle, Enter, Goto, Finish
<1>21. CASE Commit
  BY <1>21 DEF Commit, Idle, Enter, Goto, Finish
<1>22. CASE CommitRefused
  BY <1>22 DEF CommitRefused, Idle, Enter, Goto, Finish
<1>23. CASE PrepareFailed
  BY <1>23 DEF PrepareFailed, Idle, Enter, Goto, Finish
<1>24. CASE SuspendRefused
  BY <1>24 DEF SuspendRefused, Idle, Enter, Goto, Finish
<1>25. CASE RawEnsure
  BY <1>25 DEF RawEnsure, Idle, Enter, Goto, Finish
<1>26. CASE PasteInserts
  BY <1>26 DEF PasteInserts, Idle, Enter, Goto, Finish
<1>27. CASE PasteDone
  BY <1>27 DEF PasteDone, Idle, Enter, Goto, Finish
<1>28. CASE QuiescentRestore
  BY <1>28 DEF QuiescentRestore, Idle, Enter, Goto, Finish
<1>29. CASE StopTimesOut
  BY <1>29 DEF StopTimesOut, Idle, Enter, Goto, Finish
<1>30. CASE Terminated
  BY <1>30 DEF Terminated, Idle, Enter, Goto, Finish
<1>31. CASE StartDone
  BY <1>31 DEF StartDone, Idle, Enter, Goto, Finish
<1>32. CASE StartFails
  BY <1>32 DEF StartFails, Idle, Enter, Goto, Finish
<1>33. CASE BlockBegins
  BY <1>33 DEF BlockBegins
<1>34. CASE BlockEnds
  BY <1>34 DEF BlockEnds
<1>35. CASE UNCHANGED vars
  BY <1>35 DEF vars
<1> QED
  BY <1>1, <1>2, <1>3, <1>4, <1>5, <1>6, <1>7, <1>8, <1>9, <1>10, <1>11, <1>12, <1>13,
     <1>14, <1>15, <1>16, <1>17, <1>18, <1>19, <1>20, <1>21, <1>22, <1>23, <1>24, <1>25,
     <1>26, <1>27, <1>28, <1>29, <1>30, <1>31, <1>32, <1>33, <1>34, <1>35
  DEF Next, Request, Step

LEMMA InitGuarded == Init => IInv
<1> SUFFICES ASSUME Init PROVE IInv
  OBVIOUS
<1>1. TypeOK
  <2>1. master \in Configs /\ saved \in [config : Configs, graph : SUBSET Instances]
    BY SaveType DEF Init, NoSave
  <2>2. failures \in 0 .. MaxFailures
    BY FailuresAssumption DEF Init
  <2> QED
    BY <2>1, <2>2 DEF Init, TypeOK, Places, Ops
<1>2. Ownership
  BY SaveType DEF Init, Ownership, NoSave
<1> QED
  BY <1>1, <1>2 DEF Init, IInv, Targeted, Guard, Ops, Places

-----------------------------------------------------------------------------
(***************************************************************************)
(* The elements of a chain that is edited.                                 *)
(***************************************************************************)

LEMMA RemoveAtKeeps ==
  ASSUME NEW S, NEW s \in Seq(S), NEW i \in DOMAIN s, NEW e, Contains(s, e), e # s[i]
  PROVE  Contains(RemoveAt(s, i), e)
<1>1. /\ SubSeq(s, 1, i - 1) \in Seq(S) /\ Len(SubSeq(s, 1, i - 1)) = i - 1
      /\ \A j \in 1 .. i - 1 : SubSeq(s, 1, i - 1)[j] = s[j]
  BY SubSeqProperties
<1>2. /\ SubSeq(s, i + 1, Len(s)) \in Seq(S) /\ Len(SubSeq(s, i + 1, Len(s))) = Len(s) - i
      /\ \A j \in 1 .. Len(s) - i : SubSeq(s, i + 1, Len(s))[j] = s[i + j]
  BY SubSeqProperties
<1>3. /\ Len(RemoveAt(s, i)) = Len(s) - 1
      /\ \A j \in 1 .. Len(s) - 1 :
           RemoveAt(s, i)[j] = IF j <= i - 1 THEN SubSeq(s, 1, i - 1)[j]
                               ELSE SubSeq(s, i + 1, Len(s))[j - (i - 1)]
  <2>1. Len(s) \in Nat /\ i \in 1 .. Len(s) /\ (i - 1) + (Len(s) - i) = Len(s) - 1
    OBVIOUS
  <2>2. /\ Len(RemoveAt(s, i)) = (i - 1) + (Len(s) - i)
        /\ \A j \in 1 .. (i - 1) + (Len(s) - i) :
             RemoveAt(s, i)[j] = IF j <= i - 1 THEN SubSeq(s, 1, i - 1)[j]
                                 ELSE SubSeq(s, i + 1, Len(s))[j - (i - 1)]
    <3> DEFINE a == SubSeq(s, 1, i - 1)
               b == SubSeq(s, i + 1, Len(s))
    <3>1. RemoveAt(s, i) = a \o b /\ a \in Seq(S) /\ b \in Seq(S)
      BY <1>1, <1>2 DEF RemoveAt
    <3>2. Len(a) = i - 1 /\ Len(b) = Len(s) - i
      BY <1>1, <1>2
    <3> HIDE DEF a, b
    <3>3. /\ Len(a \o b) = (i - 1) + (Len(s) - i)
          /\ \A j \in 1 .. (i - 1) + (Len(s) - i) :
               (a \o b)[j] = IF j <= i - 1 THEN a[j] ELSE b[j - (i - 1)]
      <4>1. /\ Len(a \o b) = Len(a) + Len(b)
            /\ \A j \in 1 .. Len(a) + Len(b) :
                 (a \o b)[j] = IF j <= Len(a) THEN a[j] ELSE b[j - Len(a)]
        BY <3>1, ConcatProperties
      <4> QED BY <3>2, <4>1
    <3> QED BY <3>1, <3>3 DEF a, b
  <2> QED BY <2>1, <2>2
<1>4. PICK k \in 1 .. Len(s) : s[k] = e
  BY DEF Contains
<1>5. Len(s) \in Nat /\ i \in 1 .. Len(s) /\ k # i
  BY <1>4
<1>6. CASE k < i
  <2>1. k \in 1 .. Len(s) - 1 /\ k \in 1 .. i - 1
    BY <1>5, <1>6
  <2>2. RemoveAt(s, i)[k] = s[k]
    BY <1>1, <1>3, <1>6, <2>1
  <2> QED BY <1>3, <1>4, <2>1, <2>2 DEF Contains
<1>7. CASE k > i
  <2>1. k - 1 \in 1 .. Len(s) - 1 /\ ~(k - 1 <= i - 1) /\ (k - 1) - (i - 1) = k - i
        /\ k - i \in 1 .. Len(s) - i /\ i + (k - i) = k
    BY <1>5, <1>7
  <2>2. RemoveAt(s, i)[k - 1] = s[k]
    BY <1>2, <1>3, <2>1
  <2> QED BY <1>3, <1>4, <2>1, <2>2 DEF Contains
<1> QED BY <1>5, <1>6, <1>7

LEMMA InsertAtKeeps ==
  ASSUME NEW S, NEW s \in Seq(S), NEW i \in 1 .. Len(s) + 1, NEW x \in S,
         NEW e, Contains(s, e) \/ e = x
  PROVE  Contains(InsertAt(s, i, x), e)
<1>1. /\ SubSeq(s, 1, i - 1) \in Seq(S) /\ Len(SubSeq(s, 1, i - 1)) = i - 1
      /\ \A j \in 1 .. i - 1 : SubSeq(s, 1, i - 1)[j] = s[j]
  BY SubSeqProperties
<1>2. /\ SubSeq(s, i, Len(s)) \in Seq(S) /\ Len(SubSeq(s, i, Len(s))) = Len(s) - i + 1
      /\ \A j \in 1 .. Len(s) - i + 1 : SubSeq(s, i, Len(s))[j] = s[i + j - 1]
  BY SubSeqProperties
<1>3. <<x>> \in Seq(S) /\ Len(<<x>>) = 1 /\ <<x>>[1] = x
  OBVIOUS
<1> DEFINE head == SubSeq(s, 1, i - 1) \o <<x>>
<1>4. /\ head \in Seq(S) /\ Len(head) = i
      /\ \A j \in 1 .. i - 1 : head[j] = s[j]
      /\ head[i] = x
  <2>1. /\ head \in Seq(S) /\ Len(head) = (i - 1) + 1
        /\ \A j \in 1 .. (i - 1) + 1 :
             head[j] = IF j <= i - 1 THEN SubSeq(s, 1, i - 1)[j] ELSE <<x>>[j - (i - 1)]
    BY <1>1, <1>3, ConcatProperties
  <2>2. i \in Nat /\ i >= 1 /\ (i - 1) + 1 = i /\ i - (i - 1) = 1
    OBVIOUS
  <2> HIDE DEF head
  <2>3. \A j \in 1 .. i - 1 : j \in 1 .. (i - 1) + 1 /\ j <= i - 1
    BY <2>2
  <2>4. i \in 1 .. (i - 1) + 1 /\ ~(i <= i - 1)
    BY <2>2
  <2> QED BY <1>1, <1>3, <2>1, <2>2, <2>3, <2>4
<1>5. /\ Len(InsertAt(s, i, x)) = i + (Len(s) - i + 1)
      /\ \A j \in 1 .. i + (Len(s) - i + 1) :
           InsertAt(s, i, x)[j] = IF j <= i THEN head[j] ELSE SubSeq(s, i, Len(s))[j - i]
  <2>1. InsertAt(s, i, x) = head \o SubSeq(s, i, Len(s))
    BY DEF InsertAt
  <2> HIDE DEF head
  <2> QED BY <1>2, <1>4, <2>1, ConcatProperties
<1> HIDE DEF head
<1>6. Len(s) \in Nat /\ i \in 1 .. Len(s) + 1 /\ i + (Len(s) - i + 1) = Len(s) + 1
  OBVIOUS
<1>7. CASE e = x
  BY <1>4, <1>5, <1>6, <1>7 DEF Contains
<1>8. ASSUME NEW k \in 1 .. Len(s), s[k] = e
      PROVE  Contains(InsertAt(s, i, x), e)
  <2>1. CASE k < i
    BY <1>4, <1>5, <1>6, <1>8, <2>1 DEF Contains
  <2>2. CASE k >= i
    <3>1. k + 1 \in 1 .. Len(s) + 1 /\ ~(k + 1 <= i) /\ (k + 1) - i \in 1 .. Len(s) - i + 1
          /\ i + ((k + 1) - i) - 1 = k
      BY <1>6, <2>2
    <3>2. InsertAt(s, i, x)[k + 1] = s[k]
      BY <1>2, <1>5, <1>6, <3>1
    <3> QED BY <1>5, <1>6, <1>8, <3>1, <3>2 DEF Contains
  <2> QED BY <1>6, <2>1, <2>2
<1> QED BY <1>7, <1>8 DEF Contains

LEMMA AppendKeeps ==
  ASSUME NEW S, NEW s \in Seq(S), NEW x \in S
  PROVE  /\ \A e : Contains(s, e) \/ e = x <=> Contains(Append(s, x), e)
         /\ Front(Append(s, x)) = s
<1>1. /\ Append(s, x) \in Seq(S) /\ Len(Append(s, x)) = Len(s) + 1 /\ Len(s) \in Nat
      /\ \A i \in 1 .. Len(s) : Append(s, x)[i] = s[i]
      /\ Append(s, x)[Len(s) + 1] = x
  BY AppendProperties
<1>2. \A e : Contains(s, e) \/ e = x <=> Contains(Append(s, x), e)
  <2>1. /\ 1 .. Len(s) \subseteq 1 .. Len(s) + 1 /\ Len(s) + 1 \in 1 .. Len(s) + 1
        /\ \A i \in 1 .. Len(s) + 1 : i \in 1 .. Len(s) \/ i = Len(s) + 1
    BY <1>1
  <2> QED BY <1>1, <2>1 DEF Contains
<1>3. Front(Append(s, x)) = s
  <2>1. /\ Front(Append(s, x)) \in Seq(S) /\ Len(Front(Append(s, x))) = Len(s)
        /\ \A i \in 1 .. Len(s) : Front(Append(s, x))[i] = s[i]
    BY <1>1, SubSeqProperties DEF Front
  <2> QED BY <2>1
<1> QED BY <1>2, <1>3
-----------------------------------------------------------------------------
(***************************************************************************)
(* Shadows and flags belong to slots of the chain.                         *)
(***************************************************************************)

SlotsOf(c) ==
  /\ \A p \in Plugins : c.shadow[p] # None => p \in InChain(c)
  /\ c.bypass \cup c.mbypass \subseteq InChain(c)

\* A change of flags and states alone.
LEMMA SameSlots ==
  ASSUME NEW c, NEW d, SlotsOf(c), d.chain = c.chain, d.shadow = c.shadow,
         d.bypass \cup d.mbypass \subseteq InChain(c)
  PROVE  SlotsOf(d)
BY DEF SlotsOf, InChain

LEMMA NoSlots == SlotsOf(NoSave.config)
<1>1. NoSave.config = EmptyConfig
  BY DEF NoSave
<1> QED BY <1>1 DEF EmptyConfig, SlotsOf

LEMMA ErasedSlots ==
  ASSUME NEW c \in Configs, NEW i \in DOMAIN c.chain, SlotsOf(c)
  PROVE  SlotsOf(Erased(c, i))
<1> DEFINE q == c.chain[i]
           e == Erased(c, i)
<1>1. c.chain \in Seq(Plugins) /\ q \in Plugins
  BY DEF Configs
<1>2. /\ Reset(c, q).chain = c.chain
      /\ Reset(c, q).bypass = c.bypass \ {q} /\ Reset(c, q).mbypass = c.mbypass \ {q}
      /\ Reset(c, q).shadow = [c.shadow EXCEPT ![q] = None]
      /\ Reset(c, q) \in Configs
  <2>1. Reset(c, q) \in Configs
    BY <1>1, ResetType
  <2> QED BY <2>1 DEF Reset, Configs
<1>3. e = [Reset(c, q) EXCEPT !.chain = RemoveAt(@, i)]
  BY DEF Erased
<1> HIDE DEF e
<1>4. /\ e.chain = RemoveAt(c.chain, i)
      /\ e.bypass = c.bypass \ {q} /\ e.mbypass = c.mbypass \ {q}
      /\ \A p \in Plugins : e.shadow[p] # None => p # q /\ c.shadow[p] # None
  BY <1>1, <1>2, <1>3 DEF Configs
<1>5. \A p \in InChain(c) : p # q => p \in InChain(e)
  BY <1>1, <1>4, RemoveAtKeeps DEF InChain
<1>6. SlotsOf(e)
  BY <1>4, <1>5 DEF SlotsOf
<1> QED BY <1>6 DEF e

LEMMA MovedSlots ==
  ASSUME master \in Configs, SlotsOf(master),
         NEW from \in DOMAIN master.chain, NEW to \in DOMAIN master.chain
  PROVE  SlotsOf(Moved(from, to))
<1> DEFINE s == master.chain
           r == RemoveAt(s, from)
           m == Moved(from, to)
<1>1. s \in Seq(Plugins) /\ s[from] \in Plugins
  BY DEF Configs
<1>2. r \in Seq(Plugins)
  BY <1>1, RemoveAtType
<1>3. to \in 1 .. Len(r) + 1
  BY <1>1, RemoveAtLen
<1>4. m.chain = InsertAt(r, to, s[from])
  BY <1>1 DEF Moved, Configs
<1>5. m.shadow = master.shadow /\ m.bypass = master.bypass /\ m.mbypass = master.mbypass
  BY DEF Moved, Configs
<1>6. ASSUME NEW p, Contains(s, p) PROVE Contains(m.chain, p)
  <2>1. Contains(r, p) \/ p = s[from]
    BY <1>1, <1>6, RemoveAtKeeps
  <2> QED BY <1>1, <1>2, <1>3, <1>4, <2>1, InsertAtKeeps
<1> QED BY <1>5, <1>6 DEF SlotsOf, InChain

LEMMA AppendedSlots ==
  ASSUME master \in Configs, SlotsOf(master), NEW p \in Plugins
  PROVE  SlotsOf([master EXCEPT !.chain = Append(@, p)])
<1>1. \A q : Contains(master.chain, q) => Contains(Append(master.chain, p), q)
  BY AppendKeeps DEF Configs
<1> QED BY <1>1 DEF SlotsOf, InChain, Configs

LEMMA PastedSlots ==
  ASSUME master \in Configs, SlotsOf(master), target \in Plugins, PasteInserts
  PROVE  SlotsOf(master')
<1>1. PICK at \in 1 .. Len(master.chain) + 1, flags \in SUBSET {"bypass", "mbypass"} :
       master' = [master EXCEPT
                    !.chain   = InsertAt(@, at, target),
                    !.bypass  = @ \cup (IF "bypass" \in flags THEN {target} ELSE {}),
                    !.mbypass = @ \cup (IF "mbypass" \in flags THEN {target} ELSE {})]
  BY DEF PasteInserts
<1>2. /\ master'.chain = InsertAt(master.chain, at, target)
      /\ master'.bypass \subseteq master.bypass \cup {target}
      /\ master'.mbypass \subseteq master.mbypass \cup {target}
      /\ master'.shadow = master.shadow
  BY <1>1 DEF Configs
<1>3. \A q : Contains(master.chain, q) \/ q = target => Contains(master'.chain, q)
  BY <1>2, InsertAtKeeps DEF Configs
<1> QED BY <1>2, <1>3 DEF SlotsOf, InChain

LEMMA WithShadowsSlots ==
  ASSUME NEW c \in Configs, SlotsOf(c), NEW f \in Inject(Missing(c))
  PROVE  SlotsOf(WithShadows(c, f)) /\ Intent(WithShadows(c, f)) = Intent(c)
<1>1. /\ WithShadows(c, f).chain = c.chain /\ WithShadows(c, f).bypass = c.bypass
      /\ WithShadows(c, f).mbypass = c.mbypass
      /\ \A p \in Plugins : WithShadows(c, f).shadow[p] =
           IF p \in Missing(c) THEN f[p]
           ELSE IF p \in NeedShadow(c) THEN c.shadow[p] ELSE None
  BY DEF WithShadows, Configs
<1>2. Missing(c) \subseteq InChain(c) /\ NeedShadow(c) \subseteq InChain(c)
  BY DEF Missing, NeedShadow
<1> QED BY <1>1, <1>2 DEF SlotsOf, InChain, Intent
-----------------------------------------------------------------------------
(***************************************************************************)
(* What an operation keeps, and what it has to put back.                   *)
(***************************************************************************)

Slots == SlotsOf(master) /\ SlotsOf(saved.config)

\* Which operation is at which place.
Doing ==
  /\ ctl \in {"saveDrain", "saveIO"} => op = "save"
  /\ ctl \in {"loadDrain", "loadIO", "rollback"} => op = "load"
  /\ ctl \in {"prepareDrain", "ensure", "prepared", "prepareFailed"} =>
       op \in {"load", "bypass", "add", "latency", "shadowLatency"}
  /\ ctl = "suspend" => op \in {"latency", "shadowLatency"}
  /\ ctl = "rawEnsure" => op \in {"bypass", "add", "remove"}
  /\ ctl \in {"captureDrain", "captureIO"} => op = "capture"
  /\ ctl \in {"pasteDrain", "pasteEnsure"} => op = "paste"
  /\ ctl \in {"initialize", "stopDrain", "terminate"} => op \in {"start", "stop"} /\ ~running

SameBut(t, S, T) == S \ {t} = T \ {t}

\* How far the user's settings are from those the operation found.
Undoable ==
  /\ ctl \in {"saveDrain", "saveIO", "loadDrain", "loadIO"} =>
       /\ master.chain = saved.config.chain /\ master.mbypass = saved.config.mbypass
       /\ SameBut(target, master.bypass, saved.config.bypass)
  /\ ctl \in {"prepareDrain", "ensure", "prepared", "prepareFailed"} =>
       /\ op = "bypass" => /\ master.chain = saved.config.chain
                           /\ SameBut(target, master.bypass, saved.config.bypass)
                           /\ SameBut(target, master.mbypass, saved.config.mbypass)
       /\ op = "add" => /\ master.chain = Append(saved.config.chain, target)
                        /\ master.bypass = saved.config.bypass
                        /\ master.mbypass = saved.config.mbypass
                        /\ target \notin InChain(saved.config)
       /\ op \notin {"bypass", "add"} => Intent(master) = Intent(saved.config)
  /\ ctl \in {"rollback", "suspend"} => Intent(master) = Intent(saved.config)
  /\ ctl = "rawEnsure" /\ op # "remove" => Intent(master) = Intent(saved.config)

\* What callbacks run, and what a quiescent section will give back to them.
Published ==
  /\ PublishedIsMaster
  /\ op \in {"capture", "paste"} /\ running /\ ~refused => saved.graph = Uses(saved.config)

Intact == Slots /\ Doing /\ Undoable /\ Published

\* A preset puts the bypass flag back as it was.
LEMMA UnbypassedIntent ==
  ASSUME IInv, Intact, ctl \in {"saveDrain", "saveIO", "loadDrain", "loadIO"}
  PROVE  /\ Intent(Unbypassed) = Intent(saved.config) /\ SlotsOf(Unbypassed)
         /\ Intent(Reactivated) = Intent(saved.config) /\ SlotsOf(Reactivated)
<1>1. master \in Configs /\ saved.config \in Configs
  BY DEF IInv, TypeOK
<1>2. /\ master.chain = saved.config.chain /\ master.mbypass = saved.config.mbypass
      /\ SameBut(target, master.bypass, saved.config.bypass)
  BY DEF Intact, Undoable
<1>3. /\ Unbypassed.chain = master.chain /\ Unbypassed.mbypass = master.mbypass
      /\ Unbypassed.shadow = master.shadow
      /\ Unbypassed.bypass = (master.bypass \ {target}) \cup (saved.config.bypass \cap {target})
      /\ Unbypassed \in Configs
  BY <1>1 DEF Unbypassed, Configs
<1>4. Unbypassed.bypass = saved.config.bypass
  BY <1>2, <1>3 DEF SameBut
<1>5. Reactivated.chain = Unbypassed.chain /\ Reactivated.bypass = Unbypassed.bypass
      /\ Reactivated.mbypass = Unbypassed.mbypass /\ Reactivated.shadow = Unbypassed.shadow
  BY <1>3 DEF Reactivated, Configs
<1>6. saved.config.bypass \cup saved.config.mbypass \subseteq InChain(master)
  BY <1>2 DEF Intact, Slots, SlotsOf, InChain
<1>7. SlotsOf(Unbypassed) /\ SlotsOf(Reactivated)
  BY <1>2, <1>3, <1>4, <1>5, <1>6, SameSlots DEF Intact, Slots
<1> QED BY <1>2, <1>3, <1>4, <1>5, <1>7 DEF Intent

\* commit_bypass_flag and add_plugin take back what they did.
LEMMA UndoneIntent ==
  ASSUME IInv, Intact, ctl \in {"prepared", "prepareFailed"}, op \in {"bypass", "add"}
  PROVE  Intent(Undone) = Intent(saved.config) /\ SlotsOf(Undone)
<1>1. master \in Configs /\ saved.config \in Configs /\ target \in Plugins
  BY DEF IInv, TypeOK, Targeted
<1>2. SlotsOf(master) /\ SlotsOf(saved.config)
  BY DEF Intact, Slots
<1>3. CASE op = "add"
  <2>1. /\ master.chain = Append(saved.config.chain, target)
        /\ master.bypass = saved.config.bypass /\ master.mbypass = saved.config.mbypass
        /\ target \notin InChain(saved.config)
    BY <1>3 DEF Intact, Undoable
  <2>2. /\ Front(master.chain) = saved.config.chain
        /\ \A q : Contains(master.chain, q) => q = target \/ Contains(saved.config.chain, q)
    BY <1>1, <2>1, AppendKeeps DEF Configs
  <2>3. /\ Reset(master, target) \in Configs
        /\ Reset(master, target).chain = master.chain
        /\ Reset(master, target).bypass = master.bypass \ {target}
        /\ Reset(master, target).mbypass = master.mbypass \ {target}
        /\ Reset(master, target).shadow = [master.shadow EXCEPT ![target] = None]
    BY <1>1, ResetType DEF Reset, Configs
  <2>4. /\ Undone.chain = Front(master.chain)
        /\ Undone.bypass = master.bypass \ {target}
        /\ Undone.mbypass = master.mbypass \ {target}
        /\ Undone.shadow = [master.shadow EXCEPT ![target] = None]
    BY <1>3, <2>3 DEF Undone, Configs
  <2>5. \A p \in Plugins : Undone.shadow[p] # None => p # target /\ master.shadow[p] # None
    BY <1>1, <2>4 DEF Configs
  <2>6. Undone.bypass = saved.config.bypass /\ Undone.mbypass = saved.config.mbypass
    BY <1>2, <2>1, <2>4 DEF SlotsOf
  <2> QED BY <1>2, <2>2, <2>4, <2>5, <2>6 DEF Intent, SlotsOf, InChain
<1>4. CASE op = "bypass"
  <2>1. /\ master.chain = saved.config.chain
        /\ SameBut(target, master.bypass, saved.config.bypass)
        /\ SameBut(target, master.mbypass, saved.config.mbypass)
    BY <1>4 DEF Intact, Undoable
  <2>2. /\ Undone.chain = master.chain /\ Undone.shadow = master.shadow
        /\ Undone.bypass = (master.bypass \ {target}) \cup (saved.config.bypass \cap {target})
        /\ Undone.mbypass = (master.mbypass \ {target}) \cup (saved.config.mbypass \cap {target})
    BY <1>1, <1>4 DEF Undone, Configs
  <2>3. Undone.bypass = saved.config.bypass /\ Undone.mbypass = saved.config.mbypass
    BY <2>1, <2>2 DEF SameBut
  <2> QED BY <1>2, <2>1, <2>2, <2>3 DEF Intent, SlotsOf, InChain
<1> QED BY <1>3, <1>4

\* Going back to the states before the operation, or giving a state up.
LEMMA StatesChanged ==
  ASSUME IInv, Intact
  PROVE  /\ Intent(RolledBack) = Intent(master) /\ SlotsOf(RolledBack)
         /\ LET d == [master EXCEPT !.suspended = @ \cup {target}]
            IN  Intent(d) = Intent(master) /\ SlotsOf(d)
         /\ LET d == [master EXCEPT !.degraded = @ \cup {target}]
            IN  Intent(d) = Intent(master) /\ SlotsOf(d)
<1>1. master \in Configs /\ SlotsOf(master)
  BY DEF IInv, TypeOK, Intact, Slots
<1> QED BY <1>1 DEF RolledBack, Intent, SlotsOf, InChain, Configs
\* No step leaves an operation at a place of another one.
LEMMA DoingStep ==
  ASSUME IInv, Intact, [Next]_vars
  PROVE  Doing'
<1> USE DEF IInv, TypeOK, Intact, Doing, Enter, Goto, Finish, rtVars, opVars, ctlVars
<1>1. CASE Request
  <2>1. ASSUME NEW p \in Plugins, NEW o \in {"save", "load"}, BeginPreset(o, p)
        PROVE  Doing'
    BY <2>1 DEF BeginPreset, Idle
  <2>2. ASSUME NEW p \in Plugins, BeginBypass(p)
        PROVE  Doing'
    BY <2>2 DEF BeginBypass, BeginPrepared, Prepare, Idle
  <2>3. ASSUME NEW p \in Plugins, BeginAdd(p)
        PROVE  Doing'
    BY <2>3 DEF BeginAdd, BeginPrepared, Prepare, Idle
  <2>4. ASSUME NEW p \in Plugins, BeginLatency(p)
        PROVE  Doing'
    BY <2>4 DEF BeginLatency, BeginPrepared, Prepare, Idle
  <2>5. ASSUME NEW p \in Plugins, BeginShadowLatency(p)
        PROVE  Doing'
    BY <2>5 DEF BeginShadowLatency, BeginPrepared, Prepare, Idle
  <2>6. ASSUME NEW p \in Plugins, BeginCapture(p)
        PROVE  Doing'
    BY <2>6 DEF BeginCapture, Idle
  <2>7. ASSUME NEW p \in Plugins, BeginPaste(p)
        PROVE  Doing'
    BY <2>7 DEF BeginPaste, Idle
  <2>8. ASSUME NEW i \in DOMAIN master.chain, BeginRemove(i)
        PROVE  Doing'
    BY <2>8 DEF BeginRemove, Idle
  <2>9. ASSUME NEW from \in DOMAIN master.chain, NEW to \in DOMAIN master.chain,
               MovePlugin(from, to)
        PROVE  Doing'
    BY <2>9 DEF MovePlugin, Idle
  <2>10. CASE BeginStop
    BY <2>10 DEF BeginStop, Idle
  <2>11. CASE BeginStart
    BY <2>11 DEF BeginStart, Idle
  <2> QED BY <1>1, <2>1, <2>2, <2>3, <2>4, <2>5, <2>6, <2>7, <2>8, <2>9, <2>10, <2>11 DEF Request
<1>2. CASE Step
  <2>1. CASE Drained
    BY <2>1 DEF Drained, Idle, AfterDrain
  <2>2. CASE PresetGivesUp
    BY <2>2 DEF PresetGivesUp, Idle
  <2>3. CASE SaveDone
    BY <2>3 DEF SaveDone, Idle
  <2>4. CASE LoadAccepted
    BY <2>4 DEF LoadAccepted, Idle
  <2>5. CASE LoadRejected
    BY <2>5 DEF LoadRejected, Idle
  <2>6. CASE LoadRolledBack
    BY <2>6 DEF LoadRolledBack, Idle
  <2>7. CASE PrepareTimesOut
    BY <2>7 DEF PrepareTimesOut, Idle
  <2>8. CASE EnsureDone
    BY <2>8 DEF EnsureDone, Idle
  <2>9. CASE EnsureFails
    BY <2>9 DEF EnsureFails, Idle
  <2>10. CASE Commit
    BY <2>10 DEF Commit, Idle
  <2>11. CASE CommitRefused
    BY <2>11 DEF CommitRefused, Idle
  <2>12. CASE PrepareFailed
    BY <2>12 DEF PrepareFailed, Idle
  <2>13. CASE SuspendRefused
    BY <2>13 DEF SuspendRefused, Idle
  <2>14. CASE RawEnsure
    BY <2>14 DEF RawEnsure, Idle
  <2>15. CASE PasteInserts
    BY <2>15 DEF PasteInserts, Idle
  <2>16. CASE PasteDone
    BY <2>16 DEF PasteDone, Idle
  <2>17. CASE QuiescentRestore
    BY <2>17 DEF QuiescentRestore, Idle
  <2>18. CASE StopTimesOut
    BY <2>18 DEF StopTimesOut, Idle
  <2>19. CASE Terminated
    BY <2>19 DEF Terminated, Idle
  <2>20. CASE StartDone
    BY <2>20 DEF StartDone, Idle, Swap
  <2>21. CASE StartFails
    BY <2>21 DEF StartFails, Idle
  <2> QED BY <1>2, <2>1, <2>2, <2>3, <2>4, <2>5, <2>6, <2>7, <2>8, <2>9, <2>10, <2>11, <2>12,
     <2>13, <2>14, <2>15, <2>16, <2>17, <2>18, <2>19, <2>20, <2>21
     DEF Step
<1>3. CASE BlockBegins
  BY <1>3 DEF BlockBegins
<1>4. CASE BlockEnds
  BY <1>4 DEF BlockEnds
<1>5. CASE UNCHANGED vars
  BY <1>5 DEF vars
<1> QED BY <1>1, <1>2, <1>3, <1>4, <1>5 DEF Next

\* The chain keeps every slot that has a shadow or a flag.
LEMMA MasterSlots ==
  ASSUME IInv, Intact, [Next]_vars
  PROVE  SlotsOf(master')
<1>m. SlotsOf(master) /\ SlotsOf(saved.config) /\ master \in Configs
  BY DEF IInv, TypeOK, Intact, Slots
<1>t. ctl \notin {"idle", "initialize", "stopDrain", "terminate"} => target \in Plugins
  BY DEF IInv, Targeted
<1> USE <1>m, <1>t
<1>1. CASE Request
  <2>1. ASSUME NEW p \in Plugins, NEW o \in {"save", "load"}, BeginPreset(o, p)
        PROVE  SlotsOf(master')
    <3>1. master' \in {master, Bypassed(p)} /\ p \in InChain(master)
      BY <2>1 DEF BeginPreset
    <3>2. SlotsOf(Bypassed(p))
      BY <3>1 DEF Bypassed, SlotsOf, InChain, Configs
    <3> QED BY <3>1, <3>2
  <2>2. ASSUME NEW p \in Plugins, BeginBypass(p)
        PROVE  SlotsOf(master')
    <3>1. /\ p \in InChain(master)
          /\ \/ master' = [master EXCEPT !.bypass = Toggle(@, p)]
             \/ master' = [master EXCEPT !.mbypass = Toggle(@, p)]
      BY <2>2 DEF BeginBypass, BeginPrepared
    <3> QED BY <3>1 DEF Toggle, SlotsOf, InChain, Configs
  <2>3. ASSUME NEW p \in Plugins, BeginAdd(p)
        PROVE  SlotsOf(master')
    BY <2>3, AppendedSlots DEF BeginAdd, BeginPrepared, Prepare
  <2>4. ASSUME NEW p \in Plugins, BeginLatency(p)
        PROVE  SlotsOf(master')
    BY <2>4 DEF BeginLatency, BeginPrepared, Prepare, SlotsOf, InChain, Configs
  <2>5. ASSUME NEW p \in Plugins, BeginShadowLatency(p)
        PROVE  SlotsOf(master')
    BY <2>5 DEF BeginShadowLatency, BeginPrepared, Prepare, SlotsOf, InChain, Configs
  <2>6. ASSUME NEW p \in Plugins, BeginCapture(p)
        PROVE  SlotsOf(master')
    BY <2>6 DEF BeginCapture
  <2>7. ASSUME NEW p \in Plugins, BeginPaste(p)
        PROVE  SlotsOf(master')
    BY <2>7 DEF BeginPaste
  <2>8. ASSUME NEW i \in DOMAIN master.chain, BeginRemove(i)
        PROVE  SlotsOf(master')
    BY <2>8, ErasedSlots DEF BeginRemove
  <2>9. ASSUME NEW from \in DOMAIN master.chain, NEW to \in DOMAIN master.chain,
               MovePlugin(from, to)
        PROVE  SlotsOf(master')
    BY <2>9, MovedSlots DEF MovePlugin
  <2>10. CASE BeginStop
    BY <2>10 DEF BeginStop
  <2>11. CASE BeginStart
    BY <2>11 DEF BeginStart
  <2> QED BY <1>1, <2>1, <2>2, <2>3, <2>4, <2>5, <2>6, <2>7, <2>8, <2>9, <2>10, <2>11 DEF Request
<1>2. CASE Step
  <2>1. CASE Drained
    BY <2>1 DEF Drained
  <2>2. CASE PresetGivesUp
    BY <2>2, UnbypassedIntent DEF PresetGivesUp
  <2>3. CASE SaveDone
    BY <2>3, UnbypassedIntent DEF SaveDone
  <2>4. CASE LoadAccepted
    BY <2>4, UnbypassedIntent DEF LoadAccepted
  <2>5. CASE LoadRejected
    BY <2>5, UnbypassedIntent DEF LoadRejected
  <2>6. CASE LoadRolledBack
    BY <2>6, StatesChanged DEF LoadRolledBack
  <2>7. CASE PrepareTimesOut
    BY <2>7 DEF PrepareTimesOut
  <2>8. CASE EnsureDone
    BY <2>8, WithShadowsSlots DEF EnsureDone
  <2>9. CASE EnsureFails
    BY <2>9 DEF EnsureFails
  <2>10. CASE Commit
    BY <2>10 DEF Commit
  <2>11. CASE CommitRefused
    <3>1. \/ master' = master
          \/ op \in {"bypass", "add"} /\ master' = Undone
          \/ master' = [master EXCEPT !.suspended = @ \cup {target}]
          \/ master' = [master EXCEPT !.degraded = @ \cup {target}]
      BY <2>11 DEF CommitRefused
    <3> QED BY <2>11, <3>1, UndoneIntent, StatesChanged DEF CommitRefused
  <2>12. CASE PrepareFailed
    <3>1. \/ master' = master
          \/ op \in {"bypass", "add"} /\ master' = Undone
          \/ master' = [master EXCEPT !.suspended = @ \cup {target}]
          \/ master' = [master EXCEPT !.degraded = @ \cup {target}]
      BY <2>12 DEF PrepareFailed
    <3> QED BY <2>12, <3>1, UndoneIntent, StatesChanged DEF PrepareFailed
  <2>13. CASE SuspendRefused
    BY <2>13, StatesChanged DEF SuspendRefused
  <2>14. CASE RawEnsure
    BY <2>14, WithShadowsSlots DEF RawEnsure
  <2>15. CASE PasteInserts
    BY <2>15, PastedSlots DEF PasteInserts
  <2>16. CASE PasteDone
    BY <2>16, WithShadowsSlots DEF PasteDone
  <2>17. CASE QuiescentRestore
    BY <2>17 DEF QuiescentRestore
  <2>18. CASE StopTimesOut
    BY <2>18 DEF StopTimesOut
  <2>19. CASE Terminated
    BY <2>19 DEF Terminated
  <2>20. CASE StartDone
    BY <2>20 DEF StartDone
  <2>21. CASE StartFails
    BY <2>21 DEF StartFails
  <2> QED BY <1>2, <2>1, <2>2, <2>3, <2>4, <2>5, <2>6, <2>7, <2>8, <2>9, <2>10, <2>11, <2>12,
     <2>13, <2>14, <2>15, <2>16, <2>17, <2>18, <2>19, <2>20, <2>21
     DEF Step
<1>3. CASE BlockBegins
  BY <1>3 DEF BlockBegins
<1>4. CASE BlockEnds
  BY <1>4 DEF BlockEnds
<1>5. CASE UNCHANGED vars
  BY <1>5 DEF vars
<1> QED BY <1>1, <1>2, <1>3, <1>4, <1>5 DEF Next

LEMMA SlotsStep ==
  ASSUME IInv, Intact, [Next]_vars
  PROVE  Slots'
<1>1. SlotsOf(saved'.config)
  <2>1. Keep.config = master
    BY DEF Keep
  <2> QED BY <2>1, SavedStep, NoSlots DEF Intact, Slots
<1>2. SlotsOf(master')
  BY MasterSlots
<1>3. SlotsOf(saved.config)' /\ SlotsOf(master)'
  BY <1>1, <1>2 DEF SlotsOf, InChain
<1> QED BY <1>3 DEF Slots

\* What an operation has changed, its way back takes back.
LEMMA UndoableStep ==
  ASSUME IInv, Intact, [Next]_vars
  PROVE  Undoable'
<1>m. /\ master \in Configs
      /\ ctl \notin {"idle", "initialize", "stopDrain", "terminate"} => target \in Plugins
  BY DEF IInv, TypeOK, Targeted
<1>u. Undoable /\ Doing
  BY DEF Intact
<1> USE <1>m, <1>u
<1>1. CASE Request
  <2>1. ASSUME NEW p \in Plugins, NEW o \in {"save", "load"}, BeginPreset(o, p)
        PROVE  Undoable'
    <3>1. /\ Bypassed(p).chain = master.chain /\ Bypassed(p).mbypass = master.mbypass
          /\ Bypassed(p).bypass = master.bypass \cup {p}
      BY DEF Bypassed, Configs
    <3>2. CASE Finish("failed")
      BY <3>2 DEF Undoable, Finish
    <3>3. CASE /\ master' = Bypassed(p)
               /\ Enter(IF o = "save" THEN "saveDrain" ELSE "loadDrain", o, p, Keep)
      <4>1. /\ ctl' \in {"saveDrain", "loadDrain"} /\ target' = p
            /\ saved'.config = master
        BY <3>3 DEF Enter, Keep
      <4> QED BY <3>1, <3>3, <4>1 DEF Undoable, SameBut
    <3> QED BY <2>1, <3>2, <3>3 DEF BeginPreset
  <2>2. ASSUME NEW p \in Plugins, BeginBypass(p)
        PROVE  Undoable'
    <3>1. /\ \/ master' = [master EXCEPT !.bypass = Toggle(@, p)]
             \/ master' = [master EXCEPT !.mbypass = Toggle(@, p)]
          /\ ctl' \in {"prepareDrain", "ensure", "prepareFailed"}
          /\ op' = "bypass" /\ target' = p /\ saved'.config = master
      BY <2>2 DEF BeginBypass, BeginPrepared, Prepare, Enter, Keep
    <3>2. /\ master'.chain = master.chain
          /\ SameBut(p, master'.bypass, master.bypass)
          /\ SameBut(p, master'.mbypass, master.mbypass)
      BY <3>1 DEF Configs, Toggle, SameBut
    <3> QED BY <3>1, <3>2 DEF Undoable
  <2>3. ASSUME NEW p \in Plugins, BeginAdd(p)
        PROVE  Undoable'
    <3>1. /\ master' = [master EXCEPT !.chain = Append(@, p)]
          /\ ctl' \in {"prepareDrain", "ensure", "prepareFailed"}
          /\ op' = "add" /\ target' = p /\ saved'.config = master
          /\ p \notin InChain(master)
      BY <2>3 DEF BeginAdd, BeginPrepared, Prepare, Enter, Keep, Referenced
    <3>2. /\ master'.chain = Append(master.chain, p)
          /\ master'.bypass = master.bypass /\ master'.mbypass = master.mbypass
      BY <3>1 DEF Configs
    <3>3. p \notin InChain(saved'.config)
      BY <3>1
    <3> QED BY <3>1, <3>2, <3>3 DEF Undoable, InChain
  <2>4. ASSUME NEW p \in Plugins, BeginLatency(p)
        PROVE  Undoable'
    <3>1. /\ master' = [master EXCEPT !.suspended = @ \ {p}]
          /\ ctl' \in {"prepareDrain", "ensure", "prepareFailed"}
          /\ op' = "latency" /\ saved'.config = master
      BY <2>4 DEF BeginLatency, BeginPrepared, Prepare, Enter, Keep
    <3>2. Intent(master') = Intent(master)
      BY <3>1 DEF Configs, Intent
    <3> QED BY <3>1, <3>2 DEF Undoable, Intent
  <2>5. ASSUME NEW p \in Plugins, BeginShadowLatency(p)
        PROVE  Undoable'
    <3>1. /\ master' = [master EXCEPT !.degraded = @ \ {p}]
          /\ ctl' \in {"prepareDrain", "ensure", "prepareFailed"}
          /\ op' = "shadowLatency" /\ saved'.config = master
      BY <2>5 DEF BeginShadowLatency, BeginPrepared, Prepare, Enter, Keep
    <3>2. Intent(master') = Intent(master)
      BY <3>1 DEF Configs, Intent
    <3> QED BY <3>1, <3>2 DEF Undoable, Intent
  <2>6. ASSUME NEW p \in Plugins, BeginCapture(p)
        PROVE  Undoable'
    BY <2>6 DEF BeginCapture, Enter, Undoable
  <2>7. ASSUME NEW p \in Plugins, BeginPaste(p)
        PROVE  Undoable'
    BY <2>7 DEF BeginPaste, Enter, Undoable
  <2>8. ASSUME NEW i \in DOMAIN master.chain, BeginRemove(i)
        PROVE  Undoable'
    BY <2>8 DEF BeginRemove, Enter, Undoable
  <2>9. ASSUME NEW from \in DOMAIN master.chain, NEW to \in DOMAIN master.chain,
               MovePlugin(from, to)
        PROVE  Undoable'
    BY <2>9 DEF MovePlugin, Finish, Undoable
  <2>10. CASE BeginStop
    BY <2>10 DEF BeginStop, Enter, Undoable
  <2>11. CASE BeginStart
    BY <2>11 DEF BeginStart, Enter, Undoable
  <2> QED BY <1>1, <2>1, <2>2, <2>3, <2>4, <2>5, <2>6, <2>7, <2>8, <2>9, <2>10, <2>11 DEF Request
<1>2. CASE Step
  <2>1. CASE Drained
    BY <2>1 DEF Drained, AfterDrain, Goto, opVars, Undoable, SameBut, Intent, InChain
  <2>2. CASE PresetGivesUp
    BY <2>2 DEF PresetGivesUp, Finish, Undoable
  <2>3. CASE SaveDone
    BY <2>3 DEF SaveDone, Finish, Undoable
  <2>4. CASE LoadAccepted
    <3>1. Intent(master') = Intent(saved.config) /\ saved' = saved /\ op' = "load"
      BY <2>4, UnbypassedIntent DEF LoadAccepted, Goto, opVars, Doing
    <3>2. ctl' \in {"prepareDrain", "ensure", "rollback"}
      BY <2>4 DEF LoadAccepted, Goto
    <3> QED BY <3>1, <3>2 DEF Undoable, Intent
  <2>5. CASE LoadRejected
    <3>1. Intent(master') = Intent(saved.config) /\ saved' = saved /\ ctl' = "rollback"
      BY <2>5, UnbypassedIntent DEF LoadRejected, Goto, opVars
    <3> QED BY <3>1 DEF Undoable, Intent
  <2>6. CASE LoadRolledBack
    BY <2>6 DEF LoadRolledBack, Finish, Undoable
  <2>7. CASE PrepareTimesOut
    BY <2>7 DEF PrepareTimesOut, Goto, opVars, Undoable, SameBut, Intent, InChain
  <2>8. CASE EnsureDone
    <3>1. PICK f \in Inject(Missing(master)) : master' = WithShadows(master, f)
      BY <2>8 DEF EnsureDone
    <3>2. /\ master'.chain = master.chain /\ master'.bypass = master.bypass
          /\ master'.mbypass = master.mbypass
      BY <3>1 DEF WithShadows, Configs
    <3> QED BY <2>8, <3>2 DEF EnsureDone, Undoable, Intent, SameBut, InChain, Goto, opVars
  <2>9. CASE EnsureFails
    BY <2>9 DEF EnsureFails, Goto, opVars, Undoable, SameBut, Intent, InChain
  <2>10. CASE Commit
    BY <2>10 DEF Commit, Finish, Undoable
  <2>11. CASE CommitRefused
    <3>0. saved' = saved /\ ctl' \in {"rawEnsure", "rollback", "suspend"}
      BY <2>11 DEF CommitRefused, Goto, opVars
    <3>1. CASE op \in {"bypass", "add"} /\ master' = Undone
      BY <2>11, <3>0, <3>1, UndoneIntent DEF CommitRefused, Undoable, Intent
    <3>2. CASE op \notin {"bypass", "add"}
      <4>1. Intent(master) = Intent(saved.config)
        BY <2>11, <3>2 DEF CommitRefused, Undoable
      <4>2. Intent(master') = Intent(master)
        <5>1. \/ master' = master
              \/ master' = [master EXCEPT !.suspended = @ \cup {target}]
              \/ master' = [master EXCEPT !.degraded = @ \cup {target}]
          BY <2>11, <3>2 DEF CommitRefused
        <5> QED BY <5>1, StatesChanged
      <4> QED BY <3>0, <4>1, <4>2 DEF Undoable, Intent
    <3> QED BY <2>11, <3>1, <3>2 DEF CommitRefused
  <2>12. CASE PrepareFailed
    <3>1. CASE ctl' = "idle"
      BY <3>1 DEF Undoable
    <3>2. CASE op = "bypass" /\ master' = Undone /\ Goto("rawEnsure")
      BY <2>12, <3>2, UndoneIntent DEF PrepareFailed, Undoable, Intent, Goto, opVars
    <3>3. CASE op \in {"load", "latency", "shadowLatency"}
      <4>1. Intent(master) = Intent(saved.config)
        BY <2>12, <3>3 DEF PrepareFailed, Undoable
      <4>2. Intent(master') = Intent(master)
        BY <2>12, <3>3, StatesChanged DEF PrepareFailed
      <4>3. saved' = saved /\ ctl' \in {"rollback", "prepared"} /\ op' = op
        BY <2>12, <3>3 DEF PrepareFailed, Goto, opVars
      <4> QED BY <3>3, <4>1, <4>2, <4>3 DEF Undoable, Intent
    <3> QED BY <2>12, <3>1, <3>2, <3>3 DEF PrepareFailed, Finish
  <2>13. CASE SuspendRefused
    BY <2>13 DEF SuspendRefused, Finish, Undoable
  <2>14. CASE RawEnsure
    BY <2>14 DEF RawEnsure, Finish, Undoable
  <2>15. CASE PasteInserts
    BY <2>15 DEF PasteInserts, Goto, opVars, Undoable, SameBut, Intent, InChain
  <2>16. CASE PasteDone
    BY <2>16 DEF PasteDone, Finish, Undoable
  <2>17. CASE QuiescentRestore
    BY <2>17 DEF QuiescentRestore, Finish, Undoable
  <2>18. CASE StopTimesOut
    BY <2>18 DEF StopTimesOut, Finish, Undoable
  <2>19. CASE Terminated
    BY <2>19 DEF Terminated, Finish, Undoable
  <2>20. CASE StartDone
    BY <2>20 DEF StartDone, Finish, Undoable
  <2>21. CASE StartFails
    BY <2>21 DEF StartFails, Goto, opVars, Undoable, SameBut, Intent, InChain
  <2> QED BY <1>2, <2>1, <2>2, <2>3, <2>4, <2>5, <2>6, <2>7, <2>8, <2>9, <2>10, <2>11, <2>12,
     <2>13, <2>14, <2>15, <2>16, <2>17, <2>18, <2>19, <2>20, <2>21
     DEF Step
<1>3. CASE BlockBegins
  BY <1>3 DEF BlockBegins, ctlVars, opVars, Undoable, SameBut, Intent, InChain
<1>4. CASE BlockEnds
  BY <1>4 DEF BlockEnds, ctlVars, opVars, Undoable, SameBut, Intent, InChain
<1>5. CASE UNCHANGED vars
  BY <1>5 DEF vars, ctlVars, opVars, Undoable, SameBut, Intent, InChain
<1> QED BY <1>1, <1>2, <1>3, <1>4, <1>5 DEF Next

\* Every way back to idle publishes the master, or is refused.
LEMMA PublishedStep ==
  ASSUME IInv, Intact, [Next]_vars
  PROVE  Published'
<1>u. Published /\ Doing
  BY DEF Intact
<1> USE <1>u DEF Enter, Goto, Finish, Swap, SwapRefused, SwapUnchecked, PublishedIsMaster,
            Published, Keep, ctlVars, opVars, rtVars, Idle
<1>1. CASE Request
  <2>1. ASSUME NEW p \in Plugins, NEW o \in {"save", "load"}, BeginPreset(o, p)
        PROVE  Published'
    BY <2>1 DEF BeginPreset
  <2>2. ASSUME NEW p \in Plugins, BeginBypass(p)
        PROVE  Published'
    BY <2>2 DEF BeginBypass, BeginPrepared, Prepare
  <2>3. ASSUME NEW p \in Plugins, BeginAdd(p)
        PROVE  Published'
    BY <2>3 DEF BeginAdd, BeginPrepared, Prepare
  <2>4. ASSUME NEW p \in Plugins, BeginLatency(p)
        PROVE  Published'
    BY <2>4 DEF BeginLatency, BeginPrepared, Prepare
  <2>5. ASSUME NEW p \in Plugins, BeginShadowLatency(p)
        PROVE  Published'
    BY <2>5 DEF BeginShadowLatency, BeginPrepared, Prepare
  <2>6. ASSUME NEW p \in Plugins, BeginCapture(p)
        PROVE  Published'
    BY <2>6 DEF BeginCapture
  <2>7. ASSUME NEW p \in Plugins, BeginPaste(p)
        PROVE  Published'
    BY <2>7 DEF BeginPaste
  <2>8. ASSUME NEW i \in DOMAIN master.chain, BeginRemove(i)
        PROVE  Published'
    BY <2>8 DEF BeginRemove
  <2>9. ASSUME NEW from \in DOMAIN master.chain, NEW to \in DOMAIN master.chain,
               MovePlugin(from, to)
        PROVE  Published'
    BY <2>9 DEF MovePlugin
  <2>10. CASE BeginStop
    BY <2>10 DEF BeginStop
  <2>11. CASE BeginStart
    BY <2>11 DEF BeginStart
  <2> QED BY <1>1, <2>1, <2>2, <2>3, <2>4, <2>5, <2>6, <2>7, <2>8, <2>9, <2>10, <2>11 DEF Request
<1>2. CASE Step
  <2>1. CASE Drained
    BY <2>1 DEF Drained, AfterDrain
  <2>2. CASE PresetGivesUp
    BY <2>2 DEF PresetGivesUp
  <2>3. CASE SaveDone
    BY <2>3 DEF SaveDone
  <2>4. CASE LoadAccepted
    BY <2>4 DEF LoadAccepted
  <2>5. CASE LoadRejected
    BY <2>5 DEF LoadRejected
  <2>6. CASE LoadRolledBack
    BY <2>6 DEF LoadRolledBack
  <2>7. CASE PrepareTimesOut
    BY <2>7 DEF PrepareTimesOut
  <2>8. CASE EnsureDone
    BY <2>8 DEF EnsureDone
  <2>9. CASE EnsureFails
    BY <2>9 DEF EnsureFails, Doing
  <2>10. CASE Commit
    BY <2>10 DEF Commit
  <2>11. CASE CommitRefused
    BY <2>11 DEF CommitRefused
  <2>12. CASE PrepareFailed
    BY <2>12 DEF PrepareFailed
  <2>13. CASE SuspendRefused
    BY <2>13 DEF SuspendRefused
  <2>14. CASE RawEnsure
    BY <2>14 DEF RawEnsure
  <2>15. CASE PasteInserts
    BY <2>15 DEF PasteInserts
  <2>16. CASE PasteDone
    BY <2>16 DEF PasteDone
  <2>17. CASE QuiescentRestore
    BY <2>17 DEF QuiescentRestore, Doing
  <2>18. CASE StopTimesOut
    BY <2>18 DEF StopTimesOut, Doing
  <2>19. CASE Terminated
    BY <2>19 DEF Terminated, Doing
  <2>20. CASE StartDone
    BY <2>20 DEF StartDone
  <2>21. CASE StartFails
    BY <2>21 DEF StartFails
  <2> QED BY <1>2, <2>1, <2>2, <2>3, <2>4, <2>5, <2>6, <2>7, <2>8, <2>9, <2>10, <2>11, <2>12,
     <2>13, <2>14, <2>15, <2>16, <2>17, <2>18, <2>19, <2>20, <2>21
     DEF Step
<1>3. CASE BlockBegins
  BY <1>3 DEF BlockBegins
<1>4. CASE BlockEnds
  BY <1>4 DEF BlockEnds
<1>5. CASE UNCHANGED vars
  BY <1>5 DEF vars
<1> QED BY <1>1, <1>2, <1>3, <1>4, <1>5 DEF Next

LEMMA InitIntact == Init => Intact
<1> SUFFICES ASSUME Init PROVE Intact
  OBVIOUS
<1>1. master = NoSave.config /\ saved = NoSave
  BY DEF Init, NoSave
<1>2. Slots
  BY <1>1, NoSlots DEF Slots
<1> QED BY <1>2 DEF Init, Intact, Doing, Undoable, Published, PublishedIsMaster

\* Both invariants together are inductive.
LEMMA StaysIntact == Spec => [](IInv /\ Intact)
<1>1. Init => IInv /\ Intact
  BY InitGuarded, InitIntact
<1>2. IInv /\ Intact /\ [Next]_vars => (IInv /\ Intact)'
  <2> SUFFICES ASSUME IInv, Intact, [Next]_vars
               PROVE  (IInv /\ Intact)'
    OBVIOUS
  <2>1. IInv'
    BY StateStep, GuardStep DEF IInv
  <2>2. Slots' /\ Doing' /\ Undoable' /\ Published'
    BY SlotsStep, DoingStep, UndoableStep, PublishedStep
  <2> QED BY <2>1, <2>2 DEF Intact
<1> QED BY <1>1, <1>2, PTL DEF Spec

\* What FailureKeepsIntent says of a step.
Restored ==
  ~Idle /\ Idle' /\ outcome' = "failed" /\ op \notin {"start", "stop"}
    => Intent(master') = Intent(saved.config)

LEMMA FailureStep ==
  ASSUME IInv, Intact, [Next]_vars
  PROVE  Restored
<1>u. Slots /\ Undoable /\ Doing
  BY DEF Intact
<1> USE <1>u DEF Restored, Enter, Goto, Finish, opVars, ctlVars, Idle
<1>1. CASE Request
  <2>1. ASSUME NEW p \in Plugins, NEW o \in {"save", "load"}, BeginPreset(o, p)
        PROVE  Restored
    BY <2>1 DEF BeginPreset
  <2>2. ASSUME NEW p \in Plugins, BeginBypass(p)
        PROVE  Restored
    BY <2>2 DEF BeginBypass, BeginPrepared, Prepare
  <2>3. ASSUME NEW p \in Plugins, BeginAdd(p)
        PROVE  Restored
    BY <2>3 DEF BeginAdd, BeginPrepared, Prepare
  <2>4. ASSUME NEW p \in Plugins, BeginLatency(p)
        PROVE  Restored
    BY <2>4 DEF BeginLatency, BeginPrepared, Prepare
  <2>5. ASSUME NEW p \in Plugins, BeginShadowLatency(p)
        PROVE  Restored
    BY <2>5 DEF BeginShadowLatency, BeginPrepared, Prepare
  <2>6. ASSUME NEW p \in Plugins, BeginCapture(p)
        PROVE  Restored
    BY <2>6 DEF BeginCapture
  <2>7. ASSUME NEW p \in Plugins, BeginPaste(p)
        PROVE  Restored
    BY <2>7 DEF BeginPaste
  <2>8. ASSUME NEW i \in DOMAIN master.chain, BeginRemove(i)
        PROVE  Restored
    BY <2>8 DEF BeginRemove
  <2>9. ASSUME NEW from \in DOMAIN master.chain, NEW to \in DOMAIN master.chain,
               MovePlugin(from, to)
        PROVE  Restored
    BY <2>9 DEF MovePlugin
  <2>10. CASE BeginStop
    BY <2>10 DEF BeginStop
  <2>11. CASE BeginStart
    BY <2>11 DEF BeginStart
  <2> QED BY <1>1, <2>1, <2>2, <2>3, <2>4, <2>5, <2>6, <2>7, <2>8, <2>9, <2>10, <2>11 DEF Request
<1>2. CASE Step
  <2>1. CASE Drained
    BY <2>1 DEF Drained, AfterDrain
  <2>2. CASE PresetGivesUp
    BY <2>2, UnbypassedIntent DEF PresetGivesUp
  <2>3. CASE SaveDone
    BY <2>3, UnbypassedIntent DEF SaveDone
  <2>4. CASE LoadAccepted
    BY <2>4 DEF LoadAccepted
  <2>5. CASE LoadRejected
    BY <2>5 DEF LoadRejected
  <2>6. CASE LoadRolledBack
    BY <2>6, StatesChanged DEF LoadRolledBack, Undoable
  <2>7. CASE PrepareTimesOut
    BY <2>7 DEF PrepareTimesOut
  <2>8. CASE EnsureDone
    BY <2>8 DEF EnsureDone
  <2>9. CASE EnsureFails
    BY <2>9 DEF EnsureFails
  <2>10. CASE Commit
    BY <2>10 DEF Commit, Undoable
  <2>11. CASE CommitRefused
    BY <2>11 DEF CommitRefused
  <2>12. CASE PrepareFailed
    <3>1. Idle' => op = "add" /\ master' = Undone
      BY <2>12 DEF PrepareFailed, Goto
    <3> QED BY <2>12, <3>1, UndoneIntent DEF PrepareFailed
  <2>13. CASE SuspendRefused
    BY <2>13, StatesChanged DEF SuspendRefused, Undoable
  <2>14. CASE RawEnsure
    <3>1. master' = master \/ \E f \in Inject(Missing(master)) : master' = WithShadows(master, f)
      BY <2>14 DEF RawEnsure
    <3>2. Intent(master') = Intent(master)
      BY <3>1, WithShadowsSlots DEF IInv, TypeOK, Slots
    <3>3. outcome' = "failed" => op # "remove"
      BY <2>14 DEF RawEnsure
    <3> QED BY <2>14, <3>2, <3>3 DEF RawEnsure, Undoable
  <2>15. CASE PasteInserts
    BY <2>15 DEF PasteInserts
  <2>16. CASE PasteDone
    BY <2>16 DEF PasteDone
  <2>17. CASE QuiescentRestore
    BY <2>17 DEF QuiescentRestore
  <2>18. CASE StopTimesOut
    BY <2>18 DEF StopTimesOut, Doing
  <2>19. CASE Terminated
    BY <2>19 DEF Terminated, Doing
  <2>20. CASE StartDone
    BY <2>20 DEF StartDone, Doing
  <2>21. CASE StartFails
    BY <2>21 DEF StartFails
  <2> QED BY <1>2, <2>1, <2>2, <2>3, <2>4, <2>5, <2>6, <2>7, <2>8, <2>9, <2>10, <2>11, <2>12,
     <2>13, <2>14, <2>15, <2>16, <2>17, <2>18, <2>19, <2>20, <2>21
     DEF Step
<1>3. CASE BlockBegins
  BY <1>3 DEF BlockBegins
<1>4. CASE BlockEnds
  BY <1>4 DEF BlockEnds
<1>5. CASE UNCHANGED vars
  BY <1>5 DEF vars
<1> QED BY <1>1, <1>2, <1>3, <1>4, <1>5 DEF Next

-----------------------------------------------------------------------------
(***************************************************************************)
(* Theorems                                                                *)
(***************************************************************************)

\* The inductive invariant holds in every behaviour.
THEOREM Invariance == Spec => []IInv
<1>1. IInv /\ [Next]_vars => IInv'
  BY StateStep, GuardStep DEF IInv
<1> QED
  BY InitGuarded, <1>1, PTL DEF Spec

\* Well-typed at every step: the chains, flags and shadows stay those of slots that
\* add_plugin, move_plugin, remove_plugin and their rollbacks make.
THEOREM TypeCorrect == Spec => []TypeOK
BY Invariance, PTL DEF IInv

\* No block, in flight or to come, calls an instance while save_preset,
\* load_preset, prepare_monitor_variants, a quiescent section or stop works on it,
\* whatever timed out, failed or was refused before.
THEOREM AccessIsQuiescent == Spec => []QuiescentAccess
<1>1. IInv => QuiescentAccess
  <2> SUFFICES ASSUME IInv PROVE QuiescentAccess
    OBVIOUS
  <2>1. CASE ctl \in {"saveIO", "loadIO"}
    BY <2>1 DEF IInv, Guard, Touched, QuiescentAccess, Access
  <2>2. CASE ctl \in {"captureIO", "pasteEnsure", "terminate"}
    BY <2>2 DEF IInv, Guard, QuiescentAccess, Access
  <2>3. CASE ctl = "ensure" /\ running
    BY <2>3 DEF IInv, Guard, QuiescentAccess, Access
  <2> QED
    BY <2>1, <2>2, <2>3 DEF QuiescentAccess
<1> QED
  BY Invariance, <1>1, PTL

\* Once an operation is over, callbacks run the plan of what the control thread
\* holds, unless swap_graph was refused: after every bypass for an access, safety
\* graph, rollback and quiescent section, however it ended.
THEOREM CallbacksRunTheMaster == Spec => []PublishedIsMaster
<1>1. Intact => PublishedIsMaster
  BY DEF Intact, Published
<1> QED BY StaysIntact, <1>1, PTL

\* ensure_monitor_shadows, remove_plugin, move_plugin, insert_plugin_snapshot and
\* the rollbacks never leave two slots with one monitor_shadow, nor a shadow
\* without a slot.
THEOREM EveryShadowHasItsSlot == Spec => []ShadowsAreOwned
<1>1. IInv /\ Intact => ShadowsAreOwned
  BY DEF IInv, Ownership, Injective, Intact, Slots, SlotsOf, ShadowsAreOwned
<1> QED BY StaysIntact, <1>1, PTL

\* An operation that reports failure has put the chain and both bypass flags back
\* as it found them, whichever step failed and however much the rollback of the
\* graph failed too.
THEOREM FailuresKeepTheIntent == Spec => FailureKeepsIntent
<1>1. IInv /\ Intact /\ [Next]_vars => [Restored]_vars
  BY FailureStep
<1>2. Spec => [][Restored]_vars
  BY StaysIntact, <1>1, PTL DEF Spec
<1> QED BY <1>2 DEF FailureKeepsIntent, Restored

=============================================================================
