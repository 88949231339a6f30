-------------------------- MODULE SavedFile_proofs --------------------------
(***************************************************************************)
(* One writer loses no reported save, for any number of saves, failures    *)
(* and crashes, but for what it could not read; and no file is ever half a *)
(* version, short of a failed write beside another writer.                 *)
(*                                                                         *)
(* The invariant says where the reported edits are while the files move:   *)
(* in the file if there is one, else in the backup, and always in the text *)
(* that is about to replace it, unless the read before it missed them.     *)
(***************************************************************************)
EXTENDS SavedFile, TLAPS

Single == kind # "registry"
Sound  == Single \/ used.writes = 0

\* A temporary file that is not finished belongs to a writer that is at it, or to nobody.
Unfinished == \/ \E w \in Writers : At(w, "write")
              \/ \A w \in Writers : save[w].at \in {"idle", "discard"}
Unmoved == disk["main"] # Torn /\ disk["bak"] # Torn /\ (disk["tmp"] = Torn => Unfinished)
TornIsNotMoved == Sound => Unmoved

\* The text that is being written holds what was reported, and is whole when it moves.
TextIsComplete ==
  LET c == save["command"]
  IN  /\ save["scan"] = Idle
      /\ c.at # "idle" => known \subseteq c.has \cup c.missed /\ c.edit \in c.has
      /\ c.at \in {"look", "makeRoom", "keep", "replace"} => disk["tmp"] = Whole(c.has)
      /\ kind = "session" => known \subseteq memory /\ (c.at # "idle" => c.edit \in memory)

\* The backup is replaced or moved back only when the file is, or is not, there.
BackupIsSpare ==
  LET c == save["command"]
  IN  /\ c.at \in {"write", "look"} => ~c.hadOld
      /\ c.at \in {"makeRoom", "keep"} => disk["main"] # Absent
      /\ c.at = "rollback" \/ (c.at = "replace" /\ c.hadOld) => disk["main"] = Absent

Held == known \subseteq disk[IF disk["main"] # Absent THEN "main" ELSE "bak"].has

OneWriter == TextIsComplete /\ BackupIsSpare /\ Held

IInv == TypeOK /\ TornIsNotMoved /\ (Single => OneWriter)

-----------------------------------------------------------------------------
\* With one writer nobody else has the temporary file open.
LEMMA AloneIsUnlocked ==
  ASSUME TypeOK, TextIsComplete PROVE ~Locked("command")
BY DEF TextIsComplete, Locked, At, Idle, Writers, Single

\* A file has a version, a part of one, or nothing in it.
LEMMA FileStates ==
  ASSUME TypeOK, NEW f \in Names
  PROVE  /\ disk[f] \in Files
         /\ disk[f] # Absent /\ disk[f] # Torn => IsWhole(f)
         /\ disk[f] = Absent => ~IsWhole(f) /\ disk[f].has = {}
         /\ ~IsWhole(f) => disk[f].has = {}
BY DEF TypeOK, Files, Absent, Torn, IsWhole

\* A reader of the settings whose reads succeed finds what is held.
LEMMA HeldIsRead ==
  ASSUME TypeOK, Single, TornIsNotMoved, Held PROVE known \subseteq ReadDoc({})
<1>1. CASE disk["main"] = Absent
  BY <1>1, FileStates DEF Names, Held, ReadDoc, Single
<1>2. CASE disk["main"] # Absent
  BY <1>2, FileStates DEF Names, Held, ReadDoc, TornIsNotMoved, Unmoved, Sound
<1>. QED  BY <1>1, <1>2

LEMMA InitInvariant == Init => IInv
<1>. SUFFICES ASSUME Init PROVE IInv
  OBVIOUS
<1>. USE DEF Init
<1>1. TypeOK
  BY BoundsAssumption DEF TypeOK, Counts, Files, Absent, Names, Records
<1>2. TornIsNotMoved
  BY DEF TornIsNotMoved, Unmoved, Unfinished, Absent, Torn, Names, Idle
<1>3. OneWriter
  BY DEF OneWriter, TextIsComplete, BackupIsSpare, Held, Idle, Writers, Names
<1>. QED  BY <1>1, <1>2, <1>3 DEF IInv

-----------------------------------------------------------------------------
(* Types.                                                                  *)

LEMMA WholeIsFile == ASSUME NEW e \in SUBSET Edits PROVE Whole(e) \in Files
BY DEF Whole, Files

LEMMA Typed ==
  ASSUME TypeOK
  PROVE  /\ Absent \in Files /\ Torn \in Files
         /\ \A lost : ReadDoc(lost) \in SUBSET Edits
         /\ Opened \in SUBSET Edits
         /\ \A f, g \in Names : Moved(f, g) \in [Names -> Files]
         /\ \A f \in Names, x \in Files : [disk EXCEPT ![f] = x] \in [Names -> Files]
<1>1. Absent \in Files /\ Torn \in Files
  BY DEF Absent, Torn, Files
<1>2. disk \in [Names -> Files] /\ \A f \in Names : disk[f].has \in SUBSET Edits
  BY DEF TypeOK, Files
<1>3. (\A lost : ReadDoc(lost) \in SUBSET Edits) /\ Opened \in SUBSET Edits
  BY <1>2 DEF ReadDoc, Opened, Names
<1>4. \A f, g \in Names : Moved(f, g) \in [Names -> Files]
  BY <1>1, <1>2 DEF Moved
<1>. QED  BY <1>1, <1>2, <1>3, <1>4

LEMMA TextTyped == ASSUME TypeOK, NEW w \in Writers PROVE save[w].has \in SUBSET Edits
BY DEF TypeOK, Records, Saves, Idle

LEMMA MovedOn ==
  ASSUME TypeOK, NEW w \in Writers, NEW place \in Places, ~At(w, "idle"), Goto(w, place)
  PROVE  save' \in [Writers -> Records]
<1>1. save[w] \in Saves
  BY DEF TypeOK, Records, At, Idle, Saves
<1>. QED  BY <1>1 DEF TypeOK, Goto, Records, Saves

LEMMA GivenUp ==
  ASSUME TypeOK, NEW w \in Writers, Ended(w)
  PROVE  save' \in [Writers -> Records]
BY DEF TypeOK, Ended, Records

LEMMA Failed ==
  ASSUME TypeOK, Fail
  PROVE  used' \in Counts /\ used'.writes = used.writes
BY BoundsAssumption DEF TypeOK, Counts, MayFail, Fail

LEMMA WriteFailed ==
  ASSUME TypeOK, FailToWrite
  PROVE  used' \in Counts /\ used'.writes # 0
<1>1. used.faults + 1 \in 0 .. MaxFaults /\ used.writes + 1 \in Nat \ {0}
  BY BoundsAssumption DEF TypeOK, Counts, MayFail, FailToWrite
<1>. QED  BY <1>1 DEF TypeOK, Counts, FailToWrite

LEMMA StepTyped == TypeOK /\ [Next]_vars => TypeOK'
<1>. SUFFICES ASSUME TypeOK, [Next]_vars PROVE TypeOK'
  OBVIOUS
<1>1. ASSUME NEW w \in Writers, Open(w) PROVE TypeOK'
  <2>. DEFINE edit == used.saves + 1
  <2>1. PICK lost \in Lost :
          /\ used' = [used EXCEPT !.saves = edit, !.faults = IF lost = {} THEN @ ELSE @ + 1]
          /\ memory' = IF kind = "settings" \/ w = "scan" THEN memory ELSE Text(edit, lost)
          /\ IF Locked(w) \/ "tmp" \in lost
             THEN UNCHANGED <<disk, save>>
             ELSE /\ disk' = [disk EXCEPT !["tmp"] = Torn]
                  /\ save' = [save EXCEPT ![w] = Begin(edit, lost)]
    BY <1>1 DEF Open
  <2>2. used' \in Counts /\ edit \in Edits
    <3>1. used \in Counts /\ used.saves < MaxSaves /\ (lost # {} => used.faults < MaxFaults)
      BY <1>1, <2>1 DEF Open, TypeOK, Lost, MayFail
    <3>2. edit \in 1 .. MaxSaves /\ edit \in 0 .. MaxSaves
      BY <3>1, BoundsAssumption DEF Counts
    <3>3. CASE lost = {}
      <4>1. used' = [used EXCEPT !.saves = edit]
        BY <2>1, <3>1, <3>3 DEF Counts
      <4>. QED  BY <3>1, <3>2, <4>1, BoundsAssumption DEF Counts, Edits
    <3>4. CASE lost # {}
      <4>1. used' = [used EXCEPT !.saves = edit, !.faults = @ + 1]
        BY <2>1, <3>4
      <4>2. used.faults + 1 \in 0 .. MaxFaults
        BY <3>1, <3>4, BoundsAssumption DEF Counts
      <4>. QED  BY <3>1, <3>2, <4>1, <4>2 DEF Counts, Edits
    <3>. QED  BY <3>3, <3>4
  <2>3. Text(edit, lost) \in SUBSET Edits /\ Missed(lost) \in SUBSET Edits
    BY <2>2, Typed DEF Text, Missed, TypeOK
  <2>4. memory' \in SUBSET Edits
    BY <2>1, <2>3 DEF TypeOK
  <2>5. disk' \in [Names -> Files]
    BY <2>1, Typed DEF Names, TypeOK
  <2>6. Begin(edit, lost) \in Records
    BY <2>2, <2>3 DEF Begin, Saves, Places, Records
  <2>7. save' \in [Writers -> Records]
    BY <2>1, <2>6 DEF TypeOK
  <2>. QED  BY <1>1, <2>2, <2>4, <2>5, <2>7 DEF Open, TypeOK
<1>2. ASSUME NEW w \in Writers, Write(w) PROVE TypeOK'
  <2>1. Whole(save[w].has) \in Files
    BY WholeIsFile, TextTyped
  <2>2. disk' \in [Names -> Files]
    BY <1>2, <2>1, Typed DEF Write, Names, TypeOK
  <2>3. PICK place \in {"look", "discard"} : Goto(w, place)
    BY <1>2 DEF Write
  <2>. QED  BY <1>2, <2>2, <2>3, MovedOn, WriteFailed DEF Write, TypeOK, At, Places
<1>3. ASSUME NEW w \in Writers, Look(w) PROVE TypeOK'
  <2>1. save' \in [Writers -> Records]
    <3>1. CASE Goto(w, "replace")
      BY <1>3, <3>1, MovedOn DEF Look, At, Places
    <3>2. CASE ~Goto(w, "replace")
      BY <1>3, <3>2 DEF Look, At, Places, TypeOK, Records, Saves, Idle
    <3>. QED  BY <3>1, <3>2
  <2>. QED  BY <1>3, <2>1, Failed DEF Look, TypeOK
<1>4. ASSUME NEW w \in Writers, MakeRoom(w) PROVE TypeOK'
  <2>1. disk' \in [Names -> Files]
    BY <1>4, Typed DEF MakeRoom, Names, TypeOK
  <2>. QED  BY <1>4, <2>1, MovedOn, Failed DEF MakeRoom, TypeOK, At, Places
<1>5. ASSUME NEW w \in Writers, Keep(w) PROVE TypeOK'
  <2>1. disk' \in [Names -> Files]
    BY <1>5, Typed DEF Keep, Names, TypeOK
  <2>2. PICK place \in {"replace", "discard"} : Goto(w, place)
    BY <1>5 DEF Keep
  <2>3. used' \in Counts
    BY <1>5, Failed DEF Keep, TypeOK
  <2>. QED  BY <1>5, <2>1, <2>2, <2>3, MovedOn DEF Keep, TypeOK, At, Places
<1>6. ASSUME NEW w \in Writers, Replace(w), Replaced(w) PROVE TypeOK'
  <2>1. disk' \in [Names -> Files]
    BY <1>6, Typed DEF Replaced, Names
  <2>2. save[w].edit \in Edits
    BY <1>6 DEF TypeOK, Replace, At, Records, Saves, Idle
  <2>3. known' \in SUBSET Edits /\ memory' \in SUBSET Edits
    BY <1>6, <2>2, TextTyped DEF Replaced, TypeOK
  <2>. QED  BY <1>6, <2>1, <2>3, GivenUp DEF Replace, Replaced, TypeOK
<1>7. ASSUME NEW w \in Writers, Replace(w), NotReplaced(w) PROVE TypeOK'
  <2>1. disk' \in [Names -> Files]
    BY <1>7, Typed DEF NotReplaced, Names, TypeOK
  <2>2. used' \in Counts
    BY <1>7, Failed DEF NotReplaced, TypeOK
  <2>3. save' \in [Writers -> Records]
    BY <1>7, MovedOn, GivenUp DEF Replace, NotReplaced, At, Places
  <2>. QED  BY <1>7, <2>1, <2>2, <2>3 DEF Replace, NotReplaced, TypeOK
<1>8. ASSUME NEW w \in Writers, Rollback(w) \/ Discard(w) PROVE TypeOK'
  <2>1. disk' \in [Names -> Files]
    BY <1>8, Typed DEF Rollback, Discard, Names, TypeOK
  <2>2. used' \in Counts
    BY <1>8, Failed DEF Rollback, Discard, TypeOK
  <2>. QED  BY <1>8, <2>1, <2>2, GivenUp DEF Rollback, Discard, TypeOK
<1>9. ASSUME Crash PROVE TypeOK'
  <2>1. PICK found \in Found :
          /\ used' = [used EXCEPT !.crashes = @ + 1, !.faults = IF found = Opened THEN @ ELSE @ + 1]
          /\ memory' = IF kind = "settings" THEN memory ELSE found
          /\ known' = IF kind = "settings" THEN known ELSE known \cap found
    BY <1>9 DEF Crash
  <2>2. used' \in Counts
    <3>1. /\ used \in Counts /\ used.crashes < MaxCrashes
          /\ found # Opened => used.faults < MaxFaults
      BY <1>9, <2>1 DEF Crash, TypeOK, Found, MayFail
    <3>2. used.crashes + 1 \in 0 .. MaxCrashes
      BY <3>1, BoundsAssumption DEF Counts
    <3>3. CASE found = Opened
      <4>1. used' = [used EXCEPT !.crashes = @ + 1]
        BY <2>1, <3>1, <3>3 DEF Counts
      <4>. QED  BY <3>1, <3>2, <4>1 DEF Counts
    <3>4. CASE found # Opened
      <4>1. used' = [used EXCEPT !.crashes = @ + 1, !.faults = @ + 1]
        BY <2>1, <3>4
      <4>2. used.faults + 1 \in 0 .. MaxFaults
        BY <3>1, <3>4, BoundsAssumption DEF Counts
      <4>. QED  BY <3>1, <3>2, <4>1, <4>2 DEF Counts
    <3>. QED  BY <3>3, <3>4
  <2>3. found \in SUBSET Edits
    BY <2>1, Typed DEF Found
  <2>. QED  BY <1>9, <2>1, <2>2, <2>3 DEF Crash, TypeOK, Records
<1>10. CASE UNCHANGED vars
  BY <1>10 DEF vars, TypeOK
<1>. QED  BY <1>1, <1>2, <1>3, <1>4, <1>5, <1>6, <1>7, <1>8, <1>9, <1>10 DEF Next, Replace

-----------------------------------------------------------------------------
(* A part of a version is never moved.                                     *)

LEMMA OthersStay ==
  ASSUME TypeOK, NEW w \in Writers, NEW place, Goto(w, place) \/ Ended(w)
  PROVE  /\ \A v \in Writers \ {w} : save'[v] = save[v]
         /\ save'[w].at \in {place, "idle"}
BY DEF TypeOK, Goto, Ended, Idle, Records, Saves

LEMMA StepTorn == IInv /\ [Next]_vars => TornIsNotMoved'
<1>. SUFFICES ASSUME IInv, [Next]_vars, Sound', kind' = kind PROVE Unmoved'
  BY DEF TornIsNotMoved, Next, vars, Open, Write, Look, MakeRoom, Keep, Replace, Rollback, Discard, Crash
<1>1. Sound
  <2>1. /\ Fail => used'.writes = used.writes
        /\ FailToWrite => used'.writes # 0
    BY Failed, WriteFailed DEF IInv
  <2>2. used'.writes = 0 => used.writes = 0
    BY <2>1 DEF Next, vars, Open, Write, Look, MakeRoom, Keep, Replace, Replaced, NotReplaced,
                Rollback, Discard, Crash, IInv, TypeOK, Counts
  <2>. QED  BY <2>2 DEF Sound, Single
<1>2. Unmoved
  BY <1>1 DEF IInv, TornIsNotMoved
<1>3. disk \in [Names -> Files] /\ Absent # Torn
  BY DEF IInv, TypeOK, Absent, Torn
<1>4. ASSUME NEW w \in Writers, NEW place, Goto(w, place) \/ Ended(w), ~At(w, "write"),
             ~At(w, "idle"), place = "idle" \/ ~At(w, "discard"),
             disk'["tmp"] \in {disk["tmp"], Absent}
      PROVE  disk'["tmp"] = Torn => Unfinished'
  <2>1. CASE \E v \in Writers : At(v, "write")
    BY <1>4, <2>1, OthersStay DEF Unmoved, Unfinished, At, IInv
  <2>2. CASE ~ \E v \in Writers : At(v, "write")
    BY <1>2, <1>3, <1>4, <2>2, OthersStay DEF Unmoved, Unfinished, At, IInv
  <2>. QED  BY <2>1, <2>2
<1>5. ASSUME NEW w \in Writers, Open(w) PROVE Unmoved'
  <2>1. CASE UNCHANGED <<disk, save>>
    BY <1>2, <2>1 DEF Unmoved, Unfinished, At
  <2>2. CASE ~UNCHANGED <<disk, save>>
    <3>1. disk' = [disk EXCEPT !["tmp"] = Torn] /\ save'[w].at = "write"
      BY <1>5, <2>2 DEF Open, Begin, IInv, TypeOK
    <3>. QED  BY <1>2, <1>3, <3>1 DEF Unmoved, Unfinished, At, Names
  <2>. QED  BY <2>1, <2>2
<1>6. ASSUME NEW w \in Writers, Write(w) PROVE Unmoved'
  <2>1. CASE disk' = [disk EXCEPT !["tmp"] = Whole(save[w].has)]
    BY <1>2, <1>3, <2>1 DEF Unmoved, Unfinished, Names, Whole, Torn
  <2>2. CASE FailToWrite /\ Goto(w, "discard") /\ UNCHANGED disk
    <3>1. Single
      BY <2>2, WriteFailed DEF IInv, Sound, Single
    <3>2. save["scan"] = Idle /\ w = "command"
      BY <1>6, <3>1 DEF IInv, OneWriter, TextIsComplete, Write, At, Idle, Writers
    <3>. QED  BY <1>2, <2>2, <3>2, OthersStay DEF Unmoved, Unfinished, IInv, Idle, Writers
  <2>. QED  BY <1>6, <2>1, <2>2 DEF Write
<1>7. ASSUME NEW w \in Writers, Look(w) PROVE Unmoved'
  <2>1. \A v \in Writers \ {w} : save'[v] = save[v]
    BY <1>7, OthersStay DEF Look, IInv, TypeOK
  <2>. QED  BY <1>2, <1>7, <2>1 DEF Unmoved, Unfinished, Look, At
<1>8. ASSUME NEW w \in Writers, MakeRoom(w) PROVE Unmoved'
  <2>1. disk'["main"] = disk["main"] /\ disk'["bak"] \in {disk["bak"], Absent} /\ disk'["tmp"] = disk["tmp"]
    BY <1>3, <1>8 DEF MakeRoom, Names
  <2>. QED  BY <1>2, <1>3, <1>4, <1>8, <2>1 DEF Unmoved, Unfinished, MakeRoom, At
<1>9. ASSUME NEW w \in Writers, Keep(w) PROVE Unmoved'
  <2>1. /\ disk'["main"] \in {disk["main"], Absent} /\ disk'["bak"] \in {disk["bak"], disk["main"]}
        /\ disk'["tmp"] = disk["tmp"]
    BY <1>3, <1>9 DEF Keep, Moved, Names
  <2>2. PICK place \in {"replace", "discard"} : Goto(w, place)
    BY <1>9 DEF Keep
  <2>. QED  BY <1>2, <1>3, <1>4, <1>9, <2>1, <2>2 DEF Unmoved, Unfinished, Keep, At
<1>10. ASSUME NEW w \in Writers, Replace(w) PROVE Unmoved'
  <2>1. CASE Replaced(w)
    <3>1. disk["tmp"] # Torn
      BY <1>2, <1>10, <2>1 DEF Unmoved, Unfinished, Replace, Replaced, Locked, At
    <3>2. disk'["main"] = disk["tmp"] /\ disk'["bak"] = disk["bak"] /\ disk'["tmp"] = Absent
      BY <1>3, <2>1 DEF Replaced, Moved, Names
    <3>. QED  BY <1>2, <1>3, <3>1, <3>2 DEF Unmoved
  <2>2. CASE NotReplaced(w)
    <3>1. disk'["main"] = disk["main"] /\ disk'["bak"] = disk["bak"] /\ disk'["tmp"] \in {disk["tmp"], Absent}
      BY <1>3, <2>2 DEF NotReplaced, Names
    <3>. QED  BY <1>2, <1>3, <1>4, <1>10, <2>2, <3>1 DEF Unmoved, Unfinished, Replace, NotReplaced, At
  <2>. QED  BY <1>10, <2>1, <2>2 DEF Replace
<1>11. ASSUME NEW w \in Writers, Rollback(w) \/ Discard(w) PROVE Unmoved'
  <2>1. /\ disk'["main"] \in {disk["main"], disk["bak"]} /\ disk'["bak"] \in {disk["bak"], Absent}
        /\ disk'["tmp"] \in {disk["tmp"], Absent}
    BY <1>3, <1>11 DEF Rollback, Discard, Moved, Names
  <2>. QED  BY <1>2, <1>3, <1>4, <1>11, <2>1 DEF Unmoved, Unfinished, Rollback, Discard, At
<1>12. CASE Crash
  BY <1>2, <1>12 DEF Unmoved, Unfinished, Crash, At, Idle
<1>13. CASE UNCHANGED vars
  BY <1>2, <1>13 DEF Unmoved, Unfinished, vars, At
<1>. QED  BY <1>5, <1>6, <1>7, <1>8, <1>9, <1>10, <1>11, <1>12, <1>13 DEF Unmoved, Unfinished, Next

-----------------------------------------------------------------------------
(* One writer.                                                             *)

\* Of the writer's record only the place changes.
LEMMA Going ==
  ASSUME TypeOK, NEW place, Goto("command", place)
  PROVE  /\ save'["scan"] = save["scan"]
         /\ save'["command"].at = place
         /\ save'["command"].has = save["command"].has
         /\ save'["command"].missed = save["command"].missed
         /\ save'["command"].edit = save["command"].edit
         /\ save'["command"].hadOld = save["command"].hadOld
<1>1. CASE save["command"] = Idle
  BY <1>1 DEF TypeOK, Goto, Writers, Idle
<1>2. CASE save["command"] \in Saves
  BY <1>2 DEF TypeOK, Goto, Writers
<1>. QED  BY <1>1, <1>2 DEF TypeOK, Records, Writers

LEMMA Ending ==
  ASSUME TypeOK, Ended("command")
  PROVE  save'["scan"] = save["scan"] /\ save'["command"] = Idle /\ save'["command"].at = "idle"
BY DEF TypeOK, Ended, Writers, Idle

LEMMA StepAlone == IInv /\ Single /\ [Next]_vars => OneWriter'
<1>. SUFFICES ASSUME IInv, Single, [Next]_vars PROVE OneWriter'
  OBVIOUS
<1>1. /\ TypeOK /\ TornIsNotMoved /\ OneWriter /\ ~Locked("command")
      /\ disk \in [Names -> Files] /\ save \in [Writers -> Records]
  BY AloneIsUnlocked DEF IInv, TypeOK, OneWriter
<1>2. (\A e : Whole(e) # Absent) /\ \A e : Whole(e).has = e
  BY DEF Whole, Absent
<1>3. \A w \in Writers : ~At(w, "idle") => w = "command"
  BY <1>1 DEF Writers, At, Idle, OneWriter, TextIsComplete
<1>. USE DEF OneWriter, TextIsComplete, BackupIsSpare, Held
<1>4. ASSUME Open("command") PROVE OneWriter'
  <2>. DEFINE edit == used.saves + 1
  <2>1. PICK lost \in Lost :
          /\ kind = "session" => memory' = Text(edit, lost)
          /\ \/ UNCHANGED <<disk, save>>
             \/ /\ disk' = [disk EXCEPT !["tmp"] = Torn]
                /\ save' = [save EXCEPT !["command"] = Begin(edit, lost)]
    BY <1>4 DEF Open
  <2>2. /\ known \subseteq Text(edit, lost) \cup Missed(lost) /\ edit \in Text(edit, lost)
        /\ kind = "session" => known \subseteq Text(edit, lost)
    BY <1>1, HeldIsRead, KindsAssumption DEF Text, Missed, TypeOK, Single
  <2>3. known' = known /\ kind' = kind /\ save["command"].at = "idle"
    BY <1>4 DEF Open, At
  <2>4. CASE UNCHANGED <<disk, save>>
    BY <1>1, <2>1, <2>2, <2>3, <2>4
  <2>5. CASE disk' = [disk EXCEPT !["tmp"] = Torn] /\ save' = [save EXCEPT !["command"] = Begin(edit, lost)]
    <3>1. save'["scan"] = save["scan"] /\ save'["command"] = Begin(edit, lost)
      BY <1>1, <2>5 DEF Writers
    <3>2. disk'["main"] = disk["main"] /\ disk'["bak"] = disk["bak"]
      BY <1>1, <2>5 DEF Names
    <3>. QED  BY <1>1, <2>1, <2>2, <2>3, <3>1, <3>2 DEF Begin
  <2>. QED  BY <2>1, <2>4, <2>5
<1>5. ASSUME Write("command") PROVE OneWriter'
  <2>1. PICK place \in {"look", "discard"} :
          /\ Goto("command", place)
          /\ disk' = IF place = "look" THEN [disk EXCEPT !["tmp"] = Whole(save["command"].has)] ELSE disk
    BY <1>5 DEF Write
  <2>2. save["command"].at = "write" /\ UNCHANGED <<kind, memory, known>>
    BY <1>5 DEF Write, At
  <2>. QED  BY <1>1, <2>1, <2>2, Going DEF Names
<1>6. ASSUME Look("command") PROVE OneWriter'
  <2>1. save["command"].at = "look" /\ UNCHANGED <<kind, disk, memory, known>>
    BY <1>6 DEF Look, At
  <2>2. CASE Goto("command", "replace")
    BY <1>1, <2>1, <2>2, Going
  <2>3. CASE ~Goto("command", "replace")
    <3>1. save["command"] \in Saves
      BY <1>1, <2>1 DEF Records, Idle, Writers
    <3>2. save' = [save EXCEPT !["command"].hadOld = disk["main"] # Absent,
                     !["command"].at = IF disk["main"] # Absent THEN "makeRoom" ELSE "replace"]
      BY <1>6, <2>3 DEF Look
    <3>3. /\ save'["scan"] = save["scan"]
          /\ save'["command"].at = IF disk["main"] # Absent THEN "makeRoom" ELSE "replace"
          /\ save'["command"].has = save["command"].has
          /\ save'["command"].missed = save["command"].missed
          /\ save'["command"].edit = save["command"].edit
          /\ save'["command"].hadOld = (disk["main"] # Absent)
      BY <1>1, <3>1, <3>2 DEF Writers
    <3>. QED  BY <1>1, <2>1, <3>3
  <2>. QED  BY <2>2, <2>3
<1>7. ASSUME MakeRoom("command") PROVE OneWriter'
  <2>1. Goto("command", "keep") /\ save["command"].at = "makeRoom" /\ UNCHANGED <<kind, memory, known>>
    BY <1>7 DEF MakeRoom, At
  <2>2. disk'["main"] = disk["main"] /\ disk'["tmp"] = disk["tmp"]
    BY <1>1, <1>7 DEF MakeRoom, Names
  <2>. QED  BY <1>1, <2>1, <2>2, Going
<1>8. ASSUME Keep("command") PROVE OneWriter'
  <2>1. save["command"].at = "keep" /\ UNCHANGED <<kind, memory, known>>
    BY <1>8 DEF Keep, At
  <2>2. CASE disk' = Moved("main", "bak") /\ Goto("command", "replace")
    <3>1. disk'["bak"] = disk["main"] /\ disk'["main"] = Absent /\ disk'["tmp"] = disk["tmp"]
      BY <1>1, <2>2 DEF Moved, Names
    <3>. QED  BY <1>1, <2>1, <2>2, <3>1, Going
  <2>3. CASE UNCHANGED disk /\ Goto("command", "discard")
    BY <1>1, <2>1, <2>3, Going
  <2>. QED  BY <1>8, <2>2, <2>3 DEF Keep
<1>9. ASSUME Replace("command"), Replaced("command") PROVE OneWriter'
  <2>1. /\ save["command"].at = "replace" /\ kind' = kind /\ memory' = memory
        /\ known' = (known \ save["command"].missed) \cup {save["command"].edit} /\ Ended("command")
    BY <1>9 DEF Replace, Replaced, At
  <2>2. disk'["main"] = Whole(save["command"].has)
    BY <1>1, <1>9, <2>1 DEF Replaced, Moved, Names
  <2>. QED  BY <1>1, <1>2, <2>1, <2>2, Ending
<1>10. ASSUME Replace("command"), NotReplaced("command") PROVE OneWriter'
  <2>1. /\ save["command"].at = "replace" /\ UNCHANGED <<kind, memory, known>>
        /\ IF save["command"].hadOld THEN Goto("command", "rollback") ELSE Ended("command")
    BY <1>10 DEF Replace, NotReplaced, At
  <2>2. disk'["main"] = disk["main"] /\ disk'["bak"] = disk["bak"]
    BY <1>1, <1>10 DEF NotReplaced, Names
  <2>3. CASE save["command"].hadOld
    <3>1. /\ Goto("command", "rollback") /\ UNCHANGED <<kind, memory, known>>
          /\ save["command"].at = "replace" /\ disk["main"] = Absent
      BY <1>1, <2>1, <2>3
    <3>. QED  BY <1>1, <2>2, <3>1, Going
  <2>4. CASE ~save["command"].hadOld
    BY <1>1, <2>1, <2>2, <2>4, Ending
  <2>. QED  BY <2>3, <2>4
<1>11. ASSUME Rollback("command") PROVE OneWriter'
  BY <1>1, <1>11 DEF Rollback, At, Ended, Idle, Names, Writers, Moved
<1>12. ASSUME Discard("command") PROVE OneWriter'
  BY <1>1, <1>12 DEF Discard, At, Ended, Idle, Names, Writers
<1>13. ASSUME Crash PROVE OneWriter'
  <2>1. PICK found \in Found :
          /\ memory' = IF kind = "settings" THEN memory ELSE found
          /\ known' = IF kind = "settings" THEN known ELSE known \cap found
    BY <1>13 DEF Crash
  <2>2. kind # "settings" => known' \subseteq Opened /\ known' \subseteq memory'
    BY <2>1 DEF Found
  <2>. QED  BY <1>1, <1>13, <2>1, <2>2 DEF Crash, Opened, Idle, Writers, Single
<1>14. CASE UNCHANGED vars
  BY <1>1, <1>14 DEF vars
<1>. QED
  <2>1. \A w \in Writers : Open(w) => w = "command"
    BY <1>1 DEF Open, MayWrite, Writers, Single
  <2>2. \A w \in Writers : Write(w) \/ Look(w) \/ MakeRoom(w) \/ Keep(w) \/ Replace(w) \/ Rollback(w) \/ Discard(w)
          => w = "command"
    BY <1>3 DEF Write, Look, MakeRoom, Keep, Replace, Rollback, Discard, At
  <2>3. Replace("command") => Replaced("command") \/ NotReplaced("command")
    BY DEF Replace
  <2>. QED
    BY <1>4, <1>5, <1>6, <1>7, <1>8, <1>9, <1>10, <1>11, <1>12, <1>13, <1>14, <2>1, <2>2, <2>3 DEF Next

-----------------------------------------------------------------------------
(* The theorems.                                                           *)

\* The invariant holds in every state.
THEOREM Invariance == Spec => []IInv
<1>1. Init => IInv
  BY InitInvariant
<1>2. IInv /\ [Next]_vars => IInv'
  <2>. SUFFICES ASSUME IInv, [Next]_vars PROVE IInv'
    OBVIOUS
  <2>1. Single' => Single
    BY DEF Single, Next, vars, Open, Write, Look, MakeRoom, Keep, Replace, Rollback, Discard, Crash
  <2>. QED  BY <2>1, StepTyped, StepTorn, StepAlone DEF IInv
<1>. QED  BY <1>1, <1>2, PTL DEF Spec

(* No interruption, failure or second writer leaves half a version in the  *)
(* place of the file, short of a failed write beside another writer's.     *)
THEOREM FileIsNeverHalf == Spec => []NeverHalf
<1>1. IInv => NeverHalf
  <2>1. IInv => used.writes \in Nat
    BY DEF IInv, TypeOK, Counts
  <2>. QED  BY <2>1 DEF IInv, TornIsNotMoved, Unmoved, Sound, Single, NeverHalf
<1>. QED  BY <1>1, Invariance, PTL

(* One writer's reported saves are in the file or in its backup, for any   *)
(* number of saves, failures and crashes, but for those that a save of the *)
(* settings could not read or a new process could not open.                *)
THEOREM ReportedSavesAreKept == Spec => []ReportedIsKept
<1>1. IInv => ReportedIsKept
  BY DEF IInv, OneWriter, Held, Single, ReportedIsKept
<1>. QED  BY <1>1, Invariance, PTL

(* Whatever failed or ended before, a reader of the settings finds every   *)
(* reported setting, but for those that a save could not read: they are    *)
(* all that is lost.                                                       *)
THEOREM ReadersFindSettings == Spec => []SettingsAreFound
<1>1. IInv => SettingsAreFound
  BY HeldIsRead DEF IInv, OneWriter, Single, SettingsAreFound
<1>. QED  BY <1>1, Invariance, PTL
=============================================================================
