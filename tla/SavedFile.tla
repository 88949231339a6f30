----------------------------- MODULE SavedFile -----------------------------
(***************************************************************************)
(* A file that is replaced by a new version through a temporary file and a *)
(* backup.  The session, the plugin registry and the settings are written  *)
(* by three implementations of the same scheme; what differs is who writes *)
(* (a scan thread and a retried plugin may both write the registry) and    *)
(* who reads the backup (only the settings do).                            *)
(*                                                                         *)
(* The steps are the calls to the file system: the process can end, and a  *)
(* call can fail, at each of them, the reads before a save included.  A    *)
(* rename is atomic and replaces its target, and what _commit or sync_all  *)
(* has written stays written.                                              *)
(***************************************************************************)
EXTENDS Integers

CONSTANTS Kinds,                             \* the files to consider
          MaxSaves, MaxFaults, MaxCrashes    \* bounds

ASSUME KindsAssumption  == Kinds \subseteq {"session", "registry", "settings"}
ASSUME BoundsAssumption == {MaxSaves, MaxFaults, MaxCrashes} \subseteq Nat

VARIABLES
  kind,      \* which file this is
  disk,      \* the file, its backup and its temporary file
  memory,    \* what the running process would write
  known,     \* the edits whose save was reported as done, but for those given up
  save,      \* what each writer is doing
  used       \* how much of each bound is used, and how many writes failed

vars == <<kind, disk, memory, known, save, used>>

Edits == 1 .. MaxSaves
Names == {"main", "bak", "tmp"}
Files == [state : {"absent", "torn"}, has : {{}}] \cup [state : {"whole"}, has : SUBSET Edits]
Absent   == [state |-> "absent", has |-> {}]
Torn     == [state |-> "torn", has |-> {}]
Whole(e) == [state |-> "whole", has |-> e]

Writers == {"command", "scan"}
Places  == {"write", "look", "makeRoom", "keep", "replace", "rollback", "discard"}
Idle    == [at |-> "idle", has |-> {}, missed |-> {}, edit |-> 0, hadOld |-> FALSE]
Saves   == [at : Places, has : SUBSET Edits, missed : SUBSET Edits, edit : Edits, hadOld : BOOLEAN]
Records == {Idle} \cup Saves

\* A plugin that is retried saves the registry beside the scan's thread.
MayWrite(w) == w = "command" \/ kind = "registry"

Counts == [saves : 0 .. MaxSaves, faults : 0 .. MaxFaults, writes : Nat,
           crashes : 0 .. MaxCrashes]

IsWhole(f) == disk[f].state = "whole"

\* load and vst_registry::load know the file only.
Opened == disk["main"].has

\* Fault: the settings are read from their file alone.
ReadDoc_Plain(lost) == IF "main" \in lost THEN {} ELSE disk["main"].has

\* read_doc takes the backup when the file is missing or damaged or cannot be read,
\* and nothing when the backup is no better.  lost: the files that cannot be read.
ReadDoc(lost) ==
  LET readable == {f \in {"main", "bak"} \ lost : IsWhole(f)}
  IN  IF "main" \in readable THEN disk["main"].has
      ELSE UNION {disk[f].has : f \in readable}

Moved(from, to) == [disk EXCEPT ![to] = disk[from], ![from] = Absent]

\* _wfopen_s shares its file with nobody: it can be neither opened, moved nor removed.
Locked(w) == \E v \in Writers \ {w} : save[v].at = "write"

MayFail == used.faults < MaxFaults
Fail == MayFail /\ used' = [used EXCEPT !.faults = @ + 1]
FailToWrite == MayFail /\ used' = [used EXCEPT !.faults = @ + 1, !.writes = @ + 1]

\* The sets of files that a save cannot read or create.
Lost == IF ~MayFail THEN {{}}
        ELSE SUBSET ({"tmp"} \cup (IF kind = "settings" THEN {"main", "bak"} ELSE {}))

\* What a process that starts may find: a session or registry can fail to open.
Found == {Opened} \cup (IF MayFail /\ kind # "settings" THEN {{}} ELSE {})

At(w, place)   == save[w].at = place
Goto(w, place) == save' = [save EXCEPT ![w].at = place]
Ended(w)       == save' = [save EXCEPT ![w] = Idle]

TypeOK ==
  /\ kind \in Kinds
  /\ disk \in [Names -> Files]
  /\ memory \subseteq Edits
  /\ known \subseteq Edits
  /\ save \in [Writers -> Records]
  /\ used \in Counts

Init ==
  /\ kind \in Kinds
  /\ disk = [f \in Names |-> Absent]
  /\ memory = {}
  /\ known = {}
  /\ save = [w \in Writers |-> Idle]
  /\ used = [saves |-> 0, faults |-> 0, writes |-> 0, crashes |-> 0]

-----------------------------------------------------------------------------
(* A save.  The settings are read, patched and written back; the session   *)
(* and the registry are written from memory.  A scan keeps its candidate   *)
(* for itself until the file is written.                                   *)

Text(edit, lost) == (IF kind = "settings" THEN ReadDoc(lost) ELSE memory) \cup {edit}

\* What the file and its backup hold and a failed read does not find.
Missed(lost) == IF kind = "settings" THEN ReadDoc({}) \ ReadDoc(lost) ELSE {}

Begin(edit, lost) ==
  [at |-> "write", has |-> Text(edit, lost), missed |-> Missed(lost), edit |-> edit,
   hadOld |-> FALSE]

Open(w) ==
  /\ At(w, "idle") /\ MayWrite(w) /\ used.saves < MaxSaves
  /\ \E lost \in Lost :
       LET edit == used.saves + 1
       IN  /\ used' = [used EXCEPT !.saves = edit, !.faults = IF lost = {} THEN @ ELSE @ + 1]
           /\ memory' = IF kind = "settings" \/ w = "scan" THEN memory ELSE Text(edit, lost)
           /\ IF Locked(w) \/ "tmp" \in lost
              THEN UNCHANGED <<disk, save>>
              ELSE /\ disk' = [disk EXCEPT !["tmp"] = Torn]
                   /\ save' = [save EXCEPT ![w] = Begin(edit, lost)]
  /\ UNCHANGED <<kind, known>>

\* Fault: a write that fails is taken for one that succeeded.
Write_Unchecked(w) ==
  /\ At(w, "write")
  /\ \/ disk' = [disk EXCEPT !["tmp"] = Whole(save[w].has)] /\ UNCHANGED used
     \/ FailToWrite /\ UNCHANGED disk
  /\ Goto(w, "look")
  /\ UNCHANGED <<kind, memory, known>>

Write(w) ==
  /\ At(w, "write")
  /\ \/ /\ disk' = [disk EXCEPT !["tmp"] = Whole(save[w].has)]
        /\ Goto(w, "look")
        /\ UNCHANGED used
     \/ /\ FailToWrite
        /\ Goto(w, "discard")
        /\ UNCHANGED disk
  /\ UNCHANGED <<kind, memory, known>>

\* Fault: the backup is removed before anybody knows that there is a file.
Look_Eager(w) ==
  /\ At(w, "look")
  /\ disk' = [disk EXCEPT !["bak"] = Absent]
  /\ save' = [save EXCEPT ![w].hadOld = disk["main"] # Absent,
                          ![w].at = IF disk["main"] # Absent THEN "keep" ELSE "replace"]
  /\ UNCHANGED <<kind, memory, known, used>>

\* A file that exists cannot always be looked at: exists then answers no.
Look(w) ==
  /\ At(w, "look")
  /\ \/ /\ save' = [save EXCEPT ![w].hadOld = disk["main"] # Absent,
                                ![w].at = IF disk["main"] # Absent THEN "makeRoom" ELSE "replace"]
        /\ UNCHANGED used
     \/ /\ Fail
        /\ Goto(w, "replace")
  /\ UNCHANGED <<kind, disk, memory, known>>

\* Nobody asks whether the older backup could be removed: the rename replaces it.
MakeRoom(w) ==
  /\ At(w, "makeRoom")
  /\ Goto(w, "keep")
  /\ \/ disk' = [disk EXCEPT !["bak"] = Absent] /\ UNCHANGED used
     \/ Fail /\ UNCHANGED disk
  /\ UNCHANGED <<kind, memory, known>>

Keep(w) ==
  /\ At(w, "keep")
  /\ \/ /\ disk["main"] # Absent
        /\ disk' = Moved("main", "bak")
        /\ Goto(w, "replace")
        /\ UNCHANGED used
     \/ /\ IF disk["main"] = Absent THEN UNCHANGED used ELSE Fail
        /\ Goto(w, "discard")
        /\ UNCHANGED disk
  /\ UNCHANGED <<kind, memory, known>>

\* The new version is in place: the save is reported as done.  What a failed read
\* missed is given up: the new version takes the place of the one that has it.
Replaced(w) ==
  /\ ~Locked(w) /\ disk["tmp"] # Absent
  /\ disk' = Moved("tmp", "main")
  /\ known' = (known \ save[w].missed) \cup {save[w].edit}
  /\ memory' = IF w = "scan" THEN save[w].has ELSE memory
  /\ Ended(w)
  /\ UNCHANGED used

\* Only the settings remove the temporary file; it may stay.
NotReplaced(w) ==
  /\ IF Locked(w) \/ disk["tmp"] = Absent THEN UNCHANGED used ELSE Fail
  /\ \/ kind = "settings" /\ disk' = [disk EXCEPT !["tmp"] = Absent]
     \/ UNCHANGED disk
  /\ IF save[w].hadOld THEN Goto(w, "rollback") ELSE Ended(w)
  /\ UNCHANGED <<memory, known>>

Replace(w) ==
  /\ At(w, "replace")
  /\ Replaced(w) \/ NotReplaced(w)
  /\ UNCHANGED kind

\* The backup goes back; whether it did is not asked.
Rollback(w) ==
  /\ At(w, "rollback")
  /\ \/ /\ disk' = IF disk["bak"] = Absent THEN disk ELSE Moved("bak", "main")
        /\ UNCHANGED used
     \/ Fail /\ UNCHANGED disk
  /\ Ended(w)
  /\ UNCHANGED <<kind, memory, known>>

Discard(w) ==
  /\ At(w, "discard")
  /\ \/ /\ disk' = IF Locked(w) THEN disk ELSE [disk EXCEPT !["tmp"] = Absent]
        /\ UNCHANGED used
     \/ Fail /\ UNCHANGED disk
  /\ Ended(w)
  /\ UNCHANGED <<kind, memory, known>>

\* The process ends and another one starts.  A session or registry that it cannot open
\* is an empty one, and what is then saved is meant to take its place.
Crash ==
  /\ used.crashes < MaxCrashes
  /\ \E found \in Found :
       /\ used' = [used EXCEPT !.crashes = @ + 1, !.faults = IF found = Opened THEN @ ELSE @ + 1]
       /\ memory' = IF kind = "settings" THEN memory ELSE found
       /\ known' = IF kind = "settings" THEN known ELSE known \cap found
  /\ save' = [w \in Writers |-> Idle]
  /\ UNCHANGED <<kind, disk>>

Next ==
  \/ \E w \in Writers :
        Open(w) \/ Write(w) \/ Look(w) \/ MakeRoom(w) \/ Keep(w) \/ Replace(w)
          \/ Rollback(w) \/ Discard(w)
  \/ Crash

Spec == Init /\ [][Next]_vars

\* A file that something else damages: the case read_doc was written for.
Damage ==
  /\ kind = "settings"
  /\ At("command", "idle")
  /\ IsWhole("main")
  /\ disk' = [disk EXCEPT !["main"] = Torn]
  /\ known' = known \cap disk["bak"].has
  /\ UNCHANGED <<kind, memory, save, used>>

DamagedSpec == Init /\ [][Next \/ Damage]_vars

-----------------------------------------------------------------------------
(* The file is never a part of a version, whatever fails and wherever the  *)
(* process ends (session.cpp, save: "no truncated half file"): the rename  *)
(* waits for the flush, and the registry's other writer cannot be moved    *)
(* away half way.  The one exception takes a write that fails: of the      *)
(* registry's two writers, one may then move what the other has left.      *)
NeverHalf == disk["main"] = Torn => kind = "registry" /\ used.writes > 0

(* With one writer, everything whose save was reported is in the file or   *)
(* in its backup at every step, after any failures of the calls and their  *)
(* rollback, but for what was given up: a process that starts and does not *)
(* find a session, or a save of the settings that was based on a failed    *)
(* read (save, steps 1 to 3; save_to).                                     *)
ReportedIsKept ==
  kind # "registry" => \E f \in {"main", "bak"} : known \subseteq disk[f].has

(* A reader of the settings whose reads succeed finds every setting whose  *)
(* save was reported, across any crashes and failures, but for what a save *)
(* overwrote that could not read it (read_doc, set_settings).              *)
SettingsAreFound == kind = "settings" => known \subseteq ReadDoc({})

(* What read_doc takes the backup for: no save of one setting gives up     *)
(* another one that is in the file.                                        *)
SavesKeepOthers == [][kind = "settings" => known \subseteq known']_vars

(* What session.cpp says of an interruption: the file is always the old    *)
(* version or the new one, so a process that starts again opens whatever   *)
(* was saved.                                                              *)
RestartOpensIt == [][used'.crashes > used.crashes => known \subseteq memory']_vars

(* What vst_registry.hpp says of save_atomic: a save that fails leaves the *)
(* file as it is.                                                          *)
FailureKeepsFile == known # {} /\ (\A w \in Writers : At(w, "idle")) => IsWhole("main")

=============================================================================
