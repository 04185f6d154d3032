----------------------------- MODULE ConfigStore -----------------------------
(***************************************************************************)
(* The configuration manager: the data in memory, changed under a lock,    *)
(* and its file, which every caller writes outside the lock by way of one  *)
(* and the same path.tmp.  A file is an inode: a name can be renamed away  *)
(* from under a writer that has it open.                                   *)
(***************************************************************************)
EXTENDS Naturals, FiniteSets

CONSTANTS MaxCfgCallers, ProfileIDs, MaxEdits, MaxCrashes

ASSUME CfgAssumption == MaxCfgCallers \in Nat \ {0} /\ MaxEdits \in Nat /\ MaxCrashes \in Nat

CfgCallers == 1 .. MaxCfgCallers  \* a call takes the first free number
CfgKeys == ProfileIDs \cup {"settings"}
Inodes == 1 .. MaxCfgCallers + 2  \* one per open file and one per name
NoFile == 0

VARIABLES
  cfgUp,     \* "down", "booting" or "up"
  cfgMem,    \* the data in memory: the version of each profile and of the settings, 0 for none
  cfgDisk,   \* contents of the inodes
  cfgPath,   \* the inode of path
  cfgTmp,    \* the inode of path.tmp
  cfgCaller, \* the callers of the manager
  cfgDoubt,  \* may file and memory differ? "overlap" of saves, "failed" save, or "none" (history)
  cfgEdits, cfgCrashes

cfgVars == <<cfgUp, cfgMem, cfgDisk, cfgPath, cfgTmp, cfgCaller, cfgDoubt, cfgEdits, cfgCrashes>>

Defaults == [k \in CfgKeys |-> 0]
Whole(data) == [kind |-> "whole", data |-> data]
Empty == [kind |-> "empty", data |-> Defaults]
Torn == [kind |-> "torn", data |-> Defaults]

NoCaller == [at |-> "idle", key |-> "settings", exists |-> FALSE, snap |-> Defaults, fd |-> NoFile, alone |-> FALSE]
Saving == {w \in CfgCallers : cfgCaller[w].at \in {"saving", "opened", "written"}}
Free(w) == cfgCaller[w].at = "idle" /\ \A v \in 1 .. w - 1 : cfgCaller[v].at # "idle"
CfgIdle == \A w \in CfgCallers : cfgCaller[w].at = "idle"
Content(inode) == IF inode = NoFile THEN Empty ELSE cfgDisk[inode]

CfgInit ==
  /\ cfgUp = "down" /\ cfgMem = Defaults
  /\ cfgDisk = [i \in Inodes |-> Empty]
  /\ cfgPath = NoFile /\ cfgTmp = NoFile
  /\ cfgCaller = [w \in CfgCallers |-> NoCaller]
  /\ cfgDoubt = "none" /\ cfgEdits = 0 /\ cfgCrashes = 0

\* w has its snapshot and goes on to write it.
StartSave(w, snap) ==
  /\ cfgCaller' = [v \in CfgCallers |->
       IF v = w THEN [NoCaller EXCEPT !.at = "saving", !.snap = snap, !.alone = Saving \ {w} = {}]
       ELSE [cfgCaller[v] EXCEPT !.alone = FALSE]]
  /\ cfgDoubt' = IF Saving \ {w} # {} THEN "overlap" ELSE cfgDoubt
CfgGo(w, at) == cfgCaller' = [cfgCaller EXCEPT ![w].at = at]
CfgReturn(w) == cfgCaller' = [cfgCaller EXCEPT ![w] = NoCaller]
SaveFailed(w) == CfgReturn(w) /\ cfgDoubt' = IF cfgDoubt = "none" THEN "failed" ELSE cfgDoubt

\* New: without a file, the defaults are written first; then the file is read.
Boot ==
  /\ cfgUp = "down" /\ cfgUp' = "booting"
  /\ IF cfgPath = NoFile THEN StartSave(1, Defaults) ELSE UNCHANGED <<cfgCaller, cfgDoubt>>
  /\ UNCHANGED <<cfgMem, cfgDisk, cfgPath, cfgTmp, cfgEdits, cfgCrashes>>

\* An empty file reads as the defaults; one that does not parse ends the start, or the Load,
\* which asks its caller to see that nobody else uses the manager.
LoadFromDisk ==
  /\ cfgUp # "down" /\ CfgIdle /\ cfgPath # NoFile
  /\ IF Content(cfgPath).kind = "torn"
     THEN cfgUp' = (IF cfgUp = "booting" THEN "down" ELSE cfgUp) /\ UNCHANGED <<cfgMem, cfgDoubt>>
     ELSE /\ cfgUp' = "up" /\ cfgMem' = Content(cfgPath).data
          /\ cfgDoubt' = IF cfgDoubt = "failed" THEN "none" ELSE cfgDoubt
  /\ UNCHANGED <<cfgDisk, cfgPath, cfgTmp, cfgCaller, cfgEdits, cfgCrashes>>
BootFails ==
  /\ cfgUp = "booting" /\ CfgIdle /\ cfgPath = NoFile
  /\ cfgUp' = "down"
  /\ UNCHANGED <<cfgMem, cfgDisk, cfgPath, cfgTmp, cfgCaller, cfgDoubt, cfgEdits, cfgCrashes>>

\* SaveProfile looks whether the profile exists, then takes the lock again.
GetProfile(w) == \E p \in ProfileIDs :
  /\ cfgUp = "up" /\ Free(w)
  /\ cfgCaller' = [cfgCaller EXCEPT ![w] = [NoCaller EXCEPT !.at = "found", !.key = p, !.exists = cfgMem[p] # 0]]
  /\ UNCHANGED <<cfgUp, cfgMem, cfgDisk, cfgPath, cfgTmp, cfgDoubt, cfgEdits, cfgCrashes>>

\* Mutant of Edit: the snapshot is taken before the change.
EditAfterSnapshot(w, k) ==
  /\ cfgEdits < MaxEdits /\ cfgEdits' = cfgEdits + 1
  /\ cfgMem' = [cfgMem EXCEPT ![k] = cfgEdits + 1]
  /\ StartSave(w, cfgMem)
\* The change and the snapshot of one critical section.
Edit(w, k) ==
  /\ cfgEdits < MaxEdits /\ cfgEdits' = cfgEdits + 1
  /\ cfgMem' = [cfgMem EXCEPT ![k] = cfgEdits + 1]
  /\ StartSave(w, cfgMem')

SaveProfile(w) == LET c == cfgCaller[w] IN
  /\ c.at = "found"
  /\ IF c.exists = (cfgMem[c.key] # 0)
     THEN Edit(w, c.key)
     ELSE CfgReturn(w) /\ UNCHANGED <<cfgMem, cfgDoubt, cfgEdits>>  \* not found, or already exists
  /\ UNCHANGED <<cfgUp, cfgDisk, cfgPath, cfgTmp, cfgCrashes>>

\* To delete what is not there is no error and no save.
DeleteProfile(w) == \E p \in ProfileIDs :
  /\ cfgUp = "up" /\ Free(w) /\ cfgMem[p] # 0
  /\ cfgMem' = [cfgMem EXCEPT ![p] = 0]
  /\ StartSave(w, cfgMem')
  /\ UNCHANGED <<cfgUp, cfgDisk, cfgPath, cfgTmp, cfgEdits, cfgCrashes>>

SetSetting(w) ==
  /\ cfgUp = "up" /\ Free(w) /\ Edit(w, "settings")
  /\ UNCHANGED <<cfgUp, cfgDisk, cfgPath, cfgTmp, cfgCrashes>>

\* Update installs the caller's data and saves in a second step.
Update(w) ==
  /\ cfgUp = "up" /\ Free(w)
  /\ cfgEdits < MaxEdits /\ cfgEdits' = cfgEdits + 1
  /\ \E k \in CfgKeys : cfgMem' = [cfgMem EXCEPT ![k] = cfgEdits + 1]
  /\ CfgGo(w, "replaced")
  /\ UNCHANGED <<cfgUp, cfgDisk, cfgPath, cfgTmp, cfgDoubt, cfgCrashes>>
\* Save, of Update or of the shutdown.
Save(w) ==
  /\ cfgUp = "up" /\ (Free(w) \/ cfgCaller[w].at = "replaced")
  /\ StartSave(w, cfgMem)
  /\ UNCHANGED <<cfgUp, cfgMem, cfgDisk, cfgPath, cfgTmp, cfgEdits, cfgCrashes>>

(***************************************************************************)
(* writeTOMLFile: WriteFile opens path.tmp, which empties it, and writes;  *)
(* then Rename moves the name to path, whatever it names by now.           *)
(***************************************************************************)
\* An inode without a name or a writer is nobody's.
Reclaimed(named) == [i \in Inodes |->
  IF i \in named \/ \E v \in CfgCallers : cfgCaller[v].fd = i THEN cfgDisk[i] ELSE Empty]
Fresh == CHOOSE i \in Inodes : i \notin {cfgPath, cfgTmp} \cup {cfgCaller[w].fd : w \in CfgCallers}

\* Mutant of OpenTmp: the file is written in place.
OpenInPlace(w) ==
  LET i == IF cfgPath = NoFile THEN Fresh ELSE cfgPath IN
  /\ cfgCaller[w].at = "saving"
  /\ cfgPath' = i /\ cfgDisk' = [cfgDisk EXCEPT ![i] = Empty]
  /\ cfgCaller' = [cfgCaller EXCEPT ![w].at = "opened", ![w].fd = i]
  /\ UNCHANGED <<cfgUp, cfgMem, cfgTmp, cfgDoubt, cfgEdits, cfgCrashes>>
OpenTmp(w) ==
  LET i == IF cfgTmp = NoFile THEN Fresh ELSE cfgTmp IN
  /\ cfgCaller[w].at = "saving"
  /\ cfgTmp' = i /\ cfgDisk' = [cfgDisk EXCEPT ![i] = Empty]
  /\ cfgCaller' = [cfgCaller EXCEPT ![w].at = "opened", ![w].fd = i]
  /\ UNCHANGED <<cfgUp, cfgMem, cfgPath, cfgDoubt, cfgEdits, cfgCrashes>>

\* Over another writer's bytes, the longer text keeps its tail.
WriteTmp(w) == LET c == cfgCaller[w] IN
  /\ c.at = "opened"
  /\ \E new \in {Whole(c.snap)} \cup IF cfgDisk[c.fd].kind = "empty" THEN {} ELSE {Torn} :
       cfgDisk' = [cfgDisk EXCEPT ![c.fd] = new]
  /\ cfgCaller' = [cfgCaller EXCEPT ![w].at = "written", ![w].fd = NoFile, ![w].snap = Defaults]
  /\ UNCHANGED <<cfgUp, cfgMem, cfgPath, cfgTmp, cfgDoubt, cfgEdits, cfgCrashes>>
\* A full disk takes a part, and path.tmp stays behind.
WriteFails(w) ==
  /\ cfgCaller[w].at = "opened"
  /\ cfgDisk' = [cfgDisk EXCEPT ![cfgCaller[w].fd] = Torn]
  /\ SaveFailed(w)
  /\ UNCHANGED <<cfgUp, cfgMem, cfgPath, cfgTmp, cfgEdits, cfgCrashes>>
RenameTmp(w) ==
  /\ cfgCaller[w].at = "written" /\ cfgTmp # NoFile
  /\ cfgPath' = cfgTmp /\ cfgTmp' = NoFile
  /\ cfgDisk' = Reclaimed({cfgTmp})
  /\ cfgDoubt' = IF cfgCaller[w].alone THEN "none" ELSE cfgDoubt
  /\ CfgReturn(w)
  /\ UNCHANGED <<cfgUp, cfgMem, cfgEdits, cfgCrashes>>
\* Another writer renamed path.tmp away, or the system refuses; path.tmp is removed.
RenameFails(w) ==
  /\ cfgCaller[w].at = "written"
  /\ cfgTmp' = NoFile
  /\ cfgDisk' = Reclaimed({cfgPath})
  /\ SaveFailed(w)
  /\ UNCHANGED <<cfgUp, cfgMem, cfgPath, cfgEdits, cfgCrashes>>

\* The process ends between any two steps; the files stay as they are.
Crash ==
  /\ cfgUp # "down" /\ cfgCrashes < MaxCrashes
  /\ cfgCrashes' = cfgCrashes + 1 /\ cfgUp' = "down"
  /\ cfgMem' = Defaults /\ cfgCaller' = [w \in CfgCallers |-> NoCaller]
  /\ UNCHANGED <<cfgDisk, cfgPath, cfgTmp, cfgDoubt, cfgEdits>>

CfgStep(w) ==
  \/ GetProfile(w) \/ SaveProfile(w) \/ DeleteProfile(w) \/ SetSetting(w)
  \/ Update(w) \/ Save(w)
  \/ OpenTmp(w) \/ WriteTmp(w) \/ WriteFails(w) \/ RenameTmp(w) \/ RenameFails(w)
CfgNext == Boot \/ LoadFromDisk \/ BootFails \/ Crash \/ \E w \in CfgCallers : CfgStep(w)

CfgSpec == CfgInit /\ [][CfgNext]_cfgVars

(***************************************************************************)
(* Properties.                                                             *)
(***************************************************************************)
CfgTypeOK ==
  /\ cfgUp \in {"down", "booting", "up"} /\ cfgMem \in [CfgKeys -> 0 .. MaxEdits]
  /\ cfgPath \in Inodes \cup {NoFile} /\ cfgTmp \in Inodes \cup {NoFile}
  /\ \A i \in Inodes : cfgDisk[i].kind \in {"whole", "empty", "torn"}

\* As long as no two saves run at a time, the file is never empty or cut, wherever the process
\* stops, whatever write failed and whatever path.tmp an earlier run left; and a save that runs
\* alone repairs what overlapping ones did (writeTOMLFile, Manager.New).
WholeUnlessOverlapped ==
  cfgDoubt # "overlap" /\ cfgPath # NoFile => Content(cfgPath).kind = "whole"

\* With no caller at work, no overlap and no failed save since the last good one, the file is
\* what memory holds: no change of SaveProfile, DeleteProfile, SetSetting or Update is lost.
SavedUnlessOverlapped ==
  cfgUp = "up" /\ CfgIdle /\ cfgDoubt = "none" => Content(cfgPath) = Whole(cfgMem)

\* "atomic-rename, to prevent half-written files": violated by two saves at a time.
NeverHalfWritten == cfgPath # NoFile => Content(cfgPath).kind = "whole"
=============================================================================
