---------------------------- MODULE Stores_proofs ----------------------------
(***************************************************************************)
(* What the application keeps on disk, each store for any value of its     *)
(* constants: the configuration file, the keyring index and the encrypted  *)
(* file.                                                                   *)
(***************************************************************************)
EXTENDS MCStores, KnownHosts_proofs, FiniteSetTheorems

(***************************************************************************)
(* The configuration file, for any number of callers, profiles, changes    *)
(* and crashes: it is whole unless two saves overlapped, and it is what    *)
(* memory holds unless a save failed since.  Both rest on the save that    *)
(* has path.tmp to itself from its snapshot to its rename.                 *)
(***************************************************************************)
Edits == 0 .. MaxEdits
CfgData == [CfgKeys -> Edits]
File == [kind : {"whole", "empty", "torn"}, data : CfgData]
Caller == [at : {"idle", "found", "replaced", "saving", "opened", "written"}, key : CfgKeys,
           exists : BOOLEAN, snap : CfgData, fd : Inodes \cup {NoFile}, alone : BOOLEAN]

CfgShape ==
  /\ cfgUp \in {"down", "booting", "up"} /\ cfgMem \in CfgData /\ cfgEdits \in Edits
  /\ cfgDisk \in [Inodes -> File]
  /\ cfgPath \in Inodes \cup {NoFile} /\ cfgTmp \in Inodes \cup {NoFile}
  /\ cfgCaller \in [CfgCallers -> Caller]
  /\ cfgDoubt \in {"none", "failed", "overlap"}

At(w) == cfgCaller[w].at
Alone(w) == cfgCaller[w].alone
Replaced == {w \in CfgCallers : At(w) = "replaced"}

\* A save that is marked alone is, and one that is not has overlapped another.
AloneKept == \A w \in Saving :
  /\ Alone(w) => \A v \in Saving : v = w
  /\ ~Alone(w) => cfgDoubt = "overlap"
\* A save alone writes to path.tmp, which is whole before it becomes path.
TmpKept ==
  /\ cfgPath = cfgTmp => cfgPath = NoFile
  /\ \A w \in Saving : Alone(w) =>
       /\ At(w) = "opened" => cfgTmp # NoFile /\ cfgCaller[w].fd = cfgTmp /\ cfgDisk[cfgTmp].kind = "empty"
       /\ At(w) = "written" => cfgTmp # NoFile /\ cfgDisk[cfgTmp].kind = "whole"
PathKept == cfgDoubt # "overlap" /\ cfgPath # NoFile => cfgDisk[cfgPath].kind = "whole"
\* A save alone brings what memory holds, unless an Update has still to save its own.
SnapKept == \A w \in Saving : Alone(w) /\ Replaced = {} =>
  /\ At(w) \in {"saving", "opened"} => cfgCaller[w].snap = cfgMem
  /\ At(w) = "written" => cfgDisk[cfgTmp] = Whole(cfgMem)
MemKept ==
  /\ cfgUp # "up" => cfgMem = Defaults
  /\ cfgUp = "up" => cfgPath # NoFile
  /\ cfgUp = "up" /\ cfgDoubt = "none" /\ Saving = {} /\ Replaced = {} => cfgDisk[cfgPath] = Whole(cfgMem)

CfgInv == CfgShape /\ AloneKept /\ TmpKept /\ PathKept /\ SnapKept /\ MemKept

LEMMA InodesAreNats == Inodes \subseteq Nat /\ NoFile \notin Inodes
BY CfgAssumption DEF Inodes, NoFile

LEMMA NoEdit == 0 \in Edits
BY CfgAssumption DEF Edits

LEMMA DefaultsShape == Defaults \in CfgData /\ NoCaller \in Caller /\ Empty \in File /\ Torn \in File
<1>1. Defaults \in CfgData
  BY CfgAssumption DEF Defaults, CfgData, Edits
<1> QED
  BY <1>1 DEF NoCaller, Caller, Empty, Torn, File, CfgKeys, NoFile

LEMMA WholeShape == ASSUME NEW d \in CfgData PROVE Whole(d) \in File /\ Whole(d).kind = "whole" /\ Whole(d).data = d
BY DEF Whole, File

\* There are more inodes than names and open files.
LEMMA FreshInode ==
  ASSUME CfgShape, cfgTmp = NoFile
  PROVE  Fresh \in Inodes /\ Fresh # cfgPath
<1> DEFINE S == Inodes \ {cfgPath}
<1>1. IsFiniteSet(Inodes) /\ Cardinality(Inodes) = MaxCfgCallers + 2
  BY FS_Interval, CfgAssumption DEF Inodes
<1>2. IsFiniteSet(CfgCallers) /\ Cardinality(CfgCallers) = MaxCfgCallers
  BY FS_Interval, CfgAssumption DEF CfgCallers
<1>3. IsFiniteSet(S) /\ Cardinality(S) > Cardinality(CfgCallers)
  BY <1>1, <1>2, FS_RemoveElement, CfgAssumption
<1>4. \E i \in S : \A v \in CfgCallers : cfgCaller[v].fd # i
  <2> SUFFICES ASSUME \A i \in S : \E v \in CfgCallers : cfgCaller[v].fd = i PROVE FALSE
    OBVIOUS
  <2> DEFINE f == [i \in S |-> CHOOSE v \in CfgCallers : cfgCaller[v].fd = i]
  <2>1. \A i \in S : f[i] \in CfgCallers /\ cfgCaller[f[i]].fd = i
    OBVIOUS
  <2>2. f \in [S -> CfgCallers]
    BY <2>1
  <2>3. \A x, y \in S : f[x] = f[y] => x = y
    BY <2>1
  <2> HIDE DEF f
  <2> QED
    BY <1>2, <1>3, <2>2, <2>3, FS_PigeonHole
<1>5. \E i \in Inodes : i \notin {cfgPath, cfgTmp} \cup {cfgCaller[w].fd : w \in CfgCallers}
  BY <1>4, InodesAreNats
<1> QED
  BY <1>5 DEF Fresh

LEMMA CfgInitInv == CfgInit => CfgInv
<1> SUFFICES ASSUME CfgInit PROVE CfgInv
  OBVIOUS
<1>1. CfgShape
  <2>1. cfgEdits \in Edits
    BY CfgAssumption DEF CfgInit, Edits
  <2> QED
    BY <2>1, DefaultsShape DEF CfgInit, CfgShape
<1>2. Saving = {} /\ Replaced = {}
  BY DEF CfgInit, Saving, Replaced, At, NoCaller
<1> QED
  BY <1>1, <1>2 DEF CfgInit, CfgInv, AloneKept, TmpKept, PathKept, SnapKept, MemKept

(***************************************************************************)
(* A caller that starts a save, one that stays outside, and one that ends. *)
(***************************************************************************)
LEMMA StartedCallers ==
  ASSUME CfgShape, NEW w \in CfgCallers, NEW d \in CfgData, StartSave(w, d)
  PROVE  /\ cfgCaller' \in [CfgCallers -> Caller] /\ cfgDoubt' \in {"none", "failed", "overlap"}
         /\ cfgCaller'[w].at = "saving" /\ cfgCaller'[w].snap = d
         /\ cfgCaller'[w].alone <=> Saving \ {w} = {}
         /\ \A v \in CfgCallers : v # w => cfgCaller'[v].at = cfgCaller[v].at /\ ~cfgCaller'[v].alone
         /\ Saving' = Saving \cup {w}
<1>1. cfgCaller' = [v \in CfgCallers |->
       IF v = w THEN [NoCaller EXCEPT !.at = "saving", !.snap = d, !.alone = Saving \ {w} = {}]
       ELSE [cfgCaller[v] EXCEPT !.alone = FALSE]]
  BY DEF StartSave
<1>2. cfgCaller'[w] = [NoCaller EXCEPT !.at = "saving", !.snap = d, !.alone = Saving \ {w} = {}]
  BY <1>1
<1>3. \A v \in CfgCallers : v # w => cfgCaller'[v] = [cfgCaller[v] EXCEPT !.alone = FALSE]
  BY <1>1
<1>4. cfgCaller'[w].at = "saving" /\ cfgCaller'[w].snap = d /\ cfgCaller'[w] \in Caller
  BY <1>2, DefaultsShape DEF NoCaller, Caller
<1>5. cfgCaller'[w].alone <=> Saving \ {w} = {}
  BY <1>2 DEF NoCaller
<1>6. ASSUME NEW v \in CfgCallers, v # w
      PROVE  cfgCaller'[v].at = cfgCaller[v].at /\ ~cfgCaller'[v].alone /\ cfgCaller'[v] \in Caller
  <2>1. cfgCaller[v] \in Caller
    BY DEF CfgShape
  <2>2. \A c \in Caller : LET d2 == [c EXCEPT !.alone = FALSE] IN d2.at = c.at /\ ~d2.alone /\ d2 \in Caller
    BY DEF Caller
  <2> QED
    BY <1>3, <1>6, <2>1, <2>2
<1>7. cfgCaller' \in [CfgCallers -> Caller]
  BY <1>1, <1>4, <1>6
<1>8. Saving' = Saving \cup {w}
  BY <1>4, <1>6 DEF Saving
<1>9. cfgDoubt' \in {"none", "failed", "overlap"}
  BY DEF StartSave, CfgShape
<1> QED
  BY <1>4, <1>5, <1>6, <1>7, <1>8, <1>9

LEMMA StartSaveKeeps ==
  ASSUME CfgInv, NEW w \in CfgCallers, cfgMem' \in CfgData, StartSave(w, cfgMem'), cfgEdits' \in Edits,
         UNCHANGED <<cfgDisk, cfgPath, cfgTmp>>, cfgUp' \in {"down", "booting", "up"},
         cfgUp' = "up" => cfgUp = "up", cfgUp' # "up" => cfgMem' = Defaults
  PROVE  CfgInv'
<1>1. /\ cfgCaller' \in [CfgCallers -> Caller] /\ cfgDoubt' \in {"none", "failed", "overlap"}
      /\ cfgCaller'[w].at = "saving" /\ cfgCaller'[w].snap = cfgMem'
      /\ cfgCaller'[w].alone <=> Saving \ {w} = {}
      /\ \A v \in CfgCallers : v # w => cfgCaller'[v].at = cfgCaller[v].at /\ ~cfgCaller'[v].alone
      /\ Saving' = Saving \cup {w}
  BY StartedCallers DEF CfgInv
<1>2. cfgDoubt' = IF Saving \ {w} # {} THEN "overlap" ELSE cfgDoubt
  BY DEF StartSave
<1>3. CfgShape'
  BY <1>1 DEF CfgInv, CfgShape
<1>4. AloneKept'
  <2> SUFFICES ASSUME NEW v \in Saving' PROVE (Alone(v)' => \A u \in Saving' : u = v) /\ (~Alone(v)' => cfgDoubt' = "overlap")
    BY DEF AloneKept
  <2>1. v \in CfgCallers
    BY DEF Saving
  <2>2. CASE v = w
    BY <1>1, <1>2, <2>2 DEF Alone
  <2>3. CASE v # w
    BY <1>1, <1>2, <2>1, <2>3 DEF Alone
  <2> QED
    BY <2>2, <2>3
<1>5. \A v \in Saving' : Alone(v)' => v = w
  BY <1>1 DEF Alone, Saving
<1>6. TmpKept'
  BY <1>1, <1>5 DEF CfgInv, TmpKept, At
<1>7. PathKept'
  BY <1>2 DEF CfgInv, PathKept
<1>8. SnapKept'
  BY <1>1, <1>5 DEF SnapKept, At
<1>9. MemKept'
  BY <1>1 DEF CfgInv, MemKept
<1> QED
  BY <1>3, <1>4, <1>6, <1>7, <1>8, <1>9 DEF CfgInv

\* A caller outside of a save moves on; the file is not touched, and memory only by Update.
LEMMA OutsideKeeps ==
  ASSUME CfgInv, NEW w \in CfgCallers, w \notin Saving, w \notin Saving', CfgShape',
         \A v \in CfgCallers : v # w => cfgCaller'[v] = cfgCaller[v],
         UNCHANGED <<cfgDisk, cfgPath, cfgTmp, cfgUp, cfgDoubt>>,
         w \in Replaced' \/ (w \notin Replaced /\ cfgMem' = cfgMem), cfgUp = "up" \/ cfgMem' = cfgMem
  PROVE  CfgInv'
<1>1. Saving' = Saving /\ \A v \in Saving : cfgCaller'[v] = cfgCaller[v]
  BY DEF Saving
<1>2. Replaced' = {} => Replaced = {} /\ cfgMem' = cfgMem
  BY DEF Replaced, At
<1>3. AloneKept' /\ TmpKept' /\ PathKept'
  BY <1>1 DEF CfgInv, AloneKept, TmpKept, PathKept, At, Alone
<1>4. SnapKept'
  BY <1>1, <1>2 DEF CfgInv, SnapKept, At, Alone
<1>5. MemKept'
  BY <1>1, <1>2 DEF CfgInv, MemKept
<1> QED
  BY <1>3, <1>4, <1>5 DEF CfgInv

LEMMA ReturnedCallers ==
  ASSUME CfgShape, NEW w \in CfgCallers, CfgReturn(w)
  PROVE  /\ cfgCaller' \in [CfgCallers -> Caller] /\ cfgCaller'[w].at = "idle"
         /\ \A v \in CfgCallers : v # w => cfgCaller'[v] = cfgCaller[v]
         /\ Saving' = Saving \ {w} /\ (At(w) # "replaced" => Replaced' = Replaced)
<1>1. /\ cfgCaller' \in [CfgCallers -> Caller] /\ cfgCaller'[w] = NoCaller
      /\ \A v \in CfgCallers : v # w => cfgCaller'[v] = cfgCaller[v]
  BY DefaultsShape DEF CfgShape, CfgReturn
<1>2. cfgCaller'[w].at = "idle"
  BY <1>1 DEF NoCaller
<1> QED
  BY <1>1, <1>2 DEF Saving, Replaced, At

(***************************************************************************)
(* The steps.                                                              *)
(***************************************************************************)
LEMMA BootKeeps == CfgInv /\ Boot => CfgInv'
<1> SUFFICES ASSUME CfgInv, Boot PROVE CfgInv'
  OBVIOUS
<1>1. /\ cfgUp = "down" /\ cfgUp' = "booting"
      /\ UNCHANGED <<cfgMem, cfgDisk, cfgPath, cfgTmp, cfgEdits>>
  BY DEF Boot
<1>2. cfgMem = Defaults /\ 1 \in CfgCallers
  BY <1>1, CfgAssumption DEF CfgInv, MemKept, CfgCallers
<1>3. CASE StartSave(1, Defaults)
  BY <1>1, <1>2, <1>3, StartSaveKeeps, DefaultsShape DEF CfgInv, CfgShape
<1>4. CASE UNCHANGED <<cfgCaller, cfgDoubt>>
  <2>1. Saving' = Saving /\ Replaced' = Replaced
    BY <1>4 DEF Saving, Replaced, At
  <2> QED
    BY <1>1, <1>2, <1>4, <2>1
    DEF CfgInv, CfgShape, AloneKept, TmpKept, PathKept, SnapKept, MemKept, At, Alone
<1> QED
  BY <1>3, <1>4 DEF Boot

LEMMA LoadKeeps == CfgInv /\ LoadFromDisk => CfgInv'
<1> SUFFICES ASSUME CfgInv, LoadFromDisk PROVE CfgInv'
  OBVIOUS
<1>1. /\ cfgUp # "down" /\ cfgPath # NoFile /\ cfgPath \in Inodes /\ cfgDisk[cfgPath] \in File
      /\ Content(cfgPath) = cfgDisk[cfgPath]
      /\ UNCHANGED <<cfgDisk, cfgPath, cfgTmp, cfgCaller, cfgEdits>>
  BY DEF LoadFromDisk, CfgInv, CfgShape, Content
<1>2. Saving = {} /\ Saving' = {} /\ Replaced' = Replaced
  BY <1>1 DEF LoadFromDisk, CfgIdle, Saving, Replaced, At
<1>3. CASE Content(cfgPath).kind = "torn"
  <2>1. cfgUp' = (IF cfgUp = "booting" THEN "down" ELSE cfgUp) /\ UNCHANGED <<cfgMem, cfgDoubt>>
    BY <1>3 DEF LoadFromDisk
  <2> QED
    BY <1>1, <1>2, <2>1
    DEF CfgInv, CfgShape, AloneKept, TmpKept, PathKept, SnapKept, MemKept, At, Alone
<1>4. CASE Content(cfgPath).kind # "torn"
  <2>1. /\ cfgUp' = "up" /\ cfgMem' = cfgDisk[cfgPath].data
        /\ cfgDoubt' = IF cfgDoubt = "failed" THEN "none" ELSE cfgDoubt
    BY <1>1, <1>4 DEF LoadFromDisk
  <2>2. cfgMem' \in CfgData
    BY <1>1, <2>1 DEF File
  <2>3. CfgShape'
    BY <1>1, <2>1, <2>2 DEF CfgInv, CfgShape
  <2>4. cfgDoubt' # "overlap" => cfgDisk[cfgPath].kind = "whole"
    BY <1>1, <2>1 DEF CfgInv, CfgShape, PathKept
  <2>5. cfgDoubt' # "overlap" => cfgDisk[cfgPath] = Whole(cfgMem')
    BY <1>1, <2>1, <2>4 DEF File, Whole
  <2>6. AloneKept' /\ SnapKept'
    BY <1>2 DEF AloneKept, SnapKept
  <2>7. TmpKept' /\ PathKept'
    BY <1>1, <1>2, <2>4 DEF CfgInv, TmpKept, PathKept
  <2>8. MemKept'
    BY <1>1, <2>1, <2>5 DEF MemKept
  <2> QED
    BY <2>3, <2>6, <2>7, <2>8 DEF CfgInv
<1> QED
  BY <1>3, <1>4

LEMMA BootFailsKeeps == CfgInv /\ BootFails => CfgInv'
<1> SUFFICES ASSUME CfgInv, BootFails PROVE CfgInv'
  OBVIOUS
<1>1. /\ cfgUp = "booting" /\ cfgUp' = "down"
      /\ UNCHANGED <<cfgMem, cfgDisk, cfgPath, cfgTmp, cfgCaller, cfgDoubt, cfgEdits>>
  BY DEF BootFails
<1>2. Saving' = Saving /\ Replaced' = Replaced
  BY <1>1 DEF Saving, Replaced, At
<1> QED
  BY <1>1, <1>2 DEF CfgInv, CfgShape, AloneKept, TmpKept, PathKept, SnapKept, MemKept, At, Alone

LEMMA CrashKeeps == CfgInv /\ Crash => CfgInv'
<1> SUFFICES ASSUME CfgInv, Crash PROVE CfgInv'
  OBVIOUS
<1>1. /\ cfgUp' = "down" /\ cfgMem' = Defaults /\ cfgCaller' = [w \in CfgCallers |-> NoCaller]
      /\ UNCHANGED <<cfgDisk, cfgPath, cfgTmp, cfgDoubt, cfgEdits>>
  BY DEF Crash
<1>2. CfgShape'
  BY <1>1, DefaultsShape DEF CfgInv, CfgShape
<1>3. Saving' = {}
  BY <1>1 DEF Saving, NoCaller
<1> QED
  BY <1>1, <1>2, <1>3 DEF CfgInv, AloneKept, TmpKept, PathKept, SnapKept, MemKept

LEMMA GetProfileKeeps == ASSUME CfgInv, NEW w \in CfgCallers, GetProfile(w) PROVE CfgInv'
<1>1. PICK p \in ProfileIDs :
        cfgCaller' = [cfgCaller EXCEPT ![w] = [NoCaller EXCEPT !.at = "found", !.key = p, !.exists = cfgMem[p] # 0]]
  BY DEF GetProfile
<1>2. At(w) = "idle" /\ UNCHANGED <<cfgUp, cfgMem, cfgDisk, cfgPath, cfgTmp, cfgDoubt, cfgEdits>>
  BY DEF GetProfile, Free, At
<1>3. cfgCaller'[w] = [NoCaller EXCEPT !.at = "found", !.key = p, !.exists = cfgMem[p] # 0]
  BY <1>1 DEF CfgInv, CfgShape
<1>4. cfgCaller'[w].at = "found" /\ cfgCaller'[w] \in Caller
  BY <1>3, DefaultsShape DEF NoCaller, Caller, CfgKeys
<1>5. \A v \in CfgCallers : v # w => cfgCaller'[v] = cfgCaller[v]
  BY <1>1 DEF CfgInv, CfgShape
<1>6. CfgShape'
  BY <1>1, <1>2, <1>4 DEF CfgInv, CfgShape
<1>7. w \notin Saving /\ w \notin Saving' /\ w \notin Replaced
  BY <1>2, <1>4 DEF Saving, Replaced, At
<1> QED
  BY <1>2, <1>5, <1>6, <1>7, OutsideKeeps

\* One more change of the data, saved in the same step.
LEMMA EditKeeps ==
  ASSUME CfgInv, NEW w \in CfgCallers, NEW k \in CfgKeys, Edit(w, k), cfgUp = "up",
         UNCHANGED <<cfgUp, cfgDisk, cfgPath, cfgTmp>>
  PROVE  CfgInv'
<1>1. cfgMem' \in CfgData /\ cfgEdits' \in Edits /\ StartSave(w, cfgMem')
  <2>1. cfgEdits \in 0 .. MaxEdits /\ cfgEdits + 1 \in 0 .. MaxEdits
    BY CfgAssumption DEF Edit, CfgInv, CfgShape, Edits
  <2> QED
    BY <2>1 DEF Edit, CfgInv, CfgShape, CfgData, Edits
<1> QED
  BY <1>1, StartSaveKeeps

\* Callers that look for a profile or have installed their data do so while the manager is up.
UpKept == \A w \in CfgCallers : At(w) \in {"found", "replaced"} => cfgUp = "up"

LEMMA SaveProfileKeeps ==
  ASSUME CfgInv, UpKept, NEW w \in CfgCallers, SaveProfile(w) PROVE CfgInv'
<1>1. /\ At(w) = "found" /\ cfgUp = "up" /\ cfgCaller[w].key \in CfgKeys
      /\ UNCHANGED <<cfgUp, cfgDisk, cfgPath, cfgTmp>>
  BY DEF SaveProfile, At, UpKept, CfgInv, CfgShape, Caller
<1>2. CASE Edit(w, cfgCaller[w].key)
  BY <1>1, <1>2, EditKeeps
<1>3. CASE CfgReturn(w) /\ UNCHANGED <<cfgMem, cfgDoubt, cfgEdits>>
  <2>1. /\ cfgCaller' \in [CfgCallers -> Caller] /\ \A v \in CfgCallers : v # w => cfgCaller'[v] = cfgCaller[v]
        /\ Saving' = Saving \ {w}
    BY <1>3, ReturnedCallers DEF CfgInv
  <2>2. CfgShape'
    BY <1>1, <1>3, <2>1 DEF CfgInv, CfgShape
  <2>3. w \notin Saving /\ w \notin Replaced
    BY <1>1 DEF Saving, Replaced, At
  <2> QED
    BY <1>1, <1>3, <2>1, <2>2, <2>3, OutsideKeeps
<1> QED
  BY <1>2, <1>3 DEF SaveProfile

LEMMA DeleteProfileKeeps == ASSUME CfgInv, NEW w \in CfgCallers, DeleteProfile(w) PROVE CfgInv'
<1>1. PICK p \in ProfileIDs : cfgMem' = [cfgMem EXCEPT ![p] = 0] /\ StartSave(w, cfgMem')
  BY DEF DeleteProfile
<1>2. cfgUp = "up" /\ UNCHANGED <<cfgUp, cfgDisk, cfgPath, cfgTmp, cfgEdits>>
  BY DEF DeleteProfile
<1>3. cfgMem' \in CfgData /\ cfgEdits' \in Edits
  BY <1>1, <1>2, NoEdit DEF CfgInv, CfgShape, CfgData
<1> QED
  BY <1>1, <1>2, <1>3, StartSaveKeeps

LEMMA SetSettingKeeps == ASSUME CfgInv, NEW w \in CfgCallers, SetSetting(w) PROVE CfgInv'
BY EditKeeps DEF SetSetting, CfgKeys

LEMMA UpdateKeeps == ASSUME CfgInv, NEW w \in CfgCallers, Update(w) PROVE CfgInv'
<1>1. /\ cfgUp = "up" /\ At(w) = "idle" /\ cfgEdits' = cfgEdits + 1 /\ CfgGo(w, "replaced")
      /\ UNCHANGED <<cfgUp, cfgDisk, cfgPath, cfgTmp, cfgDoubt>>
  BY DEF Update, Free, At
<1>2. cfgMem' \in CfgData /\ cfgEdits' \in Edits
  <2>1. PICK k \in CfgKeys : cfgMem' = [cfgMem EXCEPT ![k] = cfgEdits + 1]
    BY DEF Update
  <2>2. cfgEdits + 1 \in Edits
    BY CfgAssumption DEF Update, CfgInv, CfgShape, Edits
  <2> QED
    BY <1>1, <2>1, <2>2 DEF CfgInv, CfgShape, CfgData
<1>3. /\ cfgCaller' \in [CfgCallers -> Caller] /\ cfgCaller'[w].at = "replaced"
      /\ \A v \in CfgCallers : v # w => cfgCaller'[v] = cfgCaller[v]
  BY <1>1 DEF CfgInv, CfgShape, CfgGo, Caller
<1>4. CfgShape'
  BY <1>1, <1>2, <1>3 DEF CfgInv, CfgShape
<1>5. w \notin Saving /\ w \notin Saving' /\ w \in Replaced'
  BY <1>1, <1>3 DEF Saving, Replaced, At
<1> QED
  BY <1>1, <1>3, <1>4, <1>5, OutsideKeeps

LEMMA SaveKeeps == ASSUME CfgInv, NEW w \in CfgCallers, Save(w) PROVE CfgInv'
<1>1. cfgUp = "up" /\ StartSave(w, cfgMem') /\ UNCHANGED <<cfgUp, cfgMem, cfgDisk, cfgPath, cfgTmp, cfgEdits>>
  BY DEF Save
<1> QED
  BY <1>1, StartSaveKeeps DEF CfgInv, CfgShape

\* One caller of a save goes on in it: the save that is alone, if it is not this one, is no more.
LEMMA MovedCallers ==
  ASSUME CfgShape, NEW w \in CfgCallers, w \in Saving, cfgCaller' \in [CfgCallers -> Caller],
         \A v \in CfgCallers : v # w => cfgCaller'[v] = cfgCaller[v],
         cfgCaller'[w].at \in {"opened", "written"}, cfgCaller'[w].alone = cfgCaller[w].alone
  PROVE  Saving' = Saving /\ Replaced' = Replaced /\ \A v \in Saving : Alone(v)' = Alone(v)
BY DEF Saving, Replaced, At, Alone

LEMMA OpenTmpKeeps == ASSUME CfgInv, NEW w \in CfgCallers, OpenTmp(w) PROVE CfgInv'
<1> DEFINE i == IF cfgTmp = NoFile THEN Fresh ELSE cfgTmp
<1>1. /\ At(w) = "saving" /\ cfgTmp' = i /\ cfgDisk' = [cfgDisk EXCEPT ![i] = Empty]
      /\ cfgCaller' = [cfgCaller EXCEPT ![w].at = "opened", ![w].fd = i]
      /\ UNCHANGED <<cfgUp, cfgMem, cfgPath, cfgDoubt, cfgEdits>>
  BY DEF OpenTmp, At
<1>2. i \in Inodes /\ i # cfgPath /\ i # NoFile
  BY FreshInode, InodesAreNats DEF CfgInv, CfgShape, TmpKept
<1> HIDE DEF i
<1>3. /\ cfgCaller' \in [CfgCallers -> Caller] /\ cfgCaller'[w].at = "opened" /\ cfgCaller'[w].fd = i
      /\ cfgCaller'[w].alone = cfgCaller[w].alone /\ cfgCaller'[w].snap = cfgCaller[w].snap
      /\ \A v \in CfgCallers : v # w => cfgCaller'[v] = cfgCaller[v]
  BY <1>1, <1>2 DEF CfgInv, CfgShape, Caller
<1>4. w \in Saving
  BY <1>1 DEF Saving, At
<1>5. Saving' = Saving /\ Replaced' = Replaced /\ \A v \in Saving : Alone(v)' = Alone(v)
  BY <1>3, <1>4, MovedCallers DEF CfgInv
<1>6. CfgShape'
  BY <1>1, <1>2, <1>3, DefaultsShape DEF CfgInv, CfgShape
<1>7. AloneKept'
  BY <1>1, <1>5 DEF CfgInv, AloneKept
<1>8. \A v \in Saving' : Alone(v)' => v = w
  BY <1>4, <1>5 DEF CfgInv, AloneKept
<1>9. cfgDisk'[i].kind = "empty"
  BY <1>1, <1>2 DEF CfgInv, CfgShape, Empty
<1>10. TmpKept'
  BY <1>1, <1>2, <1>3, <1>8, <1>9 DEF TmpKept, At
<1>11. PathKept'
  BY <1>1, <1>2 DEF CfgInv, CfgShape, PathKept
<1>12. SnapKept'
  BY <1>1, <1>3, <1>4, <1>5, <1>8 DEF CfgInv, SnapKept, At
<1>13. MemKept'
  BY <1>1, <1>4, <1>5 DEF CfgInv, MemKept
<1> QED
  BY <1>6, <1>7, <1>10, <1>11, <1>12, <1>13 DEF CfgInv

LEMMA WriteTmpKeeps == ASSUME CfgInv, NEW w \in CfgCallers, WriteTmp(w) PROVE CfgInv'
<1> DEFINE f == cfgCaller[w].fd
<1>1. /\ At(w) = "opened" /\ cfgCaller' = [cfgCaller EXCEPT ![w].at = "written", ![w].fd = NoFile, ![w].snap = Defaults]
      /\ UNCHANGED <<cfgUp, cfgMem, cfgPath, cfgTmp, cfgDoubt, cfgEdits>>
  BY DEF WriteTmp, At
<1>2. PICK new \in {Whole(cfgCaller[w].snap)} \cup IF cfgDisk[f].kind = "empty" THEN {} ELSE {Torn} :
        cfgDisk' = [cfgDisk EXCEPT ![f] = new]
  BY DEF WriteTmp
<1>3. cfgCaller[w].snap \in CfgData /\ new \in File
  BY <1>2, WholeShape, DefaultsShape DEF CfgInv, CfgShape, Caller
<1>4. /\ cfgCaller' \in [CfgCallers -> Caller] /\ cfgCaller'[w].at = "written"
      /\ cfgCaller'[w].alone = cfgCaller[w].alone
      /\ \A v \in CfgCallers : v # w => cfgCaller'[v] = cfgCaller[v]
  BY <1>1, DefaultsShape DEF CfgInv, CfgShape, Caller
<1>5. w \in Saving
  BY <1>1 DEF Saving, At
<1>6. Saving' = Saving /\ Replaced' = Replaced /\ \A v \in Saving : Alone(v)' = Alone(v)
  BY <1>4, <1>5, MovedCallers DEF CfgInv
<1>7. CfgShape'
  BY <1>1, <1>2, <1>3, <1>4 DEF CfgInv, CfgShape
<1>8. AloneKept'
  BY <1>1, <1>6 DEF CfgInv, AloneKept
<1>9. \A v \in Saving' : Alone(v)' => v = w
  BY <1>5, <1>6 DEF CfgInv, AloneKept
<1>10. Alone(w) => /\ f = cfgTmp /\ cfgTmp # NoFile /\ cfgTmp \in Inodes /\ cfgTmp # cfgPath
                   /\ cfgDisk'[cfgTmp] = Whole(cfgCaller[w].snap)
  BY <1>1, <1>2, <1>5 DEF CfgInv, TmpKept, CfgShape
<1>11. TmpKept'
  BY <1>1, <1>3, <1>4, <1>6, <1>9, <1>10, WholeShape DEF CfgInv, TmpKept, At
<1>12. PathKept'
  <2>1. CASE Alone(w)
    BY <1>1, <1>2, <1>10, <2>1 DEF CfgInv, CfgShape, PathKept
  <2>2. CASE ~Alone(w)
    BY <1>1, <1>5, <2>2 DEF CfgInv, AloneKept, PathKept
  <2> QED
    BY <2>1, <2>2
<1>13. SnapKept'
  BY <1>1, <1>4, <1>5, <1>6, <1>9, <1>10 DEF CfgInv, SnapKept, At
<1>14. MemKept'
  BY <1>1, <1>5, <1>6 DEF CfgInv, MemKept
<1> QED
  BY <1>7, <1>8, <1>11, <1>12, <1>13, <1>14 DEF CfgInv

\* A save that ends: what is left is outside, or has overlapped it.
LEMMA EndedCallers ==
  ASSUME CfgInv, NEW w \in CfgCallers, w \in Saving, CfgReturn(w)
  PROVE  /\ cfgCaller' \in [CfgCallers -> Caller] /\ Saving' = Saving \ {w} /\ Replaced' = Replaced
         /\ \A v \in Saving' : ~Alone(v)' /\ cfgDoubt = "overlap" /\ ~Alone(w)
<1>1. /\ cfgCaller' \in [CfgCallers -> Caller]
      /\ \A v \in CfgCallers : v # w => cfgCaller'[v] = cfgCaller[v]
      /\ Saving' = Saving \ {w}
  BY ReturnedCallers DEF CfgInv
<1>2. Replaced' = Replaced
  BY ReturnedCallers DEF CfgInv, Saving, At
<1>3. \A v \in Saving' : v \in Saving /\ v # w /\ Alone(v)' = Alone(v)
  BY <1>1 DEF Alone, Saving
<1>4. \A v \in Saving' : ~Alone(v) /\ ~Alone(w)
  BY <1>3 DEF CfgInv, AloneKept
<1> QED
  BY <1>1, <1>2, <1>3, <1>4 DEF CfgInv, AloneKept

LEMMA WriteFailsKeeps == ASSUME CfgInv, NEW w \in CfgCallers, WriteFails(w) PROVE CfgInv'
<1>1. /\ At(w) = "opened" /\ cfgDisk' = [cfgDisk EXCEPT ![cfgCaller[w].fd] = Torn]
      /\ CfgReturn(w) /\ cfgDoubt' = (IF cfgDoubt = "none" THEN "failed" ELSE cfgDoubt)
      /\ UNCHANGED <<cfgUp, cfgMem, cfgPath, cfgTmp, cfgEdits>>
  BY DEF WriteFails, SaveFailed, At
<1>2. w \in Saving
  BY <1>1 DEF Saving, At
<1>3. /\ cfgCaller' \in [CfgCallers -> Caller] /\ Saving' = Saving \ {w} /\ Replaced' = Replaced
      /\ \A v \in Saving' : ~Alone(v)' /\ cfgDoubt = "overlap" /\ ~Alone(w)
  BY <1>1, <1>2, EndedCallers
<1>4. CfgShape'
  BY <1>1, <1>3, DefaultsShape DEF CfgInv, CfgShape
<1>5. AloneKept' /\ SnapKept'
  BY <1>1, <1>3 DEF AloneKept, SnapKept
<1>6. TmpKept'
  BY <1>1, <1>3 DEF CfgInv, TmpKept
<1>7. PathKept'
  <2>1. CASE Alone(w)
    <3>1. cfgCaller[w].fd = cfgTmp /\ cfgTmp # NoFile
      BY <1>1, <1>2, <2>1 DEF CfgInv, TmpKept
    <3> QED
      BY <1>1, <3>1 DEF CfgInv, CfgShape, TmpKept, PathKept
  <2>2. CASE ~Alone(w)
    BY <1>1, <1>2, <2>2 DEF CfgInv, AloneKept, PathKept
  <2> QED
    BY <2>1, <2>2
<1>8. MemKept'
  BY <1>1 DEF CfgInv, MemKept
<1> QED
  BY <1>4, <1>5, <1>6, <1>7, <1>8 DEF CfgInv

LEMMA ReclaimedShape ==
  ASSUME CfgShape, NEW named \in SUBSET (Inodes \cup {NoFile})
  PROVE  /\ Reclaimed(named) \in [Inodes -> File]
         /\ \A i \in named \cap Inodes : Reclaimed(named)[i] = cfgDisk[i]
BY DefaultsShape DEF Reclaimed, CfgShape

LEMMA RenameTmpKeeps == ASSUME CfgInv, NEW w \in CfgCallers, RenameTmp(w) PROVE CfgInv'
<1>1. /\ At(w) = "written" /\ cfgTmp # NoFile /\ cfgPath' = cfgTmp /\ cfgTmp' = NoFile
      /\ cfgDisk' = Reclaimed({cfgTmp}) /\ CfgReturn(w) /\ UNCHANGED <<cfgUp, cfgMem, cfgEdits>>
  BY DEF RenameTmp, At
<1>2. cfgDoubt' = IF Alone(w) THEN "none" ELSE cfgDoubt
  BY DEF RenameTmp, Alone
<1>3. w \in Saving
  BY <1>1 DEF Saving, At
<1>4. /\ cfgCaller' \in [CfgCallers -> Caller] /\ Saving' = Saving \ {w} /\ Replaced' = Replaced
      /\ \A v \in Saving' : ~Alone(v)' /\ cfgDoubt = "overlap" /\ ~Alone(w)
  BY <1>1, <1>3, EndedCallers
<1>5. cfgTmp \in Inodes /\ cfgDisk' \in [Inodes -> File] /\ cfgDisk'[cfgTmp] = cfgDisk[cfgTmp]
  BY <1>1, ReclaimedShape DEF CfgInv, CfgShape
<1>6. CfgShape'
  BY <1>1, <1>2, <1>4, <1>5 DEF CfgInv, CfgShape
<1>7. AloneKept' /\ SnapKept'
  BY <1>2, <1>4 DEF AloneKept, SnapKept
<1>8. TmpKept'
  BY <1>1, <1>4 DEF TmpKept
<1>9. ~Alone(w) => cfgDoubt' = "overlap"
  BY <1>2, <1>3 DEF CfgInv, AloneKept
<1>10. PathKept'
  <2>1. CASE Alone(w)
    BY <1>1, <1>3, <1>5, <2>1 DEF CfgInv, TmpKept, PathKept
  <2> QED
    BY <1>9, <2>1 DEF PathKept
<1>11. MemKept'
  <2>1. CASE Alone(w)
    BY <1>1, <1>3, <1>4, <1>5, <2>1 DEF CfgInv, MemKept, SnapKept
  <2>2. CASE ~Alone(w)
    BY <1>1, <1>9, <2>2 DEF CfgInv, MemKept
  <2> QED
    BY <2>1, <2>2
<1> QED
  BY <1>6, <1>7, <1>8, <1>10, <1>11 DEF CfgInv

LEMMA RenameFailsKeeps == ASSUME CfgInv, NEW w \in CfgCallers, RenameFails(w) PROVE CfgInv'
<1>1. /\ At(w) = "written" /\ cfgTmp' = NoFile /\ cfgDisk' = Reclaimed({cfgPath})
      /\ CfgReturn(w) /\ cfgDoubt' = (IF cfgDoubt = "none" THEN "failed" ELSE cfgDoubt)
      /\ UNCHANGED <<cfgUp, cfgMem, cfgPath, cfgEdits>>
  BY DEF RenameFails, SaveFailed, At
<1>2. w \in Saving
  BY <1>1 DEF Saving, At
<1>3. /\ cfgCaller' \in [CfgCallers -> Caller] /\ Saving' = Saving \ {w} /\ Replaced' = Replaced
      /\ \A v \in Saving' : ~Alone(v)' /\ cfgDoubt = "overlap" /\ ~Alone(w)
  BY <1>1, <1>2, EndedCallers
<1>4. cfgDisk' \in [Inodes -> File] /\ (cfgPath # NoFile => cfgDisk'[cfgPath] = cfgDisk[cfgPath])
  BY <1>1, ReclaimedShape DEF CfgInv, CfgShape
<1>5. CfgShape'
  BY <1>1, <1>3, <1>4 DEF CfgInv, CfgShape
<1>6. AloneKept' /\ SnapKept'
  BY <1>1, <1>3 DEF AloneKept, SnapKept
<1>7. TmpKept'
  BY <1>1, <1>3 DEF TmpKept
<1>8. PathKept' /\ MemKept'
  BY <1>1, <1>4 DEF CfgInv, PathKept, MemKept
<1> QED
  BY <1>5, <1>6, <1>7, <1>8 DEF CfgInv

(***************************************************************************)
(* The invariant, and what it implies.                                     *)
(***************************************************************************)
LEMMA UpStep == CfgInv /\ UpKept /\ [CfgNext]_cfgVars => UpKept'
<1> SUFFICES ASSUME CfgInv, UpKept, [CfgNext]_cfgVars PROVE UpKept'
  OBVIOUS
<1>1. CASE Boot
  <2>1. cfgUp = "down" /\ 1 \in CfgCallers
    BY <1>1, CfgAssumption DEF Boot, CfgCallers
  <2>2. CASE StartSave(1, Defaults)
    BY <2>1, <2>2, StartedCallers, DefaultsShape DEF CfgInv, UpKept, At
  <2>3. CASE UNCHANGED cfgCaller
    BY <2>1, <2>3 DEF UpKept, At
  <2> QED
    BY <1>1, <2>2, <2>3 DEF Boot
<1>2. CASE LoadFromDisk \/ BootFails
  <2>1. \A w \in CfgCallers : cfgCaller'[w].at = "idle"
    BY <1>2 DEF LoadFromDisk, BootFails, CfgIdle
  <2> QED
    BY <2>1 DEF UpKept, At
<1>3. CASE Crash
  BY <1>3 DEF Crash, UpKept, At, NoCaller
<1>4. ASSUME NEW w \in CfgCallers, CfgStep(w) PROVE UpKept'
  <2>1. cfgUp' = cfgUp
    BY <1>4 DEF CfgStep, GetProfile, SaveProfile, DeleteProfile, SetSetting, Update, Save, OpenTmp,
         WriteTmp, WriteFails, RenameTmp, RenameFails
  <2>2. CASE cfgMem' \in CfgData /\ StartSave(w, cfgMem')
    BY <2>1, <2>2, StartedCallers DEF CfgInv, UpKept, At
  <2>3. CASE CfgReturn(w)
    BY <2>1, <2>3, ReturnedCallers DEF CfgInv, UpKept, At
  <2>4. CASE GetProfile(w) \/ Update(w)
    <3>1. cfgUp = "up" /\ \A v \in CfgCallers : v # w => cfgCaller'[v] = cfgCaller[v]
      BY <2>4 DEF GetProfile, Update, CfgGo, CfgInv, CfgShape
    <3> QED
      BY <2>1, <3>1 DEF UpKept, At
  <2>5. CASE OpenTmp(w) \/ WriteTmp(w)
    <3>1. \A v \in CfgCallers : v # w => cfgCaller'[v] = cfgCaller[v]
      BY <2>5 DEF OpenTmp, WriteTmp, CfgInv, CfgShape
    <3>2. cfgCaller'[w].at \in {"opened", "written"}
      BY <2>5 DEF OpenTmp, WriteTmp, CfgInv, CfgShape, Caller
    <3> QED
      BY <2>1, <3>1, <3>2 DEF UpKept, At
  <2>6. CASE SaveProfile(w) \/ SetSetting(w) \/ DeleteProfile(w) \/ Save(w)
    <3>1. CASE \E k \in CfgKeys : Edit(w, k)
      <4>1. cfgEdits + 1 \in Edits \/ ~(cfgEdits < MaxEdits)
        BY CfgAssumption DEF CfgInv, CfgShape, Edits
      <4>2. cfgMem' \in CfgData
        BY <3>1, <4>1 DEF Edit, CfgInv, CfgShape, CfgData
      <4> QED
        BY <2>2, <3>1, <4>2 DEF Edit
    <3>2. CASE DeleteProfile(w)
      <4>1. PICK p \in ProfileIDs : cfgMem' = [cfgMem EXCEPT ![p] = 0] /\ StartSave(w, cfgMem')
        BY <3>2 DEF DeleteProfile
      <4>2. cfgMem' \in CfgData
        BY <4>1, NoEdit DEF CfgInv, CfgShape, CfgData
      <4> QED
        BY <2>2, <4>1, <4>2
    <3>3. CASE Save(w)
      BY <2>2, <3>3 DEF Save, CfgInv, CfgShape
    <3>4. CASE SetSetting(w)
      BY <3>1, <3>4 DEF SetSetting, CfgKeys
    <3>5. CASE SaveProfile(w)
      <4>1. cfgCaller[w].key \in CfgKeys
        BY DEF CfgInv, CfgShape, Caller
      <4> QED
        BY <2>3, <3>1, <3>5, <4>1 DEF SaveProfile
    <3> QED
      BY <2>6, <3>2, <3>3, <3>4, <3>5
  <2>7. CASE WriteFails(w) \/ RenameTmp(w) \/ RenameFails(w)
    BY <2>3, <2>7 DEF WriteFails, RenameTmp, RenameFails, SaveFailed
  <2> QED
    BY <1>4, <2>4, <2>5, <2>6, <2>7 DEF CfgStep
<1>5. CASE UNCHANGED cfgVars
  BY <1>5 DEF cfgVars, UpKept, At
<1> QED
  BY <1>1, <1>2, <1>3, <1>4, <1>5 DEF CfgNext

LEMMA CfgInvStep == CfgInv /\ UpKept /\ [CfgNext]_cfgVars => CfgInv'
<1> SUFFICES ASSUME CfgInv, UpKept, [CfgNext]_cfgVars PROVE CfgInv'
  OBVIOUS
<1>1. ASSUME NEW w \in CfgCallers, CfgStep(w) PROVE CfgInv'
  BY <1>1, GetProfileKeeps, SaveProfileKeeps, DeleteProfileKeeps, SetSettingKeeps, UpdateKeeps, SaveKeeps,
     OpenTmpKeeps, WriteTmpKeeps, WriteFailsKeeps, RenameTmpKeeps, RenameFailsKeeps DEF CfgStep
<1>2. CASE UNCHANGED cfgVars
  <2>1. UNCHANGED <<cfgUp, cfgMem, cfgDisk, cfgPath, cfgTmp, cfgCaller, cfgDoubt, cfgEdits>>
    BY <1>2 DEF cfgVars
  <2>2. Saving' = Saving /\ Replaced' = Replaced
    BY <2>1 DEF Saving, Replaced, At
  <2> QED
    BY <2>1, <2>2 DEF CfgInv, CfgShape, AloneKept, TmpKept, PathKept, SnapKept, MemKept, At, Alone
<1> QED
  BY <1>1, <1>2, BootKeeps, LoadKeeps, BootFailsKeeps, CrashKeeps DEF CfgNext

LEMMA UpInit == CfgInit => UpKept
BY DEF CfgInit, UpKept, At, NoCaller

\* The invariant that the two theorems rest on.
THEOREM ConfigInv == CfgSpec => [](CfgInv /\ UpKept)
BY CfgInitInv, UpInit, CfgInvStep, UpStep, PTL DEF CfgSpec

\* The file is whole at every moment, also after a crash, unless two saves ran at a time.
THEOREM ConfigWhole == CfgSpec => []WholeUnlessOverlapped
<1>1. CfgInv => WholeUnlessOverlapped
  BY DEF CfgInv, PathKept, WholeUnlessOverlapped, Content
<1> QED
  BY <1>1, ConfigInv, PTL

\* When nobody is at work, the file is what memory holds, unless saves overlapped or failed.
THEOREM ConfigSaved == CfgSpec => []SavedUnlessOverlapped
<1>1. CfgInv => SavedUnlessOverlapped
  <2> SUFFICES ASSUME CfgInv, cfgUp = "up", CfgIdle, cfgDoubt = "none" PROVE Content(cfgPath) = Whole(cfgMem)
    BY DEF SavedUnlessOverlapped
  <2>1. Saving = {} /\ Replaced = {}
    BY DEF CfgIdle, Saving, Replaced, At
  <2> QED
    BY <2>1 DEF CfgInv, MemKept, Content
<1> QED
  BY <1>1, ConfigInv, PTL

(***************************************************************************)
(* The keyring index, for any number of secrets and calls: what is listed  *)
(* is what can be fetched, but for the entries and contents that a failure *)
(* half-way accounts for, as long as no call writes an outdated index.     *)
(***************************************************************************)
Call == [at : {"idle", "fill", "drop", "read", "write", "rollback"}, op : {"set", "get", "delete"},
         id : Nat, view : SUBSET Nat]

RingShape ==
  /\ ringMade \in 0 .. MaxRingIDs
  /\ ringContent \subseteq 1 .. ringMade /\ ringGiven \subseteq 1 .. ringMade
  /\ ringCaller \in [RingCallers -> Call]

\* The calls of Set whose ID is not listed yet.
Unlisted == {w \in RingCallers : ringCaller[w].op = "set" /\ ringCaller[w].at \in {"read", "write", "rollback"}}

\* Only what was listed can be in the index or in a call's copy of it.
Listed == ringIndex \subseteq ringGiven /\ \A w \in RingCallers : ringCaller[w].view \subseteq ringGiven
\* A call of Set has an ID to itself, with a content, that nobody else has seen.
SetsAlone == \A w \in Unlisted :
  /\ ringCaller[w].id \in ringContent /\ ringCaller[w].id \notin ringGiven
  /\ \A v \in Unlisted : v # w => ringCaller[v].id # ringCaller[w].id
\* A call of Delete has taken the content of a listed ID away, and nothing brings it back; only
\* Delete empties the cache and only Set rolls back.
DeletesGone == \A w \in RingCallers :
  /\ ringCaller[w].op = "delete" => ringCaller[w].id \in ringGiven /\ ringCaller[w].id \notin ringContent
  /\ ringCaller[w].at = "drop" => ringCaller[w].op = "delete"
  /\ ringCaller[w].at = "rollback" => ringCaller[w].op = "set"
CallsKept == RingShape /\ Listed /\ SetsAlone /\ DeletesGone

\* IndexExact with calls in progress.
NoGhost == ringIndex \ ringContent \subseteq ghosts
NoOrphan == \A id \in ringContent \ ringIndex : id \in orphans \/ \E w \in Unlisted : ringCaller[w].id = id
IndexKept == ~ringStale => NoGhost /\ NoOrphan

LEMMA RingCallShape ==
  ASSUME RingShape, NEW w \in RingCallers, NEW op \in {"set", "get", "delete"}, NEW id \in Nat,
         NEW at \in {"fill", "drop", "read"}, RingCall(w, op, id, at)
  PROVE  /\ ringCaller' \in [RingCallers -> Call]
         /\ ringCaller'[w] = [at |-> at, op |-> op, id |-> id, view |-> {}]
         /\ \A v \in RingCallers : v # w => ringCaller'[v] = ringCaller[v]
         /\ ringCaller[w].at = "idle"
BY DEF RingCall, RingShape, Call

LEMMA RingGoShape ==
  ASSUME RingShape, NEW w \in RingCallers,
         NEW at \in {"idle", "fill", "drop", "read", "write", "rollback"}, RingGo(w, at)
  PROVE  /\ ringCaller' \in [RingCallers -> Call]
         /\ \A v \in RingCallers : v # w => ringCaller'[v] = ringCaller[v]
         /\ ringCaller'[w].at = at /\ ringCaller'[w].op = ringCaller[w].op
         /\ ringCaller'[w].id = ringCaller[w].id /\ ringCaller'[w].view = ringCaller[w].view
BY DEF RingGo, RingShape, Call

LEMMA RingReturnShape ==
  ASSUME RingShape, NEW w \in RingCallers, RingReturn(w)
  PROVE  /\ ringCaller' \in [RingCallers -> Call]
         /\ \A v \in RingCallers : v # w => ringCaller'[v] = ringCaller[v]
         /\ ringCaller'[w] = NoCall
BY DEF RingReturn, RingShape, Call, NoCall

LEMMA CallsInit == RingInit => CallsKept
<1> SUFFICES ASSUME RingInit PROVE CallsKept
  OBVIOUS
<1>1. RingShape
  BY RingAssumption DEF RingInit, RingShape, Call, NoCall
<1>2. Unlisted = {}
  BY DEF RingInit, Unlisted, NoCall
<1> QED
  BY <1>1, <1>2 DEF RingInit, CallsKept, Listed, SetsAlone, DeletesGone, NoCall

\* A call that moves on, or returns, without touching the keyring or what is listed.
LEMMA CallsMoved ==
  ASSUME CallsKept, NEW w \in RingCallers, UNCHANGED <<keyring, ringMade, ringGiven>>,
         ringCaller' \in [RingCallers -> Call],
         \A v \in RingCallers : v # w => ringCaller'[v] = ringCaller[v],
         ringCaller'[w].view \subseteq ringGiven,
         w \in Unlisted' => w \in Unlisted /\ ringCaller'[w].id = ringCaller[w].id,
         ringCaller'[w].op = "delete" =>
           ringCaller[w].op = "delete" /\ ringCaller'[w].id = ringCaller[w].id,
         ringCaller'[w].at # "drop", ringCaller'[w].at = "rollback" => ringCaller'[w].op = "set"
  PROVE  CallsKept'
<1>1. RingShape' /\ Listed'
  BY DEF CallsKept, RingShape, Listed, keyring
<1>2. Unlisted' \subseteq Unlisted /\ \A v \in Unlisted' : ringCaller'[v].id = ringCaller[v].id
  BY DEF Unlisted
<1>3. SetsAlone'
  BY <1>2 DEF CallsKept, SetsAlone, keyring
<1>4. DeletesGone'
  BY DEF CallsKept, DeletesGone, keyring
<1> QED
  BY <1>1, <1>3, <1>4 DEF CallsKept

\* What a call writes is what it read, but for its own ID.
LEMMA WrittenIndex ==
  ASSUME RingShape, NEW w \in RingCallers
  PROVE  LET c == ringCaller[w] IN
         /\ c.op = "set" => NewIndex(c) = c.view \cup {c.id}
         /\ c.op = "delete" => NewIndex(c) = c.view \ {c.id}
         /\ c.op = "get" => NewIndex(c) = c.view
         /\ c.op \in {"set", "delete", "get"}
BY DEF NewIndex, RingShape, Call

LEMMA CallsStep == CallsKept /\ [RingNext]_ringVars => CallsKept'
<1> SUFFICES ASSUME CallsKept, [RingNext]_ringVars PROVE CallsKept'
  OBVIOUS
<1>0. RingShape
  BY DEF CallsKept
<1>1. ASSUME NEW w \in RingCallers, RingSet(w) PROVE CallsKept'
  <2> DEFINE id == ringMade + 1
  <2>0. /\ id \in Nat /\ id \notin 1 .. ringMade /\ 1 .. ringMade \subseteq 1 .. id /\ id \in 1 .. id
        /\ id \in 0 .. MaxRingIDs
    BY <1>0, <1>1, RingAssumption DEF RingShape, RingSet
  <2>1. RingCall(w, "set", id, "read") /\ ringMade' = id /\ ringContent' = ringContent \cup {id}
        /\ ringGiven' = ringGiven /\ ringIndex' = ringIndex
    BY <1>1 DEF RingSet
  <2> HIDE DEF id
  <2>2. /\ ringCaller' \in [RingCallers -> Call] /\ ringCaller'[w] = [at |-> "read", op |-> "set", id |-> id, view |-> {}]
        /\ \A v \in RingCallers : v # w => ringCaller'[v] = ringCaller[v]
    BY <1>0, <2>0, <2>1, RingCallShape
  <2>3. RingShape'
    BY <1>0, <2>0, <2>1, <2>2 DEF RingShape
  <2>4. Listed'
    BY <2>1, <2>2 DEF CallsKept, Listed
  <2>5. \A v \in Unlisted' : v # w => v \in Unlisted /\ ringCaller'[v] = ringCaller[v]
    BY <2>2 DEF Unlisted
  <2>6. id \notin ringContent /\ id \notin ringGiven
    BY <1>0, <2>0 DEF RingShape
  <2>7. SetsAlone'
    BY <2>1, <2>2, <2>5, <2>6 DEF CallsKept, SetsAlone
  <2>8. DeletesGone'
    BY <2>1, <2>2, <2>6 DEF CallsKept, DeletesGone
  <2> QED
    BY <2>3, <2>4, <2>7, <2>8 DEF CallsKept
<1>2. ASSUME NEW w \in RingCallers, RingGet(w) PROVE CallsKept'
  <2>1. PICK id \in ringGiven : RingCall(w, "get", id, IF id \in ringCache THEN "read" ELSE "fill")
    BY <1>2 DEF RingGet
  <2>2. UNCHANGED <<keyring, ringMade, ringGiven>>
    BY <1>2 DEF RingGet
  <2>3. id \in Nat
    BY <1>0 DEF RingShape
  <2>4. PICK at \in {"read", "fill"} : RingCall(w, "get", id, at)
    BY <2>1
  <2>5. /\ ringCaller' \in [RingCallers -> Call] /\ ringCaller'[w] = [at |-> at, op |-> "get", id |-> id, view |-> {}]
        /\ \A v \in RingCallers : v # w => ringCaller'[v] = ringCaller[v]
    BY <1>0, <2>3, <2>4, RingCallShape
  <2>6. w \notin Unlisted'
    BY <2>5 DEF Unlisted
  <2> QED
    BY <2>2, <2>5, <2>6, CallsMoved
<1>3. ASSUME NEW w \in RingCallers, RingDelete(w) PROVE CallsKept'
  <2>1. PICK id \in ringGiven : RingCall(w, "delete", id, "drop") /\ ringContent' = ringContent \ {id}
    BY <1>3 DEF RingDelete
  <2>2. UNCHANGED <<ringIndex, ringMade, ringGiven>>
    BY <1>3 DEF RingDelete
  <2>3. id \in Nat
    BY <1>0 DEF RingShape
  <2>4. /\ ringCaller' \in [RingCallers -> Call] /\ ringCaller'[w] = [at |-> "drop", op |-> "delete", id |-> id, view |-> {}]
        /\ \A v \in RingCallers : v # w => ringCaller'[v] = ringCaller[v]
    BY <1>0, <2>1, <2>3, RingCallShape
  <2>5. \A v \in Unlisted' : v \in Unlisted /\ ringCaller'[v] = ringCaller[v]
    BY <2>4 DEF Unlisted
  <2>6. RingShape' /\ Listed'
    BY <1>0, <2>1, <2>2, <2>4 DEF RingShape, CallsKept, Listed
  <2>7. SetsAlone'
    BY <2>1, <2>2, <2>5 DEF CallsKept, SetsAlone
  <2>8. DeletesGone'
    BY <2>1, <2>2, <2>4 DEF CallsKept, DeletesGone
  <2> QED
    BY <2>6, <2>7, <2>8 DEF CallsKept
<1>4. ASSUME NEW w \in RingCallers, Cached(w) PROVE CallsKept'
  <2>1. UNCHANGED <<keyring, ringMade, ringGiven>>
    BY <1>4 DEF Cached
  <2>2. CASE /\ RingGo(w, "read")
             /\ (ringCaller[w].at = "fill" /\ ringCaller[w].op = "get") \/ ringCaller[w].at = "drop"
    <3>1. ringCaller[w].op # "set"
      BY <2>2 DEF CallsKept, DeletesGone
    <3>2. w \notin Unlisted'
      BY <1>0, <2>2, <3>1, RingGoShape DEF Unlisted
    <3> QED
      BY <1>0, <2>1, <2>2, <3>2, RingGoShape, CallsMoved DEF CallsKept, Listed
  <2>3. CASE RingReturn(w)
    <3>1. w \notin Unlisted'
      BY <1>0, <2>3, RingReturnShape DEF Unlisted, NoCall
    <3> QED
      BY <1>0, <2>1, <2>3, <3>1, RingReturnShape, CallsMoved DEF NoCall
  <2> QED
    BY <1>4, <2>2, <2>3 DEF Cached
<1>5. ASSUME NEW w \in RingCallers, ReadIndex(w) PROVE CallsKept'
  <2>1. UNCHANGED <<keyring, ringMade, ringGiven>> /\ ringCaller[w].at = "read"
    BY <1>5 DEF ReadIndex
  <2>2. CASE ringCaller' = [ringCaller EXCEPT ![w].at = "write", ![w].view = ringIndex]
    <3>1. /\ ringCaller' \in [RingCallers -> Call]
          /\ \A v \in RingCallers : v # w => ringCaller'[v] = ringCaller[v]
          /\ ringCaller'[w].at = "write" /\ ringCaller'[w].op = ringCaller[w].op
          /\ ringCaller'[w].id = ringCaller[w].id /\ ringCaller'[w].view = ringIndex
      <4>1. ringIndex \in SUBSET Nat
        BY <1>0 DEF CallsKept, Listed, RingShape
      <4> QED
        BY <1>0, <2>2, <4>1 DEF RingShape, Call
    <3>2. w \in Unlisted' => w \in Unlisted
      BY <2>1, <3>1 DEF Unlisted
    <3> QED
      BY <2>1, <3>1, <3>2, CallsMoved DEF CallsKept, Listed
  <2>3. CASE RingReturn(w)
    <3>1. w \notin Unlisted'
      BY <1>0, <2>3, RingReturnShape DEF Unlisted, NoCall
    <3> QED
      BY <1>0, <2>1, <2>3, <3>1, RingReturnShape, CallsMoved DEF NoCall
  <2> QED
    BY <1>5, <2>2, <2>3 DEF ReadIndex
<1>6. ASSUME NEW w \in RingCallers, WriteIndex(w) PROVE CallsKept'
  <2>1. /\ ringCaller[w].at = "write" /\ ringIndex' = NewIndex(ringCaller[w])
        /\ ringGiven' = ringGiven \cup ringIndex' /\ ringContent' = ringContent /\ ringMade' = ringMade
    BY <1>6 DEF WriteIndex
  <2>2. /\ ringCaller' \in [RingCallers -> Call]
        /\ \A v \in RingCallers : v # w => ringCaller'[v] = ringCaller[v]
        /\ ringCaller'[w].view \subseteq ringGiven /\ ringCaller'[w].at \in {"fill", "idle"}
        /\ ringCaller'[w].op = "delete" => FALSE
    <3>1. CASE ringCaller[w].op = "set"
      <4>1. RingGo(w, "fill")
        BY <1>6, <3>1 DEF WriteIndex
      <4> QED
        BY <1>0, <3>1, <4>1, RingGoShape DEF CallsKept, Listed
    <3>2. CASE ringCaller[w].op # "set"
      <4>1. RingReturn(w)
        BY <1>6, <3>2 DEF WriteIndex
      <4> QED
        BY <1>0, <4>1, RingReturnShape DEF NoCall
    <3> QED
      BY <3>1, <3>2
  <2>3. ringIndex' \subseteq ringGiven \cup {ringCaller[w].id}
        /\ (ringCaller[w].op # "set" => ringIndex' \subseteq ringGiven)
    BY <1>0, <2>1, WrittenIndex DEF CallsKept, Listed
  <2>4. ringCaller[w].op = "set" => w \in Unlisted /\ ringCaller[w].id \in ringContent
    BY <2>1 DEF Unlisted, CallsKept, SetsAlone
  <2>5. RingShape'
    BY <1>0, <2>1, <2>2, <2>3, <2>4 DEF RingShape
  <2>6. Listed'
    BY <2>1, <2>2 DEF CallsKept, Listed
  <2>7. \A v \in Unlisted' : v # w /\ v \in Unlisted /\ ringCaller'[v] = ringCaller[v]
    BY <2>2 DEF Unlisted
  <2>8. SetsAlone'
    BY <2>1, <2>3, <2>4, <2>7 DEF CallsKept, SetsAlone
  <2>9. DeletesGone'
    BY <2>1, <2>2 DEF CallsKept, DeletesGone
  <2> QED
    BY <2>5, <2>6, <2>8, <2>9 DEF CallsKept
<1>7. ASSUME NEW w \in RingCallers, IndexFails(w) PROVE CallsKept'
  <2>1. UNCHANGED <<keyring, ringMade, ringGiven>> /\ ringCaller[w].at \in {"read", "write"}
    BY <1>7 DEF IndexFails
  <2>2. CASE ringCaller[w].op = "set" /\ RingGo(w, "rollback")
    <3>1. w \in Unlisted
      BY <2>1, <2>2 DEF Unlisted
    <3> QED
      BY <1>0, <2>1, <2>2, <3>1, RingGoShape, CallsMoved DEF CallsKept, Listed
  <2>3. CASE RingReturn(w)
    <3>1. w \notin Unlisted'
      BY <1>0, <2>3, RingReturnShape DEF Unlisted, NoCall
    <3> QED
      BY <1>0, <2>1, <2>3, <3>1, RingReturnShape, CallsMoved DEF NoCall
  <2> QED
    BY <1>7, <2>2, <2>3 DEF IndexFails
<1>8. ASSUME NEW w \in RingCallers, Rollback(w) PROVE CallsKept'
  <2>1. /\ ringCaller[w].at = "rollback" /\ RingReturn(w)
        /\ ringContent' \in {ringContent, ringContent \ {ringCaller[w].id}}
        /\ UNCHANGED <<ringIndex, ringMade, ringGiven>>
    BY <1>8 DEF Rollback
  <2>2. /\ ringCaller' \in [RingCallers -> Call] /\ ringCaller'[w] = NoCall
        /\ \A v \in RingCallers : v # w => ringCaller'[v] = ringCaller[v]
    BY <1>0, <2>1, RingReturnShape
  <2>3. w \in Unlisted
    BY <2>1 DEF CallsKept, DeletesGone, Unlisted
  <2>4. \A v \in Unlisted' : v # w /\ v \in Unlisted /\ ringCaller'[v] = ringCaller[v]
    BY <2>2 DEF Unlisted, NoCall
  <2>5. RingShape' /\ Listed'
    BY <1>0, <2>1, <2>2 DEF RingShape, CallsKept, Listed, NoCall
  <2>6. SetsAlone'
    BY <2>1, <2>3, <2>4 DEF CallsKept, SetsAlone
  <2>7. DeletesGone'
    BY <2>1, <2>2 DEF CallsKept, DeletesGone, NoCall
  <2> QED
    BY <2>5, <2>6, <2>7 DEF CallsKept
<1>9. CASE RingRestart
  <2>1. ringCaller' = [w \in RingCallers |-> NoCall] /\ UNCHANGED <<keyring, ringMade, ringGiven>>
    BY <1>9 DEF RingRestart
  <2>2. RingShape'
    BY <1>0, <2>1 DEF RingShape, NoCall, Call, keyring
  <2>3. Unlisted' = {}
    BY <2>1 DEF Unlisted, NoCall
  <2> QED
    BY <2>1, <2>2, <2>3 DEF CallsKept, Listed, SetsAlone, DeletesGone, NoCall, keyring
<1>10. CASE UNCHANGED ringVars
  <2>1. UNCHANGED <<ringContent, ringIndex, ringMade, ringGiven, ringCaller>>
    BY <1>10 DEF ringVars
  <2>2. Unlisted' = Unlisted
    BY <2>1 DEF Unlisted
  <2> QED
    BY <2>1, <2>2 DEF CallsKept, RingShape, Listed, SetsAlone, DeletesGone
<1> QED
  BY <1>1, <1>2, <1>3, <1>4, <1>5, <1>6, <1>7, <1>8, <1>9, <1>10 DEF RingNext, RingStep

LEMMA IndexInit == RingInit => IndexKept
BY DEF RingInit, IndexKept, NoGhost, NoOrphan

\* A call that moves on, or returns, and leaves the contents and the list alone.
LEMMA IndexMoved ==
  ASSUME IndexKept, NEW w \in RingCallers, UNCHANGED keyring,
         \A v \in RingCallers : v # w => ringCaller'[v] = ringCaller[v],
         w \in Unlisted => w \in Unlisted' /\ ringCaller'[w].id = ringCaller[w].id,
         ringIndex \cap ghosts \subseteq ghosts', orphans \subseteq orphans', ~ringStale
  PROVE  NoGhost' /\ NoOrphan'
<1>1. Unlisted \subseteq Unlisted' /\ \A v \in Unlisted : ringCaller'[v].id = ringCaller[v].id
  BY DEF Unlisted
<1> QED
  BY <1>1 DEF IndexKept, NoGhost, NoOrphan, keyring

LEMMA IndexStep == CallsKept /\ CallsKept' /\ IndexKept /\ [RingNext]_ringVars => IndexKept'
<1> SUFFICES ASSUME CallsKept, CallsKept', IndexKept, [RingNext]_ringVars, ~ringStale'
             PROVE  NoGhost' /\ NoOrphan'
  BY DEF IndexKept
<1>0. RingShape
  BY DEF CallsKept
<1>1. ASSUME NEW w \in RingCallers, RingSet(w) PROVE NoGhost' /\ NoOrphan'
  <2> DEFINE id == ringMade + 1
  <2>1. /\ RingCall(w, "set", id, "read") /\ ringContent' = ringContent \cup {id}
        /\ UNCHANGED <<ringIndex, ringHistory>> /\ id \in Nat
    BY <1>0, <1>1 DEF RingSet, RingShape
  <2> HIDE DEF id
  <2>2. /\ ringCaller'[w] = [at |-> "read", op |-> "set", id |-> id, view |-> {}] /\ ringCaller[w].at = "idle"
        /\ \A v \in RingCallers : v # w => ringCaller'[v] = ringCaller[v]
    BY <1>0, <2>1, RingCallShape
  <2>3. w \in Unlisted' /\ ringCaller'[w].id = id
    BY <2>2 DEF Unlisted
  <2>4. \A v \in Unlisted : v \in Unlisted' /\ ringCaller'[v] = ringCaller[v]
    BY <2>2 DEF Unlisted
  <2>5. NoGhost /\ NoOrphan
    BY <2>1 DEF IndexKept, ringHistory
  <2> QED
    BY <2>1, <2>3, <2>4, <2>5 DEF NoGhost, NoOrphan, ringHistory
<1>2. ASSUME NEW w \in RingCallers, RingGet(w) PROVE NoGhost' /\ NoOrphan'
  <2>1. PICK id \in ringGiven : RingCall(w, "get", id, IF id \in ringCache THEN "read" ELSE "fill")
    BY <1>2 DEF RingGet
  <2>2. UNCHANGED <<keyring, ringHistory>>
    BY <1>2 DEF RingGet
  <2>3. PICK at \in {"read", "fill"} : RingCall(w, "get", id, at)
    BY <2>1
  <2>4. id \in Nat
    BY <1>0 DEF RingShape
  <2>5. ringCaller[w].at = "idle" /\ \A v \in RingCallers : v # w => ringCaller'[v] = ringCaller[v]
    BY <1>0, <2>3, <2>4, RingCallShape
  <2>6. w \notin Unlisted
    BY <2>5 DEF Unlisted
  <2> QED
    BY <2>2, <2>5, <2>6, IndexMoved DEF ringHistory
<1>3. ASSUME NEW w \in RingCallers, RingDelete(w) PROVE NoGhost' /\ NoOrphan'
  <2>1. PICK id \in ringGiven : /\ RingCall(w, "delete", id, "drop") /\ ringContent' = ringContent \ {id}
                                /\ ghosts' = ghosts \cup {id}
    BY <1>3 DEF RingDelete
  <2>2. UNCHANGED <<ringIndex, ringStale, orphans>>
    BY <1>3 DEF RingDelete
  <2>3. id \in Nat
    BY <1>0 DEF RingShape
  <2>4. ringCaller[w].at = "idle" /\ \A v \in RingCallers : v # w => ringCaller'[v] = ringCaller[v]
    BY <1>0, <2>1, <2>3, RingCallShape
  <2>5. \A v \in Unlisted : v \in Unlisted' /\ ringCaller'[v] = ringCaller[v]
    BY <2>4 DEF Unlisted
  <2> QED
    BY <2>1, <2>2, <2>5 DEF IndexKept, NoGhost, NoOrphan
<1>4. ASSUME NEW w \in RingCallers, Cached(w) PROVE NoGhost' /\ NoOrphan'
  <2>1. UNCHANGED <<keyring, ringHistory>> /\ ringCaller[w].at \in {"fill", "drop"} /\ (RingGo(w, "read") \/ RingReturn(w))
    BY <1>4 DEF Cached
  <2>2. \A v \in RingCallers : v # w => ringCaller'[v] = ringCaller[v]
    BY <1>0, <2>1, RingGoShape, RingReturnShape
  <2>3. w \notin Unlisted
    BY <2>1 DEF Unlisted
  <2> QED
    BY <2>1, <2>2, <2>3, IndexMoved DEF ringHistory
<1>5. ASSUME NEW w \in RingCallers, ReadIndex(w) PROVE NoGhost' /\ NoOrphan'
  <2>1. UNCHANGED <<keyring, ringStale, orphans>> /\ ringCaller[w].at = "read"
    BY <1>5 DEF ReadIndex
  <2>2. CASE ringCaller' = [ringCaller EXCEPT ![w].at = "write", ![w].view = ringIndex] /\ UNCHANGED ghosts
    <3>1. /\ \A v \in RingCallers : v # w => ringCaller'[v] = ringCaller[v]
          /\ ringCaller'[w].at = "write" /\ ringCaller'[w].op = ringCaller[w].op /\ ringCaller'[w].id = ringCaller[w].id
      BY <1>0, <2>2 DEF RingShape, Call
    <3>2. w \in Unlisted => w \in Unlisted'
      BY <3>1 DEF Unlisted
    <3> QED
      BY <2>1, <2>2, <3>1, <3>2, IndexMoved
  <2>3. CASE /\ ~(ringCaller[w].op = "set" \/ ringCaller[w].id \in ringIndex)
             /\ RingReturn(w) /\ ghosts' = ghosts \ {ringCaller[w].id}
    <3>1. \A v \in RingCallers : v # w => ringCaller'[v] = ringCaller[v]
      BY <1>0, <2>3, RingReturnShape
    <3>2. w \notin Unlisted
      BY <2>3 DEF Unlisted
    <3> QED
      BY <2>1, <2>3, <3>1, <3>2, IndexMoved
  <2> QED
    BY <1>5, <2>2, <2>3 DEF ReadIndex
<1>6. ASSUME NEW w \in RingCallers, WriteIndex(w) PROVE NoGhost' /\ NoOrphan'
  <2>1. /\ ringCaller[w].at = "write" /\ ringIndex' = NewIndex(ringCaller[w]) /\ UNCHANGED <<ringContent, orphans>>
        /\ ghosts' = IF ringCaller[w].op = "delete" THEN ghosts \ {ringCaller[w].id} ELSE ghosts
    BY <1>6 DEF WriteIndex
  <2>2. ~ringStale /\ ringCaller[w].view = ringIndex
    BY <1>6 DEF WriteIndex
  <2>3. \A v \in RingCallers : v # w => ringCaller'[v] = ringCaller[v]
    BY <1>0, <1>6, RingGoShape, RingReturnShape DEF WriteIndex
  <2>4. \A v \in Unlisted : v = w \/ (v \in Unlisted' /\ ringCaller'[v] = ringCaller[v])
    BY <2>3 DEF Unlisted
  <2>5. NoGhost /\ NoOrphan
    BY <2>2 DEF IndexKept
  <2>6. CASE ringCaller[w].op = "set"
    <3>1. w \in Unlisted /\ ringCaller[w].id \in ringContent
      BY <2>1, <2>6 DEF Unlisted, CallsKept, SetsAlone
    <3>2. ringIndex' = ringIndex \cup {ringCaller[w].id} /\ ghosts' = ghosts
      BY <1>0, <2>1, <2>2, <2>6, WrittenIndex
    <3> QED
      BY <2>1, <2>4, <2>5, <3>1, <3>2 DEF NoGhost, NoOrphan
  <2>7. CASE ringCaller[w].op = "delete"
    <3>1. w \notin Unlisted
      BY <2>7 DEF Unlisted
    <3>2. ringIndex' = ringIndex \ {ringCaller[w].id} /\ ghosts' = ghosts \ {ringCaller[w].id}
      BY <1>0, <2>1, <2>2, <2>7, WrittenIndex
    <3>3. ringCaller[w].id \notin ringContent
      BY <2>7 DEF CallsKept, DeletesGone
    <3> QED
      BY <2>1, <2>4, <2>5, <3>1, <3>2, <3>3 DEF NoGhost, NoOrphan
  <2>8. CASE ringCaller[w].op = "get"
    <3>1. w \notin Unlisted
      BY <2>8 DEF Unlisted
    <3>2. ringIndex' = ringIndex /\ ghosts' = ghosts
      BY <1>0, <2>1, <2>2, <2>8, WrittenIndex
    <3> QED
      BY <2>1, <2>4, <2>5, <3>1, <3>2 DEF NoGhost, NoOrphan
  <2> QED
    BY <1>0, <2>6, <2>7, <2>8, WrittenIndex
<1>7. ASSUME NEW w \in RingCallers, IndexFails(w) PROVE NoGhost' /\ NoOrphan'
  <2>1. UNCHANGED <<keyring, ringHistory>> /\ ringCaller[w].at \in {"read", "write"}
    BY <1>7 DEF IndexFails
  <2>2. CASE ringCaller[w].op = "set" /\ RingGo(w, "rollback")
    <3>1. /\ \A v \in RingCallers : v # w => ringCaller'[v] = ringCaller[v]
          /\ ringCaller'[w].at = "rollback" /\ ringCaller'[w].op = "set" /\ ringCaller'[w].id = ringCaller[w].id
      BY <1>0, <2>2, RingGoShape
    <3>2. w \in Unlisted'
      BY <3>1 DEF Unlisted
    <3> QED
      BY <2>1, <3>1, <3>2, IndexMoved DEF ringHistory
  <2>3. CASE ringCaller[w].op # "set" /\ RingReturn(w)
    <3>1. \A v \in RingCallers : v # w => ringCaller'[v] = ringCaller[v]
      BY <1>0, <2>3, RingReturnShape
    <3>2. w \notin Unlisted
      BY <2>3 DEF Unlisted
    <3> QED
      BY <2>1, <3>1, <3>2, IndexMoved DEF ringHistory
  <2> QED
    BY <1>7, <2>2, <2>3 DEF IndexFails
<1>8. ASSUME NEW w \in RingCallers, Rollback(w) PROVE NoGhost' /\ NoOrphan'
  <2> DEFINE id == ringCaller[w].id
  <2>1. /\ ringCaller[w].at = "rollback" /\ RingReturn(w) /\ UNCHANGED <<ringIndex, ringStale, ghosts>>
        /\ \/ ringContent' = ringContent \ {id} /\ UNCHANGED orphans
           \/ orphans' = orphans \cup ({id} \cap ringContent) /\ UNCHANGED ringContent
    BY <1>8 DEF Rollback
  <2>2. \A v \in RingCallers : v # w => ringCaller'[v] = ringCaller[v]
    BY <1>0, <2>1, RingReturnShape
  <2>3. \A v \in Unlisted : v = w \/ (v \in Unlisted' /\ ringCaller'[v] = ringCaller[v])
    BY <2>2 DEF Unlisted
  <2>4. w \in Unlisted
    BY <2>1 DEF CallsKept, DeletesGone, Unlisted
  <2>5. id \notin ringIndex
    BY <2>4 DEF CallsKept, SetsAlone, Listed
  <2>6. NoGhost /\ NoOrphan
    BY <2>1 DEF IndexKept
  <2>7. NoGhost'
    BY <2>1, <2>5, <2>6 DEF NoGhost
  <2>8. NoOrphan'
    BY <2>1, <2>3, <2>6 DEF NoOrphan
  <2> QED
    BY <2>7, <2>8
<1>9. CASE RingRestart
  <2>1. /\ orphans' = orphans \cup {id \in ringContent \ ringIndex : \E w \in RingCallers :
                        ringCaller[w].at # "idle" /\ ringCaller[w].op = "set" /\ ringCaller[w].id = id}
        /\ UNCHANGED <<keyring, ringStale, ghosts>>
    BY <1>9 DEF RingRestart
  <2>2. NoGhost /\ NoOrphan
    BY <2>1 DEF IndexKept
  <2>3. NoGhost'
    BY <2>1, <2>2 DEF NoGhost, keyring
  <2>4. \A id \in ringContent \ ringIndex : id \in orphans'
    BY <2>1, <2>2 DEF NoOrphan, Unlisted
  <2> QED
    BY <2>1, <2>3, <2>4 DEF NoOrphan, keyring
<1>10. CASE UNCHANGED ringVars
  <2>1. UNCHANGED <<ringContent, ringIndex, ringCaller, ghosts, orphans, ringStale>>
    BY <1>10 DEF ringVars, ringHistory
  <2>2. Unlisted' = Unlisted
    BY <2>1 DEF Unlisted
  <2> QED
    BY <2>1, <2>2 DEF IndexKept, NoGhost, NoOrphan
<1> QED
  BY <1>1, <1>2, <1>3, <1>4, <1>5, <1>6, <1>7, <1>8, <1>9, <1>10 DEF RingNext, RingStep

\* As long as no call writes an outdated index, what is listed is what can be fetched.
THEOREM RingIndexExact == RingSpec => []IndexExact
<1>1. IndexKept => IndexExact
  BY DEF IndexKept, NoGhost, NoOrphan, IndexExact, Unlisted
<1> QED
  BY <1>1, CallsInit, CallsStep, IndexInit, IndexStep, PTL DEF RingSpec

(***************************************************************************)
(* The encrypted file, for any number of secrets, passphrases and salts:   *)
(* Set is all or nothing on disk, and what can be read now can be read     *)
(* after the next start.  Both rest on the writing of salt, mark and items *)
(* together, and on a new salt being one that no item was sealed under.    *)
(***************************************************************************)
Secrets == Passphrases \cup {NoPassphrase}
Keys == Nat \X Secrets
Sealed == [VaultIDs -> Keys]

\* The types the proofs need; salts are numbered in the order they were made.
VaultShape ==
  /\ vMade \in 1 .. MaxSalts /\ vSalt \in 1 .. vMade /\ vLocked \in BOOLEAN
  /\ vKey \in Keys /\ vItems \in Sealed
  /\ vFile \in [salt : 1 .. vMade, locked : BOOLEAN, items : Sealed]
  /\ vFlushes \in 0 .. MaxFlushes
  /\ fate \in [VaultIDs -> {"unmade", "returned", "refused", "deleted"}]

\* The fate of an ID and its place in memory and in the file.
FateKept == \A id \in VaultIDs :
  /\ fate[id] = "returned" => vItems[id] # NoSecretKey /\ vFile.items[id] # NoSecretKey
  /\ fate[id] \in {"unmade", "refused"} => vItems[id] = NoSecretKey /\ vFile.items[id] = NoSecretKey

\* The key comes from the salt in memory, and from no passphrase unless the store is marked.
KeyOfSalt == vKey # NoSecretKey => vKey[1] = vSalt /\ (vLocked \/ vKey[2] = NoPassphrase)
\* Nothing is sealed under a salt that is not made yet.
SaltsMade == \A id \in VaultIDs : vItems[id][1] <= vMade /\ vFile.items[id][1] <= vMade
\* The file has the mark that goes with its salt, or it has no item of the salt in memory.
FileOfSalt ==
  /\ vFile.salt = vSalt => vFile.locked = vLocked
  /\ vFile.salt # vSalt => \A id \in VaultIDs : vFile.items[id][1] # vSalt

KeysKept == KeyOfSalt /\ SaltsMade /\ FileOfSalt

LEMMA KeyPairs ==
  /\ NoSecretKey \in Keys /\ NoSecretKey[1] = 0
  /\ \A p \in Secrets, s \in Nat : /\ DeriveKey(p, s) \in Keys
                                  /\ DeriveKey(p, s)[1] = s /\ DeriveKey(p, s)[2] = p
BY DEF NoSecretKey, DeriveKey, Keys, Secrets

LEMMA VaultShapeInit == VaultInit => VaultShape
<1> SUFFICES ASSUME VaultInit PROVE VaultShape
  OBVIOUS
<1>1. vMade \in 1 .. MaxSalts /\ vSalt \in 1 .. vMade /\ vLocked \in BOOLEAN /\ vFlushes \in 0 .. MaxFlushes
  <2>1. vMade = 1 /\ vSalt = 1 /\ vLocked = FALSE /\ vFlushes = 0
    BY DEF VaultInit
  <2>2. vMade \in 1 .. MaxSalts /\ vSalt \in 1 .. vMade /\ vFlushes \in 0 .. MaxFlushes
    BY <2>1, VaultAssumption
  <2> QED
    BY <2>1, <2>2
<1>2. vKey \in Keys
  BY KeyPairs DEF VaultInit, Secrets
<1>3. vItems \in Sealed
  BY KeyPairs DEF VaultInit, Sealed
<1>4. vFile \in [salt : 1 .. vMade, locked : BOOLEAN, items : Sealed]
  BY <1>3 DEF VaultInit
<1>5. fate \in [VaultIDs -> {"unmade", "returned", "refused", "deleted"}]
  BY DEF VaultInit
<1> QED
  BY <1>1, <1>2, <1>3, <1>4, <1>5 DEF VaultShape

LEMMA FlushShape ==
  ASSUME VaultShape, vMade' \in 1 .. MaxSalts, vMade <= vMade', vSalt' \in 1 .. vMade', vLocked' \in BOOLEAN,
         vItems' \in Sealed, Flush \/ FlushFails
  PROVE  vFile' \in [salt : 1 .. vMade', locked : BOOLEAN, items : Sealed]
BY VaultAssumption DEF VaultShape, Flush, FlushFails

LEMMA VaultShapeStep == VaultShape /\ [VaultNext]_vaultVars => VaultShape'
<1> SUFFICES ASSUME VaultShape, [VaultNext]_vaultVars PROVE VaultShape'
  OBVIOUS
<1> USE VaultAssumption
<1>0. /\ vMade \in Nat /\ vSalt \in Nat /\ vMade <= vMade /\ vMade \in 1 .. MaxSalts
      /\ vKey \in Keys /\ vItems \in Sealed
  BY DEF VaultShape
<1>1. ASSUME NEW id \in VaultIDs, VaultSet(id) PROVE VaultShape'
  <2>1. vItems' \in Sealed
    BY <1>1, <1>0 DEF VaultSet, Sealed
  <2>2. vFile' \in [salt : 1 .. vMade', locked : BOOLEAN, items : Sealed]
    BY <1>1, <1>0, <2>1, FlushShape DEF VaultSet, VaultShape
  <2> QED
    BY <1>1, <2>1, <2>2 DEF VaultSet, VaultShape
<1>2. ASSUME NEW id \in VaultIDs, VaultSetFails(id) PROVE VaultShape'
  BY <1>2 DEF VaultSetFails, FlushFails, VaultShape
<1>3. ASSUME NEW id \in VaultIDs, VaultGet(id) PROVE VaultShape'
  BY <1>3 DEF VaultGet, VaultShape
<1>4. CASE LaterFlush
  <2>1. vFile' \in [salt : 1 .. vMade', locked : BOOLEAN, items : Sealed]
    BY <1>4, <1>0, FlushShape DEF LaterFlush, VaultShape
  <2> QED
    BY <1>4, <2>1 DEF LaterFlush, VaultShape
<1>5. ASSUME NEW id \in VaultIDs, VaultDelete(id) PROVE VaultShape'
  <2>1. vItems' \in Sealed
    BY <1>5, <1>0, KeyPairs DEF VaultDelete, Sealed
  <2>2. vFile' \in [salt : 1 .. vMade', locked : BOOLEAN, items : Sealed]
    BY <1>5, <1>0, <2>1, FlushShape DEF VaultDelete, VaultShape
  <2> QED
    BY <1>5, <2>1, <2>2 DEF VaultDelete, VaultShape
<1>6. ASSUME NEW pass \in Passphrases, Unlock(pass) PROVE VaultShape'
  <2>1. vKey' \in Keys
    BY <1>6, <1>0, KeyPairs DEF Unlock, Secrets
  <2> QED
    BY <1>6, <2>1 DEF Unlock, VaultShape
<1>7. ASSUME NEW pass \in Passphrases, FirstPassphrase(pass) PROVE VaultShape'
  <2>1. /\ vMade' \in 1 .. MaxSalts /\ vMade <= vMade' /\ vSalt' \in 1 .. vMade'
        /\ vSalt' \in Nat /\ vLocked' \in BOOLEAN
    BY <1>7, <1>0 DEF FirstPassphrase
  <2>2. vKey' \in Keys
    BY <1>7, <2>1, KeyPairs DEF FirstPassphrase, Secrets
  <2>3. vFile' \in [salt : 1 .. vMade', locked : BOOLEAN, items : Sealed]
    BY <1>7, <1>0, <2>1, FlushShape DEF FirstPassphrase
  <2> QED
    BY <1>7, <2>1, <2>2, <2>3 DEF FirstPassphrase, VaultShape
<1>8. CASE VaultClose
  BY <1>8, KeyPairs DEF VaultClose, VaultShape
<1>9. CASE VaultRestart
  <2>1. vFile.salt \in 1 .. vMade /\ vFile.salt \in Nat /\ vFile.locked \in BOOLEAN /\ vFile.items \in Sealed
    BY DEF VaultShape
  <2>2. vKey' \in Keys
    BY <1>9, <2>1, KeyPairs DEF VaultRestart, Secrets
  <2> QED
    BY <1>9, <2>1, <2>2 DEF VaultRestart, VaultShape
<1>10. CASE UNCHANGED vaultVars
  BY <1>10 DEF vaultVars, VaultShape
<1> QED
  BY <1>1, <1>2, <1>3, <1>4, <1>5, <1>6, <1>7, <1>8, <1>9, <1>10 DEF VaultNext

\* The state of the file store stays well formed.
THEOREM VaultShaped == VaultSpec => []VaultShape
BY VaultShapeInit, VaultShapeStep, PTL DEF VaultSpec

(***************************************************************************)
(* Set is all or nothing.                                                  *)
(***************************************************************************)
LEMMA FateInit == VaultInit => FateKept
BY DEF VaultInit, FateKept

LEMMA FateStep == VaultShape /\ FateKept /\ [VaultNext]_vaultVars => FateKept'
<1> SUFFICES ASSUME VaultShape, FateKept, [VaultNext]_vaultVars PROVE FateKept'
  OBVIOUS
<1>1. ASSUME NEW id \in VaultIDs, VaultSet(id) PROVE FateKept'
  BY <1>1 DEF VaultSet, Flush, FateKept, VaultShape, Sealed
<1>2. ASSUME NEW id \in VaultIDs, VaultSetFails(id) PROVE FateKept'
  BY <1>2 DEF VaultSetFails, FlushFails, FateKept, VaultShape
<1>3. ASSUME NEW id \in VaultIDs, VaultGet(id) PROVE FateKept'
  BY <1>3 DEF VaultGet, FateKept
<1>4. CASE LaterFlush
  BY <1>4 DEF LaterFlush, Flush, FlushFails, FateKept
<1>5. ASSUME NEW id \in VaultIDs, VaultDelete(id) PROVE FateKept'
  BY <1>5 DEF VaultDelete, Flush, FlushFails, FateKept, VaultShape, Sealed
<1>6. ASSUME NEW pass \in Passphrases, Unlock(pass) PROVE FateKept'
  BY <1>6 DEF Unlock, FateKept
<1>7. ASSUME NEW pass \in Passphrases, FirstPassphrase(pass) PROVE FateKept'
  <2>1. vItems' = vItems /\ fate' = fate
    BY <1>7 DEF FirstPassphrase
  <2>2. vFile'.items \in {vFile.items, vItems}
    <3>1. Flush \/ FlushFails
      BY <1>7 DEF FirstPassphrase
    <3>2. CASE Flush
      BY <2>1, <3>2 DEF Flush
    <3>3. CASE FlushFails
      BY <3>3 DEF FlushFails
    <3> QED
      BY <3>1, <3>2, <3>3
  <2> QED
    BY <2>1, <2>2 DEF FateKept
<1>8. CASE VaultClose
  BY <1>8 DEF VaultClose, FateKept
<1>9. CASE VaultRestart
  BY <1>9 DEF VaultRestart, FateKept
<1>10. CASE UNCHANGED vaultVars
  BY <1>10 DEF vaultVars, FateKept
<1> QED
  BY <1>1, <1>2, <1>3, <1>4, <1>5, <1>6, <1>7, <1>8, <1>9, <1>10 DEF VaultNext

\* A secret that Set returned is in the file until it is deleted, one that Set refused never is.
THEOREM VaultSetIsAllOrNothing == VaultSpec => []SetIsAllOrNothing
<1>1. FateKept => SetIsAllOrNothing
  BY DEF FateKept, SetIsAllOrNothing
<1> QED
  BY <1>1, VaultShaped, FateInit, FateStep, PTL DEF VaultSpec

(***************************************************************************)
(* What can be read can be read again.                                     *)
(***************************************************************************)
LEMMA KeysInit == VaultInit => KeysKept
<1> SUFFICES ASSUME VaultInit PROVE KeysKept
  OBVIOUS
<1>1. KeyOfSalt
  BY KeyPairs DEF VaultInit, KeyOfSalt, Secrets
<1>2. SaltsMade
  BY KeyPairs DEF VaultInit, SaltsMade
<1>3. FileOfSalt
  BY DEF VaultInit, FileOfSalt
<1> QED
  BY <1>1, <1>2, <1>3 DEF KeysKept

\* A write of everything leaves the file in line with memory.
LEMMA FlushKeeps ==
  ASSUME Flush, \A id \in VaultIDs : vItems'[id][1] <= vMade'
  PROVE  SaltsMade' /\ FileOfSalt'
BY DEF Flush, SaltsMade, FileOfSalt

LEMMA KeysStep == VaultShape /\ KeysKept /\ [VaultNext]_vaultVars => KeysKept'
<1> SUFFICES ASSUME VaultShape, KeysKept, [VaultNext]_vaultVars PROVE KeysKept'
  OBVIOUS
<1>0. /\ vMade \in Nat /\ vSalt \in Nat /\ vSalt <= vMade /\ vKey \in Keys /\ vItems \in Sealed
      /\ KeyOfSalt /\ SaltsMade /\ FileOfSalt
  BY VaultAssumption DEF VaultShape, KeysKept
<1>1. ASSUME NEW id \in VaultIDs, VaultSet(id) PROVE KeysKept'
  <2>1. \A i \in VaultIDs : vItems'[i][1] <= vMade'
    BY <1>1, <1>0 DEF VaultSet, KeyOfSalt, SaltsMade, Sealed
  <2>2. KeyOfSalt'
    BY <1>1, <1>0 DEF VaultSet, KeyOfSalt, NoSecretKey
  <2> QED
    BY <1>1, <2>1, <2>2, FlushKeeps DEF VaultSet, KeysKept
<1>2. ASSUME NEW id \in VaultIDs, VaultSetFails(id) PROVE KeysKept'
  BY <1>2 DEF VaultSetFails, FlushFails, KeysKept, KeyOfSalt, SaltsMade, FileOfSalt, NoSecretKey
<1>3. ASSUME NEW id \in VaultIDs, VaultGet(id) PROVE KeysKept'
  BY <1>3 DEF VaultGet, KeysKept, KeyOfSalt, SaltsMade, FileOfSalt, NoSecretKey
<1>4. CASE LaterFlush
  <2>1. KeyOfSalt'
    BY <1>4, <1>0 DEF LaterFlush, KeyOfSalt, NoSecretKey
  <2>2. CASE Flush
    <3>1. \A i \in VaultIDs : vItems'[i][1] <= vMade'
      BY <1>4, <1>0 DEF LaterFlush, SaltsMade
    <3> QED
      BY <2>1, <2>2, <3>1, FlushKeeps DEF KeysKept
  <2>3. CASE FlushFails
    BY <1>4, <2>1, <2>3, <1>0 DEF LaterFlush, FlushFails, KeysKept, SaltsMade, FileOfSalt
  <2> QED
    BY <1>4, <2>2, <2>3 DEF LaterFlush
<1>5. ASSUME NEW id \in VaultIDs, VaultDelete(id) PROVE KeysKept'
  <2>1. KeyOfSalt'
    BY <1>5, <1>0 DEF VaultDelete, KeyOfSalt, NoSecretKey
  <2>2. \A i \in VaultIDs : vItems'[i][1] <= vMade'
    BY <1>5, <1>0, KeyPairs DEF VaultDelete, SaltsMade, Sealed
  <2>3. CASE Flush
    BY <2>1, <2>2, <2>3, FlushKeeps DEF KeysKept
  <2>4. CASE FlushFails
    BY <1>5, <2>1, <2>2, <2>4, <1>0 DEF VaultDelete, FlushFails, KeysKept, SaltsMade, FileOfSalt
  <2> QED
    BY <1>5, <2>3, <2>4 DEF VaultDelete
<1>6. ASSUME NEW pass \in Passphrases, Unlock(pass) PROVE KeysKept'
  <2>1. KeyOfSalt'
    BY <1>6, <1>0, KeyPairs DEF Unlock, KeyOfSalt, Secrets
  <2> QED
    BY <1>6, <2>1, <1>0 DEF Unlock, KeysKept, SaltsMade, FileOfSalt
<1>7. ASSUME NEW pass \in Passphrases, FirstPassphrase(pass) PROVE KeysKept'
  <2>1. KeyOfSalt'
    BY <1>7, <1>0, KeyPairs DEF FirstPassphrase, KeyOfSalt, Secrets
  <2>2. \A i \in VaultIDs : vItems[i][1] \in Nat /\ vFile.items[i][1] \in Nat
    BY DEF VaultShape, Sealed, Keys
  <2>3. \A i \in VaultIDs : vItems'[i][1] <= vMade'
    BY <1>7, <1>0, <2>2 DEF FirstPassphrase, SaltsMade
  <2>4. CASE Flush
    BY <2>1, <2>3, <2>4, FlushKeeps DEF KeysKept
  <2>5. CASE FlushFails
    <3>1. SaltsMade'
      BY <1>7, <1>0, <2>2, <2>3, <2>5 DEF FirstPassphrase, FlushFails, SaltsMade
    <3>2. vFile'.salt # vSalt' /\ \A i \in VaultIDs : vFile'.items[i][1] # vSalt'
      BY <1>7, <1>0, <2>2, <2>5 DEF FirstPassphrase, FlushFails, SaltsMade, VaultShape
    <3> QED
      BY <2>1, <3>1, <3>2 DEF KeysKept, FileOfSalt
  <2> QED
    BY <1>7, <2>4, <2>5 DEF FirstPassphrase
<1>8. CASE VaultClose
  <2>1. KeyOfSalt'
    BY <1>8 DEF VaultClose, KeyOfSalt, NoSecretKey
  <2> QED
    BY <1>8, <2>1, <1>0 DEF VaultClose, KeysKept, SaltsMade, FileOfSalt
<1>9. CASE VaultRestart
  <2>1. KeyOfSalt'
    <3>1. CASE vFile.locked
      BY <1>9, <3>1 DEF VaultRestart, KeyOfSalt, NoSecretKey
    <3>2. CASE ~vFile.locked
      BY <1>9, <3>2, KeyPairs DEF VaultRestart, KeyOfSalt, DeriveKey
    <3> QED
      BY <3>1, <3>2
  <2> QED
    BY <1>9, <2>1, <1>0 DEF VaultRestart, KeysKept, SaltsMade, FileOfSalt
<1>10. CASE UNCHANGED vaultVars
  BY <1>10 DEF vaultVars, KeysKept, KeyOfSalt, SaltsMade, FileOfSalt, NoSecretKey
<1> QED
  BY <1>1, <1>2, <1>3, <1>4, <1>5, <1>6, <1>7, <1>8, <1>9, <1>10 DEF VaultNext

LEMMA KeysAreEnough == VaultShape /\ KeysKept => ReadableAgain
<1> SUFFICES ASSUME VaultShape, KeysKept, NEW id \in VaultIDs, Readable(id), vFile.items[id] = vKey
             PROVE  vFile.items[id] = NextKey
  BY DEF ReadableAgain
<1>1. vKey[1] = vSalt /\ (vLocked \/ vKey[2] = NoPassphrase)
  BY DEF KeysKept, KeyOfSalt, Readable
<1>2. vFile.salt = vSalt /\ vFile.locked = vLocked
  BY <1>1 DEF KeysKept, FileOfSalt
<1>3. vKey = <<vKey[1], vKey[2]>>
  BY DEF VaultShape, Keys
<1> QED
  BY <1>1, <1>2, <1>3 DEF NextKey, DeriveKey

\* What can be read now and is in the file can be read after the next start with the same passphrase.
THEOREM VaultReadableAgain == VaultSpec => []ReadableAgain
BY VaultShaped, KeysInit, KeysStep, KeysAreEnough, PTL DEF VaultSpec

(***************************************************************************)
(* The stores side by side: the specification that TLC checks implies the  *)
(* specification of each store, so what is proved of a store holds of it.  *)
(***************************************************************************)
LEMMA StoresStep ==
  ASSUME [Next]_allVars
  PROVE  [HostNext]_hostVars /\ [CfgNext]_cfgVars /\ [RingNext]_ringVars /\ [VaultNext]_vaultVars
<1>1. CASE OnHosts(HostNext)
  BY <1>1 DEF OnHosts
<1>2. CASE OnConfig(CfgNext)
  BY <1>2 DEF OnConfig
<1>3. CASE OnRing(RingNext)
  BY <1>3 DEF OnRing
<1>4. CASE OnVault(VaultNext)
  BY <1>4 DEF OnVault
<1>5. CASE UNCHANGED allVars
  BY <1>5 DEF allVars
<1> QED
  BY <1>1, <1>2, <1>3, <1>4, <1>5 DEF Next

LEMMA StoresSpec == Spec => HostSpec /\ CfgSpec /\ RingSpec /\ VaultSpec
<1>1. Init => HostInit /\ CfgInit /\ RingInit /\ VaultInit
  BY DEF Init
<1> QED
  BY <1>1, StoresStep, PTL DEF Spec, HostSpec, CfgSpec, RingSpec, VaultSpec

\* What is cached, and what a call is about, was made.
CacheMade ==
  /\ ringCache \subseteq 1 .. ringMade
  /\ \A w \in RingCallers : ringCaller[w].at # "idle" => ringCaller[w].id \in 1 .. ringMade

LEMMA CacheStart == RingInit => CacheMade
BY DEF RingInit, CacheMade, NoCall

LEMMA CacheStep == CallsKept /\ CacheMade /\ [RingNext]_ringVars => CacheMade'
<1> SUFFICES ASSUME CallsKept, CacheMade, [RingNext]_ringVars PROVE CacheMade'
  OBVIOUS
<1>0. ringCaller \in [RingCallers -> Call] /\ ringGiven \subseteq 1 .. ringMade /\ ringMade \in Nat
  BY RingAssumption DEF CallsKept, RingShape
<1>1. ASSUME NEW w \in RingCallers, RingSet(w) PROVE CacheMade'
  <2> DEFINE id == ringMade + 1
  <2>1. 1 .. ringMade \subseteq 1 .. id /\ id \in 1 .. id /\ ringMade' = id /\ ringCache' = ringCache
    BY <1>0, <1>1 DEF RingSet
  <2>2. ringCaller' = [ringCaller EXCEPT ![w] = [at |-> "read", op |-> "set", id |-> id, view |-> {}]]
    BY <1>1 DEF RingSet, RingCall
  <2> HIDE DEF id
  <2> QED
    BY <1>0, <2>1, <2>2 DEF CacheMade
<1>2. ASSUME NEW w \in RingCallers, NEW id \in ringGiven, NEW op, NEW at, RingCall(w, op, id, at),
             UNCHANGED <<ringCache, ringMade>>
      PROVE  CacheMade'
  BY <1>0, <1>2 DEF RingCall, CacheMade
<1>3. ASSUME NEW w \in RingCallers, Cached(w) PROVE CacheMade'
  <2>1. /\ ringMade' = ringMade /\ ringCaller[w].at \in {"fill", "drop"}
        /\ ringCache' \subseteq ringCache \cup {ringCaller[w].id}
        /\ RingGo(w, "read") \/ RingReturn(w)
    BY <1>3 DEF Cached
  <2>2. ringCache' \subseteq 1 .. ringMade
    BY <2>1 DEF CacheMade
  <2> QED
    BY <1>0, <2>1, <2>2 DEF RingGo, RingReturn, NoCall, CacheMade, Call
<1>4. ASSUME NEW w \in RingCallers, UNCHANGED <<ringCache, ringMade>>, ringCaller[w].at # "idle",
             \A v \in RingCallers : ringCaller'[v].at # "idle" /\ v # w => ringCaller'[v] = ringCaller[v],
             ringCaller'[w].at # "idle" => ringCaller'[w].id = ringCaller[w].id
      PROVE  CacheMade'
  BY <1>4 DEF CacheMade
<1>5. ASSUME NEW w \in RingCallers, ReadIndex(w) \/ WriteIndex(w) \/ IndexFails(w) \/ Rollback(w)
      PROVE  CacheMade'
  <2>1. UNCHANGED <<ringCache, ringMade>> /\ ringCaller[w].at # "idle"
    BY <1>5 DEF ReadIndex, WriteIndex, IndexFails, Rollback
  <2>2. \/ RingReturn(w) \/ \E at : RingGo(w, at)
        \/ ringCaller' = [ringCaller EXCEPT ![w].at = "write", ![w].view = ringIndex]
    BY <1>5 DEF ReadIndex, WriteIndex, IndexFails, Rollback
  <2>3. /\ \A v \in RingCallers : v # w => ringCaller'[v] = ringCaller[v]
        /\ ringCaller'[w].at # "idle" => ringCaller'[w].id = ringCaller[w].id
    BY <1>0, <2>2 DEF RingReturn, RingGo, NoCall, Call
  <2> QED
    BY <1>4, <2>1, <2>3
<1>6. CASE RingRestart
  BY <1>6 DEF RingRestart, CacheMade, NoCall
<1>7. CASE UNCHANGED ringVars
  BY <1>7 DEF ringVars, CacheMade
<1>8. ASSUME NEW w \in RingCallers, RingGet(w) \/ RingDelete(w) PROVE CacheMade'
  BY <1>2, <1>8 DEF RingGet, RingDelete
<1> QED
  BY <1>1, <1>3, <1>5, <1>6, <1>7, <1>8 DEF RingNext, RingStep

LEMMA RingTyped == CallsKept /\ CacheMade => RingTypeOK
<1> SUFFICES ASSUME CallsKept, CacheMade PROVE RingTypeOK
  OBVIOUS
<1>1. 1 .. ringMade \subseteq RingIDs
  BY RingAssumption DEF CallsKept, RingShape, RingIDs
<1>2. ringContent \subseteq RingIDs /\ ringIndex \subseteq RingIDs /\ ringCache \subseteq RingIDs
  BY <1>1 DEF CallsKept, RingShape, Listed, CacheMade
<1>3. \A w \in RingCallers : ringCaller[w].at \in {"idle", "fill", "drop", "read", "write", "rollback"}
  BY DEF CallsKept, RingShape, Call
<1> QED
  BY <1>2, <1>3 DEF RingTypeOK

LEMMA VaultTyped == VaultShape /\ KeysKept => VaultTypeOK
<1> SUFFICES ASSUME VaultShape, KeysKept PROVE VaultTypeOK
  OBVIOUS
<1>1. vMade \in 1 .. MaxSalts /\ vSalt \in 1 .. vMade /\ vItems \in Sealed
      /\ vLocked \in BOOLEAN /\ vFlushes \in 0 .. MaxFlushes
  BY DEF VaultShape
<1>2. vSalt \in 1 .. MaxSalts
  BY <1>1, VaultAssumption
<1>3. ASSUME NEW id \in VaultIDs PROVE vItems[id] \in (0 .. MaxSalts) \X (Passphrases \cup {NoPassphrase})
  <2>1. vItems[id] \in Nat \X Secrets /\ vItems[id][1] <= vMade
    BY <1>1 DEF Sealed, Keys, KeysKept, SaltsMade
  <2> QED
    BY <1>1, <2>1, VaultAssumption DEF Secrets
<1>4. vItems \in [VaultIDs -> (0 .. MaxSalts) \X (Passphrases \cup {NoPassphrase})]
  BY <1>1, <1>3 DEF Sealed
<1> QED
  BY <1>1, <1>2, <1>4 DEF VaultTypeOK

LEMMA CfgTyped == CfgInv => CfgTypeOK
BY DEF CfgInv, CfgShape, CfgTypeOK, CfgData, Edits, File

LEMMA HostTyped == HostInv => HostTypeOK
BY DEF HostInv, HostShape, HostTypeOK, CallPlaces, Results

\* The known hosts, the configuration, the keyring index and the encrypted file have their types.
THEOREM StoresTyped == Spec => []TypeOK
<1>1. HostTypeOK /\ CfgTypeOK /\ RingTypeOK /\ VaultTypeOK => TypeOK
  BY DEF TypeOK
<1>2. RingSpec => []RingTypeOK
  BY CallsInit, CallsStep, CacheStart, CacheStep, RingTyped, PTL DEF RingSpec
<1>3. VaultSpec => []VaultTypeOK
  BY VaultShaped, KeysInit, KeysStep, VaultTyped, PTL DEF VaultSpec
<1>4. CfgSpec => []CfgTypeOK
  BY ConfigInv, CfgTyped, PTL
<1>5. HostSpec => []HostTypeOK
  BY HostInvHolds, HostTyped, PTL
<1> QED
  BY <1>1, <1>2, <1>3, <1>4, <1>5, StoresSpec, PTL

\* Both texts of a probe are sequences of the same characters.
ProbeChars == {"a", "b", "*", "?"}
ProbeTexts == probe[1] \in Seq(ProbeChars) /\ probe[2] \in Seq(ProbeChars)

LEMMA TextsAreSeqs ==
  ASSUME NEW n \in Nat, NEW chars, chars \subseteq ProbeChars PROVE Texts(n, chars) \subseteq Seq(ProbeChars)
<1>1. ASSUME NEW m \in 0 .. n, NEW text \in [1 .. m -> chars] PROVE text \in Seq(ProbeChars)
  <2>1. m \in Nat /\ text \in [1 .. m -> ProbeChars]
    OBVIOUS
  <2> QED
    BY <2>1, SeqDef
<1> QED
  BY <1>1 DEF Texts

\* The match is what cuts say, for patterns and strings of any length (wildcardMatch).
THEOREM ProbesMatch == Spec => []MatchIsReference
<1>1. Init => ProbeTexts
  <2>1. PatternLen \in Nat /\ PatternLen - 1 \in Nat
    BY PatternAssumption
  <2>2. /\ Texts(PatternLen, {"a", "b", "*", "?"}) \subseteq Seq(ProbeChars)
        /\ Texts(PatternLen - 1, {"a", "b"}) \subseteq Seq(ProbeChars)
    BY <2>1, TextsAreSeqs DEF ProbeChars
  <2>3. ASSUME Init PROVE ProbeTexts
    <3>1. CASE probe \in Probes
      BY <2>2, <3>1 DEF Probes, ProbeTexts
    <3>2. CASE probe = <<<<>>, <<>>>>
      BY <3>2 DEF ProbeTexts
    <3> QED
      BY <2>3, <3>1, <3>2 DEF Init
  <2> QED
    BY <2>3
<1>2. ProbeTexts /\ [Next]_allVars => ProbeTexts'
  BY DEF ProbeTexts, Next, OnHosts, OnConfig, OnRing, OnVault, allVars
<1>3. ProbeTexts => MatchIsReference
  BY MatchIsCut DEF ProbeTexts, MatchIsReference
<1> QED
  BY <1>1, <1>2, <1>3, PTL DEF Spec
=============================================================================
