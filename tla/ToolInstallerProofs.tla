------------------------- MODULE ToolInstallerProofs -------------------------
(***************************************************************************)
(* What is proved of the Tool installer, for any number of runs and        *)
(* releases: a committed installation is complete, and a rollback that     *)
(* reports no error restores what the run found, when nothing ends a run   *)
(* between a rename and the assignment that records it.                    *)
(*                                                                         *)
(* RollbackRestores is about the end of a rollback.  Its strengthening     *)
(* follows a run from its first command: at every place, the commands of   *)
(* the rollback that are still to come, working on what the variables say  *)
(* now, would give back what the run found.                                *)
(***************************************************************************)
EXTENDS ToolInstaller, TLAPS

(* The places of a run, up to each of the renames. *)
UpToSaveTool == {"saveReceipt", "saveTool"}
UpToSaveLink == UpToSaveTool \cup {"toolSaved", "saveLink"}
UpToPublishTool == UpToSaveLink \cup {"linkSaved", "publishTool"}
UpToPublishLink == UpToPublishTool \cup {"toolPublished", "publishLink"}
UpToCheck == UpToPublishLink \cup {"linkPublished", "check"}

\* Only the holder of the lock runs.
Held(i) ==
  /\ pc[i] = "idle" <=> lock # i
  /\ pc[i] # "idle" => new[i] \in Versions

\* Which variables can be set at a place.
Raised(i) ==
  /\ pc[i] \in {"idle", "stage"} => flags[i] = {}
  /\ pc[i] \notin {"idle", "stage", "cleanup"} => Set(i, "started")
  /\ Set(i, "committed") => pc[i] = "cleanup"
  /\ pc[i] = "saveReceipt" => ~Set(i, "hadReceipt")
  /\ pc[i] \in UpToSaveTool => ~Set(i, "toolSaved")
  /\ pc[i] \in UpToSaveLink => ~Set(i, "linkSaved")
  /\ pc[i] \in UpToPublishTool => ~Set(i, "toolPublished")
  /\ pc[i] \in UpToPublishLink => ~Set(i, "linkPublished")
  /\ pc[i] \in UpToCheck => ~Set(i, "registering")
  /\ pc[i] \in {"register", "validate"} => Set(i, "registering")
  /\ Set(i, "rollbackError") => pc[i] \in Undoing \cup {"cleanup"}

\* What the renames have left.
Placed(i) ==
  /\ pc[i] \in {"toolSaved", "saveLink", "linkSaved", "publishTool"} => tool = None
  /\ pc[i] \in {"linkSaved", "publishTool", "toolPublished", "publishLink"} => link = "none"
  /\ pc[i] \in {"linkPublished", "check", "register", "validate"} => link = "eva"

InstallInv ==
  /\ TypeOK /\ CommittedIsComplete
  /\ \A i \in Installers : Held(i) /\ Raised(i) /\ Placed(i)

\* A variable that is set, or the next command sets.
Recorded(i, flag) == Set(i, flag) \/ (pc[i] = flag /\ flag \in Windows)

(* What the rest of a rollback would make of the receipt, the link and the *)
(* Tool.                                                                   *)
ReceiptBack(i) ==
  IF Set(i, "registering") /\ pc[i] \notin (Undoing \cup {"cleanup"}) \ {"undoReceipt"}
  THEN IF Set(i, "hadReceipt") THEN backup[i].receipt ELSE None
  ELSE receipt

LinkBack(i) ==
  IF pc[i] \in {"undoNewTool", "undoTool", "cleanup"} THEN link
  ELSE IF Recorded(i, "linkSaved") THEN backup[i].link
  ELSE IF Recorded(i, "linkPublished") /\ pc[i] # "undoLink" THEN "none" ELSE link

ToolBack(i) ==
  LET left == IF Recorded(i, "toolPublished") /\ pc[i] # "undoTool" THEN None ELSE tool
  IN  IF pc[i] = "cleanup" THEN tool
      ELSE IF Recorded(i, "toolSaved") /\ left = None THEN backup[i].tool ELSE left

\* A rollback from here would restore what the run found.
Restorable(i) ==
  InTransaction(i) /\ ~Set(i, "rollbackError") =>
    before[i] = [tool |-> ToolBack(i), link |-> LinkBack(i), receipt |-> ReceiptBack(i)]

\* The receipt that was found is in the backup, if there was one.
ReceiptSaved(i) ==
  /\ Set(i, "hadReceipt") => backup[i].receipt = before[i].receipt
  /\ Set(i, "registering") \/ pc[i] \in UpToCheck \ {"saveReceipt"} =>
       Set(i, "hadReceipt") \/ before[i].receipt = None

RollbackInv == \A i \in Installers : Restorable(i) /\ ReceiptSaved(i)

Consistent(found) ==
  /\ found.receipt = found.tool
  /\ found.link = "eva" <=> found.tool # None

Now == [tool |-> tool, link |-> link, receipt |-> receipt]

\* A run starts from an installation that is consistent, and ends with one.
RestInv ==
  ~damaged =>
    /\ lock = None => Consistent(Now)
    /\ \A i \in Installers : pc[i] # "idle" =>
         IF InTransaction(i) THEN Consistent(before[i]) ELSE Consistent(Now)

-----------------------------------------------------------------------------
(* A committed installation *)

LEMMA InitInstallInv == Init => InstallInv
<1> SUFFICES ASSUME Init PROVE InstallInv
  OBVIOUS
<1>1. TypeOK
  BY DEF Init, TypeOK, Tools, Links, Places, Snapshot, Nothing
<1>2. CommittedIsComplete
  BY DEF Init, CommittedIsComplete, Set
<1>3. ASSUME NEW i \in Installers PROVE Held(i) /\ Raised(i) /\ Placed(i)
  BY NoneAssumption DEF Init, Held, Raised, Placed, Set, UpToSaveTool, UpToSaveLink,
     UpToPublishTool, UpToPublishLink, UpToCheck
<1> QED BY <1>1, <1>2, <1>3 DEF InstallInv

\* Nobody runs beside the holder of the lock.
LEMMA OthersIdle ==
  ASSUME InstallInv, NEW i \in Installers, lock \in {i, None}, NEW j \in Installers \ {i}
  PROVE  pc[j] = "idle" /\ flags[j] = {}
<1>1. Held(j) /\ Raised(j)
  BY DEF InstallInv
<1> QED BY <1>1, NoneAssumption DEF Held, Raised

\* A committed run has installed its release.
Complete(i) == Set(i, "committed") => tool = new[i] /\ link = "eva" /\ receipt = new[i]

\* A step of i needs to be right for i only.
LEMMA OthersInstall ==
  ASSUME InstallInv, NEW i \in Installers, lock \in {i, None}, lock' \in {i, None},
         TypeOK', Held(i)', Raised(i)', Placed(i)', Complete(i)',
         \A j \in Installers \ {i} : pc'[j] = pc[j] /\ flags'[j] = flags[j] /\ new'[j] = new[j]
  PROVE  InstallInv'
<1>1. ASSUME NEW j \in Installers \ {i}
      PROVE  Held(j)' /\ Raised(j)' /\ Placed(j)' /\ Complete(j)'
  <2>1. pc'[j] = "idle" /\ flags'[j] = {}
    BY OthersIdle
  <2> QED
    BY <2>1, NoneAssumption DEF Held, Raised, Placed, Complete, Set, UpToSaveTool, UpToSaveLink,
       UpToPublishTool, UpToPublishLink, UpToCheck
<1> QED BY <1>1 DEF InstallInv, CommittedIsComplete, Complete

\* A run starts with every variable false.
LEMMA AcquireInstall ==
  ASSUME InstallInv, NEW i \in Installers, Acquire(i)
  PROVE  InstallInv'
<1>1. TypeOK /\ Held(i) /\ Raised(i) /\ Placed(i) /\ Complete(i)
  BY DEF InstallInv, CommittedIsComplete, Complete
<1>2. lock \in {i, None} /\ lock' \in {i, None}
  BY DEF Acquire
<1>3. \A j \in Installers \ {i} : pc'[j] = pc[j] /\ flags'[j] = flags[j] /\ new'[j] = new[j]
  BY DEF Acquire, Goto
<1>4. TypeOK'
  BY <1>1 DEF Acquire, Goto, TypeOK, system, Tools, Places
<1>5. Held(i)'
  BY <1>1 DEF Acquire, Held, Goto, TypeOK
<1>6. Raised(i)'
  BY <1>1 DEF Acquire, Raised, Goto, Set
<1>7. Placed(i)'
  BY DEF Acquire, Placed, Goto
<1>8. Complete(i)'
  BY <1>1 DEF Acquire, Complete, Raised, Set
<1> QED BY <1>2, <1>3, <1>4, <1>5, <1>6, <1>7, <1>8, OthersInstall

\* What a run finds is noted before anything is replaced.
LEMMA StageInstall ==
  ASSUME InstallInv, NEW i \in Installers, Stage(i)
  PROVE  InstallInv'
<1>1. TypeOK /\ Held(i) /\ Raised(i) /\ Placed(i) /\ Complete(i)
  BY DEF InstallInv, CommittedIsComplete, Complete
<1>2. lock \in {i, None} /\ lock' \in {i, None}
  BY <1>1 DEF Stage, Held
<1>3. \A j \in Installers \ {i} : pc'[j] = pc[j] /\ flags'[j] = flags[j] /\ new'[j] = new[j]
  BY DEF Stage, Goto, Raise
<1>4. TypeOK'
  BY <1>1 DEF Stage, Goto, Raise, TypeOK, system, Places, Commands, Flags, Snapshot
<1>5. Held(i)'
  BY <1>1 DEF Stage, Held, Goto
<1>6. Raised(i)'
  BY <1>1 DEF Stage, Raised, Goto, Raise, Set, TypeOK
<1>7. Placed(i)'
  BY DEF Stage, Placed, Goto
<1>8. Complete(i)'
  BY <1>1 DEF Stage, Complete, Raised, Raise, Set
<1> QED BY <1>2, <1>3, <1>4, <1>5, <1>6, <1>7, <1>8, OthersInstall

\* What is replaced is kept in a backup.
LEMMA SaveInstall ==
  ASSUME InstallInv, NEW i \in Installers, SaveReceipt(i) \/ SaveTool(i) \/ SaveLink(i)
  PROVE  InstallInv'
<1>1. TypeOK /\ Held(i) /\ Raised(i) /\ Placed(i) /\ Complete(i)
  BY DEF InstallInv, CommittedIsComplete, Complete
<1>2. lock \in {i, None} /\ lock' \in {i, None}
  BY <1>1 DEF SaveReceipt, SaveTool, SaveLink, Held
<1>3. \A j \in Installers \ {i} : pc'[j] = pc[j] /\ flags'[j] = flags[j] /\ new'[j] = new[j]
  BY <1>1 DEF SaveReceipt, SaveTool, SaveLink, Goto, Raise, TypeOK
<1>4. TypeOK'
  <2>1. tool' \in Tools /\ link' \in Links /\ receipt' \in Tools
    BY <1>1 DEF SaveReceipt, SaveTool, SaveLink, TypeOK, system, Tools, Links
  <2>2. pc' \in [Installers -> Places] /\ new' \in [Installers -> Tools]
    BY <1>1 DEF SaveReceipt, SaveTool, SaveLink, Goto, TypeOK, Places, Commands, Windows
  <2>3. flags' \in [Installers -> SUBSET Flags]
    BY <1>1 DEF SaveReceipt, SaveTool, SaveLink, Raise, TypeOK, Flags
  <2>4. backup' \in [Installers -> Snapshot]
    <3>1. backup[i] \in Snapshot /\ tool \in Tools /\ link \in Links /\ receipt \in Tools
      BY <1>1 DEF TypeOK
    <3>2. /\ [backup[i] EXCEPT !.tool = tool] \in Snapshot
          /\ [backup[i] EXCEPT !.link = link] \in Snapshot
          /\ [backup[i] EXCEPT !.receipt = receipt] \in Snapshot
      BY <3>1 DEF Snapshot
    <3>3. \/ backup' = backup
          \/ backup' = [backup EXCEPT ![i] = [@ EXCEPT !.tool = tool]]
          \/ backup' = [backup EXCEPT ![i] = [@ EXCEPT !.link = link]]
          \/ backup' = [backup EXCEPT ![i] = [@ EXCEPT !.receipt = receipt]]
      BY DEF SaveReceipt, SaveTool, SaveLink, Keep
    <3> QED BY <1>1, <3>2, <3>3 DEF TypeOK
  <2>5. before' \in [Installers -> Snapshot] /\ damaged' \in BOOLEAN
    BY <1>1 DEF SaveReceipt, SaveTool, SaveLink, TypeOK
  <2> QED BY <1>2, <2>1, <2>2, <2>3, <2>4, <2>5 DEF TypeOK
<1>5. Held(i)'
  BY <1>1 DEF SaveReceipt, SaveTool, SaveLink, Held, Goto, TypeOK
<1>6. Raised(i)'
  BY <1>1 DEF SaveReceipt, SaveTool, SaveLink, Raised, Goto, Raise, Set, TypeOK, Undoing,
     UpToSaveTool, UpToSaveLink, UpToPublishTool, UpToPublishLink, UpToCheck
<1>7. Placed(i)'
  BY <1>1 DEF SaveReceipt, SaveTool, SaveLink, Placed, Goto, TypeOK
<1>8. Complete(i)'
  BY <1>1 DEF SaveReceipt, SaveTool, SaveLink, Complete, Raised, Raise, Set, TypeOK
<1> QED BY <1>2, <1>3, <1>4, <1>5, <1>6, <1>7, <1>8, OthersInstall

\* The new Tool, link and receipt.
LEMMA PublishInstall ==
  ASSUME InstallInv, NEW i \in Installers, PublishTool(i) \/ PublishLink(i) \/ Register(i)
  PROVE  InstallInv'
<1>1. TypeOK /\ Held(i) /\ Raised(i) /\ Placed(i) /\ Complete(i)
  BY DEF InstallInv, CommittedIsComplete, Complete
<1>2. lock \in {i, None} /\ lock' \in {i, None}
  BY <1>1 DEF PublishTool, PublishLink, Register, Held
<1>3. \A j \in Installers \ {i} : pc'[j] = pc[j] /\ flags'[j] = flags[j] /\ new'[j] = new[j]
  BY <1>1 DEF PublishTool, PublishLink, Register, Goto, TypeOK
<1>4. TypeOK'
  BY <1>1 DEF PublishTool, PublishLink, Register, Goto, TypeOK, Links, Places, Commands, Windows
<1>5. Held(i)'
  BY <1>1 DEF PublishTool, PublishLink, Register, Held, Goto, TypeOK
<1>6. Raised(i)'
  BY <1>1 DEF PublishTool, PublishLink, Register, Raised, Goto, Set, TypeOK, Undoing,
     UpToSaveTool, UpToSaveLink, UpToPublishTool, UpToPublishLink, UpToCheck
<1>7. Placed(i)'
  BY <1>1 DEF PublishTool, PublishLink, Register, Placed, Goto, TypeOK
<1>8. Complete(i)'
  BY <1>1 DEF PublishTool, PublishLink, Register, Complete, Set
<1> QED BY <1>2, <1>3, <1>4, <1>5, <1>6, <1>7, <1>8, OthersInstall

\* A variable is set after its rename, or before the registration.
LEMMA RecordInstall ==
  ASSUME InstallInv, NEW i \in Installers, SetVariable(i) \/ CheckVersion(i)
  PROVE  InstallInv'
<1>1. TypeOK /\ Held(i) /\ Raised(i) /\ Placed(i) /\ Complete(i)
  BY DEF InstallInv, CommittedIsComplete, Complete
<1>2. lock \in {i, None} /\ lock' \in {i, None}
  BY <1>1 DEF SetVariable, CheckVersion, Held, Windows
<1>3. \A j \in Installers \ {i} : pc'[j] = pc[j] /\ flags'[j] = flags[j] /\ new'[j] = new[j]
  BY <1>1 DEF SetVariable, CheckVersion, Goto, Raise, TypeOK
<1>4. TypeOK'
  <2>1. tool' \in Tools /\ link' \in Links /\ receipt' \in Tools
    BY <1>1 DEF SetVariable, CheckVersion, TypeOK, system
  <2>2. pc' \in [Installers -> Places] /\ new' \in [Installers -> Tools]
    BY <1>1 DEF SetVariable, CheckVersion, After, Goto, TypeOK, Places, Commands, Windows
  <2>3. flags' \in [Installers -> SUBSET Flags]
    BY <1>1 DEF SetVariable, CheckVersion, Windows, Raise, TypeOK, Flags
  <2>4. backup' \in [Installers -> Snapshot]
    BY <1>1 DEF SetVariable, CheckVersion, TypeOK
  <2>5. before' \in [Installers -> Snapshot] /\ damaged' \in BOOLEAN
    BY <1>1 DEF SetVariable, CheckVersion, TypeOK
  <2> QED BY <1>2, <2>1, <2>2, <2>3, <2>4, <2>5 DEF TypeOK
<1>5. Held(i)'
  BY <1>1 DEF SetVariable, CheckVersion, After, Held, Goto, TypeOK, Windows
<1>6. Raised(i)'
  BY <1>1 DEF SetVariable, CheckVersion, After, Raised, Goto, Raise, Set, TypeOK, Windows,
     Undoing, UpToSaveTool, UpToSaveLink, UpToPublishTool, UpToPublishLink, UpToCheck
<1>7. Placed(i)'
  BY <1>1 DEF SetVariable, CheckVersion, After, Placed, Goto, TypeOK, system, Windows
<1>8. Complete(i)'
  BY <1>1 DEF SetVariable, CheckVersion, Complete, Raised, Raise, Set, TypeOK, Windows
<1> QED BY <1>2, <1>3, <1>4, <1>5, <1>6, <1>7, <1>8, OthersInstall

\* Only a complete installation is committed.
LEMMA CommitInstall ==
  ASSUME InstallInv, NEW i \in Installers, Commit(i)
  PROVE  InstallInv'
<1>1. TypeOK /\ Held(i) /\ Raised(i) /\ Placed(i) /\ Complete(i)
  BY DEF InstallInv, CommittedIsComplete, Complete
<1>2. lock \in {i, None} /\ lock' \in {i, None}
  BY <1>1 DEF Commit, Held
<1>3. \A j \in Installers \ {i} : pc'[j] = pc[j] /\ flags'[j] = flags[j] /\ new'[j] = new[j]
  BY DEF Commit, Goto, Raise
<1>4. TypeOK'
  BY <1>1 DEF Commit, Goto, Raise, TypeOK, system, Places, Flags
<1>5. Held(i)'
  BY <1>1 DEF Commit, Held, Goto
<1>6. Raised(i)'
  BY <1>1 DEF Commit, Raised, Goto, TypeOK, UpToSaveTool, UpToSaveLink, UpToPublishTool,
     UpToPublishLink, UpToCheck
<1>7. Placed(i)'
  BY <1>1 DEF Commit, Placed, Goto, TypeOK
<1>8. Complete(i)'
  BY <1>1 DEF Commit, Complete, Placed, system
<1> QED BY <1>2, <1>3, <1>4, <1>5, <1>6, <1>7, <1>8, OthersInstall

\* A failed command leads to the rollback.
LEMMA AbortInstall ==
  ASSUME InstallInv, NEW i \in Installers, Abort(i)
  PROVE  InstallInv'
<1>1. TypeOK /\ Held(i) /\ Raised(i) /\ Placed(i) /\ Complete(i)
  BY DEF InstallInv, CommittedIsComplete, Complete
<1>2. lock \in {i, None} /\ lock' \in {i, None}
  BY <1>1, InterruptibleAssumption DEF Abort, Held, Windows, ErrorPlaces, Commands
<1>3. \A j \in Installers \ {i} : pc'[j] = pc[j] /\ flags'[j] = flags[j] /\ new'[j] = new[j]
  BY DEF Abort, Goto
<1>4. TypeOK'
  BY <1>1 DEF Abort, Goto, TypeOK, Places, Undoing
<1>5. Held(i)'
  BY <1>1, InterruptibleAssumption DEF Abort, Held, Goto, ErrorPlaces, Commands, Windows
<1>6. Raised(i)'
  BY <1>1, InterruptibleAssumption DEF Abort, Raised, Goto, Set, Commands, Windows, Undoing,
     ErrorPlaces, UpToSaveTool, UpToSaveLink, UpToPublishTool, UpToPublishLink, UpToCheck
<1>7. Placed(i)'
  BY <1>1 DEF Abort, Placed, Goto
<1>8. Complete(i)'
  BY <1>1 DEF Abort, Complete, Set
<1> QED BY <1>2, <1>3, <1>4, <1>5, <1>6, <1>7, <1>8, OthersInstall

\* The commands of the rollback.
LEMMA UndoInstall ==
  ASSUME InstallInv, NEW i \in Installers,
         \/ UndoReceipt(i) \/ UndoNewLink(i) \/ UndoLink(i)
         \/ UndoNewTool(i) \/ UndoTool(i)
  PROVE  InstallInv'
<1>1. TypeOK /\ Held(i) /\ Raised(i) /\ Placed(i) /\ Complete(i)
  BY DEF InstallInv, CommittedIsComplete, Complete
<1>2. lock \in {i, None} /\ lock' \in {i, None}
  BY <1>1 DEF UndoReceipt, UndoNewLink, UndoLink, UndoNewTool, UndoTool, Held
<1>3. \A j \in Installers \ {i} : pc'[j] = pc[j] /\ flags'[j] = flags[j] /\ new'[j] = new[j]
  BY <1>1 DEF UndoReceipt, UndoNewLink, UndoLink, UndoNewTool, UndoTool, Goto, TypeOK
<1>4. TypeOK'
  <2>1. tool' \in Tools /\ link' \in Links /\ receipt' \in Tools
    BY <1>1 DEF UndoReceipt, UndoNewLink, UndoLink, UndoNewTool, UndoTool, TypeOK, Tools, Links,
       Snapshot
  <2>2. pc' \in [Installers -> Places] /\ new' \in [Installers -> Tools]
    BY <1>1 DEF UndoReceipt, UndoNewLink, UndoLink, UndoNewTool, UndoTool, Goto, TypeOK, Places,
       Undoing
  <2>3. flags' \in [Installers -> SUBSET Flags]
    BY <1>1 DEF UndoReceipt, UndoNewLink, UndoLink, UndoNewTool, UndoTool, TypeOK
  <2>4. backup' \in [Installers -> Snapshot]
    BY <1>1 DEF UndoReceipt, UndoNewLink, UndoLink, UndoNewTool, UndoTool, TypeOK
  <2>5. before' \in [Installers -> Snapshot] /\ damaged' \in BOOLEAN
    BY <1>1 DEF UndoReceipt, UndoNewLink, UndoLink, UndoNewTool, UndoTool, TypeOK
  <2> QED BY <1>2, <2>1, <2>2, <2>3, <2>4, <2>5 DEF TypeOK
<1>5. Held(i)'
  BY <1>1 DEF UndoReceipt, UndoNewLink, UndoLink, UndoNewTool, UndoTool, Held, Goto, TypeOK
<1>6. Raised(i)'
  BY <1>1 DEF UndoReceipt, UndoNewLink, UndoLink, UndoNewTool, UndoTool, Raised, Goto, Set,
     TypeOK, Undoing, UpToSaveTool, UpToSaveLink, UpToPublishTool, UpToPublishLink, UpToCheck
<1>7. Placed(i)'
  BY <1>1 DEF UndoReceipt, UndoNewLink, UndoLink, UndoNewTool, UndoTool, Placed, Goto, TypeOK
<1>8. Complete(i)'
  BY <1>1 DEF UndoReceipt, UndoNewLink, UndoLink, UndoNewTool, UndoTool, Complete, Raised, Set
<1> QED BY <1>2, <1>3, <1>4, <1>5, <1>6, <1>7, <1>8, OthersInstall

\* A command of the rollback that fails is noted.
LEMMA UndoFailsInstall ==
  ASSUME InstallInv, NEW i \in Installers, UndoFails(i)
  PROVE  InstallInv'
<1>1. TypeOK /\ Held(i) /\ Raised(i) /\ Placed(i) /\ Complete(i)
  BY DEF InstallInv, CommittedIsComplete, Complete
<1>2. lock \in {i, None} /\ lock' \in {i, None}
  BY <1>1 DEF UndoFails, Held, Undoing
<1>3. \A j \in Installers \ {i} : pc'[j] = pc[j] /\ flags'[j] = flags[j] /\ new'[j] = new[j]
  BY DEF UndoFails, Goto, Raise
<1>4. TypeOK'
  BY <1>1 DEF UndoFails, NextUndo, Goto, Raise, TypeOK, system, Places, Undoing, Flags
<1>5. Held(i)'
  BY <1>1 DEF UndoFails, Undoing, NextUndo, Held, Goto
<1>6. Raised(i)'
  BY <1>1 DEF UndoFails, NextUndo, Raised, Goto, Raise, Set, Undoing, UpToSaveTool, UpToSaveLink,
     UpToPublishTool, UpToPublishLink, UpToCheck
<1>7. Placed(i)'
  BY DEF UndoFails, NextUndo, Placed, Goto, Undoing
<1>8. Complete(i)'
  BY <1>1 DEF UndoFails, Complete, Raised, Raise, Set, Undoing
<1> QED BY <1>2, <1>3, <1>4, <1>5, <1>6, <1>7, <1>8, OthersInstall

\* A run that ends frees the lock and forgets its variables.
LEMMA EndInstall ==
  ASSUME InstallInv, NEW i \in Installers, Cleanup(i) \/ Kill(i)
  PROVE  InstallInv'
<1>1. TypeOK /\ Held(i) /\ Raised(i) /\ Placed(i) /\ Complete(i)
  BY DEF InstallInv, CommittedIsComplete, Complete
<1>2. lock \in {i, None} /\ lock' \in {i, None}
  BY <1>1 DEF Cleanup, Kill, Exit, Held
<1>3. \A j \in Installers \ {i} : pc'[j] = pc[j] /\ flags'[j] = flags[j] /\ new'[j] = new[j]
  BY <1>1 DEF Cleanup, Kill, Exit, Goto, TypeOK
<1>4. TypeOK'
  <2>1. tool' \in Tools /\ link' \in Links /\ receipt' \in Tools
    BY <1>1 DEF Cleanup, Kill, TypeOK, system
  <2>2. pc' \in [Installers -> Places] /\ new' \in [Installers -> Tools]
    BY <1>1 DEF Cleanup, Kill, Exit, Goto, TypeOK, Places, Tools
  <2>3. flags' \in [Installers -> SUBSET Flags]
    BY <1>1 DEF Cleanup, Kill, Exit, TypeOK
  <2>4. backup' \in [Installers -> Snapshot]
    BY <1>1 DEF Cleanup, Kill, Exit, TypeOK, Snapshot, Tools, Links, Nothing
  <2>5. before' \in [Installers -> Snapshot] /\ damaged' \in BOOLEAN
    BY <1>1 DEF Cleanup, Kill, TypeOK
  <2> QED BY <1>2, <2>1, <2>2, <2>3, <2>4, <2>5 DEF TypeOK
<1>5. Held(i)'
  BY <1>1, <1>2, NoneAssumption, InterruptibleAssumption DEF Cleanup, Kill, Exit, Held, Goto,
     Raise, TypeOK, ErrorPlaces, Commands, Windows
<1>6. Raised(i)'
  BY <1>1 DEF Cleanup, Kill, Exit, Raised, Goto, Set, TypeOK
<1>7. Placed(i)'
  BY <1>1 DEF Cleanup, Kill, Exit, Placed, Goto, TypeOK
<1>8. Complete(i)'
  BY <1>1 DEF Cleanup, Kill, Exit, Complete, Set, TypeOK
<1> QED BY <1>2, <1>3, <1>4, <1>5, <1>6, <1>7, <1>8, OthersInstall

LEMMA NextInstallInv == InstallInv /\ [Next]_vars => InstallInv'
<1>1. ASSUME InstallInv, UNCHANGED vars PROVE InstallInv'
  BY <1>1 DEF vars, system, run, InstallInv, TypeOK, CommittedIsComplete, Held, Raised, Placed, Set
<1> QED
  BY <1>1, AcquireInstall, StageInstall, SaveInstall, PublishInstall, RecordInstall,
     CommitInstall, AbortInstall, UndoInstall, UndoFailsInstall, EndInstall DEF Next, Step

\* The variables keep their types, wherever a run is interrupted.
THEOREM TypeCorrect == Spec => []TypeOK
<1>1. Spec => []InstallInv
  BY InitInstallInv, NextInstallInv, PTL DEF Spec
<1>2. InstallInv => TypeOK
  BY DEF InstallInv
<1> QED BY <1>1, <1>2, PTL

\* A committed installation is complete and stays so until its lock is free,
\* also when signals may arrive during a rename (install_eva_tool.sh: on_exit
\* looks at committed first).
THEOREM CommitsAreComplete == Spec => []CommittedIsComplete
<1>1. Spec => []InstallInv
  BY InitInstallInv, NextInstallInv, PTL DEF Spec
<1>2. InstallInv => CommittedIsComplete
  BY DEF InstallInv
<1> QED BY <1>1, <1>2, PTL

-----------------------------------------------------------------------------
(* The rollback *)

LEMMA InitRollbackInv == Init => RollbackInv /\ RestInv
<1> SUFFICES ASSUME Init PROVE RollbackInv /\ RestInv
  OBVIOUS
<1>1. RollbackInv
  BY DEF Init, RollbackInv, Restorable, InTransaction, ReceiptSaved, Set, UpToSaveTool,
     UpToSaveLink, UpToPublishTool, UpToPublishLink, UpToCheck
<1>2. RestInv
  BY NoneAssumption DEF Init, RestInv, Consistent, Now
<1> QED BY <1>1, <1>2

\* A run that is not active has nothing to roll back.
LEMMA OthersRollback ==
  ASSUME InstallInv, RollbackInv, NEW i \in Installers, lock \in {i, None},
         Restorable(i)', ReceiptSaved(i)',
         \A j \in Installers \ {i} : pc'[j] = pc[j] /\ flags'[j] = flags[j]
  PROVE  RollbackInv'
<1>1. ASSUME NEW j \in Installers \ {i} PROVE Restorable(j)' /\ ReceiptSaved(j)'
  <2>1. pc'[j] = "idle" /\ flags'[j] = {}
    BY OthersIdle
  <2> QED
    BY <2>1 DEF Restorable, InTransaction, ReceiptSaved, Set, UpToSaveTool, UpToSaveLink,
       UpToPublishTool, UpToPublishLink, UpToCheck
<1> QED BY <1>1 DEF RollbackInv

LEMMA AcquireRollback ==
  ASSUME InstallInv, RollbackInv, NEW i \in Installers, Acquire(i)
  PROVE  RollbackInv'
<1>1. TypeOK /\ Held(i) /\ Raised(i) /\ Placed(i) /\ Restorable(i) /\ ReceiptSaved(i)
  BY DEF InstallInv, RollbackInv
<1>2. lock \in {i, None}
  BY DEF Acquire
<1>3. \A j \in Installers \ {i} : pc'[j] = pc[j] /\ flags'[j] = flags[j]
  BY DEF Acquire, Goto
<1>4. ReceiptSaved(i)'
  BY <1>1 DEF Acquire, Goto, Set, UpToSaveTool, UpToSaveLink, UpToPublishTool, UpToPublishLink,
     UpToCheck, ReceiptSaved
<1>5. Restorable(i)'
  BY <1>1 DEF Acquire, Set, Raised, Restorable, InTransaction
<1> QED BY <1>2, <1>3, <1>4, <1>5, OthersRollback

LEMMA StageRollback ==
  ASSUME InstallInv, RollbackInv, NEW i \in Installers, Stage(i)
  PROVE  RollbackInv'
<1>1. TypeOK /\ Held(i) /\ Raised(i) /\ Placed(i) /\ Restorable(i) /\ ReceiptSaved(i)
  BY DEF InstallInv, RollbackInv
<1>2. lock \in {i, None}
  BY <1>1 DEF Stage, Held
<1>3. \A j \in Installers \ {i} : pc'[j] = pc[j] /\ flags'[j] = flags[j]
  BY DEF Stage, Goto, Raise
<1>4. ReceiptSaved(i)'
  BY <1>1 DEF Stage, Goto, Raise, Set, TypeOK, Raised, ReceiptSaved
<1>5. Restorable(i)'
  BY <1>1 DEF Stage, Goto, Raise, Set, TypeOK, system, Raised, Restorable, Recorded, ReceiptBack,
     LinkBack, ToolBack
<1> QED BY <1>2, <1>3, <1>4, <1>5, OthersRollback

LEMMA SaveRollback ==
  ASSUME InstallInv, RollbackInv, NEW i \in Installers, SaveReceipt(i) \/ SaveTool(i) \/ SaveLink(i)
  PROVE  RollbackInv'
<1>1. TypeOK /\ Held(i) /\ Raised(i) /\ Placed(i) /\ Restorable(i) /\ ReceiptSaved(i)
  BY DEF InstallInv, RollbackInv
<1>2. lock \in {i, None}
  BY <1>1 DEF SaveReceipt, SaveTool, SaveLink, Held
<1>3. \A j \in Installers \ {i} : pc'[j] = pc[j] /\ flags'[j] = flags[j]
  BY <1>1 DEF SaveReceipt, SaveTool, SaveLink, Goto, Raise, TypeOK
<1>4. ReceiptSaved(i)'
  <2>1. CASE SaveReceipt(i)
    BY <1>1, <2>1 DEF SaveReceipt, Keep, Raise, Set, TypeOK, Snapshot, Raised, Undoing,
       UpToSaveTool, UpToSaveLink, UpToPublishTool, UpToPublishLink, UpToCheck, ReceiptSaved,
       InTransaction, Restorable, ReceiptBack
  <2>2. CASE SaveTool(i)
    BY <1>1, <2>2 DEF SaveTool, Keep, Set, TypeOK, Snapshot, UpToSaveTool, UpToSaveLink,
       UpToPublishTool, UpToPublishLink, UpToCheck, ReceiptSaved
  <2>3. CASE SaveLink(i)
    BY <1>1, <2>3 DEF SaveLink, Keep, Set, TypeOK, Snapshot, UpToSaveLink, UpToPublishTool,
       UpToPublishLink, UpToCheck, ReceiptSaved
  <2> QED BY <2>1, <2>2, <2>3
<1>5. Restorable(i)'
  BY <1>1 DEF SaveReceipt, SaveTool, SaveLink, Keep, Goto, Raise, Set, TypeOK, Snapshot, system,
     Raised, Windows, UpToSaveTool, UpToSaveLink, UpToPublishTool, UpToPublishLink, UpToCheck,
     Restorable, InTransaction, Recorded, ReceiptBack, LinkBack, ToolBack
<1> QED BY <1>2, <1>3, <1>4, <1>5, OthersRollback

LEMMA PublishRollback ==
  ASSUME InstallInv, RollbackInv, NEW i \in Installers,
         PublishTool(i) \/ PublishLink(i) \/ Register(i)
  PROVE  RollbackInv'
<1>1. TypeOK /\ Held(i) /\ Raised(i) /\ Placed(i) /\ Restorable(i) /\ ReceiptSaved(i)
  BY DEF InstallInv, RollbackInv
<1>2. lock \in {i, None}
  BY <1>1 DEF PublishTool, PublishLink, Register, Held
<1>3. \A j \in Installers \ {i} : pc'[j] = pc[j] /\ flags'[j] = flags[j]
  BY <1>1 DEF PublishTool, PublishLink, Register, Goto, TypeOK
<1>4. ReceiptSaved(i)'
  BY <1>1 DEF PublishTool, PublishLink, Register, Set, Raised, UpToPublishTool, UpToPublishLink,
     UpToCheck, ReceiptSaved
<1>5. Restorable(i)'
  <2>1. CASE PublishTool(i)
    BY <1>1, <2>1 DEF PublishTool, Goto, Set, TypeOK, Windows, Undoing, Restorable,
       InTransaction, Recorded, ReceiptBack, LinkBack, ToolBack, Placed
  <2>2. CASE PublishLink(i)
    BY <1>1, <2>2 DEF PublishLink, Goto, Set, TypeOK, Windows, Undoing, Restorable,
       InTransaction, Recorded, ReceiptBack, LinkBack, ToolBack, Placed
  <2>3. CASE Register(i)
    BY <1>1, <2>3 DEF Register, Goto, Set, Raised, Undoing, Restorable, InTransaction, Recorded,
       ReceiptBack, LinkBack, ToolBack
  <2> QED BY <2>1, <2>2, <2>3
<1> QED BY <1>2, <1>3, <1>4, <1>5, OthersRollback

LEMMA RecordRollback ==
  ASSUME InstallInv, RollbackInv, NEW i \in Installers, SetVariable(i) \/ CheckVersion(i)
  PROVE  RollbackInv'
<1>1. TypeOK /\ Held(i) /\ Raised(i) /\ Placed(i) /\ Restorable(i) /\ ReceiptSaved(i)
  BY DEF InstallInv, RollbackInv
<1>2. lock \in {i, None}
  BY <1>1 DEF SetVariable, CheckVersion, Held, Windows
<1>3. \A j \in Installers \ {i} : pc'[j] = pc[j] /\ flags'[j] = flags[j]
  BY <1>1 DEF SetVariable, CheckVersion, Goto, Raise, TypeOK
<1>4. ReceiptSaved(i)'
  BY <1>1 DEF SetVariable, CheckVersion, Raise, Set, TypeOK, Windows, UpToSaveLink,
     UpToPublishTool, UpToPublishLink, UpToCheck, ReceiptSaved
<1>5. Restorable(i)'
  BY <1>1 DEF SetVariable, CheckVersion, After, Goto, Raise, Set, TypeOK, system, Windows,
     Undoing, UpToCheck, Restorable, ReceiptSaved, InTransaction, Recorded, ReceiptBack,
     LinkBack, ToolBack
<1> QED BY <1>2, <1>3, <1>4, <1>5, OthersRollback

LEMMA CommitRollback ==
  ASSUME InstallInv, RollbackInv, NEW i \in Installers, Commit(i)
  PROVE  RollbackInv'
<1>1. TypeOK /\ Held(i) /\ Raised(i) /\ Placed(i) /\ Restorable(i) /\ ReceiptSaved(i)
  BY DEF InstallInv, RollbackInv
<1>2. lock \in {i, None}
  BY <1>1 DEF Commit, Held
<1>3. \A j \in Installers \ {i} : pc'[j] = pc[j] /\ flags'[j] = flags[j]
  BY DEF Commit, Goto, Raise
<1>4. ReceiptSaved(i)'
  BY <1>1 DEF Commit, Raise, Set, Raised, ReceiptSaved
<1>5. Restorable(i)'
  BY <1>1 DEF Commit, Raise, Set, TypeOK, Restorable, InTransaction
<1> QED BY <1>2, <1>3, <1>4, <1>5, OthersRollback

LEMMA AbortRollback ==
  ASSUME InstallInv, RollbackInv, NEW i \in Installers, Abort(i), Interruptible = ErrorPlaces
  PROVE  RollbackInv'
<1>1. TypeOK /\ Held(i) /\ Raised(i) /\ Placed(i) /\ Restorable(i) /\ ReceiptSaved(i)
  BY DEF InstallInv, RollbackInv
<1>2. lock \in {i, None}
  BY <1>1 DEF Abort, Held, ErrorPlaces, Commands
<1>3. \A j \in Installers \ {i} : pc'[j] = pc[j] /\ flags'[j] = flags[j]
  BY DEF Abort, Goto
<1>4. ReceiptSaved(i)'
  BY <1>1 DEF Abort, Goto, Set, UpToSaveTool, UpToSaveLink, UpToPublishTool, UpToPublishLink,
     UpToCheck, ReceiptSaved
<1>5. Restorable(i)'
  <2> SUFFICES ASSUME InTransaction(i)' PROVE Restorable(i)'
    BY DEF Restorable
  <2>1. InTransaction(i) /\ UNCHANGED <<flags, backup, before, tool, link>>
        /\ pc[i] \in ErrorPlaces /\ pc[i] # "stage" /\ pc'[i] = "undoReceipt"
    BY <1>1 DEF Abort, Goto, InTransaction, Set, TypeOK, Raised
  <2>2. ToolBack(i)' = ToolBack(i)
    BY <2>1 DEF Set, Commands, ErrorPlaces, Recorded, ToolBack
  <2>3. LinkBack(i)' = LinkBack(i)
    BY <2>1 DEF Set, Commands, ErrorPlaces, Recorded, LinkBack
  <2>4. ReceiptBack(i)' = ReceiptBack(i)
    BY <1>1, <2>1 DEF Abort, Set, Raised, Commands, Undoing, ErrorPlaces, ReceiptBack
  <2> QED BY <1>1, <2>1, <2>2, <2>3, <2>4 DEF Restorable, Set
<1> QED BY <1>2, <1>3, <1>4, <1>5, OthersRollback

LEMMA UndoRollback ==
  ASSUME InstallInv, RollbackInv, NEW i \in Installers,
         \/ UndoReceipt(i) \/ UndoNewLink(i) \/ UndoLink(i)
         \/ UndoNewTool(i) \/ UndoTool(i)
  PROVE  RollbackInv'
<1>1. TypeOK /\ Held(i) /\ Raised(i) /\ Placed(i) /\ Restorable(i) /\ ReceiptSaved(i)
  BY DEF InstallInv, RollbackInv
<1>2. lock \in {i, None}
  BY <1>1 DEF UndoReceipt, UndoNewLink, UndoLink, UndoNewTool, UndoTool, Held
<1>3. \A j \in Installers \ {i} : pc'[j] = pc[j] /\ flags'[j] = flags[j]
  BY <1>1 DEF UndoReceipt, UndoNewLink, UndoLink, UndoNewTool, UndoTool, Goto, TypeOK
<1>4. ReceiptSaved(i)'
  BY <1>1 DEF UndoReceipt, UndoNewLink, UndoLink, UndoNewTool, UndoTool, Goto, Set, TypeOK,
     UpToSaveTool, UpToSaveLink, UpToPublishTool, UpToPublishLink, UpToCheck, ReceiptSaved
<1>5. Restorable(i)'
  BY <1>1 DEF UndoReceipt, UndoNewLink, UndoLink, UndoNewTool, UndoTool, Goto, Set, TypeOK,
     Undoing, Restorable, InTransaction, Recorded, ReceiptBack, LinkBack, ToolBack
<1> QED BY <1>2, <1>3, <1>4, <1>5, OthersRollback

LEMMA UndoFailsRollback ==
  ASSUME InstallInv, RollbackInv, NEW i \in Installers, UndoFails(i)
  PROVE  RollbackInv'
<1>1. TypeOK /\ Held(i) /\ Raised(i) /\ Placed(i) /\ Restorable(i) /\ ReceiptSaved(i)
  BY DEF InstallInv, RollbackInv
<1>2. lock \in {i, None}
  BY <1>1 DEF UndoFails, Held, Undoing
<1>3. \A j \in Installers \ {i} : pc'[j] = pc[j] /\ flags'[j] = flags[j]
  BY DEF UndoFails, Goto, Raise
<1>4. ReceiptSaved(i)'
  BY <1>1 DEF UndoFails, NextUndo, Goto, Raise, Set, Undoing, UpToSaveTool, UpToSaveLink,
     UpToPublishTool, UpToPublishLink, UpToCheck, ReceiptSaved
<1>5. Restorable(i)'
  BY <1>1 DEF UndoFails, Raise, Set, TypeOK, Restorable
<1> QED BY <1>2, <1>3, <1>4, <1>5, OthersRollback

LEMMA EndRollback ==
  ASSUME InstallInv, RollbackInv, NEW i \in Installers, Cleanup(i) \/ Kill(i)
  PROVE  RollbackInv'
<1>1. TypeOK /\ Held(i) /\ Raised(i) /\ Placed(i) /\ Restorable(i) /\ ReceiptSaved(i)
  BY DEF InstallInv, RollbackInv
<1>2. lock \in {i, None}
  BY <1>1 DEF Cleanup, Kill, Held
<1>3. \A j \in Installers \ {i} : pc'[j] = pc[j] /\ flags'[j] = flags[j]
  BY <1>1 DEF Cleanup, Kill, Exit, Goto, TypeOK
<1>4. ReceiptSaved(i)'
  BY <1>1 DEF Cleanup, Kill, Exit, Goto, Set, TypeOK, UpToSaveTool, UpToSaveLink,
     UpToPublishTool, UpToPublishLink, UpToCheck, ReceiptSaved
<1>5. Restorable(i)'
  BY <1>1 DEF Cleanup, Kill, Exit, Set, TypeOK, Restorable, InTransaction
<1> QED BY <1>2, <1>3, <1>4, <1>5, OthersRollback

LEMMA NextRollbackInv ==
  ASSUME Interruptible = ErrorPlaces
  PROVE  InstallInv /\ RollbackInv /\ [Next]_vars => RollbackInv'
<1>1. ASSUME RollbackInv, UNCHANGED vars PROVE RollbackInv'
  BY <1>1 DEF vars, system, run, RollbackInv, Restorable, ReceiptSaved, InTransaction, Recorded,
     ReceiptBack, LinkBack, ToolBack, Set
<1> QED
  BY <1>1, AcquireRollback, StageRollback, SaveRollback, PublishRollback, RecordRollback,
     CommitRollback, AbortRollback, UndoRollback, UndoFailsRollback, EndRollback DEF Next, Step

\* At the end of a rollback nothing of it is to come.
LEMMA RestoredAtEnd == RollbackInv => RollbackRestores
  BY DEF RollbackInv, Restorable, RollbackRestores, ReceiptBack, LinkBack, ToolBack

\* A rollback that reports no error leaves the Tool, the command link and the
\* receipt as the run found them, whatever command failed (install_eva_tool.sh:
\* rollback).  With a signal between a rename and its variable it does not.
THEOREM RollbackIsExact ==
  ASSUME Interruptible = ErrorPlaces
  PROVE  Spec => []RollbackRestores
<1>1. Init => InstallInv /\ RollbackInv
  BY InitInstallInv, InitRollbackInv
<1>2. InstallInv /\ RollbackInv /\ [Next]_vars => InstallInv' /\ RollbackInv'
  BY NextInstallInv, NextRollbackInv
<1> QED BY <1>1, <1>2, RestoredAtEnd, PTL DEF Spec

-----------------------------------------------------------------------------
(* The installation at rest *)

\* A step of a transaction concerns nobody else, and what it found stays noted.
LEMMA TransactionRest ==
  ASSUME InstallInv, RestInv, NEW i \in Installers, lock = i, lock' = i, pc[i] # "idle",
         InTransaction(i), InTransaction(i)', UNCHANGED <<before, damaged>>,
         \A j \in Installers \ {i} : pc'[j] = pc[j]
  PROVE  RestInv'
<1>1. \A j \in Installers \ {i} : pc'[j] = "idle"
  BY OthersIdle
<1> QED BY <1>1, NoneAssumption DEF RestInv

\* A run that has not left its transaction goes on with it.
LEMMA WorkRest ==
  ASSUME InstallInv, RestInv, NEW i \in Installers,
         \/ SaveReceipt(i) \/ SaveTool(i) \/ SaveLink(i) \/ PublishTool(i) \/ PublishLink(i)
         \/ Register(i) \/ SetVariable(i) \/ CheckVersion(i)
         \/ UndoReceipt(i) \/ UndoNewLink(i) \/ UndoLink(i) \/ UndoNewTool(i) \/ UndoTool(i)
         \/ UndoFails(i)
  PROVE  RestInv'
<1>1. TypeOK /\ Held(i) /\ Raised(i)
  BY DEF InstallInv
<1>2. /\ pc[i] \in Commands \cup Windows \cup Undoing
      /\ flags'[i] \in {flags[i] \cup {flag} : flag \in Flags \ {"committed"}} \cup {flags[i]}
      /\ UNCHANGED <<lock, before, damaged>>
      /\ \A j \in Installers \ {i} : pc'[j] = pc[j]
  BY <1>1 DEF SaveReceipt, SaveTool, SaveLink, PublishTool, PublishLink, Register, SetVariable,
     CheckVersion, UndoReceipt, UndoNewLink, UndoLink, UndoNewTool, UndoTool, UndoFails, Goto,
     Raise, TypeOK, Commands, Windows, Undoing, Flags
<1>3. InTransaction(i) /\ InTransaction(i)'
  BY <1>1, <1>2 DEF Raised, InTransaction, Set, Commands, Windows, Undoing
<1>4. pc[i] # "idle" /\ lock = i
  BY <1>1, <1>2 DEF Held, Commands, Windows, Undoing
<1> QED BY <1>2, <1>3, <1>4, TransactionRest

LEMMA BeginRest ==
  ASSUME InstallInv, RestInv, NEW i \in Installers, Acquire(i) \/ Stage(i)
  PROVE  RestInv'
<1>1. TypeOK /\ Held(i) /\ Raised(i)
  BY DEF InstallInv
<1>2. lock \in {i, None}
  BY <1>1 DEF Acquire, Stage, Held
<1>3. \A j \in Installers \ {i} : pc'[j] = "idle"
  BY <1>1, OthersIdle DEF Acquire, Stage, Goto, TypeOK
<1>4. ~damaged' => Consistent(Now) /\ Now' = Now
  BY <1>1 DEF Acquire, Stage, Raised, InTransaction, Set, RestInv, Now, system
<1>5. CASE Acquire(i)
  <2>1. lock' = i /\ ~InTransaction(i)'
    BY <1>1, <1>5 DEF Acquire, Raised, InTransaction, Set
  <2> QED BY <1>3, <1>4, <2>1 DEF RestInv
<1>6. CASE Stage(i)
  <2>1. lock' = i /\ before'[i] = Now
    BY <1>1, <1>6 DEF Stage, Held, Now, TypeOK
  <2> QED BY <1>3, <1>4, <2>1 DEF RestInv
<1> QED BY <1>5, <1>6

\* An abort either opens the rollback, or ends a run that replaced nothing.
LEMMA AbortRest ==
  ASSUME InstallInv, RestInv, NEW i \in Installers, Abort(i)
  PROVE  RestInv'
<1>1. TypeOK /\ Held(i) /\ Raised(i)
  BY DEF InstallInv
<1>2. /\ pc[i] \in Commands \cup Windows \cup {"stage"}
      /\ UNCHANGED <<flags, lock, before, damaged>>
      /\ \A j \in Installers \ {i} : pc'[j] = pc[j]
  BY InterruptibleAssumption DEF Abort, Goto, ErrorPlaces
<1>3. pc[i] # "idle" /\ lock = i
  BY <1>1, <1>2 DEF Held, Commands, Windows
<1>4. CASE pc[i] = "stage"
  <2>1. Now' = Now /\ ~InTransaction(i) /\ ~InTransaction(i)'
    BY <1>1, <1>4 DEF Abort, Now, Raised, InTransaction, Set
  <2>2. \A j \in Installers \ {i} : pc'[j] = "idle"
    BY <1>2, <1>3, OthersIdle
  <2> QED BY <1>2, <1>3, <2>1, <2>2 DEF RestInv
<1>5. CASE pc[i] # "stage"
  <2>1. InTransaction(i) /\ InTransaction(i)'
    BY <1>1, <1>2, <1>5 DEF Raised, InTransaction, Set, Commands, Windows
  <2> QED BY <1>2, <1>3, <2>1, TransactionRest
<1> QED BY <1>4, <1>5

\* What is committed is consistent.
LEMMA CommitRest ==
  ASSUME InstallInv, RestInv, NEW i \in Installers, Commit(i)
  PROVE  RestInv'
<1>1. TypeOK /\ Held(i) /\ Raised(i) /\ Placed(i)
  BY DEF InstallInv
<1>2. pc[i] # "idle" /\ lock = i /\ lock' = i
  BY <1>1 DEF Commit, Held
<1>3. \A j \in Installers \ {i} : pc'[j] = "idle"
  BY <1>2, OthersIdle DEF Commit, Goto
<1>4. Consistent(Now') /\ ~InTransaction(i)'
  BY <1>1, NoneAssumption DEF Commit, Held, Placed, Raise, Consistent, Now, InTransaction, Set,
     TypeOK, system
<1> QED BY <1>3, <1>4 DEF RestInv

\* A run that ends without damage committed, restored or touched nothing.
LEMMA EndRest ==
  ASSUME InstallInv, RollbackInv, RestInv, NEW i \in Installers, Cleanup(i) \/ Kill(i)
  PROVE  RestInv'
<1>1. TypeOK /\ Held(i) /\ Raised(i) /\ Restorable(i)
  BY DEF InstallInv, RollbackInv
<1>2. pc[i] # "idle" /\ lock = i
  BY <1>1 DEF Cleanup, Kill, Held
<1>3. \A j \in Installers : pc'[j] = "idle"
  BY <1>1, OthersIdle DEF Cleanup, Kill, Exit, Goto, TypeOK
<1>4. ~damaged' => ~damaged /\ (InTransaction(i) => pc[i] = "cleanup" /\ ~Set(i, "rollbackError"))
  BY DEF Cleanup, Kill, InTransaction
<1>5. ~damaged' => Consistent(Now)
  <2> SUFFICES ASSUME ~damaged' PROVE Consistent(Now)
    OBVIOUS
  <2>1. CASE InTransaction(i)
    <3>1. before[i] = Now
      BY <1>1, <1>4, <2>1 DEF Restorable, ReceiptBack, LinkBack, ToolBack, Now
    <3> QED BY <1>2, <1>4, <3>1 DEF RestInv
  <2>2. CASE ~InTransaction(i)
    BY <1>2, <1>4, <2>2 DEF RestInv
  <2> QED BY <2>1, <2>2
<1>6. Now' = Now
  BY DEF Cleanup, Kill, system, Now
<1> QED BY <1>3, <1>5, <1>6 DEF RestInv

LEMMA NextRestInv ==
  ASSUME InstallInv, RollbackInv, RestInv, [Next]_vars
  PROVE  RestInv'
<1>1. CASE UNCHANGED vars
  BY <1>1 DEF vars, system, run, RestInv, Now, InTransaction, Set
<1> QED
  BY <1>1, BeginRest, WorkRest, AbortRest, CommitRest, EndRest DEF Next, Step

\* Between installations the command never dangles and the receipt names what is
\* installed, unless a run was killed or its rollback failed (current.go reads
\* the receipt that the script registers).
THEOREM RestIsConsistent ==
  ASSUME Interruptible = ErrorPlaces
  PROVE  Spec => []ConsistentAtRest
<1>1. Init => InstallInv /\ RollbackInv /\ RestInv
  BY InitInstallInv, InitRollbackInv
<1>2. InstallInv /\ RollbackInv /\ RestInv /\ [Next]_vars => InstallInv' /\ RollbackInv' /\ RestInv'
  BY NextInstallInv, NextRollbackInv, NextRestInv
<1>3. RestInv => ConsistentAtRest
  BY DEF RestInv, ConsistentAtRest, Consistent, Now
<1> QED BY <1>1, <1>2, <1>3, PTL DEF Spec
=============================================================================
