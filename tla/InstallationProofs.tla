------------------------- MODULE InstallationProofs -------------------------
(***************************************************************************)
(* What is proved of the commands of a control host, for any number of     *)
(* processes, versions, builds and bundles.                                *)
(*                                                                         *)
(* The composition adds no writer to its parts: each part sees only its    *)
(* own steps.  A property of one part is therefore proved of that part     *)
(* alone, and holds of every interleaving of commands.                     *)
(***************************************************************************)
EXTENDS Installation, TLAPS

-----------------------------------------------------------------------------
(* A whole runtime survives every schedule of installers and kills.        *)
(*                                                                         *)
(* RuntimeSurvives is not inductive: a step may lose the runtime of the    *)
(* root only because the directory that takes its place, or the one it was *)
(* renamed to, is whole.  RuntimeInv adds what makes that so: what is      *)
(* staged was checked before it is published, and only a run between its   *)
(* two renames, or deleting, has a backup.                                 *)

\* A payload was resolved before it is copied, and its copy before it is
\* published.
StagedIsWhole ==
  \A p \in Processes :
    /\ step[p] = "copy" => payload[p] \in Versions
    /\ step[p] \in {"look", "move", "publish"} => staging[p] \in Versions

\* Only a run that moved the root away has a previous runtime.
BackupIsHeld ==
  \A p \in Processes :
    /\ backup[p] # Absent => step[p] \in {"publish", "restore", "remove"}
    /\ step[p] \in {"restore", "remove"} => backup[p] # Absent

\* While the root is missing, a run that is alive will rename it back.
RootComesBack ==
  (seen /\ ~interrupted) =>
    \/ root # Absent
    \/ \E p \in Processes : step[p] \in {"publish", "restore"} /\ backup[p] # Absent

RuntimeInv ==
  /\ RuntimeTypeOK /\ StagedIsWhole /\ BackupIsHeld
  /\ RootComesBack /\ RuntimeSurvives

-----------------------------------------------------------------------------
LEMMA RuntimeInvInit == RuntimeInit => RuntimeInv
<1> SUFFICES ASSUME RuntimeInit PROVE RuntimeInv
  OBVIOUS
<1>0. (root \in Versions) = TRUE \/ (root \in Versions) = FALSE OBVIOUS
<1>1. seen = (root \in Versions) BY DEF RuntimeInit
<1>2. seen \in BOOLEAN BY <1>0, <1>1, Zenon
<1> USE RuntimeAssumption DEF RuntimeInit
<1>3. RuntimeTypeOK BY <1>2 DEF RuntimeTypeOK, Payloads, Directories, RuntimeSteps
<1>4. StagedIsWhole /\ BackupIsHeld BY DEF StagedIsWhole, BackupIsHeld
<1>5. RuntimeSurvives /\ RootComesBack BY DEF RuntimeSurvives, RootComesBack
<1> QED BY <1>3, <1>4, <1>5 DEF RuntimeInv

USE DEF RuntimeTypeOK, RuntimeSteps, Directories, Payloads, Go

\* The steps that only choose what comes next.
LEMMA ChoosingKeeps ==
  ASSUME RuntimeInv, NEW p \in Processes,
         \/ \E v \in Payloads :
              BeginReplace(p, v) \/ \E mode \in {"online", "remote", "local"} : BeginEnsure(p, mode, v)
         \/ Inspect(p) \/ LookForExisting(p) \/ Confirm(p) \/ EndRuntime(p)
  PROVE  RuntimeInv'
<1> USE RuntimeAssumption DEF RuntimeInv
<1>1. ASSUME NEW v \in Payloads, BeginReplace(p, v) PROVE RuntimeInv'
  <2>1. RuntimeTypeOK' BY <1>1 DEF BeginReplace
  <2>2. StagedIsWhole' /\ BackupIsHeld' BY <1>1 DEF BeginReplace, StagedIsWhole, BackupIsHeld
  <2>3. RuntimeSurvives' /\ RootComesBack'
    BY <1>1 DEF BeginReplace, RuntimeSurvives, RootComesBack
  <2> QED BY <2>1, <2>2, <2>3
<1>2. ASSUME NEW v \in Payloads, NEW mode \in {"online", "remote", "local"},
             BeginEnsure(p, mode, v) PROVE RuntimeInv'
  <2>0. \E s \in {"ok", "failed", "inspect", "validate"} : step' = [step EXCEPT ![p] = s]
    BY <1>2 DEF BeginEnsure
  <2>1. RuntimeTypeOK' BY <1>2, <2>0 DEF BeginEnsure
  <2>2. StagedIsWhole' /\ BackupIsHeld' BY <1>2, <2>0 DEF BeginEnsure, StagedIsWhole, BackupIsHeld
  <2>3. RuntimeSurvives' /\ RootComesBack'
    BY <1>2, <2>0 DEF BeginEnsure, RuntimeSurvives, RootComesBack
  <2> QED BY <2>1, <2>2, <2>3
<1>3. CASE Inspect(p) \/ LookForExisting(p) \/ Confirm(p)
  <2>1. RuntimeTypeOK' BY <1>3 DEF Inspect, LookForExisting, Confirm
  <2>2. StagedIsWhole' /\ BackupIsHeld'
    BY <1>3 DEF Inspect, LookForExisting, Confirm, StagedIsWhole, BackupIsHeld
  <2>3. RuntimeSurvives' /\ RootComesBack'
    BY <1>3 DEF Inspect, LookForExisting, Confirm, RuntimeSurvives, RootComesBack
  <2> QED BY <2>1, <2>2, <2>3
<1>4. CASE EndRuntime(p)
  <2>1. RuntimeTypeOK' BY <1>4 DEF EndRuntime
  <2>2. StagedIsWhole' /\ BackupIsHeld' BY <1>4 DEF EndRuntime, StagedIsWhole, BackupIsHeld
  <2>3. RuntimeSurvives' /\ RootComesBack'
    BY <1>4 DEF EndRuntime, RuntimeSurvives, RootComesBack
  <2> QED BY <2>1, <2>2, <2>3
<1> QED BY <1>1, <1>2, <1>3, <1>4

\* The steps that fill the staging directory.
LEMMA StagingKeeps ==
  ASSUME RuntimeInv, NEW p \in Processes, Validate(p) \/ Copy(p)
  PROVE  RuntimeInv'
<1> USE RuntimeAssumption DEF RuntimeInv
<1>1. RuntimeTypeOK' BY DEF Validate, Copy, StagedIsWhole
<1>2. StagedIsWhole' BY DEF Validate, Copy, StagedIsWhole, Resolves
<1>3. BackupIsHeld' BY DEF Validate, Copy, BackupIsHeld
<1>4. RuntimeSurvives' /\ RootComesBack'
    BY DEF Validate, Copy, RuntimeSurvives, RootComesBack
<1> QED BY <1>1, <1>2, <1>3, <1>4

\* The steps that rename the root away, rename a directory to it, or back.
LEMMA RenamingKeeps ==
  ASSUME RuntimeInv, NEW p \in Processes,
         MoveExisting(p) \/ Publish(p) \/ PublishFails(p) \/ Restore(p) \/ RestoreFails(p)
  PROVE  RuntimeInv'
<1> USE RuntimeAssumption DEF RuntimeInv
<1>1. CASE MoveExisting(p)
  <2>1. RuntimeTypeOK' BY <1>1 DEF MoveExisting
  <2>2. StagedIsWhole' /\ BackupIsHeld' BY <1>1 DEF MoveExisting, StagedIsWhole, BackupIsHeld
  <2>3. RuntimeSurvives' /\ RootComesBack'
    BY <1>1 DEF MoveExisting, RuntimeSurvives, RootComesBack, BackupIsHeld
  <2> QED BY <2>1, <2>2, <2>3
<1>2. CASE Publish(p)
  <2>0. staging[p] \in Versions BY <1>2 DEF Publish, StagedIsWhole
  <2>1. RuntimeTypeOK' BY <1>2, <2>0 DEF Publish
  <2>2. StagedIsWhole' /\ BackupIsHeld' BY <1>2 DEF Publish, StagedIsWhole, BackupIsHeld
  <2>3. RuntimeSurvives' /\ RootComesBack'
    BY <1>2, <2>0 DEF Publish, RuntimeSurvives, RootComesBack
  <2> QED BY <2>1, <2>2, <2>3
<1>3. CASE PublishFails(p)
  <2>1. RuntimeTypeOK' BY <1>3 DEF PublishFails
  <2>2. StagedIsWhole' /\ BackupIsHeld' BY <1>3 DEF PublishFails, StagedIsWhole, BackupIsHeld
  <2>3. RuntimeSurvives' /\ RootComesBack'
    BY <1>3 DEF PublishFails, RuntimeSurvives, RootComesBack
  <2> QED BY <2>1, <2>2, <2>3
<1>4. CASE Restore(p)
  <2>1. RuntimeTypeOK' BY <1>4 DEF Restore
  <2>2. StagedIsWhole' /\ BackupIsHeld' BY <1>4 DEF Restore, StagedIsWhole, BackupIsHeld
  <2>3. RuntimeSurvives' /\ RootComesBack'
    BY <1>4 DEF Restore, RuntimeSurvives, RootComesBack
  <2> QED BY <2>1, <2>2, <2>3
<1>5. CASE RestoreFails(p)
  <2>0. backup[p] \in Directories BY <1>5 DEF RestoreFails, BackupIsHeld
  <2>1. RuntimeTypeOK' BY <1>5, <2>0 DEF RestoreFails
  <2>2. StagedIsWhole' /\ BackupIsHeld' BY <1>5 DEF RestoreFails, StagedIsWhole, BackupIsHeld
  <2>3. RuntimeSurvives' /\ RootComesBack'
    BY <1>5 DEF RestoreFails, RuntimeSurvives, RootComesBack
  <2> QED BY <2>1, <2>2, <2>3
<1> QED BY <1>1, <1>2, <1>3, <1>4, <1>5

\* A deleted backup was never what RuntimeSurvives relies on, and a killed run
\* leaves its own where nothing deletes it.
LEMMA EndingKeeps ==
  ASSUME RuntimeInv, NEW p \in Processes, RemovePrevious(p) \/ KillInstaller(p)
  PROVE  RuntimeInv'
<1> USE RuntimeAssumption DEF RuntimeInv
<1>1. CASE RemovePrevious(p)
  <2>1. RuntimeTypeOK' BY <1>1 DEF RemovePrevious
  <2>2. StagedIsWhole' /\ BackupIsHeld' BY <1>1 DEF RemovePrevious, StagedIsWhole, BackupIsHeld
  <2>3. RuntimeSurvives' /\ RootComesBack'
    BY <1>1 DEF RemovePrevious, RuntimeSurvives, RootComesBack
  <2> QED BY <2>1, <2>2, <2>3
<1>2. CASE KillInstaller(p)
  <2>1. RuntimeTypeOK' BY <1>2 DEF KillInstaller
  <2>2. StagedIsWhole' /\ BackupIsHeld' BY <1>2 DEF KillInstaller, StagedIsWhole, BackupIsHeld
  <2>3. RuntimeSurvives' /\ RootComesBack'
    BY <1>2 DEF KillInstaller, RuntimeSurvives, RootComesBack, BackupIsHeld
  <2> QED BY <2>1, <2>2, <2>3
<1> QED BY <1>1, <1>2

LEMMA RuntimeInvStep == RuntimeInv /\ [RuntimeNext]_runtimeVars => RuntimeInv'
<1> SUFFICES ASSUME RuntimeInv, [RuntimeNext]_runtimeVars PROVE RuntimeInv'
  OBVIOUS
<1>1. CASE RuntimeNext
  BY <1>1, ChoosingKeeps, StagingKeeps, RenamingKeeps, EndingKeeps DEF RuntimeNext, RuntimeStep
<1>2. CASE UNCHANGED runtimeVars
  BY <1>2 DEF runtimeVars, RuntimeInv, StagedIsWhole, BackupIsHeld, RuntimeSurvives,
              RootComesBack
<1> QED BY <1>1, <1>2

\* Every schedule of installers keeps RuntimeInv.
LEMMA RuntimeInvariant == RuntimeSpec => []RuntimeInv
BY RuntimeInvInit, RuntimeInvStep, PTL DEF RuntimeSpec

HIDE DEF RuntimeTypeOK, RuntimeSteps, Directories, Payloads, Go

-----------------------------------------------------------------------------
(* The parts *)

\* What the commands of a control host do to its packages, its runtime and its
\* releases is what the three parts allow (runRuntime, runInstall).
THEOREM PartsRefinement == Spec => HostSpec /\ RuntimeSpec /\ ReleaseSpec
<1>1. Init => HostInit /\ RuntimeInit /\ ReleaseInit
  BY DEF Init
<1>2. [Next]_vars => /\ [HostNext]_hostVars
                     /\ [RuntimeNext]_runtimeVars
                     /\ [ReleaseNext]_releaseVars
  <2> SUFFICES ASSUME [Next]_vars
               PROVE  /\ [HostNext]_hostVars
                      /\ [RuntimeNext]_runtimeVars
                      /\ [ReleaseNext]_releaseVars
    OBVIOUS
  <2>1. ASSUME NEW p \in Processes,
               StartRepository(p) \/ StartBootstrapOnline(p) \/ StartRelease(p)
        PROVE  [HostNext]_hostVars /\ UNCHANGED runtimeVars /\ [ReleaseNext]_releaseVars
    BY <2>1 DEF StartRepository, StartBootstrapOnline, StartRelease, HostNext, ReleaseNext
  <2>2. ASSUME NEW p \in Processes, BuildOnlineRuntime(p)
        PROVE  [HostNext]_hostVars /\ [RuntimeNext]_runtimeVars /\ UNCHANGED releaseVars
    BY <2>2 DEF BuildOnlineRuntime, HostNext, RuntimeNext, Payloads
  <2>3. ASSUME NEW p \in Processes, StartRuntime(p)
        PROVE  UNCHANGED hostVars /\ [RuntimeNext]_runtimeVars /\ UNCHANGED releaseVars
    BY <2>3 DEF StartRuntime, RuntimeNext
  <2>4. ASSUME NEW p \in Processes, EnsureRuntime(p)
        PROVE  UNCHANGED hostVars /\ [RuntimeNext]_runtimeVars /\ UNCHANGED releaseVars
    BY <2>4 DEF EnsureRuntime, RuntimeNext, Modes
  <2>5. ASSUME NEW p \in Processes, UseRuntime(p)
        PROVE  UNCHANGED hostVars /\ [RuntimeNext]_runtimeVars /\ [ReleaseNext]_releaseVars
    BY <2>5 DEF UseRuntime, RuntimeNext, ReleaseNext
  <2>6. ASSUME NEW p \in Processes, Finish(p)
        PROVE  [HostNext]_hostVars /\ [RuntimeNext]_runtimeVars /\ [ReleaseNext]_releaseVars
    BY <2>6 DEF Finish, HostNext, RuntimeNext, ReleaseNext
  <2>7. ASSUME NEW p \in Processes, Work(p)
        PROVE  [HostNext]_hostVars /\ [RuntimeNext]_runtimeVars /\ [ReleaseNext]_releaseVars
    BY <2>7 DEF Work, HostNext, RuntimeNext, ReleaseNext
  <2>8. ASSUME NEW p \in Processes, Kill(p)
        PROVE  [HostNext]_hostVars /\ [RuntimeNext]_runtimeVars /\ [ReleaseNext]_releaseVars
    BY <2>8 DEF Kill, HostNext, RuntimeNext, ReleaseNext
  <2>9. CASE Replace /\ UNCHANGED <<hostVars, runtimeVars, phase, commands>>
    BY <2>9 DEF ReleaseNext
  <2>10. CASE UNCHANGED vars
    BY <2>10 DEF vars
  <2> QED BY <2>1, <2>2, <2>3, <2>4, <2>5, <2>6, <2>7, <2>8, <2>9, <2>10 DEF Next
<1> QED BY <1>1, <1>2, PTL DEF Spec, HostSpec, RuntimeSpec, ReleaseSpec

-----------------------------------------------------------------------------
(* The runtime *)

\* Once a host has had a runtime, some whole runtime stays on its disk through
\* every overlap of commands and every kill (Install).
THEOREM RuntimeAlwaysSurvives == Spec => []RuntimeSurvives
<1>1. RuntimeInv => RuntimeSurvives BY DEF RuntimeInv
<1> QED BY <1>1, PartsRefinement, RuntimeInvariant, PTL

\* After installers that were neither killed nor refused a rename back, the
\* host still has a directory at the runtime root (moveExistingRuntime).
THEOREM RuntimeAlwaysKept == Spec => []RuntimeKept
<1>1. RuntimeInv => RuntimeKept
  BY DEF RuntimeInv, RootComesBack, RuntimeKept, RuntimeAtRest
<1> QED BY <1>1, PartsRefinement, RuntimeInvariant, PTL

-----------------------------------------------------------------------------
(* The APT repository *)

\* Undisturbed repairs do not overlap.
OneRepair ==
  \A p, q \in Processes : host[p] \in Repairing /\ host[q] \in Repairing => p = q

\* What the two files and their backups are at each step of a repair.
RepairAgrees(p) ==
  /\ host[p] \in Repairing => saved[p].source \in {original.source, "new"}
  /\ host[p] = "copyKeyring" => apt \in {original, Repaired} /\ saved[p].source = apt.source
  /\ host[p] \in {"fetch", "installKey"} => apt = saved[p]
  /\ host[p] \in Repairing \ {"copyKeyring"} => saved[p] \in {original, Repaired}
  /\ host[p] = "installSource" => apt = [saved[p] EXCEPT !.keyring = "new"]
  /\ host[p] = "recheck" => apt = Repaired
  /\ host[p] = "restoreKey" => apt.source = saved[p].source

HostInv ==
  /\ HostTypeOK
  /\ ~disturbed => /\ OneRepair /\ RepositoryIsOldOrNew
                   /\ \A p \in Processes : RepairAgrees(p)

LEMMA HostInvInit == HostInit => HostInv
<1> SUFFICES ASSUME HostInit PROVE HostInv
  OBVIOUS
<1>1. apt \in [source : {"none", "old"}, keyring : {"none", "old"}]
  BY HostAssumption DEF HostInit
<1>2. HostTypeOK
  BY <1>1 DEF HostInit, HostTypeOK, HostSteps, Files, Contents, NoFiles
<1> QED BY <1>2 DEF HostInit, HostInv, OneRepair, RepositoryIsOldOrNew, RepairAgrees, Repairing

USE DEF HostTypeOK, HostSteps, Files, Contents, Repairing, Repaired, To

\* Steps outside a repair keep what is known of the repairs.
LEMMA OutsideKeeps ==
  ASSUME HostInv, NEW p \in Processes, NEW s \in HostSteps \ Repairing,
         host[p] \notin Repairing,
         host' = [host EXCEPT ![p] = s],
         NEW b \in Files, saved' = saved \/ saved' = [saved EXCEPT ![p] = b],
         NEW g \in {"repository", "prerequisites"},
         goal' = goal \/ goal' = [goal EXCEPT ![p] = g],
         packages' \in {"whole", "broken"},
         apt' = apt, original' = original, disturbed' = disturbed
  PROVE  HostInv'
<1>1. HostTypeOK'
  <2>1. host' \in [Processes -> HostSteps] BY DEF HostInv
  <2>2. saved' \in [Processes -> Files] BY DEF HostInv
  <2>3. goal' \in [Processes -> {"repository", "prerequisites"}] BY DEF HostInv
  <2>4. apt' \in Files /\ original' \in Files BY DEF HostInv
  <2>5. disturbed' \in BOOLEAN BY Zenon DEF HostInv, HostTypeOK
  <2> QED BY <2>1, <2>2, <2>3, <2>4, <2>5
<1>2. \A q \in Processes : host'[q] \in Repairing => host'[q] = host[q] /\ saved'[q] = saved[q]
  BY DEF HostInv
<1>3. \A q \in Processes : host[q] \in Repairing => host'[q] \in Repairing
  BY DEF HostInv
<1>4. ASSUME ~disturbed'
      PROVE  OneRepair' /\ RepositoryIsOldOrNew' /\ \A q \in Processes : RepairAgrees(q)'
  <2>1. OneRepair' BY <1>4, <1>2 DEF HostInv, OneRepair
  <2>2. RepositoryIsOldOrNew' BY <1>4, <1>3 DEF HostInv, RepositoryIsOldOrNew
  <2>3. ASSUME NEW q \in Processes PROVE RepairAgrees(q)'
    BY <1>4, <1>2 DEF HostInv, RepairAgrees
  <2> QED BY <2>1, <2>2, <2>3
<1> QED BY <1>1, <1>4 DEF HostInv

\* A repository that is healthy, or that nobody may repair, stays as it is.
LEMMA CheckingKeeps ==
  ASSUME HostInv, NEW p \in Processes,
         \/ \E wanted \in {"repository", "prerequisites"} : BeginHost(p, wanted)
         \/ Check(p)
  PROVE  HostInv'
<1>1. CASE \E wanted \in {"repository", "prerequisites"} : BeginHost(p, wanted)
  <2>1. PICK wanted \in {"repository", "prerequisites"} : BeginHost(p, wanted)
    BY <1>1
  <2> QED BY <2>1, OutsideKeeps DEF BeginHost, HostInv, NoFiles
<1>2. CASE Check(p)
  <2>1. \E s \in {"ready", "install", "copySource", "failed"} :
          host' = [host EXCEPT ![p] = s]
    <3>1. PICK report \in UpdateReports :
            CASE report = "healthy" -> RepositoryIsHealthy(p)
              [] report = "missingKey" -> To(p, "copySource")
              [] report = "error" -> To(p, "failed")
      BY <1>2 DEF Check
    <3>2. report \in {"healthy", "missingKey", "error"} BY DEF UpdateReports
    <3>3. CASE report = "healthy" BY <3>1, <3>3 DEF RepositoryIsHealthy
    <3>4. CASE report = "missingKey" BY <3>1, <3>4
    <3>5. CASE report = "error" BY <3>1, <3>5
    <3> QED BY <3>2, <3>3, <3>4, <3>5
  <2>2. PICK s \in {"ready", "install", "copySource", "failed"} :
          host' = [host EXCEPT ![p] = s]
    BY <2>1
  <2>3. host[p] \notin Repairing /\ UNCHANGED <<apt, packages, goal, saved, original, disturbed>>
    BY <1>2 DEF Check
  <2>4. s \in HostSteps \ Repairing /\ NoFiles \in Files BY DEF NoFiles
  <2> QED BY <2>2, <2>3, <2>4, OutsideKeeps DEF HostInv
<1> QED BY <1>1, <1>2

\* The backups are copies of what is there.
LEMMA CopyingKeeps ==
  ASSUME HostInv, NEW p \in Processes,
         CopySource(p) \/ CopyKeyring(p) \/ FetchKey(p)
  PROVE  HostInv'
<1>0. NoFiles \in Files BY DEF NoFiles
<1>1. CASE CopySource(p)
  <2>1. CASE To(p, "failed") /\ UNCHANGED <<saved, disturbed>>
    BY <1>0, <1>1, <2>1, OutsideKeeps DEF CopySource, HostInv
  <2>2. CASE /\ saved' = [saved EXCEPT ![p].source = apt.source]
             /\ To(p, "copyKeyring")
             /\ disturbed' = (disturbed \/ \E q \in Processes : host[q] \in Repairing)
    <3> DEFINE b == [saved[p] EXCEPT !.source = apt.source]
    <3>1. b \in Files /\ saved' = [saved EXCEPT ![p] = b] /\ b.source = apt.source
      BY <2>2 DEF HostInv
    <3>2. host' = [host EXCEPT ![p] = "copyKeyring"] /\ UNCHANGED <<apt, packages, goal, original>>
      BY <1>1, <2>2 DEF CopySource
    <3> HIDE DEF b
    <3>3. disturbed' \in BOOLEAN
      BY <2>2, Zenon
    <3>4. HostTypeOK' BY <3>1, <3>2, <3>3 DEF HostInv
    <3>5. ASSUME ~disturbed'
          PROVE  OneRepair' /\ RepositoryIsOldOrNew' /\ \A q \in Processes : RepairAgrees(q)'
      <4>1. ~disturbed /\ \A q \in Processes : host[q] \notin Repairing
        BY <2>2, <3>5, Zenon
      <4>2. \A q \in Processes : host'[q] \in Repairing => q = p
        BY <3>2, <4>1 DEF HostInv
      <4>3. apt \in {original, Repaired}
        BY <4>1 DEF HostInv, RepositoryIsOldOrNew
      <4>4. OneRepair' BY <4>2 DEF OneRepair
      <4>5. RepositoryIsOldOrNew' BY <3>2, <4>3 DEF RepositoryIsOldOrNew
      <4>6. ASSUME NEW q \in Processes PROVE RepairAgrees(q)'
        <5>1. CASE q = p BY <5>1, <3>1, <3>2, <4>3 DEF RepairAgrees, HostInv
        <5>2. CASE q # p BY <5>2, <4>2 DEF RepairAgrees
        <5> QED BY <5>1, <5>2
      <4> QED BY <4>4, <4>5, <4>6
    <3> QED BY <3>4, <3>5 DEF HostInv
  <2> QED BY <1>1, <2>1, <2>2 DEF CopySource
<1>2. CASE CopyKeyring(p)
  <2> DEFINE b == [saved[p] EXCEPT !.keyring = apt.keyring]
  <2>1. host[p] = "copyKeyring" /\ UNCHANGED <<apt, packages, goal, original, disturbed>>
    BY <1>2 DEF CopyKeyring
  <2>2. \/ saved' = [saved EXCEPT ![p] = b] /\ host' = [host EXCEPT ![p] = "fetch"]
        \/ saved' = saved /\ host' = [host EXCEPT ![p] = "failed"]
    BY <1>2 DEF CopyKeyring, HostInv
  <2>3. b \in Files BY DEF HostInv
  <2>4. apt.source = saved[p].source => b = apt BY DEF HostInv
  <2> HIDE DEF b
  <2>5. HostTypeOK'
    <3>1. disturbed' \in BOOLEAN BY <2>1, Zenon DEF HostInv, HostTypeOK
    <3> QED BY <2>1, <2>2, <2>3, <3>1 DEF HostInv
  <2>6. ASSUME ~disturbed'
        PROVE  OneRepair' /\ RepositoryIsOldOrNew' /\ \A q \in Processes : RepairAgrees(q)'
    <3>1. apt \in {original, Repaired} /\ b = apt /\ apt.source \in {original.source, "new"}
      BY <2>1, <2>4, <2>6 DEF HostInv, RepairAgrees
    <3>2. \A q \in Processes : host'[q] \in Repairing => q = p
      BY <2>1, <2>2, <2>6 DEF HostInv, OneRepair
    <3>3. OneRepair' BY <3>2 DEF OneRepair
    <3>4. RepositoryIsOldOrNew' BY <2>1, <3>1 DEF RepositoryIsOldOrNew
    <3>5. ASSUME NEW q \in Processes PROVE RepairAgrees(q)'
      <4>1. CASE q = p BY <4>1, <2>1, <2>2, <3>1 DEF RepairAgrees, HostInv
      <4>2. CASE q # p BY <4>2, <3>2 DEF RepairAgrees
      <4> QED BY <4>1, <4>2
    <3> QED BY <3>3, <3>4, <3>5
  <2> QED BY <2>5, <2>6 DEF HostInv
<1>3. CASE FetchKey(p)
  <2>1. host[p] = "fetch" /\ UNCHANGED <<apt, packages, goal, saved, original, disturbed>>
    BY <1>3 DEF FetchKey
  <2>2. \E s \in {"installKey", "failed"} : host' = [host EXCEPT ![p] = s]
    BY <1>3 DEF FetchKey
  <2>3. HostTypeOK'
    <3>1. disturbed' \in BOOLEAN BY <2>1, Zenon DEF HostInv, HostTypeOK
    <3> QED BY <2>1, <2>2, <3>1 DEF HostInv
  <2>4. ASSUME ~disturbed'
        PROVE  OneRepair' /\ RepositoryIsOldOrNew' /\ \A q \in Processes : RepairAgrees(q)'
    <3>1. apt \in {original, Repaired} /\ saved[p] = apt
      BY <2>1, <2>4 DEF HostInv, RepairAgrees
    <3>2. \A q \in Processes : host'[q] \in Repairing => q = p
      BY <2>1, <2>2, <2>4 DEF HostInv, OneRepair
    <3>3. OneRepair' BY <3>2 DEF OneRepair
    <3>4. RepositoryIsOldOrNew' BY <2>1, <3>1 DEF RepositoryIsOldOrNew
    <3>5. ASSUME NEW q \in Processes PROVE RepairAgrees(q)'
      <4>1. CASE q = p BY <4>1, <2>1, <2>2, <2>4, <3>1 DEF RepairAgrees, HostInv
      <4>2. CASE q # p BY <4>2, <3>2 DEF RepairAgrees
      <4> QED BY <4>1, <4>2
    <3> QED BY <3>3, <3>4, <3>5
  <2> QED BY <2>3, <2>4 DEF HostInv
<1> QED BY <1>1, <1>2, <1>3

\* The two files are replaced one after the other.
LEMMA InstallingKeeps ==
  ASSUME HostInv, NEW p \in Processes,
         InstallKey(p) \/ InstallSource(p) \/ Recheck(p)
  PROVE  HostInv'
<1> USE DEF InstallKey, InstallSource, Recheck, RepositoryIsHealthy
<1>1. HostTypeOK' BY DEF HostInv
<1>2. ASSUME ~disturbed'
      PROVE  OneRepair' /\ RepositoryIsOldOrNew' /\ \A q \in Processes : RepairAgrees(q)'
  <2>1. OneRepair' BY <1>2 DEF HostInv, OneRepair
  <2>2. RepositoryIsOldOrNew'
    BY <1>2 DEF HostInv, OneRepair, RepositoryIsOldOrNew, RepairAgrees, Repaired
  <2>3. ASSUME NEW q \in Processes PROVE RepairAgrees(q)'
    BY <1>2 DEF HostInv, OneRepair, RepositoryIsOldOrNew, RepairAgrees, Repaired
  <2> QED BY <2>1, <2>2, <2>3
<1> QED BY <1>1, <1>2 DEF HostInv

\* Both files are put back.
LEMMA RestoringKeeps ==
  ASSUME HostInv, NEW p \in Processes,
         RestoreSource(p) \/ RestoreKey(p)
  PROVE  HostInv'
<1> USE DEF RestoreSource, RestoreKey
<1>1. HostTypeOK' BY DEF HostInv
<1>2. ASSUME ~disturbed'
      PROVE  OneRepair' /\ RepositoryIsOldOrNew' /\ \A q \in Processes : RepairAgrees(q)'
  <2>1. OneRepair' BY <1>2 DEF HostInv, OneRepair
  <2>2. RepositoryIsOldOrNew'
    BY <1>2 DEF HostInv, OneRepair, RepositoryIsOldOrNew, RepairAgrees, Repaired
  <2>3. ASSUME NEW q \in Processes PROVE RepairAgrees(q)'
    BY <1>2 DEF HostInv, OneRepair, RepositoryIsOldOrNew, RepairAgrees, Repaired
  <2> QED BY <2>1, <2>2, <2>3
<1> QED BY <1>1, <1>2 DEF HostInv

\* The packages are no part of it.
LEMMA PackagesKeep ==
  ASSUME HostInv, NEW p \in Processes,
         InstallPrerequisites(p) \/ SimulateRepair(p) \/ RepairPackages(p) \/ VerifyRepair(p) \/ RetryPrerequisites(p)
  PROVE  HostInv'
<1> USE DEF InstallPrerequisites, SimulateRepair, RepairPackages, VerifyRepair, RetryPrerequisites
<1>1. HostTypeOK' BY DEF HostInv
<1>2. ASSUME ~disturbed'
      PROVE  OneRepair' /\ RepositoryIsOldOrNew' /\ \A q \in Processes : RepairAgrees(q)'
  <2>1. OneRepair' BY <1>2 DEF HostInv, OneRepair
  <2>2. RepositoryIsOldOrNew'
    BY <1>2 DEF HostInv, OneRepair, RepositoryIsOldOrNew, RepairAgrees, Repaired
  <2>3. ASSUME NEW q \in Processes PROVE RepairAgrees(q)'
    BY <1>2 DEF HostInv, OneRepair, RepositoryIsOldOrNew, RepairAgrees, Repaired
  <2> QED BY <2>1, <2>2, <2>3
<1> QED BY <1>1, <1>2 DEF HostInv

\* A repair that was killed is the exception.
LEMMA LeavingKeeps ==
  ASSUME HostInv, NEW p \in Processes, KillOnHost(p) \/ EndHost(p)
  PROVE  HostInv'
<1>0. NoFiles \in Files BY DEF NoFiles
<1>1. /\ host' = [host EXCEPT ![p] = "idle"]
      /\ saved' = [saved EXCEPT ![p] = NoFiles]
      /\ goal' = [goal EXCEPT ![p] = "repository"]
      /\ UNCHANGED <<apt, packages, original>>
  BY DEF KillOnHost, EndHost
<1>2. CASE host[p] \in Repairing
  <2>1. disturbed' = TRUE BY <1>2 DEF KillOnHost, EndHost
  <2> QED BY <1>0, <1>1, <2>1 DEF HostInv
<1>3. CASE host[p] \notin Repairing
  <2>1. disturbed' = disturbed
    BY <1>3, Zenon DEF KillOnHost, EndHost, HostInv, HostTypeOK
  <2>2. "idle" \in HostSteps \ Repairing OBVIOUS
  <2> QED BY <1>0, <1>1, <1>3, <2>1, <2>2, OutsideKeeps DEF HostInv
<1> QED BY <1>2, <1>3

LEMMA HostInvStep == HostInv /\ [HostNext]_hostVars => HostInv'
<1> SUFFICES ASSUME HostInv, [HostNext]_hostVars PROVE HostInv'
  OBVIOUS
<1>1. CASE HostNext
  BY <1>1, CheckingKeeps, CopyingKeeps, InstallingKeeps, RestoringKeeps, PackagesKeep,
     LeavingKeeps DEF HostNext, HostStep
<1>2. CASE UNCHANGED hostVars
  BY <1>2 DEF hostVars, HostInv, OneRepair, RepositoryIsOldOrNew, RepairAgrees
<1> QED BY <1>1, <1>2

LEMMA HostInvariant == HostSpec => []HostInv
BY HostInvInit, HostInvStep, PTL DEF HostSpec

\* Between undisturbed repairs the host has the two files it had or the two of
\* the repair (RemediateKnownJenkins, restore).
THEOREM RepositoryAlwaysOldOrNew == Spec => []RepositoryIsOldOrNew
<1>1. HostInv => RepositoryIsOldOrNew BY DEF HostInv, RepositoryIsOldOrNew
<1> QED BY <1>1, PartsRefinement, HostInvariant, PTL

HIDE DEF HostTypeOK, HostSteps, Files, Contents, Repairing, Repaired, To

-----------------------------------------------------------------------------
(* The releases *)

\* Steps at which the release of p is resolved.
Selected == {"confirm", "approved", "existing", "extractInfra", "extractSolution",
             "copyMetadata", "publish", "plan"}
Importing == {"lookup", "unpack", "publishEntry"}
Staging == {"extractInfra", "extractSolution", "copyMetadata", "publish"}

\* What a run holds at each of its steps.
ReleaseAgrees(p) ==
  /\ rel[p] = "resolve" => verb[p] \in {"prepare", "install", "installCurrent", "register"}
  /\ rel[p] \in Importing => from[p] \in Bundles
  /\ rel[p] = "publishEntry" =>
       stage[p] \in Bundles /\ ValidRelease(stage[p]) /\ ValidLayout(stage[p])
  /\ rel[p] \in Selected \cup {"writeReceipt"} =>
       /\ meta[p] \in Builds
       /\ from[p] = Inbox \/ (from[p] \in Bundles /\ cache[from[p]] # None)
  /\ rel[p] \in Staging => stage[p] \in Tree
  /\ rel[p] = "plan" => prepared[Target(p)] # None

ReleaseInv ==
  /\ ReleaseTypeOK
  /\ \A p \in Processes : ReleaseAgrees(p)
  /\ EntriesVerified /\ OperationKeepsRelease

\* What was published stays as it is.
PublishedStays ==
  /\ \A d \in Bundles : cache[d] # None => cache'[d] = cache[d]
  /\ \A v \in Releases : prepared[v] # None => prepared'[v] = prepared[v]

LEMMA ReleaseInvInit == ReleaseInit => ReleaseInv
<1> SUFFICES ASSUME ReleaseInit PROVE ReleaseInv
  OBVIOUS
<1>1. inbox \in Directory
  <2>1. PICK b \in FirstBuilds : inbox = AllFrom(b) BY DEF ReleaseInit
  <2>2. b \in Builds BY ReleaseAssumption
  <2> QED BY <2>1, <2>2 DEF AllFrom, Directory
<1>2. ReleaseTypeOK
  BY <1>1, ReleaseAssumption DEF ReleaseInit, ReleaseTypeOK, ReleaseSteps, Verbs
<1>3. ASSUME NEW p \in Processes PROVE ReleaseAgrees(p)
  BY DEF ReleaseInit, ReleaseAgrees, Importing, Selected, Staging
<1>4. EntriesVerified BY DEF ReleaseInit, EntriesVerified
<1>5. OperationKeepsRelease BY DEF ReleaseInit, OperationKeepsRelease
<1> QED BY <1>2, <1>3, <1>4, <1>5 DEF ReleaseInv

\* A step of one run leaves what the others hold.
LEMMA OneRunSteps ==
  ASSUME ReleaseInv, ReleaseTypeOK', NEW p \in Processes, ReleaseAgrees(p)',
         PublishedStays, EntriesVerified', OperationKeepsRelease',
         \A q \in Processes \ {p} : /\ rel'[q] = rel[q] /\ from'[q] = from[q]
                                    /\ meta'[q] = meta[q] /\ stage'[q] = stage[q]
                                    /\ verb'[q] = verb[q]
  PROVE  ReleaseInv'
<1>1. ASSUME NEW q \in Processes \ {p} PROVE ReleaseAgrees(q)'
  <2>1. /\ rel'[q] = rel[q] /\ from'[q] = from[q]
        /\ meta'[q] = meta[q] /\ stage'[q] = stage[q]
        /\ verb'[q] = verb[q]
    BY <1>1
  <2>2. ReleaseAgrees(q) BY DEF ReleaseInv
  <2>3. rel[q] = "plan" => Target(q) \in Releases
    BY <2>2, ReleaseAssumption DEF ReleaseAgrees, Selected, Target
  <2>4. Target(q)' = Target(q) BY <2>1 DEF Target
  <2>5. (ValidRelease(stage[q]) /\ ValidLayout(stage[q]))'
        = (ValidRelease(stage[q]) /\ ValidLayout(stage[q]))
    BY <2>1 DEF ValidRelease, ValidLayout
  <2> QED
    BY <2>1, <2>2, <2>3, <2>4, <2>5 DEF ReleaseAgrees, PublishedStays
<1> QED BY <1>1 DEF ReleaseInv

\* A step that publishes nothing keeps what was published.
LEMMA QuietStep ==
  ASSUME ReleaseInv, UNCHANGED <<cache, prepared, operations>>
  PROVE  PublishedStays /\ EntriesVerified' /\ OperationKeepsRelease'
BY DEF ReleaseInv, PublishedStays, EntriesVerified, OperationKeepsRelease, ValidRelease,
   ValidLayout

\* What a run reads of its source is a build.
LEMMA SourceIsWhole ==
  ASSUME ReleaseInv, NEW p \in Processes, rel[p] \in Selected
  PROVE  Source(p) \in Directory
BY ReleaseAssumption DEF ReleaseInv, ReleaseTypeOK, ReleaseAgrees, Source, Directory

\* A run that begins or ends holds nothing.
LEMMA BeginningKeepsRelease ==
  ASSUME ReleaseInv, NEW p \in Processes,
         \/ \E command \in Verbs : BeginRelease(p, command)
         \/ KillReleaseRun(p) \/ EndRelease(p)
  PROVE  ReleaseInv'
<1> USE DEF BeginRelease, KillReleaseRun, EndRelease, Leave, ResolvedAs, stores, Proceed, Drop, Verbs
<1>1. PublishedStays /\ EntriesVerified' /\ OperationKeepsRelease'
  BY QuietStep
<1>2. ReleaseTypeOK'
  BY ReleaseAssumption DEF ReleaseInv, ReleaseTypeOK, ReleaseAgrees, ReleaseSteps, Selected, Importing, Staging
<1>3. ReleaseAgrees(p)'
  BY ReleaseAssumption DEF ReleaseInv, ReleaseTypeOK, ReleaseAgrees, ReleaseSteps, Selected, Importing, Staging, Target
<1>4. \A q \in Processes \ {p} : /\ rel'[q] = rel[q] /\ from'[q] = from[q]
                                 /\ meta'[q] = meta[q] /\ stage'[q] = stage[q]
                                 /\ verb'[q] = verb[q]
  BY DEF ReleaseInv, ReleaseTypeOK
<1> QED BY <1>1, <1>2, <1>3, <1>4, OneRunSteps

\* The bundle is digested, looked up and unpacked.
LEMMA ImportKeepsRelease ==
  ASSUME ReleaseInv, NEW p \in Processes,
         DigestBundle(p) \/ LookUpEntry(p) \/ UnpackBundle(p)
  PROVE  ReleaseInv'
<1> USE DEF DigestBundle, LookUpEntry, UnpackBundle, stores, Proceed, Drop, Imported, ValidRelease, ValidLayout
<1>1. PublishedStays /\ EntriesVerified' /\ OperationKeepsRelease'
  BY QuietStep
<1>2. ReleaseTypeOK'
  BY ReleaseAssumption DEF ReleaseInv, ReleaseTypeOK, ReleaseAgrees, ReleaseSteps, Selected, Importing, Staging
<1>3. ReleaseAgrees(p)'
  BY ReleaseAssumption DEF ReleaseInv, ReleaseTypeOK, ReleaseAgrees, ReleaseSteps, Selected, Importing, Staging, Target
<1>4. \A q \in Processes \ {p} : /\ rel'[q] = rel[q] /\ from'[q] = from[q]
                                 /\ meta'[q] = meta[q] /\ stage'[q] = stage[q]
                                 /\ verb'[q] = verb[q]
  BY DEF ReleaseInv, ReleaseTypeOK
<1> QED BY <1>1, <1>2, <1>3, <1>4, OneRunSteps

\* A release is resolved when it is valid.
LEMMA ResolvingKeepsRelease ==
  ASSUME ReleaseInv, NEW p \in Processes,
         ResolveRelease(p) \/ IdentifyRelease(p)
  PROVE  ReleaseInv'
<1> USE DEF ReleaseInv, ReleaseTypeOK
<1>1. PublishedStays /\ EntriesVerified' /\ OperationKeepsRelease'
  BY QuietStep DEF ResolveRelease, IdentifyRelease, stores
<1>2. \/ /\ rel' = [rel EXCEPT ![p] = "failed"]
         /\ UNCHANGED <<from, meta>>
      \/ /\ \E s \in {"existing", "confirm", "identify", "writeReceipt"} :
              rel' = [rel EXCEPT ![p] = s]
         /\ inbox.yaml \in Builds
         /\ from' = [from EXCEPT ![p] = Inbox]
         /\ meta' = [meta EXCEPT ![p] = inbox.yaml]
  <2>1. CASE ResolveRelease(p) /\ Acceptable(p)
    <3>1. AfterResolve(p) \in {"existing", "confirm", "identify"}
      BY <2>1 DEF AfterResolve, ResolveRelease, ReleaseAgrees
    <3>2. ValidRelease(inbox)
      BY <2>1 DEF Acceptable, IsCurrent
    <3> QED BY <2>1, <3>1, <3>2, ReleaseAssumption
            DEF ResolveRelease, ResolvedAs, Proceed, ValidRelease
  <2>2. CASE ResolveRelease(p) /\ ~Acceptable(p)
    BY <2>2 DEF ResolveRelease, Proceed
  <2>3. CASE IdentifyRelease(p)
    BY <2>3, ReleaseAssumption DEF IdentifyRelease, ResolvedAs, Proceed, ValidRelease
  <2> QED BY <2>1, <2>2, <2>3
<1>3. UNCHANGED <<stores, verb, stage>> BY DEF ResolveRelease, IdentifyRelease
<1>4. ReleaseTypeOK' BY <1>2, <1>3 DEF stores, ReleaseSteps
<1>5. ReleaseAgrees(p)'
  BY <1>2, <1>3, ReleaseAssumption DEF ReleaseAgrees, stores, Selected, Importing, Staging
<1>6. \A q \in Processes \ {p} : /\ rel'[q] = rel[q] /\ from'[q] = from[q]
                                 /\ meta'[q] = meta[q] /\ stage'[q] = stage[q]
                                 /\ verb'[q] = verb[q]
  BY <1>2, <1>3
<1> QED BY <1>1, <1>4, <1>5, <1>6, OneRunSteps

\* The operator answers.
LEMMA ConfirmingKeepsRelease ==
  ASSUME ReleaseInv, NEW p \in Processes,
         ConfirmInstall(p) \/ ContinueInstall(p) \/ AbandonInstall(p) \/ VerifyReceipt(p)
  PROVE  ReleaseInv'
<1> USE DEF ConfirmInstall, ContinueInstall, AbandonInstall, VerifyReceipt, stores, Proceed, Drop
<1>1. PublishedStays /\ EntriesVerified' /\ OperationKeepsRelease'
  BY QuietStep
<1>2. ReleaseTypeOK'
  BY ReleaseAssumption DEF ReleaseInv, ReleaseTypeOK, ReleaseAgrees, ReleaseSteps, Selected, Importing, Staging
<1>3. ReleaseAgrees(p)'
  BY ReleaseAssumption DEF ReleaseInv, ReleaseTypeOK, ReleaseAgrees, ReleaseSteps, Selected, Importing, Staging, Target
<1>4. \A q \in Processes \ {p} : /\ rel'[q] = rel[q] /\ from'[q] = from[q]
                                 /\ meta'[q] = meta[q] /\ stage'[q] = stage[q]
                                 /\ verb'[q] = verb[q]
  BY DEF ReleaseInv, ReleaseTypeOK
<1> QED BY <1>1, <1>2, <1>3, <1>4, OneRunSteps

\* A prepared directory is used, or a staging directory is made.
LEMMA FindingKeepsRelease ==
  ASSUME ReleaseInv, NEW p \in Processes,
         FindExisting(p)
  PROVE  ReleaseInv'
<1> USE DEF FindExisting, stores, Proceed, Drop, Prepared, EmptyTree, Tree
<1>1. PublishedStays /\ EntriesVerified' /\ OperationKeepsRelease'
  BY QuietStep
<1>2. ReleaseTypeOK'
  BY ReleaseAssumption DEF ReleaseInv, ReleaseTypeOK, ReleaseAgrees, ReleaseSteps, Selected, Importing, Staging
<1>3. ReleaseAgrees(p)'
  BY ReleaseAssumption DEF ReleaseInv, ReleaseTypeOK, ReleaseAgrees, ReleaseSteps, Selected, Importing, Staging, Target
<1>4. \A q \in Processes \ {p} : /\ rel'[q] = rel[q] /\ from'[q] = from[q]
                                 /\ meta'[q] = meta[q] /\ stage'[q] = stage[q]
                                 /\ verb'[q] = verb[q]
  BY DEF ReleaseInv, ReleaseTypeOK
<1> QED BY <1>1, <1>2, <1>3, <1>4, OneRunSteps

\* The archives are extracted.
LEMMA ExtractingKeepsRelease ==
  ASSUME ReleaseInv, NEW p \in Processes,
         ExtractInfra(p) \/ ExtractSolution(p)
  PROVE  ReleaseInv'
<1> USE DEF ExtractInfra, ExtractSolution, stores, Proceed, Drop
<1>0. ASSUME rel[p] \in {"extractInfra", "extractSolution"}
      PROVE  /\ Source(p).infra \in Builds /\ Source(p).solution \in Builds
             /\ [stage[p] EXCEPT !.infra = Source(p).infra] \in Tree
             /\ [stage[p] EXCEPT !.solution = Source(p).solution] \in Tree
  BY <1>0, SourceIsWhole DEF ReleaseInv, ReleaseAgrees, Directory, Tree, Selected, Staging
<1>1. PublishedStays /\ EntriesVerified' /\ OperationKeepsRelease'
  BY QuietStep
<1>2. ReleaseTypeOK'
  BY ReleaseAssumption, <1>0 DEF ReleaseInv, ReleaseTypeOK, ReleaseAgrees, ReleaseSteps, Selected, Importing, Staging
<1>3. ReleaseAgrees(p)'
  BY ReleaseAssumption, <1>0 DEF ReleaseInv, ReleaseTypeOK, ReleaseAgrees, ReleaseSteps, Selected, Importing, Staging, Target
<1>4. \A q \in Processes \ {p} : /\ rel'[q] = rel[q] /\ from'[q] = from[q]
                                 /\ meta'[q] = meta[q] /\ stage'[q] = stage[q]
                                 /\ verb'[q] = verb[q]
  BY DEF ReleaseInv, ReleaseTypeOK
<1> QED BY <1>1, <1>2, <1>3, <1>4, OneRunSteps

\* The metadata is copied and the tree is validated.
LEMMA CopyingMetadataKeepsRelease ==
  ASSUME ReleaseInv, NEW p \in Processes,
         CopyMetadata(p)
  PROVE  ReleaseInv'
<1> USE DEF CopyMetadata, stores, Proceed, Drop
<1>0. ASSUME rel[p] = "copyMetadata"
      PROVE  [stage[p] EXCEPT !.yaml = Source(p).yaml] \in Tree
  BY <1>0, SourceIsWhole DEF ReleaseInv, ReleaseAgrees, Directory, Tree, Selected, Staging
<1>1. PublishedStays /\ EntriesVerified' /\ OperationKeepsRelease'
  BY QuietStep
<1>2. ReleaseTypeOK'
  BY ReleaseAssumption, <1>0 DEF ReleaseInv, ReleaseTypeOK, ReleaseAgrees, ReleaseSteps, Selected, Importing, Staging
<1>3. ReleaseAgrees(p)'
  BY ReleaseAssumption, <1>0 DEF ReleaseInv, ReleaseTypeOK, ReleaseAgrees, ReleaseSteps, Selected, Importing, Staging, Target
<1>4. \A q \in Processes \ {p} : /\ rel'[q] = rel[q] /\ from'[q] = from[q]
                                 /\ meta'[q] = meta[q] /\ stage'[q] = stage[q]
                                 /\ verb'[q] = verb[q]
  BY DEF ReleaseInv, ReleaseTypeOK
<1> QED BY <1>1, <1>2, <1>3, <1>4, OneRunSteps

\* An entry appears in the cache under a name that was free.
LEMMA EntryKeepsRelease ==
  ASSUME ReleaseInv, NEW p \in Processes, PublishEntry(p)
  PROVE  ReleaseInv'
<1> USE DEF PublishEntry, Proceed, Drop, Imported
<1>1. from[p] \in Bundles /\ stage[p] \in Bundles /\ ValidRelease(stage[p]) /\ ValidLayout(stage[p])
  BY DEF ReleaseInv, ReleaseAgrees, Importing
<1>2. stage[p] # None /\ stage[p].yaml \in Builds
  BY <1>1, ReleaseAssumption DEF ValidRelease
<1>3. \/ /\ cache[from[p]] = None
         /\ cache' = [cache EXCEPT ![from[p]] = stage[p]]
         /\ meta' = [meta EXCEPT ![p] = stage[p].yaml]
         /\ \E s \in {"ok", "confirm"} : rel' = [rel EXCEPT ![p] = s]
      \/ /\ rel' = [rel EXCEPT ![p] = "failed"]
         /\ UNCHANGED <<cache, meta>>
  OBVIOUS
<1>4. ReleaseTypeOK'
  BY <1>1, <1>2, <1>3 DEF ReleaseInv, ReleaseTypeOK, ReleaseSteps
<1>5. PublishedStays
  BY <1>3 DEF PublishedStays, ReleaseInv, ReleaseTypeOK
<1>6. EntriesVerified'
  BY <1>1, <1>3 DEF ReleaseInv, ReleaseTypeOK, EntriesVerified, ValidRelease, ValidLayout
<1>7. OperationKeepsRelease'
  BY DEF ReleaseInv, OperationKeepsRelease
<1>8. ReleaseAgrees(p)'
  BY <1>1, <1>2, <1>3 DEF ReleaseInv, ReleaseTypeOK, ReleaseAgrees, Importing, Selected, Staging
<1>9. \A q \in Processes \ {p} : /\ rel'[q] = rel[q] /\ from'[q] = from[q]
                                 /\ meta'[q] = meta[q] /\ stage'[q] = stage[q]
                                 /\ verb'[q] = verb[q]
  BY <1>3 DEF ReleaseInv, ReleaseTypeOK
<1> QED BY <1>4, <1>5, <1>6, <1>7, <1>8, <1>9, OneRunSteps

\* A prepared directory appears under a version that had none.
LEMMA PublishingKeepsRelease ==
  ASSUME ReleaseInv, NEW p \in Processes, PublishRelease(p)
  PROVE  ReleaseInv'
<1> USE DEF PublishRelease, Proceed, Drop, Prepared
<1>1. /\ meta[p] \in Builds /\ stage[p] \in Tree /\ stage[p] # None
      /\ from[p] = Inbox \/ (from[p] \in Bundles /\ cache[from[p]] # None)
  BY ReleaseAssumption DEF ReleaseInv, ReleaseAgrees, Selected, Staging
<1>2. Target(p) \in Releases /\ Target(p)' = Target(p)
  BY <1>1, ReleaseAssumption DEF Target
<1>3. \/ /\ prepared[Target(p)] = None
         /\ prepared' = [prepared EXCEPT ![Target(p)] = stage[p]]
         /\ \E s \in {"ok", "plan"} : rel' = [rel EXCEPT ![p] = s]
      \/ /\ rel' = [rel EXCEPT ![p] = "failed"]
         /\ UNCHANGED prepared
  OBVIOUS
<1>4. ReleaseTypeOK'
  BY <1>1, <1>2, <1>3 DEF ReleaseInv, ReleaseTypeOK, ReleaseSteps
<1>5. PublishedStays
  BY <1>2, <1>3 DEF PublishedStays, ReleaseInv, ReleaseTypeOK
<1>6. EntriesVerified'
  BY DEF ReleaseInv, EntriesVerified, ValidRelease, ValidLayout
<1>7. OperationKeepsRelease'
  BY <1>5 DEF ReleaseInv, ReleaseTypeOK, OperationKeepsRelease, PublishedStays
<1>8. ReleaseAgrees(p)'
  BY <1>1, <1>2, <1>3 DEF ReleaseInv, ReleaseTypeOK, ReleaseAgrees, Importing, Selected, Staging
<1>9. \A q \in Processes \ {p} : /\ rel'[q] = rel[q] /\ from'[q] = from[q]
                                 /\ meta'[q] = meta[q] /\ stage'[q] = stage[q]
                                 /\ verb'[q] = verb[q]
  BY <1>3 DEF ReleaseInv, ReleaseTypeOK
<1> QED BY <1>4, <1>5, <1>6, <1>7, <1>8, <1>9, OneRunSteps

\* An operation is planned from a prepared directory.
LEMMA PlanningKeepsRelease ==
  ASSUME ReleaseInv, NEW p \in Processes, PlanOperation(p)
  PROVE  ReleaseInv'
<1> USE DEF PlanOperation, Proceed
<1> DEFINE tree == prepared[Target(p)]
           o == [root |-> Target(p), build |-> tree.yaml]
<1>1. Target(p) \in Releases /\ tree # None
  BY ReleaseAssumption DEF ReleaseInv, ReleaseAgrees, Selected, Target
<1>2. \/ /\ tree.yaml \in Builds /\ tree.infra # None /\ tree.solution # None
         /\ operations' = operations \cup {o}
         /\ rel' = [rel EXCEPT ![p] = "ok"]
      \/ /\ UNCHANGED operations
         /\ rel' = [rel EXCEPT ![p] = "failed"]
  BY ReleaseAssumption DEF ValidPrepared
<1>3. o.root = Target(p) /\ o.build = tree.yaml
  OBVIOUS
<1>4. tree.yaml \in Builds => o \in [root : Releases, build : Builds]
  BY <1>1
<1> HIDE DEF o
<1>5. ReleaseTypeOK'
  BY <1>2, <1>4 DEF ReleaseInv, ReleaseTypeOK, ReleaseSteps
<1>6. PublishedStays
  BY DEF PublishedStays
<1>7. EntriesVerified'
  BY DEF ReleaseInv, EntriesVerified, ValidRelease, ValidLayout
<1>8. OperationKeepsRelease'
  BY <1>1, <1>2, <1>3 DEF ReleaseInv, OperationKeepsRelease
<1>9. ReleaseAgrees(p)'
  BY <1>2 DEF ReleaseInv, ReleaseTypeOK, ReleaseAgrees, Importing, Selected, Staging
<1>10. \A q \in Processes \ {p} : /\ rel'[q] = rel[q] /\ from'[q] = from[q]
                                  /\ meta'[q] = meta[q] /\ stage'[q] = stage[q]
                                  /\ verb'[q] = verb[q]
  BY <1>2 DEF ReleaseInv, ReleaseTypeOK
<1> QED BY <1>5, <1>6, <1>7, <1>8, <1>9, <1>10, OneRunSteps

\* The receipt names a build.
LEMMA ReceiptKeepsRelease ==
  ASSUME ReleaseInv, NEW p \in Processes, WriteReceipt(p)
  PROVE  ReleaseInv'
<1> USE DEF WriteReceipt, Proceed
<1>1. receipt' \in Receipts
  BY ReleaseAssumption DEF ReleaseInv, ReleaseTypeOK, ReleaseAgrees, Receipts, Identity, Directory
<1>2. PublishedStays /\ EntriesVerified' /\ OperationKeepsRelease'
  BY QuietStep
<1>3. ReleaseTypeOK'
  BY <1>1 DEF ReleaseInv, ReleaseTypeOK, ReleaseSteps
<1>4. ReleaseAgrees(p)'
  BY DEF ReleaseInv, ReleaseTypeOK, ReleaseAgrees, Importing, Selected, Staging
<1>5. \A q \in Processes \ {p} : /\ rel'[q] = rel[q] /\ from'[q] = from[q]
                                 /\ meta'[q] = meta[q] /\ stage'[q] = stage[q]
                                 /\ verb'[q] = verb[q]
  BY DEF ReleaseInv, ReleaseTypeOK
<1> QED BY <1>2, <1>3, <1>4, <1>5, OneRunSteps

\* What the operator replaces was never published.
LEMMA ReplacingKeepsRelease == ReleaseInv /\ Replace => ReleaseInv'
<1> SUFFICES ASSUME ReleaseInv, Replace PROVE ReleaseInv'
  OBVIOUS
<1>1. UNCHANGED <<cache, prepared, receipt, operations, rel, verb, from, meta, stage>>
  BY DEF Replace, ReplaceFile, ReplaceBundle
<1>2. inbox' \in Directory /\ bundle' \in Bundles
  BY DEF ReleaseInv, ReleaseTypeOK, Directory, Replace, ReplaceFile, ReplaceBundle
<1>3. replaced' \in 0..MaxReplacements
  BY ReleaseAssumption DEF ReleaseInv, ReleaseTypeOK, Replace, ReplaceFile, ReplaceBundle
<1>4. ReleaseTypeOK'
  BY <1>1, <1>2, <1>3 DEF ReleaseInv, ReleaseTypeOK
<1>5. EntriesVerified' /\ OperationKeepsRelease'
  BY <1>1, QuietStep
<1>6. ASSUME NEW p \in Processes PROVE ReleaseAgrees(p)'
  BY <1>1 DEF ReleaseInv, ReleaseAgrees, ValidRelease, ValidLayout, Target
<1> QED BY <1>4, <1>5, <1>6 DEF ReleaseInv

LEMMA ReleaseInvStep == ReleaseInv /\ [ReleaseNext]_releaseVars => ReleaseInv'
<1> SUFFICES ASSUME ReleaseInv, [ReleaseNext]_releaseVars PROVE ReleaseInv'
  OBVIOUS
<1>1. CASE ReleaseNext
  BY <1>1, BeginningKeepsRelease, ImportKeepsRelease, ResolvingKeepsRelease,
     ConfirmingKeepsRelease, FindingKeepsRelease, ExtractingKeepsRelease,
     CopyingMetadataKeepsRelease, EntryKeepsRelease, PublishingKeepsRelease,
     PlanningKeepsRelease, ReceiptKeepsRelease, ReplacingKeepsRelease
     DEF ReleaseNext, ReleaseStep
<1>2. CASE UNCHANGED releaseVars
  BY <1>2 DEF releaseVars, ReleaseInv, ReleaseTypeOK, ReleaseAgrees, EntriesVerified,
     OperationKeepsRelease, ValidRelease, ValidLayout, Target
<1> QED BY <1>1, <1>2

LEMMA ReleaseInvariant == ReleaseSpec => []ReleaseInv
BY ReleaseInvInit, ReleaseInvStep, PTL DEF ReleaseSpec

\* Every entry of the artifact cache has passed both validations of a bundle,
\* whatever was replaced, overlapped or killed (ImportAirgapBundle).
THEOREM EntriesAlwaysVerified == Spec => []EntriesVerified
<1>1. ReleaseInv => EntriesVerified BY DEF ReleaseInv
<1> QED BY <1>1, PartsRefinement, ReleaseInvariant, PTL

\* What an operation was planned from stays under its root with the planned
\* metadata (Prepare, runInstall).
THEOREM OperationAlwaysKeepsRelease == Spec => []OperationKeepsRelease
<1>1. ReleaseInv => OperationKeepsRelease BY DEF ReleaseInv
<1> QED BY <1>1, PartsRefinement, ReleaseInvariant, PTL

-----------------------------------------------------------------------------
(* The commands *)

CommandsTyped == phase \in [Processes -> Phases] /\ commands \in 0..MaxCommands

\* The state of the host, of its runtime, of its releases and of the commands
\* has its type in every interleaving (cmd/eva).
THEOREM InstallationTypeOK == Spec => []TypeOK
<1>1. Init => CommandsTyped
  BY InstallationAssumption DEF Init, CommandsTyped, Phases
<1>2. CommandsTyped /\ [Next]_vars => CommandsTyped'
  <2> SUFFICES ASSUME CommandsTyped, [Next]_vars PROVE CommandsTyped'
    OBVIOUS
  <2> USE DEF CommandsTyped, Phases
  <2>1. ASSUME NEW p \in Processes,
               StartRepository(p) \/ StartBootstrapOnline(p) \/ StartRuntime(p) \/ StartRelease(p)
        PROVE  CommandsTyped'
    <3>1. /\ commands < MaxCommands /\ commands' = commands + 1
          /\ \E s \in Phases : phase' = [phase EXCEPT ![p] = s]
      BY <2>1 DEF StartRepository, StartBootstrapOnline, StartRuntime, StartRelease, Start, Phase
    <3> QED BY <3>1, InstallationAssumption
  <2>2. ASSUME NEW p \in Processes,
               \/ BuildOnlineRuntime(p) \/ EnsureRuntime(p) \/ UseRuntime(p)
               \/ Finish(p) \/ Work(p) \/ Kill(p)
        PROVE  CommandsTyped'
    <3>1. /\ commands' = commands
          /\ phase' = phase \/ \E s \in Phases : phase' = [phase EXCEPT ![p] = s]
      BY <2>2 DEF BuildOnlineRuntime, EnsureRuntime, UseRuntime, Finish, Work, Kill, Phase
    <3> QED BY <3>1
  <2>3. CASE Replace /\ UNCHANGED <<hostVars, runtimeVars, phase, commands>> BY <2>3
  <2>4. CASE UNCHANGED vars BY <2>4 DEF vars
  <2> QED BY <2>1, <2>2, <2>3, <2>4 DEF Next
<1>3. HostInv /\ RuntimeInv /\ ReleaseInv /\ CommandsTyped => TypeOK
  BY DEF HostInv, RuntimeInv, ReleaseInv, CommandsTyped, TypeOK
<1> QED
  BY <1>1, <1>2, <1>3, PartsRefinement, HostInvariant, RuntimeInvariant, ReleaseInvariant,
     PTL DEF Spec
=============================================================================
