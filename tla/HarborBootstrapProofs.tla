------------------------ MODULE HarborBootstrapProofs -------------------------
(***************************************************************************)
(* What is proved of eva remote bootstrap, for any number of runs,         *)
(* registries and command lines.                                           *)
(*                                                                         *)
(* First of its transport alone: what every step on daemon.json and on     *)
(* Docker keeps.  DaemonFileIsLive is about a file at rest.  Its           *)
(* strengthening says what each step of a change relies on: undisturbed    *)
(* changes do not overlap, the file is then the one that was read, with or *)
(* without the registry that is added, and Docker has loaded one of the    *)
(* two, which one being fixed by the step.                                 *)
(*                                                                         *)
(* Then of the runs on top of it: HarborInv says whose Harbor is at the    *)
(* endpoint of a run, and ReadyInv what a run that is the only one has     *)
(* tested and may still rely on when it writes the receipt.                *)
(***************************************************************************)
EXTENDS HarborBootstrap, TLAPS

\* A process that changes the file will write, or write back, what it read.
SnapshotsKeep ==
  /\ first \subseteq daemon.listed
  /\ \A p \in Processes : move[p] \in Changing => first \subseteq snapshot[p].listed

Alone == \A p, q \in Processes : move[p] \in Changing /\ move[q] \in Changing => p = q

\* Docker runs before a registry is added, and only the change itself stops it.
DockerRuns ==
  \/ docker = "up"
  \/ \E p \in Processes : move[p] \in {"restore", "restartBack"}
  \/ \A p \in Processes : move[p] \in {"idle", "ok", "failed"}

\* What was read is on disk, with the new registry or without, and is loaded.
StepAgrees(p) ==
  /\ move[p] = "write" => snapshot[p] = daemon /\ live = daemon.listed
  /\ move[p] \in {"validate", "restart", "restoreOnly"} => live = snapshot[p].listed
  /\ move[p] = "wait" => live = daemon.listed

AtRestAgrees ==
  (docker = "up" /\ \A p \in Processes : move[p] \notin Changing) => live = daemon.listed

TransportInv ==
  /\ TransportTypeOK
  /\ SnapshotsKeep
  /\ ~muddled => /\ Alone /\ DockerRuns /\ AtRestAgrees
                 /\ \A p \in Processes : StepAgrees(p)

-----------------------------------------------------------------------------
LEMMA TransportInvInit == TransportInit => TransportInv
<1> SUFFICES ASSUME TransportInit PROVE TransportInv
  OBVIOUS
<1>1. (CHOOSE r \in Registries : TRUE) \in Registries BY TransportAssumption
<1>2. NoDaemon \in DaemonFiles BY DEF NoDaemon, DaemonFiles
<1>3. TransportTypeOK
  BY <1>1, <1>2, TransportAssumption
     DEF TransportInit, TransportTypeOK, TransportSteps, DaemonFiles
<1>4. SnapshotsKeep BY DEF TransportInit, SnapshotsKeep, Changing
<1>5. Alone /\ DockerRuns /\ AtRestAgrees /\ \A p \in Processes : StepAgrees(p)
  BY DEF TransportInit, Alone, DockerRuns, AtRestAgrees, StepAgrees, Changing
<1> QED BY <1>3, <1>4, <1>5 DEF TransportInv

USE DEF TransportTypeOK, TransportSteps, DaemonFiles, DockerStates, Changing, Move

\* A read that overlaps a change muddles it.
LEMMA ReadKeeps ==
  ASSUME TransportInv, NEW p \in Processes, ReadDaemon(p)
  PROVE  TransportInv'
<1> USE DEF ReadDaemon
<1>1. TransportTypeOK' BY DEF TransportInv
<1>2. SnapshotsKeep' BY DEF TransportInv, SnapshotsKeep
<1>3. ASSUME ~muddled'
      PROVE  Alone' /\ DockerRuns' /\ AtRestAgrees' /\ \A q \in Processes : StepAgrees(q)'
  <2>1. Alone' BY <1>3 DEF TransportInv, Alone
  <2>2. DockerRuns' BY <1>3 DEF TransportInv, Alone, DockerRuns
  <2>3. AtRestAgrees'
    BY <1>3 DEF TransportInv, Alone, DockerRuns, AtRestAgrees, StepAgrees
  <2>4. ASSUME NEW q \in Processes PROVE StepAgrees(q)'
    BY <1>3 DEF TransportInv, Alone, DockerRuns, AtRestAgrees, StepAgrees
  <2> QED BY <2>1, <2>2, <2>3, <2>4
<1> QED BY <1>1, <1>2, <1>3 DEF TransportInv

\* What is written is what was read and the new registry.
LEMMA WriteKeeps ==
  ASSUME TransportInv, NEW p \in Processes, WriteDaemon(p)
  PROVE  TransportInv'
<1> USE DEF WriteDaemon
<1>1. TransportTypeOK' BY DEF TransportInv
<1>2. SnapshotsKeep' BY DEF TransportInv, SnapshotsKeep
<1>3. ASSUME ~muddled'
      PROVE  Alone' /\ DockerRuns' /\ AtRestAgrees' /\ \A q \in Processes : StepAgrees(q)'
  <2>1. Alone' BY <1>3 DEF TransportInv, Alone
  <2>2. DockerRuns' BY <1>3 DEF TransportInv, Alone, DockerRuns
  <2>3. AtRestAgrees'
    BY <1>3 DEF TransportInv, Alone, DockerRuns, AtRestAgrees, StepAgrees
  <2>4. ASSUME NEW q \in Processes PROVE StepAgrees(q)'
    BY <1>3 DEF TransportInv, Alone, DockerRuns, AtRestAgrees, StepAgrees
  <2> QED BY <2>1, <2>2, <2>3, <2>4
<1> QED BY <1>1, <1>2, <1>3 DEF TransportInv

\* dockerd only looks at the file.
LEMMA ValidateKeeps ==
  ASSUME TransportInv, NEW p \in Processes, ValidateDaemon(p)
  PROVE  TransportInv'
<1> USE DEF ValidateDaemon
<1>1. TransportTypeOK' BY DEF TransportInv
<1>2. SnapshotsKeep' BY DEF TransportInv, SnapshotsKeep
<1>3. ASSUME ~muddled'
      PROVE  Alone' /\ DockerRuns' /\ AtRestAgrees' /\ \A q \in Processes : StepAgrees(q)'
  <2>1. Alone' BY <1>3 DEF TransportInv, Alone
  <2>2. DockerRuns' BY <1>3 DEF TransportInv, Alone, DockerRuns
  <2>3. AtRestAgrees'
    BY <1>3 DEF TransportInv, Alone, DockerRuns, AtRestAgrees, StepAgrees
  <2>4. ASSUME NEW q \in Processes PROVE StepAgrees(q)'
    BY <1>3 DEF TransportInv, Alone, DockerRuns, AtRestAgrees, StepAgrees
  <2> QED BY <2>1, <2>2, <2>3, <2>4
<1> QED BY <1>1, <1>2, <1>3 DEF TransportInv

\* A Docker that restarts has loaded the new file.
LEMMA RestartKeeps ==
  ASSUME TransportInv, NEW p \in Processes, RestartDocker(p)
  PROVE  TransportInv'
<1> USE DEF RestartDocker
<1>1. TransportTypeOK' BY DEF TransportInv, Restarted
<1>2. SnapshotsKeep' BY DEF TransportInv, SnapshotsKeep, Restarted
<1>3. ASSUME ~muddled'
      PROVE  Alone' /\ DockerRuns' /\ AtRestAgrees' /\ \A q \in Processes : StepAgrees(q)'
  <2>1. Alone' BY <1>3 DEF TransportInv, Alone, Restarted
  <2>2. DockerRuns' BY <1>3 DEF TransportInv, Alone, DockerRuns, Restarted
  <2>3. AtRestAgrees'
    BY <1>3 DEF TransportInv, Alone, DockerRuns, AtRestAgrees, StepAgrees, Restarted
  <2>4. ASSUME NEW q \in Processes PROVE StepAgrees(q)'
    BY <1>3 DEF TransportInv, Alone, DockerRuns, AtRestAgrees, StepAgrees, Restarted
  <2> QED BY <2>1, <2>2, <2>3, <2>4
<1> QED BY <1>1, <1>2, <1>3 DEF TransportInv

\* Waiting changes nothing but the next step.
LEMMA WaitKeeps ==
  ASSUME TransportInv, NEW p \in Processes, WaitForDocker(p)
  PROVE  TransportInv'
<1> USE DEF WaitForDocker
<1>1. TransportTypeOK' BY DEF TransportInv
<1>2. SnapshotsKeep' BY DEF TransportInv, SnapshotsKeep
<1>3. ASSUME ~muddled'
      PROVE  Alone' /\ DockerRuns' /\ AtRestAgrees' /\ \A q \in Processes : StepAgrees(q)'
  <2>1. Alone' BY <1>3 DEF TransportInv, Alone
  <2>2. DockerRuns' BY <1>3 DEF TransportInv, Alone, DockerRuns
  <2>3. AtRestAgrees'
    BY <1>3 DEF TransportInv, Alone, DockerRuns, AtRestAgrees, StepAgrees
  <2>4. ASSUME NEW q \in Processes PROVE StepAgrees(q)'
    BY <1>3 DEF TransportInv, Alone, DockerRuns, AtRestAgrees, StepAgrees
  <2> QED BY <2>1, <2>2, <2>3, <2>4
<1> QED BY <1>1, <1>2, <1>3 DEF TransportInv

\* What is put back is what Docker had loaded before.
LEMMA RestoreKeeps ==
  ASSUME TransportInv, NEW p \in Processes, RestoreDaemon(p)
  PROVE  TransportInv'
<1> USE DEF RestoreDaemon
<1>1. TransportTypeOK'
  <2>1. move' \in [Processes -> TransportSteps]
    BY DEF TransportInv
  <2>2. daemon' = snapshot[p] \/ daemon' = daemon
    OBVIOUS
  <2>3. daemon' \in DaemonFiles
    BY <2>2 DEF TransportInv
  <2>4. muddled' \in BOOLEAN
    BY DEF TransportInv
  <2> QED BY <2>1, <2>3, <2>4 DEF TransportInv
<1>2. SnapshotsKeep' BY DEF TransportInv, SnapshotsKeep
<1>3. ASSUME ~muddled'
      PROVE  Alone' /\ DockerRuns' /\ AtRestAgrees' /\ \A q \in Processes : StepAgrees(q)'
  <2>1. Alone' BY <1>3 DEF TransportInv, Alone
  <2>2. DockerRuns' BY <1>3 DEF TransportInv, Alone, DockerRuns
  <2>3. AtRestAgrees'
    BY <1>3 DEF TransportInv, Alone, DockerRuns, AtRestAgrees, StepAgrees
  <2>4. ASSUME NEW q \in Processes PROVE StepAgrees(q)'
    BY <1>3 DEF TransportInv, Alone, DockerRuns, AtRestAgrees, StepAgrees
  <2> QED BY <2>1, <2>2, <2>3, <2>4
<1> QED BY <1>1, <1>2, <1>3 DEF TransportInv

\* The last restart loads the file that was put back.
LEMMA RestartBackKeeps ==
  ASSUME TransportInv, NEW p \in Processes, RestartBack(p)
  PROVE  TransportInv'
<1> USE DEF RestartBack
<1>1. TransportTypeOK' BY DEF TransportInv, Restarted
<1>2. SnapshotsKeep' BY DEF TransportInv, SnapshotsKeep, Restarted
<1>3. ASSUME ~muddled'
      PROVE  Alone' /\ DockerRuns' /\ AtRestAgrees' /\ \A q \in Processes : StepAgrees(q)'
  <2>1. Alone' BY <1>3 DEF TransportInv, Alone, Restarted
  <2>2. DockerRuns' BY <1>3 DEF TransportInv, Alone, DockerRuns, Restarted
  <2>3. AtRestAgrees'
    BY <1>3 DEF TransportInv, Alone, DockerRuns, AtRestAgrees, StepAgrees, Restarted
  <2>4. ASSUME NEW q \in Processes PROVE StepAgrees(q)'
    BY <1>3 DEF TransportInv, Alone, DockerRuns, AtRestAgrees, StepAgrees, Restarted
  <2> QED BY <2>1, <2>2, <2>3, <2>4
<1> QED BY <1>1, <1>2, <1>3 DEF TransportInv

\* A run that ends has nothing left to put back.
LEMMA EndKeeps ==
  ASSUME TransportInv, NEW p \in Processes, EndTransport(p)
  PROVE  TransportInv'
<1> USE DEF EndTransport
<1>1. TransportTypeOK' BY DEF TransportInv, NoDaemon
<1>2. SnapshotsKeep' BY DEF TransportInv, SnapshotsKeep, NoDaemon
<1>3. ASSUME ~muddled'
      PROVE  Alone' /\ DockerRuns' /\ AtRestAgrees' /\ \A q \in Processes : StepAgrees(q)'
  <2>1. Alone' BY <1>3 DEF TransportInv, Alone, NoDaemon
  <2>2. DockerRuns' BY <1>3 DEF TransportInv, Alone, DockerRuns, NoDaemon
  <2>3. AtRestAgrees'
    BY <1>3 DEF TransportInv, Alone, DockerRuns, AtRestAgrees, StepAgrees, NoDaemon
  <2>4. ASSUME NEW q \in Processes PROVE StepAgrees(q)'
    BY <1>3 DEF TransportInv, Alone, DockerRuns, AtRestAgrees, StepAgrees, NoDaemon
  <2> QED BY <2>1, <2>2, <2>3, <2>4
<1> QED BY <1>1, <1>2, <1>3 DEF TransportInv

\* A run that is killed before it wrote changed nothing.
LEMMA KillKeeps ==
  ASSUME TransportInv, NEW p \in Processes, KillTransport(p)
  PROVE  TransportInv'
<1> USE DEF KillTransport
<1>1. TransportTypeOK' BY DEF TransportInv, NoDaemon
<1>2. SnapshotsKeep' BY DEF TransportInv, SnapshotsKeep, NoDaemon
<1>3. ASSUME ~muddled'
      PROVE  Alone' /\ DockerRuns' /\ AtRestAgrees' /\ \A q \in Processes : StepAgrees(q)'
  <2>1. Alone' BY <1>3 DEF TransportInv, Alone, NoDaemon
  <2>2. DockerRuns' BY <1>3 DEF TransportInv, Alone, DockerRuns, NoDaemon
  <2>3. AtRestAgrees'
    BY <1>3 DEF TransportInv, Alone, DockerRuns, AtRestAgrees, StepAgrees, NoDaemon
  <2>4. ASSUME NEW q \in Processes PROVE StepAgrees(q)'
    BY <1>3 DEF TransportInv, Alone, DockerRuns, AtRestAgrees, StepAgrees, NoDaemon
  <2> QED BY <2>1, <2>2, <2>3, <2>4
<1> QED BY <1>1, <1>2, <1>3 DEF TransportInv

\* Nothing is added unless Docker runs.
LEMMA BeginKeeps ==
  ASSUME TransportInv, NEW p \in Processes, NEW r \in Registries,
         docker = "up", BeginTransport(p, r)
  PROVE  TransportInv'
<1> USE DEF BeginTransport
<1>1. TransportTypeOK' BY DEF TransportInv
<1>2. SnapshotsKeep' BY DEF TransportInv, SnapshotsKeep
<1>3. ASSUME ~muddled'
      PROVE  Alone' /\ DockerRuns' /\ AtRestAgrees' /\ \A q \in Processes : StepAgrees(q)'
  <2>1. Alone' BY <1>3 DEF TransportInv, Alone
  <2>2. DockerRuns' BY <1>3 DEF TransportInv, Alone, DockerRuns
  <2>3. AtRestAgrees'
    BY <1>3 DEF TransportInv, Alone, DockerRuns, AtRestAgrees, StepAgrees
  <2>4. ASSUME NEW q \in Processes PROVE StepAgrees(q)'
    BY <1>3 DEF TransportInv, Alone, DockerRuns, AtRestAgrees, StepAgrees
  <2> QED BY <2>1, <2>2, <2>3, <2>4
<1> QED BY <1>1, <1>2, <1>3 DEF TransportInv

\* Docker loads the file that is there when it starts.
LEMMA StartKeeps ==
  ASSUME TransportInv, NEW p \in Processes, NEW r \in Registries,
         move[p] = "idle", StartDocker, UNCHANGED <<daemon, snapshot, first, muddled>>,
         \/ aim' = [aim EXCEPT ![p] = r] /\ Move(p, "read")
         \/ UNCHANGED <<aim, move>>
  PROVE  TransportInv'
<1> USE DEF StartDocker
<1>1. TransportTypeOK' BY DEF TransportInv, Restarted
<1>2. SnapshotsKeep' BY DEF TransportInv, SnapshotsKeep, Restarted
<1>3. ASSUME ~muddled'
      PROVE  Alone' /\ DockerRuns' /\ AtRestAgrees' /\ \A q \in Processes : StepAgrees(q)'
  <2>1. Alone' BY <1>3 DEF TransportInv, Alone, Restarted
  <2>2. DockerRuns' BY <1>3 DEF TransportInv, Alone, DockerRuns, Restarted
  <2>3. AtRestAgrees'
    BY <1>3 DEF TransportInv, Alone, DockerRuns, AtRestAgrees, StepAgrees, Restarted
  <2>4. ASSUME NEW q \in Processes PROVE StepAgrees(q)'
    BY <1>3 DEF TransportInv, Alone, DockerRuns, AtRestAgrees, StepAgrees, Restarted
  <2> QED BY <2>1, <2>2, <2>3, <2>4
<1> QED BY <1>1, <1>2, <1>3 DEF TransportInv

\* Containers that come and go are no part of it.
LEMMA ContainersKeep ==
  ASSUME TransportInv, containers' \in {"none", "up", "stopped"},
         UNCHANGED <<daemon, live, docker, move, aim, snapshot, first, muddled>>
  PROVE  TransportInv'
BY DEF TransportInv, SnapshotsKeep, Alone, DockerRuns, AtRestAgrees, StepAgrees

LEMMA TransportStepKeeps ==
  ASSUME TransportInv, NEW p \in Processes, TransportStep(p)
  PROVE  TransportInv'
BY ReadKeeps, WriteKeeps, ValidateKeeps, RestartKeeps, WaitKeeps, RestoreKeeps,
   RestartBackKeeps DEF TransportStep

-----------------------------------------------------------------------------
(* The bootstrap *)

\* A run that is not changing daemon.json has no step of a change left.
Linked == \A p \in Processes : boot[p] # "transport" => move[p] = "idle"

BaseInv == TypeOK /\ TransportInv /\ Linked

USE DEF To, Fail, Draft, Receipts, BootSteps, Converting, Publication, Protocols, Sites,
        Registry, IsExternal, Revalidates, Move, TransportTypeOK

\* Nobody else's Harbor is at the endpoint, or it came over containers of eva.
Free(r) == site[r] = "none" \/ r \in overlaid

\* Steps that lead to eva's own Harbor, and the endpoint is free.
ForOwnHarbor == {"runtime", "docker", "transport", "probe", "recover", "down",
                 "configure", "up"}
OwnsEndpoint(p) ==
  /\ boot[p] \in ForOwnHarbor /\ ~IsExternal(p) => Free(Registry(p))
  /\ boot[p] \in {"down", "configure", "up"} => ~IsExternal(p)
  /\ boot[p] = "recover" => ~IsExternal(p) /\ Revalidates(p)
  /\ boot[p] = "probe" => IsExternal(p) \/ Revalidates(p)
  /\ boot[p] = "publishing" => IsExternal(p)

\* A conversion is of a Harbor that others run.
ConvertsForeign(p) ==
  /\ boot[p] \in Converting \cup {"revision"} => site[Registry(p)] # "none"
  /\ boot[p] \in Converting \cup {"revision"} /\ ~Revalidates(p) => IsExternal(p)

\* Containers of eva are at a free endpoint only, and none is about to be
\* started at another.
ComposeApart ==
  /\ compose # None /\ containers # "none" => Free(compose)
  /\ \A p \in Processes :
       \/ boot[p] = "up"
       \/ boot[p] \in ForOwnHarbor /\ ~IsExternal(p) /\ Revalidates(p)
       => compose # None /\ Free(compose)

\* Only the run that broke a Harbor may leave it broken for now.
BrokenIsHeld ==
  ~meddled => \A r \in Registries :
    site[r] = "broken" => \E p \in Processes : boot[p] = "rollback" /\ Registry(p) = r

\* From the token on, the project of the run is private.
HasPrivate(p) ==
  boot[p] \in {"token", "check", "write"} \/ (boot[p] = "login" /\ IsExternal(p))
    => project[HarborAt(Registry(p))] = "private"

HarborInv ==
  /\ ComposeApart /\ BrokenIsHeld
  /\ \A p \in Processes : OwnsEndpoint(p) /\ ConvertsForeign(p) /\ HasPrivate(p)

-----------------------------------------------------------------------------
(* What the receipt says *)

\* Docker has the login of the run p: an external Harbor is logged in to after
\* its token, the managed one before its project.
HasLogin(p) ==
  \/ boot[p] \in {"check", "write"}
  \/ boot[p] \in Publication /\ ~IsExternal(p)

\* A bootstrap that began alone is the only one.  What it tested of Docker and
\* of the Harbor then stays true until it writes the receipt: Docker serves the
\* login from the moment that it was stored, and the Harbor answers from the
\* last check on.
ReadyInv ==
  ~crowded =>
    /\ \A p, q \in Processes : Busy(p) /\ Busy(q) => p = q
    /\ \A p \in Processes :
         /\ HasLogin(p) => /\ Registry(p) \in login
                           /\ draft[p].protocol = "http" => Registry(p) \in live
         /\ boot[p] = "write" => Ready(p)

Inv == BaseInv /\ HarborInv /\ ReadyInv

-----------------------------------------------------------------------------
(* daemon.json and Docker *)

\* The steps of a run that leave Docker, its file and its containers alone.
Elsewhere(p) ==
  \/ \E w \in Requests : Begin(p, w)
  \/ Load(p) \/ Detect(p) \/ ReadRevision(p) \/ Upgrade(p) \/ VerifyUpgrade(p)
  \/ Rollback(p) \/ EnsureRuntime(p) \/ Probe(p) \/ Configure(p) \/ Credential(p)
  \/ ReadProject(p) \/ CreateProject(p) \/ HideProject(p) \/ ConfirmPrivate(p)
  \/ CheckToken(p) \/ PublicationFails(p) \/ Login(p) \/ Check(p) \/ WriteReceipt(p)
  \/ End(p)

\* The steps of Compose.
Composing(p) == Recover(p) \/ StopCompose(p) \/ StartCompose(p)

LEMMA ElsewhereKeeps ==
  ASSUME NEW p \in Processes, Elsewhere(p) PROVE UNCHANGED transportVars
BY DEF Elsewhere, Begin, Load, Detect, ReadRevision, Upgrade, VerifyUpgrade, Rollback,
       EnsureRuntime, Probe, Configure, Credential, ReadProject, CreateProject,
       HideProject, ConfirmPrivate, CheckToken, PublicationFails, Login, Check,
       WriteReceipt, End

LEMMA UnchangedKeeps == BaseInv /\ UNCHANGED transportVars => TransportInv'
<1> SUFFICES ASSUME BaseInv, UNCHANGED transportVars PROVE TransportInv'
  OBVIOUS
<1> QED BY ContainersKeep DEF BaseInv, TypeOK, transportVars

LEMMA ComposingKeeps ==
  ASSUME BaseInv, (\E p \in Processes : Composing(p)) \/ Others
  PROVE  TransportInv' /\ UNCHANGED move
<1>1. /\ UNCHANGED <<daemon, live, docker, move, aim, snapshot, first, muddled>>
      /\ containers' \in {"none", "up", "stopped"}
  <2>1. CASE Others
    BY <2>1 DEF Others, RetireHarbor, DeployHarbor, CreatePublic, StopContainers,
                transportVars, transportButContainers, BaseInv, TypeOK
  <2>2. ASSUME NEW p \in Processes, Composing(p)
        PROVE  /\ UNCHANGED <<daemon, live, docker, move, aim, snapshot, first, muddled>>
               /\ containers' \in {"none", "up", "stopped"}
    BY <2>2 DEF Composing, Recover, StopCompose, StartCompose, ComposeUp,
                transportButContainers, BaseInv, TypeOK
  <2> QED BY <2>1, <2>2
<1> QED BY <1>1, ContainersKeep DEF BaseInv

\* A run adds its registry only once Docker runs: it has just started it, or has
\* just found the containers of its own Harbor.
LEMMA ChangingKeeps ==
  ASSUME BaseInv, NEW p \in Processes,
         DecideOwner(p) \/ EnsureDocker(p) \/ EnsurePublishingDocker(p)
  PROVE  /\ TransportInv'
         /\ \A q \in Processes \ {p} : move'[q] = move[q]
         /\ boot'[p] = "transport" \/ move'[p] = "idle"
<1>0. /\ Registry(p) \in Registries /\ move[p] = "idle" /\ boot \in [Processes -> BootSteps]
      /\ move \in [Processes -> TransportSteps]
  BY DEF BaseInv, TypeOK, Linked, DecideOwner, EnsureDocker, EnsurePublishingDocker
<1>1. CASE DecideOwner(p)
  <2>1. CASE UNCHANGED transportVars
    BY <2>1, <1>0, UnchangedKeeps DEF transportVars
  <2>2. CASE ~UNCHANGED transportVars
    <3>1. /\ docker = "up" /\ BeginTransport(p, Registry(p))
          /\ boot' = [boot EXCEPT ![p] = "transport"]
      BY <1>1, <2>2, <1>0 DEF DecideOwner, Owned, BaseInv, TypeOK
    <3>2. TransportInv' BY <3>1, <1>0, BeginKeeps DEF BaseInv
    <3> QED BY <3>1, <3>2, <1>0 DEF BeginTransport
  <2> QED BY <2>1, <2>2
<1>2. CASE EnsureDocker(p) \/ EnsurePublishingDocker(p)
  <2>1. CASE UNCHANGED transportVars
    BY <2>1, <1>0, UnchangedKeeps DEF transportVars
  <2>2. CASE ~UNCHANGED transportVars
    <3>1. /\ StartDocker /\ UNCHANGED <<daemon, snapshot, first, muddled>>
          /\ \/ /\ aim' = [aim EXCEPT ![p] = Registry(p)] /\ Move(p, "read")
                /\ boot' = [boot EXCEPT ![p] = "transport"]
             \/ UNCHANGED <<aim, move>>
      BY <1>2, <2>2 DEF EnsureDocker, EnsurePublishingDocker
    <3>2. TransportInv' BY <3>1, <1>0, StartKeeps DEF BaseInv
    <3> QED BY <3>1, <3>2, <1>0
  <2> QED BY <2>1, <2>2
<1> QED BY <1>1, <1>2

LEMMA TransportingKeeps ==
  ASSUME BaseInv, NEW p \in Processes, Transport(p) \/ FinishTransport(p) \/ Kill(p)
  PROVE  /\ TransportInv'
         /\ \A q \in Processes \ {p} : move'[q] = move[q]
         /\ boot'[p] = "transport" \/ move'[p] = "idle"
<1>0. /\ boot \in [Processes -> BootSteps] /\ move \in [Processes -> TransportSteps]
      /\ boot[p] # "transport" => move[p] = "idle"
  BY DEF BaseInv, TypeOK, Linked
<1>1. CASE Transport(p)
  <2>1. TransportInv' BY <1>1, TransportStepKeeps DEF BaseInv, Transport
  <2>2. \E s \in TransportSteps : move' = [move EXCEPT ![p] = s]
    BY <1>1 DEF TransportSteps, Changing, Transport, TransportStep, ReadDaemon, WriteDaemon,
                ValidateDaemon, RestartDocker, WaitForDocker, RestoreDaemon, RestartBack
  <2> QED BY <1>1, <2>1, <2>2, <1>0 DEF Transport
<1>2. CASE FinishTransport(p)
  BY <1>2, <1>0, EndKeeps DEF FinishTransport, EndTransport, BaseInv
<1>3. CASE Kill(p) /\ boot[p] = "transport"
  BY <1>3, <1>0, KillKeeps DEF Kill, KillTransport, BaseInv
<1>4. CASE Kill(p) /\ boot[p] # "transport"
  BY <1>4, <1>0, UnchangedKeeps DEF Kill, transportVars
<1> QED BY <1>1, <1>2, <1>3, <1>4

-----------------------------------------------------------------------------
(* Types *)

\* The part of TypeOK that is not about Docker.
BootTypes ==
  /\ receipt \in Receipts \cup {None}
  /\ compose \in Registries \cup {None}
  /\ site \in Sites
  /\ project \in [Registries \cup {Own} -> {"absent", "public", "private"}]
  /\ login \subseteq Registries
  /\ boot \in [Processes -> BootSteps]
  /\ want \in [Processes -> Requests \cup {NoRequest}]
  /\ base \in [Processes -> Receipts \cup {None}]
  /\ draft \in [Processes -> Receipts]
  /\ asked \in [Processes -> BOOLEAN]
  /\ crowded \in BOOLEAN /\ meddled \in BOOLEAN /\ overlaid \subseteq Registries
  /\ runs \in 0..MaxRuns /\ changes \in 0..MaxChanges

LEMMA NoDraftType == NoDraft \in Receipts
BY TransportAssumption DEF NoDraft

CommandLines == [registry : Registries \cup {None}, replace : BOOLEAN,
                 external : BOOLEAN, protocol : {"auto", "http", "https"}]

LEMMA RequestType == Requests \cup {NoRequest} \subseteq CommandLines
<1>1. NoRequest \in CommandLines BY DEF NoRequest, CommandLines
<1>2. {"auto"} \cup Protocols = {"auto", "http", "https"} OBVIOUS
<1>3. Requests \subseteq CommandLines BY <1>2, BootstrapAssumption, Zenon DEF CommandLines
<1> QED BY <1>1, <1>3

\* What detection finds: an error, nothing, or the protocol that answers.
LEMMA DetectedIs ==
  ASSUME NEW r \in Registries, NEW protocol \in {"auto", "http", "https"},
         NEW found \in Detected(r, protocol), found[1] # "error"
  PROVE  /\ found[1] \in Protocols
         /\ \/ Answers(r) = "none" /\ found[2] = FALSE
            \/ Answers(r) = found[1] /\ found[2] = TRUE
<1> DEFINE chosen == IF protocol = "auto" THEN "http" ELSE protocol
<1>1. CASE Answers(r) = "none"
  <2>1. Detected(r, protocol) = {<<"error", FALSE>>} \cup {<<chosen, FALSE>>}
    BY <1>1 DEF Detected
  <2>2. found = <<"error", FALSE>> \/ found = <<chosen, FALSE>> BY <2>1, Zenon
  <2>3. <<"error", FALSE>>[1] = "error" OBVIOUS
  <2>4. found = <<chosen, FALSE>> BY <2>2, <2>3, Zenon
  <2> HIDE DEF chosen
  <2>5. found[1] = chosen /\ found[2] = FALSE BY <2>4
  <2>6. chosen \in Protocols BY DEF chosen
  <2> QED BY <1>1, <2>5, <2>6
<1>2. CASE Answers(r) # "none" /\ Answers(r) \in Protocols /\ protocol \in {"auto", Answers(r)}
  <2>1. Detected(r, protocol) = {<<"error", FALSE>>} \cup {<<Answers(r), TRUE>>}
    BY <1>2 DEF Detected
  <2>2. found = <<"error", FALSE>> \/ found = <<Answers(r), TRUE>> BY <2>1, Zenon
  <2>3. <<"error", FALSE>>[1] = "error" OBVIOUS
  <2>4. found = <<Answers(r), TRUE>> BY <2>2, <2>3, Zenon
  <2>5. found[1] = Answers(r) /\ found[2] = TRUE BY <2>4
  <2> QED BY <1>2, <2>5
<1>3. CASE Answers(r) # "none" /\ ~(Answers(r) \in Protocols /\ protocol \in {"auto", Answers(r)})
  <2>1. Detected(r, protocol) = {<<"error", FALSE>>} \cup {}
    BY <1>3 DEF Detected
  <2> QED BY <2>1
<1> QED BY <1>1, <1>2, <1>3

LEMMA BaseInvInit == Init => BaseInv
<1> SUFFICES ASSUME Init PROVE BaseInv
  OBVIOUS
<1>1. TransportInv BY TransportInvInit DEF Init
<1>2. BootTypes
  <2>1. site \in Sites BY BootstrapAssumption DEF Init
  <2>2. project \in [Registries \cup {Own} -> {"absent", "public", "private"}]
    BY DEF Init
  <2>3. runs \in 0..MaxRuns /\ changes \in 0..MaxChanges
    BY BootstrapAssumption DEF Init
  <2> QED BY <2>1, <2>2, <2>3, NoDraftType DEF Init, BootTypes
<1>3. Linked BY DEF Init, TransportInit, Linked
<1> QED BY <1>1, <1>2, <1>3 DEF BaseInv, TypeOK, BootTypes, TransportInv

LEMMA BootTypesStep == BootTypes /\ Next => BootTypes'
<1> SUFFICES ASSUME BootTypes, Next PROVE BootTypes'
  OBVIOUS
<1> USE BootstrapAssumption DEF BootTypes, world, noted, run
<1>1. ASSUME NEW p \in Processes, NEW w \in Requests, Begin(p, w) PROVE BootTypes'
  BY <1>1 DEF Begin
<1>2. ASSUME NEW p \in Processes, Load(p) PROVE BootTypes'
  <2>1. want[p] \in CommandLines /\ draft[p] \in Receipts
    BY RequestType
  <2>2. CASE ~Accepted(want[p])
    BY <1>2, <2>2 DEF Load
  <2>3. CASE Accepted(want[p]) /\ (receipt = None \/ want[p].replace)
    <3>1. RequestedRegistry(want[p]) \in Registries
      BY <2>1, <2>3 DEF Accepted, RequestedRegistry, CommandLines
    <3>2. [NoDraft EXCEPT !.registry = RequestedRegistry(want[p])] \in Receipts
      BY <3>1, NoDraftType
    <3>3. /\ boot' = [boot EXCEPT ![p] = "detect"]
          /\ base' = [base EXCEPT ![p] = None]
          /\ draft' = [draft EXCEPT ![p] = [NoDraft EXCEPT !.registry = RequestedRegistry(want[p])]]
      BY <1>2, <2>3 DEF Load
    <3>4. draft' \in [Processes -> Receipts] BY <3>2, <3>3
    <3> QED BY <1>2, <3>3, <3>4 DEF Load
  <2>4. CASE Accepted(want[p]) /\ ~(receipt = None \/ want[p].replace)
    <3>1. receipt \in Receipts BY <2>4
    <3>2. /\ boot' = [boot EXCEPT ![p] = "detect"]
          /\ base' = [base EXCEPT ![p] = receipt]
          /\ draft' = [draft EXCEPT ![p] = receipt]
      BY <1>2, <2>4 DEF Load
    <3>3. UNCHANGED <<world, want, asked, crowded, runs, changes>> BY <1>2 DEF Load
    <3> HIDE DEF Receipts, Sites
    <3>4. draft' \in [Processes -> Receipts] /\ base' \in [Processes -> Receipts \cup {None}]
      BY <3>1, <3>2
    <3>5. boot' \in [Processes -> BootSteps] BY <3>2
    <3> QED BY <3>3, <3>4, <3>5
  <2> QED BY <2>2, <2>3, <2>4
<1>3. ASSUME NEW p \in Processes, Detect(p) PROVE BootTypes'
  <2>1. PICK found \in Detected(Registry(p), want[p].protocol) :
          IF found[1] = "error" THEN Fail(p) /\ UNCHANGED draft
          ELSE Adopt(p, found[1], found[2])
    BY <1>3 DEF Detect
  <2>0. want[p] \in CommandLines /\ draft[p] \in Receipts BY RequestType
  <2>2. CASE found[1] = "error"
    BY <1>3, <2>1, <2>2 DEF Detect
  <2>3. CASE found[1] # "error"
    <3>1. found[1] \in Protocols
      <4>1. want[p].protocol \in {"auto", "http", "https"} BY <2>0 DEF CommandLines
      <4>2. Registry(p) \in Registries BY <2>0
      <4> QED BY <2>3, <4>1, <4>2, DetectedIs
    <3>2. \E d \in Receipts : draft' = [draft EXCEPT ![p] = d]
      <4>1. [draft[p] EXCEPT !.protocol = found[1]] \in Receipts BY <2>0, <3>1
      <4>2. \A m \in {"eva", "external"} :
              [draft[p] EXCEPT !.protocol = found[1], !.managed = m] \in Receipts
        BY <2>0, <3>1
      <4>3. CASE Revalidates(p)
        BY <2>0, <2>1, <2>3, <4>1, <4>3 DEF Adopt
      <4>4. CASE ~Revalidates(p)
        BY <2>1, <2>3, <4>2, <4>4 DEF Adopt
      <4> QED BY <4>3, <4>4
    <3>3. boot' \in [Processes -> BootSteps]
      BY <2>1, <2>3 DEF Adopt
    <3>4. draft' \in [Processes -> Receipts] BY <3>2
    <3> QED BY <1>3, <3>3, <3>4 DEF Detect
  <2> QED BY <2>2, <2>3
<1>4. ASSUME NEW p \in Processes, DecideOwner(p) PROVE BootTypes'
  <2>1. want[p] \in CommandLines /\ draft[p] \in Receipts
    BY RequestType
  <2>2. UNCHANGED draft \/ \E d \in Receipts : draft' = [draft EXCEPT ![p] = d]
    <3>1. \A m \in {"eva", "external"}, protocol \in Protocols :
            [draft[p] EXCEPT !.managed = m, !.protocol = protocol] \in Receipts
      BY <2>1
    <3>2. want[p].protocol # "auto" => want[p].protocol \in Protocols
      BY <2>1 DEF CommandLines
    <3>3. UNCHANGED draft \/ \E m \in {"eva", "external"}, protocol \in Protocols :
            draft' = [draft EXCEPT ![p] = [draft[p] EXCEPT !.managed = m, !.protocol = protocol]]
      BY <1>4, <2>1, <3>2 DEF DecideOwner
    <3> QED BY <3>1, <3>3
  <2>3. boot' \in [Processes -> BootSteps]
    BY <1>4 DEF DecideOwner
  <2>4. UNCHANGED <<world, want, base, asked, crowded, runs, changes>>
    BY <1>4 DEF DecideOwner
  <2> HIDE DEF Receipts, Sites
  <2>5. draft' \in [Processes -> Receipts] BY <2>2
  <2> QED BY <2>3, <2>4, <2>5
<1>5. ASSUME NEW p \in Processes,
             ReadRevision(p) \/ Upgrade(p) \/ VerifyUpgrade(p) \/ Rollback(p)
      PROVE  BootTypes'
  <2>1. CASE ReadRevision(p)
    <3>1. [draft[p] EXCEPT !.protocol = Deployed(Registry(p))] \in Receipts BY DEF Deployed
    <3> QED BY <2>1, <3>1 DEF ReadRevision
  <2>2. CASE Upgrade(p) BY <2>2 DEF Upgrade, Serve, worldButSite
  <2>3. CASE VerifyUpgrade(p)
    <3>1. [draft[p] EXCEPT !.protocol = "http"] \in Receipts OBVIOUS
    <3> QED BY <2>3, <3>1 DEF VerifyUpgrade
  <2>4. CASE Rollback(p)
    <3>1. draft[p].protocol \in Protocols OBVIOUS
    <3> QED BY <2>4, <3>1 DEF Rollback, Serve, worldButSite
  <2> QED BY <1>5, <2>1, <2>2, <2>3, <2>4
<1>6. ASSUME NEW p \in Processes,
             \/ EnsureRuntime(p) \/ EnsureDocker(p) \/ EnsurePublishingDocker(p)
             \/ Transport(p) \/ FinishTransport(p) \/ Probe(p) \/ Recover(p)
      PROVE  BootTypes'
  <2>1. UNCHANGED <<world, run>>
    BY <1>6 DEF EnsureRuntime, EnsureDocker, EnsurePublishingDocker, Transport,
                FinishTransport, Probe, Recover
  <2>2. CASE EnsureRuntime(p) \/ Transport(p) \/ FinishTransport(p) \/ Probe(p)
    BY <2>1, <2>2 DEF EnsureRuntime, Transport, FinishTransport, Probe
  <2>3. CASE EnsureDocker(p) \/ EnsurePublishingDocker(p) \/ Recover(p)
    BY <2>1, <2>3 DEF EnsureDocker, EnsurePublishingDocker, Recover
  <2> QED BY <1>6, <2>2, <2>3
<1>7. ASSUME NEW p \in Processes, StopCompose(p) \/ Configure(p) \/ StartCompose(p)
      PROVE  BootTypes'
  BY <1>7 DEF StopCompose, Configure, StartCompose, HarborAt
<1>8. ASSUME NEW p \in Processes,
             \/ Credential(p) \/ ReadProject(p) \/ ConfirmPrivate(p) \/ CheckToken(p)
             \/ PublicationFails(p) \/ Login(p) \/ Check(p) \/ WriteReceipt(p)
      PROVE  BootTypes'
  <2>1. CASE Credential(p)
    <3>1. boot' \in [Processes -> BootSteps] BY <2>1 DEF Credential, AskOperator
    <3>2. asked' \in [Processes -> BOOLEAN] BY <2>1 DEF Credential, AskOperator
    <3>3. UNCHANGED <<world, want, base, draft, crowded, runs, changes>>
      BY <2>1 DEF Credential
    <3> QED BY <3>1, <3>2, <3>3
  <2>2. CASE PublicationFails(p) BY <2>2 DEF PublicationFails, AskOperator
  <2>3. CASE ReadProject(p) \/ ConfirmPrivate(p) \/ CheckToken(p) \/ Check(p)
    BY <2>3 DEF ReadProject, ConfirmPrivate, CheckToken, Check
  <2>4. CASE Login(p) \/ WriteReceipt(p) BY <2>4 DEF Login, WriteReceipt
  <2> QED BY <1>8, <2>1, <2>2, <2>3, <2>4
<1>9. ASSUME NEW p \in Processes, CreateProject(p) \/ HideProject(p) PROVE BootTypes'
  <2>1. boot' \in [Processes -> BootSteps]
    <3>1. \E s \in {"reread", "confirm"} : boot' = [boot EXCEPT ![p] = s]
      BY <1>9 DEF CreateProject, HideProject
    <3>2. boot \in [Processes -> BootSteps] OBVIOUS
    <3> HIDE DEF BootTypes
    <3> QED BY <3>1, <3>2
  <2>2. \E v \in {"absent", "public", "private"}, h \in Registries \cup {Own} :
          project' = [project EXCEPT ![h] = v]
    BY <1>9 DEF CreateProject, HideProject, SetProject, EvaProject, HarborAt
  <2>3. UNCHANGED <<worldButProject, run>> BY <1>9 DEF CreateProject, HideProject
  <2>4. project' \in [Registries \cup {Own} -> {"absent", "public", "private"}]
    BY <2>2
  <2> QED BY <2>1, <2>3, <2>4 DEF worldButProject
<1>10. ASSUME NEW p \in Processes, End(p) PROVE BootTypes'
  BY <1>10, NoDraftType DEF End, Forget
<1>11. ASSUME NEW p \in Processes, Kill(p) PROVE BootTypes'
  BY <1>11, NoDraftType DEF Kill, Forget, Serve, worldButSite
<1>12. ASSUME Others PROVE BootTypes'
  BY <1>12 DEF Others, RetireHarbor, DeployHarbor, CreatePublic, StopContainers, Serve,
               worldButSite, worldButProject, runButChanges, Change
<1> QED
  BY <1>1, <1>2, <1>3, <1>4, <1>5, <1>6, <1>7, <1>8, <1>9, <1>10, <1>11, <1>12
     DEF Next, BootStep

LEMMA BaseInvStep == BaseInv /\ [Next]_vars => BaseInv'
<1> SUFFICES ASSUME BaseInv, Next PROVE BaseInv'
  BY UnchangedKeeps DEF vars, BaseInv, TypeOK, Linked, transportVars
<1>0. BootTypes /\ Linked BY DEF BaseInv, TypeOK, BootTypes
<1>1. BootTypes' BY <1>0, BootTypesStep
<1>2. TransportInv' /\ Linked'
  <2>1. ASSUME NEW p \in Processes, Elsewhere(p) PROVE TransportInv' /\ Linked'
    <3>1. TransportInv' BY <2>1, ElsewhereKeeps, UnchangedKeeps
    <3>2. UNCHANGED move BY <2>1, ElsewhereKeeps DEF transportVars
    <3>3. boot[p] # "transport" /\ \A q \in Processes \ {p} : boot'[q] = boot[q]
      BY <2>1, <1>0 DEF BootTypes, Elsewhere, Begin, Load, Detect, Adopt, ReadRevision,
           Upgrade, VerifyUpgrade, Rollback, EnsureRuntime, Probe, Configure, Credential,
           ReadProject, CreateProject, HideProject, ConfirmPrivate, CheckToken,
           PublicationFails, Login, Check, WriteReceipt, End, Forget, AskOperator
    <3> QED BY <1>0, <3>1, <3>2, <3>3 DEF Linked
  <2>2. ASSUME NEW p \in Processes, Composing(p) PROVE TransportInv' /\ Linked'
    <3>1. TransportInv' /\ UNCHANGED move BY <2>2, ComposingKeeps
    <3>2. boot[p] # "transport" /\ \A q \in Processes \ {p} : boot'[q] = boot[q]
      BY <2>2, <1>0 DEF BootTypes, Composing, Recover, StopCompose, StartCompose
    <3> QED BY <1>0, <3>1, <3>2 DEF Linked
  <2>3. CASE Others
    <3>1. TransportInv' /\ UNCHANGED move BY <2>3, ComposingKeeps
    <3>2. UNCHANGED boot
      BY <2>3 DEF Others, RetireHarbor, DeployHarbor, CreatePublic, StopContainers
    <3> QED BY <1>0, <3>1, <3>2 DEF Linked
  <2>4. ASSUME NEW p \in Processes,
               DecideOwner(p) \/ EnsureDocker(p) \/ EnsurePublishingDocker(p)
        PROVE  TransportInv' /\ Linked'
    <3>1. \A q \in Processes \ {p} : boot'[q] = boot[q]
      BY <2>4, <1>0 DEF BootTypes, DecideOwner, EnsureDocker, EnsurePublishingDocker
    <3> QED BY <1>0, <2>4, <3>1, ChangingKeeps DEF Linked
  <2>5. ASSUME NEW p \in Processes, Transport(p) \/ FinishTransport(p) \/ Kill(p)
        PROVE  TransportInv' /\ Linked'
    <3>1. \A q \in Processes \ {p} : boot'[q] = boot[q]
      BY <2>5, <1>0 DEF BootTypes, Transport, FinishTransport, Kill, Forget
    <3> QED BY <1>0, <2>5, <3>1, TransportingKeeps DEF Linked
  <2> QED BY <2>1, <2>2, <2>3, <2>4, <2>5 DEF Next, BootStep, Elsewhere, Composing
<1> QED BY <1>1, <1>2 DEF BaseInv, TypeOK, BootTypes, TransportInv

LEMMA BaseInvariant == Spec => []BaseInv
BY BaseInvInit, BaseInvStep, PTL DEF Spec

\* Every state is of its type.
THEOREM BootstrapTypeOK == Spec => []TypeOK
<1>1. BaseInv => TypeOK BY DEF BaseInv
<1> QED BY <1>1, BaseInvariant, PTL

\* The registries that the operator had listed stay in daemon.json
\* (mergeDockerInsecureRegistry, restoreDockerDaemonConfig).
THEOREM OperatorRegistriesAlwaysKept == Spec => []OperatorRegistriesKept
<1>1. BaseInv => OperatorRegistriesKept
  BY DEF BaseInv, TransportInv, SnapshotsKeep, OperatorRegistriesKept
<1> QED BY <1>1, BaseInvariant, PTL

\* A Docker that runs has loaded its file whenever nobody changes it
\* (ensureManagedRegistryTransport, restoreAfterRegistryTransportFailure).
THEOREM DaemonFileAlwaysLive == Spec => []DaemonFileIsLive
<1>1. BaseInv => DaemonFileIsLive
  BY DEF BaseInv, TransportInv, AtRestAgrees, DaemonFileIsLive
<1> QED BY <1>1, BaseInvariant, PTL

-----------------------------------------------------------------------------
(* The Harbors of others, and the project *)

USE DEF BootTypes, ForOwnHarbor

LEMMA BaseIsTyped == BaseInv => BootTypes
BY DEF BaseInv, TypeOK

LEMMA HarborInvInit == Init => HarborInv
<1> SUFFICES ASSUME Init PROVE HarborInv
  OBVIOUS
<1>1. \A r \in Registries : site[r] # "broken"
  BY BootstrapAssumption DEF Init
<1> QED BY <1>1 DEF Init, HarborInv, ComposeApart, BrokenIsHeld, OwnsEndpoint,
             ConvertsForeign, HasPrivate, Free

\* Steps that write nothing but what a run remembers, and Docker.
OnlyRemembers(p) ==
  \/ \E w \in Requests : Begin(p, w)
  \/ Load(p) \/ Detect(p) \/ DecideOwner(p) \/ ReadRevision(p) \/ VerifyUpgrade(p)
  \/ EnsureRuntime(p) \/ EnsureDocker(p) \/ EnsurePublishingDocker(p)
  \/ Transport(p) \/ FinishTransport(p) \/ Probe(p) \/ Recover(p) \/ StopCompose(p)
  \/ Credential(p) \/ ReadProject(p) \/ ConfirmPrivate(p) \/ CheckToken(p)
  \/ PublicationFails(p) \/ Check(p) \/ End(p)

LEMMA WorldStays ==
  ASSUME NEW p \in Processes, OnlyRemembers(p)
  PROVE  UNCHANGED world
<1>1. CASE \/ \E w \in Requests : Begin(p, w)
           \/ Load(p) \/ Detect(p) \/ DecideOwner(p) \/ ReadRevision(p) \/ VerifyUpgrade(p)
  BY <1>1 DEF Begin, Load, Detect, DecideOwner, ReadRevision, VerifyUpgrade
<1>2. CASE \/ EnsureRuntime(p) \/ EnsureDocker(p) \/ EnsurePublishingDocker(p)
           \/ Transport(p) \/ FinishTransport(p) \/ Probe(p) \/ Recover(p) \/ StopCompose(p)
  BY <1>2 DEF EnsureRuntime, EnsureDocker, EnsurePublishingDocker, Transport,
              FinishTransport, Probe, Recover, StopCompose
<1>3. CASE \/ Credential(p) \/ ReadProject(p) \/ ConfirmPrivate(p) \/ CheckToken(p)
           \/ PublicationFails(p) \/ Check(p) \/ End(p)
  BY <1>3 DEF Credential, ReadProject, ConfirmPrivate, CheckToken, PublicationFails, Check, End
<1> QED BY <1>1, <1>2, <1>3 DEF OnlyRemembers

LEMMA NextIs ==
  Next =>
    \/ \E p \in Processes :
         \/ OnlyRemembers(p) \/ Upgrade(p) \/ Rollback(p) \/ Configure(p) \/ StartCompose(p)
         \/ CreateProject(p) \/ HideProject(p) \/ Login(p) \/ WriteReceipt(p) \/ Kill(p)
    \/ Others
BY DEF Next, BootStep, OnlyRemembers

\* While a run of its own lasts, nobody but conversions touches a Harbor that
\* others run, and they leave it in place.
LEMMA SitesStay ==
  ASSUME BaseInv, HarborInv, Next, NEW p \in Processes, Busy(p), NEW r \in Registries
  PROVE  /\ site'[r] = "none" <=> site[r] = "none"
         /\ UNCHANGED overlaid
<1>0. BootTypes BY BaseIsTyped
<1>1. ASSUME NEW q \in Processes, Upgrade(q) \/ Rollback(q) \/ Kill(q)
      PROVE  (site'[r] = "none" <=> site[r] = "none") /\ UNCHANGED overlaid
  BY <1>0, <1>1 DEF HarborInv, ConvertsForeign, Upgrade, Rollback, Kill, Serve, noted
<1>2. CASE Others
  BY <1>2, <1>0 DEF Others, RetireHarbor, DeployHarbor, CreatePublic, StopContainers, Quiet,
              worldButProject, world, noted
<1>3. ASSUME NEW q \in Processes,
             \/ Configure(q) \/ StartCompose(q) \/ CreateProject(q) \/ HideProject(q)
             \/ Login(q) \/ WriteReceipt(q)
      PROVE  UNCHANGED <<site, overlaid>>
  BY <1>3 DEF Configure, StartCompose, CreateProject, HideProject, Login, WriteReceipt,
              worldButProject, noted
<1>4. ASSUME NEW q \in Processes, OnlyRemembers(q) PROVE UNCHANGED <<site, overlaid>>
  BY <1>4, WorldStays DEF world, noted
<1> QED BY <1>1, <1>2, <1>3, <1>4, NextIs

\* An endpoint that is free stays free while a run lasts.
LEMMA FreeStays ==
  ASSUME BaseInv, HarborInv, Next, NEW p \in Processes, Busy(p), NEW r \in Registries
  PROVE  Free(r)' <=> Free(r)
BY SitesStay DEF Free

\* What a step changes of the registries of other runs.
LEMMA OthersStay ==
  ASSUME BaseInv, NEW p \in Processes, NEW q \in Processes \ {p},
         \/ \E w \in Requests : Begin(p, w)
         \/ BootStep(p) \/ End(p) \/ Kill(p)
  PROVE  boot'[q] = boot[q] /\ draft'[q] = draft[q] /\ base'[q] = base[q]
<1>0. BootTypes BY BaseIsTyped
<1>1. ASSUME NEW w \in Requests, Begin(p, w)
      PROVE  boot'[q] = boot[q] /\ draft'[q] = draft[q] /\ base'[q] = base[q]
  BY <1>0, <1>1 DEF Begin
<1>2. CASE Load(p) \/ Detect(p) \/ DecideOwner(p) \/ VerifyUpgrade(p)
  <2>1. CASE Load(p) BY <1>0, <2>1 DEF Load
  <2>2. CASE Detect(p) BY <1>0, <2>2 DEF Detect, Adopt
  <2>3. CASE DecideOwner(p) BY <1>0, <2>3 DEF DecideOwner
  <2>4. CASE VerifyUpgrade(p) BY <1>0, <2>4 DEF VerifyUpgrade
  <2> QED BY <1>2, <2>1, <2>2, <2>3, <2>4
<1>3. CASE End(p) \/ Kill(p)
  BY <1>0, <1>3 DEF End, Kill, Forget
<1>4. CASE \/ ReadRevision(p) \/ Upgrade(p) \/ Rollback(p) \/ EnsureRuntime(p)
           \/ EnsureDocker(p) \/ EnsurePublishingDocker(p) \/ Transport(p)
           \/ FinishTransport(p) \/ Probe(p) \/ Recover(p) \/ StopCompose(p)
           \/ Configure(p) \/ StartCompose(p)
  BY <1>0, <1>4 DEF ReadRevision, Upgrade, Rollback, EnsureRuntime, EnsureDocker,
     EnsurePublishingDocker, Transport, FinishTransport, Probe, Recover, StopCompose,
     Configure, StartCompose, run
<1>5. CASE \/ Credential(p) \/ ReadProject(p) \/ CreateProject(p) \/ HideProject(p)
           \/ ConfirmPrivate(p) \/ CheckToken(p) \/ PublicationFails(p) \/ Login(p)
           \/ Check(p) \/ WriteReceipt(p)
  BY <1>0, <1>5 DEF Credential, ReadProject, CreateProject, HideProject, ConfirmPrivate,
     CheckToken, PublicationFails, Login, Check, WriteReceipt, run, AskOperator
<1> QED BY <1>1, <1>2, <1>3, <1>4, <1>5 DEF BootStep

\* A run goes on with its own Harbor only when it is Compose's.
LEMMA DecideOwnerIs ==
  ASSUME BaseInv, NEW p \in Processes, DecideOwner(p)
  PROVE  /\ boot'[p] \in {"failed", "publishing", "transport"}
         /\ boot'[p] = "failed" \/ draft'[p].registry = draft[p].registry
         /\ boot'[p] = "publishing" => draft'[p].managed = "external"
         /\ boot'[p] = "transport" => Owned(p)
<1>0. BootTypes BY BaseIsTyped
<1>1. want[p].protocol # "auto" => want[p].protocol \in Protocols
  BY <1>0, RequestType DEF CommandLines
<1>2. \/ boot'[p] = "failed"
      \/ /\ boot'[p] = "publishing"
         /\ \E protocol \in Protocols : draft' = [draft EXCEPT ![p] =
              [draft[p] EXCEPT !.managed = "external", !.protocol = protocol]]
      \/ /\ boot'[p] = "transport" /\ Owned(p)
         /\ \E protocol \in Protocols : draft' = [draft EXCEPT ![p] =
              [draft[p] EXCEPT !.managed = "eva", !.protocol = protocol]]
  BY <1>0, <1>1 DEF DecideOwner
<1>3. draft \in [Processes -> Receipts] BY <1>0 DEF BootTypes
<1>4. CASE boot'[p] = "failed" BY <1>4
<1>5. ASSUME NEW protocol \in Protocols,
             draft' = [draft EXCEPT ![p] =
               [draft[p] EXCEPT !.managed = "external", !.protocol = protocol]]
      PROVE  draft'[p].registry = draft[p].registry /\ draft'[p].managed = "external"
  BY <1>3, <1>5 DEF Receipts
<1>6. ASSUME NEW protocol \in Protocols,
             draft' = [draft EXCEPT ![p] =
               [draft[p] EXCEPT !.managed = "eva", !.protocol = protocol]]
      PROVE  draft'[p].registry = draft[p].registry
  BY <1>3, <1>6 DEF Receipts
<1> QED BY <1>2, <1>4, <1>5, <1>6

\* A run that has found nobody's Harbor prepares its own only there, and
\* converts only one that answered.
LEMMA OwnsEndpointStep ==
  ASSUME BaseInv, HarborInv, Next, NEW p \in Processes
  PROVE  OwnsEndpoint(p)' /\ ConvertsForeign(p)'
<1>0. BootTypes BY BaseIsTyped
<1>1. ASSUME Busy(p), boot'[p] = boot[p], draft'[p] = draft[p], base'[p] = base[p]
      PROVE  OwnsEndpoint(p)' /\ ConvertsForeign(p)'
  <2>1. Registry(p) \in Registries BY <1>0
  <2>2. /\ site'[Registry(p)] = "none" <=> site[Registry(p)] = "none"
        /\ Free(Registry(p))' <=> Free(Registry(p))
    BY <1>1, <2>1, SitesStay, FreeStays
  <2>3. Registry(p)' = Registry(p) BY <1>1
  <2> QED BY <1>1, <2>2, <2>3 DEF HarborInv, OwnsEndpoint, ConvertsForeign
<1>2. ASSUME ~Busy(p), boot'[p] = boot[p]
      PROVE  OwnsEndpoint(p)' /\ ConvertsForeign(p)'
  BY <1>2 DEF OwnsEndpoint, ConvertsForeign, Busy
<1>3. ASSUME NEW q \in Processes \ {p},
             \/ \E w \in Requests : Begin(q, w)
             \/ BootStep(q) \/ End(q) \/ Kill(q)
      PROVE  OwnsEndpoint(p)' /\ ConvertsForeign(p)'
  BY <1>1, <1>2, <1>3, OthersStay
<1>4. CASE Others
  <2>1. UNCHANGED <<boot, draft, base>>
    BY <1>4 DEF Others, RetireHarbor, DeployHarbor, CreatePublic, StopContainers,
                runButChanges
  <2> QED BY <1>1, <1>2, <2>1
<1>5. ASSUME \/ \E w \in Requests : Begin(p, w)
             \/ BootStep(p) \/ End(p) \/ Kill(p)
      PROVE  OwnsEndpoint(p)' /\ ConvertsForeign(p)'
  <2> USE <1>0 DEF HarborInv, OwnsEndpoint, ConvertsForeign, Free, world, noted, run
  <2>1. ASSUME NEW w \in Requests, Begin(p, w)
        PROVE  OwnsEndpoint(p)' /\ ConvertsForeign(p)'
    BY <2>1 DEF Begin
  <2>2. CASE Load(p) \/ End(p) \/ Kill(p)
    BY <2>2 DEF Load, End, Kill, Forget
  <2>3. CASE Detect(p)
    <3>1. PICK found \in Detected(Registry(p), want[p].protocol) :
            IF found[1] = "error" THEN Fail(p) /\ UNCHANGED draft
            ELSE Adopt(p, found[1], found[2])
      BY <2>3 DEF Detect
    <3>2. CASE found[1] = "error"
      BY <2>3, <3>1, <3>2 DEF Detect
    <3>3. CASE found[1] # "error"
      <4>1. want[p].protocol \in {"auto", "http", "https"} /\ Registry(p) \in Registries
        BY RequestType DEF CommandLines
      <4>2. /\ found[2] \in BOOLEAN
            /\ ~found[2] => site[Registry(p)] = "none"
            /\ found[2] /\ found[1] = "https" => site[Registry(p)] # "none"
        <5>1. /\ found[2] \in BOOLEAN
              /\ ~found[2] => Answers(Registry(p)) = "none"
              /\ found[2] => Answers(Registry(p)) = found[1]
          BY <3>3, <4>1, DetectedIs
        <5>2. /\ Answers(Registry(p)) = "none" => site[Registry(p)] = "none"
              /\ Answers(Registry(p)) = "https" => site[Registry(p)] # "none"
          BY DEF Answers, AnswersOnceUp
        <5> QED BY <5>1, <5>2
      <4>3. UNCHANGED <<site, base, overlaid>> BY <2>3 DEF Detect
      <4>4. CASE Revalidates(p)
        <5>1. /\ boot'[p] \in {"revision", "own", "ownAbsent"}
              /\ boot'[p] = "revision" => found[2] /\ found[1] = "https"
          BY <3>1, <3>3, <4>4 DEF Adopt
        <5>2. draft'[p].registry = draft[p].registry
          BY <3>1, <3>3, <4>4 DEF Adopt
        <5> QED BY <4>2, <4>3, <4>4, <5>1, <5>2
      <4>5. CASE ~Revalidates(p)
        <5>1. draft' = [draft EXCEPT ![p] = [draft[p] EXCEPT !.protocol = found[1],
                          !.managed = IF found[2] THEN "external" ELSE "eva"]]
          BY <3>1, <3>3, <4>5 DEF Adopt
        <5>2. /\ draft'[p].registry = draft[p].registry
              /\ draft'[p].managed = IF found[2] THEN "external" ELSE "eva"
          BY <5>1
        <5>3. \/ boot'[p] = "revision" /\ found[2] /\ found[1] = "https"
              \/ boot'[p] \in {"failed", "runtime"}
          BY <3>1, <3>3, <4>5 DEF Adopt
        <5> QED BY <4>2, <4>3, <5>2, <5>3
      <4> QED BY <4>4, <4>5
    <3> QED BY <3>2, <3>3
  <2>4. CASE DecideOwner(p)
    <3>2. /\ boot'[p] = "failed" \/ draft'[p].registry = draft[p].registry
          /\ boot'[p] = "publishing" => draft'[p].managed = "external"
          /\ boot'[p] = "transport" => Owned(p)
          /\ boot'[p] \in {"failed", "publishing", "transport"}
      BY <2>4, DecideOwnerIs
    <3>3. UNCHANGED <<site, overlaid>>
      BY <2>4 DEF DecideOwner
    <3>4. Owned(p) => Free(Registry(p))
      <4> USE DEF Owned, ComposeApart
      <4> QED BY BootstrapAssumption
    <3> QED BY <3>2, <3>3, <3>4
  <2>5. CASE Upgrade(p) \/ Rollback(p)
    BY <2>5 DEF Upgrade, Rollback, Serve
  <2>6. CASE VerifyUpgrade(p)
    BY <2>6 DEF VerifyUpgrade
  <2>7. CASE EnsureRuntime(p) \/ EnsureDocker(p) \/ EnsurePublishingDocker(p)
    BY <2>7 DEF EnsureRuntime, EnsureDocker, EnsurePublishingDocker
  <2>8. CASE Transport(p) \/ Probe(p) \/ Recover(p)
    BY <2>8 DEF Transport, Probe, Recover
  <2>9. CASE FinishTransport(p)
    BY <2>9 DEF FinishTransport, EndTransport
  <2>10. CASE StopCompose(p) \/ Configure(p) \/ StartCompose(p)
    BY <2>10 DEF StopCompose, Configure, StartCompose
  <2>11. CASE \/ Credential(p) \/ ReadProject(p) \/ CreateProject(p) \/ HideProject(p)
              \/ ConfirmPrivate(p) \/ CheckToken(p) \/ PublicationFails(p)
    BY <2>11 DEF Credential, ReadProject, CreateProject, HideProject, ConfirmPrivate,
       CheckToken, PublicationFails, AskOperator
  <2>12. CASE Login(p) \/ Check(p) \/ WriteReceipt(p)
    BY <2>12 DEF Login, Check, WriteReceipt
  <2>13. CASE ReadRevision(p)
    <3>1. draft'[p].registry = draft[p].registry /\ draft'[p].managed = draft[p].managed
      BY <2>13 DEF ReadRevision
    <3>2. boot[p] = "revision" /\ boot'[p] \in {"upgrade", "failed"} /\ UNCHANGED <<site, base>>
      BY <2>13 DEF ReadRevision
    <3> QED BY <3>1, <3>2
  <2> QED
    BY <1>5, <2>1, <2>2, <2>3, <2>4, <2>5, <2>6, <2>7, <2>8, <2>9, <2>10, <2>11, <2>12, <2>13
       DEF BootStep
<1> QED BY <1>3, <1>4, <1>5 DEF Next

\* Docker, when it starts, creates no container, and Compose creates them only
\* for a run that knows the endpoint to be its own.
LEMMA ComposeApartStep ==
  ASSUME BaseInv, HarborInv, Next
  PROVE  ComposeApart'
<1>0. BootTypes BY BaseIsTyped
<1>1. CASE Others
  <2>1. UNCHANGED <<boot, draft, base, compose>>
    BY <1>1 DEF Others, RetireHarbor, DeployHarbor, CreatePublic, StopContainers,
                runButChanges, worldButSite, worldButProject, world, noted
  <2>2. CASE UNCHANGED <<site, containers, overlaid>>
    BY <2>1, <2>2 DEF HarborInv, ComposeApart, Free
  <2>3. CASE StopContainers
    BY <2>1, <2>3 DEF HarborInv, ComposeApart, Free, StopContainers, world, noted
  <2>4. ASSUME NEW r \in Registries,
               RetireHarbor(r) \/ \E protocol \in Protocols : DeployHarbor(r, protocol)
        PROVE  ComposeApart'
    BY <2>1, <2>4, <1>0 DEF HarborInv, ComposeApart, Free, RetireHarbor, DeployHarbor, Quiet, Busy,
       Serve, transportVars
  <2> QED BY <1>1, <2>2, <2>3, <2>4
          DEF Others, CreatePublic, transportVars, worldButProject, noted
<1>2. ASSUME NEW q \in Processes,
             \/ \E w \in Requests : Begin(q, w)
             \/ BootStep(q) \/ End(q) \/ Kill(q)
      PROVE  ComposeApart'
  <2>1. ASSUME Busy(q) PROVE \A r \in Registries : Free(r)' <=> Free(r)
    BY <2>1, <1>2, FreeStays DEF Next
  <2>2. \A p \in Processes \ {q} : boot'[p] = boot[p] /\ draft'[p] = draft[p] /\ base'[p] = base[p]
    BY <1>2, OthersStay
  <2>3. \A r \in Registries : Free(r) => Free(r)'
    BY <2>1, <1>2 DEF Free, Begin, world, noted, Busy, BootStep, Load, Detect, DecideOwner,
       ReadRevision, Upgrade, VerifyUpgrade, Rollback, EnsureRuntime, EnsureDocker,
       EnsurePublishingDocker, Transport, FinishTransport, Probe, Recover, StopCompose,
       Configure, StartCompose, Credential, ReadProject, CreateProject, HideProject,
       ConfirmPrivate, CheckToken, PublicationFails, Login, Check, WriteReceipt, End, Kill
  <2>4. CASE Configure(q)
    <3>1. \/ compose' = Registry(q) /\ boot'[q] = "up"
          \/ compose' = compose /\ boot'[q] = "failed"
      BY <1>0, <2>4 DEF Configure
    <3>2. Registry(q) \in Registries /\ Free(Registry(q))
      BY <1>0, <2>4 DEF HarborInv, OwnsEndpoint, Configure
    <3>3. UNCHANGED containers BY <2>4 DEF Configure, transportVars
    <3> QED BY <1>0, <2>2, <2>3, <3>1, <3>2, <3>3, BootstrapAssumption
            DEF HarborInv, ComposeApart
  <2>5. CASE ~Configure(q)
    <3>1. UNCHANGED compose
      BY <1>2, <2>5 DEF Begin, world, BootStep, Load, Detect, DecideOwner, ReadRevision,
         Upgrade, VerifyUpgrade, Rollback, EnsureRuntime, EnsureDocker,
         EnsurePublishingDocker, Transport, FinishTransport, Probe, Recover, StopCompose,
         StartCompose, Credential, ReadProject, CreateProject, HideProject,
         ConfirmPrivate, CheckToken, PublicationFails, Login, Check, WriteReceipt, End, Kill,
         worldButSite, worldButProject
    <3>2. \/ containers' # "none" => containers # "none"
          \/ boot[q] \in {"up", "recover"}
      <4>1. CASE Elsewhere(q)
        BY <4>1, ElsewhereKeeps DEF transportVars
      <4>2. CASE Composing(q)
        BY <4>2 DEF Composing, Recover, StopCompose, StartCompose
      <4>3. CASE Kill(q) \/ DecideOwner(q) \/ FinishTransport(q)
        BY <4>3 DEF Kill, KillTransport, DecideOwner, BeginTransport, FinishTransport,
                    EndTransport, transportVars
      <4>4. CASE EnsureDocker(q) \/ EnsurePublishingDocker(q)
        BY <4>4 DEF EnsureDocker, EnsurePublishingDocker, StartDocker, Restarted, transportVars
      <4>5. CASE Transport(q)
        BY <4>5 DEF Transport, TransportStep, ReadDaemon, WriteDaemon, ValidateDaemon,
                    RestartDocker, WaitForDocker, RestoreDaemon, RestartBack, Restarted
      <4> QED BY <1>2, <4>1, <4>2, <4>3, <4>4, <4>5 DEF BootStep, Elsewhere, Composing
    <3>3. boot[q] \in {"up", "recover"} => compose # None /\ Free(compose)
      BY DEF HarborInv, ComposeApart, OwnsEndpoint
    <3>4. ASSUME \/ boot'[q] = "up"
                 \/ boot'[q] \in ForOwnHarbor /\ ~IsExternal(q)' /\ Revalidates(q)'
          PROVE  compose # None /\ Free(compose)
      <4>1. CASE DecideOwner(q)
        <5>1. Owned(q) BY <3>4, <4>1, DecideOwnerIs
        <5> QED BY <1>0, <5>1, BootstrapAssumption DEF Owned, HarborInv, ComposeApart
      <4>2. CASE Detect(q)
        <5>1. boot'[q] = "runtime" => ~Revalidates(q)
          BY <1>0, <4>2 DEF Detect, Adopt
        <5>2. boot'[q] \in {"failed", "runtime", "revision", "own", "ownAbsent"} /\ UNCHANGED base
          BY <1>0, <4>2 DEF Detect, Adopt
        <5> QED BY <3>4, <5>1, <5>2
      <4>3. CASE VerifyUpgrade(q)
        <5>1. /\ boot'[q] \in {"own", "runtime", "rollback"} /\ UNCHANGED base
              /\ boot'[q] = "runtime" => ~Revalidates(q)
          BY <1>0, <4>3 DEF VerifyUpgrade
        <5> QED BY <3>4, <5>1
      <4>4. CASE EnsurePublishingDocker(q)
        <5>1. IsExternal(q)' /\ boot'[q] # "up"
          BY <1>0, <4>4 DEF EnsurePublishingDocker, run, HarborInv, OwnsEndpoint
        <5> QED BY <3>4, <5>1
      <4>5. CASE \/ EnsureRuntime(q) \/ EnsureDocker(q) \/ Transport(q) \/ FinishTransport(q)
                 \/ Probe(q) \/ Recover(q) \/ StopCompose(q) \/ StartCompose(q)
        <5>1. boot[q] \in ForOwnHarbor /\ boot'[q] # "up" /\ UNCHANGED <<draft, base>>
          BY <1>0, <4>5 DEF EnsureRuntime, EnsureDocker, Transport, FinishTransport, Probe,
                            Recover, StopCompose, StartCompose, run
        <5> QED BY <3>4, <5>1 DEF HarborInv, ComposeApart
      <4>6. CASE \/ \E w \in Requests : Begin(q, w)
                 \/ Load(q) \/ ReadRevision(q) \/ Upgrade(q) \/ Rollback(q) \/ End(q) \/ Kill(q)
        <5>1. boot'[q] \in {"load", "detect", "failed", "upgrade", "verify", "rollback", "idle"}
          BY <1>0, <4>6 DEF Begin, Load, ReadRevision, Upgrade, Rollback, End, Kill, Forget
        <5> QED BY <3>4, <5>1
      <4>7. CASE \/ Credential(q) \/ ReadProject(q) \/ CreateProject(q) \/ HideProject(q)
                 \/ ConfirmPrivate(q) \/ CheckToken(q) \/ PublicationFails(q) \/ Login(q)
                 \/ Check(q) \/ WriteReceipt(q)
        <5>1. boot'[q] \in Publication \cup {"login", "check", "write", "ok", "failed"}
          BY <1>0, <4>7 DEF Credential, ReadProject, CreateProject, HideProject,
             ConfirmPrivate, CheckToken, PublicationFails, Login, Check, WriteReceipt, AskOperator
        <5> QED BY <3>4, <5>1
      <4> QED BY <1>2, <2>5, <4>1, <4>2, <4>3, <4>4, <4>5, <4>6, <4>7 DEF BootStep
    <3> QED BY <1>0, <2>2, <2>3, <3>1, <3>2, <3>3, <3>4 DEF HarborInv, ComposeApart
  <2> QED BY <2>4, <2>5
<1> QED BY <1>1, <1>2 DEF Next

\* A Harbor is left broken only by a run that was killed or could not roll back.
LEMMA BrokenIsHeldStep ==
  ASSUME BaseInv, HarborInv, Next
  PROVE  BrokenIsHeld'
<1>0. BootTypes BY BaseIsTyped
<1> USE DEF HarborInv, BrokenIsHeld
<1>1. CASE Others
  <2>1. UNCHANGED <<boot, draft, meddled>>
    BY <1>1 DEF Others, RetireHarbor, DeployHarbor, CreatePublic, StopContainers,
                runButChanges, worldButSite, worldButProject, world, noted
  <2>2. \A r \in Registries : site'[r] = "broken" => site[r] = "broken"
    BY <1>0, <1>1 DEF Others, RetireHarbor, DeployHarbor, CreatePublic, StopContainers,
                Serve, worldButProject, world, noted
  <2> QED BY <2>1, <2>2
<1>2. ASSUME NEW q \in Processes,
             \/ \E w \in Requests : Begin(q, w)
             \/ BootStep(q) \/ End(q) \/ Kill(q)
      PROVE  BrokenIsHeld'
  <2>1. \A p \in Processes \ {q} : boot'[p] = boot[p] /\ draft'[p] = draft[p] /\ base'[p] = base[p]
    BY <1>2, OthersStay
  <2>2. CASE Upgrade(q)
    BY <1>0, <2>1, <2>2 DEF Upgrade, Serve, noted, run
  <2>3. CASE Rollback(q)
    <3>1. draft[q].protocol # "broken" BY <1>0
    <3> QED BY <1>0, <2>1, <2>3, <3>1 DEF Rollback, Serve, run
  <2>4. CASE Kill(q)
    <3>1. boot'[q] = "idle" /\ meddled' = (meddled \/ boot[q] \in Converting)
      BY <1>0, <2>4 DEF Kill, Forget, BootTypes
    <3>2. site' = site \/ boot[q] \in Converting
      BY <2>4 DEF Kill, Converting
    <3>3. boot[q] = "rollback" => boot[q] \in Converting BY DEF Converting
    <3> SUFFICES ASSUME ~meddled', NEW r \in Registries, site'[r] = "broken"
                 PROVE  \E p \in Processes : boot'[p] = "rollback" /\ Registry(p)' = r
      BY DEF BrokenIsHeld
    <3>4. ~meddled /\ boot[q] \notin Converting BY <3>1
    <3>5. PICK p \in Processes : boot[p] = "rollback" /\ Registry(p) = r
      BY <3>2, <3>4
    <3>6. p # q BY <3>3, <3>4, <3>5
    <3> QED BY <2>1, <3>5, <3>6 DEF Registry
  <2>5. CASE ~(Upgrade(q) \/ Rollback(q) \/ Kill(q))
    <3>1. UNCHANGED <<site, meddled>> /\ boot[q] # "rollback"
      BY <1>2, <2>5 DEF BootStep, Begin, Load, Detect, DecideOwner, ReadRevision,
         VerifyUpgrade, EnsureRuntime, EnsureDocker, EnsurePublishingDocker, Transport,
         FinishTransport, Probe, Recover, StopCompose, Configure, StartCompose, Credential,
         ReadProject, CreateProject, HideProject, ConfirmPrivate, CheckToken, PublicationFails,
         Login, Check, WriteReceipt, End, world, worldButProject, noted
    <3> QED BY <2>1, <3>1
  <2> QED BY <2>2, <2>3, <2>4, <2>5
<1> QED BY <1>1, <1>2 DEF Next

\* From the token on nobody makes the project public again: it is created only
\* when it is absent, and its Harbor stays.
LEMMA HasPrivateStep ==
  ASSUME BaseInv, HarborInv, Next, NEW p \in Processes
  PROVE  HasPrivate(p)'
<1>0. BootTypes BY BaseIsTyped
<1>1. \A h \in Registries \cup {Own} :
        project[h] = "private" /\ ~(\E r \in Registries : RetireHarbor(r))
          => project'[h] = "private"
  <2>1. CASE UNCHANGED project BY <2>1
  <2>2. ASSUME NEW q \in Processes,
               StartCompose(q) \/ CreateProject(q) \/ HideProject(q)
        PROVE  \A h \in Registries \cup {Own} : project[h] = "private" => project'[h] = "private"
    BY <1>0, <2>2 DEF StartCompose, CreateProject, HideProject, SetProject, EvaProject
  <2>3. ASSUME NEW h \in Registries \cup {Own}, CreatePublic(h)
        PROVE  \A g \in Registries \cup {Own} : project[g] = "private" => project'[g] = "private"
    BY <1>0, <2>3 DEF CreatePublic
  <2>4. \/ UNCHANGED project
        \/ \E q \in Processes : StartCompose(q) \/ CreateProject(q) \/ HideProject(q)
        \/ \E h \in Registries \cup {Own} : CreatePublic(h)
        \/ \E r \in Registries : RetireHarbor(r)
    <3>1. ASSUME NEW q \in Processes, OnlyRemembers(q) PROVE UNCHANGED project
      BY <3>1, WorldStays DEF world
    <3>2. ASSUME NEW q \in Processes,
                 \/ Upgrade(q) \/ Rollback(q) \/ Configure(q) \/ Login(q) \/ WriteReceipt(q)
                 \/ Kill(q)
          PROVE  UNCHANGED project
      BY <3>2 DEF Upgrade, Rollback, Configure, Login, WriteReceipt, Kill, worldButSite
    <3>3. ASSUME NEW r \in Registries, NEW protocol \in Protocols, DeployHarbor(r, protocol)
          PROVE  UNCHANGED project
      BY <3>3 DEF DeployHarbor, worldButSite
    <3>4. CASE StopContainers BY <3>4 DEF StopContainers, world
    <3> QED BY <3>1, <3>2, <3>3, <3>4, NextIs DEF Others
  <2> QED BY <2>1, <2>2, <2>3, <2>4
<1>2. ASSUME Busy(p), boot'[p] = boot[p], draft'[p] = draft[p]
      PROVE  HasPrivate(p)'
  <2>1. Registry(p) \in Registries BY <1>0
  <2>2. site'[Registry(p)] = "none" <=> site[Registry(p)] = "none"
    BY <1>2, <2>1, SitesStay
  <2>3. ~(\E r \in Registries : RetireHarbor(r))
    BY <1>2 DEF RetireHarbor, Quiet
  <2>4. HarborAt(Registry(p)) \in Registries \cup {Own} BY <2>1 DEF HarborAt
  <2>5. HarborAt(Registry(p))' = HarborAt(Registry(p)) BY <1>2, <2>2 DEF HarborAt
  <2> QED BY <1>1, <1>2, <2>3, <2>4, <2>5 DEF HarborInv, HasPrivate
<1>3. ASSUME ~Busy(p), boot'[p] = boot[p]
      PROVE  HasPrivate(p)'
  BY <1>3 DEF HasPrivate, Busy
<1>4. ASSUME NEW q \in Processes \ {p},
             \/ \E w \in Requests : Begin(q, w)
             \/ BootStep(q) \/ End(q) \/ Kill(q)
      PROVE  HasPrivate(p)'
  BY <1>2, <1>3, <1>4, OthersStay
<1>5. CASE Others
  <2>1. UNCHANGED <<boot, draft>>
    BY <1>5 DEF Others, RetireHarbor, DeployHarbor, CreatePublic, StopContainers,
                runButChanges
  <2> QED BY <1>2, <1>3, <2>1
<1>6. ASSUME \/ \E w \in Requests : Begin(p, w)
             \/ BootStep(p) \/ End(p) \/ Kill(p)
      PROVE  HasPrivate(p)'
  <2>1. CASE \/ ReadProject(p) \/ ConfirmPrivate(p) \/ CheckToken(p) \/ Login(p) \/ Check(p)
             \/ WriteReceipt(p)
    BY <1>0, <2>1 DEF HarborInv, HasPrivate, ReadProject, ConfirmPrivate, CheckToken, Login,
       Check, WriteReceipt, EvaProject, HarborAt, world, run
  <2>2. CASE Credential(p) \/ CreateProject(p) \/ HideProject(p) \/ PublicationFails(p)
    BY <1>0, <2>2 DEF HasPrivate, Credential, CreateProject, HideProject, PublicationFails,
       AskOperator, run
  <2>3. CASE \/ EnsureRuntime(p) \/ EnsureDocker(p) \/ EnsurePublishingDocker(p)
             \/ Transport(p) \/ FinishTransport(p) \/ Probe(p) \/ Recover(p) \/ StopCompose(p)
             \/ Configure(p) \/ StartCompose(p)
    BY <1>0, <2>3 DEF HasPrivate, EnsureRuntime, EnsureDocker, EnsurePublishingDocker,
       Transport, FinishTransport, Probe, Recover, StopCompose, Configure, StartCompose
  <2>4. CASE \/ \E w \in Requests : Begin(p, w)
             \/ Load(p) \/ ReadRevision(p) \/ Upgrade(p) \/ Rollback(p) \/ VerifyUpgrade(p)
             \/ End(p) \/ Kill(p)
    BY <1>0, <2>4 DEF HasPrivate, Begin, Load, ReadRevision, Upgrade, Rollback,
       VerifyUpgrade, End, Kill, Forget
  <2>5. CASE Detect(p)
    BY <1>0, <2>5 DEF HasPrivate, Detect, Adopt
  <2>6. CASE DecideOwner(p)
    BY <1>0, <2>6, DecideOwnerIs DEF HasPrivate
  <2> QED BY <1>6, <2>1, <2>2, <2>3, <2>4, <2>5, <2>6 DEF BootStep
<1> QED BY <1>4, <1>5, <1>6 DEF Next

\* A run that steps, and none overlaps, is the only one before and after.
LEMMA OthersAreIdle ==
  ASSUME BaseInv, ReadyInv, ~crowded', NEW p \in Processes, NEW q \in Processes \ {p},
         \/ \E w \in Requests : Begin(p, w)
         \/ BootStep(p) \/ End(p) \/ Kill(p)
  PROVE  boot'[q] = "idle"
<1>1. boot'[q] = boot[q] BY OthersStay
<1>2. ASSUME NEW w \in Requests, Begin(p, w) PROVE boot[q] = "idle"
  BY <1>2 DEF Begin, Busy
<1>3. CASE BootStep(p) \/ End(p) \/ Kill(p)
  <2>1. Busy(p)
    BY <1>3 DEF Busy, BootStep, Load, Detect, DecideOwner, ReadRevision, Upgrade,
       VerifyUpgrade, Rollback, EnsureRuntime, EnsureDocker, EnsurePublishingDocker,
       Transport, FinishTransport, Probe, Recover, StopCompose, Configure, StartCompose,
       Credential, ReadProject, CreateProject, HideProject, ConfirmPrivate, CheckToken,
       PublicationFails, Login, Check, WriteReceipt, End, Kill
  <2>2. UNCHANGED crowded
    BY <1>3 DEF BootStep, Load, Detect, DecideOwner, ReadRevision, Upgrade,
       VerifyUpgrade, Rollback, EnsureRuntime, EnsureDocker, EnsurePublishingDocker,
       Transport, FinishTransport, Probe, Recover, StopCompose, Configure, StartCompose,
       Credential, ReadProject, CreateProject, HideProject, ConfirmPrivate, CheckToken,
       PublicationFails, Login, Check, WriteReceipt, End, Kill, Forget, run
  <2> QED BY <1>1, <2>1, <2>2 DEF ReadyInv, Busy
<1> QED BY <1>1, <1>2, <1>3

\* What the only run has tested it keeps, step after step.
LEMMA OnlyRunIsReady ==
  ASSUME BaseInv, ReadyInv, ~crowded', NEW p \in Processes,
         \/ \E w \in Requests : Begin(p, w)
         \/ BootStep(p) \/ End(p) \/ Kill(p)
  PROVE  /\ HasLogin(p)' => /\ Registry(p)' \in login'
                            /\ draft'[p].protocol = "http" => Registry(p)' \in live'
         /\ boot'[p] = "write" => Ready(p)'
<1>0. BootTypes BY BaseIsTyped
<1> USE DEF HasLogin
<1>1. CASE \/ ReadProject(p) \/ CreateProject(p) \/ HideProject(p) \/ ConfirmPrivate(p)
           \/ CheckToken(p) \/ PublicationFails(p)
  <2>1. /\ UNCHANGED <<draft, login, live, crowded>>
        /\ boot[p] \in Publication
        /\ boot'[p] \in Publication \cup {"login", "check", "failed"}
        /\ boot'[p] = "check" => ~IsExternal(p)
    BY <1>0, <1>1 DEF ReadProject, CreateProject, HideProject, ConfirmPrivate, CheckToken,
       PublicationFails, AskOperator, world, worldButProject, run, transportVars
  <2> QED BY <2>1 DEF ReadyInv
<1>2. CASE Login(p)
  BY <1>0, <1>2 DEF Login, run, transportVars
<1>3. CASE Check(p)
  <2>1. UNCHANGED <<draft, login, live, crowded>>
    BY <1>3 DEF Check, world, run, transportVars
  <2>2. boot[p] = "check" /\ boot'[p] \in {"ok", "write", "failed"}
    BY <1>0, <1>3 DEF Check
  <2>3. boot'[p] = "write" => Ready(p)
    BY <1>0, <1>3 DEF Check
  <2>4. Ready(p)' <=> Ready(p)
    BY <1>3 DEF Check, Ready, Answers, AnswersOnceUp, world, run, transportVars
  <2> QED BY <2>1, <2>2, <2>3, <2>4 DEF ReadyInv
<1>4. CASE WriteReceipt(p) \/ End(p) \/ Kill(p) \/ \E w \in Requests : Begin(p, w)
  BY <1>0, <1>4 DEF WriteReceipt, End, Kill, Forget, Begin
<1>5. CASE \/ Load(p) \/ ReadRevision(p) \/ Upgrade(p) \/ VerifyUpgrade(p) \/ Rollback(p)
           \/ EnsureRuntime(p) \/ EnsureDocker(p) \/ EnsurePublishingDocker(p)
           \/ Transport(p) \/ FinishTransport(p) \/ Probe(p) \/ Recover(p) \/ StopCompose(p)
           \/ Configure(p) \/ StartCompose(p)
  BY <1>0, <1>5 DEF Load, ReadRevision, Upgrade, VerifyUpgrade, Rollback, EnsureRuntime,
     EnsureDocker, EnsurePublishingDocker, Transport, FinishTransport, Probe, Recover,
     StopCompose, Configure, StartCompose
<1>6. CASE Detect(p)
  BY <1>0, <1>6 DEF Detect, Adopt
<1>7. CASE DecideOwner(p)
  BY <1>7, DecideOwnerIs
<1>8. CASE Credential(p)
  BY <1>0, <1>8 DEF Credential, AskOperator
<1> QED BY <1>1, <1>2, <1>3, <1>4, <1>5, <1>6, <1>7, <1>8 DEF BootStep

\* While a run lasts, nobody else changes what answers.
LEMMA EveryoneElseLeavesReady ==
  ASSUME BaseInv, ReadyInv, Others
  PROVE  ReadyInv'
<1>1. UNCHANGED <<boot, draft, login, live, crowded>>
  BY DEF Others, RetireHarbor, DeployHarbor, CreatePublic, StopContainers, runButChanges,
     worldButSite, worldButProject, world, transportVars, transportButContainers
<1>2. CASE Quiet
  BY <1>1, <1>2 DEF ReadyInv, Quiet, Busy, HasLogin
<1>3. CASE ~Quiet
  <2>1. UNCHANGED <<site, compose, containers, docker>>
    BY <1>3 DEF Others, RetireHarbor, DeployHarbor, CreatePublic, StopContainers,
       worldButProject, transportVars
  <2> QED BY <1>1, <2>1 DEF ReadyInv, Busy, HasLogin, Ready, Answers, AnswersOnceUp
<1> QED BY <1>2, <1>3

LEMMA ReadyInvStep == BaseInv /\ ReadyInv /\ Next => ReadyInv'
<1> SUFFICES ASSUME BaseInv, ReadyInv, Next PROVE ReadyInv'
  OBVIOUS
<1>1. ASSUME ~crowded', NEW p \in Processes,
             \/ \E w \in Requests : Begin(p, w)
             \/ BootStep(p) \/ End(p) \/ Kill(p)
      PROVE  ReadyInv'
  <2>1. \A q \in Processes \ {p} : boot'[q] = "idle" BY <1>1, OthersAreIdle
  <2>2. \A q \in Processes \ {p} : ~HasLogin(q)' BY <2>1 DEF HasLogin
  <2> QED BY <1>1, <2>1, <2>2, OnlyRunIsReady DEF ReadyInv, Busy
<1>2. CASE crowded' BY <1>2 DEF ReadyInv
<1> QED BY <1>1, <1>2, EveryoneElseLeavesReady DEF Next

-----------------------------------------------------------------------------
LEMMA InvInit == Init => Inv
<1>1. Init => ReadyInv BY DEF Init, ReadyInv, Busy, HasLogin
<1> QED BY <1>1, BaseInvInit, HarborInvInit DEF Inv

LEMMA InvStep == Inv /\ [Next]_vars => Inv'
<1> SUFFICES ASSUME Inv, [Next]_vars PROVE Inv'
  OBVIOUS
<1>1. BaseInv' BY BaseInvStep DEF Inv
<1>2. CASE Next
  BY <1>1, <1>2, OwnsEndpointStep, ComposeApartStep, BrokenIsHeldStep, HasPrivateStep,
     ReadyInvStep DEF Inv, HarborInv
<1>3. CASE UNCHANGED vars
  <2>1. HarborInv'
    BY <1>3 DEF Inv, HarborInv, ComposeApart, BrokenIsHeld, OwnsEndpoint, ConvertsForeign,
       HasPrivate, Free, HarborAt, vars, transportVars
  <2>2. ReadyInv'
    BY <1>3 DEF Inv, ReadyInv, Busy, HasLogin, Ready, Answers, AnswersOnceUp, vars, transportVars
  <2> QED BY <1>1, <2>1, <2>2 DEF Inv
<1> QED BY <1>2, <1>3

LEMMA BootstrapInvariant == Spec => []Inv
BY InvInit, InvStep, PTL DEF Spec

\* Harbors that others run survive overlapping bootstraps and their failures,
\* with the exceptions that ForeignHarborKept names: killed conversions, failed
\* rollbacks, and a Harbor that came over stopped containers of eva
\* (convertK3sHarborHTTP, detectExistingHarbor, ownsManagedHarbor).
THEOREM ForeignHarborAlwaysKept == Spec => []ForeignHarborKept
<1>1. Inv => ForeignHarborKept
  BY DEF Inv, HarborInv, BrokenIsHeld, ComposeApart, Free, ForeignHarborKept
<1> QED BY <1>1, BootstrapInvariant, PTL

\* Nothing but the last step of a run changes the receipt.
LEMMA ReceiptIsWritten ==
  ASSUME Next, receipt' # receipt
  PROVE  \E p \in Processes : WriteReceipt(p)
<1>1. ASSUME NEW q \in Processes, OnlyRemembers(q) PROVE UNCHANGED receipt
  BY <1>1, WorldStays DEF world
<1>2. ASSUME NEW q \in Processes,
             \/ Upgrade(q) \/ Rollback(q) \/ Configure(q) \/ StartCompose(q)
             \/ CreateProject(q) \/ HideProject(q) \/ Login(q) \/ Kill(q)
      PROVE  UNCHANGED receipt
  BY <1>2 DEF Upgrade, Rollback, Configure, StartCompose, CreateProject, HideProject, Login,
              Kill, worldButSite, worldButProject
<1>3. CASE Others
  BY <1>3 DEF Others, RetireHarbor, DeployHarbor, CreatePublic, StopContainers,
              worldButSite, worldButProject, world
<1> QED BY <1>1, <1>2, <1>3, NextIs

\* The receipt never names a registry whose project is not private
\* (ensureHarborPublicationWithClient).
THEOREM ProjectAlwaysPrivate == Spec => ProjectIsPrivate
<1>1. Inv /\ [Next]_vars
        => [receipt' # receipt => project[HarborAt(receipt'.registry)] = "private"]_vars
  <2> SUFFICES ASSUME Inv, Next, receipt' # receipt
               PROVE  project[HarborAt(receipt'.registry)] = "private"
    OBVIOUS
  <2>1. PICK p \in Processes : WriteReceipt(p) BY ReceiptIsWritten
  <2> QED BY <2>1 DEF WriteReceipt, Inv, HarborInv, HasPrivate
<1> QED BY <1>1, BootstrapInvariant, PTL DEF Spec, ProjectIsPrivate

\* When no other bootstrap runs, the receipt says what there is: a Harbor that
\* answers in its protocol, a stored login and a Docker that may use it
\* (Bootstrap, prepareExternalTransport).
THEOREM ReceiptAlwaysReady == Spec => ReceiptIsReady
<1>1. Inv /\ [Next]_vars
        => [(receipt' # receipt /\ ~crowded) =>
              /\ Answers(receipt'.registry) = receipt'.protocol
              /\ receipt'.registry \in login
              /\ receipt'.protocol = "http" => receipt'.registry \in live]_vars
  <2> SUFFICES ASSUME Inv, Next, receipt' # receipt, ~crowded
               PROVE  /\ Answers(receipt'.registry) = receipt'.protocol
                      /\ receipt'.registry \in login
                      /\ receipt'.protocol = "http" => receipt'.registry \in live
    OBVIOUS
  <2>1. PICK p \in Processes : WriteReceipt(p) BY ReceiptIsWritten
  <2> QED BY <2>1 DEF WriteReceipt, Inv, ReadyInv, HasLogin, Ready
<1> QED BY <1>1, BootstrapInvariant, PTL DEF Spec, ReceiptIsReady
=============================================================================
