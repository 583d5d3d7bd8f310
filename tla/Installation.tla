---------------------------- MODULE Installation ----------------------------
(***************************************************************************)
(* The commands of one control host that touch its runtime, its releases   *)
(* and its packages, composed of HostPackages, RuntimeDirectory and        *)
(* ReleaseStore.                                                           *)
(*                                                                         *)
(* A command is one run of eva.  `eva runtime bootstrap` prepares the host *)
(* and then replaces the runtime; `eva install` selects a release, waits   *)
(* for the operator, ensures the runtime, and then prepares the release    *)
(* and plans the operation.  Runs interleave step by step: no lock spans   *)
(* them.                                                                   *)
(***************************************************************************)
EXTENDS HostPackages, RuntimeDirectory, ReleaseStore

CONSTANTS MaxCommands    \* bound: commands the operators start

ASSUME InstallationAssumption == MaxCommands \in Nat

VARIABLES
  phase,      \* phase[p]: which part of its command p is in
  commands    \* how many commands were started

vars == <<hostVars, runtimeVars, releaseVars, phase, commands>>

-----------------------------------------------------------------------------
Modes == {"online", "remote", "local"}
Phases == {"idle", "host", "bootstrapHost", "runtime", "release", "ensure"}

Init ==
  /\ HostInit /\ RuntimeInit /\ ReleaseInit
  /\ phase = [p \in Processes |-> "idle"]
  /\ commands = 0

Phase(p, next) == phase' = [phase EXCEPT ![p] = next]
Start(p, next) ==
  /\ phase[p] = "idle"
  /\ commands < MaxCommands
  /\ commands' = commands + 1
  /\ Phase(p, next)

-----------------------------------------------------------------------------
\* internal ensure-apt-repositories, and troubleshoot apt --fix-known.
StartRepository(p) ==
  /\ Start(p, "host")
  /\ BeginHost(p, "repository")
  /\ UNCHANGED <<runtimeVars, releaseVars>>

\* runtime bootstrap without --offline.
StartBootstrapOnline(p) ==
  /\ Start(p, "bootstrapHost")
  /\ BeginHost(p, "prerequisites")
  /\ UNCHANGED <<runtimeVars, releaseVars>>

\* What arrives for one pinned tool; only the pinned digest is unpacked, and
\* only when its archive holds the tool.
Downloads == {"pinned", "altered", "withoutTool", "nothing"}
InstallsArtifact(download) == download = "pinned"

\* The payload is built beside the root, resolved, and handed to Install;
\* nothing of it is left when a step fails.
BuildOnlineRuntime(p) ==
  /\ phase[p] = "bootstrapHost" /\ host[p] = "ready"
  /\ EndHost(p)
  /\ \E environment \in BOOLEAN, download \in Downloads :
       IF environment /\ InstallsArtifact(download)
       THEN /\ Phase(p, "runtime")
            /\ \E v \in Versions : BeginReplace(p, v)
       ELSE Phase(p, "idle") /\ UNCHANGED runtimeVars
  /\ UNCHANGED <<releaseVars, commands>>

\* runtime install --source, and runtime bootstrap --offline.
StartRuntime(p) ==
  /\ Start(p, "runtime")
  /\ \E v \in Payloads : BeginReplace(p, v)
  /\ UNCHANGED <<hostVars, releaseVars>>

StartRelease(p) ==
  /\ Start(p, "release")
  /\ \E command \in Verbs : BeginRelease(p, command)
  /\ UNCHANGED <<hostVars, runtimeVars>>

\* install: ensureInstallRuntimeForRepository, once the operator agreed.
EnsureRuntime(p) ==
  /\ phase[p] = "release" /\ rel[p] = "approved"
  /\ Phase(p, "ensure")
  /\ \E mode \in Modes, v \in Payloads : BeginEnsure(p, mode, v)
  /\ UNCHANGED <<hostVars, releaseVars, commands>>

UseRuntime(p) ==
  /\ phase[p] = "ensure" /\ RuntimeAtRest(p)
  /\ Phase(p, "release")
  /\ IF step[p] = "ok" THEN ContinueInstall(p) ELSE AbandonInstall(p)
  /\ EndRuntime(p)
  /\ UNCHANGED <<hostVars, commands>>

\* The command ends with the part it is in.
Finish(p) ==
  /\ \/ /\ phase[p] \in {"host", "bootstrapHost"}
        /\ phase[p] = "host" \/ host[p] = "failed"
        /\ EndHost(p) /\ UNCHANGED <<runtimeVars, releaseVars>>
     \/ phase[p] = "runtime" /\ EndRuntime(p) /\ UNCHANGED <<hostVars, releaseVars>>
     \/ phase[p] = "release" /\ EndRelease(p) /\ UNCHANGED <<hostVars, runtimeVars>>
  /\ Phase(p, "idle")
  /\ UNCHANGED commands

Work(p) ==
  /\ \/ HostStep(p) /\ UNCHANGED <<runtimeVars, releaseVars>>
     \/ RuntimeStep(p) /\ UNCHANGED <<hostVars, releaseVars>>
     \/ ReleaseStep(p) /\ UNCHANGED <<hostVars, runtimeVars>>
  /\ UNCHANGED <<phase, commands>>

\* A killed command dies in whichever part it is.
Kill(p) ==
  /\ \/ KillOnHost(p) /\ UNCHANGED <<runtimeVars, releaseVars>>
     \/ /\ KillInstaller(p)
        /\ IF phase[p] = "ensure" THEN KillReleaseRun(p) ELSE UNCHANGED releaseVars
        /\ UNCHANGED hostVars
     \/ /\ phase[p] = "release" /\ KillReleaseRun(p)
        /\ UNCHANGED <<hostVars, runtimeVars>>
  /\ Phase(p, "idle")
  /\ UNCHANGED commands

Next ==
  \/ Replace /\ UNCHANGED <<hostVars, runtimeVars, phase, commands>>
  \/ \E p \in Processes :
       \/ StartRepository(p) \/ StartBootstrapOnline(p) \/ StartRuntime(p)
       \/ StartRelease(p)
       \/ BuildOnlineRuntime(p) \/ EnsureRuntime(p) \/ UseRuntime(p)
       \/ Finish(p) \/ Work(p) \/ Kill(p)

Spec == Init /\ [][Next]_vars

-----------------------------------------------------------------------------
TypeOK ==
  /\ HostTypeOK /\ RuntimeTypeOK /\ ReleaseTypeOK
  /\ phase \in [Processes -> Phases]
  /\ commands \in 0..MaxCommands
=============================================================================
