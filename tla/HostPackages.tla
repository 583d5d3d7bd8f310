---------------------------- MODULE HostPackages ----------------------------
(***************************************************************************)
(* The APT sources and packages of the control host, as                    *)
(* apt.Service.Ensure repairs them (internal/apt/apt.go) and as            *)
(* installOnlinePrerequisites prepares them for the online runtime         *)
(* (internal/runtime/apt_prerequisites.go).                                *)
(*                                                                         *)
(* Ensure may replace two files of the host, the Jenkins source entry and  *)
(* its keyring.  It first copies what is there to a temporary directory    *)
(* and puts both back when a later step fails.  Nothing locks the files:   *)
(* another `eva` may be doing the same.                                    *)
(*                                                                         *)
(* Data abstracted: a file is its contents, "old" being whatever the host  *)
(* had; the state of dpkg is whether its dependencies are whole.           *)
(***************************************************************************)
EXTENDS ControlHost

CONSTANTS FirstFiles    \* the files a host may have before eva touches it

ASSUME HostAssumption ==
  FirstFiles \subseteq [source : {"none", "old"}, keyring : {"none", "old"}]

VARIABLES
  apt,        \* the two files
  packages,   \* what dpkg knows
  host,       \* host[p]: the next step of p on the host
  goal,       \* goal[p]: "repository" (Ensure alone) or "prerequisites"
  saved,      \* saved[p]: the backups of p
  original,   \* history: the files before anyone touched them
  disturbed   \* history: a repair was killed, overlapped or not undone

hostVars == <<apt, packages, host, goal, saved, original, disturbed>>

-----------------------------------------------------------------------------
Contents == {"none", "old", "new", "forged"}
Files == [source : Contents \ {"forged"}, keyring : Contents]
NoFiles == [source |-> "none", keyring |-> "none"]
Repaired == [source |-> "new", keyring |-> "new"]

\* Steps between the first backup and the end of the repair.
Repairing == {"copyKeyring", "fetch", "installKey", "installSource",
              "recheck", "restoreSource", "restoreKey"}
HostSteps == Repairing \cup
  {"idle", "check", "copySource", "install", "simulate", "repair", "verify",
   "retry", "ready", "failed"}
HostAtRest(p) == host[p] \in {"idle", "ready", "failed"}

HostInit ==
  /\ apt \in FirstFiles
  /\ original = apt
  /\ packages = "broken"
  /\ host = [p \in Processes |-> "idle"]
  /\ goal = [p \in Processes |-> "repository"]
  /\ saved = [p \in Processes |-> NoFiles]
  /\ disturbed = FALSE

-----------------------------------------------------------------------------
(* apt.Service *)

\* What apt-get update may report: the network may always fail it.
UpdateReports ==
  {"error"} \cup
  CASE apt.source = "none" -> {"healthy"}
    [] apt = Repaired -> {"healthy"}
    [] apt.keyring = "new" -> {"healthy", "missingKey"}
    [] OTHER -> {"missingKey"}

To(p, step) == host' = [host EXCEPT ![p] = step]

\* Ensure succeeds: its caller goes on to the packages, or is done.
RepositoryIsHealthy(p) ==
  To(p, IF goal[p] = "prerequisites" THEN "install" ELSE "ready")

BeginHost(p, wanted) ==
  /\ host[p] = "idle"
  /\ To(p, "check")
  /\ goal' = [goal EXCEPT ![p] = wanted]
  /\ UNCHANGED <<apt, packages, saved, original, disturbed>>

Check(p) ==
  /\ host[p] = "check"
  /\ \E report \in UpdateReports :
       CASE report = "healthy" -> RepositoryIsHealthy(p)
         [] report = "missingKey" -> To(p, "copySource")
         [] report = "error" -> To(p, "failed")
  /\ UNCHANGED <<apt, packages, goal, saved, original, disturbed>>

\* backup of the source entry: a file that is absent is remembered as absent.
CopySource(p) ==
  /\ host[p] = "copySource"
  /\ \/ /\ saved' = [saved EXCEPT ![p].source = apt.source]
        /\ To(p, "copyKeyring")
        /\ disturbed' = (disturbed \/ \E q \in Processes : host[q] \in Repairing)
     \/ To(p, "failed") /\ UNCHANGED <<saved, disturbed>>
  /\ UNCHANGED <<apt, packages, goal, original>>

CopyKeyring(p) ==
  /\ host[p] = "copyKeyring"
  /\ \/ /\ saved' = [saved EXCEPT ![p].keyring = apt.keyring]
        /\ To(p, "fetch")
     \/ To(p, "failed") /\ UNCHANGED saved
  /\ UNCHANGED <<apt, packages, goal, original, disturbed>>

\* The key is fetched and staged; only the pinned fingerprint goes on.
FetchKey(p) ==
  /\ host[p] = "fetch"
  /\ \E key \in {"new", "forged", "none"} :
       To(p, IF key = "new" THEN "installKey" ELSE "failed")
  /\ UNCHANGED <<apt, packages, goal, saved, original, disturbed>>

InstallKey(p) ==
  /\ host[p] = "installKey"
  /\ \/ /\ apt' = [apt EXCEPT !.keyring = "new"]
        /\ To(p, "installSource")
     \/ To(p, "restoreSource") /\ UNCHANGED apt
  /\ UNCHANGED <<packages, goal, saved, original, disturbed>>

\* Faulty variant: its failure returns before the restore.
InstallSourceOnly(p) ==
  /\ host[p] = "installSource"
  /\ \/ /\ apt' = [apt EXCEPT !.source = "new"]
        /\ To(p, "recheck")
     \/ To(p, "failed") /\ UNCHANGED apt
  /\ UNCHANGED <<packages, goal, saved, original, disturbed>>

InstallSource(p) ==
  /\ host[p] = "installSource"
  /\ \/ /\ apt' = [apt EXCEPT !.source = "new"]
        /\ To(p, "recheck")
     \/ To(p, "restoreSource") /\ UNCHANGED apt
  /\ UNCHANGED <<packages, goal, saved, original, disturbed>>

Recheck(p) ==
  /\ host[p] = "recheck"
  /\ \E report \in UpdateReports :
       IF report = "healthy" THEN RepositoryIsHealthy(p) ELSE To(p, "restoreSource")
  /\ UNCHANGED <<apt, packages, goal, saved, original, disturbed>>

\* restore tries both files whatever becomes of the first.
RestoreSource(p) ==
  /\ host[p] = "restoreSource"
  /\ To(p, "restoreKey")
  /\ \/ apt' = [apt EXCEPT !.source = saved[p].source] /\ UNCHANGED disturbed
     \/ disturbed' = TRUE /\ UNCHANGED apt
  /\ UNCHANGED <<packages, goal, saved, original>>

RestoreKey(p) ==
  /\ host[p] = "restoreKey"
  /\ To(p, "failed")
  /\ \/ apt' = [apt EXCEPT !.keyring = saved[p].keyring] /\ UNCHANGED disturbed
     \/ disturbed' = TRUE /\ UNCHANGED apt
  /\ UNCHANGED <<packages, goal, saved, original>>

-----------------------------------------------------------------------------
(* installOnlinePrerequisites, after Ensure *)

\* Only a dependency failure, never a failed download, is repaired.
InstallPrerequisites(p) ==
  /\ host[p] = "install"
  /\ \/ packages = "whole" /\ To(p, "ready")
     \/ packages = "broken" /\ To(p, "simulate")
     \/ To(p, "failed")
  /\ UNCHANGED <<apt, packages, goal, saved, original, disturbed>>

\* validateAPTRepairPlan refuses every plan that is not plainly additive.
SimulateRepair(p) ==
  /\ host[p] = "simulate"
  /\ \E plan \in {"additive", "removes", "unreadable"} :
       To(p, IF plan = "additive" THEN "repair" ELSE "failed")
  /\ UNCHANGED <<apt, packages, goal, saved, original, disturbed>>

\* --fix-broken may stop half way; --no-remove keeps it from removing.
RepairPackages(p) ==
  /\ host[p] = "repair"
  /\ packages' \in {packages, "whole", "broken"}
  /\ host' \in {[host EXCEPT ![p] = "verify"], [host EXCEPT ![p] = "failed"]}
  /\ UNCHANGED <<apt, goal, saved, original, disturbed>>

\* dpkg --configure, apt-get check and an empty dpkg --audit.
VerifyRepair(p) ==
  /\ host[p] = "verify"
  /\ \/ packages = "whole" /\ To(p, "retry")
     \/ To(p, "failed")
  /\ UNCHANGED <<apt, packages, goal, saved, original, disturbed>>

RetryPrerequisites(p) ==
  /\ host[p] = "retry"
  /\ \/ packages = "whole" /\ To(p, "ready")
     \/ To(p, "failed")
  /\ UNCHANGED <<apt, packages, goal, saved, original, disturbed>>

\* A killed repair leaves the files as they are and forgets the backups,
\* which were in its temporary directory.
KillOnHost(p) ==
  /\ ~HostAtRest(p)
  /\ To(p, "idle")
  /\ goal' = [goal EXCEPT ![p] = "repository"]
  /\ saved' = [saved EXCEPT ![p] = NoFiles]
  /\ disturbed' = (disturbed \/ host[p] \in Repairing)
  /\ UNCHANGED <<apt, packages, original>>

\* The run has ended; its temporary directory goes with it.
EndHost(p) ==
  /\ host[p] \in {"ready", "failed"}
  /\ To(p, "idle")
  /\ goal' = [goal EXCEPT ![p] = "repository"]
  /\ saved' = [saved EXCEPT ![p] = NoFiles]
  /\ UNCHANGED <<apt, packages, original, disturbed>>

HostStep(p) ==
  \/ Check(p) \/ CopySource(p) \/ CopyKeyring(p) \/ FetchKey(p)
  \/ InstallKey(p) \/ InstallSource(p) \/ Recheck(p)
  \/ RestoreSource(p) \/ RestoreKey(p)
  \/ InstallPrerequisites(p) \/ SimulateRepair(p) \/ RepairPackages(p)
  \/ VerifyRepair(p) \/ RetryPrerequisites(p)

HostNext ==
  \E p \in Processes :
    \/ \E wanted \in {"repository", "prerequisites"} : BeginHost(p, wanted)
    \/ HostStep(p) \/ EndHost(p)
    \/ KillOnHost(p)

HostSpec == HostInit /\ [][HostNext]_hostVars

-----------------------------------------------------------------------------
HostTypeOK ==
  /\ apt \in Files /\ original \in Files
  /\ packages \in {"whole", "broken"}
  /\ host \in [Processes -> HostSteps]
  /\ goal \in [Processes -> {"repository", "prerequisites"}]
  /\ saved \in [Processes -> Files]
  /\ disturbed \in BOOLEAN

\* Between repairs the host has either the two files it had or the two files
\* of the repair, never one of each, whichever step of RemediateKnownJenkins
\* failed; a repair that was killed, that another one overlapped or whose
\* restore failed is the exception (RemediateKnownJenkins, restore).
RepositoryIsOldOrNew ==
  (~disturbed /\ \A p \in Processes : host[p] \notin Repairing)
    => apt \in {original, Repaired}
=============================================================================
