--------------------------- MODULE DockerTransport ---------------------------
(***************************************************************************)
(* The Docker daemon of the control host and its list of registries that   *)
(* are reached over HTTP (internal/remote/docker_registry.go).             *)
(*                                                                         *)
(* ensureManagedRegistryTransport adds a registry to daemon.json, has      *)
(* dockerd validate the file, restarts Docker and waits for it; a step     *)
(* that fails puts the file back.  A file that already names the registry  *)
(* is enough: Docker is not asked whether it has loaded it.                *)
(*                                                                         *)
(* Data abstracted: daemon.json is whether it can be parsed and which      *)
(* registries it lists; a file that is absent lists none.                  *)
(***************************************************************************)
EXTENDS ControlHost

CONSTANTS
  Registries,      \* endpoints of registries
  FirstDaemons,    \* files that a host may begin with
  FirstDockers     \* states of Docker that a host may begin with

DaemonFiles == [valid : BOOLEAN, listed : SUBSET Registries]
DockerStates == {"absent", "down", "up"}

ASSUME TransportAssumption ==
  /\ Registries # {}
  /\ FirstDaemons \subseteq DaemonFiles /\ FirstDockers \subseteq DockerStates

VARIABLES
  daemon,       \* daemon.json
  live,         \* the registries that the running dockerd has loaded
  docker,       \* the Docker service
  containers,   \* the Compose containers of the managed Harbor
  move,         \* move[p]: the next step of p
  aim,          \* aim[p]: the registry p adds
  snapshot,     \* snapshot[p]: the file p read
  first,        \* history: the registries of the operator
  muddled       \* history: a change of the file was killed, overlapped or not undone

transportVars ==
  <<daemon, live, docker, containers, move, aim, snapshot, first, muddled>>

-----------------------------------------------------------------------------
Changing == {"write", "validate", "restart", "wait", "restore", "restoreOnly",
             "restartBack"}
TransportSteps == Changing \cup {"idle", "read", "ok", "failed"}

NoDaemon == [valid |-> TRUE, listed |-> {}]

TransportInit ==
  /\ daemon \in FirstDaemons
  /\ docker \in FirstDockers
  /\ live = daemon.listed
  /\ first = daemon.listed
  /\ containers = "none"
  /\ move = [p \in Processes |-> "idle"]
  /\ aim = [p \in Processes |-> CHOOSE r \in Registries : TRUE]
  /\ snapshot = [p \in Processes |-> NoDaemon]
  /\ muddled = FALSE

Move(p, next) == move' = [move EXCEPT ![p] = next]

\* The restart policy of the containers may leave them stopped.
Restarted ==
  /\ docker' = "up"
  /\ live' = daemon.listed
  /\ containers' \in IF containers = "none" THEN {"none"} ELSE {"up", "stopped"}

\* docker info answers, or install_docker.sh enables and starts the service.
StartDocker ==
  IF docker = "up" THEN UNCHANGED <<docker, live, containers>>
  ELSE daemon.valid /\ Restarted

-----------------------------------------------------------------------------
BeginTransport(p, r) ==
  /\ move[p] = "idle"
  /\ aim' = [aim EXCEPT ![p] = r]
  /\ Move(p, "read")
  /\ UNCHANGED <<daemon, live, docker, containers, snapshot, first, muddled>>

\* A registry that is listed needs nothing more.
ReadDaemon(p) ==
  /\ move[p] = "read"
  /\ snapshot' = [snapshot EXCEPT ![p] = daemon]
  /\ Move(p, CASE ~daemon.valid -> "failed"
               [] daemon.valid /\ aim[p] \in daemon.listed -> "ok"
               [] OTHER -> "write")
  /\ muddled' = (muddled \/ (move'[p] = "write" /\ \E q \in Processes : move[q] \in Changing))
  /\ UNCHANGED <<daemon, live, docker, containers, aim, first>>

WriteDaemon(p) ==
  /\ move[p] = "write"
  /\ \/ /\ daemon' = [snapshot[p] EXCEPT !.listed = @ \cup {aim[p]}]
        /\ Move(p, "validate")
     \/ Move(p, "failed") /\ UNCHANGED daemon
  /\ UNCHANGED <<live, docker, containers, aim, snapshot, first, muddled>>

ValidateDaemon(p) ==
  /\ move[p] = "validate"
  /\ \/ docker # "absent" /\ Move(p, "restart")
     \/ Move(p, "restoreOnly")
  /\ UNCHANGED <<daemon, live, docker, containers, aim, snapshot, first, muddled>>

\* Faulty variant: a failed restart leaves the new file.
RestartDockerKeeping(p) ==
  /\ move[p] = "restart"
  /\ \/ Restarted /\ Move(p, "wait")
     \/ Move(p, "failed") /\ UNCHANGED <<live, docker, containers>>
  /\ UNCHANGED <<daemon, aim, snapshot, first, muddled>>

\* systemctl restart may fail with Docker running as before, or stopped.
RestartDocker(p) ==
  /\ move[p] = "restart"
  /\ \/ Restarted /\ Move(p, "wait")
     \/ /\ docker' \in {docker, "down"}
        /\ Move(p, "restore")
        /\ UNCHANGED <<live, containers>>
  /\ UNCHANGED <<daemon, aim, snapshot, first, muddled>>

\* 30 seconds, which a slow daemon may exceed.
WaitForDocker(p) ==
  /\ move[p] = "wait"
  /\ \/ docker = "up" /\ Move(p, "ok")
     \/ Move(p, "restore")
  /\ UNCHANGED <<daemon, live, docker, containers, aim, snapshot, first, muddled>>

\* Only what dockerd rejected before the restart needs no second restart.
RestoreDaemon(p) ==
  /\ move[p] \in {"restore", "restoreOnly"}
  /\ \/ /\ daemon' = snapshot[p]
        /\ Move(p, IF move[p] = "restore" THEN "restartBack" ELSE "failed")
        /\ UNCHANGED muddled
     \/ Move(p, "failed") /\ muddled' = TRUE /\ UNCHANGED daemon
  /\ UNCHANGED <<live, docker, containers, aim, snapshot, first>>

RestartBack(p) ==
  /\ move[p] = "restartBack"
  /\ Move(p, "failed")
  /\ \/ Restarted /\ UNCHANGED muddled
     \/ /\ docker' \in {docker, "down"}
        /\ muddled' = TRUE
        /\ UNCHANGED <<live, containers>>
  /\ UNCHANGED <<daemon, aim, snapshot, first>>

EndTransport(p) ==
  /\ move[p] \in {"ok", "failed"}
  /\ Move(p, "idle")
  /\ snapshot' = [snapshot EXCEPT ![p] = NoDaemon]
  /\ UNCHANGED <<daemon, live, docker, containers, aim, first, muddled>>

\* The new file of a killed run stays, and the next run finds it complete.
KillTransport(p) ==
  /\ move[p] # "idle"
  /\ Move(p, "idle")
  /\ snapshot' = [snapshot EXCEPT ![p] = NoDaemon]
  /\ muddled' = (muddled \/ move[p] \in Changing \ {"write"})
  /\ UNCHANGED <<daemon, live, docker, containers, aim, first>>

TransportStep(p) ==
  \/ ReadDaemon(p) \/ WriteDaemon(p) \/ ValidateDaemon(p) \/ RestartDocker(p)
  \/ WaitForDocker(p) \/ RestoreDaemon(p) \/ RestartBack(p)

-----------------------------------------------------------------------------
TransportTypeOK ==
  /\ daemon \in DaemonFiles
  /\ live \subseteq Registries /\ first \subseteq Registries
  /\ docker \in DockerStates
  /\ containers \in {"none", "up", "stopped"}
  /\ move \in [Processes -> TransportSteps]
  /\ aim \in [Processes -> Registries]
  /\ snapshot \in [Processes -> DaemonFiles]
  /\ muddled \in BOOLEAN

\* No run, whichever overlap and wherever they are killed, loses a registry
\* that the operator had listed in daemon.json (mergeDockerInsecureRegistry,
\* restoreDockerDaemonConfig).
OperatorRegistriesKept == first \subseteq daemon.listed

\* When nobody changes daemon.json, a Docker that runs has loaded what the
\* file says: whichever step failed, the file was put back, and Docker
\* restarted when it might have seen the other one
\* (ensureManagedRegistryTransport, restoreAfterRegistryTransportFailure).
\* Killed and overlapping changes are the exception.
DaemonFileIsLive ==
  (docker = "up" /\ ~muddled /\ \A p \in Processes : move[p] \notin Changing)
    => live = daemon.listed
=============================================================================
