# eva-deployer in TLA+

This directory specifies and verifies the parts of eva-deployer in which state
is shared, survives a failure, or is changed in several steps: the operation
store, remote preparation, the Tool installer, publication to a target, the
hand-off from Argo CD, the control host (its packages, its runtime and its
releases), the managed targets and the bootstrap of Harbor. Paths below are
relative to the root of the repository (`src/` here); `internal/` and `cmd/`
stand for `tools/eva/internal/` and `tools/eva/cmd/`.

- TLC (`MC*.tla`, `*.cfg`) checks small instances of every module.
- TLAPS (`*Proofs.tla`) proves results for every value of the constants.
- `PROJECT.json` lists the components, the runs, the mutants that each property
  must catch, the source lines of every definition, the disagreements found
  between code and its documentation, the hazards, and the theorems.

To repeat a run: `tlc -config Operations_failures.cfg MCOperations.tla`; to
repeat a proof: `tlapm OperationsProofs.tla`.

## 1. The system

eva-deployer installs the EVA products on K3s servers. One Go program (`eva`)
runs on an operator's server or on a controller that reaches target servers by
SSH; shell scripts build, download, install and publish; Ansible playbooks do
the work on the servers. Several commands may run at the same time, by several
operators, and nothing but the file system stands between them. There is no
daemon: whatever has to outlive a command is a file.

| Component | State it keeps | Operations | Interacts with |
|---|---|---|---|
| Operation store (`internal/operation`) | one directory per operation: `plan.yaml`, `operation.yaml`, `result.yaml`, logs | Create, Retry, Load, Latest, List, Update, WriteResult | called by every plan/apply/retry/install command; read by status |
| Executors (`internal/apply`, `cmd/eva/remote_install.go`) | memory of one process, `ansible.log`, `events.jsonl` | apply, run a playbook, install targets, finish | change the store; run Ansible; the remote one uses the installer's connections |
| Plan resolution (`internal/plan`) | none | Resolve | its steps are what executors run |
| Remote preparation (`internal/remote`: prepare, runner, manifest, payload, validate) | `manifest.yaml`, reports and payload of a release; asset cache of all releases | the 15 steps, save, fail, package, verify, validate | runs download/mirror scripts; publication and installation consume it |
| Publication (`internal/remote/publish.go`, `scripts/remote/publish_release_to_target.sh`) | staging and final directory on the target | prepare, transfer, own, verify, mark, rename, clean up | consumes a preparation, over a connection to a target |
| Targets (`internal/remote`: target, target_verify, publish, installer) | `target.yaml` and a credential directory per name; one key file per host and port of the installer; SSH control masters | add, remove, verify, connect, publish, pin a host key | every SSH connection |
| Harbor bootstrap (`internal/remote`: bootstrap, `harbor_*`, docker_registry, receipt; `setup_harbor.sh`) | `harbor.yaml`, `daemon.json`, Docker's login, `harbor.yml`, Helm release, the EVA project | detect, own, convert, roll back, recover, install, create the project, log in, record | Docker, Compose, Helm, Harbor; preparation publishes to what the receipt names |
| Release preparation (`internal/release`) | prepared releases, cache of imported bundles, `current.yaml` | import, resolve, prepare, select, register | `eva install` plans an operation for what it prepared |
| Runtime bootstrap and apt (`internal/runtime`, `internal/apt`) | runtime directory, APT source and key, packages | build, install, replace; repair and put back | `eva install` needs a runtime; `runtime bootstrap` repairs apt first |
| Tool installer (`scripts/install/install_eva_tool.sh`) and current release (`internal/release/current.go`) | Tool directory, command link, receipt, lock file | install, roll back, register | the receipt chooses what later commands use |
| Argo CD hand-off (`internal/argocd`) | pending record, receipt; Git branch, cluster Secret and Applications outside | detect, plan, push, wait, delete, watch, record, recover | Git, Argo CD; its receipt is required by install |
| Air-gap bundle, release building (`internal/airgap`, `internal/release/airgap.go`) | archives | pack, checksum | written once, imported by release preparation |
| Workspace and configuration (`internal/workspace`, `internal/fieldoverride`) | site files | parse, prompt, write | plan |
| Access, health, inspection | none | read-only reports | kubectl |
| Helm values backup (`internal/backup`, role `eva_helm_values_backup`) | snapshot directories | write, list, show | playbooks |
| Role helpers (`database_transition.py`, `traefik_ports.py`, registry and pull-secret scripts) | cluster objects | reconcile | playbooks |
| Ansible playbooks, build/download/sync scripts | servers, caches | declarative tasks, transfers | executors, preparation |

### What is hard, and what makes each part correct

- **Operation store.** No lock; every command decides on a copy it loaded before
  a prompt and writes the whole record back; any write can fail and any process
  die between two of them. Correct if an operation is executed at most once,
  from a planned record; if record and result agree; if retry links are mutual;
  if what is left running or half written has an owner or a crash to blame.
- **Remote preparation.** Runs for hours, saves its manifest over whatever is
  there, and uses a cache shared by all releases. Correct if a succeeded manifest
  has everything behind it and targets get the assets of the release they asked
  for.
- **Tool installer.** Three renames and a registration as one transaction,
  undone by a trap. Correct if a failure restores all three and a commit is kept.
- **Publication.** The script on the target outlives its connection and shares
  its staging directory with a retry. Correct if the final directory is what was
  verified, is never touched again, and success means it is there.
- **Argo CD hand-off.** Two controllers recreate what the command deletes;
  another site may commit to the same branch; the command may stop anywhere.
  Correct if a receipt is only ever written for a target nothing manages any
  more, if nothing deleted returns, and if an interrupted hand-off can be
  completed.
- **Runtime directory.** The only runtime of a host is renamed away before its
  replacement is renamed in; installers overlap and are killed between the two.
  Correct if a whole runtime is always on the disk, and at its root when every
  installer has ended unharmed.
- **APT repair.** Two files and two backups, each step of which may fail. Correct
  if the host ends with both old files or both new ones.
- **Release store.** What was verified is read again after a prompt, the operator
  may replace it meanwhile, and several runs rename to the same name. Correct if
  a cache entry was verified as it is, and if the release of a planned
  operation is never replaced.
- **Targets.** A host may show another key at every step between the question to
  the operator and the password. A target is two files and a private key,
  written and deleted one after the other. Correct if a secret goes only to the
  key that was accepted for it, if an addition leaves all or nothing, if no
  password is left without its configuration, and if the installer delivers only
  to the key on record.
- **Harbor bootstrap.** Some fifteen steps on five services, each of which may
  fail, be repeated, or find that others changed the services. Correct if the
  Harbor of others survives, if file and daemon agree, if the project in the
  receipt is private, and if the receipt is true when it is written.

Section 7 says what is not modelled, and `hazards` in `PROJECT.json` where each
difficulty bites.

## 2. The modules

| Module | Models | Checked by | Proved in |
|---|---|---|---|
| `OperationLifecycle` | the promise of the store: the life of an operation | refinement | - |
| `Operations` | store, `plan`/`install`/`apply`/`retry`, both executors | `operations`, `operations_remote` | `OperationsProofs` |
| `RemotePreparation` | manifest, cache, payload, deliveries | `preparation` | `RemotePreparationProofs` |
| `ToolInstaller` | the installer transaction and the receipt | `tool_*` | `ToolInstallerProofs` |
| `ReleasePublish` | publisher and the script it starts on the target | `publish_*` | `ReleasePublishProofs` |
| `ArgoHandoff` | the preflight, Argo CD, the registration branch | `handoff_*` | `ArgoHandoffProofs` |
| `ControlHost` | the processes of one control host | `host_install`, `registry`, `targets` | - |
| `HostPackages` | APT files, the repair, the prerequisite packages | `host_install` | `InstallationProofs` |
| `RuntimeDirectory` | the runtime root, its replacement | `host_install` | `InstallationProofs` |
| `ReleaseStore` | release directory, bundle, cache, prepared releases, receipt | `host_install` | `InstallationProofs` |
| `Installation` | the commands that compose the last three | `host_install` | `InstallationProofs` |
| `DockerTransport` | `daemon.json` and the Docker daemon | `registry` | `HarborBootstrapProofs` |
| `HarborBootstrap` | `eva remote bootstrap`, composed with `DockerTransport` | `registry` | `HarborBootstrapProofs` |
| `TargetConnection` | one SSH connection and the keys behind it | `targets` | `RemoteTargetsProofs` |
| `RemoteTargets` | the target commands and the installer's connection | `targets` | `RemoteTargetsProofs` |

Each system has an `MC` module with the definitions its configurations
substitute for constants, and its symmetries. Some operators carry an
unconditioned or reordered form of another one (their comment says *Faulty
variant*); they are never part of a specification: they are the bugs the
properties are tested against (`mutants`).

Where components share state, the modules are composed: `Installation` runs the
steps of packages, runtime and releases as phases of one command
(`runtime bootstrap` repairs the host and then replaces the runtime; `install`
resolves, asks, ensures a runtime, and only then prepares and plans), and
`HarborBootstrap` and `RemoteTargets` call the steps of `DockerTransport` and
`TargetConnection`. The others meet loosely, through files: an operation can
only be planned for a release that is installed, an installation of a target
delivers what a preparation completed, and needs the receipt of the hand-off.
There each model treats what it takes from another as an input that may or may
not be there.

### Operations

`plan`, `store`, `result`, `logs` are `plan.yaml`, `operation.yaml`,
`result.yaml` and `ansible.log` of each operation; the rest is the memory of
the processes. One action is one write to disk, or one decision.

| Code | Actions |
|---|---|
| `operation.Create` | `BeginCreate`, `WriteRecord`, `CreateFails` |
| `operation.Retry` | `BeginRetry`, `WriteRecord`, `Link`, `LinkFails`, `CreateFails` |
| `apply.Execute` to the first playbook | `LoadRecord`, `Refuse`, `OpenLog`, `Start`, `StartFails` |
| the playbooks of a local plan | `RunStep`, `StepFails` |
| the targets of a remote one | `RunTarget`, `InstallRefused` |
| `finish`, `WriteResult`, `Update` | `WriteResult`, `WriteResultFails`, `RecordOutcome`, `RecordOutcomeFails` |
| kill, power loss | `Crash` |

The record is partly readable while `Create` works (`incomplete`), which is
what makes `List` fail for every operation after a crash there. Timestamps are
left out: they only decide which record `Latest` returns.

`OperationLifecycle` says what a reader of the store may rely on: an operation
is published as planned, starts once, ends once; only a retry that its source
does not point to yet may disappear. The refinement hides remote operations,
for which this is false (`operations_remote`).

### RemotePreparation

`manifest[r]`, `mapping[r]`, `payload[r]`, `verified` are the tree of a release
and `cache` the lists of the shared cache. `Look` is `LoadOrCreate` with its
early returns; `SaveStart`, `SaveStepStart`, `SaveStep`, `Finish` and
`SaveFailure` are the saves of `StepRunner.Run`. The fifteen steps are five, one
for each way a step touches the cache and the tree: `inspect` (no effect on
either), `download` (replaces the lists), `mirror` (uploads what the cache
lists and records it), `package` (staging directory and rename), `verify`
(report). A step does its work (`Run...`) and is then checked (`CheckStep`,
`PublishPayload`). `Deliver` is any publication or installation after
`ValidateCompletedPreparation`.

### ToolInstaller

One run is the script from `flock` to the end of its exit trap. A rename and
the assignment that records it are separate steps (`Windows`), because a
handled signal is acted on between them; `Interruptible` says whether signals
are part of an instance. `Undo...` are the commands of the rollback in their
order, each of which may fail (`UndoFails`); `Cleanup` deletes the backups.

### ReleasePublish

`staging[r]` and `final` are directories of the target with their release,
runtime archive, payload, marker, ownership, and whether something was moved
into them. A transfer is two steps, so that a half-transferred part exists.
`script[p]` is the script of publisher `p` on the target, a process with a
life of its own when `Orphans` is TRUE: it survives the lost connection
(`LoseConnection`) or the death (`Kill`) of its publisher.

### ArgoHandoff

A commit is its number on the branch, a record the commit it names. The
environment is the module's model of what the code relies on and does not
contain: other sites commit (`ForeignCommit`), the registration Application
refreshes to the head (`Refresh`), creates or prunes the Secret as its synced
revision says (`SyncSecret`), and ApplicationSets create Applications while
the Secret exists, and may remove them when it is gone (`Generate`).

| Code | Actions |
|---|---|
| `RunDetectedPreflight`: connect and list | `Start`, `ListSecrets` |
| its choice of path | `ChoosePending`, `ChooseFresh`, `PendingUnusable`, `TargetUnclear` |
| `prepareGitRemovalPlan`, push | `Plan`, `ReadHead`, `PushRefused`, `Push` |
| `WritePending`, `waitForRegistrationRevision` | `RecordPending`, `Wait` |
| deletion of the live resources | `DeleteSecret`, `VerifySecret`, `DeleteApp`, `AppsDeleted` |
| `resumePendingHandoff` | `CheckRevision`, `CheckHead`, then as above |
| `recoverDetachedHandoff` | `Plan`, `CheckDetachedHead`, `Recheck` |
| `verifyRemovalWindowWithSource` | `ObserveRevision`, `ObserveSecret`, `ObserveApps` |
| `WriteReceipt`, `RemovePending` | `RecordReceipt`, `RemovePending` |
| anything that ends a run early | `Abort` |

`DeleteApp` is `deleteApplicationCommand`: when its `kubectl get` fails, it takes
the Application for gone and succeeds; this counts as one of `MaxFailures`, and
the watch has to notice it.

The three reads of one observation are three steps: the controllers move
between them. The two extra listings between the deletion of the Applications
and the watch (`handoff.go:791-848`) are folded into the first observation,
which reads the same and fails on the same.

### HostPackages, RuntimeDirectory, ReleaseStore and Installation

| Code | Actions |
|---|---|
| `apt.Service.Ensure`, `RemediateKnownJenkins` | `Check`, `CopySource`, `CopyKeyring`, `FetchKey`, `InstallKey`, `InstallSource`, `Recheck`, `RestoreSource`, `RestoreKey` |
| `installOnlinePrerequisites`, dependency repair | `InstallPrerequisites`, `SimulateRepair`, `RepairPackages`, `VerifyRepair`, `RetryPrerequisites` |
| `runtime.Install` | `Validate`, `Copy`, `LookForExisting`, `MoveExisting`, `Publish`, `PublishFails`, `Restore`, `RestoreFails`, `RemovePrevious`, `Confirm` |
| `ensureInstallRuntimeForRepository` | `BeginEnsure`, `Inspect`, then `Install` |
| `ImportAirgapBundle` | `DigestBundle`, `LookUpEntry`, `UnpackBundle`, `PublishEntry` |
| `Resolve`, `Select`, the prompt of `install` | `ResolveRelease`, `ConfirmInstall`, `ContinueInstall`, `AbandonInstall` |
| `Prepare` | `FindExisting`, `ExtractInfra`, `ExtractSolution`, `CopyMetadata`, `PublishRelease` |
| planning, `register` | `PlanOperation`, `IdentifyRelease`, `WriteReceipt`, `VerifyReceipt` |
| the command line | `Start...`, `EnsureRuntime`, `UseRuntime`, `Finish` |

A file or directory is the build or version it came from, so a digest matches
exactly when two of them come from one build, and a half-written directory is
`Partial`, a broken one `Damaged`. Between verification and extraction the
operator may replace any file of the release and the bundle (`Replace`). The
history variables `interrupted` and `disturbed` mark killed and overlapping
repairs, for which the code promises nothing.

### DockerTransport and HarborBootstrap

| Code | Actions |
|---|---|
| `ensureManagedRegistryTransport` | `ReadDaemon`, `WriteDaemon`, `ValidateDaemon`, `RestartDocker`, `WaitForDocker`, `RestoreDaemon`, `RestartBack` |
| receipt, adoption, detection | `Load`, `Adopt`, `Detect`, `DecideOwner` |
| `convertK3sHarborHTTP` | `ReadRevision`, `Upgrade`, `VerifyUpgrade`, `Rollback` |
| Docker and runtime first | `EnsureRuntime`, `EnsureDocker`, `EnsurePublishingDocker`, `FinishTransport` |
| `recoverManagedHarbor`, `setup_harbor.sh` | `Probe`, `Recover`, `StopCompose`, `Configure`, `StartCompose` |
| credential and project | `Credential`, `ReadProject`, `CreateProject`, `HideProject`, `ConfirmPrivate`, `CheckToken`, `PublicationFails` |
| `dockerLogin`, `checkManagedHarbor`, `WriteHarborReceipt` | `Login`, `Check`, `WriteReceipt` |

`daemon` is the file and `live` what the running dockerd has loaded; they are
two variables because a failed restart separates them. `site[r]` is what the
Harbor of somebody else answers at endpoint `r`, and changes by `DeployHarbor`
and `RetireHarbor` while no bootstrap runs. A Harbor may also be deployed where
containers of eva are that do not run; the code counts those as its own
(`ps --all` in `ownsManagedHarbor`) and starts them, so the history variable
`overlaid` names these endpoints; `CreatePublic` and `StopContainers`
may happen at any time. `Others` is the model's statement of what the code does
not control; no Harbor is broken before `eva` touches it.

### TargetConnection and RemoteTargets

| Code | Actions |
|---|---|
| `connectConfiguration` | `Connect`, `ScanAgain`, `OpenRuntime`, `StartMaster`, `Ask`, `AuthenticateSudo`, `ProbeInbox`, `Cleanup` |
| `runRemoteTargetAdd`, `TargetStore.Write` | `LookUp`, `DisplayKey`, `AcceptKey`, `WriteIdentity`, `Open`, `Connected`, `LookAgain`, `WriteConfig`, `WriteCredential`, `UndoConfig`, `Undo` |
| `runRemoteTargetRemove`, `TargetStore.Remove` | `Confirm`, `Find`, `DropCredential`, `DropConfig` |
| `verify`, `publish` | `LoadConfig`, `LoadCredential`, `Deliver` |
| `InstallerConnector.connect` | `SetHostKey`, `ReadHostKey`, `RecordHostKey`, `FillHostKey`, `Deliver` |

`shows[h]` is the key that the server at `h` shows now, `knownHosts[p]` the line
the master of `p` checks, `session[p]` the key of the server it talks to: every
scan, connection and password is a step of its own, and `ChangeKey` may come
between any two. The
removals by which a failed addition undoes itself (`UndoConfig`, `Undo`, the end
of `WriteIdentity`) may fail, and their errors are ignored: such a command ends
as `left`. `sent` records each secret with the key of the server that
received it, `accepted` the questions an operator answered with yes.

## 3. The runs

| Run | Question | Instance |
|---|---|---|
| `operations` | do the operations stay consistent under concurrent commands, crashes and failing writes, does the store keep its promise, and does every execution end? | 2 operations, 2 processes, 2 playbooks, local and remote mixed |
| `operations_remote` | does a remote operation start from a planned record only? (no) | 1 operation |
| `preparation` | are manifests complete when processes prepare the same or different releases at once; with one preparer at a time, does any payload or delivery carry another release's lists; does every preparation end? | 2 processes, 2 releases |
| `tool_failures` | is the installation one transaction under failing commands, rollback errors and kills? | 2 installers, 3 versions |
| `tool_signals` | and under signals? (no) | the same |
| `publish_turns` | is what is published whole, kept and what the publisher reported? | 2 publishers, 2 releases, 2 builds |
| `publish_orphans` | and when scripts outlive their connection? (no) | the same |
| `handoff_reruns` | are receipts, deletions and evidence sound, and is a pending hand-off completed? | 2 runs, 2 Applications, 3 commits, 1 failure |
| `handoff_moved` | is a pending hand-off always completed? (no) | 1 run, 1 Application, 3 commits |
| `host_install` | do packages, runtime and releases of a host survive overlapping, failing and killed commands and files that are replaced meanwhile? | 2 commands, 2 runtime versions, 3 builds of 2 versions, 1 replacement |
| `registry` | do Docker, the Harbors of others, the project and the receipt stay sound through repeated and overlapping bootstraps? | 3 runs of 2 operators, 2 endpoints, 6 command lines, 1 change by others |
| `targets` | who gets a secret, and what is left on disk, when a host changes its key and commands overlap, fail and are killed? | 3 commands of 2 operators, 1 name, 1 host with 2 keys changing twice, 3 secrets |

**Bounds, and why they are enough.** Every conflict in the code is between two
actors over one object, so two processes show it; a second operation or release
gives the object a history (a retry and its source, the list left by an earlier
release). Two operations suffice for the retry of a failed operation with both
commands at work; the retry of a retry adds no state that a retry withdrawn by
its own failure does not have, and the theorems of section 5 hold for any
number. Processes may be reused without end where the model has no bound on
commands: a process that is finished is idle again, so such a run contains any
number of commands one after the other. Where it has one (`MaxCommands`,
`MaxRuns`), it admits at least one pair that overlaps, and for `targets` and
`registry` a third command that finds what the pair left; `host_install` begins
with any runtime at the root, so its two commands find a history as well. Three
builds of two versions give one release that conflicts with another build of
its version, and one that does not. Two playbooks distinguish the first, the
last and a step that is not the last. Two observations distinguish the first
and the last of thirteen. Three commits give the branch the state of the start,
the removal, and one commit of another site before or after it.
`MaxFailures = 1` lets one run stop anywhere and be repeated, or one look at an
Application fail unnoticed; liveness needs it finite. Two key changes let a host go to another key and come back to the one
that was accepted. Names of bounds: `Steps`, `Observations`, `MaxHead`,
`MaxFailures`, `MaxReplacements`, `MaxCommands`, `MaxRuns`, `MaxChanges`,
`MaxKeyChanges`, `Concurrency`, and the sizes of `Ids`, `Procs`, `Processes`,
`Releases`, `Versions`, `Builds`, `Bundles`, `Installers`, `Publishers`, `Apps`,
`Registries`, `Requests`, `Hosts`, `Keys`, `Secrets` and `Names`. None of them
is in a theorem: the proofs hold for every value the assumptions admit.

**Deadlock** is not checked where the system may stop: IDs or commands are used
up (`Operations`, `Installation`, `HarborBootstrap`, `RemoteTargets`), every
release has its final manifest (`RemotePreparation`), and a single hand-off may
be left waiting (`ArgoHandoff`). `ToolInstaller` never stops in its model, but
its idle state is the normal end of a run. `publish_turns` and
`publish_orphans` check it.

**Symmetry** is used for processes, IDs, releases, versions, builds and keys, in
runs without liveness properties only.

**Fairness.** Liveness assumes that a started command goes on: its process is
scheduled and its scripts, playbooks and SSH commands return (they have
timeouts, or fail). That is weak fairness of the steps of each process
(`Progress`, `Step`). Nothing is assumed about starting a command, about a
crash or about a success, except in `ArgoHandoff`: there the operator repeats
the preflight (`Start` is part of `Step`), as the messages of the code ask, and
Argo CD refreshes. Other controllers get no fairness. The modules of the control
host, the registry and the targets state no fairness: their commands are finite
sequences of steps that return, and everything of interest in them is safety.

### What the violated runs show

1. `operations_remote`: two processes that loaded a planned remote operation
   both execute it; only the local executor creates its log exclusively.
2. `tool_signals`: a handled signal that arrives during a rename is acted on
   before the variable of the rename is set. The rollback skips it, and the
   clean-up deletes the backup, in the worst case the only copy of the Tool.
3. `publish_orphans`: the retry of a publication whose connection was lost
   empties the directory that the surviving script has verified, and the script
   renames it to the final path.
4. `handoff_moved`: once another commit reaches the shared branch, the pending
   record of an unfinished hand-off blocks every later run.

Three divergences met on the way have no run of their own. The comment of
`PendingHandoff` (`pending.go:20-22`) says the removal has been "observed by
Argo CD", but it is recorded before that (`handoff.go:644`, `660`). And `mv`
at `publish_release_to_target.sh:876` moves *into* a final directory that has
appeared since the check at 842; with one publisher of a version at a time it
cannot appear. And the comment of `ownsManagedHarbor`
(`harbor_ownership.go:12-15`) says that a receipt alone cannot establish
ownership after a service migration, but it includes stopped containers of the
old service: where those remain, recovery starts them at the endpoint of the
Harbor that came after (`docker_registry.go:398`).

## 4. Limits of what holds

Each property is stated with the exceptions the code has; none is wider.

- `ExecutionEnds` and `PreparationEnds` are about executions and preparations
  whose process survives and can save: a killed one stays as it was (hazards at
  `apply.go:162` and `runner.go:57`).
- The second retry of one source, which would replace the link of the first,
  needs three IDs: `RetryLinks` is checked with two, and the theorem covers it.
- `OwnAssets` (own lists in own payload) is promised for one preparer at a time.
  Two preparers of different releases share the cache without a lock; nothing
  in the code promises that this works. `SucceededComplete` has no exception.
- `publish_turns` has one publisher of a version at a time and scripts that end
  with their connection; the hazards at lines 483 and 842 of the script are
  reached by `publish_orphans` only.
- The publisher's SSH user is taken to be unable to write what root owns. With
  the sudo mode `none` and a login as root, `Writable` would be always true.
- `CompletedUnlessMoved` excludes a foreign commit (run 4 above) and an
  Application that appeared after the pending record was written.
- A crash between the push and the pending record leaves a removal nobody
  remembers; a new run goes on only if Argo CD prunes by itself.
- `ArgoHandoff` assumes that nobody adds the manifest again, and a target whose
  records are in the default root.
- `RepositoryIsOldOrNew` excludes repairs that were killed, that overlapped, or
  whose restore failed as well: the backups are in memory and a temporary
  directory. `RuntimeKept` excludes killed installers, and a root that could not
  be renamed back; `RuntimeSurvives` excludes nothing.
- `EntriesVerified` says that an entry of the artifact cache was validated, not
  that it matches the digest in its name: the bundle is digested before it is
  opened, and may be replaced between (hazard at `release.go:235`).
- `OperationKeepsRelease` is about the release an operation was planned from. A
  prepared tree may still hold builds that were never verified together: what
  is extracted after the prompt is not verified again (hazard at
  `release.go:169`).
- `DaemonFileIsLive` excludes changes that were killed or overlapped. A run
  killed between file and restart leaves them apart for good: a retry finds the
  registry listed and does not restart (hazard at `docker_registry.go:83`).
- `ForeignHarborKept` excludes, for the Harbor itself, conversions that were killed
  while they ran and rollbacks that failed, which leave it broken; and, for the
  containers of eva, endpoints where the other Harbor came while such containers
  were there that did not run.
- `ReceiptIsReady` is promised for bootstraps that do not overlap; overlapping
  ones may stop or reconfigure what another one is about to record.
- `SecretOnlyToAcceptedKey`, `AddIsAllOrNothing` and `NoOrphanedPassword` exclude
  names that were added while another command for them ran (hazard at
  `main.go:379`), and names whose credential was renamed into place by a write
  that then failed to sync and was taken for a failure. Removals, verifications
  and publications of a name may overlap. `AddIsAllOrNothing` promises all or
  nothing only as far as the undo succeeds: when a removal fails, or the
  configuration was renamed into place and did not sync, the command leaves a
  configuration, a private key or both, but no credential, so that no command
  can load it and `target remove` clears it. `DeliversToRecordedKey` excludes
  nothing.

## 5. What is proved

The theorems hold for every value of the constants that satisfies the
assumptions of the modules: any number of processes, objects and steps. The
assumptions only keep the names apart (`None` is not a release, no Application
is called "secret", an absent directory is not a directory), give the bounds a
type, and say that initial states and inputs are of the right kind. Where a
promise of the code has a condition on how it is used, the condition is a
hypothesis of the theorem, and section 3 shows what happens without it.

### Operations

From `ModesAssumption`, `StepsAssumption` and `NoneAssumption`:

- `TypeCorrect`: `Spec => []TypeOK`.
- `AtMostOneExecution`: `Spec => []LocalRunsOnce`.
- `ExecutesPlanned`: `Spec => LocalStartsPlanned`.
- `RecordsMatchResults`: `Spec => []ResultMatchesRecord`.
- `LinksAgree`: `Spec => []RetryLinks`.
- `StoreImplementsLifecycle`: `Spec => ImplementsLifecycle`.

`LocalRunsOnce` is not inductive: that a process past `OpenLog` is alone needs
that the log of an operation outlives it (`LogInv`: no log, never started; so the
first to create it finds a planned record), that an ID is new when it is drawn
(`FreshInv`), that a directory under construction belongs to its creator
(`CreateInv`), and that the only writer that is not the executor, the update of
a retry's source, hits a source that has failed (`SourceInv`: on disk *and* in
the copy written back). With those, the one process in the gate is described by
`GateInv`. `IInv` is their conjunction; one lemma per action shows that it is
kept, split into the conjuncts the action can disturb, and `NextIInv` puts them
together. The refinement proof goes through the same invariant: each action
maps to one step of `OperationLifecycle`, or to none.

`RecordsInv` is the second invariant, on top of `IInv`. Records are written back
whole from copies, so it speaks of the copies: none that will be written names a
result that is not its own (`HeldResult`), each has the source of the record it
was read from, and none has a retry to lose (`HeldLinks`). That a record loaded
as planned names no result follows from `ResultMatchesRecord` itself.

### RemotePreparation

- `TypeCorrect`: `Spec => []TypeOK`.
- `SucceededIsComplete`: `Spec => []SucceededComplete`, for any number of
  processes that overlap, fail and crash.
- `TargetsGetTheirOwnAssets`: `Spec => []OwnAssets`.

A manifest is saved from a copy in memory, so the invariant of the tree is one
of the copies first: `ProgressInv` ties the number of steps a copy counts to the
place of its process (`Counted`) and to what those steps have left (`Behind`).
What they left never goes away, whoever else works: that is why overlapping
preparers cannot break `SucceededComplete`. `OwnAssets` needs more, because the
payload is built from a cache that all releases share: `CacheInv` says that an
undisturbed preparation is alone, and that the cache holds its release's lists
from the end of its download on. A download that fails or is killed leaves the
cache torn, whatever it held; since a preparation always starts with the first
step, no later step trusts what an interrupted one left.

### ToolInstaller

From `NoneAssumption` and `InterruptibleAssumption`, for any number of runs and
versions (`Interruptible = ErrorPlaces`: a run ends at a failing command only):

- `TypeCorrect`: `Spec => []TypeOK`.
- `CommitsAreComplete`: `Spec => []CommittedIsComplete`, with signals anywhere.
- `RollbackIsExact`: `Interruptible = ErrorPlaces` implies
  `Spec => []RollbackRestores`.
- `RestIsConsistent`: `Interruptible = ErrorPlaces` implies
  `Spec => []ConsistentAtRest`.

`InstallInv` says which variables can be set at a place of the script (`Raised`)
and what the renames so far have left (`Placed`). `RollbackInv` computes what the
commands of the rollback that are still to come would make of the Tool, the link
and the receipt (`ToolBack`, `LinkBack`, `ReceiptBack`), and says that it is what
the run found: forward steps and rollback steps both keep that value. Its use of
the variable that the next command sets (`Recorded`) is the hypothesis: where a
run may end between a rename and its variable, the value is lost, which is what
`tool_signals` shows. `ConsistentAtRest` follows from one run to the next with
`RestInv`.

### ReleasePublish

From `ConstantsAssumption` and `AbsentAssumption`:

- `TypeCorrect`: `Spec => []TypeOK`.
- `FinalIsComplete`: `~Orphans` and `Concurrency = 1` imply
  `Spec => []FinalComplete`; under the same hypotheses `SuccessIsThere`:
  `Spec => []SuccessIsPublished`, and `NothingLeftBehind`:
  `Spec => []NoLeftovers`.

The hypotheses are the operation the script is written for (one publisher of a
version at a time, a script that ends with its connection), for any number of
publishers, releases and builds one after the other. `publish_orphans` shows what
happens without the first, the `mv` of section 3 what without the second.
`TurnInv`: the publisher at work is alone, its script runs
only while it waits (`Attended`), and the script knows of the staging directory
what it looked at in earlier steps (`Grounded`): owned before it is verified,
verified before it is marked, marked before it is moved, and still so. A staging
directory belongs to the one at work or is recorded as litter (`Claimed`), and
nothing was moved into it (`Unmixed`).

### ArgoHandoff

From the assumptions of `ArgoHandoff` (`BoundsAssumption`, and
`NamesAssumption`: no Application is called "secret", the tag the history
variable uses), for any number of runs, Applications, observations, commits and
failures:

- `TypeCorrect`: `Spec => []TypeOK`.
- `ReceiptHolds`: `Spec => []HandoffHolds`.
- `DeletionOnRecord`: `Spec => []DeletionRecorded`.
- `NothingReturns`: `Spec => []NoRecreation`.
- `RecordsProve`: `Spec => []EvidenceSound`.

The argument is that the world only evolves one way (`Evolves`): the branch
grows, a removal stays, a Secret that is neither there nor desired never comes
back (`Gone`), Applications without it do not come back either, and a
record is cleared only when there is a receipt. `SecretInv` is the pivot: the
Secret is missing only after the removal was synced, so a run that did not list
it may trust an old list (`CheckHead`, hazard at `pending_recovery.go:238`).
`RunAt` says what a run at a given place relies on; `RunKeeps` shows
that nothing another run or controller does takes it away, and so each action
has to be looked at for the world and for its own run only (`StepKeeps`).
### RuntimeDirectory, HostPackages, ReleaseStore and Installation

- `PartsRefinement`: `Spec => HostSpec /\ RuntimeSpec /\ ReleaseSpec`. The
  composition implements the specification of each part, whatever `Installation`
  schedules, so a property of a part is proved of the part.
- `RuntimeAlwaysSurvives`: `Spec => []RuntimeSurvives`, and `RuntimeAlwaysKept`:
  `Spec => []RuntimeKept`.
- `RepositoryAlwaysOldOrNew`: `Spec => []RepositoryIsOldOrNew`.
- `EntriesAlwaysVerified`: `Spec => []EntriesVerified`, and
  `OperationAlwaysKeepsRelease`: `Spec => []OperationKeepsRelease`.
- `InstallationTypeOK`: `Spec => []TypeOK`.

`RuntimeInv`: a runtime leaves the root only for one that is whole. That what is
staged was resolved (`StagedIsWhole`), that only a run between its two renames,
or deleting, has a backup (`BackupIsHeld`), and that while the root is missing
some living run will rename it back (`RootComesBack`) make it inductive.
`HostInv` fixes, for each step of an undisturbed repair, what the two files and
their backups are (`RepairAgrees`). `ReleaseInv` says what a run holds at each
step (`ReleaseAgrees`), above all that what it is about to publish as a cache
entry was validated; and published things never change (`PublishedStays`), so a
plan stays true.

### DockerTransport and HarborBootstrap

- `BootstrapTypeOK`: `Spec => []TypeOK`.
- `OperatorRegistriesAlwaysKept`: `Spec => []OperatorRegistriesKept`, without
  exception: overlaps and kills included. (It needs no instance of TLC: every
  snapshot lists what the operator had.)
- `DaemonFileAlwaysLive`: `Spec => []DaemonFileIsLive`.
- `ForeignHarborAlwaysKept`: `Spec => []ForeignHarborKept`.
- `ProjectAlwaysPrivate`: `Spec => ProjectIsPrivate`.
- `ReceiptAlwaysReady`: `Spec => ReceiptIsReady`.

`TransportInv` says what a step of a change relies on: undisturbed changes do
not overlap, the file is the one that was read, with or without the new
registry, and which of the two Docker has loaded is fixed by the step.
`HarborInv` adds, for each run of bootstrap, whose Harbor is at its endpoint
(`OwnsEndpoint`, `ConvertsForeign`), that no container of eva is at the endpoint
of somebody else or about to be started there (`ComposeApart`), except where that
Harbor came over containers that did not run (`overlaid`), that a broken
Harbor has a run that will roll it back (`BrokenIsHeld`), and that the project
is private from the token on (`HasPrivate`). `ReadyInv` is about a bootstrap that
began alone: it stays the only one, so Docker serves the login from the moment
that it was stored, and the Harbor answers from the last check until the receipt
is written.

### TargetConnection and RemoteTargets

- `TargetsTypeOK`: `Spec => []TypeOK`.
- `AlwaysDeliversToRecordedKey`: `Spec => []DeliversToRecordedKey`.
- `SecretAlwaysToAcceptedKey`: `Spec => []SecretOnlyToAcceptedKey`.
- `NeverOrphanedPassword`: `Spec => []NoOrphanedPassword`.
- `AddAlwaysAllOrNothing`: `Spec => []AddIsAllOrNothing`.

Three invariants build on each other. `CommandInv`: a master talks to the key it
was given, which is the one of the entry (`LinkAgrees`), and the connection a
command holds is to the target it was asked for (`HoldAgrees`). `RecordInv`: the
key on record for a host is the one an installation compares with, and only one
installation has an empty record to fill (`OneFills`), because the record is
created exclusively. `StoreInv`: a command that adds an undisturbed name is alone with
it, while removals and loads of it may overlap (`Alone`), so what the files of the name hold is known at every step of an addition
(`AddAgrees`), and a loaded entry was accepted (`StoreAgrees`, `LinkIsAgreed`).

## 6. What is only model-checked

The liveness properties (`ExecutionEnds`, `PreparationEnds`,
`CompletedUnlessMoved`): they need fairness and ENABLED, which are out of the
proof system's reach. Every safety property that a passing run checks, the
action properties and the refinement included, is a theorem of section 5.

## 7. What is not modelled, and why

Each component with its reason is in `PROJECT.json`. In short: pure parsing,
formatting and prompting (workspace, access, health, inspection, vision models,
plan resolution); transfers and archive formats (download, sync, build scripts,
air-gap packing, runtime artifact); declarative tasks (playbooks: one step that
succeeds or fails) and the reconcilers the roles run on a target (database
transition, Traefik ports, registry files), which are sequential and keep
nothing between two runs. Inside modelled components: prompts and credentials
of the hand-off, identity checks on names that nothing changes, several Argo CD
targets with their own state roots, the loop over independent targets of a
publication, certificates and Helm values beyond what is decided from them,
permissions and the form of files, timestamps.

Hazards without a property are in `PROJECT.json` with the reason: in each of
them the model reaches the bad state and nothing in the repository promises
that it does not exist.

## 8. What could follow

In the order of their worth: `ArgoHandoff` with the target roots of
`argocd_targets.go` (several targets of a site, receipts in their own roots);
the composition of preparation, publication and hand-off by their abstract
promises, for which the theorems of section 5 are now the premises; and the
publication with more than one publisher of a version, where the promise has to
be weakened to what the `mv` at line 876 of the script can still give.
