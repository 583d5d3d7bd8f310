---------------------------- MODULE ReleaseStore ----------------------------
(***************************************************************************)
(* The releases of a control host (internal/release, and runInstall,       *)
(* runRelease and runInternal of cmd/eva): the directory the operator      *)
(* points at, the air-gap bundle, the cache of imported bundles, the       *)
(* prepared releases under the install root, and the receipt current.yaml. *)
(*                                                                         *)
(* A release is verified when it is resolved and read again when it is     *)
(* extracted; between the two an `eva install` waits for an answer at the  *)
(* terminal, other runs publish under the same names, and the operator     *)
(* may replace the files: a same-path upgrade is supported.                *)
(*                                                                         *)
(* Data abstracted: a file is the build it came from, so its digest        *)
(* matches the one in release.yaml exactly when both come from one build;  *)
(* the digest of a bundle is the bundle.                                   *)
(***************************************************************************)
EXTENDS ControlHost, Naturals

CONSTANTS
  Builds,            \* builds of a release
  HostBuilds,        \* those for the platform of the host
  Releases,          \* version numbers
  VersionOf,         \* VersionOf[b]: the version of build b
  FirstBuilds,       \* builds whose release the operator may begin with
  Bundles,           \* directories that an air-gap bundle may hold
  None,              \* no directory, no file, no receipt
  Inbox,             \* the place of the operator's release directory
  MaxReplacements    \* bound: files the operator replaces

\* A release directory or bundle, and a prepared release.
Directory == [yaml : Builds, infra : Builds, solution : Builds,
              manifest : Builds, extra : BOOLEAN]
Tree == [yaml : Builds \cup {None}, infra : Builds \cup {None},
         solution : Builds \cup {None}]

ASSUME ReleaseAssumption ==
  /\ HostBuilds \subseteq Builds /\ FirstBuilds \subseteq Builds
  /\ VersionOf \in [Builds -> Releases]
  /\ Bundles \subseteq Directory
  /\ MaxReplacements \in Nat
  /\ None \notin Builds \cup Bundles \cup Releases \cup Tree \cup {Inbox}
  /\ Inbox \notin Bundles \cup Releases

VARIABLES
  inbox,        \* the operator's release directory
  bundle,       \* the air-gap bundle file
  cache,        \* cache[d]: the entry of the artifact cache named by digest d
  prepared,     \* prepared[v]: the directory of version v in the install root
  receipt,      \* current.yaml
  operations,   \* the planned operations, each with its release root
  rel,          \* rel[p]: the next step of p
  verb,         \* verb[p]: the command p runs
  from,         \* from[p]: where the release p resolved is
  meta,         \* meta[p]: the metadata p resolved
  stage,        \* stage[p]: its staging directory
  replaced      \* how many files the operator replaced

releaseVars == <<inbox, bundle, cache, prepared, receipt, operations,
                 rel, verb, from, meta, stage, replaced>>
stores == <<inbox, bundle, cache, prepared, receipt, operations, replaced>>

-----------------------------------------------------------------------------
EmptyTree == [yaml |-> None, infra |-> None, solution |-> None]
Receipts == [version : Releases, identity : Builds \X Builds]

Verbs == {"import", "prepare", "install", "installCurrent", "installArchive",
          "register"}
ReleaseSteps ==
  {"idle", "digest", "lookup", "unpack", "publishEntry", "resolve", "confirm",
   "approved", "existing", "extractInfra", "extractSolution", "copyMetadata",
   "publish", "plan", "identify", "writeReceipt", "verifyReceipt", "ok", "failed"}
ReleaseAtRest(p) == rel[p] \in {"idle", "ok", "failed"}

AllFrom(b) == [yaml |-> b, infra |-> b, solution |-> b, manifest |-> b, extra |-> FALSE]

ReleaseInit ==
  /\ inbox \in {AllFrom(b) : b \in FirstBuilds}
  /\ bundle \in Bundles
  /\ cache = [d \in Bundles |-> None]
  /\ prepared = [v \in Releases |-> None]
  /\ receipt = None
  /\ operations = {}
  /\ rel = [p \in Processes |-> "idle"]
  /\ verb = [p \in Processes |-> "prepare"]
  /\ from = [p \in Processes |-> None]
  /\ meta = [p \in Processes |-> None]
  /\ stage = [p \in Processes |-> None]
  /\ replaced = 0

-----------------------------------------------------------------------------
(* Validation *)

\* validate: the metadata is for this host, every artifact has its digest.
ValidRelease(directory) ==
  /\ directory.yaml \in HostBuilds
  /\ directory.infra = directory.yaml
  /\ directory.solution = directory.yaml

\* validateBundleLayout: checksums.sha256 agrees and nothing else is there.
ValidLayout(directory) == directory.manifest = directory.yaml /\ ~directory.extra

\* validatePrepared, for a tree with its marker, against a given metadata.
ValidPrepared(tree, build) ==
  /\ build \in HostBuilds
  /\ tree.infra # None /\ tree.solution # None

Identity(directory) == <<directory.yaml, directory.manifest>>

\* resolveCurrent
IsCurrent(directory) ==
  /\ ValidRelease(directory)
  /\ receipt.version = VersionOf[directory.yaml]
  /\ receipt.identity = Identity(directory)

Proceed(p, next) == rel' = [rel EXCEPT ![p] = next]
Drop(p) == stage' = [stage EXCEPT ![p] = None]
ResolvedAs(p, place, build) ==
  /\ from' = [from EXCEPT ![p] = place]
  /\ meta' = [meta EXCEPT ![p] = build]
\* What is where the release of p was resolved, now.
Source(p) == IF from[p] = Inbox THEN inbox ELSE cache[from[p]]
Target(p) == VersionOf[meta[p]]

-----------------------------------------------------------------------------
BeginRelease(p, command) ==
  /\ rel[p] = "idle"
  /\ verb' = [verb EXCEPT ![p] = command]
  /\ Proceed(p, IF command \in {"import", "installArchive"} THEN "digest" ELSE "resolve")
  /\ UNCHANGED <<stores, from, meta, stage>>

(* ImportAirgapBundle *)

DigestBundle(p) ==
  /\ rel[p] = "digest"
  /\ from' = [from EXCEPT ![p] = bundle]
  /\ Proceed(p, "lookup")
  /\ UNCHANGED <<stores, verb, meta, stage>>

Imported(p, directory) ==
  /\ meta' = [meta EXCEPT ![p] = directory.yaml]
  /\ Proceed(p, IF verb[p] = "import" THEN "ok" ELSE "confirm")

\* An entry of that digest is validated again and used.
LookUpEntry(p) ==
  /\ rel[p] = "lookup"
  /\ LET entry == cache[from[p]]
     IN  IF entry = None THEN Proceed(p, "unpack") /\ UNCHANGED meta
         ELSE IF ValidRelease(entry) /\ ValidLayout(entry) THEN Imported(p, entry)
         ELSE Proceed(p, "failed") /\ UNCHANGED meta
  /\ UNCHANGED <<stores, verb, from, stage>>

\* Faulty variant: only the release is validated, as Resolve does.
UnpackUnchecked(p) ==
  /\ rel[p] = "unpack"
  /\ IF ValidRelease(bundle)
     THEN stage' = [stage EXCEPT ![p] = bundle] /\ Proceed(p, "publishEntry")
     ELSE Proceed(p, "failed") /\ UNCHANGED stage
  /\ UNCHANGED <<stores, verb, from, meta>>

\* The file is opened a second time: it may not be the one that was digested.
UnpackBundle(p) ==
  /\ rel[p] = "unpack"
  /\ IF ValidRelease(bundle) /\ ValidLayout(bundle)
     THEN stage' = [stage EXCEPT ![p] = bundle] /\ Proceed(p, "publishEntry")
     ELSE Proceed(p, "failed") /\ UNCHANGED stage
  /\ UNCHANGED <<stores, verb, from, meta>>

PublishEntry(p) ==
  /\ rel[p] = "publishEntry"
  /\ \/ /\ cache[from[p]] = None
        /\ cache' = [cache EXCEPT ![from[p]] = stage[p]]
        /\ Imported(p, stage[p])
     \/ Proceed(p, "failed") /\ UNCHANGED <<cache, meta>>
  /\ Drop(p)
  /\ UNCHANGED <<inbox, bundle, prepared, receipt, operations, replaced, verb, from>>

-----------------------------------------------------------------------------
(* Resolve and Select *)

\* A command without a release argument takes the one the receipt names and,
\* when there is no receipt, the working directory.
Acceptable(p) ==
  IF verb[p] = "installCurrent" /\ receipt # None THEN IsCurrent(inbox)
  ELSE ValidRelease(inbox)

AfterResolve(p) ==
  CASE verb[p] = "prepare" -> "existing"
    [] verb[p] \in {"install", "installCurrent"} -> "confirm"
    [] verb[p] = "register" -> "identify"

ResolveRelease(p) ==
  /\ rel[p] = "resolve"
  /\ \/ Acceptable(p) /\ ResolvedAs(p, Inbox, inbox.yaml) /\ Proceed(p, AfterResolve(p))
     \/ ~Acceptable(p) /\ Proceed(p, "failed") /\ UNCHANGED <<from, meta>>
  /\ UNCHANGED <<stores, verb, stage>>

\* The operator answers; the runtime is ensured before the release is used.
ConfirmInstall(p) ==
  /\ rel[p] = "confirm"
  /\ Proceed(p, "approved") \/ Proceed(p, "failed")
  /\ UNCHANGED <<stores, verb, from, meta, stage>>

ContinueInstall(p) ==
  /\ rel[p] = "approved"
  /\ Proceed(p, "existing")
  /\ UNCHANGED <<stores, verb, from, meta, stage>>

AbandonInstall(p) ==
  /\ rel[p] = "approved"
  /\ Proceed(p, "failed")
  /\ UNCHANGED <<stores, verb, from, meta, stage>>

-----------------------------------------------------------------------------
(* Prepare *)

Prepared(p) == Proceed(p, IF verb[p] = "prepare" THEN "ok" ELSE "plan")

\* A managed directory of that version with the same metadata is the answer;
\* with other metadata it is an error.
FindExisting(p) ==
  /\ rel[p] = "existing"
  /\ LET existing == prepared[Target(p)]
     IN  \/ /\ existing = None
            /\ stage' = [stage EXCEPT ![p] = EmptyTree]
            /\ Proceed(p, "extractInfra")
         \/ /\ existing # None
            /\ ValidPrepared(existing, existing.yaml) /\ existing.yaml = meta[p]
            /\ Prepared(p) /\ UNCHANGED stage
         \/ /\ existing # None
            /\ ~(ValidPrepared(existing, existing.yaml) /\ existing.yaml = meta[p])
            /\ Proceed(p, "failed") /\ UNCHANGED stage
  /\ UNCHANGED <<stores, verb, from, meta>>

\* Each archive is extracted as it is now; a failure removes the staging.
ExtractInfra(p) ==
  /\ rel[p] = "extractInfra"
  /\ \/ /\ stage' = [stage EXCEPT ![p].infra = Source(p).infra]
        /\ Proceed(p, "extractSolution")
     \/ Drop(p) /\ Proceed(p, "failed")
  /\ UNCHANGED <<stores, verb, from, meta>>

ExtractSolution(p) ==
  /\ rel[p] = "extractSolution"
  /\ \/ /\ stage' = [stage EXCEPT ![p].solution = Source(p).solution]
        /\ Proceed(p, "copyMetadata")
     \/ Drop(p) /\ Proceed(p, "failed")
  /\ UNCHANGED <<stores, verb, from, meta>>

\* release.yaml and the marker; the tree is validated against the metadata
\* that was resolved, not against the file just copied.
CopyMetadata(p) ==
  /\ rel[p] = "copyMetadata"
  /\ \/ /\ ValidPrepared(stage[p], meta[p])
        /\ stage' = [stage EXCEPT ![p].yaml = Source(p).yaml]
        /\ Proceed(p, "publish")
     \/ Drop(p) /\ Proceed(p, "failed")
  /\ UNCHANGED <<stores, verb, from, meta>>

PublishRelease(p) ==
  /\ rel[p] = "publish"
  /\ \/ /\ prepared[Target(p)] = None
        /\ prepared' = [prepared EXCEPT ![Target(p)] = stage[p]]
        /\ Prepared(p)
     \/ Proceed(p, "failed") /\ UNCHANGED prepared
  /\ Drop(p)
  /\ UNCHANGED <<inbox, bundle, cache, receipt, operations, replaced, verb, from, meta>>

\* Faulty variant: it plans the release it selected, before Prepare.
PlanSelected(p) ==
  /\ rel[p] = "plan"
  /\ operations' = operations \cup {[root |-> Target(p), build |-> meta[p]]}
  /\ Proceed(p, "ok")
  /\ UNCHANGED <<inbox, bundle, cache, prepared, receipt, replaced, verb, from, meta, stage>>

\* runInstall resolves the prepared root and plans what it finds there.
PlanOperation(p) ==
  /\ rel[p] = "plan"
  /\ LET tree == prepared[Target(p)]
     IN  \/ /\ ValidPrepared(tree, tree.yaml)
            /\ operations' = operations \cup {[root |-> Target(p), build |-> tree.yaml]}
            /\ Proceed(p, "ok")
         \/ /\ ~ValidPrepared(tree, tree.yaml)
            /\ Proceed(p, "failed") /\ UNCHANGED operations
  /\ UNCHANGED <<inbox, bundle, cache, prepared, receipt, replaced, verb, from, meta, stage>>

-----------------------------------------------------------------------------
(* register-current-release *)

\* WriteCurrentReceipt resolves the root once more...
IdentifyRelease(p) ==
  /\ rel[p] = "identify"
  /\ \/ ValidRelease(inbox) /\ ResolvedAs(p, Inbox, inbox.yaml) /\ Proceed(p, "writeReceipt")
     \/ ~ValidRelease(inbox) /\ Proceed(p, "failed") /\ UNCHANGED <<from, meta>>
  /\ UNCHANGED <<stores, verb, stage>>

\* ...and then digests the two files of the identity.
WriteReceipt(p) ==
  /\ rel[p] = "writeReceipt"
  /\ receipt' = [version |-> VersionOf[meta[p]], identity |-> Identity(inbox)]
  /\ Proceed(p, "verifyReceipt")
  /\ UNCHANGED <<inbox, bundle, cache, prepared, operations, replaced,
                 verb, from, meta, stage>>

VerifyReceipt(p) ==
  /\ rel[p] = "verifyReceipt"
  /\ Proceed(p, IF IsCurrent(inbox) THEN "ok" ELSE "failed")
  /\ UNCHANGED <<stores, verb, from, meta, stage>>

-----------------------------------------------------------------------------
Leave(p) ==
  /\ Proceed(p, "idle")
  /\ verb' = [verb EXCEPT ![p] = "prepare"]
  /\ ResolvedAs(p, None, None) /\ Drop(p)
  /\ UNCHANGED stores

\* A killed run leaves its staging directory under a name nobody reads.
KillReleaseRun(p) ==
  /\ ~ReleaseAtRest(p)
  /\ Leave(p)

EndRelease(p) ==
  /\ rel[p] \in {"ok", "failed"}
  /\ Leave(p)

\* The operator replaces one file of the release directory, or the bundle.
ReplaceFile(name, b) ==
  /\ replaced < MaxReplacements
  /\ replaced' = replaced + 1
  /\ inbox' = [inbox EXCEPT ![name] = b]
  /\ UNCHANGED <<bundle, cache, prepared, receipt, operations, rel, verb, from, meta, stage>>

ReplaceBundle(b) ==
  /\ replaced < MaxReplacements
  /\ replaced' = replaced + 1
  /\ bundle' = b
  /\ UNCHANGED <<inbox, cache, prepared, receipt, operations, rel, verb, from, meta, stage>>

ReleaseStep(p) ==
  \/ DigestBundle(p) \/ LookUpEntry(p) \/ UnpackBundle(p) \/ PublishEntry(p)
  \/ ResolveRelease(p) \/ ConfirmInstall(p)
  \/ FindExisting(p) \/ ExtractInfra(p) \/ ExtractSolution(p) \/ CopyMetadata(p)
  \/ PublishRelease(p) \/ PlanOperation(p)
  \/ IdentifyRelease(p) \/ WriteReceipt(p) \/ VerifyReceipt(p)

Replace ==
  \/ \E name \in {"yaml", "infra", "solution", "manifest"}, b \in Builds : ReplaceFile(name, b)
  \/ \E b \in Bundles : ReplaceBundle(b)

ReleaseNext ==
  \/ Replace
  \/ \E p \in Processes :
       \/ \E command \in Verbs : BeginRelease(p, command)
       \/ ReleaseStep(p) \/ EndRelease(p) \/ ContinueInstall(p) \/ AbandonInstall(p)
       \/ KillReleaseRun(p)

ReleaseSpec == ReleaseInit /\ [][ReleaseNext]_releaseVars

-----------------------------------------------------------------------------
ReleaseTypeOK ==
  /\ inbox \in Directory /\ bundle \in Bundles
  /\ cache \in [Bundles -> Bundles \cup {None}]
  /\ prepared \in [Releases -> Tree \cup {None}]
  /\ receipt \in Receipts \cup {None}
  /\ operations \subseteq [root : Releases, build : Builds]
  /\ rel \in [Processes -> ReleaseSteps]
  /\ verb \in [Processes -> Verbs]
  /\ from \in [Processes -> {None, Inbox} \cup Bundles]
  /\ meta \in [Processes -> Builds \cup {None}]
  /\ stage \in [Processes -> {None} \cup Bundles \cup Tree]
  /\ replaced \in 0..MaxReplacements

\* An entry that is visible in the artifact cache has passed both validations
\* of a bundle, whatever replaced the bundle during the import, whichever
\* imports of it overlapped, and wherever they were killed
\* (ImportAirgapBundle, extractAndValidateAirgapBundle).
EntriesVerified ==
  \A d \in Bundles : cache[d] # None => ValidRelease(cache[d]) /\ ValidLayout(cache[d])

\* What an operation was planned from is still there, complete and with the
\* planned metadata, under the root its plan names, although preparations of
\* other builds of the version overlap and follow (Prepare, runInstall).
OperationKeepsRelease ==
  \A o \in operations :
    /\ prepared[o.root] # None
    /\ prepared[o.root].yaml = o.build
    /\ prepared[o.root].infra # None /\ prepared[o.root].solution # None


=============================================================================
