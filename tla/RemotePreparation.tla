-------------------------- MODULE RemotePreparation --------------------------
(***************************************************************************)
(* `eva remote prepare` (internal/remote: prepare.go, runner.go,           *)
(* manifest.go, payload.go, validate.go) and the commands that consume a   *)
(* completed preparation (publish.go).                                     *)
(*                                                                         *)
(* Each release has a preparation tree of its own; all of them share one   *)
(* asset cache.  Nothing is locked: a process decides once, when it looks  *)
(* for the manifest, and every later save of it replaces what is there.    *)
(*                                                                         *)
(* Data abstracted: the fifteen steps are five, one for each way a step    *)
(* uses the cache and the tree.  A cache is known by the release whose     *)
(* image, model and package lists it holds: a download replaces the lists, *)
(* while the versioned files of earlier releases stay beside them.  Two    *)
(* releases differ in their lists.                                         *)
(***************************************************************************)
EXTENDS Naturals, Sequences

CONSTANTS
  Procs,      \* eva processes
  Releases,
  None        \* no release

ASSUME NoneAssumption == None \notin Releases

VARIABLES
  manifest,     \* manifest[r]: manifest.yaml in the tree of r
  cache,        \* the release whose lists the cache holds, None when incomplete
  mapping,      \* mapping[r]: whose lists reports/repository-mapping-*.txt cover
  payload,      \* payload[r]: the lists that the target payload of r was built from
  verified,     \* the releases with a reports/verification.yaml
  pc,           \* pc[p]: where process p is
  rel,          \* rel[p]: the release p prepares
  mem,          \* mem[p]: p's manifest
  staged,       \* staged[p]: contents of p's payload staging directory
  delivered,    \* history: <<r, c>> when the payload of r, built from c, went to a target
  interrupted,  \* history: releases whose preparer was killed or could not save
  overlapped    \* history: two processes have prepared at the same time

tree == <<manifest, mapping, payload, verified>>
process == <<pc, rel, mem, staged>>
vars == <<tree, cache, process, delivered, interrupted, overlapped>>

-----------------------------------------------------------------------------
StepNames == <<"inspect", "download", "mirror", "package", "verify">>
Last == Len(StepNames)

Statuses == {"none", "pending", "running", "failed", "succeeded"}
Manifest == [status : Statuses, done : 0..Last]
NoManifest == [status |-> "none", done |-> 0]
NewManifest == [status |-> "pending", done |-> 0]

Places == {"idle", "begin", "next", "run", "check", "save", "failing", "finish"}
MaybeRelease == Releases \cup {None}

TypeOK ==
  /\ manifest \in [Releases -> Manifest]
  /\ cache \in MaybeRelease
  /\ mapping \in [Releases -> MaybeRelease]
  /\ payload \in [Releases -> MaybeRelease]
  /\ verified \subseteq Releases
  /\ pc \in [Procs -> Places]
  /\ rel \in [Procs -> MaybeRelease]
  /\ mem \in [Procs -> Manifest]
  /\ staged \in [Procs -> MaybeRelease]
  /\ delivered \subseteq Releases \X MaybeRelease
  /\ interrupted \subseteq Releases
  /\ overlapped \in BOOLEAN

Init ==
  /\ manifest = [r \in Releases |-> NoManifest]
  /\ cache = None
  /\ mapping = [r \in Releases |-> None]
  /\ payload = [r \in Releases |-> None]
  /\ verified = {}
  /\ pc = [p \in Procs |-> "idle"]
  /\ rel = [p \in Procs |-> None]
  /\ mem = [p \in Procs |-> NoManifest]
  /\ staged = [p \in Procs |-> None]
  /\ delivered = {}
  /\ interrupted = {}
  /\ overlapped = FALSE

-----------------------------------------------------------------------------
Goto(p, place) == pc' = [pc EXCEPT ![p] = place]

Exit(p) ==
  /\ Goto(p, "idle")
  /\ rel' = [rel EXCEPT ![p] = None]
  /\ mem' = [mem EXCEPT ![p] = NoManifest]
  /\ staged' = [staged EXCEPT ![p] = None]

\* The manifest p saves next.
Due(p) ==
  [mem[p] EXCEPT !.status = IF pc[p] = "begin" THEN "running"
                            ELSE IF pc[p] = "finish" THEN "succeeded" ELSE @]

\* Save: a temporary file renamed over manifest.yaml, whatever is there.
Save(p) == manifest' = [manifest EXCEPT ![rel[p]] = Due(p)]

InStep(p, name) == pc[p] \in {"run", "check"} /\ StepNames[mem[p].done + 1] = name

\* Whose release the assets of r's tree and the cache agree on: the checks of
\* validatePreparationAssets compare the mapping with the lists now in the cache.
AssetsValid(r) == cache # None /\ mapping[r] = cache

\* What a backend script leaves when it stops half way: truncated lists.
Torn(p) ==
  \/ UNCHANGED <<cache, mapping>>
  \/ /\ pc[p] = "run" /\ InStep(p, "download")
     /\ cache' = None
     /\ UNCHANGED mapping
  \/ /\ pc[p] = "run" /\ InStep(p, "mirror")
     /\ mapping' = [mapping EXCEPT ![rel[p]] = None]
     /\ UNCHANGED cache

-----------------------------------------------------------------------------
\* LoadOrCreate: only a release without a manifest is prepared.  The new
\* manifest exists in memory only.
Look(p) ==
  /\ pc[p] = "idle"
  /\ \E r \in Releases :
       /\ manifest[r].status = "none"
       /\ rel' = [rel EXCEPT ![p] = r]
       /\ mem' = [mem EXCEPT ![p] = NewManifest]
  /\ Goto(p, "begin")
  /\ overlapped' = (overlapped \/ \E q \in Procs : pc[q] # "idle")
  /\ UNCHANGED <<tree, cache, staged, delivered, interrupted>>

\* A backend cannot be resolved: nothing was written.
CannotStart(p) ==
  /\ pc[p] = "begin"
  /\ Exit(p)
  /\ UNCHANGED <<tree, cache, delivered, interrupted, overlapped>>

SaveStart(p) ==
  /\ pc[p] = "begin"
  /\ mem' = [mem EXCEPT ![p] = Due(p)]
  /\ Save(p)
  /\ Goto(p, "next")
  /\ UNCHANGED <<mapping, payload, verified, cache, rel, staged, delivered, interrupted, overlapped>>

SaveStepStart(p) ==
  /\ pc[p] = "next"
  /\ Save(p)
  /\ Goto(p, "run")
  /\ UNCHANGED <<mapping, payload, verified, cache, rel, mem, staged, delivered, interrupted, overlapped>>

-----------------------------------------------------------------------------
(* The work of a step, and then the check of its evidence. *)

RunInspect(p) ==
  /\ pc[p] = "run" /\ InStep(p, "inspect")
  /\ Goto(p, "check")
  /\ UNCHANGED <<tree, cache, rel, mem, staged, delivered, interrupted, overlapped>>

\* Faulty variant: a list another release left in the cache is kept.
RunDownloadReusing(p) ==
  /\ pc[p] = "run" /\ InStep(p, "download")
  /\ cache' = IF cache = None THEN rel[p] ELSE cache
  /\ Goto(p, "check")
  /\ UNCHANGED <<tree, rel, mem, staged, delivered, interrupted, overlapped>>

RunDownload(p) ==
  /\ pc[p] = "run" /\ InStep(p, "download")
  /\ cache' = rel[p]
  /\ Goto(p, "check")
  /\ UNCHANGED <<tree, rel, mem, staged, delivered, interrupted, overlapped>>

\* The script uploads what the cache lists, and records it.
RunMirror(p) ==
  /\ pc[p] = "run" /\ InStep(p, "mirror")
  /\ cache # None
  /\ mapping' = [mapping EXCEPT ![rel[p]] = cache]
  /\ Goto(p, "check")
  /\ UNCHANGED <<manifest, payload, verified, cache, rel, mem, staged, delivered, interrupted, overlapped>>

\* The payload archive is written from the cache into a staging directory,
\* unless a payload of this identity exists.
RunPackage(p) ==
  /\ pc[p] = "run" /\ InStep(p, "package")
  /\ AssetsValid(rel[p])
  /\ staged' = [staged EXCEPT ![p] = IF payload[rel[p]] = None THEN cache ELSE None]
  /\ Goto(p, "check")
  /\ UNCHANGED <<tree, cache, rel, mem, delivered, interrupted, overlapped>>

RunVerify(p) ==
  /\ pc[p] = "run" /\ InStep(p, "verify")
  /\ AssetsValid(rel[p]) /\ payload[rel[p]] # None
  /\ verified' = verified \cup {rel[p]}
  /\ Goto(p, "check")
  /\ UNCHANGED <<manifest, mapping, payload, cache, rel, mem, staged, delivered, interrupted, overlapped>>

\* Faulty variant: the last step counts twice.
StepDoneTwice(p) ==
  /\ mem' = [mem EXCEPT ![p].done = @ + (IF @ + 1 = Last THEN 2 ELSE 1)]
  /\ Goto(p, "save")
  /\ UNCHANGED <<manifest, mapping, verified, cache, rel, delivered, interrupted, overlapped>>

StepDone(p) ==
  /\ mem' = [mem EXCEPT ![p].done = @ + 1]
  /\ Goto(p, "save")
  /\ UNCHANGED <<manifest, mapping, verified, cache, rel, delivered, interrupted, overlapped>>

CheckStep(p) ==
  /\ pc[p] = "check" /\ ~InStep(p, "package")
  /\ InStep(p, "download") => cache # None
  /\ InStep(p, "mirror") => AssetsValid(rel[p])
  /\ StepDone(p)
  /\ UNCHANGED <<payload, staged>>

\* The staging directory is renamed to its final name; the rename fails if
\* another process was first.
PublishPayload(p) ==
  /\ pc[p] = "check" /\ InStep(p, "package")
  /\ \/ /\ staged[p] = None
        /\ UNCHANGED payload
     \/ /\ staged[p] # None
        /\ payload[rel[p]] = None
        /\ payload' = [payload EXCEPT ![rel[p]] = staged[p]]
  /\ staged' = [staged EXCEPT ![p] = None]
  /\ StepDone(p)

\* Faulty variant: the last step is not waited for.
SaveStepEarly(p) ==
  /\ pc[p] = "save"
  /\ Save(p)
  /\ Goto(p, IF mem[p].done + 1 >= Last THEN "finish" ELSE "next")
  /\ UNCHANGED <<mapping, payload, verified, cache, rel, mem, staged, delivered, interrupted, overlapped>>

SaveStep(p) ==
  /\ pc[p] = "save"
  /\ Save(p)
  /\ Goto(p, IF mem[p].done = Last THEN "finish" ELSE "next")
  /\ UNCHANGED <<mapping, payload, verified, cache, rel, mem, staged, delivered, interrupted, overlapped>>

Finish(p) ==
  /\ pc[p] = "finish"
  /\ Save(p)
  /\ Exit(p)
  /\ UNCHANGED <<mapping, payload, verified, cache, delivered, interrupted, overlapped>>

-----------------------------------------------------------------------------
(* Failures *)

\* A step may fail for any reason, and does when it lacks what it needs.
FailStep(p) ==
  /\ pc[p] \in {"run", "check"}
  /\ Torn(p)
  /\ mem' = [mem EXCEPT ![p].status = "failed"]
  /\ staged' = [staged EXCEPT ![p] = None]
  /\ Goto(p, "failing")
  /\ UNCHANGED <<manifest, payload, verified, rel, delivered, interrupted, overlapped>>

\* Faulty variant: the failure is reported but not recorded.
SaveFailureForgotten(p) ==
  /\ pc[p] = "failing"
  /\ Exit(p)
  /\ UNCHANGED <<tree, cache, delivered, interrupted, overlapped>>

SaveFailure(p) ==
  /\ pc[p] = "failing"
  /\ Save(p)
  /\ Exit(p)
  /\ UNCHANGED <<mapping, payload, verified, cache, delivered, interrupted, overlapped>>

\* A save fails before its rename, or after it (the directory sync): the
\* command returns either way.
SaveFails(p) ==
  /\ pc[p] \in {"begin", "next", "save", "finish", "failing"}
  /\ UNCHANGED manifest \/ Save(p)
  /\ interrupted' = interrupted \cup {rel[p]}
  /\ Exit(p)
  /\ UNCHANGED <<mapping, payload, verified, cache, delivered, overlapped>>

Crash(p) ==
  /\ pc[p] # "idle"
  /\ Torn(p)
  /\ interrupted' = interrupted \cup {rel[p]}
  /\ Exit(p)
  /\ UNCHANGED <<manifest, payload, verified, delivered, overlapped>>

-----------------------------------------------------------------------------
\* ValidateCompletedPreparation, on the manifest, the tree and the cache of now.
Usable(r) ==
  /\ manifest[r].status = "succeeded"
  /\ manifest[r].done = Last
  /\ AssetsValid(r)
  /\ payload[r] # None
  /\ r \in verified

\* `eva remote publish`, or an installation, sends the payload to a target.
Deliver(r) ==
  /\ Usable(r)
  /\ delivered' = delivered \cup {<<r, payload[r]>>}
  /\ UNCHANGED <<tree, cache, process, interrupted, overlapped>>

Progress(p) ==
  \/ CannotStart(p) \/ SaveStart(p) \/ SaveStepStart(p)
  \/ RunInspect(p) \/ RunDownload(p) \/ RunMirror(p) \/ RunPackage(p) \/ RunVerify(p)
  \/ CheckStep(p) \/ PublishPayload(p) \/ SaveStep(p) \/ Finish(p)
  \/ FailStep(p) \/ SaveFailure(p) \/ SaveFails(p)

Next ==
  \/ \E p \in Procs : Look(p) \/ Progress(p) \/ Crash(p)
  \/ \E r \in Releases : Deliver(r)

Spec == Init /\ [][Next]_vars

\* A started preparation keeps running: its process is scheduled and its
\* scripts and saves return.
FairSpec == Spec /\ \A p \in Procs : WF_vars(Progress(p))

-----------------------------------------------------------------------------
(* Properties *)

\* A manifest that says succeeded has everything a publication needs behind
\* it, even when several processes prepare the same release and save over
\* each other: the payload and the verification report (runner.go:105-111).
SucceededComplete ==
  \A r \in Releases : manifest[r].status = "succeeded" =>
    manifest[r].done = Last /\ payload[r] # None /\ r \in verified

\* Every preparation whose process survives and can save reaches an outcome.
PreparationEnds ==
  \A r \in Releases :
    manifest[r].status = "running" ~>
      (manifest[r].status \in {"failed", "succeeded"} \/ r \in interrupted)

\* Targets receive the assets of the release they asked for: with one
\* preparer at a time, the shared cache never leaks the lists of another
\* release into a payload, after any failure or crash (prepare.go:318-336).
OwnAssets ==
  ~overlapped =>
    /\ \A r \in Releases : payload[r] # None => payload[r] = r
    /\ \A d \in delivered : d[2] = d[1] /\ manifest[d[1]].status = "succeeded"
=============================================================================
