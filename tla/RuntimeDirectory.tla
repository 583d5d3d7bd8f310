-------------------------- MODULE RuntimeDirectory --------------------------
(***************************************************************************)
(* The managed runtime of a host: one directory that runtime.Install       *)
(* replaces (internal/runtime/runtime.go) for `eva runtime install`,       *)
(* `eva runtime bootstrap`, and the first `eva install` of a host          *)
(* (ensureInstallRuntimeForRepository).                                    *)
(*                                                                         *)
(* Install copies the payload to a staging directory beside the root,      *)
(* renames the root away, renames the staging to the root, and deletes     *)
(* what it renamed away.  No lock is taken: other installers may run       *)
(* between any two of these steps, and each may be killed.                 *)
(*                                                                         *)
(* Data abstracted: a directory is the version whose payload it holds;     *)
(* Damaged is one that Resolve refuses.  rename is atomic and, as          *)
(* os.Rename does, refuses a destination that is a directory.              *)
(***************************************************************************)
EXTENDS ControlHost, FiniteSets

CONSTANTS
  Versions,     \* versions of the runtime
  Absent,       \* no directory
  Damaged,      \* a directory that is not a runtime
  Partial       \* a directory that is being filled

ASSUME RuntimeAssumption ==
  /\ {Absent, Damaged, Partial} \cap Versions = {}
  /\ Cardinality({Absent, Damaged, Partial}) = 3

VARIABLES
  root,         \* the directory DefaultRoot
  step,         \* step[p]: what p does next
  payload,      \* payload[p]: the payload p installs
  staging,      \* staging[p]: the directory .eva-runtime-* of p
  backup,       \* backup[p]: the directory .eva-runtime-previous-* of p
  abandoned,    \* the previous runtimes that no run will restore or delete
  seen,         \* history: a runtime has been at the root
  interrupted   \* history: a run was killed, or could not rename back

runtimeVars ==
  <<root, step, payload, staging, backup, abandoned, seen, interrupted>>

-----------------------------------------------------------------------------
Directories == Versions \cup {Damaged}
Payloads == Versions \cup {Damaged}

RuntimeSteps ==
  {"idle", "inspect", "validate", "copy", "look", "move", "publish",
   "restore", "remove", "confirm", "ok", "failed"}
RuntimeAtRest(p) == step[p] \in {"idle", "ok", "failed"}

RuntimeInit ==
  /\ root \in Versions \cup {Damaged, Absent}
  /\ seen = (root \in Versions)
  /\ step = [p \in Processes |-> "idle"]
  /\ payload = [p \in Processes |-> Damaged]
  /\ staging = [p \in Processes |-> Absent]
  /\ backup = [p \in Processes |-> Absent]
  /\ abandoned = {}
  /\ interrupted = FALSE

-----------------------------------------------------------------------------
Go(p, next) == step' = [step EXCEPT ![p] = next]
Resolves(directory) == directory \in Versions

\* runtime install and runtime bootstrap replace whatever is at the root.
BeginReplace(p, v) ==
  /\ step[p] = "idle"
  /\ payload' = [payload EXCEPT ![p] = v]
  /\ Go(p, "validate")
  /\ UNCHANGED <<root, staging, backup, abandoned, seen, interrupted>>

\* A run that only needs a runtime: one that resolves is enough.  Otherwise a
\* local repository installs its own, a remote one first looks again, and an
\* online one gives up.
BeginEnsure(p, mode, v) ==
  /\ step[p] = "idle"
  /\ payload' = [payload EXCEPT ![p] = v]
  /\ Go(p, CASE Resolves(root) -> "ok"
             [] ~Resolves(root) /\ mode = "online" -> "failed"
             [] ~Resolves(root) /\ mode = "remote" -> "inspect"
             [] ~Resolves(root) /\ mode = "local" -> "validate")
  /\ UNCHANGED <<root, staging, backup, abandoned, seen, interrupted>>

\* Lstat: a directory that is there, valid by now or not, is refused.
Inspect(p) ==
  /\ step[p] = "inspect"
  /\ Go(p, IF root = Absent THEN "validate" ELSE "failed")
  /\ UNCHANGED <<root, payload, staging, backup, abandoned, seen, interrupted>>

-----------------------------------------------------------------------------
(* Install *)

Validate(p) ==
  /\ step[p] = "validate"
  /\ IF Resolves(payload[p])
     THEN Go(p, "copy") /\ staging' = [staging EXCEPT ![p] = Partial]
     ELSE Go(p, "failed") /\ UNCHANGED staging
  /\ UNCHANGED <<root, payload, backup, abandoned, seen, interrupted>>

\* Faulty variant: a copy that fails half way is not noticed.
CopyUnnoticed(p) ==
  /\ step[p] = "copy"
  /\ Go(p, "look")
  /\ UNCHANGED <<root, payload, staging, backup, abandoned, seen, interrupted>>

\* copyTree, relocatePythonVirtualEnv and Resolve of the staging directory.
Copy(p) ==
  /\ step[p] = "copy"
  /\ \/ /\ staging' = [staging EXCEPT ![p] = payload[p]]
        /\ Go(p, "look")
     \/ /\ staging' = [staging EXCEPT ![p] = Absent]
        /\ Go(p, "failed")
  /\ UNCHANGED <<root, payload, backup, abandoned, seen, interrupted>>

\* moveExistingRuntime looks, then renames.
LookForExisting(p) ==
  /\ step[p] = "look"
  /\ Go(p, IF root = Absent THEN "publish" ELSE "move")
  /\ UNCHANGED <<root, payload, staging, backup, abandoned, seen, interrupted>>

\* Faulty variant: the existing runtime is deleted, not moved away.
DeleteExisting(p) ==
  /\ step[p] = "move"
  /\ root' = Absent
  /\ Go(p, "publish")
  /\ UNCHANGED <<payload, staging, backup, abandoned, seen, interrupted>>

MoveExisting(p) ==
  /\ step[p] = "move"
  /\ \/ /\ root # Absent
        /\ backup' = [backup EXCEPT ![p] = root]
        /\ root' = Absent
        /\ Go(p, "publish")
        /\ UNCHANGED staging
     \/ /\ staging' = [staging EXCEPT ![p] = Absent]
        /\ Go(p, "failed")
        /\ UNCHANGED <<root, backup>>
  /\ UNCHANGED <<payload, abandoned, seen, interrupted>>

Publish(p) ==
  /\ step[p] = "publish"
  /\ root = Absent
  /\ root' = staging[p]
  /\ seen' = TRUE
  /\ staging' = [staging EXCEPT ![p] = Absent]
  /\ Go(p, IF backup[p] = Absent THEN "confirm" ELSE "remove")
  /\ UNCHANGED <<payload, backup, abandoned, interrupted>>

\* Faulty variant: it returns without renaming the previous one back.
PublishGivesUp(p) ==
  /\ step[p] = "publish"
  /\ staging' = [staging EXCEPT ![p] = Absent]
  /\ Go(p, "failed")
  /\ UNCHANGED <<root, payload, backup, abandoned, seen, interrupted>>

\* The rename fails, because someone else published or for its own reasons.
PublishFails(p) ==
  /\ step[p] = "publish"
  /\ staging' = [staging EXCEPT ![p] = Absent]
  /\ Go(p, IF backup[p] = Absent THEN "failed" ELSE "restore")
  /\ UNCHANGED <<root, payload, backup, abandoned, seen, interrupted>>

Restore(p) ==
  /\ step[p] = "restore"
  /\ root = Absent
  /\ root' = backup[p]
  /\ backup' = [backup EXCEPT ![p] = Absent]
  /\ Go(p, "failed")
  /\ UNCHANGED <<payload, staging, abandoned, seen, interrupted>>

\* Nothing deletes or restores the previous runtime any more.
RestoreFails(p) ==
  /\ step[p] = "restore"
  /\ abandoned' = abandoned \cup {backup[p]}
  /\ backup' = [backup EXCEPT ![p] = Absent]
  /\ interrupted' = (interrupted \/ root = Absent)
  /\ Go(p, "failed")
  /\ UNCHANGED <<root, payload, staging, seen>>

RemovePrevious(p) ==
  /\ step[p] = "remove"
  /\ backup' = [backup EXCEPT ![p] = Absent]
  /\ step' \in {[step EXCEPT ![p] = "confirm"], [step EXCEPT ![p] = "failed"]}
  /\ UNCHANGED <<root, payload, staging, abandoned, seen, interrupted>>

\* Install returns Resolve(destination), whoever published what is there.
Confirm(p) ==
  /\ step[p] = "confirm"
  /\ Go(p, IF Resolves(root) THEN "ok" ELSE "failed")
  /\ UNCHANGED <<root, payload, staging, backup, abandoned, seen, interrupted>>

\* The staging directory stays behind too, where no later run looks.  A
\* previous runtime that was being deleted may be there in part only.
KillInstaller(p) ==
  /\ ~RuntimeAtRest(p)
  /\ Go(p, "idle")
  /\ payload' = [payload EXCEPT ![p] = Damaged]
  /\ staging' = [staging EXCEPT ![p] = Absent]
  /\ backup' = [backup EXCEPT ![p] = Absent]
  /\ abandoned' = IF step[p] \in {"publish", "restore"} /\ backup[p] # Absent
                  THEN abandoned \cup {backup[p]} ELSE abandoned
  /\ interrupted' = TRUE
  /\ UNCHANGED <<root, seen>>

\* The run, or the part of it that needs the runtime, has ended.
EndRuntime(p) ==
  /\ step[p] \in {"ok", "failed"}
  /\ Go(p, "idle")
  /\ payload' = [payload EXCEPT ![p] = Damaged]
  /\ UNCHANGED <<root, staging, backup, abandoned, seen, interrupted>>

RuntimeStep(p) ==
  \/ Inspect(p) \/ Validate(p) \/ Copy(p) \/ LookForExisting(p)
  \/ MoveExisting(p) \/ Publish(p) \/ PublishFails(p)
  \/ Restore(p) \/ RestoreFails(p) \/ RemovePrevious(p) \/ Confirm(p)

RuntimeNext ==
  \E p \in Processes :
    \/ \E v \in Payloads :
         \/ BeginReplace(p, v)
         \/ \E mode \in {"online", "remote", "local"} : BeginEnsure(p, mode, v)
    \/ RuntimeStep(p) \/ EndRuntime(p)
    \/ KillInstaller(p)

RuntimeSpec == RuntimeInit /\ [][RuntimeNext]_runtimeVars

-----------------------------------------------------------------------------
RuntimeTypeOK ==
  /\ root \in Directories \cup {Absent}
  /\ step \in [Processes -> RuntimeSteps]
  /\ payload \in [Processes -> Payloads]
  /\ staging \in [Processes -> Versions \cup {Absent, Partial}]
  /\ backup \in [Processes -> Directories \cup {Absent}]
  /\ abandoned \in SUBSET Directories
  /\ seen \in BOOLEAN /\ interrupted \in BOOLEAN

\* Once a host has had a runtime, some whole runtime is on its disk for ever,
\* at the root or under a name .eva-runtime-previous-*, whatever installers
\* overlap and wherever they are killed: Install deletes the previous one
\* only when another is out of reach of every deletion (Install).
RuntimeSurvives ==
  seen => \/ root \in Versions
          \/ \E p \in Processes : step[p] # "remove" /\ backup[p] \in Versions
          \/ abandoned \cap Versions # {}

\* When every installer has ended, none of them killed and no rename back
\* refused by the disk, the host still has a directory at the runtime root,
\* however the installers overlapped and failed (Install, moveExistingRuntime).
RuntimeKept ==
  (seen /\ ~interrupted /\ \A p \in Processes : RuntimeAtRest(p)) => root # Absent
=============================================================================
