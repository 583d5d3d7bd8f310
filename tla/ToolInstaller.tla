---------------------------- MODULE ToolInstaller ----------------------------
(***************************************************************************)
(* The EVA Tool installer (scripts/install/install_eva_tool.sh) and the    *)
(* Current Release receipt it maintains (internal/release/current.go).     *)
(*                                                                         *)
(* An installation replaces three things as one transaction: the Tool      *)
(* directory, the command link and the receipt.  The script records each   *)
(* rename in a shell variable one command later; the exit trap rolls back  *)
(* what those variables say, and then deletes the backups.                 *)
(*                                                                         *)
(* Data abstracted: a Tool and a receipt are the release they belong to, a *)
(* link is the managed one ("eva"), a foreign command, or none.  Archive   *)
(* checks, modes and ownership are one step that passes or fails.          *)
(***************************************************************************)
CONSTANTS
  Installers,      \* runs of the script
  Versions,        \* releases
  None,            \* no release, no run
  Interruptible    \* the places where an error or a handled signal can end a run

ASSUME NoneAssumption == None \notin Versions \cup Installers

VARIABLES
  tool,       \* the release in tool_dir
  link,       \* command_link
  receipt,    \* the release current.yaml names
  lock,       \* the run that holds installer_lock
  pc,         \* pc[i]: what run i does next
  new,        \* new[i]: the release it installs
  flags,      \* flags[i]: the shell variables that are true
  backup,     \* backup[i]: what its backup files hold
  before,     \* history: before[i]: tool, link and receipt as run i found them
  damaged     \* history: a run was killed or could not roll back

system == <<tool, link, receipt>>
run == <<pc, new, flags, backup>>
vars == <<system, lock, run, before, damaged>>

-----------------------------------------------------------------------------
Links == {"none", "eva", "foreign"}
Tools == Versions \cup {None}
Snapshot == [tool : Tools, link : Links, receipt : Tools]
Nothing == [tool |-> None, link |-> "none", receipt |-> None]

Flags == {"started", "hadReceipt", "toolSaved", "linkSaved", "toolPublished",
          "linkPublished", "registering", "committed", "rollbackError"}

\* The places between a rename and the assignment of its variable, and the
\* place after it.
Windows == {"toolSaved", "linkSaved", "toolPublished", "linkPublished"}
After == [toolSaved |-> "saveLink", linkSaved |-> "publishTool",
          toolPublished |-> "publishLink", linkPublished |-> "check"]

Commands == {"saveReceipt", "saveTool", "saveLink", "publishTool", "publishLink",
             "check", "register", "validate"}
Undoing == {"undoReceipt", "undoNewLink", "undoLink", "undoNewTool", "undoTool"}
Places == {"idle", "stage", "cleanup"} \cup Commands \cup Windows \cup Undoing

\* Every command may fail; a signal that arrives during a rename is handled
\* right after it, in a window.
ErrorPlaces == Commands \cup {"stage"}
ASSUME InterruptibleAssumption ==
  ErrorPlaces \subseteq Interruptible /\ Interruptible \subseteq ErrorPlaces \cup Windows

TypeOK ==
  /\ tool \in Tools
  /\ link \in Links
  /\ receipt \in Tools
  /\ lock \in Installers \cup {None}
  /\ pc \in [Installers -> Places]
  /\ new \in [Installers -> Tools]
  /\ flags \in [Installers -> SUBSET Flags]
  /\ backup \in [Installers -> Snapshot]
  /\ before \in [Installers -> Snapshot]
  /\ damaged \in BOOLEAN

\* A server without EVA, or one an installer left.
Init ==
  /\ \/ tool = None /\ receipt = None /\ link \in {"none", "foreign"}
     \/ tool \in Versions /\ receipt = tool /\ link = "eva"
  /\ lock = None
  /\ pc = [i \in Installers |-> "idle"]
  /\ new = [i \in Installers |-> None]
  /\ flags = [i \in Installers |-> {}]
  /\ backup = [i \in Installers |-> Nothing]
  /\ before = [i \in Installers |-> Nothing]
  /\ damaged = FALSE

-----------------------------------------------------------------------------
Goto(i, place) == pc' = [pc EXCEPT ![i] = place]
Raise(i, flag) == flags' = [flags EXCEPT ![i] = @ \cup {flag}]
Keep(i, field, value) == backup' = [backup EXCEPT ![i][field] = value]
Set(i, flag) == flag \in flags[i]

\* The run is over; the kernel drops its lock.
Exit(i) ==
  /\ lock' = None
  /\ Goto(i, "idle")
  /\ new' = [new EXCEPT ![i] = None]
  /\ flags' = [flags EXCEPT ![i] = {}]
  /\ backup' = [backup EXCEPT ![i] = Nothing]

\* Faulty variant: the lock is taken without looking.
AcquireAnyway(i) ==
  /\ pc[i] = "idle"
  /\ \E v \in Versions : new' = [new EXCEPT ![i] = v]
  /\ lock' = i
  /\ Goto(i, "stage")
  /\ UNCHANGED <<system, flags, backup, before, damaged>>

\* flock -n.  A foreign command passes only with --force.
Acquire(i) ==
  /\ pc[i] = "idle"
  /\ lock = None
  /\ \E v \in Versions : new' = [new EXCEPT ![i] = v]
  /\ lock' = i
  /\ Goto(i, "stage")
  /\ UNCHANGED <<system, flags, backup, before, damaged>>

\* The artifact is unpacked and checked beside the installed Tool.
Stage(i) ==
  /\ pc[i] = "stage"
  /\ Raise(i, "started")
  /\ before' = [before EXCEPT ![i] = [tool |-> tool, link |-> link, receipt |-> receipt]]
  /\ Goto(i, "saveReceipt")
  /\ UNCHANGED <<system, lock, new, backup, damaged>>

\* The receipt found must be one this release may replace.
SaveReceipt(i) ==
  /\ pc[i] = "saveReceipt"
  /\ \/ /\ receipt = None
        /\ UNCHANGED <<flags, backup>>
     \/ /\ receipt # None
        /\ Keep(i, "receipt", receipt)
        /\ Raise(i, "hadReceipt")
  /\ Goto(i, "saveTool")
  /\ UNCHANGED <<system, lock, new, before, damaged>>

SaveTool(i) ==
  /\ pc[i] = "saveTool"
  /\ \/ /\ tool = None
        /\ Goto(i, "saveLink")
        /\ UNCHANGED <<tool, backup>>
     \/ /\ tool # None
        /\ Keep(i, "tool", tool)
        /\ tool' = None
        /\ Goto(i, "toolSaved")
  /\ UNCHANGED <<link, receipt, lock, new, flags, before, damaged>>

SaveLink(i) ==
  /\ pc[i] = "saveLink"
  /\ \/ /\ link = "none"
        /\ Goto(i, "publishTool")
        /\ UNCHANGED <<link, backup>>
     \/ /\ link # "none"
        /\ Keep(i, "link", link)
        /\ link' = "none"
        /\ Goto(i, "linkSaved")
  /\ UNCHANGED <<tool, receipt, lock, new, flags, before, damaged>>

PublishTool(i) ==
  /\ pc[i] = "publishTool"
  /\ tool' = new[i]
  /\ Goto(i, "toolPublished")
  /\ UNCHANGED <<link, receipt, lock, new, flags, backup, before, damaged>>

PublishLink(i) ==
  /\ pc[i] = "publishLink"
  /\ link' = "eva"
  /\ Goto(i, "linkPublished")
  /\ UNCHANGED <<tool, receipt, lock, new, flags, backup, before, damaged>>

\* Faulty variant: publishing the Tool is not recorded.
SetVariableButNew(i) ==
  /\ pc[i] \in Windows
  /\ IF pc[i] = "toolPublished" THEN UNCHANGED flags ELSE Raise(i, pc[i])
  /\ Goto(i, After[pc[i]])
  /\ UNCHANGED <<system, lock, new, backup, before, damaged>>

\* The assignment that follows a rename.
SetVariable(i) ==
  /\ pc[i] \in Windows
  /\ Raise(i, pc[i])
  /\ Goto(i, After[pc[i]])
  /\ UNCHANGED <<system, lock, new, backup, before, damaged>>

\* The installed command answers with its version.  The receipt counts as
\* touched before it is.
CheckVersion(i) ==
  /\ pc[i] = "check"
  /\ Raise(i, "registering")
  /\ Goto(i, "register")
  /\ UNCHANGED <<system, lock, new, backup, before, damaged>>

Register(i) ==
  /\ pc[i] = "register"
  /\ receipt' = new[i]
  /\ Goto(i, "validate")
  /\ UNCHANGED <<tool, link, lock, new, flags, backup, before, damaged>>

Commit(i) ==
  /\ pc[i] = "validate"
  /\ receipt = new[i] /\ tool = new[i]
  /\ Raise(i, "committed")
  /\ Goto(i, "cleanup")
  /\ UNCHANGED <<system, lock, new, backup, before, damaged>>

-----------------------------------------------------------------------------
(* on_exit: a failed command, or a signal, before the commit. *)

\* Faulty variant: a signal after the commit rolls back as well.
AbortCommitted(i) ==
  /\ pc[i] \in Interruptible \cup {"cleanup"}
  /\ \/ UNCHANGED receipt
     \/ pc[i] = "register" /\ receipt' = new[i]
  /\ Goto(i, IF Set(i, "started") THEN "undoReceipt" ELSE "cleanup")
  /\ UNCHANGED <<tool, link, lock, new, flags, backup, before, damaged>>

\* Registration may fail after its rename, in the directory sync.
Abort(i) ==
  /\ pc[i] \in Interruptible
  /\ \/ UNCHANGED receipt
     \/ pc[i] = "register" /\ receipt' = new[i]
  /\ Goto(i, IF Set(i, "started") THEN "undoReceipt" ELSE "cleanup")
  /\ UNCHANGED <<tool, link, lock, new, flags, backup, before, damaged>>

UndoReceipt(i) ==
  /\ pc[i] = "undoReceipt"
  /\ receipt' = IF ~Set(i, "registering") THEN receipt
                ELSE IF Set(i, "hadReceipt") THEN backup[i].receipt ELSE None
  /\ Goto(i, "undoNewLink")
  /\ UNCHANGED <<tool, link, lock, new, flags, backup, before, damaged>>

UndoNewLink(i) ==
  /\ pc[i] = "undoNewLink"
  /\ link' = IF Set(i, "linkPublished") THEN "none" ELSE link
  /\ Goto(i, "undoLink")
  /\ UNCHANGED <<tool, receipt, lock, new, flags, backup, before, damaged>>

\* Faulty variant: the wrong backup is moved over the command link.
UndoLinkSwapped(i) ==
  /\ pc[i] = "undoLink"
  /\ link' = IF Set(i, "linkSaved") THEN backup[i].tool ELSE link
  /\ Goto(i, "undoNewTool")
  /\ UNCHANGED <<tool, receipt, lock, new, flags, backup, before, damaged>>

UndoLink(i) ==
  /\ pc[i] = "undoLink"
  /\ link' = IF Set(i, "linkSaved") THEN backup[i].link ELSE link
  /\ Goto(i, "undoNewTool")
  /\ UNCHANGED <<tool, receipt, lock, new, flags, backup, before, damaged>>

UndoNewTool(i) ==
  /\ pc[i] = "undoNewTool"
  /\ tool' = IF Set(i, "toolPublished") THEN None ELSE tool
  /\ Goto(i, "undoTool")
  /\ UNCHANGED <<link, receipt, lock, new, flags, backup, before, damaged>>

\* mv of the backup: into tool_dir when that still exists.
UndoTool(i) ==
  /\ pc[i] = "undoTool"
  /\ tool' = IF Set(i, "toolSaved") /\ tool = None THEN backup[i].tool ELSE tool
  /\ Goto(i, "cleanup")
  /\ UNCHANGED <<link, receipt, lock, new, flags, backup, before, damaged>>

\* The variable that tells whether a rollback command has something to do.
UndoneIf == [undoReceipt |-> "registering", undoNewLink |-> "linkPublished",
             undoLink |-> "linkSaved", undoNewTool |-> "toolPublished", undoTool |-> "toolSaved"]
NextUndo == [undoReceipt |-> "undoNewLink", undoNewLink |-> "undoLink",
             undoLink |-> "undoNewTool", undoNewTool |-> "undoTool", undoTool |-> "cleanup"]

\* A rollback command that has something to do fails; the others still run.
UndoFails(i) ==
  /\ pc[i] \in Undoing
  /\ Set(i, UndoneIf[pc[i]])
  /\ Raise(i, "rollbackError")
  /\ Goto(i, NextUndo[pc[i]])
  /\ UNCHANGED <<system, lock, new, backup, before, damaged>>

\* Staging and every backup are deleted, whatever the rollback achieved.
Cleanup(i) ==
  /\ pc[i] = "cleanup"
  /\ Exit(i)
  /\ damaged' = (damaged \/ Set(i, "rollbackError"))
  /\ UNCHANGED <<system, before>>

\* SIGKILL, a second signal during the rollback, or a server that goes down.
Kill(i) ==
  /\ pc[i] # "idle"
  /\ Exit(i)
  /\ damaged' = (damaged \/ (Set(i, "started") /\ ~Set(i, "committed")))
  /\ UNCHANGED <<system, before>>

-----------------------------------------------------------------------------
Step(i) ==
  \/ Stage(i) \/ SaveReceipt(i) \/ SaveTool(i) \/ SaveLink(i)
  \/ PublishTool(i) \/ PublishLink(i) \/ SetVariable(i)
  \/ CheckVersion(i) \/ Register(i) \/ Commit(i) \/ Abort(i)
  \/ UndoReceipt(i) \/ UndoNewLink(i) \/ UndoLink(i) \/ UndoNewTool(i) \/ UndoTool(i)
  \/ UndoFails(i) \/ Cleanup(i)

Next == \E i \in Installers : Acquire(i) \/ Step(i) \/ Kill(i)

Spec == Init /\ [][Next]_vars

-----------------------------------------------------------------------------
(* Properties *)

InTransaction(i) == Set(i, "started") /\ ~Set(i, "committed")

\* A rollback that reports no error leaves the Tool, the command link and the
\* receipt as the run found them, wherever it was interrupted
\* (test_eva_tool_archive_layout.sh:197-198: "must restore the prior Tool,
\* command link, and receipt as one transaction").
RollbackRestores ==
  \A i \in Installers :
    pc[i] = "cleanup" /\ InTransaction(i) /\ ~Set(i, "rollbackError") =>
      before[i] = [tool |-> tool, link |-> link, receipt |-> receipt]

\* Between installations the command never dangles and the receipt names the
\* installed release, over any history of completed, failed and interrupted
\* installations that were neither killed nor failed to roll back.
ConsistentAtRest ==
  lock = None /\ ~damaged =>
    /\ receipt = tool
    /\ link = "eva" <=> tool # None

\* A committed installation is complete, and stays what it committed until its
\* lock is free again (test_eva_tool_archive_layout.sh:361-362: interruption
\* after commit "keeps the newly committed state").
CommittedIsComplete ==
  \A i \in Installers : Set(i, "committed") =>
    tool = new[i] /\ link = "eva" /\ receipt = new[i]
=============================================================================
