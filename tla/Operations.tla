----------------------------- MODULE Operations -----------------------------
(***************************************************************************)
(* The operation store (internal/operation) and the commands that use it:  *)
(* `eva plan`, `eva install`, `eva apply`, `eva retry` (cmd/eva/main.go),  *)
(* the local executor (internal/apply) and the controller-side executor    *)
(* (cmd/eva/remote_install.go).                                            *)
(*                                                                         *)
(* There is no lock on the store.  Any number of eva processes run at the  *)
(* same time, each acting on the record it loaded earlier; a process may   *)
(* be killed between any two writes and any single write may fail.         *)
(*                                                                         *)
(* Data abstracted: a plan is its execution mode, a record is its status,  *)
(* its two retry links and whether it names a result, Steps is the number  *)
(* of playbooks (or of targets, for a remote operation).  Timestamps are   *)
(* left out: they only choose which record `Latest` returns.               *)
(***************************************************************************)
EXTENDS Naturals

CONSTANTS
  Procs,      \* eva processes
  Ids,        \* operation IDs that can be generated
  None,       \* no operation
  Modes,      \* execution modes of the plans: a subset of {"local", "remote"}
  Steps       \* playbooks of a plan, or targets of a remote one

ASSUME ModesAssumption == Modes \subseteq {"local", "remote"}
ASSUME StepsAssumption == Steps \in Nat \ {0}
ASSUME NoneAssumption == None \notin Ids \cup Modes \cup {"local", "remote"}

VARIABLES
  plan,         \* plan[id]: execution mode in plan.yaml, None before the ID is drawn
  store,        \* store[id]: operation.yaml
  result,       \* result[id]: result.yaml
  logs,         \* operations whose ansible.log exists
  pc,           \* pc[p]: where process p is
  cur,          \* cur[p]: the operation p works on
  mem,          \* mem[p]: p's copy of the record of cur[p]
  src,          \* src[p]: a retry's copy of the record of its source
  executes,     \* executes[p]: p goes on to execute what it creates
  ran,          \* ran[p]: step results p has collected
  starts,       \* history: how often the execution of an operation was started
  interrupted   \* history: operations a crash or a failed write cut short

disk == <<plan, store, result, logs>>
process == <<pc, cur, mem, src, executes, ran>>
vars == <<disk, process, starts, interrupted>>

-----------------------------------------------------------------------------
Terminal == {"succeeded", "failed"}
Statuses == {"planned", "running"} \cup Terminal

\* operation.yaml: "incomplete" is a directory whose operation.yaml is still
\* missing or partly written, which Load refuses.
Record == [status : Statuses \cup {"absent", "incomplete"},
           source : Ids \cup {None}, retry : Ids \cup {None}, result : BOOLEAN]
Result == [status : Terminal \cup {"none"}, steps : 0..Steps]

NoRecord == [status |-> "absent", source |-> None, retry |-> None, result |-> FALSE]
NoResult == [status |-> "none", steps |-> 0]
PlannedRecord(source) == [NoRecord EXCEPT !.status = "planned", !.source = source]

Places == {"idle", "create", "link", "ready", "logged", "running", "result", "record"}

TypeOK ==
  /\ plan \in [Ids -> Modes \cup {None}]
  /\ store \in [Ids -> Record]
  /\ result \in [Ids -> Result]
  /\ logs \subseteq Ids
  /\ pc \in [Procs -> Places]
  /\ cur \in [Procs -> Ids \cup {None}]
  /\ mem \in [Procs -> Record]
  /\ src \in [Procs -> Record]
  /\ executes \in [Procs -> BOOLEAN]
  /\ ran \in [Procs -> 0..Steps]
  /\ starts \in [Ids -> Nat]
  /\ interrupted \subseteq Ids

Init ==
  /\ plan = [id \in Ids |-> None]
  /\ store = [id \in Ids |-> NoRecord]
  /\ result = [id \in Ids |-> NoResult]
  /\ logs = {}
  /\ pc = [p \in Procs |-> "idle"]
  /\ cur = [p \in Procs |-> None]
  /\ mem = [p \in Procs |-> NoRecord]
  /\ src = [p \in Procs |-> NoRecord]
  /\ executes = [p \in Procs |-> FALSE]
  /\ ran = [p \in Procs |-> 0]
  /\ starts = [id \in Ids |-> 0]
  /\ interrupted = {}

-----------------------------------------------------------------------------
Local(id) == plan[id] = "local"
Fresh(id) == plan[id] = None
HasDirectory(id) == store[id].status # "absent"
Loadable(id) == store[id].status \in Statuses   \* Load succeeds

Goto(p, place) == pc' = [pc EXCEPT ![p] = place]

\* The command of p is over; what it held in memory is gone.
Exit(p) ==
  /\ Goto(p, "idle")
  /\ cur' = [cur EXCEPT ![p] = None]
  /\ mem' = [mem EXCEPT ![p] = NoRecord]
  /\ src' = [src EXCEPT ![p] = NoRecord]
  /\ executes' = [executes EXCEPT ![p] = FALSE]
  /\ ran' = [ran EXCEPT ![p] = 0]

\* Mkdir of a new operation directory and plan.yaml in it.  The ID carries a
\* random nonce, so it was never used before.
MakeDirectory(p, id, mode, record, source, andExecute) ==
  /\ pc[p] = "idle"
  /\ Fresh(id)
  /\ plan' = [plan EXCEPT ![id] = mode]
  /\ store' = [store EXCEPT ![id].status = "incomplete"]
  /\ cur' = [cur EXCEPT ![p] = id]
  /\ mem' = [mem EXCEPT ![p] = record]
  /\ src' = [src EXCEPT ![p] = source]
  /\ executes' = [executes EXCEPT ![p] = andExecute]
  /\ Goto(p, "create")
  /\ UNCHANGED <<result, logs, ran, starts, interrupted>>

\* `eva plan` stops after Create, `eva install` executes the new operation.
BeginCreate(p) ==
  \E id \in Ids, mode \in Modes, andExecute \in BOOLEAN :
    MakeDirectory(p, id, mode, PlannedRecord(None), NoRecord, andExecute)

\* Faulty variant: any published record is accepted for a retry.
BeginRetryOfAny(p) ==
  \E id \in Ids, source \in Ids :
    /\ Loadable(source)
    /\ MakeDirectory(p, id, plan[source], PlannedRecord(source), store[source], TRUE)

\* `eva retry`: only a record loaded as failed is cloned.  A source that
\* already has a retry is accepted.
BeginRetry(p) ==
  \E id \in Ids, source \in Ids :
    /\ store[source].status = "failed"
    /\ MakeDirectory(p, id, plan[source], PlannedRecord(source), store[source], TRUE)

\* operation.yaml is complete: the operation is visible to other processes.
WriteRecord(p) ==
  /\ pc[p] = "create"
  /\ store' = [store EXCEPT ![cur[p]] = mem[p]]
  /\ \/ /\ mem[p].source # None
        /\ Goto(p, "link")
        /\ UNCHANGED <<cur, mem, src, executes, ran>>
     \/ /\ mem[p].source = None
        /\ executes[p]
        /\ Goto(p, "ready")
        /\ UNCHANGED <<cur, mem, src, executes, ran>>
     \/ /\ mem[p].source = None
        /\ ~executes[p]
        /\ Exit(p)
  /\ UNCHANGED <<plan, result, logs, starts, interrupted>>

\* Staging, plan.yaml or operation.yaml failed: the deferred RemoveAll runs.
CreateFails(p) ==
  /\ pc[p] = "create"
  /\ store' = [store EXCEPT ![cur[p]] = NoRecord]
  /\ Exit(p)
  /\ UNCHANGED <<plan, result, logs, starts, interrupted>>

\* Update(source): the whole source record, as it was loaded, is written back.
Link(p) ==
  /\ pc[p] = "link"
  /\ HasDirectory(mem[p].source)
  /\ store' = [store EXCEPT ![mem[p].source] = [src[p] EXCEPT !.retry = cur[p]]]
  /\ Goto(p, "ready")
  /\ UNCHANGED <<plan, result, logs, cur, mem, src, executes, ran, starts, interrupted>>

\* The update of the source failed: the published retry is removed again.
LinkFails(p) ==
  /\ pc[p] = "link"
  /\ store' = [store EXCEPT ![cur[p]] = NoRecord]
  /\ result' = [result EXCEPT ![cur[p]] = NoResult]
  /\ Exit(p)
  /\ UNCHANGED <<plan, logs, starts, interrupted>>

\* `eva apply` reads a record; the confirmation prompt may last.
LoadRecord(p) ==
  /\ pc[p] = "idle"
  /\ \E id \in Ids :
       /\ Loadable(id)
       /\ cur' = [cur EXCEPT ![p] = id]
       /\ mem' = [mem EXCEPT ![p] = store[id]]
  /\ Goto(p, "ready")
  /\ UNCHANGED <<disk, src, executes, ran, starts, interrupted>>

\* Not planned, not confirmed, a failed prerequisite or preflight, or a log
\* that already exists.
Refuse(p) ==
  /\ pc[p] = "ready"
  /\ Exit(p)
  /\ UNCHANGED <<disk, starts, interrupted>>

\* Faulty variant: every executor opens the log for appending.
OpenLogShared(p) ==
  /\ pc[p] = "ready"
  /\ mem[p].status = "planned"
  /\ HasDirectory(cur[p])
  /\ logs' = logs \cup {cur[p]}
  /\ Goto(p, "logged")
  /\ UNCHANGED <<plan, store, result, cur, mem, src, executes, ran, starts, interrupted>>

\* The local executor creates ansible.log with O_EXCL; the remote one opens
\* it for appending.
OpenLog(p) ==
  /\ pc[p] = "ready"
  /\ mem[p].status = "planned"
  /\ HasDirectory(cur[p])
  /\ Local(cur[p]) => cur[p] \notin logs
  /\ logs' = logs \cup {cur[p]}
  /\ Goto(p, "logged")
  /\ UNCHANGED <<plan, store, result, cur, mem, src, executes, ran, starts, interrupted>>

\* The second log or the update to running failed: the record stays planned.
StartFails(p) ==
  /\ pc[p] = "logged"
  /\ Exit(p)
  /\ UNCHANGED <<disk, starts, interrupted>>

Start(p) ==
  /\ pc[p] = "logged"
  /\ HasDirectory(cur[p])
  /\ mem' = [mem EXCEPT ![p].status = "running"]
  /\ store' = [store EXCEPT ![cur[p]] = mem'[p]]
  /\ starts' = [starts EXCEPT ![cur[p]] = @ + 1]
  /\ Goto(p, "running")
  /\ UNCHANGED <<plan, result, logs, cur, src, executes, ran, interrupted>>

-----------------------------------------------------------------------------
(* Execution.  mem[p].status turns to the outcome as soon as it is decided. *)

Decide(p, outcome, count) ==
  /\ mem' = [mem EXCEPT ![p].status = outcome]
  /\ ran' = [ran EXCEPT ![p] = count]
  /\ Goto(p, "result")

\* Faulty variant: one more playbook is expected than the plan has.
RunStepPastEnd(p) ==
  /\ pc[p] = "running"
  /\ Local(cur[p])
  /\ \/ /\ ran[p] < Steps
        /\ ran' = [ran EXCEPT ![p] = @ + 1]
        /\ UNCHANGED <<pc, mem>>
     \/ /\ ran[p] = Steps
        /\ Decide(p, "succeeded", Steps + 1)
  /\ UNCHANGED <<disk, cur, src, executes, starts, interrupted>>

\* One playbook succeeded; the last one completes the operation.
RunStep(p) ==
  /\ pc[p] = "running"
  /\ Local(cur[p])
  /\ \/ /\ ran[p] + 1 < Steps
        /\ ran' = [ran EXCEPT ![p] = @ + 1]
        /\ UNCHANGED <<pc, mem>>
     \/ /\ ran[p] + 1 = Steps
        /\ Decide(p, "succeeded", Steps)
  /\ UNCHANGED <<disk, cur, src, executes, starts, interrupted>>

\* Faulty variant: the error is returned without recording the outcome.
StepFailsReturning(p) ==
  /\ pc[p] = "running"
  /\ Local(cur[p])
  /\ Exit(p)
  /\ UNCHANGED <<disk, starts, interrupted>>

\* A playbook failed, or the check after the precondition step did: either
\* way the step has its result and the rest is not run.
StepFails(p) ==
  /\ pc[p] = "running"
  /\ Local(cur[p])
  /\ Decide(p, "failed", ran[p] + 1)
  /\ UNCHANGED <<disk, cur, src, executes, starts, interrupted>>

\* The remote executor goes on to the next target after a failure.
RunTarget(p) ==
  /\ pc[p] = "running"
  /\ ~Local(cur[p])
  /\ \E ok \in BOOLEAN :
       LET outcome == IF ok THEN mem[p].status ELSE "failed" IN
       \/ /\ ran[p] + 1 < Steps
          /\ mem' = [mem EXCEPT ![p].status = outcome]
          /\ ran' = [ran EXCEPT ![p] = @ + 1]
          /\ UNCHANGED pc
       \/ /\ ran[p] + 1 = Steps
          /\ Decide(p, IF outcome = "failed" THEN "failed" ELSE "succeeded", Steps)
  /\ UNCHANGED <<disk, cur, src, executes, starts, interrupted>>

\* No target can be reached or verified: nothing is installed.
InstallRefused(p) ==
  /\ pc[p] = "running"
  /\ ~Local(cur[p])
  /\ ran[p] = 0
  /\ Decide(p, "failed", 0)
  /\ UNCHANGED <<disk, cur, src, executes, starts, interrupted>>

WriteResult(p) ==
  /\ pc[p] = "result"
  /\ HasDirectory(cur[p])
  /\ result' = [result EXCEPT ![cur[p]] = [status |-> mem[p].status, steps |-> ran[p]]]
  /\ mem' = [mem EXCEPT ![p].result = TRUE]
  /\ Goto(p, "record")
  /\ UNCHANGED <<plan, store, logs, cur, src, executes, ran, starts, interrupted>>

\* Faulty variant: the record names a result that was not written.
WriteResultFailsUnnoticed(p) ==
  /\ pc[p] = "result"
  /\ mem' = [mem EXCEPT ![p].result = TRUE]
  /\ Goto(p, "record")
  /\ UNCHANGED <<disk, cur, src, executes, ran, starts, interrupted>>

\* The local executor still records the outcome; the remote one returns.
WriteResultFails(p) ==
  /\ pc[p] = "result"
  /\ \/ /\ Local(cur[p])
        /\ Goto(p, "record")
        /\ UNCHANGED <<cur, mem, src, executes, ran, interrupted>>
     \/ /\ ~Local(cur[p])
        /\ interrupted' = interrupted \cup {cur[p]}
        /\ Exit(p)
  /\ UNCHANGED <<disk, starts>>

RecordOutcome(p) ==
  /\ pc[p] = "record"
  /\ HasDirectory(cur[p])
  /\ store' = [store EXCEPT ![cur[p]] = mem[p]]
  /\ Exit(p)
  /\ UNCHANGED <<plan, result, logs, starts, interrupted>>

RecordOutcomeFails(p) ==
  /\ pc[p] = "record"
  /\ interrupted' = interrupted \cup {cur[p]}
  /\ Exit(p)
  /\ UNCHANGED <<disk, starts>>

\* The process is killed, or the server goes down.
Crash(p) ==
  /\ pc[p] # "idle"
  /\ interrupted' = interrupted \cup {cur[p]}
  /\ Exit(p)
  /\ UNCHANGED <<disk, starts>>

-----------------------------------------------------------------------------
\* The steps a running command takes on its own.
Progress(p) ==
  \/ WriteRecord(p) \/ CreateFails(p) \/ Link(p) \/ LinkFails(p)
  \/ Refuse(p) \/ OpenLog(p) \/ Start(p) \/ StartFails(p)
  \/ RunStep(p) \/ StepFails(p) \/ RunTarget(p) \/ InstallRefused(p)
  \/ WriteResult(p) \/ WriteResultFails(p)
  \/ RecordOutcome(p) \/ RecordOutcomeFails(p)

Next ==
  \E p \in Procs :
    BeginCreate(p) \/ BeginRetry(p) \/ LoadRecord(p) \/ Progress(p) \/ Crash(p)

Spec == Init /\ [][Next]_vars

\* A started command keeps running: its process is scheduled, its playbooks
\* and its writes return.
FairSpec == Spec /\ \A p \in Procs : WF_vars(Progress(p))

-----------------------------------------------------------------------------
(* Properties *)

PastGate(p) == pc[p] \in {"logged", "running", "result", "record"}
Executing(p) == pc[p] \in {"running", "result", "record"}

\* The playbooks of a local operation are run for at most one process at a
\* time and at most once in the life of the operation, although every process
\* decides on a copy of the record it loaded before its prompt
\* (apply.go:94-97) and only the exclusive creation of ansible.log (143)
\* stands between two of them.
LocalRunsOnce ==
  \A id \in Ids : Local(id) =>
    /\ starts[id] <= 1
    /\ \A p, q \in Procs : cur[p] = id /\ cur[q] = id /\ PastGate(p) /\ PastGate(q) => p = q

\* An execution starts only from a record that is planned on disk at that
\* moment (apply.go:95-97, remote_install.go:38-40: "only planned operations
\* can be applied").
StartsPlanned(id) == starts'[id] # starts[id] => store[id].status = "planned"
LocalStartsPlanned == [][\A id \in Ids : Local(id) => StartsPlanned(id)]_vars
RemoteStartsPlanned == [][\A id \in Ids : plan[id] = "remote" => StartsPlanned(id)]_vars

\* A record that names its result tells the truth about it, through every
\* failed write between the two files (finish, apply.go:265-283); a
\* successful result lists every playbook of the plan.
ResultMatchesRecord ==
  \A id \in Ids : Local(id) /\ Loadable(id) /\ store[id].result =>
    /\ result[id].status = store[id].status
    /\ store[id].status = "succeeded" => result[id].steps = Steps

\* A retry that can be loaded points at a source that failed and stays failed;
\* a source that records a retry records one of its own (operation.go:118-120).
\* The source may have been withdrawn as a retry itself.
RetryLinks ==
  \A id \in Ids : Local(id) /\ Loadable(id) =>
    /\ store[id].source # None => store[store[id].source].status \in {"failed", "absent"}
    /\ store[id].retry # None =>
         /\ store[id].status = "failed"
         /\ store[store[id].retry].source \in {id, None}

\* An execution whose process survives and can write reaches an outcome that
\* stays on record, even if a command withdraws the retry it executes.
ExecutionEnds ==
  \A id \in Ids :
    store[id].status = "running" ~>
      (store[id].status \in Terminal \cup {"absent"} \/ id \in interrupted)

\* The life of the local operations implements the promise of the store.
StatusOf(id) ==
  IF Local(id) /\ Loadable(id) THEN store[id].status
  ELSE IF ~Local(id) \/ store[id].status = "incomplete" THEN "absent" ELSE "withdrawn"
LifecycleStatus == [id \in Ids |-> StatusOf(id)]
LifecycleSettled ==
  {id \in Ids : Local(id) /\ Loadable(id) /\ ~\E p \in Procs : cur[p] = id /\ pc[p] = "link"}
Lifecycle == INSTANCE OperationLifecycle WITH status <- LifecycleStatus, settled <- LifecycleSettled
ImplementsLifecycle == Lifecycle!Spec
=============================================================================
