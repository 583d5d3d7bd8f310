-------------------------- MODULE OperationsProofs --------------------------
(***************************************************************************)
(* For any number of processes, operations and playbooks: the store is     *)
(* type correct, a local operation is executed at most once and by one     *)
(* process at a time, and only from a planned record; records agree with   *)
(* the results they name, and sources with their retries.                  *)
(***************************************************************************)
EXTENDS Operations, TLAPS

BeforeStart == {"idle", "create", "link", "ready", "logged"}

\* A process collects results only while it runs, and one is still missing.
RanInv ==
  \A p \in Procs :
    /\ pc[p] \in BeforeStart => ran[p] = 0
    /\ pc[p] = "running" => ran[p] < Steps

\* An ID nobody has drawn has left no trace, so a drawn one is new.
FreshInv ==
  /\ \A p \in Procs : pc[p] # "idle" => cur[p] \in Ids /\ ~Fresh(cur[p])
  /\ \A id \in Ids : Fresh(id) => store[id].status = "absent" /\ id \notin logs /\ starts[id] = 0

\* The directory of a new operation belongs to its creator alone until the
\* record is complete.
CreateInv ==
  \A p \in Procs :
    /\ pc[p] = "create" =>
         /\ store[cur[p]].status = "incomplete"
         /\ mem[p].status = "planned"
         /\ \A q \in Procs : pc[q] = "create" /\ cur[q] = cur[p] => q = p
    /\ pc[p] \in Places \ {"idle", "create"} =>
         /\ store[cur[p]].status # "incomplete"
         /\ mem[p].status \in Statuses
    /\ pc[p] \in {"result", "record"} => mem[p].status \in Terminal

\* The source of a retry under construction failed, on disk and in the copy
\* that will be written back over it.
SourceInv ==
  \A p \in Procs : pc[p] \in {"create", "link"} /\ mem[p].source # None =>
    /\ src[p].status = "failed"
    /\ ~Fresh(mem[p].source)
    /\ store[mem[p].source].status # "incomplete"
    /\ Local(mem[p].source) => store[mem[p].source].status \in {"failed", "absent"}

\* A local operation without a log was never started.
LogInv ==
  \A id \in Ids : Local(id) /\ id \notin logs =>
    /\ store[id].status \in {"absent", "incomplete", "planned"}
    /\ starts[id] = 0

\* What holds for the one process that created the log of a local operation.
GateInv ==
  \A p \in Procs : PastGate(p) /\ Local(cur[p]) =>
    /\ cur[p] \in logs
    /\ \A q \in Procs : PastGate(q) /\ cur[q] = cur[p] => q = p
    /\ pc[p] = "logged" =>
         /\ mem[p].status = "planned"
         /\ store[cur[p]].status \in {"planned", "absent"}
         /\ starts[cur[p]] = 0
    /\ Executing(p) => store[cur[p]].status \in {"running", "absent"}

StartsInv == \A id \in Ids : Local(id) => starts[id] <= 1

IInv ==
  TypeOK /\ RanInv /\ FreshInv /\ CreateInv /\ SourceInv /\ LogInv /\ GateInv /\ StartsInv

-----------------------------------------------------------------------------
\* Changing one field of a record gives a record.
LEMMA RecordFields ==
  /\ NoRecord \in Record
  /\ \A r \in Record :
       /\ \A s \in Statuses \cup {"absent", "incomplete"} : [r EXCEPT !.status = s] \in Record
       /\ \A id \in Ids \cup {None} : [r EXCEPT !.retry = id] \in Record
       /\ \A id \in Ids \cup {None} : [r EXCEPT !.source = id] \in Record
       /\ \A b \in BOOLEAN : [r EXCEPT !.result = b] \in Record
       /\ r.source \in Ids \cup {None}
  BY DEF Record, NoRecord, Statuses

\* The invariant holds before any command ran.
LEMMA InitIInv == Init => IInv
  BY NoneAssumption, ModesAssumption, StepsAssumption
  DEF Init, IInv, TypeOK, RanInv, FreshInv, CreateInv, SourceInv, LogInv, GateInv, StartsInv,
      Record, Result, NoRecord, NoResult, Statuses, Terminal, Places, BeforeStart,
      Fresh, Local, PastGate, Executing

\* A command that ends without writing anything, at whatever point, keeps the
\* invariant: refusals, failed writes and crashes.
LEMMA ExitIInv ==
  ASSUME IInv, NEW p \in Procs, Exit(p), UNCHANGED <<disk, starts>>,
         interrupted' \subseteq Ids
  PROVE  IInv'
<1> USE DEF IInv, disk, Exit, Goto
<1>1. TypeOK'
  BY StepsAssumption DEF TypeOK, Record, NoRecord, Statuses, Terminal, Places
<1>2. RanInv'
  BY DEF TypeOK, RanInv, BeforeStart
<1>3. FreshInv'
  BY DEF TypeOK, FreshInv, Fresh
<1>4. CreateInv'
  BY DEF TypeOK, CreateInv, Places, Statuses, Terminal
<1>5. SourceInv'
  BY DEF TypeOK, SourceInv, Fresh, Local
<1>6. LogInv' /\ StartsInv'
  BY DEF LogInv, StartsInv, Local
<1>7. GateInv'
  BY DEF TypeOK, GateInv, Local, PastGate, Executing
<1> QED BY <1>1, <1>2, <1>3, <1>4, <1>5, <1>6, <1>7

\* A new directory: its ID was never drawn, so nobody else refers to it.
LEMMA MakeDirectoryIInv ==
  ASSUME IInv, NEW p \in Procs, NEW id \in Ids, NEW mode \in Modes, NEW record \in Record, NEW source \in Record,
         NEW andExecute \in BOOLEAN, MakeDirectory(p, id, mode, record, source, andExecute),
         record.status = "planned",
         record.source # None =>
           source.status = "failed" /\ store[record.source].status = "failed"
  PROVE  IInv'
<1> USE DEF IInv, MakeDirectory, disk, Goto, Exit, Decide, HasDirectory, Loadable
<1>1. TypeOK'
  <2>1. plan' \in [Ids -> Modes \cup {None}] /\ result' \in [Ids -> Result] /\ logs' \subseteq Ids
    BY StepsAssumption DEF TypeOK, FreshInv, CreateInv, Result, NoResult, Terminal
  <2>2. store' \in [Ids -> Record]
    BY RecordFields DEF TypeOK, FreshInv, Statuses
  <2>3. mem' \in [Procs -> Record] /\ src' \in [Procs -> Record]
    BY RecordFields DEF TypeOK, Statuses, Terminal
  <2>4. /\ pc' \in [Procs -> Places] /\ cur' \in [Procs -> Ids \cup {None}]
       /\ executes' \in [Procs -> BOOLEAN]
    BY  DEF TypeOK, Places
  <2>5. ran' \in [Procs -> 0..Steps]
    BY StepsAssumption DEF TypeOK, RanInv, BeforeStart
  <2>6. starts' \in [Ids -> Nat] /\ interrupted' \subseteq Ids
    BY  DEF TypeOK, FreshInv
  <2> QED BY <2>1, <2>2, <2>3, <2>4, <2>5, <2>6 DEF TypeOK
<1>2. RanInv'
  BY NoneAssumption, StepsAssumption
  DEF TypeOK, RanInv, BeforeStart
<1>3. FreshInv'
  BY NoneAssumption, StepsAssumption
  DEF TypeOK, FreshInv, Fresh, Statuses, Terminal
<1>4. CreateInv'
  BY NoneAssumption, StepsAssumption
  DEF TypeOK, CreateInv, FreshInv, SourceInv, GateInv, Fresh, Local, PastGate, Executing,
         Places, Record, NoRecord, Statuses, Terminal
<1>5. SourceInv'
  BY NoneAssumption, StepsAssumption
  DEF TypeOK, SourceInv, CreateInv, FreshInv, GateInv, PastGate, Executing, Fresh, Local,
         Places, Record, NoRecord, Statuses, Terminal
<1>6. LogInv'
  BY NoneAssumption, StepsAssumption
  DEF TypeOK, LogInv, CreateInv, SourceInv, GateInv, FreshInv, Fresh, Local, PastGate,
         Executing, Record, NoRecord
<1>7. GateInv'
  BY NoneAssumption, StepsAssumption
  DEF TypeOK, GateInv, LogInv, CreateInv, SourceInv, FreshInv, Fresh, Local, PastGate,
         Executing, Terminal, Places, Record, NoRecord
<1>8. StartsInv'
  BY NoneAssumption, StepsAssumption
  DEF TypeOK, StartsInv, GateInv, FreshInv, Fresh, Local, PastGate
<1> QED BY <1>1, <1>2, <1>3, <1>4, <1>5, <1>6, <1>7, <1>8

\* Nobody else can have loaded a directory that is still incomplete.
LEMMA CreateFailsIInv ==
  ASSUME IInv, NEW p \in Procs, CreateFails(p)
  PROVE  IInv'
<1> USE DEF IInv, CreateFails, disk, Goto, Exit, Decide, HasDirectory, Loadable
<1>1. TypeOK'
  <2>1. plan' \in [Ids -> Modes \cup {None}] /\ result' \in [Ids -> Result] /\ logs' \subseteq Ids
    BY StepsAssumption DEF TypeOK, FreshInv, CreateInv, Result, NoResult, Terminal
  <2>2. store' \in [Ids -> Record]
    BY RecordFields DEF TypeOK, FreshInv, Statuses
  <2>3. mem' \in [Procs -> Record] /\ src' \in [Procs -> Record]
    BY RecordFields DEF TypeOK, Statuses, Terminal
  <2>4. /\ pc' \in [Procs -> Places] /\ cur' \in [Procs -> Ids \cup {None}]
       /\ executes' \in [Procs -> BOOLEAN]
    BY  DEF TypeOK, Places
  <2>5. ran' \in [Procs -> 0..Steps]
    BY StepsAssumption DEF TypeOK, RanInv, BeforeStart
  <2>6. starts' \in [Ids -> Nat] /\ interrupted' \subseteq Ids
    BY  DEF TypeOK, FreshInv
  <2> QED BY <2>1, <2>2, <2>3, <2>4, <2>5, <2>6 DEF TypeOK
<1>2. RanInv'
  BY NoneAssumption, StepsAssumption
  DEF TypeOK, RanInv, BeforeStart
<1>3. FreshInv'
  BY NoneAssumption, StepsAssumption
  DEF TypeOK, FreshInv, Fresh, Statuses, Terminal
<1>4. CreateInv'
  BY NoneAssumption, StepsAssumption
  DEF TypeOK, CreateInv, FreshInv, SourceInv, GateInv, Fresh, Local, PastGate, Executing,
         Places, Record, NoRecord, Statuses, Terminal
<1>5. SourceInv'
  BY NoneAssumption, StepsAssumption
  DEF TypeOK, SourceInv, CreateInv, FreshInv, GateInv, PastGate, Executing, Fresh, Local,
         Places, Record, NoRecord, Statuses, Terminal
<1>6. LogInv'
  BY NoneAssumption, StepsAssumption
  DEF TypeOK, LogInv, CreateInv, SourceInv, GateInv, FreshInv, Fresh, Local, PastGate,
         Executing, Record, NoRecord
<1>7. GateInv'
  BY NoneAssumption, StepsAssumption
  DEF TypeOK, GateInv, LogInv, CreateInv, SourceInv, FreshInv, Fresh, Local, PastGate,
         Executing, Terminal, Places, Record, NoRecord
<1>8. StartsInv'
  BY NoneAssumption, StepsAssumption
  DEF TypeOK, StartsInv, GateInv, FreshInv, Fresh, Local, PastGate
<1> QED BY <1>1, <1>2, <1>3, <1>4, <1>5, <1>6, <1>7, <1>8

\* The copy written back is that of a failed record, over a failed record.
LEMMA LinkIInv ==
  ASSUME IInv, NEW p \in Procs, Link(p)
  PROVE  IInv'
<1> USE DEF IInv, Link, disk, Goto, Exit, Decide, HasDirectory, Loadable
<1>1. TypeOK'
  <2>1. plan' \in [Ids -> Modes \cup {None}] /\ result' \in [Ids -> Result] /\ logs' \subseteq Ids
    BY StepsAssumption DEF TypeOK, FreshInv, CreateInv, Result, NoResult, Terminal
  <2>2. store' \in [Ids -> Record]
    BY RecordFields DEF TypeOK, FreshInv, Statuses
  <2>3. mem' \in [Procs -> Record] /\ src' \in [Procs -> Record]
    BY RecordFields DEF TypeOK, Statuses, Terminal
  <2>4. /\ pc' \in [Procs -> Places] /\ cur' \in [Procs -> Ids \cup {None}]
       /\ executes' \in [Procs -> BOOLEAN]
    BY  DEF TypeOK, Places
  <2>5. ran' \in [Procs -> 0..Steps]
    BY StepsAssumption DEF TypeOK, RanInv, BeforeStart
  <2>6. starts' \in [Ids -> Nat] /\ interrupted' \subseteq Ids
    BY  DEF TypeOK, FreshInv
  <2> QED BY <2>1, <2>2, <2>3, <2>4, <2>5, <2>6 DEF TypeOK
<1>2. RanInv'
  BY NoneAssumption, StepsAssumption
  DEF TypeOK, RanInv, BeforeStart
<1>3. FreshInv'
  BY NoneAssumption, StepsAssumption
  DEF TypeOK, FreshInv, Fresh, Statuses, Terminal
<1>4. CreateInv'
  BY NoneAssumption, StepsAssumption
  DEF TypeOK, CreateInv, FreshInv, SourceInv, GateInv, Fresh, Local, PastGate, Executing,
         Places, Record, NoRecord, Statuses, Terminal
<1>5. SourceInv'
  BY NoneAssumption, StepsAssumption
  DEF TypeOK, SourceInv, CreateInv, FreshInv, GateInv, PastGate, Executing, Fresh, Local,
         Places, Record, NoRecord, Statuses, Terminal
<1>6. LogInv'
  BY NoneAssumption, StepsAssumption
  DEF TypeOK, LogInv, CreateInv, SourceInv, GateInv, FreshInv, Fresh, Local, PastGate,
         Executing, Record, NoRecord
<1>7. GateInv'
  BY NoneAssumption, StepsAssumption
  DEF TypeOK, GateInv, LogInv, CreateInv, SourceInv, FreshInv, Fresh, Local, PastGate,
         Executing, Terminal, Places, Record, NoRecord
<1>8. StartsInv'
  BY NoneAssumption, StepsAssumption
  DEF TypeOK, StartsInv, GateInv, FreshInv, Fresh, Local, PastGate
<1> QED BY <1>1, <1>2, <1>3, <1>4, <1>5, <1>6, <1>7, <1>8

\* Other processes may hold the retry that disappears.
LEMMA LinkFailsIInv ==
  ASSUME IInv, NEW p \in Procs, LinkFails(p)
  PROVE  IInv'
<1> USE DEF IInv, LinkFails, disk, Goto, Exit, Decide, HasDirectory, Loadable
<1>1. TypeOK'
  <2>1. plan' \in [Ids -> Modes \cup {None}] /\ result' \in [Ids -> Result] /\ logs' \subseteq Ids
    BY StepsAssumption DEF TypeOK, FreshInv, CreateInv, Result, NoResult, Terminal
  <2>2. store' \in [Ids -> Record]
    BY RecordFields DEF TypeOK, FreshInv, Statuses
  <2>3. mem' \in [Procs -> Record] /\ src' \in [Procs -> Record]
    BY RecordFields DEF TypeOK, Statuses, Terminal
  <2>4. /\ pc' \in [Procs -> Places] /\ cur' \in [Procs -> Ids \cup {None}]
       /\ executes' \in [Procs -> BOOLEAN]
    BY  DEF TypeOK, Places
  <2>5. ran' \in [Procs -> 0..Steps]
    BY StepsAssumption DEF TypeOK, RanInv, BeforeStart
  <2>6. starts' \in [Ids -> Nat] /\ interrupted' \subseteq Ids
    BY  DEF TypeOK, FreshInv
  <2> QED BY <2>1, <2>2, <2>3, <2>4, <2>5, <2>6 DEF TypeOK
<1>2. RanInv'
  BY NoneAssumption, StepsAssumption
  DEF TypeOK, RanInv, BeforeStart
<1>3. FreshInv'
  BY NoneAssumption, StepsAssumption
  DEF TypeOK, FreshInv, Fresh, Statuses, Terminal
<1>4. CreateInv'
  BY NoneAssumption, StepsAssumption
  DEF TypeOK, CreateInv, FreshInv, SourceInv, GateInv, Fresh, Local, PastGate, Executing,
         Places, Record, NoRecord, Statuses, Terminal
<1>5. SourceInv'
  BY NoneAssumption, StepsAssumption
  DEF TypeOK, SourceInv, CreateInv, FreshInv, GateInv, PastGate, Executing, Fresh, Local,
         Places, Record, NoRecord, Statuses, Terminal
<1>6. LogInv'
  BY NoneAssumption, StepsAssumption
  DEF TypeOK, LogInv, CreateInv, SourceInv, GateInv, FreshInv, Fresh, Local, PastGate,
         Executing, Record, NoRecord
<1>7. GateInv'
  BY NoneAssumption, StepsAssumption
  DEF TypeOK, GateInv, LogInv, CreateInv, SourceInv, FreshInv, Fresh, Local, PastGate,
         Executing, Terminal, Places, Record, NoRecord
<1>8. StartsInv'
  BY NoneAssumption, StepsAssumption
  DEF TypeOK, StartsInv, GateInv, FreshInv, Fresh, Local, PastGate
<1> QED BY <1>1, <1>2, <1>3, <1>4, <1>5, <1>6, <1>7, <1>8

\* What a process loads is complete, whatever happens to it later.
LEMMA LoadRecordIInv ==
  ASSUME IInv, NEW p \in Procs, LoadRecord(p)
  PROVE  IInv'
<1> USE DEF IInv, LoadRecord, disk, Goto, Exit, Decide, HasDirectory, Loadable
<1>1. TypeOK'
  <2>1. plan' \in [Ids -> Modes \cup {None}] /\ result' \in [Ids -> Result] /\ logs' \subseteq Ids
    BY StepsAssumption DEF TypeOK, FreshInv, CreateInv, Result, NoResult, Terminal
  <2>2. store' \in [Ids -> Record]
    BY RecordFields DEF TypeOK, FreshInv, Statuses
  <2>3. mem' \in [Procs -> Record] /\ src' \in [Procs -> Record]
    BY RecordFields DEF TypeOK, Statuses, Terminal
  <2>4. /\ pc' \in [Procs -> Places] /\ cur' \in [Procs -> Ids \cup {None}]
       /\ executes' \in [Procs -> BOOLEAN]
    BY  DEF TypeOK, Places
  <2>5. ran' \in [Procs -> 0..Steps]
    BY StepsAssumption DEF TypeOK, RanInv, BeforeStart
  <2>6. starts' \in [Ids -> Nat] /\ interrupted' \subseteq Ids
    BY  DEF TypeOK, FreshInv
  <2> QED BY <2>1, <2>2, <2>3, <2>4, <2>5, <2>6 DEF TypeOK
<1>2. RanInv'
  BY NoneAssumption, StepsAssumption
  DEF TypeOK, RanInv, BeforeStart
<1>3. FreshInv'
  BY NoneAssumption, StepsAssumption
  DEF TypeOK, FreshInv, Fresh, Statuses, Terminal
<1>4. CreateInv'
  BY NoneAssumption, StepsAssumption
  DEF TypeOK, CreateInv, FreshInv, SourceInv, GateInv, Fresh, Local, PastGate, Executing,
         Places, Record, NoRecord, Statuses, Terminal
<1>5. SourceInv'
  BY NoneAssumption, StepsAssumption
  DEF TypeOK, SourceInv, CreateInv, FreshInv, GateInv, PastGate, Executing, Fresh, Local,
         Places, Record, NoRecord, Statuses, Terminal
<1>6. LogInv'
  BY NoneAssumption, StepsAssumption
  DEF TypeOK, LogInv, CreateInv, SourceInv, GateInv, FreshInv, Fresh, Local, PastGate,
         Executing, Record, NoRecord
<1>7. GateInv'
  BY NoneAssumption, StepsAssumption
  DEF TypeOK, GateInv, LogInv, CreateInv, SourceInv, FreshInv, Fresh, Local, PastGate,
         Executing, Terminal, Places, Record, NoRecord
<1>8. StartsInv'
  BY NoneAssumption, StepsAssumption
  DEF TypeOK, StartsInv, GateInv, FreshInv, Fresh, Local, PastGate
<1> QED BY <1>1, <1>2, <1>3, <1>4, <1>5, <1>6, <1>7, <1>8

\* The log did not exist, so the operation was never started.
LEMMA OpenLogIInv ==
  ASSUME IInv, NEW p \in Procs, OpenLog(p)
  PROVE  IInv'
<1> USE DEF IInv, OpenLog, disk, Goto, Exit, Decide, HasDirectory, Loadable
<1>1. TypeOK'
  <2>1. plan' \in [Ids -> Modes \cup {None}] /\ result' \in [Ids -> Result] /\ logs' \subseteq Ids
    BY StepsAssumption DEF TypeOK, FreshInv, CreateInv, Result, NoResult, Terminal
  <2>2. store' \in [Ids -> Record]
    BY RecordFields DEF TypeOK, FreshInv, Statuses
  <2>3. mem' \in [Procs -> Record] /\ src' \in [Procs -> Record]
    BY RecordFields DEF TypeOK, Statuses, Terminal
  <2>4. /\ pc' \in [Procs -> Places] /\ cur' \in [Procs -> Ids \cup {None}]
       /\ executes' \in [Procs -> BOOLEAN]
    BY  DEF TypeOK, Places
  <2>5. ran' \in [Procs -> 0..Steps]
    BY StepsAssumption DEF TypeOK, RanInv, BeforeStart
  <2>6. starts' \in [Ids -> Nat] /\ interrupted' \subseteq Ids
    BY  DEF TypeOK, FreshInv
  <2> QED BY <2>1, <2>2, <2>3, <2>4, <2>5, <2>6 DEF TypeOK
<1>2. RanInv'
  BY NoneAssumption, StepsAssumption
  DEF TypeOK, RanInv, BeforeStart
<1>3. FreshInv'
  BY NoneAssumption, StepsAssumption
  DEF TypeOK, FreshInv, Fresh, Statuses, Terminal
<1>4. CreateInv'
  BY NoneAssumption, StepsAssumption
  DEF TypeOK, CreateInv, FreshInv, SourceInv, GateInv, Fresh, Local, PastGate, Executing,
         Places, Record, NoRecord, Statuses, Terminal
<1>5. SourceInv'
  BY NoneAssumption, StepsAssumption
  DEF TypeOK, SourceInv, CreateInv, FreshInv, GateInv, PastGate, Executing, Fresh, Local,
         Places, Record, NoRecord, Statuses, Terminal
<1>6. LogInv'
  BY NoneAssumption, StepsAssumption
  DEF TypeOK, LogInv, CreateInv, SourceInv, GateInv, FreshInv, Fresh, Local, PastGate,
         Executing, Record, NoRecord
<1>7. GateInv'
  BY NoneAssumption, StepsAssumption
  DEF TypeOK, GateInv, LogInv, CreateInv, SourceInv, FreshInv, Fresh, Local, PastGate,
         Executing, Terminal, Places, Record, NoRecord
<1>8. StartsInv'
  BY NoneAssumption, StepsAssumption
  DEF TypeOK, StartsInv, GateInv, FreshInv, Fresh, Local, PastGate
<1> QED BY <1>1, <1>2, <1>3, <1>4, <1>5, <1>6, <1>7, <1>8

\* The only process past the gate.
LEMMA StartIInv ==
  ASSUME IInv, NEW p \in Procs, Start(p)
  PROVE  IInv'
<1> USE DEF IInv, Start, disk, Goto, Exit, Decide, HasDirectory, Loadable
<1>1. TypeOK'
  <2>1. plan' \in [Ids -> Modes \cup {None}] /\ result' \in [Ids -> Result] /\ logs' \subseteq Ids
    BY StepsAssumption DEF TypeOK, FreshInv, CreateInv, Result, NoResult, Terminal
  <2>2. store' \in [Ids -> Record]
    BY RecordFields DEF TypeOK, FreshInv, Statuses
  <2>3. mem' \in [Procs -> Record] /\ src' \in [Procs -> Record]
    BY RecordFields DEF TypeOK, Statuses, Terminal
  <2>4. /\ pc' \in [Procs -> Places] /\ cur' \in [Procs -> Ids \cup {None}]
       /\ executes' \in [Procs -> BOOLEAN]
    BY  DEF TypeOK, Places
  <2>5. ran' \in [Procs -> 0..Steps]
    BY StepsAssumption DEF TypeOK, RanInv, BeforeStart
  <2>6. starts' \in [Ids -> Nat] /\ interrupted' \subseteq Ids
    BY  DEF TypeOK, FreshInv
  <2> QED BY <2>1, <2>2, <2>3, <2>4, <2>5, <2>6 DEF TypeOK
<1>2. RanInv'
  BY NoneAssumption, StepsAssumption
  DEF TypeOK, RanInv, BeforeStart
<1>3. FreshInv'
  BY NoneAssumption, StepsAssumption
  DEF TypeOK, FreshInv, Fresh, Statuses, Terminal
<1>4. CreateInv'
  BY NoneAssumption, StepsAssumption
  DEF TypeOK, CreateInv, FreshInv, SourceInv, GateInv, Fresh, Local, PastGate, Executing,
         Places, Record, NoRecord, Statuses, Terminal
<1>5. SourceInv'
  BY NoneAssumption, StepsAssumption
  DEF TypeOK, SourceInv, CreateInv, FreshInv, GateInv, PastGate, Executing, Fresh, Local,
         Places, Record, NoRecord, Statuses, Terminal
<1>6. LogInv'
  BY NoneAssumption, StepsAssumption
  DEF TypeOK, LogInv, CreateInv, SourceInv, GateInv, FreshInv, Fresh, Local, PastGate,
         Executing, Record, NoRecord
<1>7. GateInv'
  BY NoneAssumption, StepsAssumption
  DEF TypeOK, GateInv, LogInv, CreateInv, SourceInv, FreshInv, Fresh, Local, PastGate,
         Executing, Terminal, Places, Record, NoRecord
<1>8. StartsInv'
  BY NoneAssumption, StepsAssumption
  DEF TypeOK, StartsInv, GateInv, FreshInv, Fresh, Local, PastGate
<1> QED BY <1>1, <1>2, <1>3, <1>4, <1>5, <1>6, <1>7, <1>8

\* The result file is not read by any command.
LEMMA WriteResultIInv ==
  ASSUME IInv, NEW p \in Procs, WriteResult(p)
  PROVE  IInv'
<1> USE DEF IInv, WriteResult, disk, Goto, Exit, Decide, HasDirectory, Loadable
<1>1. TypeOK'
  <2>1. plan' \in [Ids -> Modes \cup {None}] /\ result' \in [Ids -> Result] /\ logs' \subseteq Ids
    BY StepsAssumption DEF TypeOK, FreshInv, CreateInv, Result, NoResult, Terminal
  <2>2. store' \in [Ids -> Record]
    BY RecordFields DEF TypeOK, FreshInv, Statuses
  <2>3. mem' \in [Procs -> Record] /\ src' \in [Procs -> Record]
    BY RecordFields DEF TypeOK, Statuses, Terminal
  <2>4. /\ pc' \in [Procs -> Places] /\ cur' \in [Procs -> Ids \cup {None}]
       /\ executes' \in [Procs -> BOOLEAN]
    BY  DEF TypeOK, Places
  <2>5. ran' \in [Procs -> 0..Steps]
    BY StepsAssumption DEF TypeOK, RanInv, BeforeStart
  <2>6. starts' \in [Ids -> Nat] /\ interrupted' \subseteq Ids
    BY  DEF TypeOK, FreshInv
  <2> QED BY <2>1, <2>2, <2>3, <2>4, <2>5, <2>6 DEF TypeOK
<1>2. RanInv'
  BY NoneAssumption, StepsAssumption
  DEF TypeOK, RanInv, BeforeStart
<1>3. FreshInv'
  BY NoneAssumption, StepsAssumption
  DEF TypeOK, FreshInv, Fresh, Statuses, Terminal
<1>4. CreateInv'
  BY NoneAssumption, StepsAssumption
  DEF TypeOK, CreateInv, FreshInv, SourceInv, GateInv, Fresh, Local, PastGate, Executing,
         Places, Record, NoRecord, Statuses, Terminal
<1>5. SourceInv'
  BY NoneAssumption, StepsAssumption
  DEF TypeOK, SourceInv, CreateInv, FreshInv, GateInv, PastGate, Executing, Fresh, Local,
         Places, Record, NoRecord, Statuses, Terminal
<1>6. LogInv'
  BY NoneAssumption, StepsAssumption
  DEF TypeOK, LogInv, CreateInv, SourceInv, GateInv, FreshInv, Fresh, Local, PastGate,
         Executing, Record, NoRecord
<1>7. GateInv'
  BY NoneAssumption, StepsAssumption
  DEF TypeOK, GateInv, LogInv, CreateInv, SourceInv, FreshInv, Fresh, Local, PastGate,
         Executing, Terminal, Places, Record, NoRecord
<1>8. StartsInv'
  BY NoneAssumption, StepsAssumption
  DEF TypeOK, StartsInv, GateInv, FreshInv, Fresh, Local, PastGate
<1> QED BY <1>1, <1>2, <1>3, <1>4, <1>5, <1>6, <1>7, <1>8

\* Only the executor writes over a running record.
LEMMA RecordOutcomeIInv ==
  ASSUME IInv, NEW p \in Procs, RecordOutcome(p)
  PROVE  IInv'
<1> USE DEF IInv, RecordOutcome, disk, Goto, Exit, Decide, HasDirectory, Loadable
<1>1. TypeOK'
  <2>1. plan' \in [Ids -> Modes \cup {None}] /\ result' \in [Ids -> Result] /\ logs' \subseteq Ids
    BY StepsAssumption DEF TypeOK, FreshInv, CreateInv, Result, NoResult, Terminal
  <2>2. store' \in [Ids -> Record]
    BY RecordFields DEF TypeOK, FreshInv, Statuses
  <2>3. mem' \in [Procs -> Record] /\ src' \in [Procs -> Record]
    BY RecordFields DEF TypeOK, Statuses, Terminal
  <2>4. /\ pc' \in [Procs -> Places] /\ cur' \in [Procs -> Ids \cup {None}]
       /\ executes' \in [Procs -> BOOLEAN]
    BY  DEF TypeOK, Places
  <2>5. ran' \in [Procs -> 0..Steps]
    BY StepsAssumption DEF TypeOK, RanInv, BeforeStart
  <2>6. starts' \in [Ids -> Nat] /\ interrupted' \subseteq Ids
    BY  DEF TypeOK, FreshInv
  <2> QED BY <2>1, <2>2, <2>3, <2>4, <2>5, <2>6 DEF TypeOK
<1>2. RanInv'
  BY NoneAssumption, StepsAssumption
  DEF TypeOK, RanInv, BeforeStart
<1>3. FreshInv'
  BY NoneAssumption, StepsAssumption
  DEF TypeOK, FreshInv, Fresh, Statuses, Terminal
<1>4. CreateInv'
  <2>1. /\ cur[p] \in Ids /\ mem[p].status \in Terminal /\ store[cur[p]].status # "incomplete"
    BY DEF TypeOK, FreshInv, CreateInv, Places
  <2>2. /\ pc'[p] = "idle"
        /\ \A q \in Procs \ {p} : pc'[q] = pc[q] /\ cur'[q] = cur[q] /\ mem'[q] = mem[q]
        /\ \A id \in Ids : store'[id] = IF id = cur[p] THEN mem[p] ELSE store[id]
    BY <2>1 DEF TypeOK
  <2>3. ASSUME NEW q \in Procs \ {p}, pc[q] # "idle" PROVE cur[q] \in Ids
    BY <2>3 DEF FreshInv
  <2> HIDE DEF RecordOutcome
  <2> QED BY <2>1, <2>2, <2>3 DEF CreateInv, TypeOK, Places, Terminal
<1>5. SourceInv'
  BY NoneAssumption, StepsAssumption
  DEF TypeOK, SourceInv, CreateInv, FreshInv, GateInv, PastGate, Executing, Fresh, Local,
         Places, Record, NoRecord, Statuses, Terminal
<1>6. LogInv'
  BY NoneAssumption, StepsAssumption
  DEF TypeOK, LogInv, CreateInv, SourceInv, GateInv, FreshInv, Fresh, Local, PastGate,
         Executing, Record, NoRecord
<1>7. GateInv'
  BY NoneAssumption, StepsAssumption
  DEF TypeOK, GateInv, LogInv, CreateInv, SourceInv, FreshInv, Fresh, Local, PastGate,
         Executing, Terminal, Places, Record, NoRecord
<1>8. StartsInv'
  BY NoneAssumption, StepsAssumption
  DEF TypeOK, StartsInv, GateInv, FreshInv, Fresh, Local, PastGate
<1> QED BY <1>1, <1>2, <1>3, <1>4, <1>5, <1>6, <1>7, <1>8

\* The record becomes visible; it is planned and has no log.
LEMMA WriteRecordIInv ==
  ASSUME IInv, NEW p \in Procs, WriteRecord(p)
  PROVE  IInv'
<1> USE DEF IInv, disk
<1>1. CASE \E place \in {"link", "ready"} : Goto(p, place) /\ UNCHANGED <<cur, mem, src, executes, ran>>
  <2> USE DEF WriteRecord, Goto
  <2>1. TypeOK'
    <3>1. plan' \in [Ids -> Modes \cup {None}] /\ result' \in [Ids -> Result] /\ logs' \subseteq Ids
      BY <1>1, StepsAssumption DEF TypeOK, FreshInv, CreateInv, Result, NoResult, Terminal
    <3>2. store' \in [Ids -> Record]
      BY <1>1, RecordFields DEF TypeOK, FreshInv, Statuses
    <3>3. mem' \in [Procs -> Record] /\ src' \in [Procs -> Record]
      BY <1>1, RecordFields DEF TypeOK, Statuses, Terminal
    <3>4. /\ pc' \in [Procs -> Places] /\ cur' \in [Procs -> Ids \cup {None}]
         /\ executes' \in [Procs -> BOOLEAN]
      BY <1>1 DEF TypeOK, Places
    <3>5. ran' \in [Procs -> 0..Steps]
      BY <1>1, StepsAssumption DEF TypeOK, RanInv, BeforeStart
    <3>6. starts' \in [Ids -> Nat] /\ interrupted' \subseteq Ids
      BY <1>1 DEF TypeOK, FreshInv
    <3> QED BY <3>1, <3>2, <3>3, <3>4, <3>5, <3>6 DEF TypeOK
  <2>2. RanInv'
    BY <1>1, NoneAssumption, StepsAssumption
    DEF TypeOK, RanInv, BeforeStart
  <2>3. FreshInv'
    BY <1>1, NoneAssumption, StepsAssumption
    DEF TypeOK, FreshInv, Fresh, Statuses, Terminal
  <2>4. CreateInv'
    BY <1>1, NoneAssumption, StepsAssumption
    DEF TypeOK, CreateInv, FreshInv, SourceInv, GateInv, Fresh, Local, PastGate, Executing,
         Places, Record, NoRecord, Statuses, Terminal
  <2>5. SourceInv'
    BY <1>1, NoneAssumption, StepsAssumption
    DEF TypeOK, SourceInv, CreateInv, FreshInv, GateInv, PastGate, Executing, Fresh, Local,
         Places, Record, NoRecord, Statuses, Terminal
  <2>6. LogInv'
    BY <1>1, NoneAssumption, StepsAssumption
    DEF TypeOK, LogInv, CreateInv, SourceInv, GateInv, FreshInv, Fresh, Local, PastGate,
         Executing, Record, NoRecord
  <2>7. GateInv'
    BY <1>1, NoneAssumption, StepsAssumption
    DEF TypeOK, GateInv, LogInv, CreateInv, SourceInv, FreshInv, Fresh, Local, PastGate,
         Executing, Terminal, Places, Record, NoRecord
  <2>8. StartsInv'
    BY <1>1, NoneAssumption, StepsAssumption
    DEF TypeOK, StartsInv, GateInv, FreshInv, Fresh, Local, PastGate
  <2> QED BY <2>1, <2>2, <2>3, <2>4, <2>5, <2>6, <2>7, <2>8
<1>2. CASE Exit(p)
  <2> USE DEF WriteRecord, Exit, Goto
  <2>1. TypeOK'
    <3>1. plan' \in [Ids -> Modes \cup {None}] /\ result' \in [Ids -> Result] /\ logs' \subseteq Ids
      BY <1>2, StepsAssumption DEF TypeOK, FreshInv, CreateInv, Result, NoResult, Terminal
    <3>2. store' \in [Ids -> Record]
      BY <1>2, RecordFields DEF TypeOK, FreshInv, Statuses
    <3>3. mem' \in [Procs -> Record] /\ src' \in [Procs -> Record]
      BY <1>2, RecordFields DEF TypeOK, Statuses, Terminal
    <3>4. /\ pc' \in [Procs -> Places] /\ cur' \in [Procs -> Ids \cup {None}]
         /\ executes' \in [Procs -> BOOLEAN]
      BY <1>2 DEF TypeOK, Places
    <3>5. ran' \in [Procs -> 0..Steps]
      BY <1>2, StepsAssumption DEF TypeOK, RanInv, BeforeStart
    <3>6. starts' \in [Ids -> Nat] /\ interrupted' \subseteq Ids
      BY <1>2 DEF TypeOK, FreshInv
    <3> QED BY <3>1, <3>2, <3>3, <3>4, <3>5, <3>6 DEF TypeOK
  <2>2. RanInv'
    BY <1>2, NoneAssumption, StepsAssumption
    DEF TypeOK, RanInv, BeforeStart
  <2>3. FreshInv'
    BY <1>2, NoneAssumption, StepsAssumption
    DEF TypeOK, FreshInv, Fresh, Statuses, Terminal
  <2>4. CreateInv'
    BY <1>2, NoneAssumption, StepsAssumption
    DEF TypeOK, CreateInv, FreshInv, SourceInv, GateInv, Fresh, Local, PastGate, Executing,
         Places, Record, NoRecord, Statuses, Terminal
  <2>5. SourceInv'
    BY <1>2, NoneAssumption, StepsAssumption
    DEF TypeOK, SourceInv, CreateInv, FreshInv, GateInv, PastGate, Executing, Fresh, Local,
         Places, Record, NoRecord, Statuses, Terminal
  <2>6. LogInv'
    BY <1>2, NoneAssumption, StepsAssumption
    DEF TypeOK, LogInv, CreateInv, SourceInv, GateInv, FreshInv, Fresh, Local, PastGate,
         Executing, Record, NoRecord
  <2>7. GateInv'
    BY <1>2, NoneAssumption, StepsAssumption
    DEF TypeOK, GateInv, LogInv, CreateInv, SourceInv, FreshInv, Fresh, Local, PastGate,
         Executing, Terminal, Places, Record, NoRecord
  <2>8. StartsInv'
    BY <1>2, NoneAssumption, StepsAssumption
    DEF TypeOK, StartsInv, GateInv, FreshInv, Fresh, Local, PastGate
  <2> QED BY <2>1, <2>2, <2>3, <2>4, <2>5, <2>6, <2>7, <2>8
<1> QED BY <1>1, <1>2 DEF WriteRecord

\* The steps of an executor that only change what it remembers.
LEMMA MemoryIInv ==
  ASSUME IInv, NEW p \in Procs, NEW s \in Statuses, NEW n \in 0..Steps,
         NEW place \in {"running", "result", "record"},
         pc[p] \in {"running", "result"},
         pc' = [pc EXCEPT ![p] = place],
         mem' = [mem EXCEPT ![p].status = s],
         ran' = [ran EXCEPT ![p] = n],
         place = "running" => n < Steps,
         place # "running" => s \in Terminal,
         UNCHANGED <<disk, cur, src, executes, starts, interrupted>>
  PROVE  IInv'
<1> USE DEF IInv, disk
<1>1. TypeOK'
  <2>1. plan' \in [Ids -> Modes \cup {None}] /\ result' \in [Ids -> Result] /\ logs' \subseteq Ids
    BY StepsAssumption DEF TypeOK, FreshInv, CreateInv, Result, NoResult, Terminal
  <2>2. store' \in [Ids -> Record]
    BY RecordFields DEF TypeOK, FreshInv, Statuses
  <2>3. mem' \in [Procs -> Record] /\ src' \in [Procs -> Record]
    BY RecordFields DEF TypeOK, Statuses, Terminal
  <2>4. /\ pc' \in [Procs -> Places] /\ cur' \in [Procs -> Ids \cup {None}]
       /\ executes' \in [Procs -> BOOLEAN]
    BY  DEF TypeOK, Places
  <2>5. ran' \in [Procs -> 0..Steps]
    BY StepsAssumption DEF TypeOK, RanInv, BeforeStart
  <2>6. starts' \in [Ids -> Nat] /\ interrupted' \subseteq Ids
    BY  DEF TypeOK, FreshInv
  <2> QED BY <2>1, <2>2, <2>3, <2>4, <2>5, <2>6 DEF TypeOK
<1>2. RanInv'
  BY NoneAssumption, StepsAssumption
  DEF TypeOK, RanInv, BeforeStart
<1>3. FreshInv'
  BY NoneAssumption, StepsAssumption
  DEF TypeOK, FreshInv, Fresh, Statuses, Terminal
<1>4. CreateInv'
  BY NoneAssumption, StepsAssumption
  DEF TypeOK, CreateInv, FreshInv, SourceInv, GateInv, Fresh, Local, PastGate, Executing,
         Places, Record, NoRecord, Statuses, Terminal
<1>5. SourceInv'
  BY NoneAssumption, StepsAssumption
  DEF TypeOK, SourceInv, CreateInv, FreshInv, GateInv, PastGate, Executing, Fresh, Local,
         Places, Record, NoRecord, Statuses, Terminal
<1>6. LogInv'
  BY NoneAssumption, StepsAssumption
  DEF TypeOK, LogInv, CreateInv, SourceInv, GateInv, FreshInv, Fresh, Local, PastGate,
         Executing, Record, NoRecord
<1>7. GateInv'
  BY NoneAssumption, StepsAssumption
  DEF TypeOK, GateInv, LogInv, CreateInv, SourceInv, FreshInv, Fresh, Local, PastGate,
         Executing, Terminal, Places, Record, NoRecord
<1>8. StartsInv'
  BY NoneAssumption, StepsAssumption
  DEF TypeOK, StartsInv, GateInv, FreshInv, Fresh, Local, PastGate
<1> QED BY <1>1, <1>2, <1>3, <1>4, <1>5, <1>6, <1>7, <1>8

\* Running playbooks or targets changes what the executor remembers, nothing else.
LEMMA ExecutionIInv ==
  ASSUME IInv, NEW p \in Procs,
         RunStep(p) \/ StepFails(p) \/ RunTarget(p) \/ InstallRefused(p)
  PROVE  IInv'
<1> DEFINE Shape(s, n, place) ==
      /\ pc' = [pc EXCEPT ![p] = place]
      /\ mem' = [mem EXCEPT ![p].status = s]
      /\ ran' = [ran EXCEPT ![p] = n]
<1>1. /\ pc[p] = "running" /\ ran[p] \in 0..(Steps - 1)
      /\ mem[p] \in Record /\ mem[p].status \in Statuses
      /\ UNCHANGED <<disk, cur, src, executes, starts, interrupted>>
  BY StepsAssumption
  DEF IInv, TypeOK, RanInv, CreateInv, Places, RunStep, StepFails, RunTarget, InstallRefused
<1>2. \/ \E s \in Statuses : Shape(s, ran[p] + 1, "running") /\ ran[p] + 1 < Steps
      \/ \E s \in Terminal, n \in 0..Steps : Shape(s, n, "result")
  <2>1. CASE RunStep(p) /\ ran[p] + 1 < Steps /\ UNCHANGED <<pc, mem>>
    <3>1. Shape(mem[p].status, ran[p] + 1, "running")
      BY <1>1, <2>1, StepsAssumption DEF RunStep, IInv, TypeOK, Record
    <3> QED BY <1>1, <2>1, <3>1
  <2>2. CASE RunTarget(p) /\ ran[p] + 1 < Steps
    <3>1. \E s \in Statuses : mem' = [mem EXCEPT ![p].status = s]
      BY <1>1, <2>2, StepsAssumption DEF RunTarget, Statuses, Terminal
    <3>2. pc' = [pc EXCEPT ![p] = "running"] /\ ran' = [ran EXCEPT ![p] = ran[p] + 1]
      BY <1>1, <2>2, StepsAssumption DEF RunTarget, IInv, TypeOK
    <3> QED BY <2>2, <3>1, <3>2
  <2>3. CASE \E s \in Terminal, n \in 0..Steps : Decide(p, s, n)
    BY <2>3 DEF Decide, Goto
  <2>4. CASE RunStep(p) /\ Decide(p, "succeeded", Steps)
    BY <2>3, <2>4, StepsAssumption DEF Terminal
  <2>5. CASE RunTarget(p) /\ ran[p] + 1 = Steps
    <3>1. \E s \in Terminal : Decide(p, s, Steps)
      BY <1>1, <2>5, StepsAssumption DEF RunTarget, Terminal
    <3> QED BY <2>3, <3>1, StepsAssumption
  <2>6. CASE StepFails(p)
    BY <1>1, <2>3, <2>6, StepsAssumption DEF StepFails, Terminal
  <2>7. CASE InstallRefused(p)
    BY <2>3, <2>7, StepsAssumption DEF InstallRefused, Terminal
  <2> QED BY <2>1, <2>2, <2>4, <2>5, <2>6, <2>7 DEF RunStep, RunTarget
<1>3. CASE \E s \in Statuses : Shape(s, ran[p] + 1, "running") /\ ran[p] + 1 < Steps
  <2>1. PICK s \in Statuses : Shape(s, ran[p] + 1, "running") /\ ran[p] + 1 < Steps
    BY <1>3
  <2>2. ran[p] + 1 \in 0..Steps
    BY <1>1, StepsAssumption
  <2> QED BY <1>1, <2>1, <2>2, MemoryIInv
<1>4. CASE \E s \in Terminal, n \in 0..Steps : Shape(s, n, "result")
  <2>1. PICK s \in Terminal, n \in 0..Steps : Shape(s, n, "result")
    BY <1>4
  <2>2. s \in Statuses
    BY DEF Statuses
  <2> QED BY <1>1, <2>1, <2>2, MemoryIInv
<1> QED BY <1>2, <1>3, <1>4

\* A lost result ends a remote execution and not a local one.
LEMMA WriteResultFailsIInv ==
  ASSUME IInv, NEW p \in Procs, WriteResultFails(p)
  PROVE  IInv'
<1>1. CASE Exit(p) /\ interrupted' = interrupted \cup {cur[p]}
  BY <1>1, ExitIInv DEF WriteResultFails, IInv, TypeOK, FreshInv
<1>2. CASE Goto(p, "record") /\ UNCHANGED <<cur, mem, src, executes, ran, interrupted>>
  <2>1. /\ mem' = [mem EXCEPT ![p].status = mem[p].status]
        /\ ran' = [ran EXCEPT ![p] = ran[p]]
        /\ mem[p].status \in Terminal /\ ran[p] \in 0..Steps
    BY <1>2 DEF IInv, TypeOK, Record, CreateInv, WriteResultFails
  <2> QED BY <1>2, <2>1, MemoryIInv DEF WriteResultFails, Goto, Statuses
<1> QED BY <1>1, <1>2 DEF WriteResultFails

-----------------------------------------------------------------------------
\* Every step keeps the invariant.
LEMMA NextIInv == IInv /\ [Next]_vars => IInv'
<1> SUFFICES ASSUME IInv, [Next]_vars PROVE IInv'
  OBVIOUS
<1>1. CASE UNCHANGED vars
  BY <1>1
  DEF vars, disk, process, IInv, TypeOK, RanInv, FreshInv, CreateInv, SourceInv, LogInv, GateInv,
      StartsInv, Fresh, Local, PastGate, Executing
<1>2. ASSUME NEW p \in Procs, BeginCreate(p) PROVE IInv'
  <2>1. PlannedRecord(None) \in Record /\ NoRecord \in Record
    BY DEF PlannedRecord, NoRecord, Record, Statuses
  <2> QED BY <1>2, <2>1, MakeDirectoryIInv DEF BeginCreate, PlannedRecord, NoRecord
<1>3. ASSUME NEW p \in Procs, BeginRetry(p) PROVE IInv'
  <2>1. PICK id \in Ids, source \in Ids :
          /\ store[source].status = "failed"
          /\ MakeDirectory(p, id, plan[source], PlannedRecord(source), store[source], TRUE)
    BY <1>3 DEF BeginRetry
  <2>2. /\ PlannedRecord(source) \in Record /\ store[source] \in Record
        /\ PlannedRecord(source).status = "planned" /\ PlannedRecord(source).source = source
    BY DEF PlannedRecord, NoRecord, Record, Statuses, IInv, TypeOK
  <2>3. plan[source] \in Modes
    BY <2>1 DEF IInv, TypeOK, FreshInv, Fresh
  <2> QED BY <2>1, <2>2, <2>3, MakeDirectoryIInv
<1>4. ASSUME NEW p \in Procs, Progress(p) PROVE IInv'
  <2>1. CASE Refuse(p) \/ StartFails(p)
    BY <2>1, ExitIInv DEF Refuse, StartFails, IInv, TypeOK
  <2>2. CASE RecordOutcomeFails(p)
    BY <2>2, ExitIInv DEF RecordOutcomeFails, IInv, TypeOK, FreshInv
  <2> QED
    BY <1>4, <2>1, <2>2, WriteRecordIInv, CreateFailsIInv, LinkIInv, LinkFailsIInv, OpenLogIInv,
       StartIInv, ExecutionIInv, WriteResultIInv, WriteResultFailsIInv, RecordOutcomeIInv
    DEF Progress
<1>5. ASSUME NEW p \in Procs, Crash(p) PROVE IInv'
  BY <1>5, ExitIInv DEF Crash, IInv, TypeOK, FreshInv
<1> QED BY <1>1, <1>2, <1>3, <1>4, <1>5, LoadRecordIInv DEF Next

\* The invariant holds in every reachable state.
THEOREM Invariance == Spec => []IInv
<1> QED BY InitIInv, NextIInv, PTL DEF Spec

\* Types hold in every reachable state.
THEOREM TypeCorrect == Spec => []TypeOK
<1>1. IInv => TypeOK
  BY DEF IInv
<1> QED BY <1>1, Invariance, PTL

\* However many processes apply, retry and crash, a local operation is
\* executed at most once, by one process (apply.go:94-206).
THEOREM AtMostOneExecution == Spec => []LocalRunsOnce
<1>1. IInv => LocalRunsOnce
  <2> SUFFICES ASSUME IInv, NEW id \in Ids, Local(id)
               PROVE  /\ starts[id] <= 1
                      /\ \A p, q \in Procs :
                           cur[p] = id /\ cur[q] = id /\ PastGate(p) /\ PastGate(q) => p = q
    BY DEF LocalRunsOnce
  <2> QED BY DEF IInv, StartsInv, GateInv
<1> QED BY <1>1, Invariance, PTL

\* And only from a record that is planned on disk at that moment, although
\* the executor decided on the copy it loaded earlier (apply.go:95-97).
THEOREM ExecutesPlanned == Spec => LocalStartsPlanned
<1>1. IInv /\ [Next]_vars => [\A id \in Ids : Local(id) => StartsPlanned(id)]_vars
  <2> SUFFICES ASSUME IInv, Next, NEW id \in Ids, Local(id), starts'[id] # starts[id]
               PROVE  store[id].status = "planned"
    BY DEF StartsPlanned
  <2>1. PICK p \in Procs : Start(p)
    BY DEF Next, Progress, BeginCreate, BeginRetry, MakeDirectory, LoadRecord, Crash, WriteRecord,
       CreateFails, Link, LinkFails, Refuse, OpenLog, StartFails, RunStep, StepFails, RunTarget,
       InstallRefused, WriteResult, WriteResultFails, RecordOutcome, RecordOutcomeFails
  <2>2. cur[p] = id /\ pc[p] = "logged" /\ HasDirectory(id)
    BY <2>1 DEF Start, IInv, TypeOK
  <2> QED BY <2>2 DEF IInv, GateInv, PastGate, HasDirectory
<1> QED BY <1>1, Invariance, PTL DEF Spec, LocalStartsPlanned

-----------------------------------------------------------------------------
(* What the records say about results and retries.  Records are written    *)
(* back from copies, so the invariant is about the copies as well.         *)

\* No copy that will be written names a result that does not belong to it.
HeldResult(p) ==
  /\ pc[p] \in {"create", "link"} => ~mem[p].result
  /\ pc[p] \in {"create", "link"} /\ mem[p].source # None /\ Local(mem[p].source)
       /\ src[p].result /\ HasDirectory(mem[p].source)
       => result[mem[p].source].status = "failed"
  /\ pc[p] # "idle" /\ Local(cur[p]) =>
       /\ pc[p] = "ready" /\ mem[p].status = "planned" => ~mem[p].result
       /\ pc[p] \in {"logged", "running", "result"} => ~mem[p].result
       /\ pc[p] = "result" /\ mem[p].status = "succeeded" => ran[p] = Steps
       /\ pc[p] = "record" /\ mem[p].result /\ HasDirectory(cur[p]) =>
            /\ result[cur[p]].status = mem[p].status
            /\ mem[p].status = "succeeded" => result[cur[p]].steps = Steps

\* A source has the plan of its retry; a retry that is recorded was published;
\* a directory without a record names neither.
RecordLinks ==
  \A id \in Ids :
    /\ ~Loadable(id) => store[id].source = None /\ store[id].retry = None
    /\ store[id].source # None => plan[store[id].source] = plan[id]
    /\ Local(id) /\ store[id].retry # None =>
         ~Fresh(store[id].retry) /\ store[store[id].retry].status # "incomplete"

\* A copy has the source of the record it was made of, and no retry when it
\* will be written back.
HeldLinks(p) ==
  /\ pc[p] \in Places \ {"idle", "create"} /\ HasDirectory(cur[p]) =>
       mem[p].source = store[cur[p]].source
  /\ pc[p] = "link" => mem[p].source # None
  /\ pc[p] \in {"create", "link"} /\ mem[p].source # None =>
       /\ mem[p].source # cur[p]
       /\ plan[mem[p].source] = plan[cur[p]]
       /\ HasDirectory(mem[p].source) => src[p].source = store[mem[p].source].source
  /\ pc[p] # "idle" /\ Local(cur[p]) =>
       \/ mem[p].retry = None
       \/ pc[p] = "ready" /\ mem[p].status # "planned"

RecordsInv ==
  /\ ResultMatchesRecord /\ RetryLinks /\ RecordLinks
  /\ \A p \in Procs : HeldResult(p) /\ HeldLinks(p)

\* Before any command ran there is no record.
LEMMA InitRecordsInv == Init => RecordsInv
  BY DEF Init, RecordsInv, ResultMatchesRecord, RetryLinks, RecordLinks, HeldResult, HeldLinks,
     NoRecord

\* A record that is neither finished nor failed names no result.
LEMMA NoResultYet ==
  ASSUME IInv, RecordsInv, NEW id \in Ids, Local(id), store[id].status \in {"planned", "running"}
  PROVE  ~store[id].result
<1>1. result[id].status \in Terminal \cup {"none"} /\ store[id].result \in BOOLEAN
  BY DEF IInv, TypeOK, Result, Record
<1> QED BY <1>1 DEF RecordsInv, ResultMatchesRecord, Loadable, Statuses, Terminal

\* A step that leaves the store alone matters to its own process only.
LEMMA MemoryRecordsInv ==
  ASSUME IInv, RecordsInv, NEW p \in Procs, HeldResult(p)', HeldLinks(p)',
         UNCHANGED <<plan, store, result>>,
         \A q \in Procs \ {p} : /\ pc'[q] = pc[q] /\ cur'[q] = cur[q] /\ mem'[q] = mem[q]
                               /\ src'[q] = src[q] /\ ran'[q] = ran[q]
  PROVE  RecordsInv'
<1>1. ResultMatchesRecord' /\ RetryLinks' /\ RecordLinks'
  BY DEF RecordsInv, ResultMatchesRecord, RetryLinks, RecordLinks, Local, Loadable, Fresh
<1>2. ASSUME NEW q \in Procs \ {p} PROVE HeldResult(q)' /\ HeldLinks(q)'
  BY DEF RecordsInv, HeldResult, HeldLinks, Local, HasDirectory
<1> QED BY <1>1, <1>2 DEF RecordsInv

\* A command that ends without writing forgets its copies.
LEMMA ExitRecordsInv ==
  ASSUME IInv, RecordsInv, NEW p \in Procs, Exit(p), UNCHANGED disk
  PROVE  RecordsInv'
<1>1. UNCHANGED <<plan, store, result>> /\ pc[p] \in Places
  BY DEF disk, IInv, TypeOK
<1>2. ASSUME NEW q \in Procs \ {p}
      PROVE  /\ pc'[q] = pc[q] /\ cur'[q] = cur[q] /\ mem'[q] = mem[q]
             /\ src'[q] = src[q] /\ ran'[q] = ran[q]
  BY DEF Exit, Goto
<1>3. HeldResult(p)'
  BY DEF Exit, Goto, HeldResult, IInv, TypeOK
<1>4. HeldLinks(p)'
  BY DEF Exit, Goto, HeldLinks, IInv, TypeOK
<1> QED BY <1>1, <1>2, <1>3, <1>4, MemoryRecordsInv

\* A record loaded as planned names no result and no retry.
LEMMA LoadRecordRecordsInv ==
  ASSUME IInv, RecordsInv, NEW p \in Procs, LoadRecord(p)
  PROVE  RecordsInv'
<1>1. UNCHANGED <<plan, store, result>> /\ pc[p] \in Places
  BY DEF LoadRecord, disk, IInv, TypeOK
<1>2. ASSUME NEW q \in Procs \ {p}
      PROVE  /\ pc'[q] = pc[q] /\ cur'[q] = cur[q] /\ mem'[q] = mem[q]
             /\ src'[q] = src[q] /\ ran'[q] = ran[q]
  BY DEF LoadRecord, Goto
<1>3. HeldResult(p)'
  BY <1>1, NoResultYet DEF LoadRecord, Goto, HeldResult, IInv, TypeOK, Local
<1>4. HeldLinks(p)'
  BY <1>1 DEF LoadRecord, Goto, RecordsInv, RetryLinks, HeldLinks, IInv, TypeOK, Local
<1> QED BY <1>1, <1>2, <1>3, <1>4, MemoryRecordsInv

\* The executor goes on with a planned copy only.
LEMMA OpenLogRecordsInv ==
  ASSUME IInv, RecordsInv, NEW p \in Procs, OpenLog(p)
  PROVE  RecordsInv'
<1>1. UNCHANGED <<plan, store, result>> /\ pc[p] \in Places
  BY DEF OpenLog, IInv, TypeOK
<1>2. ASSUME NEW q \in Procs \ {p}
      PROVE  /\ pc'[q] = pc[q] /\ cur'[q] = cur[q] /\ mem'[q] = mem[q]
             /\ src'[q] = src[q] /\ ran'[q] = ran[q]
  BY DEF OpenLog, Goto
<1>3. HeldResult(p)'
  BY DEF OpenLog, Goto, RecordsInv, HeldResult, Local
<1>4. HeldLinks(p)'
  BY <1>1 DEF OpenLog, Goto, RecordsInv, HeldLinks, Local
<1> QED BY <1>1, <1>2, <1>3, <1>4, MemoryRecordsInv

\* A local execution succeeds when all its playbooks did.
LEMMA RunStepsRecordsInv ==
  ASSUME IInv, RecordsInv, NEW p \in Procs, RunStep(p) \/ StepFails(p)
  PROVE  RecordsInv'
<1>1. UNCHANGED <<plan, store, result>> /\ pc[p] \in Places
  BY DEF RunStep, StepFails, disk, IInv, TypeOK
<1>2. ASSUME NEW q \in Procs \ {p}
      PROVE  /\ pc'[q] = pc[q] /\ cur'[q] = cur[q] /\ mem'[q] = mem[q]
             /\ src'[q] = src[q] /\ ran'[q] = ran[q]
  BY DEF RunStep, StepFails, Decide, Goto, IInv, TypeOK
<1>3. HeldResult(p)'
  <2>1. CASE RunStep(p) /\ UNCHANGED <<pc, mem>>
    BY <2>1 DEF RunStep, RecordsInv, HeldResult
  <2>2. ASSUME NEW s \in Terminal, NEW n \in 0..Steps, pc[p] = "running", Decide(p, s, n),
               s = "succeeded" => n = Steps, UNCHANGED cur
        PROVE  HeldResult(p)'
    BY <1>1, <2>2 DEF Decide, Goto, RecordsInv, HeldResult, IInv, TypeOK, Local
  <2>3. CASE RunStep(p) /\ Decide(p, "succeeded", Steps)
    BY <2>2, <2>3, StepsAssumption DEF RunStep, Terminal
  <2>4. CASE StepFails(p)
    <3>1. ran[p] + 1 \in 0..Steps
      BY <2>4, StepsAssumption DEF StepFails, IInv, TypeOK, RanInv
    <3> QED BY <2>2, <2>4, <3>1 DEF StepFails, Terminal
  <2> QED BY <2>1, <2>3, <2>4 DEF RunStep
<1>4. HeldLinks(p)'
  BY <1>1 DEF RunStep, StepFails, Decide, Goto, RecordsInv, HeldLinks, IInv, TypeOK,
     HasDirectory, Record
<1> QED BY <1>1, <1>2, <1>3, <1>4, MemoryRecordsInv

\* A remote one keeps the links of its copy.
LEMMA RunTargetsRecordsInv ==
  ASSUME IInv, RecordsInv, NEW p \in Procs, RunTarget(p) \/ InstallRefused(p)
  PROVE  RecordsInv'
<1>1. UNCHANGED <<plan, store, result>> /\ pc[p] \in Places
  BY DEF RunTarget, InstallRefused, disk, IInv, TypeOK
<1>2. ASSUME NEW q \in Procs \ {p}
      PROVE  /\ pc'[q] = pc[q] /\ cur'[q] = cur[q] /\ mem'[q] = mem[q]
             /\ src'[q] = src[q] /\ ran'[q] = ran[q]
  BY DEF RunTarget, InstallRefused, Decide, Goto, IInv, TypeOK
<1>3. HeldResult(p)'
  BY <1>1 DEF RunTarget, InstallRefused, Decide, Goto, HeldResult, IInv, TypeOK, Local
<1>4. HeldLinks(p)'
  BY <1>1 DEF RunTarget, InstallRefused, Decide, Goto, RecordsInv, HeldLinks, IInv, TypeOK,
     FreshInv, Local, HasDirectory, Record
<1> QED BY <1>1, <1>2, <1>3, <1>4, MemoryRecordsInv

\* Without a result the copy names none.
LEMMA WriteResultFailsRecordsInv ==
  ASSUME IInv, RecordsInv, NEW p \in Procs, WriteResultFails(p)
  PROVE  RecordsInv'
<1>1. UNCHANGED <<plan, store, result>> /\ pc[p] \in Places
  BY DEF WriteResultFails, disk, IInv, TypeOK
<1>2. ASSUME NEW q \in Procs \ {p}
      PROVE  /\ pc'[q] = pc[q] /\ cur'[q] = cur[q] /\ mem'[q] = mem[q]
             /\ src'[q] = src[q] /\ ran'[q] = ran[q]
  BY DEF WriteResultFails, Exit, Goto, IInv, TypeOK
<1>3. HeldResult(p)'
  BY DEF WriteResultFails, Exit, Goto, RecordsInv, HeldResult, IInv, TypeOK
<1>4. HeldLinks(p)'
  BY <1>1 DEF WriteResultFails, Exit, Goto, RecordsInv, HeldLinks, IInv, TypeOK, HasDirectory
<1> QED BY <1>1, <1>2, <1>3, <1>4, MemoryRecordsInv

\* The directory is new, so nothing refers to it.
LEMMA MakeDirectoryRecordsInv ==
  ASSUME IInv, RecordsInv, NEW p \in Procs, NEW id \in Ids, NEW mode \in Modes,
         NEW record \in Record, NEW source \in Record, NEW andExecute \in BOOLEAN,
         MakeDirectory(p, id, mode, record, source, andExecute),
         record.status = "planned", record.retry = None, ~record.result,
         record.source # None =>
           /\ store[record.source] = source /\ source.status = "failed"
           /\ plan[record.source] = mode
  PROVE  RecordsInv'
<1>1. ResultMatchesRecord'
  <2>1. store'[id].status = "incomplete"
    BY DEF MakeDirectory, IInv, TypeOK
  <2> QED
    BY <2>1 DEF MakeDirectory, RecordsInv, ResultMatchesRecord, Local, Loadable, Statuses,
       Terminal
<1>2. RetryLinks'
  BY NoneAssumption DEF RecordLinks, RetryLinks, MakeDirectory, RecordsInv, IInv, TypeOK, Local,
     Loadable, Fresh, Statuses, Terminal
<1>3. RecordLinks'
  BY DEF RecordLinks, MakeDirectory, RecordsInv, IInv, FreshInv, Local, Loadable, Fresh,
     Statuses, Terminal
<1>4. ASSUME NEW q \in Procs PROVE HeldResult(q)'
  <2>1. /\ UNCHANGED result
        /\ \A other \in Ids : ~Fresh(other) =>
             (Local(other)' <=> Local(other)) /\ (HasDirectory(other)' <=> HasDirectory(other))
    BY DEF MakeDirectory, Local, HasDirectory
  <2>2. CASE q # p
    BY <2>1, <2>2 DEF MakeDirectory, Goto, RecordsInv, HeldResult, IInv, TypeOK, FreshInv,
       SourceInv, Record
  <2>3. CASE q = p
    <3>1. /\ pc'[p] = "create" /\ mem'[p] = record /\ src'[p] = source
      BY DEF MakeDirectory, Goto, IInv, TypeOK
    <3>2. ASSUME record.source # None
          PROVE  /\ record.source \in Ids /\ ~Fresh(record.source)
                 /\ Local(record.source) /\ source.result => result[record.source].status = "failed"
      BY <3>2 DEF RecordsInv, ResultMatchesRecord, Loadable, IInv, FreshInv, Record
    <3> QED BY <2>1, <2>3, <3>1, <3>2 DEF HeldResult
  <2> QED BY <2>2, <2>3
<1>5. ASSUME NEW q \in Procs PROVE HeldLinks(q)'
  BY DEF HeldLinks, MakeDirectory, Goto, RecordsInv, IInv, TypeOK, FreshInv, SourceInv, Local,
     HasDirectory
<1> QED BY <1>1, <1>2, <1>3, <1>4, <1>5 DEF RecordsInv

\* A directory without a record is not referred to.
LEMMA CreateFailsRecordsInv ==
  ASSUME IInv, RecordsInv, NEW p \in Procs, CreateFails(p)
  PROVE  RecordsInv'
<1>1. ResultMatchesRecord'
  BY DEF ResultMatchesRecord, CreateFails, RecordsInv, Local, Loadable, NoRecord
<1>2. RetryLinks'
  BY DEF RecordLinks, RetryLinks, CreateFails, RecordsInv, Local, NoRecord
<1>3. RecordLinks'
  BY DEF RecordLinks, CreateFails, RecordsInv, Local, Loadable, Fresh, NoRecord
<1>4. ASSUME NEW q \in Procs PROVE HeldResult(q)'
  BY DEF HeldResult, CreateFails, Exit, Goto, RecordsInv, IInv, TypeOK, CreateInv, Local,
     HasDirectory
<1>5. ASSUME NEW q \in Procs PROVE HeldLinks(q)'
  BY DEF HeldLinks, CreateFails, Exit, Goto, RecordsInv, IInv, TypeOK, CreateInv, SourceInv,
     Local, HasDirectory
<1> QED BY <1>1, <1>2, <1>3, <1>4, <1>5 DEF RecordsInv

\* The new record names its source, which failed.
LEMMA WriteRecordRecordsInv ==
  ASSUME IInv, RecordsInv, NEW p \in Procs, WriteRecord(p)
  PROVE  RecordsInv'
<1>1. ResultMatchesRecord'
  BY DEF HeldResult, ResultMatchesRecord, WriteRecord, RecordsInv, Local, Loadable
<1>2. RetryLinks'
  BY DEF RecordLinks, RetryLinks, HeldLinks, WriteRecord, RecordsInv, IInv, CreateInv, SourceInv,
     Local
<1>3. RecordLinks'
  BY DEF RecordLinks, HeldLinks, WriteRecord, RecordsInv, IInv, CreateInv, Local, Loadable,
     Fresh, Statuses
<1>4. ASSUME NEW q \in Procs PROVE HeldResult(q)'
  BY NoneAssumption DEF HeldResult, WriteRecord, Exit, Goto, RecordsInv, IInv, TypeOK, CreateInv,
     Local, HasDirectory, Result
<1>5. ASSUME NEW q \in Procs PROVE HeldLinks(q)'
  BY DEF HeldLinks, WriteRecord, Exit, Goto, RecordsInv, IInv, TypeOK, FreshInv, CreateInv,
     SourceInv, Local, HasDirectory
<1> QED BY <1>1, <1>2, <1>3, <1>4, <1>5 DEF RecordsInv

\* The copy written over the source has its links and its result.
LEMMA LinkRecordsInv ==
  ASSUME IInv, RecordsInv, NEW p \in Procs, Link(p)
  PROVE  RecordsInv'
<1>1. PICK s \in Ids : s = mem[p].source /\ s # cur[p] /\ ~Fresh(s) /\ cur[p] \in Ids
  BY DEF Link, RecordsInv, HeldLinks, IInv, TypeOK, FreshInv, SourceInv, Record
<1>2. /\ store' = [store EXCEPT ![s] = [src[p] EXCEPT !.retry = cur[p]]]
      /\ src[p].source = store[s].source /\ src[p].status = "failed" /\ src[p] \in Record
      /\ store[s].status \in Statuses
      /\ Local(s) => store[s].status = "failed"
      /\ store[cur[p]].source \in {s, None} /\ store[cur[p]].status # "incomplete"
      /\ ~Fresh(cur[p]) /\ UNCHANGED plan
  <2>1. /\ pc[p] = "link" /\ s # None /\ HasDirectory(s)
        /\ store' = [store EXCEPT ![s] = [src[p] EXCEPT !.retry = cur[p]]] /\ UNCHANGED plan
    BY <1>1, NoneAssumption DEF Link
  <2>2. /\ src[p].source = store[s].source
        /\ HasDirectory(cur[p]) => store[cur[p]].source = s
    BY <1>1, <2>1 DEF RecordsInv, HeldLinks, Places
  <2>3. ~HasDirectory(cur[p]) => store[cur[p]].source = None
    BY <1>1 DEF RecordsInv, RecordLinks, HasDirectory, Loadable, Statuses, Terminal
  <2>4. /\ src[p].status = "failed" /\ store[s].status # "incomplete"
        /\ Local(s) => store[s].status = "failed"
    BY <1>1, <2>1 DEF IInv, SourceInv, HasDirectory
  <2>5. store[s].status \in Statuses /\ src[p] \in Record
    BY <2>1, <2>4 DEF IInv, TypeOK, Record, HasDirectory
  <2>6. store[cur[p]].status # "incomplete" /\ ~Fresh(cur[p])
    BY <2>1 DEF IInv, CreateInv, FreshInv, Places
  <2> QED BY <2>1, <2>2, <2>3, <2>4, <2>5, <2>6
<1>3. ResultMatchesRecord'
  <2>1. UNCHANGED result /\ (Local(s) /\ src[p].result => result[s].status = "failed")
    <3>1. pc[p] = "link" /\ s # None /\ HasDirectory(s) /\ UNCHANGED result
      BY <1>1, NoneAssumption DEF Link
    <3> QED BY <1>1, <3>1 DEF RecordsInv, HeldResult
  <2> QED BY <1>2, <2>1 DEF RecordsInv, ResultMatchesRecord, Local, Loadable
<1>4. RetryLinks'
  BY <1>2 DEF RecordsInv, RetryLinks, Local, Loadable
<1>5. RecordLinks'
  BY <1>2 DEF RecordsInv, RecordLinks, Local, Loadable, Fresh, Statuses, Terminal
<1>6. ASSUME NEW q \in Procs PROVE HeldResult(q)'
  BY DEF HeldResult, Link, Goto, RecordsInv, Local, HasDirectory
<1>7. ASSUME NEW q \in Procs PROVE HeldLinks(q)'
  BY DEF HeldLinks, Link, Goto, RecordsInv, IInv, TypeOK, Local, HasDirectory
<1> QED BY <1>3, <1>4, <1>5, <1>6, <1>7 DEF RecordsInv

\* The retry disappears with its result.
LEMMA LinkFailsRecordsInv ==
  ASSUME IInv, RecordsInv, NEW p \in Procs, LinkFails(p)
  PROVE  RecordsInv'
<1>1. ResultMatchesRecord'
  BY DEF ResultMatchesRecord, LinkFails, RecordsInv, IInv, TypeOK, Local, Loadable, NoRecord
<1>2. RetryLinks'
  BY DEF RecordLinks, RetryLinks, LinkFails, RecordsInv, Local, NoRecord
<1>3. RecordLinks'
  BY DEF RecordLinks, LinkFails, RecordsInv, Local, Loadable, Fresh, NoRecord
<1>4. ASSUME NEW q \in Procs PROVE HeldResult(q)'
  BY DEF HeldResult, LinkFails, Exit, Goto, RecordsInv, IInv, TypeOK, Local, HasDirectory, NoRecord
<1>5. ASSUME NEW q \in Procs PROVE HeldLinks(q)'
  BY DEF HeldLinks, LinkFails, Exit, Goto, RecordsInv, IInv, TypeOK, Local, HasDirectory, NoRecord
<1> QED BY <1>1, <1>2, <1>3, <1>4, <1>5 DEF RecordsInv

\* A running record names no result, and nobody retries it.
LEMMA StartRecordsInv ==
  ASSUME IInv, RecordsInv, NEW p \in Procs, Start(p)
  PROVE  RecordsInv'
<1>1. ResultMatchesRecord'
  BY DEF HeldResult, ResultMatchesRecord, Start, RecordsInv, Local, Loadable
<1>2. RetryLinks'
  BY DEF RecordLinks, RetryLinks, HeldLinks, Start, RecordsInv, IInv, TypeOK, GateInv, PastGate,
     Local, HasDirectory
<1>3. RecordLinks'
  BY DEF RecordLinks, HeldLinks, Start, RecordsInv, IInv, TypeOK, Local, Loadable, Fresh, Statuses
<1>4. ASSUME NEW q \in Procs PROVE HeldResult(q)'
  BY DEF HeldResult, Start, Goto, RecordsInv, Local, HasDirectory
<1>5. ASSUME NEW q \in Procs PROVE HeldLinks(q)'
  BY DEF HeldLinks, Start, Goto, RecordsInv, IInv, TypeOK, Local, HasDirectory
<1> QED BY <1>1, <1>2, <1>3, <1>4, <1>5 DEF RecordsInv

\* The result belongs to a running record, which does not name it yet.
LEMMA WriteResultRecordsInv ==
  ASSUME IInv, RecordsInv, NEW p \in Procs, WriteResult(p)
  PROVE  RecordsInv'
<1>1. ResultMatchesRecord'
  BY NoResultYet DEF ResultMatchesRecord, WriteResult, RecordsInv, IInv, GateInv, Executing,
     PastGate, Local, HasDirectory, Loadable
<1>2. RetryLinks' /\ RecordLinks'
  BY DEF WriteResult, RecordsInv, RetryLinks, RecordLinks, Local, Loadable, Fresh
<1>3. ASSUME NEW q \in Procs PROVE HeldResult(q)'
  BY DEF HeldResult, WriteResult, Goto, RecordsInv, IInv, TypeOK, SourceInv, GateInv, Executing,
     PastGate, Local, HasDirectory
<1>4. ASSUME NEW q \in Procs PROVE HeldLinks(q)'
  BY DEF HeldLinks, WriteResult, Goto, RecordsInv, IInv, TypeOK, Local, HasDirectory
<1> QED BY <1>1, <1>2, <1>3, <1>4 DEF RecordsInv

\* The record names the result that was written for it.
LEMMA RecordOutcomeRecordsInv ==
  ASSUME IInv, RecordsInv, NEW p \in Procs, RecordOutcome(p)
  PROVE  RecordsInv'
<1>1. ResultMatchesRecord'
  BY DEF HeldResult, ResultMatchesRecord, RecordOutcome, RecordsInv, Local, Loadable
<1>2. RetryLinks'
  BY DEF RecordLinks, RetryLinks, HeldLinks, RecordOutcome, RecordsInv, IInv, TypeOK, GateInv,
     Executing, PastGate, Local, HasDirectory
<1>3. RecordLinks'
  BY DEF RecordLinks, HeldLinks, RecordOutcome, RecordsInv, IInv, TypeOK, CreateInv, Local,
     HasDirectory, Loadable, Fresh, Terminal
<1>4. ASSUME NEW q \in Procs PROVE HeldResult(q)'
  BY DEF HeldResult, RecordOutcome, Exit, Goto, RecordsInv, IInv, TypeOK, Local, HasDirectory
<1>5. ASSUME NEW q \in Procs PROVE HeldLinks(q)'
  BY DEF HeldLinks, RecordOutcome, Exit, Goto, RecordsInv, IInv, TypeOK, Local, HasDirectory
<1> QED BY <1>1, <1>2, <1>3, <1>4, <1>5 DEF RecordsInv

\* Every step keeps what the records say true.
LEMMA NextRecordsInv == IInv /\ RecordsInv /\ [Next]_vars => RecordsInv'
<1> SUFFICES ASSUME IInv, RecordsInv, [Next]_vars PROVE RecordsInv'
  OBVIOUS
<1>1. CASE UNCHANGED vars
  BY <1>1 DEF vars, disk, process, RecordsInv, ResultMatchesRecord, RetryLinks, RecordLinks,
     HeldResult, HeldLinks, Local, Loadable, HasDirectory, Fresh
<1>2. ASSUME NEW p \in Procs, BeginCreate(p) PROVE RecordsInv'
  <2>1. PlannedRecord(None) \in Record /\ NoRecord \in Record
    BY DEF PlannedRecord, NoRecord, Record, Statuses
  <2> QED BY <1>2, <2>1, MakeDirectoryRecordsInv DEF BeginCreate, PlannedRecord, NoRecord
<1>3. ASSUME NEW p \in Procs, BeginRetry(p) PROVE RecordsInv'
  <2>1. PICK id \in Ids, source \in Ids :
          /\ store[source].status = "failed"
          /\ MakeDirectory(p, id, plan[source], PlannedRecord(source), store[source], TRUE)
    BY <1>3 DEF BeginRetry
  <2>2. /\ PlannedRecord(source) \in Record /\ store[source] \in Record
        /\ PlannedRecord(source).status = "planned" /\ PlannedRecord(source).source = source
        /\ PlannedRecord(source).retry = None /\ ~PlannedRecord(source).result
    BY DEF PlannedRecord, NoRecord, Record, Statuses, IInv, TypeOK
  <2>3. plan[source] \in Modes
    BY <2>1 DEF IInv, TypeOK, FreshInv, Fresh
  <2> QED BY <2>1, <2>2, <2>3, MakeDirectoryRecordsInv
<1>4. ASSUME NEW p \in Procs, Progress(p) PROVE RecordsInv'
  <2>1. CASE Refuse(p) \/ StartFails(p) \/ RecordOutcomeFails(p)
    BY <2>1, ExitRecordsInv DEF Refuse, StartFails, RecordOutcomeFails
  <2> QED
    BY <1>4, <2>1, WriteRecordRecordsInv, CreateFailsRecordsInv, LinkRecordsInv,
       LinkFailsRecordsInv, OpenLogRecordsInv, StartRecordsInv, RunStepsRecordsInv,
       RunTargetsRecordsInv, WriteResultRecordsInv, WriteResultFailsRecordsInv,
       RecordOutcomeRecordsInv DEF Progress
<1>5. ASSUME NEW p \in Procs, Crash(p) PROVE RecordsInv'
  BY <1>5, ExitRecordsInv DEF Crash
<1> QED BY <1>1, <1>2, <1>3, <1>4, <1>5, LoadRecordRecordsInv DEF Next

\* Records tell the truth in every reachable state.
LEMMA RecordsInvariance == Spec => []RecordsInv
<1> QED BY InitRecordsInv, NextRecordsInv, Invariance, PTL DEF Spec

\* A record that names its result agrees with it, through every failed write
\* between the two files and every copy written back over it (apply.go:265-283).
THEOREM RecordsMatchResults == Spec => []ResultMatchesRecord
<1>1. RecordsInv => ResultMatchesRecord BY DEF RecordsInv
<1> QED BY <1>1, RecordsInvariance, PTL

\* Sources and retries of local operations agree (operation.go:118-120),
\* although the source is written back from a copy that may be old.
THEOREM LinksAgree == Spec => []RetryLinks
<1>1. RecordsInv => RetryLinks BY DEF RecordsInv
<1> QED BY <1>1, RecordsInvariance, PTL

-----------------------------------------------------------------------------
(* The operation store implements OperationLifecycle for its local operations: *)
(* every step of every command is a step of one operation's life, or changes   *)
(* nothing of it.                                                              *)

\* Whether a command is still linking the retry id to its source.
Linking(id) == \E q \in Procs : cur[q] = id /\ pc[q] = "link"

\* The abstract state only depends on the plans, on the status of the records
\* and on the retries being linked.
LEMMA SilentStep ==
  ASSUME UNCHANGED plan,
         \A id \in Ids : Local(id) => store'[id].status = store[id].status,
         \A id \in Ids : Local(id) /\ Loadable(id) => (Linking(id)' <=> Linking(id))
  PROVE  UNCHANGED Lifecycle!vars
<1>1. UNCHANGED LifecycleStatus
  BY DEF LifecycleStatus, StatusOf, Local, Loadable
<1>2. UNCHANGED LifecycleSettled
  BY DEF LifecycleSettled, Local, Loadable, Linking
<1> QED BY <1>1, <1>2 DEF Lifecycle!vars

\* A command that ends settles the retry it was linking, if it is readable.
LEMMA ExitStep ==
  ASSUME IInv, NEW p \in Procs, pc[p] # "idle", Exit(p), UNCHANGED <<plan, store>>
  PROVE  [Lifecycle!Next]_(Lifecycle!vars)
<1>1. PICK o \in Ids : o = cur[p]
  BY DEF IInv, FreshInv
<1>2. /\ pc'[p] = "idle"
      /\ \A q \in Procs \ {p} : pc'[q] = pc[q] /\ cur'[q] = cur[q]
  BY DEF IInv, TypeOK, Exit, Goto
<1>3. \A id \in Ids \ {o} : Linking(id)' <=> Linking(id)
  BY <1>1, <1>2 DEF Linking
<1>4. Linking(o)' => Linking(o)
  BY <1>2 DEF Linking
<1>5. CASE Local(o) /\ Loadable(o) /\ Linking(o) /\ ~Linking(o)'
  <2>1. UNCHANGED LifecycleStatus
    BY DEF LifecycleStatus, StatusOf, Local, Loadable
  <2>2. LifecycleSettled' = LifecycleSettled \cup {o}
    BY <1>3, <1>5 DEF LifecycleSettled, Local, Loadable, Linking
  <2>3. LifecycleStatus[o] \in Lifecycle!Published
    BY <1>5
    DEF LifecycleStatus, StatusOf, Loadable, Statuses, Terminal, Lifecycle!Published, Lifecycle!Terminal
  <2> QED BY <2>1, <2>2, <2>3 DEF Lifecycle!Next, Lifecycle!Settle
<1>6. CASE Local(o) /\ Loadable(o) => (Linking(o)' <=> Linking(o))
  BY <1>3, <1>6, SilentStep
<1> QED BY <1>4, <1>5, <1>6

\* Steps of a process that stays at work on the same operation, away from
\* the linking of a retry, and leaves the store alone.
LEMMA WorkStep ==
  ASSUME IInv, NEW p \in Procs, NEW place \in Places \ {"link"}, pc[p] # "link", Goto(p, place),
         UNCHANGED <<plan, store>>, \A q \in Procs \ {p} : cur'[q] = cur[q]
  PROVE  UNCHANGED Lifecycle!vars
<1>1. /\ pc'[p] # "link"
      /\ \A q \in Procs \ {p} : pc'[q] = pc[q]
  BY DEF IInv, TypeOK, Goto
<1>2. \A id \in Ids : Linking(id)' <=> Linking(id)
  BY <1>1 DEF Linking
<1> QED BY <1>2, SilentStep

\* The new directory is not readable yet.
LEMMA MakeDirectoryStep ==
  ASSUME IInv, NEW p \in Procs, NEW id \in Ids, NEW mode \in Modes, NEW record, NEW source,
         NEW andExecute, MakeDirectory(p, id, mode, record, source, andExecute)
  PROVE  UNCHANGED Lifecycle!vars
<1>1. /\ plan[id] = None /\ mode # None /\ store[id].status = "absent"
      /\ plan' = [plan EXCEPT ![id] = mode]
      /\ store'[id].status = "incomplete"
      /\ \A other \in Ids \ {id} : store'[other] = store[other]
  BY NoneAssumption DEF MakeDirectory, IInv, TypeOK, FreshInv, Fresh, Record
<1>2. \A other \in Ids : other # id => (Linking(other)' <=> Linking(other))
  BY DEF Linking, MakeDirectory, Goto, IInv, TypeOK
<1>3. UNCHANGED LifecycleStatus
  <2>1. StatusOf(id) = "absent" /\ StatusOf(id)' = "absent"
    BY <1>1, NoneAssumption DEF StatusOf, Local, Loadable, IInv, TypeOK, Statuses, Terminal
  <2>2. \A other \in Ids \ {id} : StatusOf(other)' = StatusOf(other)
    BY <1>1 DEF StatusOf, Local, Loadable, IInv, TypeOK
  <2> QED BY <2>1, <2>2 DEF LifecycleStatus
<1>4. UNCHANGED LifecycleSettled
  BY <1>1, <1>2, NoneAssumption, ModesAssumption
  DEF LifecycleSettled, Local, Loadable, Linking, IInv, TypeOK, Statuses, Terminal
<1> QED BY <1>3, <1>4 DEF Lifecycle!vars

\* A complete record publishes its operation.
LEMMA WriteRecordStep ==
  ASSUME IInv, NEW p \in Procs, WriteRecord(p)
  PROVE  [Lifecycle!Next]_(Lifecycle!vars)
<1>1. PICK o \in Ids : o = cur[p]
  BY DEF IInv, FreshInv, WriteRecord
<1>2. /\ store[o].status = "incomplete" /\ mem[p].status = "planned" /\ UNCHANGED plan
      /\ store'[o] = mem[p]
      /\ \A other \in Ids \ {o} : store'[other] = store[other]
  BY <1>1 DEF WriteRecord, IInv, TypeOK, CreateInv
<1>3. \A q \in Procs \ {p} : pc'[q] = pc[q] /\ cur'[q] = cur[q]
  BY DEF WriteRecord, Exit, Goto, IInv, TypeOK
<1>4. pc'[p] = "link" => cur'[p] = o
  BY <1>1 DEF WriteRecord, Exit, Goto, IInv, TypeOK
<1>5. \A other \in Ids \ {o} : Linking(other)' <=> Linking(other)
  BY <1>1, <1>3, <1>4 DEF Linking, WriteRecord
<1>6. CASE Local(o)
  <2>1. StatusOf(o) = "absent" /\ StatusOf(o)' = "planned" /\ o \notin LifecycleSettled
    BY <1>2, <1>6 DEF StatusOf, LifecycleSettled, Local, Loadable, Statuses, Terminal
  <2>2. \A other \in Ids \ {o} : StatusOf(other)' = StatusOf(other)
    BY <1>2 DEF StatusOf, Local, Loadable
  <2>3. LifecycleStatus' = [LifecycleStatus EXCEPT ![o] = "planned"] /\ LifecycleStatus[o] = "absent"
    BY <2>1, <2>2 DEF LifecycleStatus
  <2>4. LifecycleSettled' \in {LifecycleSettled, LifecycleSettled \cup {o}}
    BY <1>2, <1>5, <2>1 DEF LifecycleSettled, Local, Loadable, Linking
  <2> QED BY <2>1, <2>3, <2>4 DEF Lifecycle!Next, Lifecycle!Publish
<1>7. CASE ~Local(o)
  <2>1. ASSUME NEW id \in Ids, Local(id) PROVE store'[id].status = store[id].status
    BY <1>2, <1>7, <2>1
  <2>2. ASSUME NEW id \in Ids, Local(id) PROVE Linking(id)' <=> Linking(id)
    BY <1>5, <1>7, <2>2
  <2> QED BY <1>2, <2>1, <2>2, SilentStep
<1> QED BY <1>6, <1>7

\* A directory that is removed: the operation was never published, or its
\* source does not record it yet.
LEMMA RemoveStep ==
  ASSUME IInv, NEW p \in Procs, CreateFails(p) \/ LinkFails(p)
  PROVE  [Lifecycle!Next]_(Lifecycle!vars)
<1>1. PICK o \in Ids : o = cur[p]
  BY DEF IInv, FreshInv, CreateFails, LinkFails
<1>2. /\ UNCHANGED plan
      /\ store'[o] = NoRecord
      /\ \A other \in Ids \ {o} : store'[other] = store[other]
      /\ pc'[p] = "idle"
      /\ \A q \in Procs \ {p} : pc'[q] = pc[q] /\ cur'[q] = cur[q]
  BY <1>1 DEF CreateFails, LinkFails, Exit, Goto, IInv, TypeOK
<1>3. \A other \in Ids \ {o} : Linking(other)' <=> Linking(other)
  BY <1>1, <1>2 DEF Linking
<1>4. CASE Local(o)
  <2>1. StatusOf(o)' = "withdrawn"
    BY <1>2, <1>4 DEF StatusOf, Local, Loadable, NoRecord, Statuses, Terminal
  <2>2. \A other \in Ids \ {o} : StatusOf(other)' = StatusOf(other)
    BY <1>2 DEF StatusOf, Local, Loadable
  <2>3. LifecycleStatus' = [LifecycleStatus EXCEPT ![o] = "withdrawn"]
    BY <2>1, <2>2 DEF LifecycleStatus
  <2>4. o \notin LifecycleSettled
    BY <1>1 DEF LifecycleSettled, CreateFails, LinkFails, IInv, CreateInv, Loadable, Statuses, Terminal
  <2>5. LifecycleSettled' = LifecycleSettled
    BY <1>2, <1>3, <2>4
    DEF LifecycleSettled, Local, Loadable, Linking, NoRecord, Statuses, Terminal
  <2> QED BY <2>3, <2>4, <2>5 DEF Lifecycle!Next, Lifecycle!Withdraw
<1>5. CASE ~Local(o)
  <2>1. ASSUME NEW id \in Ids, Local(id)
        PROVE  store'[id].status = store[id].status /\ (Linking(id)' <=> Linking(id))
    BY <1>2, <1>3, <1>5, <2>1
  <2> QED BY <1>2, <2>1, SilentStep
<1> QED BY <1>4, <1>5

\* The source keeps its status; the retry can no longer be withdrawn.
LEMMA LinkStep ==
  ASSUME IInv, NEW p \in Procs, Link(p)
  PROVE  [Lifecycle!Next]_(Lifecycle!vars)
<1>1. PICK o \in Ids : o = cur[p]
  BY DEF IInv, FreshInv, Link
<1>2. /\ UNCHANGED <<plan, cur>>
      /\ pc'[p] = "ready"
      /\ \A q \in Procs \ {p} : pc'[q] = pc[q]
  BY DEF Link, Goto, IInv, TypeOK
<1>3. \A other \in Ids \ {o} : Linking(other)' <=> Linking(other)
  BY <1>1, <1>2 DEF Linking
<1>4. \A id \in Ids : Local(id) => store'[id].status = store[id].status
  <2>1. \A id \in Ids : store'[id] =
          IF id = mem[p].source THEN [src[p] EXCEPT !.retry = cur[p]] ELSE store[id]
    BY DEF Link, IInv, TypeOK
  <2>2. [src[p] EXCEPT !.retry = cur[p]].status = src[p].status
    BY DEF IInv, TypeOK, Record
  <2>3. ASSUME NEW id \in Ids, id = mem[p].source, Local(id)
        PROVE  src[p].status = "failed" /\ store[id].status = "failed"
    BY <2>3, NoneAssumption DEF Link, IInv, SourceInv, HasDirectory
  <2> QED BY <2>1, <2>2, <2>3
<1>5. CASE Local(o) /\ Loadable(o) /\ ~Linking(o)'
  <2>1. UNCHANGED LifecycleStatus
    BY <1>2, <1>4 DEF LifecycleStatus, StatusOf, Local, Loadable
  <2>2. LifecycleSettled' = LifecycleSettled \cup {o}
    BY <1>2, <1>3, <1>4, <1>5 DEF LifecycleSettled, Local, Loadable, Linking
  <2>3. LifecycleStatus[o] \in Lifecycle!Published
    BY <1>5
    DEF LifecycleStatus, StatusOf, Loadable, Statuses, Terminal, Lifecycle!Published, Lifecycle!Terminal
  <2> QED BY <2>1, <2>2, <2>3 DEF Lifecycle!Next, Lifecycle!Settle
<1>6. CASE Local(o) /\ Loadable(o) => Linking(o)'
  <2>1. ASSUME NEW id \in Ids, Local(id), Loadable(id) PROVE Linking(id)' <=> Linking(id)
    BY <1>1, <1>3, <1>6, <2>1 DEF Linking, Link
  <2> QED BY <1>2, <1>4, <2>1, SilentStep
<1> QED BY <1>5, <1>6

\* Start and RecordOutcome rewrite the record from the executor's copy.
LEMMA ExecutorStep ==
  ASSUME IInv, NEW p \in Procs, Start(p) \/ RecordOutcome(p)
  PROVE  [Lifecycle!Next]_(Lifecycle!vars)
<1>1. PICK o \in Ids : o = cur[p]
  BY DEF IInv, FreshInv, Start, RecordOutcome
<1>2. /\ UNCHANGED plan
      /\ pc'[p] \in {"running", "idle"} /\ pc[p] \in {"logged", "record"}
      /\ \A q \in Procs \ {p} : pc'[q] = pc[q] /\ cur'[q] = cur[q]
      /\ \A other \in Ids \ {o} : store'[other] = store[other]
  BY <1>1 DEF Start, RecordOutcome, Exit, Goto, IInv, TypeOK
<1>3. \A id \in Ids : Linking(id)' <=> Linking(id)
  BY <1>2 DEF Linking
<1>4. CASE ~Local(o)
  <2>1. ASSUME NEW id \in Ids, Local(id) PROVE store'[id].status = store[id].status
    BY <1>2, <1>4, <2>1
  <2> QED BY <1>2, <1>3, <2>1, SilentStep
<1>5. ASSUME Local(o), store[o].status \in Statuses, store'[o].status \in Statuses
      PROVE  /\ LifecycleStatus[o] = store[o].status
             /\ LifecycleStatus' = [LifecycleStatus EXCEPT ![o] = store'[o].status]
             /\ LifecycleSettled' = LifecycleSettled
  <2>1. StatusOf(o) = store[o].status /\ StatusOf(o)' = store'[o].status
    BY <1>2, <1>5 DEF StatusOf, Local, Loadable
  <2>2. \A other \in Ids \ {o} : StatusOf(other)' = StatusOf(other)
    BY <1>2 DEF StatusOf, Local, Loadable
  <2>3. LifecycleSettled' = LifecycleSettled
    BY <1>2, <1>3, <1>5 DEF LifecycleSettled, Local, Loadable, Linking
  <2> QED BY <2>1, <2>2, <2>3 DEF LifecycleStatus
<1>6. CASE Local(o) /\ Start(p)
  <2>1. store[o].status = "planned" /\ store'[o].status = "running"
    BY <1>1, <1>6 DEF Start, IInv, TypeOK, GateInv, PastGate, HasDirectory, Record
  <2> QED BY <1>5, <1>6, <2>1 DEF Statuses, Lifecycle!Next, Lifecycle!Start
<1>7. CASE Local(o) /\ RecordOutcome(p)
  <2>1. store[o].status = "running" /\ store'[o].status \in Terminal
    BY <1>1, <1>7
    DEF RecordOutcome, IInv, TypeOK, GateInv, CreateInv, PastGate, Executing, HasDirectory
  <2> QED
    BY <1>5, <1>7, <2>1 DEF Statuses, Terminal, Lifecycle!Next, Lifecycle!Finish, Lifecycle!Terminal
<1> QED BY <1>4, <1>6, <1>7

\* Every step is a step of the promised life, or invisible to it.
LEMMA NextRefines == IInv /\ [Next]_vars => [Lifecycle!Next]_(Lifecycle!vars)
<1> SUFFICES ASSUME IInv, [Next]_vars PROVE [Lifecycle!Next]_(Lifecycle!vars)
  OBVIOUS
<1>1. CASE UNCHANGED vars
  <2>1. UNCHANGED <<plan, store, pc, cur>>
    BY <1>1 DEF vars, disk, process
  <2> QED BY <2>1, SilentStep DEF Linking
<1>2. ASSUME NEW p \in Procs, BeginCreate(p) \/ BeginRetry(p) PROVE [Lifecycle!Next]_(Lifecycle!vars)
  <2>1. CASE BeginCreate(p)
    BY <2>1, MakeDirectoryStep DEF BeginCreate
  <2>2. CASE BeginRetry(p)
    <3>1. PICK id \in Ids, source \in Ids :
            /\ store[source].status = "failed"
            /\ MakeDirectory(p, id, plan[source], PlannedRecord(source), store[source], TRUE)
      BY <2>2 DEF BeginRetry
    <3>2. plan[source] \in Modes
      BY <3>1 DEF IInv, TypeOK, FreshInv, Fresh
    <3> QED BY <3>1, <3>2, MakeDirectoryStep
  <2> QED BY <1>2, <2>1, <2>2
<1>3. ASSUME NEW p \in Procs,
             Refuse(p) \/ StartFails(p) \/ RecordOutcomeFails(p) \/ Crash(p)
      PROVE  [Lifecycle!Next]_(Lifecycle!vars)
  BY <1>3, ExitStep DEF Refuse, StartFails, RecordOutcomeFails, Crash, disk
<1>4. ASSUME NEW p \in Procs, LoadRecord(p) \/ OpenLog(p) \/ WriteResult(p)
      PROVE  [Lifecycle!Next]_(Lifecycle!vars)
  <2>1. /\ UNCHANGED <<plan, store>> /\ pc[p] # "link"
        /\ \E place \in Places \ {"link"} : Goto(p, place)
        /\ \A q \in Procs \ {p} : cur'[q] = cur[q]
    BY <1>4 DEF LoadRecord, OpenLog, WriteResult, disk, Places, IInv, TypeOK
  <2> QED BY <2>1, WorkStep
<1>5. ASSUME NEW p \in Procs, RunStep(p) \/ StepFails(p) \/ RunTarget(p) \/ InstallRefused(p)
      PROVE  [Lifecycle!Next]_(Lifecycle!vars)
  <2>1. /\ UNCHANGED <<plan, store, cur>> /\ pc[p] = "running"
        /\ pc' = pc \/ Goto(p, "result")
    BY <1>5 DEF RunStep, StepFails, RunTarget, InstallRefused, Decide, disk
  <2>2. CASE pc' = pc
    BY <2>1, <2>2, SilentStep DEF Linking
  <2>3. CASE Goto(p, "result")
    BY <2>1, <2>3, WorkStep DEF Places
  <2> QED BY <2>1, <2>2, <2>3
<1>6. ASSUME NEW p \in Procs, WriteResultFails(p) PROVE [Lifecycle!Next]_(Lifecycle!vars)
  <2>1. CASE Exit(p)
    BY <1>6, <2>1, ExitStep DEF WriteResultFails, disk
  <2>2. CASE Goto(p, "record") /\ UNCHANGED cur
    BY <1>6, <2>2, WorkStep DEF WriteResultFails, disk, Places
  <2> QED BY <1>6, <2>1, <2>2 DEF WriteResultFails
<1> QED
  BY <1>1, <1>2, <1>3, <1>4, <1>5, <1>6, WriteRecordStep, RemoveStep, LinkStep, ExecutorStep
  DEF Next, Progress

\* For any number of processes and operations, with crashes and failed
\* writes at any point, the store keeps its promise for local operations.
THEOREM StoreImplementsLifecycle == Spec => ImplementsLifecycle
<1>1. Init => Lifecycle!Init
  BY NoneAssumption
  DEF Init, Lifecycle!Init, LifecycleStatus, LifecycleSettled, StatusOf, Local, Loadable, NoRecord,
      Statuses, Terminal
<1> QED BY <1>1, NextRefines, Invariance, PTL DEF Spec, ImplementsLifecycle, Lifecycle!Spec
=============================================================================
