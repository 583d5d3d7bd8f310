------------------------- MODULE ArgoHandoffProofs -------------------------
(***************************************************************************)
(* For any number of runs, Applications and observations: the hand-off is  *)
(* type correct, its records are sound evidence, what it deletes stays     *)
(* deleted and on record, and a receipt holds for good.                    *)
(***************************************************************************)
EXTENDS ArgoHandoff, TLAPS

\* The removal is on the branch, and Argo CD synced no more than the branch.
BranchInv == removal <= head /\ observed <= head /\ 0 < observed

\* Nothing takes the Secret away while it is desired; so its absence, once
\* seen, tells that the removal was synced.
SecretInv == Desired(observed) => secret

\* The registration is gone for good.
Gone == ~secret /\ ~Desired(observed)

\* Evidence of a removal: a commit at or after it.
Evidence(c) == removal # 0 /\ removal <= c /\ c <= head

RecordInv ==
  /\ pending # 0 => Evidence(pending)
  /\ receipt # 0 => Evidence(receipt)

OnRecord == pending # 0 \/ receipt # 0

CutInv ==
  /\ cut \cap apps = {}
  /\ cut # {} => Gone /\ OnRecord

ReceiptInv == receipt # 0 => Gone /\ apps = {}

WorldInv == BranchInv /\ SecretInv /\ RecordInv /\ CutInv /\ ReceiptInv

-----------------------------------------------------------------------------
Watching == {"observeRevision", "observeSecret", "observeApps"}
Watched == {"recheck", "receipt", "clear"}
Recorded == {"wait", "checkRevision", "checkHead", "deleteSecret", "verifySecret", "deleteApps"}
Proven == {"record"} \cup Recorded \cup Watching \cup Watched

\* What a run may rely on when it is at a place: past its choice it works with
\* sound evidence; it deletes only when that is on record, and clears only what
\* has a receipt; what it has read of the registration is still true.
RunAt(p, place) ==
  /\ place \in Proven \/ (place = "readHead" /\ path[p] = "detached") => Evidence(commit[p])
  /\ place \in Recorded => OnRecord
  /\ path[p] = "cleanup" \/ place = "clear" => receipt # 0
  /\ place \notin {"idle", "secrets"} /\ ~seenSecret[p] => Gone
  /\ place \in {"checkHead", "deleteSecret", "observeSecret"} => ~Desired(observed)
  /\ place \in {"verifySecret", "deleteApps", "observeApps"} \cup Watched => Gone
  /\ place \in Watched => apps = {}
  /\ place \in Watching => round[p] < Observations
  /\ place \notin Watching \cup Watched => round[p] = 0

RunInv(p) == RunAt(p, pc[p])

IInv == TypeOK /\ WorldInv /\ \A p \in Procs : RunInv(p)

-----------------------------------------------------------------------------
\* What no step takes back.
Evolves ==
  /\ removal # 0 => removal' = removal
  /\ head <= head'
  /\ ~Desired(observed) => (~Desired(observed))'
  /\ Gone => Gone'
  /\ Gone /\ apps = {} => apps' = {}
  /\ OnRecord => OnRecord'
  /\ receipt # 0 => receipt' # 0

Same(q) ==
  /\ pc'[q] = pc[q] /\ path'[q] = path[q] /\ seenSecret'[q] = seenSecret[q]
  /\ commit'[q] = commit[q] /\ round'[q] = round[q]

\* A run that does not move relies on nothing that the others can take back.
LEMMA RunKeeps ==
  ASSUME TypeOK, TypeOK', Evolves, NEW q \in Procs, RunInv(q), Same(q)
  PROVE  RunInv(q)'
  BY DEF TypeOK, Evolves, RunInv, RunAt, Same, Evidence, Commits

\* So a step of p has to be looked at for the world and for p alone.
LEMMA StepKeeps ==
  ASSUME IInv, NEW p \in Procs, TypeOK', WorldInv', Evolves,
         \A q \in Procs \ {p} : Same(q), RunInv(p)'
  PROVE  IInv'
<1>1. \A q \in Procs : RunInv(q)'
  <2> TAKE q \in Procs
  <2>1. CASE q = p
    BY <2>1
  <2>2. CASE q # p
    BY <2>2, RunKeeps DEF IInv
  <2> QED BY <2>1, <2>2
<1> QED BY <1>1 DEF IInv

\* A step that changes nothing but the run itself.
LEMMA QuietKeeps ==
  ASSUME IInv, NEW p \in Procs, TypeOK', UNCHANGED <<argo, records, cut>>,
         \A q \in Procs \ {p} : Same(q), RunInv(p)'
  PROVE  IInv'
<1>1. WorldInv'
  BY DEF IInv, WorldInv, BranchInv, SecretInv, RecordInv, CutInv, ReceiptInv, Gone,
         Evidence, OnRecord, Desired, argo, records
<1>2. Evolves
  BY DEF TypeOK, Evolves, Gone, OnRecord, Desired, argo, records, Commits
<1> QED BY <1>1, <1>2, StepKeeps

\* A run that returns, at whatever point.
LEMMA ExitKeeps ==
  ASSUME IInv, NEW p \in Procs, Exit(p), UNCHANGED <<argo, records, cut>>,
         failures' \in 0 .. MaxFailures
  PROVE  IInv'
<1>1. TypeOK'
  BY BoundsAssumption
  DEF IInv, TypeOK, Exit, Goto, argo, records, Places, Paths, Commits
<1>2. RunInv(p)'
  BY DEF IInv, TypeOK, Exit, Goto, RunInv, RunAt, Proven, Recorded, Watching, Watched
<1>3. \A q \in Procs \ {p} : Same(q)
  BY DEF Exit, Goto, Same
<1> QED BY <1>1, <1>2, <1>3, QuietKeeps

\* A run that goes on and changes nothing else.
LEMMA AdvanceKeeps ==
  ASSUME IInv, NEW p \in Procs, NEW place \in Places, Goto(p, place), RunAt(p, place),
         UNCHANGED <<argo, records, path, seen, seenSecret, commit, todo, round, failures, cut>>
  PROVE  IInv'
<1>1. TypeOK'
  BY DEF IInv, TypeOK, Goto, argo, records
<1>2. RunInv(p)'
  BY DEF IInv, Goto, RunInv, RunAt, Gone, Evidence, OnRecord, Desired, argo, records
<1>3. \A q \in Procs \ {p} : Same(q)
  BY DEF Goto, Same
<1> QED BY <1>1, <1>2, <1>3, QuietKeeps
-----------------------------------------------------------------------------
(* The environment *)

\* Controllers and committers never make a run's knowledge false: they bring the
\* Secret back only where it is desired, and Applications only where it is.
LEMMA EnvironmentKeeps == IInv /\ Environment => IInv'
<1> SUFFICES ASSUME IInv, Environment PROVE IInv'
  OBVIOUS
<1> USE DEF Environment, ForeignCommit, Refresh, SyncSecret, Generate
<1>1. TypeOK'
  <2>1. (head \in Commits /\ removal \in Commits /\ observed \in Commits)'
    BY BoundsAssumption DEF IInv, TypeOK, Commits
  <2>2. (secret \in BOOLEAN)'
    BY DEF IInv, TypeOK, Desired
  <2>3. (apps \subseteq Apps)'
    BY DEF IInv, TypeOK
  <2> QED BY <2>1, <2>2, <2>3 DEF IInv, TypeOK, records, run
<1>2. WorldInv'
  <2>1. BranchInv' /\ SecretInv'
    BY DEF IInv, TypeOK, WorldInv, BranchInv, SecretInv, Desired, Commits
  <2>2. RecordInv'
    BY <1>1 DEF IInv, TypeOK, WorldInv, RecordInv, Evidence, records, Commits
  <2>3. CutInv' /\ ReceiptInv'
    BY DEF IInv, TypeOK, WorldInv, BranchInv, CutInv, ReceiptInv, Gone, OnRecord,
           Desired, records, Commits
  <2> QED BY <2>1, <2>2, <2>3 DEF WorldInv
<1>3. Evolves
  BY DEF IInv, TypeOK, WorldInv, BranchInv, Evolves, Gone, OnRecord, Desired, records,
         Commits
<1>4. \A q \in Procs : Same(q)
  BY DEF Same, run
<1>5. \A q \in Procs : RunInv(q)'
  BY <1>1, <1>3, <1>4, RunKeeps DEF IInv
<1> QED BY <1>1, <1>2, <1>5 DEF IInv

-----------------------------------------------------------------------------
(* The choice of a path *)

\* A run starts and lists the Applications.
LEMMA StartKeeps ==
  ASSUME IInv, NEW p \in Procs, Start(p)
  PROVE  IInv'
<1> USE DEF Start
<1>1. TypeOK'
  BY DEF IInv, TypeOK, Goto, argo, records, Places
<1>2. RunInv(p)'
  BY DEF IInv, Goto, RunInv, RunAt, records, Proven, Recorded, Watching, Watched
<1>3. (\A q \in Procs \ {p} : Same(q)) /\ UNCHANGED <<argo, records, cut>>
  BY DEF Goto, Same
<1> QED BY <1>1, <1>2, <1>3, QuietKeeps

\* It lists the Secrets: one that is gone is gone for good.
LEMMA ListSecretsKeeps ==
  ASSUME IInv, NEW p \in Procs, ListSecrets(p)
  PROVE  IInv'
<1> USE DEF ListSecrets
<1>1. TypeOK'
  BY DEF IInv, TypeOK, Goto, argo, records, Places
<1>2. RunInv(p)'
  BY DEF IInv, TypeOK, WorldInv, SecretInv, Goto, RunInv, RunAt, Gone, Desired, argo,
         records, Proven, Recorded, Watching, Watched
<1>3. (\A q \in Procs \ {p} : Same(q)) /\ UNCHANGED <<argo, records, cut>>
  BY DEF Goto, Same
<1> QED BY <1>1, <1>2, <1>3, QuietKeeps

\* It follows the pending record.
LEMMA ChoosePendingKeeps ==
  ASSUME IInv, NEW p \in Procs, ChoosePending(p)
  PROVE  IInv'
<1> USE DEF ChoosePending, Take
<1>1. TypeOK'
  BY DEF IInv, TypeOK, Goto, argo, records, Places, Paths
<1>2. RunInv(p)'
  BY BoundsAssumption
  DEF IInv, TypeOK, WorldInv, RecordInv, Goto, RunInv, RunAt, Gone, Evidence, OnRecord,
      Desired, argo, records, Watching, Watched
<1>3. (\A q \in Procs \ {p} : Same(q)) /\ UNCHANGED <<argo, records, cut>>
  BY DEF IInv, TypeOK, Goto, Same
<1> QED BY <1>1, <1>2, <1>3, QuietKeeps

\* It finds no pending record.
LEMMA ChooseFreshKeeps ==
  ASSUME IInv, NEW p \in Procs, ChooseFresh(p)
  PROVE  IInv'
<1> USE DEF ChooseFresh, Take
<1>1. TypeOK'
  BY DEF IInv, TypeOK, Goto, argo, records, Places, Paths
<1>2. RunInv(p)'
  BY BoundsAssumption
  DEF IInv, TypeOK, WorldInv, RecordInv, Goto, RunInv, RunAt, Gone, Evidence, Desired,
      argo, Proven, Recorded, Watching, Watched
<1>3. (\A q \in Procs \ {p} : Same(q)) /\ UNCHANGED <<argo, records, cut>>
  BY DEF IInv, TypeOK, Goto, Same
<1> QED BY <1>1, <1>2, <1>3, QuietKeeps

-----------------------------------------------------------------------------
(* A hand-off from its start *)

\* The registration is read before a removal or a verification.
LEMMA PlanKeeps ==
  ASSUME IInv, NEW p \in Procs, Plan(p)
  PROVE  IInv'
<1>1. RunInv(p)
  BY DEF IInv
<1>2. CASE Exit(p)
  BY <1>2, ExitKeeps DEF Plan, IInv, TypeOK
<1>3. CASE /\ commit' = [commit EXCEPT ![p] = observed]
           /\ Goto(p, "readHead")
           /\ UNCHANGED <<path, seen, seenSecret, todo, round>>
           /\ path[p] # "fresh" => ~Desired(observed)
  <2>1. TypeOK'
    BY <1>3 DEF Plan, IInv, TypeOK, Goto, argo, records, Places
  <2>2. RunInv(p)'
    BY <1>1, <1>3
    DEF Plan, IInv, TypeOK, WorldInv, BranchInv, Goto, RunInv, RunAt, Gone, Evidence,
        Desired, Commits, argo, records, Proven, Recorded, Watching, Watched
  <2>3. \A q \in Procs \ {p} : Same(q)
    BY <1>3 DEF Goto, Same
  <2> QED BY <2>1, <2>2, <2>3, QuietKeeps DEF Plan
<1> QED BY <1>2, <1>3 DEF Plan

\* A removal starts from the head.
LEMMA ReadHeadKeeps ==
  ASSUME IInv, NEW p \in Procs, ReadHead(p)
  PROVE  IInv'
<1> USE DEF ReadHead
<1>1. TypeOK'
  BY DEF IInv, TypeOK, Goto, argo, records, Places
<1>2. RunInv(p)'
  BY DEF IInv, Goto, RunInv, RunAt, Gone, Desired, argo, Proven, Recorded, Watching,
         Watched
<1>3. (\A q \in Procs \ {p} : Same(q)) /\ UNCHANGED <<argo, records, cut>>
  BY DEF Goto, Same
<1> QED BY <1>1, <1>2, <1>3, QuietKeeps

\* The removal reaches the branch, once: it is the evidence of its run.
LEMMA PushKeeps ==
  ASSUME IInv, NEW p \in Procs, Push(p)
  PROVE  IInv'
<1> USE DEF Push
<1>1. TypeOK'
  BY BoundsAssumption DEF IInv, TypeOK, Goto, records, Places, Commits
<1>2. RunInv(p)
  BY DEF IInv
<1>3. Evolves
  BY <1>2
  DEF IInv, TypeOK, WorldInv, BranchInv, Evolves, Gone, OnRecord, Desired, Commits,
      records
<1>4. WorldInv'
  <2>1. BranchInv' /\ SecretInv'
    BY <1>2 DEF IInv, TypeOK, WorldInv, BranchInv, SecretInv, Desired, Commits
  <2>2. RecordInv'
    BY <1>1, <1>2, <1>3
    DEF IInv, TypeOK, WorldInv, RecordInv, Evidence, Desired, Commits, records
  <2>3. CutInv' /\ ReceiptInv'
    BY <1>1, <1>2, <1>3 DEF IInv, WorldInv, CutInv, ReceiptInv, Evolves, records
  <2> QED BY <2>1, <2>2, <2>3 DEF WorldInv
<1>5. RunInv(p)'
  BY <1>1, <1>2, <1>3
  DEF IInv, TypeOK, Goto, RunInv, RunAt, Gone, Evidence, Desired, Commits, records,
      Recorded, Watching, Watched
<1>6. \A q \in Procs \ {p} : Same(q)
  BY DEF Goto, Same
<1> QED BY <1>1, <1>3, <1>4, <1>5, <1>6, StepKeeps

\* The evidence is put on record.
LEMMA RecordPendingKeeps ==
  ASSUME IInv, NEW p \in Procs, RecordPending(p)
  PROVE  IInv'
<1> USE DEF RecordPending
<1>1. TypeOK'
  BY DEF IInv, TypeOK, Goto, argo, Places
<1>2. RunInv(p)
  BY DEF IInv
<1>3. Evolves
  BY <1>2
  DEF IInv, TypeOK, RunInv, RunAt, Evolves, Gone, Evidence, OnRecord, Desired, Commits,
      argo, Proven
<1>4. WorldInv'
  <2>1. BranchInv' /\ SecretInv'
    BY <1>2 DEF IInv, WorldInv, BranchInv, SecretInv, Desired, argo
  <2>2. RecordInv'
    BY <1>1, <1>2, <1>3
    DEF IInv, WorldInv, RecordInv, RunInv, RunAt, Evidence, argo, Proven
  <2>3. CutInv' /\ ReceiptInv'
    BY <1>1, <1>2, <1>3 DEF IInv, WorldInv, CutInv, ReceiptInv, Evolves, argo
  <2> QED BY <2>1, <2>2, <2>3 DEF WorldInv
<1>5. RunInv(p)'
  BY <1>1, <1>2, <1>3
  DEF TypeOK, Goto, RunInv, RunAt, Gone, Evidence, OnRecord, Desired, Commits, argo,
      Proven, Watching, Watched
<1>6. \A q \in Procs \ {p} : Same(q)
  BY DEF Goto, Same
<1> QED BY <1>1, <1>3, <1>4, <1>5, <1>6, StepKeeps

-----------------------------------------------------------------------------
(* The live resources *)

\* The Secret goes when nothing desires it any more.
LEMMA DeleteSecretKeeps ==
  ASSUME IInv, NEW p \in Procs, DeleteSecret(p)
  PROVE  IInv'
<1> USE DEF DeleteSecret
<1>1. TypeOK'
    <2>1. (/\ head \in Commits
           /\ removal \in Commits
           /\ observed \in Commits
           /\ secret \in BOOLEAN
           /\ apps \subseteq Apps)'
      BY DEF IInv, TypeOK
    <2>2. (pending \in Commits /\ covered \subseteq Apps /\ receipt \in Commits)'
      BY DEF IInv, TypeOK, records
    <2>3. (pc \in [Procs -> Places] /\ path \in [Procs -> Paths])'
      BY DEF IInv, TypeOK, Goto, Exit, Places, Paths
    <2>4. (/\ seen \in [Procs -> SUBSET Apps]
           /\ seenSecret \in [Procs -> BOOLEAN]
           /\ todo \in [Procs -> SUBSET Apps])'
      BY DEF IInv, TypeOK, Exit
    <2>5. (commit \in [Procs -> Commits] /\ round \in [Procs -> 0 .. Observations])'
      BY BoundsAssumption DEF IInv, TypeOK, Exit, Commits
    <2>6. (failures \in 0 .. MaxFailures /\ cut \subseteq Apps \cup {"secret"})'
      BY DEF IInv, TypeOK
    <2> QED BY <2>1, <2>2, <2>3, <2>4, <2>5, <2>6 DEF TypeOK
<1>2. RunInv(p)
  BY DEF IInv
<1>3. Evolves
  BY <1>2 DEF IInv, TypeOK, Evolves, Gone, OnRecord, Desired, Commits, records
<1>4. WorldInv'
  <2>1. BranchInv' /\ SecretInv'
    BY <1>2 DEF IInv, WorldInv, BranchInv, SecretInv, RunInv, RunAt, Desired
  <2>2. RecordInv'
    BY <1>1, <1>2, <1>3 DEF IInv, WorldInv, RecordInv, Evidence, records
  <2>3. CutInv' /\ ReceiptInv'
    BY <1>1, <1>2, <1>3, NamesAssumption
    DEF IInv, TypeOK, WorldInv, CutInv, ReceiptInv, RunInv, RunAt, Gone, OnRecord,
        Desired, records, Recorded
  <2> QED BY <2>1, <2>2, <2>3 DEF WorldInv
<1>5. RunInv(p)'
  BY <1>1, <1>2, <1>3
  DEF TypeOK, Goto, Exit, RunInv, RunAt, Gone, Evidence, OnRecord, Desired, records,
      Proven, Recorded, Watching, Watched
<1>6. \A q \in Procs \ {p} : Same(q)
  BY DEF IInv, TypeOK, Goto, Exit, Same
<1> QED BY <1>1, <1>3, <1>4, <1>5, <1>6, StepKeeps

\* The Applications go when nothing creates them any more.
LEMMA DeleteAppKeeps ==
  ASSUME IInv, NEW p \in Procs, DeleteApp(p)
  PROVE  IInv'
<1> USE DEF DeleteApp
<1>1. TypeOK'
  <2>1. failures' \in 0 .. MaxFailures
    BY BoundsAssumption DEF IInv, TypeOK
  <2> QED BY <2>1 DEF IInv, TypeOK, records
<1>2. RunInv(p)
  BY DEF IInv
<1>3. Evolves
  BY <1>2 DEF IInv, TypeOK, Evolves, Gone, OnRecord, Desired, Commits, records
<1>4. WorldInv'
  <2>1. BranchInv' /\ SecretInv'
    BY <1>2 DEF IInv, WorldInv, BranchInv, SecretInv, Desired
  <2>2. RecordInv'
    BY <1>1, <1>2, <1>3 DEF IInv, WorldInv, RecordInv, Evidence, records
  <2>3. CutInv' /\ ReceiptInv'
    BY <1>1, <1>2, <1>3
    DEF IInv, WorldInv, CutInv, ReceiptInv, RunInv, RunAt, Gone, OnRecord, Desired,
        records, Recorded
  <2> QED BY <2>1, <2>2, <2>3 DEF WorldInv
<1>5. RunInv(p)'
  BY <1>1, <1>2, <1>3 DEF RunInv, RunAt, Gone, Evidence, OnRecord, Desired, records
<1>6. \A q \in Procs \ {p} : Same(q)
  BY DEF Same
<1> QED BY <1>1, <1>3, <1>4, <1>5, <1>6, StepKeeps

-----------------------------------------------------------------------------
(* Checks and observations *)

\* A head that has no manifest.
LEMMA CheckDetachedHeadKeeps ==
  ASSUME IInv, NEW p \in Procs, CheckDetachedHead(p)
  PROVE  IInv'
<1> USE DEF CheckDetachedHead, ReadThen
<1>1. RunInv(p)
  BY DEF IInv
<1>2. CASE commit[p] = head /\ ~Desired(head)
  <2>1. RunAt(p, "observeRevision")
    BY <1>1, <1>2, BoundsAssumption DEF RunInv, RunAt, Recorded, Watching, Watched
  <2>2. /\ Goto(p, "observeRevision")
        /\ UNCHANGED <<argo, records, path, seen, seenSecret, commit, todo, round, failures,
                        cut>>
    BY <1>2
  <2> QED BY <2>1, <2>2, AdvanceKeeps DEF Places
<1>3. CASE ~(commit[p] = head /\ ~Desired(head))
  BY <1>3, ExitKeeps DEF IInv, TypeOK
<1> QED BY <1>2, <1>3

\* The removal is synced.
LEMMA WaitKeeps ==
  ASSUME IInv, NEW p \in Procs, Wait(p)
  PROVE  IInv'
<1> USE DEF Wait, ReadThen
<1>1. RunInv(p)
  BY DEF IInv
<1>2. CASE observed = commit[p]
  <2>1. RunAt(p, "deleteSecret")
    BY <1>1, <1>2
    DEF IInv, TypeOK, RunInv, RunAt, Evidence, Desired, Commits, Proven, Recorded,
        Watching, Watched
  <2>2. /\ Goto(p, "deleteSecret")
        /\ UNCHANGED <<argo, records, path, seen, seenSecret, commit, todo, round, failures,
                        cut>>
    BY <1>2
  <2> QED BY <2>1, <2>2, AdvanceKeeps DEF Places
<1>3. CASE ~(observed = commit[p])
  BY <1>3, ExitKeeps DEF IInv, TypeOK
<1> QED BY <1>2, <1>3

\* The removal of the pending record is still synced.
LEMMA CheckRevisionKeeps ==
  ASSUME IInv, NEW p \in Procs, CheckRevision(p)
  PROVE  IInv'
<1> USE DEF CheckRevision, ReadThen
<1>1. RunInv(p)
  BY DEF IInv
<1>2. CASE observed = commit[p]
  <2>1. RunAt(p, "checkHead")
    BY <1>1, <1>2
    DEF IInv, TypeOK, RunInv, RunAt, Evidence, Desired, Commits, Proven, Recorded,
        Watching, Watched
  <2>2. /\ Goto(p, "checkHead")
        /\ UNCHANGED <<argo, records, path, seen, seenSecret, commit, todo, round, failures,
                        cut>>
    BY <1>2
  <2> QED BY <2>1, <2>2, AdvanceKeeps DEF Places
<1>3. CASE ~(observed = commit[p])
  BY <1>3, ExitKeeps DEF IInv, TypeOK
<1> QED BY <1>2, <1>3

\* A Secret that was not listed is gone for good.
LEMMA CheckHeadKeeps ==
  ASSUME IInv, NEW p \in Procs, CheckHead(p)
  PROVE  IInv'
<1> USE DEF CheckHead, ReadThen
<1>1. RunInv(p)
  BY DEF IInv
<1>2. CASE head = commit[p] /\ seenSecret[p]
  <2>1. RunAt(p, "deleteSecret")
    BY <1>1, <1>2 DEF RunInv, RunAt, Proven, Recorded, Watching, Watched
  <2>2. /\ Goto(p, "deleteSecret")
        /\ UNCHANGED <<argo, records, path, seen, seenSecret, commit, todo, round, failures,
                        cut>>
    BY <1>2
  <2> QED BY <2>1, <2>2, AdvanceKeeps DEF Places
<1>3. CASE head = commit[p] /\ ~seenSecret[p]
  <2>1. RunAt(p, "deleteApps")
    BY <1>1, <1>3 DEF RunInv, RunAt, Proven, Recorded, Watching, Watched
  <2>2. /\ Goto(p, "deleteApps")
        /\ UNCHANGED <<argo, records, path, seen, seenSecret, commit, todo, round, failures,
                        cut>>
    BY <1>3
  <2> QED BY <2>1, <2>2, AdvanceKeeps DEF Places
<1>4. CASE ~(head = commit[p])
  BY <1>4, ExitKeeps DEF IInv, TypeOK
<1> QED BY <1>2, <1>3, <1>4

\* The Secret is gone.
LEMMA VerifySecretKeeps ==
  ASSUME IInv, NEW p \in Procs, VerifySecret(p)
  PROVE  IInv'
<1> USE DEF VerifySecret, ReadThen
<1>1. RunInv(p)
  BY DEF IInv
<1>2. CASE ~secret
  <2>1. RunAt(p, "deleteApps")
    BY <1>1, <1>2 DEF RunInv, RunAt, Proven, Recorded, Watching, Watched
  <2>2. /\ Goto(p, "deleteApps")
        /\ UNCHANGED <<argo, records, path, seen, seenSecret, commit, todo, round, failures,
                        cut>>
    BY <1>2
  <2> QED BY <2>1, <2>2, AdvanceKeeps DEF Places
<1>3. CASE ~(~secret)
  BY <1>3, ExitKeeps DEF IInv, TypeOK
<1> QED BY <1>2, <1>3

\* Every listed Application is deleted.
LEMMA AppsDeletedKeeps ==
  ASSUME IInv, NEW p \in Procs, AppsDeleted(p)
  PROVE  IInv'
<1> USE DEF AppsDeleted, ReadThen
<1>1. RunInv(p)
  BY DEF IInv
<1>2. CASE pc[p] = "deleteApps"
  <2>1. RunAt(p, "observeRevision")
    BY <1>1, <1>2, BoundsAssumption
    DEF RunInv, RunAt, Proven, Recorded, Watching, Watched
  <2>2. /\ Goto(p, "observeRevision")
        /\ UNCHANGED <<argo, records, path, seen, seenSecret, commit, todo, round, failures,
                        cut>>
    BY <1>2
  <2> QED BY <2>1, <2>2, AdvanceKeeps DEF Places
<1> QED BY <1>2

\* The synced revision does not desire the Secret.
LEMMA ObserveRevisionKeeps ==
  ASSUME IInv, NEW p \in Procs, ObserveRevision(p)
  PROVE  IInv'
<1> USE DEF ObserveRevision, ReadThen
<1>1. RunInv(p)
  BY DEF IInv
<1>2. CASE (path[p] # "recorded" => observed = commit[p]) /\ ~Desired(observed)
  <2>1. RunAt(p, "observeSecret")
    BY <1>1, <1>2 DEF RunInv, RunAt, Proven, Recorded, Watching, Watched
  <2>2. /\ Goto(p, "observeSecret")
        /\ UNCHANGED <<argo, records, path, seen, seenSecret, commit, todo, round, failures,
                        cut>>
    BY <1>2
  <2> QED BY <2>1, <2>2, AdvanceKeeps DEF Places
<1>3. CASE ~((path[p] # "recorded" => observed = commit[p]) /\ ~Desired(observed))
  BY <1>3, ExitKeeps DEF IInv, TypeOK
<1> QED BY <1>2, <1>3

\* The Secret is gone.
LEMMA ObserveSecretKeeps ==
  ASSUME IInv, NEW p \in Procs, ObserveSecret(p)
  PROVE  IInv'
<1> USE DEF ObserveSecret, ReadThen
<1>1. RunInv(p)
  BY DEF IInv
<1>2. CASE ~secret
  <2>1. RunAt(p, "observeApps")
    BY <1>1, <1>2 DEF RunInv, RunAt, Gone, Proven, Recorded, Watching, Watched
  <2>2. /\ Goto(p, "observeApps")
        /\ UNCHANGED <<argo, records, path, seen, seenSecret, commit, todo, round, failures,
                        cut>>
    BY <1>2
  <2> QED BY <2>1, <2>2, AdvanceKeeps DEF Places
<1>3. CASE ~(~secret)
  BY <1>3, ExitKeeps DEF IInv, TypeOK
<1> QED BY <1>2, <1>3

\* The head has not moved.
LEMMA RecheckKeeps ==
  ASSUME IInv, NEW p \in Procs, Recheck(p)
  PROVE  IInv'
<1> USE DEF Recheck, ReadThen
<1>1. RunInv(p)
  BY DEF IInv
<1>2. CASE head = commit[p]
  <2>1. RunAt(p, "receipt")
    BY <1>1, <1>2 DEF RunInv, RunAt, Proven, Recorded, Watching, Watched
  <2>2. /\ Goto(p, "receipt")
        /\ UNCHANGED <<argo, records, path, seen, seenSecret, commit, todo, round, failures,
                        cut>>
    BY <1>2
  <2> QED BY <2>1, <2>2, AdvanceKeeps DEF Places
<1>3. CASE ~(head = commit[p])
  BY <1>3, ExitKeeps DEF IInv, TypeOK
<1> QED BY <1>2, <1>3

\* One observation, or the last, of a target that nothing manages.
LEMMA ObserveAppsKeeps ==
  ASSUME IInv, NEW p \in Procs, ObserveApps(p)
  PROVE  IInv'
<1> USE DEF ObserveApps
<1>1. RunInv(p)
  BY DEF IInv
<1>2. CASE apps # {}
  BY <1>2, ExitKeeps DEF IInv, TypeOK
<1>3. CASE apps = {}
  <2>1. TypeOK'
    BY <1>1, <1>3, BoundsAssumption
    DEF IInv, TypeOK, RunInv, RunAt, Goto, AfterWatching, argo, records, Places, Watched
  <2>2. RunInv(p)'
    BY <1>1, <1>3, BoundsAssumption
    DEF IInv, TypeOK, RunInv, RunAt, Goto, AfterWatching, Gone, Evidence, Desired, argo,
        records, Proven, Recorded, Watching, Watched
  <2>3. \A q \in Procs \ {p} : Same(q)
    BY <1>3 DEF IInv, TypeOK, Goto, Same
  <2> QED BY <2>1, <2>2, <2>3, QuietKeeps
<1> QED BY <1>2, <1>3

-----------------------------------------------------------------------------
(* The records at the end *)

\* The receipt of a target that nothing manages any more.
LEMMA RecordReceiptKeeps ==
  ASSUME IInv, NEW p \in Procs, RecordReceipt(p)
  PROVE  IInv'
<1> USE DEF RecordReceipt
<1>1. TypeOK'
    <2>1. (/\ head \in Commits
           /\ removal \in Commits
           /\ observed \in Commits
           /\ secret \in BOOLEAN
           /\ apps \subseteq Apps)'
      BY DEF IInv, TypeOK, argo
    <2>2. (pending \in Commits /\ covered \subseteq Apps /\ receipt \in Commits)'
      BY DEF IInv, TypeOK
    <2>3. (pc \in [Procs -> Places] /\ path \in [Procs -> Paths])'
      BY DEF IInv, TypeOK, Goto, Exit, Places, Paths
    <2>4. (/\ seen \in [Procs -> SUBSET Apps]
           /\ seenSecret \in [Procs -> BOOLEAN]
           /\ todo \in [Procs -> SUBSET Apps])'
      BY DEF IInv, TypeOK, Exit
    <2>5. (commit \in [Procs -> Commits] /\ round \in [Procs -> 0 .. Observations])'
      BY BoundsAssumption DEF IInv, TypeOK, Exit, Commits
    <2>6. (failures \in 0 .. MaxFailures /\ cut \subseteq Apps \cup {"secret"})'
      BY DEF IInv, TypeOK
    <2> QED BY <2>1, <2>2, <2>3, <2>4, <2>5, <2>6 DEF TypeOK
<1>2. RunInv(p)
  BY DEF IInv
<1>3. Evolves
  BY <1>2
  DEF IInv, TypeOK, RunInv, RunAt, Evolves, Gone, Evidence, OnRecord, Desired, Commits,
      argo, Proven, Watched
<1>4. WorldInv'
  <2>1. BranchInv' /\ SecretInv'
    BY <1>2 DEF IInv, WorldInv, BranchInv, SecretInv, Desired, argo
  <2>2. RecordInv'
    BY <1>1, <1>2, <1>3
    DEF IInv, WorldInv, RecordInv, RunInv, RunAt, Evidence, argo, Proven, Watched
  <2>3. CutInv' /\ ReceiptInv'
    BY <1>1, <1>2, <1>3
    DEF TypeOK, CutInv, ReceiptInv, RunInv, RunAt, Gone, Evidence, OnRecord, Desired,
        Commits, argo, Proven, Watched
  <2> QED BY <2>1, <2>2, <2>3 DEF WorldInv
<1>5. RunInv(p)'
  BY <1>1, <1>2, <1>3
  DEF TypeOK, Goto, Exit, RunInv, RunAt, Gone, Evidence, Desired, Commits, argo, Proven,
      Recorded, Watching, Watched
<1>6. \A q \in Procs \ {p} : Same(q)
  BY DEF IInv, TypeOK, Goto, Exit, Same
<1> QED BY <1>1, <1>3, <1>4, <1>5, <1>6, StepKeeps

\* What is cleared has a receipt.
LEMMA RemovePendingKeeps ==
  ASSUME IInv, NEW p \in Procs, RemovePending(p)
  PROVE  IInv'
<1> USE DEF RemovePending
<1>1. TypeOK'
  BY BoundsAssumption DEF IInv, TypeOK, Goto, Exit, argo, Places, Paths, Commits
<1>2. RunInv(p)
  BY DEF IInv
<1>3. Evolves
  BY <1>2
  DEF IInv, TypeOK, RunInv, RunAt, Evolves, Gone, OnRecord, Desired, Commits, argo
<1>4. WorldInv'
  <2>1. BranchInv' /\ SecretInv'
    BY <1>2 DEF IInv, WorldInv, BranchInv, SecretInv, Desired, argo
  <2>2. RecordInv'
    BY <1>1, <1>2, <1>3 DEF IInv, WorldInv, RecordInv, Evidence, argo
  <2>3. CutInv' /\ ReceiptInv'
    BY <1>1, <1>2, <1>3
    DEF CutInv, ReceiptInv, RunInv, RunAt, Gone, OnRecord, Desired, argo, Watched
  <2> QED BY <2>1, <2>2, <2>3 DEF WorldInv
<1>5. RunInv(p)'
  BY <1>1, <1>2, <1>3
  DEF TypeOK, Goto, Exit, RunInv, RunAt, Proven, Recorded, Watching, Watched
<1>6. \A q \in Procs \ {p} : Same(q)
  BY DEF Goto, Exit, Same
<1> QED BY <1>1, <1>3, <1>4, <1>5, <1>6, StepKeeps

-----------------------------------------------------------------------------
\* The invariant holds for a target that Argo CD manages.
LEMMA InitIInv == Init => IInv
  BY BoundsAssumption
  DEF Init, IInv, TypeOK, WorldInv, BranchInv, SecretInv, RecordInv, CutInv, ReceiptInv,
      RunInv, RunAt, Commits, Paths, Places, Proven, Recorded, Watching, Watched

\* Every step keeps it.
LEMMA NextIInv == IInv /\ [Next]_vars => IInv'
<1> SUFFICES ASSUME IInv, [Next]_vars PROVE IInv'
  OBVIOUS
<1>1. CASE Environment
  BY <1>1, EnvironmentKeeps
<1>2. ASSUME NEW p \in Procs, Step(p) PROVE IInv'
  <2>1. CASE Start(p)
    BY <2>1, StartKeeps
  <2>2. CASE ListSecrets(p)
    BY <2>2, ListSecretsKeeps
  <2>3. CASE ChoosePending(p)
    BY <2>3, ChoosePendingKeeps
  <2>4. CASE ChooseFresh(p)
    BY <2>4, ChooseFreshKeeps
  <2>5. CASE Plan(p)
    BY <2>5, PlanKeeps
  <2>6. CASE ReadHead(p)
    BY <2>6, ReadHeadKeeps
  <2>7. CASE CheckDetachedHead(p)
    BY <2>7, CheckDetachedHeadKeeps
  <2>8. CASE Push(p)
    BY <2>8, PushKeeps
  <2>9. CASE RecordPending(p)
    BY <2>9, RecordPendingKeeps
  <2>10. CASE Wait(p)
    BY <2>10, WaitKeeps
  <2>11. CASE CheckRevision(p)
    BY <2>11, CheckRevisionKeeps
  <2>12. CASE CheckHead(p)
    BY <2>12, CheckHeadKeeps
  <2>13. CASE DeleteSecret(p)
    BY <2>13, DeleteSecretKeeps
  <2>14. CASE VerifySecret(p)
    BY <2>14, VerifySecretKeeps
  <2>15. CASE DeleteApp(p)
    BY <2>15, DeleteAppKeeps
  <2>16. CASE AppsDeleted(p)
    BY <2>16, AppsDeletedKeeps
  <2>17. CASE ObserveRevision(p)
    BY <2>17, ObserveRevisionKeeps
  <2>18. CASE ObserveSecret(p)
    BY <2>18, ObserveSecretKeeps
  <2>19. CASE ObserveApps(p)
    BY <2>19, ObserveAppsKeeps
  <2>20. CASE Recheck(p)
    BY <2>20, RecheckKeeps
  <2>21. CASE RecordReceipt(p)
    BY <2>21, RecordReceiptKeeps
  <2>22. CASE RemovePending(p)
    BY <2>22, RemovePendingKeeps
  <2>23. CASE PendingUnusable(p)
    BY <2>23, ExitKeeps DEF PendingUnusable, IInv, TypeOK
  <2>24. CASE TargetUnclear(p)
    BY <2>24, ExitKeeps DEF TargetUnclear, IInv, TypeOK
  <2>25. CASE PushRefused(p)
    BY <2>25, ExitKeeps DEF PushRefused, IInv, TypeOK
  <2> QED
    BY <1>2, <2>1, <2>2, <2>3, <2>4, <2>5, <2>6, <2>7, <2>8, <2>9, <2>10, <2>11, <2>12,
       <2>13, <2>14, <2>15, <2>16, <2>17, <2>18, <2>19, <2>20, <2>21, <2>22, <2>23,
       <2>24, <2>25
    DEF Step
<1>3. ASSUME NEW p \in Procs, Abort(p) PROVE IInv'
  <2>1. failures' \in 0 .. MaxFailures
    BY <1>3, BoundsAssumption DEF Abort, IInv, TypeOK
  <2> QED BY <1>3, <2>1, ExitKeeps DEF Abort
<1>4. CASE UNCHANGED vars
  <2>1. TypeOK'
    BY <1>4 DEF IInv, TypeOK, vars, argo, records, run
  <2>2. WorldInv'
    BY <1>4
    DEF IInv, WorldInv, BranchInv, SecretInv, RecordInv, CutInv, ReceiptInv, Gone,
        Evidence, OnRecord, Desired, vars, argo, records
  <2>3. \A q \in Procs : RunInv(q)'
    BY <1>4
    DEF IInv, RunInv, RunAt, Gone, Evidence, OnRecord, Desired, vars, argo, records, run
  <2> QED BY <2>1, <2>2, <2>3 DEF IInv
<1> QED BY <1>1, <1>2, <1>3, <1>4 DEF Next

THEOREM Invariance == Spec => []IInv
  BY InitIInv, NextIInv, PTL DEF Spec

-----------------------------------------------------------------------------
(* What the runs check, for every value of the constants. *)

\* The state of the records, of Argo CD and of the runs is type correct.
THEOREM TypeCorrect == Spec => []TypeOK
<1>1. IInv => TypeOK
  BY DEF IInv
<1> QED BY <1>1, Invariance, PTL

\* A receipt is written only for a target that nothing of Argo CD manages, and
\* stays true (handoff.go:849-893).
THEOREM ReceiptHolds == Spec => []HandoffHolds
<1>1. IInv => HandoffHolds
  BY DEF IInv, WorldInv, ReceiptInv, HandoffHolds, Gone
<1> QED BY <1>1, Invariance, PTL

\* Live resources are deleted only on record, and stay on it (handoff.go:644).
THEOREM DeletionOnRecord == Spec => []DeletionRecorded
<1>1. IInv => DeletionRecorded
  BY DEF IInv, WorldInv, CutInv, OnRecord, DeletionRecorded
<1> QED BY <1>1, Invariance, PTL

\* Nothing that a run has deleted is created again (handoff.go:688).
THEOREM NothingReturns == Spec => []NoRecreation
<1>1. IInv => NoRecreation
  BY DEF IInv, WorldInv, CutInv, Gone, NoRecreation
<1> QED BY <1>1, Invariance, PTL

\* Records name commits of the branch without the manifest
\* (pending_recovery.go:128-320).
THEOREM RecordsProve == Spec => []EvidenceSound
<1>1. IInv => EvidenceSound
  BY DEF IInv, WorldInv, RecordInv, TypeOK, Commits, Evidence, Desired, EvidenceSound
<1> QED BY <1>1, Invariance, PTL
=============================================================================
