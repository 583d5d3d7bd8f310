---------------------------- MODULE ArgoHandoff -----------------------------
(***************************************************************************)
(* `eva preflight argocd`: the hand-off of one target cluster from Argo CD *)
(* to the EVA Tool (internal/argocd).                                      *)
(*                                                                         *)
(* The Git branch of the registration repository holds a manifest of the   *)
(* cluster Secret; the registration Application of Argo CD keeps the       *)
(* Secret as the revision it has synced says; ApplicationSets generate the *)
(* Applications from the Secret.  A hand-off removes the manifest with a   *)
(* commit, waits until Argo CD has synced it, deletes the Secret and the   *)
(* Applications, watches that they stay away, and records a receipt.  What *)
(* it needs to go on after an interruption is in a pending record.         *)
(*                                                                         *)
(* Data abstracted: a commit is its number on the branch; a pending record *)
(* or a receipt is the commit it names (0: there is none); everything else *)
(* those records name is the one target.  Identity checks on names,        *)
(* servers and owners, which nothing here changes, are left out.           *)
(***************************************************************************)
EXTENDS Integers

CONSTANTS
  Procs,          \* runs of the command
  Apps,           \* the Applications the target may have
  Detected,       \* those whose tracking was detected on it
  Observations,   \* observations of a removal (13 in the code)
  MaxHead,        \* bound: commits on the branch
  MaxFailures     \* bound: killed runs and failing commands

ASSUME BoundsAssumption ==
  /\ Detected # {} /\ Detected \subseteq Apps
  /\ Observations \in Nat \ {0} /\ MaxHead \in Nat \ {0} /\ MaxFailures \in Nat
ASSUME NamesAssumption == "secret" \notin Apps

VARIABLES
  head,        \* the branch: its last commit
  removal,     \* the commit that removed the manifest, 0 if none did
  observed,    \* the revision the registration Application has synced
  secret,      \* the cluster Secret is in the Argo CD cluster
  apps,        \* the Applications that are
  pending,     \* the pending record of the target
  covered,     \* the Applications it lists
  receipt,     \* its receipt
  pc,          \* pc[p]: what run p does next
  path,        \* path[p]: which way through the command it has taken
  seen,        \* seen[p]: the Applications it listed at its start
  seenSecret,  \* seenSecret[p]: whether its list of Secrets had the target's
  commit,      \* commit[p]: the commit it works with
  todo,        \* todo[p]: the Applications it has yet to delete
  round,       \* round[p]: observations it has made
  failures,    \* failures so far
  cut          \* history: "secret" and the Applications that runs have deleted

argo == <<head, removal, observed, secret, apps>>
records == <<pending, covered, receipt>>
run == <<pc, path, seen, seenSecret, commit, todo, round>>
vars == <<argo, records, run, failures, cut>>

-----------------------------------------------------------------------------
Commits == 0 .. MaxHead
Paths == {"none", "fresh", "resume", "cleanup", "recorded", "detached"}
Places == {"idle", "secrets", "choose", "plan", "push", "record", "wait",
           "checkRevision", "checkHead", "deleteSecret", "verifySecret", "deleteApps",
           "observeRevision", "observeSecret", "observeApps", "recheck", "receipt",
           "clear", "readHead"}

TypeOK ==
  /\ head \in Commits /\ removal \in Commits /\ observed \in Commits
  /\ secret \in BOOLEAN
  /\ apps \subseteq Apps
  /\ pending \in Commits /\ covered \subseteq Apps /\ receipt \in Commits
  /\ pc \in [Procs -> Places]
  /\ path \in [Procs -> Paths]
  /\ seen \in [Procs -> SUBSET Apps]
  /\ seenSecret \in [Procs -> BOOLEAN]
  /\ commit \in [Procs -> Commits]
  /\ todo \in [Procs -> SUBSET Apps]
  /\ round \in [Procs -> 0 .. Observations]
  /\ failures \in 0 .. MaxFailures
  /\ cut \subseteq Apps \cup {"secret"}

\* A revision before the removal desires the Secret.
Desired(revision) == removal = 0 \/ revision < removal

\* A target that Argo CD manages.
Init ==
  /\ head = 1 /\ removal = 0 /\ observed = 1
  /\ secret = TRUE
  /\ apps \in {live \in SUBSET Apps : Detected \subseteq live}
  /\ pending = 0 /\ covered = {} /\ receipt = 0
  /\ pc = [p \in Procs |-> "idle"]
  /\ path = [p \in Procs |-> "none"]
  /\ seen = [p \in Procs |-> {}]
  /\ seenSecret = [p \in Procs |-> FALSE]
  /\ commit = [p \in Procs |-> 0]
  /\ todo = [p \in Procs |-> {}]
  /\ round = [p \in Procs |-> 0]
  /\ failures = 0
  /\ cut = {}

-----------------------------------------------------------------------------
(* Argo CD and the registration repository *)

\* Another site is registered or removed on the same branch.
ForeignCommit ==
  /\ head < MaxHead
  /\ head' = head + 1
  /\ UNCHANGED <<removal, observed, secret, apps, records, run, failures, cut>>

Refresh ==
  /\ observed # head
  /\ observed' = head
  /\ UNCHANGED <<head, removal, secret, apps, records, run, failures, cut>>

\* The Secret is created as the synced revision desires it, or pruned.
SyncSecret ==
  /\ secret # Desired(observed)
  /\ secret' = Desired(observed)
  /\ UNCHANGED <<head, removal, observed, apps, records, run, failures, cut>>

\* An ApplicationSet generates Applications for a registered cluster, and may
\* delete those of a cluster that is gone.
Generate(a) ==
  /\ secret # (a \in apps)
  /\ apps' = IF secret THEN apps \cup {a} ELSE apps \ {a}
  /\ UNCHANGED <<head, removal, observed, secret, records, run, failures, cut>>

Environment == ForeignCommit \/ Refresh \/ SyncSecret \/ \E a \in Apps : Generate(a)

-----------------------------------------------------------------------------
Goto(p, place) == pc' = [pc EXCEPT ![p] = place]

\* The run returns, with an error or without.
Exit(p) ==
  /\ Goto(p, "idle")
  /\ path' = [path EXCEPT ![p] = "none"]
  /\ seen' = [seen EXCEPT ![p] = {}]
  /\ seenSecret' = [seenSecret EXCEPT ![p] = FALSE]
  /\ commit' = [commit EXCEPT ![p] = 0]
  /\ todo' = [todo EXCEPT ![p] = {}]
  /\ round' = [round EXCEPT ![p] = 0]

\* The run reads, and goes on or returns.
ReadThen(p, test, place) ==
  /\ IF test
       THEN Goto(p, place) /\ UNCHANGED <<path, seen, seenSecret, commit, todo, round>>
       ELSE Exit(p)
  /\ UNCHANGED <<argo, records, failures, cut>>

\* Connect and list the Applications.
Start(p) ==
  /\ pc[p] = "idle"
  /\ seen' = [seen EXCEPT ![p] = apps]
  /\ Goto(p, "secrets")
  /\ UNCHANGED <<argo, records, path, seenSecret, commit, todo, round, failures, cut>>

ListSecrets(p) ==
  /\ pc[p] = "secrets"
  /\ seenSecret' = [seenSecret EXCEPT ![p] = secret]
  /\ Goto(p, "choose")
  /\ UNCHANGED <<argo, records, path, seen, commit, todo, round, failures, cut>>

Take(p, way, evidence, place) ==
  /\ path' = [path EXCEPT ![p] = way]
  /\ commit' = [commit EXCEPT ![p] = evidence]
  /\ Goto(p, place)
  /\ todo' = [todo EXCEPT ![p] = seen[p]]
  /\ UNCHANGED <<argo, records, seen, seenSecret, round, failures, cut>>

\* Every detected Application is absent.
Absent(p) == seen[p] \cap Detected = {}

\* Pending state: of a hand-off that is complete, or of one to resume.  An
\* Application it does not list stops both.
ChoosePending(p) ==
  /\ pc[p] = "choose" /\ pending # 0
  /\ seen[p] \subseteq covered
  /\ \/ receipt = pending /\ Take(p, "cleanup", pending, "observeRevision")
     \/ receipt = 0 /\ Take(p, "resume", pending, "checkRevision")

PendingUnusable(p) ==
  /\ pc[p] = "choose" /\ pending # 0
  /\ ~(seen[p] \subseteq covered) \/ receipt \notin {0, pending}
  /\ Exit(p)
  /\ UNCHANGED <<argo, records, failures, cut>>

\* No pending state: a receipt to verify, a target that is already
\* disconnected, or a hand-off to start.
ChooseFresh(p) ==
  /\ pc[p] = "choose" /\ pending = 0
  /\ \/ receipt # 0 /\ Absent(p) /\ ~seenSecret[p] /\ Take(p, "recorded", receipt, "observeRevision")
     \/ receipt = 0 /\ seen[p] = {} /\ ~seenSecret[p] /\ Take(p, "detached", 0, "plan")
     \/ Detected \subseteq seen[p] /\ seenSecret[p] /\ Take(p, "fresh", 0, "plan")

\* Applications without their registration, or some of them, or the
\* registration without them.
TargetUnclear(p) ==
  /\ pc[p] = "choose" /\ pending = 0
  /\ ~(Detected \subseteq seen[p] /\ seenSecret[p])
  /\ ~(~seenSecret[p] /\ (IF receipt = 0 THEN seen[p] = {} ELSE Absent(p)))
  /\ Exit(p)
  /\ UNCHANGED <<argo, records, failures, cut>>

-----------------------------------------------------------------------------
(* A hand-off from its start *)

\* The registration Application must still desire the Secret, or, when the
\* target is already disconnected, no longer do so.
Plan(p) ==
  /\ pc[p] = "plan"
  /\ IF IF path[p] = "fresh" THEN secret /\ Desired(observed) ELSE ~Desired(observed)
       THEN /\ commit' = [commit EXCEPT ![p] = observed]
            /\ Goto(p, "readHead")
            /\ UNCHANGED <<path, seen, seenSecret, todo, round>>
       ELSE Exit(p)
  /\ UNCHANGED <<argo, records, failures, cut>>

\* A removal starts from the head of the branch.
ReadHead(p) ==
  /\ pc[p] = "readHead" /\ path[p] = "fresh"
  /\ commit' = [commit EXCEPT ![p] = head]
  /\ Goto(p, "push")
  /\ UNCHANGED <<argo, records, path, seen, seenSecret, todo, round, failures, cut>>

\* A disconnected target is verified against a head that Argo CD has synced and
\* that has no manifest.
CheckDetachedHead(p) ==
  /\ pc[p] = "readHead" /\ path[p] = "detached"
  /\ ReadThen(p, commit[p] = head /\ ~Desired(head), "observeRevision")

\* The operator declines, or the branch has moved.
PushRefused(p) ==
  /\ pc[p] = "push"
  /\ Exit(p)
  /\ UNCHANGED <<argo, records, failures, cut>>

\* Faulty variant: the commit the plan was made on is the one recorded.
PushRecordingPlan(p) ==
  /\ pc[p] = "push"
  /\ head = commit[p] /\ Desired(head) /\ head < MaxHead
  /\ head' = head + 1
  /\ removal' = head + 1
  /\ Goto(p, "record")
  /\ UNCHANGED <<observed, secret, apps, records, path, seen, seenSecret, commit, todo, round,
                 failures, cut>>

\* git refuses a push to a branch that is not at the expected head.
Push(p) ==
  /\ pc[p] = "push"
  /\ head = commit[p] /\ Desired(head) /\ head < MaxHead
  /\ head' = head + 1
  /\ removal' = head + 1
  /\ commit' = [commit EXCEPT ![p] = head + 1]
  /\ Goto(p, "record")
  /\ UNCHANGED <<observed, secret, apps, records, path, seen, seenSecret, todo, round,
                 failures, cut>>

\* Faulty variant: the pending state is not written.
RecordPendingForgotten(p) ==
  /\ pc[p] = "record"
  /\ Goto(p, "wait")
  /\ UNCHANGED <<argo, records, path, seen, seenSecret, commit, todo, round, failures, cut>>

RecordPending(p) ==
  /\ pc[p] = "record"
  /\ pending' = commit[p]
  /\ covered' = todo[p]
  /\ Goto(p, "wait")
  /\ UNCHANGED <<argo, receipt, path, seen, seenSecret, commit, todo, round, failures, cut>>

\* Faulty variant: nobody waits for Argo CD.
WaitSkipped(p) ==
  /\ pc[p] = "wait"
  /\ Goto(p, "deleteSecret")
  /\ UNCHANGED <<argo, records, path, seen, seenSecret, commit, todo, round, failures, cut>>

\* Argo CD has synced the removal, or did not within three minutes.
Wait(p) ==
  /\ pc[p] = "wait"
  /\ ReadThen(p, observed = commit[p], "deleteSecret")
-----------------------------------------------------------------------------
(* The live resources *)

\* kubectl delete fails when the Secret is gone.
DeleteSecret(p) ==
  /\ pc[p] = "deleteSecret"
  /\ secret' = FALSE
  /\ IF secret
       THEN /\ cut' = cut \cup {"secret"}
            /\ Goto(p, "verifySecret")
            /\ UNCHANGED <<path, seen, seenSecret, commit, todo, round>>
       ELSE Exit(p) /\ UNCHANGED cut
  /\ UNCHANGED <<head, removal, observed, apps, records, failures>>

VerifySecret(p) ==
  /\ pc[p] = "verifySecret"
  /\ ReadThen(p, ~secret, "deleteApps")

\* One Application without cascading, if it is there; a look that fails is taken
\* for an Application that is gone.
DeleteApp(p) ==
  /\ pc[p] = "deleteApps"
  /\ \E a \in todo[p] :
       /\ todo' = [todo EXCEPT ![p] = @ \ {a}]
       /\ \/ apps' = apps \ {a} /\ cut' = cut \cup ({a} \cap apps) /\ UNCHANGED failures
          \/ /\ a \in apps /\ failures < MaxFailures
             /\ failures' = failures + 1
             /\ UNCHANGED <<apps, cut>>
  /\ UNCHANGED <<head, removal, observed, secret, records, pc, path, seen, seenSecret, commit,
                 round>>

AppsDeleted(p) ==
  /\ pc[p] = "deleteApps" /\ todo[p] = {}
  /\ Goto(p, "observeRevision")
  /\ UNCHANGED <<argo, records, path, seen, seenSecret, commit, todo, round, failures, cut>>

-----------------------------------------------------------------------------
(* Resuming from the pending state *)

CheckRevision(p) ==
  /\ pc[p] = "checkRevision"
  /\ ReadThen(p, observed = commit[p], "checkHead")

\* Faulty variant: a resumed hand-off needs the Secret to be still there.
CheckHeadAndSecret(p) ==
  /\ pc[p] = "checkHead"
  /\ ReadThen(p, head = commit[p] /\ seenSecret[p], "deleteSecret")

\* The Secret is deleted if the run listed it.
CheckHead(p) ==
  /\ pc[p] = "checkHead"
  /\ ReadThen(p, head = commit[p], IF seenSecret[p] THEN "deleteSecret" ELSE "deleteApps")

-----------------------------------------------------------------------------
(* Watching the removal *)

\* The synced revision is the commit of the hand-off (any, to verify a recorded
\* one), and does not desire the Secret.
ObserveRevision(p) ==
  /\ pc[p] = "observeRevision"
  /\ ReadThen(p, /\ path[p] # "recorded" => observed = commit[p]
                 /\ ~Desired(observed),
              "observeSecret")

ObserveSecret(p) ==
  /\ pc[p] = "observeSecret"
  /\ ReadThen(p, ~secret, "observeApps")

AfterWatching(p) ==
  CASE path[p] = "cleanup" -> "clear"
    [] path[p] = "detached" -> "recheck"
    [] OTHER -> "receipt"

\* Faulty variant: the list of Applications is not looked at.
ObserveAppsBlindly(p) ==
  /\ pc[p] = "observeApps"
  /\ round' = [round EXCEPT ![p] = @ + 1]
  /\ Goto(p, IF round[p] + 1 = Observations THEN AfterWatching(p) ELSE "observeRevision")
  /\ UNCHANGED <<argo, records, path, seen, seenSecret, commit, todo, failures, cut>>

\* Faulty variant: one observation too many.
ObserveAppsLonger(p) ==
  /\ pc[p] = "observeApps"
  /\ IF apps = {}
       THEN /\ round' = [round EXCEPT ![p] = @ + 1]
            /\ Goto(p, IF round[p] = Observations THEN AfterWatching(p) ELSE "observeRevision")
            /\ UNCHANGED <<path, seen, seenSecret, commit, todo>>
       ELSE Exit(p)
  /\ UNCHANGED <<argo, records, failures, cut>>

ObserveApps(p) ==
  /\ pc[p] = "observeApps"
  /\ IF apps = {}
       THEN /\ round' = [round EXCEPT ![p] = @ + 1]
            /\ Goto(p, IF round[p] + 1 = Observations THEN AfterWatching(p) ELSE "observeRevision")
            /\ UNCHANGED <<path, seen, seenSecret, commit, todo>>
       ELSE Exit(p)
  /\ UNCHANGED <<argo, records, failures, cut>>

Recheck(p) ==
  /\ pc[p] = "recheck"
  /\ ReadThen(p, head = commit[p], "receipt")

-----------------------------------------------------------------------------
RecordReceipt(p) ==
  /\ pc[p] = "receipt"
  /\ receipt' = commit[p]
  /\ \/ /\ path[p] \in {"fresh", "resume"}
        /\ Goto(p, "clear")
        /\ UNCHANGED <<path, seen, seenSecret, commit, todo, round>>
     \/ path[p] \in {"recorded", "detached"} /\ Exit(p)
  /\ UNCHANGED <<argo, pending, covered, failures, cut>>

RemovePending(p) ==
  /\ pc[p] = "clear"
  /\ pending' = 0
  /\ covered' = {}
  /\ Exit(p)
  /\ UNCHANGED <<argo, receipt, failures, cut>>

\* The run is killed, loses its session, or a command fails.
Abort(p) ==
  /\ pc[p] # "idle"
  /\ failures < MaxFailures
  /\ failures' = failures + 1
  /\ Exit(p)
  /\ UNCHANGED <<argo, records, cut>>

-----------------------------------------------------------------------------
Step(p) ==
  \/ Start(p) \/ ListSecrets(p) \/ ChoosePending(p) \/ PendingUnusable(p)
  \/ ChooseFresh(p) \/ TargetUnclear(p)
  \/ Plan(p) \/ ReadHead(p) \/ CheckDetachedHead(p) \/ PushRefused(p) \/ Push(p)
  \/ RecordPending(p) \/ Wait(p)
  \/ CheckRevision(p) \/ CheckHead(p)
  \/ DeleteSecret(p) \/ VerifySecret(p) \/ DeleteApp(p) \/ AppsDeleted(p)
  \/ ObserveRevision(p) \/ ObserveSecret(p) \/ ObserveApps(p) \/ Recheck(p)
  \/ RecordReceipt(p) \/ RemovePending(p)

Next == Environment \/ \E p \in Procs : Step(p) \/ Abort(p)

Spec == Init /\ [][Next]_vars

\* The operator runs the command again until it succeeds, a run proceeds, and
\* Argo CD refreshes from the branch.
FairSpec == Spec /\ WF_vars(Refresh) /\ \A p \in Procs : WF_vars(Step(p))

-----------------------------------------------------------------------------
(* Properties *)

\* A receipt lets `eva install` manage the target (target.go:66-75): nothing of
\* Argo CD manages it then, and nothing will, whatever the order in which the
\* controllers and several runs of the command worked (git_handoff.go:420-486).
HandoffHolds ==
  receipt # 0 => ~secret /\ apps = {} /\ ~Desired(observed)

\* Once a run has deleted a live resource, a record of the hand-off survives
\* every crash (handoff.go:644-656: recorded "before live deletion").
DeletionRecorded ==
  cut # {} => pending # 0 \/ receipt # 0

\* What a run has deleted is not created again: Argo CD no longer desires the
\* Secret when it goes, and the Secret is gone when the Applications go
\* (handoff.go:688: "to stop Application recreation").
NoRecreation ==
  /\ cut \cap apps = {}
  /\ "secret" \in cut => ~secret

\* The commit that a pending record or a receipt names is a revision of the
\* branch without the manifest: resuming from it, or relying on it, is sound.
EvidenceSound ==
  \A evidence \in {pending, receipt} \ {0} : evidence <= head /\ ~Desired(evidence)

\* A pending hand-off is completed and cleared by running the command again,
\* unless another commit reaches the branch first, or an Application has
\* appeared that the record does not list.
CompletedUnlessMoved ==
  pending # 0 ~>
    ((receipt # 0 /\ pending = 0) \/ head # pending \/ ~(apps \subseteq covered))

\* "pending handoff state remains for recovery" (handoff.go:666-668): running
\* the command again completes it.
PendingIsRecovered == pending # 0 ~> receipt # 0
=============================================================================
