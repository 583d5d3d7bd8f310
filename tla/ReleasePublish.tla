--------------------------- MODULE ReleasePublish ---------------------------
(***************************************************************************)
(* Delivery of a prepared release to one target host                       *)
(* (scripts/remote/publish_release_to_target.sh, called once per target by *)
(* internal/remote/publish.go).                                            *)
(*                                                                         *)
(* A publisher makes a staging directory on the target, fills it with      *)
(* three transfers, and starts a script there that verifies the directory  *)
(* and renames it to its final place.  The script is a process of the      *)
(* target: it can outlive the connection that started it.                  *)
(*                                                                         *)
(* Data abstracted: every release here carries one version, so all share   *)
(* one final directory, and differs in its checksums, which name the       *)
(* staging directory.  A bundle is a release with one build of its runtime *)
(* archive and payload for the registry.                                   *)
(***************************************************************************)
EXTENDS FiniteSets, Naturals

CONSTANTS
  Publishers,    \* runs of the publishing script
  Releases,      \* contents published under the version
  Builds,        \* builds of the runtime archive and payload
  None,          \* nothing: no part, no bundle
  Partial,       \* a part whose transfer has not finished
  Absent,        \* a directory that does not exist
  Orphans,       \* TRUE if a script survives its lost connection
  Concurrency    \* how many publishers may work at a time

ASSUME ConstantsAssumption ==
  /\ {None, Partial} \cap (Releases \cup Builds) = {}
  /\ None # Partial /\ None # Absent
  /\ Orphans \in BOOLEAN
  /\ Concurrency \in Nat
  /\ IsFiniteSet(Publishers)

VARIABLES
  staging,     \* staging[r]: the directory .incoming-<version>-<checksum> of r
  final,       \* the directory <target_root>/<version>
  pc,          \* pc[p]: what publisher p does next
  bundle,      \* bundle[p]: what it publishes
  script,      \* script[p]: what the script it started does next
  digests,     \* digests[p]: the contents the script has read
  littered     \* history: the releases whose staging a lost run left behind

vars == <<staging, final, pc, bundle, script, digests, littered>>

-----------------------------------------------------------------------------
Bundles == [release : Releases, build : Builds]
Contents == [release : Releases, runtime : Builds, payload : Bundles]
Delivery(b) == [release |-> b.release, runtime |-> b.build, payload |-> b]
Holds(directory) == [release |-> directory.release, runtime |-> directory.runtime,
                     payload |-> directory.payload]

Part(values) == values \cup {None, Partial}
\* owned: by root; inside: another directory was moved into this one.
Directories ==
  [release : Part(Releases), runtime : Part(Builds), payload : Part(Bundles),
   marker : Contents \cup {None}, owned : BOOLEAN, inside : BOOLEAN]
ASSUME AbsentAssumption == Absent \notin Directories

EmptyDirectory ==
  [release |-> None, runtime |-> None, payload |-> None, marker |-> None,
   owned |-> FALSE, inside |-> FALSE]

Sending == {"sendRelease", "sendingRelease", "sendRuntime", "sendingRuntime",
            "sendPayload", "sendingPayload"}
Working == {"prepare", "wait", "cleanup"} \cup Sending
ScriptSteps == {"own", "verify", "mark", "look", "move"}
ScriptEnds == {"published", "failed"}

TypeOK ==
  /\ staging \in [Releases -> Directories \cup {Absent}]
  /\ final \in Directories \cup {Absent}
  /\ pc \in [Publishers -> Working \cup {"idle", "succeeded"}]
  /\ bundle \in [Publishers -> Bundles \cup {None}]
  /\ script \in [Publishers -> ScriptSteps \cup ScriptEnds \cup {"none"}]
  /\ digests \in [Publishers -> Contents \cup {None}]
  /\ littered \subseteq Releases

Init ==
  /\ staging = [r \in Releases |-> Absent]
  /\ final = Absent
  /\ pc = [p \in Publishers |-> "idle"]
  /\ bundle = [p \in Publishers |-> None]
  /\ script = [p \in Publishers |-> "none"]
  /\ digests = [p \in Publishers |-> None]
  /\ littered = {}

-----------------------------------------------------------------------------
Release(p) == bundle[p].release
Tree(p) == staging[Release(p)]
GotoPublisher(p, place) == pc' = [pc EXCEPT ![p] = place]
GotoScript(p, place) == script' = [script EXCEPT ![p] = place]
SetTree(p, directory) == staging' = [staging EXCEPT ![Release(p)] = directory]
Active == {p \in Publishers : pc[p] \in Working}

\* A publisher with a script still running on the target is not counted again:
\* a retry of the operator is another publisher.
Start(p) ==
  /\ pc[p] \in {"idle", "succeeded"}
  /\ script[p] = "none"
  /\ Cardinality(Active) < Concurrency
  /\ \E b \in Bundles : bundle' = [bundle EXCEPT ![p] = b]
  /\ GotoPublisher(p, "prepare")
  /\ UNCHANGED <<staging, final, script, digests, littered>>

\* REMOTE_PREPARE: whatever is in the way is removed.
Prepare(p) ==
  /\ pc[p] = "prepare"
  /\ SetTree(p, EmptyDirectory)
  /\ littered' = littered \ {Release(p)}
  /\ GotoPublisher(p, "sendRelease")
  /\ UNCHANGED <<final, bundle, script, digests>>

\* rsync writes only into a directory of the SSH user.
Writable(p) == Tree(p) # Absent /\ ~Tree(p).owned

\* --delete clears the directory of what other parts it holds.
BeginRelease(p) ==
  /\ pc[p] = "sendRelease" /\ Writable(p)
  /\ SetTree(p, [EmptyDirectory EXCEPT !.release = Partial])
  /\ GotoPublisher(p, "sendingRelease")
  /\ UNCHANGED <<final, bundle, script, digests, littered>>

EndRelease(p) ==
  /\ pc[p] = "sendingRelease" /\ Writable(p)
  /\ SetTree(p, [EmptyDirectory EXCEPT !.release = Release(p)])
  /\ GotoPublisher(p, "sendRuntime")
  /\ UNCHANGED <<final, bundle, script, digests, littered>>

BeginRuntime(p) ==
  /\ pc[p] = "sendRuntime" /\ Writable(p)
  /\ SetTree(p, [Tree(p) EXCEPT !.runtime = Partial])
  /\ GotoPublisher(p, "sendingRuntime")
  /\ UNCHANGED <<final, bundle, script, digests, littered>>

\* Faulty variant: the wrong directory is sent.
EndRuntimeSwapped(p) ==
  /\ pc[p] = "sendingRuntime" /\ Writable(p)
  /\ SetTree(p, [Tree(p) EXCEPT !.runtime = Release(p)])
  /\ GotoPublisher(p, "sendPayload")
  /\ UNCHANGED <<final, bundle, script, digests, littered>>

EndRuntime(p) ==
  /\ pc[p] = "sendingRuntime" /\ Writable(p)
  /\ SetTree(p, [Tree(p) EXCEPT !.runtime = bundle[p].build])
  /\ GotoPublisher(p, "sendPayload")
  /\ UNCHANGED <<final, bundle, script, digests, littered>>

BeginPayload(p) ==
  /\ pc[p] = "sendPayload" /\ Writable(p)
  /\ SetTree(p, [Tree(p) EXCEPT !.payload = Partial])
  /\ GotoPublisher(p, "sendingPayload")
  /\ UNCHANGED <<final, bundle, script, digests, littered>>

\* The last transfer ends and the script is started on the target.
EndPayload(p) ==
  /\ pc[p] = "sendingPayload" /\ Writable(p)
  /\ SetTree(p, [Tree(p) EXCEPT !.payload = bundle[p]])
  /\ GotoPublisher(p, "wait")
  /\ GotoScript(p, "own")
  /\ UNCHANGED <<final, bundle, digests, littered>>

-----------------------------------------------------------------------------
(* REMOTE_PUBLISH, the script on the target *)

\* The tree is taken away from the SSH user.
Own(p) ==
  /\ script[p] = "own" /\ Tree(p) # Absent
  /\ SetTree(p, [Tree(p) EXCEPT !.owned = TRUE])
  /\ GotoScript(p, "verify")
  /\ UNCHANGED <<final, pc, bundle, digests, littered>>

\* The digests of release and runtime must be those the publisher expects; the
\* payload must be one for the release.
Verified(p) ==
  /\ Tree(p) # Absent
  /\ Tree(p).release = Release(p)
  /\ Tree(p).runtime = bundle[p].build
  /\ Tree(p).payload \in Bundles /\ Tree(p).payload.release = Release(p)

Verify(p) ==
  /\ script[p] = "verify" /\ Verified(p)
  /\ digests' = [digests EXCEPT ![p] = Holds(Tree(p))]
  /\ GotoScript(p, "mark")
  /\ UNCHANGED <<staging, final, pc, bundle, littered>>

\* Faulty variant: the marker is forgotten.
MarkForgotten(p) ==
  /\ script[p] = "mark" /\ Tree(p) # Absent
  /\ GotoScript(p, "look")
  /\ UNCHANGED <<staging, final, pc, bundle, digests, littered>>

\* The marker lists the digests that were read.
Mark(p) ==
  /\ script[p] = "mark" /\ Tree(p) # Absent
  /\ SetTree(p, [Tree(p) EXCEPT !.marker = digests[p]])
  /\ GotoScript(p, "look")
  /\ UNCHANGED <<final, pc, bundle, digests, littered>>

\* The marker of the final directory, and its checksums against the staged ones.
SamePublished(p) ==
  /\ final.marker = digests[p]
  /\ Tree(p) # Absent
  /\ final.release = Tree(p).release

\* Faulty variant: only the marker's release digest is compared.
LookAtRelease(p) ==
  /\ script[p] = "look"
  /\ \/ final = Absent /\ GotoScript(p, "move") /\ UNCHANGED staging
     \/ /\ final # Absent
        /\ SetTree(p, Absent)
        /\ GotoScript(p, IF final.release = Release(p) THEN "published" ELSE "failed")
  /\ UNCHANGED <<final, pc, bundle, digests, littered>>

\* An equal release is already published, another one is refused; both ways the
\* exit trap removes the staging directory.
Look(p) ==
  /\ script[p] = "look"
  /\ \/ final = Absent /\ GotoScript(p, "move") /\ UNCHANGED staging
     \/ /\ final # Absent
        /\ SetTree(p, Absent)
        /\ GotoScript(p, IF SamePublished(p) THEN "published" ELSE "failed")
  /\ UNCHANGED <<final, pc, bundle, digests, littered>>

\* mv renames, or moves into a directory that has appeared.
Move(p) ==
  /\ script[p] = "move" /\ Tree(p) # Absent
  /\ final' = IF final = Absent THEN [Tree(p) EXCEPT !.owned = TRUE]
              ELSE [final EXCEPT !.inside = TRUE]
  /\ SetTree(p, Absent)
  /\ GotoScript(p, "published")
  /\ UNCHANGED <<pc, bundle, digests, littered>>

\* Any command of the script may fail; its exit trap removes the directory.
ScriptFails(p) ==
  /\ script[p] \in ScriptSteps
  /\ SetTree(p, Absent)
  /\ GotoScript(p, "failed")
  /\ UNCHANGED <<final, pc, bundle, digests, littered>>

-----------------------------------------------------------------------------
(* The publisher's end *)

Succeed(p) ==
  /\ pc[p] = "wait" /\ script[p] = "published"
  /\ GotoPublisher(p, "succeeded")
  /\ GotoScript(p, "none")
  /\ UNCHANGED <<staging, final, bundle, digests, littered>>

\* The script failed, or a transfer did.
Fail(p) ==
  /\ \/ pc[p] = "wait" /\ script[p] = "failed" /\ GotoScript(p, "none")
     \/ pc[p] \in Sending /\ UNCHANGED script
  /\ GotoPublisher(p, "cleanup")
  /\ UNCHANGED <<staging, final, bundle, digests, littered>>

\* REMOTE_PREPARE fails: nothing is cleaned up, since nothing counts as
\* prepared.  It may have removed the directory, or made a new one.
PrepareFails(p) ==
  /\ pc[p] = "prepare"
  /\ \/ UNCHANGED <<staging, littered>>
     \/ SetTree(p, Absent) /\ UNCHANGED littered
     \/ SetTree(p, EmptyDirectory) /\ littered' = littered \cup {Release(p)}
  /\ GotoPublisher(p, "idle")
  /\ UNCHANGED <<final, bundle, script, digests>>

\* Faulty variant: the exit trap does nothing.
CleanUpForgotten(p) ==
  /\ pc[p] = "cleanup"
  /\ UNCHANGED <<staging, littered>>
  /\ GotoPublisher(p, "idle")
  /\ UNCHANGED <<final, bundle, script, digests>>

\* on_transport_exit: the staging directory is removed, if the target answers.
CleanUp(p) ==
  /\ pc[p] = "cleanup"
  /\ \/ SetTree(p, Absent) /\ UNCHANGED littered
     \/ UNCHANGED staging /\ littered' = littered \cup {Release(p)}
  /\ GotoPublisher(p, "idle")
  /\ UNCHANGED <<final, bundle, script, digests>>

\* What becomes of a script that nobody waits for any more.
LeaveScript(p) ==
  IF Orphans \/ script[p] \notin ScriptSteps THEN UNCHANGED script ELSE GotoScript(p, "none")

\* The connection is lost while the script runs, at any of its steps or after
\* its end: the publisher cannot tell which.
LoseConnection(p) ==
  /\ pc[p] = "wait"
  /\ LeaveScript(p)
  /\ GotoPublisher(p, "cleanup")
  /\ UNCHANGED <<staging, final, bundle, digests, littered>>

\* A killed publisher runs no exit trap.
Kill(p) ==
  /\ pc[p] \in Working
  /\ LeaveScript(p)
  /\ GotoPublisher(p, "idle")
  /\ littered' = littered \cup {Release(p)}
  /\ UNCHANGED <<staging, final, bundle, digests>>

\* A script nobody waits for ends unheard.
Unheard(p) ==
  /\ pc[p] \notin Working
  /\ script[p] \in ScriptEnds
  /\ GotoScript(p, "none")
  /\ UNCHANGED <<staging, final, pc, bundle, digests, littered>>

-----------------------------------------------------------------------------
Transfer(p) ==
  \/ BeginRelease(p) \/ EndRelease(p) \/ BeginRuntime(p) \/ EndRuntime(p)
  \/ BeginPayload(p) \/ EndPayload(p)
Script(p) ==
  Own(p) \/ Verify(p) \/ Mark(p) \/ Look(p) \/ Move(p) \/ ScriptFails(p) \/ Unheard(p)
Outcome(p) ==
  Succeed(p) \/ Fail(p) \/ PrepareFails(p) \/ CleanUp(p) \/ LoseConnection(p) \/ Kill(p)

Next == \E p \in Publishers :
  Start(p) \/ Prepare(p) \/ Transfer(p) \/ Script(p) \/ Outcome(p)

Spec == Init /\ [][Next]_vars

-----------------------------------------------------------------------------
(* Properties *)

\* What stands at the final path was verified as one delivery: every part
\* arrived whole, the marker says what is there, the SSH user cannot write it,
\* and nothing else was moved into it (publish_release_to_target.sh:670-671:
\* the tree "cannot change between verification and publication").
FinalComplete ==
  final # Absent =>
    /\ Holds(final) \in Contents
    /\ final.marker = Holds(final)
    /\ final.owned /\ ~final.inside

\* A publisher that reports success has its own delivery at the final path, and
\* it is still there: another release of the version was refused
\* (publish_release_to_target.sh:842-873).
SuccessIsPublished ==
  \A p \in Publishers : pc[p] = "succeeded" =>
    /\ final # Absent
    /\ Holds(final) = Delivery(bundle[p])

\* When nobody works, only runs that could not clean up have left a staging
\* directory behind.
NoLeftovers ==
  (\A p \in Publishers : pc[p] \notin Working /\ script[p] = "none") =>
    \A r \in Releases : staging[r] # Absent => r \in littered
=============================================================================
