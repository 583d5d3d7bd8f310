------------------------ MODULE ReleasePublishProofs -------------------------
(***************************************************************************)
(* What is proved of the delivery of a release to a target host, for any   *)
(* number of publishers, releases and builds, when one publisher works at  *)
(* a time and its script ends with its connection: what stands at the      *)
(* final path is complete, a reported success is there, and nothing is     *)
(* left behind unnoticed.                                                  *)
(*                                                                         *)
(* None of it is inductive.  TurnInv adds that the only writer of a        *)
(* staging directory is the publisher at work, and what its script knows   *)
(* of that directory at each step: a directory is renamed to the final     *)
(* place on the strength of a look taken earlier.                          *)
(***************************************************************************)
EXTENDS ReleasePublish, FiniteSetTheorems, TLAPS

\* Whoever works, or has a script on the target, publishes something.
HasBundle(p) ==
  pc[p] # "idle" \/ script[p] # "none" => bundle[p] \in Bundles

TypedInv == TypeOK /\ \A p \in Publishers : HasBundle(p)

\* One publisher works, and scripts run only while their publisher waits.
Alone == \A p, q \in Publishers : pc[p] \in Working /\ pc[q] \in Working => p = q
Attended(p) ==
  /\ script[p] \in ScriptSteps => pc[p] = "wait"
  /\ pc[p] \in {"prepare"} \cup Sending => script[p] = "none"

\* What the script of p relies on.
Grounded(p) ==
  /\ script[p] \in ScriptSteps => Tree(p) # Absent /\ Tree(p).payload = bundle[p]
  /\ script[p] \in {"verify", "mark", "look", "move"} => Tree(p).owned
  /\ script[p] \in {"mark", "look", "move"} =>
       digests[p] = Holds(Tree(p)) /\ digests[p] = Delivery(bundle[p])
  /\ script[p] \in {"look", "move"} => Tree(p).marker = digests[p]
  /\ script[p] = "move" => final = Absent

\* What the end of a script means for the publisher that waits for it.
Ended(p) ==
  pc[p] = "wait" =>
    /\ script[p] \in ScriptEnds => Tree(p) = Absent
    /\ script[p] = "published" => final # Absent /\ Holds(final) = Delivery(bundle[p])

\* A staging directory belongs to the publisher at work, or is known litter.
Claimed ==
  \A r \in Releases : staging[r] # Absent /\ r \notin littered =>
    \E p \in Publishers : pc[p] \in Working \ {"prepare"} /\ Release(p) = r

\* Nothing is moved into a staging directory.
Unmixed == \A r \in Releases : staging[r] # Absent => ~staging[r].inside

TurnInv ==
  /\ FinalComplete /\ SuccessIsPublished
  /\ Alone /\ Claimed /\ Unmixed
  /\ \A p \in Publishers : Attended(p) /\ Grounded(p) /\ Ended(p)

-----------------------------------------------------------------------------
(* Types *)

\* A tree that exists can be written to in these ways.
LEMMA EditTypes ==
  ASSUME TypeOK, NEW p \in Publishers, bundle[p] \in Bundles
  PROVE  /\ Release(p) \in Releases /\ bundle[p].build \in Builds
         /\ Tree(p) \in Directories \cup {Absent}
         /\ EmptyDirectory \in Directories
         /\ [EmptyDirectory EXCEPT !.release = Partial] \in Directories
         /\ [EmptyDirectory EXCEPT !.release = Release(p)] \in Directories
         /\ Tree(p) # Absent =>
              /\ [Tree(p) EXCEPT !.runtime = Partial] \in Directories
              /\ [Tree(p) EXCEPT !.runtime = bundle[p].build] \in Directories
              /\ [Tree(p) EXCEPT !.payload = Partial] \in Directories
              /\ [Tree(p) EXCEPT !.payload = bundle[p]] \in Directories
              /\ [Tree(p) EXCEPT !.owned = TRUE] \in Directories
              /\ [Tree(p) EXCEPT !.marker = digests[p]] \in Directories
<1>1. Release(p) \in Releases /\ bundle[p].build \in Builds
  BY DEF Release, Bundles
<1>2. Tree(p) \in Directories \cup {Absent} /\ digests[p] \in Contents \cup {None}
  BY <1>1 DEF Tree, TypeOK
<1>3. /\ EmptyDirectory \in Directories
      /\ [EmptyDirectory EXCEPT !.release = Partial] \in Directories
      /\ [EmptyDirectory EXCEPT !.release = Release(p)] \in Directories
  BY <1>1 DEF EmptyDirectory, Directories, Part
<1>4. ASSUME Tree(p) # Absent
      PROVE  /\ [Tree(p) EXCEPT !.runtime = Partial] \in Directories
             /\ [Tree(p) EXCEPT !.runtime = bundle[p].build] \in Directories
             /\ [Tree(p) EXCEPT !.payload = Partial] \in Directories
             /\ [Tree(p) EXCEPT !.payload = bundle[p]] \in Directories
             /\ [Tree(p) EXCEPT !.owned = TRUE] \in Directories
             /\ [Tree(p) EXCEPT !.marker = digests[p]] \in Directories
  BY <1>1, <1>2, <1>4 DEF Directories, Part
<1> QED BY <1>1, <1>2, <1>3, <1>4

\* Only the tree of p changes.
LEMMA SetTreeFacts ==
  ASSUME TypeOK, NEW p \in Publishers, bundle[p] \in Bundles,
         NEW d \in Directories \cup {Absent}, SetTree(p, d)
  PROVE  /\ staging' \in [Releases -> Directories \cup {Absent}]
         /\ staging'[Release(p)] = d
         /\ \A r \in Releases \ {Release(p)} : staging'[r] = staging[r]
  BY EditTypes DEF SetTree, TypeOK

LEMMA InitTypedInv == Init => TypedInv
  BY DEF Init, TypedInv, TypeOK, HasBundle

\* A step that does not choose a bundle.
LEMMA SameBundle ==
  ASSUME TypedInv, NEW p \in Publishers, UNCHANGED bundle,
         pc[p] # "idle" \/ script[p] # "none",
         staging' \in [Releases -> Directories \cup {Absent}],
         final' \in Directories \cup {Absent},
         pc' \in [Publishers -> Working \cup {"idle", "succeeded"}],
         script' \in [Publishers -> ScriptSteps \cup ScriptEnds \cup {"none"}],
         \A q \in Publishers \ {p} : pc'[q] = pc[q] /\ script'[q] = script[q],
         digests' \in [Publishers -> Contents \cup {None}],
         littered' \subseteq Releases
  PROVE  TypedInv'
<1>1. TypeOK'
  BY DEF TypedInv, TypeOK
<1>2. ASSUME NEW q \in Publishers PROVE HasBundle(q)'
  BY DEF TypedInv, HasBundle
<1> QED BY <1>1, <1>2 DEF TypedInv

LEMMA NextTypedInv == TypedInv /\ [Next]_vars => TypedInv'
<1> SUFFICES ASSUME TypedInv, [Next]_vars PROVE TypedInv'
  OBVIOUS
<1> USE DEF GotoPublisher, GotoScript, Sending, Working, ScriptSteps, ScriptEnds
<1>1. TypeOK
  BY DEF TypedInv
<1>2. ASSUME NEW p \in Publishers, Start(p) PROVE TypedInv'
  BY <1>2 DEF Start, TypedInv, TypeOK, HasBundle
<1>3. ASSUME NEW p \in Publishers, pc[p] # "idle" \/ script[p] # "none" PROVE bundle[p] \in Bundles
  BY <1>3 DEF TypedInv, HasBundle
<1>4. ASSUME NEW p \in Publishers, Prepare(p) \/ Transfer(p) \/ Own(p) \/ Mark(p) PROVE TypedInv'
  <2>1. bundle[p] \in Bundles /\ Release(p) \in Releases
    BY <1>1, <1>3, <1>4, EditTypes DEF Prepare, Transfer, BeginRelease, EndRelease, BeginRuntime,
       EndRuntime, BeginPayload, EndPayload, Own, Mark
  <2>2. \E d \in Directories : SetTree(p, d)
    BY <1>1, <1>4, <2>1, EditTypes DEF Prepare, Transfer, BeginRelease, EndRelease, BeginRuntime,
       EndRuntime, BeginPayload, EndPayload, Own, Mark, Writable
  <2>3. staging' \in [Releases -> Directories \cup {Absent}]
    BY <1>1, <2>1, <2>2, SetTreeFacts
  <2>4. /\ UNCHANGED <<bundle, final, digests>> /\ littered' \subseteq Releases
        /\ pc[p] # "idle" \/ script[p] # "none"
        /\ pc' \in [Publishers -> Working \cup {"idle", "succeeded"}]
        /\ script' \in [Publishers -> ScriptSteps \cup ScriptEnds \cup {"none"}]
        /\ \A q \in Publishers \ {p} : pc'[q] = pc[q] /\ script'[q] = script[q]
    BY <1>1, <1>4 DEF Prepare, Transfer, BeginRelease, EndRelease, BeginRuntime, EndRuntime,
       BeginPayload, EndPayload, Own, Mark, TypeOK
  <2> QED BY <1>1, <2>3, <2>4, SameBundle DEF TypeOK
<1>5. ASSUME NEW p \in Publishers,
             Verify(p) \/ Unheard(p) \/ Succeed(p) \/ Fail(p) \/ LoseConnection(p)
      PROVE  TypedInv'
  <2>1. bundle[p] \in Bundles
    BY <1>3, <1>5 DEF Verify, Unheard, Succeed, Fail, LoseConnection
  <2>2. Verify(p) => Holds(Tree(p)) \in Contents
    BY <2>1 DEF Verify, Verified, Holds, Contents, Bundles
  <2>3. digests' \in [Publishers -> Contents \cup {None}]
    BY <1>1, <1>5, <2>2 DEF Verify, Unheard, Succeed, Fail, LoseConnection, TypeOK
  <2>4. /\ UNCHANGED <<bundle, final, staging, littered>>
        /\ pc[p] # "idle" \/ script[p] # "none"
        /\ pc' \in [Publishers -> Working \cup {"idle", "succeeded"}]
        /\ script' \in [Publishers -> ScriptSteps \cup ScriptEnds \cup {"none"}]
        /\ \A q \in Publishers \ {p} : pc'[q] = pc[q] /\ script'[q] = script[q]
    BY <1>1, <1>5 DEF Verify, Unheard, Succeed, Fail, LoseConnection, LeaveScript, TypeOK
  <2> QED BY <1>1, <2>3, <2>4, SameBundle DEF TypeOK
<1>6. ASSUME NEW p \in Publishers, Look(p) \/ Move(p) \/ ScriptFails(p) PROVE TypedInv'
  <2>1. bundle[p] \in Bundles
    BY <1>3, <1>6 DEF Look, Move, ScriptFails
  <2>2. staging' \in [Releases -> Directories \cup {Absent}]
    BY <1>1, <1>6, <2>1, SetTreeFacts DEF Look, Move, ScriptFails, TypeOK
  <2>3. final' \in Directories \cup {Absent}
    <3>1. final # Absent => [final EXCEPT !.inside = TRUE] \in Directories
      BY <1>1 DEF TypeOK, Directories
    <3> QED BY <1>1, <1>6, <2>1, <3>1, EditTypes DEF Look, Move, ScriptFails, TypeOK
  <2>4. /\ UNCHANGED <<bundle, digests, littered>>
        /\ pc[p] # "idle" \/ script[p] # "none"
        /\ pc' \in [Publishers -> Working \cup {"idle", "succeeded"}]
        /\ script' \in [Publishers -> ScriptSteps \cup ScriptEnds \cup {"none"}]
        /\ \A q \in Publishers \ {p} : pc'[q] = pc[q] /\ script'[q] = script[q]
    BY <1>1, <1>6 DEF Look, Move, ScriptFails, TypeOK
  <2> QED BY <1>1, <2>2, <2>3, <2>4, SameBundle DEF TypeOK
<1>7. ASSUME NEW p \in Publishers, PrepareFails(p) \/ CleanUp(p) \/ Kill(p) PROVE TypedInv'
  <2>1. bundle[p] \in Bundles /\ Release(p) \in Releases
    BY <1>1, <1>3, <1>7, EditTypes DEF PrepareFails, CleanUp, Kill
  <2>2. staging' \in [Releases -> Directories \cup {Absent}]
    BY <1>1, <1>7, <2>1, EditTypes, SetTreeFacts DEF PrepareFails, CleanUp, Kill, TypeOK
  <2>3. littered' \subseteq Releases
    BY <1>1, <1>7, <2>1 DEF PrepareFails, CleanUp, Kill, TypeOK
  <2>4. /\ UNCHANGED <<bundle, digests, final>>
        /\ pc[p] # "idle" \/ script[p] # "none"
        /\ pc' \in [Publishers -> Working \cup {"idle", "succeeded"}]
        /\ script' \in [Publishers -> ScriptSteps \cup ScriptEnds \cup {"none"}]
        /\ \A q \in Publishers \ {p} : pc'[q] = pc[q] /\ script'[q] = script[q]
    BY <1>1, <1>7 DEF PrepareFails, CleanUp, Kill, LeaveScript, TypeOK
  <2> QED BY <1>1, <2>2, <2>3, <2>4, SameBundle DEF TypeOK
<1>8. CASE UNCHANGED vars
  BY <1>8 DEF vars, TypedInv, TypeOK, HasBundle
<1> QED BY <1>2, <1>4, <1>5, <1>6, <1>7, <1>8 DEF Next, Script, Outcome

\* The variables keep their types, with any number of publishers at work and
\* scripts that outlive their connection.
THEOREM TypeCorrect == Spec => []TypeOK
<1>1. Spec => []TypedInv
  BY InitTypedInv, NextTypedInv, PTL DEF Spec
<1>2. TypedInv => TypeOK
  BY DEF TypedInv
<1> QED BY <1>1, <1>2, PTL

-----------------------------------------------------------------------------
(* One publisher at a time *)

\* The publisher at work.
LEMMA OthersRest ==
  ASSUME TurnInv, NEW p \in Publishers, pc[p] \in Working, NEW q \in Publishers \ {p}
  PROVE  pc[q] \notin Working /\ script[q] \notin ScriptSteps
  BY DEF TurnInv, Alone, Attended, Working

\* Nobody else works when a publisher starts.
LEMMA TurnIsFree ==
  ASSUME Concurrency = 1, Cardinality(Active) < Concurrency
  PROVE  \A p \in Publishers : pc[p] \notin Working
<1>1. IsFiniteSet(Active)
  BY ConstantsAssumption, FS_Subset DEF Active
<1>2. Cardinality(Active) = 0
  BY <1>1, FS_CardinalityType
<1>3. Active = {}
  BY <1>1, <1>2, FS_EmptySet
<1> QED BY <1>3 DEF Active

\* A success that was reported is there.
Reported(p) == pc[p] = "succeeded" => final # Absent /\ Holds(final) = Delivery(bundle[p])

\* What a step of the publisher at work, or of its script, has to keep.
LEMMA StepOfTheOne ==
  ASSUME TypeOK, TurnInv, NEW p \in Publishers, pc[p] \in Working, bundle[p] \in Bundles,
         UNCHANGED bundle,
         \A q \in Publishers \ {p} :
           pc'[q] = pc[q] /\ script'[q] = script[q] /\ digests'[q] = digests[q],
         \A r \in Releases \ {Release(p)} :
           staging'[r] = staging[r] /\ (r \in littered' <=> r \in littered),
         final # Absent => final' = final,
         FinalComplete', Reported(p)', Attended(p)', Grounded(p)', Ended(p)',
         Tree(p)' # Absent => ~Tree(p)'.inside,
         Tree(p)' # Absent => Release(p) \in littered' \/ pc'[p] \in Working \ {"prepare"}
  PROVE  TurnInv'
<1>1. Release(p) \in Releases /\ Release(p)' = Release(p)
  BY DEF Release, Bundles
<1>2. Alone'
  BY OthersRest DEF Alone
<1>3. SuccessIsPublished'
  BY DEF TurnInv, SuccessIsPublished, Reported
<1>4. Claimed'
  <2>1. ASSUME NEW r \in Releases \ {Release(p)}, staging'[r] # Absent, r \notin littered'
        PROVE  FALSE
    BY <2>1, OthersRest DEF TurnInv, Claimed
  <2> QED BY <1>1, <2>1 DEF Claimed, Tree
<1>5. Unmixed'
  BY <1>1 DEF TurnInv, Unmixed, Tree
<1>6. ASSUME NEW q \in Publishers \ {p} PROVE Attended(q)' /\ Grounded(q)' /\ Ended(q)'
  <2>1. pc'[q] \notin Working /\ script'[q] \notin ScriptSteps
    BY OthersRest
  <2> QED
    BY <2>1 DEF Attended, Grounded, Ended, Working, ScriptSteps
<1> QED BY <1>2, <1>3, <1>4, <1>5, <1>6 DEF TurnInv

LEMMA InitTurnInv == Init => TurnInv
  BY DEF Init, TurnInv, FinalComplete, SuccessIsPublished, Alone, Claimed, Unmixed, Attended,
     Grounded, Ended, Working, ScriptSteps, Sending

\* A new publisher finds no claim on any staging directory.
LEMMA StartTurn ==
  ASSUME TypeOK, TurnInv, Concurrency = 1, NEW p \in Publishers, Start(p)
  PROVE  TurnInv'
<1>1. \A q \in Publishers : pc[q] \notin Working /\ script[q] \notin ScriptSteps
  BY TurnIsFree DEF Start, TurnInv, Attended, Working
<1>2. UNCHANGED <<staging, final, script, digests, littered>> /\ pc' = [pc EXCEPT ![p] = "prepare"]
      /\ script[p] = "none" /\ \A q \in Publishers \ {p} : bundle'[q] = bundle[q]
  BY DEF Start, GotoPublisher
<1>3. FinalComplete' /\ Unmixed'
  BY <1>2 DEF TurnInv, FinalComplete, Unmixed
<1>4. SuccessIsPublished'
  BY <1>2 DEF TurnInv, SuccessIsPublished, TypeOK
<1>5. Alone' /\ Claimed'
  BY <1>1, <1>2 DEF TurnInv, Alone, Claimed
<1>6. ASSUME NEW q \in Publishers PROVE Attended(q)' /\ Grounded(q)' /\ Ended(q)'
  BY <1>1, <1>2 DEF TurnInv, Attended, Grounded, Ended, TypeOK, ScriptSteps
<1> QED BY <1>3, <1>4, <1>5, <1>6 DEF TurnInv

\* The transfers fill a directory of the publisher, and its script starts on
\* a complete one.
LEMMA SendingTurn ==
  ASSUME TypedInv, TurnInv, NEW p \in Publishers, Prepare(p) \/ Transfer(p)
  PROVE  TurnInv'
<1> USE DEF Prepare, Transfer, BeginRelease, EndRelease, BeginRuntime, EndRuntime, BeginPayload,
            EndPayload, GotoPublisher, GotoScript
<1>1. /\ TypeOK /\ pc[p] \in Working /\ bundle[p] \in Bundles /\ Attended(p)
      /\ UNCHANGED <<bundle, final, digests>>
  BY DEF TypedInv, HasBundle, TurnInv, Sending, Working
<1>2. PICK d \in Directories :
        SetTree(p, d) /\ ~d.inside /\ (EndPayload(p) => d.payload = bundle[p])
  <2>1. Tree(p) # Absent => Tree(p) \in Directories /\ ~Tree(p).inside
    BY <1>1, EditTypes DEF TurnInv, Unmixed, Tree
  <2>2. ~EmptyDirectory.inside
    BY DEF EmptyDirectory
  <2>3. \A part \in {Partial, bundle[p].build} :
          Tree(p) # Absent => ~[Tree(p) EXCEPT !.runtime = part].inside
    BY <2>1
  <2>4. \A part \in {Partial, bundle[p]} :
          Tree(p) # Absent => /\ ~[Tree(p) EXCEPT !.payload = part].inside
                              /\ [Tree(p) EXCEPT !.payload = part].payload = part
    BY <2>1
  <2>5. \A part \in {Partial, Release(p)} : ~[EmptyDirectory EXCEPT !.release = part].inside
    BY DEF EmptyDirectory
  <2> QED BY <1>1, <2>2, <2>3, <2>4, <2>5, EditTypes DEF Writable
<1>3. /\ Tree(p)' = d /\ d # Absent
      /\ \A r \in Releases \ {Release(p)} :
           staging'[r] = staging[r] /\ (r \in littered' <=> r \in littered)
  BY <1>1, <1>2, SetTreeFacts, AbsentAssumption DEF Tree, Release
<1>4. \A q \in Publishers \ {p} :
        pc'[q] = pc[q] /\ script'[q] = script[q] /\ digests'[q] = digests[q]
  BY <1>1 DEF TypeOK
<1>5. \/ EndPayload(p) /\ script'[p] = "own" /\ pc'[p] = "wait"
      \/ script'[p] = "none" /\ pc'[p] \in Sending
  <2>1. script[p] = "none"
    BY <1>1 DEF Attended, Sending
  <2>2. CASE EndPayload(p)
    BY <1>1, <2>2 DEF TypeOK
  <2>3. CASE ~EndPayload(p)
    BY <1>1, <2>1 DEF TypeOK, Sending
  <2> QED BY <2>2, <2>3
<1>6. FinalComplete' /\ Reported(p)' /\ Attended(p)' /\ Ended(p)'
  BY <1>5 DEF TurnInv, FinalComplete, Reported, Attended, Ended, Sending, ScriptEnds
<1>7. Grounded(p)'
  BY <1>2, <1>3, <1>5 DEF Grounded, ScriptSteps
<1>8. pc'[p] \in Working \ {"prepare"}
  BY <1>5 DEF Working, Sending
<1> QED BY <1>1, <1>2, <1>3, <1>4, <1>6, <1>7, <1>8, StepOfTheOne

\* What a script has read is what it marks and, in the end, renames.
LEMMA ScriptTurn ==
  ASSUME TypedInv, TurnInv, NEW p \in Publishers, Own(p) \/ Verify(p) \/ Mark(p)
  PROVE  TurnInv'
<1> USE DEF Own, Verify, Mark, GotoScript
<1>1. /\ TypeOK /\ pc[p] = "wait" /\ bundle[p] \in Bundles /\ Attended(p) /\ Grounded(p)
      /\ UNCHANGED <<bundle, final, pc, littered>>
  BY DEF TypedInv, HasBundle, TurnInv, Attended, ScriptSteps
<1>2. Tree(p) \in Directories /\ ~Tree(p).inside
  BY <1>1, EditTypes DEF TurnInv, Unmixed, Tree, Grounded, ScriptSteps
<1>3. /\ Tree(p)' # Absent /\ Tree(p)' \in Directories /\ ~Tree(p)'.inside
      /\ Holds(Tree(p))' = Holds(Tree(p)) /\ Tree(p)'.payload = Tree(p).payload
      /\ Own(p) => Tree(p)'.owned
      /\ Tree(p).owned => Tree(p)'.owned
      /\ Mark(p) => Tree(p)'.marker = digests[p]
      /\ \A r \in Releases \ {Release(p)} : staging'[r] = staging[r]
  <2>1. [Tree(p) EXCEPT !.owned = TRUE] \in Directories
        /\ [Tree(p) EXCEPT !.marker = digests[p]] \in Directories
    BY <1>1, <1>2, AbsentAssumption, EditTypes
  <2>2. CASE Own(p)
    <3>1. Tree(p)' = [Tree(p) EXCEPT !.owned = TRUE]
      BY <1>1, <2>1, <2>2, SetTreeFacts DEF Tree, Release
    <3> QED BY <1>1, <1>2, <2>2, <3>1, SetTreeFacts, AbsentAssumption DEF Directories, Holds
  <2>3. CASE Mark(p)
    <3>1. Tree(p)' = [Tree(p) EXCEPT !.marker = digests[p]]
      BY <1>1, <2>1, <2>3, SetTreeFacts DEF Tree, Release
    <3> QED BY <1>1, <1>2, <2>1, <2>3, <3>1, SetTreeFacts, AbsentAssumption DEF Holds
  <2>4. CASE Verify(p)
    BY <1>2, <2>4, AbsentAssumption DEF Tree, Release
  <2> QED BY <2>2, <2>3, <2>4
<1>4. \A q \in Publishers \ {p} :
        pc'[q] = pc[q] /\ script'[q] = script[q] /\ digests'[q] = digests[q]
  BY <1>1 DEF TypeOK
<1>5. /\ Own(p) => script'[p] = "verify" /\ UNCHANGED digests
      /\ Verify(p) => script'[p] = "mark"
      /\ Mark(p) => script'[p] = "look" /\ UNCHANGED digests
  BY <1>1 DEF TypeOK
<1>6. FinalComplete' /\ Reported(p)' /\ Attended(p)' /\ Ended(p)'
  BY <1>1, <1>5 DEF TurnInv, FinalComplete, Reported, Attended, Ended, ScriptEnds
<1>7. Verify(p) => digests'[p] = Holds(Tree(p)) /\ digests'[p] = Delivery(bundle[p])
  BY <1>1 DEF Grounded, ScriptSteps, Verified, Holds, Delivery, TypeOK
<1>8. Grounded(p)'
  BY <1>1, <1>3, <1>5, <1>7 DEF Grounded, ScriptSteps
<1> QED BY <1>1, <1>3, <1>4, <1>6, <1>8, StepOfTheOne DEF Working

\* A script that ends takes its staging directory away, by renaming it to the
\* final place only where there is nothing.
LEMMA ScriptEndTurn ==
  ASSUME TypedInv, TurnInv, NEW p \in Publishers, Look(p) \/ Move(p) \/ ScriptFails(p)
  PROVE  TurnInv'
<1> USE DEF Look, Move, ScriptFails, GotoScript
<1>1. /\ TypeOK /\ pc[p] = "wait" /\ bundle[p] \in Bundles
      /\ Attended(p) /\ Grounded(p) /\ FinalComplete
      /\ UNCHANGED <<bundle, pc, digests, littered>>
  BY DEF TypedInv, HasBundle, TurnInv, Attended, ScriptSteps
<1>2. Tree(p) \in Directories /\ ~Tree(p).inside
  BY <1>1, EditTypes DEF TurnInv, Unmixed, Tree, Grounded, ScriptSteps
<1>3. \A q \in Publishers \ {p} :
        pc'[q] = pc[q] /\ script'[q] = script[q] /\ digests'[q] = digests[q]
  BY <1>1 DEF TypeOK
<1>4. CASE Look(p) /\ final = Absent
  <2>1. script'[p] = "move" /\ UNCHANGED <<staging, final>>
    BY <1>1, <1>4 DEF TypeOK
  <2>2. Grounded(p)'
    BY <1>1, <1>4 DEF Grounded, ScriptSteps, Tree, Release
  <2>3. FinalComplete' /\ Reported(p)' /\ Attended(p)' /\ Ended(p)'
    BY <1>1, <1>4, <2>1 DEF FinalComplete, Reported, Attended, Ended, ScriptEnds
  <2> QED BY <1>1, <1>2, <1>3, <2>1, <2>2, <2>3, StepOfTheOne DEF Working, Tree, Release
<1>5. CASE SetTree(p, Absent) /\ script'[p] \in ScriptEnds
  <2>1. Tree(p)' = Absent /\ \A r \in Releases \ {Release(p)} : staging'[r] = staging[r]
    BY <1>1, <1>5, SetTreeFacts DEF Tree, Release
  <2>2. Move(p) => final = Absent /\ final' = [Tree(p) EXCEPT !.owned = TRUE]
    BY <1>1 DEF Grounded
  <2>3. Move(p) => /\ final' # Absent
                   /\ Holds(final)' = Delivery(bundle[p])
                   /\ final'.marker = Holds(final)'
                   /\ final'.owned /\ ~final'.inside
    <3>1. [Tree(p) EXCEPT !.owned = TRUE] # Absent
      BY <1>1, <1>2, EditTypes, AbsentAssumption
    <3> QED BY <1>1, <1>2, <3>1 DEF Grounded, Holds
  <2>4. Delivery(bundle[p]) \in Contents
    BY <1>1 DEF Delivery, Contents, Bundles
  <2>5. Look(p) /\ script'[p] = "published" => final # Absent /\ Holds(final) = Delivery(bundle[p])
    BY <1>1 DEF TypeOK, SamePublished, Grounded, FinalComplete
  <2>6. ~Move(p) => UNCHANGED final
    OBVIOUS
  <2>7. FinalComplete'
    BY <1>1, <2>3, <2>4 DEF FinalComplete
  <2>8. ScriptFails(p) => script'[p] = "failed"
    BY <1>1 DEF TypeOK
  <2>9. Reported(p)' /\ Attended(p)' /\ Grounded(p)'
    BY <1>1, <1>5 DEF Reported, Attended, Grounded, ScriptSteps, ScriptEnds
  <2>10. Ended(p)'
    BY <2>1, <2>3, <2>5, <2>8 DEF Ended
  <2>11. final # Absent => final' = final
    BY <2>2
  <2> QED BY <1>1, <1>3, <2>1, <2>7, <2>9, <2>10, <2>11, StepOfTheOne DEF Working
<1>6. \/ Look(p) /\ final = Absent
      \/ SetTree(p, Absent) /\ script'[p] \in ScriptEnds
  BY <1>1 DEF TypeOK, ScriptEnds
<1> QED BY <1>4, <1>5, <1>6

\* A publisher that learns the outcome, or loses the connection and with it
\* the script.
LEMMA OutcomeTurn ==
  ASSUME TypedInv, TurnInv, ~Orphans, NEW p \in Publishers,
         Succeed(p) \/ Fail(p) \/ LoseConnection(p)
  PROVE  TurnInv'
<1> USE DEF Succeed, Fail, LoseConnection, LeaveScript, GotoPublisher, GotoScript
<1>1. /\ TypeOK /\ pc[p] \in Working /\ bundle[p] \in Bundles /\ Attended(p) /\ Ended(p)
      /\ UNCHANGED <<bundle, staging, final, digests, littered>>
  BY DEF TypedInv, HasBundle, TurnInv, Sending, Working
<1>2. \A q \in Publishers \ {p} :
        pc'[q] = pc[q] /\ script'[q] = script[q] /\ digests'[q] = digests[q]
  BY <1>1 DEF TypeOK
<1>3. /\ Succeed(p) => pc'[p] = "succeeded" /\ Tree(p) = Absent
      /\ ~Succeed(p) => pc'[p] = "cleanup"
      /\ script'[p] \notin ScriptSteps
  BY <1>1 DEF TypeOK, Attended, Ended, ScriptSteps
<1>4. Reported(p)'
  BY <1>1, <1>3 DEF Reported, Ended
<1>5. FinalComplete' /\ Attended(p)' /\ Grounded(p)' /\ Ended(p)'
  BY <1>3 DEF TurnInv, FinalComplete, Attended, Grounded, Ended, Sending, ScriptSteps
<1>6. Tree(p)' = Tree(p) /\ (Tree(p)' # Absent => ~Tree(p)'.inside)
  BY <1>1, EditTypes DEF TurnInv, Unmixed, Tree, Release
<1> QED BY <1>1, <1>2, <1>3, <1>4, <1>5, <1>6, StepOfTheOne DEF Working

\* A publisher that gives up has removed its directory, or it is known litter.
LEMMA GivingUpTurn ==
  ASSUME TypedInv, TurnInv, ~Orphans, NEW p \in Publishers,
         PrepareFails(p) \/ CleanUp(p) \/ Kill(p)
  PROVE  TurnInv'
<1> USE DEF PrepareFails, CleanUp, Kill, LeaveScript, GotoPublisher, GotoScript
<1>1. /\ TypeOK /\ pc[p] \in Working /\ bundle[p] \in Bundles /\ Attended(p)
      /\ UNCHANGED <<bundle, final, digests>>
  BY DEF TypedInv, HasBundle, TurnInv, Working, Sending
<1>2. Release(p) \in Releases
  BY <1>1, EditTypes
<1>3. \A q \in Publishers \ {p} :
        pc'[q] = pc[q] /\ script'[q] = script[q] /\ digests'[q] = digests[q]
  BY <1>1 DEF TypeOK
<1>4. pc'[p] = "idle" /\ script'[p] \notin ScriptSteps
  BY <1>1 DEF TypeOK, Attended, ScriptSteps
<1>5. Reported(p)' /\ FinalComplete' /\ Attended(p)' /\ Grounded(p)' /\ Ended(p)'
  BY <1>4 DEF TurnInv, Reported, FinalComplete, Attended, Grounded, Ended, Sending, ScriptSteps
<1>6. \A r \in Releases \ {Release(p)} :
        staging'[r] = staging[r] /\ (r \in littered' <=> r \in littered)
  BY <1>1, EditTypes, SetTreeFacts
<1>7. Tree(p)' # Absent => ~Tree(p)'.inside
  <2>1. Tree(p)' = Tree(p) \/ Tree(p)' = Absent \/ Tree(p)' = EmptyDirectory
    BY <1>1, EditTypes, SetTreeFacts DEF Tree, Release
  <2>2. Tree(p) # Absent => ~Tree(p).inside
    BY <1>2 DEF TurnInv, Unmixed, Tree
  <2> QED BY <2>1, <2>2 DEF EmptyDirectory
<1>8. Tree(p)' # Absent => Release(p) \in littered'
  <2>1. CASE UNCHANGED <<staging, littered>> /\ PrepareFails(p)
    <3>1. staging[Release(p)] # Absent => Release(p) \in littered
      BY <1>1, <1>2, <2>1, OthersRest DEF TurnInv, Claimed
    <3> QED BY <2>1, <3>1 DEF Tree, Release
  <2>2. CASE SetTree(p, Absent)
    BY <1>1, <2>2, SetTreeFacts DEF Tree, Release
  <2>3. CASE littered' = littered \cup {Release(p)}
    BY <2>3
  <2> QED BY <2>1, <2>2
<1> QED BY <1>1, <1>3, <1>5, <1>6, <1>7, <1>8, StepOfTheOne

LEMMA UnheardTurn ==
  ASSUME TypedInv, TurnInv, NEW p \in Publishers, Unheard(p)
  PROVE  TurnInv'
<1>1. /\ UNCHANGED <<staging, final, pc, bundle, digests, littered>>
      /\ pc[p] \notin Working /\ script'[p] = "none"
      /\ \A q \in Publishers \ {p} : script'[q] = script[q]
  BY DEF Unheard, GotoScript, TypedInv, TypeOK
<1>2. FinalComplete' /\ SuccessIsPublished' /\ Alone' /\ Claimed' /\ Unmixed'
  BY <1>1 DEF TurnInv, FinalComplete, SuccessIsPublished, Alone, Claimed, Unmixed, Release
<1>3. ASSUME NEW q \in Publishers PROVE Attended(q)' /\ Grounded(q)' /\ Ended(q)'
  BY <1>1 DEF TurnInv, Attended, Grounded, Ended, Tree, Release, Working, ScriptSteps
<1> QED BY <1>2, <1>3 DEF TurnInv

LEMMA NextTurnInv ==
  ASSUME TypedInv, TurnInv, ~Orphans, Concurrency = 1, [Next]_vars
  PROVE  TurnInv'
<1>1. CASE UNCHANGED vars
  BY <1>1 DEF vars, TurnInv, FinalComplete, SuccessIsPublished, Alone, Claimed, Unmixed,
     Attended, Grounded, Ended, Tree, Release
<1> QED
  BY <1>1, StartTurn, SendingTurn, ScriptTurn, ScriptEndTurn, OutcomeTurn, GivingUpTurn,
     UnheardTurn DEF TypedInv, Next, Script, Outcome

LEMMA TurnsKeep ==
  ASSUME ~Orphans, Concurrency = 1
  PROVE  Spec => []TurnInv
<1>1. Init => TypedInv /\ TurnInv
  BY InitTypedInv, InitTurnInv
<1>2. TypedInv /\ TurnInv /\ [Next]_vars => TypedInv' /\ TurnInv'
  BY NextTypedInv, NextTurnInv
<1> QED BY <1>1, <1>2, PTL DEF Spec

\* What stands at the final path was verified as one delivery and not touched
\* since (REMOTE_PUBLISH: chown, sha256sum, the marker, mv), when publishers
\* take turns and no script survives its connection.
THEOREM FinalIsComplete ==
  ASSUME ~Orphans, Concurrency = 1
  PROVE  Spec => []FinalComplete
<1>1. TurnInv => FinalComplete
  BY DEF TurnInv
<1> QED BY <1>1, TurnsKeep, PTL

\* A publisher that reports success has its own delivery at the final path, for
\* good: no later publisher replaces it (publish_release_to_target.sh).
THEOREM SuccessIsThere ==
  ASSUME ~Orphans, Concurrency = 1
  PROVE  Spec => []SuccessIsPublished
<1>1. TurnInv => SuccessIsPublished
  BY DEF TurnInv
<1> QED BY <1>1, TurnsKeep, PTL

\* When nobody works, a staging directory on the target is one that a run could
\* not remove (on_transport_exit, and the exit trap of the script).
THEOREM NothingLeftBehind ==
  ASSUME ~Orphans, Concurrency = 1
  PROVE  Spec => []NoLeftovers
<1>1. TurnInv => NoLeftovers
  BY DEF TurnInv, NoLeftovers, Claimed
<1> QED BY <1>1, TurnsKeep, PTL
=============================================================================
