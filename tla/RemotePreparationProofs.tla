----------------------- MODULE RemotePreparationProofs -----------------------
(***************************************************************************)
(* What is proved of eva remote prepare, for any number of processes and   *)
(* releases, and any failures and crashes: a manifest that says succeeded  *)
(* is complete, and a target receives the assets of its own release as     *)
(* long as preparations do not overlap.                                    *)
(*                                                                         *)
(* Neither is inductive.  A manifest is written from a copy in memory, so  *)
(* ProgressInv says what stands behind the copies.  A payload is built     *)
(* from the cache, so CacheInv says from which step on the cache has the   *)
(* lists of the release being prepared.                                    *)
(***************************************************************************)
EXTENDS RemotePreparation, TLAPS

\* The steps a copy counts, and the place the process is at.
Counted(p) ==
  /\ pc[p] # "idle" => rel[p] \in Releases
  /\ mem[p].status # "succeeded"
  /\ pc[p] = "begin" => mem[p].done = 0
  /\ pc[p] \in {"next", "run", "check"} => mem[p].done < Last
  /\ pc[p] = "finish" => mem[p].done = Last
  /\ staged[p] # None => pc[p] = "check" /\ mem[p].done = 3

\* What the steps a copy counts have left in the tree.
Behind(p) ==
  pc[p] # "idle" =>
    /\ mem[p].done >= 4 \/ (pc[p] = "check" /\ mem[p].done = 3 /\ staged[p] = None)
         => payload[rel[p]] # None
    /\ mem[p].done = Last \/ (pc[p] = "check" /\ mem[p].done = 4) => rel[p] \in verified

ProgressInv ==
  /\ TypeOK /\ SucceededComplete
  /\ \A p \in Procs : Counted(p) /\ Behind(p)

\* Preparations that do not overlap are one at a time.
Alone == \A p, q \in Procs : pc[p] # "idle" /\ pc[q] # "idle" => p = q

\* From its download on, the cache has the lists of the release that is
\* prepared; so has what is staged.
OwnCache(p) ==
  /\ mem[p].done >= 2 \/ (mem[p].done = 1 /\ pc[p] = "check")
       => pc[p] \in {"idle", "failing"} \/ cache = rel[p]
  /\ staged[p] # None => staged[p] = rel[p]

\* A release that is being prepared has not been delivered.
Unfinished(p) == pc[p] # "idle" => manifest[rel[p]].status # "succeeded"

CacheInv ==
  /\ OwnAssets
  /\ ~overlapped => Alone /\ \A p \in Procs : OwnCache(p) /\ Unfinished(p)

-----------------------------------------------------------------------------
(* Facts about the steps *)

LEMMA StepFacts ==
  /\ Last = 5
  /\ StepNames[1] = "inspect" /\ StepNames[2] = "download" /\ StepNames[3] = "mirror"
  /\ StepNames[4] = "package" /\ StepNames[5] = "verify"
  BY DEF Last, StepNames

\* The step that runs is told by the number of steps counted.
LEMMA StepOf ==
  ASSUME TypeOK, NEW p \in Procs, Counted(p), pc[p] \in {"run", "check"}
  PROVE  /\ InStep(p, "inspect") <=> mem[p].done = 0
         /\ InStep(p, "download") <=> mem[p].done = 1
         /\ InStep(p, "mirror") <=> mem[p].done = 2
         /\ InStep(p, "package") <=> mem[p].done = 3
         /\ InStep(p, "verify") <=> mem[p].done = 4
<1>1. mem[p].done \in 0..5 /\ mem[p].done < 5
  BY StepFacts DEF TypeOK, Manifest, Counted
<1>2. mem[p].done = 0 \/ mem[p].done = 1 \/ mem[p].done = 2 \/ mem[p].done = 3 \/ mem[p].done = 4
  BY <1>1
<1> QED BY <1>2, StepFacts DEF InStep

\* The manifest a process saves next.
LEMMA DueFacts ==
  ASSUME TypeOK, NEW p \in Procs, Counted(p)
  PROVE  /\ Due(p) \in Manifest
         /\ Due(p).done = mem[p].done
         /\ Due(p).status = "succeeded" <=> pc[p] = "finish"
  BY DEF TypeOK, Counted, Due, Manifest, Statuses

LEMMA ManifestFacts ==
  /\ NoManifest \in Manifest /\ NewManifest \in Manifest
  /\ NoManifest.status = "none" /\ NoManifest.done = 0
  /\ NewManifest.status = "pending" /\ NewManifest.done = 0
  BY StepFacts DEF NoManifest, NewManifest, Manifest, Statuses

-----------------------------------------------------------------------------
(* What stands behind the copies *)

LEMMA InitProgressInv == Init => ProgressInv
<1> SUFFICES ASSUME Init PROVE ProgressInv
  OBVIOUS
<1>1. TypeOK
  BY ManifestFacts DEF Init, TypeOK, MaybeRelease, Places
<1>2. SucceededComplete
  BY ManifestFacts DEF Init, SucceededComplete
<1>3. ASSUME NEW p \in Procs PROVE Counted(p) /\ Behind(p)
  BY ManifestFacts DEF Init, Counted, Behind
<1> QED BY <1>1, <1>2, <1>3 DEF ProgressInv

\* A step of p concerns the others only by what it adds to the tree.
LEMMA OthersProgress ==
  ASSUME ProgressInv, NEW p \in Procs, TypeOK', SucceededComplete', Counted(p)', Behind(p)',
         \A q \in Procs \ {p} : /\ pc'[q] = pc[q] /\ rel'[q] = rel[q]
                                /\ mem'[q] = mem[q] /\ staged'[q] = staged[q],
         \A r \in Releases : payload[r] # None => payload'[r] # None,
         verified \subseteq verified'
  PROVE  ProgressInv'
<1>1. ASSUME NEW q \in Procs \ {p} PROVE Counted(q)' /\ Behind(q)'
  BY DEF ProgressInv, Counted, Behind
<1> QED BY <1>1 DEF ProgressInv

\* SucceededComplete is kept by a step that leaves the manifests alone, or
\* saves the copy of a process.
LEMMA SaveKeepsComplete ==
  ASSUME ProgressInv, NEW p \in Procs, pc[p] # "idle", UNCHANGED manifest \/ Save(p),
         \A r \in Releases : payload[r] # None => payload'[r] # None,
         verified \subseteq verified'
  PROVE  SucceededComplete' /\ manifest' \in [Releases -> Manifest]
<1>1. rel[p] \in Releases /\ TypeOK /\ Counted(p) /\ Behind(p)
  BY DEF ProgressInv, Counted
<1>2. CASE UNCHANGED manifest
  BY <1>2 DEF ProgressInv, SucceededComplete, TypeOK
<1>3. CASE Save(p)
  <2>1. manifest' \in [Releases -> Manifest]
    BY <1>1, DueFacts DEF Save, TypeOK
  <2>2. ASSUME NEW r \in Releases, manifest'[r].status = "succeeded"
        PROVE  manifest'[r].done = Last /\ payload'[r] # None /\ r \in verified'
    <3>1. CASE r # rel[p]
      BY <1>3, <2>2, <3>1 DEF Save, ProgressInv, SucceededComplete
    <3>2. CASE r = rel[p]
      <4>1. manifest'[r] = Due(p)
        BY <1>1, <1>3, <3>2 DEF Save, TypeOK
      <4>2. pc[p] = "finish" /\ Due(p).done = mem[p].done
        BY <1>1, <2>2, <4>1, DueFacts
      <4>3. mem[p].done = 5
        BY <1>1, <4>2, StepFacts DEF Counted
      <4> QED BY <1>1, <4>1, <4>2, <4>3, <3>2, StepFacts DEF Behind
    <3> QED BY <3>1, <3>2
  <2> QED BY <2>1, <2>2 DEF SucceededComplete
<1> QED BY <1>2, <1>3

\* A process that ends, after a save, without one, or by a crash that tore
\* what it was writing.
LEMMA ExitProgress ==
  ASSUME ProgressInv, NEW p \in Procs, pc[p] # "idle", Exit(p),
         UNCHANGED manifest \/ Save(p), UNCHANGED <<payload, verified, delivered, overlapped>>,
         cache' \in MaybeRelease, mapping' \in [Releases -> MaybeRelease],
         interrupted' \subseteq Releases
  PROVE  ProgressInv'
<1>1. SucceededComplete' /\ manifest' \in [Releases -> Manifest]
  BY SaveKeepsComplete
<1>2. TypeOK'
  BY <1>1, ManifestFacts DEF Exit, Goto, ProgressInv, TypeOK, MaybeRelease, Places
<1>3. Counted(p)' /\ Behind(p)'
  BY ManifestFacts DEF Exit, Goto, ProgressInv, TypeOK, Counted, Behind
<1>4. \A q \in Procs \ {p} : /\ pc'[q] = pc[q] /\ rel'[q] = rel[q]
                             /\ mem'[q] = mem[q] /\ staged'[q] = staged[q]
  BY DEF Exit, Goto
<1> QED BY <1>1, <1>2, <1>3, <1>4, OthersProgress

LEMMA TornFacts ==
  ASSUME ProgressInv, NEW p \in Procs, pc[p] # "idle", Torn(p)
  PROVE  cache' \in MaybeRelease /\ mapping' \in [Releases -> MaybeRelease]
  BY DEF Torn, ProgressInv, TypeOK, MaybeRelease

\* A new preparation has counted nothing.
LEMMA LookProgress ==
  ASSUME ProgressInv, NEW p \in Procs, Look(p)
  PROVE  ProgressInv'
<1>1. TypeOK'
  BY ManifestFacts DEF Look, Goto, tree, ProgressInv, TypeOK, MaybeRelease, Places
<1>2. SucceededComplete'
  BY DEF Look, tree, ProgressInv, SucceededComplete
<1>3. Counted(p)' /\ Behind(p)'
  BY ManifestFacts, StepFacts DEF Look, Goto, ProgressInv, TypeOK, Counted, Behind
<1>4. \A q \in Procs \ {p} : /\ pc'[q] = pc[q] /\ rel'[q] = rel[q]
                             /\ mem'[q] = mem[q] /\ staged'[q] = staged[q]
  BY DEF Look, Goto
<1> QED BY <1>1, <1>2, <1>3, <1>4, OthersProgress DEF Look, tree

\* The saves of a preparation that goes on.
LEMMA SavingProgress ==
  ASSUME ProgressInv, NEW p \in Procs, SaveStart(p) \/ SaveStepStart(p) \/ SaveStep(p)
  PROVE  ProgressInv'
<1>1. pc[p] \in {"begin", "next", "save"} /\ Save(p)
  BY DEF SaveStart, SaveStepStart, SaveStep
<1>2. SucceededComplete' /\ manifest' \in [Releases -> Manifest]
  BY SaveKeepsComplete DEF SaveStart, SaveStepStart, SaveStep
<1>3. Due(p) \in Manifest /\ Due(p).done = mem[p].done /\ Due(p).status # "succeeded"
  BY <1>1, DueFacts DEF ProgressInv
<1>4. TypeOK'
  BY <1>2, <1>3 DEF SaveStart, SaveStepStart, SaveStep, Goto, ProgressInv, TypeOK, Places
<1>5. Counted(p)'
  BY <1>3, StepFacts DEF SaveStart, SaveStepStart, SaveStep, Goto, ProgressInv, TypeOK, Counted,
     Manifest
<1>6. Behind(p)'
  BY <1>3 DEF SaveStart, SaveStepStart, SaveStep, Goto, ProgressInv, TypeOK, Behind
<1>7. \A q \in Procs \ {p} : /\ pc'[q] = pc[q] /\ rel'[q] = rel[q]
                             /\ mem'[q] = mem[q] /\ staged'[q] = staged[q]
  BY DEF SaveStart, SaveStepStart, SaveStep, Goto, ProgressInv, TypeOK
<1> QED BY <1>2, <1>4, <1>5, <1>7, <1>6, OthersProgress DEF SaveStart, SaveStepStart, SaveStep

\* The work of a step: each leaves in the tree what its check relies on.
LEMMA RunningProgress ==
  ASSUME ProgressInv, NEW p \in Procs,
         RunInspect(p) \/ RunDownload(p) \/ RunMirror(p) \/ RunPackage(p) \/ RunVerify(p)
  PROVE  ProgressInv'
<1> USE DEF RunInspect, RunDownload, RunMirror, RunPackage, RunVerify
<1>1. pc[p] = "run" /\ Goto(p, "check") /\ TypeOK /\ Counted(p) /\ Behind(p)
  BY DEF ProgressInv
<1>2. rel[p] \in Releases /\ UNCHANGED <<manifest, payload, rel, mem>>
  BY <1>1 DEF tree, Counted
<1>3. TypeOK'
  BY <1>1, <1>2 DEF Goto, tree, TypeOK, MaybeRelease, Places
<1>4. SucceededComplete'
  BY DEF tree, ProgressInv, SucceededComplete
<1>5. Counted(p)'
  BY <1>1, StepOf DEF Goto, TypeOK, Counted
<1>6. Behind(p)'
  BY <1>1, <1>2, StepOf, StepFacts DEF TypeOK, Behind, AssetsValid
<1>7. \A q \in Procs \ {p} : /\ pc'[q] = pc[q] /\ rel'[q] = rel[q]
                             /\ mem'[q] = mem[q] /\ staged'[q] = staged[q]
  BY <1>1 DEF Goto, TypeOK
<1>8. verified \subseteq verified'
  BY DEF tree
<1> QED BY <1>2, <1>3, <1>4, <1>5, <1>7, <1>6, <1>8, OthersProgress

\* A step is counted when what it should leave is there.
LEMMA CheckingProgress ==
  ASSUME ProgressInv, NEW p \in Procs, CheckStep(p) \/ PublishPayload(p)
  PROVE  ProgressInv'
<1> USE DEF CheckStep, PublishPayload, StepDone
<1>1. /\ pc[p] = "check" /\ Goto(p, "save") /\ TypeOK /\ Counted(p) /\ Behind(p)
      /\ UNCHANGED <<manifest, verified, rel>>
  BY DEF ProgressInv
<1>2. rel[p] \in Releases /\ mem[p].done \in 0..4
  BY <1>1, StepFacts DEF Counted, TypeOK, Manifest
<1>3. TypeOK'
  <2>1. mem' = [mem EXCEPT ![p].done = @ + 1] /\ mem[p].done + 1 \in 0..Last
    BY <1>2, StepFacts
  <2>2. mem' \in [Procs -> Manifest]
    BY <1>1, <2>1 DEF TypeOK, Manifest
  <2>3. payload' \in [Releases -> MaybeRelease] /\ staged' \in [Procs -> MaybeRelease]
    BY <1>1 DEF TypeOK, MaybeRelease
  <2>4. pc' \in [Procs -> Places]
    BY <1>1 DEF Goto, TypeOK, Places
  <2> QED BY <1>1, <2>2, <2>3, <2>4 DEF TypeOK
<1>4. \A r \in Releases : payload[r] # None => payload'[r] # None
  BY <1>1 DEF TypeOK
<1>5. SucceededComplete'
  BY <1>4 DEF ProgressInv, SucceededComplete
<1>6. Counted(p)'
  BY <1>1, StepOf DEF Goto, TypeOK, Counted, Manifest
<1>7. Behind(p)'
  BY <1>1, <1>2, StepOf, StepFacts DEF Goto, TypeOK, Behind, Manifest
<1>8. \A q \in Procs \ {p} : /\ pc'[q] = pc[q] /\ rel'[q] = rel[q]
                             /\ mem'[q] = mem[q] /\ staged'[q] = staged[q]
  BY <1>1 DEF Goto, TypeOK
<1> QED BY <1>4, <1>3, <1>5, <1>6, <1>8, <1>7, OthersProgress

\* A failed step changes no manifest yet.
LEMMA FailStepProgress ==
  ASSUME ProgressInv, NEW p \in Procs, FailStep(p)
  PROVE  ProgressInv'
<1> USE DEF FailStep
<1>1. /\ pc[p] \in {"run", "check"} /\ Goto(p, "failing") /\ TypeOK /\ Counted(p) /\ Behind(p)
      /\ UNCHANGED <<manifest, payload, verified, rel>>
  BY DEF ProgressInv
<1>2. TypeOK'
  BY <1>1, TornFacts DEF Goto, TypeOK, MaybeRelease, Places, Manifest, Statuses
<1>3. SucceededComplete'
  BY DEF ProgressInv, SucceededComplete
<1>4. Counted(p)' /\ Behind(p)'
  BY <1>1 DEF Goto, TypeOK, Counted, Behind
<1>5. \A q \in Procs \ {p} : /\ pc'[q] = pc[q] /\ rel'[q] = rel[q]
                             /\ mem'[q] = mem[q] /\ staged'[q] = staged[q]
  BY DEF Goto
<1> QED BY <1>2, <1>3, <1>4, <1>5, OthersProgress

LEMMA NextProgressInv == ProgressInv /\ [Next]_vars => ProgressInv'
<1> SUFFICES ASSUME ProgressInv, [Next]_vars PROVE ProgressInv'
  OBVIOUS
<1>1. ASSUME NEW p \in Procs, CannotStart(p) \/ Finish(p) \/ SaveFailure(p)
      PROVE  ProgressInv'
  <2>1. /\ pc[p] # "idle" /\ Exit(p) /\ UNCHANGED <<cache, mapping, interrupted>>
        /\ UNCHANGED manifest \/ Save(p)
        /\ UNCHANGED <<payload, verified, delivered, overlapped>>
    BY <1>1 DEF CannotStart, Finish, SaveFailure, tree
  <2>2. /\ cache \in MaybeRelease /\ mapping \in [Releases -> MaybeRelease]
        /\ interrupted \subseteq Releases
    BY DEF ProgressInv, TypeOK
  <2> QED BY <2>1, <2>2, ExitProgress
<1>2. ASSUME NEW p \in Procs, SaveFails(p) \/ Crash(p)
      PROVE  ProgressInv'
  <2>1. /\ pc[p] # "idle" /\ Exit(p) /\ interrupted' = interrupted \cup {rel[p]}
        /\ UNCHANGED manifest \/ Save(p)
        /\ UNCHANGED <<payload, verified, delivered, overlapped>>
        /\ UNCHANGED <<cache, mapping>> \/ Torn(p)
    BY <1>2 DEF SaveFails, Crash
  <2>2. interrupted' \subseteq Releases
    BY <2>1 DEF ProgressInv, Counted, TypeOK
  <2>3. cache' \in MaybeRelease /\ mapping' \in [Releases -> MaybeRelease]
    BY <2>1, TornFacts DEF ProgressInv, TypeOK
  <2> QED BY <2>1, <2>2, <2>3, ExitProgress
<1>3. ASSUME NEW r \in Releases, Deliver(r)
      PROVE  ProgressInv'
  <2>1. TypeOK'
    BY <1>3 DEF Deliver, ProgressInv, TypeOK, tree, process
  <2>2. SucceededComplete' /\ \A p \in Procs : Counted(p)' /\ Behind(p)'
    BY <1>3 DEF Deliver, ProgressInv, SucceededComplete, Counted, Behind, tree, process
  <2> QED BY <2>1, <2>2 DEF ProgressInv
<1>4. CASE UNCHANGED vars
  BY <1>4 DEF vars, tree, process, ProgressInv, TypeOK, SucceededComplete, Counted, Behind
<1> QED
  BY <1>1, <1>2, <1>3, <1>4, LookProgress, SavingProgress, RunningProgress, CheckingProgress,
     FailStepProgress DEF Next, Progress

\* The variables keep their types, whatever fails and whoever prepares.
THEOREM TypeCorrect == Spec => []TypeOK
<1>1. Spec => []ProgressInv
  BY InitProgressInv, NextProgressInv, PTL DEF Spec
<1>2. ProgressInv => TypeOK
  BY DEF ProgressInv
<1> QED BY <1>1, <1>2, PTL

\* A manifest that says succeeded has a payload and a verification report
\* behind it, whatever fails and however many processes prepare (RunPreparation,
\* runner.go).
THEOREM SucceededIsComplete == Spec => []SucceededComplete
<1>1. Spec => []ProgressInv
  BY InitProgressInv, NextProgressInv, PTL DEF Spec
<1>2. ProgressInv => SucceededComplete
  BY DEF ProgressInv
<1> QED BY <1>1, <1>2, PTL

-----------------------------------------------------------------------------
(* What stands in the cache *)

LEMMA InitCacheInv == Init => CacheInv
<1> SUFFICES ASSUME Init PROVE CacheInv
  OBVIOUS
<1>1. OwnAssets /\ Alone
  BY DEF Init, OwnAssets, Alone
<1>2. ASSUME NEW p \in Procs PROVE OwnCache(p) /\ Unfinished(p)
  BY DEF Init, OwnCache, Unfinished
<1> QED BY <1>1, <1>2 DEF CacheInv

\* While preparations do not overlap, a step of p needs to be right for p only.
LEMMA OthersCache ==
  ASSUME TypeOK, ~overlapped' => ~overlapped /\ CacheInv, NEW p \in Procs,
         ~overlapped' => OwnAssets' /\ OwnCache(p)' /\ Unfinished(p)',
         ~overlapped' => \A q \in Procs \ {p} : pc[q] = "idle",
         \A q \in Procs \ {p} : /\ pc'[q] = pc[q] /\ rel'[q] = rel[q]
                                /\ mem'[q] = mem[q] /\ staged'[q] = staged[q]
  PROVE  CacheInv'
<1> SUFFICES ASSUME ~overlapped' PROVE CacheInv'
  BY DEF CacheInv, OwnAssets
<1>1. Alone'
  BY DEF Alone
<1>2. ASSUME NEW q \in Procs \ {p} PROVE OwnCache(q)' /\ Unfinished(q)'
  BY DEF CacheInv, OwnCache, Unfinished
<1> QED BY <1>1, <1>2 DEF CacheInv

\* Only p works when preparations do not overlap.
LEMMA OnlyOne ==
  ASSUME CacheInv, NEW p \in Procs, pc[p] # "idle", UNCHANGED overlapped
  PROVE  /\ ~overlapped' => ~overlapped /\ CacheInv
         /\ ~overlapped' => \A q \in Procs \ {p} : pc[q] = "idle"
  BY DEF CacheInv, Alone

\* What was delivered stays delivered: nobody writes the manifest of a release
\* that succeeded.
LEMMA SaveKeepsAssets ==
  ASSUME ProgressInv, CacheInv, NEW p \in Procs, pc[p] # "idle", ~overlapped,
         UNCHANGED manifest \/ Save(p), UNCHANGED <<payload, delivered>>
  PROVE  OwnAssets'
<1>1. rel[p] \in Releases /\ manifest[rel[p]].status # "succeeded"
  BY DEF ProgressInv, Counted, CacheInv, Unfinished
<1>2. ASSUME NEW d \in delivered
      PROVE  d[2] = d[1] /\ d[1] \in Releases /\ manifest'[d[1]].status = "succeeded"
  <2>1. d[2] = d[1] /\ d[1] \in Releases /\ manifest[d[1]].status = "succeeded"
    BY DEF CacheInv, OwnAssets, ProgressInv, TypeOK
  <2>2. manifest'[d[1]] = manifest[d[1]]
    BY <1>1, <2>1 DEF Save, ProgressInv, TypeOK
  <2> QED BY <2>1, <2>2
<1>3. \A r \in Releases : payload'[r] # None => payload'[r] = r
  BY DEF CacheInv, OwnAssets
<1> QED BY <1>2, <1>3 DEF OwnAssets

LEMMA ExitCache ==
  ASSUME ProgressInv, CacheInv, NEW p \in Procs, pc[p] # "idle", Exit(p),
         UNCHANGED manifest \/ Save(p), UNCHANGED <<payload, delivered, overlapped>>
  PROVE  CacheInv'
<1>1. ~overlapped' => OwnAssets'
  BY SaveKeepsAssets
<1>2. OwnCache(p)' /\ Unfinished(p)'
  BY DEF Exit, Goto, ProgressInv, TypeOK, OwnCache, Unfinished
<1>3. \A q \in Procs \ {p} : /\ pc'[q] = pc[q] /\ rel'[q] = rel[q]
                             /\ mem'[q] = mem[q] /\ staged'[q] = staged[q]
  BY DEF Exit, Goto
<1> QED BY <1>1, <1>2, <1>3, OnlyOne, OthersCache DEF ProgressInv

LEMMA LookCache ==
  ASSUME ProgressInv, CacheInv, NEW p \in Procs, Look(p)
  PROVE  CacheInv'
<1>1. ~overlapped' => ~overlapped /\ CacheInv /\ OwnAssets' /\ \A q \in Procs : pc[q] = "idle"
  BY DEF Look, tree, CacheInv, OwnAssets
<1>2. OwnCache(p)' /\ Unfinished(p)'
  BY ManifestFacts DEF Look, tree, ProgressInv, Counted, TypeOK, OwnCache, Unfinished
<1>3. \A q \in Procs \ {p} : /\ pc'[q] = pc[q] /\ rel'[q] = rel[q]
                             /\ mem'[q] = mem[q] /\ staged'[q] = staged[q]
  BY DEF Look, Goto
<1> QED BY <1>1, <1>2, <1>3, OthersCache DEF ProgressInv

LEMMA SavingCache ==
  ASSUME ProgressInv, CacheInv, NEW p \in Procs, SaveStart(p) \/ SaveStepStart(p) \/ SaveStep(p)
  PROVE  CacheInv'
<1> USE DEF SaveStart, SaveStepStart, SaveStep
<1>1. /\ pc[p] \in {"begin", "next", "save"} /\ Save(p) /\ rel[p] \in Releases /\ TypeOK
      /\ UNCHANGED <<payload, cache, rel, staged, delivered, overlapped>>
      /\ Due(p) \in Manifest /\ Due(p).done = mem[p].done /\ Due(p).status # "succeeded"
  BY DueFacts DEF ProgressInv, Counted
<1>2. ~overlapped' => OwnAssets'
  BY SaveKeepsAssets
<1>3. Unfinished(p)'
  BY <1>1 DEF Save, TypeOK, Unfinished
<1>4. mem'[p].done = mem[p].done /\ pc'[p] # "check"
  BY <1>1 DEF Goto, TypeOK
<1>5. ~overlapped' => OwnCache(p)'
  BY <1>4 DEF CacheInv, OwnCache
<1>6. \A q \in Procs \ {p} : /\ pc'[q] = pc[q] /\ rel'[q] = rel[q]
                             /\ mem'[q] = mem[q] /\ staged'[q] = staged[q]
  BY <1>1 DEF Goto, TypeOK
<1> QED BY <1>1, <1>2, <1>3, <1>5, <1>6, OnlyOne, OthersCache

\* The download fills the cache, and the payload is staged from it.
LEMMA RunningCache ==
  ASSUME ProgressInv, CacheInv, NEW p \in Procs,
         RunInspect(p) \/ RunDownload(p) \/ RunMirror(p) \/ RunPackage(p) \/ RunVerify(p)
  PROVE  CacheInv'
<1> USE DEF RunInspect, RunDownload, RunMirror, RunPackage, RunVerify
<1>1. /\ pc[p] = "run" /\ Goto(p, "check") /\ TypeOK /\ Counted(p) /\ rel[p] \in Releases
      /\ UNCHANGED <<manifest, payload, rel, mem, delivered, overlapped>>
  BY DEF tree, ProgressInv, Counted
<1>2. ~overlapped' => OwnAssets'
  BY <1>1, SaveKeepsAssets
<1>3. ~overlapped' => Unfinished(p)'
  BY <1>1 DEF CacheInv, Unfinished
<1>4. ~overlapped' => OwnCache(p)'
  BY <1>1, StepOf DEF CacheInv, OwnCache, TypeOK
<1>5. \A q \in Procs \ {p} : /\ pc'[q] = pc[q] /\ rel'[q] = rel[q]
                             /\ mem'[q] = mem[q] /\ staged'[q] = staged[q]
  BY <1>1 DEF Goto, TypeOK
<1> QED BY <1>1, <1>2, <1>3, <1>4, <1>5, OnlyOne, OthersCache

\* The payload that appears is the one that was staged.
LEMMA CheckingCache ==
  ASSUME ProgressInv, CacheInv, NEW p \in Procs, CheckStep(p) \/ PublishPayload(p)
  PROVE  CacheInv'
<1> USE DEF CheckStep, PublishPayload, StepDone
<1>1. /\ pc[p] = "check" /\ Goto(p, "save") /\ TypeOK /\ Counted(p) /\ rel[p] \in Releases
      /\ UNCHANGED <<manifest, cache, rel, delivered, overlapped>>
  BY DEF ProgressInv, Counted
<1>2. ~overlapped' => OwnAssets'
  BY <1>1 DEF CacheInv, OwnCache, OwnAssets, TypeOK
<1>3. ~overlapped' => Unfinished(p)'
  BY DEF CacheInv, Unfinished
<1>4. mem[p].done \in 0..5 /\ mem'[p].done = mem[p].done + 1
  BY <1>1, StepFacts DEF TypeOK, Manifest
<1>5. ~overlapped' => OwnCache(p)'
  BY <1>1, <1>4 DEF CacheInv, OwnCache, Goto, TypeOK
<1>6. \A q \in Procs \ {p} : /\ pc'[q] = pc[q] /\ rel'[q] = rel[q]
                             /\ mem'[q] = mem[q] /\ staged'[q] = staged[q]
  BY <1>1 DEF Goto, TypeOK
<1> QED BY <1>1, <1>2, <1>3, <1>5, <1>6, OnlyOne, OthersCache

LEMMA FailStepCache ==
  ASSUME ProgressInv, CacheInv, NEW p \in Procs, FailStep(p)
  PROVE  CacheInv'
<1> USE DEF FailStep
<1>1. /\ pc[p] # "idle" /\ Goto(p, "failing") /\ TypeOK /\ rel[p] \in Releases
      /\ UNCHANGED <<manifest, payload, rel, delivered, overlapped>>
  BY DEF ProgressInv, Counted
<1>2. ~overlapped' => OwnAssets'
  BY SaveKeepsAssets
<1>3. ~overlapped' => Unfinished(p)' /\ OwnCache(p)'
  BY <1>1 DEF CacheInv, Unfinished, OwnCache, Goto, TypeOK
<1>4. \A q \in Procs \ {p} : /\ pc'[q] = pc[q] /\ rel'[q] = rel[q]
                             /\ mem'[q] = mem[q] /\ staged'[q] = staged[q]
  BY DEF Goto
<1> QED BY <1>1, <1>2, <1>3, <1>4, OnlyOne, OthersCache

LEMMA NextCacheInv == ProgressInv /\ CacheInv /\ [Next]_vars => CacheInv'
<1> SUFFICES ASSUME ProgressInv, CacheInv, [Next]_vars PROVE CacheInv'
  OBVIOUS
<1>1. ASSUME NEW p \in Procs,
             CannotStart(p) \/ Finish(p) \/ SaveFailure(p) \/ SaveFails(p) \/ Crash(p)
      PROVE  CacheInv'
  <2>1. /\ pc[p] # "idle" /\ Exit(p)
        /\ UNCHANGED manifest \/ Save(p)
        /\ UNCHANGED <<payload, delivered, overlapped>>
    BY <1>1 DEF CannotStart, Finish, SaveFailure, SaveFails, Crash, tree
  <2> QED BY <2>1, ExitCache
<1>2. ASSUME NEW r \in Releases, Deliver(r)
      PROVE  CacheInv'
  <2>1. OwnAssets'
    BY <1>2 DEF Deliver, Usable, CacheInv, OwnAssets, tree
  <2>2. Alone => Alone'
    BY <1>2 DEF Deliver, process, Alone
  <2>3. \A p \in Procs : OwnCache(p) /\ Unfinished(p) => OwnCache(p)' /\ Unfinished(p)'
    BY <1>2 DEF Deliver, tree, process, OwnCache, Unfinished
  <2> QED BY <1>2, <2>1, <2>2, <2>3 DEF CacheInv, Deliver
<1>3. CASE UNCHANGED vars
  BY <1>3 DEF vars, tree, process, CacheInv, OwnAssets, Alone, OwnCache, Unfinished
<1> QED
  BY <1>1, <1>2, <1>3, LookCache, SavingCache, RunningCache, CheckingCache, FailStepCache
     DEF Next, Progress

\* Targets receive the assets of the release they asked for, after any failure
\* or crash, as long as preparations do not overlap (LoadOrCreate and the steps
\* that fill and read the shared cache, prepare.go).
THEOREM TargetsGetTheirOwnAssets == Spec => []OwnAssets
<1>1. Init => ProgressInv /\ CacheInv
  BY InitProgressInv, InitCacheInv
<1>2. ProgressInv /\ CacheInv /\ [Next]_vars => ProgressInv' /\ CacheInv'
  BY NextProgressInv, NextCacheInv
<1>3. CacheInv => OwnAssets
  BY DEF CacheInv
<1> QED BY <1>1, <1>2, <1>3, PTL DEF Spec
=============================================================================
