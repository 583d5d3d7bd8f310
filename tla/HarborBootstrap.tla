--------------------------- MODULE HarborBootstrap ---------------------------
(***************************************************************************)
(* eva remote bootstrap (internal/remote/bootstrap.go): which Harbor the   *)
(* control host publishes to, recorded in the receipt harbor.yaml.         *)
(*                                                                         *)
(* A run loads the receipt, looks at what answers at the endpoint, and     *)
(* adopts a Harbor that others run, converting a k3s one to HTTP, or       *)
(* installs and recovers its own with Compose; it then prepares Docker,    *)
(* the private project and the credential, and writes the receipt last.    *)
(* Runs are not serialised.  Between runs the administrators deploy and    *)
(* retire Harbors, and containers stop.                                    *)
(*                                                                         *)
(* Data abstracted: every endpoint is local to the host; a Helm revision   *)
(* is the protocol it serves; a credential is whether Docker has a login.  *)
(* The command line gives no project, so there is one.                     *)
(***************************************************************************)
EXTENDS DockerTransport, Naturals

CONSTANTS
  None,          \* no receipt, no registry, no Compose configuration
  Own,           \* the Harbor that eva installs
  Requests,      \* command lines
  FirstSites,    \* what answers at the endpoints before eva is used
  MaxRuns,       \* bound: runs of bootstrap
  MaxChanges     \* bound: what administrators and failures change between

Protocols == {"http", "https"}
Sites == [Registries -> {"none", "broken"} \cup Protocols]

ASSUME BootstrapAssumption ==
  /\ Requests \subseteq [registry : Registries \cup {None}, replace : BOOLEAN,
                         external : BOOLEAN, protocol : {"auto"} \cup Protocols]
  /\ FirstSites \subseteq [Registries -> {"none"} \cup Protocols]
  /\ {None, Own} \cap Registries = {} /\ None # Own
  /\ MaxRuns \in Nat /\ MaxChanges \in Nat

VARIABLES
  receipt,    \* harbor.yaml
  compose,    \* the endpoint in the harbor.yml of the managed Harbor
  site,       \* site[r]: what a Harbor that others run answers at r
  project,    \* project[h]: the EVA project in the Harbor of h, or in Own
  login,      \* the registries docker has a credential for
  boot,       \* boot[p]: the next step of p
  want,       \* want[p]: its command line
  base,       \* base[p]: the receipt it validates again, or None
  draft,      \* draft[p]: the receipt it prepares, and while p converts a
              \* Harbor, the protocol of the revision to roll back to
  asked,      \* asked[p]: the operator has supplied a credential
  crowded,    \* history: bootstraps overlap
  meddled,    \* history: a conversion was killed or could not be rolled back
  overlaid,   \* history: endpoints where others came over containers of eva
  runs, changes

vars == <<transportVars, receipt, compose, site, project, login, boot, want,
          base, draft, asked, crowded, meddled, overlaid, runs, changes>>
noted == <<meddled, overlaid>>
world == <<receipt, compose, site, project, login, noted>>
run == <<want, base, draft, asked, crowded, runs, changes>>

-----------------------------------------------------------------------------
Receipts == [registry : Registries, managed : {"eva", "external"}, protocol : Protocols]

Converting == {"upgrade", "verify", "rollback"}
Publication == {"project", "create", "reread", "hide", "confirm", "token"}
BootSteps == Converting \cup Publication \cup
  {"idle", "load", "detect", "revision", "own", "ownAbsent", "runtime", "docker",
   "publishing", "transport", "probe", "recover", "down", "configure", "up",
   "credential", "login", "check", "write", "ok", "failed"}

Busy(p) == boot[p] # "idle"
Registry(p) == draft[p].registry
IsExternal(p) == draft[p].managed = "external"
Revalidates(p) == base[p] # None

\* The Harbor that has the endpoint r.
HarborAt(r) == IF site[r] = "none" THEN Own ELSE r

\* What answers at r: a Harbor of others, or the managed one when it runs.
AnswersOnceUp(r) ==
  IF site[r] # "none" THEN site[r] ELSE IF compose = r THEN "http" ELSE "none"
Answers(r) ==
  IF site[r] = "none" /\ ~(containers = "up" /\ docker = "up") THEN "none"
  ELSE AnswersOnceUp(r)
Ready(p) == Answers(Registry(p)) = draft[p].protocol

NoRequest == [registry |-> None, replace |-> FALSE, external |-> FALSE, protocol |-> "auto"]
NoDraft == [registry |-> CHOOSE r \in Registries : TRUE, managed |-> "eva", protocol |-> "http"]

Init ==
  /\ TransportInit
  /\ receipt = None /\ compose = None
  /\ site \in FirstSites
  /\ project = [h \in Registries \cup {Own} |-> "absent"]
  /\ login = {}
  /\ boot = [p \in Processes |-> "idle"]
  /\ want = [p \in Processes |-> NoRequest]
  /\ base = [p \in Processes |-> None]
  /\ draft = [p \in Processes |-> NoDraft]
  /\ asked = [p \in Processes |-> FALSE]
  /\ crowded = FALSE /\ meddled = FALSE /\ overlaid = {}
  /\ runs = 0 /\ changes = 0

-----------------------------------------------------------------------------
To(p, next) == boot' = [boot EXCEPT ![p] = next]
Fail(p) == To(p, "failed")
Draft(p, d) == draft' = [draft EXCEPT ![p] = d]

Begin(p, w) ==
  /\ boot[p] = "idle" /\ runs < MaxRuns
  /\ runs' = runs + 1
  /\ want' = [want EXCEPT ![p] = w]
  /\ crowded' = \E q \in Processes : Busy(q)
  /\ To(p, "load")
  /\ UNCHANGED <<transportVars, world, base, draft, asked, changes>>

\* Without --registry the receipt names it.
RequestedRegistry(w) ==
  IF w.registry = None /\ receipt # None THEN receipt.registry ELSE w.registry

\* Faulty variant: the first run does without --registry.
AcceptedUnasked(w) ==
  receipt = None \/ w.registry = None \/ (w.registry = receipt.registry <=> ~w.replace)

\* A new identity needs --replace-registry, and only a new one accepts it.
Accepted(w) ==
  IF receipt = None THEN ~w.replace /\ w.registry # None
  ELSE w.registry = None \/ (w.registry = receipt.registry <=> ~w.replace)

Load(p) ==
  /\ boot[p] = "load"
  /\ IF ~Accepted(want[p]) THEN Fail(p) /\ UNCHANGED <<base, draft>>
     ELSE /\ To(p, "detect")
          /\ IF receipt = None \/ want[p].replace
             THEN /\ base' = [base EXCEPT ![p] = None]
                  /\ Draft(p, [NoDraft EXCEPT !.registry = RequestedRegistry(want[p])])
             ELSE base' = [base EXCEPT ![p] = receipt] /\ Draft(p, receipt)
  /\ UNCHANGED <<transportVars, world, want, asked, crowded, runs, changes>>

-----------------------------------------------------------------------------
(* Which Harbor *)

\* HTTP is preferred; a refused connection is an absent Harbor, and anything
\* that is not a healthy one is an error.
Detected(r, protocol) ==
  LET answer == Answers(r)
      chosen == IF protocol = "auto" THEN "http" ELSE protocol
  IN  {<<"error", FALSE>>} \cup
      CASE answer = "none" -> {<<chosen, FALSE>>}
        [] answer \in Protocols /\ protocol \in {"auto", answer} -> {<<answer, TRUE>>}
        [] OTHER -> {}

\* The first of two tests on what was found; the second follows the ownership.
Adopt(p, protocol, present) ==
  LET w == want[p]
      convert == present /\ protocol = "https" /\ w.protocol = "auto"
  IN  IF Revalidates(p)
      THEN /\ Draft(p, IF present THEN [draft[p] EXCEPT !.protocol = protocol] ELSE draft[p])
           /\ To(p, IF convert THEN "revision" ELSE IF present THEN "own" ELSE "ownAbsent")
      ELSE /\ Draft(p, [draft[p] EXCEPT !.protocol = protocol,
                                        !.managed = IF present THEN "external" ELSE "eva"])
           /\ To(p, CASE convert -> "revision"
                      [] ~present /\ (w.external \/ protocol = "https") -> "failed"
                      [] OTHER -> "runtime")

Detect(p) ==
  /\ boot[p] = "detect"
  /\ \E found \in Detected(Registry(p), want[p].protocol) :
       IF found[1] = "error" THEN Fail(p) /\ UNCHANGED draft
       ELSE Adopt(p, found[1], found[2])
  /\ UNCHANGED <<transportVars, world, want, base, asked, crowded, runs, changes>>

\* Compose has a container of the managed Harbor for this very endpoint.
Owned(p) ==
  draft[p].protocol = "http" /\ compose = Registry(p) /\ containers # "none" /\ docker = "up"

\* Faulty variant: the receipt alone says who runs the Harbor.
DecideOwnerByReceipt(p) ==
  /\ boot[p] \in {"own", "ownAbsent"}
  /\ To(p, IF IsExternal(p) THEN "publishing" ELSE "transport")
  /\ IF IsExternal(p) THEN UNCHANGED transportVars ELSE BeginTransport(p, Registry(p))
  /\ UNCHANGED <<world, run>>

\* A managed receipt whose Harbor is not Compose's becomes an external one; an
\* absent Harbor that is not managed is an error.
DecideOwner(p) ==
  /\ boot[p] \in {"own", "ownAbsent"}
  /\ LET w == want[p]
         kept == IF IsExternal(p) \/ ~Owned(p) THEN "external" ELSE "eva"
         managed == IF w.external THEN "external" ELSE kept
         d == [draft[p] EXCEPT !.managed = managed,
                 !.protocol = IF w.external /\ w.protocol # "auto" THEN w.protocol ELSE @]
     IN  IF boot[p] = "ownAbsent" /\ kept = "external"
         THEN Fail(p) /\ UNCHANGED <<draft, transportVars>>
         ELSE /\ Draft(p, d)
              /\ IF managed = "external"
                 THEN To(p, "publishing") /\ UNCHANGED transportVars
                 ELSE To(p, "transport") /\ BeginTransport(p, d.registry)
  /\ UNCHANGED <<world, want, base, asked, crowded, runs, changes>>

-----------------------------------------------------------------------------
(* convertK3sHarborHTTP *)

Serve(r, answer) == site' = [site EXCEPT ![r] = answer]
worldButSite == <<receipt, compose, project, login>>

\* What the stored chart gives with the values for HTTP.
Renderings == {"sameStorage", "otherStorage", "error"}

\* What failed is not the deployed revision.
Deployed(r) == IF site[r] = "http" THEN "http" ELSE "https"

\* The deployed revision is read and saved, whichever protocol it serves by
\* now, and its chart rendered.
ReadRevision(p) ==
  /\ boot[p] = "revision"
  /\ \E rendering \in Renderings :
       IF rendering = "sameStorage"
       THEN To(p, "upgrade") /\ Draft(p, [draft[p] EXCEPT !.protocol = Deployed(Registry(p))])
       ELSE Fail(p) /\ UNCHANGED draft
  /\ UNCHANGED <<transportVars, world, want, base, asked, crowded, runs, changes>>

Upgrade(p) ==
  /\ boot[p] = "upgrade"
  /\ \/ Serve(Registry(p), "http") /\ To(p, "verify")
     \/ Serve(Registry(p), "broken") /\ To(p, "rollback")
     \/ UNCHANGED site /\ To(p, "rollback")
  /\ UNCHANGED <<transportVars, worldButSite, noted, run>>

\* One minute for the health of the HTTP endpoint.
VerifyUpgrade(p) ==
  /\ boot[p] = "verify"
  /\ \/ /\ Answers(Registry(p)) = "http"
        /\ Draft(p, [draft[p] EXCEPT !.protocol = "http"])
        /\ To(p, IF Revalidates(p) THEN "own" ELSE "runtime")
     \/ To(p, "rollback") /\ UNCHANGED draft
  /\ UNCHANGED <<transportVars, world, want, base, asked, crowded, runs, changes>>

Rollback(p) ==
  /\ boot[p] = "rollback"
  /\ Fail(p)
  /\ \/ Serve(Registry(p), draft[p].protocol) /\ UNCHANGED meddled
     \/ meddled' = TRUE /\ UNCHANGED site
  /\ UNCHANGED <<transportVars, worldButSite, overlaid, run>>

-----------------------------------------------------------------------------
(* Docker and the transport *)

\* A fresh identity also needs the managed runtime.
EnsureRuntime(p) ==
  /\ boot[p] = "runtime"
  /\ To(p, IF IsExternal(p) THEN "publishing" ELSE "docker") \/ Fail(p)
  /\ UNCHANGED <<transportVars, world, run>>

EnsureDocker(p) ==
  /\ boot[p] = "docker"
  /\ \/ /\ StartDocker
        /\ aim' = [aim EXCEPT ![p] = Registry(p)]
        /\ Move(p, "read")
        /\ To(p, "transport")
        /\ UNCHANGED <<daemon, snapshot, first, muddled>>
     \/ Fail(p) /\ UNCHANGED transportVars
  /\ UNCHANGED <<world, run>>

\* prepareExternalTransport
EnsurePublishingDocker(p) ==
  /\ boot[p] = "publishing"
  /\ \/ /\ StartDocker
        /\ IF draft[p].protocol = "http"
           THEN /\ aim' = [aim EXCEPT ![p] = Registry(p)]
                /\ Move(p, "read") /\ To(p, "transport")
           ELSE To(p, "credential") /\ UNCHANGED <<aim, move>>
        /\ UNCHANGED <<daemon, snapshot, first, muddled>>
     \/ Fail(p) /\ UNCHANGED transportVars
  /\ UNCHANGED <<world, run>>

Transport(p) ==
  /\ boot[p] = "transport"
  /\ TransportStep(p)
  /\ UNCHANGED <<world, run, boot>>

FinishTransport(p) ==
  /\ boot[p] = "transport"
  /\ To(p, CASE move[p] = "failed" -> "failed"
             [] move[p] = "ok" /\ (IsExternal(p) \/ Revalidates(p)) -> "probe"
             [] OTHER -> "down")
  /\ EndTransport(p)
  /\ UNCHANGED <<world, run>>

\* A minute for a Harbor of others, ten seconds for the managed one, which
\* Compose then brings up.
Probe(p) ==
  /\ boot[p] = "probe"
  /\ \/ Ready(p) /\ To(p, "credential")
     \/ To(p, IF IsExternal(p) THEN "failed" ELSE "recover")
  /\ UNCHANGED <<transportVars, world, run>>

ComposeUp == docker = "up" /\ compose # None /\ containers' = "up"
transportButContainers == <<daemon, live, docker, move, aim, snapshot, first, muddled>>

\* Three minutes until the API answers.
Recover(p) ==
  /\ boot[p] = "recover"
  /\ \/ /\ ComposeUp
        /\ \/ AnswersOnceUp(Registry(p)) = "http" /\ To(p, "credential")
           \/ Fail(p)
     \/ Fail(p) /\ UNCHANGED containers
  /\ UNCHANGED <<transportButContainers, world, run>>

-----------------------------------------------------------------------------
(* setup_harbor.sh *)

StopCompose(p) ==
  /\ boot[p] = "down"
  /\ \/ /\ docker = "up"
        /\ containers' = IF compose = None THEN containers ELSE "none"
        /\ To(p, "configure")
     \/ Fail(p) /\ UNCHANGED containers
  /\ UNCHANGED <<transportButContainers, world, run>>

\* harbor.yml is rewritten in place for the new endpoint.
Configure(p) ==
  /\ boot[p] = "configure"
  /\ \/ compose' = Registry(p) /\ To(p, "up")
     \/ Fail(p) /\ UNCHANGED compose
  /\ UNCHANGED <<transportVars, receipt, site, project, login, noted, run>>

\* Compose comes up, the API answers, and the project is there, whoever
\* created it.
StartCompose(p) ==
  /\ boot[p] = "up"
  /\ \/ /\ ComposeUp
        /\ \/ /\ AnswersOnceUp(Registry(p)) = "http"
              /\ project' = [project EXCEPT ![HarborAt(Registry(p))] =
                               IF @ = "absent" THEN "private" ELSE @]
              /\ To(p, "credential")
           \/ Fail(p) /\ UNCHANGED project
     \/ Fail(p) /\ UNCHANGED <<containers, project>>
  /\ UNCHANGED <<transportButContainers, receipt, compose, site, login, noted, run>>

-----------------------------------------------------------------------------
(* prepareCredential, ensureHarborPublication *)

\* The password in a harbor.yml that is for the same endpoint.
ManagedPassword(p) == compose = Registry(p)
\* Docker has an account for the endpoint.
StoredCredential(p) == Registry(p) \in login
AskOperator(p) == asked' = [asked EXCEPT ![p] = TRUE] /\ To(p, "project")

Credential(p) ==
  /\ boot[p] = "credential"
  /\ IF IsExternal(p)
     THEN \/ /\ StoredCredential(p) \/ ManagedPassword(p)
             /\ To(p, "project") /\ UNCHANGED asked
          \/ ~StoredCredential(p) /\ AskOperator(p)
          \/ Fail(p) /\ UNCHANGED asked
     ELSE To(p, IF ManagedPassword(p) THEN "login" ELSE "failed") /\ UNCHANGED asked
  /\ UNCHANGED <<transportVars, world, want, base, draft, crowded, runs, changes>>

EvaProject(p) == project[HarborAt(Registry(p))]
SetProject(p, visibility) ==
  project' = [project EXCEPT ![HarborAt(Registry(p))] = visibility]
worldButProject == <<receipt, compose, site, login, noted>>

ReadProject(p) ==
  /\ boot[p] \in {"project", "reread"} /\ Ready(p)
  /\ To(p, CASE EvaProject(p) = "private" -> "token"
             [] EvaProject(p) = "public" -> "hide"
             [] OTHER -> IF boot[p] = "project" THEN "create" ELSE "failed")
  /\ UNCHANGED <<transportVars, world, run>>

\* Faulty variant: a project that exists by now is taken for the private one.
CreateProjectTrusting(p) ==
  /\ boot[p] = "create" /\ Ready(p)
  /\ SetProject(p, IF EvaProject(p) = "absent" THEN "private" ELSE EvaProject(p))
  /\ To(p, "token")
  /\ UNCHANGED <<transportVars, worldButProject, run>>

\* 201, or 409 when someone was faster; what there is now is read again.
CreateProject(p) ==
  /\ boot[p] = "create" /\ Ready(p)
  /\ SetProject(p, IF EvaProject(p) = "absent" THEN "private" ELSE EvaProject(p))
  /\ To(p, "reread")
  /\ UNCHANGED <<transportVars, worldButProject, run>>

HideProject(p) ==
  /\ boot[p] = "hide" /\ Ready(p) /\ EvaProject(p) # "absent"
  /\ SetProject(p, "private")
  /\ To(p, "confirm")
  /\ UNCHANGED <<transportVars, worldButProject, run>>

ConfirmPrivate(p) ==
  /\ boot[p] = "confirm" /\ Ready(p)
  /\ To(p, IF EvaProject(p) = "private" THEN "token" ELSE "failed")
  /\ UNCHANGED <<transportVars, world, run>>

\* Faulty variant: the token is taken for Docker's credential.
CheckTokenOnly(p) ==
  /\ boot[p] = "token" /\ Ready(p)
  /\ To(p, "check")
  /\ UNCHANGED <<transportVars, world, run>>

\* A token with pull and push; a managed Harbor was logged in to before.
CheckToken(p) ==
  /\ boot[p] = "token" /\ Ready(p)
  /\ To(p, IF IsExternal(p) THEN "login" ELSE "check")
  /\ UNCHANGED <<transportVars, world, run>>

\* Any request fails, or the account is refused: the operator is asked once.
PublicationFails(p) ==
  /\ boot[p] \in Publication
  /\ \/ Fail(p) /\ UNCHANGED asked
     \/ IsExternal(p) /\ ~asked[p] /\ AskOperator(p)
  /\ UNCHANGED <<transportVars, world, want, base, draft, crowded, runs, changes>>

\* docker login asks the registry, over HTTP only when dockerd may.
Login(p) ==
  /\ boot[p] = "login"
  /\ \/ /\ docker = "up" /\ Ready(p)
        /\ draft[p].protocol = "http" => Registry(p) \in live
        /\ login' = login \cup {Registry(p)}
        /\ To(p, IF IsExternal(p) THEN "check" ELSE "project")
     \/ Fail(p) /\ UNCHANGED login
  /\ UNCHANGED <<transportVars, receipt, compose, site, project, noted, run>>

-----------------------------------------------------------------------------
\* checkManagedHarbor; a receipt that is confirmed as it was is not rewritten.
Check(p) ==
  /\ boot[p] = "check"
  /\ \/ /\ docker = "up" /\ Ready(p)
        /\ ~IsExternal(p) => compose = Registry(p) /\ EvaProject(p) # "absent"
        /\ To(p, IF base[p] = draft[p] THEN "ok" ELSE "write")
     \/ Fail(p)
  /\ UNCHANGED <<transportVars, world, run>>

WriteReceipt(p) ==
  /\ boot[p] = "write"
  /\ \/ receipt' = draft[p] /\ To(p, "ok")
     \/ Fail(p) /\ UNCHANGED receipt
  /\ UNCHANGED <<transportVars, compose, site, project, login, noted, run>>

Forget(p) ==
  /\ want' = [want EXCEPT ![p] = NoRequest]
  /\ base' = [base EXCEPT ![p] = None]
  /\ Draft(p, NoDraft)
  /\ asked' = [asked EXCEPT ![p] = FALSE]
  /\ To(p, "idle")
  /\ UNCHANGED <<crowded, runs, changes>>

End(p) ==
  /\ boot[p] \in {"ok", "failed"}
  /\ Forget(p)
  /\ UNCHANGED <<transportVars, world>>

\* A killed upgrade may leave a Harbor that answers nothing.
Kill(p) ==
  /\ boot[p] \notin {"idle", "ok", "failed"}
  /\ Forget(p)
  /\ IF boot[p] = "transport" THEN KillTransport(p) ELSE UNCHANGED transportVars
  /\ meddled' = (meddled \/ boot[p] \in Converting)
  /\ \/ UNCHANGED site
     \/ boot[p] = "upgrade" /\ Serve(Registry(p), "broken")
  /\ UNCHANGED <<worldButSite, overlaid>>

-----------------------------------------------------------------------------
(* Everyone else *)

Change == changes < MaxChanges /\ changes' = changes + 1
runButChanges == <<want, base, draft, asked, crowded, runs>>
Quiet == \A p \in Processes : ~Busy(p)

\* A Harbor of others comes, at an endpoint where nothing answers, or goes.
\* Containers of eva that do not run may be there.
DeployHarbor(r, protocol) ==
  /\ Quiet /\ Change
  /\ Answers(r) = "none"
  /\ Serve(r, protocol)
  /\ overlaid' = IF compose = r /\ containers # "none" THEN overlaid \cup {r} ELSE overlaid
  /\ UNCHANGED <<transportVars, worldButSite, meddled, boot, runButChanges>>

RetireHarbor(r) ==
  /\ Quiet /\ Change
  /\ site[r] # "none"
  /\ Serve(r, "none")
  /\ overlaid' = overlaid \ {r}
  /\ project' = [project EXCEPT ![r] = "absent"]
  /\ UNCHANGED <<transportVars, receipt, compose, login, meddled, boot, runButChanges>>

\* Somebody creates the project by hand, at any time.
CreatePublic(h) ==
  /\ Change
  /\ project[h] = "absent"
  /\ \E r \in Registries : HarborAt(r) = h /\ Answers(r) \in Protocols
  /\ project' = [project EXCEPT ![h] = "public"]
  /\ UNCHANGED <<transportVars, worldButProject, boot, runButChanges>>

\* The containers go down, or are taken down for good.
StopContainers ==
  /\ Quiet /\ Change
  /\ containers = "up"
  /\ containers' \in {"stopped", "none"}
  /\ UNCHANGED <<transportButContainers, world, boot, runButChanges>>

BootStep(p) ==
  \/ Load(p) \/ Detect(p) \/ DecideOwner(p)
  \/ ReadRevision(p) \/ Upgrade(p) \/ VerifyUpgrade(p) \/ Rollback(p)
  \/ EnsureRuntime(p) \/ EnsureDocker(p) \/ EnsurePublishingDocker(p)
  \/ Transport(p) \/ FinishTransport(p) \/ Probe(p) \/ Recover(p)
  \/ StopCompose(p) \/ Configure(p) \/ StartCompose(p)
  \/ Credential(p) \/ ReadProject(p) \/ CreateProject(p) \/ HideProject(p)
  \/ ConfirmPrivate(p) \/ CheckToken(p) \/ PublicationFails(p) \/ Login(p)
  \/ Check(p) \/ WriteReceipt(p)

Others ==
  \/ \E r \in Registries :
       RetireHarbor(r) \/ \E protocol \in Protocols : DeployHarbor(r, protocol)
  \/ \E h \in Registries \cup {Own} : CreatePublic(h)
  \/ StopContainers

Next ==
  \/ \E p \in Processes :
       \/ \E w \in Requests : Begin(p, w)
       \/ BootStep(p) \/ End(p) \/ Kill(p)
  \/ Others

Spec == Init /\ [][Next]_vars

-----------------------------------------------------------------------------
TypeOK ==
  /\ TransportTypeOK
  /\ receipt \in Receipts \cup {None}
  /\ compose \in Registries \cup {None}
  /\ site \in Sites
  /\ project \in [Registries \cup {Own} -> {"absent", "public", "private"}]
  /\ login \subseteq Registries
  /\ boot \in [Processes -> BootSteps]
  /\ want \in [Processes -> Requests \cup {NoRequest}]
  /\ base \in [Processes -> Receipts \cup {None}]
  /\ draft \in [Processes -> Receipts]
  /\ asked \in [Processes -> BOOLEAN]
  /\ crowded \in BOOLEAN /\ meddled \in BOOLEAN /\ overlaid \subseteq Registries
  /\ runs \in 0..MaxRuns /\ changes \in 0..MaxChanges

\* A Harbor that others run survives eva: a conversion ends with one that
\* answers, unless it was killed or its rollback failed, and eva's containers
\* never run at an endpoint that someone else's Harbor has, however stale the
\* receipt is (convertK3sHarborHTTP, detectExistingHarbor, ownsManagedHarbor).
\* The exception are endpoints where that Harbor came while containers of eva
\* were there that did not run: those the code counts as its own, and starts.
ForeignHarborKept ==
  /\ (~meddled /\ \A p \in Processes : boot[p] \notin Converting)
       => \A r \in Registries : site[r] # "broken"
  /\ (compose # None /\ containers = "up" /\ compose \notin overlaid)
       => site[compose] = "none"

\* The receipt names a registry only when its EVA project is private, even
\* when others create the project while bootstraps run
\* (ensureHarborPublicationWithClient).
ProjectIsPrivate ==
  [][receipt' # receipt => project[HarborAt(receipt'.registry)] = "private"]_vars

\* When no other bootstrap runs, what the receipt says is what there is when it
\* is written: a Harbor that answers in its protocol, a stored login, and a
\* Docker that may use it (Bootstrap, prepareExternalTransport).
ReceiptIsReady ==
  [][(receipt' # receipt /\ ~crowded) =>
       /\ Answers(receipt'.registry) = receipt'.protocol
       /\ receipt'.registry \in login
       /\ receipt'.protocol = "http" => receipt'.registry \in live]_vars
=============================================================================
