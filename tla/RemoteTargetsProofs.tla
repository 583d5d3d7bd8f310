------------------------- MODULE RemoteTargetsProofs -------------------------
(***************************************************************************)
(* What is proved of the targets of a control host, for any number of      *)
(* processes, names, hosts, keys and commands.                             *)
(*                                                                         *)
(* Three invariants build on each other: what a command was asked for and  *)
(* which server its connection talks to (CommandInv), which key is on      *)
(* record for a host (RecordInv), and what the files of a name hold at     *)
(* every step of the commands for it (StoreInv).                           *)
(***************************************************************************)
EXTENDS RemoteTargets, TLAPS

-----------------------------------------------------------------------------
(* The invariants *)

AddOnly == {"lookup", "accept", "identity", "isNew", "config", "credential", "undoConfig",
            "undo", "undoRest", "left"}
RemoveOnly == {"confirm", "find", "dropCredential", "dropConfig"}
LoadOnly == {"loadConfig", "loadCredential"}
InstallOnly == {"hostKey", "record", "fill"}
Asking == {"add", "install"}

JobAgrees(p) ==
  /\ cmd[p] = "idle" => job[p] = None
  /\ cmd[p] # "idle" =>
       /\ job[p] \in Jobs
       /\ IF job[p].kind = "install" THEN Name(p) = None ELSE Name(p) \in Names
       /\ job[p].kind \in Asking => Answer(p) \in Answers \cup Inventory
       /\ (job[p].kind \in Asking /\ cmd[p] \notin {"lookup", "hostKey", "display", "failed"})
            => job[p].key \in Keys
  /\ cmd[p] \in AddOnly => job[p].kind = "add"
  /\ cmd[p] \in RemoveOnly => job[p].kind = "remove"
  /\ cmd[p] \in LoadOnly => job[p].kind \in {"verify", "publish"}
  /\ cmd[p] \in InstallOnly => job[p].kind = "install"
  /\ cmd[p] \in {"display", "open"} => job[p].kind \in Asking
  /\ cmd[p] = "deliver" => job[p].kind \in {"publish", "install"}
  /\ cmd[p] = "connect" => job[p].kind # "remove"
  /\ cmd[p] = "loadCredential" => job[p].entry \in Entries

\* What a connection trusts and talks to.
LinkAgrees(p) ==
  /\ step[p] # "idle" => link[p] \in Links
  /\ step[p] \in {"runtime", "master"} => knownHosts[p] = Peer(p).key
  /\ step[p] \in OnMaster => session[p] = Peer(p).key

\* Commands that hold a connection, and what it is to.
Holding == {"connect", "isNew", "config", "credential", "record", "fill", "deliver"}

HoldAgrees(p) ==
  cmd[p] \in Holding =>
    /\ step[p] # "idle" /\ link[p].name = Name(p)
    /\ cmd[p] # "connect" => step[p] = "up"
    /\ job[p].kind \in Asking =>
         link[p].secret = Answer(p).secret /\ Peer(p) = Entry(Answer(p), job[p].key)

CommandInv ==
  TypeOK /\ \A p \in Processes : JobAgrees(p) /\ LinkAgrees(p) /\ HoldAgrees(p)

RecordAgrees(p) ==
  cmd[p] # "idle" /\ job[p].kind = "install" =>
    /\ cmd[p] = "display" => job[p].isNew
    /\ cmd[p] = "fill" => hostKey[Answer(p).host] = "empty"
    /\ \/ cmd[p] \in {"open", "connect"} /\ ~job[p].isNew
       \/ cmd[p] = "deliver"
       => hostKey[Answer(p).host] = job[p].key

\* Only one installation has an empty record to fill.
OneFills ==
  \A p, q \in Processes :
    cmd[p] = "fill" /\ cmd[q] = "fill" /\ Answer(p).host = Answer(q).host => p = q

RecordInv == OneFills /\ \A p \in Processes : RecordAgrees(p)

\* A command that adds an undisturbed name is alone with it.
Alone ==
  \A p, q \in Processes :
    (/\ p # q /\ cmd[p] # "idle" /\ cmd[q] # "idle"
     /\ Name(p) = Name(q) /\ Name(p) \in Names \ disturbed)
       => job[p].kind # "add"

Agreed(n, secret, key) == [name |-> n, secret |-> secret, key |-> key] \in accepted

StoreAgrees(n) ==
  Credentials(n).yaml # None =>
    config[n] # None /\ Agreed(n, Credentials(n).yaml, config[n].key)

\* The files of the name while p adds it.
BeforeIdentity == {"display", "accept", "identity"}
BeforeConfig == {"open", "connect", "isNew", "config", "undo"}
AfterConfig == {"credential", "undoConfig"}
WroteIdentity(p) ==
  IF Answer(p).auth = "public_key"
  THEN job[p].found[2] = EmptyDirectory /\ Credentials(Name(p)).identity = Answer(p).secret
  ELSE Credentials(Name(p)) = job[p].found[2]

AddAgrees(p) ==
  /\ cmd[p] = "lookup" => Store(Name(p)) = job[p].found
  /\ cmd[p] \in BeforeIdentity \cup BeforeConfig \cup AfterConfig =>
       job[p].found = <<None, job[p].found[2]>> /\ Credentials(Name(p)).yaml = None
  /\ cmd[p] \in BeforeIdentity \cup BeforeConfig => config[Name(p)] = None
  /\ cmd[p] \in BeforeIdentity => Credentials(Name(p)) = job[p].found[2]
  /\ cmd[p] = "identity" => Answer(p).auth = "public_key"
  /\ cmd[p] \in {"undoRest", "left"} => Credentials(Name(p)).yaml = None
  /\ cmd[p] \in BeforeConfig \cup AfterConfig => WroteIdentity(p)
  /\ cmd[p] \in {"identity"} \cup BeforeConfig \cup AfterConfig =>
       Agreed(Name(p), Answer(p).secret, job[p].key)
  /\ cmd[p] \in {"config"} \cup AfterConfig => job[p].isNew
  /\ cmd[p] = "credential" => config[Name(p)] = Entry(Answer(p), job[p].key)
  /\ cmd[p] = "failed" => Store(Name(p)) = job[p].found
  /\ cmd[p] = "ok" =>
       /\ config[Name(p)] = Entry(Answer(p), job[p].key)
       /\ Credentials(Name(p)).yaml = Answer(p).secret
       /\ Answer(p).auth = "public_key" => Credentials(Name(p)).identity = Answer(p).secret

CommandAgrees(p) ==
  cmd[p] # "idle" /\ Name(p) \in Names \ disturbed =>
    /\ job[p].kind = "add" => AddAgrees(p)
    /\ cmd[p] = "dropConfig" => Credentials(Name(p)).yaml = None
    /\ cmd[p] = "loadCredential" /\ Credentials(Name(p)).yaml # None =>
         job[p].entry = config[Name(p)]

LinkIsAgreed(p) ==
  step[p] # "idle" /\ link[p].name \in Names \ disturbed =>
    Agreed(link[p].name, link[p].secret, Peer(p).key)

StoreInv ==
  /\ Alone
  /\ \A n \in Names \ disturbed : StoreAgrees(n)
  /\ \A p \in Processes : CommandAgrees(p) /\ LinkIsAgreed(p)
  /\ SecretOnlyToAcceptedKey

-----------------------------------------------------------------------------
(* What a command was asked for *)

LEMMA CredentialsType ==
  ASSUME TypeOK, NEW n \in Names
  PROVE  Credentials(n) \in Directories
BY TargetsAssumption DEF TypeOK, Credentials, EmptyDirectory, Directories

LEMMA EntryType ==
  ASSUME NEW a \in Answers \cup Inventory, NEW k \in Keys
  PROVE  Entry(a, k) \in Entries
BY TargetsAssumption DEF Entry, Entries

LEMMA AnswerType ==
  ASSUME NEW a \in Answers \cup Inventory
  PROVE  a.host \in Hosts /\ a.secret \in Secrets /\ a.auth \in Methods
BY TargetsAssumption

LEMMA CommandInvInit == Init => CommandInv
<1> SUFFICES ASSUME Init PROVE CommandInv
  OBVIOUS
<1>1. TypeOK
  BY TargetsAssumption DEF Init, LinkInit, TypeOK, LinkTypeOK, LinkSteps, Steps
<1>2. ASSUME NEW p \in Processes PROVE JobAgrees(p) /\ LinkAgrees(p) /\ HoldAgrees(p)
  BY DEF Init, LinkInit, JobAgrees, LinkAgrees, HoldAgrees, AddOnly, RemoveOnly, LoadOnly,
     InstallOnly, OnMaster, Holding
<1> QED BY <1>1, <1>2 DEF CommandInv

\* A command moves on: what the others were asked for and hold is the same.
LEMMA OneCommandSteps ==
  ASSUME CommandInv, NEW p \in Processes, NEW s \in Steps, NEW j \in Jobs \cup {None},
         cmd' = [cmd EXCEPT ![p] = s], job' = [job EXCEPT ![p] = j],
         \A q \in Processes \ {p} : /\ step'[q] = step[q] /\ link'[q] = link[q]
                                    /\ knownHosts'[q] = knownHosts[q]
                                    /\ session'[q] = session[q],
         JobAgrees(p)' /\ LinkAgrees(p)' /\ HoldAgrees(p)'
  PROVE  /\ \A q \in Processes : (JobAgrees(q) /\ LinkAgrees(q) /\ HoldAgrees(q))'
         /\ cmd' \in [Processes -> Steps] /\ job' \in [Processes -> Jobs \cup {None}]
<1>1. cmd' \in [Processes -> Steps] /\ job' \in [Processes -> Jobs \cup {None}]
  BY DEF CommandInv, TypeOK
<1>2. ASSUME NEW q \in Processes \ {p}
      PROVE  (JobAgrees(q) /\ LinkAgrees(q) /\ HoldAgrees(q))'
  <2>1. cmd'[q] = cmd[q] /\ job'[q] = job[q] BY DEF CommandInv, TypeOK
  <2>2. JobAgrees(q) /\ LinkAgrees(q) /\ HoldAgrees(q) BY DEF CommandInv
  <2>3. JobAgrees(q)' BY <2>1, <2>2 DEF JobAgrees, Name, Answer
  <2>4. LinkAgrees(q)' BY <2>2 DEF LinkAgrees, Peer
  <2>5. HoldAgrees(q)' BY <2>1, <2>2 DEF HoldAgrees, Peer, Name, Answer, Entry
  <2> QED BY <2>3, <2>4, <2>5
<1> QED BY <1>1, <1>2

\* The connections stay as they are.
LEMMA SameLink ==
  ASSUME CommandInv, NEW p \in Processes, UNCHANGED linkVars
  PROVE  LinkTypeOK' /\ LinkAgrees(p)'
BY DEF CommandInv, TypeOK, LinkTypeOK, LinkAgrees, Peer, linkVars

LEMMA BeginJob == ASSUME CommandInv, NEW p \in Processes, Begin(p) PROVE CommandInv'
<1>1. PICK kind \in Kinds, n \in Names \cup {None}, a \in Answers \cup Inventory \cup {None} :
        /\ Start(p, kind, n, a)
        /\ IF kind = "install" THEN n = None ELSE n \in Names
        /\ kind \in Asking => a \in Answers \cup Inventory
  BY DEF Begin, Kinds, Asking
<1> DEFINE found == IF n = None THEN <<None, EmptyDirectory>> ELSE Store(n)
           j == [kind |-> kind, name |-> n, answer |-> a, key |-> None, entry |-> None,
                 isNew |-> FALSE, found |-> found]
<1>2. found \in (Entries \cup {None}) \X Directories
  <2>1. EmptyDirectory \in Directories BY DEF EmptyDirectory, Directories
  <2>2. CASE n = None BY <2>1, <2>2
  <2>3. CASE n # None
    BY <2>3, CredentialsType DEF Store, CommandInv, TypeOK
  <2> QED BY <2>2, <2>3
<1> HIDE DEF found
<1>3. j \in Jobs BY <1>2 DEF Jobs
<1>4. /\ j.kind = kind /\ j.name = n /\ j.answer = a
  OBVIOUS
<1>5. cmd[p] = "idle" /\ cmd' = [cmd EXCEPT ![p] = FirstStep(kind)] /\ job' = [job EXCEPT ![p] = j]
  BY <1>1 DEF Start, To, found
<1> HIDE DEF j
<1>6. FirstStep(kind) \in Steps /\
      FirstStep(kind) \in (IF kind = "add" THEN {"lookup"} ELSE IF kind = "remove" THEN {"confirm"}
                           ELSE IF kind = "install" THEN {"hostKey"} ELSE {"loadConfig"})
  BY DEF FirstStep, Steps, LoadOnly, Kinds
<1>7. cmd'[p] = FirstStep(kind) /\ job'[p] = j
  BY <1>5 DEF CommandInv, TypeOK
<1>8. JobAgrees(p)'
  BY <1>1, <1>3, <1>4, <1>6, <1>7
     DEF JobAgrees, Name, Answer, AddOnly, RemoveOnly, LoadOnly, InstallOnly, Asking, Kinds
<1>9. commands' \in 0..MaxCommands /\ disturbed' \subseteq Names
      /\ UNCHANGED <<linkVars, storeVars, accepted>>
  BY <1>1, TargetsAssumption DEF Start, CommandInv, TypeOK
<1>10. HoldAgrees(p)'
  BY <1>6, <1>7 DEF HoldAgrees, Holding, LoadOnly
<1>11. LinkTypeOK' /\ LinkAgrees(p)' BY <1>9, SameLink
<1> QED
  BY <1>3, <1>5, <1>6, <1>8, <1>9, <1>10, <1>11, OneCommandSteps
     DEF CommandInv, TypeOK, linkVars, storeVars

\* Steps of a command that leave its request and the files alone.
LEMMA AskingJob ==
  ASSUME CommandInv, NEW p \in Processes,
         \/ LookUp(p) \/ AcceptKey(p) \/ Connected(p) \/ Confirm(p) \/ Find(p)
  PROVE  CommandInv'
<1> USE DEF LookUp, AcceptKey, Connected, Confirm, Find
<1>1. PICK s \in Steps : cmd' = [cmd EXCEPT ![p] = s]
  BY DEF To, Steps
<1>2. UNCHANGED <<linkVars, storeVars, job, disturbed, commands>> /\ accepted' \subseteq Sent
  BY AnswerType DEF CommandInv, TypeOK, JobAgrees, AddOnly, Asking, Sent, storeVars
<1>3. job[p] \in Jobs /\ job' = [job EXCEPT ![p] = job[p]]
  BY <1>2 DEF CommandInv, TypeOK, JobAgrees
<1>4. JobAgrees(p)'
  BY <1>2 DEF To, CommandInv, TypeOK, JobAgrees, AddOnly, RemoveOnly, LoadOnly, InstallOnly,
     Asking, Name, Answer, Jobs, Kinds
<1>5. HoldAgrees(p)'
  <2>1. UNCHANGED <<step, link, job>> BY <1>2 DEF linkVars
  <2>2. /\ Name(p)' = Name(p) /\ Peer(p)' = Peer(p) /\ Answer(p)' = Answer(p)
        /\ Entry(Answer(p), job[p].key)' = Entry(Answer(p), job[p].key)
    BY <2>1 DEF Name, Peer, Answer, Entry
  <2>3. cmd'[p] \in Holding => cmd[p] = "connect" /\ step[p] = "up"
    BY DEF To, CommandInv, TypeOK, Holding
  <2> QED BY <2>1, <2>2, <2>3 DEF HoldAgrees, CommandInv, Holding
<1>6. LinkTypeOK' /\ LinkAgrees(p)' BY <1>2, SameLink
<1> QED
  BY <1>1, <1>2, <1>3, <1>4, <1>5, <1>6, OneCommandSteps
     DEF CommandInv, TypeOK, linkVars, storeVars

\* A step of a connection: it trusts and talks to the key it was given.
LEMMA LinkStepKeeps ==
  ASSUME CommandInv, NEW p \in Processes, LinkStep(p)
  PROVE  /\ LinkTypeOK' /\ LinkAgrees(p)'
         /\ step[p] # "idle" /\ step[p] # "up" /\ step'[p] # "idle" /\ link' = link
         /\ \A q \in Processes \ {p} : /\ step'[q] = step[q] /\ link'[q] = link[q]
                                       /\ knownHosts'[q] = knownHosts[q]
                                       /\ session'[q] = session[q]
<1> USE DEF OnMaster, LinkSteps
<1>1. LinkTypeOK /\ LinkAgrees(p)
  BY DEF CommandInv, TypeOK
<1>2. step[p] # "idle" /\ step[p] # "up" /\ link' = link
  BY DEF LinkStep, ScanAgain, OpenRuntime, StartMaster, Ask, AuthenticateSudo, ProbeInbox, Cleanup
<1>3. /\ link[p] \in Links /\ Peer(p) \in Entries /\ Peer(p).host \in Hosts /\ Peer(p).key \in Keys
      /\ link[p].name \in Names \cup {None} /\ link[p].secret \in Secrets
  BY <1>1, <1>2 DEF LinkAgrees, Links, Entries, Peer
<1>4. Peer(p)' = Peer(p)
  BY <1>2 DEF Peer
<1>5. \E s \in LinkSteps \ {"idle"} : step' = [step EXCEPT ![p] = s]
  BY DEF LinkStep, ScanAgain, OpenRuntime, StartMaster, Ask, AuthenticateSudo, ProbeInbox,
     Cleanup, Goto
<1>6. /\ shows' = shows /\ keyChanges' = keyChanges
      /\ \/ knownHosts' = knownHosts
         \/ knownHosts' = [knownHosts EXCEPT ![p] = None]
         \/ knownHosts' = [knownHosts EXCEPT ![p] = Peer(p).key]
      /\ \/ session' = session
         \/ session' = [session EXCEPT ![p] = None]
         \/ session' = [session EXCEPT ![p] = shows[Peer(p).host]]
  BY DEF LinkStep, ScanAgain, OpenRuntime, StartMaster, Ask, AuthenticateSudo, ProbeInbox, Cleanup
<1>7. sent' \subseteq Sent
  <2>1. ASSUME NEW k \in Keys, Send(p, k) PROVE sent' \subseteq Sent
    BY <1>1, <1>3, <2>1 DEF Send, Sent, LinkTypeOK
  <2>2. shows[Peer(p).host] \in Keys BY <1>1, <1>3 DEF LinkTypeOK
  <2>3. step[p] \in {"sudo", "inbox"} => session[p] \in Keys BY <1>1, <1>3 DEF LinkAgrees
  <2>4. sent \subseteq Sent BY <1>1 DEF LinkTypeOK
  <2> QED
    BY <2>1, <2>2, <2>3, <2>4
       DEF LinkStep, ScanAgain, OpenRuntime, StartMaster, Ask, AuthenticateSudo, ProbeInbox, Cleanup
<1>8. LinkTypeOK'
  BY <1>1, <1>2, <1>3, <1>5, <1>6, <1>7 DEF LinkTypeOK
<1>9. LinkAgrees(p)'
  <2>1. step'[p] # "idle" => link'[p] \in Links
    BY <1>2, <1>3
  <2>2. step'[p] \in {"runtime", "master"} => knownHosts'[p] = Peer(p).key
    BY <1>1 DEF LinkTypeOK, LinkAgrees, LinkStep, ScanAgain, OpenRuntime, StartMaster, Ask,
       AuthenticateSudo, ProbeInbox, Cleanup, Goto
  <2>3. step'[p] \in OnMaster => session'[p] = Peer(p).key
    BY <1>1 DEF LinkTypeOK, LinkAgrees, LinkStep, ScanAgain, OpenRuntime, StartMaster, Ask,
       AuthenticateSudo, ProbeInbox, Cleanup, Goto
  <2> QED BY <1>4, <2>1, <2>2, <2>3 DEF LinkAgrees
<1>10. step'[p] # "idle"
  BY <1>1, <1>5 DEF LinkTypeOK
<1>11. \A q \in Processes \ {p} : /\ step'[q] = step[q] /\ link'[q] = link[q]
                                  /\ knownHosts'[q] = knownHosts[q] /\ session'[q] = session[q]
  BY <1>1, <1>2, <1>5, <1>6 DEF LinkTypeOK
<1> QED BY <1>2, <1>8, <1>9, <1>10, <1>11

\* A command connects, or its connection is over.
LEMMA ConnectKeeps ==
  ASSUME CommandInv, NEW p \in Processes, NEW target \in Links, Connect(p, target)
  PROVE  /\ LinkTypeOK' /\ LinkAgrees(p)'
         /\ step'[p] = "scan" /\ link'[p] = target
         /\ \A q \in Processes \ {p} : /\ step'[q] = step[q] /\ link'[q] = link[q]
                                       /\ knownHosts'[q] = knownHosts[q]
                                       /\ session'[q] = session[q]
BY DEF CommandInv, TypeOK, LinkTypeOK, LinkAgrees, Connect, Goto, LinkSteps, OnMaster, Peer

LEMMA DisconnectKeeps ==
  ASSUME CommandInv, NEW p \in Processes, Disconnect(p)
  PROVE  /\ LinkTypeOK' /\ LinkAgrees(p)'
         /\ \A q \in Processes \ {p} : /\ step'[q] = step[q] /\ link'[q] = link[q]
                                       /\ knownHosts'[q] = knownHosts[q]
                                       /\ session'[q] = session[q]
BY DEF CommandInv, TypeOK, LinkTypeOK, LinkAgrees, Disconnect, Goto, LinkSteps, OnMaster

\* A command that notes something in its request: the key, the configuration
\* or whether it is new.
LEMMA NotingJob ==
  ASSUME CommandInv, NEW p \in Processes,
         DisplayKey(p) \/ LookAgain(p) \/ LoadConfig(p) \/ ReadHostKey(p)
  PROVE  CommandInv'
<1> USE DEF DisplayKey, LookAgain, LoadConfig, ReadHostKey
<1>1. /\ job[p] \in Jobs /\ cmd[p] # "idle"
      /\ cmd[p] \in {"display", "hostKey"} => Answer(p).host \in Hosts
      /\ cmd[p] \in {"isNew", "loadConfig"} => Name(p) \in Names
  BY AnswerType
     DEF CommandInv, TypeOK, JobAgrees, AddOnly, InstallOnly, LoadOnly, Asking
<1>2. \E s \in Steps, j \in Jobs :
        /\ cmd' = [cmd EXCEPT ![p] = s] /\ job' = [job EXCEPT ![p] = j]
        /\ j.kind = job[p].kind /\ j.name = job[p].name /\ j.answer = job[p].answer
        /\ \/ s = "failed" /\ j = job[p]
           \/ /\ cmd[p] = "display" /\ j.key \in Keys
              /\ s = IF job[p].kind = "add" THEN "accept" ELSE "open"
           \/ cmd[p] = "isNew" /\ s = "config" /\ j.key = job[p].key
           \/ cmd[p] = "loadConfig" /\ s = "loadCredential" /\ j.entry \in Entries
           \/ cmd[p] = "hostKey" /\ s = "display"
           \/ cmd[p] = "hostKey" /\ s = "open" /\ j.key \in Keys
  <2>1. CASE DisplayKey(p)
    <3>1. CASE job' = job /\ To(p, "failed")
      BY <1>1, <3>1 DEF To, Steps, CommandInv, TypeOK
    <3>2. CASE ~(job' = job /\ To(p, "failed"))
      <4> DEFINE k == shows[Answer(p).host]
                 j == [job[p] EXCEPT !.key = k]
      <4>1. k \in Keys BY <1>1, <2>1 DEF CommandInv, TypeOK, LinkTypeOK
      <4>2. j \in Jobs /\ j.key = k BY <1>1, <4>1 DEF Jobs
      <4>3. job' = [job EXCEPT ![p] = j] BY <2>1, <3>2 DEF CommandInv, TypeOK
      <4>4. j.kind = job[p].kind /\ j.name = job[p].name /\ j.answer = job[p].answer
        BY <1>1 DEF Jobs
      <4> HIDE DEF j, k
      <4> QED BY <2>1, <3>2, <4>1, <4>2, <4>3, <4>4 DEF To, Steps
    <3> QED BY <3>1, <3>2
  <2>2. CASE LookAgain(p)
    <3> DEFINE j == [job[p] EXCEPT !.isNew = (config[Name(p)] = None)]
    <3>1. j \in Jobs /\ j.kind = job[p].kind /\ j.name = job[p].name /\ j.answer = job[p].answer
          /\ j.key = job[p].key
      BY <1>1 DEF Jobs
    <3>2. job' = [job EXCEPT ![p] = j] BY <2>2 DEF CommandInv, TypeOK
    <3> HIDE DEF j
    <3> QED BY <2>2, <3>1, <3>2 DEF To, Steps
  <2>3. CASE LoadConfig(p)
    <3>1. CASE job' = job /\ To(p, "failed")
      BY <1>1, <3>1 DEF To, Steps, CommandInv, TypeOK
    <3>2. CASE ~(job' = job /\ To(p, "failed"))
      <4> DEFINE e == config[Name(p)]
                 j == [job[p] EXCEPT !.entry = e]
      <4>1. e \in Entries BY <1>1, <2>3, <3>2 DEF CommandInv, TypeOK
      <4>2. j \in Jobs /\ j.entry = e BY <1>1, <4>1 DEF Jobs
      <4>3. job' = [job EXCEPT ![p] = j] BY <2>3, <3>2 DEF CommandInv, TypeOK
      <4>4. j.kind = job[p].kind /\ j.name = job[p].name /\ j.answer = job[p].answer
        BY <1>1 DEF Jobs
      <4> HIDE DEF j, e
      <4> QED BY <2>3, <3>2, <4>1, <4>2, <4>3, <4>4 DEF To, Steps
    <3> QED BY <3>1, <3>2
  <2>4. CASE ReadHostKey(p)
    <3> DEFINE k == hostKey[Answer(p).host]
    <3>1. k \in Keys \cup {None} \cup NoRecord BY <1>1, <2>4 DEF CommandInv, TypeOK
    <3>2. CASE k = None
      <4> DEFINE j == [job[p] EXCEPT !.isNew = TRUE]
      <4>1. j \in Jobs /\ j.kind = job[p].kind /\ j.name = job[p].name /\ j.answer = job[p].answer
        BY <1>1 DEF Jobs
      <4>2. job' = [job EXCEPT ![p] = j] /\ cmd' = [cmd EXCEPT ![p] = "display"]
        BY <2>4, <3>2, TargetsAssumption DEF CommandInv, TypeOK, To
      <4> HIDE DEF j
      <4> QED BY <2>4, <4>1, <4>2 DEF Steps
    <3>3. CASE k \in NoRecord
      <4>1. job' = job /\ cmd' = [cmd EXCEPT ![p] = "failed"]
        BY <2>4, <3>3, TargetsAssumption DEF To
      <4> QED BY <1>1, <4>1 DEF Steps, CommandInv, TypeOK
    <3>4. CASE k \in Keys
      <4> DEFINE j == [job[p] EXCEPT !.key = k]
      <4>1. j \in Jobs /\ j.kind = job[p].kind /\ j.name = job[p].name /\ j.answer = job[p].answer
            /\ j.key = k
        BY <1>1, <3>4 DEF Jobs
      <4>2. job' = [job EXCEPT ![p] = j] /\ cmd' = [cmd EXCEPT ![p] = "open"]
        BY <2>4, <3>4, TargetsAssumption DEF CommandInv, TypeOK, To
      <4> HIDE DEF j
      <4> QED BY <2>4, <3>4, <4>1, <4>2 DEF Steps
    <3> QED BY <3>1, <3>2, <3>3, <3>4
  <2> QED BY <2>1, <2>2, <2>3, <2>4
<1>3. PICK s \in Steps, j \in Jobs :
        /\ cmd' = [cmd EXCEPT ![p] = s] /\ job' = [job EXCEPT ![p] = j]
        /\ j.kind = job[p].kind /\ j.name = job[p].name /\ j.answer = job[p].answer
        /\ \/ s = "failed" /\ j = job[p]
           \/ /\ cmd[p] = "display" /\ j.key \in Keys
              /\ s = IF job[p].kind = "add" THEN "accept" ELSE "open"
           \/ cmd[p] = "isNew" /\ s = "config" /\ j.key = job[p].key
           \/ cmd[p] = "loadConfig" /\ s = "loadCredential" /\ j.entry \in Entries
           \/ cmd[p] = "hostKey" /\ s = "display"
           \/ cmd[p] = "hostKey" /\ s = "open" /\ j.key \in Keys
  BY <1>2
<1>4. cmd'[p] = s /\ job'[p] = j BY <1>3 DEF CommandInv, TypeOK
<1>5. UNCHANGED <<linkVars, storeVars, accepted, disturbed, commands>> OBVIOUS
<1>6. JobAgrees(p) /\ HoldAgrees(p) BY DEF CommandInv
<1>7. JobAgrees(p)'
  BY <1>1, <1>3, <1>4, <1>6
     DEF JobAgrees, Name, Answer, AddOnly, RemoveOnly, LoadOnly, InstallOnly, Asking, Jobs, Kinds
<1>8. HoldAgrees(p)'
  BY <1>3, <1>4, <1>5, <1>6
     DEF HoldAgrees, Holding, Peer, Name, Answer, Entry, linkVars
<1>9. LinkTypeOK' /\ LinkAgrees(p)' BY <1>5, SameLink
<1> QED
  BY <1>3, <1>5, <1>7, <1>8, <1>9, OneCommandSteps DEF CommandInv, TypeOK, linkVars, storeVars

\* A command whose request stays, and which may write files.
LEMMA WritingJob ==
  ASSUME CommandInv, NEW p \in Processes,
         \/ WriteIdentity(p) \/ WriteConfig(p) \/ WriteCredential(p) \/ UndoConfig(p) \/ Undo(p)
         \/ DropCredential(p) \/ DropConfig(p) \/ RecordHostKey(p) \/ FillHostKey(p)
  PROVE  CommandInv'
<1> USE DEF WriteIdentity, WriteConfig, WriteCredential, UndoConfig, Undo, DropCredential,
        DropConfig, RecordHostKey, FillHostKey
<1>1. PICK s \in Steps : cmd' = [cmd EXCEPT ![p] = s]
  BY DEF To, Steps
<1>2. UNCHANGED <<linkVars, job, accepted, commands>>
  OBVIOUS
<1>3. job[p] \in Jobs /\ job' = [job EXCEPT ![p] = job[p]]
  BY <1>2 DEF CommandInv, TypeOK, JobAgrees
<1>4. JobAgrees(p) /\ HoldAgrees(p) BY DEF CommandInv
<1>5. JobAgrees(p)'
  BY <1>2, <1>4 DEF To, CommandInv, TypeOK, JobAgrees, AddOnly, RemoveOnly, LoadOnly, InstallOnly,
     Asking, Name, Answer, Jobs, Kinds
<1>6. HoldAgrees(p)'
  BY <1>2, <1>4 DEF To, CommandInv, TypeOK, HoldAgrees, Holding, Peer, Name, Answer, Entry,
     linkVars
<1>7. LinkTypeOK' /\ LinkAgrees(p)' BY <1>2, SameLink
<1>8. /\ cmd[p] \in AddOnly \cup RemoveOnly => Name(p) \in Names
      /\ cmd[p] \in AddOnly => Answer(p).secret \in Secrets
      /\ cmd[p] \in InstallOnly => Answer(p).host \in Hosts
      /\ cmd[p] \in {"record", "fill"} => job[p].key \in Keys
  BY <1>4, AnswerType
     DEF CommandInv, TypeOK, JobAgrees, AddOnly, RemoveOnly, InstallOnly, Asking, Jobs, Kinds, Name
<1>9. config' \in [Names -> Entries \cup {None}]
  <2>1. cmd[p] = "config" => Peer(p) \in Entries
    BY <1>4, EntryType DEF JobAgrees, HoldAgrees, Holding, AddOnly, Asking, CommandInv, LinkAgrees,
       Peer, Links
  <2> QED
    BY <1>8, <2>1 DEF CommandInv, TypeOK, SetConfig, AddOnly, RemoveOnly
<1>10. credential' \in [Names -> Directories \cup {None}]
  <2>1. Name(p) \in Names => Credentials(Name(p)) \in Directories
    BY CredentialsType DEF CommandInv
  <2>2. ASSUME NEW d \in Directories
        PROVE  PartsOf(d) \subseteq Directories
               /\ \A x \in Secrets : [d EXCEPT !.yaml = x] \in Directories
    BY DEF PartsOf, Directories, EmptyDirectory
  <2>3. CASE \/ WriteConfig(p) \/ UndoConfig(p) \/ DropConfig(p) \/ RecordHostKey(p)
             \/ FillHostKey(p)
    BY <2>3 DEF CommandInv, TypeOK
  <2>4. CASE WriteIdentity(p)
    <3>1. credential \in [Names -> Directories \cup {None}] BY DEF CommandInv, TypeOK
    <3>2. Answer(p).secret \in Secrets BY <1>8, <2>4 DEF AddOnly
    <3>3. IdentityOnly(Answer(p)) \in Directories
      BY <3>2 DEF IdentityOnly, EmptyDirectory, Directories
    <3>4. PartsOf(IdentityOnly(Answer(p))) \subseteq Directories BY <2>2, <3>3
    <3> QED BY <2>4, <3>1, <3>3, <3>4 DEF SetCredential
  <2>5. CASE WriteCredential(p)
    BY <1>8, <2>1, <2>2, <2>5 DEF CommandInv, TypeOK, SetCredential, NewCredential, AddOnly
  <2>6. CASE Undo(p)
    <3>1. Name(p) \in Names BY <1>8, <2>6 DEF AddOnly
    <3>2. credential[Name(p)] # None => PartsOf(credential[Name(p)]) \subseteq Directories
      BY <3>1, <2>2 DEF CommandInv, TypeOK
    <3> QED BY <2>6, <3>1, <3>2 DEF CommandInv, TypeOK, SetCredential
  <2>7. CASE DropCredential(p)
    <3>1. Name(p) \in Names BY <1>8, <2>7 DEF RemoveOnly
    <3>2. credential[Name(p)] # None => PartsOf(credential[Name(p)]) \subseteq Directories
      BY <3>1, <2>2 DEF CommandInv, TypeOK
    <3> QED BY <2>7, <3>1, <3>2 DEF CommandInv, TypeOK, SetCredential
  <2> QED BY <2>3, <2>4, <2>5, <2>6, <2>7
<1>11. hostKey' \in [Hosts -> Keys \cup {None} \cup NoRecord]
  BY <1>8 DEF CommandInv, TypeOK, SetHostKey, NoRecord
<1>12. disturbed' \subseteq Names
  BY <1>8 DEF CommandInv, TypeOK, Disturb, AddOnly
<1> QED
  BY <1>1, <1>2, <1>3, <1>5, <1>6, <1>7, <1>9, <1>10, <1>11, <1>12, OneCommandSteps
     DEF CommandInv, TypeOK, linkVars

\* A command that opens, uses or leaves its connection.
LEMMA OpeningJob ==
  ASSUME CommandInv, NEW p \in Processes, Open(p) \/ LoadCredential(p)
  PROVE  CommandInv'
<1>1. /\ job[p] \in Jobs /\ cmd[p] # "idle"
      /\ cmd[p] = "open" => Answer(p) \in Answers \cup Inventory /\ job[p].key \in Keys
      /\ cmd[p] = "loadCredential" => job[p].entry \in Entries /\ Name(p) \in Names
      /\ Name(p) \in Names \cup {None}
  BY DEF CommandInv, TypeOK, JobAgrees, LoadOnly, Asking, Open, LoadCredential
<1>2. UNCHANGED <<storeVars, job, accepted, disturbed, commands>>
  BY DEF Open, LoadCredential
<1>3. job' = [job EXCEPT ![p] = job[p]]
  BY <1>2 DEF CommandInv, TypeOK
<1>4. CASE UNCHANGED linkVars /\ cmd' = [cmd EXCEPT ![p] = "failed"]
  <2>1. LinkTypeOK' /\ LinkAgrees(p)' BY <1>4, SameLink
  <2>2. JobAgrees(p)' /\ HoldAgrees(p)'
    BY <1>1, <1>2, <1>4
       DEF CommandInv, TypeOK, JobAgrees, HoldAgrees, Holding, AddOnly, RemoveOnly, LoadOnly,
           InstallOnly, Name, Answer, Asking
  <2> QED
    BY <1>1, <1>2, <1>3, <1>4, <2>1, <2>2, OneCommandSteps
       DEF CommandInv, TypeOK, linkVars, storeVars, Steps
<1>5. ASSUME NEW target \in Links, Connect(p, target), cmd' = [cmd EXCEPT ![p] = "connect"],
             target.name = Name(p),
             job[p].kind \in Asking =>
               target.secret = Answer(p).secret /\ target.entry = Entry(Answer(p), job[p].key)
      PROVE  CommandInv'
  <2>1. /\ LinkTypeOK' /\ LinkAgrees(p)'
        /\ step'[p] = "scan" /\ link'[p] = target
        /\ \A q \in Processes \ {p} : /\ step'[q] = step[q] /\ link'[q] = link[q]
                                      /\ knownHosts'[q] = knownHosts[q]
                                      /\ session'[q] = session[q]
    BY <1>5, ConnectKeeps
  <2>2. cmd[p] \in {"open", "loadCredential"} BY DEF Open, LoadCredential
  <2>3. JobAgrees(p)'
    BY <1>1, <1>2, <1>5, <2>2
       DEF CommandInv, TypeOK, JobAgrees, AddOnly, RemoveOnly, LoadOnly,
           InstallOnly, Name, Answer, Asking
  <2>4. HoldAgrees(p)'
    BY <1>2, <1>5, <2>1
       DEF CommandInv, TypeOK, HoldAgrees, Holding, Name, Answer, Asking, Peer, Entry
  <2> QED
    BY <1>1, <1>2, <1>3, <1>5, <2>1, <2>3, <2>4, OneCommandSteps
       DEF CommandInv, TypeOK, storeVars, Steps
<1>6. CASE Open(p)
  <2> DEFINE target == [name |-> Name(p), secret |-> Answer(p).secret, preflight |-> TRUE,
                        entry |-> Entry(Answer(p), job[p].key)]
  <2>1. Entry(Answer(p), job[p].key) \in Entries /\ Answer(p).secret \in Secrets
    BY <1>1, <1>6, EntryType, AnswerType DEF Open
  <2>2. target \in Links BY <1>1, <2>1 DEF Links
  <2> QED BY <1>5, <1>6, <2>2 DEF Open, To
<1>7. CASE LoadCredential(p)
  <2>1. CASE UNCHANGED linkVars /\ To(p, "failed") BY <1>4, <2>1 DEF To
  <2>2. CASE ~(UNCHANGED linkVars /\ To(p, "failed"))
    <3> DEFINE directory == Credentials(Name(p))
               target == [name |-> Name(p), secret |-> directory.yaml, preflight |-> TRUE,
                          entry |-> job[p].entry]
    <3>1. directory.yaml # None /\ Connect(p, target) /\ To(p, "connect")
      BY <1>7, <2>2 DEF LoadCredential
    <3>2. directory \in Directories
      BY <1>1, <1>7, CredentialsType DEF LoadCredential, CommandInv
    <3>3. directory.yaml \in Secrets BY <3>1, <3>2 DEF Directories
    <3> HIDE DEF directory
    <3>4. target \in Links BY <1>1, <1>7, <3>3 DEF Links, LoadCredential
    <3>5. job[p].kind \notin Asking
      BY <1>7 DEF LoadCredential, CommandInv, JobAgrees, LoadOnly, Asking
    <3> QED BY <1>5, <3>1, <3>4, <3>5 DEF To
  <2> QED BY <2>1, <2>2
<1> QED BY <1>6, <1>7

LEMMA ConnectingJob ==
  ASSUME CommandInv, NEW p \in Processes, Connecting(p)
  PROVE  CommandInv'
<1>1. /\ cmd[p] = "connect" /\ LinkStep(p)
      /\ UNCHANGED <<storeVars, cmd, job, accepted, disturbed, commands>>
  BY DEF Connecting
<1>2. /\ LinkTypeOK' /\ LinkAgrees(p)'
      /\ step'[p] # "idle" /\ link' = link
      /\ \A q \in Processes \ {p} : /\ step'[q] = step[q] /\ link'[q] = link[q]
                                    /\ knownHosts'[q] = knownHosts[q]
                                    /\ session'[q] = session[q]
  BY <1>1, LinkStepKeeps
<1>3. job[p] \in Jobs \cup {None} /\ cmd[p] \in Steps
  BY DEF CommandInv, TypeOK
<1>4. job' = [job EXCEPT ![p] = job[p]] /\ cmd' = [cmd EXCEPT ![p] = cmd[p]]
  BY <1>1 DEF CommandInv, TypeOK
<1>5. JobAgrees(p)' /\ HoldAgrees(p)'
  BY <1>1, <1>2 DEF CommandInv, JobAgrees, HoldAgrees, Name, Answer, Peer, Entry
<1> QED
  BY <1>1, <1>2, <1>3, <1>4, <1>5, OneCommandSteps DEF CommandInv, TypeOK, storeVars

LEMMA DeliveringJob ==
  ASSUME CommandInv, NEW p \in Processes, Deliver(p)
  PROVE  CommandInv'
<1>1. /\ cmd[p] = "deliver" /\ Send(p, session[p])
      /\ UNCHANGED <<shows, step, link, knownHosts, session, keyChanges>>
      /\ UNCHANGED <<storeVars, job, accepted, disturbed, commands>>
  BY DEF Deliver
<1>2. PICK s \in {"ok", "failed"} : cmd' = [cmd EXCEPT ![p] = s]
  BY DEF Deliver, To
<1>3. JobAgrees(p) /\ LinkAgrees(p) /\ HoldAgrees(p) BY DEF CommandInv
<1>4. link[p] \in Links /\ session[p] \in Keys
  BY <1>1, <1>3 DEF HoldAgrees, Holding, LinkAgrees, OnMaster, Links, Entries, Peer
<1>5. sent' \subseteq Sent
  BY <1>1, <1>4 DEF Send, Sent, Links, CommandInv, TypeOK, LinkTypeOK
<1>6. LinkTypeOK' /\ LinkAgrees(p)'
  BY <1>1, <1>3, <1>5 DEF CommandInv, TypeOK, LinkTypeOK, LinkAgrees, Peer
<1>7. JobAgrees(p)' /\ HoldAgrees(p)'
  BY <1>1, <1>2, <1>3
     DEF CommandInv, TypeOK, JobAgrees, HoldAgrees, Holding, AddOnly, RemoveOnly, LoadOnly,
         InstallOnly, Name, Answer, Asking
<1>8. job[p] \in Jobs \cup {None} /\ job' = [job EXCEPT ![p] = job[p]]
  BY <1>1 DEF CommandInv, TypeOK
<1> QED
  BY <1>1, <1>2, <1>6, <1>7, <1>8, OneCommandSteps DEF CommandInv, TypeOK, storeVars, Steps

LEMMA LeavingJob ==
  ASSUME CommandInv, NEW p \in Processes, End(p) \/ Kill(p)
  PROVE  CommandInv'
<1>1. /\ Disconnect(p)
      /\ job' = [job EXCEPT ![p] = None]
      /\ cmd' = [cmd EXCEPT ![p] = "idle"]
      /\ UNCHANGED <<storeVars, accepted, disturbed, commands>>
  BY DEF End, Kill, Leave, To
<1>2. JobAgrees(p)' /\ HoldAgrees(p)'
  BY <1>1 DEF CommandInv, TypeOK, JobAgrees, HoldAgrees, Holding, AddOnly, RemoveOnly, LoadOnly,
     InstallOnly
<1> QED
  BY <1>1, <1>2, DisconnectKeeps, OneCommandSteps DEF CommandInv, TypeOK, storeVars, Steps

LEMMA CommandInvStep == CommandInv /\ [Next]_vars => CommandInv'
<1> SUFFICES ASSUME CommandInv, [Next]_vars PROVE CommandInv'
  OBVIOUS
<1>1. CASE Reinstall
  <2>1. LinkTypeOK'
    BY <1>1, TargetsAssumption DEF Reinstall, ChangeKey, CommandInv, TypeOK, LinkTypeOK
  <2> QED
    BY <1>1, <2>1
       DEF Reinstall, ChangeKey, CommandInv, TypeOK, storeVars, JobAgrees, LinkAgrees, HoldAgrees,
           Peer, Name, Answer, Entry
<1>2. CASE UNCHANGED vars
  BY <1>2 DEF vars, linkVars, storeVars, CommandInv, TypeOK, LinkTypeOK, JobAgrees, LinkAgrees,
     HoldAgrees, Peer, Name, Answer, Entry
<1>3. CASE \E p \in Processes : Begin(p) \/ CommandStep(p) \/ End(p) \/ Kill(p)
  BY <1>3, BeginJob, AskingJob, NotingJob, WritingJob, OpeningJob, ConnectingJob, DeliveringJob,
     LeavingJob DEF CommandStep
<1> QED BY <1>1, <1>2, <1>3 DEF Next

LEMMA CommandInvariant == Spec => []CommandInv
BY CommandInvInit, CommandInvStep, PTL DEF Spec

\* Every variable of the target commands and of their connections has its type,
\* whatever overlaps or is killed (internal/remote).
THEOREM TargetsTypeOK == Spec => []TypeOK
<1>1. CommandInv => TypeOK BY DEF CommandInv
<1> QED BY <1>1, CommandInvariant, PTL

-----------------------------------------------------------------------------
(* The host keys of the installer *)

\* A step that writes no record and needs none filled.
LEMMA SameRecords ==
  ASSUME CommandInv, RecordInv, NEW p \in Processes, hostKey' = hostKey,
         \A q \in Processes \ {p} : cmd'[q] = cmd[q] /\ job'[q] = job[q],
         cmd'[p] # "fill", RecordAgrees(p)'
  PROVE  RecordInv'
<1>1. ASSUME NEW q \in Processes \ {p} PROVE RecordAgrees(q)'
  BY DEF RecordInv, RecordAgrees, Answer
<1>2. OneFills'
  <2> SUFFICES ASSUME NEW a \in Processes, NEW b \in Processes, cmd'[a] = "fill", cmd'[b] = "fill",
                      Answer(a).host' = Answer(b).host'
               PROVE  a = b
    BY DEF OneFills
  <2> QED BY DEF RecordInv, OneFills, Answer
<1> QED BY <1>1, <1>2 DEF RecordInv

\* The installation p writes the record of a host that was empty or missing.
LEMMA NewRecord ==
  ASSUME CommandInv, RecordInv, NEW p \in Processes, NEW value,
         SetHostKey(p, value), job' = job, Answer(p).host \in Hosts,
         hostKey[Answer(p).host] \notin Keys,
         \A q \in Processes \ {p} : cmd'[q] = cmd[q],
         \A q \in Processes \ {p} : ~(cmd[q] = "fill" /\ Answer(q).host = Answer(p).host),
         RecordAgrees(p)'
  PROVE  RecordInv'
<1>1. ASSUME NEW q \in Processes \ {p} PROVE RecordAgrees(q)'
  <2>1. RecordAgrees(q) /\ JobAgrees(q) BY DEF CommandInv, RecordInv
  <2>2. CASE Answer(q).host = Answer(p).host
    <3> SUFFICES ASSUME cmd[q] # "idle", job[q].kind = "install"
                 PROVE  RecordAgrees(q)'
      BY DEF RecordAgrees
    <3>1. cmd[q] \in {"open", "connect", "deliver"} => job[q].key \in Keys
      BY <2>1 DEF JobAgrees, Asking
    <3> QED BY <2>1, <2>2, <3>1 DEF RecordAgrees, Answer
  <2>3. CASE Answer(q).host # Answer(p).host
    <3>1. hostKey'[Answer(q).host] = hostKey[Answer(q).host] \/ Answer(q).host \notin Hosts
      BY <2>3 DEF SetHostKey, CommandInv, TypeOK
    <3>2. cmd[q] # "idle" /\ job[q].kind = "install" => Answer(q).host \in Hosts
      BY <2>1, AnswerType DEF JobAgrees, Asking
    <3> QED BY <2>1, <3>1, <3>2 DEF RecordAgrees, Answer
  <2> QED BY <2>2, <2>3
<1>2. OneFills'
  <2> SUFFICES ASSUME NEW a \in Processes, NEW b \in Processes, cmd'[a] = "fill", cmd'[b] = "fill",
                      Answer(a).host = Answer(b).host
               PROVE  a = b
    BY DEF OneFills, Answer
  <2> QED BY DEF RecordInv, OneFills
<1> QED BY <1>1, <1>2 DEF RecordInv

LEMMA RecordInvStep == CommandInv /\ RecordInv /\ [Next]_vars => RecordInv'
<1> SUFFICES ASSUME CommandInv, RecordInv, [Next]_vars PROVE RecordInv'
  OBVIOUS
<1> USE DEF To
<1>1. ASSUME NEW p \in Processes, Begin(p) PROVE RecordInv'
  <2>1. PICK kind \in Kinds, n \in Names \cup {None}, a \in Answers \cup Inventory \cup {None} :
          Start(p, kind, n, a)
    BY <1>1 DEF Begin, Kinds
  <2>2. cmd'[p] = FirstStep(kind) /\ hostKey' = hostKey
    BY <2>1 DEF Start, CommandInv, TypeOK, storeVars
  <2>3. FirstStep(kind) \in {"lookup", "confirm", "hostKey", "loadConfig"}
    BY DEF FirstStep
  <2>4. \A q \in Processes \ {p} : cmd'[q] = cmd[q] /\ job'[q] = job[q]
    BY <2>1 DEF Start, CommandInv, TypeOK
  <2> QED BY <2>2, <2>3, <2>4, SameRecords DEF RecordAgrees
<1>2. ASSUME NEW p \in Processes, DisplayKey(p) \/ ReadHostKey(p) PROVE RecordInv'
  <2>1. hostKey' = hostKey /\ \A q \in Processes \ {p} : cmd'[q] = cmd[q] /\ job'[q] = job[q]
    BY <1>2 DEF DisplayKey, ReadHostKey, storeVars, CommandInv, TypeOK
  <2>2. JobAgrees(p) /\ RecordAgrees(p) BY DEF CommandInv, RecordInv
  <2>3. job[p] \in Jobs BY <1>2, <2>2 DEF DisplayKey, ReadHostKey, JobAgrees
  <2>4. CASE DisplayKey(p)
    <3>1. cmd'[p] \in {"accept", "open", "failed"}
          /\ job'[p].isNew = job[p].isNew /\ job'[p].kind = job[p].kind
      BY <2>3, <2>4 DEF DisplayKey, CommandInv, TypeOK, Jobs
    <3> QED BY <2>1, <2>2, <2>4, <3>1, SameRecords DEF RecordAgrees, DisplayKey
  <2>5. CASE ReadHostKey(p)
    <3> DEFINE k == hostKey[Answer(p).host]
    <3>1. \/ k = None /\ cmd'[p] = "display" /\ job'[p].isNew
          \/ cmd'[p] = "failed"
          \/ cmd'[p] = "open" /\ job'[p].key = k /\ Answer(p)' = Answer(p)
      <4>1. CASE k = None
        BY <2>3, <2>5, <4>1, TargetsAssumption DEF ReadHostKey, CommandInv, TypeOK, Jobs
      <4>2. CASE k \in NoRecord
        BY <2>5, <4>2, TargetsAssumption DEF ReadHostKey, CommandInv, TypeOK
      <4>3. CASE k # None /\ k \notin NoRecord
        BY <2>3, <2>5, <4>3 DEF ReadHostKey, CommandInv, TypeOK, Jobs, Answer
      <4> QED BY <4>1, <4>2, <4>3
    <3> QED BY <2>1, <3>1, SameRecords DEF RecordAgrees
  <2> QED BY <1>2, <2>4, <2>5
<1>3. ASSUME NEW p \in Processes, LookAgain(p) \/ LoadConfig(p) PROVE RecordInv'
  <2>1. hostKey' = hostKey /\ \A q \in Processes \ {p} : cmd'[q] = cmd[q] /\ job'[q] = job[q]
    BY <1>3 DEF LookAgain, LoadConfig, storeVars, CommandInv, TypeOK
  <2>2. cmd'[p] \in {"config", "failed", "loadCredential"}
    BY <1>3 DEF LookAgain, LoadConfig, CommandInv, TypeOK
  <2> QED BY <2>1, <2>2, SameRecords DEF RecordAgrees
<1>4. ASSUME NEW p \in Processes,
             \/ LookUp(p) \/ AcceptKey(p) \/ Confirm(p) \/ Find(p) \/ Open(p) \/ Connecting(p)
             \/ WriteIdentity(p) \/ WriteConfig(p) \/ WriteCredential(p) \/ UndoConfig(p)
             \/ Undo(p) \/ DropCredential(p) \/ DropConfig(p) \/ LoadCredential(p) \/ Deliver(p)
      PROVE  RecordInv'
  <2> USE DEF LookUp, AcceptKey, Confirm, Find, Open, Connecting, WriteIdentity, WriteConfig,
              WriteCredential, UndoConfig, Undo, DropCredential, DropConfig, LoadCredential,
              Deliver
  <2>1. hostKey' = hostKey /\ job' = job
    BY <1>4 DEF storeVars
  <2>2. \A q \in Processes \ {p} : cmd'[q] = cmd[q]
    BY <1>4 DEF CommandInv, TypeOK
  <2>3. JobAgrees(p) /\ RecordAgrees(p) BY DEF CommandInv, RecordInv
  <2>4. \/ cmd'[p] \in {"ok", "failed", "left", "find", "dropCredential", "dropConfig",
                        "credential", "undoConfig", "undo", "undoRest", "identity"}
        \/ cmd'[p] = "display" /\ job[p].kind = "add"
        \/ cmd'[p] = "open" /\ job[p].kind = "add"
        \/ cmd'[p] = "connect" /\ cmd[p] \in {"open", "connect"}
        \/ cmd'[p] = "connect" /\ job[p].kind # "install"
    BY <1>4, <2>3 DEF CommandInv, TypeOK, JobAgrees, AddOnly, LoadOnly
  <2>5. RecordAgrees(p)' BY <2>1, <2>3, <2>4 DEF RecordAgrees, Answer
  <2> QED BY <2>1, <2>2, <2>4, <2>5, SameRecords
<1>5. ASSUME NEW p \in Processes, Connected(p) PROVE RecordInv'
  <2>1. hostKey' = hostKey /\ job' = job /\ \A q \in Processes \ {p} : cmd'[q] = cmd[q]
    BY <1>5 DEF Connected, storeVars, CommandInv, TypeOK
  <2>2. RecordAgrees(p) BY DEF RecordInv
  <2>3. cmd'[p] # "fill" /\ RecordAgrees(p)'
    BY <1>5, <2>1, <2>2 DEF Connected, RecordAgrees, CommandInv, TypeOK, Answer
  <2> QED BY <2>1, <2>3, SameRecords
<1>6. ASSUME NEW p \in Processes, RecordHostKey(p) PROVE RecordInv'
  <2>1. job' = job /\ cmd[p] = "record" /\ \A q \in Processes \ {p} : cmd'[q] = cmd[q]
    BY <1>6 DEF RecordHostKey, CommandInv, TypeOK
  <2>2. Answer(p).host \in Hosts
    BY <2>1, AnswerType DEF CommandInv, JobAgrees, InstallOnly, Asking
  <2>3. CASE hostKey[Answer(p).host] = None /\ SetHostKey(p, "empty") /\ To(p, "fill")
    <3>1. hostKey'[Answer(p).host] = "empty" /\ cmd'[p] = "fill"
      BY <2>2, <2>3 DEF SetHostKey, CommandInv, TypeOK
    <3>2. RecordAgrees(p)' BY <2>1, <3>1 DEF RecordAgrees, Answer
    <3>3. \A q \in Processes \ {p} : ~(cmd[q] = "fill" /\ Answer(q).host = Answer(p).host)
      <4> SUFFICES ASSUME NEW q \in Processes \ {p}, cmd[q] = "fill",
                          Answer(q).host = Answer(p).host
                   PROVE  FALSE
        OBVIOUS
      <4>1. hostKey[Answer(q).host] = "empty"
        BY DEF RecordInv, RecordAgrees, CommandInv, JobAgrees, InstallOnly
      <4> QED BY <2>3, <4>1, TargetsAssumption DEF NoRecord
    <3>4. hostKey[Answer(p).host] \notin Keys BY <2>3, TargetsAssumption
    <3> QED BY <2>1, <2>2, <2>3, <3>2, <3>3, <3>4, NewRecord
  <2>4. CASE hostKey[Answer(p).host] = job[p].key /\ To(p, "deliver") /\ UNCHANGED hostKey
    <3>1. cmd'[p] = "deliver" BY <2>4 DEF CommandInv, TypeOK
    <3>2. RecordAgrees(p)' BY <2>1, <2>4, <3>1 DEF RecordAgrees, Answer
    <3> QED BY <2>1, <2>4, <3>1, <3>2, SameRecords
  <2>5. CASE To(p, "failed") /\ UNCHANGED hostKey
    <3>1. cmd'[p] = "failed" BY <2>5 DEF CommandInv, TypeOK
    <3> QED BY <2>1, <2>5, <3>1, SameRecords DEF RecordAgrees
  <2> QED BY <1>6, <2>3, <2>4, <2>5 DEF RecordHostKey
<1>7. ASSUME NEW p \in Processes, FillHostKey(p) PROVE RecordInv'
  <2>1. job' = job /\ cmd[p] = "fill" /\ \A q \in Processes \ {p} : cmd'[q] = cmd[q]
    BY <1>7 DEF FillHostKey, CommandInv, TypeOK
  <2>2. Answer(p).host \in Hosts
    BY <2>1, AnswerType DEF CommandInv, JobAgrees, InstallOnly, Asking
  <2>3. hostKey[Answer(p).host] = "empty"
    BY <2>1 DEF RecordInv, RecordAgrees, CommandInv, JobAgrees, InstallOnly
  <2>4. hostKey[Answer(p).host] \notin Keys BY <2>3, TargetsAssumption DEF NoRecord
  <2>5. \A q \in Processes \ {p} : ~(cmd[q] = "fill" /\ Answer(q).host = Answer(p).host)
    BY <2>1 DEF RecordInv, OneFills
  <2>6. CASE SetHostKey(p, job[p].key) /\ To(p, "deliver")
    <3>1. hostKey'[Answer(p).host] = job[p].key /\ cmd'[p] = "deliver"
      BY <2>2, <2>6 DEF SetHostKey, CommandInv, TypeOK
    <3>2. RecordAgrees(p)' BY <2>1, <3>1 DEF RecordAgrees, Answer
    <3> QED BY <2>1, <2>2, <2>4, <2>5, <2>6, <3>2, NewRecord
  <2>7. CASE SetHostKey(p, None) /\ To(p, "failed")
    <3>1. cmd'[p] = "failed" BY <2>7 DEF CommandInv, TypeOK
    <3>2. RecordAgrees(p)' BY <3>1 DEF RecordAgrees
    <3> QED BY <2>1, <2>2, <2>4, <2>5, <2>7, <3>2, NewRecord
  <2> QED BY <1>7, <2>6, <2>7 DEF FillHostKey
<1>8. ASSUME NEW p \in Processes, End(p) \/ Kill(p) PROVE RecordInv'
  <2>1. /\ hostKey' = hostKey /\ cmd'[p] = "idle"
        /\ \A q \in Processes \ {p} : cmd'[q] = cmd[q] /\ job'[q] = job[q]
    BY <1>8 DEF End, Kill, Ended, Leave, storeVars, CommandInv, TypeOK
  <2> QED BY <2>1, SameRecords DEF RecordAgrees
<1>9. CASE Reinstall \/ UNCHANGED vars
  BY <1>9 DEF Reinstall, vars, storeVars, RecordInv, RecordAgrees, OneFills, Answer
<1> QED
  BY <1>1, <1>2, <1>3, <1>4, <1>5, <1>6, <1>7, <1>8, <1>9 DEF Next, CommandStep

\* The installer delivers only over a connection to the key on record, however
\* many meet a host for the first time (InstallerConnector.connect).
THEOREM AlwaysDeliversToRecordedKey == Spec => []DeliversToRecordedKey
<1>1. Init => RecordInv
  BY DEF Init, RecordInv, RecordAgrees, OneFills
<1>2. CommandInv /\ RecordInv => DeliversToRecordedKey
  BY DEF CommandInv, RecordInv, RecordAgrees, JobAgrees, LinkAgrees, HoldAgrees, Holding, OnMaster,
     Asking, Entry, DeliversToRecordedKey
<1> QED BY <1>1, <1>2, CommandInvariant, RecordInvStep, PTL DEF Spec

-----------------------------------------------------------------------------
(* The files of a name *)

\* Only an addition or a removal of a name writes its files.  While the name is
\* undisturbed, no command runs beside its addition, and the others find it
\* intact or without a credential.
IntactOrGone(n) ==
  \/ Credentials(n)'.yaml = None
  \/ Credentials(n)'.yaml = Credentials(n).yaml /\ config'[n] = config[n]

LEMMA OneNameSteps ==
  ASSUME CommandInv, StoreInv, NEW p \in Processes, cmd[p] # "idle",
         \A q \in Processes \ {p} : /\ cmd'[q] = cmd[q] /\ job'[q] = job[q]
                                    /\ step'[q] = step[q] /\ link'[q] = link[q],
         cmd'[p] # "idle" => Name(p)' = Name(p) /\ job'[p].kind = job[p].kind,
         accepted \subseteq accepted', disturbed \subseteq disturbed',
         \A n \in Names :
           \/ config'[n] = config[n] /\ credential'[n] = credential[n]
           \/ /\ n = Name(p)
              /\ n \notin disturbed' => StoreAgrees(n)' /\ (job[p].kind = "add" \/ IntactOrGone(n)),
         CommandAgrees(p)', LinkIsAgreed(p)', SecretOnlyToAcceptedKey'
  PROVE  StoreInv'
<1>1. Alone'
  <2> SUFFICES ASSUME NEW a \in Processes, NEW b \in Processes, a # b,
                      cmd'[a] # "idle", cmd'[b] # "idle", Name(a)' = Name(b)',
                      Name(a)' \in Names \ disturbed'
               PROVE  job'[a].kind # "add"
    BY DEF Alone
  <2>1. /\ cmd[a] # "idle" /\ Name(a)' = Name(a) /\ job'[a].kind = job[a].kind
        /\ cmd[b] # "idle" /\ Name(b)' = Name(b)
    BY DEF Name
  <2> QED BY <2>1 DEF StoreInv, Alone
<1>2. ASSUME NEW n \in Names \ disturbed' PROVE StoreAgrees(n)'
  <2>1. CASE config'[n] = config[n] /\ credential'[n] = credential[n]
    BY <1>2, <2>1 DEF StoreInv, StoreAgrees, Credentials, Agreed
  <2> QED BY <1>2, <2>1
<1>3. ASSUME NEW q \in Processes \ {p} PROVE CommandAgrees(q)'
  <2> SUFFICES ASSUME cmd[q] # "idle", Name(q) \in Names \ disturbed'
               PROVE  CommandAgrees(q)'
    BY DEF CommandAgrees, Name
  <2>1. CommandAgrees(q) /\ Name(q) \in Names \ disturbed BY DEF StoreInv
  <2>2. Name(q)' = Name(q) /\ Answer(q)' = Answer(q) BY DEF Name, Answer
  <2>3. CASE config'[Name(q)] = config[Name(q)] /\ credential'[Name(q)] = credential[Name(q)]
    <3>1. Store(Name(q))' = Store(Name(q)) /\ Credentials(Name(q))' = Credentials(Name(q))
      BY <2>2, <2>3 DEF Store, Credentials
    <3>2. job[q].kind = "add" => AddAgrees(q)'
      BY <2>1, <2>2, <2>3, <3>1 DEF CommandAgrees, AddAgrees, WroteIdentity, Agreed, Entry
    <3> QED BY <2>1, <2>2, <2>3, <3>1, <3>2 DEF CommandAgrees
  <2>4. CASE ~(config'[Name(q)] = config[Name(q)] /\ credential'[Name(q)] = credential[Name(q)])
    <3>1. Name(q) = Name(p) BY <2>1, <2>4
    <3>2. job[q].kind # "add" /\ job[p].kind # "add"
      BY <2>1, <3>1 DEF StoreInv, Alone
    <3> DEFINE n == Name(q)
    <3>3. n \in Names /\ IntactOrGone(n) BY <2>1, <2>4, <3>1, <3>2
    <3>4. Credentials(Name(q))' = Credentials(n)' BY <2>2 DEF Credentials
    <3> QED BY <2>1, <2>2, <3>2, <3>3, <3>4 DEF CommandAgrees, IntactOrGone
  <2> QED BY <2>3, <2>4
<1>4. ASSUME NEW q \in Processes \ {p} PROVE LinkIsAgreed(q)'
  BY <1>4 DEF StoreInv, LinkIsAgreed, Agreed, Peer
<1> QED BY <1>1, <1>2, <1>3, <1>4 DEF StoreInv

\* What was sent stays accepted.
LEMMA NothingSent ==
  ASSUME StoreInv, sent' = sent, accepted \subseteq accepted', disturbed \subseteq disturbed'
  PROVE  SecretOnlyToAcceptedKey'
BY DEF StoreInv, SecretOnlyToAcceptedKey

LEMMA SameLinkAgreed ==
  ASSUME StoreInv, NEW p \in Processes, UNCHANGED linkVars,
         accepted \subseteq accepted', disturbed \subseteq disturbed'
  PROVE  LinkIsAgreed(p)'
BY DEF StoreInv, LinkIsAgreed, Agreed, Peer, linkVars

LEMMA BeginStore == ASSUME CommandInv, StoreInv, NEW p \in Processes, Begin(p) PROVE StoreInv'
<1>1. PICK kind \in Kinds, n \in Names \cup {None}, a \in Answers \cup Inventory \cup {None} :
        /\ Start(p, kind, n, a)
        /\ IF kind = "install" THEN n = None ELSE n \in Names
  BY DEF Begin, Kinds
<1>2. /\ UNCHANGED <<linkVars, storeVars, accepted>> /\ disturbed \subseteq disturbed'
      /\ cmd[p] = "idle" /\ cmd'[p] = FirstStep(kind)
      /\ Name(p)' = n /\ job'[p].kind = kind
      /\ n \in Names => job'[p].found = Store(n)
      /\ \A q \in Processes \ {p} : cmd'[q] = cmd[q] /\ job'[q] = job[q]
  BY <1>1, TargetsAssumption DEF Start, To, CommandInv, TypeOK, Name
<1>3. ASSUME NEW q \in Processes \ {p}, cmd[q] # "idle", Name(q) = n,
             n \in Names \ disturbed'
      PROVE  kind # "add" /\ job[q].kind # "add"
  BY <1>1, <1>3 DEF Start
<1>4. Alone'
  <2> SUFFICES ASSUME NEW x \in Processes, NEW y \in Processes, x # y,
                      cmd'[x] # "idle", cmd'[y] # "idle", Name(x)' = Name(y)',
                      Name(x)' \in Names \ disturbed'
               PROVE  job'[x].kind # "add"
    BY DEF Alone
  <2>1. CASE x = p BY <1>2, <1>3, <2>1 DEF Name
  <2>2. CASE y = p BY <1>2, <1>3, <2>2 DEF Name
  <2>3. CASE x # p /\ y # p BY <1>2, <2>3 DEF StoreInv, Alone, Name
  <2> QED BY <2>1, <2>2, <2>3
<1>5. \A m \in Names \ disturbed' : StoreAgrees(m)'
  BY <1>2 DEF StoreInv, StoreAgrees, Credentials, Agreed, storeVars
<1>6. ASSUME NEW q \in Processes \ {p} PROVE CommandAgrees(q)'
  BY <1>2, <1>6 DEF StoreInv, CommandAgrees, AddAgrees, WroteIdentity, Agreed, Entry, Store,
     Credentials, Name, Answer, storeVars
<1>7. CommandAgrees(p)'
  <2>1. FirstStep(kind) \in {"lookup", "confirm", "hostKey", "loadConfig"}
        /\ (kind = "add" => FirstStep(kind) = "lookup")
    BY DEF FirstStep
  <2> QED
    BY <1>2, <2>1 DEF CommandAgrees, AddAgrees, Store, Credentials, storeVars, BeforeIdentity,
       BeforeConfig, AfterConfig
<1>8. \A q \in Processes : LinkIsAgreed(q)'
  BY <1>2, SameLinkAgreed
<1>9. SecretOnlyToAcceptedKey'
  BY <1>2, NothingSent DEF linkVars
<1> QED BY <1>4, <1>5, <1>6, <1>7, <1>8, <1>9 DEF StoreInv

\* The steps of an addition before it writes the configuration.
LEMMA AddingStore ==
  ASSUME CommandInv, StoreInv, NEW p \in Processes,
         LookUp(p) \/ AcceptKey(p) \/ Connected(p)
  PROVE  StoreInv'
<1> USE DEF LookUp, AcceptKey, Connected, To
<1>1. /\ UNCHANGED <<linkVars, storeVars, job, disturbed, commands>> /\ accepted \subseteq accepted'
      /\ cmd[p] # "idle"
      /\ \A q \in Processes \ {p} : cmd'[q] = cmd[q]
  BY DEF CommandInv, TypeOK
<1>2. CommandAgrees(p)'
  <2> SUFFICES ASSUME Name(p) \in Names \ disturbed, job[p].kind = "add"
               PROVE  AddAgrees(p)'
    <3>1. job[p].kind = "add" \/ cmd[p] = "connect"
      BY DEF CommandInv, JobAgrees, AddOnly
    <3> QED BY <1>1, <3>1 DEF CommandAgrees, Name, CommandInv, TypeOK
  <2>1. AddAgrees(p) /\ StoreAgrees(Name(p)) BY <1>1 DEF StoreInv, CommandAgrees
  <2>2. /\ Name(p)' = Name(p) /\ Answer(p)' = Answer(p) /\ Store(Name(p))' = Store(Name(p))
        /\ Credentials(Name(p))' = Credentials(Name(p)) /\ config' = config
    BY <1>1 DEF Name, Answer, Store, Credentials, storeVars
  <2>3. CASE LookUp(p)
    <3>1. Credentials(Name(p)).yaml = None \/ config[Name(p)] # None
      BY <2>1 DEF StoreAgrees
    <3>2. job[p].found = <<config[Name(p)], Credentials(Name(p))>>
      BY <2>1, <2>3 DEF AddAgrees, Store
    <3>3. cmd'[p] = IF config[Name(p)] = None THEN "display" ELSE "failed"
      BY <2>3 DEF CommandInv, TypeOK
    <3> QED
      BY <1>1, <2>2, <3>1, <3>2, <3>3
         DEF AddAgrees, BeforeIdentity, BeforeConfig, AfterConfig, Store
  <2>4. CASE AcceptKey(p)
    <3>1. \/ cmd'[p] = "failed"
          \/ /\ Agreed(Name(p), Answer(p).secret, job[p].key)'
             /\ cmd'[p] = IF Answer(p).auth = "public_key" THEN "identity" ELSE "open"
      BY <1>1, <2>2, <2>4 DEF CommandInv, TypeOK, Agreed
    <3>2. /\ job[p].found = <<None, job[p].found[2]>> /\ Credentials(Name(p)).yaml = None
          /\ config[Name(p)] = None /\ Credentials(Name(p)) = job[p].found[2]
      BY <2>1, <2>4 DEF AddAgrees, BeforeIdentity
    <3> QED
      BY <1>1, <2>2, <3>1, <3>2
         DEF AddAgrees, BeforeIdentity, BeforeConfig, AfterConfig, Store, WroteIdentity
  <2>5. CASE Connected(p)
    <3>1. cmd'[p] \in {"isNew", "undo"} /\ accepted' = accepted
      BY <2>5 DEF CommandInv, TypeOK
    <3> QED
      BY <1>1, <2>1, <2>2, <2>5, <3>1
         DEF AddAgrees, BeforeIdentity, BeforeConfig, AfterConfig, WroteIdentity, Agreed
  <2> QED BY <2>3, <2>4, <2>5
<1> QED
  BY <1>1, <1>2, OneNameSteps, NothingSent, SameLinkAgreed DEF Name, linkVars, storeVars

\* A command that notes something in its request.
LEMMA NotingStore ==
  ASSUME CommandInv, StoreInv, NEW p \in Processes,
         DisplayKey(p) \/ LookAgain(p) \/ LoadConfig(p) \/ ReadHostKey(p)
  PROVE  StoreInv'
<1> USE DEF DisplayKey, LookAgain, LoadConfig, ReadHostKey, To
<1>1. /\ UNCHANGED <<linkVars, storeVars, accepted, disturbed, commands>>
      /\ cmd[p] # "idle" /\ job[p] \in Jobs
      /\ \A q \in Processes \ {p} : cmd'[q] = cmd[q] /\ job'[q] = job[q]
  BY DEF CommandInv, TypeOK, JobAgrees
<1>2. /\ job'[p].kind = job[p].kind /\ job'[p].name = job[p].name
      /\ job'[p].answer = job[p].answer /\ job'[p].found = job[p].found
  <2>1. CASE DisplayKey(p) BY <1>1, <2>1 DEF CommandInv, TypeOK, Jobs
  <2>2. CASE LookAgain(p) BY <1>1, <2>2 DEF CommandInv, TypeOK, Jobs
  <2>3. CASE LoadConfig(p) BY <1>1, <2>3 DEF CommandInv, TypeOK, Jobs
  <2>4. CASE ReadHostKey(p)
    <3> DEFINE k == hostKey[Answer(p).host]
    <3>1. CASE k = None
      BY <1>1, <2>4, <3>1, TargetsAssumption DEF CommandInv, TypeOK, Jobs
    <3>2. CASE k \in NoRecord
      BY <1>1, <2>4, <3>2, TargetsAssumption DEF CommandInv, TypeOK, Jobs
    <3>3. CASE k # None /\ k \notin NoRecord
      BY <1>1, <2>4, <3>3 DEF CommandInv, TypeOK, Jobs
    <3> QED BY <3>1, <3>2, <3>3
  <2> QED BY <2>1, <2>2, <2>3, <2>4
<1>3. /\ Name(p)' = Name(p) /\ Answer(p)' = Answer(p) /\ Store(Name(p))' = Store(Name(p))
      /\ Credentials(Name(p))' = Credentials(Name(p)) /\ config' = config
  BY <1>1, <1>2 DEF Name, Answer, Store, Credentials, storeVars
<1>4. CommandAgrees(p)'
  <2> SUFFICES ASSUME Name(p) \in Names \ disturbed
               PROVE  CommandAgrees(p)'
    BY <1>1, <1>3 DEF CommandAgrees
  <2>1. CommandAgrees(p) /\ JobAgrees(p) BY DEF StoreInv, CommandInv
  <2>2. CASE DisplayKey(p)
    <3>1. cmd'[p] \in {"accept", "failed"} \/ job[p].kind # "add"
      BY <2>2 DEF CommandInv, TypeOK
    <3>2. cmd'[p] \in {"accept", "open", "failed"}
      BY <2>2 DEF CommandInv, TypeOK
    <3> QED
      BY <1>1, <1>2, <1>3, <2>1, <2>2, <3>1, <3>2
         DEF CommandAgrees, AddAgrees, BeforeIdentity, BeforeConfig, AfterConfig, Store
  <2>3. CASE LookAgain(p)
    <3>1. cmd'[p] = "config" /\ job'[p].isNew = (config[Name(p)] = None) /\ job'[p].key = job[p].key
      BY <1>1, <2>3 DEF CommandInv, TypeOK, Jobs
    <3> QED
      BY <1>1, <1>2, <1>3, <2>1, <2>3, <3>1
         DEF CommandAgrees, AddAgrees, BeforeIdentity, BeforeConfig, AfterConfig,
             WroteIdentity, Agreed
  <2>4. CASE LoadConfig(p)
    <3>1. \/ cmd'[p] = "failed"
          \/ cmd'[p] = "loadCredential" /\ job'[p].entry = config[Name(p)]
      BY <1>1, <2>4 DEF CommandInv, TypeOK, Jobs
    <3>2. job[p].kind # "add" BY <2>1, <2>4 DEF JobAgrees, LoadOnly
    <3> QED BY <1>2, <1>3, <3>1, <3>2 DEF CommandAgrees
  <2>5. CASE ReadHostKey(p)
    BY <2>1, <2>5, TargetsAssumption DEF JobAgrees, InstallOnly
  <2> QED BY <2>2, <2>3, <2>4, <2>5
<1> QED
  BY <1>1, <1>2, <1>3, <1>4, OneNameSteps, NothingSent, SameLinkAgreed DEF linkVars, storeVars

\* An addition that writes the files of its name.
LEMMA WritingStore ==
  ASSUME CommandInv, StoreInv, NEW p \in Processes,
         WriteIdentity(p) \/ WriteConfig(p) \/ WriteCredential(p) \/ UndoConfig(p) \/ Undo(p)
  PROVE  StoreInv'
<1> USE DEF WriteIdentity, WriteConfig, WriteCredential, UndoConfig, Undo, To
<1>1. /\ UNCHANGED <<linkVars, job, accepted>> /\ disturbed \subseteq disturbed'
      /\ cmd[p] # "idle" /\ cmd[p] \in AddOnly
      /\ \A q \in Processes \ {p} : cmd'[q] = cmd[q]
  BY DEF CommandInv, TypeOK, Disturb, AddOnly
<1>2. /\ job[p].kind = "add" /\ Name(p) \in Names /\ JobAgrees(p) /\ HoldAgrees(p)
      /\ Answer(p).secret \in Secrets
  BY <1>1, AnswerType DEF CommandInv, JobAgrees, AddOnly, Asking
<1>3. \A n \in Names \ {Name(p)} : config'[n] = config[n] /\ credential'[n] = credential[n]
  BY DEF SetConfig, SetCredential, NewCredential, CommandInv, TypeOK
<1>4. Name(p)' = Name(p) /\ Answer(p)' = Answer(p) /\ job' = job
  BY <1>1 DEF Name, Answer
<1>5. Name(p) \notin disturbed' =>
        /\ AddAgrees(p) /\ StoreAgrees(Name(p))
        /\ Credentials(Name(p)).yaml = None
        /\ cmd[p] # "undoRest" => job[p].found = <<None, job[p].found[2]>>
  BY <1>1, <1>2
     DEF StoreInv, CommandAgrees, AddAgrees, BeforeConfig, BeforeIdentity, AfterConfig
<1>6. Credentials(Name(p)) \in Directories
  BY <1>2, CredentialsType DEF CommandInv
<1> DEFINE Result == Name(p) \notin disturbed' => StoreAgrees(Name(p))' /\ AddAgrees(p)'
\* What is left of a directory without a password has none either.
<1>7. ASSUME NEW d \in Directories, d.yaml = None, NEW rest \in PartsOf(d),
             credential' = [credential EXCEPT ![Name(p)] = rest]
      PROVE  Credentials(Name(p))'.yaml = None
  <2>1. rest \in Directories /\ rest.yaml = None BY <1>7 DEF PartsOf, Directories
  <2>2. credential'[Name(p)] = rest BY <1>2, <1>7 DEF CommandInv, TypeOK
  <2> QED BY <1>4, <2>1, <2>2, TargetsAssumption DEF Credentials
\* It ends without a password.
<1>8. ASSUME cmd'[p] \in {"left", "undoRest"}, Credentials(Name(p))'.yaml = None
      PROVE  Result
  BY <1>4, <1>8 DEF AddAgrees, BeforeIdentity, BeforeConfig, AfterConfig, StoreAgrees
<1>9. ASSUME WriteIdentity(p) PROVE Result
  <2> DEFINE d == IdentityOnly(Answer(p))
  <2>1. d = [yaml |-> None, identity |-> Answer(p).secret] /\ d \in Directories
    BY <1>2 DEF IdentityOnly, EmptyDirectory, Directories
  <2> HIDE DEF d
  <2>2. CASE cmd'[p] = "failed" /\ credential' = credential
    <3>1. Store(Name(p))' = Store(Name(p)) /\ Credentials(Name(p))' = Credentials(Name(p))
      BY <1>4, <1>9, <2>2 DEF Store, Credentials
    <3> QED
      BY <1>1, <1>4, <1>5, <1>9, <2>2, <3>1
         DEF AddAgrees, BeforeIdentity, BeforeConfig, AfterConfig, StoreAgrees, Agreed, Store
  <2>3. CASE credential[Name(p)] = None /\ SetCredential(Name(p), d) /\ To(p, "open")
    <3>1. /\ cmd[p] = "identity" /\ cmd'[p] = "open" /\ credential'[Name(p)] = d
          /\ config' = config /\ disturbed' = disturbed
      BY <1>2, <1>9, <2>3 DEF SetCredential, CommandInv, TypeOK
    <3>2. Credentials(Name(p))' = d
      BY <1>4, <2>1, <3>1, TargetsAssumption DEF Credentials
    <3>3. Credentials(Name(p)) = EmptyDirectory BY <2>3 DEF Credentials
    <3>4. ASSUME Name(p) \notin disturbed' PROVE AddAgrees(p)'
      <4>1. /\ job[p].found[2] = EmptyDirectory /\ config[Name(p)] = None
            /\ Answer(p).auth = "public_key" /\ Agreed(Name(p), Answer(p).secret, job[p].key)
        BY <1>5, <3>1, <3>3, <3>4 DEF AddAgrees, BeforeIdentity
      <4> QED
        BY <1>1, <1>4, <1>5, <2>1, <3>1, <3>2, <3>4, <4>1
           DEF AddAgrees, BeforeIdentity, BeforeConfig, AfterConfig, WroteIdentity, Agreed
    <3>5. StoreAgrees(Name(p))' BY <1>4, <2>1, <3>2 DEF StoreAgrees
    <3> QED BY <3>4, <3>5
  <2>4. ASSUME NEW rest \in PartsOf(d), SetCredential(Name(p), rest), To(p, "left")
        PROVE  Result
    <3>1. Credentials(Name(p))'.yaml = None BY <1>7, <2>1, <2>4 DEF SetCredential
    <3>2. cmd'[p] = "left" BY <2>4 DEF CommandInv, TypeOK
    <3> QED BY <1>8, <3>1, <3>2
  <2>5. cmd' = [cmd EXCEPT ![p] = "failed"] => cmd'[p] = "failed"
    BY DEF CommandInv, TypeOK
  <2> QED BY <1>9, <2>2, <2>3, <2>4, <2>5 DEF d
<1>10. ASSUME WriteConfig(p) PROVE Result
  <2>1. /\ cmd[p] = "config" /\ credential' = credential /\ disturbed' = disturbed
        /\ Credentials(Name(p))' = Credentials(Name(p))
    BY <1>4, <1>10 DEF Credentials
  <2>2. \/ cmd'[p] = "undo" /\ config' = config
        \/ cmd'[p] = "credential" /\ config'[Name(p)] = Peer(p)
        \/ cmd'[p] = "undoRest"
    BY <1>2, <1>10 DEF SetConfig, CommandInv, TypeOK
  <2>3. CASE cmd'[p] = "undoRest"
    <3> SUFFICES ASSUME Name(p) \notin disturbed' PROVE Result
      OBVIOUS
    <3> QED BY <1>5, <1>8, <2>1, <2>3
  <2>4. ASSUME Name(p) \notin disturbed', cmd'[p] # "undoRest" PROVE AddAgrees(p)'
    <3>1. Peer(p) = Entry(Answer(p), job[p].key)
      BY <1>2, <2>1 DEF HoldAgrees, Holding, Asking
    <3> QED
      BY <1>1, <1>4, <1>5, <2>1, <2>2, <2>4, <3>1
         DEF AddAgrees, BeforeIdentity, BeforeConfig, AfterConfig, WroteIdentity, Agreed, Entry
  <2>5. Name(p) \notin disturbed' => StoreAgrees(Name(p))'
    BY <1>4, <1>5, <2>1 DEF StoreAgrees
  <2> QED BY <2>3, <2>4, <2>5
<1>11. ASSUME WriteCredential(p) PROVE Result
  <2>1. ASSUME Name(p) \notin disturbed'
        PROVE  StoreAgrees(Name(p))' /\ AddAgrees(p)'
    <3>1. /\ cmd[p] = "credential" /\ job[p].isNew /\ WroteIdentity(p)
          /\ config[Name(p)] = Entry(Answer(p), job[p].key) /\ config' = config
          /\ Agreed(Name(p), Answer(p).secret, job[p].key)
      BY <1>5, <1>11, <2>1 DEF AddAgrees, AfterConfig
    <3>2. CASE NewCredential(p) /\ To(p, "ok")
      <4> DEFINE d == [Credentials(Name(p)) EXCEPT !.yaml = Answer(p).secret]
      <4>1. d \in Directories /\ d.yaml = Answer(p).secret
            /\ d.identity = Credentials(Name(p)).identity
        BY <1>2, <1>6 DEF Directories
      <4>2. credential'[Name(p)] = d /\ cmd'[p] = "ok"
        BY <1>2, <3>2 DEF NewCredential, SetCredential, CommandInv, TypeOK
      <4>3. d # None BY <4>1, TargetsAssumption
      <4> HIDE DEF d
      <4>4. Credentials(Name(p))' = d BY <1>4, <4>2, <4>3 DEF Credentials
      <4>5. Entry(Answer(p), job[p].key) # None
            /\ Entry(Answer(p), job[p].key).key = job[p].key
        <5>1. Entry(Answer(p), job[p].key) \in Entries
          BY <1>2, <3>1, EntryType DEF JobAgrees, Asking
        <5> QED BY <5>1, TargetsAssumption DEF Entry
      <4>6. StoreAgrees(Name(p))'
        BY <1>1, <1>4, <3>1, <3>2, <4>1, <4>4, <4>5 DEF StoreAgrees, Agreed
      <4>7. AddAgrees(p)'
        BY <1>4, <3>1, <3>2, <4>1, <4>2, <4>4
           DEF AddAgrees, BeforeIdentity, BeforeConfig, AfterConfig, WroteIdentity, Entry
      <4> QED BY <4>6, <4>7
    <3>3. CASE To(p, "undoConfig") /\ SetCredential(Name(p), Credentials(Name(p)))
      <4>1. cmd'[p] = "undoConfig" /\ credential'[Name(p)] = Credentials(Name(p))
        BY <1>2, <3>3 DEF SetCredential, CommandInv, TypeOK
      <4>2. Credentials(Name(p)) # None BY <1>6, TargetsAssumption
      <4>3. Credentials(Name(p))' = Credentials(Name(p))
        BY <1>4, <4>1, <4>2 DEF Credentials
      <4>4. StoreAgrees(Name(p))' BY <1>4, <1>5, <2>1, <4>3 DEF StoreAgrees
      <4>5. AddAgrees(p)'
        BY <1>1, <1>4, <1>5, <2>1, <3>1, <4>1, <4>3
           DEF AddAgrees, BeforeIdentity, BeforeConfig, AfterConfig, WroteIdentity, Agreed
      <4> QED BY <4>4, <4>5
    <3>4. ~(NewCredential(p) /\ Disturb(Name(p)))
      BY <2>1 DEF Disturb
    <3> QED BY <1>11, <3>2, <3>3, <3>4
  <2> QED BY <2>1
<1>12. ASSUME UndoConfig(p) PROVE Result
  <2> SUFFICES ASSUME Name(p) \notin disturbed' PROVE Result
    OBVIOUS
  <2>1. /\ cmd[p] = "undoConfig" /\ credential' = credential /\ disturbed' = disturbed
        /\ Credentials(Name(p))' = Credentials(Name(p))
    BY <1>4, <1>12 DEF Credentials
  <2>2. job[p].isNew /\ WroteIdentity(p) BY <1>5, <2>1 DEF AddAgrees, AfterConfig
  <2>3. CASE SetConfig(Name(p), None) /\ To(p, "undo")
    <3>1. config'[Name(p)] = None /\ cmd'[p] = "undo"
      BY <1>2, <2>3 DEF SetConfig, CommandInv, TypeOK
    <3>2. StoreAgrees(Name(p))' BY <1>4, <1>5, <2>1 DEF StoreAgrees
    <3>3. AddAgrees(p)'
      BY <1>1, <1>4, <1>5, <2>1, <2>2, <3>1
         DEF AddAgrees, BeforeIdentity, BeforeConfig, AfterConfig, WroteIdentity, Agreed
    <3> QED BY <3>2, <3>3
  <2>4. CASE To(p, "undoRest")
    <3>1. cmd'[p] = "undoRest" BY <2>4 DEF CommandInv, TypeOK
    <3> QED BY <1>5, <1>8, <2>1, <3>1
  <2> QED BY <1>12, <2>2, <2>3, <2>4
<1>13. ASSUME Undo(p) PROVE Result
  <2> SUFFICES ASSUME Name(p) \notin disturbed' PROVE Result
    OBVIOUS
  <2>1. config' = config /\ disturbed' = disturbed /\ cmd[p] \in {"undo", "undoRest"}
    BY <1>13
  <2>2. CASE /\ IF Answer(p).auth = "public_key" THEN SetCredential(Name(p), None)
                 ELSE UNCHANGED credential
             /\ To(p, IF cmd[p] = "undo" THEN "failed" ELSE "left")
    <3>1. cmd'[p] = IF cmd[p] = "undo" THEN "failed" ELSE "left"
      BY <2>2 DEF CommandInv, TypeOK
    <3>2. Credentials(Name(p))' = IF Answer(p).auth = "public_key" THEN EmptyDirectory
                                  ELSE Credentials(Name(p))
      BY <1>2, <1>4, <2>2 DEF SetCredential, CommandInv, TypeOK, Credentials
    <3>3. Credentials(Name(p))'.yaml = None BY <1>5, <3>2 DEF EmptyDirectory
    <3>4. CASE cmd[p] = "undoRest" BY <1>8, <3>1, <3>3, <3>4
    <3>5. CASE cmd[p] = "undo"
      <4>1. WroteIdentity(p) /\ config[Name(p)] = None
        BY <1>5, <3>5 DEF AddAgrees, BeforeConfig
      <4>2. Credentials(Name(p))' = job[p].found[2] BY <3>2, <4>1 DEF WroteIdentity
      <4>3. AddAgrees(p)'
        BY <1>4, <1>5, <2>1, <3>1, <3>5, <4>1, <4>2
           DEF AddAgrees, BeforeIdentity, BeforeConfig, AfterConfig, Store
      <4>4. StoreAgrees(Name(p))' BY <1>4, <3>3 DEF StoreAgrees
      <4> QED BY <4>3, <4>4
    <3> QED BY <2>1, <3>4, <3>5
  <2>3. ASSUME NEW rest \in PartsOf(credential[Name(p)]), credential[Name(p)] # None,
               SetCredential(Name(p), rest), To(p, "left")
        PROVE  Result
    <3>1. credential[Name(p)] \in Directories /\ credential[Name(p)].yaml = None
      BY <1>2, <1>5, <2>3 DEF CommandInv, TypeOK, Credentials
    <3>2. Credentials(Name(p))'.yaml = None BY <1>7, <2>3, <3>1 DEF SetCredential
    <3>3. cmd'[p] = "left" BY <2>3 DEF CommandInv, TypeOK
    <3> QED BY <1>8, <3>2, <3>3
  <2> QED BY <1>13, <2>2, <2>3
<1>14. Result BY <1>9, <1>10, <1>11, <1>12, <1>13
<1>15. CommandAgrees(p)'
  <2>1. cmd'[p] \notin {"dropConfig", "loadCredential"}
    BY DEF CommandInv, TypeOK
  <2> QED BY <1>4, <1>14, <2>1 DEF CommandAgrees
<1> QED
  BY <1>1, <1>2, <1>3, <1>4, <1>14, <1>15, OneNameSteps, NothingSent, SameLinkAgreed
     DEF linkVars

\* A removal, which removes the credential before the configuration.
LEMMA RemovingStore ==
  ASSUME CommandInv, StoreInv, NEW p \in Processes,
         Confirm(p) \/ Find(p) \/ DropCredential(p) \/ DropConfig(p)
  PROVE  StoreInv'
<1> USE DEF Confirm, Find, DropCredential, DropConfig, To
<1>1. /\ UNCHANGED <<linkVars, job, accepted, disturbed>>
      /\ cmd[p] # "idle" /\ cmd[p] \in RemoveOnly
      /\ \A q \in Processes \ {p} : cmd'[q] = cmd[q]
  BY DEF CommandInv, TypeOK, RemoveOnly, storeVars
<1>2. job[p].kind = "remove" /\ Name(p) \in Names
  BY <1>1 DEF CommandInv, JobAgrees, RemoveOnly
<1>3. \A n \in Names \ {Name(p)} : config'[n] = config[n] /\ credential'[n] = credential[n]
  BY DEF SetConfig, SetCredential, CommandInv, TypeOK, storeVars
<1>4. Name(p)' = Name(p) /\ job' = job
  BY <1>1 DEF Name
<1>5. ASSUME Name(p) \notin disturbed'
      PROVE  /\ StoreAgrees(Name(p))' /\ IntactOrGone(Name(p))
             /\ cmd'[p] = "dropConfig" => Credentials(Name(p))'.yaml = None
  <2>1. StoreAgrees(Name(p)) /\ CommandAgrees(p) BY <1>1, <1>2, <1>5 DEF StoreInv
  <2> DEFINE n == Name(p)
  <2>2. n' = n BY <1>4
  <2>3. SUFFICES /\ \/ Credentials(n)'.yaml = None
                    \/ /\ Credentials(n)'.yaml = Credentials(n).yaml
                       /\ config'[n] = config[n] /\ cmd'[p] # "dropConfig"
    BY <1>1, <2>1, <2>2 DEF StoreAgrees, IntactOrGone, Agreed, Credentials
  <2>4. CASE Confirm(p) \/ Find(p)
    <3>1. cmd'[p] # "dropConfig" BY <2>4 DEF CommandInv, TypeOK
    <3> QED BY <2>2, <2>4, <3>1 DEF storeVars, Credentials
  <2>5. CASE DropCredential(p)
    <3>1. /\ config' = config
          /\ \/ credential'[n] = None
             \/ credential[n] # None /\ credential'[n] \in PartsOf(credential[n])
                /\ cmd'[p] = "failed"
             \/ credential'[n] = credential[n] /\ cmd'[p] = "failed"
      BY <1>2, <2>5 DEF SetCredential, CommandInv, TypeOK
    <3>2. CASE credential'[n] = None
      BY <2>2, <3>2 DEF Credentials, EmptyDirectory
    <3>3. CASE /\ credential[n] # None /\ cmd'[p] = "failed"
               /\ credential'[n] \in PartsOf(credential[n])
      <4>1. credential[n] \in Directories BY <1>2, <3>3 DEF CommandInv, TypeOK
      <4>2. /\ credential'[n] \in Directories
            /\ credential'[n].yaml \in {None, credential[n].yaml}
        BY <3>3, <4>1 DEF PartsOf, Directories
      <4>3. credential'[n] # None BY <4>2, TargetsAssumption
      <4> QED BY <2>2, <3>1, <3>3, <4>2, <4>3 DEF Credentials
    <3>4. CASE credential'[n] = credential[n] /\ cmd'[p] = "failed"
      BY <2>2, <3>1, <3>4 DEF Credentials
    <3> QED BY <3>1, <3>2, <3>3, <3>4
  <2>6. CASE DropConfig(p)
    <3>1. Credentials(n).yaml = None BY <1>1, <1>2, <1>5, <2>1, <2>6 DEF CommandAgrees
    <3> QED BY <2>2, <2>6, <3>1 DEF Credentials
  <2> QED BY <2>4, <2>5, <2>6
<1>6. CommandAgrees(p)'
  <2>1. cmd'[p] # "loadCredential" BY DEF CommandInv, TypeOK
  <2> QED BY <1>2, <1>4, <1>5, <2>1 DEF CommandAgrees
<1> QED
  BY <1>1, <1>2, <1>3, <1>4, <1>5, <1>6, OneNameSteps, NothingSent, SameLinkAgreed DEF linkVars

\* The host keys are no part of a managed target.
LEMMA RecordingStore ==
  ASSUME CommandInv, StoreInv, NEW p \in Processes, RecordHostKey(p) \/ FillHostKey(p)
  PROVE  StoreInv'
<1> USE DEF RecordHostKey, FillHostKey, To
<1>1. /\ UNCHANGED <<linkVars, config, credential, job, accepted, disturbed>>
      /\ cmd[p] # "idle" /\ cmd[p] \in InstallOnly
      /\ \A q \in Processes \ {p} : cmd'[q] = cmd[q]
  BY DEF CommandInv, TypeOK, InstallOnly
<1>2. Name(p) = None
  BY <1>1 DEF CommandInv, JobAgrees
<1>3. CommandAgrees(p)'
  BY <1>1, <1>2, TargetsAssumption DEF CommandAgrees, Name
<1> QED
  BY <1>1, <1>3, OneNameSteps, NothingSent, SameLinkAgreed DEF linkVars, Name

\* A connection is opened with what its name holds.
LEMMA OpeningStore ==
  ASSUME CommandInv, StoreInv, NEW p \in Processes, Open(p) \/ LoadCredential(p)
  PROVE  StoreInv'
<1>1. /\ UNCHANGED <<config, credential, hostKey, job, accepted, disturbed, sent>>
      /\ cmd[p] # "idle"
      /\ \A q \in Processes \ {p} : /\ cmd'[q] = cmd[q] /\ step'[q] = step[q]
                                    /\ link'[q] = link[q]
  BY DEF Open, LoadCredential, storeVars, linkVars, To, Connect, Goto, CommandInv, TypeOK,
     LinkTypeOK
<1>2. /\ Name(p)' = Name(p) /\ Answer(p)' = Answer(p) /\ Store(Name(p))' = Store(Name(p))
      /\ Credentials(Name(p))' = Credentials(Name(p)) /\ job' = job
  BY <1>1 DEF Name, Answer, Store, Credentials
<1>3. CommandAgrees(p) /\ LinkIsAgreed(p) /\ JobAgrees(p) BY DEF StoreInv, CommandInv
<1>4. CASE Open(p)
  <2>1. /\ cmd[p] = "open" /\ cmd'[p] = "connect" /\ step'[p] = "scan"
        /\ link'[p] = [name |-> Name(p), secret |-> Answer(p).secret, preflight |-> TRUE,
                       entry |-> Entry(Answer(p), job[p].key)]
    BY <1>4 DEF Open, Connect, To, Goto, CommandInv, TypeOK, LinkTypeOK
  <2>2. CommandAgrees(p)'
    BY <1>1, <1>2, <1>3, <2>1
       DEF CommandAgrees, AddAgrees, BeforeIdentity, BeforeConfig, AfterConfig, WroteIdentity,
           Agreed
  <2>3. job[p].kind = "add" \/ Name(p) = None
    BY <1>3, <2>1 DEF JobAgrees, Asking
  <2>4. /\ Peer(p)'.key = job[p].key /\ link'[p].name = Name(p)
        /\ link'[p].secret = Answer(p).secret
    BY <2>1 DEF Peer, Entry
  <2>5. LinkIsAgreed(p)'
    BY <1>1, <1>3, <2>1, <2>3, <2>4, TargetsAssumption
       DEF LinkIsAgreed, CommandAgrees, AddAgrees, BeforeConfig, Agreed
  <2> QED BY <1>1, <1>2, <2>2, <2>5, OneNameSteps, NothingSent
<1>5. CASE LoadCredential(p)
  <2>1. cmd[p] = "loadCredential" /\ cmd'[p] \in {"failed", "connect"}
    BY <1>5 DEF LoadCredential, To, CommandInv, TypeOK
  <2>2. job[p].kind # "add" /\ Name(p) \in Names
    BY <1>3, <2>1 DEF JobAgrees, LoadOnly
  <2>3. CommandAgrees(p)'
    BY <1>2, <2>1, <2>2 DEF CommandAgrees
  <2>4. LinkIsAgreed(p)'
    <3>1. CASE UNCHANGED linkVars
      BY <1>1, <3>1, SameLinkAgreed
    <3>2. CASE ~UNCHANGED linkVars
      <4>1. /\ Credentials(Name(p)).yaml # None
            /\ link'[p] = [name |-> Name(p), secret |-> Credentials(Name(p)).yaml,
                           preflight |-> TRUE, entry |-> job[p].entry]
        BY <1>5, <3>2 DEF LoadCredential, Connect, CommandInv, TypeOK, LinkTypeOK
      <4>2. /\ Peer(p)' = job[p].entry /\ link'[p].name = Name(p)
            /\ link'[p].secret = Credentials(Name(p)).yaml
        BY <4>1 DEF Peer
      <4>3. ASSUME Name(p) \notin disturbed
            PROVE  Agreed(Name(p), Credentials(Name(p)).yaml, job[p].entry.key)
        BY <1>3, <2>1, <2>2, <4>1, <4>3 DEF StoreInv, StoreAgrees, CommandAgrees
      <4> QED BY <1>1, <4>2, <4>3 DEF LinkIsAgreed, Agreed
    <3> QED BY <3>1, <3>2
  <2> QED BY <1>1, <1>2, <2>3, <2>4, OneNameSteps, NothingSent
<1> QED BY <1>4, <1>5

\* What goes out over a connection was agreed for its key.
LEMMA SendingStays ==
  ASSUME CommandInv, StoreInv, NEW p \in Processes, step[p] # "idle",
         Send(p, Peer(p).key), UNCHANGED <<accepted, disturbed>>
  PROVE  SecretOnlyToAcceptedKey'
<1>1. link[p] \in Links BY DEF CommandInv, LinkAgrees
<1> QED BY <1>1 DEF StoreInv, SecretOnlyToAcceptedKey, LinkIsAgreed, Agreed, Send, Links

LEMMA ConnectingStore ==
  ASSUME CommandInv, StoreInv, NEW p \in Processes, Connecting(p)
  PROVE  StoreInv'
<1>1. /\ cmd[p] = "connect" /\ LinkStep(p)
      /\ UNCHANGED <<config, credential, hostKey, cmd, job, accepted, disturbed>>
  BY DEF Connecting, storeVars
<1>2. /\ step[p] # "idle" /\ link' = link
      /\ \A q \in Processes \ {p} : step'[q] = step[q]
  BY <1>1, LinkStepKeeps
<1>3. CommandAgrees(p)'
  BY <1>1 DEF StoreInv, CommandAgrees, AddAgrees, WroteIdentity, Agreed, Entry, Store,
     Credentials, Name, Answer
<1>4. LinkIsAgreed(p)'
  BY <1>1, <1>2 DEF StoreInv, LinkIsAgreed, Agreed, Peer
<1>5. sent' = sent \/ Send(p, Peer(p).key)
  BY <1>1
     DEF LinkStep, ScanAgain, OpenRuntime, StartMaster, Ask, AuthenticateSudo, ProbeInbox, Cleanup,
         CommandInv, LinkAgrees, OnMaster
<1>6. SecretOnlyToAcceptedKey'
  BY <1>1, <1>2, <1>5, SendingStays, NothingSent
<1> QED BY <1>1, <1>2, <1>3, <1>4, <1>6, OneNameSteps DEF Name

LEMMA DeliveringStore ==
  ASSUME CommandInv, StoreInv, NEW p \in Processes, Deliver(p)
  PROVE  StoreInv'
<1>1. /\ cmd[p] = "deliver" /\ Send(p, session[p]) /\ cmd'[p] \in {"ok", "failed"}
      /\ UNCHANGED <<config, credential, hostKey, job, accepted, disturbed, step, link>>
      /\ \A q \in Processes \ {p} : cmd'[q] = cmd[q]
  BY DEF Deliver, storeVars, To, CommandInv, TypeOK
<1>2. step[p] = "up" /\ session[p] = Peer(p).key /\ job[p].kind # "add"
  BY <1>1 DEF CommandInv, HoldAgrees, Holding, LinkAgrees, OnMaster, JobAgrees
<1>3. CommandAgrees(p)'
  BY <1>1, <1>2 DEF CommandAgrees
<1>4. LinkIsAgreed(p)'
  BY <1>1 DEF StoreInv, LinkIsAgreed, Agreed, Peer
<1>5. SecretOnlyToAcceptedKey'
  BY <1>1, <1>2, SendingStays
<1> QED BY <1>1, <1>3, <1>4, <1>5, OneNameSteps DEF Name

LEMMA LeavingStore ==
  ASSUME CommandInv, StoreInv, NEW p \in Processes, End(p) \/ Kill(p)
  PROVE  StoreInv'
<1>1. /\ cmd[p] # "idle" /\ cmd'[p] = "idle" /\ step'[p] = "idle"
      /\ UNCHANGED <<config, credential, hostKey, accepted, disturbed, sent>>
      /\ \A q \in Processes \ {p} : /\ cmd'[q] = cmd[q] /\ job'[q] = job[q]
                                    /\ step'[q] = step[q] /\ link'[q] = link[q]
  BY DEF End, Kill, Ended, Leave, Disconnect, Goto, To, storeVars, CommandInv, TypeOK, LinkTypeOK
<1> QED
  BY <1>1, OneNameSteps, NothingSent DEF CommandAgrees, LinkIsAgreed

LEMMA StoreInvStep == CommandInv /\ StoreInv /\ [Next]_vars => StoreInv'
<1> SUFFICES ASSUME CommandInv, StoreInv, [Next]_vars PROVE StoreInv'
  OBVIOUS
<1>1. CASE Reinstall \/ UNCHANGED vars
  <2>1. /\ UNCHANGED <<config, credential, cmd, job, accepted, disturbed, sent, step, link>>
    BY <1>1 DEF Reinstall, ChangeKey, vars, linkVars, storeVars
  <2>2. ASSUME NEW p \in Processes PROVE CommandAgrees(p)' /\ LinkIsAgreed(p)'
    BY <2>1 DEF StoreInv, CommandAgrees, AddAgrees, WroteIdentity, Agreed, Entry, Store,
       Credentials, Name, Answer, LinkIsAgreed, Peer
  <2>3. \A n \in Names \ disturbed' : StoreAgrees(n)'
    BY <2>1 DEF StoreInv, StoreAgrees, Credentials, Agreed
  <2>4. Alone' BY <2>1 DEF StoreInv, Alone, Name
  <2>5. SecretOnlyToAcceptedKey' BY <2>1, NothingSent
  <2> QED BY <2>2, <2>3, <2>4, <2>5 DEF StoreInv
<1>2. CASE \E p \in Processes : Begin(p) \/ CommandStep(p) \/ End(p) \/ Kill(p)
  BY <1>2, BeginStore, AddingStore, NotingStore, WritingStore, RemovingStore, RecordingStore,
     OpeningStore, ConnectingStore, DeliveringStore, LeavingStore DEF CommandStep
<1> QED BY <1>1, <1>2 DEF Next

LEMMA StoreInvariant == Spec => []StoreInv
<1>1. Init => StoreInv
  <2> SUFFICES ASSUME Init PROVE StoreInv
    OBVIOUS
  <2>1. \A n \in Names : StoreAgrees(n)
    BY DEF Init, StoreAgrees, Credentials, EmptyDirectory
  <2>2. \A p \in Processes : cmd[p] = "idle" /\ step[p] = "idle"
    BY DEF Init, LinkInit
  <2> QED
    BY <2>1, <2>2
       DEF Init, LinkInit, StoreInv, Alone, CommandAgrees, LinkIsAgreed, SecretOnlyToAcceptedKey
<1> QED BY <1>1, CommandInvariant, StoreInvStep, PTL DEF Spec

\* The secret of a managed target goes only to a server with the key that the
\* operator accepted for it (connectConfiguration, runRemoteTargetAdd), unless
\* the name was added beside another command for it or its credential was in
\* place and did not sync.
THEOREM SecretAlwaysToAcceptedKey == Spec => []SecretOnlyToAcceptedKey
<1>1. StoreInv => SecretOnlyToAcceptedKey BY DEF StoreInv
<1> QED BY <1>1, StoreInvariant, PTL

\* There is never a password without its configuration, whatever is killed,
\* fails or fails to be undone, and whatever removals overlap (Write, Remove),
\* unless the name was added beside another command for it or its credential
\* was in place and did not sync.
THEOREM NeverOrphanedPassword == Spec => []NoOrphanedPassword
<1>1. StoreInv => NoOrphanedPassword BY DEF StoreInv, StoreAgrees, NoOrphanedPassword
<1> QED BY <1>1, StoreInvariant, PTL

\* target add leaves all of a target or what was there before, and something
\* without a credential when the undo fails too or the configuration in place
\* does not sync (Write, runRemoteTargetAdd), unless the name was added beside
\* another command for it or its credential was in place and did not sync.
THEOREM AddAlwaysAllOrNothing == Spec => []AddIsAllOrNothing
<1>1. CommandInv /\ StoreInv => AddIsAllOrNothing
  <2> SUFFICES ASSUME CommandInv, StoreInv, NEW p \in Processes, job[p] # None,
                      job[p].kind = "add", Name(p) \notin disturbed
               PROVE  /\ cmd[p] = "failed" => Store(Name(p)) = job[p].found
                      /\ cmd[p] = "left" => Credentials(Name(p)).yaml = None
                      /\ cmd[p] = "ok" =>
                           /\ config[Name(p)] = Entry(Answer(p), job[p].key)
                           /\ Credentials(Name(p)).yaml = Answer(p).secret
                           /\ Answer(p).auth = "public_key" =>
                                Credentials(Name(p)).identity = Answer(p).secret
    BY DEF AddIsAllOrNothing
  <2>1. cmd[p] # "idle" /\ Name(p) \in Names BY DEF CommandInv, JobAgrees
  <2>2. AddAgrees(p) BY <2>1 DEF StoreInv, CommandAgrees
  <2> QED BY <2>2 DEF AddAgrees
<1> QED BY <1>1, CommandInvariant, StoreInvariant, PTL
=============================================================================
