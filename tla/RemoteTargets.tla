---------------------------- MODULE RemoteTargets -----------------------------
(***************************************************************************)
(* The targets a control host knows: eva remote target add, remove and     *)
(* verify, the publication to a managed target, and the remote installer,  *)
(* which has targets of its own and remembers only their host keys         *)
(* (internal/remote/target.go, publish.go, installer.go).                  *)
(*                                                                         *)
(* A managed target is two files, target.yaml in the registry and          *)
(* credential.yaml in the root-only credential directory, which also holds *)
(* the private key of a target that uses one.  Nothing locks a name: the   *)
(* commands of several operators interleave, and each may fail or be       *)
(* killed at any step.                                                     *)
(*                                                                         *)
(* Data abstracted: an operator's answers are a host, a method and a       *)
(* secret; the key file of a public-key target has the same name as its    *)
(* secret; permissions and the form of the files are valid.                *)
(***************************************************************************)
EXTENDS TargetConnection

CONSTANTS
  Answers,        \* what an operator answers to target add
  Inventory,      \* targets in the configuration of the installer
  MaxCommands     \* bound: commands of eva

Directories == [yaml : Secrets \cup {None}, identity : Secrets \cup {None}]
NoRecord == {"empty"}    \* an empty file

ASSUME TargetsAssumption ==
  /\ Answers \cup Inventory \subseteq [host : Hosts, auth : Methods, secret : Secrets]
  /\ None \notin Hosts \cup Keys \cup Secrets \cup Names \cup Entries \cup Directories
  /\ ({None} \cup Keys) \cap NoRecord = {}
  /\ MaxCommands \in Nat /\ MaxKeyChanges \in Nat

VARIABLES
  config,       \* config[n]: target.yaml
  credential,   \* credential[n]: the credential directory
  hostKey,      \* hostKey[h]: the record of the installer
  cmd,          \* cmd[p]: the next step of p
  job,          \* job[p]: what p was asked for
  accepted,     \* history: the keys to which an operator agreed for a secret
  disturbed,    \* history: names added beside another command for them, or
                \* whose credential was renamed into place and not synced
  commands

storeVars == <<config, credential, hostKey>>
vars == <<linkVars, storeVars, cmd, job, accepted, disturbed, commands>>

-----------------------------------------------------------------------------
EmptyDirectory == [yaml |-> None, identity |-> None]
Credentials(n) == IF credential[n] = None THEN EmptyDirectory ELSE credential[n]
Store(n) == <<config[n], Credentials(n)>>

Kinds == {"add", "remove", "verify", "publish", "install"}
Jobs == [kind : Kinds, name : Names \cup {None}, answer : Answers \cup Inventory \cup {None},
         key : Keys \cup {None}, entry : Entries \cup {None}, isNew : BOOLEAN,
         found : (Entries \cup {None}) \X Directories]
Steps == {"idle", "lookup", "display", "accept", "identity", "open", "connect", "isNew",
          "config", "credential", "undoConfig", "undo", "undoRest", "confirm", "find",
          "dropCredential", "dropConfig", "loadConfig", "loadCredential", "hostKey", "record",
          "fill", "deliver", "ok", "failed", "left"}

Init ==
  /\ LinkInit
  /\ config = [n \in Names |-> None]
  /\ credential = [n \in Names |-> None]
  /\ hostKey = [h \in Hosts |-> None]
  /\ cmd = [p \in Processes |-> "idle"]
  /\ job = [p \in Processes |-> None]
  /\ accepted = {} /\ disturbed = {}
  /\ commands = 0

To(p, next) == cmd' = [cmd EXCEPT ![p] = next]
Name(p) == job[p].name
Answer(p) == job[p].answer
Entry(a, key) == [host |-> a.host, key |-> key, auth |-> a.auth]

SetConfig(n, value) == config' = [config EXCEPT ![n] = value]
SetCredential(n, value) == credential' = [credential EXCEPT ![n] = value]
Disturb(n) == disturbed' = disturbed \cup {n}

FirstStep(kind) ==
  CASE kind = "add" -> "lookup" [] kind = "remove" -> "confirm"
    [] kind = "install" -> "hostKey" [] OTHER -> "loadConfig"
Ended == {"ok", "failed", "left"}

Start(p, kind, n, a) ==
  /\ cmd[p] = "idle" /\ commands < MaxCommands
  /\ commands' = commands + 1
  /\ job' = [job EXCEPT ![p] =
       [kind |-> kind, name |-> n, answer |-> a, key |-> None, entry |-> None, isNew |-> FALSE,
        found |-> IF n = None THEN <<None, EmptyDirectory>> ELSE Store(n)]]
  /\ disturbed' = disturbed \cup
       {m \in Names : m = n /\ \E q \in Processes :
          cmd[q] # "idle" /\ Name(q) = m /\ "add" \in {kind, job[q].kind}}
  /\ To(p, FirstStep(kind))
  /\ UNCHANGED <<linkVars, storeVars, accepted>>

Begin(p) ==
  \/ \E n \in Names : \/ \E a \in Answers : Start(p, "add", n, a)
                      \/ \E kind \in {"remove", "verify", "publish"} : Start(p, kind, n, None)
  \/ \E a \in Inventory : Start(p, "install", None, a)

-----------------------------------------------------------------------------
(* target add *)

\* Looked up before the questions, and not again.
LookUp(p) ==
  /\ cmd[p] = "lookup"
  /\ To(p, IF config[Name(p)] = None THEN "display" ELSE "failed")
  /\ UNCHANGED <<linkVars, storeVars, job, accepted, disturbed, commands>>

\* ScanHostKey: also what the installer does with a host it has not met.
DisplayKey(p) ==
  /\ cmd[p] = "display"
  /\ \/ /\ job' = [job EXCEPT ![p].key = shows[Answer(p).host]]
        /\ To(p, IF job[p].kind = "add" THEN "accept" ELSE "open")
     \/ To(p, "failed") /\ UNCHANGED job
  /\ UNCHANGED <<linkVars, storeVars, accepted, disturbed, commands>>

AcceptKey(p) ==
  /\ cmd[p] = "accept"
  /\ \/ /\ accepted' = accepted \cup
             {[name |-> Name(p), secret |-> Answer(p).secret, key |-> job[p].key]}
        /\ To(p, IF Answer(p).auth = "public_key" THEN "identity" ELSE "open")
     \/ To(p, "failed") /\ UNCHANGED accepted
  /\ UNCHANGED <<linkVars, storeVars, job, disturbed, commands>>

\* RemoveAll that fails may have removed one of the files.
PartsOf(directory) ==
  {directory} \cup {[directory EXCEPT !.yaml = None], [directory EXCEPT !.identity = None]}
IdentityOnly(a) == [EmptyDirectory EXCEPT !.identity = a.secret]

\* A directory that exists is refused; what cannot be written or synced is
\* removed, and that error is ignored.
WriteIdentity(p) ==
  /\ cmd[p] = "identity"
  /\ \/ To(p, "failed") /\ UNCHANGED credential
     \/ /\ credential[Name(p)] = None
        /\ \/ SetCredential(Name(p), IdentityOnly(Answer(p))) /\ To(p, "open")
           \/ /\ \E rest \in PartsOf(IdentityOnly(Answer(p))) : SetCredential(Name(p), rest)
              /\ To(p, "left")
  /\ UNCHANGED <<linkVars, config, hostKey, job, accepted, disturbed, commands>>

Open(p) ==
  /\ cmd[p] = "open"
  /\ Connect(p, [name |-> Name(p), secret |-> Answer(p).secret, preflight |-> TRUE,
                 entry |-> Entry(Answer(p), job[p].key)])
  /\ To(p, "connect")
  /\ UNCHANGED <<storeVars, job, accepted, disturbed, commands>>

Connecting(p) ==
  /\ cmd[p] = "connect"
  /\ LinkStep(p)
  /\ UNCHANGED <<storeVars, cmd, job, accepted, disturbed, commands>>

Connected(p) ==
  /\ cmd[p] = "connect"
  /\ \/ step[p] = "up" /\ To(p, CASE job[p].kind = "add" -> "isNew"
                                  [] job[p].kind = "verify" -> "ok"
                                  [] job[p].kind = "install" /\ job[p].isNew -> "record"
                                  [] OTHER -> "deliver")
     \/ step[p] = "lost" /\ To(p, IF job[p].kind = "add" THEN "undo" ELSE "failed")
  /\ UNCHANGED <<linkVars, storeVars, job, accepted, disturbed, commands>>

\* store.Write: whether the configuration is new decides what is undone.
LookAgain(p) ==
  /\ cmd[p] = "isNew"
  /\ job' = [job EXCEPT ![p].isNew = (config[Name(p)] = None)]
  /\ To(p, "config")
  /\ UNCHANGED <<linkVars, storeVars, accepted, disturbed, commands>>

\* Renamed into place; an error after the rename leaves the file, and nothing
\* undoes it.
WriteConfig(p) ==
  /\ cmd[p] = "config"
  /\ \/ SetConfig(Name(p), Peer(p)) /\ (To(p, "credential") \/ To(p, "undoRest"))
     \/ To(p, "undo") /\ UNCHANGED config
  /\ UNCHANGED <<linkVars, credential, hostKey, job, accepted, disturbed, commands>>

NewCredential(p) ==
  SetCredential(Name(p), [Credentials(Name(p)) EXCEPT !.yaml = Answer(p).secret])

\* Faulty variant: the configuration of a target without credential stays.
WriteCredentialKeeping(p) ==
  /\ cmd[p] = "credential"
  /\ \/ NewCredential(p) /\ To(p, "ok")
     \/ SetCredential(Name(p), Credentials(Name(p))) /\ To(p, "undo")
  /\ UNCHANGED <<linkVars, config, hostKey, job, accepted, disturbed, commands>>

\* The directory is made first and stays.
WriteCredential(p) ==
  /\ cmd[p] = "credential"
  /\ \/ NewCredential(p) /\ To(p, "ok") /\ UNCHANGED disturbed
     \/ /\ To(p, "undoConfig")
        /\ \/ SetCredential(Name(p), Credentials(Name(p))) /\ UNCHANGED disturbed
           \/ NewCredential(p) /\ Disturb(Name(p))
  /\ UNCHANGED <<linkVars, config, hostKey, job, accepted, commands>>

\* The error of os.Remove is ignored.
UndoConfig(p) ==
  /\ cmd[p] = "undoConfig"
  /\ IF job[p].isNew
     THEN \/ SetConfig(Name(p), None) /\ To(p, "undo")
          \/ To(p, "undoRest") /\ UNCHANGED config
     ELSE To(p, "undo") /\ UNCHANGED config
  /\ UNCHANGED <<linkVars, credential, hostKey, job, accepted, disturbed, commands>>

\* An add that wrote the key of a target removes the directory, and ignores the
\* error of RemoveAll.
Undo(p) ==
  /\ cmd[p] \in {"undo", "undoRest"}
  /\ \/ /\ IF Answer(p).auth = "public_key" THEN SetCredential(Name(p), None)
           ELSE UNCHANGED credential
        /\ To(p, IF cmd[p] = "undo" THEN "failed" ELSE "left")
     \/ /\ Answer(p).auth = "public_key" /\ credential[Name(p)] # None
        /\ \E rest \in PartsOf(credential[Name(p)]) : SetCredential(Name(p), rest)
        /\ To(p, "left")
  /\ UNCHANGED <<linkVars, config, hostKey, job, accepted, disturbed, commands>>

-----------------------------------------------------------------------------
(* target remove *)

\* Listed for the question, which a terminal must answer.
Confirm(p) ==
  /\ cmd[p] = "confirm"
  /\ To(p, "find") \/ To(p, "failed")
  /\ UNCHANGED <<linkVars, storeVars, job, accepted, disturbed, commands>>

Find(p) ==
  /\ cmd[p] = "find"
  /\ To(p, IF config[Name(p)] = None /\ credential[Name(p)] = None
           THEN "failed" ELSE "dropCredential")
  /\ UNCHANGED <<linkVars, storeVars, job, accepted, disturbed, commands>>

\* Faulty variant: the configuration goes first.
DropCredentialLast(p) ==
  /\ cmd[p] = "dropCredential"
  /\ SetConfig(Name(p), None) /\ To(p, "dropConfig")
  /\ UNCHANGED <<linkVars, credential, hostKey, job, accepted, disturbed, commands>>

DropCredential(p) ==
  /\ cmd[p] = "dropCredential"
  /\ \/ SetCredential(Name(p), None) /\ To(p, "dropConfig")
     \/ /\ IF credential[Name(p)] = None THEN UNCHANGED credential
           ELSE \E rest \in PartsOf(credential[Name(p)]) : SetCredential(Name(p), rest)
        /\ To(p, "failed")
  /\ UNCHANGED <<linkVars, config, hostKey, job, accepted, disturbed, commands>>

DropConfig(p) ==
  /\ cmd[p] = "dropConfig"
  /\ \/ SetConfig(Name(p), None) /\ To(p, "ok")
     \/ To(p, "failed") /\ UNCHANGED config
  /\ UNCHANGED <<linkVars, credential, hostKey, job, accepted, disturbed, commands>>

-----------------------------------------------------------------------------
(* target verify and publish *)

\* store.Load reads one file after the other.
LoadConfig(p) ==
  /\ cmd[p] = "loadConfig"
  /\ IF config[Name(p)] = None THEN To(p, "failed") /\ UNCHANGED job
     ELSE job' = [job EXCEPT ![p].entry = config[Name(p)]] /\ To(p, "loadCredential")
  /\ UNCHANGED <<linkVars, storeVars, accepted, disturbed, commands>>

LoadCredential(p) ==
  /\ cmd[p] = "loadCredential"
  /\ LET directory == Credentials(Name(p))
     IN  IF directory.yaml = None \/ (job[p].entry.auth = "public_key" /\ directory.identity = None)
         THEN To(p, "failed") /\ UNCHANGED linkVars
         ELSE /\ Connect(p, [name |-> Name(p), secret |-> directory.yaml, preflight |-> TRUE,
                             entry |-> job[p].entry])
              /\ To(p, "connect")
  /\ UNCHANGED <<storeVars, job, accepted, disturbed, commands>>

\* The transport, or the installer's action, over the master; sudo has the
\* password from a pipe.
Deliver(p) ==
  /\ cmd[p] = "deliver"
  /\ Send(p, session[p])
  /\ To(p, "ok") \/ To(p, "failed")
  /\ UNCHANGED <<shows, step, link, knownHosts, session, keyChanges>>
  /\ UNCHANGED <<storeVars, job, accepted, disturbed, commands>>

-----------------------------------------------------------------------------
(* The remote installer *)

SetHostKey(p, value) == hostKey' = [hostKey EXCEPT ![Answer(p).host] = value]

\* Faulty variant: any record is a key.
ReadHostKeyUnchecked(p) ==
  /\ cmd[p] = "hostKey"
  /\ LET record == hostKey[Answer(p).host]
     IN  IF record = None THEN job' = [job EXCEPT ![p].isNew = TRUE] /\ To(p, "display")
         ELSE job' = [job EXCEPT ![p].key = record] /\ To(p, "open")
  /\ UNCHANGED <<linkVars, storeVars, accepted, disturbed, commands>>

\* A key that is on record is the one to expect; an empty record matches none.
ReadHostKey(p) ==
  /\ cmd[p] = "hostKey"
  /\ LET record == hostKey[Answer(p).host]
     IN  CASE record = None -> job' = [job EXCEPT ![p].isNew = TRUE] /\ To(p, "display")
           [] record \in NoRecord -> To(p, "failed") /\ UNCHANGED job
           [] OTHER -> job' = [job EXCEPT ![p].key = record] /\ To(p, "open")
  /\ UNCHANGED <<linkVars, storeVars, accepted, disturbed, commands>>

\* Faulty variant: a record made meanwhile is as good as this one.
RecordHostKeyAnyway(p) ==
  /\ cmd[p] = "record"
  /\ IF hostKey[Answer(p).host] = None THEN SetHostKey(p, "empty") /\ To(p, "fill")
     ELSE To(p, "deliver") /\ UNCHANGED hostKey
  /\ UNCHANGED <<linkVars, config, credential, job, accepted, disturbed, commands>>

\* Created exclusively; whoever comes second must have seen the same key.
RecordHostKey(p) ==
  /\ cmd[p] = "record"
  /\ LET record == hostKey[Answer(p).host]
     IN  \/ record = None /\ SetHostKey(p, "empty") /\ To(p, "fill")
         \/ record = job[p].key /\ To(p, "deliver") /\ UNCHANGED hostKey
         \/ To(p, "failed") /\ UNCHANGED hostKey
  /\ UNCHANGED <<linkVars, config, credential, job, accepted, disturbed, commands>>

FillHostKey(p) ==
  /\ cmd[p] = "fill"
  /\ \/ SetHostKey(p, job[p].key) /\ To(p, "deliver")
     \/ SetHostKey(p, None) /\ To(p, "failed")
  /\ UNCHANGED <<linkVars, config, credential, job, accepted, disturbed, commands>>

-----------------------------------------------------------------------------
Leave(p) ==
  /\ Disconnect(p)
  /\ job' = [job EXCEPT ![p] = None]
  /\ To(p, "idle")
  /\ UNCHANGED <<storeVars, accepted, disturbed, commands>>

End(p) == cmd[p] \in Ended /\ Leave(p)

Kill(p) == cmd[p] \notin Ended \cup {"idle"} /\ Leave(p)

CommandStep(p) ==
  \/ LookUp(p) \/ DisplayKey(p) \/ AcceptKey(p) \/ WriteIdentity(p) \/ Open(p)
  \/ Connecting(p) \/ Connected(p) \/ LookAgain(p) \/ WriteConfig(p)
  \/ WriteCredential(p) \/ UndoConfig(p) \/ Undo(p) \/ Confirm(p) \/ Find(p) \/ DropCredential(p)
  \/ DropConfig(p) \/ LoadConfig(p) \/ LoadCredential(p) \/ Deliver(p)
  \/ ReadHostKey(p) \/ RecordHostKey(p) \/ FillHostKey(p)

Reinstall ==
  /\ \E h \in Hosts : ChangeKey(h)
  /\ UNCHANGED <<storeVars, cmd, job, accepted, disturbed, commands>>

Next == (\E p \in Processes : Begin(p) \/ CommandStep(p) \/ End(p) \/ Kill(p)) \/ Reinstall

Spec == Init /\ [][Next]_vars

-----------------------------------------------------------------------------
TypeOK ==
  /\ LinkTypeOK
  /\ config \in [Names -> Entries \cup {None}]
  /\ credential \in [Names -> Directories \cup {None}]
  /\ hostKey \in [Hosts -> Keys \cup {None} \cup NoRecord]
  /\ cmd \in [Processes -> Steps]
  /\ job \in [Processes -> Jobs \cup {None}]
  /\ accepted \subseteq Sent
  /\ disturbed \subseteq Names
  /\ commands \in 0..MaxCommands

\* The secret of a managed target goes only to a server with the key that the
\* operator accepted for it, whatever answers at its address by then
\* (connectConfiguration, runRemoteTargetAdd).  Exempt are the names that were
\* added while another command for them ran, since nothing locks a name, and
\* those whose credential was in place although its directory did not sync.
SecretOnlyToAcceptedKey ==
  \A s \in sent : s.name \in Names \ disturbed => s \in accepted

\* target add leaves all of a target or, when it fails, what was there before.
\* When the undo fails too, whose error it ignores, or the configuration was in
\* place and did not sync, it leaves something without a credential, which no
\* command can load (Write, WriteIdentity, RemoveNewCredentialDirectory).
\* Exempt are the names that were added while another command for them ran, or
\* whose credential was in place although its directory did not sync.
AddIsAllOrNothing ==
  \A p \in Processes :
    (job[p] # None /\ job[p].kind = "add" /\ Name(p) \notin disturbed) =>
      /\ cmd[p] = "failed" => Store(Name(p)) = job[p].found
      /\ cmd[p] = "left" => Credentials(Name(p)).yaml = None
      /\ cmd[p] = "ok" =>
           /\ config[Name(p)] = Entry(Answer(p), job[p].key)
           /\ Credentials(Name(p)).yaml = Answer(p).secret
           /\ Answer(p).auth = "public_key" => Credentials(Name(p)).identity = Answer(p).secret

\* There is never a password without the configuration that shows whose it is,
\* even after a killed add or removal or a failed undo, and whatever removals
\* overlap (Write, Remove).  Exempt are the names that were added while another
\* command for them ran, or whose credential was in place although its
\* directory did not sync.
NoOrphanedPassword ==
  \A n \in Names \ disturbed : Credentials(n).yaml # None => config[n] # None

\* The installer delivers only over a connection to the key on record, even
\* when several meet a host for the first time while its key changes
\* (InstallerConnector.connect).
DeliversToRecordedKey ==
  \A p \in Processes :
    (cmd[p] = "deliver" /\ job[p].kind = "install") => session[p] = hostKey[Answer(p).host]
=============================================================================
