--------------------------- MODULE TargetConnection ---------------------------
(***************************************************************************)
(* The SSH connection that eva opens to a target before anything is sent   *)
(* to it (internal/remote/target_verify.go, connectConfiguration).         *)
(*                                                                         *)
(* The host is scanned again and must show the key of the configuration.   *)
(* That line becomes the only known_hosts of a control master which checks *)
(* it strictly; the later commands reuse the master.                       *)
(*                                                                         *)
(* Data abstracted: addresses are hosts, a host shows one key at a time,   *)
(* the SSH and the sudo password of a target are one secret, and the two   *)
(* checks of platform and storage are what they answer.                    *)
(***************************************************************************)
EXTENDS ControlHost, Naturals

CONSTANTS
  Hosts, Keys, Secrets,
  Names,            \* names of managed targets
  None,             \* no key, no file, or not a managed target
  MaxKeyChanges     \* bound: how often a host shows another key

VARIABLES
  shows,        \* shows[h]: the key of the SSH server that answers at h
  step,         \* step[p]: the next step of the connection of p
  link,         \* link[p]: what p connects to
  knownHosts,   \* knownHosts[p]: the key p trusts for this connection
  session,      \* session[p]: the key of the server its master talks to
  sent,         \* history: the secrets that were sent, and to which key
  keyChanges

linkVars == <<shows, step, link, knownHosts, session, sent, keyChanges>>

-----------------------------------------------------------------------------
Methods == {"password", "public_key"}
Entries == [host : Hosts, key : Keys, auth : Methods]
Links == [name : Names \cup {None}, entry : Entries, secret : Secrets, preflight : BOOLEAN]
Sent == [name : Names \cup {None}, secret : Secrets, key : Keys]

OnMaster == {"authenticated", "sudo", "platform", "storage", "inbox", "up"}
LinkSteps == OnMaster \cup {"idle", "scan", "runtime", "master", "cleanup", "lost"}

LinkInit ==
  /\ shows \in [Hosts -> Keys]
  /\ step = [p \in Processes |-> "idle"]
  /\ link = [p \in Processes |-> None]
  /\ knownHosts = [p \in Processes |-> None]
  /\ session = [p \in Processes |-> None]
  /\ sent = {}
  /\ keyChanges = 0

Goto(p, next) == step' = [step EXCEPT ![p] = next]
Peer(p) == link[p].entry
Send(p, key) ==
  sent' = sent \cup {[name |-> link[p].name, secret |-> link[p].secret, key |-> key]}

\* The server is reinstalled, or another one takes its address.
ChangeKey(h) ==
  /\ keyChanges < MaxKeyChanges
  /\ \E k \in Keys \ {shows[h]} : shows' = [shows EXCEPT ![h] = k]
  /\ keyChanges' = keyChanges + 1
  /\ UNCHANGED <<step, link, knownHosts, session, sent>>

-----------------------------------------------------------------------------
Connect(p, target) ==
  /\ step[p] = "idle"
  /\ link' = [link EXCEPT ![p] = target]
  /\ Goto(p, "scan")
  /\ UNCHANGED <<shows, knownHosts, session, sent, keyChanges>>

\* Faulty variant: whatever key is shown now is the one to trust.
ScanAgainTrusting(p) ==
  /\ step[p] = "scan"
  /\ \/ knownHosts' = [knownHosts EXCEPT ![p] = shows[Peer(p).host]] /\ Goto(p, "runtime")
     \/ Goto(p, "lost") /\ UNCHANGED knownHosts
  /\ UNCHANGED <<shows, link, session, sent, keyChanges>>

ScanAgain(p) ==
  /\ step[p] = "scan"
  /\ \/ /\ shows[Peer(p).host] = Peer(p).key
        /\ knownHosts' = [knownHosts EXCEPT ![p] = shows[Peer(p).host]]
        /\ Goto(p, "runtime")
     \/ Goto(p, "lost") /\ UNCHANGED knownHosts
  /\ UNCHANGED <<shows, link, session, sent, keyChanges>>

\* A directory of its own under /run/eva, and the known_hosts in it.
OpenRuntime(p) ==
  /\ step[p] = "runtime"
  /\ \/ Goto(p, "master") /\ UNCHANGED knownHosts
     \/ Goto(p, "lost") /\ knownHosts' = [knownHosts EXCEPT ![p] = None]
  /\ UNCHANGED <<shows, link, session, sent, keyChanges>>

\* A password goes out once the key was checked, whether it is right or not.
StartMaster(p) ==
  /\ step[p] = "master"
  /\ \/ /\ shows[Peer(p).host] = knownHosts[p]
        /\ IF Peer(p).auth = "password" THEN Send(p, shows[Peer(p).host]) ELSE UNCHANGED sent
        /\ \/ /\ session' = [session EXCEPT ![p] = shows[Peer(p).host]]
              /\ Goto(p, "authenticated")
           \/ Goto(p, "cleanup") /\ UNCHANGED session
     \/ Goto(p, "cleanup") /\ UNCHANGED <<sent, session>>
  /\ UNCHANGED <<shows, link, knownHosts, keyChanges>>

\* ssh true, uname and df over the master.
Ask(p) ==
  /\ step[p] \in {"authenticated", "platform", "storage"}
  /\ \/ Goto(p, CASE step[p] = "authenticated" -> "sudo"
                  [] step[p] = "platform" -> "storage"
                  [] OTHER -> "inbox")
     \/ Goto(p, "cleanup")
  /\ UNCHANGED <<shows, link, knownHosts, session, sent, keyChanges>>

\* sudo reads the password from the input of the remote command.
AuthenticateSudo(p) ==
  /\ step[p] = "sudo"
  /\ Send(p, session[p])
  /\ Goto(p, IF link[p].preflight THEN "platform" ELSE "up") \/ Goto(p, "cleanup")
  /\ UNCHANGED <<shows, link, knownHosts, session, keyChanges>>

\* A directory is made, renamed and removed in the inbox.
ProbeInbox(p) ==
  /\ step[p] = "inbox"
  /\ Send(p, session[p])
  /\ Goto(p, "up") \/ Goto(p, "cleanup")
  /\ UNCHANGED <<shows, link, knownHosts, session, keyChanges>>

\* The master exits and the directory is removed.
Cleanup(p) ==
  /\ step[p] = "cleanup"
  /\ knownHosts' = [knownHosts EXCEPT ![p] = None]
  /\ session' = [session EXCEPT ![p] = None]
  /\ Goto(p, "lost")
  /\ UNCHANGED <<shows, link, sent, keyChanges>>

LinkStep(p) ==
  \/ ScanAgain(p) \/ OpenRuntime(p) \/ StartMaster(p) \/ Ask(p)
  \/ AuthenticateSudo(p) \/ ProbeInbox(p) \/ Cleanup(p)

\* The command that opened the connection is over.  What a killed run leaves
\* under /run is in a directory that no other run reads.
Disconnect(p) ==
  /\ link' = [link EXCEPT ![p] = None]
  /\ knownHosts' = [knownHosts EXCEPT ![p] = None]
  /\ session' = [session EXCEPT ![p] = None]
  /\ Goto(p, "idle")
  /\ UNCHANGED <<shows, sent, keyChanges>>

LinkTypeOK ==
  /\ shows \in [Hosts -> Keys]
  /\ step \in [Processes -> LinkSteps]
  /\ link \in [Processes -> Links \cup {None}]
  /\ knownHosts \in [Processes -> Keys \cup {None}]
  /\ session \in [Processes -> Keys \cup {None}]
  /\ sent \subseteq Sent
  /\ keyChanges \in 0..MaxKeyChanges
=============================================================================
