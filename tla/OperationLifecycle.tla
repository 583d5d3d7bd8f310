------------------------- MODULE OperationLifecycle -------------------------
(***************************************************************************)
(* What the operation store promises about one operation run on this       *)
(* server: the life of its operation.yaml, whatever processes, failures    *)
(* and crashes produced it.  An operation is published as planned, is      *)
(* started once, and ends once as succeeded or failed.  Only a retry whose *)
(* relationship to its source is not recorded yet (not settled) can be     *)
(* withdrawn by the command that is creating it.                           *)
(***************************************************************************)
CONSTANT Ids

VARIABLES
  status,   \* status[id]: what operation.yaml says, "absent" before it is readable
  settled   \* the published operations that can no longer be withdrawn

vars == <<status, settled>>

Terminal == {"succeeded", "failed"}
Published == {"planned", "running"} \cup Terminal

Init ==
  /\ status = [id \in Ids |-> "absent"]
  /\ settled = {}

\* A plan, an installation or a retry becomes visible to the other commands.
Publish(id) ==
  /\ status[id] = "absent"
  /\ id \notin settled
  /\ status' = [status EXCEPT ![id] = "planned"]
  /\ settled' \in {settled, settled \cup {id}}

Settle(id) ==
  /\ status[id] \in Published
  /\ settled' = settled \cup {id}
  /\ UNCHANGED status

\* The creating command removes the directory: the id is never seen again.
Withdraw(id) ==
  /\ id \notin settled
  /\ status' = [status EXCEPT ![id] = "withdrawn"]
  /\ UNCHANGED settled

Start(id) ==
  /\ status[id] = "planned"
  /\ status' = [status EXCEPT ![id] = "running"]
  /\ UNCHANGED settled

Finish(id) ==
  /\ status[id] = "running"
  /\ \E outcome \in Terminal : status' = [status EXCEPT ![id] = outcome]
  /\ UNCHANGED settled

Next ==
  \E id \in Ids :
    Publish(id) \/ Settle(id) \/ Withdraw(id) \/ Start(id) \/ Finish(id)

Spec == Init /\ [][Next]_vars
=============================================================================
