----------------------------- MODULE HumanGate -----------------------------
(***************************************************************************)
(* What docs/evidence.md promises about merges and deployments: "RiMo never *)
(* merges or deploys without human approval".  An item is asked for, then   *)
(* refused or performed, once; only where no gate is configured is it       *)
(* performed without asking.  A refused item is never performed.            *)
(***************************************************************************)
CONSTANTS
  Item,   \* pull requests to merge, deployments to run
  Gated   \* is a human decision required?

VARIABLE gate

State == {"absent", "pending", "rejected", "performed"}

Init == gate = [i \in Item |-> "absent"]

Ask(i) ==
  /\ Gated /\ gate[i] = "absent"
  /\ gate' = [gate EXCEPT ![i] = "pending"]

Refuse(i) ==
  /\ gate[i] = "pending"
  /\ gate' = [gate EXCEPT ![i] = "rejected"]

Perform(i) ==
  /\ gate[i] = IF Gated THEN "pending" ELSE "absent"
  /\ gate' = [gate EXCEPT ![i] = "performed"]

Next == \E i \in Item : Ask(i) \/ Refuse(i) \/ Perform(i)

Spec == Init /\ [][Next]_gate
=============================================================================
