----------------------------- MODULE MCApprovals -----------------------------
(***************************************************************************)
(* Approvals with two pull requests and two requests at a time.             *)
(***************************************************************************)
EXTENDS Approvals

CONSTANTS p1, p2, r1, r2

Pulls == {p1, p2}
Requests == {r1, r2}
=============================================================================
