---------------------------- MODULE MCApprovals ----------------------------
(***************************************************************************)
(* Instances of Approvals: who is asked.                                   *)
(***************************************************************************)
EXTENDS Approvals

CONSTANTS u1

\* Every card goes to the same admin.
OneAdmin == [a \in Approvals |-> u1]

=============================================================================
