----------------------------- MODULE MCDelivery -----------------------------
(***************************************************************************)
(* Instances of Delivery: which rows belong to which session.              *)
(***************************************************************************)
EXTENDS Delivery

CONSTANTS r1, r2, r3, s1, s2

\* Two rows compete in the first session, one is in the second.
TwoSessions == [m \in Rows |-> IF m = r3 THEN s2 ELSE s1]

=============================================================================
