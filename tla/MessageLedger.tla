---------------------------- MODULE MessageLedger ----------------------------
(***************************************************************************)
(* What a session promises about each inbound row, with no databases, no   *)
(* processes and no clocks.  A row is queued until a container claims it.  *)
(* A claim ends in one of three ways: the row is concluded, it goes back   *)
(* to the queue at no cost (the container was replaced), or it goes back   *)
(* at the cost of one of its MaxTries retries and is given up when it has  *)
(* none left.  A concluded row never moves again.                          *)
(***************************************************************************)
EXTENDS Naturals

CONSTANTS Rows, MaxTries

VARIABLES phase, retries
vars == <<phase, retries>>

Phases == {"absent", "queued", "claimed", "done", "failed"}

In(p) == {r \in Rows : phase[r] = p}

\* The rows of S move to phase p.
Move(S, p) == [r \in Rows |-> IF r \in S THEN p ELSE phase[r]]

Init ==
  /\ phase = [r \in Rows |-> "absent"]
  /\ retries = [r \in Rows |-> 0]

Submit(r) ==
  /\ phase[r] = "absent"
  /\ phase' = Move({r}, "queued")
  /\ UNCHANGED retries

Claim(S) ==
  /\ S # {} /\ S \subseteq In("queued")
  /\ phase' = Move(S, "claimed")
  /\ UNCHANGED retries

\* S is concluded, the rows of bad unsuccessfully.
Conclude(S, bad) ==
  /\ S # {} /\ S \subseteq In("claimed") /\ bad \subseteq S
  /\ phase' = [r \in Rows |-> IF r \in bad THEN "failed"
                              ELSE IF r \in S THEN "done" ELSE phase[r]]
  /\ UNCHANGED retries

\* The claims of a container that was replaced before it concluded them.
Release(S) ==
  /\ S # {} /\ S \subseteq In("claimed")
  /\ phase' = Move(S, "queued")
  /\ UNCHANGED retries

\* The claims of a container that was found dead or stuck.
Charge(S) ==
  /\ S # {} /\ S \subseteq In("claimed")
  /\ phase' = [r \in Rows |-> IF r \notin S THEN phase[r]
                              ELSE IF retries[r] < MaxTries THEN "queued" ELSE "failed"]
  /\ retries' = [r \in Rows |-> IF r \in S /\ retries[r] < MaxTries
                                THEN retries[r] + 1 ELSE retries[r]]

Next ==
  \/ \E r \in Rows : Submit(r)
  \/ \E S \in SUBSET Rows : Claim(S) \/ Release(S) \/ Charge(S)
  \/ \E S \in SUBSET Rows : \E bad \in SUBSET S : Conclude(S, bad)

Spec == Init /\ [][Next]_vars

=============================================================================
