----------------------------- MODULE Approvals -----------------------------
(***************************************************************************)
(* Requests of agents that an admin has to approve: the card in the        *)
(* admin's direct messages, the durable row in pending_approvals, the      *)
(* guarded handler that an approval runs, and "Reject with reason...",     *)
(* which holds the row until the admin's next message or a timeout.        *)
(*                                                                         *)
(* A step is what the host does between two awaits.  Every click on a card *)
(* starts a flow of its own; the flows interleave with each other, with    *)
(* the admin's messages and with the sweep.                                *)
(***************************************************************************)
EXTENDS Naturals, FiniteSets

CONSTANTS
  Approvals,       \* approval ids
  Users,           \* admins, each with one direct-message channel
  ApproverOf,      \* the admin whose direct messages receive the card
  Unhandled,       \* approvals whose action has no registered handler
  Clicks,          \* bound: the clicks on cards
  NoApproval,
  MaxHostCrashes

ASSUME ApprovalsAssumption ==
  /\ IsFiniteSet(Approvals) /\ IsFiniteSet(Clicks)
  /\ ApproverOf \in [Approvals -> Users]
  /\ Unhandled \subseteq Approvals
  /\ NoApproval \notin Approvals
  /\ MaxHostCrashes \in Nat

VARIABLES
  \* central database
  row,         \* pending_approvals: none, pending or awaiting (a reason)
  expired,     \* holds whose expires_at has passed
  revoked,     \* approvals the guard's decision now denies
  \* host process
  request,     \* requestApproval: idle, picking, sending, done or cut (short)
  flow,        \* the handler of a click: where it waits, and for what
  armed,       \* awaitingReason
  listed,      \* holds the sweep has read and not yet finalized
  \* outside
  card,        \* cards whose buttons can be pressed
  created,     \* approvals that had a row
  applied,     \* how often the handler of an approval was run
  rejected,    \* how often the agent was told that it is rejected
  told,        \* approvals whose agent heard of the outcome
  hostCrashes

database == <<row, expired, revoked>>
memory   == <<request, flow, armed, listed>>
history  == <<card, created, applied, rejected, told>>
vars     == <<database, memory, history, hostCrashes>>

Idle == [at |-> "idle", on |-> NoApproval]
Done == [at |-> "done", on |-> NoApproval]

Flows ==
  {Idle, Done} \cup [at : {"applying", "reaching", "prompting"}, on : Approvals]

TypeOK ==
  /\ row \in [Approvals -> {"none", "pending", "awaiting"}]
  /\ expired \in SUBSET Approvals /\ revoked \in SUBSET Approvals
  /\ request \in [Approvals -> {"idle", "picking", "sending", "done", "cut"}]
  /\ flow \in [Clicks -> Flows]
  /\ armed \in [Users -> Approvals \cup {NoApproval}]
  /\ listed \in SUBSET Approvals
  /\ card \in SUBSET Approvals /\ created \in SUBSET Approvals
  /\ applied \in [Approvals -> Nat] /\ rejected \in [Approvals -> Nat]
  /\ told \in SUBSET Approvals
  /\ hostCrashes \in Nat

Init ==
  /\ row = [a \in Approvals |-> "none"] /\ expired = {} /\ revoked = {}
  /\ request = [a \in Approvals |-> "idle"]
  /\ flow = [c \in Clicks |-> Idle]
  /\ armed = [u \in Users |-> NoApproval] /\ listed = {}
  /\ card = {} /\ created = {} /\ told = {}
  /\ applied = [a \in Approvals |-> 0] /\ rejected = [a \in Approvals |-> 0]
  /\ hostCrashes = 0

-----------------------------------------------------------------------------
(* The end of an approval *)

\* deletePendingApproval, after the agent was told.
Resolve(a) ==
  /\ row' = [row EXCEPT ![a] = "none"]
  /\ told' = told \cup {a}

\* Mutant: the row is left for the callbacks that are awaited next.
KeepReject(a) ==
  /\ rejected' = [rejected EXCEPT ![a] = @ + 1]
  /\ told' = told \cup {a}
  /\ row' = row

\* finalizeReject, whatever its caller's row has become in the meantime.
FinalizeReject(a) ==
  /\ rejected' = [rejected EXCEPT ![a] = @ + 1]
  /\ Resolve(a)

-----------------------------------------------------------------------------
(* requestApproval *)

\* Nobody to ask, or the search for a reachable approver is awaited.
Request(a) ==
  /\ request[a] = "idle"
  /\ \/ /\ request' = [request EXCEPT ![a] = "picking"] /\ told' = told
     \/ /\ request' = [request EXCEPT ![a] = "done"] /\ told' = told \cup {a}
  /\ UNCHANGED <<database, flow, armed, listed, card, created, applied, rejected, hostCrashes>>

Unreachable(a) ==
  /\ request[a] = "picking"
  /\ request' = [request EXCEPT ![a] = "done"]
  /\ told' = told \cup {a}
  /\ UNCHANGED <<database, flow, armed, listed, card, created, applied, rejected, hostCrashes>>

\* The row is there before the card is sent.
Create(a) ==
  /\ request[a] = "picking"
  /\ request' = [request EXCEPT ![a] = "sending"]
  /\ row' = [row EXCEPT ![a] = "pending"]
  /\ created' = created \cup {a}
  /\ UNCHANGED <<expired, revoked, flow, armed, listed, card, applied, rejected, told, hostCrashes>>

\* The platform shows the card, before or without the adapter's answer.
ShowCard(a) ==
  /\ request[a] = "sending" /\ a \notin card
  /\ card' = card \cup {a}
  /\ UNCHANGED <<database, memory, created, applied, rejected, told, hostCrashes>>

Sent(a) ==
  /\ request[a] = "sending" /\ a \in card
  /\ request' = [request EXCEPT ![a] = "done"]
  /\ UNCHANGED <<database, flow, armed, listed, history, hostCrashes>>

SendFails(a) ==
  /\ request[a] = "sending"
  /\ request' = [request EXCEPT ![a] = "done"]
  /\ Resolve(a)
  /\ UNCHANGED <<expired, revoked, flow, armed, listed, card, created, applied, rejected, hostCrashes>>

-----------------------------------------------------------------------------
(* Clicks *)

\* A pressed card loses its buttons, unless the edit fails or comes too late.
Pressed(c, a) ==
  /\ a \in card /\ flow[c] = Idle
  /\ card' \in {card, card \ {a}}

ClickReject(c, a) ==
  /\ Pressed(c, a) /\ row[a] # "none"
  /\ flow' = [flow EXCEPT ![c] = Done]
  /\ FinalizeReject(a)
  /\ UNCHANGED <<expired, revoked, request, armed, listed, created, applied, hostCrashes>>

ClickReason(c, a) ==
  /\ Pressed(c, a) /\ row[a] # "none"
  /\ flow' = [flow EXCEPT ![c] = [at |-> "reaching", on |-> a]]
  /\ UNCHANGED <<database, request, armed, listed, created, applied, rejected, told, hostCrashes>>

\* Approved in vain: no handler, or the guard's live checks deny the replay.
ClickRefused(c, a) ==
  /\ Pressed(c, a) /\ row[a] # "none"
  /\ a \in Unhandled \cup revoked
  /\ flow' = [flow EXCEPT ![c] = Done]
  /\ Resolve(a)
  /\ UNCHANGED <<expired, revoked, request, armed, listed, created, applied, rejected, hostCrashes>>

\* The row is the grant: it is live, so the guard lets the handler start.
ClickApprove(c, a) ==
  /\ Pressed(c, a) /\ row[a] # "none"
  /\ a \notin Unhandled \cup revoked
  /\ flow' = [flow EXCEPT ![c] = [at |-> "applying", on |-> a]]
  /\ applied' = [applied EXCEPT ![a] = @ + 1]
  /\ UNCHANGED <<database, request, armed, listed, created, rejected, told, hostCrashes>>

\* The handler returned or threw: the agent knows, and the grant is used up.
Applied(c) ==
  /\ flow[c].at = "applying"
  /\ Resolve(flow[c].on)
  /\ flow' = [flow EXCEPT ![c] = Done]
  /\ UNCHANGED <<expired, revoked, request, armed, listed, card, created, applied, rejected, hostCrashes>>

-----------------------------------------------------------------------------
(* Reject with reason *)

Reach(c) ==
  /\ flow[c].at = "reaching"
  /\ flow' = [flow EXCEPT ![c].at = "prompting"]
  /\ UNCHANGED <<database, request, armed, listed, history, hostCrashes>>

\* No direct message can be opened, or the prompt cannot be delivered.
ReachFails(c) ==
  /\ flow[c].at \in {"reaching", "prompting"}
  /\ FinalizeReject(flow[c].on)
  /\ flow' = [flow EXCEPT ![c] = Done]
  /\ UNCHANGED <<expired, revoked, request, armed, listed, card, created, applied, hostCrashes>>

\* markApprovalAwaitingReason updates the row if it is still there.
Marked(a) == IF row[a] = "none" THEN "none" ELSE "awaiting"

\* The prompt is out: the row is marked, and the direct message is armed for
\* it in any case.
Hold(c) ==
  /\ flow[c].at = "prompting"
  /\ LET a == flow[c].on IN
       /\ row' = [row EXCEPT ![a] = Marked(a)]
       /\ expired' = expired \ {a}
       /\ armed' = [armed EXCEPT ![ApproverOf[a]] = a]
  /\ flow' = [flow EXCEPT ![c] = Done]
  /\ UNCHANGED <<revoked, request, listed, history, hostCrashes>>

\* The admin's next message is the reason, if its hold is still open.
ReplyReason(u) ==
  /\ armed[u] # NoApproval /\ row[armed[u]] = "awaiting"
  /\ FinalizeReject(armed[u])
  /\ armed' = [armed EXCEPT ![u] = NoApproval]
  /\ UNCHANGED <<expired, revoked, request, flow, listed, card, created, applied, hostCrashes>>

ReplyTooLate(u) ==
  /\ armed[u] # NoApproval /\ row[armed[u]] # "awaiting"
  /\ armed' = [armed EXCEPT ![u] = NoApproval]
  /\ UNCHANGED <<database, request, flow, listed, history, hostCrashes>>

WindowElapses(a) ==
  /\ row[a] = "awaiting" /\ a \notin expired
  /\ expired' = expired \cup {a}
  /\ UNCHANGED <<row, revoked, memory, history, hostCrashes>>

\* Mutant: only holds whose direct message is still armed in memory.
OverdueArmed ==
  {a \in Approvals : row[a] = "awaiting" /\ a \in expired /\ armed[ApproverOf[a]] = a}

\* getExpiredAwaitingReasonApprovals
Overdue == {a \in Approvals : row[a] = "awaiting" /\ a \in expired}

\* sweepAwaitingReasonRejects reads its list once; each finalization awaits.
SweepHolds ==
  /\ listed = {}
  /\ \E a \in Overdue :
       /\ FinalizeReject(a)
       /\ listed' = Overdue \ {a}
  /\ UNCHANGED <<expired, revoked, request, flow, armed, card, created, applied, hostCrashes>>

SweepNext ==
  /\ \E a \in listed :
       /\ FinalizeReject(a)
       /\ listed' = listed \ {a}
  /\ UNCHANGED <<expired, revoked, request, flow, armed, card, created, applied, hostCrashes>>

-----------------------------------------------------------------------------
Revoke(a) ==
  /\ a \notin revoked
  /\ revoked' = revoked \cup {a}
  /\ UNCHANGED <<row, expired, memory, history, hostCrashes>>

\* What the process knew is gone; it is started again at once.  A request that
\* was under way has not been recorded as delivered, and is made anew under
\* another id.
HostDies ==
  /\ hostCrashes < MaxHostCrashes
  /\ hostCrashes' = hostCrashes + 1
  /\ request' = [a \in Approvals |->
       IF request[a] \in {"picking", "sending"} THEN "cut" ELSE request[a]]
  /\ flow' = [c \in Clicks |-> IF flow[c] = Idle THEN Idle ELSE Done]
  /\ armed' = [u \in Users |-> NoApproval]
  /\ listed' = {}

HostCrash == HostDies /\ UNCHANGED <<database, history>>

\* Callers of finalizeReject that may be at work on an approval.
Rejectable(a) ==
  \/ \E c \in Clicks :
       \/ flow[c] = Idle /\ a \in card
       \/ flow[c].at \in {"reaching", "prompting"} /\ flow[c].on = a
  \/ row[a] = "awaiting" /\ (a \in expired \/ armed[ApproverOf[a]] = a)
  \/ a \in listed

\* Mutant: the row is deleted before the note is sent.
CrashAfterDelete(a) ==
  /\ row[a] # "none" /\ Rejectable(a)
  /\ HostDies
  /\ row' = [row EXCEPT ![a] = "none"]
  /\ UNCHANGED <<expired, revoked, history>>

\* The note goes to the session's database, the row is in the central one: the
\* host may die in between.
CrashInReject(a) ==
  /\ row[a] # "none" /\ Rejectable(a)
  /\ HostDies
  /\ rejected' = [rejected EXCEPT ![a] = @ + 1]
  /\ told' = told \cup {a}
  /\ UNCHANGED <<database, card, created, applied>>

\* A card that could not be sent: here the row goes first.
CrashInSendFails(a) ==
  /\ request[a] = "sending"
  /\ HostDies
  /\ row' = [row EXCEPT ![a] = "none"]
  /\ UNCHANGED <<expired, revoked, history>>

Next ==
  \/ \E a \in Approvals :
       \/ Request(a) \/ Unreachable(a) \/ Create(a)
       \/ ShowCard(a) \/ Sent(a) \/ SendFails(a)
       \/ WindowElapses(a) \/ Revoke(a)
       \/ CrashInReject(a) \/ CrashInSendFails(a)
  \/ \E c \in Clicks, a \in Approvals :
       ClickReject(c, a) \/ ClickReason(c, a) \/ ClickRefused(c, a) \/ ClickApprove(c, a)
  \/ \E c \in Clicks : Applied(c) \/ Reach(c) \/ ReachFails(c) \/ Hold(c)
  \/ \E u \in Users : ReplyReason(u) \/ ReplyTooLate(u)
  \/ SweepHolds \/ SweepNext \/ HostCrash

Spec == Init /\ [][Next]_vars

(***************************************************************************)
(* Fairness.  Time passes, the sweep runs every minute whatever happened   *)
(* in the last one, and the finalization of one hold ends.  Nobody is      *)
(* bound to click or to answer, and no handler is bound to return.         *)
(***************************************************************************)
Fairness ==
  /\ WF_vars(SweepHolds) /\ WF_vars(SweepNext)
  /\ \A a \in Approvals : WF_vars(WindowElapses(a))

FairSpec == Spec /\ Fairness

-----------------------------------------------------------------------------
(* Properties *)

\* No approval ends in silence: as long as the agent has not been told, the row
\* is there for an admin or for the sweep, across crashes at any point, or its
\* request is made anew.
\* (requestApproval, handleRegisteredApproval, finalizeReject)
NoSilentEnd ==
  \A a \in created : row[a] # "none" \/ a \in told \/ request[a] = "cut"

\* What was rejected is not applied afterwards by another click, unless the
\* host died between the note and the row.
\* (finalizeReject deletes the row in the step that sends the note)
AppliesFollowNoReject ==
  \A a \in Approvals :
    applied'[a] # applied[a] => rejected[a] = 0 \/ hostCrashes > 0

RejectedNeverApplied == [][AppliesFollowNoReject]_vars

\* A resolved approval stays resolved: a hold that was on its way when another
\* click resolved the approval does not bring it back.
\* (armReasonCapture marks the row after two awaits)
RowsDoNotReturn ==
  \A a \in created : row[a] = "none" => row'[a] = "none"

ResolvedStaysResolved == [][RowsDoNotReturn]_vars

\* A hold always ends, also when the host forgot who was asked for a reason.
\* (sweepAwaitingReasonRejects, reason-capture.ts)
HoldsEnd ==
  \A a \in Approvals : row[a] = "awaiting" ~> row[a] = "none"

=============================================================================
