----------------------------- MODULE Questions -----------------------------
(***************************************************************************)
(* Cards with buttons on which somebody waits: the questions of the tool   *)
(* ask_user_question (mcp-tools/interactive.ts, modules/interactive) and   *)
(* the requests of the OneCLI gateway for a credential                     *)
(* (modules/approvals/onecli-approvals.ts).                                *)
(*                                                                         *)
(* A button carries the index of its option.  A click is two steps with an *)
(* await between them: the bridge reads the row of the card to turn the    *)
(* index into the option and edits the card, then the response handlers    *)
(* look the row up again.  Meanwhile the row may be written, taken by      *)
(* another click, expire, or be written a second time.                     *)
(*                                                                         *)
(* For a question the row comes first, then the card; the answer goes as a *)
(* system row into the session's inbox, which the tool polls until its     *)
(* deadline.  For a request the card comes first, then the row and a       *)
(* resolver in memory with a timer.                                        *)
(***************************************************************************)
EXTENDS Integers, Sequences

CONSTANTS
    Asked,          \* questions of the agent
    Requests,       \* requests of the gateway
    MaxAttempts,    \* MAX_DELIVERY_ATTEMPTS
    MaxClicks, MaxFaults, MaxRestarts   \* bounds

Cards == Asked \cup Requests
Options == {"approve", "reject"}
Values == Options \cup {"index"}        \* "index": a button nobody decoded
Clicks == 1 .. MaxClicks

ASSUME QuestionsAssumption ==
    /\ Asked \cap Requests = {}
    /\ MaxAttempts \in Nat \ {0}
    /\ {MaxClicks, MaxFaults, MaxRestarts} \subseteq Nat

VARIABLES
    row,        \* row[c]: pending_questions or pending_approvals
    shown,      \* the cards that have been on the screen
    click,      \* click[k]: a click and what it was taken for
    tool,       \* tool[q]: the tool call
    sending,    \* sending[q]: the row of messages_out in the delivery loop
    attempts,   \* attempts[q]: deliveryAttempts, in the memory of the host
    calls,      \* calls[q]: how often the card was sent; history
    inbox,      \* inbox[q]: the answers in messages_in that nobody has acked
    taken,      \* taken[q]: the answers the tool returned
    gate,       \* gate[r]: the request as the gateway sees it
    waiting,    \* the requests with a resolver in memory
    expiring,   \* the requests whose card is being edited to "Expired"
    stale,      \* the rows an earlier host has left, still to be swept
    faults, restarts

cardVars == <<row, shown, click>>
askVars == <<tool, sending, attempts, calls, inbox, taken>>
gateVars == <<gate, waiting, expiring, stale>>
bounds == <<faults, restarts>>
vars == <<cardVars, askVars, gateVars, bounds>>

NoClick == [stage |-> "none"]
Done == [stage |-> "done"]
ClickOf == [stage : {"editing"}, card : Cards, option : Options, value : Values]

TypeOK ==
    /\ row \in [Cards -> {"none", "pending", "expired"}]
    /\ shown \subseteq Cards
    /\ click \in [Clicks -> ClickOf \cup {NoClick, Done}]
    /\ tool \in [Asked -> {"idle", "waiting", "answered", "timedout", "gone"}]
    /\ sending \in [Asked -> {"none", "due", "calling", "delivered", "failed"}]
    /\ attempts \in [Asked -> 0 .. MaxAttempts]
    /\ calls \in [Asked -> Nat]
    /\ inbox \in [Asked -> Seq(Values)] /\ taken \in [Asked -> Seq(Values)]
    /\ gate \in [Requests -> {"none", "sending", "waiting", "approve", "deny", "lost"}]
    /\ waiting = {r \in Requests : gate[r] = "waiting"}
    /\ expiring \cup stale \subseteq {r \in Requests : gate[r] \in {"approve", "deny", "lost"}}
    /\ \A r \in Requests : row[r] # "none" =>
          (r \in waiting /\ row[r] = "pending") \/ r \in expiring \cup stale
    /\ \A q \in Asked : row[q] # "expired"
    /\ faults \in 0 .. MaxFaults /\ restarts \in 0 .. MaxRestarts

Init ==
    /\ row = [c \in Cards |-> "none"] /\ shown = {}
    /\ click = [k \in Clicks |-> NoClick]
    /\ tool = [q \in Asked |-> "idle"]
    /\ sending = [q \in Asked |-> "none"]
    /\ attempts = [q \in Asked |-> 0] /\ calls = [q \in Asked |-> 0]
    /\ inbox = [q \in Asked |-> <<>>] /\ taken = [q \in Asked |-> <<>>]
    /\ gate = [r \in Requests |-> "none"]
    /\ waiting = {} /\ expiring = {} /\ stale = {}
    /\ faults = 0 /\ restarts = 0

----------------------------------------------------------------------------
(* The question of an agent *)

Ask(q) ==
    /\ tool[q] = "idle"
    /\ tool' = [tool EXCEPT ![q] = "waiting"]
    /\ sending' = [sending EXCEPT ![q] = "due"]
    /\ UNCHANGED <<cardVars, attempts, calls, inbox, taken, gateVars, bounds>>

\* The delivery loop inserts the row, unless there is one, and calls the
\* adapter.
Send(q) ==
    /\ sending[q] = "due"
    /\ row' = [row EXCEPT ![q] = "pending"]
    /\ sending' = [sending EXCEPT ![q] = "calling"]
    /\ calls' = [calls EXCEPT ![q] = @ + 1]
    /\ UNCHANGED <<shown, click, tool, attempts, inbox, taken, gateVars, bounds>>

\* The card is on the screen before the call of the adapter returns.
Appears(c) ==
    /\ c \notin shown
    /\ \/ c \in Asked /\ sending[c] = "calling"
       \/ c \in Requests /\ gate[c] = "sending"
    /\ shown' = shown \cup {c}
    /\ UNCHANGED <<row, click, askVars, gateVars, bounds>>

Sent(q) ==
    /\ sending[q] = "calling" /\ q \in shown
    /\ sending' = [sending EXCEPT ![q] = "delivered"]
    /\ UNCHANGED <<cardVars, tool, attempts, calls, inbox, taken, gateVars, bounds>>

\* The call fails, or what it showed is not recorded.
SendFails(q) ==
    /\ sending[q] = "calling" /\ faults < MaxFaults
    /\ faults' = faults + 1
    /\ attempts' = [attempts EXCEPT ![q] = @ + 1]
    /\ sending' = [sending EXCEPT ![q] =
                     IF attempts'[q] = MaxAttempts THEN "failed" ELSE "due"]
    /\ UNCHANGED <<cardVars, tool, calls, inbox, taken, gateVars, restarts>>

\* findQuestionResponse finds the answer; it is acked and returned.
Take(q) ==
    /\ tool[q] = "waiting" /\ inbox[q] # <<>>
    /\ tool' = [tool EXCEPT ![q] = "answered"]
    /\ taken' = [taken EXCEPT ![q] = Append(@, Head(inbox[q]))]
    /\ inbox' = [inbox EXCEPT ![q] = Tail(@)]
    /\ UNCHANGED <<cardVars, sending, attempts, calls, gateVars, bounds>>

\* The deadline passes, or the container dies.
GiveUp(q) ==
    /\ tool[q] = "waiting"
    /\ \E end \in {"timedout", "gone"} : tool' = [tool EXCEPT ![q] = end]
    /\ UNCHANGED <<cardVars, sending, attempts, calls, inbox, taken, gateVars, bounds>>

----------------------------------------------------------------------------
(* The request of the gateway *)

Request(r) ==
    /\ gate[r] = "none"
    /\ gate' = [gate EXCEPT ![r] = "sending"]
    /\ UNCHANGED <<cardVars, askVars, waiting, expiring, stale, bounds>>

\* Once the card is out: the row, the timer and the resolver.
Requested(r) ==
    /\ gate[r] = "sending" /\ r \in shown
    /\ gate' = [gate EXCEPT ![r] = "waiting"]
    /\ row' = [row EXCEPT ![r] = "pending"]
    /\ waiting' = waiting \cup {r}
    /\ UNCHANGED <<shown, click, askVars, expiring, stale, bounds>>

\* No approver that can be reached, or the card fails.
RequestFails(r) ==
    /\ gate[r] = "sending" /\ faults < MaxFaults
    /\ faults' = faults + 1
    /\ gate' = [gate EXCEPT ![r] = "deny"]
    /\ UNCHANGED <<cardVars, askVars, waiting, expiring, stale, restarts>>

\* Mutant: the timer decides and forgets the card.
TimerOnly(r) ==
    /\ r \in waiting
    /\ waiting' = waiting \ {r}
    /\ gate' = [gate EXCEPT ![r] = "deny"]
    /\ row' = [row EXCEPT ![r] = "expired"]
    /\ UNCHANGED <<shown, click, askVars, expiring, stale, bounds>>

Timer(r) ==
    /\ r \in waiting
    /\ waiting' = waiting \ {r}
    /\ gate' = [gate EXCEPT ![r] = "deny"]
    /\ row' = [row EXCEPT ![r] = "expired"]
    /\ expiring' = expiring \cup {r}
    /\ UNCHANGED <<shown, click, askVars, stale, bounds>>

\* The card has been edited: the row goes, after the timer or in the sweep of
\* what an earlier host has left.
Expired(r) ==
    /\ r \in expiring \cup stale
    /\ row' = [row EXCEPT ![r] = "none"]
    /\ expiring' = expiring \ {r} /\ stale' = stale \ {r}
    /\ UNCHANGED <<shown, click, askVars, gate, waiting, bounds>>

----------------------------------------------------------------------------
(* A click *)

\* resolveSelectedOption: without a row the index stays what it is.
Decoded(c, option) == IF row[c] # "none" THEN option ELSE "index"

Click(k, c, option) ==
    /\ click[k] = NoClick /\ c \in shown
    /\ \A j \in 1 .. k - 1 : click[j] # NoClick
    /\ click' = [click EXCEPT ![k] = [stage |-> "editing", card |-> c, option |-> option,
                                      value |-> Decoded(c, option)]]
    /\ UNCHANGED <<row, shown, askVars, gateVars, bounds>>

\* Mutant: an approval needs no resolver, its row is enough.
ResolvedByRow(r, value) ==
    /\ waiting' = waiting \ {r}
    /\ gate' = [gate EXCEPT ![r] = IF value = "approve" THEN "approve" ELSE "deny"]

\* resolveOneCLIApproval: without a resolver the click only drops the row.
Resolved(r, value) ==
    IF r \in waiting
      THEN /\ waiting' = waiting \ {r}
           /\ gate' = [gate EXCEPT ![r] = IF value = "approve" THEN "approve" ELSE "deny"]
      ELSE UNCHANGED <<waiting, gate>>

\* Mutant: the row of a question outlives its answer.
AnsweredKeeping(q, value) ==
    /\ inbox' = [inbox EXCEPT ![q] = Append(@, value)]
    /\ UNCHANGED row

Answered(q, value) ==
    /\ inbox' = [inbox EXCEPT ![q] = Append(@, value)]
    /\ row' = [row EXCEPT ![q] = "none"]

\* The response handlers.  A card without a row is claimed by nobody; the
\* click of a user who may not decide a request is dropped.
Respond(k) ==
    LET c == click[k].card IN
    /\ click[k].stage = "editing"
    /\ click' = [click EXCEPT ![k] = Done]
    /\ UNCHANGED <<shown, tool, sending, attempts, calls, taken, expiring, stale, bounds>>
    /\ \/ /\ row[c] = "none" \/ c \in Requests
          /\ UNCHANGED <<row, inbox, gate, waiting>>
       \/ /\ row[c] # "none" /\ c \in Requests
          /\ Resolved(c, click[k].value)
          /\ row' = [row EXCEPT ![c] = "none"]
          /\ UNCHANGED inbox
       \/ /\ row[c] # "none" /\ c \in Asked
          /\ Answered(c, click[k].value)
          /\ UNCHANGED <<gate, waiting>>

----------------------------------------------------------------------------
(* The host stops, with or without a signal, and starts again *)

\* sweepStaleApprovals
Leftover == {r \in Requests : row[r] # "none"}

\* What was in memory is gone: clicks between their steps, resolvers with
\* their timers, attempts.  The gateway's own time-out ends the requests.
Restart ==
    /\ restarts < MaxRestarts /\ restarts' = restarts + 1
    /\ click' = [k \in Clicks |-> IF click[k] = NoClick THEN NoClick ELSE Done]
    /\ sending' = [q \in Asked |-> IF sending[q] = "calling" THEN "due" ELSE sending[q]]
    /\ attempts' = [q \in Asked |-> 0]
    /\ gate' = [r \in Requests |-> IF gate[r] \in {"sending", "waiting"}
                                     THEN "lost" ELSE gate[r]]
    /\ waiting' = {} /\ expiring' = {}
    /\ stale' = Leftover
    /\ UNCHANGED <<row, shown, tool, calls, inbox, taken, faults>>

Next ==
    \/ \E q \in Asked : Ask(q) \/ Send(q) \/ Sent(q) \/ SendFails(q) \/ Take(q) \/ GiveUp(q)
    \/ \E r \in Requests : Request(r) \/ Requested(r) \/ RequestFails(r)
                             \/ Timer(r) \/ Expired(r)
    \/ \E c \in Cards : Appears(c)
    \/ \E k \in Clicks, c \in Cards, option \in Options : Click(k, c, option)
    \/ \E k \in Clicks : Respond(k)
    \/ Restart

Spec == Init /\ [][Next]_vars

\* Adapters answer, timers fire and loops turn.  Nobody has to click, and
\* nothing has to fail.
Fairness ==
    /\ \A c \in Cards : WF_vars(Appears(c))
    /\ \A q \in Asked : WF_vars(Send(q)) /\ WF_vars(Sent(q)) /\ WF_vars(GiveUp(q))
    /\ \A r \in Requests : WF_vars(Requested(r)) /\ WF_vars(Timer(r)) /\ WF_vars(Expired(r))
    /\ \A k \in Clicks : WF_vars(Respond(k))

FairSpec == Spec /\ Fairness
----------------------------------------------------------------------------

\* A question whose card was sent once has one answer at most, and that is an
\* option of the card, whoever else clicks and whenever.  (A card that is sent
\* again has its row written again, so that a click made before may be
\* answered with the bare index.)
AnsweredAsAsked ==
    \A q \in Asked :
        LET all == taken[q] \o inbox[q] IN
        /\ Len(all) <= calls[q]
        /\ calls[q] = 1 => \A i \in DOMAIN all : all[i] \in Options

\* A request is decided once: a credential is given by a click on "approve" of
\* this card, in the life of the host that asked for it and before its timer;
\* nothing decides it again.
DecidedOnce ==
    [][\A r \in Requests :
          /\ gate[r] \in {"approve", "deny", "lost"} => gate'[r] = gate[r]
          /\ gate'[r] = "approve" /\ gate[r] # "approve" =>
               /\ gate[r] = "waiting"
               /\ \E k \in Clicks : /\ click[k].stage = "editing"
                                    /\ click'[k] = Done
                                    /\ click[k].card = r /\ click[k].option = "approve"]_vars

\* Every request is decided, and its row is removed, although timers, clicks,
\* edits and the sweep of a new host may all be at it.
RequestsEnd ==
    \A r \in Requests :
        gate[r] = "sending" \/ row[r] # "none" ~>
            gate[r] \in {"approve", "deny", "lost"} /\ row[r] = "none"

=============================================================================
