------------------------------- MODULE Agents -------------------------------
(***************************************************************************)
(* Messages between agents (src/modules/agent-to-agent): an agent writes a *)
(* row addressed to another agent group, the delivery loop decides whether *)
(* it may pass (guard.ts), holds it for an approval when a policy says so, *)
(* picks the session that gets it (agent-route.ts) and stores it there.    *)
(*                                                                         *)
(* The path back is the column source_session_id of the stored row,        *)
(* reached through in_reply_to, which the container stamps on what it      *)
(* writes.  Messages are numbered in the order they are written, and the   *)
(* row a message becomes in the inbox of its target has its number.        *)
(***************************************************************************)
EXTENDS Integers, Sequences, FiniteSets, SequencesExt

CONSTANTS
    Groups, Sessions,
    GroupOf,        \* the agent group of a session
    Tasks,          \* sessions of a task series, which may be closed
    Absent,         \* sessions that do not exist until a message needs one
    Oldest,         \* the sessions by creation
    Known,          \* the destinations at the start, which containers know
    Policies,       \* the policies at the start
    None,
    MaxMessages, MaxTries, MaxEdits     \* bounds; MAX_DELIVERY_ATTEMPTS

Edges == {e \in Groups \X Groups : e[1] # e[2]}

ASSUME AgentsAssumption ==
    /\ GroupOf \in [Sessions -> Groups]
    /\ Tasks \cup Absent \subseteq Sessions /\ Tasks \cap Absent = {}
    /\ Oldest \in Seq(Sessions) /\ Range(Oldest) = Sessions /\ IsInjective(Oldest)
    /\ \A g \in Groups : \E s \in Sessions \ Tasks : GroupOf[s] = g
    /\ Known \subseteq Edges /\ Policies \subseteq Edges
    /\ None \notin Sessions
    /\ {MaxMessages, MaxEdits} \subseteq Nat /\ MaxTries \in Nat \ {0}

VARIABLES
    status,     \* status[s]: "absent", "active" or "closed"
    inbox,      \* inbox[s]: the agent rows of messages_in, in order
    read,       \* read[s]: how many of them the agent has been given
    batch,      \* batch[s]: what its container is working on
    msg,        \* the messages written so far
    allowed,    \* agent_destinations
    policy,     \* agent_message_policies
    edits

vars == <<status, inbox, read, batch, msg, allowed, policy, edits>>

\* A container is idle, or works on a batch: `first` is its first row, 0 for
\* a row that is no agent message (current_in_reply_to), `given` the rows of
\* other agents in it, `text` says that its final text is delivered.
Idle == [on |-> FALSE, first |-> 0, given |-> {}, text |-> FALSE]

Numbers == 1 .. Len(msg)
States == {"sent", "held", "stored", "failed", "refused", "rejected"}

TypeOK ==
    /\ status \in [Sessions -> {"absent", "active", "closed"}]
    /\ \A s \in Sessions :
        /\ status[s] = "closed" => s \in Tasks
        /\ inbox[s] \in Seq(Numbers) /\ IsInjective(inbox[s])
        /\ read[s] \in 0 .. Len(inbox[s])
        /\ {batch[s].on, batch[s].text} \subseteq BOOLEAN
        /\ batch[s].given \subseteq {inbox[s][i] : i \in 1 .. read[s]}
        /\ batch[s].first \in batch[s].given \cup {0}
    /\ \A m \in Numbers :
        /\ msg[m].from \in Sessions /\ msg[m].to \in Groups
        /\ {msg[m].re, msg[m].answers} \subseteq Range(inbox[msg[m].from]) \cup {0}
        /\ msg[m].tries \in 0 .. MaxTries
        /\ msg[m].state \in States
        /\ msg[m].at \in Sessions \cup {None}
        /\ msg[m].at # None <=> msg[m].state = "stored"
    /\ \A s \in Sessions : \A m \in Range(inbox[s]) :
          msg[m].at = s /\ GroupOf[s] = msg[m].to
    /\ allowed \subseteq Edges /\ policy \subseteq Edges
    /\ edits \in 0 .. MaxEdits

Init ==
    /\ status = [s \in Sessions |-> IF s \in Absent THEN "absent" ELSE "active"]
    /\ inbox = [s \in Sessions |-> <<>>]
    /\ read = [s \in Sessions |-> 0]
    /\ batch = [s \in Sessions |-> Idle]
    /\ msg = <<>>
    /\ allowed = Known
    /\ policy = Policies
    /\ edits = 0

----------------------------------------------------------------------------
(* The container *)

Unread(s) == {inbox[s][i] : i \in read[s] + 1 .. Len(inbox[s])}

\* A batch starts with the oldest row: one of an agent, or another (a chat
\* message, a task) with what agents wrote meanwhile behind it.  The final
\* text of a batch that is tasks alone is not delivered, whatever follows.
Start(s) ==
    /\ status[s] = "active" /\ ~batch[s].on
    /\ \E first \in {0} \cup (IF Unread(s) = {} THEN {}
                              ELSE {inbox[s][read[s] + 1]}) :
          batch' = [batch EXCEPT ![s] =
                      [on |-> TRUE, first |-> first, given |-> Unread(s),
                       text |-> s \notin Tasks \/ Unread(s) # {}]]
    /\ read' = [read EXCEPT ![s] = Len(inbox[s])]
    /\ UNCHANGED <<status, inbox, msg, allowed, policy, edits>>

\* Rows that come while the query runs are pushed into it.
FollowUp(s) ==
    /\ batch[s].on /\ Unread(s) # {}
    /\ batch' = [batch EXCEPT ![s].given = @ \cup Unread(s)]
    /\ read' = [read EXCEPT ![s] = Len(inbox[s])]
    /\ UNCHANGED <<status, inbox, msg, allowed, policy, edits>>

Finish(s) ==
    /\ batch[s].on
    /\ batch' = [batch EXCEPT ![s] = Idle]
    /\ UNCHANGED <<status, inbox, read, msg, allowed, policy, edits>>

From(s, g) == {i \in DOMAIN inbox[s] : GroupOf[msg[inbox[s][i]].from] = g}
Latest(s, g) == inbox[s][CHOOSE i \in From(s, g) : \A j \in From(s, g) : j <= i]

\* in_reply_to of a message of the tools: the first row of the batch, or
\* nothing once the stamp is older than IN_REPLY_TO_MAX_AGE_MS.
StampsTool(s) == {batch[s].first, 0}
\* in_reply_to of a block of the final text: the latest row of the group it
\* goes to, read or not; without one, the first row of the batch.
StampText(s, g) == IF From(s, g) = {} THEN batch[s].first ELSE Latest(s, g)

Write(s, g, re, answers) ==
    /\ batch[s].on /\ Len(msg) < MaxMessages
    /\ <<GroupOf[s], g>> \in Known
    /\ msg' = Append(msg, [from |-> s, to |-> g, re |-> re, answers |-> answers,
                           tries |-> 0, state |-> "sent", at |-> None])
    /\ UNCHANGED <<status, inbox, read, batch, allowed, policy, edits>>

\* The agent writes to a group of its own accord, or answers a row it was
\* given in this batch; with a tool, or in its final text.
Ask(s, g) ==
    \/ \E re \in StampsTool(s) : Write(s, g, re, 0)
    \/ batch[s].text /\ Write(s, g, StampText(s, g), 0)
Answer(s, q) ==
    LET g == GroupOf[msg[q].from] IN
    /\ q \in batch[s].given
    /\ \/ \E re \in StampsTool(s) : Write(s, g, re, q)
       \/ batch[s].text /\ Write(s, g, StampText(s, g), q)

----------------------------------------------------------------------------
(* The host *)

Newest(g) ==
    LET own == {i \in DOMAIN Oldest : GroupOf[Oldest[i]] = g /\ Oldest[i] \notin Tasks}
        active == {i \in own : status[Oldest[i]] = "active"}
        last(is) == CHOOSE i \in is : \A j \in is : j <= i
    IN  Oldest[IF active # {} THEN last(active)
               ELSE CHOOSE i \in own : status[Oldest[i]] = "absent"]

\* Mutant: the session that wrote last, whatever the message answers.
TargetLatest(m) ==
    LET s == msg[m].from  g == msg[m].to
        origin == IF From(s, g) # {} THEN msg[Latest(s, g)].from ELSE None
    IN  IF origin # None /\ status[origin] = "active" THEN origin ELSE Newest(g)

\* resolveTargetSession: the session the answered row came from; without one
\* the session of the group that wrote last; if that is closed, or of another
\* group, the newest session of the group, created if need be.
Target(m) ==
    LET s == msg[m].from  g == msg[m].to
        origin == IF msg[m].re # 0 THEN msg[msg[m].re].from
                  ELSE IF From(s, g) # {} THEN msg[Latest(s, g)].from ELSE None
    IN  IF origin # None /\ GroupOf[origin] = g /\ status[origin] = "active"
          THEN origin ELSE Newest(g)

Edge(m) == <<GroupOf[msg[m].from], msg[m].to>>
Denied(m) == Edge(m) \notin allowed
Held(m) == Edge(m) \in policy

Store(m) ==
    LET t == Target(m) IN
    /\ status' = [status EXCEPT ![t] = "active"]
    /\ inbox' = [inbox EXCEPT ![t] = Append(@, m)]
    /\ msg' = [msg EXCEPT ![m].state = "stored", ![m].at = t]

\* The rows of a session are tried in order, a denied one again in the next
\* pass; only active sessions are drained.
Turn(m) ==
    /\ msg[m].state = "sent" /\ status[msg[m].from] = "active"
    /\ \A k \in 1 .. m - 1 : msg[k].from = msg[m].from /\ msg[k].state = "sent"
                               => msg[k].tries > msg[m].tries

\* routeAgentMessage, from the delivery loop.
Route(m) ==
    /\ Turn(m)
    /\ \/ /\ Denied(m)
          /\ LET tried == msg[m].tries + 1 IN
             msg' = [msg EXCEPT ![m].tries = tried,
                        ![m].state = IF tried = MaxTries THEN "failed" ELSE @]
          /\ UNCHANGED <<status, inbox>>
       \/ /\ ~Denied(m) /\ Held(m)
          /\ msg' = [msg EXCEPT ![m].state = "held"]
          /\ UNCHANGED <<status, inbox>>
       \/ ~Denied(m) /\ ~Held(m) /\ Store(m)
    /\ UNCHANGED <<read, batch, allowed, policy, edits>>

\* Mutant: the approval is the whole decision.
ApproveBlindly(m) ==
    /\ msg[m].state = "held" /\ Store(m)
    /\ UNCHANGED <<read, batch, allowed, policy, edits>>

\* applyA2aMessageGate: the approval answers the policy; the destination is
\* looked up again.
Approve(m) ==
    /\ msg[m].state = "held"
    /\ IF Denied(m)
         THEN msg' = [msg EXCEPT ![m].state = "refused"] /\ UNCHANGED <<status, inbox>>
         ELSE Store(m)
    /\ UNCHANGED <<read, batch, allowed, policy, edits>>

Reject(m) ==
    /\ msg[m].state = "held"
    /\ msg' = [msg EXCEPT ![m].state = "rejected"]
    /\ UNCHANGED <<status, inbox, read, batch, allowed, policy, edits>>

\* The sweep closes the session of a finished series that has no container.
\* It counts task rows only: an agent row that is not due yet, or whose
\* container failed to start, does not keep the session.
Close(s) ==
    /\ s \in Tasks /\ status[s] = "active" /\ ~batch[s].on
    /\ status' = [status EXCEPT ![s] = "closed"]
    /\ UNCHANGED <<inbox, read, batch, msg, allowed, policy, edits>>

\* An operator adds or removes a destination or a policy.
Edit(e) ==
    /\ edits < MaxEdits /\ edits' = edits + 1
    /\ \/ allowed' = SymDiff(allowed, {e}) /\ UNCHANGED policy
       \/ policy' = SymDiff(policy, {e}) /\ UNCHANGED allowed
    /\ UNCHANGED <<status, inbox, read, batch, msg>>

Next ==
    \/ \E s \in Sessions : Start(s) \/ FollowUp(s) \/ Finish(s) \/ Close(s)
    \/ \E s \in Sessions, g \in Groups : Ask(s, g)
    \/ \E s \in Sessions : \E q \in batch[s].given : Answer(s, q)
    \/ \E m \in Numbers : Route(m) \/ Approve(m) \/ Reject(m)
    \/ \E e \in Known : Edit(e)

Spec == Init /\ [][Next]_vars
----------------------------------------------------------------------------
(* What the agents may rely on *)

Writers(s, g) == {msg[inbox[s][i]].from : i \in From(s, g)}

\* An answer goes back to the session that asked, however long it was held
\* and whatever else was written meanwhile, unless that session is closed.
\* The exceptions are the two stamps that name another row: several sessions
\* of the asking group wrote to this one, or the batch began with a row of a
\* third group.
AnswersReturn ==
    \A m \in Numbers :
        LET q == msg[m].answers  s == msg[m].from IN
        msg[m].state = "stored" /\ q # 0 =>
            \/ msg[m].at = msg[q].from
            \/ status[msg[q].from] = "closed"
            \/ /\ msg[m].re # q
               /\ \/ Cardinality(Writers(s, msg[m].to)) > 1
                  \/ /\ msg[m].re # 0
                     /\ GroupOf[msg[msg[m].re].from] # msg[m].to

\* No message passes over an edge that is not allowed at that moment, nor one
\* with a policy without an approval; a message that failed, was refused or
\* rejected stays where it is.
EdgesAreLive ==
    [][\A m \in Numbers :
          msg'[m].state # msg[m].state =>
            /\ msg[m].state \in {"sent", "held"}
            /\ msg'[m].state = "stored" =>
                 Edge(m) \in allowed /\ (Edge(m) \in policy => msg[m].state = "held")]_vars
=============================================================================
