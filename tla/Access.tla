------------------------------- MODULE Access -------------------------------
(***************************************************************************)
(* Who reaches which agent of one chat: the router's fan-out with its      *)
(* gates, and the two flows that ask an approver: about a stranger in a    *)
(* wired chat, and about a chat that is not wired yet.                     *)
(*                                                                         *)
(* Both flows drop the message, ask behind an await, keep a row with the   *)
(* message until a card is clicked, and then route the message again.      *)
(* A step is what runs between two awaits of the host process.             *)
(***************************************************************************)
EXTENDS Integers, Sequences, FiniteSets, SequencesExt, FiniteSetsExt

CONSTANTS
  Order,          \* the agents, in the order of their wirings' priorities
  Existing,       \* agents there are from the start; others can be created
  Wirings,        \* how an agent may be wired to the chat at the start
  Policies,       \* the values of unknown_sender_policy that are looked at
  People,         \* the senders
  MaxMessages,    \* bound: the messages that arrive in the chat
  MaxRestarts     \* bound: restarts of the host

Agents    == ToSet(Order)
Messages  == 1..MaxMessages
NoMessage == 0
NoAgent   == "none"
Unwired   == [engage |-> "never", scope |-> "all", ignored |-> "drop"]
Wiring    == [engage : {"always", "mention", "sticky"},
              scope : {"all", "known"}, ignored : {"accumulate", "drop"}]

\* The card flow's wirings take only the engage mode from the channel.
CardWirings == {w \in Wiring : w.scope = "known" /\ w.ignored = "accumulate"}

ASSUME AccessAssumption ==
  /\ Order \in Seq(STRING) /\ IsInjective(Order) /\ NoAgent \notin Agents
  /\ Existing \subseteq Agents
  /\ Wirings \subseteq Wiring \cup {Unwired}
  /\ Policies \subseteq {"strict", "request_approval", "public"}
  /\ MaxMessages \in Nat /\ MaxRestarts \in Nat

VARIABLES
  \* central database
  policy,     \* unknown_sender_policy of the chat
  denied,     \* denied_at is set
  wiring,     \* messaging_group_agents
  exists,     \* agent_groups
  member,     \* agent_group_members, with owners and admins
  chatRow,    \* pending_channel_approvals: the message kept, or NoMessage
  senderRow,  \* pending_sender_approvals, one per sender
  \* sessions
  inbox,      \* the messages in each agent's session
  \* host process
  msg,        \* the messages that have arrived
  routes,     \* calls of routeInbound under way
  askChat,    \* calls of requestChannelApproval that await a DM
  askSender,  \* calls of requestSenderApproval that await a DM
  prompting,  \* a click on "new agent" finds the approver's DM, sends the prompt
  naming,     \* awaitingNameInput holds the approver
  \* the approver
  chatCard,   \* a card about the chat was shown; its buttons stay
  \* history
  refused,    \* <<message, agent>> refused by a gate
  restarts

central    == <<policy, denied, wiring, exists, member, chatRow, senderRow>>
underWay   == <<routes, askChat, askSender, prompting, naming>>
accessVars == <<central, inbox, msg, underWay, chatCard, refused, restarts>>

NoRow == [agent |-> NoAgent, msg |-> NoMessage, card |-> FALSE]

\* "left" are the agents a route has still to visit, "for" the agent whose
\* approval let the message be routed again.
Route == [msg : Messages, stage : {"arrived", "looping"},
          left : SUBSET Agents, for : Agents \cup {NoAgent}]

Arrival == [from : People, mention : BOOLEAN]

AccessTypeOK ==
  /\ policy \in Policies /\ denied \in BOOLEAN
  /\ wiring \in [Agents -> Wiring \cup {Unwired}]
  /\ exists \in SUBSET Agents
  /\ member \in [Agents -> SUBSET People]
  /\ chatRow \in Messages \cup {NoMessage}
  /\ senderRow \in [People -> {NoRow} \cup
       [agent : Agents, msg : Messages, card : BOOLEAN]]
  /\ \A p \in People : senderRow[p] # NoRow => msg[senderRow[p].msg].from = p
  /\ inbox \in [Agents -> SUBSET Messages]
  /\ msg \in Seq(Arrival) /\ Len(msg) <= MaxMessages
  /\ routes \in SUBSET Route
  /\ askChat \in SUBSET Messages
  /\ askSender \in SUBSET (Messages \X Agents)
  /\ prompting \in {"no", "finding", "sending"} /\ naming \in BOOLEAN /\ chatCard \in BOOLEAN
  /\ refused \in SUBSET (Messages \X Agents)
  /\ restarts \in 0..MaxRestarts

AccessInit ==
  /\ policy \in Policies /\ denied = FALSE
  /\ wiring \in [Agents -> Wirings \cup {Unwired}]
  /\ \A a \in Agents : wiring[a] # Unwired => a \in Existing
  /\ exists = Existing
  /\ member = [a \in Agents |-> {}]
  /\ chatRow = NoMessage /\ senderRow = [p \in People |-> NoRow]
  /\ inbox = [a \in Agents |-> {}]
  /\ msg = <<>> /\ routes = {}
  /\ askChat = {} /\ askSender = {} /\ prompting = "no" /\ naming = FALSE
  /\ chatCard = FALSE /\ refused = {} /\ restarts = 0

Wired == {a \in Agents : wiring[a] # Unwired}

-----------------------------------------------------------------------------
(* Routing.                                                                *)

Arrive(p, mention) ==
  /\ Len(msg) < MaxMessages
  /\ msg' = Append(msg, [from |-> p, mention |-> mention])
  /\ routes' = routes \cup
       {[msg |-> Len(msg) + 1, stage |-> "arrived", left |-> {}, for |-> NoAgent]}
  /\ UNCHANGED <<central, inbox, askChat, askSender, prompting, naming,
                 chatCard, refused, restarts>>

\* A sticky wiring goes on once the agent has a session for the thread.
Engages(a, m) ==
  CASE wiring[a].engage = "always"  -> TRUE
    [] wiring[a].engage = "mention" -> msg[m].mention
    [] wiring[a].engage = "sticky"  -> msg[m].mention \/ inbox[a] # {}
    [] OTHER -> FALSE

Known(a, m)    == msg[m].from \in member[a]
AccessOk(a, m) == policy = "public" \/ Known(a, m)
ScopeOk(a, m)  == wiring[a].scope = "all" \/ Known(a, m)
Refuses(a, m)  == Engages(a, m) /\ ~(AccessOk(a, m) /\ ScopeOk(a, m))

\* Mutant: what an untrusted sender said is kept as context all the same.
ReceivesContext(a, m) ==
  \/ Engages(a, m) /\ ~Refuses(a, m)
  \/ wiring[a].ignored = "accumulate"

\* Context is kept when the agent does not engage, never when it refuses.
Receives(a, m) ==
  /\ ~Refuses(a, m)
  /\ Engages(a, m) \/ wiring[a].ignored = "accumulate"

\* Mutant: nobody looks at denied_at.
RouteUnwiredDenied(f) ==
  /\ f \in routes /\ f.stage = "arrived" /\ Wired = {}
  /\ routes' = routes \ {f}
  /\ askChat' = IF msg[f.msg].mention /\ chatRow = NoMessage /\ exists # {}
                  THEN askChat \cup {f.msg} ELSE askChat
  /\ UNCHANGED <<central, inbox, msg, askSender, prompting, naming, chatCard,
                 refused, restarts>>

\* A chat without agents: a mention asks for the chat to be registered,
\* unless it was denied or a row waits already.
RouteUnwired(f) ==
  /\ f \in routes /\ f.stage = "arrived" /\ Wired = {}
  /\ routes' = routes \ {f}
  /\ askChat' = IF msg[f.msg].mention /\ ~denied /\ chatRow = NoMessage /\ exists # {}
                  THEN askChat \cup {f.msg} ELSE askChat
  /\ UNCHANGED <<central, inbox, msg, askSender, prompting, naming, chatCard,
                 refused, restarts>>

\* The agents a route passes before it awaits the next one it wakes.
Position(a) == CHOOSE i \in 1..Len(Order) : Order[i] = a
Left(f)     == IF f.stage = "arrived" THEN Wired ELSE f.left
Stops(f)    == {a \in Left(f) : Receives(a, f.msg)}
Next1(f)    == CHOOSE a \in Stops(f) : \A b \in Stops(f) : Position(a) <= Position(b)
Visited(f)  == IF Stops(f) = {} THEN Left(f)
               ELSE {a \in Left(f) : Position(a) <= Position(Next1(f))}

\* A stranger who is refused is asked about, once per sender.
AsksAbout(a, m) ==
  /\ policy = "request_approval" /\ Engages(a, m) /\ ~AccessOk(a, m)
  /\ senderRow[msg[m].from] = NoRow

Refusals(f) ==
  /\ refused' = refused \cup {<<f.msg, a>> : a \in {b \in Visited(f) : Refuses(b, f.msg)}}
  /\ askSender' = askSender \cup
       {<<f.msg, a>> : a \in {b \in Visited(f) : AsksAbout(b, f.msg)}}

MayRoute(f) == f \in routes /\ (f.stage = "looping" \/ Wired # {})

RouteStores(f) ==
  /\ MayRoute(f) /\ Stops(f) # {} /\ f.msg \notin inbox[Next1(f)]
  /\ Refusals(f)
  /\ inbox' = [inbox EXCEPT ![Next1(f)] = @ \cup {f.msg}]
  /\ routes' = (routes \ {f}) \cup
       {[f EXCEPT !.stage = "looping", !.left = Left(f) \ Visited(f)]}
  /\ UNCHANGED <<central, msg, askChat, prompting, naming, chatCard, restarts>>

\* The id of a message is unique in a session: the insert of one that is
\* there already throws, and nobody after it is visited.
RouteCollides(f) ==
  /\ MayRoute(f) /\ Stops(f) # {} /\ f.msg \in inbox[Next1(f)]
  /\ Refusals(f)
  /\ routes' = routes \ {f}
  /\ UNCHANGED <<central, inbox, msg, askChat, prompting, naming, chatCard, restarts>>

RouteEnds(f) ==
  /\ MayRoute(f) /\ Stops(f) = {}
  /\ Refusals(f)
  /\ routes' = routes \ {f}
  /\ UNCHANGED <<central, inbox, msg, askChat, prompting, naming, chatCard, restarts>>

Replay(m, a) ==
  routes' = routes \cup {[msg |-> m, stage |-> "arrived", left |-> {}, for |-> a]}

-----------------------------------------------------------------------------
(* Unknown senders.                                                        *)

\* The approver's DM is found or not; the row is inserted, unless another
\* message of the sender was faster; its card is delivered or not, and the
\* row stays either way.
AskSender(m, a) ==
  /\ <<m, a>> \in askSender
  /\ askSender' = askSender \ {<<m, a>>}
  /\ \/ UNCHANGED senderRow
     \/ /\ senderRow[msg[m].from] = NoRow
        /\ \E card \in BOOLEAN :
             senderRow' = [senderRow EXCEPT ![msg[m].from] =
                             [agent |-> a, msg |-> m, card |-> card]]
  /\ UNCHANGED <<policy, denied, wiring, exists, member, chatRow, inbox, msg,
                 routes, askChat, prompting, naming, chatCard, refused, restarts>>

\* A click by somebody who may not decide changes nothing.
AllowSender(p) ==
  /\ senderRow[p].card
  /\ member' = [member EXCEPT ![senderRow[p].agent] = @ \cup {p}]
  /\ Replay(senderRow[p].msg, senderRow[p].agent)
  /\ senderRow' = [senderRow EXCEPT ![p] = NoRow]
  /\ UNCHANGED <<policy, denied, wiring, exists, chatRow, inbox, msg, askChat,
                 askSender, prompting, naming, chatCard, refused, restarts>>

DenySender(p) ==
  /\ senderRow[p].card
  /\ senderRow' = [senderRow EXCEPT ![p] = NoRow]
  /\ UNCHANGED <<policy, denied, wiring, exists, member, chatRow, inbox, msg,
                 underWay, chatCard, refused, restarts>>

-----------------------------------------------------------------------------
(* Unknown chats.                                                          *)

AskChat(m) ==
  /\ m \in askChat
  /\ askChat' = askChat \ {m}
  /\ \/ UNCHANGED <<chatRow, chatCard>>
     \/ /\ chatRow = NoMessage /\ chatRow' = m
        /\ chatCard' \in {chatCard, TRUE}
  /\ UNCHANGED <<policy, denied, wiring, exists, member, senderRow, inbox, msg,
                 routes, askSender, prompting, naming, refused, restarts>>

\* Mutant: the triggering sender is not admitted.
WireOnly(a) ==
  /\ wiring[a] = Unwired
  /\ \E w \in CardWirings : wiring' = [wiring EXCEPT ![a] = w]
  /\ chatRow' = NoMessage
  /\ Replay(chatRow, a)
  /\ UNCHANGED member

\* The sender is admitted, so that the scope "known" of the new wiring lets
\* the message pass.
Wire(a) ==
  /\ wiring[a] = Unwired
  /\ \E w \in CardWirings : wiring' = [wiring EXCEPT ![a] = w]
  /\ member' = [member EXCEPT ![a] = @ \cup {msg[chatRow].from}]
  /\ chatRow' = NoMessage
  /\ Replay(chatRow, a)

\* An agent that was deleted, or channel defaults that cannot be resolved:
\* the row goes, and the next mention asks again.
DropChat ==
  /\ chatRow' = NoMessage
  /\ UNCHANGED <<wiring, member, routes>>

\* A wiring that is there already makes the insert throw before anything
\* else is changed.
Connect(a) ==
  /\ chatRow # NoMessage /\ chatCard /\ a \in exists
  /\ Wire(a) \/ DropChat
  /\ UNCHANGED <<policy, denied, exists, senderRow, inbox, msg, askChat,
                 askSender, prompting, naming, chatCard, refused, restarts>>

RejectChat ==
  /\ chatRow # NoMessage /\ chatCard
  /\ denied' = TRUE /\ chatRow' = NoMessage
  /\ UNCHANGED <<policy, wiring, exists, member, senderRow, inbox, msg, underWay,
                 chatCard, refused, restarts>>

ClickNewAgent ==
  /\ chatRow # NoMessage /\ chatCard /\ prompting = "no"
  /\ prompting' = "finding"
  /\ UNCHANGED <<central, inbox, msg, routes, askChat, askSender, naming,
                 chatCard, refused, restarts>>

\* The approver's DM is found, and the approver is awaited whatever became
\* of the row meanwhile.
Prompt ==
  /\ prompting = "finding"
  /\ \/ prompting' = "sending" /\ naming' = TRUE
     \/ prompting' = "no" /\ UNCHANGED naming
  /\ UNCHANGED <<central, inbox, msg, routes, askChat, askSender, chatCard,
                 refused, restarts>>

\* A prompt that is not delivered is taken back.
PromptSent ==
  /\ prompting = "sending" /\ prompting' = "no"
  /\ naming' \in {naming, FALSE}
  /\ UNCHANGED <<central, inbox, msg, routes, askChat, askSender, chatCard,
                 refused, restarts>>

\* The approver's next message is the name, unless it has no text; a row
\* that is gone by now ends the flow.
Name ==
  /\ naming /\ naming' = FALSE
  /\ \/ UNCHANGED <<wiring, exists, member, chatRow, routes>>
     \/ /\ chatRow # NoMessage
        /\ \E a \in Agents \ exists :
             exists' = exists \cup {a} /\ (Wire(a) \/ DropChat)
  /\ UNCHANGED <<policy, denied, senderRow, inbox, msg, askChat, askSender,
                 prompting, chatCard, refused, restarts>>

-----------------------------------------------------------------------------
\* An operator wires an agent from the command line; denied_at is left.
OperatorWires(a) ==
  /\ a \in exists /\ wiring[a] = Unwired
  /\ \E w \in Wirings \ {Unwired} : wiring' = [wiring EXCEPT ![a] = w]
  /\ UNCHANGED <<policy, denied, exists, member, chatRow, senderRow, inbox,
                 msg, underWay, chatCard, refused, restarts>>

HostRestarts ==
  /\ restarts < MaxRestarts /\ restarts' = restarts + 1
  /\ routes' = {} /\ askChat' = {} /\ askSender' = {}
  /\ prompting' = "no" /\ naming' = FALSE
  /\ UNCHANGED <<central, inbox, msg, chatCard, refused>>

RouteStep(f) == RouteUnwired(f) \/ RouteStores(f) \/ RouteCollides(f) \/ RouteEnds(f)

AccessNext ==
  \/ \E p \in People : \/ \E mention \in BOOLEAN : Arrive(p, mention)
                       \/ AllowSender(p) \/ DenySender(p)
  \/ \E f \in routes : RouteStep(f)
  \/ \E m \in Messages, a \in Agents : AskSender(m, a)
  \/ \E m \in Messages : AskChat(m)
  \/ \E a \in Agents : Connect(a) \/ OperatorWires(a)
  \/ RejectChat \/ ClickNewAgent \/ Prompt \/ PromptSent \/ Name \/ HostRestarts

AccessSpec == AccessInit /\ [][AccessNext]_accessVars

-----------------------------------------------------------------------------
(* Properties.                                                             *)

\* What a gate has refused gets into the agent's session only when its
\* sender was admitted to that agent since, not as context and not when it
\* is routed again for another agent of the chat.
\* (routeInbound, "those refusals are security decisions")
RefusedNeverStored ==
  [][\A m \in Messages, a \in Agents :
       <<m, a>> \in refused' /\ m \in inbox'[a] \ inbox[a] => Known(a, m)]_accessVars

\* A denied chat stays as it is: when no request was under way at the
\* denial, no late click, name reply or mention brings a card or a wiring;
\* only an operator does.
\* (handleChannelApprovalResponse, the name interceptor, routeInbound)
DeniedStaysQuiet ==
  [][denied /\ chatRow = NoMessage /\ askChat = {} =>
       /\ chatRow' = NoMessage /\ askChat' = {}
       /\ wiring' # wiring => \E a \in Agents : OperatorWires(a)]_accessVars

\* An approval is worth its message: routed again, it is stored for the
\* agent it was approved for, unless an agent before that one in the order
\* had stored it already.
\* (handleSenderApprovalResponse, wireApprovedChannel)
ApprovedIsHeard ==
  [][\A f \in routes \ routes' :
       (\E g \in routes' : g.msg = f.msg /\ g.for = f.for) \/ f.for = NoAgent
       \/ restarts' # restarts
       \/ f.msg \in inbox[f.for]
       \/ \E b \in Agents : f.msg \in inbox[b] /\ Position(b) < Position(f.for)]_accessVars
=============================================================================
