------------------------------ MODULE Delivery ------------------------------
(***************************************************************************)
(* The outbound path: rows that containers write to outbound.db are read   *)
(* by two timers of the host, the active poll (sessions whose container    *)
(* runs) and the sweep poll (sessions that are open), and handed to the    *)
(* channel's adapter; what became of a row is recorded in inbound.db.      *)
(*                                                                         *)
(* Each step is what the host does between two awaits.  A drain works on   *)
(* the snapshot it took; the adapter's call is the only await inside it.   *)
(***************************************************************************)
EXTENDS Naturals, FiniteSets

CONSTANTS
  Rows,         \* the messages_out rows that may be written
  Sessions,
  SessionOf,    \* the session of a row
  NoSession,
  TaskSessions, \* sessions the sweep closes once no task is left in them
  Denials,      \* rows the host writes itself (command gate)
  WithFiles,    \* rows with an outbox directory
  Unroutable,   \* rows without channel or platform
  Restricted,   \* rows whose destination may be refused when they are sent
  MaxAttempts,  \* MAX_DELIVERY_ATTEMPTS
  MaxStarts,    \* bound on container starts
  MaxFaults,    \* bound on failing database calls
  MaxHostCrashes

Pollers == {"active", "sweep"}

ASSUME DeliveryAssumption ==
  /\ IsFiniteSet(Rows) /\ IsFiniteSet(Sessions)
  /\ SessionOf \in [Rows -> Sessions]
  /\ NoSession \notin Sessions
  /\ TaskSessions \subseteq Sessions
  /\ Denials \subseteq Rows /\ WithFiles \subseteq Rows
  /\ Unroutable \subseteq Rows /\ Restricted \subseteq Rows
  /\ MaxAttempts \in Nat \ {0} /\ MaxStarts \in Nat
  /\ MaxFaults \in Nat /\ MaxHostCrashes \in Nat

VARIABLES
  \* session databases and files
  stamp,       \* messages_out.timestamp, 0 before the row is written
  delivered,   \* the delivered table: none, delivered or failed
  outbox,      \* rows whose outbox directory exists
  \* central database and containers
  open,        \* sessions.status = active
  column,      \* sessions.container_status = running
  alive,       \* a container of the session runs
  \* host process
  host,
  attempts,    \* deliveryAttempts
  inflight,    \* inflightDeliveries
  todo,        \* sessions the poller has yet to visit in this round
  at,          \* the session it drains
  queue,       \* what is left of its snapshot of undelivered rows
  call,        \* the adapter's call for the head: none, calling or shown
  \* the chat
  copies,      \* how often the platform has shown the row
  \* bounds
  clock, starts, faults, hostCrashes

database == <<stamp, delivered, outbox>>
sessions == <<open, column, alive>>
polls    == <<todo, at, queue, call>>
memory   == <<attempts, inflight, polls>>
bounds   == <<clock, starts, faults, hostCrashes>>
vars     == <<database, sessions, host, memory, copies, bounds>>

Outcomes == {"none", "delivered", "failed"}

TypeOK ==
  /\ stamp \in [Rows -> Nat] /\ delivered \in [Rows -> Outcomes]
  /\ outbox \subseteq WithFiles
  /\ open \in [Sessions -> BOOLEAN] /\ column \in [Sessions -> BOOLEAN]
  /\ alive \in [Sessions -> BOOLEAN]
  /\ host \in {"up", "down"}
  /\ attempts \in [Rows -> 0..(MaxAttempts + MaxFaults - 1)]
  /\ inflight \in SUBSET Sessions
  /\ todo \in [Pollers -> SUBSET Sessions]
  /\ at \in [Pollers -> Sessions \cup {NoSession}]
  /\ queue \in [Pollers -> SUBSET Rows]
  /\ call \in [Pollers -> {"none", "calling", "shown"}]
  /\ copies \in [Rows -> Nat]
  /\ clock \in Nat /\ starts \in Nat /\ faults \in 0..MaxFaults /\ hostCrashes \in Nat

Init ==
  /\ stamp = [m \in Rows |-> 0] /\ delivered = [m \in Rows |-> "none"]
  /\ outbox = {}
  /\ open = [s \in Sessions |-> TRUE]
  /\ column = [s \in Sessions |-> FALSE] /\ alive = [s \in Sessions |-> FALSE]
  /\ host = "up"
  /\ attempts = [m \in Rows |-> 0] /\ inflight = {}
  /\ todo = [p \in Pollers |-> {}] /\ at = [p \in Pollers |-> NoSession]
  /\ queue = [p \in Pollers |-> {}] /\ call = [p \in Pollers |-> "none"]
  /\ copies = [m \in Rows |-> 0]
  /\ clock = 0 /\ starts = 0 /\ faults = 0 /\ hostCrashes = 0

-----------------------------------------------------------------------------
(* Rows and sessions *)

Written(m) == stamp[m] > 0

\* writeMessageOut: the files are copied to the outbox before the row is there.
Insert(m) ==
  /\ ~Written(m)
  /\ clock' = clock + 1
  /\ stamp' = [stamp EXCEPT ![m] = clock']
  /\ outbox' = IF m \in WithFiles THEN outbox \cup {m} ELSE outbox
  /\ UNCHANGED <<delivered, sessions, host, memory, copies, starts, faults, hostCrashes>>

\* A container writes a row, whether or not the host is up.
Write(m) == m \notin Denials /\ alive[SessionOf[m]] /\ Insert(m)

\* The command gate answers for the agent, with or without a container.
Deny(m) == m \in Denials /\ host = "up" /\ open[SessionOf[m]] /\ Insert(m)

ContainerStarts(s) ==
  /\ host = "up" /\ open[s] /\ ~alive[s] /\ starts < MaxStarts
  /\ starts' = starts + 1
  /\ alive' = [alive EXCEPT ![s] = TRUE]
  /\ column' = [column EXCEPT ![s] = TRUE]
  /\ UNCHANGED <<database, open, host, memory, copies, clock, faults, hostCrashes>>

\* The close event marks the container stopped, if there is a host to see it.
ContainerStops(s) ==
  /\ alive[s]
  /\ alive' = [alive EXCEPT ![s] = FALSE]
  /\ column' = IF host = "up" THEN [column EXCEPT ![s] = FALSE] ELSE column
  /\ UNCHANGED <<database, open, host, memory, copies, bounds>>

\* The last step of sweepSession: a spent task session is closed.
CloseTaskSession(s) ==
  /\ host = "up" /\ s \in TaskSessions /\ open[s] /\ ~alive[s]
  /\ open' = [open EXCEPT ![s] = FALSE]
  /\ UNCHANGED <<database, column, alive, host, memory, copies, bounds>>

-----------------------------------------------------------------------------
(* A round of a poller *)

\* getDueOutboundMessages, without the rows the delivered table knows.
Undelivered(s) == {m \in Rows : SessionOf[m] = s /\ Written(m) /\ delivered[m] = "none"}

\* getRunningSessions and getActiveSessions
Listed(p) == {s \in Sessions : IF p = "active" THEN column[s] ELSE open[s]}

PollStart(p) ==
  /\ host = "up" /\ todo[p] = {} /\ at[p] = NoSession
  /\ Listed(p) # {}
  /\ todo' = [todo EXCEPT ![p] = Listed(p)]
  /\ UNCHANGED <<database, sessions, host, attempts, inflight, at, queue, call, copies, bounds>>

\* Mutant: nothing keeps a second drain away.
VisitUnguarded(p) ==
  /\ host = "up" /\ at[p] = NoSession
  /\ \E s \in todo[p] :
       /\ todo' = [todo EXCEPT ![p] = @ \ {s}]
       /\ IF Undelivered(s) = {}
          THEN UNCHANGED <<inflight, at, queue>>
          ELSE /\ inflight' = inflight \cup {s}
               /\ at' = [at EXCEPT ![p] = s]
               /\ queue' = [queue EXCEPT ![p] = Undelivered(s)]
  /\ UNCHANGED <<database, sessions, host, attempts, call, copies, bounds>>

\* deliverSessionMessages: a session that is being drained is skipped, and one
\* with nothing to deliver is left at once.
Visit(p) ==
  /\ host = "up" /\ at[p] = NoSession
  /\ \E s \in todo[p] :
       /\ todo' = [todo EXCEPT ![p] = @ \ {s}]
       /\ IF s \in inflight \/ Undelivered(s) = {}
          THEN UNCHANGED <<inflight, at, queue>>
          ELSE /\ inflight' = inflight \cup {s}
               /\ at' = [at EXCEPT ![p] = s]
               /\ queue' = [queue EXCEPT ![p] = Undelivered(s)]
  /\ UNCHANGED <<database, sessions, host, attempts, call, copies, bounds>>

Fault == faults < MaxFaults /\ faults' = faults + 1

\* Reading a session's databases throws: the poller gives up the whole round.
ReadThrows(p) ==
  /\ host = "up" /\ at[p] = NoSession /\ todo[p] # {}
  /\ Fault
  /\ todo' = [todo EXCEPT ![p] = {}]
  /\ UNCHANGED <<database, sessions, host, attempts, inflight, at, queue, call, copies,
                 clock, starts, hostCrashes>>

\* Mutant: the rows of a snapshot are taken newest first.
IsNewest(p, m) == m \in queue[p] /\ \A n \in queue[p] : stamp[n] <= stamp[m]

\* The row of the snapshot that the loop is at: ORDER BY timestamp.
IsHead(p, m) == m \in queue[p] /\ \A n \in queue[p] : stamp[m] <= stamp[n]

\* Mutant: a drained session stays marked.
DoneKeepsInflight(p, m) ==
  /\ queue' = [queue EXCEPT ![p] = @ \ {m}]
  /\ call' = [call EXCEPT ![p] = "none"]
  /\ at' = IF queue'[p] = {} THEN [at EXCEPT ![p] = NoSession] ELSE at
  /\ UNCHANGED inflight

\* The loop is done with m; after the last row the session is free again.
Done(p, m) ==
  /\ queue' = [queue EXCEPT ![p] = @ \ {m}]
  /\ call' = [call EXCEPT ![p] = "none"]
  /\ IF queue'[p] = {}
     THEN at' = [at EXCEPT ![p] = NoSession] /\ inflight' = inflight \ {at[p]}
     ELSE UNCHANGED <<at, inflight>>

\* markDelivered and markDeliveryFailed: INSERT OR IGNORE.
Record(m, outcome) ==
  /\ delivered' = [delivered EXCEPT ![m] = IF @ = "none" THEN outcome ELSE @]
  /\ attempts' = [attempts EXCEPT ![m] = 0]

\* The catch branch of drainSession's loop.
Failed(m) ==
  IF attempts[m] + 1 >= MaxAttempts
  THEN Record(m, "failed")
  ELSE attempts' = [attempts EXCEPT ![m] = @ + 1] /\ UNCHANGED delivered

\* A row without an address is dropped, and recorded as delivered.
Drop(p) ==
  /\ host = "up"
  /\ \E m \in Unroutable :
       IsHead(p, m) /\ call[p] = "none" /\ Record(m, "delivered") /\ Done(p, m)
  /\ UNCHANGED <<stamp, outbox, sessions, host, todo, copies, bounds>>

\* The destination is unknown or not allowed: deliverMessage throws.
Refuse(p) ==
  /\ host = "up"
  /\ \E m \in Restricted \ Unroutable :
       IsHead(p, m) /\ call[p] = "none" /\ Failed(m) /\ Done(p, m)
  /\ UNCHANGED <<stamp, outbox, sessions, host, todo, copies, bounds>>

\* The row's files are read and the adapter is called.
Call(p) ==
  /\ host = "up"
  /\ \E m \in Rows \ Unroutable : IsHead(p, m) /\ call[p] = "none"
  /\ call' = [call EXCEPT ![p] = "calling"]
  /\ UNCHANGED <<database, sessions, host, attempts, inflight, todo, at, queue, copies, bounds>>

\* The platform shows the message.
Show(p) ==
  /\ host = "up" /\ call[p] = "calling"
  /\ \E m \in Rows : IsHead(p, m) /\ copies' = [copies EXCEPT ![m] = @ + 1]
  /\ call' = [call EXCEPT ![p] = "shown"]
  /\ UNCHANGED <<database, sessions, host, attempts, inflight, todo, at, queue, bounds>>

\* The adapter's promise resolves: clearOutbox, then markDelivered.
Answer(p) ==
  /\ host = "up" /\ call[p] = "shown"
  /\ \E m \in Rows :
       IsHead(p, m) /\ Record(m, "delivered") /\ Done(p, m) /\ outbox' = outbox \ {m}
  /\ UNCHANGED <<stamp, sessions, host, todo, copies, bounds>>

\* Mutant: an adapter's error is swallowed, and the row recorded as delivered.
RejectSwallowed(p) ==
  /\ host = "up" /\ call[p] # "none"
  /\ \E m \in Rows : IsHead(p, m) /\ Record(m, "delivered") /\ Done(p, m)
  /\ UNCHANGED <<stamp, outbox, sessions, host, todo, copies, bounds>>

\* It rejects, although the platform may have taken the message already.
Reject(p) ==
  /\ host = "up" /\ call[p] # "none"
  /\ \E m \in Rows : IsHead(p, m) /\ Failed(m) /\ Done(p, m)
  /\ UNCHANGED <<stamp, outbox, sessions, host, todo, copies, bounds>>

\* It resolves and markDelivered throws, after the outbox has been cleared.
MarkThrows(p) ==
  /\ host = "up" /\ call[p] = "shown"
  /\ Fault
  /\ \E m \in Rows : IsHead(p, m) /\ Failed(m) /\ Done(p, m) /\ outbox' = outbox \ {m}
  /\ UNCHANGED <<stamp, sessions, host, todo, copies, clock, starts, hostCrashes>>

\* It rejects for the last time and markDeliveryFailed throws: the attempt
\* counts, and the exception ends the drain and the round.
GiveUpThrows(p) ==
  /\ host = "up" /\ call[p] # "none"
  /\ Fault
  /\ \E m \in Rows :
       /\ IsHead(p, m) /\ attempts[m] + 1 >= MaxAttempts
       /\ attempts' = [attempts EXCEPT ![m] = @ + 1]
  /\ inflight' = inflight \ {at[p]}
  /\ at' = [at EXCEPT ![p] = NoSession]
  /\ todo' = [todo EXCEPT ![p] = {}]
  /\ queue' = [queue EXCEPT ![p] = {}]
  /\ call' = [call EXCEPT ![p] = "none"]
  /\ UNCHANGED <<database, sessions, host, copies, clock, starts, hostCrashes>>

-----------------------------------------------------------------------------
\* The host dies anywhere, between a message shown and its row recorded too.
HostCrash ==
  /\ host = "up" /\ hostCrashes < MaxHostCrashes
  /\ hostCrashes' = hostCrashes + 1
  /\ host' = "down"
  /\ attempts' = [m \in Rows |-> 0] /\ inflight' = {}
  /\ todo' = [p \in Pollers |-> {}] /\ at' = [p \in Pollers |-> NoSession]
  /\ queue' = [p \in Pollers |-> {}] /\ call' = [p \in Pollers |-> "none"]
  /\ UNCHANGED <<database, sessions, copies, clock, starts, faults>>

\* The next host stops the containers it finds; container_status keeps its value.
HostStart ==
  /\ host = "down"
  /\ host' = "up"
  /\ alive' = [s \in Sessions |-> FALSE]
  /\ UNCHANGED <<database, open, column, memory, copies, bounds>>

Poll(p) ==
  \/ PollStart(p) \/ Visit(p) \/ ReadThrows(p)
  \/ Drop(p) \/ Refuse(p) \/ Call(p) \/ Show(p)
  \/ Answer(p) \/ Reject(p) \/ MarkThrows(p) \/ GiveUpThrows(p)

Next ==
  \/ \E m \in Rows : Write(m) \/ Deny(m)
  \/ \E s \in Sessions : ContainerStarts(s) \/ ContainerStops(s) \/ CloseTaskSession(s)
  \/ \E p \in Pollers : Poll(p)
  \/ HostCrash \/ HostStart

Spec == Init /\ [][Next]_vars

(***************************************************************************)
(* Fairness.  Both pollers rearm their timers whatever happened in a       *)
(* round, a dead host is started again by its service manager, and an      *)
(* adapter's promise settles: it has no timeout, so this is assumed of the *)
(* channel.  No fault, crash or container step is ever bound to happen.    *)
(***************************************************************************)
Fairness ==
  /\ WF_vars(HostStart)
  /\ \A p \in Pollers :
       /\ WF_vars(PollStart(p)) /\ WF_vars(Visit(p))
       /\ WF_vars(Drop(p) \/ Refuse(p) \/ Call(p))
       /\ WF_vars(Show(p) \/ Answer(p) \/ Reject(p))

FairSpec == Spec /\ Fairness

-----------------------------------------------------------------------------
(* Properties *)

\* The two timers never show a message twice: a second copy appears only after
\* an attempt at the row failed, or after the host died.
\* (inflightDeliveries and the snapshot of drainSession, delivery.ts)
CopiesFollowFailures ==
  \A m \in Rows :
    copies[m] > 0 /\ copies'[m] # copies[m] => attempts[m] > 0 \/ hostCrashes > 0

ShownTwiceOnlyAfterFailure == [][CopiesFollowFailures]_vars

\* A row recorded as delivered has been shown, unless it had no address: an
\* error never ends as a silent loss.
\* (deliverMessage throws instead of returning, delivery.ts)
DeliveredWasShown ==
  \A m \in Rows \ Unroutable : delivered[m] = "delivered" => copies[m] > 0

\* Messages of a session first appear in the order they were written, except
\* past one whose delivery failed, and after the host died.
\* (the loop over the ordered snapshot in drainSession, delivery.ts)
FirstShownInOrder ==
  \A m, n \in Rows :
    /\ SessionOf[m] = SessionOf[n] /\ Written(m) /\ stamp[m] < stamp[n]
    /\ copies[n] > 0 /\ copies[m] = 0
    => attempts[m] > 0 \/ delivered[m] # "none" \/ hostCrashes > 0

\* The first copy of a message that has files carries them, whatever attempts
\* came before it.
\* (readOutboxFiles before, clearOutbox after the adapter's call, delivery.ts)
FilesComeFirst ==
  \A m \in WithFiles : copies[m] = 0 /\ copies'[m] > 0 => m \in outbox

FilesTravel == [][FilesComeFirst]_vars

\* Every row of a session that stays open is delivered or given up, whichever
\* poller skipped it and however often the host or the databases failed.
\* (pollActive, pollSweep and the finally of deliverSessionMessages)
RowsSettle ==
  \A m \in Rows : Written(m) ~> delivered[m] # "none" \/ ~open[SessionOf[m]]

=============================================================================
