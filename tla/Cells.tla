------------------------------- MODULE Cells -------------------------------
(***************************************************************************)
(* The OnCell runtime: the sessions of one agent group take turns in the   *)
(* group's cell.  The host keeps a handle per start, pushes the session's  *)
(* inbound.db into the cell and pulls the cell's outbound.db and outbox    *)
(* back, one tick of a timer at a time; every request to the cell is an    *)
(* await, and everything else of the host may run in between.              *)
(*                                                                         *)
(* A step is what happens between two awaits, or the effect of a request   *)
(* in the cell.                                                            *)
(***************************************************************************)
EXTENDS Integers, FiniteSets, Functions

CONSTANTS
  Sessions,       \* the sessions of the group
  NoSession,
  MaxStarts,      \* bound: the attempts to start a session
  MaxRows,        \* bound: the rows in the sessions' mailboxes
  MaxAnswers,     \* bound: the rows the runner answers
  PumpFailures,   \* MAX_CONSECUTIVE_PUMP_FAILURES
  CheckEvery,     \* SERVICE_CHECK_EVERY_TICKS
  MaxFaults       \* bound: failed requests, dead services and dead hosts

ASSUME CellsAssumption ==
  /\ NoSession \notin Sessions
  /\ MaxStarts \in Nat \ {0} /\ MaxRows \in Nat \ {0}
  /\ PumpFailures \in Nat \ {0} /\ CheckEvery \in Nat \ {0}
  /\ MaxAnswers \in Nat /\ MaxFaults \in Nat

VARIABLES
  \* host process
  handle,     \* the handles, in the order of the starts
  holder,     \* cellHolders, for this group's cell
  killing,    \* handles whose kill awaits the stop of the service
  \* session directories of the host
  inbound,    \* rows in the session's inbound.db
  outbound,   \* answers in the session's outbound.db
  \* the cell
  pushed,     \* the side file inbound.db.__push
  cellIn,     \* claw/session/inbound.db
  cellOut,    \* answers in claw/session/outbound.db
  staged,     \* .outbound.last and .outbound.pull, the copy staged last
  service,    \* the start whose service runs, or 0
  \* history
  overlapped, \* two sessions were being started at the same time
  crossed,    \* a push ran beside another handle that pushes
  faults

memory  == <<handle, holder, killing>>
local   == <<inbound, outbound>>
cell    == <<pushed, cellIn, cellOut, staged, service>>
history == <<overlapped, crossed, faults>>
vars    == <<memory, local, cell, history>>

Handles == 1..MaxStarts

\* How many rows of each session have been answered, in their order.
Answers == [Sessions -> Nat]
None    == [s \in Sessions |-> 0]
Copy    == [of : Sessions, rows : Nat \ {0}]
NoCopy  == [of |-> NoSession, rows |-> 0]

\* "writing" and "installing" are the two requests of a push.
Starting == {"preparing", "writing", "installing", "probing", "stopping",
             "starting", "registering"}
Ticking  == {"writing", "installing", "status", "pulling", "filing"}

Unused == [of |-> NoSession, at |-> "unused", tick |-> "idle", read |-> 0,
           sig |-> 0, ticks |-> 0, fails |-> 0]

HandleType ==
  [of : Sessions \cup {NoSession},
   at : {"unused", "active", "gone"} \cup Starting,
   tick : {"idle"} \cup Ticking,
   read : Nat, sig : Nat,
   ticks : 0..(CheckEvery - 1), fails : 0..PumpFailures]

TypeOK ==
  /\ handle \in [Handles -> HandleType]
  /\ holder \in Sessions \cup {NoSession}
  /\ killing \in SUBSET Handles
  /\ inbound \in [Sessions -> Nat \ {0}]
  /\ outbound \in [Sessions -> Answers]
  /\ pushed \in Copy \cup {NoCopy} /\ cellIn \in Copy \cup {NoCopy}
  /\ cellOut \in Answers /\ staged \in Answers
  /\ service \in 0..MaxStarts
  /\ overlapped \in BOOLEAN /\ crossed \in BOOLEAN
  /\ faults \in Nat

\* The session was created with a row in its mailbox.
Init ==
  /\ handle = [h \in Handles |-> Unused]
  /\ holder = NoSession /\ killing = {}
  /\ inbound = [s \in Sessions |-> 1]
  /\ outbound = [s \in Sessions |-> None]
  /\ pushed = NoCopy /\ cellIn = NoCopy
  /\ cellOut = None /\ staged = None /\ service = 0
  /\ overlapped = FALSE /\ crossed = FALSE /\ faults = 0

Is(h, phase) == handle[h].at = phase
IsStarting(h) == handle[h].at \in Starting
At(h, step)  == handle[h].tick = step
Of(h)        == handle[h].of

\* The sessions in activeCellSessions.
Running(s) == \E h \in Handles : Is(h, "active") /\ Of(h) = s

\* Another handle may have a request of a push in flight.
Pushing(g) ==
  \/ handle[g].at \in Starting \ {"preparing"}
  \/ Is(g, "active")
  \/ handle[g].tick \in {"writing", "installing"}
Crosses(h) == Is(h, "gone") \/ \E g \in Handles \ {h} : Pushing(g)

MayFail == faults < MaxFaults /\ faults' = faults + 1

-----------------------------------------------------------------------------
(* Starting a session.                                                     *)

\* A session that runs or is being started is left to it; a cell that is
\* held by another session defers the wake.
Wake(h, s) ==
  /\ Is(h, "unused") /\ \A g \in 1..(h - 1) : ~Is(g, "unused")
  /\ ~Running(s) /\ \A g \in Handles : IsStarting(g) => Of(g) # s
  /\ holder \in {NoSession, s}
  /\ handle' = [handle EXCEPT ![h].of = s, ![h].at = "preparing"]
  /\ overlapped' = (overlapped \/ \E g \in Handles : IsStarting(g))
  /\ UNCHANGED <<holder, killing, local, cell, crossed, faults>>

\* The cell exists, its workspace is synced and the session's directories
\* are prepared; the rows to push are read.
Prepare(h) ==
  /\ Is(h, "preparing")
  /\ handle' = [handle EXCEPT ![h].at = "writing", ![h].read = inbound[Of(h)]]
  /\ UNCHANGED <<holder, killing, local, cell, history>>

\* The first request of a push leaves the rows in a side file ...
WriteSideFile(h) ==
  /\ pushed' = [of |-> Of(h), rows |-> handle[h].read]
  /\ crossed' = (crossed \/ Crosses(h))
  /\ UNCHANGED <<cellIn, cellOut, staged, service>>

\* ... and the second one moves whatever the side file holds into place.
InstallSideFile(h) ==
  /\ pushed # NoCopy
  /\ cellIn' = pushed /\ pushed' = NoCopy
  /\ crossed' = (crossed \/ Crosses(h))
  /\ UNCHANGED <<cellOut, staged, service>>

StartWrites(h) ==
  /\ Is(h, "writing") /\ WriteSideFile(h)
  /\ handle' = [handle EXCEPT ![h].at = "installing"]
  /\ UNCHANGED <<holder, killing, local, overlapped, faults>>

StartInstalls(h) ==
  /\ Is(h, "installing") /\ InstallSideFile(h)
  /\ handle' = [handle EXCEPT ![h].at = "probing", ![h].sig = handle[h].read]
  /\ UNCHANGED <<holder, killing, local, overlapped, faults>>

\* A service that is left over is stopped before the new one is started.
Probe(h) ==
  /\ Is(h, "probing")
  /\ handle' = [handle EXCEPT
       ![h].at = IF service # 0 THEN "stopping" ELSE "starting"]
  /\ UNCHANGED <<holder, killing, local, cell, history>>

StopStale(h) ==
  /\ Is(h, "stopping")
  /\ service' = 0
  /\ handle' = [handle EXCEPT ![h].at = "starting"]
  /\ UNCHANGED <<holder, killing, local, pushed, cellIn, cellOut, staged, history>>

\* The cell has one service slot.
StartService(h) ==
  /\ Is(h, "starting")
  /\ service' = h
  /\ handle' = [handle EXCEPT ![h].at = "registering"]
  /\ UNCHANGED <<holder, killing, local, pushed, cellIn, cellOut, staged, history>>

\* Only now does the session hold the cell.
Register(h) ==
  /\ Is(h, "registering")
  /\ holder' = Of(h)
  /\ handle' = [handle EXCEPT ![h].at = "active"]
  /\ UNCHANGED <<killing, local, cell, history>>

\* Any request of the start fails, or its side file is gone: the wake is
\* given up and the sweep tries again.
StartFails(h) ==
  /\ IsStarting(h)
  /\ MayFail \/ (Is(h, "installing") /\ pushed = NoCopy /\ UNCHANGED faults)
  /\ handle' = [handle EXCEPT ![h].at = "gone"]
  /\ UNCHANGED <<holder, killing, local, cell, overlapped, crossed>>

-----------------------------------------------------------------------------
(* The pump.                                                               *)

\* finalizeCellSession; a handle that is already stopped is left alone.
Finalized(hs, h) == IF hs[h].at = "active" THEN [hs EXCEPT ![h].at = "gone"] ELSE hs
\* Mutant: the cell stays with the session that ended.
ReleasedNever(h) == holder
Released(h) == IF Is(h, "active") /\ holder = Of(h) THEN NoSession ELSE holder

\* The rows are pushed when the file has changed; a journal beside it puts
\* the push off to a later tick.
TickBegins(h) ==
  /\ Is(h, "active") /\ At(h, "idle")
  /\ \E step \in {"writing", "status"} :
       /\ step = "writing" => handle[h].sig # inbound[Of(h)]
       /\ handle' = [handle EXCEPT
            ![h].tick = step,
            ![h].read = IF step = "writing" THEN inbound[Of(h)] ELSE @,
            ![h].ticks = (@ + 1) % CheckEvery]
  /\ UNCHANGED <<holder, killing, local, cell, history>>

\* Mutant: the signature is recorded before the push is through.
TickWritesRecords(h) ==
  /\ At(h, "writing") /\ WriteSideFile(h)
  /\ handle' = [handle EXCEPT ![h].tick = "installing", ![h].sig = handle[h].read]
  /\ UNCHANGED <<holder, killing, local, overlapped, faults>>

TickWrites(h) ==
  /\ At(h, "writing") /\ WriteSideFile(h)
  /\ handle' = [handle EXCEPT ![h].tick = "installing"]
  /\ UNCHANGED <<holder, killing, local, overlapped, faults>>

TickInstalls(h) ==
  /\ At(h, "installing") /\ InstallSideFile(h)
  /\ handle' = [handle EXCEPT ![h].tick = "status", ![h].sig = handle[h].read]
  /\ UNCHANGED <<holder, killing, local, overlapped, faults>>

\* One request stages outbound.db and lists the outbox; nothing is staged
\* when outbound.db is what was staged last or a journal lies beside it.
TickStages(h) ==
  /\ At(h, "status") /\ cellOut # staged
  /\ handle' = [handle EXCEPT ![h].tick = "pulling"]
  /\ staged' = cellOut
  /\ UNCHANGED <<holder, killing, local, pushed, cellIn, cellOut, service, history>>

TickSkips(h) ==
  /\ At(h, "status")
  /\ handle' = [handle EXCEPT ![h].tick = "filing"]
  /\ UNCHANGED <<holder, killing, local, cell, history>>

\* The copy replaces the session's outbound.db.
TickPulls(h) ==
  /\ At(h, "pulling")
  /\ outbound' = [outbound EXCEPT ![Of(h)] = staged]
  /\ handle' = [handle EXCEPT ![h].tick = "filing"]
  /\ UNCHANGED <<holder, killing, inbound, cell, history>>

\* Mutant: nobody asks whether the service is still there.
TickEndsBlind(h) ==
  /\ At(h, "filing")
  /\ handle' = [handle EXCEPT ![h].tick = "idle", ![h].fails = 0]
  /\ UNCHANGED <<holder, killing, local, cell, history>>

\* The files listed are fetched; every so often the tick asks for the
\* service, and one that has exited ends the session.
TickEnds(h) ==
  /\ At(h, "filing")
  /\ LET after == [handle EXCEPT ![h].tick = "idle", ![h].fails = 0] IN
       IF handle[h].ticks = 0 /\ service = 0
         THEN handle' = Finalized(after, h) /\ holder' = Released(h)
         ELSE handle' = after /\ UNCHANGED holder
  /\ UNCHANGED <<killing, local, cell, history>>

\* A request of the tick fails; too many failures in a row end the session,
\* whose service is left running.
TickFails(h) ==
  /\ ~At(h, "idle")
  /\ MayFail \/ (At(h, "installing") /\ pushed = NoCopy /\ UNCHANGED faults)
  /\ LET fails == IF handle[h].fails < PumpFailures THEN handle[h].fails + 1
                                                     ELSE PumpFailures
         after == [handle EXCEPT ![h].tick = "idle", ![h].fails = fails] IN
       IF fails >= PumpFailures
         THEN handle' = Finalized(after, h) /\ holder' = Released(h)
         ELSE handle' = after /\ UNCHANGED holder
  /\ UNCHANGED <<killing, local, cell, overlapped, crossed>>

-----------------------------------------------------------------------------
(* The end of a session, the runner in the cell, the rest of the host.     *)

Kill(h) ==
  /\ Is(h, "active") /\ h \notin killing
  /\ killing' = killing \cup {h}
  /\ UNCHANGED <<handle, holder, local, cell, history>>

\* The stop of the service is answered, or failed, and the session ends.
KillEnds(h) ==
  /\ h \in killing
  /\ killing' = killing \ {h}
  /\ \/ service' = 0 /\ UNCHANGED faults
     \/ MayFail /\ UNCHANGED service
  /\ handle' = Finalized(handle, h) /\ holder' = Released(h)
  /\ UNCHANGED <<local, pushed, cellIn, cellOut, staged, overlapped, crossed>>

\* The runner answers a row of the inbound.db that is in the cell.
Answer ==
  /\ service # 0 /\ cellIn # NoCopy
  /\ cellOut[cellIn.of] < cellIn.rows
  /\ SumFunction(cellOut) < MaxAnswers
  /\ cellOut' = [cellOut EXCEPT ![cellIn.of] = @ + 1]
  /\ UNCHANGED <<memory, local, pushed, cellIn, staged, service, history>>

ServiceDies ==
  /\ service # 0 /\ MayFail
  /\ service' = 0
  /\ UNCHANGED <<memory, local, pushed, cellIn, cellOut, staged, overlapped, crossed>>

HostWrites(s) ==
  /\ SumFunction(inbound) < MaxRows
  /\ inbound' = [inbound EXCEPT ![s] = @ + 1]
  /\ UNCHANGED <<memory, outbound, cell, history>>

\* The next host process stops the services the last one left running, if
\* the cells can be listed.
HostRestarts ==
  /\ MayFail
  /\ handle' = [h \in Handles |->
       IF Is(h, "unused") THEN handle[h]
       ELSE [Unused EXCEPT !.of = Of(h), !.at = "gone"]]
  /\ holder' = NoSession /\ killing' = {}
  /\ service' \in {0, service}
  /\ UNCHANGED <<local, pushed, cellIn, cellOut, staged, overlapped, crossed>>

Tick(h) ==
  \/ TickBegins(h) \/ TickWrites(h) \/ TickInstalls(h) \/ TickStages(h)
  \/ TickSkips(h) \/ TickPulls(h) \/ TickEnds(h)

Next ==
  \/ \E h \in Handles :
       \/ \E s \in Sessions : Wake(h, s)
       \/ Prepare(h) \/ StartWrites(h) \/ StartInstalls(h) \/ Probe(h)
       \/ StopStale(h) \/ StartService(h) \/ Register(h) \/ StartFails(h)
       \/ Tick(h) \/ TickFails(h)
       \/ Kill(h) \/ KillEnds(h)
  \/ \E s \in Sessions : HostWrites(s)
  \/ Answer \/ ServiceDies \/ HostRestarts

Spec == Init /\ [][Next]_vars

\* The pump's timer fires again and again, and its requests are answered or
\* time out.
FairSpec ==
  /\ Spec
  /\ \A h \in Handles : WF_vars(Tick(h) \/ TickFails(h))

-----------------------------------------------------------------------------
(* Properties.                                                             *)

\* The group's cell is never left to a session that is gone, which would
\* keep every other session of the group waiting for ever; and two sessions
\* run in it at once only if they were started at the same time.
\* (startCellSession, finalizeCellSession)
HeldByTheRunning ==
  /\ holder # NoSession => Running(holder)
  /\ \A s, t \in Sessions : Running(s) /\ Running(t) /\ s # t => overlapped

\* What the host takes for pushed is what the runner reads: as long as no
\* two pushes cross, an inbound.db whose signature is the recorded one is
\* in the cell.  A push that failed half-way is made again.
\* (pushSessionInputs, pushFileToCell)
BelievedIsThere ==
  \A h \in Handles :
    Is(h, "active") /\ handle[h].sig = inbound[Of(h)] /\ ~crossed
      => cellIn = [of |-> Of(h), rows |-> inbound[Of(h)]]

\* A session does not stay marked running in a cell whose service is dead:
\* the service comes back or the session ends, and the sweep can wake it.
\* (pumpTickBody, runPumpTick)
DeadServiceNoticed ==
  \A h \in Handles :
    Is(h, "active") /\ service = 0 ~> ~Is(h, "active") \/ service # 0
=============================================================================
