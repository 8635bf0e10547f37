------------------------------- MODULE Series -------------------------------
(***************************************************************************)
(* One task series and its session: the rows of messages_in that are its   *)
(* occurrences, the commands of `ncl tasks` that change them, the sweep    *)
(* that records finished occurrences, re-arms the series and closes the    *)
(* spent session, and the container that runs what is due.                 *)
(*                                                                         *)
(* A step is what the host does between two awaits.  The container is seen *)
(* as SessionLifecycle has it: it claims due rows and acks them in         *)
(* outbound.db.  Tries, back-off times and prompts are left out; a time is *)
(* either due or not.                                                      *)
(***************************************************************************)
EXTENDS Naturals, FiniteSets

CONSTANTS
  MaxRows,        \* bound: occurrences ever inserted
  PauseCap,       \* SCRIPT_FAIL_PAUSE_CAP
  MaxCommands,    \* bound: commands of users and agents
  MaxDeaths,      \* bound: container deaths in the middle of a row
  MaxHostCrashes

ASSUME SeriesAssumption ==
  /\ MaxRows \in Nat \ {0} /\ PauseCap \in Nat \ {0}
  /\ MaxCommands \in Nat /\ MaxDeaths \in Nat /\ MaxHostCrashes \in Nat

Rows == 1..MaxRows      \* in the order of seq

VARIABLES
  \* inbound.db and the session's row in the central database
  row,          \* status, armed (recurrence is set), due, byHand (tasks run)
  used,         \* rows inserted so far
  closed,       \* the session's status
  \* outbound.db
  ack,          \* none, processing, completed or error (script-skip:error)
  \* processes
  container,    \* none, booting or up
  sweep,        \* where the sweep of this session waits
  \* history and bounds
  failures,     \* scheduled runs that failed since a success or a command
  multiplied,   \* a copy was made that the schedule did not ask for
  commands, deaths, hostCrashes

database == <<row, used, closed>>
bounds   == <<commands, deaths, hostCrashes>>
vars     == <<database, ack, container, sweep, failures, multiplied, bounds>>

Statuses == {"absent", "pending", "paused", "cancelled", "completed", "failed"}

Occurrence == [status : Statuses, armed : BOOLEAN, due : BOOLEAN, byHand : BOOLEAN]

Absent == [status |-> "absent", armed |-> FALSE, due |-> FALSE, byHand |-> FALSE]

TypeOK ==
  /\ row \in [Rows -> Occurrence]
  /\ used \in 0..MaxRows
  /\ closed \in BOOLEAN
  /\ ack \in [Rows -> {"none", "processing", "completed", "error"}]
  /\ container \in {"none", "booting", "up"}
  /\ sweep \in {"idle", "waking", "rearming", "closing"}
  /\ failures \in Nat /\ multiplied \in BOOLEAN
  /\ commands \in Nat /\ deaths \in Nat /\ hostCrashes \in Nat

\* createScheduledTask: recurring or not, by a command or (paused) by a template.
Init ==
  /\ \E s \in {"pending", "paused"}, a, d \in BOOLEAN :
       row = [r \in Rows |->
                IF r = 1 THEN [status |-> s, armed |-> a, due |-> d, byHand |-> FALSE]
                         ELSE Absent]
  /\ used = 1 /\ closed = FALSE
  /\ ack = [r \in Rows |-> "none"]
  /\ container = "none" /\ sweep = "idle"
  /\ failures = 0 /\ multiplied = FALSE
  /\ commands = 0 /\ deaths = 0 /\ hostCrashes = 0

Exists(r) == row[r].status # "absent"
Live(r) == row[r].status \in {"pending", "paused"}

-----------------------------------------------------------------------------
(* Time and the container *)

ComesDue(r) ==
  /\ Live(r) /\ ~row[r].due
  /\ row' = [row EXCEPT ![r].due = TRUE]
  /\ UNCHANGED <<used, closed, ack, container, sweep, failures, multiplied, bounds>>

\* The first thing a container does is to drop the claims of its predecessor.
Boot ==
  /\ container = "booting"
  /\ container' = "up"
  /\ ack' = [r \in Rows |-> IF ack[r] = "processing" THEN "none" ELSE ack[r]]
  /\ UNCHANGED <<database, sweep, failures, multiplied, bounds>>

Claim(r) ==
  /\ container = "up"
  /\ row[r].status = "pending" /\ row[r].due /\ ack[r] = "none"
  /\ ack' = [ack EXCEPT ![r] = "processing"]
  /\ UNCHANGED <<database, container, sweep, failures, multiplied, bounds>>

\* The agent answers or the script says wakeAgent=false, or the script fails.
Finish(r) ==
  /\ container = "up" /\ ack[r] = "processing"
  /\ \E a \in {"completed", "error"} : ack' = [ack EXCEPT ![r] = a]
  /\ UNCHANGED <<database, container, sweep, failures, multiplied, bounds>>

\* An idle container ends (sooner or later the sweep's ceiling sees to it).
ContainerEnds ==
  /\ container # "none"
  /\ \A r \in Rows : ack[r] # "processing"
  /\ container' = "none"
  /\ UNCHANGED <<database, ack, sweep, failures, multiplied, bounds>>

\* A container dies while it holds claims, by itself or before it can drop
\* those of its predecessor.
ContainerDies ==
  /\ container # "none" /\ deaths < MaxDeaths
  /\ \E r \in Rows : ack[r] = "processing"
  /\ container' = "none" /\ deaths' = deaths + 1
  /\ UNCHANGED <<database, ack, sweep, failures, multiplied, commands, hostCrashes>>

-----------------------------------------------------------------------------
(* The commands *)

\* A command addresses an open session; one that matches no row is refused.
Command ==
  /\ ~closed /\ commands < MaxCommands
  /\ commands' = commands + 1
  /\ failures' = 0
  /\ UNCHANGED <<closed, ack, container, sweep, deaths, hostCrashes>>

Pause ==
  /\ Command
  /\ \E r \in Rows : row[r].status = "pending"
  /\ row' = [r \in Rows |->
               IF row[r].status = "pending" THEN [row[r] EXCEPT !.status = "paused"] ELSE row[r]]
  /\ UNCHANGED <<used, multiplied>>

Resume ==
  /\ Command
  /\ \E r \in Rows : row[r].status = "paused"
  /\ row' = [r \in Rows |->
               IF row[r].status = "paused" THEN [row[r] EXCEPT !.status = "pending"] ELSE row[r]]
  /\ UNCHANGED <<used, multiplied>>

\* Mutant: a cancelled row keeps its recurrence.
CancelledKeeps(o) == [o EXCEPT !.status = "cancelled"]

Cancelled(o) == [o EXCEPT !.status = "cancelled", !.armed = FALSE]

Cancel ==
  /\ Command
  /\ \E r \in Rows : Live(r)
  /\ row' = [r \in Rows |-> IF Live(r) THEN Cancelled(row[r]) ELSE row[r]]
  /\ UNCHANGED <<used, multiplied>>

\* Mutant: an updated row starts again as a fresh one.
UpdatedRevived(o, armed, due) ==
  [o EXCEPT !.armed = armed, !.due = due, !.status = "pending"]

Updated(o, armed, due) == [o EXCEPT !.armed = armed, !.due = due]

\* --recurrence sets or clears it on every live row, --process-after moves
\* them all; either may be left out.
Update ==
  /\ Command
  /\ \E r \in Rows : Live(r)
  /\ \E rec, after \in {"kept", "set", "cleared"} :
       LET armed(r) == IF rec = "kept" THEN row[r].armed ELSE rec = "set"
           due(r) == IF after = "kept" THEN row[r].due ELSE after = "set"
       IN /\ row' = [r \in Rows |->
                       IF Live(r) THEN Updated(row[r], armed(r), due(r)) ELSE row[r]]
          /\ multiplied' = (multiplied \/ \E r \in Rows : Live(r) /\ row[r].byHand /\ armed(r))
  /\ UNCHANGED used

\* An extra occurrence, due now and not recurring, of any series that has rows.
RunNow ==
  /\ Command
  /\ \E r \in Rows : Exists(r)
  /\ used < MaxRows
  /\ used' = used + 1
  /\ row' = [row EXCEPT ![used + 1] =
               [status |-> "pending", armed |-> FALSE, due |-> TRUE, byHand |-> TRUE]]
  /\ UNCHANGED multiplied

Delete ==
  /\ Command
  /\ \E r \in Rows : Exists(r)
  /\ row' = [r \in Rows |-> Absent]
  /\ UNCHANGED <<used, multiplied>>

-----------------------------------------------------------------------------
(* The sweep *)

\* syncProcessingAcks: a row that was paused or cancelled while it ran counts
\* as run.
Synced(r) ==
  IF ack[r] \in {"completed", "error"} /\ Exists(r) /\ row[r].status \notin {"completed", "failed"}
  THEN [row[r] EXCEPT !.status = IF ack[r] = "completed" THEN "completed" ELSE "failed"]
  ELSE row[r]

\* Rows that a dead container had claimed and that do not wait for a retry yet.
Hit(rows) == {r \in Rows : ack[r] = "processing" /\ rows[r].status = "pending" /\ rows[r].due}

\* resetStuckProcessingRows: given up after MAX_TRIES, otherwise due again later.
Reset(rows, lost) ==
  [r \in Rows |-> IF r \in lost THEN [rows[r] EXCEPT !.status = "failed"]
                  ELSE IF r \in Hit(rows) THEN [rows[r] EXCEPT !.due = FALSE]
                  ELSE rows[r]]

Cleared == [r \in Rows |-> IF ack[r] = "processing" THEN "none" ELSE ack[r]]

\* Scheduled runs that failed in a row, as far as this step changes them.
Count(rows) ==
  LET ends(r, s) == row[r].status # s /\ rows[r].status = s
  IN IF \E r \in Rows : ends(r, "completed") THEN 0
     ELSE failures + Cardinality({r \in Rows : ends(r, "failed") /\ ~row[r].byHand})

\* The rows after the check of claims: left alone while a container runs that
\* the sweep does not kill, reset otherwise.
Enforce(rows) ==
  \/ /\ container # "none"
     /\ row' = rows /\ failures' = Count(rows)
     /\ UNCHANGED <<ack, container, deaths>>
  \/ /\ \/ container = "none" /\ deaths' = deaths
        \/ /\ container # "none" /\ deaths < MaxDeaths
           /\ \E r \in Rows : ack[r] = "processing"
           /\ deaths' = deaths + 1
     /\ \E lost \in SUBSET Hit(rows) :
          row' = Reset(rows, lost) /\ failures' = Count(Reset(rows, lost))
     /\ ack' = Cleared /\ container' = "none"

DueIn(rows) == {r \in Rows : rows[r].status = "pending" /\ rows[r].due}

\* The sweep reads the acks and then asks for a container if work is due.
SweepSync ==
  /\ sweep = "idle" /\ ~closed
  /\ LET rows == [r \in Rows |-> Synced(r)]
     IN IF DueIn(rows) # {} /\ container = "none"
        THEN /\ sweep' = "waking"
             /\ row' = rows /\ failures' = Count(rows)
             /\ UNCHANGED <<ack, container, deaths>>
        ELSE sweep' = "rearming" /\ Enforce(rows)
  /\ UNCHANGED <<used, closed, multiplied, commands, hostCrashes>>

\* wakeContainer returns: with a container, whose predecessor's claims are left
\* to it, or without one.
SweepWoken ==
  /\ sweep = "waking" /\ sweep' = "rearming"
  /\ \/ container' = "booting" /\ UNCHANGED <<row, ack, failures, deaths>>
     \/ container = "none" /\ Enforce(row)
  /\ UNCHANGED <<used, closed, multiplied, commands, hostCrashes>>

\* getCompletedRecurring.
Awaiting == {r \in Rows : row[r].status \in {"completed", "failed"} /\ row[r].armed}

\* trailingFailedRuns: the failed rows with no completed one behind them.
Streak ==
  Cardinality({r \in Rows : row[r].status = "failed"
                            /\ \A s \in Rows : s > r => row[s].status # "completed"})

\* Mutant: the pause comes one failure late.
NextStatusLate == IF Streak > PauseCap THEN "paused" ELSE "pending"

NextStatus == IF Streak >= PauseCap THEN "paused" ELSE "pending"

\* Mutant: the recurrence stays on the row that was copied.
RearmedKeeps(copies, cleared) ==
  [r \in Rows |->
     IF r \in used + 1..used + copies
     THEN [status |-> NextStatus, armed |-> TRUE, due |-> FALSE, byHand |-> FALSE]
     ELSE row[r]]

\* insertRecurrence for some rows, clearRecurrence for others.
Rearmed(copies, cleared) ==
  [r \in Rows |->
     IF r \in used + 1..used + copies
     THEN [status |-> NextStatus, armed |-> TRUE, due |-> FALSE, byHand |-> FALSE]
     ELSE IF r \in cleared THEN [row[r] EXCEPT !.armed = FALSE] ELSE row[r]]

\* handleRecurrence has no await: commands see all of it or nothing.
Rearm ==
  /\ sweep = "rearming" /\ sweep' = "closing"
  /\ used + Cardinality(Awaiting) <= MaxRows
  /\ row' = Rearmed(Cardinality(Awaiting), Awaiting)
  /\ used' = used + Cardinality(Awaiting)
  /\ UNCHANGED <<closed, ack, container, failures, multiplied, bounds>>

\* Mutant: the history of the series counts as live.
SpentNever == \A r \in Rows : row[r].status \notin {"pending", "paused", "completed", "failed"}

\* shouldCloseTaskSession, for a session that no container runs.
Spent == \A r \in Rows : ~Live(r)

SweepClose ==
  /\ sweep = "closing" /\ sweep' = "idle"
  /\ closed' = (container = "none" /\ Spent)
  /\ UNCHANGED <<row, used, ack, container, failures, multiplied, bounds>>

-----------------------------------------------------------------------------
(* The death of the host *)

\* The next host starts without containers: orphans are stopped at start-up.
HostDies ==
  /\ hostCrashes < MaxHostCrashes
  /\ hostCrashes' = hostCrashes + 1
  /\ sweep' = "idle" /\ container' = "none"
  /\ UNCHANGED <<closed, ack, failures, commands, deaths>>

HostCrash ==
  /\ HostDies
  /\ UNCHANGED <<row, used, multiplied>>

\* Inside handleRecurrence: some rows are re-armed, and the copy of one more is
\* inserted while its own recurrence is still set.
CrashInRearm ==
  /\ sweep = "rearming"
  /\ HostDies
  /\ \E r \in Awaiting :
       LET before == {q \in Awaiting : q < r}
           copies == Cardinality(before) + 1
       IN /\ used + copies <= MaxRows
          /\ row' = Rearmed(copies, before)
          /\ used' = used + copies
  /\ multiplied' = TRUE

-----------------------------------------------------------------------------

Commands == Pause \/ Resume \/ Cancel \/ Update \/ RunNow \/ Delete

Container ==
  Boot \/ ContainerEnds \/ ContainerDies \/ \E r \in Rows : Claim(r) \/ Finish(r)

Sweep == SweepSync \/ SweepWoken \/ Rearm \/ SweepClose

Next ==
  \/ \E r \in Rows : ComesDue(r)
  \/ Commands \/ Container \/ Sweep
  \/ HostCrash \/ CrashInRearm

Spec == Init /\ [][Next]_vars

(***************************************************************************)
(* The sweep is a timer that reschedules itself, a container that boots or *)
(* runs a row gets on with it, and an idle one is ended by the sweep's     *)
(* ceiling.  Commands, deaths and crashes never have to happen.            *)
(***************************************************************************)
Fairness ==
  /\ WF_vars(Sweep) /\ WF_vars(Boot) /\ WF_vars(ContainerEnds)
  /\ \A r \in Rows : WF_vars(Finish(r))

FairSpec == Spec /\ Fairness

-----------------------------------------------------------------------------
(* Properties *)

Armed == {r \in Rows : row[r].armed /\ row[r].status # "absent"}

\* A series has one schedule: never two rows that recur, so long as the host
\* did not die between insert and clear, and no extra run was made to recur.
\* (handleRecurrence, recurrence.ts; runTaskCommand, tasks.ts)
OneArmed == multiplied \/ \A q, r \in Armed : q = r

\* A series that keeps failing while nobody looks is stopped at the cap.  One
\* more failure is possible: an extra run that succeeded later hides one.
\* (trailingFailedRuns and SCRIPT_FAIL_PAUSE_CAP, recurrence.ts)
FailuresArePaused == multiplied \/ failures <= PauseCap + 1

\* Nothing is left of the series that could run again.
Over == \A r \in Rows : ~Live(r) /\ r \notin Awaiting

\* The series is paused, and nothing of it runs or is about to be re-armed.
Quiet ==
  /\ \E r \in Rows : row[r].status = "paused"
  /\ \A r \in Rows :
       /\ row[r].status # "pending"
       /\ r \notin Awaiting
       /\ row[r].status = "paused" => ack[r] = "none"

\* A series that was paused between two runs stays paused, whatever the sweep,
\* crashes and other commands do, until it is resumed, ended or run by hand.
\* (pauseTask in db.ts, getCompletedRecurring and handleRecurrence)
PauseHolds == [][Quiet /\ ~Resume /\ ~RunNow => Quiet' \/ Over']_vars

\* A series that is cancelled, even in the middle of a run, never comes back,
\* except for a run by hand.
\* (cancelTask clears the recurrence that syncProcessingAcks would revive)
CancelHolds == [][Over /\ ~RunNow => Over']_vars

\* A session is closed only when its series is over: a paused series, one that
\* runs and one that is yet to be re-armed keep theirs.
\* (the order of the steps of sweepSession, host-sweep.ts)
ClosedIsOver == closed => Over

\* The session of a series that stays over is closed.
\* (shouldCloseTaskSession, host-sweep.ts)
SpentSessionsClose == Over ~> closed \/ ~Over

=============================================================================
