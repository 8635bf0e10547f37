-------------------------------- MODULE Host --------------------------------
(***************************************************************************)
(* The life of the host process: the circuit breaker that delays a start   *)
(* after crashes (circuit-breaker.ts, index.ts), and the one alarm that a  *)
(* hosted claw keeps registered with its platform, so that a cell that     *)
(* pauses is resumed for the next due task (durable-wake.ts, called by the *)
(* sweep of host-sweep.ts).                                                *)
(*                                                                         *)
(* The breaker's file and the rows outlive the process, the value that was *)
(* last registered does not, and the alarm is the platform's.              *)
(***************************************************************************)
EXTENDS Integers, Sequences

CONSTANTS
    Schedule,       \* BACKOFF_SCHEDULE_S
    Window,         \* RESET_WINDOW_MS
    MaxTime, MaxStops, MaxEdits, MaxFaults      \* bounds

Times == 0 .. MaxTime
Longest == Schedule[Len(Schedule)]
LastStop == MaxTime - Longest   \* nothing stops later, so that the last delay ends
Dues == 1 .. LastStop
None == MaxTime + 1             \* no file, no value, no alarm, no call
Cleared == 0                    \* '': nothing is scheduled

ASSUME HostAssumption ==
    /\ Schedule \in Seq(Nat) /\ Len(Schedule) > 0
    /\ \A i \in DOMAIN Schedule : Schedule[i] <= Schedule[Len(Schedule)]
    /\ Schedule[Len(Schedule)] < Window
    /\ {Window, MaxTime, MaxStops, MaxEdits, MaxFaults} \subseteq Nat

VARIABLES
    clock,
    proc,           \* "off", "backoff", "up", "stopping" or "asleep" with its cell
    attempt, at,    \* circuit-breaker.json: the attempt, and when it started
    until,          \* the end of the back-off
    due,            \* process_after of the rows that wait for an agent
    idle,           \* no row has changed since the last tick of the sweep
    registered,     \* registeredWakeAt
    call,           \* the request to the platform that is awaited
    landed,         \* the platform has done what it asks
    alarm,          \* the wake the platform has for the cell
    shipped,        \* the platform has the endpoint
    doubt,          \* the last request failed, or was answered 404; history
    storm, began, waited,   \* starts in a row, the last, its delay; history
    stops, edits, faults

breaker == <<attempt, at, until, storm, began, waited>>
wake == <<registered, call, landed, alarm, shipped, doubt>>
work == <<due, idle>>
bounds == <<stops, edits, faults>>
vars == <<clock, proc, breaker, wake, work, bounds>>

TypeOK ==
    /\ clock \in Times
    /\ proc \in {"off", "backoff", "up", "stopping", "asleep"}
    /\ attempt \in 0 .. MaxStops + 1 /\ at \in Times \cup {None} /\ until \in Nat
    /\ attempt = 0 <=> at = None
    /\ due \subseteq Dues /\ idle \in BOOLEAN
    /\ {registered, call} \subseteq Times \cup {None} /\ alarm \in Dues \cup {None}
    /\ proc \notin {"up", "stopping"} => registered = None /\ call = None
    /\ {landed, shipped, doubt} \subseteq BOOLEAN
    /\ storm \in 0 .. MaxStops + 1 /\ began \in Times \cup {None} /\ waited \in Nat
    /\ stops \in 0 .. MaxStops /\ edits \in 0 .. MaxEdits /\ faults \in 0 .. MaxFaults

Init ==
    /\ clock = 0 /\ proc = "off"
    /\ attempt = 0 /\ at = None /\ until = 0
    /\ due = {} /\ idle = FALSE
    /\ registered = None /\ call = None /\ landed = FALSE
    /\ alarm = None /\ shipped \in BOOLEAN /\ doubt = FALSE
    /\ storm = 0 /\ began = None /\ waited = 0
    /\ stops = 0 /\ edits = 0 /\ faults = 0

\* The supervisor starts a process that has stopped at once, and the platform
\* rings on time.
Passes ==
    /\ clock < MaxTime /\ clock' = clock + 1
    /\ proc # "off" /\ alarm > clock
    /\ UNCHANGED <<proc, breaker, wake, work, bounds>>

----------------------------------------------------------------------------
(* Start and stop *)

Lower(a, b) == IF a < b THEN a ELSE b

\* Mutant: the table ends, and so does the delay.
DelayUncapped(n) == IF n <= Len(Schedule) THEN Schedule[n] ELSE 0

\* getDelay
Delay(n) == Schedule[Lower(n, Len(Schedule))]

\* What a start finds in the file: an earlier start that was not followed by
\* a clean stop, and is not too long ago.
Recent(time) == time # None /\ clock - time < Window

\* enforceStartupBackoff: the attempt is on disk before the delay.
Start ==
    /\ proc = "off"
    /\ attempt' = IF Recent(at) THEN attempt + 1 ELSE 1
    /\ at' = clock
    /\ proc' = "backoff" /\ until' = clock + Delay(attempt')
    /\ storm' = IF Recent(began) THEN storm + 1 ELSE 1
    /\ began' = clock
    /\ UNCHANGED <<clock, wake, work, waited, bounds>>

\* main() goes on: databases, adapters, polls, and the first tick of the sweep.
Ready ==
    /\ proc = "backoff" /\ clock >= until
    /\ proc' = "up" /\ waited' = clock - began
    /\ idle' = FALSE
    /\ UNCHANGED <<clock, attempt, at, until, storm, began, wake, due, bounds>>

\* What the process had in memory.
Forgotten == registered' = None /\ call' = None /\ landed' = FALSE

\* The process dies: in the delay, at work, or inside the callbacks of a
\* shutdown.
Crash ==
    /\ proc \in {"backoff", "up", "stopping"} /\ stops < MaxStops /\ clock <= LastStop
    /\ proc' = "off" /\ stops' = stops + 1
    /\ Forgotten
    /\ UNCHANGED <<clock, breaker, alarm, shipped, doubt, work, edits, faults>>

\* SIGTERM or SIGINT, in the delay as well.
Signal ==
    /\ proc \in {"backoff", "up"} /\ stops < MaxStops /\ clock <= LastStop
    /\ proc' = "stopping" /\ stops' = stops + 1
    /\ UNCHANGED <<clock, breaker, wake, work, edits, faults>>

\* resetCircuitBreaker, then exit.
Reset == attempt' = 0 /\ at' = None /\ storm' = 0 /\ began' = None

Stopped ==
    /\ proc = "stopping" /\ proc' = "off"
    /\ Reset /\ Forgotten
    /\ UNCHANGED <<clock, until, waited, alarm, shipped, doubt, work, bounds>>

\* The platform pauses an idle cell: whether the process gets a signal is the
\* platform's business.  The idle time-out is longer than the interval of the
\* sweep and than any delay: a row that was written has been swept.
Pause ==
    /\ proc = "up" /\ idle /\ call = None /\ stops < MaxStops /\ clock <= LastStop
    /\ \A t \in due : t > clock
    /\ proc' = "asleep" /\ stops' = stops + 1
    /\ Reset \/ UNCHANGED <<attempt, at, storm, began>>
    /\ Forgotten
    /\ UNCHANGED <<clock, until, waited, alarm, shipped, doubt, work, edits, faults>>

\* Somebody visits the paused cell, and its service starts again.
Visit ==
    /\ proc = "asleep" /\ clock <= LastStop
    /\ proc' = "off"
    /\ UNCHANGED <<clock, breaker, wake, work, bounds>>

\* The alarm rings.
Rings ==
    /\ alarm <= clock /\ alarm' = None
    /\ proc' = IF proc = "asleep" THEN "off" ELSE proc
    /\ UNCHANGED <<clock, breaker, registered, call, landed, shipped, doubt, work, bounds>>

----------------------------------------------------------------------------
(* Work *)

\* A task is scheduled, cancelled, paused or resumed, or recurs.
Schedules(t) ==
    /\ proc = "up" /\ t > clock /\ edits < MaxEdits
    /\ due' = IF t \in due THEN due \ {t} ELSE due \cup {t}
    /\ idle' = FALSE /\ edits' = edits + 1
    /\ UNCHANGED <<clock, proc, breaker, wake, stops, faults>>

\* Mutant: the latest of the rows.
NextLatest(rows) ==
    IF rows = {} THEN Cleared ELSE CHOOSE t \in rows : \A u \in rows : u <= t

\* computeNextDueTime, over the rows that are due later.
NextDue(rows) ==
    IF rows = {} THEN Cleared ELSE CHOOSE t \in rows : \A u \in rows : t <= u

\* Mutant: the alarm is registered once, at the start.
SweepAtBoot ==
    LET later == {t \in due : t > clock} IN
    /\ proc = "up" /\ call = None
    /\ due' = later
    /\ idle' = TRUE
    /\ call' = IF registered # None THEN None ELSE NextDue(later)
    /\ UNCHANGED <<clock, proc, breaker, registered, landed, alarm, shipped, doubt, bounds>>

\* A tick of the sweep: what is due is run, then refreshDurableWake calls the
\* platform unless the value is the one that is registered.
Sweep ==
    LET later == {t \in due : t > clock} IN
    /\ proc = "up" /\ call = None
    /\ due' = later
    /\ idle' = TRUE
    /\ call' = IF registered = NextDue(later) THEN None ELSE NextDue(later)
    /\ UNCHANGED <<clock, proc, breaker, registered, landed, alarm, shipped, doubt, bounds>>

\* PUT or DELETE takes effect, now or never.
Lands ==
    /\ call # None /\ ~landed /\ shipped
    /\ landed' = TRUE
    /\ alarm' = IF call = Cleared THEN None ELSE call
    /\ UNCHANGED <<clock, proc, breaker, registered, call, shipped, doubt, work, bounds>>

\* 200 after it took effect; 404 where there is no such endpoint yet.
Answered ==
    /\ call # None /\ (landed \/ ~shipped)
    /\ registered' = call
    /\ call' = None /\ landed' = FALSE
    /\ doubt' = ~landed
    /\ UNCHANGED <<clock, proc, breaker, alarm, shipped, work, bounds>>

\* The request fails or times out, before or after it took effect.
Fails ==
    /\ call # None /\ faults < MaxFaults /\ faults' = faults + 1
    /\ call' = None /\ landed' = FALSE
    /\ doubt' = TRUE
    /\ UNCHANGED <<clock, proc, breaker, registered, alarm, shipped, work, stops, edits>>

\* The platform ships the endpoint.
Ships ==
    /\ ~shipped /\ shipped' = TRUE
    /\ UNCHANGED <<clock, proc, breaker, registered, call, landed, alarm, doubt, work, bounds>>

Next ==
    \/ Passes \/ Start \/ Ready \/ Crash \/ Signal \/ Stopped \/ Pause \/ Visit \/ Rings
    \/ \E t \in Dues : Schedules(t)
    \/ Sweep \/ Lands \/ Answered \/ Fails \/ Ships

Spec == Init /\ [][Next]_vars

\* Time passes, the supervisor starts the process, the sweep ticks, the
\* platform answers and rings.
Fairness ==
    /\ WF_vars(Passes) /\ WF_vars(Start) /\ WF_vars(Ready) /\ WF_vars(Stopped)
    /\ WF_vars(Rings) /\ WF_vars(Sweep) /\ WF_vars(Lands) /\ WF_vars(Answered)

FairSpec == Spec /\ Fairness
----------------------------------------------------------------------------

\* A host that comes up after n starts in a row, none stopped cleanly and each
\* within the window of the one before, has waited for the n-th delay of the
\* table, or its last; wherever in its life it was killed.
BackoffHolds ==
    proc = "up" => waited >= Schedule[Lower(storm, Len(Schedule))]

\* The value the host compares with is the alarm the platform has, until it
\* rings, whatever the order of ticks, edits and failing requests.  (A request
\* that failed after it took effect, or a 404, leaves the host in doubt.)
BelievedIsArmed ==
    registered # None /\ call = None /\ ~doubt =>
        IF registered > clock THEN alarm = registered ELSE alarm \in {registered, None}

\* A paused cell is not asleep any more when a row is due, with the same
\* reservation.
NotSleptThrough == proc = "asleep" /\ ~doubt => \A t \in due : t >= clock

\* A task that waits is run at its time, through crashes, delays, pauses and
\* shutdowns, or the host is in doubt about its alarm.
DueRowsRun == \A t \in Dues : t \in due ~> t \notin due \/ doubt

=============================================================================
