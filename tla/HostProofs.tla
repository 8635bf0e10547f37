----------------------------- MODULE HostProofs -----------------------------
(***************************************************************************)
(* Proofs about Host, for any table of delays, window, time and number of  *)
(* stops, edits and failing requests.                                      *)
(***************************************************************************)
EXTENDS Host, FiniteSetTheorems, TLAPS

USE HostAssumption DEF HostAssumption

\* The file counts the starts: one more than the stops at most, and no more
\* than them when the next start is still to come.
Counted ==
  /\ attempt <= stops + 1
  /\ proc \in {"off", "stopping", "asleep"} => attempt <= stops

\* The file is the history: each start is in it before its delay.
Mirrored == storm = attempt /\ began = at /\ (at # None => at <= clock)

Delayed == proc = "backoff" => attempt # 0 /\ until = at + Delay(attempt)

\* What is registered, or on its way, is the time of a row, or nothing.
ValuesOfRows == {registered, call} \subseteq Dues \cup {Cleared, None}

\* The alarm is what `value` says; once that time has come it may have rung.
Fits(value) ==
  IF value > clock THEN alarm = value ELSE alarm \in {value, None}

LandedFits == landed => call # None /\ Fits(call)

\* Until a row changes, the sweep has asked for the earliest one.
SweptIsNext ==
  proc = "up" /\ idle =>
    /\ call # None => call = NextDue(due)
    /\ call = None /\ ~doubt => registered = NextDue(due)

\* A cell that sleeps has an alarm before each of its rows.
AsleepHasAlarm ==
  proc = "asleep" /\ ~doubt => \A t \in due : clock <= alarm /\ alarm <= t

(***************************************************************************)
(* BackoffHolds rests on the file, NotSleptThrough on the value that the   *)
(* host believes, which in turn needs the request that is on its way.      *)
(***************************************************************************)
BreakerInv == Counted /\ Mirrored /\ Delayed /\ BackoffHolds
WakeInv == ValuesOfRows /\ LandedFits /\ BelievedIsArmed /\ SweptIsNext /\ AsleepHasAlarm

IInv == TypeOK /\ BreakerInv /\ WakeInv

-----------------------------------------------------------------------------
(* The constants and the helpers *)

\* getDelay answers with a delay of the table, none longer than the last.
LEMMA DelayBounds ==
  ASSUME NEW n \in Nat, n # 0
  PROVE  Delay(n) \in Nat /\ Delay(n) <= Longest
<1>1. Lower(n, Len(Schedule)) \in DOMAIN Schedule
  BY DEF Lower
<1>2. Len(Schedule) \in DOMAIN Schedule
  OBVIOUS
<1> QED
  BY <1>1, <1>2 DEF Delay, Longest

LEMMA Constants ==
  /\ Longest \in Nat /\ MaxTime \in Nat /\ None \in Nat /\ None > MaxTime
  /\ \A t \in Dues : t \in Nat /\ t > 0 /\ t <= MaxTime
  /\ LastStop \in Int /\ Cleared = 0 /\ Cleared \notin Dues /\ None \notin Dues
<1>1. Longest \in Nat
  <2>1. Len(Schedule) \in DOMAIN Schedule
    OBVIOUS
  <2> QED
    BY <2>1 DEF Longest
<1> QED
  BY <1>1 DEF None, Dues, LastStop, Cleared

\* computeNextDueTime answers with the earliest row.
LEMMA NextDueIsEarliest ==
  ASSUME NEW rows \in SUBSET Dues
  PROVE  /\ rows = {} => NextDue(rows) = Cleared
         /\ rows # {} => /\ NextDue(rows) \in rows
                         /\ \A t \in rows : NextDue(rows) <= t
<1>1. CASE rows = {}
  BY <1>1 DEF NextDue
<1>2. CASE rows # {}
  <2> DEFINE upTo == {1 .. t : t \in rows}
             shorter == StrictSubsetOrdering(Dues)
  <2>1. upTo \subseteq FiniteSubsetsOf(Dues) /\ upTo # {}
    <3>1. \A t \in rows : 1 .. t \in SUBSET Dues /\ IsFiniteSet(1 .. t)
      BY FS_Interval, Constants DEF Dues
    <3> QED
      BY <1>2, <3>1 DEF FiniteSubsetsOf
  <2>2. PICK r \in upTo : \A s \in upTo : <<s, r>> \notin shorter
    <3> HIDE DEF upTo
    <3> QED
      BY <2>1, FS_StrictSubsetOrderingWellFounded, WFMin
  <2>3. PICK t \in rows : r = 1 .. t
    BY <2>2
  <2>4. ASSUME NEW u \in rows, u < t
        PROVE  FALSE
    <3>1. 1 .. u \in SUBSET Dues /\ 1 .. t \in SUBSET Dues
      BY Constants DEF Dues
    <3>2. 1 .. u \subseteq 1 .. t /\ t \in 1 .. t /\ t \notin 1 .. u
      BY <2>4, Constants
    <3>3. <<1 .. u, 1 .. t>> \in shorter
      BY <3>1, <3>2 DEF StrictSubsetOrdering
    <3> QED
      BY <2>2, <2>3, <3>3
  <2>5. \A u \in rows : t <= u
    BY <2>4, Constants
  <2>6. NextDue(rows) = CHOOSE x \in rows : \A u \in rows : x <= u
    BY <1>2 DEF NextDue
  <2> QED
    BY <2>5, <2>6
<1> QED
  BY <1>1, <1>2

-----------------------------------------------------------------------------
(* The types, in three parts: the numbers, what the alarm is made of, flags *)

NumbersOK ==
  /\ clock \in Times /\ proc \in {"off", "backoff", "up", "stopping", "asleep"}
  /\ attempt \in 0 .. MaxStops + 1 /\ at \in Times \cup {None} /\ until \in Nat
  /\ attempt = 0 <=> at = None
  /\ storm \in 0 .. MaxStops + 1 /\ began \in Times \cup {None} /\ waited \in Nat
  /\ stops \in 0 .. MaxStops /\ edits \in 0 .. MaxEdits /\ faults \in 0 .. MaxFaults

AlarmOK ==
  /\ registered \in Times \cup {None} /\ call \in Times \cup {None}
  /\ alarm \in Dues \cup {None} /\ due \subseteq Dues
  /\ proc \notin {"up", "stopping"} => registered = None /\ call = None

FlagsOK ==
  /\ idle \in BOOLEAN /\ landed \in BOOLEAN
  /\ shipped \in BOOLEAN /\ doubt \in BOOLEAN

LEMMA TypeParts == TypeOK <=> NumbersOK /\ AlarmOK /\ FlagsOK
<1>1. TypeOK => NumbersOK
  BY DEF TypeOK, NumbersOK
<1>2. TypeOK => AlarmOK
  BY DEF TypeOK, AlarmOK
<1>3. TypeOK => FlagsOK
  BY Zenon DEF TypeOK, FlagsOK
<1>4. NumbersOK /\ AlarmOK /\ FlagsOK => TypeOK
  <2>1. FlagsOK => idle \in BOOLEAN /\ {landed, shipped, doubt} \subseteq BOOLEAN
    BY Zenon DEF FlagsOK
  <2>2. AlarmOK => {registered, call} \subseteq Times \cup {None}
    BY Zenon DEF AlarmOK
  <2> QED
    BY <2>1, <2>2, Zenon DEF TypeOK, NumbersOK, AlarmOK
<1> QED
  BY <1>1, <1>2, <1>3, <1>4, Zenon

LEMMA InitIInv == Init => IInv
<1> SUFFICES ASSUME Init
             PROVE  IInv
  OBVIOUS
<1>1. NumbersOK
  BY Constants DEF Init, NumbersOK, Times
<1>2. AlarmOK
  BY Constants DEF Init, AlarmOK, Times
<1>3. FlagsOK
  BY Zenon DEF Init, FlagsOK
<1>4. BreakerInv
  BY Constants DEF Init, BreakerInv, Counted, Mirrored, Delayed, BackoffHolds
<1>5. WakeInv
  BY Constants DEF Init, WakeInv, ValuesOfRows, LandedFits, BelievedIsArmed,
                   SweptIsNext, AsleepHasAlarm
<1> QED
  BY <1>1, <1>2, <1>3, <1>4, <1>5, TypeParts, Zenon DEF IInv

LEMMA NumbersStep == IInv /\ [Next]_vars => NumbersOK'
<1> SUFFICES ASSUME IInv, [Next]_vars
             PROVE  NumbersOK'
  OBVIOUS
<1>h. NumbersOK /\ BreakerInv
  BY TypeParts DEF IInv
<1> USE <1>h, Constants DEF NumbersOK, BreakerInv, Counted, Mirrored, Times,
        breaker, wake, work, bounds
<1>0. CASE UNCHANGED vars
  BY <1>0 DEF vars
<1>1. CASE Passes
  BY <1>1 DEF Passes
<1>2. CASE Start
  <2>1. attempt' \in 1 .. MaxStops + 1 /\ storm' \in 1 .. MaxStops + 1
    BY <1>2 DEF Start, Recent
  <2>2. Delay(attempt') \in Nat
    <3>1. attempt' \in Nat /\ attempt' # 0
      BY <2>1
    <3> QED
      BY <3>1, DelayBounds
  <2>3. until' \in Nat
    <3>1. until' = clock + Delay(attempt') /\ clock \in Nat
      BY <1>2 DEF Start
    <3> QED
      BY ONLY <2>2, <3>1
  <2>4. at' \in Times /\ began' \in Times
    BY <1>2 DEF Start
  <2>5. UNCHANGED <<clock, waited, stops, edits, faults>> /\ proc' = "backoff"
    BY <1>2 DEF Start
  <2> QED
    BY <2>1, <2>3, <2>4, <2>5
<1>3. CASE Ready
  <2>1. at # None /\ began = at /\ at <= clock
    BY <1>3 DEF Ready, Delayed
  <2> QED
    BY <1>3, <2>1 DEF Ready
<1>4. CASE Crash
  BY <1>4 DEF Crash, Forgotten
<1>5. CASE Signal
  BY <1>5 DEF Signal
<1>6. CASE Stopped
  BY <1>6 DEF Stopped, Reset, Forgotten
<1>7. CASE Pause
  <2>1. proc' = "asleep" /\ stops' \in 0 .. MaxStops
    BY <1>7 DEF Pause
  <2>2. UNCHANGED <<clock, until, waited, edits, faults>>
    BY <1>7 DEF Pause
  <2>3. CASE Reset
    BY <2>1, <2>2, <2>3 DEF Reset
  <2>4. CASE UNCHANGED <<attempt, at, storm, began>>
    BY <2>1, <2>2, <2>4
  <2> QED
    BY <1>7, <2>3, <2>4 DEF Pause
<1>8. CASE Visit
  BY <1>8 DEF Visit
<1>9. CASE Rings
  BY <1>9 DEF Rings
<1>10. CASE \E t \in Dues : Schedules(t)
  BY <1>10 DEF Schedules
<1>11. CASE Sweep
  BY <1>11 DEF Sweep
<1>12. CASE Lands
  BY <1>12 DEF Lands
<1>13. CASE Answered
  BY <1>13 DEF Answered
<1>14. CASE Fails
  BY <1>14 DEF Fails
<1>15. CASE Ships
  BY <1>15 DEF Ships
<1> QED
  BY <1>0, <1>1, <1>2, <1>3, <1>4, <1>5, <1>6, <1>7, <1>8, <1>9, <1>10,
     <1>11, <1>12, <1>13, <1>14, <1>15 DEF Next

LEMMA AlarmStep == IInv /\ [Next]_vars => AlarmOK'
<1> SUFFICES ASSUME IInv, [Next]_vars
             PROVE  AlarmOK'
  OBVIOUS
<1>h. AlarmOK /\ clock \in Times /\ ValuesOfRows
  BY TypeParts DEF IInv, WakeInv, NumbersOK
<1> USE <1>h, Constants DEF AlarmOK, ValuesOfRows, Times, wake, work, bounds,
        breaker
<1>0. CASE UNCHANGED vars
  BY <1>0 DEF vars
<1>1. CASE Passes
  BY <1>1 DEF Passes
<1>2. CASE Start
  BY <1>2 DEF Start, Recent
<1>3. CASE Ready
  BY <1>3 DEF Ready
<1>4. CASE Crash
  BY <1>4 DEF Crash, Forgotten
<1>5. CASE Signal
  BY <1>5 DEF Signal
<1>6. CASE Stopped
  BY <1>6 DEF Stopped, Reset, Forgotten
<1>7. CASE Pause
  BY <1>7 DEF Pause, Reset, Forgotten
<1>8. CASE Visit
  BY <1>8 DEF Visit
<1>9. CASE Rings
  BY <1>9 DEF Rings
<1>10. CASE \E t \in Dues : Schedules(t)
  BY <1>10 DEF Schedules
<1>11. CASE Sweep
  <2> DEFINE later == {t \in due : t > clock}
  <2>1. later \in SUBSET Dues
    OBVIOUS
  <2>2. NextDue(later) \in Times
    BY <2>1, NextDueIsEarliest
  <2> QED
    BY <1>11, <2>1, <2>2 DEF Sweep
<1>12. CASE Lands
  BY <1>12 DEF Lands
<1>13. CASE Answered
  BY <1>13 DEF Answered
<1>14. CASE Fails
  BY <1>14 DEF Fails
<1>15. CASE Ships
  BY <1>15 DEF Ships
<1> QED
  BY <1>0, <1>1, <1>2, <1>3, <1>4, <1>5, <1>6, <1>7, <1>8, <1>9, <1>10,
     <1>11, <1>12, <1>13, <1>14, <1>15 DEF Next

LEMMA FlagsStep == IInv /\ [Next]_vars => FlagsOK'
<1> SUFFICES ASSUME IInv, [Next]_vars
             PROVE  FlagsOK'
  OBVIOUS
<1>h. FlagsOK
  BY TypeParts DEF IInv
<1> USE <1>h DEF FlagsOK, wake, work, bounds, breaker
<1>0. CASE UNCHANGED vars
  BY <1>0, Zenon DEF vars
<1>1. CASE Passes
  BY <1>1, Zenon DEF Passes
<1>2. CASE Start
  BY <1>2, Zenon DEF Start, Recent
<1>3. CASE Ready
  BY <1>3, Zenon DEF Ready
<1>4. CASE Crash
  BY <1>4, Zenon DEF Crash, Forgotten
<1>5. CASE Signal
  BY <1>5, Zenon DEF Signal
<1>6. CASE Stopped
  BY <1>6, Zenon DEF Stopped, Reset, Forgotten
<1>7. CASE Pause
  BY <1>7, Zenon DEF Pause, Reset, Forgotten
<1>8. CASE Visit
  BY <1>8, Zenon DEF Visit
<1>9. CASE Rings
  BY <1>9, Zenon DEF Rings
<1>10. CASE \E t \in Dues : Schedules(t)
  BY <1>10, Zenon DEF Schedules
<1>11. CASE Sweep
  BY <1>11, Zenon DEF Sweep
<1>12. CASE Lands
  BY <1>12, Zenon DEF Lands
<1>13. CASE Answered
  BY <1>13, Zenon DEF Answered
<1>14. CASE Fails
  BY <1>14, Zenon DEF Fails
<1>15. CASE Ships
  BY <1>15, Zenon DEF Ships
<1> QED
  BY <1>0, <1>1, <1>2, <1>3, <1>4, <1>5, <1>6, <1>7, <1>8, <1>9, <1>10,
     <1>11, <1>12, <1>13, <1>14, <1>15 DEF Next

-----------------------------------------------------------------------------
(* The breaker *)

LEMMA CountedStep == IInv /\ [Next]_vars => Counted'
<1> SUFFICES ASSUME IInv, [Next]_vars
             PROVE  Counted'
  OBVIOUS
<1>h. NumbersOK /\ BreakerInv
  BY TypeParts DEF IInv
<1> USE <1>h, Constants DEF NumbersOK, BreakerInv, Counted, Mirrored, Times,
        breaker, wake, work, bounds
<1>0. CASE UNCHANGED vars
  BY <1>0 DEF vars
<1>1. CASE Passes
  BY <1>1 DEF Passes
<1>2. CASE Start
  BY <1>2 DEF Start, Recent
<1>3. CASE Ready
  BY <1>3 DEF Ready
<1>4. CASE Crash
  BY <1>4 DEF Crash, Forgotten
<1>5. CASE Signal
  BY <1>5 DEF Signal
<1>6. CASE Stopped
  BY <1>6 DEF Stopped, Reset, Forgotten
<1>7. CASE Pause
  BY <1>7 DEF Pause, Reset, Forgotten
<1>8. CASE Visit
  BY <1>8 DEF Visit
<1>9. CASE Rings
  BY <1>9 DEF Rings
<1>10. CASE \E t \in Dues : Schedules(t)
  BY <1>10 DEF Schedules
<1>11. CASE Sweep
  BY <1>11 DEF Sweep
<1>12. CASE Lands
  BY <1>12 DEF Lands
<1>13. CASE Answered
  BY <1>13 DEF Answered
<1>14. CASE Fails
  BY <1>14 DEF Fails
<1>15. CASE Ships
  BY <1>15 DEF Ships
<1> QED
  BY <1>0, <1>1, <1>2, <1>3, <1>4, <1>5, <1>6, <1>7, <1>8, <1>9, <1>10,
     <1>11, <1>12, <1>13, <1>14, <1>15 DEF Next

LEMMA MirroredStep == IInv /\ [Next]_vars => Mirrored'
<1> SUFFICES ASSUME IInv, [Next]_vars
             PROVE  Mirrored'
  OBVIOUS
<1>h. NumbersOK /\ BreakerInv
  BY TypeParts DEF IInv
<1> USE <1>h, Constants DEF NumbersOK, BreakerInv, Mirrored, Times, breaker,
        wake, work, bounds
<1>0. CASE UNCHANGED vars
  BY <1>0 DEF vars
<1>1. CASE Passes
  BY <1>1 DEF Passes
<1>2. CASE Start
  BY <1>2 DEF Start, Recent
<1>3. CASE Ready
  BY <1>3 DEF Ready
<1>4. CASE Crash
  BY <1>4 DEF Crash, Forgotten
<1>5. CASE Signal
  BY <1>5 DEF Signal
<1>6. CASE Stopped
  BY <1>6 DEF Stopped, Reset, Forgotten
<1>7. CASE Pause
  BY <1>7 DEF Pause, Reset, Forgotten
<1>8. CASE Visit
  BY <1>8 DEF Visit
<1>9. CASE Rings
  BY <1>9 DEF Rings
<1>10. CASE \E t \in Dues : Schedules(t)
  BY <1>10 DEF Schedules
<1>11. CASE Sweep
  BY <1>11 DEF Sweep
<1>12. CASE Lands
  BY <1>12 DEF Lands
<1>13. CASE Answered
  BY <1>13 DEF Answered
<1>14. CASE Fails
  BY <1>14 DEF Fails
<1>15. CASE Ships
  BY <1>15 DEF Ships
<1> QED
  BY <1>0, <1>1, <1>2, <1>3, <1>4, <1>5, <1>6, <1>7, <1>8, <1>9, <1>10,
     <1>11, <1>12, <1>13, <1>14, <1>15 DEF Next

LEMMA DelayedStep == IInv /\ [Next]_vars => Delayed'
<1> SUFFICES ASSUME IInv, [Next]_vars
             PROVE  Delayed'
  OBVIOUS
<1>h. NumbersOK /\ BreakerInv
  BY TypeParts DEF IInv
<1> USE <1>h, Constants DEF NumbersOK, BreakerInv, Delayed, Times, breaker,
        wake, work, bounds
<1>0. CASE UNCHANGED vars
  BY <1>0 DEF vars
<1>1. CASE Passes
  BY <1>1 DEF Passes
<1>2. CASE Start
  BY <1>2 DEF Start, Recent
<1>3. CASE Ready
  BY <1>3 DEF Ready
<1>4. CASE Crash
  BY <1>4 DEF Crash, Forgotten
<1>5. CASE Signal
  BY <1>5 DEF Signal
<1>6. CASE Stopped
  BY <1>6 DEF Stopped, Reset, Forgotten
<1>7. CASE Pause
  BY <1>7 DEF Pause, Reset, Forgotten
<1>8. CASE Visit
  BY <1>8 DEF Visit
<1>9. CASE Rings
  BY <1>9 DEF Rings
<1>10. CASE \E t \in Dues : Schedules(t)
  BY <1>10 DEF Schedules
<1>11. CASE Sweep
  BY <1>11 DEF Sweep
<1>12. CASE Lands
  BY <1>12 DEF Lands
<1>13. CASE Answered
  BY <1>13 DEF Answered
<1>14. CASE Fails
  BY <1>14 DEF Fails
<1>15. CASE Ships
  BY <1>15 DEF Ships
<1> QED
  BY <1>0, <1>1, <1>2, <1>3, <1>4, <1>5, <1>6, <1>7, <1>8, <1>9, <1>10,
     <1>11, <1>12, <1>13, <1>14, <1>15 DEF Next

\* BackoffHolds, in the words of getDelay.
Waited == proc = "up" => waited >= Delay(storm)

LEMMA WaitedStep == IInv /\ [Next]_vars => Waited'
<1> SUFFICES ASSUME IInv, [Next]_vars
             PROVE  Waited'
  OBVIOUS
<1>h. NumbersOK /\ BreakerInv
  BY TypeParts DEF IInv
<1> USE <1>h, Constants DEF NumbersOK, BreakerInv, Mirrored, Delayed, Waited,
        Times, breaker, wake, work, bounds
<1>w. Waited
  BY DEF BackoffHolds, Waited, Delay
<1> USE <1>w
<1>0. CASE UNCHANGED vars
  BY <1>0 DEF vars
<1>1. CASE Passes
  BY <1>1 DEF Passes
<1>2. CASE Start
  BY <1>2 DEF Start, Recent
<1>3. CASE Ready
  <2>1. at \in Times /\ until = at + Delay(attempt) /\ clock >= until
    BY <1>3 DEF Ready
  <2>2. Delay(attempt) \in Nat
    BY <1>3, DelayBounds DEF Ready
  <2>3. waited' = clock - at /\ storm' = attempt /\ clock \in Nat /\ at \in Nat
    BY <1>3, <2>1 DEF Ready
  <2>4. waited' >= Delay(storm')
    BY ONLY <2>1, <2>2, <2>3
  <2> QED
    BY <2>4
<1>4. CASE Crash
  BY <1>4 DEF Crash, Forgotten
<1>5. CASE Signal
  BY <1>5 DEF Signal
<1>6. CASE Stopped
  BY <1>6 DEF Stopped, Reset, Forgotten
<1>7. CASE Pause
  BY <1>7 DEF Pause, Reset, Forgotten
<1>8. CASE Visit
  BY <1>8 DEF Visit
<1>9. CASE Rings
  BY <1>9 DEF Rings
<1>10. CASE \E t \in Dues : Schedules(t)
  BY <1>10 DEF Schedules
<1>11. CASE Sweep
  BY <1>11 DEF Sweep
<1>12. CASE Lands
  BY <1>12 DEF Lands
<1>13. CASE Answered
  BY <1>13 DEF Answered
<1>14. CASE Fails
  BY <1>14 DEF Fails
<1>15. CASE Ships
  BY <1>15 DEF Ships
<1> QED
  BY <1>0, <1>1, <1>2, <1>3, <1>4, <1>5, <1>6, <1>7, <1>8, <1>9, <1>10,
     <1>11, <1>12, <1>13, <1>14, <1>15 DEF Next

LEMMA BreakerStep == IInv /\ [Next]_vars => BreakerInv'
<1>1. Waited' => BackoffHolds'
  BY DEF Waited, BackoffHolds, Delay
<1> QED
  BY <1>1, CountedStep, MirroredStep, DelayedStep, WaitedStep DEF BreakerInv

-----------------------------------------------------------------------------
(* The alarm *)

LEMMA ValuesStep == IInv /\ [Next]_vars => ValuesOfRows'
<1> SUFFICES ASSUME IInv, [Next]_vars
             PROVE  ValuesOfRows'
  OBVIOUS
<1>h. AlarmOK /\ FlagsOK /\ clock \in Times /\ WakeInv
  BY TypeParts DEF IInv, NumbersOK
<1> USE <1>h, Constants DEF AlarmOK, WakeInv, ValuesOfRows, Times, wake, work,
        bounds, breaker
<1>0. CASE UNCHANGED vars
  BY <1>0 DEF vars
<1>1. CASE Passes
  BY <1>1 DEF Passes
<1>2. CASE Start
  BY <1>2 DEF Start, Recent
<1>3. CASE Ready
  BY <1>3 DEF Ready
<1>4. CASE Crash
  BY <1>4 DEF Crash, Forgotten
<1>5. CASE Signal
  BY <1>5 DEF Signal
<1>6. CASE Stopped
  BY <1>6 DEF Stopped, Reset, Forgotten
<1>7. CASE Pause
  BY <1>7 DEF Pause, Reset, Forgotten
<1>8. CASE Visit
  BY <1>8 DEF Visit
<1>9. CASE Rings
  BY <1>9 DEF Rings
<1>10. CASE \E t \in Dues : Schedules(t)
  BY <1>10 DEF Schedules
<1>11. CASE Sweep
  <2> DEFINE later == {t \in due : t > clock}
  <2>1. later \in SUBSET Dues
    OBVIOUS
  <2>2. NextDue(later) \in Dues \cup {Cleared}
    BY <2>1, NextDueIsEarliest
  <2> QED
    BY <1>11, <2>1, <2>2 DEF Sweep
<1>12. CASE Lands
  BY <1>12 DEF Lands
<1>13. CASE Answered
  BY <1>13 DEF Answered
<1>14. CASE Fails
  BY <1>14 DEF Fails
<1>15. CASE Ships
  BY <1>15 DEF Ships
<1> QED
  BY <1>0, <1>1, <1>2, <1>3, <1>4, <1>5, <1>6, <1>7, <1>8, <1>9, <1>10,
     <1>11, <1>12, <1>13, <1>14, <1>15 DEF Next

LEMMA LandedStep == IInv /\ [Next]_vars => LandedFits'
<1> SUFFICES ASSUME IInv, [Next]_vars
             PROVE  LandedFits'
  OBVIOUS
<1>h. AlarmOK /\ FlagsOK /\ clock \in Times /\ WakeInv
  BY TypeParts DEF IInv, NumbersOK
<1> USE <1>h, Constants DEF AlarmOK, WakeInv, LandedFits, Fits, ValuesOfRows,
        Times, wake, work, bounds, breaker
<1>0. CASE UNCHANGED vars
  BY <1>0 DEF vars
<1>1. CASE Passes
  BY <1>1 DEF Passes
<1>2. CASE Start
  BY <1>2 DEF Start, Recent
<1>3. CASE Ready
  BY <1>3 DEF Ready
<1>4. CASE Crash
  BY <1>4 DEF Crash, Forgotten
<1>5. CASE Signal
  BY <1>5 DEF Signal
<1>6. CASE Stopped
  BY <1>6 DEF Stopped, Reset, Forgotten
<1>7. CASE Pause
  BY <1>7 DEF Pause, Reset, Forgotten
<1>8. CASE Visit
  BY <1>8 DEF Visit
<1>9. CASE Rings
  BY <1>9 DEF Rings
<1>10. CASE \E t \in Dues : Schedules(t)
  BY <1>10 DEF Schedules
<1>11. CASE Sweep
  BY <1>11 DEF Sweep
<1>12. CASE Lands
  BY <1>12 DEF Lands
<1>13. CASE Answered
  BY <1>13 DEF Answered
<1>14. CASE Fails
  BY <1>14 DEF Fails
<1>15. CASE Ships
  BY <1>15 DEF Ships
<1> QED
  BY <1>0, <1>1, <1>2, <1>3, <1>4, <1>5, <1>6, <1>7, <1>8, <1>9, <1>10,
     <1>11, <1>12, <1>13, <1>14, <1>15 DEF Next

LEMMA BelievedStep == IInv /\ [Next]_vars => BelievedIsArmed'
<1> SUFFICES ASSUME IInv, [Next]_vars
             PROVE  BelievedIsArmed'
  OBVIOUS
<1>h. AlarmOK /\ FlagsOK /\ clock \in Times /\ WakeInv
  BY TypeParts DEF IInv, NumbersOK
<1> USE <1>h, Constants DEF AlarmOK, WakeInv, LandedFits, Fits, ValuesOfRows,
        BelievedIsArmed, Times, wake, work, bounds, breaker
<1>0. CASE UNCHANGED vars
  BY <1>0 DEF vars
<1>1. CASE Passes
  BY <1>1 DEF Passes
<1>2. CASE Start
  BY <1>2 DEF Start, Recent
<1>3. CASE Ready
  BY <1>3 DEF Ready
<1>4. CASE Crash
  BY <1>4 DEF Crash, Forgotten
<1>5. CASE Signal
  BY <1>5 DEF Signal
<1>6. CASE Stopped
  BY <1>6 DEF Stopped, Reset, Forgotten
<1>7. CASE Pause
  BY <1>7 DEF Pause, Reset, Forgotten
<1>8. CASE Visit
  BY <1>8 DEF Visit
<1>9. CASE Rings
  BY <1>9 DEF Rings
<1>10. CASE \E t \in Dues : Schedules(t)
  BY <1>10 DEF Schedules
<1>11. CASE Sweep
  BY <1>11 DEF Sweep
<1>12. CASE Lands
  BY <1>12 DEF Lands
<1>13. CASE Answered
  BY <1>13 DEF Answered
<1>14. CASE Fails
  BY <1>14 DEF Fails
<1>15. CASE Ships
  BY <1>15 DEF Ships
<1> QED
  BY <1>0, <1>1, <1>2, <1>3, <1>4, <1>5, <1>6, <1>7, <1>8, <1>9, <1>10,
     <1>11, <1>12, <1>13, <1>14, <1>15 DEF Next

LEMMA SweptStep == IInv /\ [Next]_vars => SweptIsNext'
<1> SUFFICES ASSUME IInv, [Next]_vars
             PROVE  SweptIsNext'
  OBVIOUS
<1>h. AlarmOK /\ FlagsOK /\ clock \in Times /\ WakeInv
  BY TypeParts DEF IInv, NumbersOK
<1> USE <1>h, Constants DEF AlarmOK, WakeInv, SweptIsNext, Times, wake, work,
        bounds, breaker
<1>0. CASE UNCHANGED vars
  BY <1>0 DEF vars
<1>1. CASE Passes
  BY <1>1 DEF Passes
<1>2. CASE Start
  BY <1>2 DEF Start, Recent
<1>3. CASE Ready
  BY <1>3 DEF Ready
<1>4. CASE Crash
  BY <1>4 DEF Crash, Forgotten
<1>5. CASE Signal
  BY <1>5 DEF Signal
<1>6. CASE Stopped
  BY <1>6 DEF Stopped, Reset, Forgotten
<1>7. CASE Pause
  BY <1>7 DEF Pause, Reset, Forgotten
<1>8. CASE Visit
  BY <1>8 DEF Visit
<1>9. CASE Rings
  BY <1>9 DEF Rings
<1>10. CASE \E t \in Dues : Schedules(t)
  BY <1>10 DEF Schedules
<1>11. CASE Sweep
  <2> DEFINE later == {t \in due : t > clock}
  <2>1. later \in SUBSET Dues
    OBVIOUS
  <2>2. NextDue(later) # None
    BY <2>1, NextDueIsEarliest
  <2>3. due' = later /\ registered' = registered
        /\ call' = IF registered = NextDue(later) THEN None ELSE NextDue(later)
    BY <1>11 DEF Sweep
  <2> HIDE DEF later
  <2> QED
    BY <2>2, <2>3
<1>12. CASE Lands
  BY <1>12 DEF Lands
<1>13. CASE Answered
  BY <1>13 DEF Answered
<1>14. CASE Fails
  BY <1>14 DEF Fails
<1>15. CASE Ships
  BY <1>15 DEF Ships
<1> QED
  BY <1>0, <1>1, <1>2, <1>3, <1>4, <1>5, <1>6, <1>7, <1>8, <1>9, <1>10,
     <1>11, <1>12, <1>13, <1>14, <1>15 DEF Next

LEMMA AsleepStep == IInv /\ [Next]_vars => AsleepHasAlarm'
<1> SUFFICES ASSUME IInv, [Next]_vars
             PROVE  AsleepHasAlarm'
  OBVIOUS
<1>h. AlarmOK /\ FlagsOK /\ clock \in Times /\ WakeInv
  BY TypeParts DEF IInv, NumbersOK
<1> USE <1>h, Constants DEF AlarmOK, WakeInv, SweptIsNext, ValuesOfRows,
        BelievedIsArmed, AsleepHasAlarm, Times, wake, work, bounds, breaker
<1>0. CASE UNCHANGED vars
  BY <1>0 DEF vars
<1>1. CASE Passes
  BY <1>1 DEF Passes
<1>2. CASE Start
  BY <1>2 DEF Start, Recent
<1>3. CASE Ready
  BY <1>3 DEF Ready
<1>4. CASE Crash
  BY <1>4 DEF Crash, Forgotten
<1>5. CASE Signal
  BY <1>5 DEF Signal
<1>6. CASE Stopped
  BY <1>6 DEF Stopped, Reset, Forgotten
<1>7. CASE Pause
  <2>1. due \in SUBSET Dues
    OBVIOUS
  <2>2. CASE due = {}
    BY <1>7, <2>2 DEF Pause
  <2>3. CASE due # {} /\ ~doubt
    <3>1. registered = NextDue(due) /\ NextDue(due) \in due
      BY <1>7, <2>1, <2>3, NextDueIsEarliest DEF Pause
    <3>2. \A t \in due : registered > clock /\ registered <= t
      BY <1>7, <2>1, <3>1, NextDueIsEarliest DEF Pause
    <3>3. alarm = registered
      BY <1>7, <2>3, <3>1, <3>2 DEF Pause
    <3> QED
      BY <1>7, <3>2, <3>3 DEF Pause
  <2>4. CASE doubt
    BY <1>7, <2>4 DEF Pause
  <2> QED
    BY <2>2, <2>3, <2>4
<1>8. CASE Visit
  BY <1>8 DEF Visit
<1>9. CASE Rings
  BY <1>9 DEF Rings
<1>10. CASE \E t \in Dues : Schedules(t)
  BY <1>10 DEF Schedules
<1>11. CASE Sweep
  BY <1>11 DEF Sweep
<1>12. CASE Lands
  BY <1>12 DEF Lands
<1>13. CASE Answered
  BY <1>13 DEF Answered
<1>14. CASE Fails
  BY <1>14 DEF Fails
<1>15. CASE Ships
  BY <1>15 DEF Ships
<1> QED
  BY <1>0, <1>1, <1>2, <1>3, <1>4, <1>5, <1>6, <1>7, <1>8, <1>9, <1>10,
     <1>11, <1>12, <1>13, <1>14, <1>15 DEF Next

LEMMA WakeStep == IInv /\ [Next]_vars => WakeInv'
BY ValuesStep, LandedStep, BelievedStep, SweptStep, AsleepStep DEF WakeInv

LEMMA StepIInv == IInv /\ [Next]_vars => IInv'
<1>1. (NumbersOK' /\ AlarmOK' /\ FlagsOK') => TypeOK'
  BY TypeParts, PTL
<1> QED
  BY <1>1, NumbersStep, AlarmStep, FlagsStep, BreakerStep, WakeStep, Zenon DEF IInv

-----------------------------------------------------------------------------
(* The theorems *)

LEMMA Invariant == Spec => []IInv
BY InitIInv, StepIInv, PTL DEF Spec

\* Every variable keeps its type: the attempts are bounded by the stops, and a
\* process that is not up has no value and no request in memory.
THEOREM HostTypeCorrect == Spec => []TypeOK
<1>1. IInv => TypeOK
  BY DEF IInv
<1> QED
  BY <1>1, Invariant, PTL

\* A host that comes up has waited as long as the table asks of the starts
\* that its crashes left in the file, wherever it was killed.
\* (enforceStartupBackoff)
THEOREM BackoffIsKept == Spec => []BackoffHolds
<1>1. IInv => BackoffHolds
  BY DEF IInv, BreakerInv
<1> QED
  BY <1>1, Invariant, PTL

\* The value with which refreshDurableWake compares is the alarm that the
\* platform has, or the host is in doubt.
THEOREM AlarmIsBelieved == Spec => []BelievedIsArmed
<1>1. IInv => BelievedIsArmed
  BY DEF IInv, WakeInv
<1> QED
  BY <1>1, Invariant, PTL

\* A cell does not sleep past a row, for any number of pauses, edits, ticks
\* and failing requests.
\* (computeNextDueTime, refreshDurableWake)
THEOREM NobodySleepsThrough == Spec => []NotSleptThrough
<1>1. IInv => NotSleptThrough
  <2> SUFFICES ASSUME IInv, proc = "asleep", ~doubt, NEW t \in due
               PROVE  t >= clock
    BY DEF NotSleptThrough
  <2>1. clock <= alarm /\ alarm <= t
    BY DEF IInv, WakeInv, AsleepHasAlarm
  <2>2. NumbersOK /\ AlarmOK
    BY TypeParts DEF IInv
  <2>3. clock \in Nat
    BY <2>2 DEF NumbersOK, Times
  <2>4. t \in Nat /\ alarm \in Nat
    BY <2>2, Constants DEF AlarmOK
  <2> QED
    BY <2>1, <2>3, <2>4
<1> QED
  BY <1>1, Invariant, PTL

=============================================================================
