------------------------- MODULE SeriesSkillsProofs -------------------------
(***************************************************************************)
(* Proofs about Series, for any number of rows, commands, deaths, crashes  *)
(* and any cap on failures, and about Skills, for any script, answers,     *)
(* things of the operator, and number of runs and faults.                  *)
(***************************************************************************)
EXTENDS Series, Skills, FiniteSetTheorems, TLAPS

USE SeriesAssumption DEF Rows, Statuses, Occurrence

\* A session that was closed is not swept.
ClosedIsIdle == closed => sweep = "idle"

\* Once the sweep has re-armed the series, nothing awaits that until its next
\* look at the acks.
RearmedIsDone == sweep = "closing" => Awaiting = {}

\* The sync may turn a cancelled row into a completed one: it must not recur.
CancelledAreUnarmed == \A r \in Rows : row[r].status = "cancelled" => ~row[r].armed

\* A scheduled run that has no result yet; a cancelled one may still get one.
Unconcluded(r) == (Live(r) \/ row[r].status = "cancelled") /\ ~row[r].byHand

(***************************************************************************)
(* OneArmed is not inductive: an update arms a row that did not recur      *)
(* before.  What there is one of is a row that the schedule made and that  *)
(* has no result yet, or that recurs.                                      *)
(***************************************************************************)
Scheduled(r) == row[r].armed \/ Unconcluded(r)

OneSchedule == multiplied \/ \A q, r \in Rows : Scheduled(q) /\ Scheduled(r) => q = r

IInv ==
  /\ TypeOK /\ ClosedIsIdle /\ RearmedIsDone /\ CancelledAreUnarmed
  /\ OneSchedule /\ ClosedIsOver

-----------------------------------------------------------------------------
(* What the steps are built from *)

LEMMA RowsFinite == IsFiniteSet(Rows)
BY FS_Interval DEF Rows

LEMMA CountsAreNat ==
  ASSUME NEW X \in SUBSET Rows
  PROVE  IsFiniteSet(X) /\ Cardinality(X) \in Nat
BY RowsFinite, FS_Subset, FS_CardinalityType

LEMMA AwaitingCount ==
  ASSUME TypeOK
  PROVE  /\ Cardinality(Awaiting) \in Nat
         /\ Awaiting = {} => Cardinality(Awaiting) = 0
         /\ Cardinality(Awaiting) = 0 => Awaiting = {}
<1>1. Awaiting \in SUBSET Rows
  BY DEF Awaiting
<1> QED
  BY <1>1, CountsAreNat, FS_EmptySet

\* With one schedule, at most one row awaits its copy.
LEMMA AwaitingAtMostOne ==
  ASSUME TypeOK, OneSchedule, ~multiplied, NEW r \in Awaiting
  PROVE  Awaiting = {r} /\ Cardinality(Awaiting) = 1
<1>1. Awaiting = {r}
  BY DEF Awaiting, OneSchedule, Scheduled
<1> QED
  BY <1>1, FS_Singleton

LEMMA CountType ==
  ASSUME TypeOK, NEW rows
  PROVE  Count(rows) \in Nat
<1> DEFINE F == {r \in Rows : (row[r].status # "failed" /\ rows[r].status = "failed") /\ ~row[r].byHand}
<1>1. Cardinality(F) \in Nat
  BY CountsAreNat
<1> QED
  BY <1>1 DEF Count, TypeOK

\* A step of the sweep before the re-arming concludes rows, and changes nothing
\* of them but their status and their time.
SweptRows(rows) ==
  /\ rows \in [Rows -> Occurrence]
  /\ \A r \in Rows :
       /\ rows[r].armed = row[r].armed /\ rows[r].byHand = row[r].byHand
       /\ \/ rows[r].status = row[r].status
          \/ rows[r].status \in {"completed", "failed"} /\ row[r].status # "absent"

\* The acks end as they were, or without the claims.
SweptAcks == ack' = ack \/ ack' = Cleared

LEMMA SyncedRows ==
  ASSUME TypeOK
  PROVE  SweptRows([r \in Rows |-> Synced(r)])
BY DEF SweptRows, Synced, Exists, TypeOK

LEMMA ResetRows ==
  ASSUME NEW rows, SweptRows(rows), NEW lost \in SUBSET Hit(rows)
  PROVE  SweptRows(Reset(rows, lost))
<1>1. \A r \in Hit(rows) : rows[r].status = "pending" /\ r \in Rows
  BY DEF Hit
<1>2. Reset(rows, lost) \in [Rows -> Occurrence]
  BY DEF SweptRows, Reset
<1>3. ASSUME NEW r \in Rows
      PROVE  /\ Reset(rows, lost)[r].armed = row[r].armed
             /\ Reset(rows, lost)[r].byHand = row[r].byHand
             /\ \/ Reset(rows, lost)[r].status = row[r].status
                \/ /\ Reset(rows, lost)[r].status \in {"completed", "failed"}
                   /\ row[r].status # "absent"
  BY <1>1 DEF SweptRows, Reset
<1> QED
  BY <1>2, <1>3 DEF SweptRows

LEMMA EnforceRows ==
  ASSUME TypeOK, NEW rows, SweptRows(rows), Enforce(rows)
  PROVE  /\ SweptRows(row') /\ failures' \in Nat /\ SweptAcks
         /\ container' \in {container, "none"} /\ deaths' \in Nat
<1>1. CASE row' = rows /\ failures' = Count(rows) /\ UNCHANGED <<ack, container, deaths>>
  BY <1>1, CountType DEF SweptAcks, TypeOK
<1>2. CASE /\ deaths' \in {deaths, deaths + 1}
           /\ \E lost \in SUBSET Hit(rows) :
                row' = Reset(rows, lost) /\ failures' = Count(Reset(rows, lost))
           /\ ack' = Cleared /\ container' = "none"
  BY <1>2, ResetRows, CountType DEF SweptAcks, TypeOK
<1> QED
  BY <1>1, <1>2 DEF Enforce

\* The steps of the sweep that look at acks and claims.
SweepLooks == SweepSync \/ SweepWoken

LEMMA SweepRows ==
  ASSUME TypeOK, SweepLooks
  PROVE  /\ SweptRows(row') /\ failures' \in Nat /\ SweptAcks
         /\ container' \in {container, "none", "booting"} /\ deaths' \in Nat
         /\ sweep' \in {"waking", "rearming"} /\ (sweep = "idle" => ~closed)
         /\ UNCHANGED <<used, closed, multiplied, commands, hostCrashes>>
<1>1. SweptRows(row)
  BY DEF SweptRows, TypeOK
<1>2. CASE SweepSync
  <2> DEFINE rows == [r \in Rows |-> Synced(r)]
  <2>1. SweptRows(rows)
    BY SyncedRows
  <2>2. CASE /\ sweep' = "waking" /\ row' = rows /\ failures' = Count(rows)
             /\ UNCHANGED <<ack, container, deaths>>
    BY <1>2, <2>1, <2>2, CountType DEF SweepSync, SweptAcks, TypeOK
  <2>3. CASE sweep' = "rearming" /\ Enforce(rows)
    <3> HIDE DEF rows
    <3> QED
      BY <1>2, <2>1, <2>3, EnforceRows DEF SweepSync
  <2> QED
    BY <1>2, <2>2, <2>3 DEF SweepSync
<1>3. CASE SweepWoken
  <2>1. CASE container' = "booting" /\ UNCHANGED <<row, ack, failures, deaths>>
    BY <1>1, <1>3, <2>1 DEF SweepWoken, SweptAcks, TypeOK
  <2>2. CASE Enforce(row)
    BY <1>1, <1>3, <2>2, EnforceRows DEF SweepWoken
  <2> QED
    BY <1>3, <2>1, <2>2 DEF SweepWoken
<1> QED
  BY <1>2, <1>3 DEF SweepLooks

LEMMA RearmedType ==
  ASSUME TypeOK, NEW copies, NEW cleared
  PROVE  Rearmed(copies, cleared) \in [Rows -> Occurrence]
BY DEF Rearmed, NextStatus, TypeOK

\* An update sets a recurrence and a time for every live row.
LEMMA UpdateRows ==
  ASSUME TypeOK, Update
  PROVE  \E a, d \in [Rows -> BOOLEAN] :
           /\ row' = [r \in Rows |-> IF Live(r) THEN Updated(row[r], a[r], d[r]) ELSE row[r]]
           /\ multiplied' = (multiplied \/ \E r \in Rows : Live(r) /\ row[r].byHand /\ a[r])
<1>1. PICK rec, after \in {"kept", "set", "cleared"} :
        /\ row' = [r \in Rows |->
                    IF Live(r)
                    THEN Updated(row[r], IF rec = "kept" THEN row[r].armed ELSE rec = "set",
                                         IF after = "kept" THEN row[r].due ELSE after = "set")
                    ELSE row[r]]
        /\ multiplied' = (multiplied \/ \E r \in Rows :
                             /\ Live(r) /\ row[r].byHand
                             /\ IF rec = "kept" THEN row[r].armed ELSE rec = "set")
  BY DEF Update
<1> DEFINE a == [r \in Rows |-> IF rec = "kept" THEN row[r].armed ELSE rec = "set"]
           d == [r \in Rows |-> IF after = "kept" THEN row[r].due ELSE after = "set"]
<1>2. a \in [Rows -> BOOLEAN] /\ d \in [Rows -> BOOLEAN]
  BY DEF TypeOK
<1>3. row' = [r \in Rows |-> IF Live(r) THEN Updated(row[r], a[r], d[r]) ELSE row[r]]
  BY <1>1
<1>4. multiplied' = (multiplied \/ \E r \in Rows : Live(r) /\ row[r].byHand /\ a[r])
  BY <1>1
<1> HIDE DEF a, d
<1> QED
  BY <1>2, <1>3, <1>4, Zenon

LEMMA UpdateKeeps ==
  ASSUME TypeOK, Update
  PROVE  /\ row' \in [Rows -> Occurrence]
         /\ \A r \in Rows :
              /\ row'[r].status = row[r].status /\ row'[r].byHand = row[r].byHand
              /\ ~Live(r) => row'[r] = row[r]
         /\ multiplied' \in BOOLEAN
<1>1. PICK a, d \in [Rows -> BOOLEAN] :
        /\ row' = [r \in Rows |-> IF Live(r) THEN Updated(row[r], a[r], d[r]) ELSE row[r]]
        /\ multiplied' = (multiplied \/ \E r \in Rows : Live(r) /\ row[r].byHand /\ a[r])
  BY UpdateRows
<1>2. ASSUME NEW r \in Rows
      PROVE  /\ row'[r] \in Occurrence
             /\ row'[r].status = row[r].status /\ row'[r].byHand = row[r].byHand
             /\ ~Live(r) => row'[r] = row[r]
  BY <1>1 DEF Updated, TypeOK
<1>3. multiplied' \in BOOLEAN
  BY <1>1 DEF TypeOK
<1>4. row' \in [Rows -> Occurrence]
  <2>1. row' = [r \in Rows |-> row'[r]]
    BY <1>1
  <2> QED
    BY <1>2, <2>1
<1> QED
  BY <1>2, <1>3, <1>4

-----------------------------------------------------------------------------
(* The inductive invariant *)

LEMMA InitIInv == Init => IInv
<1> SUFFICES ASSUME Init PROVE IInv
  OBVIOUS
<1>1. TypeOK
  <2>1. PICK s \in {"pending", "paused"}, a \in BOOLEAN, d \in BOOLEAN :
          row = [r \in Rows |->
                   IF r = 1 THEN [status |-> s, armed |-> a, due |-> d, byHand |-> FALSE]
                            ELSE Absent]
    BY DEF Init
  <2>2. row \in [Rows -> Occurrence]
    BY <2>1 DEF Absent
  <2>3. used \in 0..MaxRows
    BY DEF Init
  <2>4. /\ ack \in [Rows -> {"none", "processing", "completed", "error"}]
        /\ closed \in BOOLEAN /\ multiplied \in BOOLEAN
    BY DEF Init
  <2>5. /\ container = "none" /\ sweep = "idle"
        /\ failures = 0 /\ commands = 0 /\ deaths = 0 /\ hostCrashes = 0
    BY DEF Init
  <2> QED
    BY <2>2, <2>3, <2>4, <2>5 DEF TypeOK
<1>2. ClosedIsIdle /\ RearmedIsDone /\ ClosedIsOver
  BY DEF Init, ClosedIsIdle, RearmedIsDone, ClosedIsOver
<1>3. CancelledAreUnarmed
  BY DEF Init, CancelledAreUnarmed, Absent
<1>4. OneSchedule
  BY DEF Init, OneSchedule, Scheduled, Unconcluded, Live, Absent
<1> QED
  BY <1>1, <1>2, <1>3, <1>4 DEF IInv

LEMMA TypeStep ==
  ASSUME TypeOK, [Next]_vars
  PROVE  TypeOK'
<1>1. ASSUME NEW r \in Rows, ComesDue(r) PROVE TypeOK'
  BY <1>1 DEF ComesDue, database, bounds, TypeOK
<1>2. ASSUME Pause PROVE TypeOK'
  <2>0. \A r \in Rows : [row[r] EXCEPT !.status = "paused"] \in Occurrence
    BY DEF TypeOK
  <2>1. row' \in [Rows -> Occurrence]
    BY <1>2, <2>0 DEF Pause, TypeOK
  <2> QED
    BY <1>2, <2>1 DEF Pause, Resume, Cancel, Command, TypeOK
<1>3. ASSUME Resume PROVE TypeOK'
  <2>0. \A r \in Rows : [row[r] EXCEPT !.status = "pending"] \in Occurrence
    BY DEF TypeOK
  <2>1. row' \in [Rows -> Occurrence]
    BY <1>3, <2>0 DEF Resume, TypeOK
  <2> QED
    BY <1>3, <2>1 DEF Pause, Resume, Cancel, Command, TypeOK
<1>4. ASSUME Cancel PROVE TypeOK'
  <2>1. row' \in [Rows -> Occurrence]
    BY <1>4 DEF Cancel, Cancelled, TypeOK
  <2> QED
    BY <1>4, <2>1 DEF Pause, Resume, Cancel, Command, TypeOK
<1>5. ASSUME Update PROVE TypeOK'
  BY <1>5, UpdateKeeps DEF Update, Command, TypeOK
<1>6. ASSUME RunNow PROVE TypeOK'
  BY <1>6 DEF RunNow, Command, database, bounds, TypeOK
<1>7. ASSUME Delete PROVE TypeOK'
  BY <1>7 DEF Delete, Absent, Command, database, bounds, TypeOK
<1>8. ASSUME Boot PROVE TypeOK'
  BY <1>8 DEF Boot, database, bounds, TypeOK
<1>9. ASSUME ContainerEnds PROVE TypeOK'
  BY <1>9 DEF ContainerEnds, database, bounds, TypeOK
<1>10. ASSUME ContainerDies PROVE TypeOK'
  BY <1>10 DEF ContainerDies, database, bounds, TypeOK
<1>11. ASSUME NEW r \in Rows, Claim(r) PROVE TypeOK'
  BY <1>11 DEF Claim, database, bounds, TypeOK
<1>12. ASSUME NEW r \in Rows, Finish(r) PROVE TypeOK'
  BY <1>12 DEF Finish, database, bounds, TypeOK
<1>13. ASSUME SweepLooks PROVE TypeOK'
  <2>1. SweptRows(row') /\ SweptAcks
    BY <1>13, SweepRows
  <2>2. row' \in [Rows -> Occurrence]
    BY <2>1 DEF SweptRows
  <2>3. ack' \in [Rows -> {"none", "processing", "completed", "error"}]
    BY <2>1 DEF SweptAcks, Cleared, TypeOK
  <2> QED
    BY <1>13, <2>2, <2>3, SweepRows DEF TypeOK
<1>14. ASSUME Rearm PROVE TypeOK'
  <2>1. row' \in [Rows -> Occurrence]
    BY <1>14, RearmedType DEF Rearm
  <2>2. used' \in 0..MaxRows
    BY <1>14, AwaitingCount DEF Rearm, TypeOK
  <2> QED
    BY <1>14, <2>1, <2>2 DEF Rearm, bounds, TypeOK
<1>15. ASSUME SweepClose PROVE TypeOK'
  BY <1>15 DEF SweepClose, database, bounds, TypeOK
<1>16. ASSUME HostCrash PROVE TypeOK'
  BY <1>16 DEF HostCrash, HostDies, database, bounds, TypeOK
<1>17. ASSUME CrashInRearm PROVE TypeOK'
  <2>1. PICK r \in Awaiting :
          /\ used + (Cardinality({q \in Awaiting : q < r}) + 1) <= MaxRows
          /\ row' = Rearmed(Cardinality({q \in Awaiting : q < r}) + 1, {q \in Awaiting : q < r})
          /\ used' = used + (Cardinality({q \in Awaiting : q < r}) + 1)
    BY <1>17 DEF CrashInRearm
  <2>2. Cardinality({q \in Awaiting : q < r}) \in Nat
    BY CountsAreNat DEF Awaiting
  <2>3. row' \in [Rows -> Occurrence]
    BY <2>1, RearmedType
  <2>4. used' \in 0..MaxRows
    BY <2>1, <2>2 DEF TypeOK
  <2> QED
    BY <1>17, <2>3, <2>4 DEF CrashInRearm, HostDies, TypeOK
<1>18. ASSUME UNCHANGED vars PROVE TypeOK'
  BY <1>18 DEF vars, database, bounds, TypeOK
<1> QED
  BY <1>1, <1>2, <1>3, <1>4, <1>5, <1>6, <1>7, <1>8, <1>9, <1>10, <1>11, <1>12, <1>13, <1>14, <1>15, <1>16, <1>17, <1>18 DEF Next, Commands, Container, Sweep, SweepLooks

LEMMA ClosedIsIdleStep ==
  ASSUME ClosedIsIdle, [Next]_vars
  PROVE  ClosedIsIdle'
<1>1. ASSUME NEW r \in Rows, ComesDue(r) PROVE ClosedIsIdle'
  BY <1>1 DEF ComesDue, database, bounds, ClosedIsIdle
<1>2. ASSUME Pause PROVE ClosedIsIdle'
  BY <1>2 DEF Pause, Command, database, bounds, ClosedIsIdle
<1>3. ASSUME Resume PROVE ClosedIsIdle'
  BY <1>3 DEF Resume, Command, database, bounds, ClosedIsIdle
<1>4. ASSUME Cancel PROVE ClosedIsIdle'
  BY <1>4 DEF Cancel, Cancelled, Command, database, bounds, ClosedIsIdle
<1>5. ASSUME Update PROVE ClosedIsIdle'
  BY <1>5 DEF Update, Updated, Command, database, bounds, ClosedIsIdle
<1>6. ASSUME RunNow PROVE ClosedIsIdle'
  BY <1>6 DEF RunNow, Command, database, bounds, ClosedIsIdle
<1>7. ASSUME Delete PROVE ClosedIsIdle'
  BY <1>7 DEF Delete, Absent, Command, database, bounds, ClosedIsIdle
<1>8. ASSUME Boot PROVE ClosedIsIdle'
  BY <1>8 DEF Boot, database, bounds, ClosedIsIdle
<1>9. ASSUME ContainerEnds PROVE ClosedIsIdle'
  BY <1>9 DEF ContainerEnds, database, bounds, ClosedIsIdle
<1>10. ASSUME ContainerDies PROVE ClosedIsIdle'
  BY <1>10 DEF ContainerDies, database, bounds, ClosedIsIdle
<1>11. ASSUME NEW r \in Rows, Claim(r) PROVE ClosedIsIdle'
  BY <1>11 DEF Claim, database, bounds, ClosedIsIdle
<1>12. ASSUME NEW r \in Rows, Finish(r) PROVE ClosedIsIdle'
  BY <1>12 DEF Finish, database, bounds, ClosedIsIdle
<1>13. ASSUME SweepLooks PROVE ClosedIsIdle'
  BY <1>13 DEF SweepLooks, SweepSync, SweepWoken, ClosedIsIdle
<1>14. ASSUME Rearm PROVE ClosedIsIdle'
  BY <1>14 DEF Rearm, database, bounds, ClosedIsIdle
<1>15. ASSUME SweepClose PROVE ClosedIsIdle'
  BY <1>15 DEF SweepClose, database, bounds, ClosedIsIdle
<1>16. ASSUME HostCrash PROVE ClosedIsIdle'
  BY <1>16 DEF HostCrash, HostDies, database, bounds, ClosedIsIdle
<1>17. ASSUME CrashInRearm PROVE ClosedIsIdle'
  BY <1>17 DEF CrashInRearm, HostDies, database, bounds, ClosedIsIdle
<1>18. ASSUME UNCHANGED vars PROVE ClosedIsIdle'
  BY <1>18 DEF vars, database, bounds, ClosedIsIdle
<1> QED
  BY <1>1, <1>2, <1>3, <1>4, <1>5, <1>6, <1>7, <1>8, <1>9, <1>10, <1>11, <1>12, <1>13, <1>14, <1>15, <1>16, <1>17, <1>18 DEF Next, Commands, Container, Sweep, SweepLooks

LEMMA RearmedIsDoneStep ==
  ASSUME TypeOK, RearmedIsDone, [Next]_vars
  PROVE  RearmedIsDone'
<1>1. ASSUME NEW r \in Rows, ComesDue(r) PROVE RearmedIsDone'
  BY <1>1 DEF ComesDue, database, bounds, RearmedIsDone, Awaiting, Live, TypeOK
<1>2. ASSUME Pause PROVE RearmedIsDone'
  BY <1>2 DEF Pause, Command, database, bounds, RearmedIsDone, Awaiting, Live, TypeOK
<1>3. ASSUME Resume PROVE RearmedIsDone'
  BY <1>3 DEF Resume, Command, database, bounds, RearmedIsDone, Awaiting, Live, TypeOK
<1>4. ASSUME Cancel PROVE RearmedIsDone'
  BY <1>4 DEF Cancel, Cancelled, Command, database, bounds, RearmedIsDone, Awaiting, Live, TypeOK
<1>5. ASSUME Update PROVE RearmedIsDone'
  BY <1>5, UpdateKeeps DEF Update, Command, RearmedIsDone, Awaiting, Live
<1>6. ASSUME RunNow PROVE RearmedIsDone'
  BY <1>6 DEF RunNow, Command, database, bounds, RearmedIsDone, Awaiting, Live, TypeOK
<1>7. ASSUME Delete PROVE RearmedIsDone'
  BY <1>7 DEF Delete, Absent, Command, database, bounds, RearmedIsDone, Awaiting, Live, TypeOK
<1>8. ASSUME Boot PROVE RearmedIsDone'
  BY <1>8 DEF Boot, database, bounds, RearmedIsDone, Awaiting, Live, TypeOK
<1>9. ASSUME ContainerEnds PROVE RearmedIsDone'
  BY <1>9 DEF ContainerEnds, database, bounds, RearmedIsDone, Awaiting, Live, TypeOK
<1>10. ASSUME ContainerDies PROVE RearmedIsDone'
  BY <1>10 DEF ContainerDies, database, bounds, RearmedIsDone, Awaiting, Live, TypeOK
<1>11. ASSUME NEW r \in Rows, Claim(r) PROVE RearmedIsDone'
  BY <1>11 DEF Claim, database, bounds, RearmedIsDone, Awaiting, Live, TypeOK
<1>12. ASSUME NEW r \in Rows, Finish(r) PROVE RearmedIsDone'
  BY <1>12 DEF Finish, database, bounds, RearmedIsDone, Awaiting, Live, TypeOK
<1>13. ASSUME SweepLooks PROVE RearmedIsDone'
  BY <1>13, SweepRows DEF RearmedIsDone
<1>14. ASSUME Rearm PROVE RearmedIsDone'
  <2>1. \A r \in Rows : row'[r].status \in {"completed", "failed"} => ~row'[r].armed
    BY <1>14 DEF Rearm, Rearmed, NextStatus, Awaiting, TypeOK
  <2> QED
    BY <2>1 DEF RearmedIsDone, Awaiting
<1>15. ASSUME SweepClose PROVE RearmedIsDone'
  BY <1>15 DEF SweepClose, database, bounds, RearmedIsDone, Awaiting, Live, TypeOK
<1>16. ASSUME HostCrash PROVE RearmedIsDone'
  BY <1>16 DEF HostCrash, HostDies, database, bounds, RearmedIsDone, Awaiting, Live, TypeOK
<1>17. ASSUME CrashInRearm PROVE RearmedIsDone'
  BY <1>17 DEF CrashInRearm, HostDies, database, bounds, RearmedIsDone, Awaiting, Live, TypeOK
<1>18. ASSUME UNCHANGED vars PROVE RearmedIsDone'
  BY <1>18 DEF vars, database, bounds, RearmedIsDone, Awaiting, Live, TypeOK
<1> QED
  BY <1>1, <1>2, <1>3, <1>4, <1>5, <1>6, <1>7, <1>8, <1>9, <1>10, <1>11, <1>12, <1>13, <1>14, <1>15, <1>16, <1>17, <1>18 DEF Next, Commands, Container, Sweep, SweepLooks

LEMMA CancelledStep ==
  ASSUME TypeOK, CancelledAreUnarmed, [Next]_vars
  PROVE  CancelledAreUnarmed'
<1>1. ASSUME NEW r \in Rows, ComesDue(r) PROVE CancelledAreUnarmed'
  BY <1>1 DEF ComesDue, database, bounds, CancelledAreUnarmed, Live, TypeOK
<1>2. ASSUME Pause PROVE CancelledAreUnarmed'
  BY <1>2 DEF Pause, Command, database, bounds, CancelledAreUnarmed, Live, TypeOK
<1>3. ASSUME Resume PROVE CancelledAreUnarmed'
  BY <1>3 DEF Resume, Command, database, bounds, CancelledAreUnarmed, Live, TypeOK
<1>4. ASSUME Cancel PROVE CancelledAreUnarmed'
  BY <1>4 DEF Cancel, Cancelled, Command, database, bounds, CancelledAreUnarmed, Live, TypeOK
<1>5. ASSUME Update PROVE CancelledAreUnarmed'
  BY <1>5, UpdateKeeps DEF CancelledAreUnarmed, Live
<1>6. ASSUME RunNow PROVE CancelledAreUnarmed'
  BY <1>6 DEF RunNow, Command, database, bounds, CancelledAreUnarmed, Live, TypeOK
<1>7. ASSUME Delete PROVE CancelledAreUnarmed'
  BY <1>7 DEF Delete, Absent, Command, database, bounds, CancelledAreUnarmed, Live, TypeOK
<1>8. ASSUME Boot PROVE CancelledAreUnarmed'
  BY <1>8 DEF Boot, database, bounds, CancelledAreUnarmed, Live, TypeOK
<1>9. ASSUME ContainerEnds PROVE CancelledAreUnarmed'
  BY <1>9 DEF ContainerEnds, database, bounds, CancelledAreUnarmed, Live, TypeOK
<1>10. ASSUME ContainerDies PROVE CancelledAreUnarmed'
  BY <1>10 DEF ContainerDies, database, bounds, CancelledAreUnarmed, Live, TypeOK
<1>11. ASSUME NEW r \in Rows, Claim(r) PROVE CancelledAreUnarmed'
  BY <1>11 DEF Claim, database, bounds, CancelledAreUnarmed, Live, TypeOK
<1>12. ASSUME NEW r \in Rows, Finish(r) PROVE CancelledAreUnarmed'
  BY <1>12 DEF Finish, database, bounds, CancelledAreUnarmed, Live, TypeOK
<1>13. ASSUME SweepLooks PROVE CancelledAreUnarmed'
  BY <1>13, SweepRows DEF SweptRows, CancelledAreUnarmed
<1>14. ASSUME Rearm PROVE CancelledAreUnarmed'
  BY <1>14 DEF Rearm, Rearmed, NextStatus, CancelledAreUnarmed, TypeOK
<1>15. ASSUME SweepClose PROVE CancelledAreUnarmed'
  BY <1>15 DEF SweepClose, database, bounds, CancelledAreUnarmed, Live, TypeOK
<1>16. ASSUME HostCrash PROVE CancelledAreUnarmed'
  BY <1>16 DEF HostCrash, HostDies, database, bounds, CancelledAreUnarmed, Live, TypeOK
<1>17. ASSUME CrashInRearm PROVE CancelledAreUnarmed'
  <2>1. PICK c, d : row' = Rearmed(c, d)
    BY <1>17 DEF CrashInRearm
  <2> QED
    BY <2>1 DEF Rearmed, NextStatus, CancelledAreUnarmed, TypeOK
<1>18. ASSUME UNCHANGED vars PROVE CancelledAreUnarmed'
  BY <1>18 DEF vars, database, bounds, CancelledAreUnarmed, Live, TypeOK
<1> QED
  BY <1>1, <1>2, <1>3, <1>4, <1>5, <1>6, <1>7, <1>8, <1>9, <1>10, <1>11, <1>12, <1>13, <1>14, <1>15, <1>16, <1>17, <1>18 DEF Next, Commands, Container, Sweep, SweepLooks

LEMMA OneScheduleStep ==
  ASSUME TypeOK, OneSchedule, [Next]_vars
  PROVE  OneSchedule'
<1>1. ASSUME NEW r \in Rows, ComesDue(r) PROVE OneSchedule'
  BY <1>1 DEF ComesDue, database, bounds, OneSchedule, Scheduled, Unconcluded, Live, TypeOK
<1>2. ASSUME Pause PROVE OneSchedule'
  BY <1>2 DEF Pause, Command, database, bounds, OneSchedule, Scheduled, Unconcluded, Live, TypeOK
<1>3. ASSUME Resume PROVE OneSchedule'
  BY <1>3 DEF Resume, Command, database, bounds, OneSchedule, Scheduled, Unconcluded, Live, TypeOK
<1>4. ASSUME Cancel PROVE OneSchedule'
  <2>1. multiplied' = multiplied
    BY <1>4 DEF Cancel
  <2>2. \A r \in Rows : row'[r] = IF Live(r) THEN Cancelled(row[r]) ELSE row[r]
    BY <1>4 DEF Cancel
  <2>3. ASSUME NEW r \in Rows, Live(r) PROVE Scheduled(r)' => Scheduled(r)
    <3>1. row'[r] = Cancelled(row[r]) /\ row[r] \in Occurrence
      BY <2>2, <2>3 DEF TypeOK
    <3>2. row'[r].status = "cancelled" /\ ~row'[r].armed /\ row'[r].byHand = row[r].byHand
      BY ONLY <3>1 DEF Cancelled, Occurrence, Statuses
    <3> QED
      BY <2>3, <3>2 DEF Scheduled, Unconcluded, Live
  <2>4. ASSUME NEW r \in Rows, ~Live(r) PROVE Scheduled(r)' => Scheduled(r)
    BY <2>2, <2>4 DEF Scheduled, Unconcluded, Live
  <2> QED
    BY <2>1, <2>3, <2>4 DEF OneSchedule
<1>5. ASSUME Update PROVE OneSchedule'
  <2>1. PICK a \in [Rows -> BOOLEAN], d \in [Rows -> BOOLEAN] :
          /\ row' = [r \in Rows |-> IF Live(r) THEN Updated(row[r], a[r], d[r]) ELSE row[r]]
          /\ multiplied' = (multiplied \/ \E r \in Rows : Live(r) /\ row[r].byHand /\ a[r])
    BY <1>5, UpdateRows
  <2>2. \A r \in Rows : row'[r].byHand = row[r].byHand /\ row'[r].status = row[r].status
    BY <2>1 DEF Updated, TypeOK
  <2>3. \A r \in Rows : row'[r].armed = IF Live(r) THEN a[r] ELSE row[r].armed
    BY <2>1 DEF Updated, TypeOK
  <2>4. \A r \in Rows : ~multiplied' /\ Scheduled(r)' => Scheduled(r)
    BY <2>1, <2>2, <2>3 DEF Scheduled, Unconcluded, Live
  <2> QED
    BY <2>1, <2>4 DEF OneSchedule
<1>6. ASSUME RunNow PROVE OneSchedule'
  BY <1>6 DEF RunNow, Command, database, bounds, OneSchedule, Scheduled, Unconcluded, Live, TypeOK
<1>7. ASSUME Delete PROVE OneSchedule'
  BY <1>7 DEF Delete, Absent, Command, database, bounds, OneSchedule, Scheduled, Unconcluded, Live, TypeOK
<1>8. ASSUME Boot PROVE OneSchedule'
  BY <1>8 DEF Boot, database, bounds, OneSchedule, Scheduled, Unconcluded, Live, TypeOK
<1>9. ASSUME ContainerEnds PROVE OneSchedule'
  BY <1>9 DEF ContainerEnds, database, bounds, OneSchedule, Scheduled, Unconcluded, Live, TypeOK
<1>10. ASSUME ContainerDies PROVE OneSchedule'
  BY <1>10 DEF ContainerDies, database, bounds, OneSchedule, Scheduled, Unconcluded, Live, TypeOK
<1>11. ASSUME NEW r \in Rows, Claim(r) PROVE OneSchedule'
  BY <1>11 DEF Claim, database, bounds, OneSchedule, Scheduled, Unconcluded, Live, TypeOK
<1>12. ASSUME NEW r \in Rows, Finish(r) PROVE OneSchedule'
  BY <1>12 DEF Finish, database, bounds, OneSchedule, Scheduled, Unconcluded, Live, TypeOK
<1>13. ASSUME SweepLooks PROVE OneSchedule'
  <2>1. \A r \in Rows : Scheduled(r)' => Scheduled(r)
    BY <1>13, SweepRows DEF SweptRows, Scheduled, Unconcluded, Live
  <2> QED
    BY <1>13, <2>1, SweepRows DEF OneSchedule
<1>14. ASSUME Rearm PROVE OneSchedule'
  <2> SUFFICES ASSUME ~multiplied PROVE OneSchedule'
    BY <1>14 DEF Rearm, OneSchedule
  <2>1. CASE Awaiting = {}
    <3>1. \A r \in Rows : row'[r] = row[r]
      BY <1>14, <2>1, AwaitingCount DEF Rearm, Rearmed, TypeOK
    <3> QED
      BY <1>14, <3>1 DEF OneSchedule, Scheduled, Unconcluded, Live, Rearm
  <2>2. ASSUME NEW s \in Awaiting PROVE OneSchedule'
    <3>1. Awaiting = {s} /\ Cardinality(Awaiting) = 1
      BY <2>2, AwaitingAtMostOne
    <3>2. \A r \in Rows : Scheduled(r) => r = s
      BY <2>2 DEF Awaiting, OneSchedule, Scheduled
    <3>3. \A r \in Rows \ {used + 1, s} : row'[r] = row[r]
      BY <1>14, <3>1 DEF Rearm, Rearmed, TypeOK
    <3>4. s # used + 1 => ~Scheduled(s)'
      BY <1>14, <2>2, <3>1 DEF Rearm, Rearmed, TypeOK, Awaiting, Scheduled, Unconcluded, Live
    <3>5. \A r \in Rows : Scheduled(r)' => r = used + 1
      BY <3>2, <3>3, <3>4 DEF Scheduled, Unconcluded, Live
    <3> QED
      BY <3>5 DEF OneSchedule
  <2> QED
    BY <2>1, <2>2
<1>15. ASSUME SweepClose PROVE OneSchedule'
  BY <1>15 DEF SweepClose, database, bounds, OneSchedule, Scheduled, Unconcluded, Live, TypeOK
<1>16. ASSUME HostCrash PROVE OneSchedule'
  BY <1>16 DEF HostCrash, HostDies, database, bounds, OneSchedule, Scheduled, Unconcluded, Live, TypeOK
<1>17. ASSUME CrashInRearm PROVE OneSchedule'
  BY <1>17 DEF CrashInRearm, OneSchedule
<1>18. ASSUME UNCHANGED vars PROVE OneSchedule'
  BY <1>18 DEF vars, database, bounds, OneSchedule, Scheduled, Unconcluded, Live, TypeOK
<1> QED
  BY <1>1, <1>2, <1>3, <1>4, <1>5, <1>6, <1>7, <1>8, <1>9, <1>10, <1>11, <1>12, <1>13, <1>14, <1>15, <1>16, <1>17, <1>18 DEF Next, Commands, Container, Sweep, SweepLooks

LEMMA ClosedIsOverStep ==
  ASSUME TypeOK, ClosedIsIdle, RearmedIsDone, ClosedIsOver, [Next]_vars
  PROVE  ClosedIsOver'
<1>1. ASSUME NEW r \in Rows, ComesDue(r) PROVE ClosedIsOver'
  BY <1>1 DEF ComesDue, database, bounds, ClosedIsOver, Over, Awaiting, Live, TypeOK
<1>2. ASSUME Pause PROVE ClosedIsOver'
  BY <1>2 DEF Pause, Command, database, bounds, ClosedIsOver, Over, Awaiting, Live, TypeOK
<1>3. ASSUME Resume PROVE ClosedIsOver'
  BY <1>3 DEF Resume, Command, database, bounds, ClosedIsOver, Over, Awaiting, Live, TypeOK
<1>4. ASSUME Cancel PROVE ClosedIsOver'
  BY <1>4 DEF Cancel, Cancelled, Command, database, bounds, ClosedIsOver, Over, Awaiting, Live, TypeOK
<1>5. ASSUME Update PROVE ClosedIsOver'
  BY <1>5 DEF Update, Updated, Command, database, bounds, ClosedIsOver, Over, Awaiting, Live, TypeOK
<1>6. ASSUME RunNow PROVE ClosedIsOver'
  BY <1>6 DEF RunNow, Command, database, bounds, ClosedIsOver, Over, Awaiting, Live, TypeOK
<1>7. ASSUME Delete PROVE ClosedIsOver'
  BY <1>7 DEF Delete, Absent, Command, database, bounds, ClosedIsOver, Over, Awaiting, Live, TypeOK
<1>8. ASSUME Boot PROVE ClosedIsOver'
  BY <1>8 DEF Boot, database, bounds, ClosedIsOver, Over, Awaiting, Live, TypeOK
<1>9. ASSUME ContainerEnds PROVE ClosedIsOver'
  BY <1>9 DEF ContainerEnds, database, bounds, ClosedIsOver, Over, Awaiting, Live, TypeOK
<1>10. ASSUME ContainerDies PROVE ClosedIsOver'
  BY <1>10 DEF ContainerDies, database, bounds, ClosedIsOver, Over, Awaiting, Live, TypeOK
<1>11. ASSUME NEW r \in Rows, Claim(r) PROVE ClosedIsOver'
  BY <1>11 DEF Claim, database, bounds, ClosedIsOver, Over, Awaiting, Live, TypeOK
<1>12. ASSUME NEW r \in Rows, Finish(r) PROVE ClosedIsOver'
  BY <1>12 DEF Finish, database, bounds, ClosedIsOver, Over, Awaiting, Live, TypeOK
<1>13. ASSUME SweepLooks PROVE ClosedIsOver'
  <2>1. ~closed /\ ~closed'
    BY <1>13, SweepRows DEF SweepLooks, SweepSync, SweepWoken, ClosedIsIdle
  <2> QED
    BY <2>1 DEF ClosedIsOver
<1>14. ASSUME Rearm PROVE ClosedIsOver'
  BY <1>14 DEF Rearm, ClosedIsIdle, ClosedIsOver
<1>15. ASSUME SweepClose PROVE ClosedIsOver'
  BY <1>15 DEF SweepClose, RearmedIsDone, Spent, ClosedIsOver, Over, Awaiting, Live
<1>16. ASSUME HostCrash PROVE ClosedIsOver'
  BY <1>16 DEF HostCrash, HostDies, database, bounds, ClosedIsOver, Over, Awaiting, Live, TypeOK
<1>17. ASSUME CrashInRearm PROVE ClosedIsOver'
  BY <1>17 DEF CrashInRearm, HostDies, ClosedIsIdle, ClosedIsOver
<1>18. ASSUME UNCHANGED vars PROVE ClosedIsOver'
  BY <1>18 DEF vars, database, bounds, ClosedIsOver, Over, Awaiting, Live, TypeOK
<1> QED
  BY <1>1, <1>2, <1>3, <1>4, <1>5, <1>6, <1>7, <1>8, <1>9, <1>10, <1>11, <1>12, <1>13, <1>14, <1>15, <1>16, <1>17, <1>18 DEF Next, Commands, Container, Sweep, SweepLooks

LEMMA StepIInv == IInv /\ [Next]_vars => IInv'
BY TypeStep, ClosedIsIdleStep, RearmedIsDoneStep, CancelledStep, OneScheduleStep, ClosedIsOverStep
   DEF IInv

\* The inductive invariant holds of every behaviour.
THEOREM AlwaysScheduledOnce == Spec => []IInv
BY InitIInv, StepIInv, PTL DEF Spec

\* Every variable keeps its type; a status written by the sync is one of messages_in.
THEOREM SeriesTypeCorrect == Spec => []TypeOK
BY AlwaysScheduledOnce, PTL DEF IInv

LEMMA OneScheduleIsOneArmed == IInv => OneArmed
BY DEF IInv, OneSchedule, Scheduled, OneArmed, Armed

\* A series has one schedule (handleRecurrence), but for a crash between insert
\* and clear or an extra run that was made to recur.
THEOREM OneScheduleOnly == Spec => []OneArmed
BY AlwaysScheduledOnce, OneScheduleIsOneArmed, PTL

\* A session is closed only when its series is over (shouldCloseTaskSession).
THEOREM ClosedSessionsAreOver == Spec => []ClosedIsOver
BY AlwaysScheduledOnce, PTL DEF IInv

-----------------------------------------------------------------------------
(* Cancel and pause *)

\* Nothing but a run by hand brings a series back that is over.
LEMMA OverStep ==
  ASSUME IInv, Over, [Next]_vars
  PROVE  Over' \/ RunNow
<1>1. ASSUME NEW r \in Rows, ComesDue(r) PROVE Over' \/ RunNow
  BY <1>1 DEF ComesDue, database, bounds, Over, Awaiting, Live, IInv, TypeOK
<1>2. ASSUME Pause PROVE Over' \/ RunNow
  BY <1>2 DEF Pause, Command, database, bounds, Over, Awaiting, Live, IInv, TypeOK
<1>3. ASSUME Resume PROVE Over' \/ RunNow
  BY <1>3 DEF Resume, Command, database, bounds, Over, Awaiting, Live, IInv, TypeOK
<1>4. ASSUME Cancel PROVE Over' \/ RunNow
  BY <1>4 DEF Cancel, Cancelled, Command, database, bounds, Over, Awaiting, Live, IInv, TypeOK
<1>5. ASSUME Update PROVE Over' \/ RunNow
  BY <1>5 DEF Update, Updated, Command, database, bounds, Over, Awaiting, Live, IInv, TypeOK
<1>6. ASSUME RunNow PROVE Over' \/ RunNow
  BY <1>6
<1>7. ASSUME Delete PROVE Over' \/ RunNow
  BY <1>7 DEF Delete, Absent, Command, database, bounds, Over, Awaiting, Live, IInv, TypeOK
<1>8. ASSUME Boot PROVE Over' \/ RunNow
  BY <1>8 DEF Boot, database, Over, Awaiting, Live
<1>9. ASSUME ContainerEnds PROVE Over' \/ RunNow
  BY <1>9 DEF ContainerEnds, database, bounds, Over, Awaiting, Live, IInv, TypeOK
<1>10. ASSUME ContainerDies PROVE Over' \/ RunNow
  BY <1>10 DEF ContainerDies, database, bounds, Over, Awaiting, Live, IInv, TypeOK
<1>11. ASSUME NEW r \in Rows, Claim(r) PROVE Over' \/ RunNow
  BY <1>11 DEF Claim, database, bounds, Over, Awaiting, Live, IInv, TypeOK
<1>12. ASSUME NEW r \in Rows, Finish(r) PROVE Over' \/ RunNow
  BY <1>12 DEF Finish, database, bounds, Over, Awaiting, Live, IInv, TypeOK
<1>13. ASSUME SweepLooks PROVE Over' \/ RunNow
  <2>1. SweptRows(row')
    BY <1>13, SweepRows DEF IInv
  <2> QED
    BY <2>1 DEF SweptRows, IInv, CancelledAreUnarmed, TypeOK, Over, Awaiting, Live
<1>14. ASSUME Rearm PROVE Over' \/ RunNow
  <2>1. Awaiting = {}
    BY DEF Over, Awaiting
  <2>2. \A r \in Rows : row'[r] = row[r]
    BY <1>14, <2>1, AwaitingCount DEF Rearm, Rearmed, IInv, TypeOK
  <2> QED
    BY <2>2 DEF Over, Awaiting, Live
<1>15. ASSUME SweepClose PROVE Over' \/ RunNow
  BY <1>15 DEF SweepClose, database, bounds, Over, Awaiting, Live, IInv, TypeOK
<1>16. ASSUME HostCrash PROVE Over' \/ RunNow
  BY <1>16 DEF HostCrash, HostDies, database, bounds, Over, Awaiting, Live, IInv, TypeOK
<1>17. ASSUME CrashInRearm PROVE Over' \/ RunNow
  BY <1>17 DEF CrashInRearm, Over, Awaiting
<1>18. ASSUME UNCHANGED vars PROVE Over' \/ RunNow
  BY <1>18 DEF vars, database, bounds, Over, Awaiting, Live, IInv, TypeOK
<1> QED
  BY <1>1, <1>2, <1>3, <1>4, <1>5, <1>6, <1>7, <1>8, <1>9, <1>10, <1>11, <1>12, <1>13, <1>14, <1>15, <1>16, <1>17, <1>18 DEF Next, Commands, Container, Sweep, SweepLooks

\* A cancelled series never comes back (cancelTask, syncProcessingAcks).
THEOREM CancelIsFinal == Spec => CancelHolds
<1>1. IInv /\ [Next]_vars => [Over /\ ~RunNow => Over']_vars
  BY OverStep
<1> QED
  BY <1>1, AlwaysScheduledOnce, PTL DEF Spec, CancelHolds

\* What ends the quiet of a paused series is a resume, a run by hand or its end.
LEMMA QuietStep ==
  ASSUME IInv, Quiet, [Next]_vars
  PROVE  Quiet' \/ Over' \/ Resume \/ RunNow
<1>1. ASSUME NEW r \in Rows, ComesDue(r) PROVE Quiet' \/ Over' \/ Resume \/ RunNow
  BY <1>1 DEF ComesDue, database, bounds, Quiet, Over, Awaiting, Live, IInv, TypeOK
<1>2. ASSUME Pause PROVE Quiet' \/ Over' \/ Resume \/ RunNow
  BY <1>2 DEF Pause, Command, database, bounds, Quiet, Over, Awaiting, Live, IInv, TypeOK
<1>3. ASSUME Resume PROVE Quiet' \/ Over' \/ Resume \/ RunNow
  BY <1>3
<1>4. ASSUME Cancel PROVE Quiet' \/ Over' \/ Resume \/ RunNow
  <2>1. \A r \in Rows : Live(r) => row'[r].status = "cancelled"
    BY <1>4 DEF Cancel, Cancelled, IInv, TypeOK
  <2>2. \A r \in Rows : ~Live(r) => row'[r] = row[r]
    BY <1>4 DEF Cancel
  <2> QED
    BY <2>1, <2>2 DEF Quiet, Over, Awaiting, Live
<1>5. ASSUME Update PROVE Quiet' \/ Over' \/ Resume \/ RunNow
  BY <1>5, UpdateKeeps DEF Update, Command, IInv, Quiet, Awaiting, Live
<1>6. ASSUME RunNow PROVE Quiet' \/ Over' \/ Resume \/ RunNow
  BY <1>6
<1>7. ASSUME Delete PROVE Quiet' \/ Over' \/ Resume \/ RunNow
  BY <1>7 DEF Delete, Absent, Command, database, bounds, Quiet, Over, Awaiting, Live, IInv, TypeOK
<1>8. ASSUME Boot PROVE Quiet' \/ Over' \/ Resume \/ RunNow
  BY <1>8 DEF Boot, database, bounds, Quiet, Over, Awaiting, Live, IInv, TypeOK
<1>9. ASSUME ContainerEnds PROVE Quiet' \/ Over' \/ Resume \/ RunNow
  BY <1>9 DEF ContainerEnds, database, bounds, Quiet, Over, Awaiting, Live, IInv, TypeOK
<1>10. ASSUME ContainerDies PROVE Quiet' \/ Over' \/ Resume \/ RunNow
  BY <1>10 DEF ContainerDies, database, bounds, Quiet, Over, Awaiting, Live, IInv, TypeOK
<1>11. ASSUME NEW r \in Rows, Claim(r) PROVE Quiet' \/ Over' \/ Resume \/ RunNow
  BY <1>11 DEF Claim, database, bounds, Quiet, Over, Awaiting, Live, IInv, TypeOK
<1>12. ASSUME NEW r \in Rows, Finish(r) PROVE Quiet' \/ Over' \/ Resume \/ RunNow
  BY <1>12 DEF Finish, database, bounds, Quiet, Over, Awaiting, Live, IInv, TypeOK
<1>13. ASSUME SweepLooks PROVE Quiet' \/ Over' \/ Resume \/ RunNow
  <2>1. SweptRows(row') /\ SweptAcks
    BY <1>13, SweepRows DEF IInv
  <2>2. \A r \in Rows : row[r].status = "paused" => row'[r].status = "paused"
    <3>1. \A r \in Rows : row[r].status = "paused" => Synced(r) = row[r]
      BY DEF Quiet, Synced
    <3>2. ASSUME NEW rows, \A r \in Rows : rows[r].status = "pending" => row[r].status = "pending",
                 \A r \in Rows : row[r].status = "paused" => rows[r] = row[r],
                 Enforce(rows) \/ row' = rows
          PROVE  \A r \in Rows : row[r].status = "paused" => row'[r].status = "paused"
      <4>1. Hit(rows) = {}
        BY <3>2 DEF Hit, Quiet
      <4>2. row' = rows \/ row' = Reset(rows, {})
        BY <3>2, <4>1 DEF Enforce
      <4> QED
        BY <3>2, <4>1, <4>2 DEF Reset
    <3>3. \A r \in Rows : Synced(r).status = "pending" => row[r].status = "pending"
      BY DEF Synced, IInv, TypeOK
    <3>4. \/ Enforce([r \in Rows |-> Synced(r)]) \/ row' = [r \in Rows |-> Synced(r)]
          \/ Enforce(row) \/ row' = row
      BY <1>13 DEF SweepLooks, SweepSync, SweepWoken
    <3>5. CASE Enforce([r \in Rows |-> Synced(r)]) \/ row' = [r \in Rows |-> Synced(r)]
      <4> DEFINE rows == [r \in Rows |-> Synced(r)]
      <4>1. \A r \in Rows : rows[r] = Synced(r)
        OBVIOUS
      <4> HIDE DEF rows
      <4> QED
        BY <3>1, <3>2, <3>3, <3>5, <4>1 DEF rows
    <3> QED
      BY <3>2, <3>4, <3>5
  <2>3. \A r \in Rows : ack[r] = "none" => ack'[r] = "none"
    BY <2>1 DEF SweptAcks, Cleared
  <2> QED
    BY <2>1, <2>2, <2>3 DEF SweptRows, IInv, CancelledAreUnarmed, TypeOK, Quiet, Awaiting
<1>14. ASSUME Rearm PROVE Quiet' \/ Over' \/ Resume \/ RunNow
  <2>1. Awaiting = {}
    BY DEF Quiet, Awaiting
  <2>2. \A r \in Rows : row'[r] = row[r]
    BY <1>14, <2>1, AwaitingCount DEF Rearm, Rearmed, IInv, TypeOK
  <2> QED
    BY <1>14, <2>2 DEF Rearm, Quiet, Awaiting
<1>15. ASSUME SweepClose PROVE Quiet' \/ Over' \/ Resume \/ RunNow
  BY <1>15 DEF SweepClose, database, bounds, Quiet, Over, Awaiting, Live, IInv, TypeOK
<1>16. ASSUME HostCrash PROVE Quiet' \/ Over' \/ Resume \/ RunNow
  BY <1>16 DEF HostCrash, HostDies, database, bounds, Quiet, Over, Awaiting, Live, IInv, TypeOK
<1>17. ASSUME CrashInRearm PROVE Quiet' \/ Over' \/ Resume \/ RunNow
  BY <1>17 DEF CrashInRearm, Quiet, Awaiting
<1>18. ASSUME UNCHANGED vars PROVE Quiet' \/ Over' \/ Resume \/ RunNow
  BY <1>18 DEF vars, database, bounds, Quiet, Over, Awaiting, Live, IInv, TypeOK
<1> QED
  BY <1>1, <1>2, <1>3, <1>4, <1>5, <1>6, <1>7, <1>8, <1>9, <1>10, <1>11, <1>12, <1>13, <1>14, <1>15, <1>16, <1>17, <1>18 DEF Next, Commands, Container, Sweep, SweepLooks

\* A paused series stays paused (pauseTask, getCompletedRecurring).
THEOREM PauseIsKept == Spec => PauseHolds
<1>1. IInv /\ [Next]_vars => [Quiet /\ ~Resume /\ ~RunNow => Quiet' \/ Over']_vars
  BY QuietStep
<1> QED
  BY <1>1, AlwaysScheduledOnce, PTL DEF Spec, PauseHolds

-----------------------------------------------------------------------------
(* Failures *)

\* Rows that were never inserted have no status and no ack, so that a copy
\* starts with a clean slate.
UnusedRows == \A r \in Rows : r > used => row[r].status = "absent" /\ ack[r] = "none"

\* A later run that completed hides the failures before it from the streak;
\* while a scheduled run is still to conclude, none has been counted since.
HiddenIsReset ==
  \A r, s \in Rows :
    Unconcluded(r) /\ s > r /\ row[s].status = "completed" => failures = 0

\* The failed runs that trailingFailedRuns counts.
Trailing ==
  {r \in Rows : row[r].status = "failed" /\ \A s \in Rows : s > r => row[s].status # "completed"}

\* So the streak misses one failure at most.
StreakCounts == failures <= Cardinality(Trailing) + 1

\* A run that can still fail was not re-armed at the cap.
FailsBelowCap ==
  \A r \in Rows :
    Unconcluded(r) /\ (row[r].status = "pending" \/ ack[r] # "none") => failures <= PauseCap

FailuresCounted ==
  multiplied \/ (HiddenIsReset /\ StreakCounts /\ FailsBelowCap /\ failures <= PauseCap + 1)

\* It is the streak of the model.
LEMMA StreakIsTrailing == Streak = Cardinality(Trailing)
BY DEF Streak, Trailing

LEMMA StreakIsNat == Cardinality(Trailing) \in Nat /\ Cardinality(Trailing') \in Nat
<1>1. Trailing \in SUBSET Rows /\ Trailing' \in SUBSET Rows
  BY DEF Trailing
<1> QED
  BY <1>1, CountsAreNat

\* The streak of a series only shrinks when a run completes or rows disappear.
LEMMA StreakGrows ==
  ASSUME \A r \in Rows : row[r].status = "failed" => row'[r].status = "failed",
         \A r \in Rows : row'[r].status = "completed" => row[r].status = "completed"
  PROVE  Cardinality(Trailing') >= Cardinality(Trailing)
<1>1. Trailing \subseteq Trailing' /\ Trailing' \in SUBSET Rows
  BY DEF Trailing
<1>2. IsFiniteSet(Trailing') /\ Cardinality(Trailing) <= Cardinality(Trailing')
  BY <1>1, CountsAreNat, FS_Subset
<1> QED
  BY <1>2, StreakIsNat

\* It grows with a failure that no completed run hides.
LEMMA StreakGrowsBy ==
  ASSUME \A r \in Rows : row[r].status = "failed" => row'[r].status = "failed",
         \A r \in Rows : row'[r].status = "completed" => row[r].status = "completed",
         NEW q \in Rows, row[q].status # "failed", row'[q].status = "failed",
         \A s \in Rows : s > q => row[s].status # "completed"
  PROVE  Cardinality(Trailing') >= Cardinality(Trailing) + 1
<1>1. Trailing \cup {q} \subseteq Trailing' /\ Trailing' \in SUBSET Rows
  BY DEF Trailing
<1>2. Trailing \in SUBSET Rows /\ q \notin Trailing
  BY DEF Trailing
<1>3. Cardinality(Trailing \cup {q}) = Cardinality(Trailing) + 1
  BY <1>2, CountsAreNat, FS_AddElement
<1>4. IsFiniteSet(Trailing') /\ Cardinality(Trailing \cup {q}) <= Cardinality(Trailing')
  BY <1>1, CountsAreNat, FS_Subset
<1> QED
  BY <1>3, <1>4, StreakIsNat

\* A result is given to a row without one, which was pending or has an ack.
Concludes(rows) ==
  \A r \in Rows :
    rows[r].status # row[r].status =>
      /\ rows[r].status \in {"completed", "failed"}
      /\ row[r].status \notin {"completed", "failed", "absent"}
      /\ row[r].status = "pending" \/ ack[r] # "none"

LEMMA SyncConcludes ==
  ASSUME TypeOK
  PROVE  Concludes([r \in Rows |-> Synced(r)])
BY DEF Concludes, Synced, Exists, TypeOK

LEMMA ResetConcludes ==
  ASSUME NEW rows \in [Rows -> Occurrence], Concludes(rows), NEW lost \in SUBSET Hit(rows)
  PROVE  Concludes(Reset(rows, lost))
<1> SUFFICES ASSUME NEW r \in Rows, Reset(rows, lost)[r].status # row[r].status
             PROVE  /\ Reset(rows, lost)[r].status \in {"completed", "failed"}
                    /\ row[r].status \notin {"completed", "failed", "absent"}
                    /\ row[r].status = "pending" \/ ack[r] # "none"
  BY DEF Concludes
<1>1. CASE r \in lost
  <2>1. Reset(rows, lost)[r].status = "failed" /\ rows[r].status = "pending"
    BY <1>1 DEF Reset, Hit
  <2> QED
    BY <2>1 DEF Concludes
<1>2. CASE r \notin lost
  <2>1. Reset(rows, lost)[r].status = rows[r].status
    BY <1>2 DEF Reset
  <2> QED
    BY <2>1 DEF Concludes
<1> QED
  BY <1>1, <1>2

\* Nothing is counted when nothing changes.
LEMMA NothingCounted ==
  ASSUME TypeOK
  PROVE  Count(row) = failures
<1> DEFINE F == {r \in Rows : (row[r].status # "failed" /\ row[r].status = "failed") /\ ~row[r].byHand}
<1>1. F = {} /\ Cardinality(F) = 0
  BY FS_EmptySet
<1> QED
  BY <1>1 DEF Count, TypeOK

\* The sweep's looks at acks and claims conclude rows, and count what failed.
LEMMA SweepConcludes ==
  ASSUME TypeOK, SweepLooks
  PROVE  Concludes(row') /\ failures' = Count(row')
<1>1. Concludes(row) /\ row \in [Rows -> Occurrence]
  BY DEF Concludes, TypeOK
<1>2. ASSUME NEW rows, Concludes(rows), rows \in [Rows -> Occurrence], Enforce(rows)
      PROVE  Concludes(row') /\ failures' = Count(row')
  BY <1>2, ResetConcludes DEF Enforce
<1>3. CASE SweepSync
  <2> DEFINE rows == [r \in Rows |-> Synced(r)]
  <2>1. Concludes(rows) /\ rows \in [Rows -> Occurrence]
    BY SyncConcludes, SyncedRows DEF SweptRows
  <2>2. \/ row' = rows /\ failures' = Count(rows)
        \/ Enforce(rows)
    BY <1>3 DEF SweepSync
  <2> HIDE DEF rows
  <2> QED
    BY <1>2, <2>1, <2>2
<1>4. CASE SweepWoken
  BY <1>1, <1>2, <1>4, NothingCounted DEF SweepWoken
<1> QED
  BY <1>3, <1>4 DEF SweepLooks

LEMMA UnusedStep ==
  ASSUME TypeOK, UnusedRows, [Next]_vars
  PROVE  UnusedRows'
<1>1. ASSUME NEW r \in Rows, ComesDue(r) PROVE UnusedRows'
  BY <1>1 DEF ComesDue, UnusedRows, TypeOK
<1>2. ASSUME Pause \/ Resume PROVE UnusedRows'
  BY <1>2 DEF Pause, Resume, Command, UnusedRows, TypeOK
<1>3. ASSUME Cancel PROVE UnusedRows'
  BY <1>3 DEF Cancel, Command, Live, UnusedRows, TypeOK
<1>4. ASSUME Update PROVE UnusedRows'
  BY <1>4, UpdateKeeps DEF Update, Command, UnusedRows
<1>5. ASSUME RunNow PROVE UnusedRows'
  <2>1. used' = used + 1 /\ used \in Nat /\ ack' = ack
    BY <1>5 DEF RunNow, Command, TypeOK
  <2>2. \A r \in Rows \ {used + 1} : row'[r] = row[r]
    BY <1>5 DEF RunNow, TypeOK
  <2> QED
    BY <2>1, <2>2 DEF UnusedRows
<1>6. ASSUME Delete PROVE UnusedRows'
  BY <1>6 DEF Delete, Command, Absent, UnusedRows
<1>7. ASSUME Boot PROVE UnusedRows'
  BY <1>7 DEF Boot, database, UnusedRows
<1>8. ASSUME ContainerEnds \/ ContainerDies PROVE UnusedRows'
  BY <1>8 DEF ContainerEnds, ContainerDies, database, UnusedRows
<1>9. ASSUME NEW r \in Rows, Claim(r) PROVE UnusedRows'
  BY <1>9 DEF Claim, database, UnusedRows, TypeOK
<1>10. ASSUME NEW r \in Rows, Finish(r) PROVE UnusedRows'
  BY <1>10 DEF Finish, database, UnusedRows, TypeOK
<1>11. ASSUME SweepLooks PROVE UnusedRows'
  <2>1. \A r \in Rows : ack[r] = "none" => ack'[r] = "none"
    BY <1>11, SweepRows DEF SweptAcks, Cleared
  <2>2. \A r \in Rows : row[r].status = "absent" => row'[r].status = "absent"
    BY <1>11, SweepConcludes DEF Concludes
  <2> QED
    BY <1>11, <2>1, <2>2, SweepRows DEF UnusedRows
<1>12. ASSUME Rearm PROVE UnusedRows'
  <2>1. Cardinality(Awaiting) \in Nat /\ used \in Nat
    BY AwaitingCount DEF TypeOK
  <2>2. used' = used + Cardinality(Awaiting) /\ ack' = ack
    BY <1>12 DEF Rearm
  <2>3. \A r \in Rows : r > used + Cardinality(Awaiting) => row'[r].status = row[r].status
    BY <1>12, <2>1 DEF Rearm, Rearmed, TypeOK
  <2> QED
    BY <2>1, <2>2, <2>3 DEF UnusedRows
<1>13. ASSUME SweepClose \/ HostCrash PROVE UnusedRows'
  BY <1>13 DEF SweepClose, HostCrash, HostDies, UnusedRows
<1>14. ASSUME CrashInRearm PROVE UnusedRows'
  <2>1. PICK q \in Awaiting :
          /\ row' = Rearmed(Cardinality({p \in Awaiting : p < q}) + 1, {p \in Awaiting : p < q})
          /\ used' = used + (Cardinality({p \in Awaiting : p < q}) + 1)
    BY <1>14 DEF CrashInRearm
  <2>2. PICK n : n = Cardinality({p \in Awaiting : p < q}) + 1
    OBVIOUS
  <2>3. n \in Nat /\ used \in Nat
    <3>1. {p \in Awaiting : p < q} \in SUBSET Rows
      BY DEF Awaiting
    <3> QED
      BY <2>2, <3>1, CountsAreNat DEF TypeOK
  <2>4. row' = Rearmed(n, {p \in Awaiting : p < q}) /\ used' = used + n
    BY <2>1, <2>2
  <2>5. \A r \in Rows : r > used + n => row'[r].status = row[r].status
    BY <2>3, <2>4 DEF Rearmed, TypeOK
  <2>6. ack' = ack
    BY <1>14 DEF CrashInRearm, HostDies
  <2> QED
    BY <2>3, <2>4, <2>5, <2>6 DEF UnusedRows
<1>15. ASSUME UNCHANGED vars PROVE UnusedRows'
  BY <1>15 DEF vars, database, UnusedRows
<1> QED
  BY <1>1, <1>2, <1>3, <1>4, <1>5, <1>6, <1>7, <1>8, <1>9, <1>10, <1>11, <1>12, <1>13, <1>14,
     <1>15
  DEF Next, Commands, Container, Sweep, SweepLooks

\* A step that concludes nothing and counts nothing, and acks what was to do.
LEMMA NothingConcluded ==
  ASSUME TypeOK, FailuresCounted, multiplied' = multiplied, failures' = failures,
         \A r \in Rows : /\ row'[r].status = row[r].status /\ row'[r].byHand = row[r].byHand
                         /\ ack'[r] # "none" => ack[r] # "none" \/ row[r].status = "pending"
  PROVE  FailuresCounted'
<1>1. Cardinality(Trailing') >= Cardinality(Trailing)
  BY StreakGrows
<1>2. StreakCounts => StreakCounts'
  <2>1. failures \in Nat /\ failures' = failures
    BY DEF TypeOK
  <2> QED
    BY ONLY <1>1, <2>1, StreakIsNat DEF StreakCounts
<1>3. HiddenIsReset => HiddenIsReset'
  BY DEF HiddenIsReset, Unconcluded, Live
<1>4. FailsBelowCap => FailsBelowCap'
  BY DEF FailsBelowCap, Unconcluded, Live
<1> QED
  BY <1>2, <1>3, <1>4 DEF FailuresCounted

\* A command, or a run that completes, starts the count again.
LEMMA CountReset ==
  ASSUME failures' = 0
  PROVE  FailuresCounted'
<1>1. StreakCounts'
  BY ONLY failures' = 0, StreakIsNat DEF StreakCounts
<1>2. HiddenIsReset' /\ FailsBelowCap'
  BY DEF HiddenIsReset, FailsBelowCap
<1> QED
  BY <1>1, <1>2 DEF FailuresCounted

\* A look of the sweep: with one schedule, one scheduled run at most fails in it.
LEMMA SweepCounts ==
  ASSUME TypeOK, OneSchedule, FailuresCounted, SweepLooks
  PROVE  FailuresCounted'
<1> DEFINE F == {r \in Rows : (row[r].status # "failed" /\ row'[r].status = "failed") /\ ~row[r].byHand}
<1>1. /\ Concludes(row') /\ multiplied' = multiplied
      /\ \A r \in Rows : row'[r].byHand = row[r].byHand
      /\ \A r \in Rows : ack'[r] # "none" => ack[r] # "none"
  BY SweepRows, SweepConcludes DEF SweptRows, SweptAcks, Cleared
<1>2. CASE \E r \in Rows : row[r].status # "completed" /\ row'[r].status = "completed"
  <2>1. failures' = 0
    BY <1>2, SweepConcludes DEF Count
  <2> QED
    BY <2>1, CountReset
<1>3. CASE \A r \in Rows : row'[r].status = "completed" => row[r].status = "completed"
  <2> SUFFICES ASSUME ~multiplied PROVE FailuresCounted'
    BY <1>1 DEF FailuresCounted
  <2>1. failures' = failures + Cardinality(F)
    BY <1>3, SweepConcludes DEF Count
  <2>2. \A r \in Rows : row[r].status = "failed" => row'[r].status = "failed"
    BY <1>1 DEF Concludes
  <2>3. failures \in Nat /\ failures' \in Nat /\ Cardinality(Trailing') >= Cardinality(Trailing)
    BY <1>3, <2>2, SweepRows, StreakGrows DEF TypeOK
  <2>4. \A r \in Rows : Unconcluded(r)' => Unconcluded(r) /\ row'[r].status = row[r].status
    BY <1>1 DEF Concludes, Unconcluded, Live
  <2>5. CASE F = {}
    <3>1. failures' = failures
      <4>1. Cardinality(F) = 0
        BY <2>5, FS_EmptySet
      <4> HIDE DEF F
      <4> QED
        BY ONLY <2>1, <2>3, <4>1
    <3>2. HiddenIsReset' /\ FailsBelowCap'
      BY <1>1, <1>3, <2>4, <3>1 DEF FailuresCounted, HiddenIsReset, FailsBelowCap
    <3>3. StreakCounts'
      <4>1. failures <= Cardinality(Trailing) + 1
        BY DEF FailuresCounted, StreakCounts
      <4> QED
        BY ONLY <2>3, <3>1, <4>1, StreakIsNat DEF StreakCounts
    <3> QED
      BY <3>1, <3>2, <3>3 DEF FailuresCounted
  <2>6. ASSUME NEW q \in F PROVE FailuresCounted'
    <3>1. /\ q \in Rows /\ row[q].status # "failed" /\ row'[q].status = "failed"
          /\ Unconcluded(q) /\ (row[q].status = "pending" \/ ack[q] # "none")
      <4>1. q \in Rows /\ row[q].status # "failed" /\ row'[q].status = "failed" /\ ~row[q].byHand
        BY <2>6
      <4>2. row[q].status \in {"pending", "paused", "cancelled"}
        BY <1>1, <4>1 DEF Concludes, TypeOK
      <4> QED
        BY <1>1, <4>1, <4>2 DEF Concludes, Unconcluded, Live
    <3>2. \A r \in Rows : Unconcluded(r) => r = q
      BY <3>1 DEF OneSchedule, Scheduled
    <3>3. F = {q}
      <4>1. ASSUME NEW r \in F PROVE r = q
        <5>1. r \in Rows /\ row[r].status # "failed" /\ row'[r].status = "failed" /\ ~row[r].byHand
          BY <4>1
        <5>2. row[r].status \in {"pending", "paused", "cancelled"}
          BY <1>1, <5>1 DEF Concludes, TypeOK
        <5> QED
          BY <3>2, <5>1, <5>2 DEF Unconcluded, Live
      <4> QED
        BY <2>6, <4>1
    <3>4. failures' = failures + 1 /\ failures <= PauseCap
      BY <2>1, <3>1, <3>3, FS_Singleton DEF FailuresCounted, FailsBelowCap
    <3>5. \A r \in Rows : ~Unconcluded(r)'
      BY <2>4, <3>1, <3>2
    <3>6. HiddenIsReset' /\ FailsBelowCap'
      BY <3>5 DEF HiddenIsReset, FailsBelowCap
    <3>7. StreakCounts'
      <4>1. CASE \A s \in Rows : s > q => row[s].status # "completed"
        <5>1. Cardinality(Trailing') >= Cardinality(Trailing) + 1
          BY <1>3, <2>2, <3>1, <4>1, StreakGrowsBy
        <5>2. failures <= Cardinality(Trailing) + 1
          BY DEF FailuresCounted, StreakCounts
        <5> QED
          BY ONLY <2>3, <3>4, <5>1, <5>2, StreakIsNat DEF StreakCounts
      <4>2. CASE \E s \in Rows : s > q /\ row[s].status = "completed"
        <5>1. failures = 0
          BY <3>1, <4>2 DEF FailuresCounted, HiddenIsReset
        <5> QED
          BY ONLY <2>3, <3>4, <5>1, StreakIsNat DEF StreakCounts
      <4> QED
        BY <4>1, <4>2
    <3> QED
      BY ONLY <2>3, <3>4, <3>6, <3>7, SeriesAssumption DEF FailuresCounted
  <2> QED
    BY <2>5, <2>6
<1> QED
  BY <1>2, <1>3

\* The sweep re-arms: below the cap with a run that may fail, at the cap with one
\* that is paused and has no ack.
LEMMA RearmCounts ==
  ASSUME TypeOK, OneSchedule, UnusedRows, FailuresCounted, Rearm
  PROVE  FailuresCounted'
<1> SUFFICES ASSUME ~multiplied PROVE FailuresCounted'
  BY DEF Rearm, FailuresCounted
<1>1. multiplied' = multiplied /\ failures' = failures /\ ack' = ack
  BY DEF Rearm
<1>2. CASE Awaiting = {}
  <2>1. \A r \in Rows : row'[r] = row[r]
    BY <1>2, AwaitingCount DEF Rearm, Rearmed, TypeOK
  <2> QED
    BY <1>1, <2>1, NothingConcluded
<1>3. ASSUME NEW q \in Awaiting PROVE FailuresCounted'
  <2>1. /\ Awaiting = {q} /\ Cardinality(Awaiting) = 1
        /\ q \in Rows /\ row[q].status \in {"completed", "failed"} /\ row[q].armed
    BY <1>3, AwaitingAtMostOne DEF Awaiting
  <2>2. used \in Nat /\ used + 1 \in Rows
    BY <2>1 DEF Rearm, TypeOK
  <2>3. row[used + 1].status = "absent" /\ ack[used + 1] = "none" /\ q # used + 1
    BY <2>1, <2>2 DEF UnusedRows
  <2>4. row'[used + 1].status = NextStatus
    BY <2>1, <2>2 DEF Rearm, Rearmed, TypeOK
  <2>5. \A r \in Rows \ {used + 1} : /\ row'[r].status = row[r].status
                                    /\ row'[r].byHand = row[r].byHand
    <3>1. ASSUME NEW r \in Rows \ {used + 1}
          PROVE  row'[r] = IF r = q THEN [row[r] EXCEPT !.armed = FALSE] ELSE row[r]
      BY <2>1, <2>2 DEF Rearm, Rearmed
    <3> QED
      BY <3>1 DEF TypeOK
  <2>6. NextStatus \in {"pending", "paused"}
    BY DEF NextStatus
  <2>7. \A r \in Rows : Unconcluded(r)' => r = used + 1
    BY <2>1, <2>5 DEF OneSchedule, Scheduled, Unconcluded, Live
  <2>8. Cardinality(Trailing') >= Cardinality(Trailing)
    BY <2>3, <2>4, <2>5, <2>6, StreakGrows
  <2>9. failures \in Nat /\ failures <= Cardinality(Trailing) + 1 /\ failures <= PauseCap + 1
    BY DEF TypeOK, FailuresCounted, StreakCounts
  <2>10. StreakCounts' /\ failures' <= PauseCap + 1
    BY ONLY <1>1, <2>8, <2>9, StreakIsNat DEF StreakCounts
  <2>11. HiddenIsReset'
    <3>1. \A s \in Rows : s > used + 1 => row'[s].status = "absent"
      BY <2>2, <2>5 DEF UnusedRows
    <3> QED
      BY <2>7, <3>1 DEF HiddenIsReset
  <2>12. FailsBelowCap'
    <3>1. NextStatus = "pending" => failures <= PauseCap
      <4>1. NextStatus = "pending" => ~(Cardinality(Trailing) >= PauseCap)
        BY StreakIsTrailing DEF NextStatus
      <4> QED
        BY ONLY <2>9, <4>1, StreakIsNat, SeriesAssumption
    <3> QED
      BY <1>1, <2>3, <2>4, <2>7, <3>1 DEF FailsBelowCap
  <2> QED
    BY <2>10, <2>11, <2>12 DEF FailuresCounted
<1> QED
  BY <1>2, <1>3

LEMMA CountedStep ==
  ASSUME TypeOK, OneSchedule, UnusedRows, FailuresCounted, [Next]_vars
  PROVE  FailuresCounted'
<1>1. ASSUME NEW r \in Rows, ComesDue(r) PROVE FailuresCounted'
  BY <1>1, NothingConcluded DEF ComesDue, bounds, TypeOK
<1>2. ASSUME Commands PROVE FailuresCounted'
  <2>1. failures' = 0
    BY <1>2 DEF Commands, Pause, Resume, Cancel, Update, RunNow, Delete, Command
  <2> QED
    BY <2>1, CountReset
<1>3. ASSUME Boot PROVE FailuresCounted'
  BY <1>3, NothingConcluded DEF Boot, database
<1>4. ASSUME ContainerEnds \/ ContainerDies PROVE FailuresCounted'
  BY <1>4, NothingConcluded DEF ContainerEnds, ContainerDies, database
<1>5. ASSUME NEW r \in Rows, Claim(r) PROVE FailuresCounted'
  BY <1>5, NothingConcluded DEF Claim, database, TypeOK
<1>6. ASSUME NEW r \in Rows, Finish(r) PROVE FailuresCounted'
  BY <1>6, NothingConcluded DEF Finish, database, TypeOK
<1>7. ASSUME SweepLooks PROVE FailuresCounted'
  BY <1>7, SweepCounts
<1>8. ASSUME Rearm PROVE FailuresCounted'
  BY <1>8, RearmCounts
<1>9. ASSUME SweepClose \/ HostCrash PROVE FailuresCounted'
  BY <1>9, NothingConcluded DEF SweepClose, HostCrash, HostDies
<1>10. ASSUME CrashInRearm PROVE FailuresCounted'
  BY <1>10 DEF CrashInRearm, FailuresCounted
<1>11. ASSUME UNCHANGED vars PROVE FailuresCounted'
  BY <1>11, NothingConcluded DEF vars, database
<1> QED
  BY <1>1, <1>2, <1>3, <1>4, <1>5, <1>6, <1>7, <1>8, <1>9, <1>10, <1>11
  DEF Next, Container, Sweep, SweepLooks

\* A series that keeps failing is paused at the cap of trailingFailedRuns, with
\* one failure more at most, for every cap, and whatever the runs by hand, the
\* deaths of containers and the crashes do.
THEOREM FailingSeriesArePaused == Spec => []FailuresArePaused
<1>1. Init => UnusedRows /\ FailuresCounted
  <2> SUFFICES ASSUME Init PROVE UnusedRows /\ FailuresCounted
    OBVIOUS
  <2>1. failures = 0 /\ used = 1 /\ \A r \in Rows : ack[r] = "none"
    BY DEF Init
  <2>2. \A r \in Rows : r > 1 => row[r].status = "absent"
    BY DEF Init, Absent
  <2>3. UnusedRows /\ HiddenIsReset /\ FailsBelowCap
    BY <2>1, <2>2 DEF UnusedRows, HiddenIsReset, FailsBelowCap
  <2>4. StreakCounts /\ failures <= PauseCap + 1
    BY ONLY <2>1, StreakIsNat, SeriesAssumption DEF StreakCounts
  <2> QED
    BY <2>3, <2>4 DEF FailuresCounted
<1>2. IInv /\ (UnusedRows /\ FailuresCounted) /\ [Next]_vars => (UnusedRows /\ FailuresCounted)'
  BY UnusedStep, CountedStep DEF IInv
<1>3. UnusedRows /\ FailuresCounted => FailuresArePaused
  BY DEF FailuresCounted, FailuresArePaused
<1> QED
  BY <1>1, <1>2, <1>3, AlwaysScheduledOnce, PTL DEF Spec

-----------------------------------------------------------------------------
(* Skills *)

HIDE SeriesAssumption DEF SeriesAssumption, Rows, Statuses, Occurrence

(***************************************************************************)
(* What a line brings, and what the tree may hold of it.  A run is         *)
(* followed by what it does to the things its lines bring; which lines     *)
(* those are is what the journal is about.                                 *)
(***************************************************************************)
Item(d, n) == Body(d)[n].it
Conditions == {"absent", "mine", "skill", "both", "empty", "twice"}
Ours(c) == c \in {"skill", "both"}
LastingOnes == {d \in Directives : Kind(d) \in Lasting}
Appends == {d \in Directives : Kind(d) = "append"}
\* The journal has the line; the run has begun the directive; the removal is in it.
Logged(d, n) == \E p \in DOMAIN journal : journal[p] = <<d, Item(d, n)>>
Full(d) == \A n \in DOMAIN Body(d) : tree[Item(d, n)] \notin {"absent", "empty"}
Applies(d) == phase = "applying" /\ pc = d /\ at > 0
Undoes(d) == phase = "removing" /\ journal # <<>> /\ journal[Len(journal)][1] = d

\* What each variable may hold, and where the run may be.
SkillsTypeOK ==
  /\ tree \in [Items -> Conditions] /\ before \in [Items -> Conditions]
  /\ phase \in {"idle", "applying", "done", "removing"}
  /\ pc \in 0..Len(Script) + 1 /\ at \in Nat
  /\ at > 0 => pc \in Directives /\ at \in DOMAIN Body(pc)
  /\ phase = "applying" => pc > 0
  /\ phase = "done" => pc > Len(Script)
  /\ bound \in [Vars -> Values \cup {Unbound}]
  /\ deferred \subseteq Directives /\ tasks \subseteq Directives
  /\ fired \subseteq Directives /\ torn \subseteq Directives
  /\ journal \in Seq(LastingOnes \X Items)
  /\ runs \in Nat /\ faults \in Nat

\* No line is there twice, and what is empty is a key or was torn.
Sorts ==
  \A d \in LastingOnes : \A n \in DOMAIN Body(d) :
    /\ tree[Item(d, n)] \in IF d \in Appends THEN {"absent", "mine", "skill", "both"}
                            ELSE {"absent", "mine", "skill", "empty"}
    /\ tree[Item(d, n)] = "empty" => Kind(d) = "env-set" \/ (Kind(d) = "fetch" /\ d \in torn)

\* Each entry is a line that the run has passed.
LoggedIsPast ==
  \A p \in DOMAIN journal : \E n \in DOMAIN Body(journal[p][1]) :
    /\ journal[p][2] = Item(journal[p][1], n)
    /\ phase = "applying" => journal[p][1] < pc \/ (journal[p][1] = pc /\ n < at)

\* The lines of an append are journaled in their order, one after the other.
LoggedInOrder ==
  \A d \in Appends : \A n, m \in DOMAIN Body(d), p, q \in DOMAIN journal :
    p < q /\ journal[p] = <<d, Item(d, n)>> /\ journal[q] = <<d, Item(d, m)>> => n < m

LoggedInRow ==
  \A d \in Appends : \A n \in DOMAIN Body(d), p \in DOMAIN journal :
    journal[p] = <<d, Item(d, n)>> /\ n > 1 => p > 1 /\ journal[p - 1] = <<d, Item(d, n - 1)>>

\* Of the lines of an append the skill's own are the first ones: they are
\* written from the first and undone from the last.  This is why the first
\* line tells of all.
LinesInOrder ==
  \A d \in Appends : \A n, m \in DOMAIN Body(d) :
    n < m /\ Ours(tree[Item(d, m)]) => Ours(tree[Item(d, n)])

\* A run journals all lines of an append that are the skill's, or none.
LinesLogged ==
  \A d \in Appends : \A n, m \in DOMAIN Body(d) :
    Logged(d, n) /\ Ours(tree[Item(d, m)]) => Logged(d, m)

\* An append that nothing tore is whole when its first line is the skill's.
LinesWhole ==
  \A d \in Appends \ torn :
    Ours(tree[Item(d, 1)]) /\ ~Applies(d) /\ ~Undoes(d) => Full(d)

\* The lines of an append ahead of the run are not the skill's yet; the one
\* behind it is the last of the journal.
LinesAhead ==
  \A d \in Appends : Applies(d) => \A n \in DOMAIN Body(d) :
    /\ n >= at => ~Ours(tree[Item(d, n)])
    /\ n = at - 1 => journal # <<>> /\ journal[Len(journal)] = <<d, Item(d, n)>>

\* The lines behind the run, in the directive it applies, are there.
LinesBehind ==
  \A d \in LastingOnes : Applies(d) => \A n \in DOMAIN Body(d) : n < at =>
    /\ tree[Item(d, n)] \notin {"absent", "empty"}
    /\ d \in Appends => Ours(tree[Item(d, n)])
    /\ Kind(d) \in {"append", "external"} => Logged(d, n)

\* No side effect is begun after a bounce.
GateHolds == phase = "applying" /\ at > 0 /\ Kind(pc) \in SideEffects => tasks = {}

\* While nothing bounced, all that the passed directives owe is there.
PassedIsThere ==
  phase \in {"applying", "done"} /\ tasks = {} =>
    \A e \in Directives : e < pc /\ Owed(e) /\ e \notin deferred => Full(e)

\* What is ahead of the run is as it found it.
AheadIsUntouched ==
  phase = "applying" => \A d \in LastingOnes : \A n \in DOMAIN Body(d) :
    d > pc \/ (d = pc /\ n >= at) => tree[Item(d, n)] = before[Item(d, n)]

\* What the run brought is in its journal, was torn, or is a file of the
\* directive it applies, which are journaled together.
BroughtIsKnown ==
  phase # "idle" => \A d \in LastingOnes : \A n \in DOMAIN Body(d) :
    before[Item(d, n)] = "absent" /\ tree[Item(d, n)] # "absent" =>
      \/ Logged(d, n)
      \/ d \in torn /\ Kind(d) \in Files \cup {"dep", "external"}
      \/ Applies(d) /\ Kind(d) \in Files /\ n < at

\* A directive of which the run found everything is not applied.
FoundIsKept ==
  phase # "idle" => \A d \in LastingOnes :
    Kind(d) # "external" /\ (\A n \in DOMAIN Body(d) : before[Item(d, n)] \notin {"absent", "empty"}) =>
      /\ \A n \in DOMAIN Body(d) : tree[Item(d, n)] = before[Item(d, n)]
      /\ ~Applies(d)
      /\ \A p \in DOMAIN journal : journal[p][1] # d

(***************************************************************************)
(* No property of Skills is inductive: a step is right only because of     *)
(* what is in the tree ahead of the run, behind it, and in the journal.    *)
(***************************************************************************)
SkillsInv ==
  /\ SkillsTypeOK /\ Sorts /\ LoggedIsPast /\ LoggedInOrder /\ LoggedInRow
  /\ LinesInOrder /\ LinesLogged /\ LinesWhole /\ LinesAhead /\ LinesBehind
  /\ GateHolds /\ PassedIsThere /\ AheadIsUntouched /\ BroughtIsKnown /\ FoundIsKept

-----------------------------------------------------------------------------
(* A script, and the lines of its directives *)

LEMMA ScriptIs ==
  /\ Len(Script) \in Nat /\ Directives = 1..Len(Script)
  /\ \A d \in Directives :
       /\ Kind(d) \in Kinds /\ Len(Body(d)) \in Nat \ {0}
       /\ DOMAIN Body(d) = 1..Len(Body(d))
       /\ Kind(d) = "json-merge" => Len(Body(d)) = 1
BY SkillsAssumption DEF SkillsAssumption

LEMMA LastingAre ==
  /\ \A d \in LastingOnes : d \in Directives /\ Kind(d) \in Lasting
  /\ Appends = {d \in LastingOnes : Kind(d) = "append"}
BY DEF LastingOnes, Appends, Lasting

LEMMA ItemsAre ==
  /\ \A d \in LastingOnes : \A n \in DOMAIN Body(d) : Item(d, n) \in Items
  /\ \A i \in Items : \E d \in LastingOnes : \E n \in DOMAIN Body(d) : i = Item(d, n)
BY DEF LastingOnes, Items, Things, Item

LEMMA Distinct ==
  ASSUME NEW d \in LastingOnes, NEW n \in DOMAIN Body(d),
         NEW e \in Directives, NEW m \in DOMAIN Body(e), Item(d, n) = Item(e, m)
  PROVE  d = e /\ n = m
BY SkillsAssumption DEF SkillsAssumption, LastingOnes, Item

LEMMA WrittenIs ==
  ASSUME NEW d, NEW c \in Conditions
  PROVE  /\ Written(d, c) \in Conditions \ {"absent", "empty"}
         /\ Kind(d) # "append" /\ c \notin {"both", "twice"} => Written(d, c) \in {"skill", "mine"}
         /\ Kind(d) = "append" /\ c \in {"absent", "mine"} => Written(d, c) \in {"skill", "both"}
         /\ Kind(d) \in Lasting \ (Files \cup {"append"}) /\ c \notin {"absent", "empty"} => Written(d, c) = c
BY DEF Written, Conditions, Lasting, Files

\* A line is written.
Writes(d) ==
  /\ d \in Directives /\ Applies(d) /\ phase' = "applying" /\ at \in DOMAIN Body(d)
  /\ before' = before
  /\ \A e \in LastingOnes : \A n \in DOMAIN Body(e) :
       tree'[Item(e, n)] = IF e = d /\ (n = at \/ Kind(d) = "dep")
                           THEN Written(d, tree[Item(e, n)]) ELSE tree[Item(e, n)]
  /\ journal' = journal \o Journaled(d)
  /\ \/ AtLast(d) /\ pc' = pc + 1 /\ at' = 0 /\ torn' = torn \ {d}
     \/ ~AtLast(d) /\ at + 1 \in DOMAIN Body(d) /\ pc' = pc /\ at' = at + 1 /\ torn' = torn

LEMMA LineWrites ==
  ASSUME SkillsTypeOK, NEW d \in Directives, Line(d)
  PROVE  Writes(d)
<1>1. /\ Applies(d) /\ phase' = "applying" /\ at \in DOMAIN Body(d) /\ before' = before
      /\ journal' = journal \o Journaled(d)
  BY DEF Line, At, Applies, SkillsTypeOK
<1>2. ASSUME NEW e \in LastingOnes, NEW n \in DOMAIN Body(e)
      PROVE  tree'[Item(e, n)] = IF e = d /\ (n = at \/ Kind(d) = "dep")
                                 THEN Written(d, tree[Item(e, n)]) ELSE tree[Item(e, n)]
  <2> DEFINE now == IF Kind(d) = "dep" THEN Things(d) ELSE {Item(d, at)}
  <2>1. Item(e, n) \in now <=> e = d /\ (n = at \/ Kind(d) = "dep")
    BY <1>1, Distinct DEF Things, Item
  <2>2. tree' = [i \in Items |-> IF i \in now THEN Written(d, tree[i]) ELSE tree[i]]
    BY DEF Line, Item
  <2> QED
    BY <2>1, <2>2, ItemsAre
<1>3. \/ AtLast(d) /\ pc' = pc + 1 /\ at' = 0 /\ torn' = torn \ {d}
      \/ ~AtLast(d) /\ at + 1 \in DOMAIN Body(d) /\ pc' = pc /\ at' = at + 1 /\ torn' = torn
  <2>1. CASE AtLast(d)
    BY <2>1 DEF Line, Pass, Bounce
  <2>2. CASE ~AtLast(d)
    BY <2>2, <1>1, ScriptIs DEF Line, AtLast
  <2> QED
    BY <2>1, <2>2
<1> QED
  BY <1>1, <1>2, <1>3 DEF Writes

\* What a line that fails, or that the process dies in, may leave of its things.
Halves(d) ==
  \A e \in LastingOnes : \A n \in DOMAIN Body(e) :
    \/ tree'[Item(e, n)] = tree[Item(e, n)]
    \/ /\ e = d /\ (n = at \/ Kind(d) = "dep")
       /\ \/ Kind(d) = "fetch" /\ tree'[Item(e, n)] = "empty"
          \/ Kind(d) \in {"copy", "dep", "external"} /\ tree'[Item(e, n)] = Written(d, tree[Item(e, n)])

LEMMA HalfIs ==
  ASSUME SkillsTypeOK, NEW d \in Directives, at \in DOMAIN Body(d), tree' \in Half(d)
  PROVE  /\ tree' \in [Items -> Conditions]
         /\ Halves(d)
<1> DEFINE now == IF Kind(d) = "dep" THEN Things(d) ELSE {Item(d, at)}
           done == [j \in Items |-> IF j \in now THEN Written(d, tree[j]) ELSE tree[j]]
<1>1. \A e \in LastingOnes : \A n \in DOMAIN Body(e) :
        Item(e, n) \in now <=> e = d /\ (n = at \/ Kind(d) = "dep")
  BY Distinct DEF Things, Item
<1>2. tree' = tree \/ (Kind(d) = "fetch" /\ tree' = [tree EXCEPT ![Item(d, at)] = "empty"])
        \/ (Kind(d) \in {"copy", "dep", "external"} /\ tree' = done)
  BY DEF Half, Item
<1>3. \A i \in Items : tree[i] \in Conditions /\ Written(d, tree[i]) \in Conditions
  BY WrittenIs DEF SkillsTypeOK
<1>4. tree \in [Items -> Conditions] /\ "empty" \in Conditions
  BY DEF SkillsTypeOK, Conditions
<1>5. CASE tree' = tree
  BY <1>4, <1>5 DEF Halves
<1>6. CASE Kind(d) = "fetch" /\ tree' = [tree EXCEPT ![Item(d, at)] = "empty"]
  <2>1. d \in LastingOnes
    BY <1>6 DEF LastingOnes, Lasting, Files
  <2>2. \A e \in LastingOnes : \A n \in DOMAIN Body(e) : Item(e, n) = Item(d, at) => e = d /\ n = at
    BY Distinct
  <2> QED
    BY <1>4, <1>6, <2>2, ItemsAre DEF Halves
<1>7. CASE Kind(d) \in {"copy", "dep", "external"} /\ tree' = done
  BY <1>1, <1>3, <1>7, ItemsAre DEF Halves
<1> QED
  BY <1>2, <1>5, <1>6, <1>7

\* A line fails, or the process dies in it.
Breaks(d) ==
  /\ d \in Directives /\ Applies(d) /\ at \in DOMAIN Body(d)
  /\ tree' \in [Items -> Conditions] /\ Halves(d) /\ before' = before
  /\ torn' = IF at > 1 \/ tree' # tree THEN torn \cup {d} ELSE torn
  /\ \/ phase' = "applying" /\ journal' = journal /\ pc' = pc + 1 /\ at' = 0
     \/ phase' = "idle" /\ journal' = <<>> /\ pc' = pc /\ at' = at

\* The run goes on to the next directive or begins the one it is at.
Moves ==
  /\ phase = "applying" /\ phase' = "applying" /\ pc \in Directives /\ at = 0
  /\ UNCHANGED <<tree, journal, before, torn>>
  /\ \/ pc' = pc + 1 /\ at' = 0
     \/ pc' = pc /\ at' = 1 /\ ~InPlace(pc)

\* Nothing happens to the tree, or to the run but that its phase is over.
Passes ==
  /\ UNCHANGED <<tree, before, torn, pc, at>>
  /\ \/ phase = "applying" /\ phase' = "done" /\ pc > Len(Script) /\ journal' = journal
     \/ phase = "done" /\ phase' = "removing" /\ journal' = journal
     \/ phase = "applying" /\ at = 0 /\ phase' = "idle" /\ journal' = <<>>
     \/ /\ phase = "removing" /\ journal # <<>> /\ phase' = "idle" /\ journal' = <<>>
        /\ Kind(journal[Len(journal)][1]) \in {"dep", "external"}
     \/ phase' = phase /\ journal' = journal

\* The removal takes the last entry.
Undone ==
  /\ phase = "removing" /\ phase' = "removing" /\ journal # <<>>
  /\ tree' = [tree EXCEPT ![journal[Len(journal)][2]] = "absent"]
  /\ journal' = SubSeq(journal, 1, Len(journal) - 1)
  /\ UNCHANGED <<before, torn, pc, at>>

\* A run begins.
Starts ==
  /\ phase # "applying" /\ (phase = "removing" => journal = <<>>)
  /\ phase' = "applying" /\ pc' = 1 /\ at' = 0 /\ journal' = <<>> /\ before' = tree
  /\ UNCHANGED <<tree, torn>>

\* A step, for the tree and the journal.
Steps ==
  \/ Starts \/ Moves \/ Passes \/ Undone
  \/ \E d \in Directives : Writes(d) \/ Breaks(d)

LEMMA NextSteps ==
  ASSUME SkillsTypeOK, [SkillsNext]_skillVars
  PROVE  Steps
<1>1. CASE UNCHANGED skillVars
  BY <1>1 DEF skillVars, Steps, Passes
<1>2. CASE Begin
  BY <1>2 DEF Begin, Steps, Starts
<1>3. CASE Return \/ RemoveSkill
  BY <1>3 DEF Return, RemoveSkill, Steps, Passes
<1>4. CASE Killed
  <2>1. CASE at > 0
    <3>1. pc \in Directives /\ at \in DOMAIN Body(pc) /\ tree' \in Half(pc)
      BY <1>4, <2>1 DEF Killed, SkillsTypeOK
    <3>2. tree' \in [Items -> Conditions] /\ Halves(pc)
      BY <3>1, HalfIs
    <3>3. Breaks(pc)
      BY <1>4, <2>1, <3>1, <3>2 DEF Killed, Breaks, Tears, Applies
    <3> QED
      BY <3>1, <3>3 DEF Steps
  <2>2. CASE ~(at > 0)
    BY <1>4, <2>2 DEF Killed, SkillsTypeOK, Steps, Passes
  <2> QED
    BY <2>1, <2>2
<1>5. CASE Undo
  BY <1>5 DEF Undo, Steps, Undone, Last, Front
<1>6. CASE UndoFails
  BY <1>6 DEF UndoFails, Steps, Passes, Last
<1>7. ASSUME NEW d \in Directives, Unguarded(d) \/ Prompt(d) \/ Operator(d)
      PROVE  Steps
  <2>1. Reaches(d) /\ Untouched /\ pc' = pc + 1 /\ at' = 0
    BY <1>7 DEF Unguarded, Prompt, Operator, Pass, Defer, Bounce
  <2> QED
    BY <2>1 DEF Reaches, Untouched, Steps, Moves
<1>8. ASSUME NEW d \in Directives, Weigh(d)
      PROVE  Steps
  <2>1. Reaches(d) /\ Untouched /\ \/ pc' = pc + 1 /\ at' = 0
                                   \/ pc' = pc /\ at' = 1 /\ ~InPlace(pc)
    BY <1>8 DEF Weigh, Pass, Bounce, Reaches
  <2> QED
    BY <2>1 DEF Reaches, Untouched, Steps, Moves
<1>9. ASSUME NEW d \in Directives, LineUnresolved(d)
      PROVE  Steps
  <2>1. Applies(d) /\ at \in DOMAIN Body(d) /\ tree' = tree
    BY <1>9 DEF LineUnresolved, At, Applies, SkillsTypeOK
  <2>2. tree' \in [Items -> Conditions] /\ Halves(d)
    BY <2>1 DEF SkillsTypeOK, Halves
  <2>3. Breaks(d)
    BY <1>9, <2>1, <2>2 DEF LineUnresolved, Defer, Breaks, Applies
  <2> QED
    BY <2>3 DEF Steps
<1>10. ASSUME NEW d \in Directives, LineFails(d)
       PROVE  Steps
  <2>1. Applies(d) /\ at \in DOMAIN Body(d) /\ tree' \in Half(d)
    BY <1>10 DEF LineFails, At, Applies, SkillsTypeOK
  <2>2. tree' \in [Items -> Conditions] /\ Halves(d)
    BY <2>1, HalfIs
  <2>3. Breaks(d)
    BY <1>10, <2>1, <2>2 DEF LineFails, Bounce, Breaks, Applies, Tears
  <2> QED
    BY <2>3 DEF Steps
<1>11. ASSUME NEW d \in Directives, Line(d)
       PROVE  Steps
  BY <1>11, LineWrites DEF Steps
<1> QED
  BY <1>1, <1>2, <1>3, <1>4, <1>5, <1>6, <1>7, <1>8, <1>9, <1>10, <1>11 DEF SkillsNext

-----------------------------------------------------------------------------
(* What becomes of the journal *)

LEMMA LogGrows ==
  ASSUME NEW S, NEW s \in Seq(S), NEW t \in Seq(S)
  PROVE  /\ s \o t \in Seq(S) /\ Len(s \o t) = Len(s) + Len(t)
         /\ DOMAIN s = 1..Len(s) /\ DOMAIN t = 1..Len(t) /\ DOMAIN (s \o t) = 1..(Len(s) + Len(t))
         /\ Len(s) \in Nat /\ Len(t) \in Nat
         /\ \A p \in 1..Len(s) : (s \o t)[p] = s[p]
         /\ \A p \in 1..Len(t) : (s \o t)[Len(s) + p] = t[p]
OBVIOUS

LEMMA JournaledIs ==
  ASSUME NEW d \in Directives, at \in DOMAIN Body(d)
  PROVE  /\ Journaled(d) \in Seq(LastingOnes \X Items)
         /\ \A p \in DOMAIN Journaled(d) : \E n \in DOMAIN Body(d) :
              Journaled(d)[p] = <<d, Item(d, n)>> /\ (AtLast(d) \/ n = at)
         /\ Kind(d) \in {"append", "json-merge", "external"} => Journaled(d) = << <<d, Item(d, at)>> >>
         /\ Kind(d) = "env-set" /\ at \in Missing(d) => Journaled(d) = << <<d, Item(d, at)>> >>
         /\ Kind(d) \in Files \cup {"dep"} /\ AtLast(d) =>
              Journaled(d) = [n \in DOMAIN Body(d) |-> <<d, Item(d, n)>>]
         /\ Kind(d) \notin Lasting => Journaled(d) = <<>>
<1>1. CASE Kind(d) \in Files \cup {"dep"}
  <2>1. d \in LastingOnes
    BY <1>1 DEF LastingOnes, Lasting, Files
  <2>2. CASE AtLast(d)
    <3>1. Journaled(d) = [n \in DOMAIN Body(d) |-> <<d, Item(d, n)>>]
      BY <1>1, <2>2 DEF Journaled, Item, Files
    <3>2. [n \in 1..Len(Body(d)) |-> <<d, Item(d, n)>>] \in Seq(LastingOnes \X Items)
      BY <2>1, ItemsAre, ScriptIs
    <3> QED
      BY <1>1, <2>1, <2>2, <3>1, <3>2, ScriptIs, LastingAre DEF Files
  <2>3. CASE ~AtLast(d)
    BY <1>1, <2>1, <2>3, LastingAre DEF Journaled, Files
  <2> QED
    BY <2>2, <2>3
<1>2. CASE Kind(d) \in {"append", "json-merge", "external"}
  <2>1. d \in LastingOnes
    BY <1>2 DEF LastingOnes, Lasting, Files
  <2>2. Journaled(d) = << <<d, Item(d, at)>> >>
    BY <1>2 DEF Journaled, Files, Item
  <2>3. <<d, Item(d, at)>> \in LastingOnes \X Items
    BY <2>1, ItemsAre
  <2> QED
    BY <1>2, <2>1, <2>2, <2>3, LastingAre DEF Files
<1>3. CASE Kind(d) = "env-set"
  <2>1. d \in LastingOnes
    BY <1>3 DEF LastingOnes, Lasting, Files
  <2>2. Journaled(d) = IF at \in Missing(d) THEN << <<d, Item(d, at)>> >> ELSE <<>>
    BY <1>3 DEF Journaled, Files, Item
  <2>3. <<d, Item(d, at)>> \in LastingOnes \X Items
    BY <2>1, ItemsAre
  <2>4. Kind(d) \in Lasting /\ Kind(d) \notin Files \cup {"dep"} /\ Kind(d) \notin {"append", "json-merge", "external"}
    BY <1>3 DEF Files, Lasting
  <2>5. CASE at \in Missing(d)
    <3>1. Journaled(d) = << <<d, Item(d, at)>> >>
      BY <2>2, <2>5
    <3>2. Journaled(d) \in Seq(LastingOnes \X Items)
      BY ONLY <2>3, <3>1
    <3>3. \A p \in DOMAIN Journaled(d) : Journaled(d)[p] = <<d, Item(d, at)>>
      BY ONLY <3>1
    <3> QED
      BY <2>4, <2>5, <3>1, <3>2, <3>3
  <2>6. CASE at \notin Missing(d)
    <3>1. Journaled(d) = <<>>
      BY <2>2, <2>6
    <3> QED
      BY <2>4, <2>6, <3>1
  <2> QED
    BY <2>5, <2>6
<1>4. CASE Kind(d) \notin Lasting
  BY <1>4 DEF Journaled, Lasting, Files
<1> QED
  BY <1>1, <1>2, <1>3, <1>4 DEF Lasting

LEMMA WritesLog ==
  ASSUME SkillsTypeOK, NEW d \in Directives, Writes(d)
  PROVE  /\ journal' \in Seq(LastingOnes \X Items)
         /\ \A p \in DOMAIN journal : p \in DOMAIN journal' /\ journal'[p] = journal[p]
         /\ \A p \in DOMAIN journal' : p \in DOMAIN journal
              \/ \E n \in DOMAIN Body(d) : journal'[p] = <<d, Item(d, n)>> /\ (AtLast(d) \/ n = at)
         /\ \A e \in LastingOnes : \A n \in DOMAIN Body(e) : Logged(e, n) => Logged(e, n)'
         /\ Kind(d) \in {"append", "json-merge", "external"}
              => /\ Len(journal') = Len(journal) + 1 /\ journal'[Len(journal) + 1] = <<d, Item(d, at)>>
                 /\ \A n \in DOMAIN Body(d) : n = at => Logged(d, n)'
         /\ Kind(d) = "env-set" /\ at \in Missing(d) => \A n \in DOMAIN Body(d) : n = at => Logged(d, n)'
         /\ Kind(d) \in Files \cup {"dep"} /\ AtLast(d) => \A n \in DOMAIN Body(d) : Logged(d, n)'
         /\ Kind(d) \notin Lasting => journal' = journal
<1> DEFINE new == Journaled(d)
<1>1. journal \in Seq(LastingOnes \X Items) /\ at \in DOMAIN Body(d) /\ journal' = journal \o new
  BY DEF SkillsTypeOK, Writes
<1>2. new \in Seq(LastingOnes \X Items)
  BY <1>1, JournaledIs
<1>3. /\ \A p \in DOMAIN new : \E n \in DOMAIN Body(d) :
           new[p] = <<d, Item(d, n)>> /\ (AtLast(d) \/ n = at)
      /\ Kind(d) \in {"append", "json-merge", "external"} => new = << <<d, Item(d, at)>> >>
      /\ Kind(d) = "env-set" /\ at \in Missing(d) => new = << <<d, Item(d, at)>> >>
      /\ Kind(d) \in Files \cup {"dep"} /\ AtLast(d) => new = [n \in DOMAIN Body(d) |-> <<d, Item(d, n)>>]
      /\ Kind(d) \notin Lasting => new = <<>>
  BY <1>1, JournaledIs
<1> HIDE DEF new
<1>4. /\ journal' \in Seq(LastingOnes \X Items) /\ Len(journal') = Len(journal) + Len(new)
      /\ DOMAIN journal = 1..Len(journal) /\ DOMAIN new = 1..Len(new)
      /\ DOMAIN journal' = 1..(Len(journal) + Len(new))
      /\ Len(journal) \in Nat /\ Len(new) \in Nat
      /\ \A p \in 1..Len(journal) : journal'[p] = journal[p]
      /\ \A p \in 1..Len(new) : journal'[Len(journal) + p] = new[p]
  BY <1>1, <1>2, LogGrows
<1>5. \A p \in DOMAIN journal : p \in DOMAIN journal' /\ journal'[p] = journal[p]
  BY <1>4
<1>6. \A p \in DOMAIN journal' : p \in DOMAIN journal \/ \E q \in DOMAIN new : journal'[p] = new[q]
  <2> TAKE p \in DOMAIN journal'
  <2>1. CASE p > Len(journal)
    <3>1. p - Len(journal) \in DOMAIN new /\ Len(journal) + (p - Len(journal)) = p
      BY <1>4, <2>1
    <3> QED
      BY <1>4, <3>1
  <2> QED
    BY <1>4, <2>1
<1>7. ASSUME NEW q \in DOMAIN new
      PROVE  \E p \in DOMAIN journal' : journal'[p] = new[q]
  <2>1. Len(journal) + q \in DOMAIN journal' /\ journal'[Len(journal) + q] = new[q]
    BY <1>4
  <2> QED
    BY <2>1
<1>8. ASSUME new = << <<d, Item(d, at)>> >>
      PROVE  /\ Len(journal') = Len(journal) + 1 /\ journal'[Len(journal) + 1] = <<d, Item(d, at)>>
             /\ \E p \in DOMAIN journal' : journal'[p] = <<d, Item(d, at)>>
  <2>1. Len(new) = 1 /\ new[1] = <<d, Item(d, at)>>
    BY <1>8
  <2>2. 1 \in DOMAIN new
    BY <1>4, <2>1
  <2>3. Len(journal') = Len(journal) + 1 /\ journal'[Len(journal) + 1] = new[1]
    BY <1>4, <2>1
  <2> QED
    BY <1>7, <2>1, <2>2, <2>3
<1>9. ASSUME new = [n \in DOMAIN Body(d) |-> <<d, Item(d, n)>>], NEW n \in DOMAIN Body(d)
      PROVE  \E p \in DOMAIN journal' : journal'[p] = <<d, Item(d, n)>>
  BY <1>7, <1>9
<1>10. new = <<>> => journal' = journal
  BY ONLY <1>1, <1>4
<1>11. \A e \in LastingOnes : \A n \in DOMAIN Body(e) : Logged(e, n) => Logged(e, n)'
  BY <1>5 DEF Logged
<1>12. ASSUME new = << <<d, Item(d, at)>> >>, NEW n \in DOMAIN Body(d), n = at
       PROVE  Logged(d, n)'
  BY <1>8, <1>12 DEF Logged
<1>13. Kind(d) \in Files \cup {"dep"} /\ AtLast(d) => \A n \in DOMAIN Body(d) : Logged(d, n)'
  BY <1>3, <1>9 DEF Logged
<1>14. \A p \in DOMAIN journal' : p \in DOMAIN journal
         \/ \E n \in DOMAIN Body(d) : journal'[p] = <<d, Item(d, n)>> /\ (AtLast(d) \/ n = at)
  BY <1>3, <1>6
<1>15. Kind(d) \in {"append", "json-merge", "external"} =>
         Len(journal') = Len(journal) + 1 /\ journal'[Len(journal) + 1] = <<d, Item(d, at)>>
  BY <1>3, <1>8
<1>16. Kind(d) \notin Lasting => journal' = journal
  BY <1>3, <1>10
<1> QED
  BY <1>3, <1>4, <1>5, <1>11, <1>12, <1>13, <1>14, <1>15, <1>16

LEMMA UndoneIs ==
  ASSUME SkillsTypeOK, LoggedIsPast, Undone
  PROVE  \E d \in LastingOnes : \E n \in DOMAIN Body(d) :
           /\ journal[Len(journal)] = <<d, Item(d, n)>>
           /\ Len(journal) \in DOMAIN journal /\ DOMAIN journal = 1..Len(journal) /\ Len(journal) \in Nat
           /\ \A e \in LastingOnes : \A m \in DOMAIN Body(e) :
                tree'[Item(e, m)] = IF e = d /\ m = n THEN "absent" ELSE tree[Item(e, m)]
           /\ journal' \in Seq(LastingOnes \X Items) /\ Len(journal') = Len(journal) - 1
           /\ DOMAIN journal' = 1..(Len(journal) - 1)
           /\ \A p \in DOMAIN journal' : p \in DOMAIN journal /\ journal'[p] = journal[p]
           /\ \A e \in LastingOnes : \A m \in DOMAIN Body(e) :
                /\ Logged(e, m)' => Logged(e, m)
                /\ Logged(e, m) /\ <<e, m>> # <<d, n>> => Logged(e, m)'
<1>1. /\ journal \in Seq(LastingOnes \X Items) /\ journal # <<>>
      /\ tree \in [Items -> Conditions]
      /\ tree' = [tree EXCEPT ![journal[Len(journal)][2]] = "absent"]
      /\ journal' = SubSeq(journal, 1, Len(journal) - 1)
  BY DEF SkillsTypeOK, Undone
<1>2. Len(journal) \in DOMAIN journal /\ DOMAIN journal = 1..Len(journal) /\ Len(journal) \in Nat \ {0}
  BY ONLY <1>1
<1>3. journal[Len(journal)] \in LastingOnes \X Items
  BY ONLY <1>1, <1>2
<1>10. PICK d \in LastingOnes : \E n \in DOMAIN Body(d) : journal[Len(journal)] = <<d, Item(d, n)>>
  <2>1. journal[Len(journal)] = <<journal[Len(journal)][1], journal[Len(journal)][2]>>
    BY <1>3
  <2> QED
    BY <1>2, <1>3, <2>1 DEF LoggedIsPast
<1>4. PICK n \in DOMAIN Body(d) : journal[Len(journal)] = <<d, Item(d, n)>>
  BY <1>10
<1>5. \A e \in LastingOnes : \A m \in DOMAIN Body(e) :
        tree'[Item(e, m)] = IF e = d /\ m = n THEN "absent" ELSE tree[Item(e, m)]
  <2>1. \A e \in LastingOnes : \A m \in DOMAIN Body(e) : Item(e, m) = Item(d, n) => e = d /\ m = n
    BY Distinct, LastingAre
  <2> QED
    BY <1>1, <1>4, <2>1, ItemsAre
<1>6. /\ journal' \in Seq(LastingOnes \X Items) /\ Len(journal') = Len(journal) - 1
      /\ DOMAIN journal' = 1..(Len(journal) - 1)
      /\ \A p \in DOMAIN journal' : p \in DOMAIN journal /\ journal'[p] = journal[p]
  BY ONLY <1>1, <1>2
<1>7. ASSUME NEW e \in LastingOnes, NEW m \in DOMAIN Body(e)
      PROVE  /\ Logged(e, m)' => Logged(e, m)
             /\ Logged(e, m) /\ <<e, m>> # <<d, n>> => Logged(e, m)'
  <2>1. Logged(e, m)' => Logged(e, m)
    BY <1>6 DEF Logged
  <2>2. ASSUME Logged(e, m), <<e, m>> # <<d, n>>
        PROVE  Logged(e, m)'
    <3>1. PICK p \in DOMAIN journal : journal[p] = <<e, Item(e, m)>>
      BY <2>2 DEF Logged
    <3>2. <<e, Item(e, m)>> # <<d, Item(d, n)>>
      BY <2>2, Distinct, LastingAre
    <3>3. p # Len(journal)
      BY <1>4, <3>1, <3>2
    <3>4. p \in DOMAIN journal'
      BY <1>2, <1>6, <3>3
    <3> QED
      BY <1>6, <3>1, <3>4 DEF Logged
  <2> QED
    BY <2>1, <2>2
<1> QED
  BY <1>2, <1>4, <1>5, <1>6, <1>7

-----------------------------------------------------------------------------
(* What the steps preserve: the tree *)

LEMMA LinesAre ==
  ASSUME NEW d \in Directives
  PROVE  /\ DOMAIN Body(d) = 1..Len(Body(d)) /\ Len(Body(d)) \in Nat \ {0} /\ d \in Nat
         /\ 1 \in DOMAIN Body(d)
         /\ \A n \in DOMAIN Body(d) : n \in Nat /\ n >= 1 /\ n <= Len(Body(d))
BY ScriptIs

LEMMA SortsStep ==
  ASSUME SkillsInv, Steps
  PROVE  Sorts'
<1> USE LastingAre
<1>1. CASE Starts \/ Moves \/ Passes
  BY <1>1 DEF SkillsInv, Sorts, Starts, Moves, Passes
<1>2. CASE Undone
  BY <1>2, UndoneIs DEF SkillsInv, Sorts, Undone
<1>3. ASSUME NEW d \in Directives, Writes(d), NEW e \in LastingOnes, NEW n \in DOMAIN Body(e)
      PROVE  /\ tree'[Item(e, n)] \in IF e \in Appends THEN {"absent", "mine", "skill", "both"}
                                      ELSE {"absent", "mine", "skill", "empty"}
             /\ tree'[Item(e, n)] = "empty" => Kind(e) = "env-set" \/ (Kind(e) = "fetch" /\ e \in torn')
  <2>1. tree'[Item(e, n)] = IF e = d /\ (n = at \/ Kind(d) = "dep")
                            THEN Written(d, tree[Item(e, n)]) ELSE tree[Item(e, n)]
    BY <1>3 DEF Writes
  <2>2. /\ tree[Item(e, n)] \in IF e \in Appends THEN {"absent", "mine", "skill", "both"}
                                ELSE {"absent", "mine", "skill", "empty"}
        /\ tree[Item(e, n)] = "empty" => Kind(e) = "env-set" \/ (Kind(e) = "fetch" /\ e \in torn)
    BY DEF SkillsInv, Sorts
  <2>3. CASE e = d /\ (n = at \/ Kind(d) = "dep")
    <3>1. tree[Item(e, n)] \in Conditions
      BY <2>2 DEF Conditions
    <3>2. e \in Appends => tree[Item(e, n)] \in {"absent", "mine"}
      BY <1>3, <2>2, <2>3, LinesAre DEF SkillsInv, LinesAhead, Ours, Writes
    <3> QED
      BY <2>1, <2>2, <2>3, <3>1, <3>2, WrittenIs
  <2>4. CASE ~(e = d /\ (n = at \/ Kind(d) = "dep"))
    <3>1. ASSUME tree[Item(e, n)] = "empty", Kind(e) = "fetch", e \notin torn'
          PROVE  FALSE
      <4>1. e = d /\ AtLast(d) /\ n # at /\ Kind(d) # "dep"
        BY <1>3, <2>2, <2>4, <3>1 DEF Writes
      <4>2. n < at
        BY <1>3, <4>1, LinesAre DEF AtLast, Writes
      <4> QED
        BY <1>3, <3>1, <4>1, <4>2 DEF SkillsInv, LinesBehind, Writes
    <3> QED
      BY <2>1, <2>2, <2>4, <3>1
  <2> QED
    BY <2>3, <2>4
<1>4. ASSUME NEW d \in Directives, Breaks(d), NEW e \in LastingOnes, NEW n \in DOMAIN Body(e)
      PROVE  /\ tree'[Item(e, n)] \in IF e \in Appends THEN {"absent", "mine", "skill", "both"}
                                      ELSE {"absent", "mine", "skill", "empty"}
             /\ tree'[Item(e, n)] = "empty" => Kind(e) = "env-set" \/ (Kind(e) = "fetch" /\ e \in torn')
  <2>1. /\ tree[Item(e, n)] \in IF e \in Appends THEN {"absent", "mine", "skill", "both"}
                                ELSE {"absent", "mine", "skill", "empty"}
        /\ tree[Item(e, n)] = "empty" => Kind(e) = "env-set" \/ (Kind(e) = "fetch" /\ e \in torn)
    BY DEF SkillsInv, Sorts
  <2>2. torn \subseteq torn' /\ (tree' # tree => d \in torn')
    BY <1>4 DEF Breaks
  <2>3. CASE tree'[Item(e, n)] = tree[Item(e, n)]
    BY <2>1, <2>2, <2>3
  <2>4. CASE tree'[Item(e, n)] # tree[Item(e, n)]
    <3>1. /\ e = d
          /\ \/ Kind(d) = "fetch" /\ tree'[Item(e, n)] = "empty"
             \/ Kind(d) \in {"copy", "dep", "external"} /\ tree'[Item(e, n)] = Written(d, tree[Item(e, n)])
      BY <1>4, <2>4 DEF Breaks, Halves
    <3>2. d \in torn'
      BY <2>2, <2>4
    <3>3. tree[Item(e, n)] \in Conditions
      BY <2>1 DEF Conditions
    <3> QED
      BY <2>1, <3>1, <3>2, <3>3, WrittenIs
  <2> QED
    BY <2>3, <2>4
<1> QED
  BY <1>1, <1>2, <1>3, <1>4 DEF Steps, Sorts

LEMMA AheadIsUntouchedStep ==
  ASSUME SkillsInv, Steps
  PROVE  AheadIsUntouched'
<1> USE LastingAre, LinesAre
<1>1. CASE Starts \/ Passes \/ Undone
  BY <1>1 DEF SkillsInv, AheadIsUntouched, Starts, Passes, Undone
<1>2. CASE Moves
  BY <1>2 DEF SkillsInv, AheadIsUntouched, Moves
<1>3. ASSUME NEW d \in Directives, Writes(d), NEW e \in LastingOnes, NEW n \in DOMAIN Body(e),
             e > pc' \/ (e = pc' /\ n >= at')
      PROVE  tree'[Item(e, n)] = before'[Item(e, n)]
  <2>1. e > pc \/ (e = pc /\ n > at /\ Kind(d) # "dep")
    BY <1>3 DEF Writes, Applies, AtLast
  <2> QED
    BY <1>3, <2>1 DEF Writes, Applies, SkillsInv, AheadIsUntouched
<1>4. ASSUME NEW d \in Directives, Breaks(d), phase' = "applying",
             NEW e \in LastingOnes, NEW n \in DOMAIN Body(e), e > pc' \/ (e = pc' /\ n >= at')
      PROVE  tree'[Item(e, n)] = before'[Item(e, n)]
  <2>1. e > pc /\ pc = d
    BY <1>4 DEF Breaks, Applies
  <2> QED
    BY <1>4, <2>1 DEF Breaks, Halves, Applies, SkillsInv, AheadIsUntouched
<1> QED
  BY <1>1, <1>2, <1>3, <1>4 DEF Steps, AheadIsUntouched

LEMMA BroughtIsKnownStep ==
  ASSUME SkillsInv, Steps
  PROVE  BroughtIsKnown'
<1> USE LastingAre, LinesAre
<1>1. CASE Starts
  BY <1>1 DEF Starts, BroughtIsKnown
<1>2. CASE Moves
  BY <1>2 DEF SkillsInv, BroughtIsKnown, Moves, Logged, Applies
<1>3. CASE Passes
  BY <1>3, ScriptIs DEF SkillsInv, BroughtIsKnown, Passes, Logged, Applies
<1>4. CASE Undone
  <2> SUFFICES ASSUME NEW e \in LastingOnes, NEW m \in DOMAIN Body(e),
                      before'[Item(e, m)] = "absent", tree'[Item(e, m)] # "absent"
               PROVE  Logged(e, m)' \/ (e \in torn' /\ Kind(e) \in Files \cup {"dep", "external"})
    BY DEF BroughtIsKnown
  <2>1. tree[Item(e, m)] # "absent" /\ (Logged(e, m) => Logged(e, m)')
    BY <1>4, UndoneIs DEF SkillsInv
  <2> QED
    BY <1>4, <2>1 DEF SkillsInv, BroughtIsKnown, Undone, Applies
<1>5. ASSUME NEW d \in Directives, Writes(d), NEW e \in LastingOnes, NEW n \in DOMAIN Body(e),
             before'[Item(e, n)] = "absent", tree'[Item(e, n)] # "absent"
      PROVE  \/ Logged(e, n)'
             \/ e \in torn' /\ Kind(e) \in Files \cup {"dep", "external"}
             \/ Applies(e)' /\ Kind(e) \in Files /\ n < at'
  <2>1. before[Item(e, n)] = "absent"
    BY <1>5 DEF Writes
  <2>2. phase = "applying" /\ pc = d /\ at \in DOMAIN Body(d) /\ at > 0
    BY <1>5 DEF Writes, Applies
  <2>3. CASE e # d
    <3>1. tree[Item(e, n)] # "absent" /\ (e \in torn => e \in torn')
      BY <1>5, <2>3 DEF Writes
    <3>2. Logged(e, n) => Logged(e, n)'
      BY <1>5, WritesLog DEF SkillsInv
    <3> QED
      BY <2>1, <2>2, <2>3, <3>1, <3>2 DEF SkillsInv, BroughtIsKnown, Applies
  <2>4. CASE e = d /\ Kind(d) \in Files \cup {"dep"}
    <3>1. CASE AtLast(d)
      BY <1>5, <2>4, <3>1, WritesLog DEF SkillsInv
    <3>2. CASE ~AtLast(d)
      <4>1. Kind(d) \in Files /\ at' = at + 1 /\ torn' = torn /\ Applies(d)'
        BY <1>5, <2>2, <2>4, <3>2 DEF Writes, AtLast, Applies
      <4>2. CASE n = at
        BY <2>2, <2>4, <4>1, <4>2
      <4>3. CASE n # at
        <5>1. tree[Item(e, n)] # "absent"
          BY <1>5, <2>4, <4>1, <4>3 DEF Writes, Files
        <5>2. Logged(e, n) => Logged(e, n)'
          BY <1>5, WritesLog DEF SkillsInv
        <5> QED
          BY <2>1, <2>2, <2>4, <4>1, <5>1, <5>2 DEF SkillsInv, BroughtIsKnown
      <4> QED
        BY <4>2, <4>3
    <3> QED
      BY <3>1, <3>2
  <2>5. CASE e = d /\ Kind(d) \notin Files \cup {"dep"}
    <3>1. CASE n = at
      <4>1. tree[Item(e, n)] = "absent"
        BY <2>1, <2>2, <2>5, <3>1 DEF SkillsInv, AheadIsUntouched
      <4>2. Kind(d) = "env-set" => at \in Missing(d)
        BY <2>2, <2>5, <3>1, <4>1 DEF Missing, Item
      <4>3. Kind(d) \in {"append", "json-merge", "external", "env-set"}
        BY <2>5 DEF Lasting
      <4> QED
        BY <1>5, <2>5, <3>1, <4>2, <4>3, WritesLog DEF SkillsInv
    <3>2. CASE n # at
      <4>1. tree[Item(e, n)] # "absent"
        BY <1>5, <2>5, <3>2 DEF Writes
      <4>2. Logged(e, n) => Logged(e, n)'
        BY <1>5, WritesLog DEF SkillsInv
      <4>3. Logged(e, n) \/ (d \in torn /\ Kind(d) = "external")
        BY <2>1, <2>2, <2>5, <4>1 DEF SkillsInv, BroughtIsKnown
      <4>4. CASE d \in torn /\ Kind(d) = "external" /\ AtLast(d)
        <5>1. n < at
          BY <2>2, <2>5, <3>2, <4>4 DEF AtLast
        <5> QED
          BY <2>2, <2>5, <4>2, <4>4, <5>1 DEF SkillsInv, LinesBehind, Applies
      <4>5. CASE d \in torn /\ Kind(d) = "external" /\ ~AtLast(d)
        BY <1>5, <2>5, <4>5 DEF Writes
      <4> QED
        BY <4>2, <4>3, <4>4, <4>5
    <3> QED
      BY <3>1, <3>2
  <2> QED
    BY <2>3, <2>4, <2>5
<1>6. ASSUME NEW d \in Directives, Breaks(d), phase' # "idle", NEW e \in LastingOnes, NEW n \in DOMAIN Body(e),
             before'[Item(e, n)] = "absent", tree'[Item(e, n)] # "absent"
      PROVE  \/ Logged(e, n)'
             \/ e \in torn' /\ Kind(e) \in Files \cup {"dep", "external"}
  <2>1. /\ before[Item(e, n)] = "absent" /\ journal' = journal /\ torn \subseteq torn'
        /\ phase = "applying" /\ pc = d /\ at \in DOMAIN Body(d) /\ at > 0
    BY <1>6 DEF Breaks, Applies
  <2>2. Logged(e, n) => Logged(e, n)'
    BY <2>1 DEF Logged
  <2>3. CASE e # d \/ Kind(d) \notin Files \cup {"dep", "external"}
    <3>1. tree[Item(e, n)] # "absent"
      BY <1>6, <2>3 DEF Breaks, Halves, Files
    <3> QED
      BY <2>1, <2>2, <2>3, <3>1 DEF SkillsInv, BroughtIsKnown, Applies, Files
  <2>4. CASE e = d /\ Kind(d) \in Files \cup {"dep", "external"} /\ (at > 1 \/ tree' # tree)
    BY <1>6, <2>4 DEF Breaks
  <2>5. CASE e = d /\ at = 1 /\ tree' = tree
    BY <1>6, <2>1, <2>5 DEF SkillsInv, AheadIsUntouched
  <2> QED
    BY <2>1, <2>3, <2>4, <2>5
<1> QED
  BY <1>1, <1>2, <1>3, <1>4, <1>5, <1>6 DEF Steps, BroughtIsKnown

LEMMA InPlaceIf ==
  ASSUME NEW d \in LastingOnes, Kind(d) # "external",
         \A n \in DOMAIN Body(d) : tree[Item(d, n)] \notin {"absent", "empty"}
  PROVE  InPlace(d)
BY LastingAre DEF InPlace, Missing, Lasting, Item

LEMMA FoundIsKeptStep ==
  ASSUME SkillsInv, Steps
  PROVE  FoundIsKept'
<1> SUFFICES ASSUME phase' # "idle", NEW e \in LastingOnes, Kind(e) # "external",
                    \A n \in DOMAIN Body(e) : before'[Item(e, n)] \notin {"absent", "empty"}
             PROVE  /\ \A n \in DOMAIN Body(e) : tree'[Item(e, n)] = before'[Item(e, n)]
                    /\ ~Applies(e)'
                    /\ \A p \in DOMAIN journal' : journal'[p][1] # e
  BY DEF FoundIsKept
<1> USE LastingAre, LinesAre
<1>1. CASE Starts
  BY <1>1 DEF Starts, Applies
<1>2. ASSUME phase # "idle", before' = before
      PROVE  /\ \A n \in DOMAIN Body(e) : tree[Item(e, n)] = before[Item(e, n)]
             /\ ~Applies(e)
             /\ \A p \in DOMAIN journal : journal[p][1] # e
  BY <1>2 DEF SkillsInv, FoundIsKept
<1>3. CASE Moves
  <2>1. InPlace(e)
    BY <1>2, <1>3, InPlaceIf DEF Moves
  <2> QED
    BY <1>2, <1>3, <2>1 DEF Moves, Applies
<1>4. CASE Passes
  BY <1>2, <1>4 DEF Passes, Applies
<1>5. CASE Undone
  BY <1>2, <1>5, UndoneIs DEF SkillsInv, Undone, Applies
<1>6. ASSUME NEW d \in Directives, Writes(d)
      PROVE  /\ \A n \in DOMAIN Body(e) : tree'[Item(e, n)] = before'[Item(e, n)]
             /\ ~Applies(e)'
             /\ \A p \in DOMAIN journal' : journal'[p][1] # e
  <2>1. phase # "idle" /\ before' = before /\ e # d /\ pc = d
    BY <1>2, <1>6 DEF Writes, Applies
  <2>2. \A p \in DOMAIN journal' : journal'[p][1] # e
    BY <1>2, <1>6, <2>1, WritesLog DEF SkillsInv
  <2>3. ~Applies(e)'
    BY <1>6, <2>1 DEF Writes, Applies
  <2> QED
    BY <1>2, <1>6, <2>1, <2>2, <2>3 DEF Writes
<1>7. ASSUME NEW d \in Directives, Breaks(d)
      PROVE  /\ \A n \in DOMAIN Body(e) : tree'[Item(e, n)] = before'[Item(e, n)]
             /\ ~Applies(e)'
             /\ \A p \in DOMAIN journal' : journal'[p][1] # e
  <2>1. phase # "idle" /\ before' = before /\ e # d /\ journal' = journal /\ at' = 0
    BY <1>2, <1>7 DEF Breaks, Applies
  <2> QED
    BY <1>2, <1>7, <2>1 DEF Breaks, Halves, Applies
<1> QED
  BY <1>1, <1>3, <1>4, <1>5, <1>6, <1>7 DEF Steps

-----------------------------------------------------------------------------
(* What the steps preserve: the journal, and the lines of an append *)

LEMMA LoggedIsPastStep ==
  ASSUME SkillsInv, Steps
  PROVE  LoggedIsPast'
<1> USE LastingAre, LinesAre
<1>0. LoggedIsPast /\ SkillsTypeOK
  BY DEF SkillsInv
<1>5. \A p \in DOMAIN journal : journal[p][1] \in Directives
  BY <1>0 DEF SkillsTypeOK
<1>6. CASE Starts \/ Passes
  BY <1>0, <1>6 DEF LoggedIsPast, Starts, Passes
<1>7. CASE Moves
  BY <1>0, <1>5, <1>7 DEF LoggedIsPast, Moves
<1>2. CASE Undone
  BY <1>0, <1>2, UndoneIs DEF LoggedIsPast, Undone
<1>3. ASSUME NEW d \in Directives, Writes(d), NEW p \in DOMAIN journal'
      PROVE  \E n \in DOMAIN Body(journal'[p][1]) :
               /\ journal'[p][2] = Item(journal'[p][1], n)
               /\ journal'[p][1] < pc' \/ (journal'[p][1] = pc' /\ n < at')
  <2>1. phase = "applying" /\ pc = d /\ at \in DOMAIN Body(d)
    BY <1>3 DEF Writes, Applies
  <2>2. CASE p \in DOMAIN journal
    <3>1. journal'[p] = journal[p]
      BY <1>0, <1>3, <2>2, WritesLog
    <3>2. PICK n \in DOMAIN Body(journal[p][1]) :
            /\ journal[p][2] = Item(journal[p][1], n)
            /\ journal[p][1] < pc \/ (journal[p][1] = pc /\ n < at)
      BY <1>0, <2>1, <2>2 DEF LoggedIsPast
    <3>3. journal[p][1] \in Directives
      BY <1>0, <2>2 DEF SkillsTypeOK
    <3>4. \/ pc' = pc + 1
          \/ pc' = pc /\ at' = at + 1
      BY <1>3 DEF Writes
    <3>5. journal[p][1] < pc' \/ (journal[p][1] = pc' /\ n < at')
      BY <2>1, <3>2, <3>3, <3>4
    <3> QED
      BY <3>1, <3>2, <3>5
  <2>3. CASE p \notin DOMAIN journal
    <3>1. PICK n \in DOMAIN Body(d) : journal'[p] = <<d, Item(d, n)>> /\ (AtLast(d) \/ n = at)
      BY <1>0, <1>3, <2>3, WritesLog
    <3>2. d < pc' \/ (d = pc' /\ n < at')
      BY <1>3, <2>1, <3>1 DEF Writes
    <3> QED
      BY <3>1, <3>2
  <2> QED
    BY <2>2, <2>3
<1>4. ASSUME NEW d \in Directives, Breaks(d)
      PROVE  LoggedIsPast'
  <2>1. CASE journal' = <<>>
    BY <2>1 DEF LoggedIsPast
  <2>2. CASE journal' = journal /\ phase' = "applying" /\ pc' = pc + 1
    <3>1. phase = "applying" /\ pc = d
      BY <1>4 DEF Breaks, Applies
    <3>2. \A p \in DOMAIN journal : journal[p][1] \in Directives
      BY <1>0 DEF SkillsTypeOK
    <3> QED
      BY <1>0, <2>2, <3>1, <3>2 DEF LoggedIsPast
  <2> QED
    BY <1>4, <2>1, <2>2 DEF Breaks
<1> QED
  BY <1>2, <1>3, <1>4, <1>6, <1>7 DEF Steps, LoggedIsPast, Writes

\* An entry of an append is an old one, or the line that is written.
LEMMA EntryIs ==
  ASSUME SkillsInv, NEW d \in Directives, Writes(d),
         NEW e \in Appends, NEW n \in DOMAIN Body(e), NEW p \in DOMAIN journal',
         journal'[p] = <<e, Item(e, n)>>
  PROVE  \/ p \in DOMAIN journal /\ journal[p] = <<e, Item(e, n)>>
         \/ e = d /\ n = at /\ p = Len(journal) + 1 /\ Len(journal') = Len(journal) + 1
<1> USE LastingAre, LinesAre
<1>1. SkillsTypeOK
  BY DEF SkillsInv
<1>2. CASE p \in DOMAIN journal
  BY <1>1, <1>2, WritesLog
<1>3. CASE p \notin DOMAIN journal
  <2>1. PICK m \in DOMAIN Body(d) : journal'[p] = <<d, Item(d, m)>> /\ (AtLast(d) \/ m = at)
    BY <1>1, <1>3, WritesLog
  <2>2. e = d /\ n = m
    BY <2>1, Distinct
  <2>3. journal' \in Seq(LastingOnes \X Items) /\ journal \in Seq(LastingOnes \X Items)
    BY <1>1, WritesLog DEF SkillsTypeOK
  <2>4. Len(journal') = Len(journal) + 1 /\ journal'[Len(journal) + 1] = <<d, Item(d, at)>>
    BY <1>1, <2>2, WritesLog
  <2>5. p = Len(journal) + 1
    BY ONLY <1>3, <2>3, <2>4
  <2>6. m = at
    BY <2>1, <2>2, <2>4, <2>5, Distinct DEF Writes
  <2> QED
    BY <2>2, <2>4, <2>5, <2>6
<1> QED
  BY <1>2, <1>3

LEMMA LoggedInOrderStep ==
  ASSUME SkillsInv, Steps
  PROVE  LoggedInOrder'
<1> USE LastingAre, LinesAre
<1>1. CASE Starts \/ Moves \/ Passes
  BY <1>1 DEF SkillsInv, LoggedInOrder, Starts, Moves, Passes
<1>2. CASE Undone
  <2>1. \A p \in DOMAIN journal' : p \in DOMAIN journal /\ journal'[p] = journal[p]
    BY <1>2, UndoneIs DEF SkillsInv
  <2> QED
    BY <2>1 DEF SkillsInv, LoggedInOrder
<1>3. ASSUME NEW d \in Directives, Breaks(d)
      PROVE  LoggedInOrder'
  BY <1>3 DEF SkillsInv, LoggedInOrder, Breaks
<1>4. ASSUME NEW d \in Directives, Writes(d), NEW e \in Appends, NEW n \in DOMAIN Body(e),
             NEW m \in DOMAIN Body(e), NEW p \in DOMAIN journal', NEW q \in DOMAIN journal',
             p < q, journal'[p] = <<e, Item(e, n)>>, journal'[q] = <<e, Item(e, m)>>
      PROVE  n < m
  <2>1. SkillsTypeOK /\ LoggedInOrder /\ LoggedIsPast
    BY DEF SkillsInv
  <2>2. journal \in Seq(LastingOnes \X Items)
    BY <2>1 DEF SkillsTypeOK
  <2>3. \/ p \in DOMAIN journal /\ journal[p] = <<e, Item(e, n)>>
        \/ e = d /\ n = at /\ p = Len(journal) + 1 /\ Len(journal') = Len(journal) + 1
    BY <1>4, EntryIs
  <2>4. \/ q \in DOMAIN journal /\ journal[q] = <<e, Item(e, m)>>
        \/ e = d /\ m = at /\ q = Len(journal) + 1 /\ Len(journal') = Len(journal) + 1
    BY <1>4, EntryIs
  <2>5. journal' \in Seq(LastingOnes \X Items)
    BY <1>4, <2>1, WritesLog
  <2>6. p \in DOMAIN journal /\ journal[p] = <<e, Item(e, n)>>
    <3>1. ASSUME p = Len(journal) + 1, Len(journal') = Len(journal) + 1
          PROVE  FALSE
      BY ONLY <1>4, <2>2, <2>5, <3>1
    <3> QED
      BY <2>3, <3>1
  <2>7. CASE q \in DOMAIN journal /\ journal[q] = <<e, Item(e, m)>>
    BY <1>4, <2>1, <2>6, <2>7 DEF LoggedInOrder
  <2>8. CASE e = d /\ m = at
    <3>1. phase = "applying" /\ pc = d
      BY <1>4 DEF Writes, Applies
    <3>2. PICK k \in DOMAIN Body(e) : Item(e, n) = Item(e, k) /\ (e < pc \/ (e = pc /\ k < at))
      BY <2>1, <2>6, <3>1 DEF LoggedIsPast
    <3>3. n = k
      BY <3>2, Distinct
    <3> QED
      BY <2>8, <3>1, <3>2, <3>3
  <2> QED
    BY <2>4, <2>7, <2>8
<1> QED
  BY <1>1, <1>2, <1>3, <1>4 DEF Steps, LoggedInOrder

LEMMA LoggedInRowStep ==
  ASSUME SkillsInv, Steps
  PROVE  LoggedInRow'
<1> USE LastingAre, LinesAre
<1>1. CASE Starts \/ Moves \/ Passes
  BY <1>1 DEF SkillsInv, LoggedInRow, Starts, Moves, Passes
<1>2. CASE Undone
  <2> SUFFICES ASSUME NEW e \in Appends, NEW n \in DOMAIN Body(e), NEW p \in DOMAIN journal',
                      journal'[p] = <<e, Item(e, n)>>, n > 1
               PROVE  p > 1 /\ journal'[p - 1] = <<e, Item(e, n - 1)>>
    BY DEF LoggedInRow
  <2>1. /\ DOMAIN journal' = 1..(Len(journal) - 1) /\ Len(journal) \in Nat
        /\ \A q \in DOMAIN journal' : q \in DOMAIN journal /\ journal'[q] = journal[q]
    BY <1>2, UndoneIs DEF SkillsInv
  <2>2. p \in DOMAIN journal /\ journal[p] = <<e, Item(e, n)>>
    BY <2>1
  <2>3. p > 1 /\ journal[p - 1] = <<e, Item(e, n - 1)>>
    BY <2>2 DEF SkillsInv, LoggedInRow
  <2>4. p - 1 \in DOMAIN journal'
    BY ONLY <2>1, <2>3
  <2> QED
    BY <2>1, <2>3, <2>4
<1>3. ASSUME NEW d \in Directives, Breaks(d)
      PROVE  LoggedInRow'
  BY <1>3 DEF SkillsInv, LoggedInRow, Breaks
<1>4. ASSUME NEW d \in Directives, Writes(d), NEW e \in Appends, NEW n \in DOMAIN Body(e),
             NEW p \in DOMAIN journal', journal'[p] = <<e, Item(e, n)>>, n > 1
      PROVE  p > 1 /\ journal'[p - 1] = <<e, Item(e, n - 1)>>
  <2>1. SkillsTypeOK /\ LoggedInRow /\ LinesAhead
    BY DEF SkillsInv
  <2>2. journal \in Seq(LastingOnes \X Items) /\ DOMAIN journal = 1..Len(journal) /\ Len(journal) \in Nat
    BY <2>1 DEF SkillsTypeOK
  <2>3. \A q \in DOMAIN journal : journal'[q] = journal[q]
    BY <1>4, <2>1, WritesLog
  <2>4. CASE p \in DOMAIN journal /\ journal[p] = <<e, Item(e, n)>>
    <3>1. p > 1 /\ journal[p - 1] = <<e, Item(e, n - 1)>>
      BY <1>4, <2>1, <2>4 DEF LoggedInRow
    <3>2. p - 1 \in DOMAIN journal
      BY ONLY <2>2, <2>4, <3>1
    <3> QED
      BY <2>3, <3>1, <3>2
  <2>5. CASE e = d /\ n = at /\ p = Len(journal) + 1
    <3>1. n - 1 \in DOMAIN Body(e) /\ n - 1 = at - 1
      BY <1>4, <2>5
    <3>2. journal # <<>> /\ journal[Len(journal)] = <<e, Item(e, n - 1)>>
      BY <1>4, <2>1, <2>5, <3>1 DEF LinesAhead, Writes
    <3>3. Len(journal) > 0
      BY ONLY <2>2, <3>2
    <3>4. Len(journal) \in DOMAIN journal /\ p - 1 = Len(journal) /\ p > 1
      BY <2>2, <2>5, <3>3
    <3> QED
      BY <2>3, <3>2, <3>4
  <2> QED
    BY <1>4, <2>4, <2>5, EntryIs
<1> QED
  BY <1>1, <1>2, <1>3, <1>4 DEF Steps, LoggedInRow

\* The lines of an append change only by being written and undone.
LEMMA AppendsKept ==
  ASSUME NEW d \in Directives, Breaks(d), NEW e \in Appends, NEW n \in DOMAIN Body(e)
  PROVE  tree'[Item(e, n)] = tree[Item(e, n)]
BY LastingAre DEF Breaks, Halves

LEMMA LinesInOrderStep ==
  ASSUME SkillsInv, Steps
  PROVE  LinesInOrder'
<1> USE LastingAre, LinesAre
<1>1. CASE Starts \/ Moves \/ Passes
  BY <1>1 DEF SkillsInv, LinesInOrder, Starts, Moves, Passes
<1>2. ASSUME NEW d \in Directives, Breaks(d)
      PROVE  LinesInOrder'
  BY <1>2, AppendsKept DEF SkillsInv, LinesInOrder
<1>3. ASSUME Undone, NEW e \in Appends, NEW n \in DOMAIN Body(e), NEW m \in DOMAIN Body(e),
             n < m, Ours(tree'[Item(e, m)])
      PROVE  Ours(tree'[Item(e, n)])
  <2>1. PICK d \in LastingOnes : \E k \in DOMAIN Body(d) :
          /\ journal[Len(journal)] = <<d, Item(d, k)>>
          /\ Len(journal) \in DOMAIN journal /\ DOMAIN journal = 1..Len(journal) /\ Len(journal) \in Nat
          /\ \A x \in LastingOnes : \A y \in DOMAIN Body(x) :
               tree'[Item(x, y)] = IF x = d /\ y = k THEN "absent" ELSE tree[Item(x, y)]
    BY <1>3, UndoneIs DEF SkillsInv
  <2>2. PICK k \in DOMAIN Body(d) :
          /\ journal[Len(journal)] = <<d, Item(d, k)>>
          /\ Len(journal) \in DOMAIN journal /\ DOMAIN journal = 1..Len(journal) /\ Len(journal) \in Nat
          /\ \A x \in LastingOnes : \A y \in DOMAIN Body(x) :
               tree'[Item(x, y)] = IF x = d /\ y = k THEN "absent" ELSE tree[Item(x, y)]
    BY <2>1
  <2>3. Ours(tree[Item(e, m)]) /\ ~(e = d /\ m = k)
    BY <1>3, <2>2 DEF Ours
  <2>4. Ours(tree[Item(e, n)])
    BY <1>3, <2>3 DEF SkillsInv, LinesInOrder
  <2>5. ~(e = d /\ n = k)
    <3> SUFFICES ASSUME e = d, n = k
                 PROVE  FALSE
      OBVIOUS
    <3>1. Logged(e, n)
      BY <2>2 DEF Logged
    <3>2. Logged(e, m)
      BY <2>3, <3>1 DEF SkillsInv, LinesLogged
    <3>3. PICK p \in DOMAIN journal : journal[p] = <<e, Item(e, m)>>
      BY <3>2 DEF Logged
    <3>4. p # Len(journal)
      BY <1>3, <2>2, <3>3, Distinct
    <3>5. p < Len(journal)
      BY <2>2, <3>3, <3>4
    <3>6. m < n
      BY <2>2, <3>3, <3>5 DEF SkillsInv, LoggedInOrder
    <3> QED
      BY <1>3, <3>6
  <2> QED
    BY <2>2, <2>4, <2>5
<1>4. ASSUME NEW d \in Directives, Writes(d), NEW e \in Appends, NEW n \in DOMAIN Body(e),
             NEW m \in DOMAIN Body(e), n < m, Ours(tree'[Item(e, m)])
      PROVE  Ours(tree'[Item(e, n)])
  <2>1. /\ tree'[Item(e, n)] = IF e = d /\ n = at THEN Written(d, tree[Item(e, n)]) ELSE tree[Item(e, n)]
        /\ tree'[Item(e, m)] = IF e = d /\ m = at THEN Written(d, tree[Item(e, m)]) ELSE tree[Item(e, m)]
    BY <1>4 DEF Writes
  <2>2. CASE e = d /\ n = at
    <3>1. ~Ours(tree[Item(e, m)])
      BY <1>4, <2>2 DEF SkillsInv, LinesAhead, Writes
    <3> QED
      BY <1>4, <2>1, <2>2, <3>1
  <2>3. CASE e = d /\ m = at
    BY <1>4, <2>1, <2>3 DEF SkillsInv, LinesBehind, Writes
  <2>4. CASE ~(e = d /\ n = at) /\ ~(e = d /\ m = at)
    BY <1>4, <2>1, <2>4 DEF SkillsInv, LinesInOrder
  <2> QED
    BY <2>2, <2>3, <2>4
<1> QED
  BY <1>1, <1>2, <1>3, <1>4 DEF Steps, LinesInOrder

LEMMA LinesLoggedStep ==
  ASSUME SkillsInv, Steps
  PROVE  LinesLogged'
<1> SUFFICES ASSUME NEW e \in Appends, NEW n \in DOMAIN Body(e), NEW m \in DOMAIN Body(e),
                    Logged(e, n)', Ours(tree'[Item(e, m)])
             PROVE  Logged(e, m)'
  BY DEF LinesLogged
<1> USE LastingAre, LinesAre
<1>1. CASE journal' = <<>>
  BY <1>1 DEF Logged
<1>2. CASE journal' = journal /\ (tree' = tree \/ \E d \in Directives : Breaks(d))
  <2>1. Logged(e, n) /\ (Logged(e, m) => Logged(e, m)')
    BY <1>2 DEF Logged
  <2>2. Ours(tree[Item(e, m)])
    BY <1>2, AppendsKept
  <2> QED
    BY <2>1, <2>2 DEF SkillsInv, LinesLogged
<1>3. CASE Undone
  <2>1. PICK d \in LastingOnes : \E k \in DOMAIN Body(d) :
          /\ \A x \in LastingOnes : \A y \in DOMAIN Body(x) :
               tree'[Item(x, y)] = IF x = d /\ y = k THEN "absent" ELSE tree[Item(x, y)]
          /\ \A x \in LastingOnes : \A y \in DOMAIN Body(x) :
                /\ Logged(x, y)' => Logged(x, y)
                /\ Logged(x, y) /\ <<x, y>> # <<d, k>> => Logged(x, y)'
    BY <1>3, UndoneIs DEF SkillsInv
  <2>2. PICK k \in DOMAIN Body(d) :
          /\ \A x \in LastingOnes : \A y \in DOMAIN Body(x) :
               tree'[Item(x, y)] = IF x = d /\ y = k THEN "absent" ELSE tree[Item(x, y)]
          /\ \A x \in LastingOnes : \A y \in DOMAIN Body(x) :
                /\ Logged(x, y)' => Logged(x, y)
                /\ Logged(x, y) /\ <<x, y>> # <<d, k>> => Logged(x, y)'
    BY <2>1
  <2>3. Ours(tree[Item(e, m)]) /\ <<e, m>> # <<d, k>> /\ Logged(e, n)
    BY <2>2 DEF Ours
  <2>4. Logged(e, m)
    BY <2>3 DEF SkillsInv, LinesLogged
  <2> QED
    BY <2>2, <2>3, <2>4
<1>4. ASSUME NEW d \in Directives, Writes(d)
      PROVE  Logged(e, m)'
  <2>1. /\ tree'[Item(e, m)] = IF e = d /\ m = at THEN Written(d, tree[Item(e, m)]) ELSE tree[Item(e, m)]
        /\ Applies(d)
    BY <1>4 DEF Writes
  <2>2. Logged(e, n) \/ (e = d /\ n = at)
    BY <1>4, EntryIs DEF Logged
  <2>3. /\ Logged(e, m) => Logged(e, m)'
        /\ e = d /\ m = at => Logged(e, m)'
    BY <1>4, WritesLog DEF SkillsInv
  <2>4. CASE ~(e = d /\ m = at) /\ Logged(e, n)
    BY <2>1, <2>3, <2>4 DEF SkillsInv, LinesLogged
  <2>5. CASE ~(e = d /\ m = at) /\ e = d /\ n = at
    <3>1. m < at
      BY <1>4, <2>1, <2>5 DEF SkillsInv, LinesAhead, Writes
    <3> QED
      BY <2>1, <2>3, <2>5, <3>1 DEF SkillsInv, LinesBehind
  <2> QED
    BY <2>2, <2>3, <2>4, <2>5
<1>5. CASE Starts \/ Moves \/ Passes
  BY <1>1, <1>2, <1>5 DEF Starts, Moves, Passes
<1>6. ASSUME NEW d \in Directives, Breaks(d)
      PROVE  Logged(e, m)'
  BY <1>1, <1>2, <1>6 DEF Breaks
<1> QED
  BY <1>3, <1>4, <1>5, <1>6 DEF Steps

LEMMA LinesAheadStep ==
  ASSUME SkillsInv, Steps
  PROVE  LinesAhead'
<1> SUFFICES ASSUME NEW e \in Appends, Applies(e)', NEW n \in DOMAIN Body(e)
             PROVE  /\ n >= at' => ~Ours(tree'[Item(e, n)])
                    /\ n = at' - 1 => journal' # <<>> /\ journal'[Len(journal')] = <<e, Item(e, n)>>
  BY DEF LinesAhead
<1> USE LastingAre, LinesAre
<1>1. CASE Starts \/ Undone
  BY <1>1 DEF Starts, Undone, Applies
<1>2. CASE Moves
  <2>1. pc = e /\ at' = 1 /\ ~InPlace(e) /\ tree' = tree
    BY <1>2 DEF Moves, Applies
  <2>2. 1 \in Missing(e)
    BY <2>1 DEF InPlace
  <2>3. ~Ours(tree[Item(e, 1)])
    BY <2>2 DEF Missing, Ours, Item
  <2>4. ~Ours(tree[Item(e, n)])
    <3>1. CASE n = 1
      BY <2>3, <3>1
    <3>2. CASE n # 1
      <4>1. 1 < n /\ 1 \in DOMAIN Body(e)
        BY <3>2
      <4> QED
        BY <2>3, <4>1 DEF SkillsInv, LinesInOrder
    <3> QED
      BY <3>1, <3>2
  <2>5. n # at' - 1
    BY <2>1
  <2> QED
    BY <2>1, <2>4, <2>5
<1>3. CASE Passes
  BY <1>3 DEF Passes, Applies, SkillsInv, LinesAhead
<1>4. ASSUME NEW d \in Directives, Breaks(d)
      PROVE  FALSE
  BY <1>4 DEF Breaks, Applies
<1>5. ASSUME NEW d \in Directives, Writes(d)
      PROVE  /\ n >= at' => ~Ours(tree'[Item(e, n)])
             /\ n = at' - 1 => journal' # <<>> /\ journal'[Len(journal')] = <<e, Item(e, n)>>
  <2>1. e = d /\ Applies(e) /\ at \in Nat /\ at' = at + 1
    BY <1>5 DEF Writes, Applies
  <2>2. n >= at' => ~Ours(tree'[Item(e, n)])
    <3> HAVE n >= at'
    <3>1. n # at /\ n >= at
      BY <2>1
    <3>2. tree'[Item(e, n)] = tree[Item(e, n)]
      BY <1>5, <2>1, <3>1 DEF Writes
    <3> QED
      BY <2>1, <3>1, <3>2 DEF SkillsInv, LinesAhead
  <2>3. n = at' - 1 => journal' # <<>> /\ journal'[Len(journal')] = <<e, Item(e, n)>>
    <3> HAVE n = at' - 1
    <3>1. n = at
      BY <2>1
    <3>2. Len(journal') = Len(journal) + 1 /\ journal'[Len(journal) + 1] = <<d, Item(d, at)>>
      BY <1>5, <2>1, WritesLog DEF SkillsInv
    <3>3. journal \in Seq(LastingOnes \X Items)
      BY DEF SkillsInv, SkillsTypeOK
    <3>4. journal' # <<>>
      BY ONLY <3>2, <3>3
    <3> QED
      BY <2>1, <3>1, <3>2, <3>4
  <2> QED
    BY <2>2, <2>3
<1> QED
  BY <1>1, <1>2, <1>3, <1>4, <1>5 DEF Steps

LEMMA LinesBehindStep ==
  ASSUME SkillsInv, Steps
  PROVE  LinesBehind'
<1> SUFFICES ASSUME NEW e \in LastingOnes, Applies(e)', NEW n \in DOMAIN Body(e), n < at'
             PROVE  /\ tree'[Item(e, n)] \notin {"absent", "empty"}
                    /\ e \in Appends => Ours(tree'[Item(e, n)])
                    /\ Kind(e) \in {"append", "external"} => Logged(e, n)'
  BY DEF LinesBehind
<1> USE LastingAre, LinesAre
<1>1. CASE Starts \/ Undone
  BY <1>1 DEF Starts, Undone, Applies
<1>2. CASE Moves
  BY <1>2 DEF Moves, Applies
<1>3. CASE Passes
  BY <1>3 DEF Passes, Applies, SkillsInv, LinesBehind, Logged
<1>4. ASSUME NEW d \in Directives, Breaks(d)
      PROVE  FALSE
  BY <1>4 DEF Breaks, Applies
<1>5. ASSUME NEW d \in Directives, Writes(d)
      PROVE  /\ tree'[Item(e, n)] \notin {"absent", "empty"}
             /\ e \in Appends => Ours(tree'[Item(e, n)])
             /\ Kind(e) \in {"append", "external"} => Logged(e, n)'
  <2>1. e = d /\ Applies(e) /\ at \in Nat /\ at' = at + 1 /\ ~AtLast(d)
    BY <1>5 DEF Writes, Applies
  <2>2. tree'[Item(e, n)] = IF n = at THEN Written(d, tree[Item(e, n)]) ELSE tree[Item(e, n)]
    BY <1>5, <2>1 DEF Writes, AtLast
  <2>3. /\ Logged(e, n) => Logged(e, n)'
        /\ n = at /\ Kind(e) \in {"append", "external"} => Logged(e, n)'
    BY <1>5, <2>1, WritesLog DEF SkillsInv
  <2>4. CASE n = at
    <3>1. tree[Item(e, n)] \in Conditions /\ (e \in Appends => tree[Item(e, n)] \in {"absent", "mine"})
      BY <2>1, <2>4 DEF SkillsInv, Sorts, Conditions, LinesAhead, Ours
    <3>2. Written(d, tree[Item(e, n)]) \notin {"absent", "empty"}
      BY <3>1, WrittenIs
    <3>3. e \in Appends => Ours(Written(d, tree[Item(e, n)]))
      BY <2>1, <3>1, WrittenIs DEF Ours
    <3> QED
      BY <2>2, <2>3, <2>4, <3>2, <3>3
  <2>5. CASE n # at
    <3>1. n < at
      BY <2>1, <2>5
    <3> QED
      BY <2>1, <2>2, <2>3, <2>5, <3>1 DEF SkillsInv, LinesBehind
  <2> QED
    BY <2>4, <2>5
<1> QED
  BY <1>1, <1>2, <1>3, <1>4, <1>5 DEF Steps

\* A directive whose last line is written has all its lines there.
LEMMA AppliedIsFull ==
  ASSUME SkillsInv, NEW d \in LastingOnes, Writes(d), AtLast(d), NEW n \in DOMAIN Body(d)
  PROVE  tree'[Item(d, n)] \notin {"absent", "empty"}
<1> USE LastingAre, LinesAre
<1>1. tree'[Item(d, n)] = IF n = at \/ Kind(d) = "dep" THEN Written(d, tree[Item(d, n)]) ELSE tree[Item(d, n)]
  BY DEF Writes
<1>2. CASE n = at \/ Kind(d) = "dep"
  <2>1. tree[Item(d, n)] \in Conditions
    BY DEF SkillsInv, Sorts, Conditions
  <2> QED
    BY <1>1, <1>2, <2>1, WrittenIs
<1>3. CASE ~(n = at \/ Kind(d) = "dep")
  <2>1. n < at
    BY <1>3 DEF AtLast, Writes
  <2> QED
    BY <1>1, <1>3, <2>1 DEF SkillsInv, LinesBehind, Writes
<1> QED
  BY <1>2, <1>3

LEMMA LinesWholeStep ==
  ASSUME SkillsInv, Steps
  PROVE  LinesWhole'
<1> SUFFICES ASSUME NEW e \in Appends, e \notin torn', Ours(tree'[Item(e, 1)]),
                    ~Applies(e)', ~Undoes(e)', NEW n \in DOMAIN Body(e)
             PROVE  tree'[Item(e, n)] \notin {"absent", "empty"}
  BY DEF LinesWhole, Full
<1> USE LastingAre, LinesAre
<1>1. ASSUME e \notin torn, Ours(tree[Item(e, 1)]), ~Applies(e), ~Undoes(e)
      PROVE  tree[Item(e, n)] \notin {"absent", "empty"}
  BY <1>1 DEF SkillsInv, LinesWhole, Full
<1>2. CASE Starts
  BY <1>1, <1>2 DEF Starts, Applies, Undoes
<1>3. CASE Moves
  BY <1>1, <1>3 DEF Moves, Applies, Undoes
<1>4. CASE Passes
  <2>1. tree' = tree /\ torn' = torn
    BY <1>4 DEF Passes
  <2>2. ~Applies(e)
    BY <1>4, ScriptIs DEF Passes, Applies
  <2>3. ~Undoes(e)
    BY <1>4 DEF Passes, Undoes
  <2> QED
    BY <1>1, <2>1, <2>2, <2>3
<1>5. CASE Undone
  <2>1. PICK d \in LastingOnes : \E k \in DOMAIN Body(d) :
          /\ journal[Len(journal)] = <<d, Item(d, k)>>
          /\ Len(journal) \in DOMAIN journal /\ DOMAIN journal = 1..Len(journal) /\ Len(journal) \in Nat
          /\ \A x \in LastingOnes : \A y \in DOMAIN Body(x) :
               tree'[Item(x, y)] = IF x = d /\ y = k THEN "absent" ELSE tree[Item(x, y)]
          /\ Len(journal') = Len(journal) - 1 /\ DOMAIN journal' = 1..(Len(journal) - 1)
          /\ \A p \in DOMAIN journal' : p \in DOMAIN journal /\ journal'[p] = journal[p]
    BY <1>5, UndoneIs DEF SkillsInv
  <2>2. PICK k \in DOMAIN Body(d) :
          /\ journal[Len(journal)] = <<d, Item(d, k)>>
          /\ Len(journal) \in DOMAIN journal /\ DOMAIN journal = 1..Len(journal) /\ Len(journal) \in Nat
          /\ \A x \in LastingOnes : \A y \in DOMAIN Body(x) :
               tree'[Item(x, y)] = IF x = d /\ y = k THEN "absent" ELSE tree[Item(x, y)]
          /\ Len(journal') = Len(journal) - 1 /\ DOMAIN journal' = 1..(Len(journal) - 1)
          /\ \A p \in DOMAIN journal' : p \in DOMAIN journal /\ journal'[p] = journal[p]
    BY <2>1
  <2>3. phase' = "removing" /\ phase = "removing" /\ torn' = torn
    BY <1>5 DEF Undone
  <2>4. CASE e # d
    <3>1. tree'[Item(e, 1)] = tree[Item(e, 1)] /\ tree'[Item(e, n)] = tree[Item(e, n)]
      BY <2>2, <2>4
    <3>2. ~Applies(e) /\ ~Undoes(e)
      BY <2>2, <2>3, <2>4 DEF Applies, Undoes
    <3> QED
      BY <1>1, <2>3, <3>1, <3>2
  <2>5. CASE e = d
    <3>1. k > 1
      BY <2>2, <2>5 DEF Ours
    <3>2. Len(journal) > 1 /\ journal[Len(journal) - 1] = <<e, Item(e, k - 1)>>
      BY <2>2, <2>5, <3>1 DEF SkillsInv, LoggedInRow
    <3>3. Len(journal') \in DOMAIN journal'
      BY <2>2, <3>2
    <3>4. journal' # <<>>
      BY ONLY <3>3
    <3>5. journal'[Len(journal')] = <<e, Item(e, k - 1)>>
      <4>1. journal'[Len(journal')] = journal[Len(journal')]
        BY <2>2, <3>3
      <4>2. Len(journal') = Len(journal) - 1
        BY <2>2
      <4> QED
        BY ONLY <3>2, <4>1, <4>2
    <3>6. journal'[Len(journal')][1] = e
      BY <3>5
    <3> QED
      BY <2>3, <3>4, <3>6 DEF Undoes
  <2> QED
    BY <2>4, <2>5
<1>6. ASSUME NEW d \in Directives, Writes(d)
      PROVE  tree'[Item(e, n)] \notin {"absent", "empty"}
  <2>1. CASE e # d
    <3>1. tree'[Item(e, 1)] = tree[Item(e, 1)] /\ tree'[Item(e, n)] = tree[Item(e, n)] /\ e \notin torn
      BY <1>6, <2>1 DEF Writes
    <3>2. ~Applies(e) /\ ~Undoes(e)
      BY <1>6, <2>1 DEF Writes, Applies, Undoes
    <3> QED
      BY <1>1, <3>1, <3>2
  <2>2. CASE e = d
    <3>1. AtLast(d)
      BY <1>6, <2>2 DEF Writes, Applies
    <3> QED
      BY <1>6, <2>2, <3>1, AppliedIsFull
  <2> QED
    BY <2>1, <2>2
<1>7. ASSUME NEW d \in Directives, Breaks(d)
      PROVE  tree'[Item(e, n)] \notin {"absent", "empty"}
  <2>1. tree'[Item(e, 1)] = tree[Item(e, 1)] /\ tree'[Item(e, n)] = tree[Item(e, n)]
    BY <1>7, AppendsKept
  <2>2. e \notin torn /\ ~Undoes(e)
    BY <1>7 DEF Breaks, Undoes, Applies
  <2>3. ~Applies(e)
    <3> SUFFICES ASSUME Applies(e)
                 PROVE  FALSE
      OBVIOUS
    <3>1. e = d /\ at = 1
      BY <1>7 DEF Breaks, Applies
    <3>2. ~Ours(tree[Item(e, 1)])
      BY <3>1 DEF SkillsInv, LinesAhead
    <3> QED
      BY <2>1, <3>2
  <2> QED
    BY <1>1, <2>1, <2>2, <2>3
<1> QED
  BY <1>2, <1>3, <1>4, <1>5, <1>6, <1>7 DEF Steps

-----------------------------------------------------------------------------
(* What the steps preserve: types, the gate, and what a run has passed *)

LEMMA TypesStep ==
  ASSUME SkillsInv, [SkillsNext]_skillVars
  PROVE  SkillsTypeOK'
<1> USE LinesAre
<1>0. SkillsTypeOK /\ LoggedIsPast
  BY DEF SkillsInv
<1>1. CASE UNCHANGED skillVars
  BY <1>0, <1>1 DEF skillVars, SkillsTypeOK
<1>2. CASE Begin
  BY <1>0, <1>2, ScriptIs DEF Begin, SkillsTypeOK
<1>3. CASE Return
  BY <1>0, <1>3 DEF Return, SkillsTypeOK
<1>4. CASE RemoveSkill
  BY <1>0, <1>4 DEF RemoveSkill, SkillsTypeOK
<1>5. CASE UndoFails
  BY <1>0, <1>5 DEF UndoFails, Faulty, SkillsTypeOK
<1>6. CASE Undo
  <2>1. Undone
    BY <1>6 DEF Undo, Undone, Last, Front
  <2>2. journal' \in Seq(LastingOnes \X Items)
    BY <1>0, <2>1, UndoneIs
  <2>3. tree' \in [Items -> Conditions]
    BY <1>0, <1>6 DEF Undo, SkillsTypeOK, Conditions
  <2> QED
    BY <1>0, <1>6, <2>2, <2>3 DEF Undo, SkillsTypeOK
<1>7. CASE Killed
  <2>1. at > 0 => /\ pc \in Directives /\ at \in DOMAIN Body(pc)
                  /\ tree' \in [Items -> Conditions] /\ torn' \subseteq Directives
    <3> HAVE at > 0
    <3>1. pc \in Directives /\ at \in DOMAIN Body(pc) /\ tree' \in Half(pc)
      BY <1>0, <1>7 DEF Killed, SkillsTypeOK
    <3>2. tree' \in [Items -> Conditions]
      BY <1>0, <3>1, HalfIs
    <3>3. torn' \subseteq Directives
      BY <1>0, <1>7, <3>1 DEF Killed, Tears, SkillsTypeOK
    <3> QED
      BY <3>1, <3>2, <3>3
  <2>2. tree' \in [Items -> Conditions] /\ torn' \subseteq Directives
    BY <1>0, <1>7, <2>1 DEF Killed, SkillsTypeOK
  <2> QED
    BY <1>0, <1>7, <2>2 DEF Killed, Faulty, SkillsTypeOK
\* The run is at a directive: it moves on by one, or stays at it.
<1>8. ASSUME NEW d \in Directives, pc = d, phase = "applying", phase' = phase,
             \/ pc' = pc + 1 /\ at' = 0
             \/ pc' = pc /\ at' \in DOMAIN Body(d),
             deferred' \subseteq deferred \cup {pc}, tasks' \subseteq tasks \cup {pc}
      PROVE  /\ phase' \in {"idle", "applying", "done", "removing"}
             /\ pc' \in 0..Len(Script) + 1 /\ at' \in Nat
             /\ at' > 0 => pc' \in Directives /\ at' \in DOMAIN Body(pc')
             /\ phase' = "applying" => pc' > 0
             /\ phase' = "done" => pc' > Len(Script)
             /\ deferred' \subseteq Directives /\ tasks' \subseteq Directives
  BY <1>0, <1>8, ScriptIs DEF SkillsTypeOK
<1>9. ASSUME NEW d \in Directives, Unguarded(d) \/ Prompt(d) \/ Operator(d) \/ Weigh(d)
      PROVE  SkillsTypeOK'
  <2>1. /\ pc = d /\ phase = "applying" /\ Untouched
        /\ \/ pc' = pc + 1 /\ at' = 0
           \/ pc' = pc /\ at' \in DOMAIN Body(d)
        /\ deferred' \subseteq deferred \cup {pc} /\ tasks' \subseteq tasks \cup {pc}
    BY <1>9 DEF Unguarded, Prompt, Operator, Weigh, Reaches, Pass, Defer, Bounce
  <2>2. faults' \in Nat /\ bound' \in [Vars -> Values \cup {Unbound}]
    BY <1>0, <1>9 DEF Unguarded, Prompt, Operator, Weigh, Faulty, SkillsTypeOK
  <2>3. /\ phase' = phase /\ tree' = tree /\ before' = before /\ fired' = fired /\ torn' = torn
        /\ journal' = journal /\ runs' = runs
    BY <2>1 DEF Untouched
  <2> QED
    BY <1>0, <1>8, <2>1, <2>2, <2>3 DEF SkillsTypeOK
<1>10. ASSUME NEW d \in Directives, LineUnresolved(d)
       PROVE  SkillsTypeOK'
  <2>1. /\ pc = d /\ phase = "applying" /\ phase' = phase /\ pc' = pc + 1 /\ at' = 0
        /\ deferred' \subseteq deferred \cup {pc} /\ tasks' \subseteq tasks \cup {pc}
    BY <1>10 DEF LineUnresolved, At, Defer
  <2>2. /\ tree' = tree /\ before' = before /\ fired' = fired /\ torn' \subseteq torn \cup {d}
        /\ journal' = journal /\ runs' = runs /\ faults' = faults /\ bound' = bound
    BY <1>10 DEF LineUnresolved
  <2> QED
    BY <1>0, <1>8, <2>1, <2>2 DEF SkillsTypeOK
<1>11. ASSUME NEW d \in Directives, LineFails(d)
       PROVE  SkillsTypeOK'
  <2>1. /\ pc = d /\ phase = "applying" /\ phase' = phase /\ pc' = pc + 1 /\ at' = 0
        /\ deferred' \subseteq deferred \cup {pc} /\ tasks' \subseteq tasks \cup {pc}
    BY <1>11 DEF LineFails, At, Bounce
  <2>2. /\ before' = before /\ fired' \subseteq fired \cup {d} /\ torn' \subseteq torn \cup {d}
        /\ journal' = journal /\ runs' = runs /\ faults' = faults + 1 /\ bound' = bound
    BY <1>11 DEF LineFails, Faulty, Tears
  <2>3. tree' \in [Items -> Conditions]
    BY <1>0, <1>11, HalfIs DEF LineFails, At, SkillsTypeOK
  <2> QED
    BY <1>0, <1>8, <2>1, <2>2, <2>3 DEF SkillsTypeOK
<1>12. ASSUME NEW d \in Directives, Line(d)
       PROVE  SkillsTypeOK'
  <2>1. Writes(d)
    BY <1>0, <1>12, LineWrites
  <2>2. /\ pc = d /\ phase = "applying" /\ phase' = phase
        /\ \/ pc' = pc + 1 /\ at' = 0
           \/ pc' = pc /\ at' \in DOMAIN Body(d)
        /\ before' = before /\ torn' \subseteq torn
    BY <2>1 DEF Writes, Applies
  <2>3. /\ deferred' \subseteq deferred \cup {pc} /\ tasks' \subseteq tasks \cup {pc}
        /\ fired' \subseteq fired \cup {d} /\ runs' = runs
    BY <1>12 DEF Line, Pass, Bounce
  <2>4. faults' \in Nat
    <3>1. faults' = faults \/ Faulty
      BY <1>12 DEF Line
    <3>2. faults \in Nat
      BY <1>0 DEF SkillsTypeOK
    <3> QED
      BY <3>1, <3>2 DEF Faulty
  <2>5. bound' \in [Vars -> Values \cup {Unbound}]
    BY <1>0, <1>12 DEF Line, SkillsTypeOK
  <2>6. journal' \in Seq(LastingOnes \X Items)
    BY <1>0, <2>1, WritesLog
  <2>7. tree' \in [Items -> Conditions]
    <3>1. \A i \in Items : tree[i] \in Conditions /\ Written(d, tree[i]) \in Conditions
      BY <1>0, WrittenIs DEF SkillsTypeOK
    <3> QED
      BY <1>12, <3>1 DEF Line
  <2> QED
    BY <1>0, <1>8, <2>2, <2>3, <2>4, <2>5, <2>6, <2>7 DEF SkillsTypeOK
<1> QED
  BY <1>1, <1>2, <1>3, <1>4, <1>5, <1>6, <1>7, <1>9, <1>10, <1>11, <1>12 DEF SkillsNext

LEMMA GateStep ==
  ASSUME SkillsInv, [SkillsNext]_skillVars
  PROVE  GateHolds'
<1>0. GateHolds
  BY DEF SkillsInv
<1>1. CASE UNCHANGED skillVars
  BY <1>0, <1>1 DEF skillVars, GateHolds
<1>2. CASE Begin \/ Return \/ Killed \/ RemoveSkill \/ Undo \/ UndoFails
  BY <1>2 DEF Begin, Return, Killed, RemoveSkill, Undo, UndoFails, GateHolds
<1>3. ASSUME NEW d \in Directives,
             Unguarded(d) \/ Prompt(d) \/ Operator(d) \/ LineUnresolved(d) \/ LineFails(d)
      PROVE  GateHolds'
  BY <1>3 DEF Unguarded, Prompt, Operator, LineUnresolved, LineFails, Pass, Defer, Bounce, GateHolds
<1>4. ASSUME NEW d \in Directives, Weigh(d)
      PROVE  GateHolds'
  BY <1>4 DEF Weigh, Reaches, Pass, Bounce, GateHolds, Gated
<1>5. ASSUME NEW d \in Directives, Line(d)
      PROVE  GateHolds'
  BY <1>0, <1>5 DEF Line, At, Pass, Bounce, GateHolds
<1> QED
  BY <1>1, <1>2, <1>3, <1>4, <1>5 DEF SkillsNext

\* A directive that is in place has all it owes there: that is where an append
\* and a json-merge are judged by their first line.
LEMMA InPlaceIsFull ==
  ASSUME SkillsInv, NEW d \in Directives, Reaches(d), InPlace(d), Owed(d)
  PROVE  Full(d)
<1> USE LinesAre
<1>1. d \in LastingOnes
  BY DEF Owed, LastingOnes
<1>2. /\ \A n \in DOMAIN Body(d) :
           tree[Item(d, n)] \in IF d \in Appends THEN {"absent", "mine", "skill", "both"}
                                ELSE {"absent", "mine", "skill", "empty"}
      /\ \A n \in DOMAIN Body(d) :
           tree[Item(d, n)] = "empty" => Kind(d) = "env-set" \/ (Kind(d) = "fetch" /\ d \in torn)
  BY <1>1 DEF SkillsInv, Sorts
<1>3. CASE Kind(d) \in Files \cup {"dep", "env-set"}
  <2>1. Missing(d) = {}
    BY <1>3 DEF InPlace, Files
  <2>2. Kind(d) = "fetch" => d \notin torn
    BY DEF Owed
  <2> QED
    BY <1>2, <2>1, <2>2 DEF Full, Missing, Item
<1>4. CASE Kind(d) = "json-merge"
  <2>1. 1 \notin Missing(d) /\ Len(Body(d)) = 1
    BY <1>4, ScriptIs DEF InPlace, Files
  <2>2. tree[Item(d, 1)] # "absent" /\ DOMAIN Body(d) = {1}
    BY <2>1 DEF Missing, Item
  <2> QED
    BY <1>2, <1>4, <2>2 DEF Full
<1>5. CASE Kind(d) = "append"
  <2>1. d \in Appends \ torn
    BY <1>1, <1>5, LastingAre DEF Owed
  <2>2. tree[Item(d, 1)] \notin {"absent", "mine"}
    BY <1>5 DEF InPlace, Files, Missing, Item, Owed
  <2>3. Ours(tree[Item(d, 1)])
    BY <1>2, <2>1, <2>2 DEF Ours
  <2>4. ~Applies(d) /\ ~Undoes(d)
    BY DEF Reaches, Applies, Undoes
  <2> QED
    BY <2>1, <2>3, <2>4 DEF SkillsInv, LinesWhole
<1> QED
  BY <1>3, <1>4, <1>5 DEF InPlace, Files

\* What is bound at a directive changes no guard up to it.
LEMMA GuardStays ==
  ASSUME bound \in [Vars -> Values \cup {Unbound}],
         NEW d \in Directives, NEW e \in Directives, e <= d, NEW v, NEW x \in Things(d),
         bound' = [bound EXCEPT ![x] = v]
  PROVE  GuardMet(e)' <=> GuardMet(e)
<1>1. \A g \in Script[e].when : g.var \in Vars /\ g.var # x
  BY LinesAre, SkillsAssumption DEF SkillsAssumption
<1>2. \A g \in Script[e].when : bound'[g.var] = bound[g.var]
  BY <1>1
<1> QED
  BY <1>2 DEF GuardMet

\* What is owed before the directive the run is at stays owed, or not, as long
\* as the run does not tear or mend it and its guard stays what it is.
LEMMA OwedStays ==
  ASSUME SkillsInv, Steps, phase = "applying", phase' = "applying", NEW e \in Directives, e < pc,
         GuardMet(e)' <=> GuardMet(e), Owed(e)'
  PROVE  Owed(e) /\ (Full(e) => Full(e)')
<1> USE LastingAre, LinesAre
<1>1. e \in LastingOnes
  BY DEF Owed, LastingOnes
<1>2. /\ \A n \in DOMAIN Body(e) : tree'[Item(e, n)] = tree[Item(e, n)]
      /\ e \in torn <=> e \in torn'
  <2>1. CASE Starts \/ Undone
    BY <2>1 DEF Starts, Undone
  <2>2. CASE Moves \/ Passes
    BY <2>2 DEF Moves, Passes
  <2>3. ASSUME NEW d \in Directives, Writes(d)
        PROVE  /\ \A n \in DOMAIN Body(e) : tree'[Item(e, n)] = tree[Item(e, n)]
               /\ e \in torn <=> e \in torn'
    <3>1. e # d
      BY <2>3 DEF Writes, Applies
    <3> QED
      BY <1>1, <2>3, <3>1 DEF Writes
  <2>4. ASSUME NEW d \in Directives, Breaks(d)
        PROVE  /\ \A n \in DOMAIN Body(e) : tree'[Item(e, n)] = tree[Item(e, n)]
               /\ e \in torn <=> e \in torn'
    <3>1. e # d
      BY <2>4 DEF Breaks, Applies
    <3> QED
      BY <1>1, <2>4, <3>1 DEF Breaks, Halves
  <2> QED
    BY <2>1, <2>2, <2>3, <2>4 DEF Steps
<1>3. Owed(e)
  BY <1>2 DEF Owed, Item
<1>4. Full(e) => Full(e)'
  BY <1>2 DEF Full
<1> QED
  BY <1>3, <1>4

LEMMA PassedStep ==
  ASSUME SkillsInv, [SkillsNext]_skillVars
  PROVE  PassedIsThere'
<1> USE LinesAre
<1>0. PassedIsThere /\ SkillsTypeOK
  BY DEF SkillsInv
<1>1. CASE UNCHANGED skillVars
  BY <1>0, <1>1 DEF skillVars, PassedIsThere, Owed, GuardMet, Full
<1>2. CASE Begin
  BY <1>2, ScriptIs DEF Begin, PassedIsThere
<1>3. CASE Return
  BY <1>0, <1>3 DEF Return, PassedIsThere, Owed, GuardMet, Full
<1>4. CASE Killed \/ RemoveSkill \/ Undo \/ UndoFails
  BY <1>4 DEF Killed, RemoveSkill, Undo, UndoFails, PassedIsThere
<1>5. Steps
  BY <1>0, NextSteps
\* The run is at d: of what it had passed nothing changes, and d itself, when
\* the run leaves it, is there, not owed, deferred, or bounced.
<1>6. ASSUME NEW d \in Directives, pc = d, phase = "applying", phase' = "applying",
             pc' \in {pc, pc + 1}, tasks \subseteq tasks', deferred \subseteq deferred',
             \/ bound' = bound
             \/ \E x \in Things(d) : \E v \in Values : bound' = [bound EXCEPT ![x] = v],
             pc' = pc + 1 => d \in tasks' \/ d \in deferred' \/ (Owed(d)' => Full(d)')
      PROVE  PassedIsThere'
  <2> SUFFICES ASSUME tasks' = {}, NEW e \in Directives, e < pc', Owed(e)', e \notin deferred'
               PROVE  Full(e)'
    BY DEF PassedIsThere
  <2>1. CASE e = d
    BY <1>6, <2>1
  <2>2. CASE e # d
    <3>1. e < pc /\ tasks = {} /\ e \notin deferred
      BY <1>6, <2>2
    <3>2. GuardMet(e)' <=> GuardMet(e)
      <4>1. CASE bound' = bound
        BY <4>1 DEF GuardMet
      <4>2. ASSUME NEW x \in Things(d), NEW v \in Values, bound' = [bound EXCEPT ![x] = v]
            PROVE  GuardMet(e)' <=> GuardMet(e)
        <5>1. e <= d /\ bound \in [Vars -> Values \cup {Unbound}]
          BY <1>0, <1>6, <3>1 DEF SkillsTypeOK
        <5> QED
          BY <4>2, <5>1, GuardStays
      <4> QED
        BY <1>6, <4>1, <4>2
    <3>3. Owed(e) /\ (Full(e) => Full(e)')
      BY <1>5, <1>6, <3>1, <3>2, OwedStays
    <3> QED
      BY <1>0, <1>6, <3>1, <3>3 DEF PassedIsThere
  <2> QED
    BY <2>1, <2>2
<1>7. ASSUME NEW d \in Directives, Unguarded(d)
      PROVE  PassedIsThere'
  <2>1. /\ pc = d /\ phase = "applying" /\ phase' = "applying" /\ pc' = pc + 1
        /\ tasks' = tasks /\ deferred' = deferred /\ bound' = bound /\ ~GuardMet(d)
    BY <1>7 DEF Unguarded, Reaches, Pass, Untouched
  <2>2. ~Owed(d)'
    BY <2>1 DEF Owed, GuardMet
  <2> QED
    BY <1>6, <2>1, <2>2
<1>8. ASSUME NEW d \in Directives, Prompt(d) \/ Operator(d)
      PROVE  PassedIsThere'
  <2>1. /\ pc = d /\ phase = "applying" /\ phase' = "applying" /\ pc' = pc + 1
        /\ tasks \subseteq tasks' /\ deferred \subseteq deferred'
        /\ Kind(d) \in {"prompt", "operator"}
    BY <1>8 DEF Prompt, Operator, Reaches, Pass, Defer, Bounce, Untouched
  <2>2. ~Owed(d)'
    BY <2>1 DEF Owed, Lasting, Files
  <2>3. Body(d)[1].it \in Things(d)
    BY DEF Things
  <2>4. \/ bound' = bound
        \/ \E x \in Things(d) : \E v \in Values : bound' = [bound EXCEPT ![x] = v]
    BY <1>8, <2>3 DEF Prompt, Operator
  <2> QED
    BY <1>6, <2>1, <2>2, <2>4
<1>9. ASSUME NEW d \in Directives, Weigh(d)
      PROVE  PassedIsThere'
  <2>1. /\ pc = d /\ phase = "applying" /\ phase' = "applying" /\ bound' = bound
        /\ tasks \subseteq tasks' /\ deferred \subseteq deferred' /\ Reaches(d)
        /\ tree' = tree /\ torn' = torn
    BY <1>9 DEF Weigh, Reaches, Pass, Bounce, Untouched
  <2>2. \/ pc' = pc /\ at' = 1
        \/ pc' = pc + 1 /\ (d \in tasks' \/ Kind(d) \in SkipEffects \/ InPlace(d))
    BY <1>9, <2>1 DEF Weigh, Pass, Bounce
  <2>3. Owed(d)' => Owed(d) /\ Kind(d) \notin SkipEffects
    BY <2>1 DEF Owed, GuardMet
  <2>4. Full(d) => Full(d)'
    BY <2>1 DEF Full
  <2>5. pc' = pc + 1 => d \in tasks' \/ d \in deferred' \/ (Owed(d)' => Full(d)')
    BY <2>1, <2>2, <2>3, <2>4, InPlaceIsFull
  <2>6. pc' \in {pc, pc + 1}
    BY <2>2
  <2> QED
    BY <1>6, <2>1, <2>5, <2>6
<1>10. ASSUME NEW d \in Directives, LineUnresolved(d)
       PROVE  PassedIsThere'
  <2>1. /\ pc = d /\ phase = "applying" /\ phase' = "applying" /\ pc' = pc + 1 /\ bound' = bound
        /\ tasks \subseteq tasks' /\ deferred \subseteq deferred' /\ d \in deferred'
    BY <1>10 DEF LineUnresolved, At, Defer
  <2> QED
    BY <1>6, <2>1
<1>11. ASSUME NEW d \in Directives, LineFails(d)
       PROVE  PassedIsThere'
  <2>1. /\ pc = d /\ phase = "applying" /\ phase' = "applying" /\ pc' = pc + 1 /\ bound' = bound
        /\ tasks \subseteq tasks' /\ deferred \subseteq deferred' /\ d \in tasks'
    BY <1>11 DEF LineFails, At, Bounce
  <2> QED
    BY <1>6, <2>1
<1>12. ASSUME NEW d \in Directives, Line(d)
       PROVE  PassedIsThere'
  <2>1. Writes(d)
    BY <1>0, <1>12, LineWrites
  <2>2. /\ pc = d /\ phase = "applying" /\ phase' = "applying"
        /\ pc' \in {pc, pc + 1} /\ (pc' = pc + 1 => AtLast(d)) /\ at \in DOMAIN Body(d)
    BY <2>1, <1>0 DEF Writes, Applies
  <2>3. tasks \subseteq tasks' /\ deferred \subseteq deferred'
    BY <1>12 DEF Line, Pass, Bounce
  <2>4. Body(d)[at].it \in Things(d)
    BY <2>2 DEF Things
  <2>5. \/ bound' = bound
        \/ \E x \in Things(d) : \E v \in Values : bound' = [bound EXCEPT ![x] = v]
    BY <1>12, <2>4 DEF Line
  <2>6. pc' = pc + 1 => (Owed(d)' => Full(d)')
    <3>1. Owed(d)' => d \in LastingOnes
      BY DEF Owed, LastingOnes
    <3> QED
      BY <2>1, <2>2, <3>1, AppliedIsFull DEF Full
  <2> QED
    BY <1>6, <2>2, <2>3, <2>5, <2>6
<1> QED
  BY <1>1, <1>2, <1>3, <1>4, <1>7, <1>8, <1>9, <1>10, <1>11, <1>12 DEF SkillsNext

-----------------------------------------------------------------------------
(* The theorems *)

LEMMA SkillsStart ==
  ASSUME SkillsInit
  PROVE  SkillsInv
<1> USE LastingAre, LinesAre
<1>1. tree \in [Items -> {"absent", "mine", "empty"}]
  BY DEF SkillsInit
<1>2. \A i \in Items : tree[i] = "empty" => i \in Keys
  BY DEF SkillsInit
<1>3. /\ phase = "idle" /\ pc = 0 /\ at = 0 /\ bound = [v \in Vars |-> Unbound]
      /\ deferred = {} /\ tasks = {} /\ journal = <<>> /\ fired = {}
      /\ before = tree /\ torn = {} /\ runs = 0 /\ faults = 0
  BY DEF SkillsInit
<1>4. SkillsTypeOK
  BY <1>1, <1>3, ScriptIs DEF SkillsTypeOK, Conditions
<1>5. ASSUME NEW d \in LastingOnes, NEW n \in DOMAIN Body(d)
      PROVE  /\ tree[Item(d, n)] \in {"absent", "mine", "empty"}
             /\ tree[Item(d, n)] = "empty" => Kind(d) = "env-set"
  <2>1. tree[Item(d, n)] \in {"absent", "mine", "empty"}
    BY <1>1, ItemsAre
  <2>2. ASSUME tree[Item(d, n)] = "empty"
        PROVE  Kind(d) = "env-set"
    <3>1. PICK e \in Directives : Kind(e) = "env-set" /\ Item(d, n) \in Things(e)
      BY <1>2, <2>2, ItemsAre DEF Keys
    <3>2. PICK m \in DOMAIN Body(e) : Item(d, n) = Item(e, m)
      BY <3>1 DEF Things, Item
    <3> QED
      BY <3>1, <3>2, Distinct
  <2> QED
    BY <2>1, <2>2
<1>6. Sorts
  BY <1>5 DEF Sorts
<1>7. \A d \in Appends : \A n \in DOMAIN Body(d) : ~Ours(tree[Item(d, n)])
  BY <1>5 DEF Ours
<1>8. LinesInOrder /\ LinesLogged /\ LinesWhole
  BY <1>7 DEF LinesInOrder, LinesLogged, LinesWhole
<1>9. LoggedIsPast /\ LoggedInOrder /\ LoggedInRow
  BY <1>3 DEF LoggedIsPast, LoggedInOrder, LoggedInRow
<1> QED
  BY <1>3, <1>4, <1>6, <1>8, <1>9 DEF SkillsInv, LinesAhead, LinesBehind, Applies, GateHolds,
     PassedIsThere, AheadIsUntouched, BroughtIsKnown, FoundIsKept

LEMMA SkillsStep ==
  ASSUME SkillsInv, [SkillsNext]_skillVars
  PROVE  SkillsInv'
<1>1. Steps
  BY NextSteps DEF SkillsInv
<1> QED
  BY <1>1, TypesStep, SortsStep, LoggedIsPastStep, LoggedInOrderStep, LoggedInRowStep,
     LinesInOrderStep, LinesLoggedStep, LinesWholeStep, LinesAheadStep, LinesBehindStep,
     GateStep, PassedStep, AheadIsUntouchedStep, BroughtIsKnownStep, FoundIsKeptStep
     DEF SkillsInv

\* Every state of a skill's life satisfies the inductive invariant.
\* (applySkill, applyOne, removeSkill)
THEOREM SkillsInvariant == SkillsSpec => []SkillsInv
BY SkillsStart, SkillsStep, PTL DEF SkillsSpec

\* Every variable keeps to its type, and the run to its script.  (applySkill)
THEOREM SkillsTypes == SkillsSpec => []SkillsTypeOK
<1>1. SkillsInv => SkillsTypeOK
  BY DEF SkillsInv
<1> QED
  BY <1>1, SkillsInvariant, PTL

\* However often a skill is applied, and whatever failed before, no line of it
\* is there twice, and a result that says "fully applied" is true.
\* (selfStatus, applyOne, fullyApplied)
THEOREM CompleteRunsAreThere == SkillsSpec => []CompleteIsThere
<1>1. ASSUME SkillsInv
      PROVE  CompleteIsThere
  <2>1. \A i \in Items : tree[i] # "twice"
    BY <1>1, ItemsAre DEF SkillsInv, Sorts
  <2>2. ASSUME phase = "done", deferred = {}, tasks = {}, NEW d \in Directives, Owed(d)
        PROVE  There(d)
    <3>1. d < pc
      BY <1>1, <2>2, ScriptIs DEF SkillsInv, SkillsTypeOK
    <3>2. Full(d)
      BY <1>1, <2>2, <3>1 DEF SkillsInv, PassedIsThere
    <3> QED
      BY <3>2 DEF Full, There, Things, Item
  <2> QED
    BY <2>1, <2>2 DEF CompleteIsThere
<1> QED
  BY <1>1, SkillsInvariant, PTL

\* A restart, a pairing step or a wiring fires only when everything before it
\* is there or waits for an answer.  (the gate "blocked" of applySkill)
THEOREM EffectsStandOnGround == SkillsSpec => GroundHolds
<1>1. ASSUME SkillsInv, [SkillsNext]_skillVars
      PROVE  [\A d \in fired' \ fired : \A e \in Directives :
                e < d /\ Owed(e) /\ e \notin deferred => There(e)]_skillVars
  <2> SUFFICES ASSUME SkillsNext, NEW d \in fired' \ fired, NEW e \in Directives,
                      e < d, Owed(e), e \notin deferred
               PROVE  There(e)
    BY <1>1
  <2>1. PICK c \in Directives : Line(c) \/ LineFails(c)
    BY DEF SkillsNext, Begin, Return, Killed, RemoveSkill, Undo, UndoFails, Unguarded, Prompt,
           Operator, Weigh, LineUnresolved, Untouched
  <2>2. d = c /\ Kind(d) \in SideEffects /\ At(d)
    BY <2>1 DEF Line, LineFails
  <2>3. phase = "applying" /\ pc = d /\ tasks = {}
    BY <1>1, <2>2 DEF At, SkillsInv, GateHolds
  <2>4. Full(e)
    BY <1>1, <2>3 DEF SkillsInv, PassedIsThere
  <2> QED
    BY <2>4 DEF Full, There, Things, Item
<1> QED
  BY <1>1, SkillsInvariant, PTL DEF SkillsSpec, GroundHolds

\* A removal takes what the run brought and leaves what it found.
\* (journal in applyOne, removeSkill)
THEOREM RemovalUndoesTheRun == SkillsSpec => []RemoveUndoes
<1>1. ASSUME SkillsInv
      PROVE  RemoveUndoes
  <2> SUFFICES ASSUME phase = "removing", journal = <<>>, NEW d \in Directives, Kind(d) \in Lasting
               PROVE  /\ d \notin torn \/ Kind(d) \in {"append", "env-set", "json-merge"} =>
                           \A t \in Things(d) : before[t] = "absent" => tree[t] = "absent"
                      /\ Kind(d) # "external" /\ (\A t \in Things(d) : before[t] \notin {"absent", "empty"}) =>
                           \A t \in Things(d) : tree[t] = before[t]
    BY DEF RemoveUndoes
  <2>1. d \in LastingOnes
    BY DEF LastingOnes
  <2>2. ASSUME d \notin torn \/ Kind(d) \in {"append", "env-set", "json-merge"},
               NEW n \in DOMAIN Body(d), before[Item(d, n)] = "absent"
        PROVE  tree[Item(d, n)] = "absent"
    <3>1. ~Logged(d, n) /\ ~Applies(d)
      BY DEF Logged, Applies
    <3> QED
      BY <1>1, <2>1, <2>2, <3>1 DEF SkillsInv, BroughtIsKnown, Files
  <2>3. ASSUME Kind(d) # "external", \A n \in DOMAIN Body(d) : before[Item(d, n)] \notin {"absent", "empty"},
               NEW n \in DOMAIN Body(d)
        PROVE  tree[Item(d, n)] = before[Item(d, n)]
    BY <1>1, <2>1, <2>3 DEF SkillsInv, FoundIsKept
  <2> QED
    BY <2>2, <2>3 DEF Things, Item
<1> QED
  BY <1>1, SkillsInvariant, PTL
=============================================================================
