--------------------------- MODULE DeliveryProofs ---------------------------
(***************************************************************************)
(* Proofs about Delivery, for any rows, sessions and bounds.               *)
(***************************************************************************)
EXTENDS Delivery, TLAPS

USE DeliveryAssumption DEF DeliveryAssumption

\* One poller drains a session, and the session is marked meanwhile.
SoleDrainer ==
  \A p \in Pollers : at[p] # NoSession =>
    /\ at[p] \in inflight
    /\ \A q \in Pollers : at[q] = at[p] => q = p

\* A snapshot holds rows of the drained session that nobody has settled.
SnapshotUnsettled ==
  \A p \in Pollers :
    /\ at[p] = NoSession => queue[p] = {} /\ call[p] = "none"
    /\ \A m \in queue[p] : SessionOf[m] = at[p] /\ Written(m) /\ delivered[m] = "none"

\* Timestamps order the rows.
StampsOrder ==
  \A m \in Rows :
    /\ stamp[m] <= clock
    /\ \A n \in Rows : Written(m) /\ stamp[n] = stamp[m] => m = n

\* Only an exception while giving up lets the attempts pass their limit.
AttemptsCounted == \A m \in Rows : attempts[m] < MaxAttempts + faults

\* A message that was shown and is neither recorded nor failed is the one an
\* adapter is about to answer for.
CopiesExplained ==
  \A m \in Rows :
    copies[m] > 0 /\ delivered[m] = "none" /\ attempts[m] = 0 /\ hostCrashes = 0 =>
      \E p \in Pollers : IsHead(p, m) /\ call[p] = "shown"

ShownIsWritten == \A m \in Rows : copies[m] > 0 => Written(m)

ShownIsCopied ==
  \A p \in Pollers, m \in Rows : call[p] = "shown" /\ IsHead(p, m) => copies[m] > 0

\* What is older than a row of a snapshot is in it, or was tried before.
SnapshotComplete ==
  \A p \in Pollers : \A n \in queue[p] : \A m \in Rows :
    SessionOf[m] = SessionOf[n] /\ Written(m) /\ stamp[m] < stamp[n] =>
      m \in queue[p] \/ delivered[m] # "none" \/ attempts[m] > 0 \/ hostCrashes > 0

Tracked ==
  /\ SoleDrainer /\ SnapshotUnsettled /\ StampsOrder /\ AttemptsCounted
  /\ CopiesExplained /\ ShownIsWritten /\ ShownIsCopied /\ SnapshotComplete
  /\ DeliveredWasShown /\ FirstShownInOrder

Inv == TypeOK /\ Tracked

LEMMA InitTracked == Init => Inv
  BY DEF Init, Inv, TypeOK, Tracked, SoleDrainer, SnapshotUnsettled, StampsOrder,
     AttemptsCounted, CopiesExplained, ShownIsWritten, ShownIsCopied, SnapshotComplete,
     DeliveredWasShown,
     FirstShownInOrder, Written, IsHead, Outcomes

\* A step that leaves rows, drains and calls alone keeps the invariant.
LEMMA Unmoved ==
  ASSUME Tracked, faults' >= faults, faults \in Nat, faults' \in Nat, TypeOK,
         UNCHANGED <<stamp, delivered, attempts, inflight, at, queue, call, copies, clock,
                     hostCrashes>>
  PROVE  Tracked'
<1>1. SoleDrainer' /\ SnapshotUnsettled' /\ StampsOrder'
  BY DEF Tracked, SoleDrainer, SnapshotUnsettled, StampsOrder, Written
<1>2. AttemptsCounted'
  BY DEF Tracked, AttemptsCounted, TypeOK
<1>3. CopiesExplained' /\ ShownIsWritten' /\ ShownIsCopied' /\ SnapshotComplete'
  BY DEF Tracked, CopiesExplained, ShownIsWritten, ShownIsCopied, SnapshotComplete, Written, IsHead
<1>4. DeliveredWasShown' /\ FirstShownInOrder'
  BY DEF Tracked, DeliveredWasShown, FirstShownInOrder, Written
<1> QED
  BY <1>1, <1>2, <1>3, <1>4 DEF Tracked

\* A new row is younger than every other row and in no snapshot.
LEMMA InsertTracked ==
  ASSUME Inv, NEW m \in Rows, Insert(m)
  PROVE  Inv'
<1>1. /\ ~Written(m) /\ clock' = clock + 1 /\ stamp' = [stamp EXCEPT ![m] = clock + 1]
      /\ UNCHANGED <<delivered, sessions, host, memory, copies, starts, faults, hostCrashes>>
  BY DEF Insert
<1>2. TypeOK'
  BY <1>1 DEF Insert, Inv, TypeOK, sessions, memory, polls
<1>3. m \notin queue["active"] /\ m \notin queue["sweep"]
  BY <1>1 DEF Inv, Tracked, SnapshotUnsettled, Pollers
<1>4. \A n \in Rows \ {m} : stamp'[n] = stamp[n] /\ (Written(n)' <=> Written(n))
  BY <1>1 DEF Inv, TypeOK, Written
<1>5. stamp'[m] = clock + 1 /\ clock \in Nat
  BY <1>1 DEF Inv, TypeOK
<1>6. \A p \in Pollers, n \in Rows : IsHead(p, n)' <=> IsHead(p, n)
  BY <1>1, <1>3, <1>4 DEF IsHead, Pollers, memory, polls, Inv, TypeOK
<1>7. SoleDrainer'
  BY <1>1 DEF Inv, Tracked, SoleDrainer, memory, polls
<1>8. SnapshotUnsettled'
  BY <1>1, <1>3, <1>4 DEF Inv, Tracked, SnapshotUnsettled, memory, polls, Pollers, TypeOK
<1>9. StampsOrder'
  BY <1>1, <1>4, <1>5 DEF Inv, Tracked, StampsOrder, TypeOK, Written
<1>10. AttemptsCounted'
  BY <1>1 DEF Inv, Tracked, AttemptsCounted, memory
<1>11. CopiesExplained' /\ ShownIsWritten' /\ ShownIsCopied'
  BY <1>1, <1>4, <1>5, <1>6 DEF Inv, TypeOK, Written, Tracked, CopiesExplained, ShownIsWritten, ShownIsCopied, memory, polls
<1>12. SnapshotComplete'
  BY <1>1, <1>3, <1>4, <1>5 DEF Inv, Tracked, SnapshotComplete, StampsOrder, memory, polls,
     Pollers, TypeOK
<1>13. DeliveredWasShown'
  BY <1>1 DEF Inv, Tracked, DeliveredWasShown
<1>14. FirstShownInOrder'
  BY <1>1, <1>4, <1>5 DEF Inv, Tracked, FirstShownInOrder, StampsOrder, ShownIsWritten,
     Written, TypeOK, memory
<1> QED
  BY <1>2, <1>7, <1>8, <1>9, <1>10, <1>11, <1>12, <1>13, <1>14 DEF Inv, Tracked

\* The loop is done with the head of a snapshot: either its outcome is recorded,
\* or one more attempt is counted.
LEMMA DoneTracked ==
  ASSUME Inv, NEW p \in Pollers, NEW m \in Rows, IsHead(p, m), Done(p, m),
         \/ /\ delivered' = [delivered EXCEPT ![m] = "failed"]
            /\ attempts' = [attempts EXCEPT ![m] = 0]
         \/ /\ delivered' = [delivered EXCEPT ![m] = "delivered"]
            /\ attempts' = [attempts EXCEPT ![m] = 0]
            /\ copies[m] > 0 \/ m \in Unroutable
         \/ /\ delivered' = delivered
            /\ attempts' = [attempts EXCEPT ![m] = @ + 1]
            /\ attempts[m] + 1 < MaxAttempts,
         faults' \in faults..MaxFaults,
         UNCHANGED <<stamp, copies, clock, hostCrashes>>
  PROVE  /\ Tracked'
         /\ delivered' \in [Rows -> Outcomes] /\ inflight' \in SUBSET Sessions
         /\ attempts' \in [Rows -> 0..(MaxAttempts + MaxFaults - 1)]
         /\ at' \in [Pollers -> Sessions \cup {NoSession}]
         /\ queue' \in [Pollers -> SUBSET Rows]
         /\ call' \in [Pollers -> {"none", "calling", "shown"}]
<1> DEFINE Rest == queue[p] \ {m}
<1>1. /\ queue' = [queue EXCEPT ![p] = Rest] /\ call' = [call EXCEPT ![p] = "none"]
      /\ \/ /\ Rest = {} /\ at' = [at EXCEPT ![p] = NoSession] /\ inflight' = inflight \ {at[p]}
         \/ Rest # {} /\ at' = at /\ inflight' = inflight
  BY DEF Done, Inv, TypeOK
<1>2. /\ m \in queue[p] /\ at[p] # NoSession /\ SessionOf[m] = at[p] /\ Written(m)
      /\ delivered[m] = "none" /\ at[p] \in Sessions
      /\ \A q \in Pollers \ {p} : m \notin queue[q] /\ at[q] # at[p]
  BY DEF IsHead, Inv, TypeOK, Tracked, SnapshotUnsettled, SoleDrainer
<1>3. /\ \A n \in Rows \ {m} : delivered'[n] = delivered[n] /\ attempts'[n] = attempts[n]
      /\ delivered' \in [Rows -> Outcomes]
      /\ delivered'[m] # "none" \/ attempts'[m] > 0
  BY DEF Inv, TypeOK, Outcomes
<1>4. attempts' \in [Rows -> 0..(MaxAttempts + MaxFaults - 1)]
  BY DEF Inv, TypeOK
<1>5. /\ inflight' \in SUBSET Sessions /\ at' \in [Pollers -> Sessions \cup {NoSession}]
      /\ queue' \in [Pollers -> SUBSET Rows]
      /\ call' \in [Pollers -> {"none", "calling", "shown"}]
  BY <1>1 DEF Inv, TypeOK
<1>6. \A q \in Pollers \ {p}, n \in Rows :
        queue'[q] = queue[q] /\ call'[q] = call[q] /\ at'[q] = at[q] /\ (IsHead(q, n)' <=> IsHead(q, n))
  BY <1>1 DEF Inv, TypeOK, IsHead
<1>7. queue'[p] = Rest /\ call'[p] = "none" /\ (at'[p] = NoSession <=> Rest = {})
      /\ (Rest # {} => at'[p] = at[p])
  BY <1>1, <1>2 DEF Inv, TypeOK
<1>8. SoleDrainer'
  BY <1>1, <1>2, <1>6, <1>7 DEF Inv, Tracked, SoleDrainer
<1>9. SnapshotUnsettled'
  <2>1. ASSUME NEW q \in Pollers PROVE at'[q] = NoSession => queue'[q] = {} /\ call'[q] = "none"
    BY <1>6, <1>7 DEF Inv, Tracked, SnapshotUnsettled
  <2>2. ASSUME NEW q \in Pollers, NEW n \in queue'[q]
        PROVE  SessionOf[n] = at'[q] /\ Written(n)' /\ delivered'[n] = "none"
    <3>1. n \in queue[q] /\ n # m /\ at'[q] = at[q] /\ n \in Rows
      BY <2>2, <1>2, <1>6, <1>7 DEF Inv, TypeOK
    <3> QED
      BY <3>1, <1>3 DEF Inv, Tracked, SnapshotUnsettled, Written
  <2> QED
    BY <2>1, <2>2 DEF SnapshotUnsettled
<1>10. StampsOrder' /\ ShownIsWritten'
  BY DEF Inv, Tracked, StampsOrder, ShownIsWritten, Written
<1>11. AttemptsCounted'
  BY DEF Inv, TypeOK, Tracked, AttemptsCounted
<1>12. CopiesExplained'
  <2> SUFFICES ASSUME NEW n \in Rows, copies[n] > 0, delivered'[n] = "none", attempts'[n] = 0,
                      hostCrashes = 0
               PROVE  \E q \in Pollers : IsHead(q, n)' /\ call'[q] = "shown"
    BY DEF CopiesExplained
  <2>1. n # m
    BY <1>3, <1>4 DEF Inv, TypeOK
  <2>2. PICK q \in Pollers : IsHead(q, n) /\ call[q] = "shown"
    BY <2>1, <1>3 DEF Inv, Tracked, CopiesExplained
  <2>3. q # p
    <3> SUFFICES ASSUME q = p PROVE FALSE
      OBVIOUS
    <3>1. n \in queue[p] /\ stamp[n] <= stamp[m] /\ stamp[m] <= stamp[n]
      BY <1>2, <2>2 DEF IsHead
    <3>2. stamp[n] = stamp[m]
      BY <3>1 DEF Inv, TypeOK
    <3> QED
      BY <2>1, <3>2, <1>2 DEF Inv, Tracked, StampsOrder
  <2> QED
    BY <2>2, <2>3, <1>6
<1>13. ShownIsCopied'
  BY <1>6, <1>7 DEF Inv, Tracked, ShownIsCopied
<1>14. SnapshotComplete'
  <2> SUFFICES ASSUME NEW q \in Pollers, NEW n \in queue'[q], NEW k \in Rows,
                      SessionOf[k] = SessionOf[n], Written(k), stamp[k] < stamp[n],
                      k \notin queue'[q]
               PROVE  delivered'[k] # "none" \/ attempts'[k] > 0 \/ hostCrashes > 0
    BY DEF SnapshotComplete, Written
  <2>1. CASE k = m
    BY <2>1, <1>3
  <2>2. CASE k # m
    <3>1. n \in queue[q] /\ k \notin queue[q]
      BY <2>2, <1>6, <1>7
    <3>2. delivered[k] # "none" \/ attempts[k] > 0 \/ hostCrashes > 0
      BY <3>1 DEF Inv, Tracked, SnapshotComplete
    <3> QED
      BY <3>2, <2>2, <1>3
  <2> QED
    BY <2>1, <2>2
<1>15. DeliveredWasShown'
  BY <1>3 DEF Inv, TypeOK, Tracked, DeliveredWasShown
<1>16. FirstShownInOrder'
  BY <1>3, <1>4 DEF Inv, TypeOK, Tracked, FirstShownInOrder, Written
<1> QED
  BY <1>3, <1>4, <1>5, <1>8, <1>9, <1>10, <1>11, <1>12, <1>13, <1>14, <1>15, <1>16 DEF Tracked

LEMMA HeadsAreUnique ==
  ASSUME Inv, NEW p \in Pollers, NEW m \in Rows, NEW n \in Rows, IsHead(p, m), IsHead(p, n)
  PROVE  m = n
<1>1. stamp[m] <= stamp[n] /\ stamp[n] <= stamp[m] /\ m \in queue[p]
  BY DEF IsHead
<1>2. stamp[n] = stamp[m]
  BY <1>1 DEF Inv, TypeOK
<1> QED
  BY <1>1, <1>2 DEF Inv, Tracked, StampsOrder, SnapshotUnsettled

\* A row that two pollers hold is held by one.
LEMMA HeldOnce ==
  ASSUME Inv, NEW p \in Pollers, NEW q \in Pollers, NEW m \in Rows, m \in queue[p], m \in queue[q]
  PROVE  p = q
<1>1. at[p] = SessionOf[m] /\ at[q] = SessionOf[m] /\ SessionOf[m] # NoSession
  BY DEF Inv, Tracked, SnapshotUnsettled
<1> QED
  BY <1>1 DEF Inv, Tracked, SoleDrainer

LEMMA VisitTracked ==
  ASSUME Inv, NEW p \in Pollers, Visit(p)
  PROVE  Inv'
<1>1. /\ at[p] = NoSession
      /\ UNCHANGED <<database, sessions, host, attempts, call, copies, bounds>>
  BY DEF Visit
<1>2. PICK s \in todo[p] :
        /\ todo' = [todo EXCEPT ![p] = @ \ {s}]
        /\ IF s \in inflight \/ Undelivered(s) = {}
           THEN UNCHANGED <<inflight, at, queue>>
           ELSE /\ inflight' = inflight \cup {s}
                /\ at' = [at EXCEPT ![p] = s]
                /\ queue' = [queue EXCEPT ![p] = Undelivered(s)]
  BY DEF Visit
<1>3. s \in Sessions /\ s # NoSession
  BY DEF Inv, TypeOK
<1>4. CASE s \in inflight \/ Undelivered(s) = {}
  <2>1. Tracked'
    BY <1>1, <1>2, <1>4, Unmoved DEF database, bounds, Inv, TypeOK
  <2>2. TypeOK'
    BY <1>1, <1>2, <1>4 DEF database, sessions, bounds, Inv, TypeOK
  <2> QED
    BY <2>1, <2>2 DEF Inv
<1>5. CASE s \notin inflight /\ Undelivered(s) # {}
  <2>1. /\ inflight' = inflight \cup {s}
        /\ at' = [at EXCEPT ![p] = s]
        /\ queue' = [queue EXCEPT ![p] = Undelivered(s)]
    BY <1>2, <1>5
  <2>2. TypeOK'
    BY <1>1, <1>2, <1>3, <2>1 DEF database, sessions, bounds, Inv, TypeOK, Undelivered
  <2>3. \A q \in Pollers \ {p} : at'[q] = at[q] /\ queue'[q] = queue[q] /\ at[q] # s
    BY <2>1, <1>3, <1>5 DEF Inv, TypeOK, Tracked, SoleDrainer
  <2>4. at'[p] = s /\ queue'[p] = Undelivered(s) /\ call' = call /\ call[p] = "none"
    BY <1>1, <2>1 DEF Inv, TypeOK, Tracked, SnapshotUnsettled
  <2>5. \A q \in Pollers \ {p}, n \in Rows : IsHead(q, n)' <=> IsHead(q, n)
    BY <1>1, <2>3 DEF IsHead, database
  <2>6. SoleDrainer'
    BY <1>3, <2>1, <2>3, <2>4 DEF Inv, Tracked, SoleDrainer
  <2>7. SnapshotUnsettled'
    <3>1. \A m \in Undelivered(s) : SessionOf[m] = s /\ Written(m)' /\ delivered'[m] = "none"
      BY <1>1 DEF Undelivered, Written, database
    <3>2. ASSUME NEW q \in Pollers PROVE at'[q] = NoSession => queue'[q] = {} /\ call'[q] = "none"
      BY <1>1, <1>3, <2>3, <2>4 DEF Inv, Tracked, SnapshotUnsettled
    <3>3. ASSUME NEW q \in Pollers \ {p}, NEW n \in queue'[q]
          PROVE  SessionOf[n] = at'[q] /\ Written(n)' /\ delivered'[n] = "none"
      BY <1>1, <2>3 DEF Inv, Tracked, SnapshotUnsettled, Written, database
    <3> QED
      BY <3>1, <3>2, <3>3, <2>4 DEF SnapshotUnsettled
  <2>8. StampsOrder' /\ AttemptsCounted' /\ ShownIsWritten' /\ DeliveredWasShown' /\ FirstShownInOrder'
    BY <1>1 DEF database, bounds, Inv, Tracked, StampsOrder, AttemptsCounted, ShownIsWritten,
       DeliveredWasShown, FirstShownInOrder, Written
  <2>9. CopiesExplained' /\ ShownIsCopied'
    BY <1>1, <2>4, <2>5 DEF database, bounds, Inv, Tracked, CopiesExplained, ShownIsCopied
  <2>10. SnapshotComplete'
    <3> SUFFICES ASSUME NEW q \in Pollers, NEW n \in queue'[q], NEW k \in Rows,
                        SessionOf[k] = SessionOf[n], Written(k), stamp[k] < stamp[n],
                        k \notin queue'[q]
                 PROVE  delivered[k] # "none" \/ attempts[k] > 0 \/ hostCrashes > 0
      BY <1>1 DEF SnapshotComplete, Written, database, bounds
    <3>1. CASE q = p
      BY <3>1, <2>4 DEF Undelivered, Inv, TypeOK, Outcomes
    <3>2. CASE q # p
      BY <3>2, <2>3 DEF Inv, Tracked, SnapshotComplete
    <3> QED
      BY <3>1, <3>2
  <2> QED
    BY <2>2, <2>6, <2>7, <2>8, <2>9, <2>10 DEF Inv, Tracked
<1> QED
  BY <1>4, <1>5

LEMMA CallTracked ==
  ASSUME Inv, NEW p \in Pollers, Call(p)
  PROVE  Inv'
<1>1. PICK m \in Rows \ Unroutable : IsHead(p, m) /\ call[p] = "none"
  BY DEF Call
<1>2. /\ call' = [call EXCEPT ![p] = "calling"]
      /\ UNCHANGED <<database, sessions, host, attempts, inflight, todo, at, queue, copies, bounds>>
  BY DEF Call
<1>3. TypeOK'
  BY <1>2 DEF Inv, TypeOK, database, sessions, bounds
<1>4. /\ call'[p] = "calling" /\ at[p] # NoSession
      /\ \A q \in Pollers \ {p} : call'[q] = call[q]
      /\ \A q \in Pollers, n \in Rows : IsHead(q, n)' <=> IsHead(q, n)
  BY <1>1, <1>2 DEF Inv, TypeOK, Tracked, SnapshotUnsettled, IsHead, database
<1>5. SoleDrainer' /\ SnapshotUnsettled'
  BY <1>2, <1>4 DEF Inv, Tracked, SoleDrainer, SnapshotUnsettled, Written, database
<1>6. StampsOrder' /\ AttemptsCounted' /\ ShownIsWritten' /\ DeliveredWasShown' /\ FirstShownInOrder'
  BY <1>2 DEF database, bounds, Inv, Tracked, StampsOrder, AttemptsCounted, ShownIsWritten,
     DeliveredWasShown, FirstShownInOrder, Written
<1>7. CopiesExplained' /\ ShownIsCopied'
  BY <1>1, <1>2, <1>4 DEF database, bounds, Inv, Tracked, CopiesExplained, ShownIsCopied
<1>8. SnapshotComplete'
  BY <1>2 DEF Inv, Tracked, SnapshotComplete, Written, database, bounds
<1> QED
  BY <1>3, <1>5, <1>6, <1>7, <1>8 DEF Inv, Tracked

LEMMA ShowTracked ==
  ASSUME Inv, NEW p \in Pollers, Show(p)
  PROVE  Inv'
<1>1. PICK m \in Rows : IsHead(p, m) /\ copies' = [copies EXCEPT ![m] = @ + 1]
  BY DEF Show
<1>2. /\ call[p] = "calling" /\ call' = [call EXCEPT ![p] = "shown"]
      /\ UNCHANGED <<database, sessions, host, attempts, inflight, todo, at, queue, bounds>>
  BY DEF Show
<1>3. TypeOK'
  BY <1>1, <1>2 DEF Inv, TypeOK, database, sessions, bounds
<1>4. /\ call'[p] = "shown" /\ copies'[m] > 0
      /\ \A n \in Rows \ {m} : copies'[n] = copies[n]
      /\ \A q \in Pollers \ {p} : call'[q] = call[q]
      /\ \A q \in Pollers, n \in Rows : IsHead(q, n)' <=> IsHead(q, n)
  BY <1>1, <1>2 DEF Inv, TypeOK, IsHead, database
<1>5. m \in queue[p] /\ at[p] # NoSession /\ Written(m) /\ delivered[m] = "none"
  BY <1>1 DEF IsHead, Inv, Tracked, SnapshotUnsettled
<1>6. SoleDrainer' /\ SnapshotUnsettled'
  BY <1>2, <1>4, <1>5 DEF Inv, Tracked, SoleDrainer, SnapshotUnsettled, Written, database
<1>7. StampsOrder' /\ AttemptsCounted' /\ SnapshotComplete'
  BY <1>2 DEF database, bounds, Inv, Tracked, StampsOrder, AttemptsCounted, SnapshotComplete, Written
<1>8. ShownIsWritten' /\ DeliveredWasShown'
  BY <1>2, <1>4, <1>5 DEF database, Inv, Tracked, ShownIsWritten, DeliveredWasShown, Written
<1>9. CopiesExplained'
  <2> SUFFICES ASSUME NEW n \in Rows, copies'[n] > 0, delivered[n] = "none", attempts[n] = 0,
                      hostCrashes = 0
               PROVE  \E q \in Pollers : IsHead(q, n) /\ call'[q] = "shown"
    BY <1>2, <1>4 DEF CopiesExplained, database, bounds
  <2>1. CASE n = m
    BY <2>1, <1>1, <1>4
  <2>2. CASE n # m
    <3>1. PICK q \in Pollers : IsHead(q, n) /\ call[q] = "shown"
      BY <2>2, <1>4 DEF Inv, Tracked, CopiesExplained
    <3> QED
      BY <3>1, <1>2, <1>4
  <2> QED
    BY <2>1, <2>2
<1>10. ShownIsCopied'
  <2> SUFFICES ASSUME NEW q \in Pollers, NEW n \in Rows, call'[q] = "shown", IsHead(q, n)
               PROVE  copies'[n] > 0
    BY <1>4 DEF ShownIsCopied
  <2>1. CASE n = m
    BY <2>1, <1>4
  <2>2. CASE n # m
    <3>1. q # p
      BY <2>2, <1>1, HeadsAreUnique
    <3> QED
      BY <3>1, <2>2, <1>4 DEF Inv, Tracked, ShownIsCopied
  <2> QED
    BY <2>1, <2>2
<1>11. FirstShownInOrder'
  <2> SUFFICES ASSUME NEW k \in Rows, NEW n \in Rows, SessionOf[k] = SessionOf[n], Written(k),
                      stamp[k] < stamp[n], copies'[n] > 0, copies'[k] = 0
               PROVE  attempts[k] > 0 \/ delivered[k] # "none" \/ hostCrashes > 0
    BY <1>2 DEF FirstShownInOrder, Written, database, bounds
  <2>1. k # m /\ copies[k] = 0
    BY <1>4
  <2>2. CASE n = m
    <3>1. k \notin queue[p]
      BY <2>2, <1>1 DEF IsHead, Inv, TypeOK
    <3> QED
      BY <3>1, <2>2, <1>5 DEF Inv, Tracked, SnapshotComplete
  <2>3. CASE n # m
    BY <2>1, <2>3, <1>4 DEF Inv, Tracked, FirstShownInOrder
  <2> QED
    BY <2>2, <2>3
<1> QED
  BY <1>3, <1>6, <1>7, <1>8, <1>9, <1>10, <1>11 DEF Inv, Tracked

LEMMA GiveUpTracked ==
  ASSUME Inv, NEW p \in Pollers, GiveUpThrows(p)
  PROVE  Inv'
<1>1. PICK m \in Rows : IsHead(p, m) /\ attempts' = [attempts EXCEPT ![m] = @ + 1]
  BY DEF GiveUpThrows
<1>2. /\ faults < MaxFaults /\ faults' = faults + 1
      /\ inflight' = inflight \ {at[p]} /\ at' = [at EXCEPT ![p] = NoSession]
      /\ todo' = [todo EXCEPT ![p] = {}] /\ queue' = [queue EXCEPT ![p] = {}]
      /\ call' = [call EXCEPT ![p] = "none"]
      /\ UNCHANGED <<database, sessions, host, copies, clock, starts, hostCrashes>>
  BY DEF GiveUpThrows, Fault
<1>3. /\ attempts'[m] > 0 /\ \A n \in Rows : attempts'[n] >= attempts[n]
      /\ \A n \in Rows : attempts'[n] < MaxAttempts + faults'
      /\ attempts' \in [Rows -> Nat]
  BY <1>1, <1>2 DEF Inv, TypeOK, Tracked, AttemptsCounted
<1>4. attempts' \in [Rows -> 0..(MaxAttempts + MaxFaults - 1)]
  BY <1>2, <1>3 DEF Inv, TypeOK
<1>5. TypeOK'
  BY <1>2, <1>4 DEF Inv, TypeOK, database, sessions
<1>6. /\ at'[p] = NoSession /\ queue'[p] = {} /\ call'[p] = "none" /\ at[p] # NoSession
      /\ \A q \in Pollers \ {p} :
           at'[q] = at[q] /\ queue'[q] = queue[q] /\ call'[q] = call[q] /\ at[q] # at[p]
      /\ \A q \in Pollers \ {p}, n \in Rows : IsHead(q, n)' <=> IsHead(q, n)
  BY <1>1, <1>2 DEF Inv, TypeOK, IsHead, database, Tracked, SoleDrainer, SnapshotUnsettled
<1>7. SoleDrainer'
  BY <1>2, <1>6 DEF Inv, Tracked, SoleDrainer
<1>8. SnapshotUnsettled'
  BY <1>2, <1>6 DEF Inv, Tracked, SnapshotUnsettled, Written, database
<1>9. StampsOrder' /\ ShownIsWritten' /\ DeliveredWasShown'
  BY <1>2 DEF database, Inv, Tracked, StampsOrder, ShownIsWritten, DeliveredWasShown, Written
<1>10. AttemptsCounted'
  BY <1>3 DEF AttemptsCounted
<1>11. CopiesExplained'
  <2> SUFFICES ASSUME NEW n \in Rows, copies[n] > 0, delivered[n] = "none", attempts'[n] = 0,
                      hostCrashes = 0
               PROVE  \E q \in Pollers : IsHead(q, n)' /\ call'[q] = "shown"
    BY <1>2 DEF CopiesExplained, database
  <2>1. n # m /\ attempts[n] = 0
    BY <1>3 DEF Inv, TypeOK
  <2>2. PICK q \in Pollers : IsHead(q, n) /\ call[q] = "shown"
    BY <2>1 DEF Inv, Tracked, CopiesExplained
  <2>3. q # p
    BY <2>1, <2>2, <1>1, HeadsAreUnique
  <2> QED
    BY <2>2, <2>3, <1>6
<1>12. ShownIsCopied'
  BY <1>2, <1>6 DEF Inv, Tracked, ShownIsCopied
<1>13. SnapshotComplete'
  <2> SUFFICES ASSUME NEW q \in Pollers, NEW n \in queue'[q], NEW k \in Rows,
                      SessionOf[k] = SessionOf[n], Written(k), stamp[k] < stamp[n],
                      k \notin queue'[q]
               PROVE  delivered[k] # "none" \/ attempts'[k] > 0 \/ hostCrashes > 0
    BY <1>2 DEF SnapshotComplete, Written, database
  <2>1. q # p /\ n \in queue[q] /\ k \notin queue[q]
    BY <1>6
  <2>2. delivered[k] # "none" \/ attempts[k] > 0 \/ hostCrashes > 0
    BY <2>1 DEF Inv, Tracked, SnapshotComplete
  <2> QED
    BY <2>2, <1>3 DEF Inv, TypeOK
<1>14. FirstShownInOrder'
  <2> SUFFICES ASSUME NEW k \in Rows, NEW n \in Rows, SessionOf[k] = SessionOf[n], Written(k),
                      stamp[k] < stamp[n], copies[n] > 0, copies[k] = 0
               PROVE  attempts'[k] > 0 \/ delivered[k] # "none" \/ hostCrashes > 0
    BY <1>2 DEF FirstShownInOrder, Written, database
  <2>1. attempts[k] > 0 \/ delivered[k] # "none" \/ hostCrashes > 0
    BY DEF Inv, Tracked, FirstShownInOrder
  <2> QED
    BY <2>1, <1>3 DEF Inv, TypeOK
<1> QED
  BY <1>5, <1>7, <1>8, <1>9, <1>10, <1>11, <1>12, <1>13, <1>14 DEF Inv, Tracked

\* The host's memory is gone, and from now on any order and any copy may be
\* the crash's doing.
LEMMA HostCrashTracked == Inv /\ HostCrash => Inv'
<1> SUFFICES ASSUME Inv, HostCrash PROVE Inv'
  OBVIOUS
<1>1. /\ hostCrashes' = hostCrashes + 1 /\ host' = "down"
      /\ attempts' = [m \in Rows |-> 0] /\ inflight' = {}
      /\ todo' = [p \in Pollers |-> {}] /\ at' = [p \in Pollers |-> NoSession]
      /\ queue' = [p \in Pollers |-> {}] /\ call' = [p \in Pollers |-> "none"]
      /\ UNCHANGED <<database, sessions, copies, clock, starts, faults>>
  BY DEF HostCrash
<1>2. hostCrashes' > 0 /\ hostCrashes' \in Nat
  BY <1>1 DEF Inv, TypeOK
<1>3. TypeOK'
  BY <1>1, <1>2 DEF Inv, TypeOK, database, sessions
<1>4. SoleDrainer' /\ SnapshotUnsettled' /\ ShownIsCopied'
  BY <1>1 DEF SoleDrainer, SnapshotUnsettled, ShownIsCopied
<1>5. StampsOrder' /\ ShownIsWritten' /\ DeliveredWasShown'
  BY <1>1 DEF database, Inv, Tracked, StampsOrder, ShownIsWritten, DeliveredWasShown, Written
<1>6. AttemptsCounted'
  BY <1>1 DEF AttemptsCounted, Inv, TypeOK
<1>7. CopiesExplained' /\ SnapshotComplete' /\ FirstShownInOrder'
  BY <1>2 DEF CopiesExplained, SnapshotComplete, FirstShownInOrder
<1> QED
  BY <1>3, <1>4, <1>5, <1>6, <1>7 DEF Inv, Tracked

LEMMA RecordOrFail ==
  ASSUME Inv, NEW m \in Rows, delivered[m] = "none", Failed(m)
  PROVE  \/ /\ delivered' = [delivered EXCEPT ![m] = "failed"]
            /\ attempts' = [attempts EXCEPT ![m] = 0]
         \/ /\ delivered' = delivered
            /\ attempts' = [attempts EXCEPT ![m] = @ + 1]
            /\ attempts[m] + 1 < MaxAttempts
<1>1. CASE attempts[m] + 1 >= MaxAttempts
  BY <1>1 DEF Failed, Record, Inv, TypeOK
<1>2. CASE ~(attempts[m] + 1 >= MaxAttempts)
  <2>1. attempts[m] + 1 < MaxAttempts
    BY <1>2 DEF Inv, TypeOK
  <2> QED
    BY <1>2, <2>1 DEF Failed
<1> QED
  BY <1>1, <1>2

LEMMA PollTracked ==
  ASSUME Inv, NEW p \in Pollers, Poll(p)
  PROVE  Inv'
<1> USE DEF database, sessions, bounds
<1>0. /\ faults \in 0..MaxFaults /\ faults \in faults..MaxFaults
      /\ \A m \in Rows : IsHead(p, m) => delivered[m] = "none"
      /\ \A m \in Rows : call[p] = "shown" /\ IsHead(p, m) => copies[m] > 0
  BY DEF Inv, TypeOK, Tracked, SnapshotUnsettled, ShownIsCopied, IsHead
<1>1. CASE PollStart(p)
  <2>1. Tracked'
    BY <1>0, <1>1, Unmoved DEF PollStart, Inv
  <2>2. TypeOK'
    BY <1>1 DEF PollStart, Listed, Inv, TypeOK
  <2> QED
    BY <2>1, <2>2 DEF Inv
<1>2. CASE Visit(p)
  BY <1>2, VisitTracked
<1>3. CASE ReadThrows(p)
  <2>1. Tracked'
    BY <1>0, <1>3, Unmoved DEF ReadThrows, Fault, Inv
  <2>2. TypeOK'
    BY <1>3 DEF ReadThrows, Fault, Inv, TypeOK
  <2> QED
    BY <2>1, <2>2 DEF Inv
<1>4. CASE Drop(p)
  <2>1. PICK m \in Unroutable : IsHead(p, m) /\ Record(m, "delivered") /\ Done(p, m)
    BY <1>4 DEF Drop
  <2>2. /\ delivered' = [delivered EXCEPT ![m] = "delivered"]
        /\ attempts' = [attempts EXCEPT ![m] = 0]
    BY <1>0, <2>1 DEF Record, Inv, TypeOK
  <2>3. UNCHANGED <<stamp, outbox, sessions, host, todo, copies, bounds>>
    BY <1>4 DEF Drop
  <2>4. m \in Rows /\ faults' \in faults..MaxFaults
    BY <1>0, <2>3
  <2>5. /\ Tracked'
        /\ delivered' \in [Rows -> Outcomes] /\ inflight' \in SUBSET Sessions
        /\ attempts' \in [Rows -> 0..(MaxAttempts + MaxFaults - 1)]
        /\ at' \in [Pollers -> Sessions \cup {NoSession}]
        /\ queue' \in [Pollers -> SUBSET Rows]
        /\ call' \in [Pollers -> {"none", "calling", "shown"}]
    BY <2>1, <2>2, <2>3, <2>4, DoneTracked
  <2> QED
    BY <2>3, <2>5 DEF Inv, TypeOK
<1>5. CASE Refuse(p)
  <2>1. PICK m \in Restricted : IsHead(p, m) /\ Failed(m) /\ Done(p, m)
    BY <1>5 DEF Refuse
  <2>2. UNCHANGED <<stamp, outbox, sessions, host, todo, copies, bounds>>
    BY <1>5 DEF Refuse
  <2> QED
    BY <1>0, <2>1, <2>2, RecordOrFail, DoneTracked DEF Inv, TypeOK
<1>6. CASE Call(p)
  BY <1>6, CallTracked
<1>7. CASE Show(p)
  BY <1>7, ShowTracked
<1>8. CASE Answer(p)
  <2>1. PICK m \in Rows :
          IsHead(p, m) /\ Record(m, "delivered") /\ Done(p, m) /\ outbox' = outbox \ {m}
    BY <1>8 DEF Answer
  <2>2. /\ delivered' = [delivered EXCEPT ![m] = "delivered"]
        /\ attempts' = [attempts EXCEPT ![m] = 0]
    BY <1>0, <2>1 DEF Record, Inv, TypeOK
  <2>3. call[p] = "shown" /\ UNCHANGED <<stamp, sessions, host, todo, copies, bounds>>
    BY <1>8 DEF Answer
  <2>4. outbox' \subseteq WithFiles /\ copies[m] > 0 /\ faults' \in faults..MaxFaults
    BY <1>0, <2>1, <2>3 DEF Inv, TypeOK
  <2>5. /\ Tracked'
        /\ delivered' \in [Rows -> Outcomes] /\ inflight' \in SUBSET Sessions
        /\ attempts' \in [Rows -> 0..(MaxAttempts + MaxFaults - 1)]
        /\ at' \in [Pollers -> Sessions \cup {NoSession}]
        /\ queue' \in [Pollers -> SUBSET Rows]
        /\ call' \in [Pollers -> {"none", "calling", "shown"}]
    BY <2>1, <2>2, <2>3, <2>4, DoneTracked
  <2> QED
    BY <1>0, <2>3, <2>4, <2>5 DEF Inv, TypeOK
<1>9. CASE Reject(p)
  <2>1. PICK m \in Rows : IsHead(p, m) /\ Failed(m) /\ Done(p, m)
    BY <1>9 DEF Reject
  <2>2. UNCHANGED <<stamp, outbox, sessions, host, todo, copies, bounds>>
    BY <1>9 DEF Reject
  <2> QED
    BY <1>0, <2>1, <2>2, RecordOrFail, DoneTracked DEF Inv, TypeOK
<1>10. CASE MarkThrows(p)
  <2>1. PICK m \in Rows : IsHead(p, m) /\ Failed(m) /\ Done(p, m) /\ outbox' = outbox \ {m}
    BY <1>10 DEF MarkThrows
  <2>2. /\ faults < MaxFaults /\ faults' = faults + 1
        /\ UNCHANGED <<stamp, sessions, host, todo, copies, clock, starts, hostCrashes>>
    BY <1>10 DEF MarkThrows, Fault
  <2>3. faults' \in faults..MaxFaults /\ faults' \in 0..MaxFaults
    BY <1>0, <2>2
  <2>4. outbox' \subseteq WithFiles
    BY <2>1 DEF Inv, TypeOK
  <2>5. /\ Tracked'
        /\ delivered' \in [Rows -> Outcomes] /\ inflight' \in SUBSET Sessions
        /\ attempts' \in [Rows -> 0..(MaxAttempts + MaxFaults - 1)]
        /\ at' \in [Pollers -> Sessions \cup {NoSession}]
        /\ queue' \in [Pollers -> SUBSET Rows]
        /\ call' \in [Pollers -> {"none", "calling", "shown"}]
    BY <1>0, <2>1, <2>2, <2>3, RecordOrFail, DoneTracked
  <2> QED
    BY <2>2, <2>3, <2>4, <2>5 DEF Inv, TypeOK
<1>11. CASE GiveUpThrows(p)
  BY <1>11, GiveUpTracked
<1> QED
  BY <1>1, <1>2, <1>3, <1>4, <1>5, <1>6, <1>7, <1>8, <1>9, <1>10, <1>11 DEF Poll

LEMMA NextTracked == Inv /\ [Next]_vars => Inv'
<1> SUFFICES ASSUME Inv, [Next]_vars PROVE Inv'
  OBVIOUS
<1> USE DEF database, sessions, bounds, memory, polls
<1>0. faults \in Nat
  BY DEF Inv, TypeOK
<1>1. ASSUME NEW m \in Rows, Write(m) \/ Deny(m) PROVE Inv'
  BY <1>1, InsertTracked DEF Write, Deny
<1>2. ASSUME NEW s \in Sessions, ContainerStarts(s) PROVE Inv'
  <2>1. Tracked'
    BY <1>0, <1>2, Unmoved DEF ContainerStarts, Inv
  <2>2. TypeOK'
    BY <1>2 DEF ContainerStarts, Inv, TypeOK
  <2> QED
    BY <2>1, <2>2 DEF Inv
<1>3. ASSUME NEW s \in Sessions, ContainerStops(s) PROVE Inv'
  <2>1. Tracked'
    BY <1>0, <1>3, Unmoved DEF ContainerStops, Inv
  <2>2. TypeOK'
    BY <1>3 DEF ContainerStops, Inv, TypeOK
  <2> QED
    BY <2>1, <2>2 DEF Inv
<1>4. ASSUME NEW s \in Sessions, CloseTaskSession(s) PROVE Inv'
  <2>1. Tracked'
    BY <1>0, <1>4, Unmoved DEF CloseTaskSession, Inv
  <2>2. TypeOK'
    BY <1>4 DEF CloseTaskSession, Inv, TypeOK
  <2> QED
    BY <2>1, <2>2 DEF Inv
<1>5. ASSUME NEW p \in Pollers, Poll(p) PROVE Inv'
  BY <1>5, PollTracked
<1>6. CASE HostCrash
  BY <1>6, HostCrashTracked
<1>7. CASE HostStart
  <2>1. Tracked'
    BY <1>0, <1>7, Unmoved DEF HostStart, Inv
  <2>2. TypeOK'
    BY <1>7 DEF HostStart, Inv, TypeOK
  <2> QED
    BY <2>1, <2>2 DEF Inv
<1>8. CASE UNCHANGED vars
  <2>1. Tracked'
    BY <1>0, <1>8, Unmoved DEF vars, Inv
  <2>2. TypeOK'
    BY <1>8 DEF vars, Inv, TypeOK
  <2> QED
    BY <2>1, <2>2 DEF Inv
<1> QED
  BY <1>1, <1>2, <1>3, <1>4, <1>5, <1>6, <1>7, <1>8 DEF Next

THEOREM AlwaysTracked == Spec => []Inv
  BY InitTracked, NextTracked, PTL DEF Spec

\* Every variable of the delivery loop keeps its type; in particular no row
\* is attempted past its limit but for exceptions while it is given up.
THEOREM DeliveryTypeCorrect == Spec => []TypeOK
<1>1. Inv => TypeOK
  BY DEF Inv
<1> QED
  BY <1>1, AlwaysTracked, PTL

\* deliverMessage: what is recorded as delivered was shown, unless it had no
\* address, for any number of sessions, rows, failures and crashes.
THEOREM NothingIsLostSilently == Spec => []DeliveredWasShown
<1>1. Inv => DeliveredWasShown
  BY DEF Inv, Tracked
<1> QED
  BY <1>1, AlwaysTracked, PTL

\* drainSession: without a failure or a crash, the rows of a session appear in
\* the order in which they were written.
THEOREM DeliveredInOrder == Spec => []FirstShownInOrder
<1>1. Inv => FirstShownInOrder
  BY DEF Inv, Tracked
<1> QED
  BY <1>1, AlwaysTracked, PTL

\* inflightDeliveries: the two timers alone never show a row twice.
THEOREM NoDoubleDelivery == Spec => ShownTwiceOnlyAfterFailure
<1>1. Inv /\ [Next]_vars => [CopiesFollowFailures]_vars
  <2> SUFFICES ASSUME Inv, Next, NEW m \in Rows, copies[m] > 0, copies'[m] # copies[m]
               PROVE  attempts[m] > 0 \/ hostCrashes > 0
    BY DEF CopiesFollowFailures
  <2>1. PICK p \in Pollers : Show(p)
    BY DEF Next, Write, Deny, Insert, ContainerStarts, ContainerStops, CloseTaskSession, Poll,
       PollStart, Visit, ReadThrows, Drop, Refuse, Call, Answer, Reject, MarkThrows,
       GiveUpThrows, HostCrash, HostStart
  <2>2. IsHead(p, m) /\ call[p] = "calling"
    BY <2>1 DEF Show, Inv, TypeOK
  <2>3. delivered[m] = "none" /\ m \in queue[p]
    BY <2>2 DEF IsHead, Inv, Tracked, SnapshotUnsettled
  <2>4. ASSUME attempts[m] = 0, hostCrashes = 0 PROVE FALSE
    <3>1. PICK q \in Pollers : IsHead(q, m) /\ call[q] = "shown"
      BY <2>3, <2>4 DEF Inv, Tracked, CopiesExplained
    <3>2. p = q
      BY <3>1, <2>3, HeldOnce DEF IsHead
    <3> QED
      BY <3>1, <3>2, <2>2
  <2> QED
    BY <2>4 DEF Inv, TypeOK
<1> QED
  BY <1>1, AlwaysTracked, PTL DEF Spec, ShownTwiceOnlyAfterFailure

\* The files of a row stay in the outbox until the row was shown.
FilesKept == \A m \in WithFiles : Written(m) /\ copies[m] = 0 => m \in outbox

LEMMA FilesKeptStep == Inv /\ FilesKept /\ [Next]_vars => FilesKept'
<1> SUFFICES ASSUME Inv, FilesKept, [Next]_vars PROVE FilesKept'
  OBVIOUS
<1> USE DEF database, sessions, bounds, memory, polls
<1>1. ASSUME NEW m \in Rows, Insert(m) PROVE FilesKept'
  <2>1. stamp' = [stamp EXCEPT ![m] = clock'] /\ copies' = copies
        /\ outbox \subseteq outbox' /\ (m \in WithFiles => m \in outbox')
    BY <1>1 DEF Insert
  <2> QED
    BY <2>1 DEF FilesKept, Written, Inv, TypeOK
<1>2. ASSUME NEW p \in Pollers, NEW m \in Rows, IsHead(p, m), call[p] = "shown",
             outbox' = outbox \ {m}, UNCHANGED <<stamp, copies>>
      PROVE  FilesKept'
  <2>1. copies[m] > 0
    BY <1>2 DEF Inv, Tracked, ShownIsCopied
  <2> QED
    BY <1>2, <2>1 DEF FilesKept, Written
<1>3. ASSUME NEW p \in Pollers, Show(p) PROVE FilesKept'
  <2>1. \A m \in Rows : copies'[m] = 0 => copies[m] = 0
    BY <1>3 DEF Show, Inv, TypeOK
  <2> QED
    BY <1>3, <2>1 DEF Show, FilesKept, Written
<1>4. ASSUME UNCHANGED <<stamp, copies, outbox>> PROVE FilesKept'
  BY <1>4 DEF FilesKept, Written
<1>5. ASSUME NEW p \in Pollers, Poll(p) PROVE FilesKept'
  <2>1. CASE Answer(p)
    BY <1>2, <2>1 DEF Answer
  <2>2. CASE MarkThrows(p)
    BY <1>2, <2>2 DEF MarkThrows
  <2>3. CASE Show(p)
    BY <1>3, <2>3
  <2>4. CASE PollStart(p) \/ Visit(p) \/ ReadThrows(p) \/ Drop(p) \/ Refuse(p)
    BY <1>4, <2>4 DEF PollStart, Visit, ReadThrows, Drop, Refuse
  <2>5. CASE Call(p) \/ Reject(p) \/ GiveUpThrows(p)
    BY <1>4, <2>5 DEF Call, Reject, GiveUpThrows
  <2> QED
    BY <1>5, <2>1, <2>2, <2>3, <2>4, <2>5 DEF Poll
<1>6. ASSUME NEW s \in Sessions,
             ContainerStarts(s) \/ ContainerStops(s) \/ CloseTaskSession(s)
      PROVE  FilesKept'
  BY <1>4, <1>6 DEF ContainerStarts, ContainerStops, CloseTaskSession
<1>7. CASE HostCrash \/ HostStart \/ UNCHANGED vars
  BY <1>4, <1>7 DEF HostCrash, HostStart, vars
<1> QED
  BY <1>1, <1>5, <1>6, <1>7 DEF Next, Write, Deny

\* readOutboxFiles before, clearOutbox after the adapter's call: the first copy
\* of a message carries its files, whatever failed or crashed before.
THEOREM FilesAreCarried == Spec => FilesTravel
<1>1. Init => FilesKept
  BY DEF Init, FilesKept, Written
<1>2. Inv /\ FilesKept /\ [Next]_vars => [FilesComeFirst]_vars
  <2> SUFFICES ASSUME Inv, FilesKept, Next, NEW m \in WithFiles, copies[m] = 0, copies'[m] > 0
               PROVE  m \in outbox
    BY DEF FilesComeFirst
  <2>1. PICK p \in Pollers : Show(p)
    BY DEF Next, Write, Deny, Insert, ContainerStarts, ContainerStops, CloseTaskSession, Poll,
       PollStart, Visit, ReadThrows, Drop, Refuse, Call, Answer, Reject, MarkThrows,
       GiveUpThrows, HostCrash, HostStart
  <2>2. m \in queue[p]
    BY <2>1 DEF Show, IsHead, Inv, TypeOK
  <2> QED
    BY <2>2 DEF FilesKept, Inv, Tracked, SnapshotUnsettled
<1> QED
  BY <1>1, <1>2, AlwaysTracked, FilesKeptStep, PTL DEF Spec, FilesTravel

=============================================================================
