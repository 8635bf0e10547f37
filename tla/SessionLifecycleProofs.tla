----------------------- MODULE SessionLifecycleProofs -----------------------
(***************************************************************************)
(* Proofs about SessionLifecycle, for every finite set of rows, every      *)
(* prompt window and every bound on retries and faults.                    *)
(*                                                                         *)
(* The inductive invariant Consistent has five parts besides the types.    *)
(* HostShape and OneContainer tie the host's maps to the process: only     *)
(* with them does "not active" mean that nobody claims rows any more.      *)
(* LoopShape says what the loop may hold at each place, RowsHeldOnce that  *)
(* what it holds is claimed, and DatabasesAgree what the two files may     *)
(* say about one row.  One lemma per part shows that steps preserve it.    *)
(***************************************************************************)
EXTENDS SessionLifecycle, FiniteSetTheorems, TLAPS

USE ConstantsAssumption
    DEF ConstantsAssumption, Statuses, Acks, ProcStates

-----------------------------------------------------------------------------
(* The inductive invariant *)

\* A wake is in flight only without a container, and dies with the host.
HostShape ==
  /\ waking => ~active
  /\ host = "down" => ~waking /\ ~active

\* What the loop may hold at each place.
LoopShape ==
  /\ proc \in {"none", "booting"} =>
       ~hung /\ batch = {} /\ inTurn = {} /\ follow = {} /\ late = {}
  /\ proc = "polling" => batch = {}
  /\ proc # "querying" => follow = {}

Consistent ==
  /\ TypeOK
  /\ HostShape
  /\ OneContainer
  /\ LoopShape
  /\ RowsHeldOnce
  /\ DatabasesAgree

\* The initial states satisfy the invariant.
LEMMA InitConsistent == Init => Consistent
<1> SUFFICES ASSUME Init PROVE Consistent
  OBVIOUS
<1>1. tries \in [Messages -> 0..MaxTries] /\ seq \in [Messages -> Nat]
  BY DEF Init
<1>2. status \in [Messages -> Statuses] /\ deferred \in [Messages -> BOOLEAN]
  BY DEF Init
<1>3. ack \in [Messages -> Acks] /\ claimAge \in [Messages -> {"young", "old", "beaten"}]
  BY DEF Init
<1>4. TypeOK
  BY <1>1, <1>2, <1>3 DEF Init, TypeOK
<1>5. HostShape /\ OneContainer /\ LoopShape
  BY DEF Init, HostShape, OneContainer, LoopShape
<1>6. RowsHeldOnce /\ DatabasesAgree
  BY DEF Init, RowsHeldOnce, DatabasesAgree
<1> QED
  BY <1>4, <1>5, <1>6 DEF Consistent

-----------------------------------------------------------------------------
(* The helpers the actions are built from *)

\* What a poll returns: rows that are pending, due and not acked at all.
LEMMA FetchedRows ==
  ASSUME NEW m \in Fetched
  PROVE  m \in Messages /\ status[m] = "pending" /\ ~deferred[m] /\ ack[m] = "none"
BY DEF Fetched, InWindow, Eligible

\* Copying the acks keeps the statuses well typed, touches pending rows only
\* and fails a row only for a script error.
LEMMA SyncedRows ==
  ASSUME TypeOK
  PROVE  /\ Synced \in [Messages -> Statuses]
         /\ \A m \in Messages :
              /\ status[m] # "pending" => Synced[m] = status[m]
              /\ status[m] = "pending" /\ Synced[m] = "failed" => ack[m] = "scriptError"
<1>1. Synced \in [Messages -> Statuses]
  BY DEF TypeOK, Synced
<1>2. ASSUME NEW m \in Messages, status[m] # "pending"
      PROVE  Synced[m] = status[m]
  BY <1>2 DEF TypeOK, Synced
<1>3. ASSUME NEW m \in Messages, status[m] = "pending", Synced[m] = "failed"
      PROVE  ack[m] = "scriptError"
  BY <1>3 DEF Synced
<1> QED
  BY <1>1, <1>2, <1>3

\* Charging keeps the inbound rows well typed.
LEMMA ChargedType ==
  ASSUME TypeOK, NEW st \in [Messages -> Statuses], NEW part \in SUBSET Messages,
         Charged(st, part)
  PROVE  /\ status' \in [Messages -> Statuses]
         /\ tries' \in [Messages -> 0..MaxTries]
         /\ deferred' \in [Messages -> BOOLEAN]
<1>1. status' \in [Messages -> Statuses]
  BY DEF Charged
<1>2. tries' \in [Messages -> 0..MaxTries]
  BY DEF TypeOK, Charged
<1>3. deferred' \in [Messages -> BOOLEAN]
  BY DEF TypeOK, Charged
<1> QED
  BY <1>1, <1>2, <1>3

\* So does the whole reset, with the acks it deletes.
LEMMA ResetType ==
  ASSUME TypeOK, NEW st \in [Messages -> Statuses], Reset(st)
  PROVE  /\ status' \in [Messages -> Statuses]
         /\ tries' \in [Messages -> 0..MaxTries]
         /\ deferred' \in [Messages -> BOOLEAN]
         /\ ack' \in [Messages -> Acks]
         /\ claimAge' \in [Messages -> {"young", "old", "beaten"}]
         /\ crashes' \in Nat
<1>1. Hit(st) \in SUBSET Messages
  BY DEF Hit, Claims
<1>2. Charged(st, Hit(st))
  BY DEF Reset
<1>3. ack' \in [Messages -> Acks] /\ claimAge' \in [Messages -> {"young", "old", "beaten"}]
  BY DEF Reset, SetAck, TypeOK
<1>4. crashes' \in Nat
  BY DEF Reset, Mishap, TypeOK
<1> QED
  BY <1>1, <1>2, <1>3, <1>4, ChargedType

\* A row is charged only if it was claimed, one retry at a time, and it is
\* given up only when its retries are spent.
LEMMA ChargedRows ==
  ASSUME TypeOK, NEW st \in {status, Synced}, NEW part \in SUBSET Hit(st), Charged(st, part)
  PROVE  \A m \in Messages :
           /\ tries'[m] # tries[m] =>
                tries'[m] = tries[m] + 1 /\ deferred'[m] /\ ack[m] = "processing"
           /\ status[m] = "pending" /\ status'[m] = "failed" /\ ack[m] # "scriptError" =>
                tries[m] = MaxTries /\ ack[m] = "processing"
<1> SUFFICES ASSUME NEW m \in Messages
             PROVE  /\ tries'[m] # tries[m] =>
                         tries'[m] = tries[m] + 1 /\ deferred'[m] /\ ack[m] = "processing"
                    /\ status[m] = "pending" /\ status'[m] = "failed" /\ ack[m] # "scriptError" =>
                         tries[m] = MaxTries /\ ack[m] = "processing"
  OBVIOUS
<1>1. st \in [Messages -> Statuses]
  BY SyncedRows DEF TypeOK
<1>2. status[m] = "pending" /\ st[m] = "failed" => ack[m] = "scriptError"
  BY SyncedRows
<1>3. tries[m] \in 0..MaxTries
  BY DEF TypeOK
<1>4. m \in part => ack[m] = "processing"
  BY DEF Hit, Claims
<1>5. tries'[m] # tries[m] => m \in part /\ tries[m] < MaxTries
  BY <1>3 DEF Charged
<1>6. m \in part /\ tries[m] < MaxTries => tries'[m] = tries[m] + 1
  BY <1>3 DEF Charged
<1>7. m \in part /\ tries[m] < MaxTries => deferred'[m]
  <2>1. tries[m] < MaxTries => ~(tries[m] >= MaxTries)
    BY <1>3
  <2> QED
    BY <2>1, Zenon DEF Charged
<1>8. status'[m] = "failed" => st[m] = "failed" \/ (m \in part /\ tries[m] = MaxTries)
  BY <1>1, <1>3 DEF Charged
<1> QED
  BY <1>2, <1>4, <1>5, <1>6, <1>7, <1>8

-----------------------------------------------------------------------------
(* Every step preserves each part of the invariant *)

\* Types.
LEMMA TypeStep ==
  ASSUME TypeOK, [Next]_vars
  PROVE  TypeOK'
<1>1. ASSUME NEW m \in Messages, Receive(m) PROVE TypeOK'
  <2>1. seq' \in [Messages -> Nat]
    <3>1. IsFiniteSet({n \in Messages : status[n] # "absent"})
      BY FS_Subset
    <3>2. Cardinality({n \in Messages : status[n] # "absent"}) \in Nat
      BY <3>1, FS_CardinalityType
    <3> QED
      BY <1>1, <3>2 DEF Receive, TypeOK
  <2>2. waking' \in BOOLEAN
    BY <1>1 DEF Receive, Waken, TypeOK
  <2> QED
    BY <1>1, <2>1, <2>2 DEF Receive, TypeOK, outbound, clocks, loopVars, bounds
<1>2. CASE SpawnOk
  BY <1>2 DEF SpawnOk, inbound, outbound, loopVars, bounds, TypeOK
<1>3. CASE SpawnFail
  <2>1. CASE sweep = "waking"
    <3>1. status \in [Messages -> Statuses] /\ Reset(status)
      BY <1>3, <2>1 DEF SpawnFail, TypeOK
    <3> QED
      BY <1>3, <3>1, ResetType DEF SpawnFail, TypeOK, loopVars
  <2>2. CASE sweep # "waking"
    BY <1>3, <2>2 DEF SpawnFail, TypeOK, loopVars
  <2> QED
    BY <2>1, <2>2
<1>4. CASE Close
  BY <1>4 DEF Close, inbound, outbound, clocks, loopVars, bounds, TypeOK
<1>5. CASE Restart
  <2>1. crashes' \in Nat /\ hostCrashes' \in Nat
    BY <1>5 DEF Restart, TypeOK
  <2>2. rewake' \in BOOLEAN
    BY <1>5 DEF Restart, Due, TypeOK
  <2> QED
    BY <1>5, <2>1, <2>2 DEF Restart, ProcessGone, TypeOK, inbound, outbound, clocks
<1>6. CASE SweepWake
  BY <1>6, SyncedRows
  DEF SweepWake, TypeOK, inbound, outbound, clocks, loopVars, bounds
<1>7. CASE SweepEnforce
  <2>1. Reset(Synced)
    BY <1>7 DEF SweepEnforce
  <2> QED
    BY <1>7, <2>1, SyncedRows, ResetType DEF SweepEnforce, ProcessGone, TypeOK, hostVars
<1>8. CASE SweepQuiet
  BY <1>8, SyncedRows
  DEF SweepQuiet, TypeOK, inbound, outbound, clocks, hostVars, loopVars, bounds
<1>9. CASE SweepReset
  <2>1. Reset(Synced)
    BY <1>9 DEF SweepReset
  <2> QED
    BY <1>9, <2>1, SyncedRows, ResetType DEF SweepReset, TypeOK, hostVars, loopVars
<1>10. CASE Boot
  BY <1>10 DEF Boot, Running, SetAck, Claims, inbound, hostVars, loopVars, bounds,
      TypeOK
<1>11. CASE Claim
  BY <1>11 DEF Claim, Running, Fetched, InWindow, Eligible, SetAck, inbound, hostVars,
      bounds, TypeOK
<1>12. CASE HandleCommands
  BY <1>12 DEF HandleCommands, Running, SetAck, inbound, hostVars, bounds, TypeOK
<1>13. CASE RunScripts
  BY <1>13 DEF RunScripts, Running, AckSkipped, AfterScripts, clocks, Claims, inbound,
      hostVars, bounds, TypeOK
<1>14. CASE Beat
  BY <1>14 DEF Beat, TouchHeartbeat, Claims, inbound, outbound, hostVars, loopVars,
      bounds, TypeOK
<1>15. CASE Result
  BY <1>15 DEF Result, Running, Claims, inbound, hostVars, bounds, TypeOK
<1>16. CASE QueryEnds
  BY <1>16 DEF QueryEnds, Running, LeaveQuery, SetAck, inbound, hostVars, bounds, TypeOK
<1>17. CASE QueryRetries
  BY <1>17 DEF QueryRetries, Running, inbound, outbound, clocks, hostVars, bounds,
      TypeOK
<1>18. CASE QueryGivesUp
  BY <1>18 DEF QueryGivesUp, Running, LeaveQuery, SetAck, inbound, hostVars, bounds,
      TypeOK
<1>19. CASE FollowUpFetch
  <2>1. CASE Fetched \cap RunnerCommands # {}
    BY <1>19, <2>1 DEF FollowUpFetch, Running, inbound, hostVars, bounds, TypeOK
  <2>2. CASE Fetched \cap RunnerCommands = {}
    <3>1. SetAck(Fetched, "processing") /\ follow' = Fetched /\ aborted' = aborted
      BY <1>19, <2>2 DEF FollowUpFetch
    <3> QED
      BY <1>19, <3>1, FetchedRows DEF FollowUpFetch, Running, SetAck, inbound, hostVars, bounds, TypeOK
  <2> QED
    BY <2>1, <2>2
<1>20. CASE FollowUpPush
  BY <1>20 DEF FollowUpPush, Running, AckSkipped, AfterScripts, clocks, Claims, inbound,
      hostVars, bounds, TypeOK
<1>21. CASE LateScripts
  BY <1>21 DEF LateScripts, AckSkipped, AfterScripts, clocks, Claims, inbound, hostVars,
      bounds, TypeOK
<1>22. CASE HostCrash
  <2>1. crashes' \in Nat /\ hostCrashes' \in Nat
    BY <1>22 DEF HostCrash, HostDies, TypeOK
  <2> QED
    BY <1>22, <2>1 DEF HostCrash, HostDies, TypeOK, outbound, clocks, loopVars
<1>23. CASE HostCrashInReset
  <2>1. PICK st \in {status, Synced} : \E part \in SUBSET Hit(st) : Charged(st, part)
    BY <1>23 DEF HostCrashInReset
  <2>2. st \in [Messages -> Statuses] /\ Hit(st) \subseteq Messages
    BY SyncedRows DEF TypeOK, Hit, Claims
  <2>3. /\ status' \in [Messages -> Statuses]
        /\ tries' \in [Messages -> 0..MaxTries]
        /\ deferred' \in [Messages -> BOOLEAN]
    BY <2>1, <2>2, ChargedType
  <2>4. crashes' \in Nat /\ hostCrashes' \in Nat
    BY <1>23 DEF HostCrashInReset, HostDies, TypeOK
  <2> QED
    BY <1>23, <2>3, <2>4
    DEF HostCrashInReset, HostDies, ProcessGone, TypeOK, outbound, clocks, loopVars
<1>24. CASE HostStart
  BY <1>24 DEF HostStart, ProcessGone, inbound, outbound, clocks, bounds, TypeOK
<1>25. CASE Crash
  <2>1. crashes' \in Nat /\ hostCrashes' \in Nat
    BY <1>25 DEF Crash, Mishap, TypeOK
  <2> QED
    BY <1>25, <2>1 DEF Crash, ProcessGone, TypeOK, inbound, outbound, clocks, hostVars
<1>26. CASE Hang
  BY <1>26 DEF Hang, Running, Mishap, inbound, outbound, clocks, hostVars, loopVars,
      TypeOK
<1>27. CASE HeartbeatStales
  BY <1>27 DEF HeartbeatStales, inbound, outbound, hostVars, loopVars, bounds, TypeOK
<1>28. ASSUME NEW m \in Messages, BackoffElapses(m) PROVE TypeOK'
  BY <1>28 DEF BackoffElapses, outbound, clocks, hostVars, loopVars, bounds, TypeOK
<1>29. ASSUME NEW m \in Messages, ClaimAges(m) PROVE TypeOK'
  BY <1>29 DEF ClaimAges, Claims, inbound, outbound, hostVars, loopVars, bounds, TypeOK
<1>30. CASE UNCHANGED vars
  BY <1>30 DEF vars, inbound, outbound, clocks, hostVars, loopVars, bounds, TypeOK
<1> QED
  BY <1>1, <1>2, <1>3, <1>4, <1>5, <1>6, <1>7, <1>8, <1>9, <1>10, <1>11, <1>12, <1>13,
      <1>14, <1>15, <1>16, <1>17, <1>18, <1>19, <1>20, <1>21, <1>22, <1>23, <1>24,
      <1>25, <1>26, <1>27, <1>28, <1>29, <1>30
  DEF Next, HostNext, ContainerNext, Environment

\* The host's maps and the process: a kill ends the process before the host
\* forgets it, and a wake begins only when it knows of none.
LEMMA HostStep ==
  ASSUME TypeOK, HostShape, OneContainer, [Next]_vars
  PROVE  HostShape' /\ OneContainer'
<1>1. ASSUME NEW m \in Messages, Receive(m) PROVE HostShape' /\ OneContainer'
  BY <1>1 DEF Receive, Waken, outbound, clocks, loopVars, bounds, HostShape,
      OneContainer
<1>2. CASE SpawnOk
  BY <1>2 DEF SpawnOk, inbound, outbound, loopVars, bounds, HostShape, OneContainer
<1>3. CASE SpawnFail
  BY <1>3 DEF SpawnFail, loopVars, HostShape, OneContainer
<1>4. CASE Close
  BY <1>4 DEF Close, inbound, outbound, clocks, loopVars, bounds, HostShape,
      OneContainer
<1>5. CASE Restart
  BY <1>5 DEF Restart, ProcessGone, inbound, outbound, clocks, HostShape, OneContainer
<1>6. CASE SweepWake
  BY <1>6 DEF SweepWake, outbound, clocks, loopVars, bounds, HostShape, OneContainer
<1>7. CASE SweepEnforce
  BY <1>7 DEF SweepEnforce, ProcessGone, hostVars, HostShape, OneContainer
<1>8. CASE SweepQuiet
  BY <1>8 DEF SweepQuiet, outbound, clocks, hostVars, loopVars, bounds, HostShape,
      OneContainer
<1>9. CASE SweepReset
  BY <1>9 DEF SweepReset, hostVars, loopVars, HostShape, OneContainer
<1>10. CASE Boot
  BY <1>10 DEF Boot, Running, inbound, hostVars, loopVars, bounds, HostShape,
      OneContainer
<1>11. CASE Claim
  BY <1>11 DEF Claim, Running, inbound, hostVars, bounds, HostShape, OneContainer
<1>12. CASE HandleCommands
  BY <1>12 DEF HandleCommands, Running, inbound, hostVars, bounds, HostShape,
      OneContainer
<1>13. CASE RunScripts
  BY <1>13 DEF RunScripts, Running, inbound, hostVars, bounds, HostShape, OneContainer
<1>14. CASE Beat
  BY <1>14 DEF Beat, inbound, outbound, hostVars, loopVars, bounds, HostShape,
      OneContainer
<1>15. CASE Result
  BY <1>15 DEF Result, Running, inbound, hostVars, bounds, HostShape, OneContainer
<1>16. CASE QueryEnds
  BY <1>16 DEF QueryEnds, Running, LeaveQuery, inbound, hostVars, bounds, HostShape,
      OneContainer
<1>17. CASE QueryRetries
  BY <1>17 DEF QueryRetries, Running, inbound, outbound, clocks, hostVars, bounds,
      HostShape, OneContainer
<1>18. CASE QueryGivesUp
  BY <1>18 DEF QueryGivesUp, Running, LeaveQuery, inbound, hostVars, bounds, HostShape,
      OneContainer
<1>19. CASE FollowUpFetch
  BY <1>19 DEF FollowUpFetch, Running, inbound, hostVars, bounds, HostShape,
      OneContainer
<1>20. CASE FollowUpPush
  BY <1>20 DEF FollowUpPush, Running, inbound, hostVars, bounds, HostShape, OneContainer
<1>21. CASE LateScripts
  BY <1>21 DEF LateScripts, inbound, hostVars, bounds, HostShape, OneContainer
<1>22. CASE HostCrash
  BY <1>22 DEF HostCrash, HostDies, outbound, clocks, loopVars, HostShape, OneContainer
<1>23. CASE HostCrashInReset
  BY <1>23 DEF HostCrashInReset, ProcessGone, loopVars, HostDies, outbound, clocks,
      HostShape, OneContainer
<1>24. CASE HostStart
  BY <1>24 DEF HostStart, ProcessGone, inbound, outbound, clocks, bounds, HostShape,
      OneContainer
<1>25. CASE Crash
  BY <1>25 DEF Crash, ProcessGone, inbound, outbound, clocks, hostVars, HostShape,
      OneContainer
<1>26. CASE Hang
  BY <1>26 DEF Hang, Running, inbound, outbound, clocks, hostVars, loopVars, HostShape,
      OneContainer
<1>27. CASE HeartbeatStales
  BY <1>27 DEF HeartbeatStales, inbound, outbound, hostVars, loopVars, bounds,
      HostShape, OneContainer
<1>28. ASSUME NEW m \in Messages, BackoffElapses(m) PROVE HostShape' /\ OneContainer'
  BY <1>28 DEF BackoffElapses, outbound, clocks, hostVars, loopVars, bounds, HostShape,
      OneContainer
<1>29. ASSUME NEW m \in Messages, ClaimAges(m) PROVE HostShape' /\ OneContainer'
  BY <1>29 DEF ClaimAges, inbound, outbound, hostVars, loopVars, bounds, HostShape,
      OneContainer
<1>30. CASE UNCHANGED vars
  BY <1>30 DEF vars, inbound, outbound, clocks, hostVars, loopVars, bounds, HostShape,
      OneContainer
<1> QED
  BY <1>1, <1>2, <1>3, <1>4, <1>5, <1>6, <1>7, <1>8, <1>9, <1>10, <1>11, <1>12, <1>13,
      <1>14, <1>15, <1>16, <1>17, <1>18, <1>19, <1>20, <1>21, <1>22, <1>23, <1>24,
      <1>25, <1>26, <1>27, <1>28, <1>29, <1>30
  DEF Next, HostNext, ContainerNext, Environment

\* The loop's memory.
LEMMA LoopStep ==
  ASSUME HostShape, OneContainer, LoopShape, [Next]_vars
  PROVE  LoopShape'
<1>1. ASSUME NEW m \in Messages, Receive(m) PROVE LoopShape'
  BY <1>1 DEF Receive, Waken, outbound, clocks, loopVars, bounds, HostShape,
      OneContainer, LoopShape
<1>2. CASE SpawnOk
  BY <1>2 DEF SpawnOk, inbound, outbound, loopVars, bounds, HostShape, OneContainer,
      LoopShape
<1>3. CASE SpawnFail
  BY <1>3 DEF SpawnFail, loopVars, HostShape, OneContainer, LoopShape
<1>4. CASE Close
  BY <1>4 DEF Close, inbound, outbound, clocks, loopVars, bounds, HostShape,
      OneContainer, LoopShape
<1>5. CASE Restart
  BY <1>5 DEF Restart, ProcessGone, inbound, outbound, clocks, HostShape, OneContainer,
      LoopShape
<1>6. CASE SweepWake
  BY <1>6 DEF SweepWake, outbound, clocks, loopVars, bounds, HostShape, OneContainer,
      LoopShape
<1>7. CASE SweepEnforce
  BY <1>7 DEF SweepEnforce, ProcessGone, hostVars, HostShape, OneContainer, LoopShape
<1>8. CASE SweepQuiet
  BY <1>8 DEF SweepQuiet, outbound, clocks, hostVars, loopVars, bounds, HostShape,
      OneContainer, LoopShape
<1>9. CASE SweepReset
  BY <1>9 DEF SweepReset, hostVars, loopVars, HostShape, OneContainer, LoopShape
<1>10. CASE Boot
  BY <1>10 DEF Boot, Running, inbound, hostVars, loopVars, bounds, HostShape,
      OneContainer, LoopShape
<1>11. CASE Claim
  BY <1>11 DEF Claim, Running, inbound, hostVars, bounds, HostShape, OneContainer,
      LoopShape
<1>12. CASE HandleCommands
  BY <1>12 DEF HandleCommands, Running, inbound, hostVars, bounds, HostShape,
      OneContainer, LoopShape
<1>13. CASE RunScripts
  BY <1>13 DEF RunScripts, Running, inbound, hostVars, bounds, HostShape, OneContainer,
      LoopShape
<1>14. CASE Beat
  BY <1>14 DEF Beat, inbound, outbound, hostVars, loopVars, bounds, HostShape,
      OneContainer, LoopShape
<1>15. CASE Result
  BY <1>15 DEF Result, Running, inbound, hostVars, bounds, HostShape, OneContainer,
      LoopShape
<1>16. CASE QueryEnds
  BY <1>16 DEF QueryEnds, Running, LeaveQuery, inbound, hostVars, bounds, HostShape,
      OneContainer, LoopShape
<1>17. CASE QueryRetries
  BY <1>17 DEF QueryRetries, Running, inbound, outbound, clocks, hostVars, bounds,
      HostShape, OneContainer, LoopShape
<1>18. CASE QueryGivesUp
  BY <1>18 DEF QueryGivesUp, Running, LeaveQuery, inbound, hostVars, bounds, HostShape,
      OneContainer, LoopShape
<1>19. CASE FollowUpFetch
  BY <1>19 DEF FollowUpFetch, Running, inbound, hostVars, bounds, HostShape,
      OneContainer, LoopShape
<1>20. CASE FollowUpPush
  BY <1>20 DEF FollowUpPush, Running, inbound, hostVars, bounds, HostShape,
      OneContainer, LoopShape
<1>21. CASE LateScripts
  BY <1>21 DEF LateScripts, inbound, hostVars, bounds, HostShape, OneContainer,
      LoopShape
<1>22. CASE HostCrash
  BY <1>22 DEF HostCrash, HostDies, outbound, clocks, loopVars, HostShape, OneContainer,
      LoopShape
<1>23. CASE HostCrashInReset
  BY <1>23 DEF HostCrashInReset, ProcessGone, loopVars, HostDies, outbound, clocks,
      HostShape, OneContainer, LoopShape
<1>24. CASE HostStart
  BY <1>24 DEF HostStart, ProcessGone, inbound, outbound, clocks, bounds, HostShape,
      OneContainer, LoopShape
<1>25. CASE Crash
  BY <1>25 DEF Crash, ProcessGone, inbound, outbound, clocks, hostVars, HostShape,
      OneContainer, LoopShape
<1>26. CASE Hang
  BY <1>26 DEF Hang, Running, inbound, outbound, clocks, hostVars, loopVars, HostShape,
      OneContainer, LoopShape
<1>27. CASE HeartbeatStales
  BY <1>27 DEF HeartbeatStales, inbound, outbound, hostVars, loopVars, bounds,
      HostShape, OneContainer, LoopShape
<1>28. ASSUME NEW m \in Messages, BackoffElapses(m) PROVE LoopShape'
  BY <1>28 DEF BackoffElapses, outbound, clocks, hostVars, loopVars, bounds, HostShape,
      OneContainer, LoopShape
<1>29. ASSUME NEW m \in Messages, ClaimAges(m) PROVE LoopShape'
  BY <1>29 DEF ClaimAges, inbound, outbound, hostVars, loopVars, bounds, HostShape,
      OneContainer, LoopShape
<1>30. CASE UNCHANGED vars
  BY <1>30 DEF vars, inbound, outbound, clocks, hostVars, loopVars, bounds, HostShape,
      OneContainer, LoopShape
<1> QED
  BY <1>1, <1>2, <1>3, <1>4, <1>5, <1>6, <1>7, <1>8, <1>9, <1>10, <1>11, <1>12, <1>13,
      <1>14, <1>15, <1>16, <1>17, <1>18, <1>19, <1>20, <1>21, <1>22, <1>23, <1>24,
      <1>25, <1>26, <1>27, <1>28, <1>29, <1>30
  DEF Next, HostNext, ContainerNext, Environment

\* The rows the loop holds: whoever deletes claims finds no loop that holds them.
LEMMA RowsStep ==
  ASSUME TypeOK, HostShape, OneContainer, LoopShape, RowsHeldOnce, [Next]_vars
  PROVE  RowsHeldOnce'
<1>1. ASSUME NEW m \in Messages, Receive(m) PROVE RowsHeldOnce'
  BY <1>1 DEF Receive, Waken, outbound, clocks, loopVars, bounds, TypeOK, HostShape,
      OneContainer, LoopShape, RowsHeldOnce, Claims
<1>2. CASE SpawnOk
  BY <1>2 DEF SpawnOk, inbound, outbound, loopVars, bounds, TypeOK, HostShape,
      OneContainer, LoopShape, RowsHeldOnce, Claims
<1>3. CASE SpawnFail
  BY <1>3 DEF SpawnFail, Reset, SetAck, Claims, loopVars, TypeOK, HostShape,
      OneContainer, LoopShape, RowsHeldOnce
<1>4. CASE Close
  BY <1>4 DEF Close, inbound, outbound, clocks, loopVars, bounds, TypeOK, HostShape,
      OneContainer, LoopShape, RowsHeldOnce, Claims
<1>5. CASE Restart
  BY <1>5 DEF Restart, ProcessGone, inbound, outbound, clocks, TypeOK, HostShape,
      OneContainer, LoopShape, RowsHeldOnce, Claims
<1>6. CASE SweepWake
  BY <1>6 DEF SweepWake, outbound, clocks, loopVars, bounds, TypeOK, HostShape,
      OneContainer, LoopShape, RowsHeldOnce, Claims
<1>7. CASE SweepEnforce
  BY <1>7 DEF SweepEnforce, ProcessGone, Reset, SetAck, Claims, hostVars, TypeOK,
      HostShape, OneContainer, LoopShape, RowsHeldOnce
<1>8. CASE SweepQuiet
  BY <1>8 DEF SweepQuiet, outbound, clocks, hostVars, loopVars, bounds, TypeOK,
      HostShape, OneContainer, LoopShape, RowsHeldOnce, Claims
<1>9. CASE SweepReset
  BY <1>9 DEF SweepReset, Reset, SetAck, Claims, hostVars, loopVars, TypeOK, HostShape,
      OneContainer, LoopShape, RowsHeldOnce
<1>10. CASE Boot
  BY <1>10 DEF Boot, Running, SetAck, Claims, inbound, hostVars, loopVars, bounds,
      TypeOK, HostShape, OneContainer, LoopShape, RowsHeldOnce
<1>11. CASE Claim
  BY <1>11, FetchedRows DEF Claim, Running, SetAck, inbound, hostVars, bounds, TypeOK,
      HostShape, OneContainer, LoopShape, RowsHeldOnce, Claims
<1>12. CASE HandleCommands
  BY <1>12 DEF HandleCommands, Running, SetAck, inbound, hostVars, bounds, TypeOK,
      HostShape, OneContainer, LoopShape, RowsHeldOnce, Claims
<1>13. CASE RunScripts
  BY <1>13 DEF RunScripts, Running, AckSkipped, AfterScripts, clocks, Claims, inbound,
      hostVars, bounds, TypeOK, HostShape, OneContainer, LoopShape, RowsHeldOnce
<1>14. CASE Beat
  BY <1>14 DEF Beat, TouchHeartbeat, Claims, inbound, outbound, hostVars, loopVars,
      bounds, TypeOK, HostShape, OneContainer, LoopShape, RowsHeldOnce
<1>15. CASE Result
  BY <1>15 DEF Result, Running, Claims, inbound, hostVars, bounds, TypeOK, HostShape,
      OneContainer, LoopShape, RowsHeldOnce
<1>16. CASE QueryEnds
  BY <1>16 DEF QueryEnds, Running, LeaveQuery, SetAck, inbound, hostVars, bounds,
      TypeOK, HostShape, OneContainer, LoopShape, RowsHeldOnce, Claims
<1>17. CASE QueryRetries
  BY <1>17 DEF QueryRetries, Running, inbound, outbound, clocks, hostVars, bounds,
      TypeOK, HostShape, OneContainer, LoopShape, RowsHeldOnce, Claims
<1>18. CASE QueryGivesUp
  BY <1>18 DEF QueryGivesUp, Running, LeaveQuery, SetAck, inbound, hostVars, bounds,
      TypeOK, HostShape, OneContainer, LoopShape, RowsHeldOnce, Claims
<1>19. CASE FollowUpFetch
  <2>1. CASE Fetched \cap RunnerCommands # {}
    BY <1>19, <2>1 DEF FollowUpFetch, Running, inbound, hostVars, bounds, TypeOK, LoopShape, RowsHeldOnce, Claims
  <2>2. CASE Fetched \cap RunnerCommands = {}
    <3>1. SetAck(Fetched, "processing") /\ follow' = Fetched /\ aborted' = aborted
      BY <1>19, <2>2 DEF FollowUpFetch
    <3> QED
      BY <1>19, <3>1, FetchedRows DEF FollowUpFetch, Running, SetAck, inbound, hostVars, bounds, TypeOK, LoopShape, RowsHeldOnce, Claims
  <2> QED
    BY <2>1, <2>2
<1>20. CASE FollowUpPush
  BY <1>20 DEF FollowUpPush, Running, AckSkipped, AfterScripts, clocks, Claims, inbound,
      hostVars, bounds, TypeOK, HostShape, OneContainer, LoopShape, RowsHeldOnce
<1>21. CASE LateScripts
  BY <1>21 DEF LateScripts, AckSkipped, AfterScripts, clocks, Claims, inbound, hostVars,
      bounds, TypeOK, HostShape, OneContainer, LoopShape, RowsHeldOnce
<1>22. CASE HostCrash
  BY <1>22 DEF HostCrash, HostDies, outbound, clocks, loopVars, TypeOK, HostShape,
      OneContainer, LoopShape, RowsHeldOnce, Claims
<1>23. CASE HostCrashInReset
  BY <1>23 DEF HostCrashInReset, ProcessGone, loopVars, HostDies, outbound, clocks,
      TypeOK, HostShape, OneContainer, LoopShape, RowsHeldOnce, Claims
<1>24. CASE HostStart
  BY <1>24 DEF HostStart, ProcessGone, inbound, outbound, clocks, bounds, TypeOK,
      HostShape, OneContainer, LoopShape, RowsHeldOnce, Claims
<1>25. CASE Crash
  BY <1>25 DEF Crash, ProcessGone, inbound, outbound, clocks, hostVars, TypeOK,
      HostShape, OneContainer, LoopShape, RowsHeldOnce, Claims
<1>26. CASE Hang
  BY <1>26 DEF Hang, Running, inbound, outbound, clocks, hostVars, loopVars, TypeOK,
      HostShape, OneContainer, LoopShape, RowsHeldOnce, Claims
<1>27. CASE HeartbeatStales
  BY <1>27 DEF HeartbeatStales, inbound, outbound, hostVars, loopVars, bounds, TypeOK,
      HostShape, OneContainer, LoopShape, RowsHeldOnce, Claims
<1>28. ASSUME NEW m \in Messages, BackoffElapses(m) PROVE RowsHeldOnce'
  BY <1>28 DEF BackoffElapses, outbound, clocks, hostVars, loopVars, bounds, TypeOK,
      HostShape, OneContainer, LoopShape, RowsHeldOnce, Claims
<1>29. ASSUME NEW m \in Messages, ClaimAges(m) PROVE RowsHeldOnce'
  BY <1>29 DEF ClaimAges, Claims, inbound, outbound, hostVars, loopVars, bounds, TypeOK,
      HostShape, OneContainer, LoopShape, RowsHeldOnce
<1>30. CASE UNCHANGED vars
  BY <1>30 DEF vars, inbound, outbound, clocks, hostVars, loopVars, bounds, TypeOK,
      HostShape, OneContainer, LoopShape, RowsHeldOnce, Claims
<1> QED
  BY <1>1, <1>2, <1>3, <1>4, <1>5, <1>6, <1>7, <1>8, <1>9, <1>10, <1>11, <1>12, <1>13,
      <1>14, <1>15, <1>16, <1>17, <1>18, <1>19, <1>20, <1>21, <1>22, <1>23, <1>24,
      <1>25, <1>26, <1>27, <1>28, <1>29, <1>30
  DEF Next, HostNext, ContainerNext, Environment

\* What the two databases say of a row.
LEMMA AgreeStep ==
  ASSUME TypeOK, HostShape, OneContainer, LoopShape, RowsHeldOnce, DatabasesAgree, [Next]_vars
  PROVE  DatabasesAgree'
<1>1. ASSUME NEW m \in Messages, Receive(m) PROVE DatabasesAgree'
  BY <1>1 DEF Receive, Waken, outbound, clocks, loopVars, bounds, TypeOK, HostShape,
      OneContainer, LoopShape, RowsHeldOnce, DatabasesAgree, Claims
<1>2. CASE SpawnOk
  BY <1>2 DEF SpawnOk, inbound, outbound, loopVars, bounds, TypeOK, HostShape,
      OneContainer, LoopShape, RowsHeldOnce, DatabasesAgree, Claims
<1>3. CASE SpawnFail
  BY <1>3 DEF SpawnFail, Reset, Charged, Hit, Claims, SetAck, loopVars, TypeOK,
      HostShape, OneContainer, LoopShape, RowsHeldOnce, DatabasesAgree
<1>4. CASE Close
  BY <1>4 DEF Close, inbound, outbound, clocks, loopVars, bounds, TypeOK, HostShape,
      OneContainer, LoopShape, RowsHeldOnce, DatabasesAgree, Claims
<1>5. CASE Restart
  BY <1>5 DEF Restart, ProcessGone, inbound, outbound, clocks, TypeOK, HostShape,
      OneContainer, LoopShape, RowsHeldOnce, DatabasesAgree, Claims
<1>6. CASE SweepWake
  BY <1>6 DEF SweepWake, Synced, outbound, clocks, loopVars, bounds, TypeOK, HostShape,
      OneContainer, LoopShape, RowsHeldOnce, DatabasesAgree, Claims
<1>7. CASE SweepEnforce
  BY <1>7 DEF SweepEnforce, ProcessGone, Reset, Charged, Hit, Claims, SetAck, Synced,
      hostVars, TypeOK, HostShape, OneContainer, LoopShape, RowsHeldOnce, DatabasesAgree
<1>8. CASE SweepQuiet
  BY <1>8 DEF SweepQuiet, Synced, outbound, clocks, hostVars, loopVars, bounds, TypeOK,
      HostShape, OneContainer, LoopShape, RowsHeldOnce, DatabasesAgree, Claims
<1>9. CASE SweepReset
  BY <1>9 DEF SweepReset, Synced, Reset, Charged, Hit, Claims, SetAck, hostVars,
      loopVars, TypeOK, HostShape, OneContainer, LoopShape, RowsHeldOnce, DatabasesAgree
<1>10. CASE Boot
  BY <1>10 DEF Boot, Running, SetAck, Claims, inbound, hostVars, loopVars, bounds,
      TypeOK, HostShape, OneContainer, LoopShape, RowsHeldOnce, DatabasesAgree
<1>11. CASE Claim
  BY <1>11, FetchedRows DEF Claim, Running, SetAck, inbound, hostVars, bounds, TypeOK,
      HostShape, OneContainer, LoopShape, RowsHeldOnce, DatabasesAgree, Claims
<1>12. CASE HandleCommands
  BY <1>12 DEF HandleCommands, Running, SetAck, inbound, hostVars, bounds, TypeOK,
      HostShape, OneContainer, LoopShape, RowsHeldOnce, DatabasesAgree, Claims
<1>13. CASE RunScripts
  BY <1>13 DEF RunScripts, Running, AckSkipped, AfterScripts, clocks, Claims, inbound,
      hostVars, bounds, TypeOK, HostShape, OneContainer, LoopShape, RowsHeldOnce,
      DatabasesAgree
<1>14. CASE Beat
  BY <1>14 DEF Beat, TouchHeartbeat, Claims, inbound, outbound, hostVars, loopVars,
      bounds, TypeOK, HostShape, OneContainer, LoopShape, RowsHeldOnce, DatabasesAgree
<1>15. CASE Result
  BY <1>15 DEF Result, Running, Claims, inbound, hostVars, bounds, TypeOK, HostShape,
      OneContainer, LoopShape, RowsHeldOnce, DatabasesAgree
<1>16. CASE QueryEnds
  BY <1>16 DEF QueryEnds, Running, LeaveQuery, SetAck, inbound, hostVars, bounds,
      TypeOK, HostShape, OneContainer, LoopShape, RowsHeldOnce, DatabasesAgree, Claims
<1>17. CASE QueryRetries
  BY <1>17 DEF QueryRetries, Running, inbound, outbound, clocks, hostVars, bounds,
      TypeOK, HostShape, OneContainer, LoopShape, RowsHeldOnce, DatabasesAgree, Claims
<1>18. CASE QueryGivesUp
  BY <1>18 DEF QueryGivesUp, Running, LeaveQuery, SetAck, inbound, hostVars, bounds,
      TypeOK, HostShape, OneContainer, LoopShape, RowsHeldOnce, DatabasesAgree, Claims
<1>19. CASE FollowUpFetch
  <2>1. CASE Fetched \cap RunnerCommands # {}
    BY <1>19, <2>1 DEF FollowUpFetch, Running, inbound, hostVars, bounds, TypeOK, LoopShape, RowsHeldOnce, Claims,
        DatabasesAgree
  <2>2. CASE Fetched \cap RunnerCommands = {}
    <3>1. SetAck(Fetched, "processing") /\ follow' = Fetched /\ aborted' = aborted
      BY <1>19, <2>2 DEF FollowUpFetch
    <3> QED
      BY <1>19, <3>1, FetchedRows DEF FollowUpFetch, Running, SetAck, inbound, hostVars, bounds, TypeOK, LoopShape, RowsHeldOnce, Claims,
        DatabasesAgree
  <2> QED
    BY <2>1, <2>2
<1>20. CASE FollowUpPush
  BY <1>20 DEF FollowUpPush, Running, AckSkipped, AfterScripts, clocks, Claims, inbound,
      hostVars, bounds, TypeOK, HostShape, OneContainer, LoopShape, RowsHeldOnce,
      DatabasesAgree
<1>21. CASE LateScripts
  BY <1>21 DEF LateScripts, AckSkipped, AfterScripts, clocks, Claims, inbound, hostVars,
      bounds, TypeOK, HostShape, OneContainer, LoopShape, RowsHeldOnce, DatabasesAgree
<1>22. CASE HostCrash
  BY <1>22 DEF HostCrash, HostDies, outbound, clocks, loopVars, TypeOK, HostShape,
      OneContainer, LoopShape, RowsHeldOnce, DatabasesAgree, Claims
<1>23. CASE HostCrashInReset
  <2>1. proc' \in {"none", "booting"}
    BY <1>23 DEF HostCrashInReset, HostDies, ProcessGone, HostShape, OneContainer, TypeOK
  <2>2. PICK st \in {status, Synced} : \E part \in SUBSET Hit(st) : Charged(st, part)
    BY <1>23 DEF HostCrashInReset
  <2>3. ack' = ack
    BY <1>23 DEF HostCrashInReset, HostDies, outbound
  <2> QED
    BY <2>1, <2>2, <2>3 DEF Charged, Hit, Synced, Claims, TypeOK, DatabasesAgree
<1>24. CASE HostStart
  BY <1>24 DEF HostStart, ProcessGone, inbound, outbound, clocks, bounds, TypeOK,
      HostShape, OneContainer, LoopShape, RowsHeldOnce, DatabasesAgree, Claims
<1>25. CASE Crash
  BY <1>25 DEF Crash, ProcessGone, inbound, outbound, clocks, hostVars, TypeOK,
      HostShape, OneContainer, LoopShape, RowsHeldOnce, DatabasesAgree, Claims
<1>26. CASE Hang
  BY <1>26 DEF Hang, Running, inbound, outbound, clocks, hostVars, loopVars, TypeOK,
      HostShape, OneContainer, LoopShape, RowsHeldOnce, DatabasesAgree, Claims
<1>27. CASE HeartbeatStales
  BY <1>27 DEF HeartbeatStales, inbound, outbound, hostVars, loopVars, bounds, TypeOK,
      HostShape, OneContainer, LoopShape, RowsHeldOnce, DatabasesAgree, Claims
<1>28. ASSUME NEW m \in Messages, BackoffElapses(m) PROVE DatabasesAgree'
  BY <1>28 DEF BackoffElapses, outbound, clocks, hostVars, loopVars, bounds, TypeOK,
      HostShape, OneContainer, LoopShape, RowsHeldOnce, DatabasesAgree, Claims
<1>29. ASSUME NEW m \in Messages, ClaimAges(m) PROVE DatabasesAgree'
  BY <1>29 DEF ClaimAges, Claims, inbound, outbound, hostVars, loopVars, bounds, TypeOK,
      HostShape, OneContainer, LoopShape, RowsHeldOnce, DatabasesAgree
<1>30. CASE UNCHANGED vars
  BY <1>30 DEF vars, inbound, outbound, clocks, hostVars, loopVars, bounds, TypeOK,
      HostShape, OneContainer, LoopShape, RowsHeldOnce, DatabasesAgree, Claims
<1> QED
  BY <1>1, <1>2, <1>3, <1>4, <1>5, <1>6, <1>7, <1>8, <1>9, <1>10, <1>11, <1>12, <1>13,
      <1>14, <1>15, <1>16, <1>17, <1>18, <1>19, <1>20, <1>21, <1>22, <1>23, <1>24,
      <1>25, <1>26, <1>27, <1>28, <1>29, <1>30
  DEF Next, HostNext, ContainerNext, Environment

-----------------------------------------------------------------------------
(* The invariant, and the invariants the runs check *)

\* Consistent is inductive.
LEMMA StepConsistent == Consistent /\ [Next]_vars => Consistent'
BY TypeStep, HostStep, LoopStep, RowsStep, AgreeStep DEF Consistent

\* The inductive invariant holds of every behaviour.
THEOREM AlwaysConsistent == Spec => []Consistent
BY InitConsistent, StepConsistent, PTL DEF Spec

\* Type correctness.
THEOREM TypeCorrect == Spec => []TypeOK
<1>1. Consistent => TypeOK
  BY DEF Consistent
<1> QED
  BY <1>1, AlwaysConsistent, PTL

\* The host never has two containers of a session over the same databases.
THEOREM SingleContainer == Spec => []OneContainer
<1>1. Consistent => OneContainer
  BY DEF Consistent
<1> QED
  BY <1>1, AlwaysConsistent, PTL

\* The loop never holds a row twice and holds only rows it has claimed.
THEOREM RowsAreHeldOnce == Spec => []RowsHeldOnce
<1>1. Consistent => RowsHeldOnce
  BY DEF Consistent
<1> QED
  BY <1>1, AlwaysConsistent, PTL

\* inbound.db and outbound.db never contradict each other.
THEOREM DatabasesAlwaysAgree == Spec => []DatabasesAgree
<1>1. Consistent => DatabasesAgree
  BY DEF Consistent
<1> QED
  BY <1>1, AlwaysConsistent, PTL

-----------------------------------------------------------------------------
(* What no step does *)

\* Final acks: every write to an ack is to a row the writer has claimed, or to a
\* row that has no ack.
LEMMA FinalAcksStep ==
  ASSUME TypeOK, HostShape, OneContainer, LoopShape, RowsHeldOnce, [Next]_vars
  PROVE  FinalAcksStay
<1>1. ASSUME NEW m \in Messages, Receive(m) PROVE FinalAcksStay
  BY <1>1 DEF Receive, Waken, outbound, clocks, loopVars, bounds, TypeOK, HostShape,
      OneContainer, LoopShape, RowsHeldOnce, Claims, FinalAcksStay
<1>2. CASE SpawnOk
  BY <1>2 DEF SpawnOk, inbound, outbound, loopVars, bounds, TypeOK, HostShape,
      OneContainer, LoopShape, RowsHeldOnce, Claims, FinalAcksStay
<1>3. CASE SpawnFail
  BY <1>3 DEF SpawnFail, Reset, SetAck, Claims, loopVars, TypeOK, HostShape,
      OneContainer, LoopShape, RowsHeldOnce, FinalAcksStay
<1>4. CASE Close
  BY <1>4 DEF Close, inbound, outbound, clocks, loopVars, bounds, TypeOK, HostShape,
      OneContainer, LoopShape, RowsHeldOnce, Claims, FinalAcksStay
<1>5. CASE Restart
  BY <1>5 DEF Restart, ProcessGone, inbound, outbound, clocks, TypeOK, HostShape,
      OneContainer, LoopShape, RowsHeldOnce, Claims, FinalAcksStay
<1>6. CASE SweepWake
  BY <1>6 DEF SweepWake, outbound, clocks, loopVars, bounds, TypeOK, HostShape,
      OneContainer, LoopShape, RowsHeldOnce, Claims, FinalAcksStay
<1>7. CASE SweepEnforce
  BY <1>7 DEF SweepEnforce, ProcessGone, Reset, SetAck, Claims, hostVars, TypeOK,
      HostShape, OneContainer, LoopShape, RowsHeldOnce, FinalAcksStay
<1>8. CASE SweepQuiet
  BY <1>8 DEF SweepQuiet, outbound, clocks, hostVars, loopVars, bounds, TypeOK,
      HostShape, OneContainer, LoopShape, RowsHeldOnce, Claims, FinalAcksStay
<1>9. CASE SweepReset
  BY <1>9 DEF SweepReset, Reset, SetAck, Claims, hostVars, loopVars, TypeOK, HostShape,
      OneContainer, LoopShape, RowsHeldOnce, FinalAcksStay
<1>10. CASE Boot
  BY <1>10 DEF Boot, Running, SetAck, Claims, inbound, hostVars, loopVars, bounds,
      TypeOK, HostShape, OneContainer, LoopShape, RowsHeldOnce, FinalAcksStay
<1>11. CASE Claim
  BY <1>11, FetchedRows DEF Claim, Running, SetAck, inbound, hostVars, bounds, TypeOK,
      HostShape, OneContainer, LoopShape, RowsHeldOnce, Claims, FinalAcksStay
<1>12. CASE HandleCommands
  BY <1>12 DEF HandleCommands, Running, SetAck, inbound, hostVars, bounds, TypeOK,
      HostShape, OneContainer, LoopShape, RowsHeldOnce, Claims, FinalAcksStay
<1>13. CASE RunScripts
  BY <1>13 DEF RunScripts, Running, AckSkipped, AfterScripts, clocks, Claims, inbound,
      hostVars, bounds, TypeOK, HostShape, OneContainer, LoopShape, RowsHeldOnce,
      FinalAcksStay
<1>14. CASE Beat
  BY <1>14 DEF Beat, TouchHeartbeat, Claims, inbound, outbound, hostVars, loopVars,
      bounds, TypeOK, HostShape, OneContainer, LoopShape, RowsHeldOnce, FinalAcksStay
<1>15. CASE Result
  BY <1>15 DEF Result, Running, Claims, inbound, hostVars, bounds, TypeOK, HostShape,
      OneContainer, LoopShape, RowsHeldOnce, FinalAcksStay
<1>16. CASE QueryEnds
  BY <1>16 DEF QueryEnds, Running, LeaveQuery, SetAck, inbound, hostVars, bounds,
      TypeOK, HostShape, OneContainer, LoopShape, RowsHeldOnce, Claims, FinalAcksStay
<1>17. CASE QueryRetries
  BY <1>17 DEF QueryRetries, Running, inbound, outbound, clocks, hostVars, bounds,
      TypeOK, HostShape, OneContainer, LoopShape, RowsHeldOnce, Claims, FinalAcksStay
<1>18. CASE QueryGivesUp
  BY <1>18 DEF QueryGivesUp, Running, LeaveQuery, SetAck, inbound, hostVars, bounds,
      TypeOK, HostShape, OneContainer, LoopShape, RowsHeldOnce, Claims, FinalAcksStay
<1>19. CASE FollowUpFetch
  <2>1. ASSUME NEW m \in Messages, m \in Fetched PROVE ack[m] = "none"
    BY <2>1, FetchedRows
  <2>2. ack' = ack \/ SetAck(Fetched, "processing")
    BY <1>19 DEF FollowUpFetch
  <2>3. status' = status /\ tries' = tries
    BY <1>19 DEF FollowUpFetch, inbound
  <2> QED
    BY <2>1, <2>2, <2>3 DEF SetAck, TypeOK, FinalAcksStay
<1>20. CASE FollowUpPush
  BY <1>20 DEF FollowUpPush, Running, AckSkipped, AfterScripts, clocks, Claims, inbound,
      hostVars, bounds, TypeOK, HostShape, OneContainer, LoopShape, RowsHeldOnce,
      FinalAcksStay
<1>21. CASE LateScripts
  BY <1>21 DEF LateScripts, AckSkipped, AfterScripts, clocks, Claims, inbound, hostVars,
      bounds, TypeOK, HostShape, OneContainer, LoopShape, RowsHeldOnce, FinalAcksStay
<1>22. CASE HostCrash
  BY <1>22 DEF HostCrash, HostDies, outbound, clocks, loopVars, TypeOK, HostShape,
      OneContainer, LoopShape, RowsHeldOnce, Claims, FinalAcksStay
<1>23. CASE HostCrashInReset
  BY <1>23 DEF HostCrashInReset, ProcessGone, loopVars, HostDies, outbound, clocks,
      TypeOK, HostShape, OneContainer, LoopShape, RowsHeldOnce, Claims, FinalAcksStay
<1>24. CASE HostStart
  BY <1>24 DEF HostStart, ProcessGone, inbound, outbound, clocks, bounds, TypeOK,
      HostShape, OneContainer, LoopShape, RowsHeldOnce, Claims, FinalAcksStay
<1>25. CASE Crash
  BY <1>25 DEF Crash, ProcessGone, inbound, outbound, clocks, hostVars, TypeOK,
      HostShape, OneContainer, LoopShape, RowsHeldOnce, Claims, FinalAcksStay
<1>26. CASE Hang
  BY <1>26 DEF Hang, Running, inbound, outbound, clocks, hostVars, loopVars, TypeOK,
      HostShape, OneContainer, LoopShape, RowsHeldOnce, Claims, FinalAcksStay
<1>27. CASE HeartbeatStales
  BY <1>27 DEF HeartbeatStales, inbound, outbound, hostVars, loopVars, bounds, TypeOK,
      HostShape, OneContainer, LoopShape, RowsHeldOnce, Claims, FinalAcksStay
<1>28. ASSUME NEW m \in Messages, BackoffElapses(m) PROVE FinalAcksStay
  BY <1>28 DEF BackoffElapses, outbound, clocks, hostVars, loopVars, bounds, TypeOK,
      HostShape, OneContainer, LoopShape, RowsHeldOnce, Claims, FinalAcksStay
<1>29. ASSUME NEW m \in Messages, ClaimAges(m) PROVE FinalAcksStay
  BY <1>29 DEF ClaimAges, Claims, inbound, outbound, hostVars, loopVars, bounds, TypeOK,
      HostShape, OneContainer, LoopShape, RowsHeldOnce, FinalAcksStay
<1>30. CASE UNCHANGED vars
  BY <1>30 DEF vars, inbound, outbound, clocks, hostVars, loopVars, bounds, TypeOK,
      HostShape, OneContainer, LoopShape, RowsHeldOnce, Claims, FinalAcksStay
<1> QED
  BY <1>1, <1>2, <1>3, <1>4, <1>5, <1>6, <1>7, <1>8, <1>9, <1>10, <1>11, <1>12, <1>13,
      <1>14, <1>15, <1>16, <1>17, <1>18, <1>19, <1>20, <1>21, <1>22, <1>23, <1>24,
      <1>25, <1>26, <1>27, <1>28, <1>29, <1>30
  DEF Next, HostNext, ContainerNext, Environment

\* Claims are deleted by a booting container, or with no process left.
LEMMA VanishStep ==
  ASSUME TypeOK, HostShape, OneContainer, LoopShape, RowsHeldOnce, [Next]_vars
  PROVE  ClaimsVanishWhenDead
<1>1. ASSUME NEW m \in Messages, Receive(m) PROVE ClaimsVanishWhenDead
  BY <1>1 DEF Receive, Waken, outbound, clocks, loopVars, bounds, TypeOK, HostShape,
      OneContainer, LoopShape, RowsHeldOnce, Claims, ClaimsVanishWhenDead
<1>2. CASE SpawnOk
  BY <1>2 DEF SpawnOk, inbound, outbound, loopVars, bounds, TypeOK, HostShape,
      OneContainer, LoopShape, RowsHeldOnce, Claims, ClaimsVanishWhenDead
<1>3. CASE SpawnFail
  BY <1>3 DEF SpawnFail, Reset, SetAck, Claims, loopVars, TypeOK, HostShape,
      OneContainer, LoopShape, RowsHeldOnce, ClaimsVanishWhenDead
<1>4. CASE Close
  BY <1>4 DEF Close, inbound, outbound, clocks, loopVars, bounds, TypeOK, HostShape,
      OneContainer, LoopShape, RowsHeldOnce, Claims, ClaimsVanishWhenDead
<1>5. CASE Restart
  BY <1>5 DEF Restart, ProcessGone, inbound, outbound, clocks, TypeOK, HostShape,
      OneContainer, LoopShape, RowsHeldOnce, Claims, ClaimsVanishWhenDead
<1>6. CASE SweepWake
  BY <1>6 DEF SweepWake, outbound, clocks, loopVars, bounds, TypeOK, HostShape,
      OneContainer, LoopShape, RowsHeldOnce, Claims, ClaimsVanishWhenDead
<1>7. CASE SweepEnforce
  BY <1>7 DEF SweepEnforce, ProcessGone, Reset, SetAck, Claims, hostVars, TypeOK,
      HostShape, OneContainer, LoopShape, RowsHeldOnce, ClaimsVanishWhenDead
<1>8. CASE SweepQuiet
  BY <1>8 DEF SweepQuiet, outbound, clocks, hostVars, loopVars, bounds, TypeOK,
      HostShape, OneContainer, LoopShape, RowsHeldOnce, Claims, ClaimsVanishWhenDead
<1>9. CASE SweepReset
  BY <1>9 DEF SweepReset, Reset, SetAck, Claims, hostVars, loopVars, TypeOK, HostShape,
      OneContainer, LoopShape, RowsHeldOnce, ClaimsVanishWhenDead
<1>10. CASE Boot
  BY <1>10 DEF Boot, Running, SetAck, Claims, inbound, hostVars, loopVars, bounds,
      TypeOK, HostShape, OneContainer, LoopShape, RowsHeldOnce, ClaimsVanishWhenDead
<1>11. CASE Claim
  BY <1>11, FetchedRows DEF Claim, Running, SetAck, inbound, hostVars, bounds, TypeOK,
      HostShape, OneContainer, LoopShape, RowsHeldOnce, Claims, ClaimsVanishWhenDead
<1>12. CASE HandleCommands
  BY <1>12 DEF HandleCommands, Running, SetAck, inbound, hostVars, bounds, TypeOK,
      HostShape, OneContainer, LoopShape, RowsHeldOnce, Claims, ClaimsVanishWhenDead
<1>13. CASE RunScripts
  BY <1>13 DEF RunScripts, Running, AckSkipped, AfterScripts, clocks, Claims, inbound,
      hostVars, bounds, TypeOK, HostShape, OneContainer, LoopShape, RowsHeldOnce,
      ClaimsVanishWhenDead
<1>14. CASE Beat
  BY <1>14 DEF Beat, TouchHeartbeat, Claims, inbound, outbound, hostVars, loopVars,
      bounds, TypeOK, HostShape, OneContainer, LoopShape, RowsHeldOnce,
      ClaimsVanishWhenDead
<1>15. CASE Result
  BY <1>15 DEF Result, Running, Claims, inbound, hostVars, bounds, TypeOK, HostShape,
      OneContainer, LoopShape, RowsHeldOnce, ClaimsVanishWhenDead
<1>16. CASE QueryEnds
  BY <1>16 DEF QueryEnds, Running, LeaveQuery, SetAck, inbound, hostVars, bounds,
      TypeOK, HostShape, OneContainer, LoopShape, RowsHeldOnce, Claims,
      ClaimsVanishWhenDead
<1>17. CASE QueryRetries
  BY <1>17 DEF QueryRetries, Running, inbound, outbound, clocks, hostVars, bounds,
      TypeOK, HostShape, OneContainer, LoopShape, RowsHeldOnce, Claims,
      ClaimsVanishWhenDead
<1>18. CASE QueryGivesUp
  BY <1>18 DEF QueryGivesUp, Running, LeaveQuery, SetAck, inbound, hostVars, bounds,
      TypeOK, HostShape, OneContainer, LoopShape, RowsHeldOnce, Claims,
      ClaimsVanishWhenDead
<1>19. CASE FollowUpFetch
  <2>1. ASSUME NEW m \in Messages, m \in Fetched PROVE ack[m] = "none"
    BY <2>1, FetchedRows
  <2>2. ack' = ack \/ SetAck(Fetched, "processing")
    BY <1>19 DEF FollowUpFetch
  <2>3. status' = status /\ tries' = tries
    BY <1>19 DEF FollowUpFetch, inbound
  <2> QED
    BY <2>1, <2>2, <2>3 DEF SetAck, TypeOK, ClaimsVanishWhenDead
<1>20. CASE FollowUpPush
  BY <1>20 DEF FollowUpPush, Running, AckSkipped, AfterScripts, clocks, Claims, inbound,
      hostVars, bounds, TypeOK, HostShape, OneContainer, LoopShape, RowsHeldOnce,
      ClaimsVanishWhenDead
<1>21. CASE LateScripts
  BY <1>21 DEF LateScripts, AckSkipped, AfterScripts, clocks, Claims, inbound, hostVars,
      bounds, TypeOK, HostShape, OneContainer, LoopShape, RowsHeldOnce,
      ClaimsVanishWhenDead
<1>22. CASE HostCrash
  BY <1>22 DEF HostCrash, HostDies, outbound, clocks, loopVars, TypeOK, HostShape,
      OneContainer, LoopShape, RowsHeldOnce, Claims, ClaimsVanishWhenDead
<1>23. CASE HostCrashInReset
  BY <1>23 DEF HostCrashInReset, ProcessGone, loopVars, HostDies, outbound, clocks,
      TypeOK, HostShape, OneContainer, LoopShape, RowsHeldOnce, Claims,
      ClaimsVanishWhenDead
<1>24. CASE HostStart
  BY <1>24 DEF HostStart, ProcessGone, inbound, outbound, clocks, bounds, TypeOK,
      HostShape, OneContainer, LoopShape, RowsHeldOnce, Claims, ClaimsVanishWhenDead
<1>25. CASE Crash
  BY <1>25 DEF Crash, ProcessGone, inbound, outbound, clocks, hostVars, TypeOK,
      HostShape, OneContainer, LoopShape, RowsHeldOnce, Claims, ClaimsVanishWhenDead
<1>26. CASE Hang
  BY <1>26 DEF Hang, Running, inbound, outbound, clocks, hostVars, loopVars, TypeOK,
      HostShape, OneContainer, LoopShape, RowsHeldOnce, Claims, ClaimsVanishWhenDead
<1>27. CASE HeartbeatStales
  BY <1>27 DEF HeartbeatStales, inbound, outbound, hostVars, loopVars, bounds, TypeOK,
      HostShape, OneContainer, LoopShape, RowsHeldOnce, Claims, ClaimsVanishWhenDead
<1>28. ASSUME NEW m \in Messages, BackoffElapses(m) PROVE ClaimsVanishWhenDead
  BY <1>28 DEF BackoffElapses, outbound, clocks, hostVars, loopVars, bounds, TypeOK,
      HostShape, OneContainer, LoopShape, RowsHeldOnce, Claims, ClaimsVanishWhenDead
<1>29. ASSUME NEW m \in Messages, ClaimAges(m) PROVE ClaimsVanishWhenDead
  BY <1>29 DEF ClaimAges, Claims, inbound, outbound, hostVars, loopVars, bounds, TypeOK,
      HostShape, OneContainer, LoopShape, RowsHeldOnce, ClaimsVanishWhenDead
<1>30. CASE UNCHANGED vars
  BY <1>30 DEF vars, inbound, outbound, clocks, hostVars, loopVars, bounds, TypeOK,
      HostShape, OneContainer, LoopShape, RowsHeldOnce, Claims, ClaimsVanishWhenDead
<1> QED
  BY <1>1, <1>2, <1>3, <1>4, <1>5, <1>6, <1>7, <1>8, <1>9, <1>10, <1>11, <1>12, <1>13,
      <1>14, <1>15, <1>16, <1>17, <1>18, <1>19, <1>20, <1>21, <1>22, <1>23, <1>24,
      <1>25, <1>26, <1>27, <1>28, <1>29, <1>30
  DEF Next, HostNext, ContainerNext, Environment

\* Charges: whoever resets rows has seen the process end.
LEMMA ChargesStep ==
  ASSUME TypeOK, HostShape, OneContainer, LoopShape, RowsHeldOnce, [Next]_vars
  PROVE  ChargesFollowDeath
<1>1. ASSUME NEW m \in Messages, Receive(m) PROVE ChargesFollowDeath
  BY <1>1 DEF Receive, ChargesFollowDeath, TypeOK
<1>2. CASE SpawnOk
  BY <1>2 DEF SpawnOk, inbound, outbound, loopVars, bounds, ChargesFollowDeath
<1>3. CASE SpawnFail
  <2>1. CASE sweep = "waking"
    <3>1. Charged(status, Hit(status))
      BY <1>3, <2>1 DEF SpawnFail, Reset
    <3>2. proc' = "none"
      BY <1>3 DEF SpawnFail, HostShape, OneContainer, TypeOK
    <3> QED
      BY <3>1, <3>2, ChargedRows DEF ChargesFollowDeath
  <2>2. CASE sweep # "waking"
    BY <1>3, <2>2 DEF SpawnFail, ChargesFollowDeath
  <2> QED
    BY <2>1, <2>2
<1>4. CASE Close
  BY <1>4 DEF Close, inbound, outbound, clocks, loopVars, bounds, ChargesFollowDeath
<1>5. CASE Restart
  BY <1>5 DEF Restart, inbound, outbound, clocks, ChargesFollowDeath
<1>6. CASE SweepWake
  <2>1. tries' = tries /\ status' = Synced
    BY <1>6 DEF SweepWake
  <2> QED
    BY <2>1, SyncedRows DEF ChargesFollowDeath
<1>7. CASE SweepEnforce
  <2>1. Charged(Synced, Hit(Synced))
    BY <1>7 DEF SweepEnforce, Reset
  <2>2. proc' = "none"
    BY <1>7 DEF SweepEnforce, ProcessGone, HostShape, OneContainer, TypeOK
  <2> QED
    BY <2>1, <2>2, ChargedRows DEF ChargesFollowDeath
<1>8. CASE SweepQuiet
  <2>1. tries' = tries /\ status' = Synced
    BY <1>8 DEF SweepQuiet
  <2> QED
    BY <2>1, SyncedRows DEF ChargesFollowDeath
<1>9. CASE SweepReset
  <2>1. Charged(Synced, Hit(Synced))
    BY <1>9 DEF SweepReset, Reset
  <2>2. proc' = "none"
    BY <1>9 DEF SweepReset, ProcessGone, HostShape, OneContainer, TypeOK
  <2> QED
    BY <2>1, <2>2, ChargedRows DEF ChargesFollowDeath
<1>10. CASE Boot
  BY <1>10 DEF Boot, Running, inbound, hostVars, loopVars, bounds, ChargesFollowDeath
<1>11. CASE Claim
  BY <1>11 DEF Claim, Running, inbound, hostVars, bounds, ChargesFollowDeath
<1>12. CASE HandleCommands
  BY <1>12 DEF HandleCommands, Running, inbound, hostVars, bounds, ChargesFollowDeath
<1>13. CASE RunScripts
  BY <1>13 DEF RunScripts, Running, inbound, hostVars, bounds, ChargesFollowDeath
<1>14. CASE Beat
  BY <1>14 DEF Beat, TouchHeartbeat, inbound, outbound, hostVars, loopVars, bounds,
      ChargesFollowDeath
<1>15. CASE Result
  BY <1>15 DEF Result, Running, inbound, hostVars, bounds, ChargesFollowDeath
<1>16. CASE QueryEnds
  BY <1>16 DEF QueryEnds, Running, inbound, hostVars, bounds, ChargesFollowDeath
<1>17. CASE QueryRetries
  BY <1>17 DEF QueryRetries, Running, inbound, outbound, clocks, hostVars, bounds,
      ChargesFollowDeath
<1>18. CASE QueryGivesUp
  BY <1>18 DEF QueryGivesUp, Running, inbound, hostVars, bounds, ChargesFollowDeath
<1>19. CASE FollowUpFetch
  BY <1>19 DEF FollowUpFetch, inbound, ChargesFollowDeath
<1>20. CASE FollowUpPush
  BY <1>20 DEF FollowUpPush, Running, inbound, hostVars, bounds, ChargesFollowDeath
<1>21. CASE LateScripts
  BY <1>21 DEF LateScripts, inbound, hostVars, bounds, ChargesFollowDeath
<1>22. CASE HostCrash
  BY <1>22 DEF HostCrash, HostDies, outbound, clocks, loopVars, ChargesFollowDeath
<1>23. CASE HostCrashInReset
  <2>1. PICK st \in {status, Synced} : \E part \in SUBSET Hit(st) : Charged(st, part)
    BY <1>23 DEF HostCrashInReset
  <2>2. (\E m \in Messages : ack[m] = "processing") => proc' = "none"
    BY <1>23 DEF HostCrashInReset, HostDies, ProcessGone, HostShape, OneContainer, TypeOK
  <2> QED
    BY <2>1, <2>2, ChargedRows DEF ChargesFollowDeath
<1>24. CASE HostStart
  BY <1>24 DEF HostStart, inbound, outbound, clocks, bounds, ChargesFollowDeath
<1>25. CASE Crash
  BY <1>25 DEF Crash, inbound, outbound, clocks, hostVars, ChargesFollowDeath
<1>26. CASE Hang
  BY <1>26 DEF Hang, Running, inbound, outbound, clocks, hostVars, loopVars,
      ChargesFollowDeath
<1>27. CASE HeartbeatStales
  BY <1>27 DEF HeartbeatStales, inbound, outbound, hostVars, loopVars, bounds,
      ChargesFollowDeath
<1>28. ASSUME NEW m \in Messages, BackoffElapses(m) PROVE ChargesFollowDeath
  BY <1>28 DEF BackoffElapses, outbound, clocks, hostVars, loopVars, bounds,
      ChargesFollowDeath
<1>29. ASSUME NEW m \in Messages, ClaimAges(m) PROVE ChargesFollowDeath
  BY <1>29 DEF ClaimAges, inbound, outbound, hostVars, loopVars, bounds,
      ChargesFollowDeath
<1>30. CASE UNCHANGED vars
  BY <1>30 DEF vars, inbound, outbound, clocks, hostVars, loopVars, bounds,
      ChargesFollowDeath
<1> QED
  BY <1>1, <1>2, <1>3, <1>4, <1>5, <1>6, <1>7, <1>8, <1>9, <1>10, <1>11, <1>12, <1>13,
      <1>14, <1>15, <1>16, <1>17, <1>18, <1>19, <1>20, <1>21, <1>22, <1>23, <1>24,
      <1>25, <1>26, <1>27, <1>28, <1>29, <1>30
  DEF Next, HostNext, ContainerNext, Environment

\* A row that was answered is never taken up again.
THEOREM FinalAcks == Spec => AckIsFinal
<1>1. Consistent /\ [Next]_vars => [FinalAcksStay]_vars
  BY FinalAcksStep DEF Consistent
<1> QED
  BY <1>1, AlwaysConsistent, PTL DEF Spec, AckIsFinal

\* The host deletes claims only when no container is left to write its database.
THEOREM SingleWriter == Spec => HostWritesOutboundOnlyWhenDead
<1>1. Consistent /\ [Next]_vars => [ClaimsVanishWhenDead]_vars
  BY VanishStep DEF Consistent
<1> QED
  BY <1>1, AlwaysConsistent, PTL DEF Spec, HostWritesOutboundOnlyWhenDead

\* No row is charged or given up while its container may still answer it.
THEOREM FairCharges == Spec => ChargedOnlyAfterDeath
<1>1. Consistent /\ [Next]_vars => [ChargesFollowDeath]_vars
  BY ChargesStep DEF Consistent
<1> QED
  BY <1>1, AlwaysConsistent, PTL DEF Spec, ChargedOnlyAfterDeath

-----------------------------------------------------------------------------
(* Commands *)

\* Only an open query has prompts with the provider.
PromptsShape == proc # "querying" => inTurn = {}

FreshInv == CommandsStartFresh /\ PromptsShape

\* A prompt is in the turn as part of the batch, or came as a follow-up, which
\* is fetched only when no command is among the rows the poll returned.
LEMMA CommandsStep ==
  ASSUME Consistent, FreshInv, [Next]_vars
  PROVE  FreshInv'
<1>1. ASSUME NEW m \in Messages, Receive(m) PROVE FreshInv'
  BY <1>1
  DEF Receive, Waken, outbound, clocks, loopVars, bounds, FreshInv,
      CommandsStartFresh, PromptsShape
<1>2. CASE SpawnOk
  <2>1. proc = "none" /\ inTurn = {}
    BY <1>2 DEF SpawnOk, Consistent, HostShape, OneContainer, LoopShape
  <2> QED
    BY <1>2, <2>1 DEF SpawnOk, loopVars, FreshInv, CommandsStartFresh, PromptsShape
<1>3. CASE SpawnFail
  BY <1>3 DEF SpawnFail, loopVars, FreshInv, CommandsStartFresh, PromptsShape
<1>4. CASE Close
  BY <1>4 DEF Close, loopVars, FreshInv, CommandsStartFresh, PromptsShape
<1>5. CASE Restart
  BY <1>5 DEF Restart, ProcessGone, FreshInv, CommandsStartFresh, PromptsShape
<1>6. CASE SweepWake
  BY <1>6 DEF SweepWake, loopVars, FreshInv, CommandsStartFresh, PromptsShape
<1>7. CASE SweepEnforce
  BY <1>7 DEF SweepEnforce, ProcessGone, FreshInv, CommandsStartFresh, PromptsShape
<1>8. CASE SweepQuiet
  BY <1>8 DEF SweepQuiet, loopVars, FreshInv, CommandsStartFresh, PromptsShape
<1>9. CASE SweepReset
  BY <1>9 DEF SweepReset, loopVars, FreshInv, CommandsStartFresh, PromptsShape
<1>10. CASE Boot
  BY <1>10 DEF Boot, Running, loopVars, FreshInv, CommandsStartFresh, PromptsShape
<1>11. CASE Claim
  BY <1>11 DEF Claim, Running, FreshInv, CommandsStartFresh, PromptsShape
<1>12. CASE HandleCommands
  BY <1>12 DEF HandleCommands, Running, FreshInv, CommandsStartFresh, PromptsShape
<1>13. CASE RunScripts
  BY <1>13 DEF RunScripts, Running, FreshInv, CommandsStartFresh, PromptsShape
<1>14. CASE Beat
  BY <1>14 DEF Beat, loopVars, FreshInv, CommandsStartFresh, PromptsShape
<1>15. CASE Result
  BY <1>15 DEF Result, Running, FreshInv, CommandsStartFresh, PromptsShape
<1>16. CASE QueryEnds
  BY <1>16
  DEF QueryEnds, Running, LeaveQuery, FreshInv, CommandsStartFresh, PromptsShape
<1>17. CASE QueryRetries
  BY <1>17 DEF QueryRetries, Running, FreshInv, CommandsStartFresh, PromptsShape
<1>18. CASE QueryGivesUp
  BY <1>18
  DEF QueryGivesUp, Running, LeaveQuery, FreshInv, CommandsStartFresh,
      PromptsShape
<1>19. CASE FollowUpFetch
  BY <1>19 DEF FollowUpFetch, Running, FreshInv, CommandsStartFresh, PromptsShape
<1>20. CASE FollowUpPush
  BY <1>20 DEF FollowUpPush, Running, FreshInv, CommandsStartFresh, PromptsShape
<1>21. CASE LateScripts
  BY <1>21 DEF LateScripts, FreshInv, CommandsStartFresh, PromptsShape
<1>22. CASE HostCrash
  BY <1>22
  DEF HostCrash, HostDies, loopVars, FreshInv, CommandsStartFresh, PromptsShape
<1>23. CASE HostCrashInReset
  BY <1>23
  DEF HostCrashInReset, ProcessGone, loopVars, FreshInv, CommandsStartFresh,
      PromptsShape
<1>24. CASE HostStart
  BY <1>24 DEF HostStart, ProcessGone, FreshInv, CommandsStartFresh, PromptsShape
<1>25. CASE Crash
  BY <1>25 DEF Crash, ProcessGone, FreshInv, CommandsStartFresh, PromptsShape
<1>26. CASE Hang
  BY <1>26 DEF Hang, Running, loopVars, FreshInv, CommandsStartFresh, PromptsShape
<1>27. CASE HeartbeatStales
  BY <1>27 DEF HeartbeatStales, loopVars, FreshInv, CommandsStartFresh, PromptsShape
<1>28. ASSUME NEW m \in Messages, BackoffElapses(m) PROVE FreshInv'
  BY <1>28 DEF BackoffElapses, loopVars, FreshInv, CommandsStartFresh, PromptsShape
<1>29. ASSUME NEW m \in Messages, ClaimAges(m) PROVE FreshInv'
  BY <1>29 DEF ClaimAges, loopVars, FreshInv, CommandsStartFresh, PromptsShape
<1>30. CASE UNCHANGED vars
  BY <1>30 DEF vars, loopVars, FreshInv, CommandsStartFresh, PromptsShape
<1> QED
  BY <1>1, <1>2, <1>3, <1>4, <1>5, <1>6, <1>7, <1>8, <1>9, <1>10, <1>11,
      <1>12, <1>13, <1>14, <1>15, <1>16, <1>17, <1>18, <1>19, <1>20, <1>21,
      <1>22, <1>23, <1>24, <1>25, <1>26, <1>27, <1>28, <1>29, <1>30
  DEF Next, HostNext, ContainerNext, Environment

\* A slash command is always the first input of a fresh query, whatever arrives
\* with it, whichever rows the prompt window hides, across crashes and hangs.
THEOREM CommandsAlwaysStartFresh == Spec => []CommandsStartFresh
<1>1. Init => FreshInv
  BY DEF Init, FreshInv, CommandsStartFresh, PromptsShape
<1>2. Consistent /\ FreshInv /\ [Next]_vars => FreshInv'
  BY CommandsStep
<1>3. FreshInv => CommandsStartFresh
  BY DEF FreshInv
<1> QED
  BY <1>1, <1>2, <1>3, AlwaysConsistent, PTL DEF Spec

-----------------------------------------------------------------------------
(* SessionLifecycle implements MessageLedger: every step of the host, of    *)
(* the container or of the environment changes the phases and the retries   *)
(* of the rows as one action of the ledger does, or not at all.             *)

(* Phases *)

\* In consistent states the phase of a row is told by four facts.
LEMMA PhaseFacts ==
  ASSUME Consistent, NEW m \in Messages
  PROVE  /\ Phase(m) = "absent" <=> status[m] = "absent"
         /\ Phase(m) = "failed" <=> status[m] = "failed" \/ ack[m] = "scriptError"
         /\ Phase(m) = "done" <=> ack[m] = "completed"
         /\ Phase(m) = "claimed" <=>
              status[m] = "pending" /\ ack[m] = "processing" /\ ~deferred[m]
         /\ Phase(m) \in {"absent", "failed", "done", "claimed", "queued"}
BY DEF Consistent, TypeOK, DatabasesAgree, Phase

\* A step that moves no row and charges no retry is a step of the ledger.
LEMMA Stutters ==
  ASSUME tries' = tries, \A m \in Messages : Phase(m)' = Phase(m)
  PROVE  UNCHANGED Ledger!vars
BY DEF Ledger!vars

\* A step that moves the claimed rows of S to the queue, at no cost.
LEMMA Releases ==
  ASSUME NEW S \in SUBSET Messages, tries' = tries,
         \A m \in S : Phase(m) = "claimed" /\ Phase(m)' = "queued",
         \A m \in Messages \ S : Phase(m)' = Phase(m)
  PROVE  [Ledger!Next]_Ledger!vars
<1>1. CASE S = {}
  BY <1>1, Stutters
<1>2. CASE S # {}
  <2>1. Ledger!Release(S)
    BY <1>2 DEF Ledger!Release, Ledger!In, Ledger!Move
  <2> QED
    BY <2>1 DEF Ledger!Next
<1> QED
  BY <1>1, <1>2

\* A step that claims the queued rows of S.
LEMMA ClaimsRows ==
  ASSUME NEW S \in SUBSET Messages, tries' = tries,
         \A m \in S : Phase(m) = "queued" /\ Phase(m)' = "claimed",
         \A m \in Messages \ S : Phase(m)' = Phase(m)
  PROVE  [Ledger!Next]_Ledger!vars
<1>1. CASE S = {}
  BY <1>1, Stutters
<1>2. CASE S # {}
  <2>1. Ledger!Claim(S)
    BY <1>2 DEF Ledger!Claim, Ledger!In, Ledger!Move
  <2> QED
    BY <2>1 DEF Ledger!Next
<1> QED
  BY <1>1, <1>2

\* A step that concludes claimed rows, and leaves the others where they are.
LEMMA Concludes ==
  ASSUME tries' = tries,
         \A m \in Messages :
           \/ Phase(m)' = Phase(m)
           \/ Phase(m) = "claimed" /\ Phase(m)' \in {"done", "failed"}
  PROVE  [Ledger!Next]_Ledger!vars
<1> DEFINE S == {m \in Messages : Phase(m)' # Phase(m)}
           bad == {m \in S : Phase(m)' = "failed"}
<1>1. CASE S = {}
  BY <1>1, Stutters
<1>2. CASE S # {}
  <2>1. Ledger!Conclude(S, bad)
    BY <1>2 DEF Ledger!Conclude, Ledger!In
  <2>2. S \in SUBSET Messages /\ bad \in SUBSET S
    OBVIOUS
  <2> QED
    BY <2>1, <2>2 DEF Ledger!Next
<1> QED
  BY <1>1, <1>2

\* Charging, whatever becomes of the claims themselves.
LEMMA Charges ==
  ASSUME Consistent, Consistent', NEW st \in {status, Synced},
         NEW part \in SUBSET Hit(st), Charged(st, part),
         \/ ack' = ack
         \/ part = Hit(st) /\ SetAck(Claims, "none")
  PROVE  [Ledger!Next]_Ledger!vars
<1>1. \A m \in part : /\ m \in Messages /\ Phase(m) = "claimed" /\ status[m] = "pending"
                      /\ st[m] = "pending"
  BY PhaseFacts DEF Hit, Claims, Synced, Consistent, TypeOK
<1>2. \A m \in Messages : tries[m] \in 0..MaxTries
  BY DEF Consistent, TypeOK
<1>3. ASSUME NEW m \in part
      PROVE  /\ Phase(m)' = IF tries[m] < MaxTries THEN "queued" ELSE "failed"
             /\ tries'[m] = IF tries[m] < MaxTries THEN tries[m] + 1 ELSE tries[m]
  <2>1. m \in Messages /\ ack[m] = "processing" /\ st[m] = "pending" /\ ack'[m] \in {"processing", "none"}
    BY <1>1 DEF Hit, Claims, SetAck
  <2>2. CASE tries[m] < MaxTries
    <3>1. tries'[m] = tries[m] + 1 /\ status'[m] = "pending"
      BY <1>2, <2>1, <2>2 DEF Charged
    <3>2. deferred'[m]
      <4>1. ~(tries[m] >= MaxTries)
        BY <1>2, <2>1, <2>2
      <4> QED
        BY <2>1, <4>1, Zenon DEF Charged
    <3> QED
      BY <2>1, <2>2, <3>1, <3>2 DEF Phase
  <2>3. CASE ~(tries[m] < MaxTries)
    <3>1. tries'[m] = tries[m] /\ status'[m] = "failed"
      BY <1>2, <2>1, <2>3 DEF Charged
    <3> QED
      BY <2>1, <2>3, <3>1 DEF Phase
  <2> QED
    BY <2>2, <2>3
<1>4. ASSUME NEW m \in Messages, m \notin part
      PROVE  Phase(m)' = Phase(m) /\ tries'[m] = tries[m]
  <2>1. tries'[m] = tries[m] /\ status'[m] = st[m]
    BY <1>4 DEF Charged
  <2>2. deferred'[m] = deferred[m]
    BY <1>4 DEF Charged, Consistent, TypeOK
  <2>3. CASE ack'[m] = ack[m]
    BY <2>1, <2>2, <2>3 DEF Phase, Synced, Consistent, TypeOK, DatabasesAgree
  <2>4. CASE ack'[m] # ack[m]
    <3>1. ack[m] = "processing" /\ ack'[m] = "none" /\ m \notin Hit(st)
      BY <1>4, <2>4 DEF SetAck, Claims
    <3>2. st[m] = status[m]
      BY <3>1 DEF Synced, Consistent, TypeOK
    <3>3. status[m] # "pending" \/ deferred[m]
      BY <3>1, <3>2 DEF Hit, Claims
    <3> QED
      BY <2>1, <2>2, <3>1, <3>2, <3>3 DEF Phase, Consistent, TypeOK, DatabasesAgree
  <2> QED
    BY <2>3, <2>4
<1>5. CASE part = {}
  <2>1. tries' = tries
    BY <1>4, <1>5 DEF Charged, Consistent, TypeOK
  <2> QED
    BY <1>4, <1>5, <2>1, Stutters
<1>6. CASE part # {}
  <2>1. part \in SUBSET Messages
    BY <1>1
  <2>2. tries' = [m \in Messages |-> IF m \in part /\ tries[m] < MaxTries
                                     THEN tries[m] + 1 ELSE tries[m]]
    BY <1>3, <1>4 DEF Charged, Consistent, TypeOK
  <2>3. Ledger!Charge(part)
    BY <1>1, <1>3, <1>4, <1>6, <2>1, <2>2 DEF Ledger!Charge, Ledger!In
  <2> QED
    BY <2>1, <2>3 DEF Ledger!Next
<1> QED
  BY <1>5, <1>6

-----------------------------------------------------------------------------
(* Every step is a step of the ledger *)

\* The initial states.
LEMMA InitLedger == Init => Ledger!Init
BY DEF Init, Ledger!Init, Phase

\* A step that leaves the rows of both databases alone.
LEMMA SameRows ==
  ASSUME status' = status, ack' = ack, deferred' = deferred, tries' = tries
  PROVE  [Ledger!Next]_Ledger!vars
<1>1. \A m \in Messages : Phase(m)' = Phase(m)
  BY DEF Phase
<1> QED
  BY <1>1, Stutters

\* A step that only copies acks to the inbound rows moves no phase.
LEMMA SyncsRows ==
  ASSUME Consistent, status' = Synced, ack' = ack, deferred' = deferred, tries' = tries
  PROVE  [Ledger!Next]_Ledger!vars
<1>1. \A m \in Messages : Phase(m)' = Phase(m)
  BY DEF Phase, Synced, Consistent, TypeOK, DatabasesAgree
<1> QED
  BY <1>1, Stutters

\* A step of the container that gives final acks to rows it has claimed.
LEMMA AcksRows ==
  ASSUME Consistent, Consistent', proc \notin {"none", "booting"},
         status' = status, deferred' = deferred, tries' = tries,
         \A m \in Messages :
           \/ ack'[m] = ack[m]
           \/ ack[m] = "processing" /\ ack'[m] \in {"completed", "scriptError"}
  PROVE  [Ledger!Next]_Ledger!vars
<1>1. ASSUME NEW m \in Messages
      PROVE  \/ Phase(m)' = Phase(m)
             \/ Phase(m) = "claimed" /\ Phase(m)' \in {"done", "failed"}
  <2>1. CASE ack'[m] = ack[m]
    BY <2>1 DEF Phase
  <2>2. CASE ack[m] = "processing" /\ ack'[m] \in {"completed", "scriptError"}
    <3>1. status[m] = "pending" /\ ~deferred[m]
      BY <2>2 DEF Consistent, TypeOK, DatabasesAgree
    <3> QED
      BY <2>2, <3>1 DEF Phase
  <2> QED
    BY <2>1, <2>2
<1> QED
  BY <1>1, Concludes

\* Each action of the session, and the action of the ledger it is.
LEMMA LedgerStep ==
  ASSUME Consistent, Consistent', [Next]_vars
  PROVE  [Ledger!Next]_Ledger!vars
<1>1. ASSUME NEW m \in Messages, Receive(m) PROVE [Ledger!Next]_Ledger!vars
  <2>1. Phase(m) = "absent" /\ Phase(m)' = "queued"
    BY <1>1, PhaseFacts DEF Receive, outbound, Phase, Consistent, TypeOK, DatabasesAgree
  <2>2. \A n \in Messages \ {m} : Phase(n)' = Phase(n)
    BY <1>1 DEF Receive, outbound, Phase, Consistent, TypeOK
  <2>3. Ledger!Submit(m)
    BY <1>1, <2>1, <2>2 DEF Receive, Ledger!Submit, Ledger!Move
  <2> QED
    BY <2>3 DEF Ledger!Next
<1>2. CASE SpawnOk
  BY <1>2, SameRows DEF SpawnOk, inbound, outbound, loopVars, bounds
<1>3. CASE SpawnFail
  <2>1. CASE sweep = "waking"
    <3>1. Reset(status)
      BY <1>3, <2>1 DEF SpawnFail
    <3> QED
      BY <3>1, Charges DEF Reset
  <2>2. CASE sweep # "waking"
    BY <1>3, <2>2, SameRows DEF SpawnFail
  <2> QED
    BY <2>1, <2>2
<1>4. CASE Close
  BY <1>4, SameRows DEF Close, inbound, outbound, clocks, loopVars, bounds
<1>5. CASE Restart
  BY <1>5, SameRows DEF Restart, inbound, outbound, clocks
<1>6. CASE SweepWake
  BY <1>6, SyncsRows DEF SweepWake, outbound
<1>7. CASE SweepEnforce
  <2>1. Reset(Synced)
    BY <1>7 DEF SweepEnforce
  <2> QED
    BY <2>1, Charges DEF Reset
<1>8. CASE SweepQuiet
  BY <1>8, SyncsRows DEF SweepQuiet, outbound
<1>9. CASE SweepReset
  <2>1. Reset(Synced)
    BY <1>9 DEF SweepReset
  <2> QED
    BY <2>1, Charges DEF Reset
<1>10. CASE Boot
  <2> DEFINE S == {m \in Messages : Phase(m) = "claimed"}
  <2>1. /\ SetAck(Claims, "none")
        /\ status' = status /\ deferred' = deferred /\ tries' = tries
    BY <1>10 DEF Boot, inbound
  <2>2. \A m \in S : Phase(m)' = "queued"
    BY <2>1, PhaseFacts DEF SetAck, Claims, Phase
  <2>3. ASSUME NEW m \in Messages \ S PROVE Phase(m)' = Phase(m)
    <3>1. CASE ack[m] # "processing"
      BY <2>1, <3>1 DEF SetAck, Claims, Phase
    <3>2. CASE ack[m] = "processing"
      <4>1. ack'[m] = "none" /\ (status[m] # "pending" \/ deferred[m])
        BY <2>1, <2>3, <3>2, PhaseFacts DEF SetAck, Claims
      <4> QED
        BY <2>1, <3>2, <4>1 DEF Phase, Consistent, TypeOK, DatabasesAgree
    <3> QED
      BY <3>1, <3>2
  <2> QED
    BY <2>1, <2>2, <2>3, Releases
<1>11. CASE Claim
  <2>1. SetAck(Fetched, "processing") /\ status' = status /\ deferred' = deferred /\ tries' = tries
    BY <1>11 DEF Claim, inbound
  <2>2. ASSUME NEW m \in Fetched
        PROVE  Phase(m) = "queued" /\ Phase(m)' = "claimed"
    BY <2>1, FetchedRows DEF SetAck, Phase
  <2>3. \A m \in Messages \ Fetched : Phase(m)' = Phase(m)
    BY <2>1 DEF SetAck, Phase
  <2>4. Fetched \in SUBSET Messages
    BY FetchedRows
  <2> QED
    BY <2>1, <2>2, <2>3, <2>4, ClaimsRows
<1>12. CASE HandleCommands
  <2>1. proc \notin {"none", "booting"}
    BY <1>12 DEF HandleCommands, Running
  <2>2. \A m \in Messages :
          \/ ack'[m] = ack[m]
          \/ ack[m] = "processing" /\ ack'[m] \in {"completed", "scriptError"}
    BY <1>12 DEF HandleCommands, Running, SetAck,
       Claims, Consistent, TypeOK, RowsHeldOnce
  <2> QED
    BY <1>12, <2>1, <2>2, AcksRows DEF HandleCommands, inbound
<1>13. CASE RunScripts
  <2>1. proc \notin {"none", "booting"}
    BY <1>13 DEF RunScripts, Running
  <2>2. \A m \in Messages :
          \/ ack'[m] = ack[m]
          \/ ack[m] = "processing" /\ ack'[m] \in {"completed", "scriptError"}
    BY <1>13 DEF RunScripts, Running, AckSkipped,
       Claims, Consistent, TypeOK, RowsHeldOnce
  <2> QED
    BY <1>13, <2>1, <2>2, AcksRows DEF RunScripts, inbound
<1>14. CASE Beat
  BY <1>14, SameRows DEF Beat, inbound, outbound, hostVars, loopVars, bounds
<1>15. CASE Result
  <2>1. proc \notin {"none", "booting"}
    BY <1>15 DEF Result, Running
  <2>2. \A m \in Messages :
          \/ ack'[m] = ack[m]
          \/ ack[m] = "processing" /\ ack'[m] \in {"completed", "scriptError"}
    BY <1>15 DEF Result, Running,
       Claims, Consistent, TypeOK, RowsHeldOnce
  <2> QED
    BY <1>15, <2>1, <2>2, AcksRows DEF Result, inbound
<1>16. CASE QueryEnds
  <2>1. proc \notin {"none", "booting"}
    BY <1>16 DEF QueryEnds, Running
  <2>2. \A m \in Messages :
          \/ ack'[m] = ack[m]
          \/ ack[m] = "processing" /\ ack'[m] \in {"completed", "scriptError"}
    BY <1>16 DEF QueryEnds, Running, LeaveQuery, SetAck,
       Claims, Consistent, TypeOK, RowsHeldOnce
  <2> QED
    BY <1>16, <2>1, <2>2, AcksRows DEF QueryEnds, inbound
<1>17. CASE QueryRetries
  BY <1>17, SameRows DEF QueryRetries, inbound, outbound, clocks, hostVars, bounds
<1>18. CASE QueryGivesUp
  <2>1. proc \notin {"none", "booting"}
    BY <1>18 DEF QueryGivesUp, Running
  <2>2. \A m \in Messages :
          \/ ack'[m] = ack[m]
          \/ ack[m] = "processing" /\ ack'[m] \in {"completed", "scriptError"}
    BY <1>18 DEF QueryGivesUp, Running, LeaveQuery, SetAck,
       Claims, Consistent, TypeOK, RowsHeldOnce
  <2> QED
    BY <1>18, <2>1, <2>2, AcksRows DEF QueryGivesUp, inbound
<1>19. CASE FollowUpFetch
  <2>1. CASE ack' = ack
    BY <1>19, <2>1, SameRows DEF FollowUpFetch, inbound
  <2>2. CASE SetAck(Fetched, "processing")
    <3>1. status' = status /\ deferred' = deferred /\ tries' = tries
      BY <1>19 DEF FollowUpFetch, inbound
    <3>2. ASSUME NEW m \in Fetched
          PROVE  Phase(m) = "queued" /\ Phase(m)' = "claimed"
      BY <2>2, <3>1, FetchedRows DEF SetAck, Phase
    <3>3. \A m \in Messages \ Fetched : Phase(m)' = Phase(m)
      BY <2>2, <3>1 DEF SetAck, Phase
    <3>4. Fetched \in SUBSET Messages
      BY FetchedRows
    <3> QED
      BY <3>1, <3>2, <3>3, <3>4, ClaimsRows
  <2> QED
    BY <1>19, <2>1, <2>2 DEF FollowUpFetch
<1>20. CASE FollowUpPush
  <2>1. proc \notin {"none", "booting"}
    BY <1>20 DEF FollowUpPush, Running
  <2>2. \A m \in Messages :
          \/ ack'[m] = ack[m]
          \/ ack[m] = "processing" /\ ack'[m] \in {"completed", "scriptError"}
    BY <1>20 DEF FollowUpPush, Running, AckSkipped,
       Claims, Consistent, TypeOK, RowsHeldOnce
  <2> QED
    BY <1>20, <2>1, <2>2, AcksRows DEF FollowUpPush, inbound
<1>21. CASE LateScripts
  <2>1. proc \notin {"none", "booting"}
    BY <1>21 DEF LateScripts, Consistent, LoopShape
  <2>2. \A m \in Messages :
          \/ ack'[m] = ack[m]
          \/ ack[m] = "processing" /\ ack'[m] \in {"completed", "scriptError"}
    BY <1>21 DEF LateScripts, AckSkipped,
       Claims, Consistent, TypeOK, RowsHeldOnce
  <2> QED
    BY <1>21, <2>1, <2>2, AcksRows DEF LateScripts, inbound
<1>22. CASE HostCrash
  BY <1>22, SameRows DEF HostCrash, HostDies, outbound, clocks, loopVars
<1>23. CASE HostCrashInReset
  <2>1. PICK st \in {status, Synced} : \E part \in SUBSET Hit(st) : Charged(st, part)
    BY <1>23 DEF HostCrashInReset
  <2>2. ack' = ack
    BY <1>23 DEF HostCrashInReset, HostDies, outbound
  <2> QED
    BY <2>1, <2>2, Charges
<1>24. CASE HostStart
  BY <1>24, SameRows DEF HostStart, inbound, outbound, clocks, bounds
<1>25. CASE Crash
  BY <1>25, SameRows DEF Crash, inbound, outbound, clocks, hostVars
<1>26. CASE Hang
  BY <1>26, SameRows DEF Hang, inbound, outbound, clocks, hostVars, loopVars
<1>27. CASE HeartbeatStales
  BY <1>27, SameRows DEF HeartbeatStales, inbound, outbound, hostVars, loopVars, bounds
<1>28. ASSUME NEW m \in Messages, BackoffElapses(m) PROVE [Ledger!Next]_Ledger!vars
  <2>1. /\ status' = status /\ ack' = ack /\ tries' = tries
        /\ deferred[m] /\ deferred' = [deferred EXCEPT ![m] = FALSE]
    BY <1>28 DEF BackoffElapses, outbound
  <2>2. \A n \in Messages \ {m} : Phase(n)' = Phase(n)
    BY <2>1 DEF Phase, Consistent, TypeOK
  <2>3. CASE ack[m] = "processing"
    <3>1. Phase(m) = "queued" /\ Phase(m)' = "claimed"
      BY <2>1, <2>3 DEF Phase, Consistent, TypeOK, DatabasesAgree
    <3> DEFINE S == {m}
    <3>2. \A n \in S : Phase(n) = "queued" /\ Phase(n)' = "claimed"
      BY <3>1
    <3>3. \A n \in Messages \ S : Phase(n)' = Phase(n)
      BY <2>2
    <3>4. S \in SUBSET Messages /\ tries' = tries
      BY <2>1
    <3> HIDE DEF S
    <3> QED
      BY <3>2, <3>3, <3>4, ClaimsRows
  <2>4. CASE ack[m] # "processing"
    <3>1. Phase(m)' = Phase(m)
      BY <2>1, <2>4 DEF Phase
    <3> QED
      BY <2>1, <2>2, <3>1, Stutters
  <2> QED
    BY <2>3, <2>4
<1>29. ASSUME NEW m \in Messages, ClaimAges(m) PROVE [Ledger!Next]_Ledger!vars
  BY <1>29, SameRows DEF ClaimAges, inbound, outbound, hostVars, loopVars, bounds
<1>30. CASE UNCHANGED vars
  BY <1>30, SameRows DEF vars, inbound, outbound
<1> QED
  BY <1>1, <1>2, <1>3, <1>4, <1>5, <1>6, <1>7, <1>8, <1>9, <1>10, <1>11, <1>12, <1>13,
      <1>14, <1>15, <1>16, <1>17, <1>18, <1>19, <1>20, <1>21, <1>22, <1>23, <1>24,
      <1>25, <1>26, <1>27, <1>28, <1>29, <1>30
  DEF Next, HostNext, ContainerNext, Environment

\* The session implements the ledger, for every set of rows and every bound.
THEOREM SessionImplementsLedger == Spec => ImplementsLedger
<1>1. Consistent /\ Consistent' /\ [Next]_vars => [Ledger!Next]_Ledger!vars
  BY LedgerStep
<1> QED
  BY <1>1, InitLedger, AlwaysConsistent, PTL DEF Spec, ImplementsLedger, Ledger!Spec

=============================================================================
