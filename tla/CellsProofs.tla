---------------------------- MODULE CellsProofs ----------------------------
(***************************************************************************)
(* Proofs about Cells, for any set of sessions, any number of starts, rows *)
(* and faults, and every setting of the pump.                              *)
(*                                                                         *)
(* Each invariant rests on an observation about a host that has not yet    *)
(* interleaved two starts, or two pushes.  Solitary: as long as no session *)
(* was started beside another one, one handle at most is alive, and an     *)
(* active one holds the cell.  PushesInOrder: as long as no push ran       *)
(* beside a handle that pushes, the side file and the cell's inbound.db    *)
(* are what the one handle that pushes has written there.                  *)
(***************************************************************************)
EXTENDS Cells, TLAPS

USE CellsAssumption DEF CellsAssumption

-----------------------------------------------------------------------------
(* The inductive invariant *)

\* What a handle looks like: it ticks only once its start is over, every start
\* has its session, and a push has rows to write.
HandleShape ==
  \A h \in Handles :
    /\ Is(h, "unused") \/ IsStarting(h) => At(h, "idle")
    /\ ~Is(h, "unused") => Of(h) \in Sessions
    /\ handle[h].at \in {"writing", "installing"} => handle[h].read > 0
    /\ handle[h].tick \in {"writing", "installing"} =>
         handle[h].read > 0 /\ ~Is(h, "unused")

Live(h) == IsStarting(h) \/ Is(h, "active")

\* No two starts have overlapped: one handle at most is alive, and the session
\* that runs holds the cell.
Solitary ==
  ~overlapped =>
    /\ \A g, h \in Handles : Live(g) /\ Live(h) => g = h
    /\ \A h \in Handles : Is(h, "active") => holder = Of(h)

\* No two pushes have crossed: between the requests of a push the side file is
\* its own, and afterwards the cell has the rows whose signature was recorded.
PushesInOrder ==
  ~crossed => \A h \in Handles :
    /\ Is(h, "installing") \/ (Is(h, "active") /\ At(h, "installing")) =>
         pushed = [of |-> Of(h), rows |-> handle[h].read]
    /\ handle[h].at \in {"probing", "stopping", "starting", "registering", "active"} =>
         cellIn = [of |-> Of(h), rows |-> handle[h].sig]

\* The cell is not left to a session that is gone.
Reclaimed == holder # NoSession => Running(holder)

CellsInv == TypeOK /\ HandleShape /\ Reclaimed /\ Solitary /\ PushesInOrder

-----------------------------------------------------------------------------
(* What each action does to the handles *)

\* Handle h has these fields after the step, and the others are what they were.
Becomes(h, of, at, tick, read, sig) ==
  /\ handle' \in [Handles -> HandleType]
  /\ handle'[h].of = of /\ handle'[h].at = at /\ handle'[h].tick = tick
  /\ handle'[h].read = read /\ handle'[h].sig = sig
  /\ \A g \in Handles \ {h} : handle'[g] = handle[g]

\* The session of h ends, unless it had ended before.
Ends(h, tick) ==
  /\ Becomes(h, Of(h), IF Is(h, "active") THEN "gone" ELSE handle[h].at,
             tick, handle[h].read, handle[h].sig)
  /\ holder' = Released(h)

Phases == {"unused", "active", "gone"} \cup Starting
Steps  == {"idle"} \cup Ticking

\* A start moves on.
LEMMA SetsAt ==
  ASSUME handle \in [Handles -> HandleType], NEW h \in Handles, NEW a \in Phases,
         handle' = [handle EXCEPT ![h].at = a]
  PROVE  Becomes(h, Of(h), a, handle[h].tick, handle[h].read, handle[h].sig)
BY DEF HandleType, Becomes, Of, Phases, Steps

\* A start begins.
LEMMA SetsOf ==
  ASSUME handle \in [Handles -> HandleType], NEW h \in Handles, NEW s \in Sessions,
         NEW a \in Phases,
         handle' = [handle EXCEPT ![h].of = s, ![h].at = a]
  PROVE  Becomes(h, s, a, handle[h].tick, handle[h].read, handle[h].sig)
BY DEF HandleType, Becomes, Of, Phases, Steps

\* The rows to push are read.
LEMMA SetsRead ==
  ASSUME handle \in [Handles -> HandleType], NEW h \in Handles, NEW a \in Phases,
         NEW n \in Nat,
         handle' = [handle EXCEPT ![h].at = a, ![h].read = n]
  PROVE  Becomes(h, Of(h), a, handle[h].tick, n, handle[h].sig)
BY DEF HandleType, Becomes, Of, Phases, Steps

\* The signature of a start's push is recorded.
LEMMA SetsSig ==
  ASSUME handle \in [Handles -> HandleType], NEW h \in Handles, NEW a \in Phases,
         handle' = [handle EXCEPT ![h].at = a, ![h].sig = handle[h].read]
  PROVE  Becomes(h, Of(h), a, handle[h].tick, handle[h].read, handle[h].read)
BY DEF HandleType, Becomes, Of, Phases, Steps

\* A tick moves on.
LEMMA SetsTick ==
  ASSUME handle \in [Handles -> HandleType], NEW h \in Handles, NEW k \in Steps,
         handle' = [handle EXCEPT ![h].tick = k]
  PROVE  Becomes(h, Of(h), handle[h].at, k, handle[h].read, handle[h].sig)
BY DEF HandleType, Becomes, Of, Phases, Steps

\* A tick begins.
LEMMA SetsTickRead ==
  ASSUME handle \in [Handles -> HandleType], NEW h \in Handles, NEW k \in Steps,
         NEW n \in Nat, NEW c \in 0..(CheckEvery - 1),
         handle' = [handle EXCEPT ![h].tick = k, ![h].read = n, ![h].ticks = c]
  PROVE  Becomes(h, Of(h), handle[h].at, k, n, handle[h].sig)
<1>1. PICK hs : hs = [handle EXCEPT ![h].tick = k, ![h].read = n]
  OBVIOUS
<1>2. /\ hs \in [Handles -> HandleType]
      /\ hs[h].of = handle[h].of /\ hs[h].at = handle[h].at /\ hs[h].tick = k
      /\ hs[h].read = n /\ hs[h].sig = handle[h].sig
      /\ \A g \in Handles \ {h} : hs[g] = handle[g]
  BY <1>1 DEF HandleType, Steps
<1>3. handle' = [hs EXCEPT ![h].ticks = c]
  BY <1>1
<1>4. /\ handle' \in [Handles -> HandleType]
      /\ handle'[h].of = hs[h].of /\ handle'[h].at = hs[h].at /\ handle'[h].tick = hs[h].tick
      /\ handle'[h].read = hs[h].read /\ handle'[h].sig = hs[h].sig
      /\ \A g \in Handles \ {h} : handle'[g] = hs[g]
  BY ONLY <1>2, <1>3, h \in Handles, c \in 0..(CheckEvery - 1) DEF HandleType
<1> QED
  BY <1>2, <1>4 DEF Becomes, Of

\* The signature of a tick's push is recorded.
LEMMA SetsTickSig ==
  ASSUME handle \in [Handles -> HandleType], NEW h \in Handles, NEW k \in Steps,
         handle' = [handle EXCEPT ![h].tick = k, ![h].sig = handle[h].read]
  PROVE  Becomes(h, Of(h), handle[h].at, k, handle[h].read, handle[h].read)
BY DEF HandleType, Becomes, Of, Phases, Steps

\* A tick is over.
LEMMA SetsFails ==
  ASSUME handle \in [Handles -> HandleType], NEW h \in Handles,
         NEW n \in 0..PumpFailures,
         handle' = [handle EXCEPT ![h].tick = "idle", ![h].fails = n]
  PROVE  Becomes(h, Of(h), handle[h].at, "idle", handle[h].read, handle[h].sig)
BY DEF HandleType, Becomes, Of, Phases, Steps

\* A session that is active ends, with its tick.
LEMMA SetsGone ==
  ASSUME TypeOK, NEW h \in Handles, NEW n \in 0..PumpFailures,
         handle' = Finalized([handle EXCEPT ![h].tick = "idle", ![h].fails = n], h),
         holder' = Released(h)
  PROVE  Ends(h, "idle")
BY DEF TypeOK, HandleType, Becomes, Ends, Of, Is, Finalized, Phases, Steps

-----------------------------------------------------------------------------
(* The handles after each action *)

\* A wake takes an unused handle for its session.
LEMMA WakeMoves ==
  ASSUME TypeOK, HandleShape, NEW h \in Handles, NEW s \in Sessions, Wake(h, s)
  PROVE  Becomes(h, s, "preparing", handle[h].tick, handle[h].read, handle[h].sig)
<1>1. "preparing" \in Phases /\ handle \in [Handles -> HandleType]
  BY DEF Phases, Starting, TypeOK
<1> QED
  BY <1>1, SetsOf DEF Wake

\* The rows to push are the rows of the session.
LEMMA PrepareMoves ==
  ASSUME TypeOK, HandleShape, NEW h \in Handles, Prepare(h)
  PROVE  /\ Becomes(h, Of(h), "writing", handle[h].tick, inbound[Of(h)], handle[h].sig)
         /\ inbound[Of(h)] \in Nat \ {0}
<1>1. "writing" \in Phases /\ handle \in [Handles -> HandleType]
  BY DEF Phases, Starting, TypeOK
<1>2. inbound[Of(h)] \in Nat \ {0}
  BY DEF TypeOK, HandleShape, Prepare, Is
<1> QED
  BY <1>1, <1>2, SetsRead DEF Prepare

\* The first request of a start's push.
LEMMA StartWritesMoves ==
  ASSUME TypeOK, HandleShape, NEW h \in Handles, StartWrites(h)
  PROVE  Becomes(h, Of(h), "installing", handle[h].tick, handle[h].read, handle[h].sig)
<1>1. "installing" \in Phases /\ handle \in [Handles -> HandleType]
  BY DEF Phases, Starting, TypeOK
<1> QED
  BY <1>1, SetsAt DEF StartWrites

\* The second one records the signature of what was read.
LEMMA StartInstallsMoves ==
  ASSUME TypeOK, HandleShape, NEW h \in Handles, StartInstalls(h)
  PROVE  Becomes(h, Of(h), "probing", handle[h].tick, handle[h].read, handle[h].read)
<1>1. "probing" \in Phases /\ handle \in [Handles -> HandleType]
  BY DEF Phases, Starting, TypeOK
<1> QED
  BY <1>1, SetsSig DEF StartInstalls

\* The probe chooses the next request.
LEMMA ProbeMoves ==
  ASSUME TypeOK, HandleShape, NEW h \in Handles, Probe(h)
  PROVE  \E a \in {"stopping", "starting"} :
           Becomes(h, Of(h), a, handle[h].tick, handle[h].read, handle[h].sig)
<1>1. {"stopping", "starting"} \subseteq Phases /\ handle \in [Handles -> HandleType]
  BY DEF Phases, Starting, TypeOK
<1>2. PICK a \in {"stopping", "starting"} : handle' = [handle EXCEPT ![h].at = a]
  BY DEF Probe
<1> QED
  BY <1>1, <1>2, SetsAt

\* A stale service is stopped.
LEMMA StopStaleMoves ==
  ASSUME TypeOK, HandleShape, NEW h \in Handles, StopStale(h)
  PROVE  Becomes(h, Of(h), "starting", handle[h].tick, handle[h].read, handle[h].sig)
<1>1. "starting" \in Phases /\ handle \in [Handles -> HandleType]
  BY DEF Phases, Starting, TypeOK
<1> QED
  BY <1>1, SetsAt DEF StopStale

\* The service is started.
LEMMA StartServiceMoves ==
  ASSUME TypeOK, HandleShape, NEW h \in Handles, StartService(h)
  PROVE  Becomes(h, Of(h), "registering", handle[h].tick, handle[h].read, handle[h].sig)
<1>1. "registering" \in Phases /\ handle \in [Handles -> HandleType]
  BY DEF Phases, Starting, TypeOK
<1> QED
  BY <1>1, SetsAt DEF StartService

\* The start is over.
LEMMA RegisterMoves ==
  ASSUME TypeOK, HandleShape, NEW h \in Handles, Register(h)
  PROVE  Becomes(h, Of(h), "active", handle[h].tick, handle[h].read, handle[h].sig)
<1>1. "active" \in Phases /\ handle \in [Handles -> HandleType]
  BY DEF Phases, Starting, TypeOK
<1> QED
  BY <1>1, SetsAt DEF Register

\* The start is given up.
LEMMA StartFailsMoves ==
  ASSUME TypeOK, HandleShape, NEW h \in Handles, StartFails(h)
  PROVE  Becomes(h, Of(h), "gone", handle[h].tick, handle[h].read, handle[h].sig)
<1>1. "gone" \in Phases /\ handle \in [Handles -> HandleType]
  BY DEF Phases, Starting, TypeOK
<1> QED
  BY <1>1, SetsAt DEF StartFails

\* A tick pushes the rows it reads now, or goes on to the status.
LEMMA TickBeginsMoves ==
  ASSUME TypeOK, HandleShape, NEW h \in Handles, TickBegins(h)
  PROVE  \/ /\ Becomes(h, Of(h), handle[h].at, "writing", inbound[Of(h)], handle[h].sig)
            /\ inbound[Of(h)] \in Nat \ {0}
         \/ Becomes(h, Of(h), handle[h].at, "status", handle[h].read, handle[h].sig)
<1>1. {"writing", "status"} \subseteq Steps /\ handle \in [Handles -> HandleType]
  BY DEF Steps, Ticking, TypeOK
<1>2. inbound[Of(h)] \in Nat \ {0} /\ handle[h].read \in Nat
  BY DEF TypeOK, HandleType, HandleShape, TickBegins, Is
<1>3. handle[h].ticks \in 0..(CheckEvery - 1)
  BY <1>1 DEF HandleType
<1>4. (handle[h].ticks + 1) % CheckEvery \in 0..(CheckEvery - 1)
  BY <1>3
<1>5. PICK step \in {"writing", "status"} :
        handle' = [handle EXCEPT ![h].tick = step,
                                 ![h].read = IF step = "writing" THEN inbound[Of(h)] ELSE @,
                                 ![h].ticks = (@ + 1) % CheckEvery]
  BY DEF TickBegins
<1>6. CASE step = "writing"
  <2>1. handle' = [handle EXCEPT ![h].tick = "writing", ![h].read = inbound[Of(h)],
                                 ![h].ticks = (handle[h].ticks + 1) % CheckEvery]
    BY <1>5, <1>6
  <2> QED
    BY <1>1, <1>2, <1>4, <2>1, SetsTickRead
<1>7. CASE step = "status"
  <2>1. handle' = [handle EXCEPT ![h].tick = "status", ![h].read = handle[h].read,
                                 ![h].ticks = (handle[h].ticks + 1) % CheckEvery]
    BY <1>5, <1>7
  <2> QED
    BY <1>1, <1>2, <1>4, <2>1, SetsTickRead
<1> QED
  BY <1>6, <1>7

\* The first request of a tick's push.
LEMMA TickWritesMoves ==
  ASSUME TypeOK, HandleShape, NEW h \in Handles, TickWrites(h)
  PROVE  Becomes(h, Of(h), handle[h].at, "installing", handle[h].read, handle[h].sig)
<1>1. "installing" \in Steps /\ handle \in [Handles -> HandleType]
  BY DEF Steps, Ticking, TypeOK
<1> QED
  BY <1>1, SetsTick DEF TickWrites

\* The second one records the signature of what was read.
LEMMA TickInstallsMoves ==
  ASSUME TypeOK, HandleShape, NEW h \in Handles, TickInstalls(h)
  PROVE  Becomes(h, Of(h), handle[h].at, "status", handle[h].read, handle[h].read)
<1>1. "status" \in Steps /\ handle \in [Handles -> HandleType]
  BY DEF Steps, Ticking, TypeOK
<1> QED
  BY <1>1, SetsTickSig DEF TickInstalls

\* The cell's outbound.db is staged.
LEMMA TickStagesMoves ==
  ASSUME TypeOK, HandleShape, NEW h \in Handles, TickStages(h)
  PROVE  Becomes(h, Of(h), handle[h].at, "pulling", handle[h].read, handle[h].sig)
<1>1. "pulling" \in Steps /\ handle \in [Handles -> HandleType]
  BY DEF Steps, Ticking, TypeOK
<1> QED
  BY <1>1, SetsTick DEF TickStages

\* Nothing is staged.
LEMMA TickSkipsMoves ==
  ASSUME TypeOK, HandleShape, NEW h \in Handles, TickSkips(h)
  PROVE  Becomes(h, Of(h), handle[h].at, "filing", handle[h].read, handle[h].sig)
<1>1. "filing" \in Steps /\ handle \in [Handles -> HandleType]
  BY DEF Steps, Ticking, TypeOK
<1> QED
  BY <1>1, SetsTick DEF TickSkips

\* The staged copy is filed.
LEMMA TickPullsMoves ==
  ASSUME TypeOK, HandleShape, NEW h \in Handles, TickPulls(h)
  PROVE  Becomes(h, Of(h), handle[h].at, "filing", handle[h].read, handle[h].sig)
<1>1. "filing" \in Steps /\ handle \in [Handles -> HandleType]
  BY DEF Steps, Ticking, TypeOK
<1> QED
  BY <1>1, SetsTick DEF TickPulls

\* A tick ends, and with it, perhaps, the session.
LEMMA TickEndsMoves ==
  ASSUME TypeOK, HandleShape, NEW h \in Handles, TickEnds(h)
  PROVE  \/ Ends(h, "idle")
         \/ /\ Becomes(h, Of(h), handle[h].at, "idle", handle[h].read, handle[h].sig)
            /\ holder' = holder
<1>1. 0 \in 0..PumpFailures /\ handle \in [Handles -> HandleType]
  BY DEF TypeOK
<1> QED
  BY <1>1, SetsGone, SetsFails DEF TickEnds

\* So it does when a request failed.
LEMMA TickFailsMoves ==
  ASSUME TypeOK, HandleShape, NEW h \in Handles, TickFails(h)
  PROVE  \/ Ends(h, "idle")
         \/ /\ Becomes(h, Of(h), handle[h].at, "idle", handle[h].read, handle[h].sig)
            /\ holder' = holder
<1>1. handle[h].fails \in 0..PumpFailures /\ handle \in [Handles -> HandleType]
  BY DEF TypeOK, HandleType
<1>2. PICK n :
        n = IF handle[h].fails < PumpFailures THEN handle[h].fails + 1 ELSE PumpFailures
  OBVIOUS
<1>3. n \in 0..PumpFailures
  BY <1>1, <1>2
<1>4. \/ /\ handle' = Finalized([handle EXCEPT ![h].tick = "idle", ![h].fails = n], h)
         /\ holder' = Released(h)
      \/ /\ handle' = [handle EXCEPT ![h].tick = "idle", ![h].fails = n]
         /\ holder' = holder
  BY <1>2 DEF TickFails
<1> QED
  BY <1>1, <1>3, <1>4, SetsGone, SetsFails

\* A kill ends the session, unless something else has.
LEMMA KillEndsMoves ==
  ASSUME TypeOK, HandleShape, NEW h \in Handles, KillEnds(h)
  PROVE  Ends(h, handle[h].tick)
<1>1. "gone" \in Phases /\ handle \in [Handles -> HandleType]
  BY DEF Phases, TypeOK
<1>2. CASE Is(h, "active")
  <2>1. handle' = [handle EXCEPT ![h].at = "gone"]
    BY <1>2 DEF KillEnds, Finalized, Is
  <2> QED
    BY <1>1, <1>2, <2>1, SetsAt DEF KillEnds, Ends
<1>3. CASE ~Is(h, "active")
  <2>1. handle' = handle
    BY <1>3 DEF KillEnds, Finalized, Is
  <2> QED
    BY <1>1, <1>3, <2>1 DEF KillEnds, Ends, Becomes, Of
<1> QED
  BY <1>2, <1>3

\* The next host process remembers no session of the last one.
LEMMA HostRestartsMoves ==
  ASSUME TypeOK, HostRestarts
  PROVE  /\ handle' \in [Handles -> HandleType]
         /\ \A h \in Handles :
              \/ Is(h, "unused") /\ handle'[h] = handle[h]
              \/ /\ ~Is(h, "unused")
                 /\ handle'[h].of = Of(h) /\ handle'[h].at = "gone"
                 /\ handle'[h].tick = "idle"
<1>1. ASSUME NEW h \in Handles
      PROVE  /\ handle'[h] \in HandleType
             /\ \/ Is(h, "unused") /\ handle'[h] = handle[h]
                \/ /\ ~Is(h, "unused")
                   /\ handle'[h].of = Of(h) /\ handle'[h].at = "gone"
                   /\ handle'[h].tick = "idle"
  <2>1. handle[h] \in HandleType /\ Of(h) \in Sessions \cup {NoSession}
    BY DEF TypeOK, HandleType, Of
  <2>2. CASE Is(h, "unused")
    BY <2>1, <2>2 DEF HostRestarts
  <2>3. CASE ~Is(h, "unused")
    <3>1. handle'[h] = [Unused EXCEPT !.of = Of(h), !.at = "gone"]
      BY <2>3 DEF HostRestarts
    <3>2. handle'[h] = [of |-> Of(h), at |-> "gone", tick |-> "idle", read |-> 0,
                        sig |-> 0, ticks |-> 0, fails |-> 0]
      BY <3>1 DEF Unused
    <3>3. 0 \in 0..(CheckEvery - 1) /\ 0 \in 0..PumpFailures
      OBVIOUS
    <3> QED
      BY ONLY <2>1, <2>3, <3>2, <3>3 DEF HandleType
  <2> QED
    BY <2>2, <2>3
<1> QED
  BY <1>1 DEF HostRestarts

-----------------------------------------------------------------------------
(* Every step preserves each part of the invariant *)

\* The shape holds when it holds of the handle that moved.
LEMMA ShapeKept ==
  ASSUME HandleShape, NEW h \in Handles, NEW o, NEW a, NEW k, NEW r, NEW g,
         Becomes(h, o, a, k, r, g),
         a = "unused" \/ a \in Starting => k = "idle",
         a # "unused" => o \in Sessions,
         a \in {"writing", "installing"} => r > 0,
         k \in {"writing", "installing"} => r > 0 /\ a # "unused"
  PROVE  HandleShape'
BY DEF HandleShape, Becomes, Is, IsStarting, At, Of

\* The cell stays with its session when that session goes on.
LEMMA ReclaimedKept ==
  ASSUME Reclaimed, NEW h \in Handles, NEW o, NEW a, NEW k, NEW r, NEW g,
         Becomes(h, o, a, k, r, g), holder' = holder,
         ~Is(h, "active") \/ (a = "active" /\ o = Of(h))
  PROVE  Reclaimed'
BY DEF Reclaimed, Running, Becomes, Is, Of

\* It is given up with the session that had it.
LEMMA ReclaimedEnds ==
  ASSUME Reclaimed, NEW h \in Handles, NEW k, Ends(h, k)
  PROVE  Reclaimed'
<1>1. CASE Is(h, "active") /\ holder = Of(h)
  BY <1>1 DEF Ends, Released, Reclaimed
<1>2. CASE Is(h, "active") /\ holder # Of(h)
  BY <1>2 DEF Ends, Released, Becomes, Reclaimed, Running, Is, Of
<1>3. CASE ~Is(h, "active")
  BY <1>3, ReclaimedKept DEF Ends, Released, Reclaimed
<1> QED
  BY <1>1, <1>2, <1>3

\* No handle comes alive, and the cell changes hands only with the one alive.
LEMMA SolitaryKept ==
  ASSUME Solitary, NEW h \in Handles, NEW a, NEW k, NEW r, NEW g,
         Becomes(h, Of(h), a, k, r, g), overlapped' = overlapped,
         a \in Starting \cup {"active"} => Live(h),
         a = "active" => holder' = Of(h) \/ (Is(h, "active") /\ holder' = holder),
         holder' = holder \/ Live(h)
  PROVE  Solitary'
BY DEF Solitary, Becomes, Live, IsStarting, Is, Of

\* A session that ends leaves nothing alive behind.
LEMMA SolitaryEnds ==
  ASSUME Solitary, NEW h \in Handles, NEW k, Ends(h, k), overlapped' = overlapped
  PROVE  Solitary'
<1>1. CASE Is(h, "active")
  BY <1>1, SolitaryKept DEF Ends, Live, Starting
<1>2. CASE ~Is(h, "active")
  BY <1>2, SolitaryKept DEF Ends, Released, Live, Is, IsStarting
<1> QED
  BY <1>1, <1>2

\* Nothing of a push happens, and the handle is no further in one.
LEMMA PushesKept ==
  ASSUME PushesInOrder, NEW h \in Handles, NEW o, NEW a, NEW k, NEW r, NEW g,
         Becomes(h, o, a, k, r, g), UNCHANGED <<crossed, pushed, cellIn>>,
         a = "installing" => Is(h, "installing") /\ r = handle[h].read /\ o = Of(h),
         a = "active" /\ k = "installing" =>
           Is(h, "active") /\ At(h, "installing") /\ r = handle[h].read /\ o = Of(h),
         a \in {"probing", "stopping", "starting", "registering", "active"} =>
           /\ handle[h].at \in {"probing", "stopping", "starting", "registering", "active"}
           /\ g = handle[h].sig /\ o = Of(h)
  PROVE  PushesInOrder'
BY DEF PushesInOrder, Becomes, Is, At, Of

\* Types.
LEMMA CellsTypeStep ==
  ASSUME TypeOK, HandleShape, [Next]_vars
  PROVE  TypeOK'
<1>1. ASSUME NEW h \in Handles, NEW s \in Sessions, Wake(h, s) PROVE TypeOK'
  BY <1>1, WakeMoves DEF Wake, Becomes, Ends, Copy, Answers, local, cell, TypeOK
<1>2. ASSUME NEW h \in Handles, Prepare(h) PROVE TypeOK'
  BY <1>2, PrepareMoves
  DEF Prepare, Becomes, Ends, Copy, Answers, local, cell, history, TypeOK
<1>3. ASSUME NEW h \in Handles, StartWrites(h) PROVE TypeOK'
  <2>1. handle' \in [Handles -> HandleType]
    BY <1>3, StartWritesMoves DEF Becomes, Ends
  <2>2. UNCHANGED <<holder, killing, inbound, outbound, cellIn, cellOut, staged,
                    service, overlapped, faults>>
    BY <1>3 DEF StartWrites, WriteSideFile, memory, local, cell, history
  <2>3. pushed' \in Copy \cup {NoCopy} /\ crossed' \in BOOLEAN
    <3>1. Of(h) \in Sessions /\ handle[h].read \in Nat \ {0}
      BY <1>3 DEF TypeOK, HandleType, HandleShape, StartWrites, Is, At
    <3> QED
      BY <1>3, <3>1 DEF StartWrites, WriteSideFile, Copy, Crosses, TypeOK
  <2> QED
    BY ONLY <2>1, <2>2, <2>3, TypeOK, CellsAssumption
    DEF CellsAssumption, TypeOK, Handles
<1>4. ASSUME NEW h \in Handles, StartInstalls(h) PROVE TypeOK'
  BY <1>4, StartInstallsMoves
  DEF StartInstalls, InstallSideFile, Becomes, Ends, Copy, Answers, local, TypeOK
<1>5. ASSUME NEW h \in Handles, Probe(h) PROVE TypeOK'
  BY <1>5, ProbeMoves
  DEF Probe, Becomes, Ends, Copy, Answers, local, cell, history, TypeOK
<1>6. ASSUME NEW h \in Handles, StopStale(h) PROVE TypeOK'
  <2>1. handle' \in [Handles -> HandleType]
    BY <1>6, StopStaleMoves DEF Becomes, Ends
  <2>2. /\ service' = 0
       /\ UNCHANGED <<holder, killing, inbound, outbound, pushed, cellIn, cellOut,
                      staged, overlapped, crossed, faults>>
    BY <1>6 DEF StopStale, memory, local, cell, history
  <2> QED
    BY ONLY <2>1, <2>2, TypeOK, CellsAssumption DEF CellsAssumption, TypeOK, Handles
<1>7. ASSUME NEW h \in Handles, StartService(h) PROVE TypeOK'
  <2>1. handle' \in [Handles -> HandleType]
    BY <1>7, StartServiceMoves DEF Becomes, Ends
  <2>2. /\ service' = h
       /\ UNCHANGED <<holder, killing, inbound, outbound, pushed, cellIn, cellOut,
                      staged, overlapped, crossed, faults>>
    BY <1>7 DEF StartService, memory, local, cell, history
  <2> QED
    BY ONLY <2>1, <2>2, TypeOK, CellsAssumption DEF CellsAssumption, TypeOK, Handles
<1>8. ASSUME NEW h \in Handles, Register(h) PROVE TypeOK'
  <2>1. handle' \in [Handles -> HandleType]
    BY <1>8, RegisterMoves DEF Becomes, Ends
  <2>2. /\ holder' = Of(h)
       /\ UNCHANGED <<killing, inbound, outbound, pushed, cellIn, cellOut, staged,
                      service, overlapped, crossed, faults>>
    BY <1>8 DEF Register, memory, local, cell, history
  <2>3. holder' \in Sessions \cup {NoSession}
    BY <2>2 DEF TypeOK, HandleType, Of
  <2> QED
    BY ONLY <2>1, <2>2, <2>3, TypeOK, CellsAssumption
    DEF CellsAssumption, TypeOK, Handles
<1>9. ASSUME NEW h \in Handles, StartFails(h) PROVE TypeOK'
  <2>1. handle' \in [Handles -> HandleType]
    BY <1>9, StartFailsMoves DEF Becomes, Ends
  <2>2. /\ faults' \in Nat
       /\ UNCHANGED <<holder, killing, inbound, outbound, pushed, cellIn, cellOut,
                      staged, service, overlapped, crossed>>
    BY <1>9 DEF StartFails, MayFail, TypeOK, memory, local, cell, history
  <2> QED
    BY ONLY <2>1, <2>2, TypeOK, CellsAssumption DEF CellsAssumption, TypeOK, Handles
<1>10. ASSUME NEW h \in Handles, TickBegins(h) PROVE TypeOK'
  BY <1>10, TickBeginsMoves
  DEF TickBegins, Becomes, Ends, Copy, Answers, local, cell, history, TypeOK
<1>11. ASSUME NEW h \in Handles, TickWrites(h) PROVE TypeOK'
  <2>1. handle' \in [Handles -> HandleType]
    BY <1>11, TickWritesMoves DEF Becomes, Ends
  <2>2. UNCHANGED <<holder, killing, inbound, outbound, cellIn, cellOut, staged,
                    service, overlapped, faults>>
    BY <1>11 DEF TickWrites, WriteSideFile, memory, local, cell, history
  <2>3. pushed' \in Copy \cup {NoCopy} /\ crossed' \in BOOLEAN
    <3>1. Of(h) \in Sessions /\ handle[h].read \in Nat \ {0}
      BY <1>11 DEF TypeOK, HandleType, HandleShape, TickWrites, Is, At
    <3> QED
      BY <1>11, <3>1 DEF TickWrites, WriteSideFile, Copy, Crosses, TypeOK
  <2> QED
    BY ONLY <2>1, <2>2, <2>3, TypeOK, CellsAssumption
    DEF CellsAssumption, TypeOK, Handles
<1>12. ASSUME NEW h \in Handles, TickInstalls(h) PROVE TypeOK'
  BY <1>12, TickInstallsMoves
  DEF TickInstalls, InstallSideFile, Becomes, Ends, Copy, Answers, local, TypeOK
<1>13. ASSUME NEW h \in Handles, TickStages(h) PROVE TypeOK'
  BY <1>13, TickStagesMoves
  DEF TickStages, Becomes, Ends, Copy, Answers, local, cell, history, TypeOK
<1>14. ASSUME NEW h \in Handles, TickSkips(h) PROVE TypeOK'
  BY <1>14, TickSkipsMoves
  DEF TickSkips, Becomes, Ends, Copy, Answers, local, cell, history, TypeOK
<1>15. ASSUME NEW h \in Handles, TickPulls(h) PROVE TypeOK'
  BY <1>15, TickPullsMoves
  DEF TickPulls, Becomes, Ends, Copy, Answers, cell, history, TypeOK
<1>16. ASSUME NEW h \in Handles, TickEnds(h) PROVE TypeOK'
  <2>1. handle' \in [Handles -> HandleType]
    BY <1>16, TickEndsMoves DEF Becomes, Ends
  <2>2. UNCHANGED <<killing, inbound, outbound, pushed, cellIn, cellOut, staged,
                    service, overlapped, crossed, faults>>
    BY <1>16 DEF TickEnds, memory, local, cell, history
  <2>3. holder' \in Sessions \cup {NoSession}
    BY <1>16, TickEndsMoves DEF Ends, Released, TypeOK
  <2> QED
    BY ONLY <2>1, <2>2, <2>3, TypeOK, CellsAssumption
    DEF CellsAssumption, TypeOK, Handles
<1>17. ASSUME NEW h \in Handles, TickFails(h) PROVE TypeOK'
  <2>1. handle' \in [Handles -> HandleType]
    BY <1>17, TickFailsMoves DEF Becomes, Ends
  <2>2. /\ faults' \in Nat
       /\ UNCHANGED <<killing, inbound, outbound, pushed, cellIn, cellOut, staged,
                      service, overlapped, crossed>>
    BY <1>17 DEF TickFails, MayFail, TypeOK, memory, local, cell, history
  <2>3. holder' \in Sessions \cup {NoSession}
    BY <1>17, TickFailsMoves DEF Ends, Released, TypeOK
  <2> QED
    BY ONLY <2>1, <2>2, <2>3, TypeOK, CellsAssumption
    DEF CellsAssumption, TypeOK, Handles
<1>18. ASSUME NEW h \in Handles, Kill(h) PROVE TypeOK'
  BY <1>18 DEF Kill, Becomes, Ends, Copy, Answers, local, cell, history, TypeOK
<1>19. ASSUME NEW h \in Handles, KillEnds(h) PROVE TypeOK'
  <2>1. handle' \in [Handles -> HandleType]
    BY <1>19, KillEndsMoves DEF Becomes, Ends
  <2>2. /\ faults' \in Nat /\ service' \in {0, service} /\ killing' \subseteq killing
        /\ UNCHANGED <<inbound, outbound, pushed, cellIn, cellOut, staged, overlapped,
                       crossed>>
    BY <1>19 DEF KillEnds, MayFail, TypeOK, memory, local, cell, history
  <2>3. holder' \in Sessions \cup {NoSession}
    BY <1>19, KillEndsMoves DEF Ends, Released, TypeOK
  <2> QED
    BY ONLY <2>1, <2>2, <2>3, TypeOK, CellsAssumption
    DEF CellsAssumption, TypeOK, Handles
<1>20. ASSUME NEW s \in Sessions, HostWrites(s) PROVE TypeOK'
  BY <1>20 DEF HostWrites, Becomes, Ends, Copy, Answers, memory, cell, history, TypeOK
<1>21. CASE Answer
  BY <1>21
  DEF Answer, Becomes, Ends, Copy, Answers, memory, local, cell, history, TypeOK
<1>22. CASE ServiceDies
  BY <1>22
  DEF ServiceDies, MayFail, Becomes, Ends, Copy, Answers, memory, local, cell,
      TypeOK
<1>23. CASE HostRestarts
  <2>1. handle' \in [Handles -> HandleType]
    BY <1>23, HostRestartsMoves
  <2>2. /\ service' \in {0, service} /\ killing' = {} /\ holder' = NoSession
        /\ UNCHANGED <<inbound, outbound, pushed, cellIn, cellOut, staged, overlapped,
                       crossed>>
    BY <1>23 DEF HostRestarts, local
  <2>3. faults' \in Nat
    <3>1. faults' = faults + 1 /\ faults \in Nat
      BY ONLY <1>23, TypeOK DEF HostRestarts, MayFail, TypeOK
    <3> QED
      BY ONLY <3>1
  <2> QED
    BY ONLY <2>1, <2>2, <2>3, TypeOK, CellsAssumption DEF CellsAssumption, TypeOK
<1>24. CASE UNCHANGED vars
  BY <1>24 DEF vars, memory, local, cell, history, TypeOK
<1> QED
  BY <1>1, <1>2, <1>3, <1>4, <1>5, <1>6, <1>7, <1>8, <1>9, <1>10, <1>11, <1>12,
     <1>13, <1>14, <1>15, <1>16, <1>17, <1>18, <1>19, <1>20, <1>21, <1>22, <1>23,
     <1>24
  DEF Next, Tick

\* The shape of the handles.
LEMMA CellsShapeStep ==
  ASSUME TypeOK, HandleShape, [Next]_vars
  PROVE  HandleShape'
<1>1. ASSUME NEW h \in Handles, NEW s \in Sessions, Wake(h, s) PROVE HandleShape'
  <2>1. At(h, "idle")
    BY <1>1 DEF HandleShape, Wake
  <2> QED
    BY <1>1, <2>1, WakeMoves, ShapeKept DEF At
<1>2. ASSUME NEW h \in Handles, Prepare(h) PROVE HandleShape'
  <2>1. Of(h) \in Sessions /\ At(h, "idle")
    BY <1>2 DEF HandleShape, Prepare, Is, IsStarting, Starting
  <2> QED
    BY <1>2, <2>1, PrepareMoves, ShapeKept DEF At
<1>3. ASSUME NEW h \in Handles, StartWrites(h) PROVE HandleShape'
  BY <1>3, StartWritesMoves, ShapeKept
  DEF StartWrites, WriteSideFile, local, HandleShape, IsStarting, Is, At, Of,
      Starting, Ticking
<1>4. ASSUME NEW h \in Handles, StartInstalls(h) PROVE HandleShape'
  BY <1>4, StartInstallsMoves, ShapeKept
  DEF StartInstalls, InstallSideFile, local, HandleShape, IsStarting, Is, At, Of,
      Starting, Ticking
<1>5. ASSUME NEW h \in Handles, Probe(h) PROVE HandleShape'
  BY <1>5, ProbeMoves, ShapeKept
  DEF Probe, local, cell, history, HandleShape, IsStarting, Is, At, Of, Starting,
      Ticking
<1>6. ASSUME NEW h \in Handles, StopStale(h) PROVE HandleShape'
  BY <1>6, StopStaleMoves, ShapeKept
  DEF StopStale, local, cell, history, HandleShape, IsStarting, Is, At, Of,
      Starting, Ticking
<1>7. ASSUME NEW h \in Handles, StartService(h) PROVE HandleShape'
  BY <1>7, StartServiceMoves, ShapeKept
  DEF StartService, local, cell, history, HandleShape, IsStarting, Is, At, Of,
      Starting, Ticking
<1>8. ASSUME NEW h \in Handles, Register(h) PROVE HandleShape'
  BY <1>8, RegisterMoves, ShapeKept
  DEF Register, local, cell, history, HandleShape, IsStarting, Is, At, Of,
      Starting, Ticking
<1>9. ASSUME NEW h \in Handles, StartFails(h) PROVE HandleShape'
  BY <1>9, StartFailsMoves, ShapeKept
  DEF StartFails, MayFail, local, cell, HandleShape, IsStarting, Is, At, Of,
      Starting, Ticking
<1>10. ASSUME NEW h \in Handles, TickBegins(h) PROVE HandleShape'
  <2>1. Of(h) \in Sessions /\ Is(h, "active")
    BY <1>10 DEF HandleShape, TickBegins, Is
  <2> QED
    BY <1>10, <2>1, TickBeginsMoves, ShapeKept DEF Is, Starting
<1>11. ASSUME NEW h \in Handles, TickWrites(h) PROVE HandleShape'
  BY <1>11, TickWritesMoves, ShapeKept
  DEF TickWrites, WriteSideFile, local, HandleShape, IsStarting, Is, At, Of,
      Starting, Ticking
<1>12. ASSUME NEW h \in Handles, TickInstalls(h) PROVE HandleShape'
  <2>1. ~Is(h, "unused") /\ ~IsStarting(h) /\ Of(h) \in Sessions
    BY <1>12 DEF HandleShape, TickInstalls, Is, At
  <2> QED
    BY <1>12, <2>1, TickInstallsMoves, ShapeKept DEF Is, IsStarting, Starting
<1>13. ASSUME NEW h \in Handles, TickStages(h) PROVE HandleShape'
  BY <1>13, TickStagesMoves, ShapeKept
  DEF TickStages, local, cell, history, HandleShape, IsStarting, Is, At, Of,
      Starting, Ticking
<1>14. ASSUME NEW h \in Handles, TickSkips(h) PROVE HandleShape'
  BY <1>14, TickSkipsMoves, ShapeKept
  DEF TickSkips, local, cell, history, HandleShape, IsStarting, Is, At, Of,
      Starting, Ticking
<1>15. ASSUME NEW h \in Handles, TickPulls(h) PROVE HandleShape'
  BY <1>15, TickPullsMoves, ShapeKept
  DEF TickPulls, cell, history, HandleShape, IsStarting, Is, At, Of, Starting,
      Ticking
<1>16. ASSUME NEW h \in Handles, TickEnds(h) PROVE HandleShape'
  <2>1. PICK x : Becomes(h, Of(h), x, "idle", handle[h].read, handle[h].sig)
                  /\ x \in {handle[h].at, "gone"}
    BY <1>16, TickEndsMoves DEF Ends
  <2>2. ~Is(h, "unused") /\ ~IsStarting(h) /\ Of(h) \in Sessions
    BY <1>16 DEF HandleShape, TickEnds, Is, At
  <2> QED
    BY <2>1, <2>2, ShapeKept DEF HandleShape, Is, IsStarting, Starting
<1>17. ASSUME NEW h \in Handles, TickFails(h) PROVE HandleShape'
  <2>1. PICK x : Becomes(h, Of(h), x, "idle", handle[h].read, handle[h].sig)
                  /\ x \in {handle[h].at, "gone"}
    BY <1>17, TickFailsMoves DEF Ends
  <2>2. ~Is(h, "unused") /\ ~IsStarting(h) /\ Of(h) \in Sessions
    BY <1>17 DEF HandleShape, TickFails, Is, At
  <2> QED
    BY <2>1, <2>2, ShapeKept DEF HandleShape, Is, IsStarting, Starting
<1>18. ASSUME NEW h \in Handles, Kill(h) PROVE HandleShape'
  BY <1>18 DEF Kill, local, cell, history, HandleShape, Is, IsStarting, At, Of
<1>19. ASSUME NEW h \in Handles, KillEnds(h) PROVE HandleShape'
  BY <1>19, KillEndsMoves, ShapeKept
  DEF KillEnds, Finalized, Released, MayFail, Ends, local, cell, HandleShape,
      IsStarting, Is, At, Of, Starting, Ticking
<1>20. ASSUME NEW s \in Sessions, HostWrites(s) PROVE HandleShape'
  BY <1>20 DEF HostWrites, memory, cell, history, HandleShape, Is, IsStarting, At, Of
<1>21. CASE Answer
  BY <1>21
  DEF Answer, memory, local, cell, history, HandleShape, Is, IsStarting, At, Of
<1>22. CASE ServiceDies
  BY <1>22
  DEF ServiceDies, MayFail, memory, local, cell, HandleShape, Is, IsStarting, At,
      Of
<1>23. CASE HostRestarts
  BY <1>23, HostRestartsMoves DEF HandleShape, IsStarting, Is, At, Of, Starting
<1>24. CASE UNCHANGED vars
  BY <1>24 DEF vars, memory, local, cell, history, HandleShape, Is, IsStarting, At, Of
<1> QED
  BY <1>1, <1>2, <1>3, <1>4, <1>5, <1>6, <1>7, <1>8, <1>9, <1>10, <1>11, <1>12,
     <1>13, <1>14, <1>15, <1>16, <1>17, <1>18, <1>19, <1>20, <1>21, <1>22, <1>23,
     <1>24
  DEF Next, Tick

\* The cell goes with the session.
LEMMA ReclaimedStep ==
  ASSUME TypeOK, HandleShape, Reclaimed, [Next]_vars
  PROVE  Reclaimed'
<1>1. ASSUME NEW h \in Handles, NEW s \in Sessions, Wake(h, s) PROVE Reclaimed'
  BY <1>1, WakeMoves, ReclaimedKept, ReclaimedEnds
  DEF Wake, local, cell, Is, IsStarting, Starting
<1>2. ASSUME NEW h \in Handles, Prepare(h) PROVE Reclaimed'
  BY <1>2, PrepareMoves, ReclaimedKept, ReclaimedEnds
  DEF Prepare, local, cell, history, Is, IsStarting, Starting
<1>3. ASSUME NEW h \in Handles, StartWrites(h) PROVE Reclaimed'
  BY <1>3, StartWritesMoves, ReclaimedKept, ReclaimedEnds
  DEF StartWrites, WriteSideFile, local, Is, IsStarting, Starting
<1>4. ASSUME NEW h \in Handles, StartInstalls(h) PROVE Reclaimed'
  BY <1>4, StartInstallsMoves, ReclaimedKept, ReclaimedEnds
  DEF StartInstalls, InstallSideFile, local, Is, IsStarting, Starting
<1>5. ASSUME NEW h \in Handles, Probe(h) PROVE Reclaimed'
  BY <1>5, ProbeMoves, ReclaimedKept, ReclaimedEnds
  DEF Probe, local, cell, history, Is, IsStarting, Starting
<1>6. ASSUME NEW h \in Handles, StopStale(h) PROVE Reclaimed'
  BY <1>6, StopStaleMoves, ReclaimedKept, ReclaimedEnds
  DEF StopStale, local, cell, history, Is, IsStarting, Starting
<1>7. ASSUME NEW h \in Handles, StartService(h) PROVE Reclaimed'
  BY <1>7, StartServiceMoves, ReclaimedKept, ReclaimedEnds
  DEF StartService, local, cell, history, Is, IsStarting, Starting
<1>8. ASSUME NEW h \in Handles, Register(h) PROVE Reclaimed'
  <2>1. handle'[h].at = "active" /\ handle'[h].of = Of(h) /\ holder' = Of(h)
    BY <1>8, RegisterMoves DEF Register, Becomes
  <2> QED
    BY <2>1 DEF Reclaimed, Running, Is, Of
<1>9. ASSUME NEW h \in Handles, StartFails(h) PROVE Reclaimed'
  BY <1>9, StartFailsMoves, ReclaimedKept, ReclaimedEnds
  DEF StartFails, MayFail, local, cell, Is, IsStarting, Starting
<1>10. ASSUME NEW h \in Handles, TickBegins(h) PROVE Reclaimed'
  BY <1>10, TickBeginsMoves, ReclaimedKept, ReclaimedEnds
  DEF TickBegins, local, cell, history, Is, IsStarting, Starting
<1>11. ASSUME NEW h \in Handles, TickWrites(h) PROVE Reclaimed'
  BY <1>11, TickWritesMoves, ReclaimedKept, ReclaimedEnds
  DEF TickWrites, WriteSideFile, local, Is, IsStarting, Starting
<1>12. ASSUME NEW h \in Handles, TickInstalls(h) PROVE Reclaimed'
  BY <1>12, TickInstallsMoves, ReclaimedKept, ReclaimedEnds
  DEF TickInstalls, InstallSideFile, local, Is, IsStarting, Starting
<1>13. ASSUME NEW h \in Handles, TickStages(h) PROVE Reclaimed'
  BY <1>13, TickStagesMoves, ReclaimedKept, ReclaimedEnds
  DEF TickStages, local, cell, history, Is, IsStarting, Starting
<1>14. ASSUME NEW h \in Handles, TickSkips(h) PROVE Reclaimed'
  BY <1>14, TickSkipsMoves, ReclaimedKept, ReclaimedEnds
  DEF TickSkips, local, cell, history, Is, IsStarting, Starting
<1>15. ASSUME NEW h \in Handles, TickPulls(h) PROVE Reclaimed'
  BY <1>15, TickPullsMoves, ReclaimedKept, ReclaimedEnds
  DEF TickPulls, cell, history, Is, IsStarting, Starting
<1>16. ASSUME NEW h \in Handles, TickEnds(h) PROVE Reclaimed'
  BY <1>16, TickEndsMoves, ReclaimedKept, ReclaimedEnds
  DEF TickEnds, Finalized, Released, local, cell, history, Is, IsStarting,
      Starting
<1>17. ASSUME NEW h \in Handles, TickFails(h) PROVE Reclaimed'
  BY <1>17, TickFailsMoves, ReclaimedKept, ReclaimedEnds
  DEF TickFails, Finalized, Released, MayFail, local, cell, Is, IsStarting,
      Starting
<1>18. ASSUME NEW h \in Handles, Kill(h) PROVE Reclaimed'
  BY <1>18 DEF Kill, local, cell, history, Reclaimed, Running, Is, Of
<1>19. ASSUME NEW h \in Handles, KillEnds(h) PROVE Reclaimed'
  BY <1>19, KillEndsMoves, ReclaimedKept, ReclaimedEnds
  DEF KillEnds, Finalized, Released, MayFail, local, cell, Is, IsStarting,
      Starting
<1>20. ASSUME NEW s \in Sessions, HostWrites(s) PROVE Reclaimed'
  BY <1>20 DEF HostWrites, memory, cell, history, Reclaimed, Running, Is, Of
<1>21. CASE Answer
  BY <1>21 DEF Answer, memory, local, cell, history, Reclaimed, Running, Is, Of
<1>22. CASE ServiceDies
  BY <1>22 DEF ServiceDies, MayFail, memory, local, cell, Reclaimed, Running, Is, Of
<1>23. CASE HostRestarts
  BY <1>23 DEF HostRestarts, Reclaimed
<1>24. CASE UNCHANGED vars
  BY <1>24 DEF vars, memory, local, cell, history, Reclaimed, Running, Is, Of
<1> QED
  BY <1>1, <1>2, <1>3, <1>4, <1>5, <1>6, <1>7, <1>8, <1>9, <1>10, <1>11, <1>12,
     <1>13, <1>14, <1>15, <1>16, <1>17, <1>18, <1>19, <1>20, <1>21, <1>22, <1>23,
     <1>24
  DEF Next, Tick

\* A second handle comes alive only beside a start.
LEMMA SolitaryStep ==
  ASSUME TypeOK, HandleShape, Reclaimed, Solitary, [Next]_vars
  PROVE  Solitary'
<1>1. ASSUME NEW h \in Handles, NEW s \in Sessions, Wake(h, s) PROVE Solitary'
  <2> SUFFICES ASSUME ~overlapped' PROVE Solitary'
    BY DEF Solitary
  <2>1. ~overlapped /\ \A g \in Handles : ~IsStarting(g)
    BY <1>1 DEF Wake
  <2>2. \A g \in Handles : ~Is(g, "active")
    <3> SUFFICES ASSUME NEW g \in Handles, Is(g, "active") PROVE FALSE
      OBVIOUS
    <3>1. holder = Of(g) /\ Of(g) \in Sessions /\ Running(Of(g))
      BY <2>1 DEF Solitary, HandleShape, Running, Is
    <3>2. holder \in {NoSession, s} /\ ~Running(s)
      BY <1>1 DEF Wake
    <3> QED
      BY <3>1, <3>2
  <2>3. Becomes(h, s, "preparing", handle[h].tick, handle[h].read, handle[h].sig)
    BY <1>1, WakeMoves
  <2> QED
    BY <2>1, <2>2, <2>3 DEF Solitary, Becomes, Live, IsStarting, Is
<1>2. ASSUME NEW h \in Handles, Prepare(h) PROVE Solitary'
  BY <1>2, PrepareMoves, SolitaryKept, SolitaryEnds
  DEF Prepare, local, cell, history, Live, IsStarting, Is, Starting
<1>3. ASSUME NEW h \in Handles, StartWrites(h) PROVE Solitary'
  BY <1>3, StartWritesMoves, SolitaryKept, SolitaryEnds
  DEF StartWrites, WriteSideFile, local, Live, IsStarting, Is, Starting
<1>4. ASSUME NEW h \in Handles, StartInstalls(h) PROVE Solitary'
  BY <1>4, StartInstallsMoves, SolitaryKept, SolitaryEnds
  DEF StartInstalls, InstallSideFile, local, Live, IsStarting, Is, Starting
<1>5. ASSUME NEW h \in Handles, Probe(h) PROVE Solitary'
  BY <1>5, ProbeMoves, SolitaryKept, SolitaryEnds
  DEF Probe, local, cell, history, Live, IsStarting, Is, Starting
<1>6. ASSUME NEW h \in Handles, StopStale(h) PROVE Solitary'
  BY <1>6, StopStaleMoves, SolitaryKept, SolitaryEnds
  DEF StopStale, local, cell, history, Live, IsStarting, Is, Starting
<1>7. ASSUME NEW h \in Handles, StartService(h) PROVE Solitary'
  BY <1>7, StartServiceMoves, SolitaryKept, SolitaryEnds
  DEF StartService, local, cell, history, Live, IsStarting, Is, Starting
<1>8. ASSUME NEW h \in Handles, Register(h) PROVE Solitary'
  BY <1>8, RegisterMoves, SolitaryKept, SolitaryEnds
  DEF Register, local, cell, history, Live, IsStarting, Is, Starting
<1>9. ASSUME NEW h \in Handles, StartFails(h) PROVE Solitary'
  BY <1>9, StartFailsMoves, SolitaryKept, SolitaryEnds
  DEF StartFails, MayFail, local, cell, Live, IsStarting, Is, Starting
<1>10. ASSUME NEW h \in Handles, TickBegins(h) PROVE Solitary'
  BY <1>10, TickBeginsMoves, SolitaryKept, SolitaryEnds
  DEF TickBegins, local, cell, history, Live, IsStarting, Is, Starting
<1>11. ASSUME NEW h \in Handles, TickWrites(h) PROVE Solitary'
  BY <1>11, TickWritesMoves, SolitaryKept, SolitaryEnds
  DEF TickWrites, WriteSideFile, local, Live, IsStarting, Is, Starting
<1>12. ASSUME NEW h \in Handles, TickInstalls(h) PROVE Solitary'
  BY <1>12, TickInstallsMoves, SolitaryKept, SolitaryEnds
  DEF TickInstalls, InstallSideFile, local, Live, IsStarting, Is, Starting
<1>13. ASSUME NEW h \in Handles, TickStages(h) PROVE Solitary'
  BY <1>13, TickStagesMoves, SolitaryKept, SolitaryEnds
  DEF TickStages, local, cell, history, Live, IsStarting, Is, Starting
<1>14. ASSUME NEW h \in Handles, TickSkips(h) PROVE Solitary'
  BY <1>14, TickSkipsMoves, SolitaryKept, SolitaryEnds
  DEF TickSkips, local, cell, history, Live, IsStarting, Is, Starting
<1>15. ASSUME NEW h \in Handles, TickPulls(h) PROVE Solitary'
  BY <1>15, TickPullsMoves, SolitaryKept, SolitaryEnds
  DEF TickPulls, cell, history, Live, IsStarting, Is, Starting
<1>16. ASSUME NEW h \in Handles, TickEnds(h) PROVE Solitary'
  BY <1>16, TickEndsMoves, SolitaryKept, SolitaryEnds
  DEF TickEnds, Finalized, Released, local, cell, history, Live, IsStarting, Is,
      Starting
<1>17. ASSUME NEW h \in Handles, TickFails(h) PROVE Solitary'
  BY <1>17, TickFailsMoves, SolitaryKept, SolitaryEnds
  DEF TickFails, Finalized, Released, MayFail, local, cell, Live, IsStarting, Is,
      Starting
<1>18. ASSUME NEW h \in Handles, Kill(h) PROVE Solitary'
  BY <1>18 DEF Kill, local, cell, history, Solitary, Live, IsStarting, Is, Of
<1>19. ASSUME NEW h \in Handles, KillEnds(h) PROVE Solitary'
  BY <1>19, KillEndsMoves, SolitaryKept, SolitaryEnds
  DEF KillEnds, Finalized, Released, MayFail, local, cell, Live, IsStarting, Is,
      Starting
<1>20. ASSUME NEW s \in Sessions, HostWrites(s) PROVE Solitary'
  BY <1>20 DEF HostWrites, memory, cell, history, Solitary, Live, IsStarting, Is, Of
<1>21. CASE Answer
  BY <1>21
  DEF Answer, memory, local, cell, history, Solitary, Live, IsStarting, Is, Of
<1>22. CASE ServiceDies
  BY <1>22
  DEF ServiceDies, MayFail, memory, local, cell, Solitary, Live, IsStarting, Is,
      Of
<1>23. CASE HostRestarts
  <2>1. \A h \in Handles : ~Live(h)'
    BY <1>23, HostRestartsMoves DEF Live, IsStarting, Is, Starting
  <2> QED
    BY <2>1 DEF Solitary, Live
<1>24. CASE UNCHANGED vars
  BY <1>24 DEF vars, memory, local, cell, history, Solitary, Live, IsStarting, Is, Of
<1> QED
  BY <1>1, <1>2, <1>3, <1>4, <1>5, <1>6, <1>7, <1>8, <1>9, <1>10, <1>11, <1>12,
     <1>13, <1>14, <1>15, <1>16, <1>17, <1>18, <1>19, <1>20, <1>21, <1>22, <1>23,
     <1>24
  DEF Next, Tick

\* The side file and the cell's inbound.db are the pushing handle's own.
LEMMA PushesStep ==
  ASSUME TypeOK, HandleShape, PushesInOrder, [Next]_vars
  PROVE  PushesInOrder'
<1>1. ASSUME NEW h \in Handles, NEW s \in Sessions, Wake(h, s) PROVE PushesInOrder'
  BY <1>1, WakeMoves, PushesKept
  DEF Wake, Ends, local, cell, Crosses, Pushing, IsStarting, Is, At, Of, Starting
<1>2. ASSUME NEW h \in Handles, Prepare(h) PROVE PushesInOrder'
  BY <1>2, PrepareMoves, PushesKept
  DEF Prepare, Ends, local, cell, history, Crosses, Pushing, IsStarting, Is, At,
      Of, Starting
<1>3. ASSUME NEW h \in Handles, StartWrites(h) PROVE PushesInOrder'
  <2> SUFFICES ASSUME ~crossed' PROVE PushesInOrder'
    BY DEF PushesInOrder
  <2>1. /\ ~crossed /\ ~Crosses(h)
        /\ pushed' = [of |-> Of(h), rows |-> handle[h].read] /\ cellIn' = cellIn
    BY <1>3 DEF StartWrites, WriteSideFile
  <2>2. \A g \in Handles \ {h} : handle'[g] = handle[g] /\ ~Pushing(g)
    BY <1>3, <2>1, StartWritesMoves DEF Becomes, Crosses
  <2>3. /\ handle'[h].of = Of(h) /\ handle'[h].read = handle[h].read
        /\ handle'[h].at = "installing"
    BY <1>3, StartWritesMoves DEF Becomes
  <2> QED
    BY <2>1, <2>2, <2>3 DEF PushesInOrder, Pushing, Starting, Is, At, Of
<1>4. ASSUME NEW h \in Handles, StartInstalls(h) PROVE PushesInOrder'
  <2> SUFFICES ASSUME ~crossed' PROVE PushesInOrder'
    BY DEF PushesInOrder
  <2>1. ~crossed /\ ~Crosses(h) /\ cellIn' = pushed
    BY <1>4 DEF StartInstalls, InstallSideFile
  <2>2. \A g \in Handles \ {h} : handle'[g] = handle[g] /\ ~Pushing(g)
    BY <1>4, <2>1, StartInstallsMoves DEF Becomes, Crosses
  <2>3. /\ handle'[h].of = Of(h) /\ handle'[h].read = handle[h].read
        /\ handle'[h].at = "probing" /\ handle'[h].sig = handle[h].read
    BY <1>4, StartInstallsMoves DEF Becomes
  <2>4. Is(h, "installing")
    BY <1>4 DEF StartInstalls
  <2> QED
    BY <2>1, <2>2, <2>3, <2>4 DEF PushesInOrder, Pushing, Starting, Is, At, Of
<1>5. ASSUME NEW h \in Handles, Probe(h) PROVE PushesInOrder'
  BY <1>5, ProbeMoves, PushesKept
  DEF Probe, Ends, local, cell, history, Crosses, Pushing, IsStarting, Is, At, Of,
      Starting
<1>6. ASSUME NEW h \in Handles, StopStale(h) PROVE PushesInOrder'
  BY <1>6, StopStaleMoves, PushesKept
  DEF StopStale, Ends, local, cell, history, Crosses, Pushing, IsStarting, Is, At,
      Of, Starting
<1>7. ASSUME NEW h \in Handles, StartService(h) PROVE PushesInOrder'
  BY <1>7, StartServiceMoves, PushesKept
  DEF StartService, Ends, local, cell, history, Crosses, Pushing, IsStarting, Is,
      At, Of, Starting
<1>8. ASSUME NEW h \in Handles, Register(h) PROVE PushesInOrder'
  <2>1. At(h, "idle") /\ Is(h, "registering")
    BY <1>8 DEF HandleShape, Register, Is, IsStarting, Starting
  <2> QED
    BY <1>8, <2>1, RegisterMoves, PushesKept DEF Register, Is, At, cell, history
<1>9. ASSUME NEW h \in Handles, StartFails(h) PROVE PushesInOrder'
  BY <1>9, StartFailsMoves, PushesKept
  DEF StartFails, MayFail, Ends, local, cell, Crosses, Pushing, IsStarting, Is,
      At, Of, Starting
<1>10. ASSUME NEW h \in Handles, TickBegins(h) PROVE PushesInOrder'
  BY <1>10, TickBeginsMoves, PushesKept
  DEF TickBegins, Ends, local, cell, history, Crosses, Pushing, IsStarting, Is,
      At, Of, Starting
<1>11. ASSUME NEW h \in Handles, TickWrites(h) PROVE PushesInOrder'
  <2> SUFFICES ASSUME ~crossed' PROVE PushesInOrder'
    BY DEF PushesInOrder
  <2>1. /\ ~crossed /\ ~Crosses(h)
        /\ pushed' = [of |-> Of(h), rows |-> handle[h].read] /\ cellIn' = cellIn
    BY <1>11 DEF TickWrites, WriteSideFile
  <2>2. \A g \in Handles \ {h} : handle'[g] = handle[g] /\ ~Pushing(g)
    BY <1>11, <2>1, TickWritesMoves DEF Becomes, Crosses
  <2>3. /\ handle'[h].of = Of(h) /\ handle'[h].read = handle[h].read
        /\ handle'[h].at = handle[h].at /\ handle'[h].sig = handle[h].sig
    BY <1>11, TickWritesMoves DEF Becomes
  <2>4. ~IsStarting(h) /\ ~Is(h, "gone") /\ ~Is(h, "unused")
    BY <1>11, <2>1 DEF TickWrites, HandleShape, Crosses, At
  <2> QED
    BY <2>1, <2>2, <2>3, <2>4 DEF PushesInOrder, Pushing, Starting, Is, At, Of
<1>12. ASSUME NEW h \in Handles, TickInstalls(h) PROVE PushesInOrder'
  <2> SUFFICES ASSUME ~crossed' PROVE PushesInOrder'
    BY DEF PushesInOrder
  <2>1. ~crossed /\ ~Crosses(h) /\ cellIn' = pushed
    BY <1>12 DEF TickInstalls, InstallSideFile
  <2>2. \A g \in Handles \ {h} : handle'[g] = handle[g] /\ ~Pushing(g)
    BY <1>12, <2>1, TickInstallsMoves DEF Becomes, Crosses
  <2>3. /\ handle'[h].of = Of(h) /\ handle'[h].read = handle[h].read
        /\ handle'[h].at = handle[h].at /\ handle'[h].sig = handle[h].read
        /\ handle'[h].tick = "status"
    BY <1>12, TickInstallsMoves DEF Becomes
  <2>4. Is(h, "active") /\ At(h, "installing")
    BY <1>12, <2>1
    DEF TypeOK, HandleType, TickInstalls, HandleShape, Crosses, IsStarting, Is, At
  <2> QED
    BY <2>1, <2>2, <2>3, <2>4 DEF PushesInOrder, Pushing, Starting, Is, At, Of
<1>13. ASSUME NEW h \in Handles, TickStages(h) PROVE PushesInOrder'
  BY <1>13, TickStagesMoves, PushesKept
  DEF TickStages, Ends, local, cell, history, Crosses, Pushing, IsStarting, Is,
      At, Of, Starting
<1>14. ASSUME NEW h \in Handles, TickSkips(h) PROVE PushesInOrder'
  BY <1>14, TickSkipsMoves, PushesKept
  DEF TickSkips, Ends, local, cell, history, Crosses, Pushing, IsStarting, Is, At,
      Of, Starting
<1>15. ASSUME NEW h \in Handles, TickPulls(h) PROVE PushesInOrder'
  BY <1>15, TickPullsMoves, PushesKept
  DEF TickPulls, Ends, cell, history, Crosses, Pushing, IsStarting, Is, At, Of,
      Starting
<1>16. ASSUME NEW h \in Handles, TickEnds(h) PROVE PushesInOrder'
  BY <1>16, TickEndsMoves, PushesKept
  DEF TickEnds, Finalized, Released, Ends, local, cell, history, Crosses, Pushing,
      IsStarting, Is, At, Of, Starting
<1>17. ASSUME NEW h \in Handles, TickFails(h) PROVE PushesInOrder'
  BY <1>17, TickFailsMoves, PushesKept
  DEF TickFails, Finalized, Released, MayFail, Ends, local, cell, Crosses,
      Pushing, IsStarting, Is, At, Of, Starting
<1>18. ASSUME NEW h \in Handles, Kill(h) PROVE PushesInOrder'
  BY <1>18 DEF Kill, local, cell, history, PushesInOrder, Is, At, Of
<1>19. ASSUME NEW h \in Handles, KillEnds(h) PROVE PushesInOrder'
  BY <1>19, KillEndsMoves, PushesKept
  DEF KillEnds, Finalized, Released, MayFail, Ends, local, cell, Crosses, Pushing,
      IsStarting, Is, At, Of, Starting
<1>20. ASSUME NEW s \in Sessions, HostWrites(s) PROVE PushesInOrder'
  BY <1>20 DEF HostWrites, memory, cell, history, PushesInOrder, Is, At, Of
<1>21. CASE Answer
  BY <1>21 DEF Answer, memory, local, cell, history, PushesInOrder, Is, At, Of
<1>22. CASE ServiceDies
  BY <1>22 DEF ServiceDies, MayFail, memory, local, cell, PushesInOrder, Is, At, Of
<1>23. CASE HostRestarts
  BY <1>23, HostRestartsMoves DEF HostRestarts, PushesInOrder, Is, At, Of
<1>24. CASE UNCHANGED vars
  BY <1>24 DEF vars, memory, local, cell, history, PushesInOrder, Is, At, Of
<1> QED
  BY <1>1, <1>2, <1>3, <1>4, <1>5, <1>6, <1>7, <1>8, <1>9, <1>10, <1>11, <1>12,
     <1>13, <1>14, <1>15, <1>16, <1>17, <1>18, <1>19, <1>20, <1>21, <1>22, <1>23,
     <1>24
  DEF Next, Tick

-----------------------------------------------------------------------------
(* Theorems *)

\* The initial states satisfy the invariant.
LEMMA InitCells == Init => CellsInv
<1> SUFFICES ASSUME Init PROVE CellsInv
  OBVIOUS
<1>1. Unused \in HandleType
  <2>1. 0 \in 0..(CheckEvery - 1) /\ 0 \in 0..PumpFailures
    OBVIOUS
  <2> QED
    BY <2>1 DEF Unused, HandleType
<1>2. TypeOK
  <2>1. handle \in [Handles -> HandleType]
    BY <1>1 DEF Init
  <2>2. None \in Answers
    BY DEF None, Answers
  <2>3. inbound \in [Sessions -> Nat \ {0}] /\ outbound \in [Sessions -> Answers]
    BY <2>2 DEF Init
  <2> QED
    <3>1. /\ holder = NoSession /\ killing = {} /\ pushed = NoCopy /\ cellIn = NoCopy
          /\ cellOut = None /\ staged = None /\ service = 0
          /\ overlapped = FALSE /\ crossed = FALSE /\ faults = 0
      BY DEF Init
    <3>2. 0 \in 0..MaxStarts
      OBVIOUS
    <3> QED
      BY ONLY <2>1, <2>2, <2>3, <3>1, <3>2 DEF TypeOK
<1>3. \A h \in Handles : Is(h, "unused") /\ At(h, "idle")
  BY DEF Init, Unused, Is, At
<1>4. HandleShape /\ Solitary /\ PushesInOrder
  BY <1>3 DEF HandleShape, Solitary, PushesInOrder, Live, IsStarting, Is, At, Starting
<1>5. Reclaimed
  BY DEF Init, Reclaimed
<1> QED
  BY <1>2, <1>4, <1>5 DEF CellsInv

\* So does every step, one part after the other.
LEMMA CellsStep == CellsInv /\ [Next]_vars => CellsInv'
BY CellsTypeStep, CellsShapeStep, ReclaimedStep, SolitaryStep, PushesStep DEF CellsInv

\* The five parts hold together, in every reachable state of the runtime.
THEOREM CellsAlways == Spec => []CellsInv
BY InitCells, CellsStep, PTL DEF Spec

\* Every variable keeps its type.
THEOREM CellsTypes == Spec => []TypeOK
<1>1. CellsInv => TypeOK
  BY DEF CellsInv
<1> QED
  BY <1>1, CellsAlways, PTL

\* The group's cell is held by a session that runs, or by none: no end of a
\* session, by a kill, a dead service, failures in a row or a new host process,
\* leaves it to one that is gone; and two sessions run in it at once only if
\* one was started while the other was being started.
THEOREM CellHeldByTheRunning == Spec => []HeldByTheRunning
<1>1. CellsInv => HeldByTheRunning
  <2> SUFFICES ASSUME CellsInv PROVE HeldByTheRunning
    OBVIOUS
  <2>1. holder # NoSession => Running(holder)
    BY DEF CellsInv, Reclaimed
  <2>2. ASSUME NEW s \in Sessions, NEW t \in Sessions, Running(s), Running(t), s # t
        PROVE  overlapped
    <3>1. PICK g \in Handles : Is(g, "active") /\ Of(g) = s
      BY <2>2 DEF Running
    <3>2. PICK h \in Handles : Is(h, "active") /\ Of(h) = t
      BY <2>2 DEF Running
    <3> QED
      BY <2>2, <3>1, <3>2 DEF CellsInv, Solitary, Live
  <2> QED
    BY <2>1, <2>2 DEF HeldByTheRunning
<1> QED
  BY <1>1, CellsAlways, PTL

\* What the host takes for pushed is in the cell, across failed requests, ticks
\* put off, kills and new host processes, as long as no two pushes cross.
THEOREM WhatIsBelievedIsThere == Spec => []BelievedIsThere
<1>1. CellsInv => BelievedIsThere
  BY DEF CellsInv, PushesInOrder, BelievedIsThere, Is
<1> QED
  BY <1>1, CellsAlways, PTL

=============================================================================
