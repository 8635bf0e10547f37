-------------------------- MODULE SessionLifecycle --------------------------
(***************************************************************************)
(* One session's inbound mailbox, from the row the router writes to its    *)
(* terminal status.  Two processes share it: the host (router, container   *)
(* runner, 60 s sweep) writes inbound.db, the agent container (poll loop)  *)
(* writes outbound.db, and each reads the other's file.                    *)
(*                                                                         *)
(* Time is abstract.  A row's process_after is the flag deferred[m]; the   *)
(* mtime of the heartbeat file and the age of a claim are the few classes  *)
(* the sweep's decision tells apart.                                       *)
(***************************************************************************)
EXTENDS Naturals, FiniteSets

CONSTANTS
  Messages,         \* the inbound rows that may be written to the session
  Accumulated,      \* rows with trigger = 0: context only, never wake the agent
  Scripted,         \* task rows that carry a pre-task script
  RunnerCommands,   \* slash commands that abort an open query
  ClearCommands,    \* the runner commands the poll loop answers itself
  PromptLimit,      \* maxMessagesPerPrompt
  MaxTries,         \* MAX_TRIES of the sweep
  MaxCrashes,       \* bound on container deaths and restarts
  MaxHostCrashes,   \* bound on host deaths
  CountCrashes      \* FALSE: the container may die again and again

ASSUME ConstantsAssumption ==
  /\ IsFiniteSet(Messages)
  /\ Accumulated \subseteq Messages
  /\ Scripted \subseteq Messages
  /\ RunnerCommands \subseteq Messages
  /\ ClearCommands \subseteq RunnerCommands
  /\ Scripted \cap RunnerCommands = {}
  /\ PromptLimit \in Nat \ {0}
  /\ MaxTries \in Nat
  /\ MaxCrashes \in Nat
  /\ MaxHostCrashes \in Nat
  /\ CountCrashes \in BOOLEAN

VARIABLES
  \* inbound.db, written by the host
  status,      \* messages_in.status, "absent" before the row is written
  tries,       \* messages_in.tries
  deferred,    \* process_after lies in the future
  seq,         \* messages_in.seq, as the order of arrival
  \* outbound.db, written by the container
  ack,         \* processing_ack.status, "none" when there is no row
  notice,      \* messages told "failed twice ... was not processed"
  \* clocks, in the classes decideStuckAction tells apart
  claimAge,    \* of a processing claim: young, old (past tolerance) or
               \* beaten (a heartbeat is newer than the claim)
  heartbeat,   \* the file: none, fresh or stale (past the ceiling)
  \* host process
  host,        \* up or down
  active,      \* activeContainers has an entry for the session
  waking,      \* wakePromises has an entry for the session
  rewake,      \* the onExit callback of a restart will wake the session
  sweep,       \* idle, or waking: the sweep awaits wakeContainer
  \* container process
  proc,        \* where the poll loop is, "none" when no process runs
  hung,        \* the process is alive and makes no more progress
  batch,       \* ids of the loop's current batch (processingIds)
  inTurn,      \* prompts handed to the provider and not yet answered
  attempt,     \* processBatchWithRetry's attempt
  aborted,     \* endedForCommand of the open query
  follow,      \* follow-ups claimed by the open query, scripts running
  late,        \* follow-ups claimed by a query that ended meanwhile
  \* bounds
  crashes, hostCrashes

inbound   == <<status, tries, deferred, seq>>
outbound  == <<ack, notice>>
clocks    == <<claimAge, heartbeat>>
hostVars  == <<host, active, waking, rewake, sweep>>
loopVars  == <<batch, inTurn, attempt, aborted, follow, late>>
bounds    == <<crashes, hostCrashes>>
vars == <<inbound, outbound, clocks, hostVars, proc, hung, loopVars, bounds>>

Statuses   == {"absent", "pending", "completed", "failed"}
Acks       == {"none", "processing", "completed", "scriptError"}
ProcStates == {"none", "booting", "polling", "claimed", "scripted", "querying"}

TypeOK ==
  /\ status \in [Messages -> Statuses]
  /\ tries \in [Messages -> 0..MaxTries]
  /\ deferred \in [Messages -> BOOLEAN]
  /\ seq \in [Messages -> Nat]
  /\ ack \in [Messages -> Acks]
  /\ notice \in SUBSET Messages
  /\ claimAge \in [Messages -> {"young", "old", "beaten"}]
  /\ heartbeat \in {"none", "fresh", "stale"}
  /\ host \in {"up", "down"}
  /\ active \in BOOLEAN /\ waking \in BOOLEAN /\ rewake \in BOOLEAN
  /\ sweep \in {"idle", "waking"}
  /\ proc \in ProcStates /\ hung \in BOOLEAN
  /\ batch \in SUBSET Messages /\ inTurn \in SUBSET Messages
  /\ attempt \in {1, 2} /\ aborted \in BOOLEAN
  /\ follow \in SUBSET Messages /\ late \in SUBSET Messages
  /\ crashes \in Nat /\ hostCrashes \in Nat

Init ==
  /\ status = [m \in Messages |-> "absent"]
  /\ tries = [m \in Messages |-> 0]
  /\ deferred = [m \in Messages |-> FALSE]
  /\ seq = [m \in Messages |-> 0]
  /\ ack = [m \in Messages |-> "none"]
  /\ notice = {}
  /\ claimAge = [m \in Messages |-> "young"]
  /\ heartbeat = "none"
  /\ host = "up"
  /\ active = FALSE /\ waking = FALSE /\ rewake = FALSE
  /\ sweep = "idle"
  /\ proc = "none" /\ hung = FALSE
  /\ batch = {} /\ inTurn = {} /\ attempt = 1 /\ aborted = FALSE
  /\ follow = {} /\ late = {}
  /\ crashes = 0 /\ hostCrashes = 0

-----------------------------------------------------------------------------
(* Queries of the two databases *)

\* messages_in rows a poll may return: pending and not rescheduled.
Eligible(m) == status[m] = "pending" /\ ~deferred[m]

\* The LIMIT keeps the newest rows, and is applied before acks are filtered.
InWindow(m) ==
  /\ Eligible(m)
  /\ Cardinality({n \in Messages : Eligible(n) /\ seq[n] > seq[m]}) < PromptLimit

\* getPendingMessages
Fetched == {m \in Messages : InWindow(m) /\ ack[m] = "none"}

\* countDueMessages over the statuses st.
Due(st) == \E m \in Messages \ Accumulated : st[m] = "pending" /\ ~deferred[m]

Claims == {m \in Messages : ack[m] = "processing"}

\* touchHeartbeat: the file is fresh, and newer than every claim.
TouchHeartbeat ==
  /\ heartbeat' = "fresh"
  /\ claimAge' = [m \in Messages |-> IF m \in Claims THEN "beaten" ELSE claimAge[m]]

\* processing_ack rows of S become val (INSERT OR REPLACE, or DELETE for "none").
\* The age of a claim is only told of rows that are claims.
SetAck(S, val) ==
  /\ ack' = [m \in Messages |-> IF m \in S THEN val ELSE ack[m]]
  /\ claimAge' = [m \in Messages |-> IF m \in S THEN "young" ELSE claimAge[m]]

\* The process is gone: nothing of the poll loop's memory survives.
ProcessGone ==
  /\ proc' = "none" /\ hung' = FALSE
  /\ batch' = {} /\ inTurn' = {} /\ attempt' = 1 /\ aborted' = FALSE
  /\ follow' = {} /\ late' = {}

\* syncProcessingAcks: a final ack reaches a row that is not terminal yet.
Synced ==
  [m \in Messages |->
     CASE status[m] = "pending" /\ ack[m] = "completed"   -> "completed"
       [] status[m] = "pending" /\ ack[m] = "scriptError" -> "failed"
       [] OTHER                                           -> status[m]]

\* A death, or a failing statement, that the bounds still allow.
Mishap ==
  /\ ~CountCrashes \/ crashes < MaxCrashes
  /\ crashes' = IF CountCrashes THEN crashes + 1 ELSE crashes

\* Mutant: every row that is still to do is charged, claimed or not.
HitUnclaimed(st) == {m \in Messages : st[m] = "pending" /\ ~deferred[m]}

\* Claimed rows that resetStuckProcessingRows reschedules: those already in
\* backoff are left alone.
Hit(st) == {m \in Claims : st[m] = "pending" /\ ~deferred[m]}

\* The rows of part are rescheduled, or given up once their tries are spent.
Charged(st, part) ==
  LET out == {m \in part : tries[m] >= MaxTries}
  IN /\ status' = [m \in Messages |-> IF m \in out THEN "failed" ELSE st[m]]
     /\ tries' = [m \in Messages |-> IF m \in part \ out THEN tries[m] + 1 ELSE tries[m]]
     /\ deferred' = [m \in Messages |-> deferred[m] \/ m \in part \ out]

\* resetStuckProcessingRows: charge the claimed rows, then delete all claims.
\* The deletion may fail, which is only logged.
Reset(st) ==
  /\ Charged(st, Hit(st))
  /\ \/ SetAck(Claims, "none") /\ UNCHANGED crashes
     \/ Claims # {} /\ Mishap /\ UNCHANGED <<ack, claimAge>>

\* Mutant: the wake does not look for a running container.
WakenAlways == waking' = TRUE

\* wakeContainer: a no-op when a container or a wake exists already.
Waken == waking' = (waking \/ ~active)

-----------------------------------------------------------------------------
(* The host: router and container runner *)

\* deliverToAgent: write the row, then wake the container if it engages.
Receive(m) ==
  /\ host = "up" /\ status[m] = "absent"
  /\ status' = [status EXCEPT ![m] = "pending"]
  /\ seq' = [seq EXCEPT ![m] = 1 + Cardinality({n \in Messages : status[n] # "absent"})]
  /\ IF m \in Accumulated THEN UNCHANGED waking ELSE Waken
  /\ UNCHANGED <<tries, deferred, outbound, clocks, host, active, rewake, sweep,
                 proc, hung, loopVars, bounds>>

\* spawnContainer succeeded: the heartbeat file of the previous container is
\* removed, so no claim is younger than a heartbeat any more.  A sweep that
\* awaited the wake skips the SLA check this time (justWoke).
SpawnOk ==
  /\ host = "up" /\ waking
  /\ waking' = FALSE /\ active' = TRUE /\ sweep' = "idle"
  /\ heartbeat' = "none"
  /\ claimAge' = [m \in Messages |-> IF claimAge[m] = "beaten" THEN "young" ELSE claimAge[m]]
  /\ proc' = "booting"
  /\ UNCHANGED <<inbound, outbound, host, rewake, hung, loopVars, bounds>>

\* The spawn failed.  A sweep that awaited it goes on to reset the claims.
SpawnFail ==
  /\ host = "up" /\ waking
  /\ waking' = FALSE /\ sweep' = "idle"
  /\ IF sweep = "waking" THEN Reset(status)
                         ELSE UNCHANGED <<status, tries, deferred, ack, claimAge, crashes>>
  /\ UNCHANGED <<seq, notice, heartbeat, host, active, rewake, proc, hung, loopVars, hostCrashes>>

\* The container's close event, and the onExit callback of a restart.
Close ==
  /\ host = "up" /\ active /\ proc = "none"
  /\ active' = FALSE
  /\ rewake' = FALSE
  /\ waking' = (waking \/ rewake)
  /\ UNCHANGED <<inbound, outbound, clocks, host, sweep, proc, hung, loopVars, bounds>>

\* restartAgentGroupContainers without a wake message: claims are left to
\* the next container's boot, and onExit respawns it when rows are due.
Restart ==
  /\ host = "up" /\ active
  /\ crashes < MaxCrashes
  /\ crashes' = crashes + 1
  /\ rewake' = (rewake \/ Due(status))
  /\ ProcessGone
  /\ UNCHANGED <<inbound, outbound, clocks, host, active, waking, sweep, hostCrashes>>

\* The host dies.
HostDies ==
  /\ host = "up" /\ hostCrashes < MaxHostCrashes
  /\ hostCrashes' = hostCrashes + 1
  /\ host' = "down"
  /\ active' = FALSE /\ waking' = FALSE /\ rewake' = FALSE /\ sweep' = "idle"
  /\ UNCHANGED <<seq, outbound, clocks, crashes>>

HostCrash ==
  /\ HostDies
  /\ UNCHANGED <<status, tries, deferred, proc, hung, loopVars>>

\* Startup: cleanupOrphans stops the containers of the previous host.
HostStart ==
  /\ host = "down"
  /\ host' = "up"
  /\ ProcessGone
  /\ UNCHANGED <<inbound, outbound, clocks, active, waking, rewake, sweep, bounds>>

-----------------------------------------------------------------------------
(* The host: the sweep.  Each disjunct is one sweepSession up to its first   *)
(* await; all of them start by copying the acks.                             *)

\* Mutant: only the ceiling, no rule for silent claims.
StuckCeilingOnly == heartbeat = "stale"

\* Mutant: only the rule for silent claims, no ceiling.
StuckClaimsOnly == \E m \in Claims : claimAge[m] = "old"

\* decideStuckAction, over the container's heartbeat and claims.
Stuck == heartbeat = "stale" \/ \E m \in Claims : claimAge[m] = "old"

\* Rows are due and nothing runs: wake, and wait for the wake.
SweepWake ==
  /\ host = "up" /\ sweep = "idle"
  /\ ~active /\ Due(Synced)
  /\ status' = Synced
  /\ waking' = TRUE /\ sweep' = "waking"
  /\ UNCHANGED <<tries, deferred, seq, outbound, clocks, host, active, rewake, proc, hung,
                 loopVars, bounds>>

\* A running container that broke its SLA is killed and its claims reset.
SweepEnforce ==
  /\ host = "up" /\ sweep = "idle"
  /\ active /\ Stuck
  /\ ProcessGone
  /\ Reset(Synced)
  /\ UNCHANGED <<seq, notice, heartbeat, hostVars, hostCrashes>>

SweepQuiet ==
  /\ host = "up" /\ sweep = "idle"
  /\ active /\ ~Stuck
  /\ status' = Synced
  /\ UNCHANGED <<tries, deferred, seq, outbound, clocks, hostVars, proc, hung, loopVars, bounds>>

\* Nothing runs and nothing is due: claims left behind get retried.
SweepReset ==
  /\ host = "up" /\ sweep = "idle"
  /\ ~active /\ ~Due(Synced)
  /\ Reset(Synced)
  /\ UNCHANGED <<seq, notice, heartbeat, hostVars, proc, hung, loopVars, hostCrashes>>

\* The host dies inside resetStuckProcessingRows: some rows are charged, and
\* the claims are all there.
HostCrashInReset ==
  /\ sweep = "idle" => (IF active THEN Stuck ELSE ~Due(Synced))
  /\ LET st == IF sweep = "idle" THEN Synced ELSE status IN
       \E part \in SUBSET Hit(st) : Charged(st, part)
  /\ IF active THEN ProcessGone ELSE UNCHANGED <<proc, hung, loopVars>>
  /\ HostDies

-----------------------------------------------------------------------------
(* The container: the outer poll loop *)

Running(at) == proc = at /\ ~hung

\* Mutant: the new container deletes every ack, not only the claims.
BootDeletesAll ==
  /\ Running("booting")
  /\ SetAck(Messages, "none")
  /\ proc' = "polling"
  /\ UNCHANGED <<inbound, notice, heartbeat, hostVars, hung, loopVars, bounds>>

\* Mutant: the new container leaves the claims of its predecessor.
BootKeepsClaims ==
  /\ Running("booting")
  /\ proc' = "polling"
  /\ UNCHANGED <<inbound, outbound, clocks, hostVars, hung, loopVars, bounds>>

\* clearStaleProcessingAcks, before the first poll.
Boot ==
  /\ Running("booting")
  /\ SetAck(Claims, "none")
  /\ proc' = "polling"
  /\ UNCHANGED <<inbound, notice, heartbeat, hostVars, hung, loopVars, bounds>>

\* A poll that finds a trigger row claims all it fetched, accumulated rows too.
Claim ==
  /\ Running("polling")
  /\ Fetched \ Accumulated # {}
  /\ SetAck(Fetched, "processing")
  /\ batch' = Fetched
  /\ proc' = "claimed"
  /\ UNCHANGED <<inbound, notice, heartbeat, hostVars, hung, inTurn, attempt, aborted,
                 follow, late, bounds>>

\* /clear and /upload-trace are answered here; the rest goes on to the scripts.
HandleCommands ==
  /\ Running("claimed")
  /\ SetAck(batch \cap ClearCommands, "completed")
  /\ batch' = batch \ ClearCommands
  /\ proc' = IF batch' = {} THEN "polling" ELSE "scripted"
  /\ UNCHANGED <<inbound, notice, heartbeat, hostVars, hung, inTurn, attempt, aborted,
                 follow, late, bounds>>

\* Final acks of rows that pre-task scripts held back: err of them crashed.
AckSkipped(skip, err) ==
  [m \in Messages |-> IF m \in err THEN "scriptError"
                      ELSE IF m \in skip THEN "completed" ELSE ack[m]]

\* applyPreTaskScripts touches the heartbeat around every script.
AfterScripts(S, skip) ==
  IF S \cap Scripted = {}
  THEN UNCHANGED clocks
  ELSE /\ heartbeat' = "fresh"
       /\ claimAge' = [m \in Messages |-> IF m \in Claims \ skip THEN "beaten" ELSE "young"]

\* The scripts ran; the surviving rows are prompted, or the loop polls again.
RunScripts ==
  /\ Running("scripted")
  /\ \E skip \in SUBSET (batch \cap Scripted) : \E err \in SUBSET skip :
       /\ ack' = AckSkipped(skip, err)
       /\ AfterScripts(batch, skip)
       /\ batch' = batch \ skip
       /\ inTurn' = batch'
       /\ proc' = IF batch' = {} THEN "polling" ELSE "querying"
  /\ UNCHANGED <<inbound, notice, hostVars, hung, attempt, aborted, follow, late, bounds>>

-----------------------------------------------------------------------------
(* The container: an open query (processBatchWithRetry, processQuery) *)

\* An event of the agent that ends no turn, or a script of a row in flight.
Beat ==
  /\ ~hung
  /\ \/ proc = "scripted" /\ batch \cap Scripted # {}
     \/ proc = "querying" /\ inTurn # {}
     \/ proc # "none" /\ (follow \cup late) \cap Scripted # {}
  /\ TouchHeartbeat
  /\ UNCHANGED <<inbound, outbound, hostVars, proc, hung, loopVars, bounds>>

\* A result event answers some prompts and acks the initial batch.
Result ==
  /\ Running("querying") /\ ~aborted
  /\ \E S \in SUBSET inTurn \ {{}} : inTurn' = inTurn \ S
  /\ ack' = [m \in Messages |-> IF m \in batch THEN "completed" ELSE ack[m]]
  /\ heartbeat' = "fresh"
  /\ claimAge' = [m \in Messages |-> IF m \in Claims \ batch THEN "beaten" ELSE "young"]
  /\ UNCHANGED <<inbound, notice, hostVars, proc, hung, batch, attempt, aborted, follow,
                 late, bounds>>

\* The batch is done: acked whatever happened, and the loop polls again.
\* A follow-up whose scripts still run outlives the query.
LeaveQuery ==
  /\ SetAck(batch, "completed")
  /\ proc' = "polling"
  /\ batch' = {} /\ inTurn' = {} /\ attempt' = 1 /\ aborted' = FALSE
  /\ follow' = {} /\ late' = late \cup follow

\* The event stream ended, by itself or because it was aborted.
QueryEnds ==
  /\ Running("querying")
  /\ LeaveQuery
  /\ UNCHANGED <<inbound, notice, heartbeat, hostVars, hung, bounds>>

\* The stream threw: the batch is prompted once more ...
QueryRetries ==
  /\ Running("querying") /\ attempt = 1
  /\ attempt' = 2 /\ inTurn' = batch /\ aborted' = FALSE
  /\ follow' = {} /\ late' = late \cup follow
  /\ UNCHANGED <<inbound, outbound, clocks, hostVars, proc, hung, batch, bounds>>

\* ... and the second time it is acked, and the channel told it failed.
QueryGivesUp ==
  /\ Running("querying") /\ attempt = 2
  /\ notice' = notice \cup batch
  /\ LeaveQuery
  /\ UNCHANGED <<inbound, heartbeat, hostVars, hung, bounds>>

\* Mutant: commands are claimed and pushed like any other row.
FollowUpFetchCommands ==
  /\ Running("querying") /\ ~aborted /\ follow = {}
  /\ Fetched # {}
  /\ SetAck(Fetched, "processing")
  /\ follow' = Fetched
  /\ UNCHANGED <<inbound, notice, heartbeat, hostVars, proc, hung, batch, inTurn, attempt,
                 aborted, late, bounds>>

\* The follow-up poll: a command aborts the query and is left for the outer
\* loop; anything else is claimed, accumulated rows alone included.
FollowUpFetch ==
  /\ Running("querying") /\ ~aborted /\ follow = {}
  /\ IF Fetched \cap RunnerCommands # {}
     THEN aborted' = TRUE /\ UNCHANGED <<ack, claimAge, follow>>
     ELSE /\ Fetched # {}
          /\ SetAck(Fetched, "processing")
          /\ follow' = Fetched
          /\ UNCHANGED aborted
  /\ UNCHANGED <<inbound, notice, heartbeat, hostVars, proc, hung, batch, inTurn, attempt,
                 late, bounds>>

\* Their scripts ran while the query stayed open: the rest is pushed into it,
\* and acked at once.
FollowUpPush ==
  /\ Running("querying") /\ follow # {}
  /\ \E skip \in SUBSET (follow \cap Scripted) : \E err \in SUBSET skip :
       /\ ack' = AckSkipped(follow, err)
       /\ AfterScripts(follow, follow)
       /\ inTurn' = inTurn \cup (follow \ skip)
  /\ follow' = {}
  /\ UNCHANGED <<inbound, notice, hostVars, proc, hung, batch, attempt, aborted, late, bounds>>

\* Their scripts ran after the query was done: only the held-back rows are
\* acked, and the others stay claimed.
LateScripts ==
  /\ proc # "none" /\ ~hung /\ late # {}
  /\ \E skip \in SUBSET (late \cap Scripted) : \E err \in SUBSET skip :
       /\ ack' = AckSkipped(skip, err)
       /\ AfterScripts(late, skip)
  /\ late' = {}
  /\ UNCHANGED <<inbound, notice, hostVars, proc, hung, batch, inTurn, attempt, aborted,
                 follow, bounds>>

-----------------------------------------------------------------------------
(* Faults and the passage of time *)

\* The process dies; the host learns of it from the close event.
Crash ==
  /\ proc # "none" /\ Mishap
  /\ ProcessGone
  /\ UNCHANGED <<inbound, outbound, clocks, hostVars, hostCrashes>>

\* The provider never answers and never fails.
Hang ==
  /\ Running("querying") /\ Mishap
  /\ hung' = TRUE
  /\ UNCHANGED <<inbound, outbound, clocks, hostVars, proc, loopVars, hostCrashes>>

BackoffElapses(m) ==
  /\ deferred[m]
  /\ deferred' = [deferred EXCEPT ![m] = FALSE]
  /\ UNCHANGED <<status, tries, seq, outbound, clocks, hostVars, proc, hung, loopVars, bounds>>

HeartbeatStales ==
  /\ heartbeat = "fresh"
  /\ heartbeat' = "stale"
  /\ UNCHANGED <<inbound, outbound, claimAge, hostVars, proc, hung, loopVars, bounds>>

ClaimAges(m) ==
  /\ m \in Claims /\ claimAge[m] = "young"
  /\ claimAge' = [claimAge EXCEPT ![m] = "old"]
  /\ UNCHANGED <<inbound, outbound, heartbeat, hostVars, proc, hung, loopVars, bounds>>

-----------------------------------------------------------------------------
HostNext ==
  \/ \E m \in Messages : Receive(m)
  \/ SpawnOk \/ SpawnFail \/ Close \/ Restart
  \/ SweepWake \/ SweepEnforce \/ SweepQuiet \/ SweepReset

ContainerNext ==
  \/ Boot \/ Claim \/ HandleCommands \/ RunScripts
  \/ Beat \/ Result \/ QueryEnds \/ QueryRetries \/ QueryGivesUp
  \/ FollowUpFetch \/ FollowUpPush \/ LateScripts

Environment ==
  \/ HostCrash \/ HostCrashInReset \/ HostStart \/ Crash \/ Hang \/ HeartbeatStales
  \/ \E m \in Messages : BackoffElapses(m) \/ ClaimAges(m)

Next == HostNext \/ ContainerNext \/ Environment

Spec == Init /\ [][Next]_vars

(***************************************************************************)
(* Fairness.  Both loops poll on timers and the sweep runs every minute;   *)
(* an answer arrives unless the provider hangs, which is a step of its     *)
(* own.  A spawn that is tried again and again succeeds in the end.        *)
(* Nothing makes the agent fail, the process die or a restart happen.      *)
(***************************************************************************)
\* Nothing touches the heartbeat any more until a row arrives.
Quiet ==
  \/ hung
  \/ proc = "polling" /\ Fetched \ Accumulated = {}
  \/ proc = "querying" /\ inTurn = {} /\ follow = {}

Fairness ==
  /\ SF_vars(SpawnOk) /\ WF_vars(Close) /\ WF_vars(HostStart)
  /\ WF_vars(SweepWake) /\ WF_vars(SweepEnforce)
  /\ WF_vars(SweepQuiet) /\ WF_vars(SweepReset)
  /\ WF_vars(Boot) /\ WF_vars(Claim) /\ WF_vars(HandleCommands) /\ WF_vars(RunScripts)
  /\ WF_vars(Result) /\ WF_vars(aborted /\ QueryEnds)
  /\ WF_vars(FollowUpFetch) /\ WF_vars(FollowUpPush) /\ WF_vars(LateScripts)
  /\ WF_vars(Quiet /\ HeartbeatStales)
  /\ \A m \in Messages :
       WF_vars(BackoffElapses(m)) /\ WF_vars(hung /\ ClaimAges(m))

FairSpec == Spec /\ Fairness

-----------------------------------------------------------------------------
(* Properties *)

\* While the host is up it knows of every container of the session, so that
\* wakeContainer never starts a second one over the same databases.
\* (wakePromises and activeContainers, container-runner.ts)
OneContainer ==
  host = "up" => /\ proc # "none" => active
                 /\ waking => ~active

\* The running loop holds each row once: as the current batch, as a follow-up
\* of the open query, or as a follow-up of a query that ended; and what it
\* has in scripts or follow-ups is claimed.  Otherwise one row would be
\* prompted twice, or acked by code that no longer owns it.
\* (runPollLoop and processQuery, poll-loop.ts)
RowsHeldOnce ==
  /\ batch \cap (follow \cup late) = {} /\ follow \cap late = {}
  /\ follow \cup late \subseteq Claims
  /\ proc \in {"claimed", "scripted"} => batch \subseteq Claims
  /\ \A m \in batch : ack[m] \in {"processing", "completed"}

\* A slash command is the first input of a fresh query: it is never claimed as
\* a follow-up and never pushed into an open query, whatever arrives with it
\* and whichever rows the prompt window hides.
\* (the follow-up poll of processQuery, poll-loop.ts)
CommandsStartFresh ==
  RunnerCommands \cap (follow \cup late \cup (inTurn \ batch)) = {}

\* The two databases agree: what the host records of a row is what some
\* container concluded, or the row was given up; and a row that is given up or
\* in backoff is claimed by nobody, but for claims that the next container
\* clears before its first poll.
\* (syncProcessingAcks, resetStuckProcessingRows, clearStaleProcessingAcks)
DatabasesAgree ==
  \A m \in Messages :
    /\ status[m] = "absent" => ack[m] = "none"
    /\ status[m] = "completed" => ack[m] = "completed"
    /\ status[m] = "failed" => ack[m] # "completed"
    /\ deferred[m] => status[m] = "pending" /\ ack[m] \in {"none", "processing"}
    /\ (status[m] = "failed" \/ deferred[m]) /\ ack[m] = "processing" =>
         proc \in {"none", "booting"}

\* A final ack is final: no container, and not the host, ever takes up again
\* a row that was answered, across crashes, kills, hangs and restarts of both.
\* (getPendingMessages filters every acked row, both cleanups only claims)
FinalAcksStay ==
  \A m \in Messages : ack[m] \in {"completed", "scriptError"} => ack'[m] = ack[m]

AckIsFinal == [][FinalAcksStay]_vars

\* "The host only writes to outbound.db when no container is running": a
\* claim disappears in a booting container, or when no process is left.
\* (deleteOrphanProcessingClaims, session-db.ts)
ClaimsVanishWhenDead ==
  \A m \in Messages :
    ack[m] = "processing" /\ ack'[m] = "none" => proc = "booting" \/ proc' = "none"

HostWritesOutboundOnlyWhenDead == [][ClaimsVanishWhenDead]_vars

\* A row is charged a retry, or given up, only when it was claimed and the
\* container that claimed it is gone, never while somebody may still answer
\* it; a retry starts a backoff, and giving up needs every retry spent.
\* (resetStuckProcessingRows, host-sweep.ts)
ChargesFollowDeath ==
  \A m \in Messages :
    /\ tries'[m] # tries[m] =>
         /\ tries'[m] = tries[m] + 1 /\ deferred'[m]
         /\ ack[m] = "processing" /\ proc' = "none"
    /\ status[m] = "pending" /\ status'[m] = "failed" /\ ack[m] # "scriptError" =>
         tries[m] = MaxTries /\ ack[m] = "processing" /\ proc' = "none"

ChargedOnlyAfterDeath == [][ChargesFollowDeath]_vars

\* Every row that engages the agent is concluded in the end, as long as the
\* agent answers or hangs and the two processes die finitely often.
Settles ==
  \A m \in Messages \ Accumulated :
    status[m] = "pending" ~> status[m] \in {"completed", "failed"}

\* No claim is held forever, context rows and the follow-ups of a query that
\* ended during their scripts included.
ClaimsEnd ==
  \A m \in Messages : ack[m] = "processing" ~> ack[m] # "processing"

-----------------------------------------------------------------------------
(* The session implements the ledger *)

\* A claim that outlived the charging of its row counts as given back.
Phase(m) ==
  CASE status[m] = "absent"                            -> "absent"
    [] status[m] = "failed" \/ ack[m] = "scriptError"  -> "failed"
    [] status[m] # "failed" /\ ack[m] = "completed"    -> "done"
    [] status[m] = "pending" /\ ack[m] = "processing" /\ ~deferred[m] -> "claimed"
    [] OTHER                                           -> "queued"

Ledger == INSTANCE MessageLedger
  WITH Rows <- Messages, phase <- [m \in Messages |-> Phase(m)], retries <- tries

\* Every step of the two processes is a step of the ledger, or none.
ImplementsLedger == Ledger!Spec

=============================================================================
