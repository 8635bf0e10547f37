----------------------------- MODULE Transcript -----------------------------
(***************************************************************************)
(* The web transcript (src/channels/web.ts): one conversation read from    *)
(* the session databases of a chat, merged by timestamp, numbered in the   *)
(* order in which the host first sees the rows, and handed to clients that *)
(* resume from the last number they have seen.                             *)
(*                                                                         *)
(* A cursor `timestamp|index` is the index alone: nothing reads the        *)
(* timestamp half back.  Indexes are counted from 1, so a client that      *)
(* holds the cursor of row n has next = n, and 0 stands for no cursor.     *)
(***************************************************************************)
EXTENDS Integers, Sequences, FiniteSets, SequencesExt

CONSTANTS
    Questions, Answers,     \* the rows of messages_in and of messages_out
    InReplyTo,                  \* the question an answer names in in_reply_to
    None,                   \* an answer that names no question
    Sessions,               \* the sessions of the chat, by creation
    Home,                   \* the session a row belongs to
    Clients,                \* the browsers that may hold a stream
    Watched,                \* those whose view the model follows
    MaxStreams,             \* MAX_STREAMS_PER_GROUP
    PageLimit,              \* MAX_TRANSCRIPT_LIMIT, and the limit of a request
    MaxTime, MaxHostRestarts    \* bounds: time stamps, restarts

Rows == Questions \cup Answers

\* The elements of s that are in S, in their order.
Kept(s, S) ==
    LET kept[n \in 0 .. Len(s)] ==
            IF n = 0 THEN <<>>
            ELSE IF s[n] \in S THEN Append(kept[n - 1], s[n]) ELSE kept[n - 1]
    IN  kept[Len(s)]

ASSUME TranscriptAssumption ==
    /\ IsFiniteSet(Rows) /\ Questions \cap Answers = {}
    /\ InReplyTo \in [Answers -> Questions \cup {None}]
    /\ None \notin Rows
    /\ Sessions \in Seq(Range(Sessions)) /\ IsInjective(Sessions)
    /\ Home \in [Rows -> Range(Sessions)]
    /\ \A a \in Answers : InReplyTo[a] # None => Home[a] = Home[InReplyTo[a]]
    /\ Watched \subseteq Clients
    /\ {MaxStreams, PageLimit, MaxTime} \subseteq Nat \ {0}
    /\ MaxHostRestarts \in Nat

VARIABLES
    file,       \* file[s].in, file[s].out: the rows in order of insertion
    at,         \* the timestamp of a row; 0 before it is stamped
    routing,    \* questions handed to routeInbound, not yet stored
    delivered,  \* answers the delivery loop has acknowledged
    registry,   \* byId: the rows in the order they were first seen
    epoch,      \* archive_epoch, in the central database
    streams,    \* streamClients: the open streams, oldest first
    view,       \* what each watched client holds
    hostRestarts

transcriptVars == <<file, at, routing, delivered, registry, epoch, streams,
                    view, hostRestarts>>

(* A client: its last cursor, the epoch its stream was opened with, the    *)
(* rows it has been given in order, and whether its cursor was handed out  *)
(* before the last restart.                                                *)
NewView == [next |-> 0, floor |-> 0, shown |-> <<>>, stale |-> FALSE]

Stored(s) == Range(file[s].in) \cup Range(file[s].out)
InFiles == UNION {Stored(s) : s \in DOMAIN file}

\* The two databases of a session, and what a client holds.
FileSet == [in : Seq(Questions), out : Seq(Answers)]
ViewSet == [next : Nat, floor : Nat, shown : Seq(Rows), stale : BOOLEAN]

TranscriptTypeOK ==
    /\ file \in [Range(Sessions) -> FileSet]
    /\ \A s \in Range(Sessions) : \A r \in Stored(s) : Home[r] = s
    /\ at \in [Rows -> 0 .. MaxTime]
    /\ routing \subseteq Questions
    /\ delivered \subseteq Answers \cap InFiles
    /\ registry \in Seq(InFiles) /\ IsInjective(registry)
    /\ epoch \in 0 .. Cardinality(Rows)
    /\ streams \in Seq(Clients) /\ IsInjective(streams)
    /\ Len(streams) <= MaxStreams
    /\ view \in [Watched -> ViewSet]
    /\ \A c \in Watched :
        view[c].next <= Cardinality(Rows) /\ view[c].floor <= epoch
    /\ hostRestarts \in 0 .. MaxHostRestarts

TranscriptInit ==
    /\ file = [s \in Range(Sessions) |-> [in |-> <<>>, out |-> <<>>]]
    /\ at = [r \in Rows |-> 0]
    /\ routing = {} /\ delivered = {}
    /\ registry = <<>> /\ epoch = 0
    /\ streams = <<>>
    /\ view = [c \in Watched |-> NewView]
    /\ hostRestarts = 0

----------------------------------------------------------------------------
(* The merge of the session files *)

\* Mutant: rows are interleaved by their timestamps alone.
NeverBlocked(row, taken) == FALSE

\* An answer waits until the question it names has been taken.
Blocked(row, taken) ==
    row \in Answers /\ InReplyTo[row] \in InFiles \ Range(taken)

\* The element of a set that has one: its operand is evaluated once.
The(S) == CHOOSE x \in S : TRUE

Later(x, y) == IF x > y THEN x ELSE y

\* Two sources per session, each in order of insertion.
Sources == 1 .. 2 * Len(Sessions)
Source(i) ==
    LET f == file[Sessions[(i + 1) \div 2]]
    IN  IF i % 2 = 1 THEN f.in ELSE f.out

\* One round of the merge: of the heads that need not wait, the one with the
\* least timestamp, a timestamp below the last one taken counting as that
\* one; the first source on a tie.
Head1(m, i)     == Source(i)[m.pos[i]]
Heads(m)        == {i \in Sources : /\ m.pos[i] <= Len(Source(i))
                                    /\ ~Blocked(Head1(m, i), m.taken)}
Effective(m, i) == Later(at[Head1(m, i)], m.last)
TakeHead(m) ==
    LET heads == Heads(m)
        best == CHOOSE i \in heads : \A j \in heads :
                    \/ Effective(m, i) < Effective(m, j)
                    \/ Effective(m, i) = Effective(m, j) /\ i <= j
    IN  IF heads = {} THEN m
        ELSE [pos   |-> [m.pos EXCEPT ![best] = @ + 1],
              last  |-> Effective(m, best),
              taken |-> Append(m.taken, Head1(m, best))]

\* buildWebTranscript: rounds until no head is left.
Untaken == [pos |-> [i \in Sources |-> 1], last |-> 0, taken |-> <<>>]
Merged ==
    LET merge[k \in 0 .. Cardinality(Rows)] ==
            IF k = 0 THEN Untaken
            ELSE The({TakeHead(m) : m \in {merge[k - 1]}})
    IN  merge[Cardinality(InFiles)].taken

\* Mutant: the order of the merge is the order of the cursors.
Renumbered == Merged

\* transcriptRows: rows not seen before get the next indexes, in the order
\* of the merge.  Every row of the registry is still in the files, so the
\* rows sorted by index are the registry itself.
Numbered ==
    IF InFiles \subseteq Range(registry) THEN registry     \* nothing is new
    ELSE registry \o The({Kept(m, InFiles \ Range(registry)) : m \in {Merged}})

----------------------------------------------------------------------------
(* Handing rows to clients *)

\* transcriptAfter: the page that follows a cursor, above an epoch.
From(v, above) == Later(v.next, above)
Page(rows, v, above) ==
    SubSeq(rows, From(v, above) + 1,
           IF Len(rows) < From(v, above) + PageLimit
             THEN Len(rows) ELSE From(v, above) + PageLimit)

\* The view after a page: the cursor is that of the last row, if there is one.
Shown(v, rows, above) ==
    LET page == Page(rows, v, above)
    IN  [v EXCEPT !.shown = @ \o page,
                  !.next = IF page = <<>> THEN @
                           ELSE From(v, above) + Len(page)]

\* An event of the emitter: every open stream is pushed what it lacks.
Emit(rows) ==
    view' = [c \in Watched |->
               IF c \in Range(streams)
                 THEN Shown(view[c], rows, view[c].floor) ELSE view[c]]

\* The registry is brought up to date by a push, so only when one is made.
EmitAll ==
    IF streams = <<>> THEN UNCHANGED <<registry, view>>
    ELSE registry' = Numbered /\ Emit(registry')

----------------------------------------------------------------------------
(* The conversation *)

\* postMessage: the question is stamped and handed to the router, which is
\* not waited for; 202 and the event follow.
Post(q, t) ==
    /\ at[q] = 0
    /\ \A p \in Questions : at[p] <= t      \* the clock of the host
    /\ at' = [at EXCEPT ![q] = t]
    /\ routing' = routing \cup {q}
    /\ EmitAll
    /\ UNCHANGED <<file, delivered, epoch, streams, hostRestarts>>

\* The router stores the question in its session.
Route(q) ==
    /\ q \in routing
    /\ routing' = routing \ {q}
    /\ file' = [file EXCEPT ![Home[q]].in = Append(@, q)]
    /\ UNCHANGED <<at, delivered, registry, epoch, streams, view, hostRestarts>>

\* The agent writes a row, stamped by the clock of its own machine.
Answer(a, t) ==
    /\ at[a] = 0
    /\ InReplyTo[a] \in InFiles \cup {None}
    /\ at' = [at EXCEPT ![a] = t]
    /\ file' = [file EXCEPT ![Home[a]].out = Append(@, a)]
    /\ UNCHANGED <<routing, delivered, registry, epoch, streams, view,
                   hostRestarts>>

\* deliver: an acknowledgement, and the event.
Deliver(a) ==
    /\ a \in InFiles \ delivered
    /\ delivered' = delivered \cup {a}
    /\ EmitAll
    /\ UNCHANGED <<file, at, routing, epoch, streams, hostRestarts>>

----------------------------------------------------------------------------
(* The clients *)

\* Mutant: the oldest stream stays.
OpenedKeepingAll(c) == Append(streams, c)

\* A client opens a stream, with its last cursor or as a new view: the
\* oldest stream is ended when there are too many, then what is missing is
\* replayed.
Opened(c) ==
    LET all == Append(streams, c)
    IN  IF Len(all) > MaxStreams THEN Tail(all) ELSE all

Connect(c, v) ==
    /\ c \notin Range(streams)
    /\ streams' = Opened(c)
    /\ registry' = Numbered
    /\ view' = IF c \in Watched
                 THEN [view EXCEPT ![c] =
                         Shown([v EXCEPT !.floor = epoch], registry', epoch)]
                 ELSE view
    /\ UNCHANGED <<file, at, routing, delivered, epoch, hostRestarts>>

Resume(c) == Connect(c, IF c \in Watched THEN view[c] ELSE NewView)

\* A new view starts without a cursor.  Bound: only a client whose cursor is
\* stale starts again; the others start once.
Open(c) == c \in Watched /\ view[c].stale /\ Connect(c, NewView)

\* Mutant: a heartbeat is a sign of life and no more.
HeartbeatSilent(c) == c \in Range(streams) /\ UNCHANGED transcriptVars

\* The sweep of a heartbeat, or the event repeated after 300 ms.
Heartbeat(c) ==
    /\ c \in Range(streams)
    /\ registry' = Numbered
    /\ view' = IF c \in Watched
                 THEN [view EXCEPT ![c] = Shown(@, registry', @.floor)]
                 ELSE view
    /\ UNCHANGED <<file, at, routing, delivered, epoch, streams, hostRestarts>>

\* The connection closes.
Disconnect(c) ==
    /\ c \in Range(streams)
    /\ streams' = Kept(streams, Clients \ {c})
    /\ UNCHANGED <<file, at, routing, delivered, registry, epoch, view,
                   hostRestarts>>

\* GET transcript: one page, floored by the epoch of now; an empty first
\* page hands out the epoch as the cursor.
Fetch(c) ==
    /\ c \in Watched \ Range(streams)
    /\ registry' = Numbered
    /\ LET v == Shown(view[c], registry', epoch)
       IN  view' = [view EXCEPT ![c] =
                      IF v.next = 0 THEN [v EXCEPT !.next = epoch] ELSE v]
    /\ UNCHANGED <<file, at, routing, delivered, epoch, streams, hostRestarts>>

\* handleArchive: the tail becomes the epoch, which never moves back.
Archive ==
    /\ registry' = Numbered
    /\ epoch' = Later(Len(registry'), epoch)
    /\ UNCHANGED <<file, at, routing, delivered, streams, view, hostRestarts>>

\* The host stops and starts: the registry, the streams and the messages on
\* their way through the router are gone; the epoch and the clients' cursors
\* are not.
HostRestart ==
    /\ hostRestarts < MaxHostRestarts
    /\ hostRestarts' = hostRestarts + 1
    /\ registry' = <<>> /\ streams' = <<>> /\ routing' = {}
    /\ view' = [c \in Watched |-> [view[c] EXCEPT !.stale = @ \/ view[c].next > 0]]
    /\ UNCHANGED <<file, at, delivered, epoch>>

TranscriptNext ==
    \/ \E q \in Questions, t \in 1 .. MaxTime : Post(q, t)
    \/ \E q \in Questions : Route(q)
    \/ \E a \in Answers, t \in 1 .. MaxTime : Answer(a, t)
    \/ \E a \in Answers : Deliver(a)
    \/ \E c \in Clients : Resume(c) \/ Open(c) \/ Heartbeat(c)
                          \/ Disconnect(c) \/ Fetch(c)
    \/ Archive
    \/ HostRestart

TranscriptSpec == TranscriptInit /\ [][TranscriptNext]_transcriptVars

\* The interval of a stream's heartbeat fires as long as the stream is open.
FairTranscriptSpec ==
    TranscriptSpec /\ \A c \in Watched : WF_transcriptVars(Heartbeat(c))
----------------------------------------------------------------------------
(* What the transcript promises *)

\* "after=<cursor of row N> returns rows N+1": as long as the host that gave
\* out its cursor lives, a client has been given, once each and in the order
\* of the indexes, every row up to its cursor except the archived ones,
\* however late the row came and however often the client reconnected.
GivenExactly(rows, v) ==
    /\ IsInjective(v.shown)
    /\ \A i \in 1 .. v.next :
          \/ i <= epoch
          \/ i <= Len(rows) /\ rows[i] \in Range(v.shown)
    /\ v.shown = Kept(rows, Range(v.shown))
ExactResume ==
    \A c \in Watched : ~view[c].stale => GivenExactly(registry, view[c])

\* An answer never has a lower index than the question it names, whatever
\* the clocks of the machines say and whenever the two rows are first read.
RepliesFollow ==
    \A i, j \in DOMAIN registry :
        registry[i] \in Answers /\ InReplyTo[registry[i]] = registry[j] => j < i

\* Every row that is stored reaches every open stream, unless it was archived:
\* whatever rows of other files come late, are read by other clients first or
\* are stored after their event was over.
\* (handleStream, "belt for the emitter's braces")
Archived(c, r) == \E i \in 1 .. view[c].floor : i \in DOMAIN registry /\ registry[i] = r
StreamsCatchUp ==
    \A c \in Watched, r \in Rows :
        c \in Range(streams) /\ r \in InFiles
          ~> \/ c \notin Range(streams) \/ view[c].stale
             \/ r \in Range(view[c].shown) \/ Archived(c, r)
=============================================================================
