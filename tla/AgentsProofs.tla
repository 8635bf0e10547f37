----------------------------- MODULE AgentsProofs ----------------------------
(***************************************************************************)
(* Proofs about Agents, for any groups and sessions, destinations and      *)
(* policies, and any number of messages, attempts and edits.               *)
(***************************************************************************)
EXTENDS Agents, FiniteSetTheorems, TLAPS

USE AgentsAssumption DEF AgentsAssumption

Msg == [from : Sessions, to : Groups, re : Nat, answers : Nat, tries : 0 .. MaxTries,
        state : States, at : Sessions \cup {None}]

Batch == [on : BOOLEAN, first : Nat, given : SUBSET Nat, text : BOOLEAN]

Rows(s) == Range(inbox[s])
Given(s) == {inbox[s][i] : i \in 1 .. read[s]}

(***************************************************************************)
(* The invariant, in parts.                                                *)
(***************************************************************************)
StatusOK ==
  /\ status \in [Sessions -> {"absent", "active", "closed"}]
  /\ \A s \in Sessions : status[s] = "closed" => s \in Tasks

MsgOK == msg \in Seq(Msg)

\* A row of an inbox is a message that was stored there, and it is there once.
InboxOK ==
  /\ inbox \in [Sessions -> Seq(Nat \ {0})]
  /\ \A s \in Sessions :
       /\ IsInjective(inbox[s])
       /\ \A m \in Rows(s) : m \in Numbers /\ msg[m].at = s /\ GroupOf[s] = msg[m].to

\* A batch consists of rows the container was given; one that has none is not
\* absent.
BatchOK ==
  /\ read \in [Sessions -> Nat] /\ batch \in [Sessions -> Batch]
  /\ \A s \in Sessions :
       /\ read[s] <= Len(inbox[s])
       /\ batch[s].given \subseteq Given(s)
       /\ batch[s].first \in batch[s].given \cup {0}
       /\ batch[s].on => status[s] # "absent"

\* What a message names are rows of its writer's inbox, and what it answers
\* came from the group it goes to.
Refers(m) ==
  /\ status[msg[m].from] # "absent"
  /\ msg[m].re \in Rows(msg[m].from) \cup {0}
  /\ msg[m].answers \in Rows(msg[m].from) \cup {0}
  /\ msg[m].answers # 0 => msg[m].to = GroupOf[msg[msg[m].answers].from]

RefersOK == \A m \in Numbers : Refers(m)

StoredOK ==
  \A m \in Numbers :
    /\ msg[m].at # None <=> msg[m].state = "stored"
    /\ msg[m].state = "sent" => msg[m].tries < MaxTries

EditsOK == allowed \subseteq Edges /\ policy \subseteq Edges /\ edits \in 0 .. MaxEdits

Types == StatusOK /\ MsgOK /\ InboxOK /\ BatchOK /\ RefersOK /\ StoredOK /\ EditsOK

IInv == Types /\ AnswersReturn

-----------------------------------------------------------------------------
(* Sequences and sets of positions *)

\* Appending adds one value and keeps the places of the others.
LEMMA Appended ==
  ASSUME NEW S, NEW s \in Seq(S), NEW e \in S
  PROVE  /\ Append(s, e) \in Seq(S) /\ Len(Append(s, e)) = Len(s) + 1
         /\ \A i \in 1 .. Len(s) : Append(s, e)[i] = s[i]
         /\ Append(s, e)[Len(s) + 1] = e
         /\ Range(Append(s, e)) = Range(s) \cup {e}
<1>1. DOMAIN Append(s, e) = 1 .. Len(s) + 1 /\ DOMAIN s = 1 .. Len(s)
  OBVIOUS
<1>2. \A i \in 1 .. Len(s) : Append(s, e)[i] = s[i]
  OBVIOUS
<1>3. Append(s, e)[Len(s) + 1] = e /\ Len(s) \in Nat
  OBVIOUS
<1>4. Range(Append(s, e)) = Range(s) \cup {e}
  BY <1>1, <1>2, <1>3 DEF Range
<1> QED
  BY <1>2, <1>3, <1>4

\* A new value leaves a sequence without repetition.
LEMMA AppendedOnce ==
  ASSUME NEW S, NEW s \in Seq(S), NEW e \in S, e \notin Range(s), IsInjective(s)
  PROVE  IsInjective(Append(s, e))
<1> DEFINE n == Len(s)
<1>1. n \in Nat /\ DOMAIN s = 1 .. n
  OBVIOUS
<1>2. DOMAIN Append(s, e) = 1 .. n + 1 /\ Append(s, e)[n + 1] = e
      /\ \A i \in 1 .. n : Append(s, e)[i] = s[i]
  OBVIOUS
<1>3. \A i \in 1 .. n : s[i] # e
  BY <1>1 DEF Range
<1>4. \A i, j \in 1 .. n : s[i] = s[j] => i = j
  BY <1>1 DEF IsInjective
<1> DEFINE r == Append(s, e)
<1> HIDE DEF n, r
<1>5. \A i, j \in 1 .. n + 1 : r[i] = r[j] => i = j
  <2> SUFFICES ASSUME NEW i \in 1 .. n + 1, NEW j \in 1 .. n + 1, r[i] = r[j]
               PROVE  i = j
    OBVIOUS
  <2>1. CASE i \in 1 .. n /\ j \in 1 .. n
    BY <1>2, <1>4, <2>1 DEF r
  <2>2. CASE i = n + 1 \/ j = n + 1
    BY <1>1, <1>2, <1>3, <2>2 DEF r
  <2> QED
    BY <1>1, <2>1, <2>2
<1> QED
  BY <1>2, <1>5 DEF IsInjective, r

\* Positions in a sequence have a last one.
LEMMA LastExists ==
  ASSUME NEW n \in Nat, NEW I \in SUBSET (1 .. n), I # {}
  PROVE  \E i \in I : \A j \in I : j <= i
<1> DEFINE from == {i .. n : i \in I}
           shorter == StrictSubsetOrdering(1 .. n)
<1>1. from \subseteq FiniteSubsetsOf(1 .. n) /\ from # {}
  <2>1. ASSUME NEW i \in I
        PROVE  i .. n \in FiniteSubsetsOf(1 .. n)
    <3>1. i \in Int /\ i .. n \in SUBSET (1 .. n)
      OBVIOUS
    <3>2. IsFiniteSet(i .. n)
      BY <3>1, FS_Interval
    <3> QED
      BY <3>1, <3>2 DEF FiniteSubsetsOf
  <2>2. from # {}
    <3>1. PICK i \in I : TRUE
      OBVIOUS
    <3>2. i .. n \in from
      OBVIOUS
    <3> QED
      BY <3>2
  <2> QED
    BY <2>1, <2>2
<1>2. PICK r \in from : \A s \in from : <<s, r>> \notin shorter
  <2> HIDE DEF from
  <2> QED
    BY <1>1, FS_StrictSubsetOrderingWellFounded, WFMin
<1>3. PICK i \in I : r = i .. n
  BY <1>2
<1>4. ASSUME NEW j \in I, i < j
      PROVE  FALSE
  <2>1. j .. n \in SUBSET (1 .. n) /\ i .. n \in SUBSET (1 .. n)
    OBVIOUS
  <2>2. j .. n \subseteq i .. n /\ i \in i .. n /\ i \notin j .. n
    BY <1>4
  <2>3. <<j .. n, i .. n>> \in shorter
    BY <2>1, <2>2 DEF StrictSubsetOrdering
  <2> QED
    BY <1>2, <1>3, <2>3
<1>5. \A j \in I : j <= i
  BY <1>4
<1> QED
  BY <1>5

\* There are finitely many sessions, as they have an order of creation.
LEMMA SessionsFinite == IsFiniteSet(Sessions)
<1>1. Len(Oldest) \in Nat /\ Oldest \in [1 .. Len(Oldest) -> Sessions]
  OBVIOUS
<1>2. \A s \in Sessions : \E i \in 1 .. Len(Oldest) : Oldest[i] = s
  <2>1. Sessions = Range(Oldest)
    OBVIOUS
  <2> QED
    BY <1>1, <2>1 DEF Range
<1>3. Oldest \in Surjection(1 .. Len(Oldest), Sessions)
  BY <1>1, <1>2 DEF Surjection
<1> QED
  BY <1>1, <1>3, FS_NatSurjection DEF ExistsSurjection

\* More than one session, in terms of two that differ.
LEMMA SeveralSessions ==
  ASSUME NEW W \in SUBSET Sessions, NEW a \in W, NEW b \in W, a # b
  PROVE  Cardinality(W) > 1
<1>1. IsFiniteSet(W)
  BY SessionsFinite, FS_Subset
<1>2. IsFiniteSet({a, b}) /\ Cardinality({a, b}) = 2
  <2>1. IsFiniteSet({a}) /\ Cardinality({a}) = 1
    BY FS_Singleton
  <2>2. {a} \cup {b} = {a, b} /\ b \notin {a}
    OBVIOUS
  <2>3. /\ IsFiniteSet({a} \cup {b})
        /\ Cardinality({a} \cup {b}) = IF b \in {a} THEN Cardinality({a})
                                       ELSE Cardinality({a}) + 1
    BY <2>1, FS_AddElement
  <2>4. Cardinality({a} \cup {b}) = Cardinality({a}) + 1
    BY <2>2, <2>3, Zenon
  <2>5. Cardinality({a} \cup {b}) = 2
    BY ONLY <2>1, <2>4
  <2> QED
    BY <2>2, <2>3, <2>5, Zenon
<1>3. Cardinality({a, b}) <= Cardinality(W)
  BY <1>1, FS_Subset
<1>4. Cardinality(W) \in Nat
  BY <1>1, FS_CardinalityType
<1> QED
  BY <1>2, <1>3, <1>4

LEMMA MoreSessions ==
  ASSUME NEW V \in SUBSET Sessions, NEW W \in SUBSET V, Cardinality(W) > 1
  PROVE  Cardinality(V) > 1
<1>1. IsFiniteSet(V) /\ IsFiniteSet(W)
  BY SessionsFinite, FS_Subset
<1>2. Cardinality(W) <= Cardinality(V)
  BY <1>1, FS_Subset
<1>3. Cardinality(V) \in Nat /\ Cardinality(W) \in Nat
  BY <1>1, FS_CardinalityType
<1> QED
  BY <1>2, <1>3

-----------------------------------------------------------------------------
(* What the host looks up *)

\* findSessionByAgentGroup: the group has a session that is not a task's, and
\* such a session is not closed.
LEMMA NewestIsOpen ==
  ASSUME StatusOK, NEW g \in Groups
  PROVE  /\ Newest(g) \in Sessions /\ GroupOf[Newest(g)] = g
         /\ status[Newest(g)] # "closed"
<1> DEFINE own == {i \in DOMAIN Oldest : GroupOf[Oldest[i]] = g /\ Oldest[i] \notin Tasks}
           active == {i \in own : status[Oldest[i]] = "active"}
           last == CHOOSE i \in active : \A j \in active : j <= i
           new == CHOOSE i \in own : status[Oldest[i]] = "absent"
<1>1. Len(Oldest) \in Nat /\ DOMAIN Oldest = 1 .. Len(Oldest)
      /\ \A i \in DOMAIN Oldest : Oldest[i] \in Sessions
  OBVIOUS
<1>2. Newest(g) = Oldest[IF active # {} THEN last ELSE new]
  BY DEF Newest
<1>3. \A i \in own : i \in DOMAIN Oldest /\ status[Oldest[i]] # "closed"
                     /\ GroupOf[Oldest[i]] = g
  BY <1>1 DEF StatusOK
<1>4. CASE active # {}
  <2>1. active \in SUBSET (1 .. Len(Oldest))
    BY <1>1
  <2>2. \E i \in active : \A j \in active : j <= i
    <3> HIDE DEF active
    <3> QED
      BY <1>1, <1>4, <2>1, LastExists
  <2>3. last \in active
    <3> HIDE DEF active
    <3> QED
      BY <2>2
  <2> HIDE DEF last
  <2> QED
    BY <1>1, <1>2, <1>3, <1>4, <2>3
<1>5. CASE active = {}
  <2>1. PICK s \in Sessions \ Tasks : GroupOf[s] = g
    OBVIOUS
  <2>2. PICK i \in DOMAIN Oldest : Oldest[i] = s
    <3>1. s \in Range(Oldest)
      BY <2>1
    <3> QED
      BY <3>1 DEF Range
  <2>3. i \in own /\ status[Oldest[i]] = "absent"
    BY <1>5, <2>1, <2>2 DEF StatusOK
  <2>4. new \in own
    <3> HIDE DEF own
    <3> QED
      BY <2>3
  <2> HIDE DEF new
  <2> QED
    BY <1>1, <1>2, <1>3, <1>5, <2>4
<1> QED
  BY <1>4, <1>5

\* getMostRecentPeerSourceSessionId answers with a row of that group.
LEMMA LatestIsOfGroup ==
  ASSUME InboxOK, NEW s \in Sessions, NEW g \in Groups, From(s, g) # {}
  PROVE  Latest(s, g) \in Rows(s) /\ GroupOf[msg[Latest(s, g)].from] = g
<1> DEFINE I == From(s, g)
           last == CHOOSE i \in I : \A j \in I : j <= i
<1>1. inbox[s] \in Seq(Nat \ {0})
  BY DEF InboxOK
<1>2. Len(inbox[s]) \in Nat /\ I \in SUBSET (1 .. Len(inbox[s]))
  BY <1>1 DEF From
<1>3. \E i \in I : \A j \in I : j <= i
  <2> HIDE DEF I
  <2>1. I # {}
    BY DEF I
  <2> QED
    BY <1>2, <2>1, LastExists
<1>4. last \in I
  <2> HIDE DEF I
  <2> QED
    BY <1>3
<1>5. Latest(s, g) = inbox[s][last]
  BY DEF Latest
<1> HIDE DEF last
<1> QED
  BY <1>1, <1>4, <1>5 DEF From, Range, Rows

LEMMA MessageFields ==
  ASSUME MsgOK, NEW m \in Numbers
  PROVE  msg[m] \in Msg
BY DEF MsgOK, Numbers

\* resolveTargetSession answers with a session of the group that is not closed.
LEMMA TargetIsOpen ==
  ASSUME Types, NEW m \in Numbers
  PROVE  /\ Target(m) \in Sessions /\ GroupOf[Target(m)] = msg[m].to
         /\ status[Target(m)] # "closed"
<1>1. msg[m] \in Msg
  BY MessageFields DEF Types
<1>2. msg[m].to \in Groups
  BY <1>1 DEF Msg
<1>3. /\ Newest(msg[m].to) \in Sessions /\ GroupOf[Newest(msg[m].to)] = msg[m].to
      /\ status[Newest(msg[m].to)] # "closed"
  BY <1>2, NewestIsOpen DEF Types
<1> DEFINE origin == IF msg[m].re # 0 THEN msg[msg[m].re].from
                     ELSE IF From(msg[m].from, msg[m].to) # {}
                       THEN msg[Latest(msg[m].from, msg[m].to)].from ELSE None
<1>4. Target(m) = IF origin # None /\ GroupOf[origin] = msg[m].to /\ status[origin] = "active"
                    THEN origin ELSE Newest(msg[m].to)
  BY DEF Target
<1>5. origin \in Sessions \cup {None}
  <2>1. msg[m].from \in Sessions
    BY <1>1 DEF Msg
  <2>2. \A k \in Rows(msg[m].from) : msg[k].from \in Sessions
    <3>1. \A k \in Rows(msg[m].from) : k \in Numbers
      BY <2>1 DEF Types, InboxOK
    <3> QED
      BY <3>1, MessageFields DEF Types, Msg
  <2>3. msg[m].re # 0 => msg[m].re \in Rows(msg[m].from)
    BY DEF Types, RefersOK, Refers
  <2>4. From(msg[m].from, msg[m].to) # {} =>
          Latest(msg[m].from, msg[m].to) \in Rows(msg[m].from)
    BY <1>2, <2>1, LatestIsOfGroup DEF Types
  <2> QED
    BY <2>2, <2>3, <2>4
<1> HIDE DEF origin
<1> QED
  BY <1>3, <1>4, <1>5

-----------------------------------------------------------------------------
(* The steps, by what they do to the messages *)

\* What a message says stays what it was.
Kept ==
  /\ msg' \in Seq(Msg) /\ Len(msg') >= Len(msg)
  /\ \A k \in Numbers : /\ msg'[k].from = msg[k].from /\ msg'[k].to = msg[k].to
                        /\ msg'[k].re = msg[k].re /\ msg'[k].answers = msg[k].answers

\* An agent has written.
Written ==
  \E s \in Sessions, g \in Groups :
    \E re, answers \in Rows(s) \cup {0} :
      /\ Write(s, g, re, answers)
      /\ answers # 0 => g = GroupOf[msg[answers].from]

\* One message that was on its way is no more, or has one more attempt.
Moved(m) ==
  /\ msg[m].state \in {"sent", "held"}
  /\ Len(msg') = Len(msg) /\ \A k \in Numbers \ {m} : msg'[k] = msg[k]
  /\ UNCHANGED <<read, batch, allowed, policy, edits>>

Marked(m) ==
  /\ Moved(m) /\ UNCHANGED <<status, inbox>>
  /\ msg'[m].state # "stored" /\ msg'[m].at = None
  /\ msg'[m].state = "sent" => msg'[m].tries < MaxTries

Stored(m) ==
  /\ Moved(m)
  /\ msg'[m].state = "stored" /\ msg'[m].at = Target(m)
  /\ status' = [status EXCEPT ![Target(m)] = "active"]
  /\ inbox' = [inbox EXCEPT ![Target(m)] = Append(@, m)]

\* The others leave the messages alone.
Container == \E s \in Sessions : Start(s) \/ FollowUp(s) \/ Finish(s) \/ Close(s)
Edited == \E e \in Known : Edit(e)

LEMMA WritesAreWritten ==
  ASSUME Types, NEW s \in Sessions
  PROVE  /\ \A g \in Groups : Ask(s, g) => Written
         /\ \A q \in batch[s].given : Answer(s, q) => Written
<1>1. batch[s] \in Batch /\ batch[s].given \subseteq Given(s)
      /\ batch[s].first \in batch[s].given \cup {0} /\ read[s] <= Len(inbox[s])
  BY DEF Types, BatchOK
<1>2. Given(s) \subseteq Rows(s)
  <2>1. inbox[s] \in Seq(Nat \ {0}) /\ read[s] \in Nat
    BY DEF Types, InboxOK, BatchOK
  <2> QED
    BY <1>1, <2>1 DEF Given, Rows, Range
<1>3. StampsTool(s) \subseteq Rows(s) \cup {0}
  BY <1>1, <1>2 DEF StampsTool
<1>4. \A g \in Groups : StampText(s, g) \in Rows(s) \cup {0}
  BY <1>1, <1>2, LatestIsOfGroup DEF StampText, Types
<1>5. ASSUME NEW g \in Groups, Ask(s, g)
      PROVE  Written
  BY <1>3, <1>4, <1>5 DEF Ask, Written
<1>6. ASSUME NEW q \in batch[s].given, Answer(s, q)
      PROVE  Written
  <2> DEFINE g == GroupOf[msg[q].from]
  <2>1. q \in Rows(s) /\ q \in Numbers
    BY <1>1, <1>2 DEF Types, InboxOK
  <2>2. g \in Groups
    BY <2>1, MessageFields DEF Types, Msg
  <2>3. \E re \in Rows(s) \cup {0} : Write(s, g, re, q)
    BY <1>3, <1>4, <1>6, <2>2 DEF Answer
  <2> QED
    BY <2>1, <2>2, <2>3 DEF Written
<1> QED
  BY <1>5, <1>6

\* What a change of state, attempts and place makes of a list of messages.
LEMMA Changed ==
  ASSUME MsgOK, NEW m \in Numbers, NEW new \in Msg, msg' = [msg EXCEPT ![m] = new],
         new.from = msg[m].from, new.to = msg[m].to, new.re = msg[m].re,
         new.answers = msg[m].answers
  PROVE  /\ Kept /\ Len(msg') = Len(msg)
         /\ msg'[m] = new /\ \A k \in Numbers \ {m} : msg'[k] = msg[k]
<1>1. Len(msg) \in Nat /\ DOMAIN msg = 1 .. Len(msg) /\ Numbers = 1 .. Len(msg)
  BY DEF MsgOK, Numbers
<1>2. msg' \in Seq(Msg) /\ Len(msg') = Len(msg)
  BY <1>1 DEF MsgOK
<1>3. msg'[m] = new /\ \A k \in Numbers \ {m} : msg'[k] = msg[k]
  BY <1>1
<1> QED
  BY <1>1, <1>2, <1>3 DEF Kept

LEMMA RouteMoves ==
  ASSUME Types, NEW m \in Numbers, Route(m) \/ Approve(m) \/ Reject(m)
  PROVE  Kept /\ (Marked(m) \/ Stored(m))
<1>1. msg[m] \in Msg /\ MsgOK
  BY MessageFields DEF Types
<1>2. msg[m].state \in {"sent", "held"}
  BY DEF Route, Turn, Approve, Reject
<1>3. msg[m].at = None
  BY <1>2 DEF Types, StoredOK
<1>4. UNCHANGED <<read, batch, allowed, policy, edits>>
  BY DEF Route, Approve, Reject
<1>5. ASSUME NEW x \in States \ {"stored", "sent"}, msg' = [msg EXCEPT ![m].state = x],
             UNCHANGED <<status, inbox>>
      PROVE  Kept /\ Marked(m)
  <2> DEFINE new == [msg[m] EXCEPT !.state = x]
  <2>1. new \in Msg /\ new.from = msg[m].from /\ new.to = msg[m].to /\ new.re = msg[m].re
        /\ new.answers = msg[m].answers /\ new.state = x /\ new.at = None
    BY <1>1, <1>3 DEF Msg
  <2>2. msg' = [msg EXCEPT ![m] = new]
    BY <1>5
  <2> HIDE DEF new
  <2>3. /\ Kept /\ Len(msg') = Len(msg)
        /\ msg'[m] = new /\ \A k \in Numbers \ {m} : msg'[k] = msg[k]
    BY <1>1, <2>1, <2>2, Changed
  <2> QED
    BY <1>2, <1>4, <1>5, <2>1, <2>3 DEF Marked, Moved
<1>6. ASSUME Route(m), Denied(m),
             LET tried == msg[m].tries + 1 IN
             msg' = [msg EXCEPT ![m].tries = tried,
                        ![m].state = IF tried = MaxTries THEN "failed" ELSE @],
             UNCHANGED <<status, inbox>>
      PROVE  Kept /\ Marked(m)
  <2> DEFINE tried == msg[m].tries + 1
             x == IF tried = MaxTries THEN "failed" ELSE msg[m].state
             new == [msg[m] EXCEPT !.tries = tried, !.state = x]
  <2>1. msg[m].state = "sent" /\ msg[m].tries < MaxTries
    BY <1>6 DEF Route, Turn, Types, StoredOK
  <2>2. tried \in 0 .. MaxTries /\ x \in States /\ (x = "sent" => tried < MaxTries)
    BY <1>1, <2>1 DEF Msg, States
  <2>3. x # "stored"
    BY <2>1
  <2>4. msg' = [msg EXCEPT ![m] = new]
    BY ONLY <1>6
  <2> HIDE DEF x, tried
  <2>5. new \in Msg /\ new.from = msg[m].from /\ new.to = msg[m].to /\ new.re = msg[m].re
        /\ new.answers = msg[m].answers /\ new.state = x /\ new.at = None
        /\ new.tries = tried
    BY <1>1, <1>3, <2>2 DEF Msg
  <2> HIDE DEF new
  <2>6. /\ Kept /\ Len(msg') = Len(msg)
        /\ msg'[m] = new /\ \A k \in Numbers \ {m} : msg'[k] = msg[k]
    BY <1>1, <2>4, <2>5, Changed
  <2> QED
    BY <1>2, <1>4, <1>6, <2>2, <2>3, <2>5, <2>6 DEF Marked, Moved
<1>7. ASSUME Store(m)
      PROVE  Kept /\ Stored(m)
  <2> DEFINE t == Target(m)
             new == [msg[m] EXCEPT !.state = "stored", !.at = t]
  <2>1. t \in Sessions
    BY TargetIsOpen
  <2>2. /\ msg' = [msg EXCEPT ![m].state = "stored", ![m].at = t]
        /\ status' = [status EXCEPT ![t] = "active"]
        /\ inbox' = [inbox EXCEPT ![t] = Append(@, m)]
    BY <1>7 DEF Store
  <2>3. msg' = [msg EXCEPT ![m] = new]
    BY <2>2
  <2> HIDE DEF t
  <2>4. new \in Msg /\ new.from = msg[m].from /\ new.to = msg[m].to /\ new.re = msg[m].re
        /\ new.answers = msg[m].answers /\ new.state = "stored" /\ new.at = t
    BY <1>1, <2>1 DEF Msg, States
  <2> HIDE DEF new
  <2>5. /\ Kept /\ Len(msg') = Len(msg)
        /\ msg'[m] = new /\ \A k \in Numbers \ {m} : msg'[k] = msg[k]
    BY <1>1, <2>3, <2>4, Changed
  <2> QED
    BY <1>2, <1>4, <2>2, <2>4, <2>5 DEF Stored, Moved, t
<1>8. CASE Route(m)
  BY <1>5, <1>6, <1>7, <1>8 DEF Route, States
<1>9. CASE Approve(m)
  BY <1>5, <1>7, <1>9 DEF Approve, States
<1>10. CASE Reject(m)
  BY <1>5, <1>10 DEF Reject, States
<1> QED
  BY <1>8, <1>9, <1>10

\* Every step is of one of these kinds.
LEMMA Kinds ==
  ASSUME Types, [Next]_vars
  PROVE  \/ Container \/ Edited \/ Written \/ UNCHANGED vars
         \/ \E m \in Numbers : Kept /\ (Marked(m) \/ Stored(m))
<1>1. ASSUME NEW s \in Sessions, NEW g \in Groups, Ask(s, g)
      PROVE  Written
  BY <1>1, WritesAreWritten
<1>2. ASSUME NEW s \in Sessions, NEW q \in batch[s].given, Answer(s, q)
      PROVE  Written
  BY <1>2, WritesAreWritten
<1> QED
  BY <1>1, <1>2, RouteMoves DEF Next, Container, Edited

\* What was written is a message at the end of the list.
LEMMA WrittenLast ==
  ASSUME Types, NEW s \in Sessions, NEW g \in Groups,
         NEW re \in Rows(s) \cup {0}, NEW answers \in Rows(s) \cup {0},
         Write(s, g, re, answers)
  PROVE  /\ Kept /\ Len(msg') = Len(msg) + 1
         /\ \A k \in Numbers : msg'[k] = msg[k]
         /\ msg'[Len(msg) + 1] = [from |-> s, to |-> g, re |-> re, answers |-> answers,
                                  tries |-> 0, state |-> "sent", at |-> None]
         /\ batch[s].on /\ UNCHANGED <<status, inbox, read, batch, allowed, policy, edits>>
<1> DEFINE new == [from |-> s, to |-> g, re |-> re, answers |-> answers,
                   tries |-> 0, state |-> "sent", at |-> None]
<1>1. new \in Msg
  <2>1. Rows(s) \subseteq Nat
    BY DEF Types, InboxOK, Rows, Range
  <2> QED
    BY <2>1 DEF Msg, States
<1>2. msg' = Append(msg, new) /\ batch[s].on
      /\ UNCHANGED <<status, inbox, read, batch, allowed, policy, edits>>
  BY DEF Write
<1> HIDE DEF new
<1>3. /\ msg' \in Seq(Msg) /\ Len(msg') = Len(msg) + 1 /\ msg'[Len(msg) + 1] = new
      /\ \A k \in 1 .. Len(msg) : msg'[k] = msg[k]
  BY <1>1, <1>2, Appended DEF Types, MsgOK
<1>4. Len(msg) \in Nat
  BY DEF Types, MsgOK
<1>5. Kept
  BY <1>3, <1>4 DEF Kept, Numbers
<1> QED
  BY <1>2, <1>3, <1>5 DEF new, Numbers

-----------------------------------------------------------------------------
(* The steps keep the parts of the invariant *)

LEMMA MsgStep ==
  ASSUME Types, [Next]_vars
  PROVE  Kept
<1>1. CASE UNCHANGED msg
  <2>1. Len(msg) \in Nat
    BY DEF Types, MsgOK
  <2> QED
    BY <1>1, <2>1 DEF Kept, Types, MsgOK
<1>2. Container \/ Edited \/ UNCHANGED vars => UNCHANGED msg
  BY DEF Container, Edited, Start, FollowUp, Finish, Close, Edit, vars
<1>3. Written => Kept
  BY WrittenLast DEF Written
<1> QED
  BY <1>1, <1>2, <1>3, Kinds

LEMMA StatusStep ==
  ASSUME Types, [Next]_vars
  PROVE  /\ StatusOK'
         /\ \A s \in Sessions : /\ status[s] # "absent" => status'[s] # "absent"
                                /\ status[s] = "closed" => status'[s] = "closed"
<1> USE DEF Types, StatusOK
<1>1. CASE UNCHANGED status
  BY <1>1
<1>2. ASSUME NEW s \in Sessions, Close(s)
      PROVE  /\ StatusOK'
             /\ \A t \in Sessions : /\ status[t] # "absent" => status'[t] # "absent"
                                    /\ status[t] = "closed" => status'[t] = "closed"
  BY <1>2 DEF Close
<1>3. ASSUME NEW m \in Numbers, Stored(m)
      PROVE  /\ StatusOK'
             /\ \A t \in Sessions : /\ status[t] # "absent" => status'[t] # "absent"
                                    /\ status[t] = "closed" => status'[t] = "closed"
  <2> DEFINE u == Target(m)
  <2>1. u \in Sessions /\ status[u] # "closed"
    BY TargetIsOpen
  <2>2. status' = [status EXCEPT ![u] = "active"]
    BY <1>3 DEF Stored
  <2> HIDE DEF u
  <2> QED
    BY <2>1, <2>2
<1>4. Container => UNCHANGED status \/ \E s \in Sessions : Close(s)
  BY DEF Container, Start, FollowUp, Finish
<1>5. Edited \/ UNCHANGED vars => UNCHANGED status
  BY DEF Edited, Edit, vars
<1>6. Written => UNCHANGED status
  BY WrittenLast DEF Written
<1>7. \A m \in Numbers : Marked(m) => UNCHANGED status
  BY DEF Marked
<1> QED
  BY <1>1, <1>2, <1>3, <1>4, <1>5, <1>6, <1>7, Kinds

\* Rows are only added, at the end.
Grown(s) ==
  /\ Len(inbox'[s]) >= Len(inbox[s]) /\ Rows(s) \subseteq Rows(s)'
  /\ \A i \in 1 .. Len(inbox[s]) : inbox'[s][i] = inbox[s][i]

LEMMA InboxSame ==
  ASSUME Types, Kept, UNCHANGED inbox,
         \A m \in Numbers : msg[m].at # None => msg'[m].at = msg[m].at
  PROVE  InboxOK' /\ \A s \in Sessions : Grown(s)
<1>1. \A s \in Sessions : Rows(s)' = Rows(s) /\ Len(inbox[s]) \in Nat
  BY DEF Rows, Types, InboxOK
<1>2. ASSUME NEW s \in Sessions, NEW m \in Rows(s)
      PROVE  m \in Numbers' /\ msg'[m].at = s /\ GroupOf[s] = msg'[m].to
  <2>1. m \in Numbers /\ msg[m].at = s /\ GroupOf[s] = msg[m].to /\ s # None
    BY <1>2 DEF Types, InboxOK
  <2>2. m \in Numbers'
    BY <2>1 DEF Kept, Numbers, Types, MsgOK
  <2> QED
    BY <2>1, <2>2 DEF Kept
<1>3. InboxOK'
  BY <1>1, <1>2 DEF Types, InboxOK
<1> QED
  BY <1>1, <1>3 DEF Grown

LEMMA InboxStep ==
  ASSUME Types, [Next]_vars
  PROVE  InboxOK' /\ \A s \in Sessions : Grown(s)
<1>0. Kept
  BY MsgStep
<1>1. CASE Container \/ Edited \/ UNCHANGED vars
  <2>1. UNCHANGED <<inbox, msg>>
    BY <1>1 DEF Container, Edited, Start, FollowUp, Finish, Close, Edit, vars
  <2> QED
    BY <1>0, <2>1, InboxSame
<1>2. CASE Written
  <2>1. UNCHANGED inbox /\ \A k \in Numbers : msg'[k] = msg[k]
    BY <1>2, WrittenLast DEF Written
  <2> QED
    BY <1>0, <2>1, InboxSame
<1>3. ASSUME NEW m \in Numbers, Marked(m)
      PROVE  InboxOK' /\ \A s \in Sessions : Grown(s)
  <2>1. UNCHANGED inbox /\ \A k \in Numbers \ {m} : msg'[k] = msg[k]
    BY <1>3 DEF Marked, Moved
  <2>2. msg[m].at = None
    BY <1>3 DEF Marked, Moved, Types, StoredOK
  <2> QED
    BY <1>0, <2>1, <2>2, InboxSame
<1>4. ASSUME NEW m \in Numbers, Stored(m)
      PROVE  InboxOK' /\ \A s \in Sessions : Grown(s)
  <2>1. PICK t \in Sessions : t = Target(m) /\ GroupOf[t] = msg[m].to
    BY TargetIsOpen
  <2>2. /\ msg[m].at = None /\ msg'[m].at = t /\ Len(msg') = Len(msg)
        /\ \A k \in Numbers \ {m} : msg'[k] = msg[k]
        /\ inbox' = [inbox EXCEPT ![t] = Append(@, m)]
    BY <1>4, <2>1 DEF Stored, Moved, Types, StoredOK
  <2>3. inbox[t] \in Seq(Nat \ {0}) /\ m \in Nat \ {0} /\ t # None
    BY <2>1 DEF Types, InboxOK, Numbers, MsgOK
  <2>4. /\ inbox'[t] \in Seq(Nat \ {0}) /\ Len(inbox'[t]) = Len(inbox[t]) + 1
        /\ \A i \in 1 .. Len(inbox[t]) : inbox'[t][i] = inbox[t][i]
        /\ inbox'[t][Len(inbox[t]) + 1] = m
        /\ Range(inbox'[t]) = Range(inbox[t]) \cup {m}
    <3>1. inbox'[t] = Append(inbox[t], m)
      BY <2>1, <2>2 DEF Types, InboxOK
    <3> QED
      <4> DEFINE old == inbox[t]
                 S == Nat \ {0}
      <4>1. old \in Seq(S) /\ m \in S /\ inbox'[t] = Append(old, m)
        BY <2>3, <3>1
      <4> HIDE DEF old, S
      <4>2. /\ Append(old, m) \in Seq(S) /\ Len(Append(old, m)) = Len(old) + 1
            /\ \A i \in 1 .. Len(old) : Append(old, m)[i] = old[i]
            /\ Append(old, m)[Len(old) + 1] = m
            /\ Range(Append(old, m)) = Range(old) \cup {m}
        BY ONLY <4>1, Appended
      <4> QED
        BY ONLY <4>1, <4>2 DEF old, S
  <2>5. \A s \in Sessions \ {t} : inbox'[s] = inbox[s]
    BY <2>1, <2>2 DEF Types, InboxOK
  <2>6. m \notin Rows(t)
    BY <2>1, <2>2, <2>3 DEF Types, InboxOK
  <2>7. IsInjective(inbox'[t])
    <3>1. inbox'[t] = Append(inbox[t], m)
      BY <2>1, <2>2 DEF Types, InboxOK
    <3>2. IsInjective(inbox[t]) /\ m \notin Range(inbox[t])
      BY <2>1, <2>6 DEF Types, InboxOK, Rows
    <3> QED
      BY ONLY <2>3, <3>1, <3>2, AppendedOnce
  <2>8. ASSUME NEW s \in Sessions, NEW k \in Rows(s)'
        PROVE  k \in Numbers' /\ msg'[k].at = s /\ GroupOf[s] = msg'[k].to
    <3>1. Numbers' = Numbers
      BY <2>2 DEF Numbers
    <3>2. CASE k \in Rows(s)
      <4>1. k \in Numbers /\ msg[k].at = s /\ GroupOf[s] = msg[k].to /\ s # None
        BY <3>2 DEF Types, InboxOK
      <4>2. k # m
        BY <2>2, <4>1
      <4> QED
        BY <2>2, <3>1, <4>1, <4>2
    <3>3. CASE k \notin Rows(s)
      <4>1. s = t /\ k = m
        BY <2>4, <2>5, <2>8, <3>3 DEF Rows
      <4> QED
        BY <1>0, <2>1, <2>2, <3>1, <4>1 DEF Kept
    <3> QED
      BY <3>2, <3>3
  <2>9. inbox' \in [Sessions -> Seq(Nat \ {0})]
    BY <2>1, <2>2, <2>4 DEF Types, InboxOK
  <2>10. \A s \in Sessions : IsInjective(inbox'[s])
    BY <2>5, <2>7 DEF Types, InboxOK
  <2>11. InboxOK'
    BY <2>8, <2>9, <2>10 DEF InboxOK
  <2>12. Grown(t)
    <3>1. Len(inbox[t]) \in Nat
      BY <2>3
    <3>2. Rows(t)' = Rows(t) \cup {m}
      BY <2>4 DEF Rows
    <3> QED
      BY <2>4, <3>1, <3>2 DEF Grown
  <2>13. \A s \in Sessions \ {t} : Grown(s)
    <3>1. \A s \in Sessions : Len(inbox[s]) \in Nat
      BY DEF Types, InboxOK
    <3> QED
      BY <2>5, <3>1 DEF Grown, Rows
  <2> QED
    BY <2>11, <2>12, <2>13
<1> QED
  BY <1>1, <1>2, <1>3, <1>4, Kinds

\* A container whose batch is what it was keeps its rows.
LEMMA BatchKept ==
  ASSUME Types, NEW s \in Sessions, Grown(s), inbox'[s] \in Seq(Nat \ {0}),
         read'[s] = read[s], batch'[s] = batch[s],
         status[s] # "absent" => status'[s] # "absent"
  PROVE  /\ read'[s] <= Len(inbox'[s])
         /\ batch'[s].given \subseteq {inbox'[s][i] : i \in 1 .. read'[s]}
         /\ batch'[s].first \in batch'[s].given \cup {0}
         /\ batch'[s].on => status'[s] # "absent"
<1>1. /\ read[s] <= Len(inbox[s]) /\ read[s] \in Nat /\ batch[s].given \subseteq Given(s)
      /\ batch[s].first \in batch[s].given \cup {0}
      /\ batch[s].on => status[s] # "absent"
  BY DEF Types, BatchOK
<1>2. Len(inbox[s]) \in Nat /\ Len(inbox'[s]) \in Nat
  BY DEF Types, InboxOK
<1>3. \A i \in 1 .. read[s] : inbox'[s][i] = inbox[s][i]
  <2>1. \A i \in 1 .. Len(inbox[s]) : inbox'[s][i] = inbox[s][i]
    BY DEF Grown
  <2>2. \A i \in 1 .. read[s] : i \in 1 .. Len(inbox[s])
    BY ONLY <1>1, <1>2
  <2> QED
    BY ONLY <2>1, <2>2
<1>4. Given(s) = {inbox'[s][i] : i \in 1 .. read'[s]}
  <2>1. {inbox[s][i] : i \in 1 .. read[s]} = {inbox'[s][i] : i \in 1 .. read[s]}
    BY ONLY <1>3
  <2> QED
    BY <2>1 DEF Given
<1>5. read'[s] <= Len(inbox'[s])
  BY <1>1, <1>2 DEF Grown
<1> QED
  BY <1>1, <1>4, <1>5

\* A container that reads has read all of its inbox.
LEMMA ReadAll ==
  ASSUME Types, NEW s \in Sessions
  PROVE  /\ Len(inbox[s]) \in Nat
         /\ Given(s) \subseteq Rows(s) /\ Unread(s) \subseteq Rows(s) /\ Rows(s) \subseteq Nat
         /\ Rows(s) = {inbox[s][i] : i \in 1 .. Len(inbox[s])}
         /\ Unread(s) # {} => inbox[s][read[s] + 1] \in Unread(s)
<1>1. inbox[s] \in Seq(Nat \ {0}) /\ read[s] \in Nat /\ read[s] <= Len(inbox[s])
  BY DEF Types, InboxOK, BatchOK
<1>2. DOMAIN inbox[s] = 1 .. Len(inbox[s]) /\ Len(inbox[s]) \in Nat
  BY <1>1
<1>3. Rows(s) = {inbox[s][i] : i \in 1 .. Len(inbox[s])}
  BY <1>2 DEF Rows, Range
<1>3a. Rows(s) \subseteq Nat
  <2>1. \A i \in 1 .. Len(inbox[s]) : inbox[s][i] \in Nat
    BY ONLY <1>1
  <2> QED
    BY ONLY <1>3, <2>1
<1>4. Given(s) \subseteq Rows(s) /\ Unread(s) \subseteq Rows(s)
  <2>1. 1 .. read[s] \subseteq 1 .. Len(inbox[s])
        /\ read[s] + 1 .. Len(inbox[s]) \subseteq 1 .. Len(inbox[s])
    BY ONLY <1>1, <1>2
  <2> QED
    BY <1>3, <2>1 DEF Given, Unread
<1>5. Unread(s) # {} => inbox[s][read[s] + 1] \in Unread(s)
  <2> SUFFICES ASSUME Unread(s) # {}
               PROVE  inbox[s][read[s] + 1] \in Unread(s)
    OBVIOUS
  <2>1. PICK i \in read[s] + 1 .. Len(inbox[s]) : TRUE
    BY DEF Unread
  <2>2. read[s] + 1 \in read[s] + 1 .. Len(inbox[s])
    BY ONLY <1>1, <1>2, <2>1
  <2> QED
    BY <2>2 DEF Unread
<1> QED
  BY <1>2, <1>3, <1>3a, <1>4, <1>5

LEMMA BatchStep ==
  ASSUME Types, [Next]_vars
  PROVE  BatchOK'
<1> DEFINE Whole(s) == /\ read'[s] <= Len(inbox'[s])
                       /\ batch'[s].given \subseteq {inbox'[s][i] : i \in 1 .. read'[s]}
                       /\ batch'[s].first \in batch'[s].given \cup {0}
                       /\ batch'[s].on => status'[s] # "absent"
<1>1. read \in [Sessions -> Nat] /\ batch \in [Sessions -> Batch]
  BY DEF Types, BatchOK
<1>2. ASSUME NEW s \in Sessions, read'[s] = read[s], batch'[s] = batch[s]
      PROVE  Whole(s)
  <2>1. Grown(s) /\ inbox'[s] \in Seq(Nat \ {0})
    BY InboxStep DEF InboxOK
  <2> QED
    BY <1>2, <2>1, BatchKept, StatusStep
<1>3. CASE UNCHANGED <<read, batch>>
  BY <1>1, <1>2, <1>3 DEF BatchOK, Given
<1>4. ASSUME NEW s \in Sessions, NEW b \in Batch, read' = [read EXCEPT ![s] = Len(inbox[s])],
             batch' = [batch EXCEPT ![s] = b], UNCHANGED inbox,
             b.given \subseteq Rows(s), b.first \in b.given \cup {0}, status'[s] # "absent"
      PROVE  BatchOK'
  <2>1. read' \in [Sessions -> Nat] /\ batch' \in [Sessions -> Batch]
    BY <1>1, <1>4, ReadAll
  <2>2. read'[s] = Len(inbox'[s]) /\ batch'[s] = b /\ inbox'[s] = inbox[s]
    BY <1>1, <1>4
  <2>3. Whole(s)
    BY <1>4, <2>2, ReadAll
  <2>4. \A t \in Sessions \ {s} : Whole(t)
    BY <1>1, <1>2, <1>4
  <2> HIDE DEF Whole
  <2>5. \A t \in Sessions : Whole(t)
    BY <2>3, <2>4
  <2> QED
    BY <2>1, <2>5 DEF BatchOK, Given, Whole
<1>5. ASSUME NEW s \in Sessions, Start(s)
      PROVE  BatchOK'
  <2>1. PICK first \in {0} \cup (IF Unread(s) = {} THEN {} ELSE {inbox[s][read[s] + 1]}) :
          batch' = [batch EXCEPT ![s] =
                      [on |-> TRUE, first |-> first, given |-> Unread(s),
                       text |-> s \notin Tasks \/ Unread(s) # {}]]
    BY <1>5 DEF Start
  <2> DEFINE b == [on |-> TRUE, first |-> first, given |-> Unread(s),
                   text |-> s \notin Tasks \/ Unread(s) # {}]
  <2>2. first \in Unread(s) \cup {0} /\ Unread(s) \subseteq Nat /\ Unread(s) \subseteq Rows(s)
    BY <2>1, ReadAll
  <2>3. b \in Batch /\ b.given = Unread(s) /\ b.first = first
    BY <2>2 DEF Batch
  <2>4. read' = [read EXCEPT ![s] = Len(inbox[s])] /\ UNCHANGED <<inbox, status>>
        /\ status[s] = "active"
    BY <1>5 DEF Start
  <2> HIDE DEF b
  <2> QED
    BY <1>4, <2>1, <2>2, <2>3, <2>4 DEF b
<1>6. ASSUME NEW s \in Sessions, FollowUp(s)
      PROVE  BatchOK'
  <2> DEFINE b == [batch[s] EXCEPT !.given = @ \cup Unread(s)]
  <2>1. batch' = [batch EXCEPT ![s] = b] /\ read' = [read EXCEPT ![s] = Len(inbox[s])]
        /\ UNCHANGED <<inbox, status>> /\ batch[s].on
    BY <1>6 DEF FollowUp
  <2>2. batch[s] \in Batch /\ batch[s].given \subseteq Given(s) /\ status[s] # "absent"
        /\ batch[s].first \in batch[s].given \cup {0}
    BY <2>1 DEF Types, BatchOK
  <2>3. b \in Batch /\ b.given = batch[s].given \cup Unread(s) /\ b.first = batch[s].first
    BY <2>2, ReadAll DEF Batch
  <2>4. b.given \subseteq Rows(s) /\ b.first \in b.given \cup {0}
    BY <2>2, <2>3, ReadAll
  <2> HIDE DEF b
  <2> QED
    BY <1>4, <2>1, <2>2, <2>3, <2>4
<1>7. ASSUME NEW s \in Sessions, Finish(s)
      PROVE  BatchOK'
  <2>1. batch' = [batch EXCEPT ![s] = Idle] /\ UNCHANGED <<read, inbox>>
    BY <1>7 DEF Finish
  <2>2. Idle \in Batch /\ ~Idle.on /\ Idle.given = {} /\ Idle.first = 0
    BY DEF Idle, Batch
  <2> HIDE DEF Whole
  <2>3. \A t \in Sessions \ {s} : Whole(t)
    BY <1>1, <1>2, <2>1
  <2>4. Whole(s)
    BY <1>1, <2>1, <2>2 DEF Whole, Types, BatchOK
  <2>5. batch' \in [Sessions -> Batch] /\ read' \in [Sessions -> Nat]
    BY <1>1, <2>1, <2>2
  <2>6. \A t \in Sessions : Whole(t)
    BY <2>3, <2>4
  <2> QED
    BY <2>5, <2>6 DEF BatchOK, Given, Whole
<1>8. Edited \/ UNCHANGED vars \/ (\E s \in Sessions : Close(s)) => UNCHANGED <<read, batch>>
  BY DEF Edited, Edit, vars, Close
<1>9. Written => UNCHANGED <<read, batch>>
  BY WrittenLast DEF Written
<1>10. \A m \in Numbers : Marked(m) \/ Stored(m) => UNCHANGED <<read, batch>>
  BY DEF Marked, Stored, Moved
<1> QED
  BY <1>3, <1>5, <1>6, <1>7, <1>8, <1>9, <1>10, Kinds DEF Container

\* What a message refers to stays where it is.
LEMMA RefersKept ==
  ASSUME Types, [Next]_vars, NEW m \in Numbers
  PROVE  Refers(m)'
<1>1. Kept /\ Refers(m)
  BY MsgStep DEF Types, RefersOK
<1>2. msg[m].from \in Sessions
  BY MessageFields DEF Types, Msg
<1>3. status[msg[m].from] # "absent" => status'[msg[m].from] # "absent"
  BY <1>2, StatusStep
<1>4. Rows(msg[m].from) \subseteq {inbox'[msg[m].from][i] : i \in DOMAIN inbox'[msg[m].from]}
  <2>1. PICK s \in Sessions : s = msg[m].from
    BY <1>2
  <2>2. Rows(s) \subseteq Rows(s)'
    BY InboxStep DEF Grown
  <2>3. Rows(s)' = {inbox'[s][i] : i \in DOMAIN inbox'[s]} /\ Rows(msg[m].from) = Rows(s)
    BY <2>1 DEF Rows, Range
  <2> QED
    BY ONLY <2>1, <2>2, <2>3
<1>5. msg[m].answers # 0 => msg[m].answers \in Numbers
  BY <1>1, <1>2 DEF Refers, Types, InboxOK
<1>6. /\ msg'[m].from = msg[m].from /\ msg'[m].to = msg[m].to
      /\ msg'[m].re = msg[m].re /\ msg'[m].answers = msg[m].answers
  BY <1>1 DEF Kept
<1>7. msg[m].answers # 0 => msg'[msg[m].answers].from = msg[msg[m].answers].from
  BY <1>1, <1>5 DEF Kept
<1>8. status'[msg[m].from] # "absent"
  BY <1>1, <1>3 DEF Refers
<1>9. {msg[m].re, msg[m].answers} \subseteq Range(inbox'[msg[m].from]) \cup {0}
  BY <1>1, <1>4 DEF Refers, Range
<1>10. msg[m].answers # 0 => msg[m].to = GroupOf[msg[msg[m].answers].from]
  BY <1>1 DEF Refers
<1> QED
  BY <1>6, <1>7, <1>8, <1>9, <1>10 DEF Refers, Rows

LEMMA RefersStep ==
  ASSUME Types, [Next]_vars
  PROVE  RefersOK'
<1>1. CASE Numbers' = Numbers
  BY <1>1, RefersKept DEF RefersOK
<1>2. CASE Written
  <2>0. PICK s \in Sessions, g \in Groups :
          \E re, answers \in Rows(s) \cup {0} :
            Write(s, g, re, answers) /\ (answers # 0 => g = GroupOf[msg[answers].from])
    BY <1>2 DEF Written
  <2>1. PICK re \in Rows(s) \cup {0}, answers \in Rows(s) \cup {0} :
          Write(s, g, re, answers) /\ (answers # 0 => g = GroupOf[msg[answers].from])
    BY <2>0
  <2> DEFINE n == Len(msg) + 1
  <2>2a. /\ Len(msg') = n /\ \A k \in Numbers : msg'[k] = msg[k]
         /\ msg'[n] = [from |-> s, to |-> g, re |-> re, answers |-> answers,
                       tries |-> 0, state |-> "sent", at |-> None]
         /\ batch[s].on /\ UNCHANGED <<status, inbox>>
    BY ONLY Types, <2>1, WrittenLast DEF n
  <2>2. /\ Len(msg') = n /\ \A k \in Numbers : msg'[k] = msg[k]
        /\ msg'[n].from = s /\ msg'[n].to = g /\ msg'[n].re = re /\ msg'[n].answers = answers
        /\ batch[s].on /\ UNCHANGED <<status, inbox>>
    BY <2>2a
  <2>3. Numbers' = Numbers \cup {n} /\ n \in Nat
    BY <2>2 DEF Numbers, Types, MsgOK
  <2>4. status[s] # "absent"
    BY <2>2 DEF Types, BatchOK
  <2>5. answers # 0 => answers \in Numbers
    BY <2>1 DEF Types, InboxOK
  <2> HIDE DEF n
  <2>6. \A m \in Numbers' : m \notin Numbers => Refers(m)'
    BY <2>1, <2>2, <2>3, <2>4, <2>5 DEF Refers, Rows
  <2> QED
    BY <2>6, RefersKept DEF RefersOK
<1>3. Container \/ Edited \/ UNCHANGED vars => Numbers' = Numbers
  BY DEF Container, Edited, Start, FollowUp, Finish, Close, Edit, vars, Numbers
<1>4. \A m \in Numbers : Marked(m) \/ Stored(m) => Numbers' = Numbers
  BY DEF Marked, Stored, Moved, Numbers
<1> QED
  BY <1>1, <1>2, <1>3, <1>4, Kinds

LEMMA StoredStep ==
  ASSUME Types, [Next]_vars
  PROVE  StoredOK'
<1> USE DEF Types, StoredOK
<1>1. CASE Container \/ Edited \/ UNCHANGED vars
  <2>1. UNCHANGED msg
    BY <1>1 DEF Container, Edited, Start, FollowUp, Finish, Close, Edit, vars
  <2> QED
    BY <2>1 DEF Numbers
<1>2. CASE Written
  <2>1. PICK s \in Sessions, g \in Groups :
          \E re, answers \in Rows(s) \cup {0} : Write(s, g, re, answers)
    BY <1>2 DEF Written
  <2> DEFINE n == Len(msg) + 1
  <2>2a. PICK re \in Rows(s) \cup {0}, answers \in Rows(s) \cup {0} : Write(s, g, re, answers)
    BY <2>1
  <2>2b. /\ Len(msg') = n /\ \A k \in Numbers : msg'[k] = msg[k]
         /\ msg'[n] = [from |-> s, to |-> g, re |-> re, answers |-> answers,
                       tries |-> 0, state |-> "sent", at |-> None]
    BY <2>2a, WrittenLast, Zenon
  <2>2. /\ Len(msg') = n /\ \A k \in Numbers : msg'[k] = msg[k]
        /\ msg'[n].state = "sent" /\ msg'[n].at = None /\ msg'[n].tries = 0
    BY <2>2b
  <2>3. Numbers' = Numbers \cup {n} /\ 0 < MaxTries
    BY <2>2 DEF Numbers, MsgOK
  <2> HIDE DEF n
  <2> QED
    BY <2>2, <2>3
<1>3. ASSUME NEW m \in Numbers, Marked(m)
      PROVE  StoredOK'
  BY <1>3 DEF Marked, Moved, Numbers
<1>4. ASSUME NEW m \in Numbers, Stored(m)
      PROVE  StoredOK'
  <2>1. Target(m) # None
    BY TargetIsOpen
  <2> QED
    BY <1>4, <2>1 DEF Stored, Moved, Numbers
<1> QED
  BY <1>1, <1>2, <1>3, <1>4, Kinds

LEMMA EditsStep ==
  ASSUME Types, [Next]_vars
  PROVE  EditsOK'
<1> USE DEF Types, EditsOK
<1>1. ASSUME NEW e \in Known, Edit(e)
      PROVE  EditsOK'
  BY <1>1 DEF Edit, SymDiff
<1>2. CASE UNCHANGED <<allowed, policy, edits>>
  BY <1>2
<1>3. Container \/ UNCHANGED vars => UNCHANGED <<allowed, policy, edits>>
  BY DEF Container, Start, FollowUp, Finish, Close, vars
<1>4. Written => UNCHANGED <<allowed, policy, edits>>
  BY WrittenLast DEF Written
<1>5. \A m \in Numbers : Marked(m) \/ Stored(m) => UNCHANGED <<allowed, policy, edits>>
  BY DEF Marked, Stored, Moved
<1> QED
  BY <1>1, <1>2, <1>3, <1>4, <1>5, Kinds DEF Edited

LEMMA TypesStep ==
  ASSUME Types, [Next]_vars
  PROVE  Types'
<1>1. MsgOK'
  BY MsgStep DEF Kept, MsgOK
<1> QED
  BY <1>1, StatusStep, InboxStep, BatchStep, RefersStep, StoredStep, EditsStep DEF Types


LEMMA InitTypes ==
  ASSUME Init
  PROVE  Types
<1> USE DEF Init
<1>1. StatusOK
  BY DEF StatusOK
<1>2. MsgOK /\ Numbers = {}
  BY DEF MsgOK, Numbers
<1>3. InboxOK
  <2>1. \A s \in Sessions : inbox[s] = <<>> /\ Rows(s) = {}
    BY DEF Rows, Range
  <2>2. inbox \in [Sessions -> Seq(Nat \ {0})]
    OBVIOUS
  <2> QED
    BY <2>1, <2>2 DEF InboxOK, IsInjective
<1>4. BatchOK
  BY DEF BatchOK, Batch, Idle, Given
<1>5. RefersOK /\ StoredOK /\ EditsOK
  BY <1>2 DEF RefersOK, StoredOK, EditsOK
<1> QED
  BY <1>1, <1>2, <1>3, <1>4, <1>5 DEF Types

-----------------------------------------------------------------------------
(* Answers go back to the session that asked *)

\* Who wrote to session s from group g: the writers are sessions, each row of
\* that group has one of them, and their set only grows.
LEMMA WritersAre ==
  ASSUME Types, NEW s \in Sessions, NEW g \in Groups
  PROVE  /\ Writers(s, g) \subseteq Sessions
         /\ \A k \in Rows(s) : GroupOf[msg[k].from] = g =>
              msg[k].from \in Writers(s, g) /\ From(s, g) # {}
<1>1. \A i \in DOMAIN inbox[s] : inbox[s][i] \in Rows(s)
  BY DEF Rows, Range
<1>2. \A k \in Rows(s) : k \in Numbers
  BY DEF Types, InboxOK
<1>3. \A k \in Numbers : msg[k].from \in Sessions
  BY MessageFields DEF Types, Msg
<1>4. Writers(s, g) \subseteq Sessions
  BY <1>1, <1>2, <1>3 DEF Writers, From
<1>5. ASSUME NEW k \in Rows(s), GroupOf[msg[k].from] = g
      PROVE  msg[k].from \in Writers(s, g) /\ From(s, g) # {}
  <2>1. PICK i \in DOMAIN inbox[s] : inbox[s][i] = k
    BY DEF Rows, Range
  <2>2. i \in From(s, g)
    BY <1>5, <2>1 DEF From
  <2> QED
    BY <2>1, <2>2 DEF Writers
<1> QED
  BY <1>4, <1>5

LEMMA WritersGrow ==
  ASSUME Types, [Next]_vars, NEW s \in Sessions, NEW g \in Groups
  PROVE  Writers(s, g) \subseteq Writers(s, g)'
<1>1. Grown(s) /\ Kept /\ inbox[s] \in Seq(Nat \ {0}) /\ inbox'[s] \in Seq(Nat \ {0})
  BY InboxStep, MsgStep DEF Types, InboxOK
<1>2. Len(inbox[s]) \in Nat /\ Len(inbox'[s]) \in Nat /\ Len(inbox'[s]) >= Len(inbox[s])
      /\ DOMAIN inbox[s] = 1 .. Len(inbox[s]) /\ DOMAIN inbox'[s] = 1 .. Len(inbox'[s])
  BY <1>1 DEF Grown
<1>3. \A i \in DOMAIN inbox[s] : i \in DOMAIN inbox'[s]
  BY ONLY <1>2
<1>4. ASSUME NEW i \in From(s, g)
      PROVE  i \in From(s, g)' /\ msg'[inbox'[s][i]].from = msg[inbox[s][i]].from
  <2>1. i \in DOMAIN inbox[s] /\ GroupOf[msg[inbox[s][i]].from] = g
    BY DEF From
  <2>2. inbox'[s][i] = inbox[s][i] /\ i \in DOMAIN inbox'[s]
    BY <1>1, <1>2, <1>3, <2>1 DEF Grown
  <2>3. inbox[s][i] \in Numbers
    BY <2>1 DEF Types, InboxOK, Rows, Range
  <2>4. msg'[inbox'[s][i]].from = msg[inbox[s][i]].from
    BY <1>1, <2>2, <2>3 DEF Kept
  <2> QED
    BY <2>1, <2>2, <2>4 DEF From
<1> QED
  BY <1>4 DEF Writers

\* What AnswersReturn says of one message that goes to session t.
Returns(m, t) ==
  LET q == msg[m].answers  s == msg[m].from IN
  \/ t = msg[q].from
  \/ status[msg[q].from] = "closed"
  \/ /\ msg[m].re # q
     /\ \/ Cardinality(Writers(s, msg[m].to)) > 1
        \/ msg[m].re # 0 /\ GroupOf[msg[msg[m].re].from] # msg[m].to

\* The host's choice for an answer.
LEMMA AnswerTarget ==
  ASSUME Types, NEW m \in Numbers, msg[m].answers # 0
  PROVE  Returns(m, Target(m))
<1> DEFINE q == msg[m].answers
           s == msg[m].from
           g == msg[m].to
           re == msg[m].re
<1>1. s \in Sessions /\ g \in Groups
  BY MessageFields DEF Types, Msg
<1>2. q \in Rows(s) /\ g = GroupOf[msg[q].from] /\ re \in Rows(s) \cup {0}
  BY DEF Types, RefersOK, Refers
<1>3. \A k \in Rows(s) : k \in Numbers /\ msg[k].from \in Sessions
  <2>1. \A k \in Rows(s) : k \in Numbers
    BY <1>1 DEF Types, InboxOK
  <2> QED
    BY <2>1, MessageFields DEF Types, Msg
<1>4. status[msg[q].from] # "absent"
  BY <1>2, <1>3 DEF Types, RefersOK, Refers
<1>5. \A k \in Rows(s) : GroupOf[msg[k].from] = g =>
        msg[k].from \in Writers(s, g) /\ From(s, g) # {}
  BY <1>1, WritersAre
<1>6. ASSUME NEW k \in Rows(s), GroupOf[msg[k].from] = g, msg[k].from # msg[q].from
      PROVE  Cardinality(Writers(s, g)) > 1
  <2>1. Writers(s, g) \in SUBSET Sessions
    BY <1>1, WritersAre
  <2>2. msg[k].from \in Writers(s, g) /\ msg[q].from \in Writers(s, g)
    BY <1>2, <1>5, <1>6
  <2> QED
    BY <1>6, <2>1, <2>2, SeveralSessions
<1>7. ASSUME status[msg[q].from] = "active",
             NEW k \in Rows(s), msg[k].from = msg[q].from,
             re = k \/ (re = 0 /\ k = Latest(s, g))
      PROVE  Target(m) = msg[q].from
  <2>1. msg[q].from # None
    BY <1>2, <1>3
  <2>2. k # 0 /\ From(s, g) # {}
    <3>1. 0 \notin Rows(s)
      <4>1. inbox[s] \in Seq(Nat \ {0})
        BY <1>1 DEF Types, InboxOK
      <4>2. \A i \in DOMAIN inbox[s] : inbox[s][i] # 0
        BY ONLY <4>1
      <4> QED
        BY <4>2 DEF Rows, Range
    <3> QED
      BY <1>2, <1>5, <3>1
  <2> QED
    BY <1>2, <1>7, <2>1, <2>2 DEF Target
<1>8. status[msg[q].from] \in {"active", "closed"}
  BY <1>2, <1>3, <1>4 DEF Types, StatusOK
<1>9. CASE re = 0
  <2>1. Latest(s, g) \in Rows(s) /\ GroupOf[msg[Latest(s, g)].from] = g
    <3>1. InboxOK /\ From(s, g) # {}
      BY <1>2, <1>5 DEF Types
    <3> HIDE DEF s, g
    <3> QED
      BY ONLY <1>1, <3>1, LatestIsOfGroup
  <2>2. re # q
    BY <1>9
  <2> QED
    BY <1>6, <1>7, <1>8, <1>9, <2>1, <2>2 DEF Returns
<1>10. CASE re # 0
  <2>1. re \in Rows(s)
    BY <1>2, <1>10
  <2>2. CASE msg[re].from = msg[q].from
    <3>1. status[msg[q].from] = "active" => Target(m) = msg[q].from
      BY <1>7, <2>1, <2>2
    <3> QED
      BY <1>8, <3>1 DEF Returns
  <2>3. CASE msg[re].from # msg[q].from
    BY <1>6, <1>10, <2>1, <2>3 DEF Returns
  <2> QED
    BY <2>2, <2>3
<1> QED
  BY <1>9, <1>10

\* It stays true of a message that was stored.
LEMMA ReturnsKept ==
  ASSUME Types, [Next]_vars, NEW m \in Numbers, msg[m].answers # 0,
         NEW t \in Sessions, Returns(m, t)
  PROVE  Returns(m, t)'
<1> DEFINE q == msg[m].answers
<1>1. PICK s \in Sessions, g \in Groups : s = msg[m].from /\ g = msg[m].to
  BY MessageFields DEF Types, Msg
<1>2. /\ Kept
      /\ msg'[m].from = s /\ msg'[m].to = g
      /\ msg'[m].re = msg[m].re /\ msg'[m].answers = q
  BY <1>1, MsgStep DEF Kept
<1>3. q \in Rows(s) /\ msg[m].re \in Rows(s) \cup {0}
  BY <1>1 DEF Types, RefersOK, Refers
<1>4. \A k \in Rows(s) : k \in Numbers /\ msg'[k].from = msg[k].from /\ msg[k].from \in Sessions
  <2>1. \A k \in Rows(s) : k \in Numbers
    BY DEF Types, InboxOK
  <2> QED
    BY <1>2, <2>1, MessageFields DEF Kept, Types, Msg
<1>5. status[msg[q].from] = "closed" => status'[msg[q].from] = "closed"
  BY <1>3, <1>4, StatusStep
<1>6. Cardinality(Writers(s, g)) > 1 => Cardinality(Writers(s, g)') > 1
  <2>1. \A k \in Numbers' : msg'[k].from \in Sessions
    <3>1. msg' \in Seq(Msg)
      BY <1>2 DEF Kept
    <3>2. \A k \in 1 .. Len(msg') : msg'[k] \in Msg
      BY ONLY <3>1
    <3> QED
      BY <3>2 DEF Numbers, Msg
  <2>2. \A i \in DOMAIN inbox'[s] : inbox'[s][i] \in Numbers'
    BY InboxStep DEF InboxOK, Rows, Range
  <2>3. Writers(s, g)' \in SUBSET Sessions
    BY <2>1, <2>2 DEF Writers, From
  <2> QED
    BY <2>3, WritersGrow, MoreSessions
<1>7. Writers(msg[m].from, msg[m].to)' = Writers(s, g)'
  BY <1>2 DEF Writers, From
<1>8. msg'[q].from = msg[q].from
      /\ (msg[m].re # 0 => msg'[msg[m].re].from = msg[msg[m].re].from)
  BY <1>3, <1>4
<1>9. \/ t = msg[q].from
      \/ status[msg[q].from] = "closed"
      \/ /\ msg[m].re # q
         /\ \/ Cardinality(Writers(s, g)) > 1
            \/ msg[m].re # 0 /\ GroupOf[msg[msg[m].re].from] # g
  BY <1>1 DEF Returns
<1> QED
  BY <1>2, <1>5, <1>6, <1>7, <1>8, <1>9 DEF Returns

LEMMA AnswersStep ==
  ASSUME IInv, [Next]_vars
  PROVE  AnswersReturn'
<1>0. Types /\ Types'
  BY TypesStep DEF IInv
<1>1. ASSUME NEW m \in Numbers, msg'[m].state = "stored", msg'[m].answers # 0,
             msg'[m].state = msg[m].state, msg'[m].at = msg[m].at
      PROVE  Returns(m, msg[m].at)'
  <2>1. msg[m].state = "stored" /\ msg[m].answers # 0
    BY <1>0, <1>1, MsgStep DEF Kept
  <2>2. PICK t \in Sessions : t = msg[m].at
    BY <1>0, <2>1, MessageFields DEF Types, StoredOK, Msg
  <2>3. Returns(m, t)
    BY <2>1, <2>2 DEF IInv, AnswersReturn, Returns
  <2>4. Returns(m, t)'
    BY <1>0, <2>1, <2>3, ReturnsKept
  <2> QED
    BY <1>1, <2>2, <2>4 DEF Returns
<1>2. ASSUME NEW m \in Numbers, Stored(m), msg'[m].answers # 0
      PROVE  Returns(m, msg[m].at)'
  <2>1. msg[m].answers # 0
    BY <1>0, <1>2, MsgStep DEF Kept
  <2>2. PICK t \in Sessions : t = Target(m)
    BY <1>0, TargetIsOpen
  <2>3. Returns(m, t)
    BY <1>0, <2>1, <2>2, AnswerTarget
  <2>4. Returns(m, t)'
    BY <1>0, <2>1, <2>3, ReturnsKept
  <2> QED
    BY <1>2, <2>2, <2>4 DEF Returns, Stored
<1>3. ASSUME NEW m \in Numbers', msg'[m].state = "stored", msg'[m].answers # 0
      PROVE  Returns(m, msg[m].at)'
  <2>1. CASE m \in Numbers /\ msg'[m] = msg[m]
    BY <1>1, <1>3, <2>1
  <2>2. CASE m \in Numbers /\ msg'[m] # msg[m]
    <3>1. \A k \in Numbers \ {m} : ~Marked(k) /\ ~Stored(k)
      BY <2>2 DEF Marked, Stored, Moved
    <3>2. ~Marked(m)
      BY <1>3 DEF Marked
    <3>3. Container \/ Edited \/ UNCHANGED vars => UNCHANGED msg
      BY DEF Container, Edited, Start, FollowUp, Finish, Close, Edit, vars
    <3>4. Written => msg'[m] = msg[m]
      BY <1>0, <2>2, WrittenLast DEF Written
    <3>5. Stored(m)
      BY <1>0, <2>2, <3>1, <3>2, <3>3, <3>4, Kinds
    <3> QED
      BY <1>2, <1>3, <2>2, <3>5
  <2>3. CASE m \notin Numbers
    <3>1. Numbers' # Numbers
      BY <1>3, <2>3
    <3>2. Container \/ Edited \/ UNCHANGED vars => Numbers' = Numbers
      BY DEF Container, Edited, Start, FollowUp, Finish, Close, Edit, vars, Numbers
    <3>3. \A k \in Numbers : Marked(k) \/ Stored(k) => Numbers' = Numbers
      BY DEF Marked, Stored, Moved, Numbers
    <3>4. Written
      BY <1>0, <3>1, <3>2, <3>3, Kinds
    <3>5. PICK s \in Sessions, g \in Groups :
            \E re, answers \in Rows(s) \cup {0} : Write(s, g, re, answers)
      BY <3>4 DEF Written
    <3>6. PICK re \in Rows(s) \cup {0}, answers \in Rows(s) \cup {0} :
            Write(s, g, re, answers)
      BY <3>5
    <3>7. Len(msg') = Len(msg) + 1 /\ msg'[Len(msg) + 1].state = "sent"
      <4>1. /\ Len(msg') = Len(msg) + 1
            /\ msg'[Len(msg) + 1] = [from |-> s, to |-> g, re |-> re, answers |-> answers,
                                     tries |-> 0, state |-> "sent", at |-> None]
        BY ONLY <1>0, <3>6, WrittenLast
      <4> QED
        BY <4>1
    <3>8. m = Len(msg) + 1
      <4>1. Len(msg) \in Nat
        BY <1>0 DEF Types, MsgOK
      <4> QED
        BY <1>3, <2>3, <3>7, <4>1 DEF Numbers
    <3> QED
      BY <1>3, <3>7, <3>8
  <2> QED
    BY <2>1, <2>2, <2>3
<1> QED
  BY <1>3 DEF AnswersReturn, Returns

LEMMA InitAnswers ==
  ASSUME Init
  PROVE  IInv
<1>1. Numbers = {}
  BY DEF Init, Numbers
<1> QED
  BY <1>1, InitTypes DEF IInv, AnswersReturn

LEMMA Invariant == Spec => []IInv
<1>1. Init => IInv
  BY InitAnswers
<1>2. IInv /\ [Next]_vars => IInv'
  BY TypesStep, AnswersStep DEF IInv
<1> QED
  BY <1>1, <1>2, PTL DEF Spec

\* Numbers, states and places are what they should be, and the rows of an
\* inbox are the messages stored there, once each.
THEOREM AgentsTypeCorrect == Spec => []TypeOK
<1>1. Types => TypeOK
  <2> SUFFICES ASSUME Types
               PROVE  TypeOK
    OBVIOUS
  <2>1. ASSUME NEW s \in Sessions
        PROVE  /\ status[s] = "closed" => s \in Tasks
               /\ inbox[s] \in Seq(Numbers) /\ IsInjective(inbox[s])
               /\ read[s] \in 0 .. Len(inbox[s])
               /\ {batch[s].on, batch[s].text} \subseteq BOOLEAN
               /\ batch[s].given \subseteq {inbox[s][i] : i \in 1 .. read[s]}
               /\ batch[s].first \in batch[s].given \cup {0}
               /\ \A m \in Range(inbox[s]) : msg[m].at = s /\ GroupOf[s] = msg[m].to
    <3>1. status[s] = "closed" => s \in Tasks
      BY DEF Types, StatusOK
    <3>2. IsInjective(inbox[s]) /\ inbox[s] \in Seq(Nat \ {0})
          /\ \A m \in Range(inbox[s]) : m \in Numbers /\ msg[m].at = s /\ GroupOf[s] = msg[m].to
      BY DEF Types, InboxOK, Rows
    <3>3. inbox[s] \in Seq(Numbers)
      <4>1. \A i \in 1 .. Len(inbox[s]) : inbox[s][i] \in Numbers
        BY <3>2 DEF Range
      <4>2. Len(inbox[s]) \in Nat /\ inbox[s] = [i \in 1 .. Len(inbox[s]) |-> inbox[s][i]]
        BY ONLY <3>2
      <4> QED
        BY ONLY <4>1, <4>2
    <3>4. /\ batch[s] \in Batch /\ read[s] \in Nat /\ read[s] <= Len(inbox[s])
          /\ batch[s].given \subseteq {inbox[s][i] : i \in 1 .. read[s]}
          /\ batch[s].first \in batch[s].given \cup {0}
      BY DEF Types, BatchOK, Given
    <3>5. read[s] \in 0 .. Len(inbox[s]) /\ {batch[s].on, batch[s].text} \subseteq BOOLEAN
      BY <3>2, <3>4 DEF Batch
    <3> QED
      BY <3>1, <3>2, <3>3, <3>4, <3>5
  <2>2. ASSUME NEW m \in Numbers
        PROVE  /\ msg[m].from \in Sessions /\ msg[m].to \in Groups
               /\ {msg[m].re, msg[m].answers} \subseteq Range(inbox[msg[m].from]) \cup {0}
               /\ msg[m].tries \in 0 .. MaxTries
               /\ msg[m].state \in States
               /\ msg[m].at \in Sessions \cup {None}
               /\ msg[m].at # None <=> msg[m].state = "stored"
    <3>1. msg[m] \in Msg
      BY MessageFields DEF Types
    <3>2. {msg[m].re, msg[m].answers} \subseteq Range(inbox[msg[m].from]) \cup {0}
      BY DEF Types, RefersOK, Refers, Rows
    <3>3. msg[m].at # None <=> msg[m].state = "stored"
      BY DEF Types, StoredOK
    <3> QED
      BY <3>1, <3>2, <3>3 DEF Msg
  <2> QED
    BY <2>1, <2>2 DEF TypeOK, Types, StatusOK, EditsOK
<1>2. IInv => Types
  BY DEF IInv
<1> QED
  BY <1>1, <1>2, Invariant, PTL

\* An answer that is stored is in the session that asked, unless that session
\* is closed or the answer carried the stamp of another row.
THEOREM AnswersAreReturned == Spec => []AnswersReturn
<1>1. IInv => AnswersReturn
  BY DEF IInv
<1> QED
  BY <1>1, Invariant, PTL

\* No message passes over an edge that is not there at that moment, and what
\* was decided about a message is not decided again.
THEOREM EdgesHold == Spec => EdgesAreLive
<1> DEFINE Lives == \A m \in Numbers :
                      msg'[m].state # msg[m].state =>
                        /\ msg[m].state \in {"sent", "held"}
                        /\ msg'[m].state = "stored" =>
                             Edge(m) \in allowed /\ (Edge(m) \in policy => msg[m].state = "held")
<1>1. ASSUME Types, [Next]_vars
      PROVE  Lives
  <2>1. Container \/ Edited \/ UNCHANGED vars => Lives
    BY DEF Container, Edited, Start, FollowUp, Finish, Close, Edit, vars
  <2>2. Written => Lives
    BY <1>1, WrittenLast DEF Written
  <2>3. ASSUME NEW m \in Numbers, Route(m) \/ Approve(m) \/ Reject(m)
        PROVE  Lives
    <3>1. Marked(m) \/ Stored(m)
      BY <1>1, <2>3, RouteMoves
    <3>2. \A k \in Numbers \ {m} : msg'[k] = msg[k]
      BY <3>1 DEF Marked, Stored, Moved
    <3>3. msg[m].state \in {"sent", "held"}
      BY <3>1 DEF Marked, Stored, Moved
    <3>4. msg'[m].state = "stored" =>
            Edge(m) \in allowed /\ (Edge(m) \in policy => msg[m].state = "held")
      <4>0. msg[m] \in Msg /\ m \in DOMAIN msg
        BY <1>1, MessageFields DEF Types, MsgOK, Numbers
      <4>1. CASE Reject(m)
        BY <3>1, <4>1, <1>1 DEF Reject, Types, MsgOK, Numbers
      <4>2. CASE Approve(m)
        <5>1. Denied(m) => msg'[m].state = "refused"
          BY <4>0, <4>2 DEF Approve, Msg
        <5> QED
          BY <4>2, <5>1 DEF Approve, Denied
      <4>3. CASE Route(m)
        <5>1. Denied(m) \/ Held(m) => msg'[m].state # "stored"
          <6>1. msg[m].state = "sent"
            BY <4>3 DEF Route, Turn
          <6> QED
            BY <4>0, <4>3, <6>1 DEF Route, Msg
        <5> QED
          BY <5>1 DEF Denied, Held
      <4> QED
        BY <2>3, <4>1, <4>2, <4>3
    <3> QED
      BY <3>2, <3>3, <3>4
  <2>4. \A s \in Sessions, g \in Groups : Ask(s, g) => Written
    BY <1>1, WritesAreWritten
  <2>5. \A s \in Sessions : \A q \in batch[s].given : Answer(s, q) => Written
    BY <1>1, WritesAreWritten
  <2> QED
    BY <1>1, <2>1, <2>2, <2>3, <2>4, <2>5 DEF Next, Container, Edited
<1>2. IInv => Types
  BY DEF IInv
<1>3. Types /\ [Next]_vars => [Lives]_vars
  BY <1>1
<1> QED
  BY <1>2, <1>3, Invariant, PTL DEF Spec, EdgesAreLive
=============================================================================
