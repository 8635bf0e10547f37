--------------------------- MODULE FrontEndProofs ---------------------------
(***************************************************************************)
(* Proofs about what a user sees.                                          *)
(*                                                                         *)
(* Questions: the cards with buttons, for any sets of questions and        *)
(* requests, and any number of clicks, failures and restarts.              *)
(*                                                                         *)
(* Transcript: the page of a chat, for any sets of rows, sessions and      *)
(* clients, any size of a page and any number of streams.  The merge takes *)
(* each row once and an answer after its question (MergedIsSound), so the  *)
(* registry stays injective and ordered when rows are appended to it       *)
(* (NumberedIs), and what a client holds is a part of the registry kept in *)
(* its order (ServedMore, ServedPage).                                     *)
(***************************************************************************)
EXTENDS Questions, Transcript, FiniteSetTheorems, SequenceTheorems,
        WellFoundedInduction, TLAPS

USE QuestionsAssumption DEF QuestionsAssumption

(***************************************************************************)
(* TypeOK in parts.                                                        *)
(***************************************************************************)
RowsOK == row \in [Cards -> {"none", "pending", "expired"}]

ClicksOK == shown \subseteq Cards /\ click \in [Clicks -> ClickOf \cup {NoClick, Done}]

ToolsOK ==
  /\ tool \in [Asked -> {"idle", "waiting", "answered", "timedout", "gone"}]
  /\ sending \in [Asked -> {"none", "due", "calling", "delivered", "failed"}]
  /\ attempts \in [Asked -> 0 .. MaxAttempts] /\ calls \in [Asked -> Nat]

AnswersOK == inbox \in [Asked -> Seq(Values)] /\ taken \in [Asked -> Seq(Values)]

GatesOK ==
  /\ gate \in [Requests -> {"none", "sending", "waiting", "approve", "deny", "lost"}]
  /\ waiting = {r \in Requests : gate[r] = "waiting"}

Decided == {r \in Requests : gate[r] \in {"approve", "deny", "lost"}}

\* A row of a request is waited for, or somebody will remove it.
RowsOfRequests ==
  /\ expiring \cup stale \subseteq Decided
  /\ \A r \in Requests : row[r] # "none" =>
        (r \in waiting /\ row[r] = "pending") \/ r \in expiring \cup stale

RowsOfQuestions == \A q \in Asked : row[q] # "expired"

BoundsOK == faults \in 0 .. MaxFaults /\ restarts \in 0 .. MaxRestarts

(***************************************************************************)
(* What the properties rest on.                                            *)
(***************************************************************************)
\* A row of messages_out that may be sent has an attempt left.
AttemptsLeft ==
  \A q \in Asked :
     /\ tool[q] = "idle" => sending[q] = "none"
     /\ sending[q] \in {"none", "due", "calling"} => attempts[q] < MaxAttempts

\* Only a card that was sent is on the screen.
ShownWasSent ==
  \A q \in Asked : sending[q] = "calling" \/ q \in shown => calls[q] > 0

\* A click is on a card that was shown, and is taken for what was clicked, or
\* for nothing.
Editing(k) == click[k].stage = "editing"

ClicksAreTrue ==
  \A k \in Clicks : Editing(k) =>
     click[k].card \in shown /\ click[k].value \in {click[k].option, "index"}

\* Each sending of a card pays for one answer: it was given, or the row that
\* can still be answered is there.
AnswersArePaid ==
  \A q \in Asked :
     /\ Len(taken[q]) + Len(inbox[q]) <= calls[q]
     /\ row[q] # "none" => Len(taken[q]) + Len(inbox[q]) < calls[q]

\* While a card has been sent once, its row was there when it was clicked, or
\* is not there any more.
FirstRowIsRead ==
  \A q \in Asked : calls[q] <= 1 =>
     /\ taken[q] \in Seq(Options) /\ inbox[q] \in Seq(Options)
     /\ row[q] = "pending" =>
          \A k \in Clicks : Editing(k) /\ click[k].card = q => click[k].value \in Options

Types == RowsOK /\ ClicksOK /\ ToolsOK /\ AnswersOK /\ GatesOK
         /\ RowsOfRequests /\ RowsOfQuestions /\ BoundsOK

IInv == /\ Types /\ AttemptsLeft /\ ShownWasSent /\ ClicksAreTrue
        /\ AnswersArePaid /\ FirstRowIsRead

LEMMA TypeParts == Types => TypeOK
<1>1. GatesOK /\ RowsOfRequests =>
        expiring \cup stale \subseteq {r \in Requests : gate[r] \in {"approve", "deny", "lost"}}
  BY Zenon DEF RowsOfRequests, Decided
<1> QED
  BY <1>1, Zenon DEF Types, TypeOK, RowsOK, ClicksOK, ToolsOK, AnswersOK, GatesOK,
                 RowsOfRequests, RowsOfQuestions, BoundsOK

\* A click between its steps is a record with its fields.
LEMMA EditingFields ==
  ASSUME ClicksOK, NEW k \in Clicks, Editing(k)
  PROVE  click[k] \in ClickOf
BY DEF ClicksOK, Editing, NoClick, Done

\* What taking the first answer, and adding one, does to the lists of answers.
LEMMA TakeFirst ==
  ASSUME NEW S, NEW s \in Seq(S), NEW t \in Seq(S), s # <<>>
  PROVE  /\ Append(t, Head(s)) \in Seq(S) /\ Tail(s) \in Seq(S)
         /\ Len(Append(t, Head(s))) + Len(Tail(s)) = Len(t) + Len(s)
OBVIOUS

LEMMA AddLast ==
  ASSUME NEW S, NEW s \in Seq(S), NEW e \in S
  PROVE  Append(s, e) \in Seq(S) /\ Len(Append(s, e)) = Len(s) + 1
OBVIOUS

LEMMA Joined ==
  ASSUME NEW S, NEW s \in Seq(S), NEW t \in Seq(S)
  PROVE  /\ Len(s \o t) = Len(s) + Len(t) /\ Len(s) \in Nat /\ Len(t) \in Nat
         /\ \A i \in DOMAIN (s \o t) : (s \o t)[i] \in S
OBVIOUS

LEMMA InitIInv == Init => IInv
<1> SUFFICES ASSUME Init
             PROVE  IInv
  OBVIOUS
<1>1. RowsOK /\ ClicksOK /\ RowsOfQuestions
  BY DEF Init, RowsOK, ClicksOK, RowsOfQuestions, Cards
<1>2. ToolsOK /\ AnswersOK /\ BoundsOK
  BY DEF Init, ToolsOK, AnswersOK, BoundsOK
<1>3. GatesOK /\ RowsOfRequests
  BY DEF Init, GatesOK, RowsOfRequests, Cards
<1>4. \A k \in Clicks : ~Editing(k)
  BY DEF Init, Editing, NoClick
<1>5. AttemptsLeft /\ ShownWasSent /\ ClicksAreTrue
  BY <1>4 DEF Init, AttemptsLeft, ShownWasSent, ClicksAreTrue
<1>6. AnswersArePaid /\ FirstRowIsRead
  BY <1>4 DEF Init, AnswersArePaid, FirstRowIsRead, Cards
<1> QED
  BY <1>1, <1>2, <1>3, <1>5, <1>6 DEF IInv, Types

-----------------------------------------------------------------------------
(* The types *)

LEMMA RowsStep == IInv /\ [Next]_vars => RowsOK'
<1> SUFFICES ASSUME IInv, [Next]_vars
             PROVE  RowsOK'
  OBVIOUS
<1> USE DEF IInv, Types, RowsOK, Cards, cardVars, askVars, gateVars, bounds
<1>0. CASE UNCHANGED vars
  BY <1>0 DEF vars
<1>1. ASSUME NEW q \in Asked, Ask(q)
      PROVE  RowsOK'
  BY <1>1 DEF Ask
<1>2. ASSUME NEW q \in Asked, Send(q)
      PROVE  RowsOK'
  BY <1>2 DEF Send
<1>3. ASSUME NEW q \in Asked, Sent(q)
      PROVE  RowsOK'
  BY <1>3 DEF Sent
<1>4. ASSUME NEW q \in Asked, SendFails(q)
      PROVE  RowsOK'
  BY <1>4 DEF SendFails
<1>5. ASSUME NEW q \in Asked, Take(q)
      PROVE  RowsOK'
  BY <1>5 DEF Take
<1>6. ASSUME NEW q \in Asked, GiveUp(q)
      PROVE  RowsOK'
  BY <1>6 DEF GiveUp
<1>7. ASSUME NEW r \in Requests, Request(r)
      PROVE  RowsOK'
  BY <1>7 DEF Request
<1>8. ASSUME NEW r \in Requests, Requested(r)
      PROVE  RowsOK'
  BY <1>8 DEF Requested
<1>9. ASSUME NEW r \in Requests, RequestFails(r)
      PROVE  RowsOK'
  BY <1>9 DEF RequestFails
<1>10. ASSUME NEW r \in Requests, Timer(r)
      PROVE  RowsOK'
  BY <1>10 DEF Timer
<1>11. ASSUME NEW r \in Requests, Expired(r)
      PROVE  RowsOK'
  BY <1>11 DEF Expired
<1>12. ASSUME NEW c \in Cards, Appears(c)
      PROVE  RowsOK'
  BY <1>12 DEF Appears
<1>13. ASSUME NEW k \in Clicks, NEW c \in Cards, NEW option \in Options,
             Click(k, c, option)
      PROVE  RowsOK'
  BY <1>13 DEF Click
<1>14. ASSUME NEW k \in Clicks, Respond(k)
      PROVE  RowsOK'
  BY <1>14 DEF Respond, Answered
<1>15. CASE Restart
  BY <1>15 DEF Restart
<1> QED
  BY <1>0, <1>1, <1>2, <1>3, <1>4, <1>5, <1>6, <1>7, <1>8, <1>9, <1>10, <1>11,
     <1>12, <1>13, <1>14, <1>15 DEF Next

LEMMA ClicksStep == IInv /\ [Next]_vars => ClicksOK'
<1> SUFFICES ASSUME IInv, [Next]_vars
             PROVE  ClicksOK'
  OBVIOUS
<1> USE DEF IInv, Types, ClicksOK, cardVars, askVars, gateVars, bounds
<1>0. CASE UNCHANGED vars
  BY <1>0 DEF vars
<1>1. ASSUME NEW q \in Asked, Ask(q)
      PROVE  ClicksOK'
  BY <1>1 DEF Ask
<1>2. ASSUME NEW q \in Asked, Send(q)
      PROVE  ClicksOK'
  BY <1>2 DEF Send
<1>3. ASSUME NEW q \in Asked, Sent(q)
      PROVE  ClicksOK'
  BY <1>3 DEF Sent
<1>4. ASSUME NEW q \in Asked, SendFails(q)
      PROVE  ClicksOK'
  BY <1>4 DEF SendFails
<1>5. ASSUME NEW q \in Asked, Take(q)
      PROVE  ClicksOK'
  BY <1>5 DEF Take
<1>6. ASSUME NEW q \in Asked, GiveUp(q)
      PROVE  ClicksOK'
  BY <1>6 DEF GiveUp
<1>7. ASSUME NEW r \in Requests, Request(r)
      PROVE  ClicksOK'
  BY <1>7 DEF Request
<1>8. ASSUME NEW r \in Requests, Requested(r)
      PROVE  ClicksOK'
  BY <1>8 DEF Requested
<1>9. ASSUME NEW r \in Requests, RequestFails(r)
      PROVE  ClicksOK'
  BY <1>9 DEF RequestFails
<1>10. ASSUME NEW r \in Requests, Timer(r)
      PROVE  ClicksOK'
  BY <1>10 DEF Timer
<1>11. ASSUME NEW r \in Requests, Expired(r)
      PROVE  ClicksOK'
  BY <1>11 DEF Expired
<1>12. ASSUME NEW c \in Cards, Appears(c)
      PROVE  ClicksOK'
  BY <1>12 DEF Appears
<1>13. ASSUME NEW k \in Clicks, NEW c \in Cards, NEW option \in Options,
             Click(k, c, option)
      PROVE  ClicksOK'
  <2>1. [stage |-> "editing", card |-> c, option |-> option, value |-> Decoded(c, option)]
          \in ClickOf
    BY DEF ClickOf, Decoded, Values
  <2> QED
    BY <1>13, <2>1 DEF Click
<1>14. ASSUME NEW k \in Clicks, Respond(k)
      PROVE  ClicksOK'
  BY <1>14 DEF Respond
<1>15. CASE Restart
  BY <1>15 DEF Restart
<1> QED
  BY <1>0, <1>1, <1>2, <1>3, <1>4, <1>5, <1>6, <1>7, <1>8, <1>9, <1>10, <1>11,
     <1>12, <1>13, <1>14, <1>15 DEF Next

LEMMA ToolsStep == IInv /\ [Next]_vars => ToolsOK'
<1> SUFFICES ASSUME IInv, [Next]_vars
             PROVE  ToolsOK'
  OBVIOUS
<1> USE DEF IInv, Types, ToolsOK, AttemptsLeft, cardVars, askVars, gateVars,
        bounds
<1>0. CASE UNCHANGED vars
  BY <1>0 DEF vars
<1>1. ASSUME NEW q \in Asked, Ask(q)
      PROVE  ToolsOK'
  BY <1>1 DEF Ask
<1>2. ASSUME NEW q \in Asked, Send(q)
      PROVE  ToolsOK'
  BY <1>2 DEF Send
<1>3. ASSUME NEW q \in Asked, Sent(q)
      PROVE  ToolsOK'
  BY <1>3 DEF Sent
<1>4. ASSUME NEW q \in Asked, SendFails(q)
      PROVE  ToolsOK'
  BY <1>4 DEF SendFails
<1>5. ASSUME NEW q \in Asked, Take(q)
      PROVE  ToolsOK'
  BY <1>5 DEF Take
<1>6. ASSUME NEW q \in Asked, GiveUp(q)
      PROVE  ToolsOK'
  BY <1>6 DEF GiveUp
<1>7. ASSUME NEW r \in Requests, Request(r)
      PROVE  ToolsOK'
  BY <1>7 DEF Request
<1>8. ASSUME NEW r \in Requests, Requested(r)
      PROVE  ToolsOK'
  BY <1>8 DEF Requested
<1>9. ASSUME NEW r \in Requests, RequestFails(r)
      PROVE  ToolsOK'
  BY <1>9 DEF RequestFails
<1>10. ASSUME NEW r \in Requests, Timer(r)
      PROVE  ToolsOK'
  BY <1>10 DEF Timer
<1>11. ASSUME NEW r \in Requests, Expired(r)
      PROVE  ToolsOK'
  BY <1>11 DEF Expired
<1>12. ASSUME NEW c \in Cards, Appears(c)
      PROVE  ToolsOK'
  BY <1>12 DEF Appears
<1>13. ASSUME NEW k \in Clicks, NEW c \in Cards, NEW option \in Options,
             Click(k, c, option)
      PROVE  ToolsOK'
  BY <1>13 DEF Click
<1>14. ASSUME NEW k \in Clicks, Respond(k)
      PROVE  ToolsOK'
  BY <1>14 DEF Respond
<1>15. CASE Restart
  BY <1>15 DEF Restart
<1> QED
  BY <1>0, <1>1, <1>2, <1>3, <1>4, <1>5, <1>6, <1>7, <1>8, <1>9, <1>10, <1>11,
     <1>12, <1>13, <1>14, <1>15 DEF Next

LEMMA AnswersStep == IInv /\ [Next]_vars => AnswersOK'
<1> SUFFICES ASSUME IInv, [Next]_vars
             PROVE  AnswersOK'
  OBVIOUS
<1> USE DEF IInv, Types, AnswersOK, cardVars, askVars, gateVars, bounds
<1>0. CASE UNCHANGED vars
  BY <1>0 DEF vars
<1>1. ASSUME NEW q \in Asked, Ask(q)
      PROVE  AnswersOK'
  BY <1>1 DEF Ask
<1>2. ASSUME NEW q \in Asked, Send(q)
      PROVE  AnswersOK'
  BY <1>2 DEF Send
<1>3. ASSUME NEW q \in Asked, Sent(q)
      PROVE  AnswersOK'
  BY <1>3 DEF Sent
<1>4. ASSUME NEW q \in Asked, SendFails(q)
      PROVE  AnswersOK'
  BY <1>4 DEF SendFails
<1>5. ASSUME NEW q \in Asked, Take(q)
      PROVE  AnswersOK'
  BY <1>5 DEF Take
<1>6. ASSUME NEW q \in Asked, GiveUp(q)
      PROVE  AnswersOK'
  BY <1>6 DEF GiveUp
<1>7. ASSUME NEW r \in Requests, Request(r)
      PROVE  AnswersOK'
  BY <1>7 DEF Request
<1>8. ASSUME NEW r \in Requests, Requested(r)
      PROVE  AnswersOK'
  BY <1>8 DEF Requested
<1>9. ASSUME NEW r \in Requests, RequestFails(r)
      PROVE  AnswersOK'
  BY <1>9 DEF RequestFails
<1>10. ASSUME NEW r \in Requests, Timer(r)
      PROVE  AnswersOK'
  BY <1>10 DEF Timer
<1>11. ASSUME NEW r \in Requests, Expired(r)
      PROVE  AnswersOK'
  BY <1>11 DEF Expired
<1>12. ASSUME NEW c \in Cards, Appears(c)
      PROVE  AnswersOK'
  BY <1>12 DEF Appears
<1>13. ASSUME NEW k \in Clicks, NEW c \in Cards, NEW option \in Options,
             Click(k, c, option)
      PROVE  AnswersOK'
  BY <1>13 DEF Click
<1>14. ASSUME NEW k \in Clicks, Respond(k)
      PROVE  AnswersOK'
  <2>1. click[k] \in ClickOf
    BY <1>14, EditingFields DEF Respond, Editing
  <2>2. click[k].value \in Values
    BY <2>1 DEF ClickOf
  <2>3. taken' = taken
    BY <1>14 DEF Respond
  <2>4. CASE UNCHANGED inbox
    BY <2>3, <2>4
  <2>5. CASE click[k].card \in Asked /\ Answered(click[k].card, click[k].value)
    BY <2>2, <2>3, <2>5 DEF Answered
  <2> QED
    BY <1>14, <2>4, <2>5 DEF Respond
<1>15. CASE Restart
  BY <1>15 DEF Restart
<1> QED
  BY <1>0, <1>1, <1>2, <1>3, <1>4, <1>5, <1>6, <1>7, <1>8, <1>9, <1>10, <1>11,
     <1>12, <1>13, <1>14, <1>15 DEF Next

LEMMA GatesStep == IInv /\ [Next]_vars => GatesOK'
<1> SUFFICES ASSUME IInv, [Next]_vars
             PROVE  GatesOK'
  OBVIOUS
<1> USE DEF IInv, Types, GatesOK, cardVars, askVars, gateVars, bounds
<1>0. CASE UNCHANGED vars
  BY <1>0 DEF vars
<1>1. ASSUME NEW q \in Asked, Ask(q)
      PROVE  GatesOK'
  BY <1>1 DEF Ask
<1>2. ASSUME NEW q \in Asked, Send(q)
      PROVE  GatesOK'
  BY <1>2 DEF Send
<1>3. ASSUME NEW q \in Asked, Sent(q)
      PROVE  GatesOK'
  BY <1>3 DEF Sent
<1>4. ASSUME NEW q \in Asked, SendFails(q)
      PROVE  GatesOK'
  BY <1>4 DEF SendFails
<1>5. ASSUME NEW q \in Asked, Take(q)
      PROVE  GatesOK'
  BY <1>5 DEF Take
<1>6. ASSUME NEW q \in Asked, GiveUp(q)
      PROVE  GatesOK'
  BY <1>6 DEF GiveUp
<1>7. ASSUME NEW r \in Requests, Request(r)
      PROVE  GatesOK'
  BY <1>7 DEF Request
<1>8. ASSUME NEW r \in Requests, Requested(r)
      PROVE  GatesOK'
  BY <1>8 DEF Requested
<1>9. ASSUME NEW r \in Requests, RequestFails(r)
      PROVE  GatesOK'
  BY <1>9 DEF RequestFails
<1>10. ASSUME NEW r \in Requests, Timer(r)
      PROVE  GatesOK'
  BY <1>10 DEF Timer
<1>11. ASSUME NEW r \in Requests, Expired(r)
      PROVE  GatesOK'
  BY <1>11 DEF Expired
<1>12. ASSUME NEW c \in Cards, Appears(c)
      PROVE  GatesOK'
  BY <1>12 DEF Appears
<1>13. ASSUME NEW k \in Clicks, NEW c \in Cards, NEW option \in Options,
             Click(k, c, option)
      PROVE  GatesOK'
  BY <1>13 DEF Click
<1>14. ASSUME NEW k \in Clicks, Respond(k)
      PROVE  GatesOK'
  BY <1>14 DEF Respond, Resolved
<1>15. CASE Restart
  BY <1>15 DEF Restart
<1> QED
  BY <1>0, <1>1, <1>2, <1>3, <1>4, <1>5, <1>6, <1>7, <1>8, <1>9, <1>10, <1>11,
     <1>12, <1>13, <1>14, <1>15 DEF Next

LEMMA RequestRowsStep == IInv /\ [Next]_vars => RowsOfRequests'
<1> SUFFICES ASSUME IInv, [Next]_vars
             PROVE  RowsOfRequests'
  OBVIOUS
<1> USE DEF IInv, Types, RowsOfRequests, GatesOK, Decided, RowsOK, Cards,
        cardVars, askVars, gateVars, bounds
<1>0. CASE UNCHANGED vars
  BY <1>0 DEF vars
<1>1. ASSUME NEW q \in Asked, Ask(q)
      PROVE  RowsOfRequests'
  BY <1>1 DEF Ask
<1>2. ASSUME NEW q \in Asked, Send(q)
      PROVE  RowsOfRequests'
  BY <1>2 DEF Send
<1>3. ASSUME NEW q \in Asked, Sent(q)
      PROVE  RowsOfRequests'
  BY <1>3 DEF Sent
<1>4. ASSUME NEW q \in Asked, SendFails(q)
      PROVE  RowsOfRequests'
  BY <1>4 DEF SendFails
<1>5. ASSUME NEW q \in Asked, Take(q)
      PROVE  RowsOfRequests'
  BY <1>5 DEF Take
<1>6. ASSUME NEW q \in Asked, GiveUp(q)
      PROVE  RowsOfRequests'
  BY <1>6 DEF GiveUp
<1>7. ASSUME NEW r \in Requests, Request(r)
      PROVE  RowsOfRequests'
  BY <1>7 DEF Request
<1>8. ASSUME NEW r \in Requests, Requested(r)
      PROVE  RowsOfRequests'
  BY <1>8 DEF Requested
<1>9. ASSUME NEW r \in Requests, RequestFails(r)
      PROVE  RowsOfRequests'
  BY <1>9 DEF RequestFails
<1>10. ASSUME NEW r \in Requests, Timer(r)
      PROVE  RowsOfRequests'
  BY <1>10 DEF Timer
<1>11. ASSUME NEW r \in Requests, Expired(r)
      PROVE  RowsOfRequests'
  BY <1>11 DEF Expired
<1>12. ASSUME NEW c \in Cards, Appears(c)
      PROVE  RowsOfRequests'
  BY <1>12 DEF Appears
<1>13. ASSUME NEW k \in Clicks, NEW c \in Cards, NEW option \in Options,
             Click(k, c, option)
      PROVE  RowsOfRequests'
  BY <1>13 DEF Click
<1>14. ASSUME NEW k \in Clicks, Respond(k)
      PROVE  RowsOfRequests'
  BY <1>14 DEF Respond, Resolved, Answered
<1>15. CASE Restart
  BY <1>15 DEF Restart, Leftover
<1> QED
  BY <1>0, <1>1, <1>2, <1>3, <1>4, <1>5, <1>6, <1>7, <1>8, <1>9, <1>10, <1>11,
     <1>12, <1>13, <1>14, <1>15 DEF Next

LEMMA QuestionRowsStep == IInv /\ [Next]_vars => RowsOfQuestions'
<1> SUFFICES ASSUME IInv, [Next]_vars
             PROVE  RowsOfQuestions'
  OBVIOUS
<1> USE DEF IInv, Types, RowsOfQuestions, RowsOK, Cards, cardVars, askVars,
        gateVars, bounds
<1>0. CASE UNCHANGED vars
  BY <1>0 DEF vars
<1>1. ASSUME NEW q \in Asked, Ask(q)
      PROVE  RowsOfQuestions'
  BY <1>1 DEF Ask
<1>2. ASSUME NEW q \in Asked, Send(q)
      PROVE  RowsOfQuestions'
  BY <1>2 DEF Send
<1>3. ASSUME NEW q \in Asked, Sent(q)
      PROVE  RowsOfQuestions'
  BY <1>3 DEF Sent
<1>4. ASSUME NEW q \in Asked, SendFails(q)
      PROVE  RowsOfQuestions'
  BY <1>4 DEF SendFails
<1>5. ASSUME NEW q \in Asked, Take(q)
      PROVE  RowsOfQuestions'
  BY <1>5 DEF Take
<1>6. ASSUME NEW q \in Asked, GiveUp(q)
      PROVE  RowsOfQuestions'
  BY <1>6 DEF GiveUp
<1>7. ASSUME NEW r \in Requests, Request(r)
      PROVE  RowsOfQuestions'
  BY <1>7 DEF Request
<1>8. ASSUME NEW r \in Requests, Requested(r)
      PROVE  RowsOfQuestions'
  BY <1>8 DEF Requested
<1>9. ASSUME NEW r \in Requests, RequestFails(r)
      PROVE  RowsOfQuestions'
  BY <1>9 DEF RequestFails
<1>10. ASSUME NEW r \in Requests, Timer(r)
      PROVE  RowsOfQuestions'
  BY <1>10 DEF Timer
<1>11. ASSUME NEW r \in Requests, Expired(r)
      PROVE  RowsOfQuestions'
  BY <1>11 DEF Expired
<1>12. ASSUME NEW c \in Cards, Appears(c)
      PROVE  RowsOfQuestions'
  BY <1>12 DEF Appears
<1>13. ASSUME NEW k \in Clicks, NEW c \in Cards, NEW option \in Options,
             Click(k, c, option)
      PROVE  RowsOfQuestions'
  BY <1>13 DEF Click
<1>14. ASSUME NEW k \in Clicks, Respond(k)
      PROVE  RowsOfQuestions'
  BY <1>14 DEF Respond, Answered
<1>15. CASE Restart
  BY <1>15 DEF Restart
<1> QED
  BY <1>0, <1>1, <1>2, <1>3, <1>4, <1>5, <1>6, <1>7, <1>8, <1>9, <1>10, <1>11,
     <1>12, <1>13, <1>14, <1>15 DEF Next

LEMMA BoundsStep == IInv /\ [Next]_vars => BoundsOK'
<1> SUFFICES ASSUME IInv, [Next]_vars
             PROVE  BoundsOK'
  OBVIOUS
<1> USE DEF IInv, Types, BoundsOK, cardVars, askVars, gateVars, bounds
<1>0. CASE UNCHANGED vars
  BY <1>0 DEF vars
<1>1. ASSUME NEW q \in Asked, Ask(q)
      PROVE  BoundsOK'
  BY <1>1 DEF Ask
<1>2. ASSUME NEW q \in Asked, Send(q)
      PROVE  BoundsOK'
  BY <1>2 DEF Send
<1>3. ASSUME NEW q \in Asked, Sent(q)
      PROVE  BoundsOK'
  BY <1>3 DEF Sent
<1>4. ASSUME NEW q \in Asked, SendFails(q)
      PROVE  BoundsOK'
  BY <1>4 DEF SendFails
<1>5. ASSUME NEW q \in Asked, Take(q)
      PROVE  BoundsOK'
  BY <1>5 DEF Take
<1>6. ASSUME NEW q \in Asked, GiveUp(q)
      PROVE  BoundsOK'
  BY <1>6 DEF GiveUp
<1>7. ASSUME NEW r \in Requests, Request(r)
      PROVE  BoundsOK'
  BY <1>7 DEF Request
<1>8. ASSUME NEW r \in Requests, Requested(r)
      PROVE  BoundsOK'
  BY <1>8 DEF Requested
<1>9. ASSUME NEW r \in Requests, RequestFails(r)
      PROVE  BoundsOK'
  BY <1>9 DEF RequestFails
<1>10. ASSUME NEW r \in Requests, Timer(r)
      PROVE  BoundsOK'
  BY <1>10 DEF Timer
<1>11. ASSUME NEW r \in Requests, Expired(r)
      PROVE  BoundsOK'
  BY <1>11 DEF Expired
<1>12. ASSUME NEW c \in Cards, Appears(c)
      PROVE  BoundsOK'
  BY <1>12 DEF Appears
<1>13. ASSUME NEW k \in Clicks, NEW c \in Cards, NEW option \in Options,
             Click(k, c, option)
      PROVE  BoundsOK'
  BY <1>13 DEF Click
<1>14. ASSUME NEW k \in Clicks, Respond(k)
      PROVE  BoundsOK'
  BY <1>14 DEF Respond
<1>15. CASE Restart
  BY <1>15 DEF Restart
<1> QED
  BY <1>0, <1>1, <1>2, <1>3, <1>4, <1>5, <1>6, <1>7, <1>8, <1>9, <1>10, <1>11,
     <1>12, <1>13, <1>14, <1>15 DEF Next

-----------------------------------------------------------------------------
(* What the properties rest on *)

LEMMA AttemptsStep == IInv /\ [Next]_vars => AttemptsLeft'
<1> SUFFICES ASSUME IInv, [Next]_vars
             PROVE  AttemptsLeft'
  OBVIOUS
<1> USE DEF IInv, Types, AttemptsLeft, ToolsOK, cardVars, askVars, gateVars,
        bounds
<1>0. CASE UNCHANGED vars
  BY <1>0 DEF vars
<1>1. ASSUME NEW q \in Asked, Ask(q)
      PROVE  AttemptsLeft'
  BY <1>1 DEF Ask
<1>2. ASSUME NEW q \in Asked, Send(q)
      PROVE  AttemptsLeft'
  BY <1>2 DEF Send
<1>3. ASSUME NEW q \in Asked, Sent(q)
      PROVE  AttemptsLeft'
  BY <1>3 DEF Sent
<1>4. ASSUME NEW q \in Asked, SendFails(q)
      PROVE  AttemptsLeft'
  BY <1>4 DEF SendFails
<1>5. ASSUME NEW q \in Asked, Take(q)
      PROVE  AttemptsLeft'
  BY <1>5 DEF Take
<1>6. ASSUME NEW q \in Asked, GiveUp(q)
      PROVE  AttemptsLeft'
  BY <1>6 DEF GiveUp
<1>7. ASSUME NEW r \in Requests, Request(r)
      PROVE  AttemptsLeft'
  BY <1>7 DEF Request
<1>8. ASSUME NEW r \in Requests, Requested(r)
      PROVE  AttemptsLeft'
  BY <1>8 DEF Requested
<1>9. ASSUME NEW r \in Requests, RequestFails(r)
      PROVE  AttemptsLeft'
  BY <1>9 DEF RequestFails
<1>10. ASSUME NEW r \in Requests, Timer(r)
      PROVE  AttemptsLeft'
  BY <1>10 DEF Timer
<1>11. ASSUME NEW r \in Requests, Expired(r)
      PROVE  AttemptsLeft'
  BY <1>11 DEF Expired
<1>12. ASSUME NEW c \in Cards, Appears(c)
      PROVE  AttemptsLeft'
  BY <1>12 DEF Appears
<1>13. ASSUME NEW k \in Clicks, NEW c \in Cards, NEW option \in Options,
             Click(k, c, option)
      PROVE  AttemptsLeft'
  BY <1>13 DEF Click
<1>14. ASSUME NEW k \in Clicks, Respond(k)
      PROVE  AttemptsLeft'
  BY <1>14 DEF Respond
<1>15. CASE Restart
  BY <1>15 DEF Restart
<1> QED
  BY <1>0, <1>1, <1>2, <1>3, <1>4, <1>5, <1>6, <1>7, <1>8, <1>9, <1>10, <1>11,
     <1>12, <1>13, <1>14, <1>15 DEF Next

LEMMA ShownStep == IInv /\ [Next]_vars => ShownWasSent'
<1> SUFFICES ASSUME IInv, [Next]_vars
             PROVE  ShownWasSent'
  OBVIOUS
<1> USE DEF IInv, Types, ShownWasSent, ToolsOK, cardVars, askVars, gateVars,
        bounds
<1>0. CASE UNCHANGED vars
  BY <1>0 DEF vars
<1>1. ASSUME NEW q \in Asked, Ask(q)
      PROVE  ShownWasSent'
  BY <1>1 DEF Ask
<1>2. ASSUME NEW q \in Asked, Send(q)
      PROVE  ShownWasSent'
  BY <1>2 DEF Send
<1>3. ASSUME NEW q \in Asked, Sent(q)
      PROVE  ShownWasSent'
  BY <1>3 DEF Sent
<1>4. ASSUME NEW q \in Asked, SendFails(q)
      PROVE  ShownWasSent'
  BY <1>4 DEF SendFails
<1>5. ASSUME NEW q \in Asked, Take(q)
      PROVE  ShownWasSent'
  BY <1>5 DEF Take
<1>6. ASSUME NEW q \in Asked, GiveUp(q)
      PROVE  ShownWasSent'
  BY <1>6 DEF GiveUp
<1>7. ASSUME NEW r \in Requests, Request(r)
      PROVE  ShownWasSent'
  BY <1>7 DEF Request
<1>8. ASSUME NEW r \in Requests, Requested(r)
      PROVE  ShownWasSent'
  BY <1>8 DEF Requested
<1>9. ASSUME NEW r \in Requests, RequestFails(r)
      PROVE  ShownWasSent'
  BY <1>9 DEF RequestFails
<1>10. ASSUME NEW r \in Requests, Timer(r)
      PROVE  ShownWasSent'
  BY <1>10 DEF Timer
<1>11. ASSUME NEW r \in Requests, Expired(r)
      PROVE  ShownWasSent'
  BY <1>11 DEF Expired
<1>12. ASSUME NEW c \in Cards, Appears(c)
      PROVE  ShownWasSent'
  BY <1>12 DEF Appears
<1>13. ASSUME NEW k \in Clicks, NEW c \in Cards, NEW option \in Options,
             Click(k, c, option)
      PROVE  ShownWasSent'
  BY <1>13 DEF Click
<1>14. ASSUME NEW k \in Clicks, Respond(k)
      PROVE  ShownWasSent'
  BY <1>14 DEF Respond
<1>15. CASE Restart
  BY <1>15 DEF Restart
<1> QED
  BY <1>0, <1>1, <1>2, <1>3, <1>4, <1>5, <1>6, <1>7, <1>8, <1>9, <1>10, <1>11,
     <1>12, <1>13, <1>14, <1>15 DEF Next

LEMMA ClicksTrueStep == IInv /\ [Next]_vars => ClicksAreTrue'
<1> SUFFICES ASSUME IInv, [Next]_vars
             PROVE  ClicksAreTrue'
  OBVIOUS
<1> USE DEF IInv, Types, ClicksAreTrue, ClicksOK, Editing, cardVars, askVars,
        gateVars, bounds
<1>0. CASE UNCHANGED vars
  BY <1>0 DEF vars
<1>1. ASSUME NEW q \in Asked, Ask(q)
      PROVE  ClicksAreTrue'
  BY <1>1 DEF Ask
<1>2. ASSUME NEW q \in Asked, Send(q)
      PROVE  ClicksAreTrue'
  BY <1>2 DEF Send
<1>3. ASSUME NEW q \in Asked, Sent(q)
      PROVE  ClicksAreTrue'
  BY <1>3 DEF Sent
<1>4. ASSUME NEW q \in Asked, SendFails(q)
      PROVE  ClicksAreTrue'
  BY <1>4 DEF SendFails
<1>5. ASSUME NEW q \in Asked, Take(q)
      PROVE  ClicksAreTrue'
  BY <1>5 DEF Take
<1>6. ASSUME NEW q \in Asked, GiveUp(q)
      PROVE  ClicksAreTrue'
  BY <1>6 DEF GiveUp
<1>7. ASSUME NEW r \in Requests, Request(r)
      PROVE  ClicksAreTrue'
  BY <1>7 DEF Request
<1>8. ASSUME NEW r \in Requests, Requested(r)
      PROVE  ClicksAreTrue'
  BY <1>8 DEF Requested
<1>9. ASSUME NEW r \in Requests, RequestFails(r)
      PROVE  ClicksAreTrue'
  BY <1>9 DEF RequestFails
<1>10. ASSUME NEW r \in Requests, Timer(r)
      PROVE  ClicksAreTrue'
  BY <1>10 DEF Timer
<1>11. ASSUME NEW r \in Requests, Expired(r)
      PROVE  ClicksAreTrue'
  BY <1>11 DEF Expired
<1>12. ASSUME NEW c \in Cards, Appears(c)
      PROVE  ClicksAreTrue'
  BY <1>12 DEF Appears
<1>13. ASSUME NEW k \in Clicks, NEW c \in Cards, NEW option \in Options,
             Click(k, c, option)
      PROVE  ClicksAreTrue'
  <2> DEFINE new == [stage |-> "editing", card |-> c, option |-> option,
                     value |-> Decoded(c, option)]
  <2>1. new.card \in shown /\ new.value \in {new.option, "index"}
    BY <1>13 DEF Click, Decoded
  <2>2. click' = [click EXCEPT ![k] = new] /\ shown' = shown
    BY <1>13 DEF Click
  <2> HIDE DEF new
  <2> QED
    BY <2>1, <2>2
<1>14. ASSUME NEW k \in Clicks, Respond(k)
      PROVE  ClicksAreTrue'
  <2>1. click' = [click EXCEPT ![k] = Done] /\ shown' = shown
    BY <1>14 DEF Respond
  <2> QED
    BY <2>1 DEF Done
<1>15. CASE Restart
  <2>1. shown' = shown
        /\ \A k \in Clicks : click'[k] \in {NoClick, Done}
    BY <1>15 DEF Restart
  <2>2. \A k \in Clicks : click'[k].stage # "editing"
    BY <2>1 DEF NoClick, Done
  <2> QED
    BY <2>2
<1> QED
  BY <1>0, <1>1, <1>2, <1>3, <1>4, <1>5, <1>6, <1>7, <1>8, <1>9, <1>10, <1>11,
     <1>12, <1>13, <1>14, <1>15 DEF Next

LEMMA PaidStep == IInv /\ [Next]_vars => AnswersArePaid'
<1> SUFFICES ASSUME IInv, [Next]_vars
             PROVE  AnswersArePaid'
  OBVIOUS
<1> USE DEF IInv, Types, AnswersArePaid, ToolsOK, AnswersOK, RowsOK, Cards,
        cardVars, askVars, gateVars, bounds
<1>0. CASE UNCHANGED vars
  BY <1>0 DEF vars
<1>1. ASSUME NEW q \in Asked, Ask(q)
      PROVE  AnswersArePaid'
  BY <1>1 DEF Ask
<1>2. ASSUME NEW q \in Asked, Send(q)
      PROVE  AnswersArePaid'
  BY <1>2 DEF Send
<1>3. ASSUME NEW q \in Asked, Sent(q)
      PROVE  AnswersArePaid'
  BY <1>3 DEF Sent
<1>4. ASSUME NEW q \in Asked, SendFails(q)
      PROVE  AnswersArePaid'
  BY <1>4 DEF SendFails
<1>5. ASSUME NEW q \in Asked, Take(q)
      PROVE  AnswersArePaid'
  <2>1. /\ inbox' = [inbox EXCEPT ![q] = Tail(@)]
        /\ taken' = [taken EXCEPT ![q] = Append(@, Head(inbox[q]))]
        /\ UNCHANGED <<row, calls>> /\ inbox[q] # <<>>
    BY ONLY <1>5 DEF Take, cardVars, gateVars, bounds
  <2>2. Len(taken'[q]) + Len(inbox'[q]) = Len(taken[q]) + Len(inbox[q])
    <3>1. /\ inbox'[q] = Tail(inbox[q]) /\ taken'[q] = Append(taken[q], Head(inbox[q]))
          /\ inbox[q] \in Seq(Values) /\ taken[q] \in Seq(Values)
      BY <2>1
    <3>2. inbox[q] # <<>>
      BY <2>1
    <3> QED
      BY ONLY <3>1, <3>2, TakeFirst
  <2> QED
    BY <2>1, <2>2
<1>6. ASSUME NEW q \in Asked, GiveUp(q)
      PROVE  AnswersArePaid'
  BY <1>6 DEF GiveUp
<1>7. ASSUME NEW r \in Requests, Request(r)
      PROVE  AnswersArePaid'
  BY <1>7 DEF Request
<1>8. ASSUME NEW r \in Requests, Requested(r)
      PROVE  AnswersArePaid'
  BY <1>8 DEF Requested
<1>9. ASSUME NEW r \in Requests, RequestFails(r)
      PROVE  AnswersArePaid'
  BY <1>9 DEF RequestFails
<1>10. ASSUME NEW r \in Requests, Timer(r)
      PROVE  AnswersArePaid'
  BY <1>10 DEF Timer
<1>11. ASSUME NEW r \in Requests, Expired(r)
      PROVE  AnswersArePaid'
  BY <1>11 DEF Expired
<1>12. ASSUME NEW c \in Cards, Appears(c)
      PROVE  AnswersArePaid'
  BY <1>12 DEF Appears
<1>13. ASSUME NEW k \in Clicks, NEW c \in Cards, NEW option \in Options,
             Click(k, c, option)
      PROVE  AnswersArePaid'
  BY <1>13 DEF Click
<1>14. ASSUME NEW k \in Clicks, Respond(k)
      PROVE  AnswersArePaid'
  <2> DEFINE c == click[k].card
  <2>1. taken' = taken /\ calls' = calls
    BY <1>14 DEF Respond
  <2>2. CASE UNCHANGED <<row, inbox>>
    BY <2>1, <2>2
  <2>3. CASE c \in Requests /\ row' = [row EXCEPT ![c] = "none"] /\ UNCHANGED inbox
    BY <2>1, <2>3
  <2>4. CASE row[c] # "none" /\ c \in Asked /\ Answered(c, click[k].value)
    <3>1. click[k].value \in Values
      BY <1>14, EditingFields DEF Respond, Editing, ClickOf
    <3>2. /\ inbox' = [inbox EXCEPT ![c] = Append(@, click[k].value)]
          /\ row' = [row EXCEPT ![c] = "none"]
      BY ONLY <2>4 DEF Answered
    <3>3. c \in Asked /\ row[c] # "none" /\ inbox[c] \in Seq(Values)
      BY <2>4
    <3>4. inbox'[c] = Append(inbox[c], click[k].value)
      BY <3>2, <3>3
    <3>5. Len(inbox'[c]) = Len(inbox[c]) + 1
      BY ONLY <3>1, <3>3, <3>4, AddLast
    <3> HIDE DEF c
    <3>6. \A q \in Asked : q # c => inbox'[q] = inbox[q] /\ row'[q] = row[q]
      BY <3>2
    <3>7. row'[c] = "none" /\ Len(taken'[c]) + Len(inbox'[c]) <= calls'[c]
      BY <2>1, <3>2, <3>3, <3>5
    <3>8. ASSUME NEW q \in Asked
          PROVE  /\ Len(taken'[q]) + Len(inbox'[q]) <= calls'[q]
                 /\ row'[q] # "none" => Len(taken'[q]) + Len(inbox'[q]) < calls'[q]
      <4>1. CASE q = c
        BY ONLY <3>7, <4>1
      <4>2. CASE q # c
        BY <2>1, <3>6, <4>2
      <4> QED
        BY <4>1, <4>2
    <3> QED
      BY <3>8
  <2> QED
    BY <1>14, <2>2, <2>3, <2>4 DEF Respond
<1>15. CASE Restart
  BY <1>15 DEF Restart
<1> QED
  BY <1>0, <1>1, <1>2, <1>3, <1>4, <1>5, <1>6, <1>7, <1>8, <1>9, <1>10, <1>11,
     <1>12, <1>13, <1>14, <1>15 DEF Next

LEMMA FirstRowStep == IInv /\ [Next]_vars => FirstRowIsRead'
<1> SUFFICES ASSUME IInv, [Next]_vars
             PROVE  FirstRowIsRead'
  OBVIOUS
<1> USE DEF IInv, Types, FirstRowIsRead, ToolsOK, AnswersOK, RowsOK, ClicksOK,
        Editing, Cards, cardVars, askVars, gateVars, bounds
<1>0. CASE UNCHANGED vars
  BY <1>0 DEF vars
<1>1. ASSUME NEW q \in Asked, Ask(q)
      PROVE  FirstRowIsRead'
  BY <1>1 DEF Ask
<1>2. ASSUME NEW q \in Asked, Send(q)
      PROVE  FirstRowIsRead'
  <2>1. /\ row' = [row EXCEPT ![q] = "pending"]
        /\ calls' = [calls EXCEPT ![q] = @ + 1]
        /\ UNCHANGED <<click, inbox, taken>>
    BY ONLY <1>2 DEF Send, gateVars, bounds
  <2>2. ASSUME NEW p \in Asked, calls'[p] <= 1
        PROVE  calls[p] <= 1 /\ (p # q => row'[p] = row[p])
    BY <2>1, <2>2
  <2>3. ASSUME calls'[q] <= 1, NEW k \in Clicks, Editing(k), click[k].card = q
        PROVE  FALSE
    <3>1. calls[q] = 0
      BY <2>1, <2>3
    <3> QED
      BY <2>3, <3>1 DEF ClicksAreTrue, ShownWasSent
  <2> QED
    BY <2>1, <2>2, <2>3
<1>3. ASSUME NEW q \in Asked, Sent(q)
      PROVE  FirstRowIsRead'
  BY <1>3 DEF Sent
<1>4. ASSUME NEW q \in Asked, SendFails(q)
      PROVE  FirstRowIsRead'
  BY <1>4 DEF SendFails
<1>5. ASSUME NEW q \in Asked, Take(q)
      PROVE  FirstRowIsRead'
  <2>1. /\ inbox' = [inbox EXCEPT ![q] = Tail(@)]
        /\ taken' = [taken EXCEPT ![q] = Append(@, Head(inbox[q]))]
        /\ UNCHANGED <<row, calls, click>> /\ inbox[q] # <<>>
    BY ONLY <1>5 DEF Take, cardVars, gateVars, bounds
  <2>2. ASSUME calls[q] <= 1
        PROVE  inbox'[q] \in Seq(Options) /\ taken'[q] \in Seq(Options)
    <3>1. inbox'[q] = Tail(inbox[q]) /\ taken'[q] = Append(taken[q], Head(inbox[q]))
      BY <2>1
    <3>2. inbox[q] \in Seq(Options) /\ taken[q] \in Seq(Options)
      BY <2>2
    <3>3. inbox[q] # <<>>
      BY <2>1
    <3> QED
      BY ONLY <3>1, <3>2, <3>3, TakeFirst
  <2> QED
    BY <2>1, <2>2
<1>6. ASSUME NEW q \in Asked, GiveUp(q)
      PROVE  FirstRowIsRead'
  BY <1>6 DEF GiveUp
<1>7. ASSUME NEW r \in Requests, Request(r)
      PROVE  FirstRowIsRead'
  BY <1>7 DEF Request
<1>8. ASSUME NEW r \in Requests, Requested(r)
      PROVE  FirstRowIsRead'
  BY <1>8 DEF Requested
<1>9. ASSUME NEW r \in Requests, RequestFails(r)
      PROVE  FirstRowIsRead'
  BY <1>9 DEF RequestFails
<1>10. ASSUME NEW r \in Requests, Timer(r)
      PROVE  FirstRowIsRead'
  BY <1>10 DEF Timer
<1>11. ASSUME NEW r \in Requests, Expired(r)
      PROVE  FirstRowIsRead'
  BY <1>11 DEF Expired
<1>12. ASSUME NEW c \in Cards, Appears(c)
      PROVE  FirstRowIsRead'
  BY <1>12 DEF Appears
<1>13. ASSUME NEW k \in Clicks, NEW c \in Cards, NEW option \in Options,
             Click(k, c, option)
      PROVE  FirstRowIsRead'
  <2> DEFINE new == [stage |-> "editing", card |-> c, option |-> option,
                     value |-> Decoded(c, option)]
  <2>1. row[c] = "pending" => new.value \in Options
    BY DEF Decoded
  <2>2. new.card = c
    OBVIOUS
  <2>3. click' = [click EXCEPT ![k] = new] /\ UNCHANGED <<row, calls, inbox, taken>>
    BY <1>13 DEF Click
  <2> HIDE DEF new
  <2> QED
    BY <2>1, <2>2, <2>3
<1>14. ASSUME NEW k \in Clicks, Respond(k)
      PROVE  FirstRowIsRead'
  <2> DEFINE c == click[k].card
  <2>1. taken' = taken /\ calls' = calls /\ click' = [click EXCEPT ![k] = Done]
    BY <1>14 DEF Respond
  <2>2. ~Editing(k)' /\ \A j \in Clicks \ {k} : click'[j] = click[j]
    BY <2>1 DEF Done
  <2>3. CASE UNCHANGED <<row, inbox>>
    BY <2>1, <2>2, <2>3
  <2>4. CASE c \in Requests /\ row' = [row EXCEPT ![c] = "none"] /\ UNCHANGED inbox
    BY <2>1, <2>2, <2>4
  <2>5. CASE row[c] # "none" /\ c \in Asked /\ Answered(c, click[k].value)
    <3>1. row[c] = "pending"
      BY <2>5 DEF RowsOfQuestions
    <3>2. /\ inbox' = [inbox EXCEPT ![c] = Append(@, click[k].value)]
          /\ row' = [row EXCEPT ![c] = "none"]
      BY ONLY <2>5 DEF Answered
    <3>3. ASSUME calls[c] <= 1
          PROVE  inbox'[c] \in Seq(Options)
      <4>1. click[k].value \in Options
        BY <1>14, <2>5, <3>1, <3>3 DEF Respond
      <4>2. inbox[c] \in Seq(Options) /\ inbox'[c] = Append(inbox[c], click[k].value)
        BY <2>5, <3>2, <3>3
      <4> QED
        BY ONLY <4>1, <4>2, AddLast
    <3> HIDE DEF c
    <3> QED
      BY <2>1, <2>2, <2>5, <3>2, <3>3
  <2> QED
    BY <1>14, <2>3, <2>4, <2>5 DEF Respond
<1>15. CASE Restart
  <2>1. UNCHANGED <<row, calls, inbox, taken>>
        /\ \A k \in Clicks : click'[k] \in {NoClick, Done}
    BY <1>15 DEF Restart
  <2>2. \A k \in Clicks : click'[k].stage # "editing"
    BY ONLY <2>1 DEF NoClick, Done
  <2> QED
    BY <2>1, <2>2
<1> QED
  BY <1>0, <1>1, <1>2, <1>3, <1>4, <1>5, <1>6, <1>7, <1>8, <1>9, <1>10, <1>11,
     <1>12, <1>13, <1>14, <1>15 DEF Next

LEMMA StepIInv == IInv /\ [Next]_vars => IInv'
<1>1. IInv /\ [Next]_vars => Types'
  BY RowsStep, ClicksStep, ToolsStep, AnswersStep, GatesStep, RequestRowsStep,
     QuestionRowsStep, BoundsStep DEF Types
<1> QED
  BY <1>1, AttemptsStep, ShownStep, ClicksTrueStep, PaidStep, FirstRowStep, Zenon DEF IInv

LEMMA Invariant == Spec => []IInv
BY InitIInv, StepIInv, PTL DEF Spec

-----------------------------------------------------------------------------
(* The theorems *)

\* Every variable keeps its type: the resolvers in memory are those of the
\* requests that wait, and no row of a request is left without one who will
\* remove it.
THEOREM QuestionsTypeCorrect == Spec => []TypeOK
<1>1. IInv => TypeOK
  BY TypeParts DEF IInv
<1> QED
  BY <1>1, Invariant, PTL

\* A question whose card was sent once has one answer at most, an option of
\* its card, for any number of clicks at any time.
\* (handleInteractiveResponse, resolveSelectedOption)
THEOREM AnswersAreAsked == Spec => []AnsweredAsAsked
<1>1. IInv => AnsweredAsAsked
  <2> SUFFICES ASSUME IInv, NEW q \in Asked
               PROVE  LET all == taken[q] \o inbox[q] IN
                      /\ Len(all) <= calls[q]
                      /\ calls[q] = 1 => \A i \in DOMAIN all : all[i] \in Options
    BY DEF AnsweredAsAsked
  <2>1. /\ inbox[q] \in Seq(Values) /\ taken[q] \in Seq(Values) /\ calls[q] \in Nat
    BY DEF IInv, Types, AnswersOK, ToolsOK
  <2>2. Len(taken[q]) + Len(inbox[q]) <= calls[q]
    BY DEF IInv, AnswersArePaid
  <2>3. calls[q] = 1 => inbox[q] \in Seq(Options) /\ taken[q] \in Seq(Options)
    BY <2>1 DEF IInv, FirstRowIsRead
  <2>4. Len(taken[q] \o inbox[q]) <= calls[q]
    BY ONLY <2>1, <2>2, Joined
  <2>5. calls[q] = 1 =>
          \A i \in DOMAIN (taken[q] \o inbox[q]) : (taken[q] \o inbox[q])[i] \in Options
    BY ONLY <2>3, Joined
  <2> QED
    BY <2>4, <2>5
<1> QED
  BY <1>1, Invariant, PTL

\* A request is decided once, and given by a click on "approve" of its own
\* card only, whatever timers, clicks and restarts there are.
\* (resolveOneCLIApproval)
THEOREM RequestsAreDecidedOnce == Spec => DecidedOnce
<1> DEFINE Good(r) ==
      /\ gate[r] \in {"approve", "deny", "lost"} => gate'[r] = gate[r]
      /\ gate'[r] = "approve" /\ gate[r] # "approve" =>
           /\ gate[r] = "waiting"
           /\ \E k \in Clicks : /\ click[k].stage = "editing"
                                /\ click'[k] = Done
                                /\ click[k].card = r /\ click[k].option = "approve"
<1>1. IInv /\ [Next]_vars => \A r \in Requests : Good(r)
  <2> SUFFICES ASSUME IInv, [Next]_vars, NEW s \in Requests
               PROVE  Good(s)
    OBVIOUS
  <2> USE DEF IInv, Types, GatesOK, cardVars, askVars, gateVars, bounds
  <2>1. CASE UNCHANGED gate
    BY <2>1
  <2>2. ASSUME NEW r \in Requests, Request(r) \/ Requested(r) \/ RequestFails(r) \/ Timer(r)
        PROVE  Good(s)
    BY <2>2 DEF Request, Requested, RequestFails, Timer
  <2>3. ASSUME NEW k \in Clicks, Respond(k), Resolved(click[k].card, click[k].value),
               click[k].card \in Requests
        PROVE  Good(s)
    <3>1. click[k].stage = "editing" /\ click'[k] = Done
      BY <2>3 DEF Respond, ClicksOK
    <3>2. click[k].value = "approve" => click[k].option = "approve"
      BY <3>1 DEF ClicksAreTrue, Editing
    <3> QED
      BY <2>3, <3>1, <3>2 DEF Resolved
  <2>4. CASE Restart
    BY <2>4 DEF Restart
  <2>5. ASSUME NEW k \in Clicks, Respond(k)
        PROVE  UNCHANGED gate \/ (click[k].card \in Requests
                                  /\ Resolved(click[k].card, click[k].value))
    BY <2>5 DEF Respond
  <2>6. CASE UNCHANGED vars
    BY <2>1, <2>6 DEF vars
  <2>7. ASSUME NEW q \in Asked,
               Ask(q) \/ Send(q) \/ Sent(q) \/ SendFails(q) \/ Take(q) \/ GiveUp(q)
        PROVE  UNCHANGED gate
    BY <2>7 DEF Ask, Send, Sent, SendFails, Take, GiveUp
  <2>8. ASSUME NEW c \in Cards, Appears(c)
        PROVE  UNCHANGED gate
    BY <2>8 DEF Appears
  <2>9. ASSUME NEW k \in Clicks, NEW c \in Cards, NEW option \in Options, Click(k, c, option)
        PROVE  UNCHANGED gate
    BY <2>9 DEF Click
  <2>10. ASSUME NEW r \in Requests, Expired(r)
         PROVE  UNCHANGED gate
    BY <2>10 DEF Expired
  <2> QED
    BY <2>1, <2>2, <2>3, <2>4, <2>5, <2>6, <2>7, <2>8, <2>9, <2>10 DEF Next
<1> QED
  BY <1>1, Invariant, PTL DEF Spec, DecidedOnce


HIDE QuestionsAssumption DEF QuestionsAssumption
(***************************************************************************)
(* Counting up.                                                            *)
(***************************************************************************)
\* A set of numbers has a least one.
LEMMA Least ==
  ASSUME NEW S, S \subseteq Nat, S # {}
  PROVE  \E n \in S : \A k \in S : n <= k
<1> DEFINE Less == {x \in Nat \X Nat : x[1] < x[2]}
<1>1. IsWellFoundedOn(Less, Nat)
  BY NatLessThanWellFounded DEF OpToRel
<1>2. PICK n \in S : \A k \in S : <<k, n>> \notin Less
  BY <1>1, WFMin
<1>3. ASSUME NEW k \in S, k < n PROVE FALSE
  BY <1>2, <1>3
<1> QED
  BY <1>3

\* What holds of 0, and of n + 1 when it does of n, holds up to N.
LEMMA CountUp ==
  ASSUME NEW N \in Nat, NEW S, 0 \in S, \A n \in 0..(N - 1) : n \in S => n + 1 \in S
  PROVE  \A n \in 0..N : n \in S
<1> DEFINE Bad == (0..N) \ S
<1> SUFFICES ASSUME Bad # {} PROVE FALSE
  OBVIOUS
<1>1. PICK m \in Bad : \A k \in Bad : m <= k
  <2>1. Bad \subseteq Nat
    OBVIOUS
  <2> HIDE DEF Bad
  <2> QED
    BY <2>1, Least
<1>2. m \in 1..N /\ m - 1 \in 0..(N - 1) /\ (m - 1) + 1 = m
  OBVIOUS
<1>3. m - 1 \in S
  BY <1>1, <1>2
<1> QED
  BY <1>2, <1>3

(***************************************************************************)
(* The elements of a sequence that are in a set.                           *)
(***************************************************************************)
\* f has what is kept of each beginning of s.
Keeps(f, s, S) ==
  /\ f[0] = <<>>
  /\ \A n \in 1..Len(s) :
       f[n] = IF s[n] \in S THEN Append(f[n - 1], s[n]) ELSE f[n - 1]

\* The recursive function in Kept exists.
LEMMA KeptIs ==
  ASSUME NEW T, NEW s \in Seq(T), NEW S
  PROVE  \E f : Keeps(f, s, S) /\ Kept(s, S) = f[Len(s)]
<1> DEFINE Value(f, n) == IF n = 0 THEN <<>>
                          ELSE IF s[n] \in S THEN Append(f[n - 1], s[n]) ELSE f[n - 1]
           Is(f, m) == f = [n \in 0..m |-> Value(f, n)]
           Good == {m \in 0..Len(s) : \E f : Is(f, m)}
<1>0. Len(s) \in Nat
  OBVIOUS
<1>1. 0 \in Good
  <2>1. Is([n \in 0..0 |-> <<>>], 0)
    OBVIOUS
  <2> HIDE DEF Is
  <2> QED
    BY <2>1, <1>0
<1>2. ASSUME NEW m \in 0..(Len(s) - 1), m \in Good PROVE m + 1 \in Good
  <2>1. PICK g : Is(g, m)
    BY <1>2
  <2> DEFINE h == [n \in 0..(m + 1) |-> IF n <= m THEN g[n] ELSE Value(g, m + 1)]
  <2>2. \A n \in 0..m : g[n] = Value(g, n)
    BY <2>1
  <2>3. \A n \in 0..(m + 1) : h[n] = Value(h, n)
    BY <2>2
  <2>4. Is(h, m + 1)
    BY <2>3
  <2>5. m + 1 \in 0..Len(s)
    BY <1>0
  <2> HIDE DEF Is
  <2> QED
    BY <2>4, <2>5
<1>3. Len(s) \in Good
  <2> HIDE DEF Good
  <2>1. \A m \in 0..Len(s) : m \in Good
    BY ONLY <1>0, <1>1, <1>2, CountUp
  <2> QED
    BY <1>0, <2>1
<1>4. Is(CHOOSE f : Is(f, Len(s)), Len(s))
  <2> HIDE DEF Is
  <2> QED
    BY <1>3
<1>5. Kept(s, S) = (CHOOSE f : Is(f, Len(s)))[Len(s)]
  BY DEF Kept
<1>6. Keeps(CHOOSE f : Is(f, Len(s)), s, S)
  <2> DEFINE f == CHOOSE f : Is(f, Len(s))
  <2>1. f = [n \in 0..Len(s) |-> Value(f, n)]
    BY <1>4
  <2> HIDE DEF f
  <2>2. f[0] = Value(f, 0) /\ \A n \in 1..Len(s) : f[n] = Value(f, n)
    <3> HIDE DEF Value
    <3> QED
      BY <1>0, <2>1
  <2>3. Keeps(f, s, S)
    BY <2>2 DEF Keeps
  <2> QED
    BY <2>3 DEF f
<1> QED
  BY <1>5, <1>6

\* What is kept of the beginnings is unique.
LEMMA KeepsAgree ==
  ASSUME NEW T, NEW s \in Seq(T), NEW t \in Seq(T), NEW S, NEW f, NEW g,
         Keeps(f, s, S), Keeps(g, t, S), Len(s) <= Len(t),
         \A n \in 1..Len(s) : s[n] = t[n]
  PROVE  \A n \in 0..Len(s) : f[n] = g[n]
<1> DEFINE Good == {n \in 0..Len(s) : f[n] = g[n]}
<1>1. 0 \in Good
  BY DEF Keeps
<1>2. ASSUME NEW n \in 0..(Len(s) - 1), n \in Good PROVE n + 1 \in Good
  <2>1. n + 1 \in 1..Len(s) /\ n + 1 \in 1..Len(t) /\ (n + 1) - 1 = n /\ f[n] = g[n]
    BY <1>2
  <2>2. s[n + 1] = t[n + 1]
    BY <2>1
  <2> QED
    BY <2>1, <2>2 DEF Keeps
<1>3. Len(s) \in Nat
  OBVIOUS
<1> HIDE DEF Good
<1>4. \A n \in 0..Len(s) : n \in Good
  BY <1>1, <1>2, <1>3, CountUp
<1> QED
  BY <1>4 DEF Good

LEMMA KeptOfEmpty ==
  ASSUME NEW S
  PROVE  Kept(<<>>, S) = <<>>
<1>1. <<>> \in Seq({}) /\ Len(<<>>) = 0
  OBVIOUS
<1>2. PICK f : Keeps(f, <<>>, S) /\ Kept(<<>>, S) = f[Len(<<>>)]
  BY <1>1, KeptIs
<1> QED
  BY <1>1, <1>2 DEF Keeps

LEMMA KeptOfAppend ==
  ASSUME NEW T, NEW s \in Seq(T), NEW x \in T, NEW S
  PROVE  Kept(Append(s, x), S) = IF x \in S THEN Append(Kept(s, S), x) ELSE Kept(s, S)
<1> DEFINE t == Append(s, x)
<1>1. /\ t \in Seq(T) /\ Len(t) = Len(s) + 1 /\ Len(s) \in Nat /\ t[Len(s) + 1] = x
      /\ \A n \in 1..Len(s) : s[n] = t[n]
  OBVIOUS
<1> HIDE DEF t
<1>2. PICK f : Keeps(f, s, S) /\ Kept(s, S) = f[Len(s)]
  BY KeptIs
<1>3. PICK g : Keeps(g, t, S) /\ Kept(t, S) = g[Len(t)]
  BY <1>1, KeptIs
<1>4. f[Len(s)] = g[Len(s)]
  BY <1>1, <1>2, <1>3, KeepsAgree
<1>5. g[Len(s) + 1] = IF x \in S THEN Append(g[Len(s)], x) ELSE g[Len(s)]
  <2>1. Len(s) + 1 \in 1..Len(t) /\ (Len(s) + 1) - 1 = Len(s)
    BY <1>1
  <2> QED
    BY <1>1, <1>3, <2>1 DEF Keeps
<1> QED
  BY <1>1, <1>2, <1>3, <1>4, <1>5 DEF t

(***************************************************************************)
(* Sequences, their elements and their beginnings.                         *)
(***************************************************************************)
LEMMA Beginnings ==
  ASSUME NEW T, NEW s \in Seq(T)
  PROVE  /\ SubSeq(s, 1, 0) = <<>> /\ SubSeq(s, 1, Len(s)) = s /\ Len(s) \in Nat
         /\ \A n \in 0..(Len(s) - 1) :
              /\ SubSeq(s, 1, n) \in Seq(T) /\ s[n + 1] \in T
              /\ SubSeq(s, 1, n + 1) = Append(SubSeq(s, 1, n), s[n + 1])
<1>1. ASSUME NEW n \in 0..(Len(s) - 1)
      PROVE  /\ SubSeq(s, 1, n) \in Seq(T) /\ s[n + 1] \in T
             /\ SubSeq(s, 1, n + 1) = Append(SubSeq(s, 1, n), s[n + 1])
  <2>1. SubSeq(s, 1, n) \in Seq(T) /\ Len(SubSeq(s, 1, n)) = n /\ s[n + 1] \in T
    OBVIOUS
  <2>2. SubSeq(s, 1, n + 1) \in Seq(T) /\ Len(SubSeq(s, 1, n + 1)) = n + 1
    OBVIOUS
  <2>3. \A i \in 1..(n + 1) :
          SubSeq(s, 1, n + 1)[i] = Append(SubSeq(s, 1, n), s[n + 1])[i]
    BY <2>1
  <2>4. Append(SubSeq(s, 1, n), s[n + 1]) \in Seq(T)
        /\ Len(Append(SubSeq(s, 1, n), s[n + 1])) = n + 1
    BY <2>1
  <2> QED
    BY <2>1, <2>2, <2>3, <2>4, SeqEqual
<1>2. SubSeq(s, 1, 0) = <<>> /\ SubSeq(s, 1, Len(s)) = s
  <2>1. SubSeq(s, 1, 0) \in Seq(T) /\ Len(SubSeq(s, 1, 0)) = 0
    OBVIOUS
  <2>2. SubSeq(s, 1, Len(s)) \in Seq(T) /\ Len(SubSeq(s, 1, Len(s))) = Len(s)
        /\ \A i \in 1..Len(s) : SubSeq(s, 1, Len(s))[i] = s[i]
    OBVIOUS
  <2> QED
    BY <2>1, <2>2, SeqEqual
<1> QED
  BY <1>1, <1>2

LEMMA RangeIs ==
  ASSUME NEW T, NEW s \in Seq(T)
  PROVE  /\ Range(s) = {s[i] : i \in 1..Len(s)} /\ Range(s) \subseteq T
         /\ IsInjective(s) <=> \A i, j \in 1..Len(s) : s[i] = s[j] => i = j
BY DEF Range, IsInjective

LEMMA Appended ==
  ASSUME NEW T, NEW s \in Seq(T), NEW x \in T
  PROVE  /\ Range(Append(s, x)) = Range(s) \cup {x}
         /\ IsInjective(s) /\ x \notin Range(s) => IsInjective(Append(s, x))
         /\ IsInjective(Append(s, x)) => IsInjective(s) /\ x \notin Range(s)
<1> DEFINE t == Append(s, x)
<1>1. /\ t \in Seq(T) /\ Len(t) = Len(s) + 1 /\ Len(s) \in Nat /\ t[Len(s) + 1] = x
      /\ \A n \in 1..Len(s) : t[n] = s[n]
  OBVIOUS
<1> HIDE DEF t
<1>2. Range(t) = Range(s) \cup {x}
  BY <1>1, RangeIs
<1>3. ASSUME IsInjective(s), x \notin Range(s) PROVE IsInjective(t)
  BY <1>1, <1>3, RangeIs
<1>4. ASSUME IsInjective(t) PROVE IsInjective(s) /\ x \notin Range(s)
  <2>1. \A i, j \in 1..Len(t) : t[i] = t[j] => i = j
    BY <1>1, <1>4, RangeIs
  <2>2. IsInjective(s)
    BY <1>1, <2>1, RangeIs
  <2>3. ASSUME NEW i \in 1..Len(s), s[i] = x PROVE FALSE
    <3>1. i \in 1..Len(t) /\ Len(s) + 1 \in 1..Len(t) /\ t[i] = t[Len(s) + 1]
      BY <1>1, <2>3
    <3> QED
      BY <1>1, <2>1, <3>1
  <2> QED
    BY <2>2, <2>3, RangeIs
<1> QED
  BY <1>2, <1>3, <1>4 DEF t

LEMMA Concatenated ==
  ASSUME NEW T, NEW s \in Seq(T), NEW t \in Seq(T)
  PROVE  /\ s \o t \in Seq(T) /\ Range(s \o t) = Range(s) \cup Range(t)
         /\ IsInjective(s) /\ IsInjective(t) /\ Range(s) \cap Range(t) = {}
              => IsInjective(s \o t)
         /\ IsInjective(s \o t) => IsInjective(s) /\ Range(s) \cap Range(t) = {}
<1> DEFINE u == s \o t
<1>1. /\ u \in Seq(T) /\ Len(u) = Len(s) + Len(t) /\ Len(s) \in Nat /\ Len(t) \in Nat
      /\ \A i \in 1..Len(s) : u[i] = s[i]
      /\ \A i \in 1..Len(t) : u[Len(s) + i] = t[i]
  OBVIOUS
<1> HIDE DEF u
<1>2. \A i \in 1..Len(u) : i \in 1..Len(s) \/ (i - Len(s) \in 1..Len(t) /\ u[i] = t[i - Len(s)])
  BY <1>1
<1>3. Range(u) = Range(s) \cup Range(t)
  <2>1. \A i \in 1..Len(t) : Len(s) + i \in 1..Len(u) /\ u[Len(s) + i] = t[i]
    BY <1>1
  <2>2. Range(s) = {s[i] : i \in 1..Len(s)} /\ Range(t) = {t[i] : i \in 1..Len(t)}
        /\ Range(u) = {u[i] : i \in 1..Len(u)}
    BY <1>1, RangeIs
  <2>3. ASSUME NEW x \in Range(t) PROVE x \in Range(u)
    BY <2>1, <2>2
  <2>4. ASSUME NEW x \in Range(s) PROVE x \in Range(u)
    BY <1>1, <2>2
  <2>5. ASSUME NEW x \in Range(u) PROVE x \in Range(s) \cup Range(t)
    BY <1>1, <1>2, <2>2
  <2> QED
    BY <2>3, <2>4, <2>5
<1>4. ASSUME IsInjective(s), IsInjective(t), Range(s) \cap Range(t) = {}
      PROVE  IsInjective(u)
  <2>1. (\A i, j \in 1..Len(s) : s[i] = s[j] => i = j) /\ \A i, j \in 1..Len(t) : t[i] = t[j] => i = j
    BY <1>4, RangeIs
  <2>2. \A i \in 1..Len(s), j \in 1..Len(t) : s[i] # t[j]
    <3>1. \A i \in 1..Len(s) : s[i] \in Range(s)
      BY RangeIs
    <3>2. \A j \in 1..Len(t) : t[j] \in Range(t)
      BY RangeIs
    <3> QED
      BY <1>4, <3>1, <3>2
  <2>3. ASSUME NEW i \in 1..Len(u), NEW j \in 1..Len(u), u[i] = u[j] PROVE i = j
    <3>1. CASE i \in 1..Len(s) /\ j \in 1..Len(s)
      BY <1>1, <2>1, <2>3, <3>1
    <3>2. CASE i \in 1..Len(s) /\ j \notin 1..Len(s)
      BY <1>1, <1>2, <2>2, <2>3, <3>2
    <3>3. CASE i \notin 1..Len(s) /\ j \in 1..Len(s)
      BY <1>1, <1>2, <2>2, <2>3, <3>3
    <3>4. CASE i \notin 1..Len(s) /\ j \notin 1..Len(s)
      <4>1. /\ i - Len(s) \in 1..Len(t) /\ j - Len(s) \in 1..Len(t)
            /\ t[i - Len(s)] = t[j - Len(s)]
        BY <1>2, <2>3, <3>4
      <4>2. i - Len(s) = j - Len(s)
        BY <2>1, <4>1
      <4> QED
        BY <1>1, <4>2
    <3> QED
      BY <3>1, <3>2, <3>3, <3>4
  <2> QED
    BY <1>1, <2>3, RangeIs
<1>5. ASSUME IsInjective(u) PROVE IsInjective(s) /\ Range(s) \cap Range(t) = {}
  <2>1. \A i, j \in 1..Len(u) : u[i] = u[j] => i = j
    BY <1>1, <1>5, RangeIs
  <2>2. IsInjective(s)
    BY <1>1, <2>1, RangeIs
  <2>3. ASSUME NEW i \in 1..Len(s), NEW j \in 1..Len(t), s[i] = t[j] PROVE FALSE
    <3>1. i \in 1..Len(u) /\ Len(s) + j \in 1..Len(u) /\ u[i] = u[Len(s) + j] /\ i # Len(s) + j
      BY <1>1, <2>3
    <3> QED
      BY <2>1, <3>1
  <2> QED
    BY <2>2, <2>3, RangeIs
<1> QED
  BY <1>1, <1>3, <1>4, <1>5 DEF u

LEMMA SeqInto ==
  ASSUME NEW T, NEW s \in Seq(T), NEW U, \A i \in 1..Len(s) : s[i] \in U
  PROVE  s \in Seq(U)
OBVIOUS

LEMMA SeqWithin ==
  ASSUME NEW T, NEW s \in Seq(T), NEW U, Range(s) \subseteq U
  PROVE  s \in Seq(U)
<1>1. \A i \in 1..Len(s) : s[i] \in U
  BY DEF Range
<1> QED
  BY <1>1, SeqInto

(***************************************************************************)
(* What Kept keeps.                                                        *)
(***************************************************************************)
\* What holds of the empty sequence, and of a longer one when it does of its
\* beginning, holds of every sequence.
LEMMA GrowUp ==
  ASSUME NEW T, NEW G, <<>> \in G, \A s \in Seq(T), x \in T : s \in G => Append(s, x) \in G
  PROVE  \A s \in Seq(T) : s \in G
<1> SUFFICES ASSUME NEW s \in Seq(T) PROVE s \in G
  OBVIOUS
<1> DEFINE Good == {n \in 0..Len(s) : SubSeq(s, 1, n) \in G}
<1>1. Len(s) \in Nat
  OBVIOUS
<1>2. 0 \in Good
  <2>1. SubSeq(s, 1, 0) = <<>> /\ 0 \in 0..Len(s)
    BY <1>1, Beginnings
  <2> QED
    BY <2>1, Zenon
<1>3. ASSUME NEW n \in 0..(Len(s) - 1), n \in Good PROVE n + 1 \in Good
  <2>1. /\ SubSeq(s, 1, n) \in Seq(T) /\ s[n + 1] \in T /\ SubSeq(s, 1, n) \in G
        /\ SubSeq(s, 1, n + 1) = Append(SubSeq(s, 1, n), s[n + 1])
    BY <1>3, Beginnings
  <2>2. SubSeq(s, 1, n + 1) \in G
    BY <2>1
  <2>3. n + 1 \in 0..Len(s)
    BY ONLY <1>1, n \in 0..(Len(s) - 1)
  <2> QED
    BY <2>2, <2>3
<1>4. Len(s) \in Good
  <2> HIDE DEF Good
  <2>1. \A n \in 0..Len(s) : n \in Good
    BY ONLY <1>1, <1>2, <1>3, CountUp
  <2> QED
    BY <1>1, <2>1
<1> QED
  BY <1>4, Beginnings

LEMMA KeptTypes ==
  ASSUME NEW T, NEW s \in Seq(T), NEW S
  PROVE  /\ Kept(s, S) \in Seq(T) /\ Range(Kept(s, S)) = Range(s) \cap S
         /\ IsInjective(s) => IsInjective(Kept(s, S))
         /\ Len(Kept(s, S)) <= Len(s)
<1> DEFINE Fine(t) == /\ Kept(t, S) \in Seq(T) /\ Range(Kept(t, S)) = Range(t) \cap S
                      /\ IsInjective(t) => IsInjective(Kept(t, S))
                      /\ Len(Kept(t, S)) <= Len(t)
           G == {t \in Seq(T) : Fine(t)}
<1>1. <<>> \in G
  <2>1. <<>> \in Seq(T) /\ Range(<<>>) = {} /\ Len(<<>>) = 0
    BY DEF Range
  <2>2. Kept(<<>>, S) = <<>>
    BY KeptOfEmpty
  <2>3. Len(<<>>) <= Len(<<>>)
    OBVIOUS
  <2>4. Range(<<>>) = Range(<<>>) \cap S
    BY <2>1
  <2> QED
    BY <2>1, <2>2, <2>3, <2>4, Zenon
<1>2. ASSUME NEW t \in Seq(T), NEW x \in T, t \in G PROVE Append(t, x) \in G
  <2>1. /\ Fine(t) /\ Append(t, x) \in Seq(T) /\ Len(Append(t, x)) = Len(t) + 1
        /\ Len(t) \in Nat
    BY <1>2
  <2>2. Kept(Append(t, x), S) = IF x \in S THEN Append(Kept(t, S), x) ELSE Kept(t, S)
    BY KeptOfAppend
  <2>3. Range(Append(t, x)) = Range(t) \cup {x}
        /\ (IsInjective(Append(t, x)) => IsInjective(t) /\ x \notin Range(t))
    BY Appended
  <2>4. CASE x \in S
    <3>1. /\ Range(Append(Kept(t, S), x)) = Range(Kept(t, S)) \cup {x}
          /\ IsInjective(Kept(t, S)) /\ x \notin Range(Kept(t, S))
               => IsInjective(Append(Kept(t, S), x))
      BY <2>1, Appended
    <3>2. Len(Append(Kept(t, S), x)) <= Len(t) + 1 /\ Append(Kept(t, S), x) \in Seq(T)
      BY <2>1
    <3> QED
      BY <2>1, <2>2, <2>3, <2>4, <3>1, <3>2
  <2>5. CASE x \notin S
    BY <2>1, <2>2, <2>3, <2>5
  <2> QED
    BY <2>4, <2>5
<1> HIDE DEF G
<1>3. s \in G
  BY <1>1, <1>2, GrowUp
<1> QED
  BY <1>3 DEF G

LEMMA KeptOfConcat ==
  ASSUME NEW T, NEW s \in Seq(T), NEW t \in Seq(T), NEW S
  PROVE  Kept(s \o t, S) = Kept(s, S) \o Kept(t, S)
<1> DEFINE G == {u \in Seq(T) : Kept(s \o u, S) = Kept(s, S) \o Kept(u, S)}
<1>0. Kept(s, S) \in Seq(T)
  BY KeptTypes
<1>1. <<>> \in G
  <2>1. s \o <<>> = s /\ Kept(s, S) \o <<>> = Kept(s, S)
    BY <1>0, ConcatEmptySeq
  <2>2. Kept(<<>>, S) = <<>>
    BY KeptOfEmpty
  <2>3. <<>> \in Seq(T)
    OBVIOUS
  <2> QED
    BY <2>1, <2>2, <2>3, Zenon
<1>2. ASSUME NEW u \in Seq(T), NEW x \in T, u \in G PROVE Append(u, x) \in G
  <2>1. s \o Append(u, x) = Append(s \o u, x) /\ s \o u \in Seq(T) /\ Append(u, x) \in Seq(T)
    OBVIOUS
  <2>2. /\ Kept(Append(s \o u, x), S) = IF x \in S THEN Append(Kept(s \o u, S), x)
                                                   ELSE Kept(s \o u, S)
        /\ Kept(Append(u, x), S) = IF x \in S THEN Append(Kept(u, S), x) ELSE Kept(u, S)
    BY <2>1, KeptOfAppend
  <2>3. Kept(u, S) \in Seq(T)
    BY KeptTypes
  <2>4. Kept(s, S) \o Append(Kept(u, S), x) = Append(Kept(s, S) \o Kept(u, S), x)
    BY <1>0, <2>3
  <2> QED
    BY <1>2, <2>1, <2>2, <2>4
<1> HIDE DEF G
<1>3. t \in G
  BY <1>1, <1>2, GrowUp
<1> QED
  BY <1>3 DEF G

\* Only the elements of the sequence matter in the set.
LEMMA KeptIsSame ==
  ASSUME NEW T, NEW s \in Seq(T), NEW S, NEW U, Range(s) \cap S = Range(s) \cap U
  PROVE  Kept(s, S) = Kept(s, U)
<1> DEFINE G == {t \in Seq(T) : Range(t) \cap S = Range(t) \cap U => Kept(t, S) = Kept(t, U)}
<1>1. <<>> \in G
  BY KeptOfEmpty
<1>2. ASSUME NEW t \in Seq(T), NEW x \in T, t \in G PROVE Append(t, x) \in G
  <2>1. Append(t, x) \in Seq(T) /\ Range(Append(t, x)) = Range(t) \cup {x}
    BY Appended
  <2>2. /\ Kept(Append(t, x), S) = IF x \in S THEN Append(Kept(t, S), x) ELSE Kept(t, S)
        /\ Kept(Append(t, x), U) = IF x \in U THEN Append(Kept(t, U), x) ELSE Kept(t, U)
    BY KeptOfAppend
  <2>3. ASSUME Range(Append(t, x)) \cap S = Range(Append(t, x)) \cap U
        PROVE  Kept(Append(t, x), S) = Kept(Append(t, x), U)
    <3>1. (x \in S <=> x \in U) /\ Range(t) \cap S = Range(t) \cap U
      <4>1. x \in S <=> x \in U
        BY <2>1, <2>3
      <4>2. ASSUME NEW y \in Range(t) PROVE y \in S <=> y \in U
        BY <2>1, <2>3
      <4> QED
        BY <4>1, <4>2
    <3> QED
      BY <1>2, <2>2, <3>1
  <2> QED
    BY <2>1, <2>3
<1> HIDE DEF G
<1>3. s \in G
  BY <1>1, <1>2, GrowUp
<1> QED
  BY <1>3 DEF G

LEMMA KeptIsAll ==
  ASSUME NEW T, NEW s \in Seq(T), NEW S, Range(s) \subseteq S
  PROVE  Kept(s, S) = s
<1> DEFINE G == {t \in Seq(T) : Range(t) \subseteq S => Kept(t, S) = t}
<1>1. <<>> \in G
  BY KeptOfEmpty
<1>2. ASSUME NEW t \in Seq(T), NEW x \in T, t \in G PROVE Append(t, x) \in G
  <2>1. Append(t, x) \in Seq(T) /\ Range(Append(t, x)) = Range(t) \cup {x}
    BY Appended
  <2>2. Kept(Append(t, x), S) = IF x \in S THEN Append(Kept(t, S), x) ELSE Kept(t, S)
    BY KeptOfAppend
  <2> QED
    BY <1>2, <2>1, <2>2
<1> HIDE DEF G
<1>3. s \in G
  BY <1>1, <1>2, GrowUp
<1> QED
  BY <1>3 DEF G

LEMMA KeptIsNone ==
  ASSUME NEW T, NEW s \in Seq(T), NEW S, Range(s) \cap S = {}
  PROVE  Kept(s, S) = <<>>
<1> DEFINE k == Kept(s, S)
<1>1. k \in Seq(T) /\ Range(k) = {}
  BY KeptTypes
<1> HIDE DEF k
<1>2. ASSUME k # <<>> PROVE FALSE
  <2>1. Len(k) \in Nat \ {0}
    BY <1>1, <1>2, EmptySeq
  <2>2. 1 \in 1..Len(k)
    BY ONLY <2>1
  <2>3. k[1] \in Range(k)
    BY <1>1, <2>2 DEF Range
  <2> QED
    BY <1>1, <2>2, <2>3
<1> QED
  BY <1>2 DEF k

\* The first part and the second one.
Joins(u, s, t) == u = s \o t

LEMMA JoinsParts ==
  ASSUME NEW T, NEW s \in Seq(T), NEW t \in Seq(T), NEW u, Joins(u, s, t)
  PROVE  /\ u \in Seq(T) /\ Range(u) = Range(s) \cup Range(t)
         /\ Len(u) = Len(s) + Len(t)
         /\ \A i \in 1 .. Len(s) : i \in 1 .. Len(u) /\ u[i] = s[i]
         /\ IsInjective(u) => IsInjective(s) /\ Range(s) \cap Range(t) = {}
<1> DEFINE c == s \o t
<1>1. /\ c \in Seq(T) /\ Range(c) = Range(s) \cup Range(t)
      /\ IsInjective(c) => IsInjective(s) /\ Range(s) \cap Range(t) = {}
  BY Concatenated
<1>2. Len(c) = Len(s) + Len(t) /\ \A i \in 1 .. Len(s) : i \in 1 .. Len(c) /\ c[i] = s[i]
  OBVIOUS
<1>3. u = c
  BY DEF Joins
<1> HIDE DEF c
<1> QED
  BY <1>1, <1>2, <1>3

LEMMA JoinsEmpty ==
  ASSUME NEW T, NEW s \in Seq(T), NEW u
  PROVE  Joins(u, s, <<>>) <=> u = s
<1>1. s \o <<>> = s
  BY ConcatEmptySeq
<1> QED
  BY <1>1, Zenon DEF Joins

LEMMA KeptJoins ==
  ASSUME NEW T, NEW s \in Seq(T), NEW t \in Seq(T), NEW u, Joins(u, s, t), NEW S
  PROVE  Joins(Kept(u, S), Kept(s, S), Kept(t, S))
<1>1. Kept(s \o t, S) = Kept(s, S) \o Kept(t, S)
  BY KeptOfConcat
<1> QED
  BY <1>1, Zenon DEF Joins

(***************************************************************************)
(* The inductive invariant.                                                *)
(***************************************************************************)
USE TranscriptAssumption DEF TranscriptAssumption

\* A row is written to its file once, and has its stamp by then.
WrittenOnce ==
  /\ \A s \in Range(Sessions) : IsInjective(file[s].in) /\ IsInjective(file[s].out)
  /\ routing \cap InFiles = {}
  /\ \A r \in InFiles \cup routing : at[r] # 0

\* An answer is written after the question it names.
QuestionsStored ==
  \A a \in Answers \cap InFiles : InReplyTo[a] \in InFiles \cup {None}

\* An answer is numbered with its question, or after it.
QuestionsNumbered ==
  \A a \in Answers \cap Range(registry) : InReplyTo[a] \in Range(registry) \cup {None}

\* A client that holds cursors of this life has been given, in order and once
\* each, rows up to its cursor, and of those all but archived ones.
Served(rows, above, v) ==
  /\ \A r \in Range(v.shown) : \E i \in 1 .. v.next : i \in 1 .. Len(rows) /\ rows[i] = r
  /\ \A i \in 1 .. v.next :
       i <= above \/ (i \in 1 .. Len(rows) /\ rows[i] \in Range(v.shown))
  /\ v.shown = Kept(rows, Range(v.shown))

ViewsServed == \A c \in Watched : ~view[c].stale => Served(registry, epoch, view[c])

TranscriptInv ==
  /\ TranscriptTypeOK /\ WrittenOnce /\ QuestionsStored /\ QuestionsNumbered
  /\ RepliesFollow /\ ViewsServed

(***************************************************************************)
(* The merge.                                                              *)
(***************************************************************************)
LEMMA RowsAreFinite ==
  ASSUME TranscriptTypeOK
  PROVE  /\ InFiles \subseteq Rows /\ Cardinality(Rows) \in Nat
         /\ Cardinality(InFiles) \in 0 .. Cardinality(Rows)
<1>1. ASSUME NEW s \in Range(Sessions) PROVE Stored(s) \subseteq Rows
  <2>1. file[s].in \in Seq(Questions) /\ file[s].out \in Seq(Answers)
    BY DEF TranscriptTypeOK, FileSet
  <2> QED
    BY <2>1 DEF Stored, Rows, Range
<1>2. DOMAIN file = Range(Sessions)
  BY DEF TranscriptTypeOK
<1>3. InFiles \subseteq Rows
  BY <1>1, <1>2 DEF InFiles
<1>4. IsFiniteSet(Rows)
  OBVIOUS
<1> QED
  BY <1>3, <1>4, FS_Subset, FS_CardinalityType

\* A source lists rows of its own, each once.
LEMMA SourcesAreApart ==
  ASSUME TranscriptTypeOK, WrittenOnce
  PROVE  /\ \A i \in Sources : /\ Source(i) \in Seq(InFiles) /\ IsInjective(Source(i))
                               /\ Len(Source(i)) \in Nat
         /\ \A i, j \in Sources : i # j => Range(Source(i)) \cap Range(Source(j)) = {}
<1> DEFINE At(i) == (i + 1) \div 2
<1>0. Sessions \in Seq(Range(Sessions)) /\ Len(Sessions) \in Nat
  BY DEF Range
<1>1. ASSUME NEW i \in Sources
      PROVE  /\ At(i) \in 1 .. Len(Sessions) /\ Sessions[At(i)] \in Range(Sessions)
             /\ i = IF i % 2 = 1 THEN 2 * At(i) - 1 ELSE 2 * At(i)
             /\ Source(i) = IF i % 2 = 1 THEN file[Sessions[At(i)]].in
                                         ELSE file[Sessions[At(i)]].out
  <2>1. i \in 1 .. 2 * Len(Sessions)
    BY DEF Sources
  <2>2. /\ At(i) \in 1 .. Len(Sessions)
        /\ i = IF i % 2 = 1 THEN 2 * At(i) - 1 ELSE 2 * At(i)
    BY <1>0, <2>1
  <2>3. Sessions[At(i)] \in Range(Sessions)
    BY <1>0, <2>2
  <2> QED
    BY <2>2, <2>3 DEF Source
<1> HIDE DEF At
<1>2. ASSUME NEW s \in Range(Sessions)
      PROVE  /\ file[s].in \in Seq(Questions) /\ file[s].out \in Seq(Answers)
             /\ Range(file[s].in) \subseteq InFiles \cap Questions
             /\ Range(file[s].out) \subseteq InFiles \cap Answers
             /\ IsInjective(file[s].in) /\ IsInjective(file[s].out)
             /\ \A r \in Range(file[s].in) \cup Range(file[s].out) : Home[r] = s
  <2>1. file[s].in \in Seq(Questions) /\ file[s].out \in Seq(Answers)
    BY DEF TranscriptTypeOK, FileSet
  <2>2. Stored(s) \subseteq InFiles
    BY DEF TranscriptTypeOK, InFiles
  <2>3. Stored(s) = Range(file[s].in) \cup Range(file[s].out)
    BY DEF Stored
  <2>4. Range(file[s].in) \subseteq Questions /\ Range(file[s].out) \subseteq Answers
    BY <2>1, RangeIs
  <2>5. IsInjective(file[s].in) /\ IsInjective(file[s].out)
    BY DEF WrittenOnce
  <2>6. \A r \in Stored(s) : Home[r] = s
    BY DEF TranscriptTypeOK
  <2> QED
    BY <2>1, <2>2, <2>3, <2>4, <2>5, <2>6
<1>3. ASSUME NEW i \in Sources
      PROVE  /\ Source(i) \in Seq(InFiles) /\ IsInjective(Source(i)) /\ Len(Source(i)) \in Nat
             /\ \A r \in Range(Source(i)) : Home[r] = Sessions[At(i)]
             /\ Range(Source(i)) \subseteq IF i % 2 = 1 THEN Questions ELSE Answers
  <2>1. CASE i % 2 = 1
    <3>1. Source(i) = file[Sessions[At(i)]].in
      BY <1>1, <2>1
    <3>2. Source(i) \in Seq(Questions) /\ Range(Source(i)) \subseteq InFiles \cap Questions
      BY <1>1, <1>2, <3>1
    <3>3. Source(i) \in Seq(InFiles)
      BY <3>2, SeqWithin
    <3> QED
      BY <1>1, <1>2, <2>1, <3>1, <3>2, <3>3
  <2>2. CASE i % 2 # 1
    <3>1. Source(i) = file[Sessions[At(i)]].out
      BY <1>1, <2>2
    <3>2. Source(i) \in Seq(Answers) /\ Range(Source(i)) \subseteq InFiles \cap Answers
      BY <1>1, <1>2, <3>1
    <3>3. Source(i) \in Seq(InFiles)
      BY <3>2, SeqWithin
    <3> QED
      BY <1>1, <1>2, <2>2, <3>1, <3>2, <3>3
  <2> QED
    BY <2>1, <2>2
<1>4. ASSUME NEW i \in Sources, NEW j \in Sources, NEW r \in Range(Source(i)) \cap Range(Source(j))
      PROVE  i = j
  <2>1. Sessions[At(i)] = Sessions[At(j)]
    BY <1>3, <1>4
  <2>2. At(i) = At(j)
    BY <1>0, <1>1, <2>1, RangeIs
  <2>3. i % 2 = 1 <=> j % 2 = 1
    BY <1>3, <1>4
  <2>4. i \in Int /\ j \in Int /\ At(i) \in Int
    BY <1>1 DEF Sources
  <2> QED
    BY <1>1, <2>2, <2>3, <2>4
<1> QED
  BY <1>3, <1>4

\* An answer whose question is in the files comes after it.
Ordered(s) ==
  \A j \in 1 .. Len(s) : s[j] \in Answers /\ InReplyTo[s[j]] \in InFiles =>
    \E i \in 1 .. (j - 1) : s[i] = InReplyTo[s[j]]

MergeSet == [pos : [Sources -> Nat \ {0}], last : Nat, taken : Seq(InFiles)]

\* What a round of the merge finds: the rows taken so far are those before
\* the positions, each once, and no answer precedes its question.
MergeSound(m) ==
  /\ m \in MergeSet /\ IsInjective(m.taken) /\ Ordered(m.taken)
  /\ \A r \in Range(m.taken) : \E i \in Sources : \E k \in 1 .. Len(Source(i)) :
       k < m.pos[i] /\ Source(i)[k] = r

LEMMA UntakenIsSound == MergeSound(Untaken)
<1>1. <<>> \in Seq(InFiles) /\ Len(<<>>) = 0 /\ Range(<<>>) = {} /\ IsInjective(<<>>)
  BY DEF Range, IsInjective
<1>2. Untaken \in MergeSet /\ Untaken.taken = <<>>
  BY <1>1 DEF Untaken, MergeSet
<1>3. Ordered(<<>>)
  BY <1>1 DEF Ordered
<1> QED
  BY <1>1, <1>2, <1>3 DEF MergeSound

\* Of the heads that need not wait one is the next.
LEMMA BestExists ==
  ASSUME TranscriptTypeOK, WrittenOnce, NEW m \in MergeSet, Heads(m) # {}
  PROVE  \E i \in Heads(m) : \A j \in Heads(m) :
           \/ Effective(m, i) < Effective(m, j)
           \/ Effective(m, i) = Effective(m, j) /\ i <= j
<1>1. Heads(m) \subseteq Sources /\ Sources \subseteq Nat
  BY DEF Heads, Sources
<1>2. ASSUME NEW i \in Heads(m) PROVE Effective(m, i) \in Nat
  <2>1. i \in Sources /\ m.pos[i] \in Nat \ {0} /\ m.pos[i] <= Len(Source(i)) /\ m.last \in Nat
    BY DEF Heads, MergeSet
  <2>2. Source(i) \in Seq(InFiles) /\ Len(Source(i)) \in Nat
    BY <2>1, SourcesAreApart
  <2>3. Head1(m, i) \in InFiles
    BY <2>1, <2>2 DEF Head1
  <2>4. at[Head1(m, i)] \in Nat
    BY <2>3, RowsAreFinite DEF TranscriptTypeOK
  <2> QED
    BY <2>1, <2>4 DEF Effective, Later
<1> DEFINE Times == {Effective(m, i) : i \in Heads(m)}
<1>3. PICK t \in Times : \A u \in Times : t <= u
  <2>1. Times \subseteq Nat /\ Times # {}
    BY <1>2
  <2> HIDE DEF Times
  <2> QED
    BY <2>1, Least
<1> DEFINE Firsts == {i \in Heads(m) : Effective(m, i) = t}
<1>4. PICK i \in Firsts : \A j \in Firsts : i <= j
  <2>1. Firsts \subseteq Nat /\ Firsts # {}
    BY <1>1, <1>3
  <2> HIDE DEF Firsts
  <2> QED
    BY <2>1, Least
<1>5. ASSUME NEW j \in Heads(m)
      PROVE  \/ Effective(m, i) < Effective(m, j)
             \/ Effective(m, i) = Effective(m, j) /\ i <= j
  <2>1. t <= Effective(m, j) /\ Effective(m, j) \in Nat /\ t \in Nat
    BY <1>2, <1>3
  <2>2. Effective(m, i) = t
    BY <1>4
  <2>3. CASE Effective(m, j) = t
    BY <1>4, <2>2, <2>3
  <2>4. CASE Effective(m, j) # t
    BY <2>1, <2>2, <2>4
  <2> QED
    BY <2>3, <2>4
<1> QED
  BY <1>4, <1>5

LEMMA TakeIsSound ==
  ASSUME TranscriptTypeOK, WrittenOnce, NEW m, MergeSound(m)
  PROVE  MergeSound(TakeHead(m))
<1>1. CASE Heads(m) = {}
  BY <1>1 DEF TakeHead
<1>2. CASE Heads(m) # {}
  <2> DEFINE Best(i) == \A j \in Heads(m) : \/ Effective(m, i) < Effective(m, j)
                                            \/ Effective(m, i) = Effective(m, j) /\ i <= j
             best == CHOOSE i \in Heads(m) : Best(i)
             r == Head1(m, best)
  <2>0. m \in MergeSet
    BY DEF MergeSound
  <2>1. best \in Heads(m)
    BY <1>2, <2>0, BestExists
  <2>2. TakeHead(m) = [pos   |-> [m.pos EXCEPT ![best] = @ + 1],
                   last  |-> Effective(m, best),
                   taken |-> Append(m.taken, r)]
    BY <1>2 DEF TakeHead
  <2> HIDE DEF best
  <2>3. /\ best \in Sources /\ m.pos \in [Sources -> Nat \ {0}] /\ m.pos[best] \in Nat \ {0}
        /\ m.last \in Nat /\ m.taken \in Seq(InFiles)
        /\ m.pos[best] <= Len(Source(best)) /\ ~Blocked(r, m.taken)
    BY <2>0, <2>1 DEF Heads, MergeSet
  <2>4. Source(best) \in Seq(InFiles) /\ Len(Source(best)) \in Nat /\ IsInjective(Source(best))
    BY <2>3, SourcesAreApart
  <2>5. r = Source(best)[m.pos[best]] /\ m.pos[best] \in 1 .. Len(Source(best)) /\ r \in InFiles
    BY <2>3, <2>4 DEF Head1
  <2> HIDE DEF r
  <2>6. r \notin Range(m.taken)
    <3> SUFFICES ASSUME r \in Range(m.taken) PROVE FALSE
      OBVIOUS
    <3>1. PICK i \in Sources : \E n \in 1 .. Len(Source(i)) : n < m.pos[i] /\ Source(i)[n] = r
      BY DEF MergeSound
    <3>0. PICK k \in 1 .. Len(Source(i)) : k < m.pos[i] /\ Source(i)[k] = r
      BY <3>1
    <3>2. Source(i) \in Seq(InFiles) /\ r \in Range(Source(i)) /\ r \in Range(Source(best))
      BY <2>4, <2>5, <3>0, SourcesAreApart DEF Range
    <3>3. i = best
      BY <2>3, <3>2, SourcesAreApart
    <3>4. k = m.pos[best]
      BY <2>4, <2>5, <3>0, <3>3, RangeIs
    <3> QED
      BY <2>3, <3>0, <3>3, <3>4
  <2>7. at[r] \in Nat /\ Effective(m, best) \in Nat
    <3>1. at[r] \in Nat
      BY <2>5, RowsAreFinite DEF TranscriptTypeOK
    <3> QED
      BY <2>3, <3>1 DEF Effective, Later, r
  <2>8. /\ Append(m.taken, r) \in Seq(InFiles) /\ IsInjective(Append(m.taken, r))
        /\ Range(Append(m.taken, r)) = Range(m.taken) \cup {r}
    BY <2>3, <2>5, <2>6, Appended DEF MergeSound
  <2>9. Ordered(Append(m.taken, r))
    <3> DEFINE t == m.taken
               u == Append(t, r)
    <3>1. /\ Len(t) \in Nat /\ Len(u) = Len(t) + 1 /\ u[Len(t) + 1] = r
          /\ \A i \in 1 .. Len(t) : u[i] = t[i]
      BY <2>3, <2>5
    <3>2. Ordered(t)
      BY DEF MergeSound
    <3>3. r \in Answers /\ InReplyTo[r] \in InFiles => \E i \in 1 .. Len(t) : t[i] = InReplyTo[r]
      BY <2>3 DEF Blocked, Range
    <3> HIDE DEF u, t
    <3> SUFFICES ASSUME NEW j \in 1 .. Len(u), u[j] \in Answers, InReplyTo[u[j]] \in InFiles
                 PROVE  \E i \in 1 .. (j - 1) : u[i] = InReplyTo[u[j]]
      BY DEF Ordered, u, t
    <3>4. CASE j = Len(t) + 1
      <4>1. PICK i \in 1 .. Len(t) : t[i] = InReplyTo[r]
        BY <3>1, <3>3, <3>4
      <4> QED
        BY <3>1, <3>4, <4>1
    <3>5. CASE j # Len(t) + 1
      <4>1. j \in 1 .. Len(t) /\ u[j] = t[j]
        BY <3>1, <3>5
      <4>2. PICK i \in 1 .. (j - 1) : t[i] = InReplyTo[t[j]]
        BY <3>2, <4>1 DEF Ordered
      <4>3. i \in 1 .. Len(t)
        BY <3>1, <4>1, <4>2
      <4> QED
        BY <3>1, <4>1, <4>2, <4>3
    <3> QED
      BY <3>4, <3>5
  <2>10. ASSUME NEW x \in Range(m.taken) \cup {r}
         PROVE  \E i \in Sources : \E k \in 1 .. Len(Source(i)) :
                  k < [m.pos EXCEPT ![best] = @ + 1][i] /\ Source(i)[k] = x
    <3>1. CASE x = r
      <4>1. m.pos[best] < [m.pos EXCEPT ![best] = @ + 1][best]
        BY <2>3
      <4> QED
        BY <2>3, <2>5, <3>1, <4>1
    <3>2. CASE x \in Range(m.taken)
      <4>1. PICK i \in Sources : \E n \in 1 .. Len(Source(i)) : n < m.pos[i] /\ Source(i)[n] = x
        BY <3>2 DEF MergeSound
      <4>5. PICK k \in 1 .. Len(Source(i)) : k < m.pos[i] /\ Source(i)[k] = x
        BY <4>1
      <4>2. m.pos[i] \in Nat /\ k \in Int
        BY <2>3, <4>5, SourcesAreApart
      <4>3. k < [m.pos EXCEPT ![best] = @ + 1][i]
        BY <2>3, <4>5, <4>2
      <4> QED
        BY <4>5, <4>3
    <3> QED
      BY <3>1, <3>2
  <2>11. TakeHead(m) \in MergeSet
    <3>1. [m.pos EXCEPT ![best] = @ + 1] \in [Sources -> Nat \ {0}]
      BY <2>3
    <3>2. Effective(m, best) \in Nat /\ Append(m.taken, r) \in Seq(InFiles)
      BY <2>7, <2>8
    <3> QED
      BY ONLY <2>2, <3>1, <3>2 DEF MergeSet
  <2>12. /\ TakeHead(m).taken = Append(m.taken, r)
         /\ TakeHead(m).pos = [m.pos EXCEPT ![best] = @ + 1]
    BY <2>2
  <2> QED
    BY <2>8, <2>9, <2>10, <2>11, <2>12 DEF MergeSound
<1> QED
  BY <1>1, <1>2

\* f has what the merge found after each round.
Merges(f) ==
  f[0] = Untaken /\ \A k \in 1 .. Cardinality(Rows) : f[k] = TakeHead(f[k - 1])

\* The recursive function in Merged exists.
LEMMA MergedIs ==
  ASSUME Cardinality(Rows) \in Nat
  PROVE  \E f : Merges(f) /\ Merged = f[Cardinality(InFiles)].taken
<1> DEFINE N == Cardinality(Rows)
           Round(x) == The({TakeHead(m) : m \in {x}})
           Value(f, n) == IF n = 0 THEN Untaken ELSE Round(f[n - 1])
           Is(f, k) == f = [n \in 0 .. k |-> Value(f, n)]
           Good == {k \in 0 .. N : \E f : Is(f, k)}
<1>0. N \in Nat
  OBVIOUS
<1> DEFINE f == CHOOSE g : Is(g, N)
<1>5. Merged = f[Cardinality(InFiles)].taken
  BY DEF Merged
<1>7. \A x : Round(x) = TakeHead(x)
  BY DEF The
<1> HIDE DEF Round, N, f
<1>1. 0 \in Good
  <2>1. Is([n \in 0 .. 0 |-> Untaken], 0)
    OBVIOUS
  <2> HIDE DEF Is
  <2> QED
    BY <2>1, <1>0
<1>2. ASSUME NEW k \in 0 .. (N - 1), k \in Good PROVE k + 1 \in Good
  <2>1. PICK g : Is(g, k)
    BY <1>2
  <2> DEFINE h == [n \in 0 .. (k + 1) |-> IF n <= k THEN g[n] ELSE Value(g, k + 1)]
  <2>2. \A n \in 0 .. k : g[n] = Value(g, n)
    BY <2>1
  <2>3. ASSUME NEW n \in 0 .. (k + 1) PROVE h[n] = Value(h, n)
    <3>1. k \in Nat
      BY <1>0
    <3>2. CASE n = 0
      BY <2>2, <3>1, <3>2
    <3>3. CASE n \in 1 .. k
      <4>1. n - 1 \in 0 .. k /\ n \in 0 .. k
        BY <3>1, <3>3
      <4>2. h[n] = g[n] /\ h[n - 1] = g[n - 1]
        BY <3>1, <4>1
      <4> QED
        BY <2>2, <3>3, <4>1, <4>2
    <3>4. CASE n = k + 1
      <4>1. k \in 0 .. k /\ (k + 1) - 1 = k /\ k + 1 # 0 /\ ~(k + 1 <= k)
        BY <3>1
      <4>2. h[k + 1] = Value(g, k + 1) /\ h[k] = g[k]
        BY <4>1
      <4> QED
        BY <3>4, <4>1, <4>2
    <3> QED
      BY <3>1, <3>2, <3>3, <3>4
  <2>4. Is(h, k + 1)
    BY <2>3
  <2>5. k + 1 \in 0 .. N
    BY <1>0
  <2> HIDE DEF Is
  <2> QED
    BY <2>4, <2>5
<1>3. N \in Good
  <2> HIDE DEF Good
  <2>1. \A k \in 0 .. N : k \in Good
    BY ONLY <1>0, <1>1, <1>2, CountUp
  <2> QED
    BY <1>0, <2>1
<1>4. Is(f, N)
  <2> HIDE DEF Is
  <2> QED
    BY <1>3 DEF f
<1>6. Merges(f)
  <2>1. f = [n \in 0 .. N |-> Value(f, n)]
    BY <1>4
  <2> HIDE DEF f
  <2>2. f[0] = Value(f, 0) /\ \A n \in 1 .. N : f[n] = Value(f, n)
    BY <1>0, <2>1
  <2> QED
    BY <1>0, <1>7, <2>2 DEF Merges, N
<1> QED
  BY <1>5, <1>6

LEMMA MergedIsSound ==
  ASSUME TranscriptTypeOK, WrittenOnce
  PROVE  Merged \in Seq(InFiles) /\ IsInjective(Merged) /\ Ordered(Merged)
<1>0. Cardinality(Rows) \in Nat /\ Cardinality(InFiles) \in 0 .. Cardinality(Rows)
  BY RowsAreFinite
<1>1. PICK f : Merges(f) /\ Merged = f[Cardinality(InFiles)].taken
  BY <1>0, MergedIs
<1> DEFINE N == Cardinality(Rows)
           Good == {k \in 0 .. N : MergeSound(f[k])}
<1>2. 0 \in Good
  BY <1>0, <1>1, UntakenIsSound DEF Merges
<1>3. ASSUME NEW k \in 0 .. (N - 1), k \in Good PROVE k + 1 \in Good
  <2>1. k + 1 \in 1 .. N /\ (k + 1) - 1 = k /\ MergeSound(f[k])
    BY <1>0, <1>3
  <2>2. f[k + 1] = TakeHead(f[k])
    BY <1>1, <2>1 DEF Merges
  <2> QED
    BY <2>1, <2>2, TakeIsSound
<1>4. \A k \in 0 .. N : k \in Good
  <2> HIDE DEF Good
  <2> QED
    BY ONLY <1>0, <1>2, <1>3, CountUp
<1>5. MergeSound(f[Cardinality(InFiles)])
  BY <1>0, <1>4
<1> QED
  BY <1>1, <1>5 DEF MergeSound, MergeSet

(***************************************************************************)
(* Answers after their questions.                                          *)
(***************************************************************************)
\* What RepliesFollow says of the registry.
Follows(s) ==
  \A i, j \in 1 .. Len(s) : s[i] \in Answers /\ InReplyTo[s[i]] = s[j] => j < i

LEMMA FollowsAppend ==
  ASSUME NEW T, NEW s \in Seq(T), NEW x \in T
  PROVE  Follows(Append(s, x)) <=>
           /\ Follows(s) /\ (x \in Answers => InReplyTo[x] # x)
           /\ \A y \in Range(s) \cap Answers : InReplyTo[y] # x
<1> DEFINE t == Append(s, x)
           n == Len(s)
<1>1. /\ n \in Nat /\ Len(t) = n + 1 /\ t[n + 1] = x
      /\ \A i \in 1 .. n : t[i] = s[i] /\ i \in 1 .. Len(t) /\ i # n + 1
      /\ \A i \in 1 .. Len(t) : i = n + 1 \/ i \in 1 .. n
      /\ n + 1 \in 1 .. Len(t)
  OBVIOUS
<1>2. Range(s) = {s[i] : i \in 1 .. n}
  BY RangeIs
<1> HIDE DEF t, n
<1>3. ASSUME Follows(t)
      PROVE  /\ Follows(s) /\ (x \in Answers => InReplyTo[x] # x)
             /\ \A y \in Range(s) \cap Answers : InReplyTo[y] # x
  <2>1. \A i, j \in 1 .. Len(t) : t[i] \in Answers /\ InReplyTo[t[i]] = t[j] => j < i
    BY <1>3 DEF Follows
  <2>2. Follows(s)
    BY <1>1, <2>1 DEF Follows, n
  <2>3. x \in Answers => InReplyTo[x] # x
    BY <1>1, <2>1
  <2>4. ASSUME NEW i \in 1 .. n, s[i] \in Answers, InReplyTo[s[i]] = x PROVE FALSE
    <3>1. n + 1 < i
      BY <1>1, <2>1, <2>4
    <3> QED
      BY <1>1, <3>1
  <2> QED
    BY <1>2, <2>2, <2>3, <2>4
<1>4. ASSUME Follows(s), x \in Answers => InReplyTo[x] # x,
             \A y \in Range(s) \cap Answers : InReplyTo[y] # x
      PROVE  Follows(t)
  <2> SUFFICES ASSUME NEW i \in 1 .. Len(t), NEW j \in 1 .. Len(t),
                      t[i] \in Answers, InReplyTo[t[i]] = t[j]
               PROVE  j < i
    BY DEF Follows
  <2>1. CASE i \in 1 .. n /\ j \in 1 .. n
    BY <1>1, <1>4, <2>1 DEF Follows, n
  <2>2. CASE i \in 1 .. n /\ j = n + 1
    BY <1>1, <1>2, <1>4, <2>2
  <2>3. CASE i = n + 1 /\ j \in 1 .. n
    BY <1>1, <2>3
  <2>4. CASE i = n + 1 /\ j = n + 1
    BY <1>1, <1>4, <2>4
  <2> QED
    BY <1>1, <2>1, <2>2, <2>3, <2>4
<1> QED
  BY <1>3, <1>4 DEF t

LEMMA KeptFollows ==
  ASSUME NEW T, NEW s \in Seq(T), NEW S, Follows(s)
  PROVE  Follows(Kept(s, S))
<1> DEFINE G == {t \in Seq(T) : Follows(t) => Follows(Kept(t, S))}
<1>1. <<>> \in G
  <2>1. Kept(<<>>, S) = <<>> /\ <<>> \in Seq(T)
    BY KeptOfEmpty
  <2> QED
    BY <2>1, Zenon
<1>2. ASSUME NEW t \in Seq(T), NEW x \in T, t \in G PROVE Append(t, x) \in G
  <2>1. Append(t, x) \in Seq(T)
    OBVIOUS
  <2>2. Kept(Append(t, x), S) = IF x \in S THEN Append(Kept(t, S), x) ELSE Kept(t, S)
    BY KeptOfAppend
  <2>3. Kept(t, S) \in Seq(T) /\ Range(Kept(t, S)) \subseteq Range(t)
    BY KeptTypes
  <2>4. ASSUME Follows(Append(t, x)) PROVE Follows(Kept(Append(t, x), S))
    <3>1. /\ Follows(Kept(t, S)) /\ (x \in Answers => InReplyTo[x] # x)
          /\ \A y \in Range(Kept(t, S)) \cap Answers : InReplyTo[y] # x
      BY <1>2, <2>3, <2>4, FollowsAppend
    <3>2. Follows(Append(Kept(t, S), x))
      BY <2>3, <3>1, FollowsAppend
    <3> QED
      BY <2>2, <3>1, <3>2
  <2> QED
    BY <2>1, <2>4
<1> HIDE DEF G
<1>3. s \in G
  BY <1>1, <1>2, GrowUp
<1> QED
  BY <1>3 DEF G

LEMMA FollowsConcat ==
  ASSUME NEW T, NEW s \in Seq(T), NEW t \in Seq(T), Follows(s), Follows(t),
         \A y \in Range(s) \cap Answers : InReplyTo[y] \notin Range(t)
  PROVE  Follows(s \o t)
<1> DEFINE G == {u \in Seq(T) : Follows(u) /\ Range(u) \subseteq Range(t) => Follows(s \o u)}
<1>1. <<>> \in G
  <2>1. s \o <<>> = s /\ <<>> \in Seq(T)
    BY ConcatEmptySeq
  <2> QED
    BY <2>1, Zenon
<1>2. ASSUME NEW u \in Seq(T), NEW x \in T, u \in G PROVE Append(u, x) \in G
  <2>1. s \o Append(u, x) = Append(s \o u, x) /\ s \o u \in Seq(T) /\ Append(u, x) \in Seq(T)
    OBVIOUS
  <2>2. Range(Append(u, x)) = Range(u) \cup {x} /\ Range(s \o u) = Range(s) \cup Range(u)
    BY Appended, Concatenated
  <2>3. ASSUME Follows(Append(u, x)), Range(Append(u, x)) \subseteq Range(t)
        PROVE  Follows(Append(s \o u, x))
    <3>1. /\ Follows(u) /\ (x \in Answers => InReplyTo[x] # x)
          /\ \A y \in Range(u) \cap Answers : InReplyTo[y] # x
      BY <2>3, FollowsAppend
    <3>2. Follows(s \o u) /\ x \in Range(t)
      BY <1>2, <2>2, <2>3, <3>1
    <3>3. \A y \in Range(s \o u) \cap Answers : InReplyTo[y] # x
      BY <2>2, <3>1, <3>2
    <3> QED
      BY <2>1, <3>1, <3>2, <3>3, FollowsAppend
  <2> QED
    BY <2>1, <2>3
<1> HIDE DEF G
<1>3. t \in G
  BY <1>1, <1>2, GrowUp
<1> QED
  BY <1>3 DEF G

\* Each answer of s that names a question comes with it.
KnowsQuestions(s) ==
  \A a \in Answers \cap Range(s) : InReplyTo[a] \in Range(s) \cup {None}

\* Rows that may become the registry.
Numbering(rows) ==
  /\ rows \in Seq(InFiles) /\ IsInjective(rows)
  /\ Follows(rows) /\ KnowsQuestions(rows)
  /\ \E n \in Seq(InFiles) : rows = registry \o n

LEMMA NumberedIs ==
  ASSUME TranscriptInv
  PROVE  Numbering(registry) /\ Numbering(Numbered)
<1>0. /\ TranscriptTypeOK /\ WrittenOnce /\ QuestionsStored /\ QuestionsNumbered
      /\ registry \in Seq(InFiles) /\ IsInjective(registry) /\ InFiles \subseteq Rows
  BY RowsAreFinite DEF TranscriptInv, TranscriptTypeOK
<1>1. Follows(registry)
  BY <1>0 DEF TranscriptInv, RepliesFollow, Follows
<1>2. KnowsQuestions(registry)
  BY <1>0 DEF QuestionsNumbered, KnowsQuestions
<1>3. Numbering(registry)
  <2>1. registry = registry \o <<>> /\ <<>> \in Seq(InFiles)
    BY <1>0, ConcatEmptySeq
  <2> QED
    BY <1>0, <1>1, <1>2, <2>1 DEF Numbering
<1>4. CASE InFiles \subseteq Range(registry)
  BY <1>3, <1>4 DEF Numbered
<1>5. CASE ~(InFiles \subseteq Range(registry))
  <2> DEFINE S == InFiles \ Range(registry)
             n == Kept(Merged, S)
  <2>1. Numbered = registry \o n
    BY <1>5 DEF Numbered, The
  <2>2. Merged \in Seq(InFiles) /\ IsInjective(Merged) /\ Ordered(Merged)
    BY <1>0, MergedIsSound
  <2>3. Follows(Merged)
    <3> DEFINE m == Merged
    <3> SUFFICES ASSUME NEW i \in 1 .. Len(m), NEW j \in 1 .. Len(m),
                        m[i] \in Answers, InReplyTo[m[i]] = m[j]
                 PROVE  j < i
      BY DEF Follows
    <3>1. m[j] \in InFiles /\ Len(m) \in Nat
      BY <2>2
    <3>2. PICK k \in 1 .. (i - 1) : m[k] = m[j]
      BY <2>2, <3>1 DEF Ordered
    <3>3. k \in 1 .. Len(m) /\ k < i
      BY <3>1, <3>2
    <3>4. k = j
      BY <2>2, <3>2, <3>3, RangeIs
    <3> QED
      BY <3>3, <3>4
  <2>4. n \in Seq(InFiles) /\ IsInjective(n) /\ Range(n) = Range(Merged) \cap S /\ Follows(n)
    BY <2>2, <2>3, KeptTypes, KeptFollows
  <2>5. KnowsQuestions(Merged)
    <3> DEFINE m == Merged
    <3> SUFFICES ASSUME NEW i \in 1 .. Len(m), m[i] \in Answers, InReplyTo[m[i]] # None
                 PROVE  InReplyTo[m[i]] \in Range(m)
      BY <2>2, RangeIs DEF KnowsQuestions
    <3>1. InReplyTo[m[i]] \in InFiles
      BY <1>0, <2>2 DEF QuestionsStored
    <3>2. PICK k \in 1 .. (i - 1) : m[k] = InReplyTo[m[i]]
      BY <2>2, <3>1 DEF Ordered
    <3>3. k \in 1 .. Len(m)
      BY <2>2, <3>2
    <3> QED
      BY <2>2, <3>2, <3>3, RangeIs
  <2> HIDE DEF n
  <2>6. /\ registry \o n \in Seq(InFiles) /\ IsInjective(registry \o n)
        /\ Range(registry \o n) = Range(registry) \cup Range(n)
    BY <1>0, <2>4, Concatenated
  <2>7. Follows(registry \o n)
    <3>1. \A y \in Range(registry) \cap Answers : InReplyTo[y] \notin Range(n)
      <4>1. \A y \in Range(registry) \cap Answers : InReplyTo[y] \in Range(registry) \cup {None}
        BY <1>2 DEF KnowsQuestions
      <4>2. None \notin Range(n) /\ Range(n) \cap Range(registry) = {}
        BY <1>0, <2>4
      <4> QED
        BY <4>1, <4>2
    <3> QED
      BY <1>0, <1>1, <2>4, <3>1, FollowsConcat
  <2>8. KnowsQuestions(registry \o n)
    <3> SUFFICES ASSUME NEW a \in Answers, a \in Range(registry) \cup Range(n), InReplyTo[a] # None
                 PROVE  InReplyTo[a] \in Range(registry) \cup Range(n)
      BY <2>6 DEF KnowsQuestions
    <3>1. CASE a \in Range(registry)
      BY <1>2, <3>1 DEF KnowsQuestions
    <3>2. CASE a \in Range(n)
      <4>1. InReplyTo[a] \in Range(Merged) /\ Range(Merged) \subseteq InFiles
        BY <2>2, <2>4, <2>5, <3>2, RangeIs DEF KnowsQuestions
      <4> QED
        BY <2>4, <4>1
    <3> QED
      BY <3>1, <3>2
  <2> QED
    BY <1>3, <2>1, <2>4, <2>6, <2>7, <2>8 DEF Numbering
<1> QED
  BY <1>4, <1>5

(***************************************************************************)
(* Pages.                                                                  *)
(***************************************************************************)
LEMMA JoinsIf ==
  ASSUME NEW T, NEW s \in Seq(T), NEW t \in Seq(T), NEW u \in Seq(T),
         Len(u) = Len(s) + Len(t), \A i \in 1 .. Len(s) : u[i] = s[i],
         \A i \in 1 .. Len(t) : u[Len(s) + i] = t[i]
  PROVE  Joins(u, s, t)
<1> DEFINE c == s \o t
<1>1. /\ c \in Seq(T) /\ Len(c) = Len(s) + Len(t) /\ Len(s) \in Nat /\ Len(t) \in Nat
      /\ \A i \in 1 .. Len(s) : c[i] = s[i]
      /\ \A i \in 1 .. Len(t) : c[Len(s) + i] = t[i]
  OBVIOUS
<1> HIDE DEF c
<1>2. ASSUME NEW i \in 1 .. Len(u) PROVE u[i] = c[i]
  <2>1. CASE i \in 1 .. Len(s)
    BY <1>1, <2>1
  <2>2. CASE i - Len(s) \in 1 .. Len(t) /\ Len(s) + (i - Len(s)) = i
    <3>1. c[Len(s) + (i - Len(s))] = u[Len(s) + (i - Len(s))]
      BY <1>1, <2>2
    <3> QED
      BY <2>2, <3>1
  <2>3. i \in 1 .. Len(s) \/ (i - Len(s) \in 1 .. Len(t) /\ Len(s) + (i - Len(s)) = i)
    BY <1>1
  <2> QED
    BY <2>1, <2>2, <2>3
<1>3. u = c
  BY <1>1, <1>2, SeqEqual
<1> QED
  BY <1>3 DEF c, Joins

LEMMA Cut ==
  ASSUME NEW T, NEW s \in Seq(T), NEW k \in 0 .. Len(s), NEW n \in k .. Len(s)
  PROVE  /\ SubSeq(s, 1, k) \in Seq(T) /\ SubSeq(s, k + 1, n) \in Seq(T)
         /\ Len(SubSeq(s, k + 1, n)) = n - k
         /\ Joins(SubSeq(s, 1, n), SubSeq(s, 1, k), SubSeq(s, k + 1, n))
         /\ Range(SubSeq(s, 1, k)) = {s[i] : i \in 1 .. k}
         /\ Range(SubSeq(s, k + 1, n)) = {s[i] : i \in (k + 1) .. n}
<1>1. Len(s) \in Nat /\ k \in Nat /\ n \in Nat /\ k <= n /\ n <= Len(s)
  OBVIOUS
<1>2. ASSUME NEW a \in Nat \ {0}, NEW b \in Nat, b <= Len(s), a <= b + 1
      PROVE  /\ SubSeq(s, a, b) \in Seq(T) /\ Len(SubSeq(s, a, b)) = b - a + 1
             /\ \A i \in 1 .. (b - a + 1) : SubSeq(s, a, b)[i] = s[a + i - 1]
             /\ Range(SubSeq(s, a, b)) = {s[i] : i \in a .. b}
  <2> DEFINE u == SubSeq(s, a, b)
  <2>0. \A i \in a .. b : s[i] \in T
    BY <1>1, <1>2
  <2>1. /\ u \in Seq(T) /\ Len(u) = b - a + 1
        /\ \A i \in 1 .. (b - a + 1) : u[i] = s[a + i - 1]
    <3>1. /\ u \in Seq(T) /\ Len(u) = IF a <= b THEN b - a + 1 ELSE 0
          /\ \A i \in 1 .. b - a + 1 : u[i] = s[a + i - 1]
      BY <2>0, <1>2, SubSeqProperties
    <3> QED
      BY <3>1, <1>2
  <2> HIDE DEF u
  <2>2. Range(u) = {u[i] : i \in 1 .. (b - a + 1)}
    BY <2>1, RangeIs
  <2>3. \A i \in 1 .. (b - a + 1) : u[i] = s[a + i - 1] /\ a + i - 1 \in a .. b
    BY <2>1, <1>2
  <2>4. ASSUME NEW i \in a .. b
        PROVE  i - a + 1 \in 1 .. (b - a + 1) /\ u[i - a + 1] = s[i]
    <3>1. i - a + 1 \in 1 .. (b - a + 1) /\ a + (i - a + 1) - 1 = i
      BY ONLY <1>2, i \in a .. b
    <3>2. u[i - a + 1] = s[a + (i - a + 1) - 1]
      BY <2>3, <3>1
    <3> QED
      BY <3>1, <3>2
  <2>5. Range(u) = {s[i] : i \in a .. b}
    <3>1. ASSUME NEW i \in 1 .. (b - a + 1) PROVE \E j \in a .. b : u[i] = s[j]
      <4>1. a + i - 1 \in a .. b /\ u[i] = s[a + i - 1]
        BY <2>3
      <4> QED
        BY <4>1
    <3>2. ASSUME NEW j \in a .. b PROVE \E i \in 1 .. (b - a + 1) : u[i] = s[j]
      <4>1. j - a + 1 \in 1 .. (b - a + 1) /\ u[j - a + 1] = s[j]
        BY <2>4
      <4> QED
        BY <4>1
    <3>3. ASSUME NEW x \in Range(u) PROVE x \in {s[i] : i \in a .. b}
      <4>1. PICK i \in 1 .. (b - a + 1) : x = u[i]
        BY <2>2
      <4>2. PICK j \in a .. b : u[i] = s[j]
        BY <3>1
      <4> QED
        BY <4>1, <4>2
    <3>4. ASSUME NEW x \in {s[i] : i \in a .. b} PROVE x \in Range(u)
      BY <2>2, <3>2, <3>4
    <3> QED
      BY <3>3, <3>4, Zenon
  <2> QED
    BY <2>1, <2>5 DEF u
<1> DEFINE p == SubSeq(s, 1, k)
           q == SubSeq(s, k + 1, n)
           w == SubSeq(s, 1, n)
<1>3. /\ p \in Seq(T) /\ Len(p) = k /\ \A i \in 1 .. k : p[i] = s[i]
      /\ Range(p) = {s[i] : i \in 1 .. k}
  BY <1>1, <1>2
<1>4. /\ q \in Seq(T) /\ Len(q) = n - k /\ \A i \in 1 .. (n - k) : q[i] = s[k + i]
      /\ Range(q) = {s[i] : i \in (k + 1) .. n}
  <2>1. k + 1 \in Nat \ {0} /\ k + 1 <= n + 1 /\ n - (k + 1) + 1 = n - k
    BY <1>1
  <2>2. \A i \in 1 .. (n - k) : (k + 1) + i - 1 = k + i
    BY <1>1
  <2> QED
    BY <1>1, <1>2, <2>1, <2>2
<1>5. w \in Seq(T) /\ Len(w) = n /\ \A i \in 1 .. n : w[i] = s[i]
  BY <1>1, <1>2
<1> HIDE DEF p, q, w
<1>6. /\ Len(w) = Len(p) + Len(q) /\ \A i \in 1 .. Len(p) : w[i] = p[i]
      /\ \A i \in 1 .. Len(q) : w[Len(p) + i] = q[i]
  <2>1. /\ Len(p) = k /\ Len(q) = n - k /\ k + (n - k) = n
        /\ \A i \in 1 .. k : i \in 1 .. n
        /\ \A i \in 1 .. (n - k) : k + i \in 1 .. n
    BY <1>1, <1>3, <1>4
  <2> QED
    BY <1>3, <1>4, <1>5, <2>1
<1>8. Joins(w, p, q)
  <2>1. p \in Seq(T) /\ q \in Seq(T) /\ w \in Seq(T)
    BY <1>3, <1>4, <1>5
  <2> QED
    BY <2>1, <1>6, JoinsIf
<1> QED
  BY <1>3, <1>4, <1>8 DEF p, q, w

LEMMA CutInTwo ==
  ASSUME NEW T, NEW s \in Seq(T), NEW k \in 0 .. Len(s)
  PROVE  /\ SubSeq(s, 1, k) \in Seq(T) /\ SubSeq(s, k + 1, Len(s)) \in Seq(T)
         /\ Joins(s, SubSeq(s, 1, k), SubSeq(s, k + 1, Len(s)))
<1> DEFINE n == Len(s)
<1>1. n \in k .. Len(s)
  OBVIOUS
<1>2. SubSeq(s, 1, n) = s
  BY Beginnings
<1> HIDE DEF n
<1>3. /\ SubSeq(s, 1, k) \in Seq(T) /\ SubSeq(s, k + 1, n) \in Seq(T)
      /\ Joins(SubSeq(s, 1, n), SubSeq(s, 1, k), SubSeq(s, k + 1, n))
  BY <1>1, Cut
<1> QED
  BY <1>2, <1>3, Zenon DEF n

\* A list without repetitions is as long as its elements are many.
LEMMA LengthIsSize ==
  ASSUME NEW T, IsFiniteSet(T), NEW s \in Seq(T), IsInjective(s)
  PROVE  Len(s) <= Cardinality(T)
<1> DEFINE G == {t \in Seq(T) : IsInjective(t) => /\ IsFiniteSet(Range(t))
                                                  /\ Cardinality(Range(t)) = Len(t)}
<1>1. <<>> \in G
  <2>1. <<>> \in Seq(T) /\ Range(<<>>) = {} /\ Len(<<>>) = 0
    BY DEF Range
  <2>2. IsFiniteSet({}) /\ Cardinality({}) = 0
    BY FS_EmptySet
  <2> QED
    BY <2>1, <2>2, Zenon
<1>2. ASSUME NEW t \in Seq(T), NEW x \in T, t \in G PROVE Append(t, x) \in G
  <2>1. Append(t, x) \in Seq(T) /\ Len(Append(t, x)) = Len(t) + 1
    OBVIOUS
  <2>2. /\ Range(Append(t, x)) = Range(t) \cup {x}
        /\ IsInjective(Append(t, x)) => IsInjective(t) /\ x \notin Range(t)
    BY Appended
  <2>3. ASSUME IsFiniteSet(Range(t)), x \notin Range(t)
        PROVE  /\ IsFiniteSet(Range(t) \cup {x})
               /\ Cardinality(Range(t) \cup {x}) = Cardinality(Range(t)) + 1
    BY <2>3, FS_AddElement
  <2> QED
    BY <1>2, <2>1, <2>2, <2>3
<1> HIDE DEF G
<1>3. s \in G
  BY <1>1, <1>2, GrowUp
<1>4. Range(s) \subseteq T
  BY RangeIs
<1>5. Cardinality(Range(s)) = Len(s)
  BY <1>3 DEF G
<1>6. Cardinality(Range(s)) <= Cardinality(T)
  BY <1>4, FS_Subset
<1> QED
  BY <1>5, <1>6

\* A view after a page: it has moved up to row n, or is what it was.
LEMMA ShownIs ==
  ASSUME NEW v \in ViewSet, NEW rows \in Seq(Rows), NEW above \in Nat
  PROVE  LET w == Shown(v, rows, above)
             k == From(v, above)
         IN  /\ w \in ViewSet /\ w.floor = v.floor /\ w.stale = v.stale
             /\ \/ w.shown = v.shown /\ w.next = v.next
                \/ \E n \in (k + 1) .. Len(rows) :
                     /\ Joins(w.shown, v.shown, SubSeq(rows, k + 1, n))
                     /\ w.next = n
<1> DEFINE k == From(v, above)
           n == IF Len(rows) < k + PageLimit THEN Len(rows) ELSE k + PageLimit
           p == SubSeq(rows, k + 1, n)
           w == Shown(v, rows, above)
<1>1. /\ v.next \in Nat /\ v.floor \in Nat /\ v.shown \in Seq(Rows) /\ v.stale \in BOOLEAN
      /\ Len(rows) \in Nat /\ PageLimit \in Nat
  BY DEF ViewSet
<1>2. k \in Nat /\ n \in Nat /\ n <= Len(rows)
  BY <1>1 DEF From, Later
<1>3. w = [v EXCEPT !.shown = v.shown \o p, !.next = IF p = <<>> THEN v.next ELSE k + Len(p)]
  BY DEF Shown, Page, ViewSet
<1> HIDE DEF w, k, n, p
<1>4. CASE n <= k
  <2>1. p = <<>>
    BY <1>1, <1>2, <1>4 DEF p
  <2>2. v.shown \o p = v.shown
    BY <1>1, <2>1, ConcatEmptySeq
  <2>3. w = [v EXCEPT !.shown = v.shown, !.next = v.next]
    BY <1>3, <2>1, <2>2
  <2> QED
    BY <1>1, <2>3 DEF ViewSet, w
<1>5. CASE ~(n <= k)
  <2>1. k \in 0 .. Len(rows) /\ n \in k .. Len(rows) /\ n \in (k + 1) .. Len(rows)
    BY <1>1, <1>2, <1>5
  <2>2. p \in Seq(Rows) /\ Len(p) = n - k
    BY <2>1, Cut DEF p
  <2>3. p # <<>> /\ k + Len(p) = n
    BY <1>2, <1>5, <2>2
  <2>4. w = [v EXCEPT !.shown = v.shown \o p, !.next = n]
    BY <1>3, <2>3
  <2>5. v.shown \o p \in Seq(Rows)
    BY <1>1, <2>2
  <2> QED
    BY <1>1, <1>2, <2>1, <2>4, <2>5 DEF ViewSet, Joins, w, k, p
<1> QED
  BY <1>4, <1>5

\* What is kept of two parts if nothing is of the second.
LEMMA KeptOfFirst ==
  ASSUME NEW T, NEW s \in Seq(T), NEW t \in Seq(T), NEW u, Joins(u, s, t), NEW S,
         Range(t) \cap S = {}
  PROVE  Kept(u, S) = Kept(s, S)
<1>1. Joins(Kept(u, S), Kept(s, S), Kept(t, S))
  BY KeptJoins
<1>2. Kept(t, S) = <<>>
  BY KeptIsNone
<1>3. Kept(s, S) \in Seq(T)
  BY KeptTypes
<1>4. Joins(Kept(u, S), Kept(s, S), <<>>)
  BY <1>1, <1>2, Zenon
<1> QED
  BY <1>3, <1>4, JoinsEmpty

LEMMA ServedMore ==
  ASSUME NEW rows \in Seq(Rows), NEW n \in Seq(Rows), NEW more, Joins(more, rows, n),
         IsInjective(more), NEW e \in Nat, NEW f \in Nat, e <= f,
         NEW v \in ViewSet, Served(rows, e, v)
  PROVE  Served(more, f, v)
<1> DEFINE S == Range(v.shown)
<1>1. /\ more \in Seq(Rows) /\ Range(rows) \cap Range(n) = {}
      /\ \A i \in 1 .. Len(rows) : i \in 1 .. Len(more) /\ more[i] = rows[i]
  BY JoinsParts
<1>2. v.next \in Nat
  BY DEF ViewSet
<1>3. /\ \A r \in S : \E i \in 1 .. v.next : i \in 1 .. Len(rows) /\ rows[i] = r
      /\ \A i \in 1 .. v.next : i <= e \/ (i \in 1 .. Len(rows) /\ rows[i] \in S)
      /\ v.shown = Kept(rows, S)
  BY DEF Served
<1>4. S \subseteq Range(rows)
  <2>1. \A i \in 1 .. Len(rows) : rows[i] \in Range(rows)
    BY DEF Range
  <2> QED
    BY <1>3, <2>1
<1>5. Kept(more, S) = v.shown
  <2>1. Range(n) \cap S = {}
    BY <1>1, <1>4
  <2> QED
    BY <1>3, <2>1, KeptOfFirst
<1> HIDE DEF S
<1>6. \A r \in S : \E i \in 1 .. v.next : i \in 1 .. Len(more) /\ more[i] = r
  BY <1>1, <1>3
<1>7. \A i \in 1 .. v.next : i <= f \/ (i \in 1 .. Len(more) /\ more[i] \in S)
  BY <1>1, <1>2, <1>3
<1> QED
  BY <1>5, <1>6, <1>7 DEF Served, S

\* The rows before a page, the page, and the rows after it.
LEMMA KeptOnPage ==
  ASSUME NEW T, NEW A \in Seq(T), NEW P \in Seq(T), NEW R \in Seq(T), NEW s \in Seq(T),
         NEW B, Joins(B, A, P), NEW rows, Joins(rows, B, R), IsInjective(rows),
         Range(s) \subseteq Range(A), s = Kept(rows, Range(s)), NEW w, Joins(w, s, P)
  PROVE  w = Kept(rows, Range(w)) /\ Range(w) = Range(s) \cup Range(P)
<1> DEFINE S == Range(s)
           U == Range(w)
<1>0. B \in Seq(T) /\ Range(B) = Range(A) \cup Range(P)
  BY JoinsParts
<1>8. U = S \cup Range(P)
  BY JoinsParts
<1> HIDE DEF S, U
<1>9. S \subseteq Range(A) /\ s = Kept(rows, S)
  BY DEF S
<1>1. IsInjective(B) /\ Range(B) \cap Range(R) = {}
  BY <1>0, JoinsParts
<1>2. Range(A) \cap Range(P) = {}
  BY <1>1, JoinsParts
<1>3. s = Kept(A, S)
  <2>1. Range(R) \cap S = {} /\ Range(P) \cap S = {}
    BY <1>0, <1>1, <1>2, <1>9
  <2>2. Kept(rows, S) = Kept(B, S)
    BY <1>0, <2>1, KeptOfFirst
  <2>3. Kept(B, S) = Kept(A, S)
    BY <2>1, KeptOfFirst
  <2> QED
    BY <1>9, <2>2, <2>3
<1>4. Kept(rows, U) = Kept(B, U)
  <2>1. Range(R) \cap U = {}
    BY <1>0, <1>1, <1>8, <1>9
  <2> QED
    BY <1>0, <2>1, KeptOfFirst
<1>5. Kept(P, U) = P /\ Kept(A, U) = Kept(A, S)
  <2>1. Range(P) \subseteq U /\ Range(A) \cap U = Range(A) \cap S
    BY <1>2, <1>8
  <2>2. Kept(P, U) = P
    BY <2>1, KeptIsAll
  <2>3. Kept(A, U) = Kept(A, S)
    BY <2>1, KeptIsSame
  <2> QED
    BY <2>2, <2>3
<1>6. Joins(Kept(B, U), Kept(A, U), Kept(P, U))
  BY KeptJoins
<1>7. Joins(Kept(B, U), s, P)
  BY <1>3, <1>5, <1>6
<1> QED
  BY <1>4, <1>7, <1>8 DEF Joins, S, U

LEMMA ServedPage ==
  ASSUME NEW rows \in Seq(Rows), IsInjective(rows), NEW e \in Nat, NEW above \in Nat,
         above <= e, NEW v \in ViewSet, Served(rows, e, v)
  PROVE  Served(rows, e, Shown(v, rows, above))
<1> DEFINE w == Shown(v, rows, above)
           k == From(v, above)
           S == Range(v.shown)
<1>1. /\ w \in ViewSet
      /\ \/ w.shown = v.shown /\ w.next = v.next
         \/ \E n \in (k + 1) .. Len(rows) :
              Joins(w.shown, v.shown, SubSeq(rows, k + 1, n)) /\ w.next = n
  BY ShownIs
<1>2. /\ v.next \in Nat /\ v.shown \in Seq(Rows) /\ Len(rows) \in Nat
      /\ k = IF v.next > above THEN v.next ELSE above
  BY DEF ViewSet, From, Later
<1>3. /\ \A r \in S : \E i \in 1 .. v.next : i \in 1 .. Len(rows) /\ rows[i] = r
      /\ \A i \in 1 .. v.next : i <= e \/ (i \in 1 .. Len(rows) /\ rows[i] \in S)
      /\ v.shown = Kept(rows, S)
  BY DEF Served
<1> HIDE DEF w, k
<1>4. CASE w.shown = v.shown /\ w.next = v.next
  BY <1>4 DEF Served, w
<1>5. ASSUME NEW n \in (k + 1) .. Len(rows),
             Joins(w.shown, v.shown, SubSeq(rows, k + 1, n)), w.next = n
      PROVE  Served(rows, e, w)
  <2> DEFINE A == SubSeq(rows, 1, k)
             P == SubSeq(rows, k + 1, n)
             B == SubSeq(rows, 1, n)
             R == SubSeq(rows, n + 1, Len(rows))
             U == Range(w.shown)
  <2>1. /\ k \in Nat /\ n \in Nat /\ k \in 0 .. Len(rows) /\ n \in k .. Len(rows)
        /\ n \in 0 .. Len(rows) /\ Len(rows) \in n .. Len(rows)
        /\ v.next <= k /\ above <= k /\ k < n
    <3>1. n \in (k + 1) .. Len(rows) /\ above \in Nat
      BY <1>5
    <3>2. k \in Nat /\ v.next <= k /\ above <= k
      BY <1>2, <3>1
    <3> QED
      BY <1>2, <3>1, <3>2
  <2>2. /\ A \in Seq(Rows) /\ P \in Seq(Rows) /\ Joins(B, A, P)
        /\ Range(A) = {rows[i] : i \in 1 .. k} /\ Range(P) = {rows[i] : i \in (k + 1) .. n}
    <3>1. k \in 0 .. Len(rows) /\ n \in k .. Len(rows)
      BY <2>1
    <3>2. A \in Seq(Rows) /\ P \in Seq(Rows) /\ Joins(B, A, P)
      BY ONLY <3>1, Cut, rows \in Seq(Rows)
    <3>3. Range(A) = {rows[i] : i \in 1 .. k}
      BY ONLY <3>1, Cut, rows \in Seq(Rows)
    <3>4. Range(P) = {rows[i] : i \in (k + 1) .. n}
      BY ONLY <3>1, Cut, rows \in Seq(Rows)
    <3> QED
      BY ONLY <3>2, <3>3, <3>4
  <2>3. B \in Seq(Rows) /\ R \in Seq(Rows) /\ Joins(rows, B, R)
    <3>1. n \in 0 .. Len(rows)
      BY <2>1
    <3> QED
      BY ONLY <3>1, rows \in Seq(Rows), CutInTwo
  <2> HIDE DEF A, P, B, R, S
  <2>4. Range(B) = Range(A) \cup Range(P)
    BY <2>2, JoinsParts
  <2>6. S \subseteq Range(A)
    <3> SUFFICES ASSUME NEW r \in S PROVE r \in Range(A)
      OBVIOUS
    <3>1. PICK i \in 1 .. v.next : i \in 1 .. Len(rows) /\ rows[i] = r
      BY <1>3
    <3>2. i \in 1 .. k
      BY <1>2, <2>1, <3>1
    <3> QED
      BY <2>2, <3>1, <3>2
  <2>7. U = S \cup Range(P) /\ w.shown = Kept(rows, U)
    <3> SUFFICES ASSUME NEW s, s = v.shown, NEW x, x = w.shown
                 PROVE  Range(x) = S \cup Range(P) /\ x = Kept(rows, Range(x))
      BY DEF U
    <3>1. s \in Seq(Rows) /\ S = Range(s) /\ Joins(x, s, P) /\ s = Kept(rows, S)
      BY <1>2, <1>3, <1>5 DEF S, P
    <3>2. A \in Seq(Rows) /\ P \in Seq(Rows) /\ R \in Seq(Rows)
      BY <2>2, <2>3
    <3>3. Joins(B, A, P) /\ Joins(rows, B, R) /\ Range(s) \subseteq Range(A)
      BY <2>2, <2>3, <2>6, <3>1
    <3>4. s = Kept(rows, Range(s))
      BY <3>1
    <3>5. x = Kept(rows, Range(x)) /\ Range(x) = Range(s) \cup Range(P)
      BY ONLY <3>1, <3>2, <3>3, <3>4, IsInjective(rows), KeptOnPage
    <3> QED
      BY <3>1, <3>5
  <2> HIDE DEF U
  <2>13. \A r \in U : \E i \in 1 .. n : i \in 1 .. Len(rows) /\ rows[i] = r
    <3> SUFFICES ASSUME NEW r \in U PROVE \E i \in 1 .. n : i \in 1 .. Len(rows) /\ rows[i] = r
      OBVIOUS
    <3>1. r \in Range(B)
      BY <2>4, <2>6, <2>7
    <3>2. Range(B) = {rows[i] : i \in 1 .. n}
      BY <2>1, Cut DEF B
    <3> QED
      BY <2>1, <3>1, <3>2
  <2>14. ASSUME NEW i \in 1 .. n
         PROVE  i <= e \/ (i \in 1 .. Len(rows) /\ rows[i] \in U)
    <3>1. CASE i \in 1 .. v.next
      BY <1>3, <2>7, <3>1
    <3>2. CASE i <= above
      BY <2>1, <3>2
    <3>3. CASE i \in (k + 1) .. n
      BY <2>1, <2>2, <2>7, <3>3
    <3> QED
      BY <1>2, <2>1, <3>1, <3>2, <3>3
  <2> QED
    BY <1>5, <2>7, <2>13, <2>14 DEF Served, U
<1> QED
  BY <1>1, <1>4, <1>5 DEF w

\* A client without a cursor has been given nothing.
LEMMA ServedNothing ==
  ASSUME NEW rows \in Seq(Rows), NEW e \in Nat, NEW v \in ViewSet, v.next = 0
  PROVE  Served(rows, e, v) <=> v.shown = <<>>
<1>1. Kept(rows, {}) = <<>>
  BY KeptIsNone
<1>2. v.shown \in Seq(Rows) /\ Range(<<>>) = {}
  BY DEF ViewSet, Range
<1>3. ASSUME Served(rows, e, v) PROVE v.shown = <<>>
  <2>1. Range(v.shown) = {}
    BY <1>3 DEF Served
  <2> QED
    BY <1>1, <1>3, <2>1 DEF Served
<1>4. ASSUME v.shown = <<>> PROVE Served(rows, e, v)
  <2>1. Range(v.shown) = {} /\ v.shown = Kept(rows, Range(v.shown))
    BY <1>1, <1>2, <1>4, Zenon
  <2> QED
    BY <2>1 DEF Served
<1> QED
  BY <1>3, <1>4

(***************************************************************************)
(* The invariant in three parts: the files, the registry, the clients.     *)
(***************************************************************************)
FilesSound ==
  /\ file \in [Range(Sessions) -> FileSet]
  /\ \A s \in Range(Sessions) : \A r \in Stored(s) : Home[r] = s
  /\ at \in [Rows -> 0 .. MaxTime]
  /\ routing \subseteq Questions
  /\ delivered \subseteq Answers \cap InFiles
  /\ WrittenOnce /\ QuestionsStored

RegistrySound ==
  /\ registry \in Seq(InFiles) /\ IsInjective(registry)
  /\ Follows(registry) /\ KnowsQuestions(registry)

ViewSound(rows, e, v) ==
  /\ v \in ViewSet /\ v.next <= Cardinality(Rows) /\ v.floor <= e
  /\ ~v.stale => Served(rows, e, v)

ClientsSound ==
  /\ epoch \in 0 .. Cardinality(Rows)
  /\ streams \in Seq(Clients) /\ IsInjective(streams) /\ Len(streams) <= MaxStreams
  /\ view \in [Watched -> ViewSet]
  /\ \A c \in Watched : ViewSound(registry, epoch, view[c])
  /\ hostRestarts \in 0 .. MaxHostRestarts

LEMMA InvInParts == TranscriptInv <=> FilesSound /\ RegistrySound /\ ClientsSound
<1>1. TranscriptInv => FilesSound
  BY DEF TranscriptInv, TranscriptTypeOK, FilesSound
<1>2. TranscriptInv => RegistrySound
  BY NumberedIs DEF RegistrySound, Numbering
<1>3. TranscriptInv => ClientsSound
  BY DEF TranscriptInv, TranscriptTypeOK, ClientsSound, ViewSound, ViewsServed
<1>4. ASSUME FilesSound, RegistrySound, ClientsSound PROVE TranscriptInv
  <2>1. TranscriptTypeOK
    BY <1>4 DEF TranscriptTypeOK, FilesSound, RegistrySound, ClientsSound, ViewSound
  <2>2. RepliesFollow
    BY <1>4 DEF RepliesFollow, RegistrySound, Follows
  <2>3. QuestionsNumbered
    BY <1>4 DEF RegistrySound, KnowsQuestions, QuestionsNumbered
  <2>4. ViewsServed
    BY <1>4 DEF ClientsSound, ViewSound, ViewsServed
  <2> QED
    BY <1>4, <2>1, <2>2, <2>3, <2>4 DEF FilesSound, TranscriptInv
<1> QED
  BY <1>1, <1>2, <1>3, <1>4

(***************************************************************************)
(* The initial states.                                                     *)
(***************************************************************************)
LEMMA NewViewIsSound ==
  ASSUME NEW rows \in Seq(Rows), NEW e \in Nat, Cardinality(Rows) \in Nat
  PROVE  ViewSound(rows, e, NewView)
<1>1. /\ NewView \in ViewSet /\ NewView.next = 0 /\ NewView.floor = 0
      /\ NewView.shown = <<>>
  BY DEF NewView, ViewSet
<1>2. Served(rows, e, NewView)
  BY <1>1, ServedNothing
<1> QED
  BY <1>1, <1>2 DEF ViewSound

LEMMA InitIsSound == TranscriptInit => TranscriptInv
<1> SUFFICES ASSUME TranscriptInit PROVE FilesSound /\ RegistrySound /\ ClientsSound
  BY InvInParts
<1>0. Cardinality(Rows) \in Nat
  BY FS_CardinalityType
<1>1. InFiles = {} /\ \A s \in Range(Sessions) : Stored(s) = {} /\ file[s] \in FileSet
  <2>1. Range(<<>>) = {} /\ <<>> \in Seq(Questions) /\ <<>> \in Seq(Answers)
    BY DEF Range
  <2>2. ASSUME NEW s \in Range(Sessions)
        PROVE  file[s] = [in |-> <<>>, out |-> <<>>]
    BY DEF TranscriptInit
  <2>3. ASSUME NEW s \in Range(Sessions) PROVE Stored(s) = {} /\ file[s] \in FileSet
    <3>1. file[s].in = <<>> /\ file[s].out = <<>>
      BY <2>2
    <3>2. Stored(s) = Range(<<>>) \cup Range(<<>>)
      BY <3>1, Zenon DEF Stored
    <3>3. [in |-> <<>>, out |-> <<>>] \in FileSet
      BY DEF FileSet
    <3> QED
      BY <2>1, <2>2, <3>2, <3>3, Zenon
  <2>4. DOMAIN file = Range(Sessions)
    BY DEF TranscriptInit
  <2> QED
    BY <2>3, <2>4 DEF InFiles
<1>2. IsInjective(<<>>)
  BY DEF IsInjective
<1>3. FilesSound
  <2>1. WrittenOnce
    BY <1>1, <1>2 DEF WrittenOnce, TranscriptInit
  <2> QED
    BY <1>1, <2>1 DEF TranscriptInit, FilesSound, QuestionsStored
<1>4. RegistrySound
  <2>1. registry = <<>> /\ Range(<<>>) = {} /\ <<>> \in Seq(InFiles) /\ Len(<<>>) = 0
    BY DEF TranscriptInit, Range
  <2> QED
    BY <1>2, <2>1 DEF RegistrySound, Follows, KnowsQuestions
<1>5. ClientsSound
  <2>1. registry = <<>> /\ <<>> \in Seq(Rows)
    BY DEF TranscriptInit
  <2>2. ViewSound(registry, 0, NewView)
    BY <1>0, <2>1, NewViewIsSound
  <2>3. /\ streams \in Seq(Clients) /\ IsInjective(streams) /\ Len(streams) <= MaxStreams
    BY <1>2 DEF TranscriptInit
  <2> QED
    BY <1>0, <2>2, <2>3 DEF TranscriptInit, ClientsSound, ViewSound
<1> QED
  BY <1>3, <1>4, <1>5

(***************************************************************************)
(* What becomes of a view.                                                 *)
(***************************************************************************)
LEMMA NumberingExtends ==
  ASSUME TranscriptInv, NEW rows, Numbering(rows)
  PROVE  /\ rows \in Seq(Rows) /\ IsInjective(rows) /\ Len(rows) \in 0 .. Cardinality(Rows)
         /\ registry \in Seq(Rows) /\ Cardinality(Rows) \in Nat
         /\ \E n \in Seq(Rows) : Joins(rows, registry, n)
<1>0. InFiles \subseteq Rows /\ Cardinality(Rows) \in Nat
  BY RowsAreFinite DEF TranscriptInv
<1>1. \A s \in Seq(InFiles) : s \in Seq(Rows)
  BY <1>0
<1>2. rows \in Seq(Rows) /\ IsInjective(rows)
  BY <1>1 DEF Numbering
<1>3. registry \in Seq(Rows)
  BY <1>1 DEF TranscriptInv, TranscriptTypeOK
<1>4. \E n \in Seq(Rows) : Joins(rows, registry, n)
  <2>1. PICK n \in Seq(InFiles) : rows = registry \o n
    BY DEF Numbering
  <2>2. n \in Seq(Rows)
    BY <1>1
  <2>3. Joins(rows, registry, n)
    BY <2>1, Zenon DEF Joins
  <2> QED
    BY <2>2, <2>3
<1>5. Len(rows) <= Cardinality(Rows) /\ Len(rows) \in Nat
  BY <1>2, LengthIsSize
<1> QED
  BY <1>0, <1>2, <1>3, <1>4, <1>5

\* The registry grows and the epoch moves forward.
LEMMA ViewGrows ==
  ASSUME TranscriptInv, NEW rows, Numbering(rows), NEW f \in Nat, epoch <= f,
         NEW v, ViewSound(registry, epoch, v)
  PROVE  ViewSound(rows, f, v)
<1>0. epoch \in Nat /\ v \in ViewSet /\ v.floor \in Nat
  BY DEF TranscriptInv, TranscriptTypeOK, ViewSound, ViewSet
<1>1. /\ registry \in Seq(Rows) /\ rows \in Seq(Rows) /\ IsInjective(rows)
      /\ \E n \in Seq(Rows) : Joins(rows, registry, n)
  BY NumberingExtends
<1>2. PICK n \in Seq(Rows) : Joins(rows, registry, n)
  BY <1>1
<1>3. ASSUME ~v.stale PROVE Served(rows, f, v)
  <2>1. Served(registry, epoch, v)
    BY <1>3 DEF ViewSound
  <2> QED
    BY ONLY <1>0, <1>1, <1>2, <2>1, f \in Nat, epoch <= f, ServedMore
<1> QED
  BY <1>0, <1>3 DEF ViewSound

\* A page is shown.
LEMMA ViewPaged ==
  ASSUME TranscriptInv, NEW rows, Numbering(rows), NEW e \in Nat, NEW above \in Nat,
         above <= e, NEW v, ViewSound(rows, e, v)
  PROVE  ViewSound(rows, e, Shown(v, rows, above))
<1> DEFINE w == Shown(v, rows, above)
<1>0. v \in ViewSet /\ v.next \in Nat
  BY DEF ViewSound, ViewSet
<1>1. rows \in Seq(Rows) /\ IsInjective(rows) /\ Len(rows) \in 0 .. Cardinality(Rows)
      /\ Cardinality(Rows) \in Nat
  BY NumberingExtends
<1>2. /\ w \in ViewSet /\ w.floor = v.floor /\ w.stale = v.stale
      /\ \/ w.next = v.next
         \/ \E n \in (From(v, above) + 1) .. Len(rows) : w.next = n
  <2> DEFINE k == From(v, above)
  <2>1. /\ w \in ViewSet /\ w.floor = v.floor /\ w.stale = v.stale
        /\ \/ w.shown = v.shown /\ w.next = v.next
           \/ \E n \in (k + 1) .. Len(rows) :
                Joins(w.shown, v.shown, SubSeq(rows, k + 1, n)) /\ w.next = n
    BY <1>0, <1>1, ShownIs
  <2> HIDE DEF w, k
  <2>2. (\E n \in (k + 1) .. Len(rows) :
           Joins(w.shown, v.shown, SubSeq(rows, k + 1, n)) /\ w.next = n)
        => \E n \in (k + 1) .. Len(rows) : w.next = n
    OBVIOUS
  <2>3. \/ w.next = v.next
        \/ \E n \in (k + 1) .. Len(rows) : w.next = n
    BY ONLY <2>1, <2>2, Zenon
  <2> QED
    BY ONLY <2>1, <2>3, Zenon DEF k
<1>3. ASSUME ~v.stale PROVE Served(rows, e, w)
  BY <1>0, <1>1, <1>3, ServedPage DEF ViewSound
<1>4. From(v, above) \in Nat
  BY <1>0 DEF From, Later
<1> HIDE DEF w
<1>5. w.next <= Cardinality(Rows)
  BY <1>0, <1>1, <1>2, <1>4 DEF ViewSound
<1> QED
  BY <1>2, <1>3, <1>5 DEF ViewSound, w

\* A stream is opened: the floor is the epoch.
LEMMA ViewFloored ==
  ASSUME NEW rows, NEW e \in Nat, NEW v, ViewSound(rows, e, v)
  PROVE  ViewSound(rows, e, [v EXCEPT !.floor = e])
<1> DEFINE w == [v EXCEPT !.floor = e]
<1>1. /\ w \in ViewSet /\ w.floor = e /\ w.next = v.next /\ w.stale = v.stale
      /\ w.shown = v.shown
  BY DEF ViewSound, ViewSet
<1> QED
  BY <1>1 DEF ViewSound, Served

\* The epoch is handed out as the cursor of an empty page.
LEMMA ViewStarted ==
  ASSUME TranscriptInv, NEW rows \in Seq(Rows), NEW v, ViewSound(rows, epoch, v),
         v.next = 0
  PROVE  ViewSound(rows, epoch, [v EXCEPT !.next = epoch])
<1> DEFINE w == [v EXCEPT !.next = epoch]
<1>0. epoch \in Nat /\ epoch <= Cardinality(Rows) /\ v \in ViewSet
  <2>1. Cardinality(Rows) \in Nat
    BY RowsAreFinite DEF TranscriptInv
  <2> QED
    BY <2>1 DEF TranscriptInv, TranscriptTypeOK, ViewSound
<1>1. /\ w \in ViewSet /\ w.floor = v.floor /\ w.next = epoch /\ w.stale = v.stale
      /\ w.shown = v.shown
  BY <1>0 DEF ViewSet
<1>2. ASSUME ~v.stale PROVE Served(rows, epoch, w)
  <2>1. v.shown = <<>>
    BY <1>0, <1>2, ServedNothing DEF ViewSound
  <2>2. Range(w.shown) = {} /\ w.shown = <<>>
    BY <1>1, <2>1 DEF Range
  <2>3. Kept(rows, {}) = <<>>
    BY KeptIsNone
  <2> HIDE DEF w
  <2>4. w.shown = Kept(rows, Range(w.shown))
    BY <2>2, <2>3, Zenon
  <2>5. \A i \in 1 .. w.next : i <= epoch
    BY <1>0, <1>1
  <2> QED
    BY <2>2, <2>4, <2>5 DEF Served
<1> QED
  BY <1>0, <1>1, <1>2 DEF ViewSound

\* The host hostRestarts: a cursor becomes stale.
LEMMA ViewForgotten ==
  ASSUME TranscriptInv, NEW v, ViewSound(registry, epoch, v)
  PROVE  ViewSound(<<>>, epoch, [v EXCEPT !.stale = @ \/ v.next > 0])
<1> DEFINE w == [v EXCEPT !.stale = @ \/ v.next > 0]
<1>0. v \in ViewSet /\ v.next \in Nat /\ v.stale \in BOOLEAN /\ epoch \in Nat
      /\ registry \in Seq(Rows) /\ <<>> \in Seq(Rows)
  <2>1. InFiles \subseteq Rows
    BY RowsAreFinite DEF TranscriptInv
  <2> QED
    BY <2>1 DEF TranscriptInv, TranscriptTypeOK, ViewSound, ViewSet
<1>1. /\ w \in ViewSet /\ w.floor = v.floor /\ w.next = v.next /\ w.shown = v.shown
      /\ ~w.stale => ~v.stale /\ ~(v.next > 0)
  BY <1>0 DEF ViewSet
<1> HIDE DEF w
<1>2. ASSUME ~w.stale PROVE Served(<<>>, epoch, w)
  <2>1. ~v.stale /\ v.next = 0
    BY <1>0, <1>1, <1>2
  <2>2. v.shown = <<>>
    BY <1>0, <2>1, ServedNothing DEF ViewSound
  <2> QED
    BY <1>0, <1>1, <2>1, <2>2, ServedNothing
<1>3. w.next <= Cardinality(Rows) /\ w.floor <= epoch
  BY <1>1 DEF ViewSound
<1>4. ViewSound(<<>>, epoch, w)
  BY <1>1, <1>2, <1>3 DEF ViewSound
<1> QED
  BY <1>4 DEF w

\* The registry stays one when rows are added to the files.
LEMMA RegistryGrows ==
  ASSUME TranscriptInv, Numbering(registry'), InFiles \subseteq InFiles'
  PROVE  RegistrySound'
<1>1. /\ registry' \in Seq(InFiles) /\ IsInjective(registry')
      /\ Follows(registry') /\ KnowsQuestions(registry')
  BY DEF Numbering
<1>2. registry' \in Seq(InFiles')
  BY <1>1
<1> QED
  BY <1>1, <1>2 DEF RegistrySound, Follows, KnowsQuestions

(***************************************************************************)
(* The steps on the files.                                                 *)
(***************************************************************************)
\* A row that is in no file is appended to one of its session.
LEMMA StoredGrows ==
  ASSUME FilesSound, NEW r \in Rows, r \notin InFiles,
         \/ r \in Questions /\ file' = [file EXCEPT ![Home[r]].in = Append(@, r)]
         \/ r \in Answers /\ file' = [file EXCEPT ![Home[r]].out = Append(@, r)]
  PROVE  /\ file' \in [Range(Sessions) -> FileSet]
         /\ \A s \in Range(Sessions) : \A x \in Stored(s)' : Home[x] = s
         /\ \A s \in Range(Sessions) : IsInjective(file'[s].in) /\ IsInjective(file'[s].out)
         /\ InFiles' = InFiles \cup {r}
<1> DEFINE h == Home[r]
           f == file[h]
           g == file'[h]
<1>1. h \in Range(Sessions) /\ file \in [Range(Sessions) -> FileSet] /\ f \in FileSet
  BY DEF FilesSound
<1>2. /\ f.in \in Seq(Questions) /\ f.out \in Seq(Answers)
      /\ IsInjective(f.in) /\ IsInjective(f.out)
  BY <1>1 DEF FilesSound, WrittenOnce, FileSet
<1>3. r \notin Range(f.in) /\ r \notin Range(f.out)
  BY <1>1 DEF InFiles, Stored
<1>4. \A s \in Range(Sessions) \ {h} : file'[s] = file[s]
  BY <1>1
<1>5. DOMAIN file' = Range(Sessions) /\ DOMAIN file = Range(Sessions)
  BY <1>1
<1>6. g \in FileSet /\ IsInjective(g.in) /\ IsInjective(g.out)
      /\ Range(g.in) \cup Range(g.out) = Range(f.in) \cup Range(f.out) \cup {r}
  <2>1. CASE r \in Questions /\ file' = [file EXCEPT ![h].in = Append(@, r)]
    <3>1. g = [f EXCEPT !.in = Append(f.in, r)]
      BY <1>1, <2>1
    <3>2. /\ Append(f.in, r) \in Seq(Questions) /\ IsInjective(Append(f.in, r))
          /\ Range(Append(f.in, r)) = Range(f.in) \cup {r}
      BY <1>2, <1>3, <2>1, Appended
    <3>3. g.in = Append(f.in, r) /\ g.out = f.out /\ g \in FileSet
      BY <1>1, <3>1, <3>2 DEF FileSet
    <3> HIDE DEF f, g
    <3> QED
      BY <1>2, <3>2, <3>3
  <2>2. CASE r \in Answers /\ file' = [file EXCEPT ![h].out = Append(@, r)]
    <3>1. g = [f EXCEPT !.out = Append(f.out, r)]
      BY <1>1, <2>2
    <3>2. /\ Append(f.out, r) \in Seq(Answers) /\ IsInjective(Append(f.out, r))
          /\ Range(Append(f.out, r)) = Range(f.out) \cup {r}
      BY <1>2, <1>3, <2>2, Appended
    <3>3. g.out = Append(f.out, r) /\ g.in = f.in /\ g \in FileSet
      BY <1>1, <3>1, <3>2 DEF FileSet
    <3> HIDE DEF f, g
    <3> QED
      BY <1>2, <3>2, <3>3
  <2> QED
    BY <2>1, <2>2
<1>7. /\ Stored(h)' = Stored(h) \cup {r}
      /\ \A s \in Range(Sessions) \ {h} : Stored(s)' = Stored(s)
  BY <1>4, <1>6 DEF Stored
<1>8. file' \in [Range(Sessions) -> FileSet]
  <2>1. \A s \in Range(Sessions) : file'[s] \in FileSet
    BY <1>1, <1>4, <1>6
  <2>2. file' = [s \in Range(Sessions) |-> file'[s]]
    BY <1>1
  <2> HIDE DEF h, f, g
  <2> QED
    BY <2>1, <2>2
<1>9. \A s \in Range(Sessions) : \A x \in Stored(s)' : Home[x] = s
  BY <1>7 DEF FilesSound
<1>10. \A s \in Range(Sessions) : IsInjective(file'[s].in) /\ IsInjective(file'[s].out)
  BY <1>4, <1>6 DEF FilesSound, WrittenOnce
<1>11. InFiles' = InFiles \cup {r}
  <2>1. InFiles' = UNION {Stored(s)' : s \in Range(Sessions)}
    BY <1>5 DEF InFiles, Stored
  <2>2. InFiles = UNION {Stored(s) : s \in Range(Sessions)}
    BY <1>5 DEF InFiles
  <2> HIDE DEF h
  <2>3. ASSUME NEW x \in InFiles' PROVE x \in InFiles \cup {r}
    BY <1>7, <2>1, <2>2
  <2>4. ASSUME NEW x \in InFiles \cup {r} PROVE x \in InFiles'
    <3>1. CASE x = r
      BY <1>1, <1>7, <2>1, <3>1
    <3>2. CASE x \in InFiles
      BY <1>7, <2>1, <2>2, <3>2
    <3> QED
      BY <3>1, <3>2
  <2> QED
    BY <2>3, <2>4, Zenon
<1> QED
  BY <1>8, <1>9, <1>10, <1>11

\* A row that is stored or on its way has its stamp.
LEMMA UnstampedIsNew ==
  ASSUME FilesSound, NEW r \in Rows, at[r] = 0
  PROVE  r \notin InFiles /\ r \notin routing
BY DEF FilesSound, WrittenOnce

LEMMA FilesStay ==
  ASSUME FilesSound, UNCHANGED <<file, at, routing>>,
         delivered' \subseteq Answers \cap InFiles
  PROVE  FilesSound' /\ InFiles' = InFiles
BY DEF FilesSound, WrittenOnce, QuestionsStored, InFiles, Stored

LEMMA FilesStep ==
  ASSUME TranscriptInv, TranscriptNext
  PROVE  FilesSound' /\ InFiles \subseteq InFiles'
<1>0. FilesSound /\ InFiles \subseteq Rows
  BY InvInParts, RowsAreFinite DEF TranscriptInv
<1>1. /\ at \in [Rows -> 0 .. MaxTime] /\ routing \subseteq Questions
      /\ delivered \subseteq Answers \cap InFiles /\ routing \cap InFiles = {}
      /\ \A r \in InFiles \cup routing : at[r] # 0
      /\ \A a \in Answers \cap InFiles : InReplyTo[a] \in InFiles \cup {None}
  BY <1>0 DEF FilesSound, WrittenOnce, QuestionsStored
<1>2. ASSUME NEW q \in Questions, NEW t \in 1 .. MaxTime, Post(q, t)
      PROVE  FilesSound' /\ InFiles' = InFiles
  <2>1. /\ file' = file /\ delivered' = delivered /\ at[q] = 0
        /\ at' = [at EXCEPT ![q] = t] /\ routing' = routing \cup {q}
    BY <1>2 DEF Post
  <2>2. InFiles' = InFiles /\ \A s : Stored(s)' = Stored(s)
    BY <2>1 DEF InFiles, Stored
  <2>3. q \notin InFiles
    BY <1>0, <2>1, UnstampedIsNew
  <2>4. at' \in [Rows -> 0 .. MaxTime] /\ \A r \in InFiles \cup routing' : at'[r] # 0
    BY <1>0, <1>1, <2>1 DEF Rows
  <2>5. WrittenOnce'
    BY <1>0, <1>1, <2>1, <2>2, <2>3, <2>4 DEF WrittenOnce, FilesSound
  <2>6. QuestionsStored'
    BY <1>1, <2>2 DEF QuestionsStored
  <2> QED
    BY <1>0, <1>1, <2>1, <2>2, <2>4, <2>5, <2>6 DEF FilesSound
<1>3. ASSUME NEW q \in Questions, Route(q)
      PROVE  FilesSound' /\ InFiles' = InFiles \cup {q}
  <2>1. /\ q \in routing /\ q \in Rows /\ q \notin InFiles
        /\ file' = [file EXCEPT ![Home[q]].in = Append(@, q)]
        /\ at' = at /\ delivered' = delivered /\ routing' = routing \ {q}
    BY <1>1, <1>3 DEF Route, Rows
  <2>2. /\ file' \in [Range(Sessions) -> FileSet]
        /\ \A s \in Range(Sessions) : \A x \in Stored(s)' : Home[x] = s
        /\ \A s \in Range(Sessions) : IsInjective(file'[s].in) /\ IsInjective(file'[s].out)
        /\ InFiles' = InFiles \cup {q}
    BY <1>0, <2>1, StoredGrows
  <2>3. WrittenOnce'
    BY <1>1, <2>1, <2>2 DEF WrittenOnce
  <2>4. QuestionsStored'
    BY <1>1, <2>2 DEF QuestionsStored
  <2> QED
    BY <1>1, <2>1, <2>2, <2>3, <2>4 DEF FilesSound
<1>4. ASSUME NEW a \in Answers, NEW t \in 1 .. MaxTime, Answer(a, t)
      PROVE  FilesSound' /\ InFiles' = InFiles \cup {a}
  <2>1. /\ at[a] = 0 /\ a \in Rows /\ InReplyTo[a] \in InFiles \cup {None}
        /\ file' = [file EXCEPT ![Home[a]].out = Append(@, a)]
        /\ at' = [at EXCEPT ![a] = t] /\ delivered' = delivered /\ routing' = routing
    BY <1>4 DEF Answer, Rows
  <2>2. a \notin InFiles /\ a \notin routing
    BY <1>0, <2>1, UnstampedIsNew
  <2>3. /\ file' \in [Range(Sessions) -> FileSet]
        /\ \A s \in Range(Sessions) : \A x \in Stored(s)' : Home[x] = s
        /\ \A s \in Range(Sessions) : IsInjective(file'[s].in) /\ IsInjective(file'[s].out)
        /\ InFiles' = InFiles \cup {a}
    BY <1>0, <2>1, <2>2, StoredGrows
  <2>4. at' \in [Rows -> 0 .. MaxTime] /\ \A r \in InFiles \cup {a} \cup routing : at'[r] # 0
    BY <1>0, <1>1, <2>1 DEF Rows
  <2>5. WrittenOnce'
    BY <1>1, <2>1, <2>2, <2>3, <2>4 DEF WrittenOnce
  <2>6. QuestionsStored'
    BY <1>1, <2>1, <2>3 DEF QuestionsStored
  <2> QED
    BY <1>1, <2>1, <2>3, <2>4, <2>5, <2>6 DEF FilesSound
<1>5. ASSUME NEW a \in Answers, Deliver(a) PROVE FilesSound' /\ InFiles' = InFiles
  BY <1>0, <1>1, <1>5, FilesStay DEF Deliver
<1>6. ASSUME NEW c \in Clients,
             Resume(c) \/ Open(c) \/ Heartbeat(c) \/ Disconnect(c) \/ Fetch(c)
      PROVE  FilesSound' /\ InFiles' = InFiles
  <2>1. UNCHANGED <<file, at, routing, delivered>>
    BY <1>6 DEF Resume, Open, Connect, Heartbeat, Disconnect, Fetch
  <2> QED
    BY <1>0, <1>1, <2>1, FilesStay
<1>7. ASSUME Archive PROVE FilesSound' /\ InFiles' = InFiles
  BY <1>0, <1>1, <1>7, FilesStay DEF Archive
<1>8. ASSUME HostRestart PROVE FilesSound' /\ InFiles' = InFiles
  <2>1. file' = file /\ at' = at /\ delivered' = delivered /\ routing' = {}
    BY <1>8 DEF HostRestart
  <2>2. InFiles' = InFiles /\ \A s : Stored(s)' = Stored(s)
    BY <2>1 DEF InFiles, Stored
  <2>3. WrittenOnce'
    BY <1>0, <1>1, <2>1, <2>2 DEF WrittenOnce, FilesSound
  <2>4. QuestionsStored'
    BY <1>1, <2>2 DEF QuestionsStored
  <2> QED
    BY <1>0, <1>1, <2>1, <2>2, <2>3, <2>4 DEF FilesSound
<1> QED
  BY <1>2, <1>3, <1>4, <1>5, <1>6, <1>7, <1>8 DEF TranscriptNext

(***************************************************************************)
(* The steps on the registry and the clients.                              *)
(***************************************************************************)
LEMMA RegistryStep ==
  ASSUME TranscriptInv, TranscriptNext
  PROVE  /\ RegistrySound'
         /\ ~HostRestart => Numbering(registry')
<1>1. InFiles \subseteq InFiles' /\ Numbering(registry) /\ Numbering(Numbered)
  BY FilesStep, NumberedIs
<1>2. CASE registry' \in {registry, Numbered}
  BY <1>1, <1>2, RegistryGrows
<1>3. CASE HostRestart
  <2>1. registry' = <<>> /\ Range(<<>>) = {} /\ Len(<<>>) = 0 /\ <<>> \in Seq(InFiles')
    BY <1>3 DEF HostRestart, Range
  <2>2. IsInjective(<<>>)
    BY DEF IsInjective
  <2> QED
    BY <1>3, <2>1, <2>2 DEF RegistrySound, Follows, KnowsQuestions
<1> QED
  BY <1>2, <1>3 DEF TranscriptNext, Post, Route, Answer, Deliver, EmitAll, Resume, Open,
     Connect, Heartbeat, Disconnect, Fetch, Archive

\* The views and the epoch are all that changes, and the registry.
LEMMA ClientsFrom ==
  ASSUME TranscriptInv, epoch' \in 0 .. Cardinality(Rows), hostRestarts' \in 0 .. MaxHostRestarts,
         streams' \in Seq(Clients), IsInjective(streams'), Len(streams') <= MaxStreams,
         view' = [c \in Watched |-> view'[c]],
         \A c \in Watched : ViewSound(registry', epoch', view'[c])
  PROVE  ClientsSound'
<1>1. \A c \in Watched : view'[c] \in ViewSet
  BY DEF ViewSound
<1>2. view' \in [Watched -> ViewSet]
  BY <1>1
<1>3. \A c \in Watched : ViewSound(registry, epoch, view[c])'
  BY DEF ViewSound, Served
<1> QED
  BY <1>2, <1>3 DEF ClientsSound

\* An event pushes a page to every open stream.
LEMMA EmitStep ==
  ASSUME TranscriptInv, EmitAll, UNCHANGED <<epoch, streams, hostRestarts>>,
         Numbering(registry')
  PROVE  ClientsSound'
<1>0. /\ ClientsSound /\ epoch \in Nat /\ Cardinality(Rows) \in Nat
      /\ epoch \in 0 .. Cardinality(Rows) /\ DOMAIN view = Watched
  BY InvInParts, NumberingExtends DEF ClientsSound
<1>1. view' = [c \in Watched |-> view'[c]]
  BY <1>0 DEF EmitAll, Emit, ClientsSound
<1>2. ASSUME NEW c \in Watched PROVE ViewSound(registry', epoch, view'[c])
  <2>1. ViewSound(registry, epoch, view[c]) /\ view[c].floor \in Nat /\ view[c].floor <= epoch
    BY <1>0 DEF ClientsSound, ViewSound, ViewSet
  <2>2. ViewSound(registry', epoch, view[c])
    BY <1>0, <2>1, ViewGrows
  <2>3. view'[c] = view[c] \/ view'[c] = Shown(view[c], registry', view[c].floor)
    BY DEF EmitAll, Emit
  <2>4. ViewSound(registry', epoch, Shown(view[c], registry', view[c].floor))
    BY <1>0, <2>1, <2>2, ViewPaged
  <2> QED
    BY <2>2, <2>3, <2>4
<1> QED
  BY <1>0, <1>1, <1>2, ClientsFrom DEF ClientsSound

LEMMA OpenedIs ==
  ASSUME NEW c \in Clients, c \notin Range(streams),
         streams \in Seq(Clients), IsInjective(streams), Len(streams) <= MaxStreams
  PROVE  /\ Opened(c) \in Seq(Clients) /\ IsInjective(Opened(c))
         /\ Len(Opened(c)) <= MaxStreams
<1> DEFINE all == Append(streams, c)
           n == Len(all)
<1>1. all \in Seq(Clients) /\ IsInjective(all) /\ n = Len(streams) + 1
  BY Appended
<1>2. Len(streams) \in Nat /\ n \in Nat /\ MaxStreams \in Nat \ {0} /\ n <= MaxStreams + 1
  BY <1>1
<1> HIDE DEF all
<1>3. CASE n > MaxStreams
  <2>1. /\ Tail(all) \in Seq(Clients) /\ Len(Tail(all)) = n - 1
        /\ \A i \in 1 .. (n - 1) : Tail(all)[i] = all[i + 1]
    BY <1>1, <1>2, <1>3
  <2> DEFINE t == Tail(all)
  <2> HIDE DEF t
  <2>2. /\ t \in Seq(Clients) /\ Len(t) = n - 1
        /\ \A i \in 1 .. (n - 1) : t[i] = all[i + 1]
    BY <2>1 DEF t
  <2>3. IsInjective(t)
    <3> SUFFICES ASSUME NEW i \in 1 .. (n - 1), NEW j \in 1 .. (n - 1), t[i] = t[j]
                 PROVE  i = j
      BY <2>2 DEF IsInjective
    <3>1. i + 1 \in 1 .. n /\ j + 1 \in 1 .. n /\ all[i + 1] = all[j + 1]
      BY <1>2, <2>2
    <3>2. i + 1 = j + 1
      BY <1>1, <3>1, RangeIs
    <3> QED
      BY <3>2
  <2>4. Opened(c) = t
    BY <1>3 DEF Opened, all, t
  <2> QED
    BY <1>2, <2>2, <2>3, <2>4
<1>4. CASE ~(n > MaxStreams)
  <2>1. Opened(c) = all
    BY <1>4 DEF Opened, all
  <2> QED
    BY <1>1, <1>2, <1>4, <2>1
<1> QED
  BY <1>3, <1>4

\* A client connects, with its last cursor or as a new view.
LEMMA ConnectStep ==
  ASSUME TranscriptInv, NEW c \in Clients, NEW v, Connect(c, v),
         ViewSound(registry, epoch, v), Numbering(registry')
  PROVE  ClientsSound'
<1>0. /\ ClientsSound /\ epoch \in Nat /\ Cardinality(Rows) \in Nat
      /\ epoch \in 0 .. Cardinality(Rows) /\ epoch <= epoch
  BY InvInParts, NumberingExtends DEF ClientsSound
<1>1. /\ c \notin Range(streams) /\ streams' = Opened(c)
      /\ epoch' = epoch /\ hostRestarts' = hostRestarts
      /\ view' = IF c \in Watched
                   THEN [view EXCEPT ![c] =
                           Shown([v EXCEPT !.floor = epoch], registry', epoch)]
                   ELSE view
  BY DEF Connect
<1>2. streams' \in Seq(Clients) /\ IsInjective(streams') /\ Len(streams') <= MaxStreams
  BY <1>0, <1>1, OpenedIs DEF ClientsSound
<1>3. ViewSound(registry', epoch, Shown([v EXCEPT !.floor = epoch], registry', epoch))
  <2> DEFINE w == [v EXCEPT !.floor = epoch]
  <2>1. ViewSound(registry', epoch, w)
    BY <1>0, ViewGrows, ViewFloored
  <2> HIDE DEF w
  <2>2. ViewSound(registry', epoch, Shown(w, registry', epoch))
    BY <1>0, <2>1, ViewPaged
  <2> QED
    BY <2>2 DEF w
<1>4. \A d \in Watched : ViewSound(registry', epoch, view[d])
  BY <1>0, ViewGrows DEF ClientsSound
<1> DEFINE w == Shown([v EXCEPT !.floor = epoch], registry', epoch)
<1> HIDE DEF w
<1>5. /\ view' = [d \in Watched |-> view'[d]]
      /\ \A d \in Watched : view'[d] = view[d] \/ view'[d] = w
  <2>1. view' = IF c \in Watched THEN [view EXCEPT ![c] = w] ELSE view
    BY <1>1 DEF w
  <2>2. view \in [Watched -> ViewSet]
    BY <1>0 DEF ClientsSound
  <2> QED
    BY <2>1, <2>2
<1>6. ViewSound(registry', epoch, w)
  BY <1>3 DEF w
<1>7. \A d \in Watched : ViewSound(registry', epoch', view'[d])
  BY <1>1, <1>4, <1>5, <1>6
<1> QED
  BY <1>0, <1>1, <1>2, <1>5, <1>7, ClientsFrom DEF ClientsSound

LEMMA ClientsStep ==
  ASSUME TranscriptInv, TranscriptNext
  PROVE  ClientsSound'
<1>0. /\ ClientsSound /\ epoch \in Nat /\ Cardinality(Rows) \in Nat
      /\ epoch \in 0 .. Cardinality(Rows) /\ view = [c \in Watched |-> view[c]]
      /\ \A c \in Watched : ViewSound(registry, epoch, view[c])
  BY InvInParts, NumberingExtends, NumberedIs DEF ClientsSound
<1>1. ~HostRestart => Numbering(registry')
  BY RegistryStep
\* A step that changes no view.
<1>2. ASSUME Numbering(registry'), view' = view, hostRestarts' = hostRestarts,
             epoch' \in 0 .. Cardinality(Rows), epoch <= epoch',
             streams' \in Seq(Clients), IsInjective(streams'), Len(streams') <= MaxStreams
      PROVE  ClientsSound'
  <2>1. epoch' \in Nat
    BY <1>2
  <2>2. \A c \in Watched : ViewSound(registry', epoch', view'[c])
    BY <1>0, <1>2, <2>1, ViewGrows
  <2> QED
    BY <1>0, <1>2, <2>2, ClientsFrom DEF ClientsSound
<1>3. ASSUME NEW q \in Questions, NEW t \in 1 .. MaxTime, Post(q, t) PROVE ClientsSound'
  <2>1. EmitAll /\ UNCHANGED <<epoch, streams, hostRestarts>> /\ ~HostRestart
    BY <1>0, <1>3 DEF Post, HostRestart, ClientsSound
  <2> QED
    BY <1>1, <2>1, EmitStep
<1>4. ASSUME NEW q \in Questions, Route(q) PROVE ClientsSound'
  BY <1>0, <1>2, <1>4, NumberedIs DEF Route, ClientsSound
<1>5. ASSUME NEW a \in Answers, NEW t \in 1 .. MaxTime, Answer(a, t) PROVE ClientsSound'
  BY <1>0, <1>2, <1>5, NumberedIs DEF Answer, ClientsSound
<1>6. ASSUME NEW a \in Answers, Deliver(a) PROVE ClientsSound'
  <2>1. EmitAll /\ UNCHANGED <<epoch, streams, hostRestarts>> /\ ~HostRestart
    BY <1>0, <1>6 DEF Deliver, HostRestart, ClientsSound
  <2> QED
    BY <1>1, <2>1, EmitStep
<1>7. ASSUME NEW c \in Clients, Resume(c) PROVE ClientsSound'
  <2> DEFINE v == IF c \in Watched THEN view[c] ELSE NewView
  <2>1. Connect(c, v) /\ registry' = Numbered
    BY <1>7 DEF Resume, Connect
  <2>2. ViewSound(registry, epoch, v)
    BY <1>0, NewViewIsSound, NumberingExtends, NumberedIs
  <2> HIDE DEF v
  <2> QED
    BY <2>1, <2>2, NumberedIs, ConnectStep
<1>8. ASSUME NEW c \in Clients, Open(c) PROVE ClientsSound'
  <2>1. Connect(c, NewView) /\ registry' = Numbered
    BY <1>8 DEF Open, Connect
  <2>2. ViewSound(registry, epoch, NewView)
    BY <1>0, NewViewIsSound, NumberingExtends, NumberedIs
  <2> QED
    BY <2>1, <2>2, NumberedIs, ConnectStep
<1>9. ASSUME NEW c \in Clients, Heartbeat(c) PROVE ClientsSound'
  <2> DEFINE w == Shown(view[c], registry', view[c].floor)
  <2>1. /\ registry' = Numbered /\ UNCHANGED <<epoch, streams, hostRestarts>>
        /\ view' = IF c \in Watched THEN [view EXCEPT ![c] = w] ELSE view
    BY <1>9 DEF Heartbeat
  <2>2. Numbering(registry')
    BY <2>1, NumberedIs
  <2>3. ASSUME c \in Watched PROVE ViewSound(registry', epoch, w)
    <3>1. view[c].floor \in Nat /\ view[c].floor <= epoch
      BY <1>0, <2>3 DEF ViewSound, ViewSet
    <3>2. ViewSound(registry', epoch, view[c])
      BY <1>0, <2>2, <2>3, ViewGrows
    <3> QED
      BY <1>0, <2>2, <3>1, <3>2, ViewPaged
  <2> HIDE DEF w
  <2>4. /\ view' = [d \in Watched |-> view'[d]]
        /\ \A d \in Watched : view'[d] = view[d] \/ (c \in Watched /\ view'[d] = w)
    BY <1>0, <2>1
  <2>5. \A d \in Watched : ViewSound(registry', epoch, view[d])
    BY <1>0, <2>2, ViewGrows
  <2>6. \A d \in Watched : ViewSound(registry', epoch', view'[d])
    BY <2>1, <2>3, <2>4, <2>5
  <2> QED
    BY <1>0, <2>1, <2>4, <2>6, ClientsFrom DEF ClientsSound
<1>10. ASSUME NEW c \in Clients, Disconnect(c) PROVE ClientsSound'
  <2>1. /\ Kept(streams, Clients \ {c}) \in Seq(Clients)
        /\ IsInjective(Kept(streams, Clients \ {c}))
        /\ Len(Kept(streams, Clients \ {c})) <= Len(streams)
        /\ Len(Kept(streams, Clients \ {c})) \in Nat
    BY <1>0, KeptTypes DEF ClientsSound
  <2>2. Len(streams) \in Nat /\ Len(streams) <= MaxStreams
    BY <1>0 DEF ClientsSound
  <2>3. /\ streams' = Kept(streams, Clients \ {c}) /\ registry' = registry
        /\ view' = view /\ hostRestarts' = hostRestarts /\ epoch' = epoch
    BY <1>10 DEF Disconnect
  <2>4. Len(streams') <= MaxStreams
    BY <2>1, <2>2, <2>3
  <2> QED
    BY <1>0, <1>2, <2>1, <2>3, <2>4, NumberedIs
<1>11. ASSUME NEW c \in Clients, Fetch(c) PROVE ClientsSound'
  <2> DEFINE v == Shown(view[c], registry', epoch)
             w == IF v.next = 0 THEN [v EXCEPT !.next = epoch] ELSE v
  <2>1. /\ registry' = Numbered /\ UNCHANGED <<epoch, streams, hostRestarts>>
        /\ c \in Watched /\ view' = [view EXCEPT ![c] = w]
    BY <1>11 DEF Fetch
  <2>2. Numbering(registry') /\ registry' \in Seq(Rows)
    BY <2>1, NumberedIs, NumberingExtends
  <2>3. \A d \in Watched : ViewSound(registry', epoch, view[d])
    BY <1>0, <2>2, ViewGrows
  <2>4. ViewSound(registry', epoch, v)
    BY <1>0, <2>1, <2>2, <2>3, ViewPaged
  <2> HIDE DEF v
  <2>5. ViewSound(registry', epoch, w)
    BY <2>2, <2>4, ViewStarted
  <2> HIDE DEF w
  <2>6. /\ view' = [d \in Watched |-> view'[d]]
        /\ \A d \in Watched : view'[d] = view[d] \/ view'[d] = w
    BY <1>0, <2>1
  <2>7. \A d \in Watched : ViewSound(registry', epoch', view'[d])
    BY <2>1, <2>3, <2>5, <2>6
  <2> QED
    BY <1>0, <2>1, <2>6, <2>7, ClientsFrom DEF ClientsSound
<1>12. ASSUME Archive PROVE ClientsSound'
  <2>1. registry' = Numbered /\ Numbering(registry') /\ Len(registry') \in 0 .. Cardinality(Rows)
    BY <1>12, NumberedIs, NumberingExtends DEF Archive
  <2>2. epoch' \in 0 .. Cardinality(Rows) /\ epoch <= epoch'
    BY <1>0, <1>12, <2>1 DEF Archive, Later
  <2> QED
    BY <1>0, <1>2, <1>12, <2>1, <2>2 DEF Archive, ClientsSound
<1>13. ASSUME HostRestart PROVE ClientsSound'
  <2> DEFINE w(c) == [view[c] EXCEPT !.stale = @ \/ view[c].next > 0]
  <2>1. /\ registry' = <<>> /\ streams' = <<>> /\ epoch' = epoch
        /\ view' = [c \in Watched |-> w(c)] /\ hostRestarts' \in 0 .. MaxHostRestarts
    BY <1>0, <1>13 DEF HostRestart, ClientsSound
  <2>2. ASSUME NEW c \in Watched PROVE ViewSound(<<>>, epoch, w(c))
    BY <1>0, ViewForgotten
  <2> HIDE DEF w
  <2>3. /\ view' = [c \in Watched |-> view'[c]]
        /\ \A c \in Watched : ViewSound(registry', epoch', view'[c])
    BY <2>1, <2>2
  <2>4. streams' \in Seq(Clients) /\ IsInjective(streams') /\ Len(streams') <= MaxStreams
    BY <2>1 DEF IsInjective
  <2> QED
    BY <1>0, <2>1, <2>3, <2>4, ClientsFrom
<1> QED
  BY <1>3, <1>4, <1>5, <1>6, <1>7, <1>8, <1>9, <1>10, <1>11, <1>12, <1>13
  DEF TranscriptNext

LEMMA TranscriptStep == TranscriptInv /\ [TranscriptNext]_transcriptVars => TranscriptInv'
<1> SUFFICES ASSUME TranscriptInv, [TranscriptNext]_transcriptVars PROVE TranscriptInv'
  OBVIOUS
<1>1. CASE TranscriptNext
  <2>1. FilesSound' /\ RegistrySound' /\ ClientsSound'
    BY <1>1, FilesStep, RegistryStep, ClientsStep
  <2>2. (FilesSound /\ RegistrySound /\ ClientsSound => TranscriptInv)'
    BY InvInParts, PTL
  <2> QED
    BY <2>1, <2>2
<1>2. CASE UNCHANGED transcriptVars
  BY <1>2 DEF transcriptVars, TranscriptInv, TranscriptTypeOK, WrittenOnce, QuestionsStored,
     QuestionsNumbered, RepliesFollow, ViewsServed, Served, InFiles, Stored
<1> QED
  BY <1>1, <1>2

\* The types of the transcript's state, the bounds on its streams and cursors
\* (streamClients, byId, archive_epoch of src/channels/web.ts), and the
\* invariant that makes them hold.
THEOREM TranscriptIsSound == TranscriptSpec => []TranscriptInv
<1>1. TranscriptInit => TranscriptInv
  BY InitIsSound
<1>2. TranscriptInv /\ [TranscriptNext]_transcriptVars => TranscriptInv'
  BY TranscriptStep
<1> QED
  BY <1>1, <1>2, PTL DEF TranscriptSpec

THEOREM TranscriptTypes == TranscriptSpec => []TranscriptTypeOK
<1>1. TranscriptInv => TranscriptTypeOK
  BY DEF TranscriptInv
<1> QED
  BY <1>1, TranscriptIsSound, PTL

\* An answer never has a lower index than its question (buildWebTranscript and
\* transcriptRows of src/channels/web.ts).
THEOREM RepliesAlwaysFollow == TranscriptSpec => []RepliesFollow
<1>1. TranscriptInv => RepliesFollow
  BY DEF TranscriptInv
<1> QED
  BY <1>1, TranscriptIsSound, PTL

\* As long as the host lives, a client has been given every row up to its
\* cursor but the archived ones, once each and in order (transcriptAfter,
\* handleStream and handleArchive of src/channels/web.ts).
THEOREM ResumesAreExact == TranscriptSpec => []ExactResume
<1>1. TranscriptInv => ExactResume
  <2> SUFFICES ASSUME TranscriptInv, NEW c \in Watched, ~view[c].stale
               PROVE  GivenExactly(registry, view[c])
    BY DEF ExactResume
  <2> DEFINE v == view[c]
  <2>1. registry \in Seq(InFiles) /\ IsInjective(registry) /\ Served(registry, epoch, v)
    BY DEF TranscriptInv, TranscriptTypeOK, ViewsServed
  <2> HIDE DEF v
  <2>2. IsInjective(Kept(registry, Range(v.shown))) /\ v.shown = Kept(registry, Range(v.shown))
    BY <2>1, KeptTypes DEF Served
  <2>3. IsInjective(v.shown)
    BY <2>2, Zenon
  <2>4. \A i \in 1 .. v.next :
          i <= epoch \/ (i <= Len(registry) /\ registry[i] \in Range(v.shown))
    <3>1. Len(registry) \in Nat
      BY <2>1
    <3> QED
      BY <2>1, <3>1 DEF Served
  <2> QED
    BY <2>2, <2>3, <2>4 DEF GivenExactly, v
<1> QED
  BY <1>1, TranscriptIsSound, PTL
=============================================================================
