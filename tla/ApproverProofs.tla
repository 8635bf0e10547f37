---------------------------- MODULE ApproverProofs ----------------------------
(***************************************************************************)
(* Proofs about what an approver decides: Approvals, for any approvals,    *)
(* admins, clicks and crashes, and, from "Who reaches which agent" on,     *)
(* Access, for any agents, wirings, senders and messages.                  *)
(***************************************************************************)
EXTENDS Approvals, Access, WellFoundedInduction, TLAPS

USE ApprovalsAssumption DEF Idle, Done, Flows

(***************************************************************************)
(* What the host refers to, in a flow, an armed channel or a list, is an   *)
(* approval whose request got as far as its row; no request goes back.     *)
(***************************************************************************)
References ==
  /\ \A a \in created : request[a] \notin {"idle", "picking"}
  /\ \A a \in Approvals : row[a] # "none" => a \in created
  /\ \A a \in Approvals : request[a] = "sending" => a \in created
  /\ card \subseteq created /\ listed \subseteq created
  /\ \A c \in Clicks : flow[c].on \in created \cup {NoApproval}
  /\ \A u \in Users : armed[u] \in created \cup {NoApproval}

\* In the host's first life, an approval that was rejected has no row.
RejectedHaveNoRow ==
  \A a \in Approvals :
    rejected[a] # 0 /\ hostCrashes = 0 => a \in created /\ row[a] = "none"

IInv == TypeOK /\ References /\ RejectedHaveNoRow /\ NoSilentEnd

\* What a flow that waits is about.
LEMMA FlowsKnow ==
  ASSUME TypeOK, NEW c \in Clicks, flow[c].at \in {"applying", "reaching", "prompting"}
  PROVE  flow[c].on \in Approvals
BY DEF TypeOK

LEMMA InitIInv == Init => IInv
BY DEF Init, IInv, TypeOK, References, RejectedHaveNoRow, NoSilentEnd

LEMMA TypeStep ==
  ASSUME TypeOK, [Next]_vars
  PROVE  TypeOK'
<1>1. ASSUME NEW a \in Approvals, Request(a) PROVE TypeOK'
  BY <1>1 DEF Request, database, memory, history, TypeOK
<1>2. ASSUME NEW a \in Approvals, Unreachable(a) PROVE TypeOK'
  BY <1>2 DEF Unreachable, database, memory, history, TypeOK
<1>3. ASSUME NEW a \in Approvals, Create(a) PROVE TypeOK'
  BY <1>3 DEF Create, database, memory, history, TypeOK
<1>4. ASSUME NEW a \in Approvals, ShowCard(a) PROVE TypeOK'
  BY <1>4 DEF ShowCard, database, memory, history, TypeOK
<1>5. ASSUME NEW a \in Approvals, Sent(a) PROVE TypeOK'
  BY <1>5 DEF Sent, database, memory, history, TypeOK
<1>6. ASSUME NEW a \in Approvals, SendFails(a) PROVE TypeOK'
  BY <1>6 DEF SendFails, Resolve, database, memory, history, TypeOK
<1>7. ASSUME NEW a \in Approvals, WindowElapses(a) PROVE TypeOK'
  BY <1>7 DEF WindowElapses, database, memory, history, TypeOK
<1>8. ASSUME NEW a \in Approvals, Revoke(a) PROVE TypeOK'
  BY <1>8 DEF Revoke, database, memory, history, TypeOK
<1>9. ASSUME NEW a \in Approvals, CrashInReject(a) PROVE TypeOK'
  BY <1>9 DEF CrashInReject, HostDies, database, memory, history, TypeOK
<1>10. ASSUME NEW a \in Approvals, CrashInSendFails(a) PROVE TypeOK'
  BY <1>10 DEF CrashInSendFails, HostDies, database, memory, history, TypeOK
<1>11. ASSUME NEW c \in Clicks, NEW a \in Approvals, ClickReject(c, a) PROVE TypeOK'
  BY <1>11 DEF ClickReject, Pressed, FinalizeReject, Resolve, database, memory, history, TypeOK
<1>12. ASSUME NEW c \in Clicks, NEW a \in Approvals, ClickReason(c, a) PROVE TypeOK'
  BY <1>12 DEF ClickReason, Pressed, database, memory, history, TypeOK
<1>13. ASSUME NEW c \in Clicks, NEW a \in Approvals, ClickRefused(c, a) PROVE TypeOK'
  BY <1>13 DEF ClickRefused, Pressed, Resolve, database, memory, history, TypeOK
<1>14. ASSUME NEW c \in Clicks, NEW a \in Approvals, ClickApprove(c, a) PROVE TypeOK'
  BY <1>14 DEF ClickApprove, Pressed, database, memory, history, TypeOK
<1>15. ASSUME NEW c \in Clicks, Applied(c) PROVE TypeOK'
  BY <1>15, FlowsKnow DEF Applied, Resolve, database, memory, history, TypeOK
<1>16. ASSUME NEW c \in Clicks, Reach(c) PROVE TypeOK'
  BY <1>16, FlowsKnow DEF Reach, database, memory, history, TypeOK
<1>17. ASSUME NEW c \in Clicks, ReachFails(c) PROVE TypeOK'
  BY <1>17, FlowsKnow DEF ReachFails, FinalizeReject, Resolve, database, memory, history, TypeOK
<1>18. ASSUME NEW c \in Clicks, Hold(c) PROVE TypeOK'
  BY <1>18, FlowsKnow DEF Hold, Marked, database, memory, history, TypeOK
<1>19. ASSUME NEW u \in Users, ReplyReason(u) PROVE TypeOK'
  BY <1>19 DEF ReplyReason, FinalizeReject, Resolve, database, memory, history, TypeOK
<1>20. ASSUME NEW u \in Users, ReplyTooLate(u) PROVE TypeOK'
  BY <1>20 DEF ReplyTooLate, database, memory, history, TypeOK
<1>21. ASSUME SweepHolds PROVE TypeOK'
  BY <1>21 DEF SweepHolds, FinalizeReject, Resolve, Overdue, database, memory, history, TypeOK
<1>22. ASSUME SweepNext PROVE TypeOK'
  BY <1>22 DEF SweepNext, FinalizeReject, Resolve, database, memory, history, TypeOK
<1>23. ASSUME HostCrash PROVE TypeOK'
  BY <1>23 DEF HostCrash, HostDies, database, memory, history, TypeOK
<1>24. CASE UNCHANGED vars
  BY <1>24 DEF vars, database, memory, history, TypeOK
<1>25. QED
  BY <1>1, <1>2, <1>3, <1>4, <1>5, <1>6, <1>7, <1>8, <1>9, <1>10, <1>11, <1>12, <1>13, <1>14, <1>15, <1>16, <1>17, <1>18, <1>19, <1>20, <1>21, <1>22, <1>23, <1>24 DEF Next

LEMMA ReferencesStep ==
  ASSUME TypeOK, References, [Next]_vars
  PROVE  References'
<1>1. ASSUME NEW a \in Approvals, Request(a) PROVE References'
  BY <1>1 DEF Request, database, memory, history, TypeOK, References
<1>2. ASSUME NEW a \in Approvals, Unreachable(a) PROVE References'
  BY <1>2 DEF Unreachable, database, memory, history, TypeOK, References
<1>3. ASSUME NEW a \in Approvals, Create(a) PROVE References'
  BY <1>3 DEF Create, database, memory, history, TypeOK, References
<1>4. ASSUME NEW a \in Approvals, ShowCard(a) PROVE References'
  BY <1>4 DEF ShowCard, database, memory, history, TypeOK, References
<1>5. ASSUME NEW a \in Approvals, Sent(a) PROVE References'
  BY <1>5 DEF Sent, database, memory, history, TypeOK, References
<1>6. ASSUME NEW a \in Approvals, SendFails(a) PROVE References'
  BY <1>6 DEF SendFails, Resolve, database, memory, history, TypeOK, References
<1>7. ASSUME NEW a \in Approvals, WindowElapses(a) PROVE References'
  BY <1>7 DEF WindowElapses, database, memory, history, TypeOK, References
<1>8. ASSUME NEW a \in Approvals, Revoke(a) PROVE References'
  BY <1>8 DEF Revoke, database, memory, history, TypeOK, References
<1>9. ASSUME NEW a \in Approvals, CrashInReject(a) PROVE References'
  BY <1>9 DEF CrashInReject, HostDies, database, memory, history, TypeOK, References
<1>10. ASSUME NEW a \in Approvals, CrashInSendFails(a) PROVE References'
  BY <1>10 DEF CrashInSendFails, HostDies, database, memory, history, TypeOK, References
<1>11. ASSUME NEW c \in Clicks, NEW a \in Approvals, ClickReject(c, a) PROVE References'
  BY <1>11 DEF ClickReject, Pressed, FinalizeReject, Resolve, database, memory, history, TypeOK, References
<1>12. ASSUME NEW c \in Clicks, NEW a \in Approvals, ClickReason(c, a) PROVE References'
  BY <1>12 DEF ClickReason, Pressed, database, memory, history, TypeOK, References
<1>13. ASSUME NEW c \in Clicks, NEW a \in Approvals, ClickRefused(c, a) PROVE References'
  BY <1>13 DEF ClickRefused, Pressed, Resolve, database, memory, history, TypeOK, References
<1>14. ASSUME NEW c \in Clicks, NEW a \in Approvals, ClickApprove(c, a) PROVE References'
  BY <1>14 DEF ClickApprove, Pressed, database, memory, history, TypeOK, References
<1>15. ASSUME NEW c \in Clicks, Applied(c) PROVE References'
  BY <1>15, FlowsKnow DEF Applied, Resolve, database, memory, history, TypeOK, References
<1>16. ASSUME NEW c \in Clicks, Reach(c) PROVE References'
  BY <1>16, FlowsKnow DEF Reach, database, memory, history, TypeOK, References
<1>17. ASSUME NEW c \in Clicks, ReachFails(c) PROVE References'
  BY <1>17, FlowsKnow DEF ReachFails, FinalizeReject, Resolve, database, memory, history, TypeOK, References
<1>18. ASSUME NEW c \in Clicks, Hold(c) PROVE References'
  BY <1>18, FlowsKnow DEF Hold, Marked, database, memory, history, TypeOK, References
<1>19. ASSUME NEW u \in Users, ReplyReason(u) PROVE References'
  BY <1>19 DEF ReplyReason, FinalizeReject, Resolve, database, memory, history, TypeOK, References
<1>20. ASSUME NEW u \in Users, ReplyTooLate(u) PROVE References'
  BY <1>20 DEF ReplyTooLate, database, memory, history, TypeOK, References
<1>21. ASSUME SweepHolds PROVE References'
  BY <1>21 DEF SweepHolds, FinalizeReject, Resolve, Overdue, database, memory, history, TypeOK, References
<1>22. ASSUME SweepNext PROVE References'
  BY <1>22 DEF SweepNext, FinalizeReject, Resolve, database, memory, history, TypeOK, References
<1>23. ASSUME HostCrash PROVE References'
  BY <1>23 DEF HostCrash, HostDies, database, memory, history, TypeOK, References
<1>24. CASE UNCHANGED vars
  BY <1>24 DEF vars, database, memory, history, TypeOK, References
<1>25. QED
  BY <1>1, <1>2, <1>3, <1>4, <1>5, <1>6, <1>7, <1>8, <1>9, <1>10, <1>11, <1>12, <1>13, <1>14, <1>15, <1>16, <1>17, <1>18, <1>19, <1>20, <1>21, <1>22, <1>23, <1>24 DEF Next

LEMMA RejectedStep ==
  ASSUME TypeOK, References, RejectedHaveNoRow, [Next]_vars
  PROVE  RejectedHaveNoRow'
<1>1. ASSUME NEW a \in Approvals, Request(a) PROVE RejectedHaveNoRow'
  BY <1>1 DEF Request, database, memory, history, TypeOK, References, RejectedHaveNoRow
<1>2. ASSUME NEW a \in Approvals, Unreachable(a) PROVE RejectedHaveNoRow'
  BY <1>2 DEF Unreachable, database, memory, history, TypeOK, References, RejectedHaveNoRow
<1>3. ASSUME NEW a \in Approvals, Create(a) PROVE RejectedHaveNoRow'
  BY <1>3 DEF Create, database, memory, history, TypeOK, References, RejectedHaveNoRow
<1>4. ASSUME NEW a \in Approvals, ShowCard(a) PROVE RejectedHaveNoRow'
  BY <1>4 DEF ShowCard, database, memory, history, TypeOK, References, RejectedHaveNoRow
<1>5. ASSUME NEW a \in Approvals, Sent(a) PROVE RejectedHaveNoRow'
  BY <1>5 DEF Sent, database, memory, history, TypeOK, References, RejectedHaveNoRow
<1>6. ASSUME NEW a \in Approvals, SendFails(a) PROVE RejectedHaveNoRow'
  BY <1>6 DEF SendFails, Resolve, database, memory, history, TypeOK, References, RejectedHaveNoRow
<1>7. ASSUME NEW a \in Approvals, WindowElapses(a) PROVE RejectedHaveNoRow'
  BY <1>7 DEF WindowElapses, database, memory, history, TypeOK, References, RejectedHaveNoRow
<1>8. ASSUME NEW a \in Approvals, Revoke(a) PROVE RejectedHaveNoRow'
  BY <1>8 DEF Revoke, database, memory, history, TypeOK, References, RejectedHaveNoRow
<1>9. ASSUME NEW a \in Approvals, CrashInReject(a) PROVE RejectedHaveNoRow'
  BY <1>9 DEF CrashInReject, HostDies, database, memory, history, TypeOK, References, RejectedHaveNoRow
<1>10. ASSUME NEW a \in Approvals, CrashInSendFails(a) PROVE RejectedHaveNoRow'
  BY <1>10 DEF CrashInSendFails, HostDies, database, memory, history, TypeOK, References, RejectedHaveNoRow
<1>11. ASSUME NEW c \in Clicks, NEW a \in Approvals, ClickReject(c, a) PROVE RejectedHaveNoRow'
  BY <1>11 DEF ClickReject, Pressed, FinalizeReject, Resolve, database, memory, history, TypeOK, References, RejectedHaveNoRow
<1>12. ASSUME NEW c \in Clicks, NEW a \in Approvals, ClickReason(c, a) PROVE RejectedHaveNoRow'
  BY <1>12 DEF ClickReason, Pressed, database, memory, history, TypeOK, References, RejectedHaveNoRow
<1>13. ASSUME NEW c \in Clicks, NEW a \in Approvals, ClickRefused(c, a) PROVE RejectedHaveNoRow'
  BY <1>13 DEF ClickRefused, Pressed, Resolve, database, memory, history, TypeOK, References, RejectedHaveNoRow
<1>14. ASSUME NEW c \in Clicks, NEW a \in Approvals, ClickApprove(c, a) PROVE RejectedHaveNoRow'
  BY <1>14 DEF ClickApprove, Pressed, database, memory, history, TypeOK, References, RejectedHaveNoRow
<1>15. ASSUME NEW c \in Clicks, Applied(c) PROVE RejectedHaveNoRow'
  BY <1>15, FlowsKnow DEF Applied, Resolve, database, memory, history, TypeOK, References, RejectedHaveNoRow
<1>16. ASSUME NEW c \in Clicks, Reach(c) PROVE RejectedHaveNoRow'
  BY <1>16, FlowsKnow DEF Reach, database, memory, history, TypeOK, References, RejectedHaveNoRow
<1>17. ASSUME NEW c \in Clicks, ReachFails(c) PROVE RejectedHaveNoRow'
  BY <1>17, FlowsKnow DEF ReachFails, FinalizeReject, Resolve, database, memory, history, TypeOK, References, RejectedHaveNoRow
<1>18. ASSUME NEW c \in Clicks, Hold(c) PROVE RejectedHaveNoRow'
  BY <1>18, FlowsKnow DEF Hold, Marked, database, memory, history, TypeOK, References, RejectedHaveNoRow
<1>19. ASSUME NEW u \in Users, ReplyReason(u) PROVE RejectedHaveNoRow'
  BY <1>19 DEF ReplyReason, FinalizeReject, Resolve, database, memory, history, TypeOK, References, RejectedHaveNoRow
<1>20. ASSUME NEW u \in Users, ReplyTooLate(u) PROVE RejectedHaveNoRow'
  BY <1>20 DEF ReplyTooLate, database, memory, history, TypeOK, References, RejectedHaveNoRow
<1>21. ASSUME SweepHolds PROVE RejectedHaveNoRow'
  BY <1>21 DEF SweepHolds, FinalizeReject, Resolve, Overdue, database, memory, history, TypeOK, References, RejectedHaveNoRow
<1>22. ASSUME SweepNext PROVE RejectedHaveNoRow'
  BY <1>22 DEF SweepNext, FinalizeReject, Resolve, database, memory, history, TypeOK, References, RejectedHaveNoRow
<1>23. ASSUME HostCrash PROVE RejectedHaveNoRow'
  BY <1>23 DEF HostCrash, HostDies, database, memory, history, TypeOK, References, RejectedHaveNoRow
<1>24. CASE UNCHANGED vars
  BY <1>24 DEF vars, database, memory, history, RejectedHaveNoRow
<1>25. QED
  BY <1>1, <1>2, <1>3, <1>4, <1>5, <1>6, <1>7, <1>8, <1>9, <1>10, <1>11, <1>12, <1>13, <1>14, <1>15, <1>16, <1>17, <1>18, <1>19, <1>20, <1>21, <1>22, <1>23, <1>24 DEF Next

LEMMA SilenceStep ==
  ASSUME TypeOK, References, NoSilentEnd, [Next]_vars
  PROVE  NoSilentEnd'
<1>1. ASSUME NEW a \in Approvals, Request(a) PROVE NoSilentEnd'
  BY <1>1 DEF Request, database, memory, history, TypeOK, References, NoSilentEnd
<1>2. ASSUME NEW a \in Approvals, Unreachable(a) PROVE NoSilentEnd'
  BY <1>2 DEF Unreachable, database, memory, history, TypeOK, References, NoSilentEnd
<1>3. ASSUME NEW a \in Approvals, Create(a) PROVE NoSilentEnd'
  BY <1>3 DEF Create, database, memory, history, TypeOK, References, NoSilentEnd
<1>4. ASSUME NEW a \in Approvals, ShowCard(a) PROVE NoSilentEnd'
  BY <1>4 DEF ShowCard, database, memory, history, TypeOK, References, NoSilentEnd
<1>5. ASSUME NEW a \in Approvals, Sent(a) PROVE NoSilentEnd'
  BY <1>5 DEF Sent, database, memory, history, TypeOK, References, NoSilentEnd
<1>6. ASSUME NEW a \in Approvals, SendFails(a) PROVE NoSilentEnd'
  BY <1>6 DEF SendFails, Resolve, database, memory, history, TypeOK, References, NoSilentEnd
<1>7. ASSUME NEW a \in Approvals, WindowElapses(a) PROVE NoSilentEnd'
  BY <1>7 DEF WindowElapses, database, memory, history, TypeOK, References, NoSilentEnd
<1>8. ASSUME NEW a \in Approvals, Revoke(a) PROVE NoSilentEnd'
  BY <1>8 DEF Revoke, database, memory, history, TypeOK, References, NoSilentEnd
<1>9. ASSUME NEW a \in Approvals, CrashInReject(a) PROVE NoSilentEnd'
  BY <1>9 DEF CrashInReject, HostDies, database, memory, history, TypeOK, References, NoSilentEnd
<1>10. ASSUME NEW a \in Approvals, CrashInSendFails(a) PROVE NoSilentEnd'
  BY <1>10 DEF CrashInSendFails, HostDies, database, memory, history, TypeOK, References, NoSilentEnd
<1>11. ASSUME NEW c \in Clicks, NEW a \in Approvals, ClickReject(c, a) PROVE NoSilentEnd'
  BY <1>11 DEF ClickReject, Pressed, FinalizeReject, Resolve, database, memory, history, TypeOK, References, NoSilentEnd
<1>12. ASSUME NEW c \in Clicks, NEW a \in Approvals, ClickReason(c, a) PROVE NoSilentEnd'
  BY <1>12 DEF ClickReason, Pressed, database, memory, history, TypeOK, References, NoSilentEnd
<1>13. ASSUME NEW c \in Clicks, NEW a \in Approvals, ClickRefused(c, a) PROVE NoSilentEnd'
  BY <1>13 DEF ClickRefused, Pressed, Resolve, database, memory, history, TypeOK, References, NoSilentEnd
<1>14. ASSUME NEW c \in Clicks, NEW a \in Approvals, ClickApprove(c, a) PROVE NoSilentEnd'
  BY <1>14 DEF ClickApprove, Pressed, database, memory, history, TypeOK, References, NoSilentEnd
<1>15. ASSUME NEW c \in Clicks, Applied(c) PROVE NoSilentEnd'
  BY <1>15, FlowsKnow DEF Applied, Resolve, database, memory, history, TypeOK, References, NoSilentEnd
<1>16. ASSUME NEW c \in Clicks, Reach(c) PROVE NoSilentEnd'
  BY <1>16, FlowsKnow DEF Reach, database, memory, history, TypeOK, References, NoSilentEnd
<1>17. ASSUME NEW c \in Clicks, ReachFails(c) PROVE NoSilentEnd'
  BY <1>17, FlowsKnow DEF ReachFails, FinalizeReject, Resolve, database, memory, history, TypeOK, References, NoSilentEnd
<1>18. ASSUME NEW c \in Clicks, Hold(c) PROVE NoSilentEnd'
  BY <1>18, FlowsKnow DEF Hold, Marked, database, memory, history, TypeOK, References, NoSilentEnd
<1>19. ASSUME NEW u \in Users, ReplyReason(u) PROVE NoSilentEnd'
  BY <1>19 DEF ReplyReason, FinalizeReject, Resolve, database, memory, history, TypeOK, References, NoSilentEnd
<1>20. ASSUME NEW u \in Users, ReplyTooLate(u) PROVE NoSilentEnd'
  BY <1>20 DEF ReplyTooLate, database, memory, history, TypeOK, References, NoSilentEnd
<1>21. ASSUME SweepHolds PROVE NoSilentEnd'
  BY <1>21 DEF SweepHolds, FinalizeReject, Resolve, Overdue, database, memory, history, TypeOK, References, NoSilentEnd
<1>22. ASSUME SweepNext PROVE NoSilentEnd'
  BY <1>22 DEF SweepNext, FinalizeReject, Resolve, database, memory, history, TypeOK, References, NoSilentEnd
<1>23. ASSUME HostCrash PROVE NoSilentEnd'
  BY <1>23 DEF HostCrash, HostDies, database, memory, history, TypeOK, References, NoSilentEnd
<1>24. CASE UNCHANGED vars
  BY <1>24 DEF vars, database, memory, history, NoSilentEnd
<1>25. QED
  BY <1>1, <1>2, <1>3, <1>4, <1>5, <1>6, <1>7, <1>8, <1>9, <1>10, <1>11, <1>12, <1>13, <1>14, <1>15, <1>16, <1>17, <1>18, <1>19, <1>20, <1>21, <1>22, <1>23, <1>24 DEF Next

-----------------------------------------------------------------------------
\* The invariant of every behaviour, from which the theorems follow.
THEOREM AlwaysAccounted == Spec => []IInv
<1>1. IInv /\ [Next]_vars => IInv'
  BY TypeStep, ReferencesStep, RejectedStep, SilenceStep DEF IInv
<1>2. QED
  BY InitIInv, <1>1, PTL DEF Spec

\* Every variable keeps its type; statuses are those the queries look for.
\* (pending_approvals, db/sessions.ts)
THEOREM ApprovalsTypeCorrect == Spec => []TypeOK
<1>1. IInv => TypeOK
  BY DEF IInv
<1>2. QED
  BY AlwaysAccounted, <1>1, PTL

\* No approval ends before its agent heard of it, whatever clicks, replies,
\* sweeps and crashes interleave.
\* (requestApproval, handleRegisteredApproval, finalizeReject)
THEOREM NoApprovalEndsInSilence == Spec => []NoSilentEnd
<1>1. IInv => NoSilentEnd
  BY DEF IInv
<1>2. QED
  BY AlwaysAccounted, <1>1, PTL

LEMMA ReturnStep ==
  ASSUME TypeOK, References, [Next]_vars
  PROVE  RowsDoNotReturn
<1>1. ASSUME NEW a \in Approvals, Request(a) PROVE RowsDoNotReturn
  BY <1>1 DEF Request, database, memory, history, TypeOK, References, RowsDoNotReturn
<1>2. ASSUME NEW a \in Approvals, Unreachable(a) PROVE RowsDoNotReturn
  BY <1>2 DEF Unreachable, database, memory, history, TypeOK, References, RowsDoNotReturn
<1>3. ASSUME NEW a \in Approvals, Create(a) PROVE RowsDoNotReturn
  BY <1>3 DEF Create, database, memory, history, TypeOK, References, RowsDoNotReturn
<1>4. ASSUME NEW a \in Approvals, ShowCard(a) PROVE RowsDoNotReturn
  BY <1>4 DEF ShowCard, database, memory, history, TypeOK, References, RowsDoNotReturn
<1>5. ASSUME NEW a \in Approvals, Sent(a) PROVE RowsDoNotReturn
  BY <1>5 DEF Sent, database, memory, history, TypeOK, References, RowsDoNotReturn
<1>6. ASSUME NEW a \in Approvals, SendFails(a) PROVE RowsDoNotReturn
  BY <1>6 DEF SendFails, Resolve, database, memory, history, TypeOK, References, RowsDoNotReturn
<1>7. ASSUME NEW a \in Approvals, WindowElapses(a) PROVE RowsDoNotReturn
  BY <1>7 DEF WindowElapses, database, memory, history, TypeOK, References, RowsDoNotReturn
<1>8. ASSUME NEW a \in Approvals, Revoke(a) PROVE RowsDoNotReturn
  BY <1>8 DEF Revoke, database, memory, history, TypeOK, References, RowsDoNotReturn
<1>9. ASSUME NEW a \in Approvals, CrashInReject(a) PROVE RowsDoNotReturn
  BY <1>9 DEF CrashInReject, HostDies, database, memory, history, TypeOK, References, RowsDoNotReturn
<1>10. ASSUME NEW a \in Approvals, CrashInSendFails(a) PROVE RowsDoNotReturn
  BY <1>10 DEF CrashInSendFails, HostDies, database, memory, history, TypeOK, References, RowsDoNotReturn
<1>11. ASSUME NEW c \in Clicks, NEW a \in Approvals, ClickReject(c, a) PROVE RowsDoNotReturn
  BY <1>11 DEF ClickReject, Pressed, FinalizeReject, Resolve, database, memory, history, TypeOK, References, RowsDoNotReturn
<1>12. ASSUME NEW c \in Clicks, NEW a \in Approvals, ClickReason(c, a) PROVE RowsDoNotReturn
  BY <1>12 DEF ClickReason, Pressed, database, memory, history, TypeOK, References, RowsDoNotReturn
<1>13. ASSUME NEW c \in Clicks, NEW a \in Approvals, ClickRefused(c, a) PROVE RowsDoNotReturn
  BY <1>13 DEF ClickRefused, Pressed, Resolve, database, memory, history, TypeOK, References, RowsDoNotReturn
<1>14. ASSUME NEW c \in Clicks, NEW a \in Approvals, ClickApprove(c, a) PROVE RowsDoNotReturn
  BY <1>14 DEF ClickApprove, Pressed, database, memory, history, TypeOK, References, RowsDoNotReturn
<1>15. ASSUME NEW c \in Clicks, Applied(c) PROVE RowsDoNotReturn
  BY <1>15, FlowsKnow DEF Applied, Resolve, database, memory, history, TypeOK, References, RowsDoNotReturn
<1>16. ASSUME NEW c \in Clicks, Reach(c) PROVE RowsDoNotReturn
  BY <1>16, FlowsKnow DEF Reach, database, memory, history, TypeOK, References, RowsDoNotReturn
<1>17. ASSUME NEW c \in Clicks, ReachFails(c) PROVE RowsDoNotReturn
  BY <1>17, FlowsKnow DEF ReachFails, FinalizeReject, Resolve, database, memory, history, TypeOK, References, RowsDoNotReturn
<1>18. ASSUME NEW c \in Clicks, Hold(c) PROVE RowsDoNotReturn
  BY <1>18, FlowsKnow DEF Hold, Marked, database, memory, history, TypeOK, References, RowsDoNotReturn
<1>19. ASSUME NEW u \in Users, ReplyReason(u) PROVE RowsDoNotReturn
  BY <1>19 DEF ReplyReason, FinalizeReject, Resolve, database, memory, history, TypeOK, References, RowsDoNotReturn
<1>20. ASSUME NEW u \in Users, ReplyTooLate(u) PROVE RowsDoNotReturn
  BY <1>20 DEF ReplyTooLate, database, memory, history, TypeOK, References, RowsDoNotReturn
<1>21. ASSUME SweepHolds PROVE RowsDoNotReturn
  BY <1>21 DEF SweepHolds, FinalizeReject, Resolve, Overdue, database, memory, history, TypeOK, References, RowsDoNotReturn
<1>22. ASSUME SweepNext PROVE RowsDoNotReturn
  BY <1>22 DEF SweepNext, FinalizeReject, Resolve, database, memory, history, TypeOK, References, RowsDoNotReturn
<1>23. ASSUME HostCrash PROVE RowsDoNotReturn
  BY <1>23 DEF HostCrash, HostDies, database, memory, history, TypeOK, References, RowsDoNotReturn
<1>24. CASE UNCHANGED vars
  BY <1>24 DEF vars, database, memory, history, RowsDoNotReturn
<1>25. QED
  BY <1>1, <1>2, <1>3, <1>4, <1>5, <1>6, <1>7, <1>8, <1>9, <1>10, <1>11, <1>12, <1>13, <1>14, <1>15, <1>16, <1>17, <1>18, <1>19, <1>20, <1>21, <1>22, <1>23, <1>24 DEF Next

\* A row that was deleted stays deleted.
\* (armReasonCapture marks the row after two awaits)
THEOREM ResolvedForGood == Spec => ResolvedStaysResolved
<1>1. IInv /\ [Next]_vars => RowsDoNotReturn
  BY ReturnStep DEF IInv
<1>2. IInv /\ [Next]_vars => [RowsDoNotReturn]_vars
  BY <1>1
<1>3. QED
  BY AlwaysAccounted, <1>2, PTL DEF Spec, ResolvedStaysResolved

LEMMA ApplyStep ==
  ASSUME TypeOK, References, RejectedHaveNoRow, [Next]_vars
  PROVE  AppliesFollowNoReject
<1>1. ASSUME NEW a \in Approvals, Request(a) PROVE AppliesFollowNoReject
  BY <1>1 DEF Request, database, memory, history, TypeOK, References, RejectedHaveNoRow, AppliesFollowNoReject
<1>2. ASSUME NEW a \in Approvals, Unreachable(a) PROVE AppliesFollowNoReject
  BY <1>2 DEF Unreachable, database, memory, history, TypeOK, References, RejectedHaveNoRow, AppliesFollowNoReject
<1>3. ASSUME NEW a \in Approvals, Create(a) PROVE AppliesFollowNoReject
  BY <1>3 DEF Create, database, memory, history, TypeOK, References, RejectedHaveNoRow, AppliesFollowNoReject
<1>4. ASSUME NEW a \in Approvals, ShowCard(a) PROVE AppliesFollowNoReject
  BY <1>4 DEF ShowCard, database, memory, history, TypeOK, References, RejectedHaveNoRow, AppliesFollowNoReject
<1>5. ASSUME NEW a \in Approvals, Sent(a) PROVE AppliesFollowNoReject
  BY <1>5 DEF Sent, database, memory, history, TypeOK, References, RejectedHaveNoRow, AppliesFollowNoReject
<1>6. ASSUME NEW a \in Approvals, SendFails(a) PROVE AppliesFollowNoReject
  BY <1>6 DEF SendFails, Resolve, database, memory, history, TypeOK, References, RejectedHaveNoRow, AppliesFollowNoReject
<1>7. ASSUME NEW a \in Approvals, WindowElapses(a) PROVE AppliesFollowNoReject
  BY <1>7 DEF WindowElapses, database, memory, history, TypeOK, References, RejectedHaveNoRow, AppliesFollowNoReject
<1>8. ASSUME NEW a \in Approvals, Revoke(a) PROVE AppliesFollowNoReject
  BY <1>8 DEF Revoke, database, memory, history, TypeOK, References, RejectedHaveNoRow, AppliesFollowNoReject
<1>9. ASSUME NEW a \in Approvals, CrashInReject(a) PROVE AppliesFollowNoReject
  BY <1>9 DEF CrashInReject, HostDies, database, memory, history, TypeOK, References, RejectedHaveNoRow, AppliesFollowNoReject
<1>10. ASSUME NEW a \in Approvals, CrashInSendFails(a) PROVE AppliesFollowNoReject
  BY <1>10 DEF CrashInSendFails, HostDies, database, memory, history, TypeOK, References, RejectedHaveNoRow, AppliesFollowNoReject
<1>11. ASSUME NEW c \in Clicks, NEW a \in Approvals, ClickReject(c, a) PROVE AppliesFollowNoReject
  BY <1>11 DEF ClickReject, Pressed, FinalizeReject, Resolve, database, memory, history, TypeOK, References, RejectedHaveNoRow, AppliesFollowNoReject
<1>12. ASSUME NEW c \in Clicks, NEW a \in Approvals, ClickReason(c, a) PROVE AppliesFollowNoReject
  BY <1>12 DEF ClickReason, Pressed, database, memory, history, TypeOK, References, RejectedHaveNoRow, AppliesFollowNoReject
<1>13. ASSUME NEW c \in Clicks, NEW a \in Approvals, ClickRefused(c, a) PROVE AppliesFollowNoReject
  BY <1>13 DEF ClickRefused, Pressed, Resolve, database, memory, history, TypeOK, References, RejectedHaveNoRow, AppliesFollowNoReject
<1>14. ASSUME NEW c \in Clicks, NEW a \in Approvals, ClickApprove(c, a) PROVE AppliesFollowNoReject
  BY <1>14 DEF ClickApprove, Pressed, database, memory, history, TypeOK, References, RejectedHaveNoRow, AppliesFollowNoReject
<1>15. ASSUME NEW c \in Clicks, Applied(c) PROVE AppliesFollowNoReject
  BY <1>15, FlowsKnow DEF Applied, Resolve, database, memory, history, TypeOK, References, RejectedHaveNoRow, AppliesFollowNoReject
<1>16. ASSUME NEW c \in Clicks, Reach(c) PROVE AppliesFollowNoReject
  BY <1>16, FlowsKnow DEF Reach, database, memory, history, TypeOK, References, RejectedHaveNoRow, AppliesFollowNoReject
<1>17. ASSUME NEW c \in Clicks, ReachFails(c) PROVE AppliesFollowNoReject
  BY <1>17, FlowsKnow DEF ReachFails, FinalizeReject, Resolve, database, memory, history, TypeOK, References, RejectedHaveNoRow, AppliesFollowNoReject
<1>18. ASSUME NEW c \in Clicks, Hold(c) PROVE AppliesFollowNoReject
  BY <1>18, FlowsKnow DEF Hold, Marked, database, memory, history, TypeOK, References, RejectedHaveNoRow, AppliesFollowNoReject
<1>19. ASSUME NEW u \in Users, ReplyReason(u) PROVE AppliesFollowNoReject
  BY <1>19 DEF ReplyReason, FinalizeReject, Resolve, database, memory, history, TypeOK, References, RejectedHaveNoRow, AppliesFollowNoReject
<1>20. ASSUME NEW u \in Users, ReplyTooLate(u) PROVE AppliesFollowNoReject
  BY <1>20 DEF ReplyTooLate, database, memory, history, TypeOK, References, RejectedHaveNoRow, AppliesFollowNoReject
<1>21. ASSUME SweepHolds PROVE AppliesFollowNoReject
  BY <1>21 DEF SweepHolds, FinalizeReject, Resolve, Overdue, database, memory, history, TypeOK, References, RejectedHaveNoRow, AppliesFollowNoReject
<1>22. ASSUME SweepNext PROVE AppliesFollowNoReject
  BY <1>22 DEF SweepNext, FinalizeReject, Resolve, database, memory, history, TypeOK, References, RejectedHaveNoRow, AppliesFollowNoReject
<1>23. ASSUME HostCrash PROVE AppliesFollowNoReject
  BY <1>23 DEF HostCrash, HostDies, database, memory, history, TypeOK, References, RejectedHaveNoRow, AppliesFollowNoReject
<1>24. CASE UNCHANGED vars
  BY <1>24 DEF vars, database, memory, history, AppliesFollowNoReject
<1>25. QED
  BY <1>1, <1>2, <1>3, <1>4, <1>5, <1>6, <1>7, <1>8, <1>9, <1>10, <1>11, <1>12, <1>13, <1>14, <1>15, <1>16, <1>17, <1>18, <1>19, <1>20, <1>21, <1>22, <1>23, <1>24 DEF Next

\* The handler of an approval never starts after the agent was told that it is
\* rejected, unless the host died between that note and the row.
\* (finalizeReject deletes the row in the step that sends the note)
THEOREM NothingRejectedIsApplied == Spec => RejectedNeverApplied
<1>1. IInv /\ [Next]_vars => [AppliesFollowNoReject]_vars
  BY ApplyStep DEF IInv
<1>2. QED
  BY AlwaysAccounted, <1>1, PTL DEF Spec, RejectedNeverApplied

-----------------------------------------------------------------------------
(***************************************************************************)
(* Who reaches which agent of a chat (Access).                             *)
(***************************************************************************)
HIDE ApprovalsAssumption DEF Idle, Done, Flows
USE AccessAssumption


(***************************************************************************)
(* What the chat refers to has arrived there.                              *)
(***************************************************************************)
HasArrived(m) == m \in 1..Len(msg)

ReferencesArrived ==
  /\ \A f \in routes : HasArrived(f.msg)
  /\ \A x \in askSender : HasArrived(x[1])
  /\ \A x \in refused : HasArrived(x[1])
  /\ \A m \in askChat : HasArrived(m)
  /\ chatRow # NoMessage => HasArrived(chatRow)
  /\ \A p \in People : senderRow[p] # NoRow => HasArrived(senderRow[p].msg)

\* A gate that refused a message refuses it still, unless the sender was
\* admitted: the policy and the wiring of an agent are never changed, and
\* a sticky agent that engaged has its session for good.
RefusalsStand ==
  \A x \in refused : Known(x[2], x[1]) \/ Refuses(x[2], x[1])

\* The agent would take the message if the gates let it pass.
Welcome(a, m) ==
  wiring[a] # Unwired /\ (Engages(a, m) \/ wiring[a].ignored = "accumulate")

AskedAreWelcome ==
  /\ \A x \in askSender : Welcome(x[2], x[1])
  /\ \A p \in People :
       senderRow[p] # NoRow => Welcome(senderRow[p].agent, senderRow[p].msg)

Heard(f) ==
  \/ f.msg \in inbox[f.for]
  \/ \E b \in Agents : f.msg \in inbox[b] /\ Position(b) < Position(f.for)

\* A message that was approved for an agent is on its way to that agent
\* until it has been heard, and nothing on the way can stop it.
ApprovedIsOnItsWay ==
  \A f \in routes : f.for # NoAgent =>
    /\ Known(f.for, f.msg) /\ Welcome(f.for, f.msg)
    /\ Heard(f) \/ f.for \in Left(f)

AccessInv ==
  /\ AccessTypeOK /\ ReferencesArrived /\ RefusalsStand
  /\ AskedAreWelcome /\ ApprovedIsOnItsWay

(***************************************************************************)
(* The order of the agents.                                                *)
(***************************************************************************)
\* A set of numbers has a least one.
LEMMA Least ==
  ASSUME NEW S, S \subseteq Nat, S # {}
  PROVE  \E n \in S : \A k \in S : n <= k
<1> DEFINE Less == {x \in Nat \X Nat : x[1] < x[2]}
<1>1. IsWellFoundedOn(Less, Nat)
  BY NatLessThanWellFounded DEF OpToRel
<1>2. PICK n \in S : \A k \in S : <<k, n>> \notin Less
  BY <1>1, WFMin
<1>3. ASSUME NEW k \in S, k < n PROVE FALSE
  BY <1>2, <1>3
<1> QED
  BY <1>3

LEMMA PositionIs ==
  ASSUME NEW a \in Agents
  PROVE  Position(a) \in 1..Len(Order) /\ Order[Position(a)] = a
BY DEF Position, Agents, ToSet

\* The first of the agents a route stops at is one of them.
LEMMA NextIsFirst ==
  ASSUME NEW f, Stops(f) \subseteq Agents, Stops(f) # {}
  PROVE  Next1(f) \in Stops(f) /\ \A b \in Stops(f) : Position(Next1(f)) <= Position(b)
<1> DEFINE P == {Position(b) : b \in Stops(f)}
<1>1. P \subseteq Nat /\ P # {}
  BY PositionIs
<1>2. PICK n \in P : \A k \in P : n <= k
  BY <1>1, Least
<1>3. \E a \in Stops(f) : \A b \in Stops(f) : Position(a) <= Position(b)
  BY <1>2
<1> QED
  BY <1>3 DEF Next1

LEMMA StopsAreAgents ==
  ASSUME AccessTypeOK, NEW f \in routes
  PROVE  Stops(f) \subseteq Agents /\ Left(f) \subseteq Agents /\ f \in Route
BY DEF Stops, Left, Wired, AccessTypeOK, Route

LEMMA AccessInitInv == AccessInit => AccessInv
<1> SUFFICES ASSUME AccessInit PROVE AccessInv
  OBVIOUS
<1>1. wiring \in [Agents -> Wiring \cup {Unwired}] /\ msg \in Seq(Arrival)
  BY DEF AccessInit
<1>2. Len(msg) = 0 /\ Len(msg) <= MaxMessages /\ restarts \in 0..MaxRestarts
  BY DEF AccessInit
<1>3. senderRow \in [People -> {NoRow}] /\ \A p \in People : senderRow[p] = NoRow
  BY DEF AccessInit
<1>4. AccessTypeOK
  BY <1>1, <1>2, <1>3 DEF AccessInit, AccessTypeOK
<1> QED
  BY <1>4 DEF AccessInit, AccessInv, ReferencesArrived, RefusalsStand,
     AskedAreWelcome, ApprovedIsOnItsWay


-----------------------------------------------------------------------------
(***************************************************************************)
(* Types.                                                                  *)
(***************************************************************************)
LEMMA NewRoute ==
  ASSUME NEW m \in Messages, NEW a \in Agents \cup {NoAgent}
  PROVE  [msg |-> m, stage |-> "arrived", left |-> {}, for |-> a] \in Route
BY DEF Route

\* What wiring an agent for the message that is kept changes.
LEMMA WireTypes ==
  ASSUME AccessTypeOK, chatRow # NoMessage, HasArrived(chatRow), NEW a \in Agents, Wire(a)
  PROVE  /\ wiring' \in [Agents -> Wiring \cup {Unwired}]
         /\ member' \in [Agents -> SUBSET People]
         /\ chatRow' = NoMessage /\ routes' \in SUBSET Route
<1>0. msg \in Seq(Arrival) /\ Len(msg) <= MaxMessages
  BY DEF AccessTypeOK
<1>1. chatRow \in Messages /\ msg[chatRow].from \in People
  <2>1. chatRow \in 1..Len(msg) /\ Len(msg) \in Nat
    BY <1>0 DEF HasArrived
  <2>2. chatRow \in Messages
    BY <1>0, <2>1 DEF Messages
  <2>3. msg[chatRow] \in Arrival
    BY ONLY <1>0, <2>1
  <2> QED
    BY <2>2, <2>3 DEF Arrival
<1>2. CardWirings \subseteq Wiring
  BY DEF CardWirings
<1>3. wiring' \in [Agents -> Wiring \cup {Unwired}]
  BY <1>2 DEF AccessTypeOK, Wire
<1>4. member' \in [Agents -> SUBSET People]
  BY <1>1 DEF AccessTypeOK, Wire
<1>5. routes' \in SUBSET Route
  BY <1>1, NewRoute DEF AccessTypeOK, Wire, Replay
<1> QED
  BY <1>3, <1>4, <1>5 DEF Wire

LEMMA AccessTypeStep ==
  ASSUME AccessTypeOK, ReferencesArrived, [AccessNext]_accessVars
  PROVE  AccessTypeOK'
<1>1. ASSUME NEW p \in People, NEW mention \in BOOLEAN, Arrive(p, mention) PROVE AccessTypeOK'
  <2>0. [from |-> p, mention |-> mention] \in Arrival
    BY DEF Arrival
  <2>1. msg' \in Seq(Arrival) /\ Len(msg') = Len(msg) + 1
        /\ \A i \in 1..Len(msg) : msg'[i] = msg[i]
    BY <1>1, <2>0 DEF Arrive, AccessTypeOK
  <2>2. Len(msg) + 1 \in Messages
    BY <1>1 DEF Arrive, AccessTypeOK, Messages
  <2>3. routes' \in SUBSET Route
    BY <1>1, <2>2, NewRoute DEF Arrive, AccessTypeOK
  <2>4. \A q \in People : senderRow[q] # NoRow => msg'[senderRow[q].msg].from = q
    BY <2>1 DEF AccessTypeOK, ReferencesArrived, HasArrived
  <2>5. Len(msg') <= MaxMessages
    BY <1>1, <2>1 DEF Arrive, AccessTypeOK
  <2> QED
    BY <1>1, <2>1, <2>3, <2>4, <2>5 DEF Arrive, central, AccessTypeOK
<1>2. ASSUME NEW p \in People, AllowSender(p) PROVE AccessTypeOK'
  <2>1. senderRow[p] \in [agent : Agents, msg : Messages, card : BOOLEAN]
    BY <1>2 DEF AllowSender, AccessTypeOK, NoRow
  <2>2. routes' \in SUBSET Route
    BY <1>2, <2>1, NewRoute DEF AllowSender, Replay, AccessTypeOK
  <2>3. member' \in [Agents -> SUBSET People]
    BY <1>2, <2>1 DEF AllowSender, AccessTypeOK
  <2> QED
    BY <1>2, <2>2, <2>3 DEF AllowSender, AccessTypeOK
<1>3. ASSUME NEW p \in People, DenySender(p) PROVE AccessTypeOK'
  BY <1>3 DEF DenySender, central, underWay, AccessTypeOK, Messages, NoRow
<1>4. ASSUME NEW f \in routes, RouteUnwired(f) PROVE AccessTypeOK'
  <2>1. f.msg \in Messages
    BY StopsAreAgents DEF Route
  <2> QED
    BY <1>4, <2>1 DEF RouteUnwired, central, AccessTypeOK
<1>5. ASSUME NEW f \in routes, RouteStores(f) PROVE AccessTypeOK'
  <2>1. Visited(f) \subseteq Agents /\ Left(f) \subseteq Agents /\ f \in Route
    BY StopsAreAgents DEF Visited
  <2>2. f.msg \in Messages
    BY <2>1 DEF Route
  <2>3. [f EXCEPT !.stage = "looping", !.left = Left(f) \ Visited(f)] \in Route
    BY <2>1 DEF Route
  <2>4. inbox' \in [Agents -> SUBSET Messages]
    BY <1>5, <2>2 DEF RouteStores, AccessTypeOK
  <2>5. refused' \in SUBSET (Messages \X Agents) /\ askSender' \in SUBSET (Messages \X Agents)
    BY <1>5, <2>1, <2>2 DEF RouteStores, Refusals, AccessTypeOK
  <2> QED
    BY <1>5, <2>3, <2>4, <2>5 DEF RouteStores, central, AccessTypeOK
<1>6. ASSUME NEW f \in routes, RouteCollides(f) PROVE AccessTypeOK'
  <2>1. Visited(f) \subseteq Agents /\ Left(f) \subseteq Agents /\ f \in Route
    BY StopsAreAgents DEF Visited
  <2>2. f.msg \in Messages
    BY <2>1 DEF Route
  <2>5. refused' \in SUBSET (Messages \X Agents) /\ askSender' \in SUBSET (Messages \X Agents)
    BY <1>6, <2>1, <2>2 DEF RouteCollides, Refusals, AccessTypeOK
  <2> QED
    BY <1>6, <2>5 DEF RouteCollides, central, AccessTypeOK
<1>7. ASSUME NEW f \in routes, RouteEnds(f) PROVE AccessTypeOK'
  <2>1. Visited(f) \subseteq Agents /\ Left(f) \subseteq Agents /\ f \in Route
    BY StopsAreAgents DEF Visited
  <2>2. f.msg \in Messages
    BY <2>1 DEF Route
  <2>5. refused' \in SUBSET (Messages \X Agents) /\ askSender' \in SUBSET (Messages \X Agents)
    BY <1>7, <2>1, <2>2 DEF RouteEnds, Refusals, AccessTypeOK
  <2> QED
    BY <1>7, <2>5 DEF RouteEnds, central, AccessTypeOK
<1>8. ASSUME NEW m \in Messages, NEW a \in Agents, AskSender(m, a) PROVE AccessTypeOK'
  <2>1. CASE UNCHANGED senderRow
    BY <1>8, <2>1 DEF AskSender, AccessTypeOK
  <2>2. ASSUME NEW shown \in BOOLEAN,
               senderRow' = [senderRow EXCEPT ![msg[m].from] = [agent |-> a, msg |-> m, card |-> shown]]
        PROVE  AccessTypeOK'
    <3>1. senderRow' \in [People -> {NoRow} \cup [agent : Agents, msg : Messages, card : BOOLEAN]]
      BY <2>2 DEF AccessTypeOK
    <3>2. \A q \in People : senderRow'[q] # NoRow => msg[senderRow'[q].msg].from = q
      BY <2>2 DEF AccessTypeOK
    <3> QED
      BY <1>8, <3>1, <3>2 DEF AskSender, AccessTypeOK
  <2> QED
    BY <1>8, <2>1, <2>2 DEF AskSender
<1>9. ASSUME NEW m \in Messages, AskChat(m) PROVE AccessTypeOK'
  BY <1>9 DEF AskChat, central, underWay, AccessTypeOK, Messages, NoRow
<1>10. ASSUME NEW a \in Agents, Connect(a) PROVE AccessTypeOK'
  <2>1. CASE Wire(a)
    BY <1>10, <2>1, WireTypes DEF Connect, ReferencesArrived, AccessTypeOK
  <2>2. CASE DropChat
    BY <1>10, <2>2 DEF Connect, DropChat, AccessTypeOK
  <2> QED
    BY <1>10, <2>1, <2>2 DEF Connect
<1>11. ASSUME NEW a \in Agents, OperatorWires(a) PROVE AccessTypeOK'
  BY <1>11 DEF OperatorWires, central, underWay, AccessTypeOK, Messages, NoRow
<1>12. ASSUME RejectChat PROVE AccessTypeOK'
  BY <1>12 DEF RejectChat, central, underWay, AccessTypeOK, Messages, NoRow
<1>13. ASSUME ClickNewAgent PROVE AccessTypeOK'
  BY <1>13 DEF ClickNewAgent, central, underWay, AccessTypeOK, Messages, NoRow
<1>14. ASSUME Prompt PROVE AccessTypeOK'
  BY <1>14 DEF Prompt, central, underWay, AccessTypeOK, Messages, NoRow
<1>15. ASSUME PromptSent PROVE AccessTypeOK'
  BY <1>15 DEF PromptSent, central, underWay, AccessTypeOK, Messages, NoRow
<1>16. ASSUME Name PROVE AccessTypeOK'
  <2>1. CASE UNCHANGED <<wiring, exists, member, chatRow, routes>>
    BY <1>16, <2>1 DEF Name, AccessTypeOK
  <2>2. ASSUME chatRow # NoMessage, NEW a \in Agents, exists' = exists \cup {a}, Wire(a)
        PROVE  AccessTypeOK'
    BY <1>16, <2>2, WireTypes DEF Name, ReferencesArrived, AccessTypeOK
  <2>3. ASSUME NEW a \in Agents, exists' = exists \cup {a}, DropChat
        PROVE  AccessTypeOK'
    BY <1>16, <2>3 DEF Name, DropChat, AccessTypeOK
  <2> QED
    BY <1>16, <2>1, <2>2, <2>3 DEF Name
<1>17. ASSUME HostRestarts PROVE AccessTypeOK'
  <2>1. restarts' \in 0..MaxRestarts
    BY <1>17 DEF HostRestarts, AccessTypeOK
  <2> QED
    BY <1>17, <2>1 DEF HostRestarts, central, AccessTypeOK
<1>18. ASSUME UNCHANGED accessVars PROVE AccessTypeOK'
  BY <1>18 DEF accessVars, central, underWay, AccessTypeOK, Messages, NoRow
<1> QED
  BY <1>1, <1>2, <1>3, <1>4, <1>5, <1>6, <1>7, <1>8, <1>9, <1>10, <1>11, <1>12, <1>13, <1>14, <1>15, <1>16, <1>17, <1>18 DEF AccessNext, RouteStep

-----------------------------------------------------------------------------
(***************************************************************************)
(* What grows: messages, members, sessions and wirings are only added.     *)
(***************************************************************************)
Grows ==
  /\ policy' = policy
  /\ Len(msg) <= Len(msg') /\ \A m \in 1..Len(msg) : msg'[m] = msg[m]
  /\ \A a \in Agents : member[a] \subseteq member'[a] /\ inbox[a] \subseteq inbox'[a]
  /\ \A a \in Agents : wiring[a] # Unwired => wiring'[a] = wiring[a]

LEMMA OnlyGrows ==
  ASSUME AccessTypeOK, [AccessNext]_accessVars
  PROVE  Grows
<1>1. ASSUME NEW p \in People, NEW mention \in BOOLEAN, Arrive(p, mention) PROVE Grows
  <2>1. Len(msg') = Len(msg) + 1 /\ \A m \in 1..Len(msg) : msg'[m] = msg[m]
    BY <1>1 DEF Arrive, AccessTypeOK
  <2>2. UNCHANGED <<policy, member, inbox, wiring>> /\ Len(msg) \in Nat
    BY <1>1 DEF Arrive, central, AccessTypeOK
  <2> QED
    BY <2>1, <2>2 DEF Grows
<1>2. ASSUME NEW p \in People, AllowSender(p) PROVE Grows
  BY <1>2 DEF AllowSender, Replay, central, underWay, AccessTypeOK, Grows
<1>3. ASSUME NEW p \in People, DenySender(p) PROVE Grows
  BY <1>3 DEF DenySender, central, underWay, AccessTypeOK, Grows
<1>4. ASSUME NEW f \in routes, RouteUnwired(f) PROVE Grows
  BY <1>4 DEF RouteUnwired, central, underWay, AccessTypeOK, Grows
<1>5. ASSUME NEW f \in routes, RouteStores(f) PROVE Grows
  BY <1>5 DEF RouteStores, Refusals, central, underWay, AccessTypeOK, Grows
<1>6. ASSUME NEW f \in routes, RouteCollides(f) PROVE Grows
  BY <1>6 DEF RouteCollides, Refusals, central, underWay, AccessTypeOK, Grows
<1>7. ASSUME NEW f \in routes, RouteEnds(f) PROVE Grows
  BY <1>7 DEF RouteEnds, Refusals, central, underWay, AccessTypeOK, Grows
<1>8. ASSUME NEW m \in Messages, NEW a \in Agents, AskSender(m, a) PROVE Grows
  BY <1>8 DEF AskSender, central, underWay, AccessTypeOK, Grows
<1>9. ASSUME NEW m \in Messages, AskChat(m) PROVE Grows
  BY <1>9 DEF AskChat, central, underWay, AccessTypeOK, Grows
<1>10. ASSUME NEW a \in Agents, Connect(a) PROVE Grows
  BY <1>10 DEF Connect, Wire, DropChat, Replay, central, underWay, AccessTypeOK, Grows
<1>11. ASSUME NEW a \in Agents, OperatorWires(a) PROVE Grows
  BY <1>11 DEF OperatorWires, central, underWay, AccessTypeOK, Grows
<1>12. ASSUME RejectChat PROVE Grows
  BY <1>12 DEF RejectChat, central, underWay, AccessTypeOK, Grows
<1>13. ASSUME ClickNewAgent PROVE Grows
  BY <1>13 DEF ClickNewAgent, central, underWay, AccessTypeOK, Grows
<1>14. ASSUME Prompt PROVE Grows
  BY <1>14 DEF Prompt, central, underWay, AccessTypeOK, Grows
<1>15. ASSUME PromptSent PROVE Grows
  BY <1>15 DEF PromptSent, central, underWay, AccessTypeOK, Grows
<1>16. ASSUME Name PROVE Grows
  BY <1>16 DEF Name, Wire, DropChat, Replay, central, underWay, AccessTypeOK, Grows
<1>17. ASSUME HostRestarts PROVE Grows
  BY <1>17 DEF HostRestarts, central, underWay, AccessTypeOK, Grows
<1>18. ASSUME UNCHANGED accessVars PROVE Grows
  BY <1>18 DEF accessVars, central, underWay, AccessTypeOK, Grows
<1> QED
  BY <1>1, <1>2, <1>3, <1>4, <1>5, <1>6, <1>7, <1>8, <1>9, <1>10, <1>11, <1>12, <1>13, <1>14, <1>15, <1>16, <1>17, <1>18 DEF AccessNext, RouteStep

LEMMA ArrivedStays ==
  ASSUME AccessTypeOK, Grows, NEW m, HasArrived(m)
  PROVE  HasArrived(m)' /\ msg'[m] = msg[m]
<1>1. Len(msg) \in Nat
  BY DEF AccessTypeOK
<1> QED
  BY <1>1 DEF Grows, HasArrived

LEMMA KnownStays ==
  ASSUME AccessTypeOK, Grows, NEW m, HasArrived(m), NEW a \in Agents, Known(a, m)
  PROVE  Known(a, m)'
BY ArrivedStays DEF Grows, Known

LEMMA EngagedIsWired ==
  ASSUME NEW a \in Agents, NEW m, Engages(a, m)
  PROVE  wiring[a] # Unwired
BY DEF Engages, Unwired

LEMMA EngagesStays ==
  ASSUME AccessTypeOK, Grows, NEW m, HasArrived(m), NEW a \in Agents, Engages(a, m)
  PROVE  Engages(a, m)'
<1>1. wiring'[a] = wiring[a] /\ msg'[m] = msg[m] /\ (inbox[a] # {} => inbox'[a] # {})
  BY EngagedIsWired, ArrivedStays DEF Grows
<1> QED
  BY <1>1 DEF Engages

LEMMA WelcomeStays ==
  ASSUME AccessTypeOK, Grows, NEW m, HasArrived(m), NEW a \in Agents, Welcome(a, m)
  PROVE  Welcome(a, m)'
BY EngagesStays DEF Grows, Welcome

\* A refusal ends with the admission of the sender and with nothing else.
LEMMA RefusalStays ==
  ASSUME AccessTypeOK, Grows, NEW m, HasArrived(m), NEW a \in Agents, Refuses(a, m)
  PROVE  Known(a, m)' \/ Refuses(a, m)'
<1>1. Engages(a, m)' /\ wiring'[a] = wiring[a] /\ policy' = policy
  BY EngagesStays, EngagedIsWired DEF Refuses, Grows
<1> QED
  BY <1>1 DEF Refuses, AccessOk, ScopeOk, Known

\* Nothing stops a message whose sender is known and that is welcome.
LEMMA KnownAndWelcomeIsReceived ==
  ASSUME NEW m, NEW a \in Agents, Known(a, m), Welcome(a, m)
  PROVE  Receives(a, m)
BY DEF Receives, Refuses, AccessOk, ScopeOk, Welcome

-----------------------------------------------------------------------------
(***************************************************************************)
(* What a step adds to the rows, the requests and the refusals.            *)
(***************************************************************************)
NewSetsMoves ==
  /\ \A x \in refused' : x \in refused \/
       (HasArrived(x[1]) /\ x[2] \in Agents /\ Refuses(x[2], x[1]))
  /\ \A x \in askSender' : x \in askSender \/
       (HasArrived(x[1]) /\ x[2] \in Agents /\ Engages(x[2], x[1]))
  /\ askChat' \subseteq askChat \cup {f.msg : f \in routes}
  /\ chatRow' \in {NoMessage, chatRow} \cup askChat
  /\ \A p \in People : senderRow'[p] \in {NoRow, senderRow[p]} \/
       <<senderRow'[p].msg, senderRow'[p].agent>> \in askSender

LEMMA SetsMove ==
  ASSUME AccessTypeOK, ReferencesArrived, [AccessNext]_accessVars
  PROVE  NewSetsMoves
<1>1. ASSUME NEW p \in People, NEW mention \in BOOLEAN, Arrive(p, mention) PROVE NewSetsMoves
  BY <1>1 DEF Arrive, central, underWay, NewSetsMoves
<1>2. ASSUME NEW p \in People, AllowSender(p) PROVE NewSetsMoves
  <2>1. \A q \in People : senderRow'[q] \in {NoRow, senderRow[q]}
    BY <1>2 DEF AllowSender, AccessTypeOK
  <2> QED
    BY <1>2, <2>1 DEF AllowSender, NewSetsMoves
<1>3. ASSUME NEW p \in People, DenySender(p) PROVE NewSetsMoves
  <2>1. \A q \in People : senderRow'[q] \in {NoRow, senderRow[q]}
    BY <1>3 DEF DenySender, AccessTypeOK
  <2> QED
    BY <1>3, <2>1 DEF DenySender, underWay, NewSetsMoves
<1>4. ASSUME NEW f \in routes, RouteUnwired(f) PROVE NewSetsMoves
  BY <1>4 DEF RouteUnwired, central, underWay, NewSetsMoves
<1>5. ASSUME NEW f \in routes, RouteStores(f) PROVE NewSetsMoves
  <2>1. HasArrived(f.msg) /\ Visited(f) \subseteq Agents
    BY StopsAreAgents DEF Visited, ReferencesArrived
  <2>2. \A x \in refused' : x \in refused \/
          (HasArrived(x[1]) /\ x[2] \in Agents /\ Refuses(x[2], x[1]))
    BY <1>5, <2>1 DEF RouteStores, Refusals
  <2>3. \A x \in askSender' : x \in askSender \/
          (HasArrived(x[1]) /\ x[2] \in Agents /\ Engages(x[2], x[1]))
    BY <1>5, <2>1 DEF RouteStores, Refusals, AsksAbout
  <2> QED
    BY <1>5, <2>2, <2>3 DEF RouteStores, central, NewSetsMoves
<1>6. ASSUME NEW f \in routes, RouteCollides(f) PROVE NewSetsMoves
  <2>1. HasArrived(f.msg) /\ Visited(f) \subseteq Agents
    BY StopsAreAgents DEF Visited, ReferencesArrived
  <2>2. \A x \in refused' : x \in refused \/
          (HasArrived(x[1]) /\ x[2] \in Agents /\ Refuses(x[2], x[1]))
    BY <1>6, <2>1 DEF RouteCollides, Refusals
  <2>3. \A x \in askSender' : x \in askSender \/
          (HasArrived(x[1]) /\ x[2] \in Agents /\ Engages(x[2], x[1]))
    BY <1>6, <2>1 DEF RouteCollides, Refusals, AsksAbout
  <2> QED
    BY <1>6, <2>2, <2>3 DEF RouteCollides, central, NewSetsMoves
<1>7. ASSUME NEW f \in routes, RouteEnds(f) PROVE NewSetsMoves
  <2>1. HasArrived(f.msg) /\ Visited(f) \subseteq Agents
    BY StopsAreAgents DEF Visited, ReferencesArrived
  <2>2. \A x \in refused' : x \in refused \/
          (HasArrived(x[1]) /\ x[2] \in Agents /\ Refuses(x[2], x[1]))
    BY <1>7, <2>1 DEF RouteEnds, Refusals
  <2>3. \A x \in askSender' : x \in askSender \/
          (HasArrived(x[1]) /\ x[2] \in Agents /\ Engages(x[2], x[1]))
    BY <1>7, <2>1 DEF RouteEnds, Refusals, AsksAbout
  <2> QED
    BY <1>7, <2>2, <2>3 DEF RouteEnds, central, NewSetsMoves
<1>8. ASSUME NEW m \in Messages, NEW a \in Agents, AskSender(m, a) PROVE NewSetsMoves
  <2>1. \A p \in People : senderRow'[p] \in {NoRow, senderRow[p]} \/
          <<senderRow'[p].msg, senderRow'[p].agent>> \in askSender
    <3>1. DOMAIN senderRow = People /\ <<m, a>> \in askSender
      BY <1>8 DEF AskSender, AccessTypeOK
    <3>2. ASSUME NEW shown \in BOOLEAN, NEW p \in People,
                 senderRow' = [senderRow EXCEPT ![msg[m].from] =
                                 [agent |-> a, msg |-> m, card |-> shown]]
          PROVE  senderRow'[p] = senderRow[p] \/
                   senderRow'[p] = [agent |-> a, msg |-> m, card |-> shown]
      BY ONLY <3>1, <3>2
    <3>3. ASSUME NEW p \in People, senderRow'[p] = [agent |-> a, msg |-> m, card |-> TRUE]
                   \/ senderRow'[p] = [agent |-> a, msg |-> m, card |-> FALSE]
          PROVE  <<senderRow'[p].msg, senderRow'[p].agent>> \in askSender
      BY ONLY <3>1, <3>3
    <3>4. CASE UNCHANGED senderRow
      BY <3>4
    <3> QED
      BY <1>8, <3>2, <3>3, <3>4 DEF AskSender
  <2> QED
    BY <1>8, <2>1 DEF AskSender, NewSetsMoves
<1>9. ASSUME NEW m \in Messages, AskChat(m) PROVE NewSetsMoves
  BY <1>9 DEF AskChat, central, underWay, NewSetsMoves
<1>10. ASSUME NEW a \in Agents, Connect(a) PROVE NewSetsMoves
  BY <1>10 DEF Connect, Wire, DropChat, Replay, central, underWay, NewSetsMoves
<1>11. ASSUME NEW a \in Agents, OperatorWires(a) PROVE NewSetsMoves
  BY <1>11 DEF OperatorWires, central, underWay, NewSetsMoves
<1>12. ASSUME RejectChat PROVE NewSetsMoves
  BY <1>12 DEF RejectChat, central, underWay, NewSetsMoves
<1>13. ASSUME ClickNewAgent PROVE NewSetsMoves
  BY <1>13 DEF ClickNewAgent, central, underWay, NewSetsMoves
<1>14. ASSUME Prompt PROVE NewSetsMoves
  BY <1>14 DEF Prompt, central, underWay, NewSetsMoves
<1>15. ASSUME PromptSent PROVE NewSetsMoves
  BY <1>15 DEF PromptSent, central, underWay, NewSetsMoves
<1>16. ASSUME Name PROVE NewSetsMoves
  BY <1>16 DEF Name, Wire, DropChat, Replay, central, underWay, NewSetsMoves
<1>17. ASSUME HostRestarts PROVE NewSetsMoves
  BY <1>17 DEF HostRestarts, central, underWay, NewSetsMoves
<1>18. ASSUME UNCHANGED accessVars PROVE NewSetsMoves
  BY <1>18 DEF accessVars, central, underWay, NewSetsMoves
<1> QED
  BY <1>1, <1>2, <1>3, <1>4, <1>5, <1>6, <1>7, <1>8, <1>9, <1>10, <1>11, <1>12, <1>13, <1>14, <1>15, <1>16, <1>17, <1>18 DEF AccessNext, RouteStep

\* A route is new, or it went on past an agent that stored its message, or
\* it brings back a message that an agent was approved for.
Advances(f, g) ==
  /\ RouteStores(f)
  /\ g = [f EXCEPT !.stage = "looping", !.left = Left(f) \ Visited(f)]

Approved(g) ==
  /\ g.stage = "arrived" /\ g.for \in Agents /\ HasArrived(g.msg)
  /\ Known(g.for, g.msg)' /\ Welcome(g.for, g.msg)'

RoutesMove ==
  \A g \in routes' :
    \/ g \in routes
    \/ \E f \in routes : Advances(f, g)
    \/ g.for = NoAgent /\ HasArrived(g.msg)'
    \/ Approved(g)

\* The agent that a click wires takes the message that asked for it.
LEMMA WireApproves ==
  ASSUME AccessTypeOK, ReferencesArrived, chatRow # NoMessage, UNCHANGED msg,
         NEW a \in Agents, Wire(a)
  PROVE  RoutesMove
<1> SUFFICES ASSUME NEW m, m = chatRow PROVE RoutesMove
  OBVIOUS
<1> DEFINE g == [msg |-> m, stage |-> "arrived", left |-> {}, for |-> a]
<1>1. HasArrived(m) /\ routes' = routes \cup {g}
  BY DEF ReferencesArrived, Wire, Replay
<1>2. Known(a, m)'
  BY DEF Wire, Known, AccessTypeOK
<1>3. PICK w \in CardWirings : wiring'[a] = w
  BY DEF Wire, AccessTypeOK
<1>4. Welcome(a, m)'
  BY <1>3 DEF CardWirings, Unwired, Welcome
<1>5. Approved(g)
  BY <1>1, <1>2, <1>4 DEF Approved
<1> QED
  BY <1>1, <1>5 DEF RoutesMove

\* So does the agent about which an approver admits the sender.
LEMMA AllowApproves ==
  ASSUME AccessTypeOK, ReferencesArrived, AskedAreWelcome, Grows,
         NEW p \in People, AllowSender(p)
  PROVE  RoutesMove
<1> SUFFICES ASSUME NEW r, r = senderRow[p] PROVE RoutesMove
  OBVIOUS
<1> DEFINE g == [msg |-> r.msg, stage |-> "arrived", left |-> {}, for |-> r.agent]
<1>1. r # NoRow /\ r \in [agent : Agents, msg : Messages, card : BOOLEAN]
  BY DEF AllowSender, AccessTypeOK, NoRow
<1>2. HasArrived(r.msg) /\ Welcome(r.agent, r.msg) /\ msg[r.msg].from = p
  BY <1>1 DEF ReferencesArrived, AskedAreWelcome, AccessTypeOK
<1>3. routes' = routes \cup {g} /\ r.agent \in Agents
  BY <1>1 DEF AllowSender, Replay
<1>4. Known(r.agent, r.msg)'
  BY <1>2, <1>3 DEF AllowSender, Known, AccessTypeOK
<1>5. Welcome(r.agent, r.msg)'
  BY <1>2, <1>3, WelcomeStays
<1>6. Approved(g)
  BY <1>2, <1>3, <1>4, <1>5 DEF Approved
<1> QED
  BY <1>3, <1>6 DEF RoutesMove

LEMMA RoutesStep ==
  ASSUME AccessTypeOK, ReferencesArrived, AskedAreWelcome, [AccessNext]_accessVars
  PROVE  RoutesMove
<1>1. ASSUME NEW p \in People, NEW mention \in BOOLEAN, Arrive(p, mention) PROVE RoutesMove
  <2> DEFINE g == [msg |-> Len(msg) + 1, stage |-> "arrived", left |-> {}, for |-> NoAgent]
  <2>1. Len(msg') = Len(msg) + 1 /\ Len(msg) \in Nat
    BY <1>1 DEF Arrive, AccessTypeOK
  <2>2. ASSUME NEW h \in routes', h \notin routes PROVE h.for = NoAgent /\ h.msg = Len(msg')
    BY <1>1, <2>1, <2>2 DEF Arrive
  <2>3. HasArrived(Len(msg))'
    BY <2>1 DEF HasArrived
  <2>4. ASSUME NEW h \in routes', h \notin routes PROVE h.for = NoAgent /\ HasArrived(h.msg)'
    BY <2>2, <2>3, <2>4 DEF HasArrived
  <2> QED
    BY <2>4 DEF RoutesMove
<1>2. ASSUME NEW p \in People, AllowSender(p) PROVE RoutesMove
  BY <1>2, AllowApproves, OnlyGrows
<1>3. ASSUME NEW p \in People, DenySender(p) PROVE RoutesMove
  BY <1>3 DEF DenySender, central, underWay, RoutesMove
<1>4. ASSUME NEW f \in routes, RouteUnwired(f) PROVE RoutesMove
  BY <1>4 DEF RouteUnwired, central, underWay, RoutesMove
<1>5. ASSUME NEW f \in routes, RouteStores(f) PROVE RoutesMove
  BY <1>5 DEF RouteStores, RoutesMove, Advances, Refusals
<1>6. ASSUME NEW f \in routes, RouteCollides(f) PROVE RoutesMove
  BY <1>6 DEF RouteCollides, Refusals, central, underWay, RoutesMove
<1>7. ASSUME NEW f \in routes, RouteEnds(f) PROVE RoutesMove
  BY <1>7 DEF RouteEnds, Refusals, central, underWay, RoutesMove
<1>8. ASSUME NEW m \in Messages, NEW a \in Agents, AskSender(m, a) PROVE RoutesMove
  BY <1>8 DEF AskSender, central, underWay, RoutesMove
<1>9. ASSUME NEW m \in Messages, AskChat(m) PROVE RoutesMove
  BY <1>9 DEF AskChat, central, underWay, RoutesMove
<1>10. ASSUME NEW a \in Agents, Connect(a) PROVE RoutesMove
  <2>1. CASE Wire(a)
    BY <1>10, <2>1, WireApproves DEF Connect
  <2>2. CASE DropChat
    BY <2>2 DEF DropChat, RoutesMove
  <2> QED
    BY <1>10, <2>1, <2>2 DEF Connect
<1>11. ASSUME NEW a \in Agents, OperatorWires(a) PROVE RoutesMove
  BY <1>11 DEF OperatorWires, central, underWay, RoutesMove
<1>12. ASSUME RejectChat PROVE RoutesMove
  BY <1>12 DEF RejectChat, central, underWay, RoutesMove
<1>13. ASSUME ClickNewAgent PROVE RoutesMove
  BY <1>13 DEF ClickNewAgent, central, underWay, RoutesMove
<1>14. ASSUME Prompt PROVE RoutesMove
  BY <1>14 DEF Prompt, central, underWay, RoutesMove
<1>15. ASSUME PromptSent PROVE RoutesMove
  BY <1>15 DEF PromptSent, central, underWay, RoutesMove
<1>16. ASSUME Name PROVE RoutesMove
  <2>1. CASE UNCHANGED routes
    BY <2>1 DEF RoutesMove
  <2>2. ASSUME chatRow # NoMessage, NEW a \in Agents, Wire(a) PROVE RoutesMove
    BY <1>16, <2>2, WireApproves DEF Name
  <2> QED
    BY <1>16, <2>1, <2>2 DEF Name, DropChat
<1>17. ASSUME HostRestarts PROVE RoutesMove
  BY <1>17 DEF HostRestarts, central, underWay, RoutesMove
<1>18. ASSUME UNCHANGED accessVars PROVE RoutesMove
  BY <1>18 DEF accessVars, central, underWay, RoutesMove
<1> QED
  BY <1>1, <1>2, <1>3, <1>4, <1>5, <1>6, <1>7, <1>8, <1>9, <1>10, <1>11, <1>12, <1>13, <1>14, <1>15, <1>16, <1>17, <1>18 DEF AccessNext, RouteStep

-----------------------------------------------------------------------------
(***************************************************************************)
(* The invariant.                                                          *)
(***************************************************************************)
LEMMA ArrivedStep ==
  ASSUME AccessInv, Grows, NewSetsMoves, RoutesMove
  PROVE  ReferencesArrived'
<1> USE DEF AccessInv
<1>1. \A m : HasArrived(m) => HasArrived(m)'
  BY ArrivedStays
<1>2. \A f \in routes' : HasArrived(f.msg)'
  <2>1. ASSUME NEW f \in routes, NEW g, Advances(f, g) PROVE g.msg = f.msg
    BY <2>1, StopsAreAgents DEF Advances, Route
  <2> QED
    BY <1>1, <2>1 DEF ReferencesArrived, RoutesMove, Approved
<1>3. (\A x \in askSender' : HasArrived(x[1])') /\ (\A x \in refused' : HasArrived(x[1])')
  BY <1>1 DEF ReferencesArrived, NewSetsMoves
<1>4. \A m \in askChat' : HasArrived(m)'
  BY <1>1 DEF ReferencesArrived, NewSetsMoves
<1>5. ASSUME NEW m, m = chatRow', m # NoMessage PROVE HasArrived(m)'
  BY <1>1, <1>5 DEF ReferencesArrived, NewSetsMoves
<1>6. ASSUME NEW p \in People, NEW r, r = senderRow'[p], r # NoRow PROVE HasArrived(r.msg)'
  BY <1>1, <1>6 DEF ReferencesArrived, NewSetsMoves
<1>7. (chatRow # NoMessage => HasArrived(chatRow))'
  BY <1>5 DEF HasArrived
<1>8. (\A p \in People : senderRow[p] # NoRow => HasArrived(senderRow[p].msg))'
  BY <1>6 DEF HasArrived
<1> QED
  BY <1>2, <1>3, <1>4, <1>7, <1>8 DEF ReferencesArrived

\* A refusal of this step or of an earlier one stands.
LEMMA RefusalsStep ==
  ASSUME AccessInv, Grows, NewSetsMoves
  PROVE  RefusalsStand'
<1> USE DEF AccessInv
<1>1. SUFFICES ASSUME NEW x \in refused'
               PROVE  Known(x[2], x[1])' \/ Refuses(x[2], x[1])'
  BY DEF RefusalsStand
<1>2. HasArrived(x[1]) /\ x[2] \in Agents /\ (Known(x[2], x[1]) \/ Refuses(x[2], x[1]))
  BY DEF RefusalsStand, NewSetsMoves, ReferencesArrived, AccessTypeOK
<1> QED
  BY <1>2, KnownStays, RefusalStays

LEMMA AskedStep ==
  ASSUME AccessInv, Grows, NewSetsMoves
  PROVE  AskedAreWelcome'
<1> USE DEF AccessInv
<1>1. \A m, a : HasArrived(m) /\ a \in Agents /\ Welcome(a, m) => Welcome(a, m)'
  BY WelcomeStays
<1>2. \A m, a : a \in Agents /\ Engages(a, m) => Welcome(a, m)
  BY EngagedIsWired DEF Welcome
<1>3. ASSUME NEW x \in askSender' PROVE Welcome(x[2], x[1])'
  BY <1>1, <1>2 DEF AskedAreWelcome, NewSetsMoves, ReferencesArrived, AccessTypeOK
<1>4. ASSUME NEW p \in People, NEW r, r = senderRow'[p], r # NoRow
      PROVE  Welcome(r.agent, r.msg)'
  <2>1. CASE <<r.msg, r.agent>> \in askSender
    BY <1>1, <2>1 DEF AskedAreWelcome, ReferencesArrived, AccessTypeOK
  <2>2. CASE r = senderRow[p]
    <3>1. r.agent \in Agents
      BY <1>4, <2>2 DEF AccessTypeOK
    <3> QED
      BY <1>1, <1>4, <2>2, <3>1 DEF AskedAreWelcome, ReferencesArrived
  <2> QED
    BY <1>4, <2>1, <2>2 DEF NewSetsMoves
<1>5. (\A p \in People : senderRow[p] # NoRow => Welcome(senderRow[p].agent, senderRow[p].msg))'
  BY <1>4 DEF Welcome, Engages
<1> QED
  BY <1>3, <1>5 DEF AskedAreWelcome

LEMMA HeardStays ==
  ASSUME Grows, NEW f, f.for \in Agents, Heard(f)
  PROVE  Heard(f)'
BY DEF Grows, Heard

\* A route that goes on has reached the agent it is for, or an earlier one,
\* or has it still before it.
LEMMA AdvancedIsOnItsWay ==
  ASSUME AccessInv, NEW f \in routes, NEW g, Advances(f, g), g.for # NoAgent
  PROVE  /\ g.for \in Agents /\ HasArrived(g.msg)
         /\ Known(g.for, g.msg) /\ Welcome(g.for, g.msg)
         /\ Heard(g) \/ Heard(g)' \/ g.for \in Left(g)'
<1> USE DEF AccessInv
<1>1. /\ Stops(f) \subseteq Agents /\ Left(f) \subseteq Agents /\ f \in Route
      /\ g.stage = "looping" /\ g.left = Left(f) \ Visited(f)
      /\ g.msg = f.msg /\ g.for = f.for
  BY StopsAreAgents DEF Advances, Route
<1>2. g.for \in Agents /\ HasArrived(g.msg)
  BY <1>1 DEF Route, ReferencesArrived
<1>3. Known(f.for, f.msg) /\ Welcome(f.for, f.msg) /\ (Heard(f) \/ f.for \in Left(f))
  BY <1>1 DEF ApprovedIsOnItsWay
<1>4. CASE Heard(f)
  BY <1>1, <1>2, <1>3, <1>4 DEF Heard
<1>5. CASE f.for \in Left(f)
  <2>1. f.for \in Stops(f)
    BY <1>1, <1>2, <1>3, <1>5, KnownAndWelcomeIsReceived DEF Stops
  <2>2. Next1(f) \in Agents /\ Position(Next1(f)) <= Position(f.for)
    BY <1>1, <2>1, NextIsFirst
  <2>3. f.msg \in inbox'[Next1(f)]
    BY <2>2 DEF Advances, RouteStores, AccessTypeOK
  <2>4. CASE Position(Next1(f)) = Position(f.for)
    <3>1. Next1(f) = f.for
      BY <1>1, <1>2, <2>2, <2>4, PositionIs
    <3> QED
      BY <1>1, <1>2, <1>3, <2>3, <3>1 DEF Heard
  <2>5. CASE Position(Next1(f)) < Position(f.for)
    BY <1>1, <1>2, <1>3, <2>2, <2>3, <2>5 DEF Heard
  <2> QED
    BY <1>1, <1>2, <2>2, <2>4, <2>5, PositionIs
<1> QED
  BY <1>3, <1>4, <1>5

LEMMA OnItsWayStep ==
  ASSUME AccessInv, Grows, RoutesMove
  PROVE  ApprovedIsOnItsWay'
<1> USE DEF AccessInv
<1>1. SUFFICES ASSUME NEW g \in routes', g.for # NoAgent
               PROVE  /\ Known(g.for, g.msg)' /\ Welcome(g.for, g.msg)'
                      /\ Heard(g)' \/ g.for \in Left(g)'
  BY DEF ApprovedIsOnItsWay
<1>2. CASE g \in routes
  <2>1. g.for \in Agents /\ HasArrived(g.msg)
    BY <1>1, <1>2, StopsAreAgents DEF Route, ReferencesArrived
  <2>2. Known(g.for, g.msg) /\ Welcome(g.for, g.msg) /\ (Heard(g) \/ g.for \in Left(g))
    BY <1>1, <1>2 DEF ApprovedIsOnItsWay
  <2>3. g.for \in Left(g) => g.for \in Left(g)'
    BY <2>1 DEF Left, Wired, Grows
  <2> QED
    BY <2>1, <2>2, <2>3, HeardStays, KnownStays, WelcomeStays
<1>3. ASSUME NEW f \in routes, Advances(f, g)
      PROVE  /\ Known(g.for, g.msg)' /\ Welcome(g.for, g.msg)'
             /\ Heard(g)' \/ g.for \in Left(g)'
  BY <1>1, <1>3, AdvancedIsOnItsWay, HeardStays, KnownStays, WelcomeStays
<1>4. CASE Approved(g)
  <2>1. g.for \in Left(g)'
    BY <1>4 DEF Approved, Welcome, Left, Wired
  <2> QED
    BY <1>4, <2>1 DEF Approved
<1> QED
  BY <1>1, <1>2, <1>3, <1>4 DEF RoutesMove

LEMMA AccessStep ==
  ASSUME AccessInv, [AccessNext]_accessVars
  PROVE  AccessInv'
BY AccessTypeStep, OnlyGrows, SetsMove, RoutesStep, ArrivedStep, RefusalsStep, AskedStep,
   OnItsWayStep DEF AccessInv

\* The invariant of a chat with any agents, wirings, senders and messages.
THEOREM AccessAlways == AccessSpec => []AccessInv
<1>1. AccessInit => AccessInv
  BY AccessInitInv
<1>2. AccessInv /\ [AccessNext]_accessVars => AccessInv'
  BY AccessStep
<1> QED
  BY <1>1, <1>2, PTL DEF AccessSpec

\* How a route ends.
EndsBy(r) == RouteStores(r) \/ RouteCollides(r) \/ RouteEnds(r) \/ RouteUnwired(r) \/ HostRestarts

LEMMA RoutesEnd ==
  ASSUME NEW r \in routes, r \notin routes', [AccessNext]_accessVars
  PROVE  EndsBy(r)
<1>1. ASSUME NEW p \in People, NEW mention \in BOOLEAN, Arrive(p, mention) PROVE EndsBy(r)
  BY <1>1 DEF Arrive, central, underWay, EndsBy
<1>2. ASSUME NEW p \in People, AllowSender(p) PROVE EndsBy(r)
  BY <1>2 DEF AllowSender, Replay, central, underWay, EndsBy
<1>3. ASSUME NEW p \in People, DenySender(p) PROVE EndsBy(r)
  BY <1>3 DEF DenySender, central, underWay, EndsBy
<1>4. ASSUME NEW f \in routes, RouteUnwired(f) PROVE EndsBy(r)
  BY <1>4 DEF RouteUnwired, central, underWay, EndsBy
<1>5. ASSUME NEW f \in routes, RouteStores(f) PROVE EndsBy(r)
  BY <1>5 DEF RouteStores, Refusals, central, underWay, EndsBy
<1>6. ASSUME NEW f \in routes, RouteCollides(f) PROVE EndsBy(r)
  BY <1>6 DEF RouteCollides, Refusals, central, underWay, EndsBy
<1>7. ASSUME NEW f \in routes, RouteEnds(f) PROVE EndsBy(r)
  BY <1>7 DEF RouteEnds, Refusals, central, underWay, EndsBy
<1>8. ASSUME NEW m \in Messages, NEW a \in Agents, AskSender(m, a) PROVE EndsBy(r)
  BY <1>8 DEF AskSender, central, underWay, EndsBy
<1>9. ASSUME NEW m \in Messages, AskChat(m) PROVE EndsBy(r)
  BY <1>9 DEF AskChat, central, underWay, EndsBy
<1>10. ASSUME NEW a \in Agents, Connect(a) PROVE EndsBy(r)
  BY <1>10 DEF Connect, Wire, DropChat, Replay, central, underWay, EndsBy
<1>11. ASSUME NEW a \in Agents, OperatorWires(a) PROVE EndsBy(r)
  BY <1>11 DEF OperatorWires, central, underWay, EndsBy
<1>12. ASSUME RejectChat PROVE EndsBy(r)
  BY <1>12 DEF RejectChat, central, underWay, EndsBy
<1>13. ASSUME ClickNewAgent PROVE EndsBy(r)
  BY <1>13 DEF ClickNewAgent, central, underWay, EndsBy
<1>14. ASSUME Prompt PROVE EndsBy(r)
  BY <1>14 DEF Prompt, central, underWay, EndsBy
<1>15. ASSUME PromptSent PROVE EndsBy(r)
  BY <1>15 DEF PromptSent, central, underWay, EndsBy
<1>16. ASSUME Name PROVE EndsBy(r)
  BY <1>16 DEF Name, Wire, DropChat, Replay, central, underWay, EndsBy
<1>17. ASSUME HostRestarts PROVE EndsBy(r)
  BY <1>17 DEF HostRestarts, central, underWay, EndsBy
<1>18. ASSUME UNCHANGED accessVars PROVE EndsBy(r)
  BY <1>18 DEF accessVars, central, underWay, EndsBy
<1> QED
  BY <1>1, <1>2, <1>3, <1>4, <1>5, <1>6, <1>7, <1>8, <1>9, <1>10, <1>11, <1>12, <1>13, <1>14, <1>15, <1>16, <1>17, <1>18 DEF AccessNext, RouteStep
\* Every part of the chat's state keeps its type.
\* (routeInbound, permissions, channel approvals)
THEOREM AccessTypes == AccessSpec => []AccessTypeOK
<1>1. AccessInv => AccessTypeOK
  BY DEF AccessInv
<1> QED
  BY <1>1, AccessAlways, PTL

-----------------------------------------------------------------------------
(***************************************************************************)
(* What no step does.                                                      *)
(***************************************************************************)
\* Only a route puts messages into a session, and only into that of the
\* first agent that receives what it carries.
LEMMA OnlyRoutesStore ==
  ASSUME AccessTypeOK, [AccessNext]_accessVars,
         NEW m \in Messages, NEW a \in Agents, m \in inbox'[a] \ inbox[a]
  PROVE  \E f \in routes : RouteStores(f) /\ f.msg = m /\ Receives(a, m)
<1>1. ASSUME NEW f \in routes, RouteStores(f) PROVE f.msg = m /\ Receives(a, m)
  <2>1. Next1(f) \in Stops(f)
    BY <1>1, StopsAreAgents, NextIsFirst DEF RouteStores
  <2>2. Next1(f) = a /\ f.msg = m
    BY <1>1 DEF RouteStores, AccessTypeOK
  <2> QED
    BY <2>1, <2>2 DEF Stops
<1>2. CASE \E f \in routes : RouteStores(f)
  BY <1>1, <1>2
<1>3. CASE inbox' = inbox
  BY <1>3
<1> QED
  BY <1>2, <1>3 DEF AccessNext, RouteStep, Arrive, AllowSender, DenySender, RouteUnwired,
     RouteCollides, RouteEnds, AskSender, AskChat, Connect, OperatorWires, RejectChat,
     ClickNewAgent, Prompt, PromptSent, Name, HostRestarts, accessVars

\* What a gate has refused gets into the agent's session only when its
\* sender was admitted to that agent since, whatever is wired meanwhile and
\* however often the message is routed again.
\* (routeInbound, "those refusals are security decisions")
THEOREM RefusedStaysOut == AccessSpec => RefusedNeverStored
<1>1. ASSUME AccessInv, [AccessNext]_accessVars,
             NEW m \in Messages, NEW a \in Agents,
             <<m, a>> \in refused', m \in inbox'[a] \ inbox[a]
      PROVE  Known(a, m)
  <2>1. Receives(a, m)
    BY <1>1, OnlyRoutesStore DEF AccessInv
  <2>2. ~Refuses(a, m)
    BY <2>1 DEF Receives
  <2>3. <<m, a>> \in refused
    BY <1>1, <2>2, SetsMove DEF AccessInv, NewSetsMoves
  <2> QED
    BY <1>1, <2>2, <2>3 DEF AccessInv, RefusalsStand
<1>2. AccessInv /\ [AccessNext]_accessVars =>
        \A m \in Messages, a \in Agents :
          <<m, a>> \in refused' /\ m \in inbox'[a] \ inbox[a] => Known(a, m)
  BY <1>1
<1> QED
  BY <1>2, AccessAlways, PTL DEF AccessSpec, RefusedNeverStored

\* A chat that was denied while no request was under way stays unwired and
\* unasked for, whatever clicks, names and mentions still come; an operator
\* may wire it.
\* (handleChannelApprovalResponse, the name interceptor, routeInbound)
THEOREM DeniedChatStaysQuiet == AccessSpec => DeniedStaysQuiet
<1> DEFINE Quiet == /\ chatRow' = NoMessage /\ askChat' = {}
                    /\ wiring' # wiring => \E a \in Agents : OperatorWires(a)
<1>1. ASSUME [AccessNext]_accessVars, denied, chatRow = NoMessage, askChat = {}
      PROVE  Quiet
  BY <1>1 DEF AccessNext, RouteStep, Arrive, AllowSender, DenySender, RouteUnwired, RouteStores,
     RouteCollides, RouteEnds, AskSender, AskChat, Connect, OperatorWires, RejectChat,
     ClickNewAgent, Prompt, PromptSent, Name, DropChat, Wire, HostRestarts, accessVars,
     central, underWay
<1> QED
  BY <1>1, PTL DEF AccessSpec, DeniedStaysQuiet

\* A message that an approver let in is heard: its route ends only at a
\* restart, or when the agent it was approved for, or an agent before that
\* one in the order of the wirings, has stored it.
\* (handleSenderApprovalResponse, wireApprovedChannel)
THEOREM ApprovedMessagesAreHeard == AccessSpec => ApprovedIsHeard
<1> DEFINE Ends(f) ==
      (\E g \in routes' : g.msg = f.msg /\ g.for = f.for) \/ f.for = NoAgent
      \/ restarts' # restarts
      \/ f.msg \in inbox[f.for]
      \/ \E b \in Agents : f.msg \in inbox[b] /\ Position(b) < Position(f.for)
<1>1. ASSUME AccessInv, [AccessNext]_accessVars, NEW f \in routes, f \notin routes'
      PROVE  Ends(f)
  <2> SUFFICES ASSUME f.for # NoAgent, ~Heard(f) PROVE Ends(f)
    BY DEF Heard
  <2>1. /\ Stops(f) \subseteq Agents /\ f \in Route /\ f.for \in Agents
        /\ Known(f.for, f.msg) /\ Welcome(f.for, f.msg) /\ f.for \in Left(f)
    BY <1>1, StopsAreAgents DEF AccessInv, ApprovedIsOnItsWay, Route
  <2>2. f.for \in Stops(f) /\ Wired # {}
    BY <2>1, KnownAndWelcomeIsReceived DEF Stops, Wired, Welcome
  <2>3. Next1(f) \in Agents /\ Position(Next1(f)) <= Position(f.for)
    BY <2>1, <2>2, NextIsFirst
  <2>4. ASSUME RouteStores(f) PROVE Ends(f)
    <3>1. [f EXCEPT !.stage = "looping", !.left = Left(f) \ Visited(f)] \in routes'
      BY <2>4 DEF RouteStores
    <3> QED
      BY <2>1, <3>1 DEF Route
  <2>5. ASSUME RouteCollides(f) PROVE FALSE
    <3>1. f.msg \in inbox[Next1(f)]
      BY <2>5 DEF RouteCollides
    <3>2. Position(Next1(f)) # Position(f.for)
      BY <2>1, <2>3, <3>1, PositionIs DEF Heard
    <3> QED
      BY <2>1, <2>3, <3>1, <3>2, PositionIs DEF Heard
  <2>6. ASSUME HostRestarts PROVE restarts' # restarts
    BY <1>1, <2>6 DEF HostRestarts, AccessInv, AccessTypeOK
  <2>7. ~RouteEnds(f) /\ ~RouteUnwired(f)
    BY <2>2 DEF RouteEnds, RouteUnwired
  <2>8. EndsBy(f)
    BY <1>1, RoutesEnd
  <2> QED
    BY <2>4, <2>5, <2>6, <2>7, <2>8 DEF EndsBy
<1>2. AccessInv /\ [AccessNext]_accessVars => \A f \in routes \ routes' : Ends(f)
  BY <1>1
<1> QED
  BY <1>2, AccessAlways, PTL DEF AccessSpec, ApprovedIsHeard
=============================================================================
