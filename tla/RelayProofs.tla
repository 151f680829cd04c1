---------------------------- MODULE RelayProofs -----------------------------
(***************************************************************************)
(* Proofs about Relay for every number of computers, requests and replies  *)
(* and every value of the limits.                                          *)
(***************************************************************************)
EXTENDS Relay, IdQueueLemmas, FiniteSetTheorems, TLAPS

(***************************************************************************)
(* The inductive invariant.  It says who may still touch the channel of a  *)
(* request: its waiter entry, one sending reply handler, or nobody.        *)
(***************************************************************************)
Admitted == {"waiting", "leaving", "expiring"}

\* A queue holds, once each, requests for its computer that are still waited
\* for and were not handed over.
QueueInv ==
    \A h \in Hosts :
        /\ Distinct(queues[h])
        /\ Len(queues[h]) <= QueueLimit
        /\ \A r \in Elems(queues[h]) : HostOf[r] = h /\ r \in waiters \ handed

\* A request in the waiter table has an admitted handler and an unused
\* channel; one not yet admitted has never been handed over.
WaiterInv ==
    /\ \A r \in waiters : client[r] \in Admitted /\ chan[r] = {}
    /\ \A r \in Requests : client[r] \in {"idle", "reading"} =>
           chan[r] = {} /\ r \notin handed

\* A reply handler that took a waiter owns the channel until it has sent.
SlotInv ==
    /\ \A p \in Replies : poster[p] = "sending" =>
           /\ chan[ReplyTo[p]] = {}
           /\ ReplyTo[p] \notin waiters
           /\ client[ReplyTo[p]] \notin {"idle", "reading"}
    /\ \A p \in Replies : poster[p] \in {"sending", "accepted"} => ReplyTo[p] \in handed
    /\ \A p, q \in Replies : poster[p] = "sending" /\ poster[q] = "sending"
                               /\ ReplyTo[p] = ReplyTo[q] => p = q

\* A channel, like the answer made from it, holds one value: a shutdown
\* notice or a reply to this request whose sender was told 200.
AnswerInv ==
    \A r \in Requests :
        /\ \A v \in chan[r] \cup answer[r] :
               \/ v = Shutdown
               \/ v \in Replies /\ ReplyTo[v] = r /\ poster[v] = "accepted"
        /\ \A v, w \in chan[r] : v = w
        /\ \A p, q \in answer[r] : p = q
        /\ outcome[r] = "answered" <=> answer[r] # {}
        /\ client[r] # "done" => answer[r] = {} /\ outcome[r] = "none"

TableInv == Cardinality(waiters) <= WaiterLimit

IInv == TypeOK /\ QueueInv /\ WaiterInv /\ SlotInv /\ AnswerInv /\ TableInv
-----------------------------------------------------------------------------
USE DEF ClientPoints, Outcomes, PosterPoints, Admitted, DeleteWaiter, EndsAs

\* Every variable keeps its type: in particular queues stay sequences of
\* requests through the filter loop of cancel, for which the uniqueness of
\* the queued ids (QueueInv) is needed.
LEMMA TypeStep == TypeOK /\ QueueInv /\ [Next]_vars => TypeOK'
<1> SUFFICES ASSUME TypeOK, QueueInv, [Next]_vars PROVE TypeOK'
  OBVIOUS
<1> USE RoutesAssumption
<1>1. ASSUME NEW r \in Requests, Authorize(r) PROVE TypeOK'
  BY <1>1 DEF TypeOK, Authorize, Finish
<1>2. ASSUME NEW r \in Requests, RefuseBody(r) PROVE TypeOK'
  BY <1>2 DEF TypeOK, RefuseBody, Finish
<1>3. ASSUME NEW r \in Requests, Busy(r) PROVE TypeOK'
  BY <1>3 DEF TypeOK, Busy, Finish
<1>4. ASSUME NEW r \in Requests, Enqueue(r) PROVE TypeOK'
  BY <1>4 DEF TypeOK, Enqueue
<1>5. ASSUME NEW r \in Requests, Receive(r) PROVE TypeOK'
  BY <1>5 DEF TypeOK, Receive, Finish
<1>6. ASSUME NEW r \in Requests, ClientLeaves(r) PROVE TypeOK'
  BY <1>6 DEF TypeOK, ClientLeaves
<1>7. ASSUME NEW r \in Requests, TimerFires(r) PROVE TypeOK'
  BY <1>7 DEF TypeOK, TimerFires
<1>8. ASSUME NEW r \in Requests, Cancel(r) PROVE TypeOK'
  <2>1. Without(queues[HostOf[r]], r) \in Seq(Requests)
    BY WithoutRemoves DEF TypeOK, QueueInv
  <2> QED BY <1>8, <2>1 DEF TypeOK, Cancel, Finish
<1>9. ASSUME NEW p \in Replies, TakeWaiter(p) PROVE TypeOK'
  BY <1>9 DEF TypeOK, TakeWaiter
<1>10. ASSUME NEW p \in Replies, ReplyNotFound(p) PROVE TypeOK'
  BY <1>10 DEF TypeOK, ReplyNotFound
<1>11. ASSUME NEW p \in Replies, SendReply(p) PROVE TypeOK'
  BY <1>11 DEF TypeOK, SendReply, TrySend
<1>12. ASSUME NEW h \in Hosts, Register(h) PROVE TypeOK'
  BY <1>12 DEF TypeOK, Register
<1>13. ASSUME NEW h \in Hosts, Poll(h) PROVE TypeOK'
  <2>1. Head(queues[h]) \in Requests /\ Tail(queues[h]) \in Seq(Requests)
    BY <1>13, TailDrops DEF TypeOK, QueueInv, Poll
  <2> QED BY <1>13, <2>1 DEF TypeOK, Poll
<1>14. CASE Close
  BY <1>14 DEF TypeOK, Close, TrySend
<1>15. CASE Perish
  BY <1>15 DEF TypeOK, Perish
<1>16. CASE Restart
  BY <1>16 DEF TypeOK, Restart
<1>17. CASE UNCHANGED vars
  BY <1>17 DEF TypeOK, vars
<1> QED
  BY <1>1, <1>2, <1>3, <1>4, <1>5, <1>6, <1>7, <1>8, <1>9, <1>10, <1>11, <1>12,
     <1>13, <1>14, <1>15, <1>16, <1>17
     DEF Next, ClientStep, ReplyStep, HostStep, ProcessStep, Exit, Crash

\* Queues: only Enqueue adds, for a request nobody has seen; whatever takes a
\* waiter away takes the queue entry too, or works on a request handed over.
LEMMA QueueStep == IInv /\ [Next]_vars => QueueInv'
<1> SUFFICES ASSUME IInv, [Next]_vars PROVE QueueInv'
  OBVIOUS
<1> USE RoutesAssumption, LimitsAssumption
<1>1. ASSUME NEW r \in Requests, Enqueue(r) PROVE QueueInv'
  <2> DEFINE q == queues[HostOf[r]]
  <2>1. r \notin waiters /\ r \notin handed
    BY <1>1 DEF IInv, WaiterInv, Enqueue
  <2>2. q \in Seq(Requests) /\ Distinct(q) /\ r \notin Elems(q) /\ Len(q) < QueueLimit
    BY <1>1, <2>1 DEF IInv, TypeOK, QueueInv, Enqueue, RelayIsFull
  <2>3. /\ Len(Append(q, r)) <= QueueLimit
        /\ Distinct(Append(q, r))
        /\ Elems(Append(q, r)) = Elems(q) \cup {r}
    BY <2>2, AppendAdds
  <2>4. queues' = [queues EXCEPT ![HostOf[r]] = Append(q, r)] /\ waiters' = waiters \cup {r}
        /\ handed' = handed
    BY <1>1 DEF Enqueue
  <2> QED BY <2>1, <2>3, <2>4 DEF IInv, TypeOK, QueueInv
<1>2. ASSUME NEW r \in Requests, Cancel(r) PROVE QueueInv'
  <2> DEFINE q == queues[HostOf[r]]
  <2>1. /\ Len(Without(q, r)) \in Nat /\ Len(q) \in Nat
        /\ Len(Without(q, r)) <= Len(q)
        /\ Distinct(Without(q, r))
        /\ Elems(Without(q, r)) = Elems(q) \ {r}
    BY WithoutRemoves DEF IInv, TypeOK, QueueInv
  <2>2. queues' = [queues EXCEPT ![HostOf[r]] = Without(q, r)] /\ waiters' = waiters \ {r}
        /\ handed' = handed
    BY <1>2 DEF Cancel
  <2>3. Len(Without(q, r)) <= QueueLimit
    BY <2>1 DEF IInv, QueueInv
  <2>4. ASSUME NEW h \in Hosts PROVE r \notin Elems(queues'[h])
    BY <2>1, <2>2 DEF IInv, TypeOK, QueueInv
  <2>5. ASSUME NEW h \in Hosts PROVE Elems(queues'[h]) \subseteq Elems(queues[h])
    BY <2>1, <2>2 DEF IInv, TypeOK
  <2> QED BY <2>1, <2>2, <2>3, <2>4, <2>5 DEF IInv, TypeOK, QueueInv
<1>3. ASSUME NEW h \in Hosts, Poll(h) PROVE QueueInv'
  <2> DEFINE q == queues[h]
  <2>1. /\ Head(q) \in Elems(q)
        /\ Len(Tail(q)) <= QueueLimit
        /\ Distinct(Tail(q))
        /\ Elems(Tail(q)) = Elems(q) \ {Head(q)}
    BY <1>3, TailDrops DEF IInv, TypeOK, QueueInv, Poll
  <2>2. queues' = [queues EXCEPT ![h] = Tail(q)] /\ waiters' = waiters
        /\ handed' = handed \cup {Head(q)}
    BY <1>3 DEF Poll
  <2>3. HostOf[Head(q)] = h
    BY <2>1 DEF IInv, QueueInv
  <2> QED BY <2>1, <2>2, <2>3 DEF IInv, TypeOK, QueueInv
<1>4. ASSUME NEW p \in Replies, TakeWaiter(p) PROVE QueueInv'
  BY <1>4 DEF IInv, QueueInv, TakeWaiter, MayReply
<1>5. CASE Close
  BY <1>5 DEF QueueInv, Close, Elems, Distinct
<1>6. CASE Perish
  BY <1>6 DEF QueueInv, Perish, Elems, Distinct
<1>7. ASSUME UNCHANGED <<queues, waiters, handed>> PROVE QueueInv'
  BY <1>7 DEF IInv, QueueInv
<1> QED
  BY <1>1, <1>2, <1>3, <1>4, <1>5, <1>6, <1>7
     DEF Next, ClientStep, ReplyStep, HostStep, ProcessStep, Exit, Crash, vars,
         Authorize, RefuseBody, Busy, Receive, ClientLeaves, TimerFires,
         ReplyNotFound, SendReply, Register, Restart

\* Waiters: an entry disappears with the handler that made it, at the latest.
LEMMA WaiterStep == IInv /\ [Next]_vars => WaiterInv'
<1> SUFFICES ASSUME IInv, [Next]_vars PROVE WaiterInv'
  OBVIOUS
<1> USE RoutesAssumption
<1>1. ASSUME NEW r \in Requests, Authorize(r) PROVE WaiterInv'
  BY <1>1 DEF IInv, TypeOK, WaiterInv, Authorize, Finish
<1>2. ASSUME NEW r \in Requests, RefuseBody(r) \/ Busy(r) PROVE WaiterInv'
  BY <1>2 DEF IInv, TypeOK, WaiterInv, RefuseBody, Busy, Finish
<1>3. ASSUME NEW r \in Requests, Enqueue(r) PROVE WaiterInv'
  BY <1>3 DEF IInv, TypeOK, WaiterInv, Enqueue
<1>4. ASSUME NEW r \in Requests, Receive(r) PROVE WaiterInv'
  BY <1>4 DEF IInv, TypeOK, WaiterInv, Receive, Finish
<1>5. ASSUME NEW r \in Requests, ClientLeaves(r) \/ TimerFires(r) PROVE WaiterInv'
  BY <1>5 DEF IInv, TypeOK, WaiterInv, ClientLeaves, TimerFires
<1>6. ASSUME NEW r \in Requests, Cancel(r) PROVE WaiterInv'
  BY <1>6 DEF IInv, TypeOK, WaiterInv, Cancel, Finish
<1>7. ASSUME NEW p \in Replies, TakeWaiter(p) PROVE WaiterInv'
  BY <1>7 DEF IInv, TypeOK, WaiterInv, TakeWaiter
<1>8. ASSUME NEW p \in Replies, SendReply(p) PROVE WaiterInv'
  BY <1>8 DEF IInv, TypeOK, WaiterInv, SlotInv, SendReply
<1>9. ASSUME NEW h \in Hosts, Poll(h) PROVE WaiterInv'
  <2>1. Head(queues[h]) \in waiters
    BY <1>9, TailDrops DEF IInv, TypeOK, QueueInv, Poll
  <2> QED BY <1>9, <2>1 DEF IInv, TypeOK, WaiterInv, Poll
<1>10. CASE Close
  BY <1>10 DEF IInv, TypeOK, WaiterInv, Close
<1>11. CASE Perish
  BY <1>11 DEF IInv, TypeOK, WaiterInv, Perish, InFlight
<1>12. ASSUME UNCHANGED <<waiters, chan, client, handed>> PROVE WaiterInv'
  BY <1>12 DEF IInv, WaiterInv
<1> QED
  BY <1>1, <1>2, <1>3, <1>4, <1>5, <1>6, <1>7, <1>8, <1>9, <1>10, <1>11, <1>12
     DEF Next, ClientStep, ReplyStep, HostStep, ProcessStep, Exit, Crash, vars,
         ReplyNotFound, Register, Restart

\* Channels: taking the waiter under the lock makes a reply handler the only
\* one that may send, before and after close.
LEMMA SlotStep == IInv /\ [Next]_vars => SlotInv'
<1> SUFFICES ASSUME IInv, [Next]_vars PROVE SlotInv'
  OBVIOUS
<1> USE RoutesAssumption
<1>1. ASSUME NEW r \in Requests, Authorize(r) \/ RefuseBody(r) \/ Busy(r)
      PROVE  SlotInv'
  BY <1>1 DEF IInv, TypeOK, SlotInv, Authorize, RefuseBody, Busy, Finish
<1>2. ASSUME NEW r \in Requests, Enqueue(r) PROVE SlotInv'
  BY <1>2 DEF IInv, TypeOK, SlotInv, Enqueue
<1>3. ASSUME NEW r \in Requests, Receive(r) PROVE SlotInv'
  BY <1>3 DEF IInv, TypeOK, SlotInv, Receive, Finish
<1>4. ASSUME NEW r \in Requests, ClientLeaves(r) \/ TimerFires(r) \/ Cancel(r)
      PROVE  SlotInv'
  BY <1>4 DEF IInv, TypeOK, SlotInv, ClientLeaves, TimerFires, Cancel, Finish
<1>5. ASSUME NEW p \in Replies, TakeWaiter(p) PROVE SlotInv'
  BY <1>5 DEF IInv, TypeOK, SlotInv, WaiterInv, TakeWaiter, MayReply
<1>6. ASSUME NEW p \in Replies, ReplyNotFound(p) PROVE SlotInv'
  BY <1>6 DEF IInv, TypeOK, SlotInv, ReplyNotFound
<1>7. ASSUME NEW p \in Replies, SendReply(p) PROVE SlotInv'
  BY <1>7 DEF IInv, TypeOK, SlotInv, SendReply
<1>8. ASSUME NEW h \in Hosts, Poll(h) PROVE SlotInv'
  BY <1>8 DEF IInv, SlotInv, Poll
<1>9. CASE Close
  BY <1>9 DEF IInv, TypeOK, SlotInv, Close
<1>10. CASE Perish
  BY <1>10 DEF IInv, TypeOK, SlotInv, Perish
<1>11. ASSUME UNCHANGED <<waiters, chan, client, poster, handed>> PROVE SlotInv'
  BY <1>11 DEF IInv, SlotInv
<1> QED
  BY <1>1, <1>2, <1>3, <1>4, <1>5, <1>6, <1>7, <1>8, <1>9, <1>10, <1>11
     DEF Next, ClientStep, ReplyStep, HostStep, ProcessStep, Exit, Crash, vars,
         Register, Restart

\* Answers: what is in a channel, and what was taken from it, comes from
\* close() or from an accepted reply to the same request.
LEMMA AnswerStep == IInv /\ [Next]_vars => AnswerInv'
<1> SUFFICES ASSUME IInv, [Next]_vars PROVE AnswerInv'
  OBVIOUS
<1> USE RoutesAssumption
<1>1. ASSUME NEW r \in Requests, Authorize(r) \/ RefuseBody(r) \/ Busy(r)
      PROVE  AnswerInv'
  BY <1>1 DEF IInv, TypeOK, AnswerInv, Authorize, RefuseBody, Busy, Finish
<1>2. ASSUME NEW r \in Requests, Enqueue(r) PROVE AnswerInv'
  BY <1>2 DEF IInv, TypeOK, AnswerInv, Enqueue
<1>3. ASSUME NEW r \in Requests, Receive(r) PROVE AnswerInv'
  <2>1. CASE Shutdown \in chan[r]
    <3>1. chan[r] \ {Shutdown} = {}
      BY <2>1 DEF IInv, AnswerInv
    <3> QED BY <1>3, <2>1, <3>1 DEF IInv, TypeOK, AnswerInv, Receive, Finish
  <2>2. CASE Shutdown \notin chan[r]
    <3>1. chan[r] \ {Shutdown} = chan[r]
      BY <2>2
    <3> QED BY <1>3, <2>2, <3>1 DEF IInv, TypeOK, AnswerInv, Receive, Finish
  <2> QED BY <2>1, <2>2
<1>4. ASSUME NEW r \in Requests, ClientLeaves(r) \/ TimerFires(r) PROVE AnswerInv'
  BY <1>4 DEF IInv, TypeOK, AnswerInv, ClientLeaves, TimerFires
<1>5. ASSUME NEW r \in Requests, Cancel(r) PROVE AnswerInv'
  BY <1>5 DEF IInv, TypeOK, AnswerInv, Cancel, Finish
<1>6. ASSUME NEW p \in Replies, TakeWaiter(p) \/ ReplyNotFound(p) PROVE AnswerInv'
  BY <1>6 DEF IInv, TypeOK, AnswerInv, TakeWaiter, ReplyNotFound, MayReply
<1>7. ASSUME NEW p \in Replies, SendReply(p) PROVE AnswerInv'
  <2>1. chan[ReplyTo[p]] = {}
    BY <1>7 DEF IInv, SlotInv, SendReply
  <2>2. /\ chan' = [chan EXCEPT ![ReplyTo[p]] = {p}]
        /\ poster' = [poster EXCEPT ![p] = "accepted"]
        /\ UNCHANGED <<client, outcome, answer>>
    BY <1>7, <2>1 DEF SendReply, TrySend
  <2> QED BY <2>2 DEF IInv, TypeOK, AnswerInv
<1>8. CASE Close
  BY <1>8 DEF IInv, TypeOK, AnswerInv, WaiterInv, Close, TrySend
<1>9. CASE Perish
  BY <1>9 DEF IInv, TypeOK, AnswerInv, Perish, InFlight
<1>10. ASSUME UNCHANGED <<chan, client, outcome, answer, poster>> PROVE AnswerInv'
  BY <1>10 DEF IInv, AnswerInv
<1> QED
  BY <1>1, <1>2, <1>3, <1>4, <1>5, <1>6, <1>7, <1>8, <1>9, <1>10
     DEF Next, ClientStep, ReplyStep, HostStep, ProcessStep, Exit, Crash, vars,
         Poll, Register, Restart

\* The waiter table grows by one, and only below its limit.
LEMMA TableStep == IInv /\ [Next]_vars => TableInv'
<1> SUFFICES ASSUME IInv, [Next]_vars PROVE TableInv'
  OBVIOUS
<1> USE LimitsAssumption
<1>1. IsFiniteSet(waiters) /\ Cardinality(waiters) \in Nat
  BY FS_Subset, FS_CardinalityType, FiniteAssumption DEF IInv, TypeOK
<1>2. ASSUME NEW r \in Requests, Enqueue(r) PROVE TableInv'
  <2>1. Cardinality(waiters) < WaiterLimit
    BY <1>1, <1>2 DEF Enqueue, RelayIsFull
  <2>2. r \notin waiters
    BY <1>2 DEF IInv, WaiterInv, Enqueue
  <2>3. Cardinality(waiters \cup {r}) = Cardinality(waiters) + 1
    BY <1>1, <2>2, FS_AddElement
  <2> QED BY <1>1, <1>2, <2>1, <2>3 DEF TableInv, Enqueue
<1>3. ASSUME waiters' \subseteq waiters PROVE TableInv'
  <2>1. Cardinality(waiters') \in Nat /\ Cardinality(waiters') <= Cardinality(waiters)
    BY <1>1, <1>3, FS_Subset, FS_CardinalityType
  <2> QED BY <1>1, <2>1 DEF IInv, TableInv
<1> QED
  BY <1>2, <1>3
     DEF Next, ClientStep, ReplyStep, HostStep, ProcessStep, Exit, Crash, vars,
         Authorize, RefuseBody, Busy, Receive, ClientLeaves, TimerFires, Cancel,
         TakeWaiter, ReplyNotFound, SendReply, Register, Poll, Close, Perish,
         Restart

\* The invariant holds at the start.
LEMMA IInvInit == Init => IInv
<1> SUFFICES ASSUME Init PROVE IInv
  OBVIOUS
<1>1. TypeOK
  BY DEF Init, TypeOK
<1>2. QueueInv
  BY LimitsAssumption DEF Init, QueueInv, Elems, Distinct
<1>3. WaiterInv /\ SlotInv /\ AnswerInv
  BY RoutesAssumption DEF Init, WaiterInv, SlotInv, AnswerInv
<1>4. TableInv
  BY FS_EmptySet, LimitsAssumption DEF Init, TableInv
<1> QED BY <1>1, <1>2, <1>3, <1>4 DEF IInv

\* The strengthened invariant is an invariant of every relay.
THEOREM Inductive == Spec => []IInv
<1>1. IInv /\ [Next]_vars => IInv'
  BY TypeStep, QueueStep, WaiterStep, SlotStep, AnswerStep, TableStep DEF IInv
<1> QED BY IInvInit, <1>1, PTL DEF Spec
-----------------------------------------------------------------------------
\* Every variable of the relay always has its type.
THEOREM TypeCorrect == Spec => []TypeOK
BY Inductive, PTL DEF IInv

\* What a poll may return was never handed over, and has a client waiting.
THEOREM QueuedAreAwaited == Spec => []QueuedRequestsAreAwaited
<1>1. IInv => QueuedRequestsAreAwaited
  BY DEF IInv, QueueInv, WaiterInv, QueuedRequestsAreAwaited, Queued, InFlight
<1> QED BY Inductive, <1>1, PTL

\* However its exchange ended, a request leaves nothing in the relay.
THEOREM FinishedLeavesNothing == Spec => []NothingLeaks
<1>1. IInv => NothingLeaks
  BY DEF IInv, QueueInv, WaiterInv, NothingLeaks, Queued
<1> QED BY Inductive, <1>1, PTL

\* The non-blocking send of a reply handler never falls to its default case.
THEOREM RepliesFindRoom == Spec => []AcceptedReplyFindsRoom
<1>1. IInv => AcceptedReplyFindsRoom
  BY DEF IInv, SlotInv, AcceptedReplyFindsRoom
<1> QED BY Inductive, <1>1, PTL

\* A client only ever gets the one accepted reply to its own request.
THEOREM AnswersAreRight == Spec => []AnswersMatch
<1>1. IInv => AnswersMatch
  <2> SUFFICES ASSUME IInv, NEW r \in Requests
               PROVE  /\ \A p \in answer[r] : /\ ReplyTo[p] = r
                                             /\ poster[p] = "accepted"
                                             /\ r \in handed
                      /\ \A p, q \in answer[r] : p = q
                      /\ outcome[r] = "answered" <=> answer[r] # {}
    BY DEF AnswersMatch
  <2> QED BY RoutesAssumption DEF IInv, TypeOK, AnswerInv, SlotInv
<1> QED BY Inductive, <1>1, PTL

\* Neither a queue nor the waiter table outgrows its limit.
THEOREM LimitsHold == Spec => []WithinLimits
<1>1. IInv => WithinLimits
  BY DEF IInv, QueueInv, TableInv, WithinLimits
<1> QED BY Inductive, <1>1, PTL

\* The order of two requests survives every step that keeps the first queued.
Ordered(h, r, s) ==
    Before(queues[h], r, s) /\ (r \in Queued(h))' =>
        /\ s \notin handed' \ handed
        /\ (s \in Queued(h))' => Before(queues[h], r, s)'

LEMMA OrderStep ==
    ASSUME IInv, [Next]_vars, NEW h \in Hosts, NEW r \in Requests, NEW s \in Requests
    PROVE  Ordered(h, r, s)
<1> DEFINE q == queues[h]
<1>0. q \in Seq(Requests) /\ Distinct(q)
  BY DEF IInv, TypeOK, QueueInv
<1>1. ASSUME NEW x \in Requests, Enqueue(x) PROVE Ordered(h, r, s)
  <2>1. handed' = handed /\ queues'[h] \in {q, Append(q, x)}
    BY <1>1, RoutesAssumption DEF Enqueue, IInv, TypeOK
  <2>2. SUFFICES ASSUME Before(q, r, s) PROVE Before(queues[h], r, s)'
    BY <2>1 DEF Ordered
  <2>3. Before(Append(q, x), r, s)
    BY <1>0, <2>2, AppendKeepsOrder
  <2>4. ASSUME NEW w, queues'[h] = w, Before(w, r, s) PROVE Before(queues[h], r, s)'
    BY <2>4 DEF Before
  <2> QED BY <2>1, <2>2, <2>3, <2>4
<1>2. ASSUME NEW x \in Requests, Cancel(x) PROVE Ordered(h, r, s)
  <2>1. handed' = handed /\ (queues'[h] = q \/ queues'[h] = Without(q, x))
    BY <1>2, RoutesAssumption DEF Cancel, IInv, TypeOK
  <2>2. CASE queues'[h] = q
    BY <2>1, <2>2 DEF Ordered, Before
  <2>3. CASE queues'[h] = Without(q, x)
    <3>1. Elems(Without(q, x)) = Elems(q) \ {x}
      BY <1>0, WithoutRemoves
    <3>2. SUFFICES ASSUME Before(q, r, s), (r \in Queued(h))', (s \in Queued(h))'
                   PROVE  Before(queues[h], r, s)'
      BY <2>1 DEF Ordered
    <3>3. r # x /\ s # x
      BY <2>3, <3>1, <3>2 DEF Queued, Elems
    <3>4. Before(Without(q, x), r, s)
      BY <1>0, <3>2, <3>3, WithoutKeepsOrder
    <3> QED BY <2>3, <3>4 DEF Before
  <2> QED BY <2>1, <2>2, <2>3
<1>3. ASSUME NEW k \in Hosts, Poll(k) PROVE Ordered(h, r, s)
  <2>1. CASE k # h
    <3>1. queues'[h] = q /\ handed' = handed \cup {Head(queues[k])}
      BY <1>3, <2>1 DEF Poll, IInv, TypeOK
    <3>2. Head(queues[k]) \in Elems(queues[k])
      BY <1>3, TailDrops DEF IInv, TypeOK, QueueInv, Poll
    <3>3. HostOf[Head(queues[k])] = k
      BY <3>2 DEF IInv, QueueInv
    <3>4. ASSUME Before(q, r, s) PROVE s \in Elems(q) /\ HostOf[s] = h
      BY <3>4 DEF Before, Elems, IInv, QueueInv
    <3> QED BY <2>1, <3>1, <3>3, <3>4 DEF Ordered, Before
  <2>2. CASE k = h
    <3>1. queues'[h] = Tail(q) /\ handed' = handed \cup {Head(q)}
      BY <1>3, <2>2 DEF Poll, IInv, TypeOK
    <3>2. SUFFICES ASSUME Before(q, r, s), (r \in Queued(h))'
                   PROVE  s \notin handed' \ handed /\ Before(queues[h], r, s)'
      BY DEF Ordered
    <3>3. r \in Elems(Tail(q))
      BY <3>1, <3>2 DEF Queued, Elems
    <3>4. s # Head(q) /\ Before(Tail(q), r, s)
      BY <1>0, <3>2, <3>3, TailKeepsOrder
    <3> QED BY <3>1, <3>4 DEF Before
  <2> QED BY <2>1, <2>2
<1>4. ASSUME queues' = [k \in Hosts |-> <<>>] PROVE Ordered(h, r, s)
  BY <1>4 DEF Ordered, Queued, Elems
<1>5. ASSUME UNCHANGED <<queues, handed>> PROVE Ordered(h, r, s)
  BY <1>5 DEF Ordered, Before
<1> QED
  BY <1>1, <1>2, <1>3, <1>4, <1>5
     DEF Next, ClientStep, ReplyStep, HostStep, ProcessStep, Exit, Crash, vars,
         Authorize, RefuseBody, Busy, Receive, ClientLeaves, TimerFires,
         TakeWaiter, ReplyNotFound, SendReply, Register, Restart, Close, Perish

\* Requests to one computer are handed over in the order they came in, however
\* many of those between them are cancelled.
THEOREM OrderKept == Spec => NoOvertaking
<1>1. IInv /\ [Next]_vars =>
          [\A h \in Hosts : \A r, s \in Requests :
              Before(queues[h], r, s) /\ (r \in Queued(h))' =>
                  /\ s \notin handed' \ handed
                  /\ (s \in Queued(h))' => Before(queues[h], r, s)']_vars
  BY OrderStep DEF Ordered
<1> QED BY Inductive, <1>1, PTL DEF Spec, NoOvertaking
-----------------------------------------------------------------------------
(***************************************************************************)
(* Refinement: each step of the relay is a step of Exchange or changes     *)
(* nothing there.                                                          *)
(***************************************************************************)

\* A step that ends a set of exchanges without an answer, and leaves the other
\* requests as they are, is an abstract GiveUp.
LEMMA GivesUp ==
    ASSUME NEW S \in SUBSET Requests, TypeOK,
           \A r \in S : client[r] # "done" /\ client'[r] = "done",
           \A r \in Requests \ S : client'[r] = client[r],
           UNCHANGED <<answer, handed>>
    PROVE  Promise!GiveUp(S)
<1>1. ASSUME NEW r \in S PROVE Status[r] # "over" /\ Status'[r] = "over"
  BY DEF Status, TypeOK
<1>2. ASSUME NEW r \in Requests \ S PROVE Status'[r] = Status[r]
  BY DEF Status
<1>3. Status' = [r \in Requests |-> IF r \in S THEN "over" ELSE Status[r]]
  BY <1>1, <1>2 DEF Status
<1> QED BY <1>1, <1>3 DEF Promise!GiveUp

\* A step that moves handlers between points of the same status is invisible.
LEMMA Stutters ==
    ASSUME TypeOK,
           \A r \in Requests : \/ client'[r] = client[r]
                               \/ {client[r], client'[r]} \subseteq {"idle", "reading"}
                               \/ {client[r], client'[r]} \subseteq Admitted,
           UNCHANGED <<answer, handed>>
    PROVE  UNCHANGED <<Status, answer>>
<1>1. ASSUME NEW r \in Requests PROVE Status'[r] = Status[r]
  BY DEF Status
<1> QED BY <1>1 DEF Status

LEMMA RefinementStep ==
    IInv /\ [Next]_vars => [Promise!Next]_<<Status, answer>>
<1> SUFFICES ASSUME IInv, [Next]_vars
             PROVE  Promise!Next \/ UNCHANGED <<Status, answer>>
  OBVIOUS
<1> USE RoutesAssumption
<1>t. TypeOK
  BY DEF IInv
<1>1. ASSUME NEW r \in Requests, client[r] # "done",
             \E o \in Outcomes : Finish(r, o), UNCHANGED <<answer, handed>>
      PROVE  Promise!Next
  <2>1. client'[r] = "done" /\ \A s \in Requests \ {r} : client'[s] = client[s]
    BY <1>1, <1>t DEF TypeOK, Finish
  <2>2. Promise!GiveUp({r})
    BY <2>1, <1>1, <1>t, GivesUp
  <2> QED BY <2>2 DEF Promise!Next
<1>2. ASSUME NEW r \in Requests, Authorize(r)
      PROVE  Promise!Next \/ UNCHANGED <<Status, answer>>
  <2>1. CASE HostOf[r] \in registered
    BY <2>1, <1>2, <1>t, Stutters DEF Authorize, TypeOK
  <2>2. CASE HostOf[r] \notin registered
    BY <2>2, <1>1, <1>2 DEF Authorize
  <2> QED BY <2>1, <2>2
<1>3. ASSUME NEW r \in Requests, RefuseBody(r) PROVE Promise!Next
  BY <1>1, <1>3 DEF RefuseBody
<1>4. ASSUME NEW r \in Requests, Busy(r) PROVE Promise!Next
  BY <1>1, <1>4 DEF Busy
<1>5. ASSUME NEW r \in Requests, Enqueue(r) PROVE Promise!Next
  <2>1. r \notin handed /\ handed' = handed
    BY <1>5 DEF IInv, WaiterInv, Enqueue
  <2>2. Status[r] = "new" /\ Status'[r] = "pending"
    BY <1>5, <1>t, <2>1 DEF Status, Enqueue, TypeOK
  <2>3. ASSUME NEW s \in Requests \ {r} PROVE Status'[s] = Status[s]
    BY <1>5, <1>t DEF Status, Enqueue, TypeOK
  <2>4. Status' = [Status EXCEPT ![r] = "pending"] /\ answer' = answer
    BY <1>5, <2>2, <2>3 DEF Status, Enqueue
  <2> QED BY <2>2, <2>4 DEF Promise!Next, Promise!Submit
<1>6. ASSUME NEW r \in Requests, Receive(r) PROVE Promise!Next
  <2>1. CASE Shutdown \in chan[r]
    <3>1. chan[r] \ {Shutdown} = {} /\ answer[r] = {}
      BY <2>1, <1>6 DEF IInv, AnswerInv, Receive
    <3>2. answer' = answer
      BY <3>1, <1>6, <1>t DEF Receive, TypeOK
    <3> QED BY <2>1, <3>2, <1>1, <1>6 DEF Receive
  <2>2. CASE Shutdown \notin chan[r]
    <3>1. PICK p \in Replies : chan[r] = {p} /\ ReplyTo[p] = r /\ poster[p] = "accepted"
      BY <2>2, <1>6 DEF IInv, AnswerInv, Receive
    <3>2. r \in handed /\ handed' = handed
      BY <3>1, <1>6 DEF IInv, SlotInv, Receive
    <3>3. answer' = [answer EXCEPT ![r] = {p}]
      <4>1. chan[r] \ {Shutdown} = {p}
        BY <2>2, <3>1
      <4> QED BY <4>1, <1>6 DEF Receive
    <3>4. Status[r] = "handed" /\ Status'[r] = "over"
      BY <3>2, <1>6, <1>t DEF Status, Receive, Finish, TypeOK
    <3>5. ASSUME NEW s \in Requests \ {r} PROVE Status'[s] = Status[s]
      BY <1>6, <1>t DEF Status, Receive, Finish, TypeOK
    <3>6. Status' = [Status EXCEPT ![r] = "over"]
      BY <3>4, <3>5 DEF Status
    <3>7. Promise!Answer(r, p)
      BY <3>1, <3>3, <3>4, <3>6 DEF Promise!Answer
    <3> QED BY <3>1, <3>7 DEF Promise!Next
  <2> QED BY <2>1, <2>2
<1>7. ASSUME NEW r \in Requests, ClientLeaves(r) \/ TimerFires(r)
      PROVE  UNCHANGED <<Status, answer>>
  BY <1>7, <1>t, Stutters DEF ClientLeaves, TimerFires, TypeOK
<1>8. ASSUME NEW r \in Requests, Cancel(r) PROVE Promise!Next
  BY <1>1, <1>8 DEF Cancel
<1>9. ASSUME NEW h \in Hosts, Poll(h) PROVE Promise!Next
  <2> DEFINE r == Head(queues[h])
  <2>1. r \in Requests /\ r \in waiters /\ r \notin handed
    BY <1>9, TailDrops DEF IInv, TypeOK, QueueInv, Poll
  <2>2. handed' = handed \cup {r} /\ client' = client /\ answer' = answer
    BY <1>9 DEF Poll
  <2> HIDE DEF r
  <2>3. Status[r] = "pending" /\ Status'[r] = "handed"
    BY <2>1, <2>2 DEF IInv, WaiterInv, Status
  <2>4. ASSUME NEW s \in Requests \ {r} PROVE Status'[s] = Status[s]
    BY <2>2 DEF Status
  <2>5. Status' = [Status EXCEPT ![r] = "handed"]
    BY <2>3, <2>4 DEF Status
  <2> QED BY <2>1, <2>2, <2>3, <2>5 DEF Promise!Next, Promise!Hand
<1>10. CASE Perish
  <2> DEFINE S == {r \in Requests : InFlight(r)}
  <2>1. \A r \in S : client[r] # "done" /\ client'[r] = "done"
    BY <1>10 DEF Perish, InFlight
  <2>2. \A r \in Requests \ S : client'[r] = client[r]
    BY <1>10 DEF Perish
  <2>3. Promise!GiveUp(S)
    BY <2>1, <2>2, <1>10, <1>t, GivesUp DEF Perish
  <2> QED BY <2>3 DEF Promise!Next
<1>11. ASSUME UNCHANGED <<client, answer, handed>>
       PROVE  UNCHANGED <<Status, answer>>
  BY <1>11, <1>t, Stutters
<1> QED
  BY <1>2, <1>3, <1>4, <1>5, <1>6, <1>7, <1>8, <1>9, <1>10, <1>11
     DEF Next, ClientStep, ReplyStep, HostStep, ProcessStep, Exit, Crash, vars,
         TakeWaiter, ReplyNotFound, SendReply, Register, Close, Restart

\* The relay implements the exchange it promises: at most one hand-over and
\* one end for each request, and an answer only from a reply to it.
THEOREM Refinement == Spec => ImplementsExchange
<1>1. Init => Promise!Init
  BY DEF Init, Promise!Init, Status
<1> QED
  BY <1>1, Inductive, RefinementStep, PTL DEF Spec, ImplementsExchange, Promise!Spec
=============================================================================
