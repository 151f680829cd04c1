-------------------------- MODULE RelayAgentProofs --------------------------
(***************************************************************************)
(* For any number of requests, slots and faults: a request is performed at *)
(* most once, and a result is one of what was performed.                   *)
(***************************************************************************)
EXTENDS RelayAgent, FiniteSetTheorems, TLAPS

Working == { r \in Requests : HoldsSlot(r) }

\* What the program point of a request's thread tells of the request.
WorkerInv ==
    \A r \in Requests :
        /\ status[r] \in {"new", "pending"} => worker[r] = "none"
        /\ worker[r] \in {"none", "starting"} => r \notin asked /\ performed[r] = 0
        /\ worker[r] = "forwarding" /\ r \notin asked => performed[r] = 1
        /\ worker[r] = "result" => performed[r] = 1
        /\ r \in asked => performed[r] = 0

\* A slot is free or taken by one thread; those of a Host that ended are lost
\* until it starts again.
SlotInv == free + Cardinality(Working) <= Slots

IInv == TypeOK /\ WorkerInv /\ SlotInv /\ PerformedOnce /\ ResultsAreReal

USE DEF LoopPoints, WorkerPoints, Replies, HoldsSlot, Active, Replying

LEMMA WorkingIsFinite ==
    IsFiniteSet(Working) /\ Cardinality(Working) \in Nat
<1>1. Working \subseteq Requests
  BY DEF Working
<1> QED BY <1>1, FS_Subset, FS_CardinalityType, FiniteAssumption

LEMMA IInvInit == Init => IInv
<1> SUFFICES ASSUME Init PROVE IInv
  OBVIOUS
<1>1. Working = {} /\ Cardinality({}) = 0
  BY FS_EmptySet DEF Init, Working
<1>2. TypeOK
  BY LimitsAssumption DEF Init, TypeOK, TheRelay!Init
<1>3. SlotInv
  BY <1>1, LimitsAssumption DEF Init, SlotInv
<1>4. WorkerInv /\ PerformedOnce /\ ResultsAreReal
  BY DEF Init, TheRelay!Init, WorkerInv, PerformedOnce, ResultsAreReal
<1> QED BY <1>2, <1>3, <1>4 DEF IInv

\* Every action changes the state of one request and its thread, or ends them
\* all; the slots it gives back are slots it held.
LEMMA WorkingStep ==
    ASSUME NEW r \in Requests, NEW w \in WorkerPoints, TypeOK,
           worker' = [worker EXCEPT ![r] = w]
    PROVE  /\ w \in {"forwarding", "result", "error"} => Working' = Working \cup {r}
           /\ w \notin {"forwarding", "result", "error"} => Working' = Working \ {r}
BY DEF Working, TypeOK

\* A request that takes a slot, and one that gives it back.
LEMMA ForwardTakesASlot ==
    ASSUME NEW r \in Requests, IInv, Forward(r)
    PROVE  SlotInv'
<1>1. Working' = Working \cup {r} /\ r \notin Working
  BY WorkingStep DEF Forward, IInv, Working
<1>2. Cardinality(Working \cup {r}) = Cardinality(Working) + 1
  BY <1>1, WorkingIsFinite, FS_AddElement
<1> QED BY <1>1, <1>2, WorkingIsFinite, LimitsAssumption DEF IInv, SlotInv, TypeOK, Forward

LEMMA LeaveGivesItBack ==
    ASSUME NEW r \in Requests, NEW w \in {"done", "failed"}, IInv, Replying(r), Leave(r, w)
    PROVE  SlotInv' /\ free' \in 0..Slots
<1>1. Working' = Working \ {r} /\ r \in Working
  BY WorkingStep DEF Leave, IInv, Working
<1>2. Cardinality(Working \ {r}) = Cardinality(Working) - 1
  BY <1>1, WorkingIsFinite, FS_RemoveElement
<1>3. Cardinality(Working \ {r}) \in Nat
  BY WorkingIsFinite, FS_RemoveElement, FS_CardinalityType
<1> QED BY <1>3, <1>1, <1>2, WorkingIsFinite, LimitsAssumption DEF IInv, SlotInv, TypeOK, Leave

LEMMA SlotStep ==
    ASSUME IInv, [Next]_vars
    PROVE  SlotInv'
<1>1. ASSUME worker' = worker, free' = free PROVE SlotInv'
  BY <1>1 DEF IInv, SlotInv, Working
<1>2. CASE LoopStep
  <2>1. ASSUME NEW r \in Requests, PollGets(r) PROVE SlotInv'
    <3>1. Working' = Working \ {r} /\ r \notin Working
      BY <2>1, WorkingStep DEF PollGets, TheRelay!Hand, IInv, WorkerInv, Working
    <3> QED BY <2>1, <3>1 DEF PollGets, IInv, SlotInv
  <2> QED BY <1>1, <1>2, <2>1 DEF LoopStep, Register, PollFindsNothing,
             PollIsUnauthorized, PauseEnds, BackoffEnds
<1>3. ASSUME NEW r \in Requests, DeliverStep(r) PROVE SlotInv'
  <2>1. CASE ForwardReturns(r) \/ ForwardFails(r)
    <3>1. Working' = Working /\ free' = free
      BY <2>1 DEF ForwardReturns, ForwardFails, Working, IInv, TypeOK
    <3> QED BY <3>1 DEF IInv, SlotInv
  <2> QED BY <1>3, <2>1, ForwardTakesASlot, LeaveGivesItBack
          DEF DeliverStep, Reply, ReplyTooLate, ReplyIsUnauthorized
<1>4. CASE FaultStep
  <2>1. CASE HostEnds
    <3>1. Working' = {}
      BY <2>1 DEF HostEnds, Working
    <3> QED BY <2>1, <3>1, FS_EmptySet, LimitsAssumption DEF HostEnds, SlotInv, IInv, TypeOK
  <2> QED BY <1>1, <1>4, <2>1, LeaveGivesItBack
          DEF FaultStep, RelayRestarts, RegisterFails, PollFails, LoopDies, ReplyFails
<1>5. CASE HostStarts
  <2>1. Working' = {}
    BY <1>5 DEF HostStarts, Working
  <2> QED BY <1>5, <2>1, FS_EmptySet, LimitsAssumption DEF HostStarts, SlotInv
<1> QED BY <1>1, <1>2, <1>3, <1>4, <1>5 DEF Next, Submit, GiveUp, Perform, vars

LEMMA TypeStep ==
    ASSUME IInv, [Next]_vars
    PROVE  TypeOK'
<1> USE LimitsAssumption DEF IInv, TypeOK
<1>1. CASE LoopStep
  <2>1. CASE Register
    <3>1. known' \in BOOLEAN
      BY <2>1, Zenon DEF Register
    <3> QED BY <2>1, <3>1 DEF Register, exchange, host
  <2>4. CASE PollFindsNothing
    BY <2>4 DEF PollFindsNothing, exchange, host
  <2>5. CASE PollIsUnauthorized
    BY <2>5 DEF PollIsUnauthorized, Retry, exchange, host
  <2>2. CASE PauseEnds \/ BackoffEnds
    BY <2>2 DEF PauseEnds, BackoffEnds, exchange, host
  <2>3. ASSUME NEW r \in Requests, PollGets(r) PROVE TypeOK'
    BY <2>3 DEF PollGets, TheRelay!Hand, host
  <2> QED BY <1>1, <2>1, <2>2, <2>3, <2>4, <2>5 DEF LoopStep
<1>2. ASSUME NEW r \in Requests, DeliverStep(r) PROVE TypeOK'
  <2>1. CASE Forward(r)
    BY <2>1 DEF Forward, exchange, agent
  <2>2. CASE ForwardReturns(r) \/ ForwardFails(r)
    BY <2>2 DEF ForwardReturns, ForwardFails, exchange, agent, host
  <2>3. CASE Reply(r) \/ ReplyTooLate(r) \/ ReplyIsUnauthorized(r)
    <3>1. free' \in 0..Slots
      BY <2>3, LeaveGivesItBack DEF Reply, ReplyTooLate, ReplyIsUnauthorized
    <3>2. <<r, worker[r]>> \in Replies
      BY <2>3 DEF Reply, ReplyTooLate, ReplyIsUnauthorized
    <3> QED BY <2>3, <3>1, <3>2 DEF Reply, ReplyTooLate, ReplyIsUnauthorized, Leave,
               TheRelay!Answer, exchange, agent, host
  <2> QED BY <1>2, <2>1, <2>2, <2>3 DEF DeliverStep
<1>3. CASE FaultStep
  <2>1. ASSUME NEW r \in Requests, ReplyFails(r) PROVE TypeOK'
    <3>1. free' \in 0..Slots
      BY <2>1, LeaveGivesItBack DEF ReplyFails
    <3>2. <<r, worker[r]>> \in Replies
      BY <2>1 DEF ReplyFails
    <3> QED BY <2>1, <3>1, <3>2 DEF ReplyFails, Leave, Fault, TheRelay!Answer,
               exchange, agent, host
  <2>2. CASE PollFails
    BY <2>2 DEF PollFails, Fault, Retry, TheRelay!Hand, exchange, host
  <2>3. CASE RelayRestarts
    <3>1. status' \in [Requests -> {"new", "pending", "handed", "over"}] /\ known' \in BOOLEAN
      BY <2>3 DEF RelayRestarts, TheRelay!GiveUp
    <3> QED BY <2>3, <3>1 DEF RelayRestarts, Fault, TheRelay!GiveUp, agent, host
  <2>4. CASE RegisterFails
    <3>1. known' \in BOOLEAN
      BY <2>4, Zenon DEF RegisterFails
    <3> QED BY <2>4, <3>1 DEF RegisterFails, Fault, Retry, exchange, host
  <2>5. CASE LoopDies \/ HostEnds
    BY <2>5 DEF LoopDies, HostEnds, Fault, exchange, host
  <2> QED BY <1>3, <2>1, <2>2, <2>3, <2>4, <2>5 DEF FaultStep
<1>4. CASE HostStarts
  BY <1>4 DEF HostStarts, exchange
<1>5. ASSUME NEW r \in Requests, Submit(r) \/ GiveUp(r) \/ Perform(r) PROVE TypeOK'
  BY <1>5 DEF Submit, GiveUp, Perform, WorkerInv, TheRelay!Submit, TheRelay!GiveUp,
     exchange, agent, host
<1>6. CASE UNCHANGED vars
  BY <1>6 DEF vars, exchange, agent, host
<1> QED BY <1>1, <1>2, <1>3, <1>4, <1>5, <1>6 DEF Next

Told == WorkerInv /\ PerformedOnce /\ ResultsAreReal

LEMMA ToldStep ==
    ASSUME IInv, [Next]_vars
    PROVE  Told'
<1> USE DEF IInv, TypeOK, Told, WorkerInv, PerformedOnce, ResultsAreReal
<1>1. CASE LoopStep
  BY <1>1 DEF LoopStep, Register, PollFindsNothing, PollIsUnauthorized, PauseEnds,
     BackoffEnds, PollGets, TheRelay!Hand, exchange, agent, host
<1>2. ASSUME NEW r \in Requests, DeliverStep(r) PROVE Told'
  <2>1. CASE Forward(r)
    BY <2>1 DEF Forward, exchange, agent
  <2>2. CASE ForwardReturns(r) \/ ForwardFails(r)
    BY <2>2 DEF ForwardReturns, ForwardFails, exchange, agent, host
  <2>3. CASE Reply(r) \/ ReplyTooLate(r) \/ ReplyIsUnauthorized(r)
    BY <2>3 DEF Reply, ReplyTooLate, ReplyIsUnauthorized, Leave,
       TheRelay!Answer, exchange, agent, host
  <2> QED BY <1>2, <2>1, <2>2, <2>3 DEF DeliverStep
<1>3. CASE FaultStep
  <2>1. ASSUME NEW r \in Requests, ReplyFails(r) PROVE Told'
    BY <2>1 DEF ReplyFails, Leave, TheRelay!Answer, exchange, agent, host
  <2>2. CASE PollFails
    BY <2>2 DEF PollFails, TheRelay!Hand, exchange, host
  <2>3. CASE RelayRestarts
    <3>1. UNCHANGED <<answer, worker, asked, performed>>
      BY <2>3 DEF RelayRestarts, TheRelay!GiveUp, host
    <3>2. \A r \in Requests : status'[r] \in {status[r], "over"}
      BY <2>3 DEF RelayRestarts, TheRelay!GiveUp
    <3> QED BY <3>1, <3>2
  <2>4. CASE RegisterFails
    BY <2>4 DEF RegisterFails, exchange, host
  <2>5. CASE LoopDies \/ HostEnds
    BY <2>5 DEF LoopDies, HostEnds, exchange, host
  <2> QED BY <1>3, <2>1, <2>2, <2>3, <2>4, <2>5 DEF FaultStep
<1>4. CASE HostStarts
  BY <1>4 DEF HostStarts, exchange
<1>5. ASSUME NEW r \in Requests, Submit(r) \/ GiveUp(r) \/ Perform(r) PROVE Told'
  BY <1>5 DEF Submit, GiveUp, Perform, TheRelay!Submit, TheRelay!GiveUp,
     exchange, agent, host
<1>6. CASE UNCHANGED vars
  BY <1>6 DEF vars, exchange, agent, host
<1> QED BY <1>1, <1>2, <1>3, <1>4, <1>5, <1>6 DEF Next

\* The inductive invariant holds for any number of requests, slots and faults.
THEOREM Inductive == Spec => []IInv
<1>1. IInv /\ [Next]_vars => IInv'
  BY SlotStep, TypeStep, ToldStep DEF IInv, Told
<1> QED BY IInvInit, <1>1, PTL DEF Spec

\* The agent's state has its type: in particular its semaphore never exceeds
\* its limit, which would be an error of BoundedSemaphore.
THEOREM TypeCorrect == Spec => []TypeOK
<1>1. IInv => TypeOK
  BY DEF IInv
<1> QED BY Inductive, <1>1, PTL

\* A request of the phone is performed at most once, whatever fails.
THEOREM AtMostOnce == Spec => []PerformedOnce
<1>1. IInv => PerformedOnce
  BY DEF IInv
<1> QED BY Inductive, <1>1, PTL

\* The phone is given a result only of what the Host performed.
THEOREM OnlyRealResults == Spec => []ResultsAreReal
<1>1. IInv => ResultsAreReal
  BY DEF IInv
<1> QED BY Inductive, <1>1, PTL
-----------------------------------------------------------------------------
(* The agent and the exchange *)

LEMMA ExchangeStep == [Next]_vars => [TheRelay!Next]_exchange
<1> SUFFICES ASSUME [Next]_vars PROVE TheRelay!Next \/ UNCHANGED exchange
  BY DEF exchange
<1>1. ASSUME NEW r \in Requests, TheRelay!Submit(r) \/ TheRelay!Hand(r) PROVE TheRelay!Next
  BY <1>1 DEF TheRelay!Next
<1>2. ASSUME NEW r \in Requests, Replying(r), TheRelay!Answer(r, <<r, worker[r]>>) PROVE TheRelay!Next
  <2>1. <<r, worker[r]>> \in Replies
    BY <1>2
  <2> QED BY <1>2, <2>1, Zenon DEF TheRelay!Next
<1>3. ASSUME NEW S \in SUBSET Requests, TheRelay!GiveUp(S) PROVE TheRelay!Next
  BY <1>3 DEF TheRelay!Next
<1>4. CASE LoopStep
  BY <1>1, <1>4 DEF LoopStep, Register, PollFindsNothing, PollIsUnauthorized, PauseEnds, BackoffEnds, PollGets
<1>5. ASSUME NEW r \in Requests, DeliverStep(r) PROVE TheRelay!Next \/ UNCHANGED exchange
  BY <1>2, <1>5 DEF DeliverStep, Forward, ForwardReturns, ForwardFails, Reply, ReplyTooLate, ReplyIsUnauthorized
<1>6. ASSUME NEW r \in Requests, Submit(r) \/ GiveUp(r) \/ Perform(r) PROVE TheRelay!Next \/ UNCHANGED exchange
  BY <1>1, <1>3, <1>6 DEF Submit, GiveUp, Perform
<1>7. CASE RelayRestarts
  BY <1>3, <1>7 DEF RelayRestarts
<1>8. CASE PollFails
  BY <1>1, <1>8 DEF PollFails
<1>9. CASE RegisterFails \/ LoopDies \/ HostEnds \/ HostStarts \/ UNCHANGED vars
  BY <1>9 DEF RegisterFails, LoopDies, HostEnds, HostStarts, vars
<1>10. ASSUME NEW r \in Requests, ReplyFails(r) PROVE TheRelay!Next \/ UNCHANGED exchange
  BY <1>2, <1>10 DEF ReplyFails
<1> QED BY <1>4, <1>5, <1>6, <1>7, <1>8, <1>9, <1>10 DEF Next, FaultStep

\* The agent treats the relay only as the relay promises, so that what Relay implements
\* and the agent relies on is one and the same: polls and posts of relay.py, and lost ones,
\* and a restart of the relay, are hand-overs, answers and ends of Exchange.
THEOREM ExchangeIsKept == Spec => TheRelay!Spec
<1>1. Init => TheRelay!Init
  BY DEF Init
<1> QED BY <1>1, ExchangeStep, PTL DEF Spec, TheRelay!Spec, exchange
=============================================================================
