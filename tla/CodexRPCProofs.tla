--------------------------- MODULE CodexRPCProofs ---------------------------
(***************************************************************************)
(* For any number of calls and any approvals: replies reach their callers, *)
(* the reader does not block, and nobody waits for a dead process.         *)
(***************************************************************************)
EXTENDS CodexRPC, FiniteSetTheorems, TLAPS

\* The calls that were given an id, and what an id tells of its call.
Numbered == { c \in Callers : idOf[c] # 0 }

IdInv ==
    /\ nextId = Cardinality(Numbered) + 1
    /\ \A c \in Callers : /\ idOf[c] < nextId
                          /\ caller[c] \in {"idle", "checked"} => idOf[c] = 0
                          /\ InCall(c) => idOf[c] # 0
    /\ \A c, d \in Callers : idOf[c] = idOf[d] /\ idOf[c] # 0 => c = d

\* A call in the table has an empty queue, and is under way or could not send.
TableInv ==
    /\ \A i \in pending : /\ i < nextId
                          /\ box[i] = {}
                          /\ \E c \in Callers : /\ idOf[c] = i
                                                /\ InCall(c) \/ result[c] = "error"
    /\ \A i \in Ids : box[i] # {} => i < nextId

\* The reader that popped an entry is the only one who may fill its queue.
ReaderInv ==
    /\ reader \in {"matched", "holding"} => held \in Messages /\ held.id \in Ids
    /\ reader = "holding" => /\ held.id < nextId
                             /\ held.id \notin pending
                             /\ box[held.id] = {}

\* Something can still wake each call that waits or is about to.
WakeInv ==
    /\ \A c \in Callers : caller[c] \in {"registered", "waiting"} =>
           \/ idOf[c] \in pending
           \/ box[idOf[c]] # {}
           \/ reader = "holding" /\ held.id = idOf[c]
    /\ reader = "ended" =>
           ~alive /\ \A c \in Callers : caller[c] = "waiting" => idOf[c] \notin pending

IInv == TypeOK /\ IdInv /\ TableInv /\ ReaderInv /\ WakeInv

USE DEF CallPoints, Results, InCall

LEMMA NumberedIsFinite ==
    ASSUME TypeOK
    PROVE  /\ IsFiniteSet(Numbered) /\ Cardinality(Numbered) \in Nat
           /\ Cardinality(Callers) \in Nat
           /\ Ids \subseteq Nat \ {0}
<1>1. Numbered \subseteq Callers
  BY DEF Numbered
<1>2. Cardinality(Callers) \in Nat /\ IsFiniteSet(Numbered) /\ Cardinality(Numbered) \in Nat
  BY <1>1, FS_Subset, FS_CardinalityType, CallersAssumption
<1> QED BY <1>2 DEF Ids

\* A call that is about to get an id is not numbered yet, so that the counter
\* stays within the number of calls.
LEMMA NextIdFits ==
    ASSUME TypeOK, IdInv, NEW c \in Callers, caller[c] = "checked"
    PROVE  nextId \in Ids /\ Cardinality(Numbered \cup {c}) = nextId
<1>1. c \notin Numbered
  BY DEF IdInv, Numbered
<1>2. Cardinality(Numbered \cup {c}) = Cardinality(Numbered) + 1
  BY <1>1, NumberedIsFinite, FS_AddElement
<1>3. Cardinality(Numbered \cup {c}) <= Cardinality(Callers)
  <2>1. Numbered \cup {c} \subseteq Callers
    BY DEF Numbered
  <2> QED BY <2>1, FS_Subset, CallersAssumption
<1> QED BY <1>2, <1>3, NumberedIsFinite DEF IdInv, Ids, TypeOK

LEMMA IInvInit == Init => IInv
<1> SUFFICES ASSUME Init PROVE IInv
  OBVIOUS
<1>1. Numbered = {} /\ Cardinality({}) = 0
  BY FS_EmptySet DEF Init, Numbered
<1>2. Cardinality(Callers) \in Nat
  BY FS_CardinalityType, CallersAssumption
<1>3. TypeOK
  <2>1. 1 \in 1..(Cardinality(Callers) + 1) /\ <<>> \in Seq(Messages)
    BY <1>2
  <2>2. box \in [Ids -> SUBSET (Messages \cup {Failed})]
    BY DEF Init
  <2> QED BY <2>1, <2>2 DEF Init, TypeOK, None
<1>4. IdInv
  BY <1>1 DEF Init, IdInv
<1>5. TableInv /\ ReaderInv /\ WakeInv
  BY DEF Init, TableInv, ReaderInv, WakeInv
<1> QED BY <1>3, <1>4, <1>5 DEF IInv

\* Every variable keeps its type; ids do not run out.
LEMMA TypeStep == IInv /\ [Next]_vars => TypeOK'
<1> SUFFICES ASSUME IInv, [Next]_vars PROVE TypeOK'
  OBVIOUS
<1> USE DEF IInv, TypeOK, pipes, calls
<1>1. ASSUME NEW c \in Callers, CheckProcess(c) PROVE TypeOK'
  BY <1>1 DEF CheckProcess, Return
<1>2. ASSUME NEW c \in Callers, AddPending(c) PROVE TypeOK'
  <2>1. nextId \in Ids /\ nextId + 1 \in 1..(Cardinality(Callers) + 1)
    <3>1. nextId \in Ids
      BY <1>2, NextIdFits DEF AddPending
    <3> QED BY <3>1, NumberedIsFinite DEF Ids
  <2> QED BY <1>2, <2>1 DEF AddPending
<1>3. ASSUME NEW c \in Callers, Send(c) PROVE TypeOK'
  <2>1. idOf[c] \in Ids
    BY <1>3 DEF Send, IdInv
  <2> QED BY <1>3, <2>1 DEF Send, Return
<1>4. ASSUME NEW c \in Callers, Get(c) PROVE TypeOK'
  <2>1. \A m \in Messages \cup {Failed} : m.kind \in Results
    BY DEF Messages, Failed
  <2>2. idOf[c] \in Ids
    BY <1>4 DEF Get, IdInv
  <2>3. PICK m \in box[idOf[c]] : Return(c, m.kind)
    BY <1>4 DEF Get
  <2>4. m.kind \in Results
    BY <2>1, <2>2
  <2> QED BY <1>4, <2>3, <2>4 DEF Get, Return
<1>5. ASSUME NEW c \in Callers, TimeOut(c) PROVE TypeOK'
  BY <1>5 DEF TimeOut
<1>6. ASSUME NEW c \in Callers, DropPending(c) PROVE TypeOK'
  BY <1>6 DEF DropPending, Return
<1>7. CASE ReadLine
  <2>1. Head(wire) \in Messages /\ Tail(wire) \in Seq(Messages)
    BY <1>7 DEF ReadLine
  <2>2. CASE Head(wire).id \in pending
    BY <1>7, <2>1, <2>2 DEF ReadLine
  <2>3. CASE Head(wire).id \notin pending
    <3>1. approvals' \in SUBSET AskIds
      <4>1. CASE Head(wire).kind = "ask"
        <5>1. Head(wire).id \in AskIds
          BY <2>1, <4>1 DEF Messages
        <5> QED BY <1>7, <2>3, <4>1, <5>1 DEF ReadLine
      <4> QED BY <1>7, <2>3, <4>1 DEF ReadLine
    <3> QED BY <1>7, <2>1, <2>3, <3>1 DEF ReadLine
  <2> QED BY <2>2, <2>3
<1>8. CASE PopPending
  BY <1>8 DEF PopPending
<1>9. CASE PutReply
  BY <1>9 DEF PutReply, ReaderInv
<1>10. CASE EndOfFile
  BY <1>10 DEF EndOfFile, FailAll
<1>11. CASE Terminate
  BY <1>11 DEF Terminate
<1>12. CASE StopFailsPending
  BY <1>12 DEF StopFailsPending, FailAll
<1>13. ASSUME NEW i \in Ids, Answer(i) PROVE TypeOK'
  <2>1. [kind |-> "reply", id |-> i] \in Messages
    BY DEF Messages
  <2> QED BY <1>13, <2>1 DEF Answer
<1>14. ASSUME NEW i \in AskIds, Ask(i) PROVE TypeOK'
  <2>1. [kind |-> "ask", id |-> i] \in Messages
    BY DEF Messages
  <2> QED BY <1>14, <2>1 DEF Ask
<1>15. CASE Hang \/ Die
  BY <1>15 DEF Hang, Die
<1>16. CASE UNCHANGED vars
  BY <1>16 DEF vars
<1> QED
  BY <1>1, <1>2, <1>3, <1>4, <1>5, <1>6, <1>7, <1>8, <1>9, <1>10, <1>11, <1>12,
     <1>13, <1>14, <1>15, <1>16
     DEF Next, CallStep, ReaderStep, StopStep, CodexStep

\* Ids are given out in order and no two calls share one.
LEMMA IdStep == IInv /\ [Next]_vars => IdInv'
<1> SUFFICES ASSUME IInv, [Next]_vars PROVE IdInv'
  OBVIOUS
<1> USE DEF IInv, IdInv, pipes, calls
<1>1. ASSUME UNCHANGED <<nextId, idOf>>,
             \A c \in Callers : \/ caller'[c] = caller[c]
                                \/ caller'[c] = "done"
                                \/ caller'[c] = "checked" /\ caller[c] = "idle"
                                \/ caller'[c] \in {"waiting", "timedOut"} /\ InCall(c)
      PROVE  IdInv'
  BY <1>1 DEF Numbered, TypeOK
<1>2. ASSUME NEW c \in Callers, CheckProcess(c) PROVE IdInv'
  BY <1>2, <1>1 DEF CheckProcess, Return, TypeOK
<1>3. ASSUME NEW c \in Callers, AddPending(c) PROVE IdInv'
  <2>1. nextId \in Ids /\ Cardinality(Numbered \cup {c}) = nextId
    BY <1>3, NextIdFits DEF AddPending
  <2>2. nextId \in Nat \ {0}
    BY <2>1, NumberedIsFinite
  <2>3. Numbered' = Numbered \cup {c}
    BY <1>3, <2>2 DEF AddPending, Numbered, TypeOK
  <2>4. nextId' = Cardinality(Numbered') + 1
    BY <1>3, <2>1, <2>3 DEF AddPending
  <2>5. \A d \in Callers : /\ idOf'[d] < nextId'
                           /\ caller'[d] \in {"idle", "checked"} => idOf'[d] = 0
                           /\ InCall(d)' => idOf'[d] # 0
    BY <1>3, <2>2, NumberedIsFinite DEF AddPending, TypeOK
  <2>6. \A d, e \in Callers : idOf'[d] = idOf'[e] /\ idOf'[d] # 0 => d = e
    BY <1>3, <2>2, NumberedIsFinite DEF AddPending, TypeOK
  <2> QED BY <2>4, <2>5, <2>6
<1>4. ASSUME NEW c \in Callers, Send(c) PROVE IdInv'
  BY <1>4, <1>1 DEF Send, Return, TypeOK
<1>5. ASSUME NEW c \in Callers, Get(c) PROVE IdInv'
  BY <1>5, <1>1 DEF Get, Return, TypeOK
<1>6. ASSUME NEW c \in Callers, TimeOut(c) PROVE IdInv'
  BY <1>6, <1>1 DEF TimeOut, TypeOK
<1>7. ASSUME NEW c \in Callers, DropPending(c) PROVE IdInv'
  BY <1>7, <1>1 DEF DropPending, Return, TypeOK
<1>8. CASE ReaderStep \/ StopStep \/ CodexStep \/ UNCHANGED vars
  BY <1>8, <1>1 DEF ReaderStep, ReadLine, PopPending, PutReply, EndOfFile, StopStep,
     Terminate, StopFailsPending, CodexStep, Answer, Ask, Hang, Die, vars
<1> QED
  BY <1>2, <1>3, <1>4, <1>5, <1>6, <1>7, <1>8 DEF Next, CallStep

\* A registered entry has an empty queue and one owner; queues that were never
\* registered are empty.
LEMMA TableStep == IInv /\ [Next]_vars => TableInv'
<1> SUFFICES ASSUME IInv, [Next]_vars PROVE TableInv'
  OBVIOUS
<1> USE DEF IInv, IdInv, TableInv, TypeOK, pipes, calls
<1>1. Ids \subseteq Nat \ {0}
  BY NumberedIsFinite
<1>2. ASSUME NEW c \in Callers, CheckProcess(c) PROVE TableInv'
  BY <1>1, <1>2 DEF CheckProcess, Return
<1>3. ASSUME NEW c \in Callers, AddPending(c) PROVE TableInv'
  <2>1. nextId \in Ids
    BY <1>3, NextIdFits DEF AddPending
  <2>2. nextId \in Nat \ {0} /\ box[nextId] = {}
    <3>1. \A i \in Ids : box[i] # {} => i < nextId
      OBVIOUS
    <3> HIDE DEF IInv
    <3> QED BY <2>1, <1>1, <3>1
  <2> QED BY <1>1, <1>3, <2>1, <2>2 DEF AddPending
<1>4. ASSUME NEW c \in Callers, Send(c) PROVE TableInv'
  BY <1>1, <1>4 DEF Send, Return
<1>5. ASSUME NEW c \in Callers, Get(c) PROVE TableInv'
  <2>1. idOf[c] \in Ids /\ idOf[c] \notin pending
    BY <1>5 DEF Get
  <2> QED BY <1>1, <1>5, <2>1 DEF Get, Return
<1>6. ASSUME NEW c \in Callers, TimeOut(c) PROVE TableInv'
  BY <1>1, <1>6 DEF TimeOut
<1>7. ASSUME NEW c \in Callers, DropPending(c) PROVE TableInv'
  BY <1>1, <1>7 DEF DropPending, Return
<1>8. CASE ReadLine
  BY <1>8 DEF ReadLine
<1>9. CASE PopPending
  BY <1>9 DEF PopPending
<1>10. CASE PutReply
  BY <1>1, <1>10 DEF PutReply, ReaderInv
<1>11. CASE EndOfFile \/ StopFailsPending
  BY <1>11 DEF EndOfFile, StopFailsPending, FailAll
<1>12. ASSUME UNCHANGED <<nextId, idOf, pending, box, caller, result, reader, held>>,
              alive' = alive \/ ~alive'
       PROVE  TableInv'
  BY <1>12
<1>13. CASE Terminate \/ CodexStep \/ UNCHANGED vars
  <2>1. /\ UNCHANGED <<nextId, idOf, pending, box, caller, result, reader, held>>
        /\ alive' = alive \/ ~alive'
    <3> HIDE DEF IInv
    <3>1. CASE Terminate
      BY <3>1 DEF Terminate
    <3>2. CASE CodexStep
      BY <3>2 DEF CodexStep, Answer, Ask, Hang, Die
    <3>3. CASE UNCHANGED vars
      BY <3>3 DEF vars
    <3> QED BY <1>13, <3>1, <3>2, <3>3
  <2> HIDE DEF IInv, TableInv
  <2> QED BY <2>1, <1>12
<1> QED
  BY <1>2, <1>3, <1>4, <1>5, <1>6, <1>7, <1>8, <1>9, <1>10, <1>11, <1>13
     DEF Next, CallStep, ReaderStep, StopStep

\* Between taking an entry out of the table and filling its queue the reader
\* has that queue to itself.
LEMMA ReaderInvStep == IInv /\ [Next]_vars => ReaderInv'
<1> SUFFICES ASSUME IInv, [Next]_vars PROVE ReaderInv'
  OBVIOUS
<1> USE DEF IInv, ReaderInv, TypeOK, pipes, calls
<1>1. Ids \subseteq Nat \ {0}
  BY NumberedIsFinite
<1>2. ASSUME NEW c \in Callers, CallStep(c) PROVE ReaderInv'
  <2>1. CASE AddPending(c)
    <3>1. nextId \in Ids
      BY <2>1, NextIdFits DEF AddPending
    <3>2. nextId \in Nat /\ nextId' = nextId + 1 /\ pending' = pending \cup {nextId}
      BY <1>1, <2>1, <3>1 DEF AddPending
    <3>3. UNCHANGED <<reader, held, box>>
      BY <2>1 DEF AddPending
    <3>4. reader \in {"matched", "holding"} => held.id \in Nat
      BY <1>1
    <3> QED BY <3>2, <3>3, <3>4
  <2>2. CASE Get(c)
    BY <2>2 DEF Get
  <2>3. CASE CheckProcess(c) \/ Send(c) \/ TimeOut(c) \/ DropPending(c)
    BY <2>3 DEF CheckProcess, Send, TimeOut, DropPending, Return
  <2> QED BY <1>2, <2>1, <2>2, <2>3 DEF CallStep
<1>3. CASE ReadLine
  <2>1. Head(wire) \in Messages
    BY <1>3 DEF ReadLine
  <2> QED BY <1>3, <2>1 DEF ReadLine
<1>4. CASE PopPending
  BY <1>4 DEF PopPending, TableInv
<1>5. CASE PutReply \/ EndOfFile
  BY <1>5 DEF PutReply, EndOfFile
<1>6. CASE StopFailsPending
  BY <1>6 DEF StopFailsPending, FailAll
<1>7. CASE Terminate \/ CodexStep \/ UNCHANGED vars
  BY <1>7 DEF Terminate, CodexStep, Answer, Ask, Hang, Die, vars
<1> QED
  BY <1>2, <1>3, <1>4, <1>5, <1>6, <1>7 DEF Next, ReaderStep, StopStep

\* No step takes from a waiting call the last thing that could wake it.
LEMMA WakeStep == IInv /\ [Next]_vars => WakeInv'
<1> SUFFICES ASSUME IInv, [Next]_vars PROVE WakeInv'
  OBVIOUS
<1> USE DEF IInv, WakeInv, IdInv, TypeOK, pipes, calls
<1>1. Ids \subseteq Nat \ {0}
  BY NumberedIsFinite
<1>2. ASSUME NEW c \in Callers, CheckProcess(c) PROVE WakeInv'
  BY <1>2 DEF CheckProcess, Return
<1>3. ASSUME NEW c \in Callers, AddPending(c) PROVE WakeInv'
  <2>1. \A d \in Callers : d # c => idOf'[d] = idOf[d] /\ caller'[d] = caller[d]
    BY <1>3 DEF AddPending
  <2>2. idOf'[c] \in pending' /\ caller'[c] = "registered"
    BY <1>3 DEF AddPending
  <2>3. \A d \in Callers : caller[d] = "waiting" => idOf[d] < nextId
    OBVIOUS
  <2> QED BY <1>1, <1>3, <2>1, <2>2, <2>3, NextIdFits DEF AddPending
<1>4. ASSUME NEW c \in Callers, Send(c) PROVE WakeInv'
  BY <1>4 DEF Send, Return
<1>5. ASSUME NEW c \in Callers, Get(c) PROVE WakeInv'
  BY <1>5 DEF Get, Return
<1>6. ASSUME NEW c \in Callers, TimeOut(c) PROVE WakeInv'
  BY <1>6 DEF TimeOut
<1>7. ASSUME NEW c \in Callers, DropPending(c) PROVE WakeInv'
  BY <1>7 DEF DropPending, Return
<1>8. CASE ReadLine
  BY <1>8 DEF ReadLine
<1>9. CASE PopPending
  BY <1>9 DEF PopPending
<1>10. CASE PutReply
  BY <1>10 DEF PutReply, ReaderInv
<1>11. CASE EndOfFile \/ StopFailsPending
  <2>1. /\ UNCHANGED <<caller, idOf, held, alive>>
        /\ pending' = {}
        /\ reader = "holding" => reader' = "holding"
        /\ reader' = "ended" => ~alive
    BY <1>11 DEF EndOfFile, StopFailsPending
  <2>2. \A i \in Ids : i \in pending \/ box[i] # {} => box'[i] # {}
    BY <1>11 DEF EndOfFile, StopFailsPending, FailAll
  <2>3. \A c \in Callers : InCall(c) => idOf[c] \in Ids
    OBVIOUS
  <2> QED BY <2>1, <2>2, <2>3
<1>12. ASSUME UNCHANGED <<nextId, idOf, pending, box, caller, result, reader, held>>,
              alive' = alive \/ ~alive'
       PROVE  WakeInv'
  BY <1>12
<1>13. CASE Terminate \/ CodexStep \/ UNCHANGED vars
  <2>1. /\ UNCHANGED <<nextId, idOf, pending, box, caller, result, reader, held>>
        /\ alive' = alive \/ ~alive'
    <3> HIDE DEF IInv
    <3>1. CASE Terminate
      BY <3>1 DEF Terminate
    <3>2. CASE CodexStep
      BY <3>2 DEF CodexStep, Answer, Ask, Hang, Die
    <3>3. CASE UNCHANGED vars
      BY <3>3 DEF vars
    <3> QED BY <1>13, <3>1, <3>2, <3>3
  <2> HIDE DEF IInv, WakeInv
  <2> QED BY <2>1, <1>12
<1> QED
  BY <1>2, <1>3, <1>4, <1>5, <1>6, <1>7, <1>8, <1>9, <1>10, <1>11, <1>13
     DEF Next, CallStep, ReaderStep, StopStep

\* IInv is an inductive invariant of rpc.py's client.
THEOREM Inductive == Spec => []IInv
<1>1. IInv /\ [Next]_vars => IInv'
  BY TypeStep, IdStep, TableStep, ReaderInvStep, WakeStep DEF IInv
<1> QED BY <1>1, IInvInit, PTL DEF Spec

\* The client's state always has its type; in particular ids never run out.
THEOREM TypeCorrect == Spec => []TypeOK
<1>1. IInv => TypeOK
  BY DEF IInv
<1> QED BY <1>1, Inductive, PTL

\* Every entry of pending belongs to one call that is under way or could not
\* send: replies, timeouts and shutdowns leave none behind.
THEOREM TableIsOwned == Spec => []PendingIsOwned
<1>1. IInv => PendingIsOwned
  <2> SUFFICES ASSUME IInv, NEW i \in pending
               PROVE  \E c \in Callers : /\ idOf[c] = i
                                         /\ InCall(c) \/ result[c] = "error"
                                         /\ \A d \in Callers : idOf[d] = i => d = c
    BY DEF PendingIsOwned
  <2>1. i # 0
    BY NumberedIsFinite DEF IInv, TypeOK
  <2>2. PICK c \in Callers : idOf[c] = i /\ (InCall(c) \/ result[c] = "error")
    BY DEF IInv, TableInv
  <2>3. \A d \in Callers : idOf[d] = i => d = c
    BY <2>1, <2>2 DEF IInv, IdInv
  <2> QED BY <2>2, <2>3
<1> QED BY <1>1, Inductive, PTL

\* waiter.put never blocks the reader thread, on which every caller depends.
THEOREM ReaderRuns == Spec => []ReaderNeverBlocks
<1>1. IInv => ReaderNeverBlocks
  BY DEF IInv, ReaderInv, ReaderNeverBlocks
<1> QED BY <1>1, Inductive, PTL

\* After the reader has seen the end of codex's output, every waiting call has
\* something in its queue.
THEOREM CallersWake == Spec => []NobodyWaitsForTheDead
<1>1. IInv => NobodyWaitsForTheDead
  BY DEF IInv, WakeInv, NobodyWaitsForTheDead
<1> QED BY <1>1, Inductive, PTL
-----------------------------------------------------------------------------
(***************************************************************************)
(* Codex's own requests may bear any number, that of a pending call too.   *)
(***************************************************************************)
\* m is something codex has said, if it has sent these replies and requests.
IsGenuine(m, replies, requests) == m.id \in IF m.kind = "reply" THEN replies ELSE requests

MatchInv == /\ \A c \in Callers : caller[c] # "done" => result[c] = "none"
            /\ \A k \in 1..Len(wire) : IsGenuine(wire[k], answered, asked)
            /\ reader \in {"matched", "holding"} => IsGenuine(held, answered, asked)
            /\ RepliesMatch

\* Approval i was taken for the reply to call c, which gets no reply any more.
TakenBy(c, i) == /\ idOf[c] = i
                 /\ result[c] # "reply"
                 /\ i \in pending => reader = "matched" /\ held = [kind |-> "ask", id |-> i]
                 /\ [kind |-> "reply", id |-> i] \notin box[i]
                 /\ reader \in {"matched", "holding"} => held # [kind |-> "reply", id |-> i]

Taken(i) == i \in Ids /\ \E c \in Callers : TakenBy(c, i)

AskInv == \A i \in asked : i \in approvals \cup AskedIds \/ Taken(i)

\* What codex has said it has said for ever.
LEMMA SaidForEver == [Next]_vars => answered \subseteq answered' /\ asked \subseteq asked'
BY DEF Next, CallStep, ReaderStep, StopStep, CodexStep, CheckProcess, AddPending, Send, Get,
   TimeOut, DropPending, ReadLine, PopPending, PutReply, EndOfFile, Terminate,
   StopFailsPending, Answer, Ask, Hang, Die, vars, pipes, calls

LEMMA MatchStep == IInv /\ MatchInv /\ [Next]_vars => MatchInv'
<1> SUFFICES ASSUME IInv, MatchInv, [Next]_vars PROVE MatchInv'
  OBVIOUS
<1> USE DEF pipes, calls
<1>1. TypeOK /\ answered \subseteq answered' /\ asked \subseteq asked'
  BY SaidForEver DEF IInv
<1>2. \A m : IsGenuine(m, answered, asked) => IsGenuine(m, answered', asked')
  BY <1>1 DEF IsGenuine
<1>3. \A k \in 1..Len(wire') : IsGenuine(wire'[k], answered', asked')
  <2>1. CASE wire' = wire
    BY <1>2, <2>1 DEF MatchInv
  <2>2. CASE ReadLine
    <3>1. \A k \in 1..Len(wire') : k + 1 \in 1..Len(wire) /\ wire'[k] = wire[k + 1]
      BY <1>1, <2>2 DEF ReadLine, TypeOK
    <3> QED BY <1>2, <3>1 DEF MatchInv
  <2>3. ASSUME NEW m \in Messages, wire' = Append(wire, m), IsGenuine(m, answered', asked')
        PROVE  \A k \in 1..Len(wire') : IsGenuine(wire'[k], answered', asked')
    <3>1. \A k \in 1..Len(wire') : wire'[k] = m \/ (k \in 1..Len(wire) /\ wire'[k] = wire[k])
      BY <1>1, <2>3 DEF TypeOK
    <3> QED BY <1>2, <2>3, <3>1 DEF MatchInv
  <2>4. ASSUME NEW i \in Ids, Answer(i) PROVE \A k \in 1..Len(wire') : IsGenuine(wire'[k], answered', asked')
    BY <2>3, <2>4 DEF Answer, IsGenuine, Messages
  <2>5. ASSUME NEW i \in AskIds, Ask(i) PROVE \A k \in 1..Len(wire') : IsGenuine(wire'[k], answered', asked')
    BY <2>3, <2>5 DEF Ask, IsGenuine, Messages
  <2>6. wire' = wire \/ ReadLine \/ (\E i \in Ids : Answer(i)) \/ \E i \in AskIds : Ask(i)
    BY DEF Next, CallStep, ReaderStep, StopStep, CodexStep, CheckProcess, AddPending, Send,
       Get, TimeOut, DropPending, PopPending, PutReply, EndOfFile, Terminate,
       StopFailsPending, Hang, Die, vars
  <2> QED BY <2>1, <2>2, <2>4, <2>5, <2>6
<1>4. reader' \in {"matched", "holding"} => IsGenuine(held', answered', asked')
  <2>1. CASE ReadLine
    <3>1. Head(wire) = wire[1] /\ 1 \in 1..Len(wire)
      BY <1>1, <2>1 DEF ReadLine, TypeOK
    <3>2. IsGenuine(Head(wire), answered, asked)
      BY <3>1 DEF MatchInv
    <3>3. reader' \in {"matched", "holding"} => held' = Head(wire)
      BY <2>1 DEF ReadLine
    <3> QED BY <1>2, <3>2, <3>3
  <2>2. CASE held' = held /\ (reader' \in {"matched", "holding"} => reader \in {"matched", "holding"})
    BY <1>2, <2>2 DEF MatchInv
  <2>3. \/ ReadLine
        \/ held' = held /\ (reader' \in {"matched", "holding"} => reader \in {"matched", "holding"})
    BY DEF Next, CallStep, ReaderStep, StopStep, CodexStep, CheckProcess, AddPending, Send,
       Get, TimeOut, DropPending, PopPending, PutReply, EndOfFile, Terminate,
       StopFailsPending, Answer, Ask, Hang, Die, vars
  <2> QED BY <2>1, <2>2, <2>3
<1>5. RepliesMatch'
  <2> USE DEF MatchInv, RepliesMatch
  <2>1. ASSUME UNCHANGED <<box, result, idOf>> PROVE RepliesMatch'
    BY <1>1, <2>1
  <2>2. ASSUME NEW c \in Callers, CallStep(c) PROVE RepliesMatch'
    <3>1. CASE AddPending(c)
      <4>1. result'[c] = "none" /\ \A d \in Callers : d # c => idOf'[d] = idOf[d]
        BY <1>1, <3>1 DEF AddPending, TypeOK
      <4> QED BY <1>1, <3>1, <4>1 DEF AddPending
    <3>2. CASE TimeOut(c)
      BY <2>1, <3>2 DEF TimeOut
    <3>3. CASE Get(c)
      <4>1. idOf[c] \in Ids
        BY <3>3 DEF Get, IInv, IdInv, TypeOK
      <4>2. PICK m \in box[idOf[c]] : Return(c, m.kind)
        BY <3>3 DEF Get
      <4>3. /\ m.kind = "reply" => idOf[c] \in answered
            /\ m.kind = "ask" => idOf[c] \in asked
        BY <4>1 DEF Failed
      <4> QED BY <1>1, <3>3, <4>1, <4>2, <4>3 DEF Get, Return, TypeOK
    <3>4. CASE CheckProcess(c) \/ Send(c) \/ DropPending(c)
      BY <1>1, <3>4 DEF CheckProcess, Send, DropPending, Return, TypeOK
    <3> QED BY <2>2, <3>1, <3>2, <3>3, <3>4 DEF CallStep
  <2>3. CASE PutReply
    BY <1>1, <2>3 DEF PutReply, TypeOK, IsGenuine
  <2>4. CASE EndOfFile \/ StopFailsPending
    <3>1. UNCHANGED <<result, idOf, answered, asked>> /\ \E ids : FailAll(ids)
      BY <2>4 DEF EndOfFile, StopFailsPending
    <3> QED BY <3>1 DEF FailAll
  <2>5. CASE ReadLine \/ PopPending \/ Terminate \/ CodexStep \/ UNCHANGED vars
    BY <2>1, <2>5 DEF ReadLine, PopPending, Terminate, CodexStep, Answer, Ask, Hang, Die, vars
  <2> QED BY <2>2, <2>3, <2>4, <2>5 DEF Next, ReaderStep, StopStep
<1>6. \A c \in Callers : caller'[c] # "done" => result'[c] = "none"
  <2>1. ASSUME NEW c \in Callers, CallStep(c)
        PROVE  \A d \in Callers : caller'[d] # "done" => result'[d] = "none"
    BY <1>1, <2>1 DEF MatchInv, TypeOK, CallStep, CheckProcess, AddPending, Send, Get, TimeOut,
       DropPending, Return
  <2>2. CASE UNCHANGED <<caller, result>>
    BY <2>2 DEF MatchInv
  <2>3. UNCHANGED <<caller, result>> \/ \E c \in Callers : CallStep(c)
    BY DEF Next, ReaderStep, StopStep, CodexStep, ReadLine, PopPending, PutReply, EndOfFile,
       Terminate, StopFailsPending, Answer, Ask, Hang, Die, vars
  <2> QED BY <2>1, <2>2, <2>3
<1> QED BY <1>3, <1>4, <1>5, <1>6 DEF MatchInv

\* What was taken for a reply stays the whole answer of that call.
LEMMA TakenStays ==
    ASSUME IInv, MatchInv, [Next]_vars, NEW i \in Ids, NEW c \in Callers, TakenBy(c, i)
    PROVE  TakenBy(c, i)'
<1> USE DEF IInv, TypeOK, TakenBy, pipes, calls
<1>1. i # 0 /\ i < nextId /\ nextId \in Nat /\ i \in Nat /\ Failed # [kind |-> "reply", id |-> i]
  BY NumberedIsFinite DEF IdInv, Failed
<1>2. ASSUME NEW d \in Callers, CallStep(d) PROVE TakenBy(c, i)'
  <2>1. CASE AddPending(d)
    BY <1>1, <2>1 DEF AddPending, IdInv
  <2>2. CASE Get(d)
    <3>1. PICK m \in box[idOf[d]] : Return(d, m.kind)
      BY <2>2 DEF Get
    <3>2. d = c => m.kind # "reply"
      <4> SUFFICES ASSUME d = c PROVE m.kind # "reply"
        OBVIOUS
      <4>1. m \in box[i] /\ m \in Messages \cup {Failed} /\ m # [kind |-> "reply", id |-> i]
        BY <3>1
      <4>2. m = Failed \/ m.id = i
        BY <4>1 DEF MatchInv, RepliesMatch
      <4> HIDE DEF IInv, TypeOK, TakenBy
      <4> QED BY <4>1, <4>2 DEF Messages, Failed
    <3> QED BY <2>2, <3>1, <3>2 DEF Get, Return
  <2>3. CASE CheckProcess(d) \/ Send(d) \/ TimeOut(d) \/ DropPending(d)
    BY <2>3 DEF CheckProcess, Send, TimeOut, DropPending, Return
  <2> QED BY <1>2, <2>1, <2>2, <2>3 DEF CallStep
<1>3. CASE ReadLine
  BY <1>3 DEF ReadLine
<1>4. CASE PopPending
  BY <1>4 DEF PopPending
<1>5. CASE PutReply
  BY <1>5 DEF PutReply
<1>6. CASE EndOfFile \/ StopFailsPending
  BY <1>1, <1>6 DEF EndOfFile, StopFailsPending, FailAll
<1>7. CASE Terminate \/ CodexStep \/ UNCHANGED vars
  BY <1>7 DEF Terminate, CodexStep, Answer, Ask, Hang, Die, vars
<1> QED BY <1>2, <1>3, <1>4, <1>5, <1>6, <1>7 DEF Next, ReaderStep, StopStep

LEMMA AskStep == IInv /\ MatchInv /\ AskInv /\ [Next]_vars => AskInv'
<1> SUFFICES ASSUME IInv, MatchInv, AskInv, [Next]_vars PROVE AskInv'
  OBVIOUS
<1> USE DEF pipes, calls
<1>1. wire \in Seq(Messages) /\ pending \subseteq Ids /\ asked \subseteq AskIds
  BY DEF IInv, TypeOK
<1>2. \A i : Taken(i) => Taken(i)'
  BY TakenStays DEF Taken
<1>3. ASSUME asked' = asked, approvals \subseteq approvals', AskedIds \subseteq AskedIds'
      PROVE  AskInv'
  BY <1>2, <1>3 DEF AskInv
<1>4. ASSUME NEW m \in Messages, wire' = Append(wire, m)
      PROVE  AskedIds \cup (IF m.kind = "ask" THEN {m.id} ELSE {}) \subseteq AskedIds'
  <2>1. \A k \in 1..Len(wire) : k \in 1..Len(wire') /\ wire'[k] = wire[k]
    BY <1>1, <1>4
  <2>2. Len(wire') \in 1..Len(wire') /\ wire'[Len(wire')] = m
    BY <1>1, <1>4
  <2> QED BY <2>1, <2>2 DEF AskedIds
<1>5. CASE ReadLine
  <2>1. Head(wire) \in Messages /\ Head(wire) = wire[1]
    BY <1>1, <1>5 DEF ReadLine
  <2>2. \A k \in 1..Len(wire) :
            k # 1 => k - 1 \in 1..Len(wire') /\ wire'[k - 1] = wire[k]
    BY <1>1, <1>5 DEF ReadLine
  <2>3. ASSUME NEW i \in AskedIds
        PROVE  i \in AskedIds' \/ (Head(wire).kind = "ask" /\ Head(wire).id = i)
    <3>1. PICK k \in 1..Len(wire) : wire[k].kind = "ask" /\ wire[k].id = i
      BY DEF AskedIds
    <3>2. CASE k = 1
      BY <2>1, <3>1, <3>2
    <3>3. CASE k # 1
      BY <2>2, <3>1, <3>3 DEF AskedIds
    <3> QED BY <3>2, <3>3
  <2>4. approvals \subseteq approvals' /\ asked' = asked
    BY <1>5 DEF ReadLine
  <2>5. ASSUME NEW i \in pending, Head(wire) = [kind |-> "ask", id |-> i]
        PROVE  Taken(i)'
    <3>1. i \in Ids /\ box[i] = {}
      BY DEF IInv, TypeOK, TableInv
    <3>2. PICK c \in Callers : idOf[c] = i /\ (InCall(c) \/ result[c] = "error")
      BY DEF IInv, TableInv
    <3>3. result[c] # "reply"
      BY <3>2 DEF MatchInv
    <3>4. /\ reader' = "matched" /\ held' = [kind |-> "ask", id |-> i]
          /\ UNCHANGED <<idOf, result, box>>
      <4>1. Head(wire).id \in pending
        BY <2>5
      <4>2. reader' = "matched" /\ held' = Head(wire) /\ UNCHANGED <<idOf, result, box>>
        BY <1>5, <4>1 DEF ReadLine
      <4> QED BY <2>5, <4>2
    <3>5. TakenBy(c, i)'
      BY <3>1, <3>2, <3>3, <3>4 DEF TakenBy
    <3> QED BY <3>1, <3>5 DEF Taken
  <2>6. ASSUME NEW i, Head(wire) = [kind |-> "ask", id |-> i]
        PROVE  i \in approvals' \/ Taken(i)'
    <3>1. CASE i \in pending
      BY <2>5, <2>6, <3>1
    <3>2. CASE i \notin pending
      BY <1>5, <2>6, <3>2 DEF ReadLine
    <3> QED BY <3>1, <3>2
  <2>7. \A i : Head(wire).kind = "ask" /\ Head(wire).id = i => Head(wire) = [kind |-> "ask", id |-> i]
    BY <2>1 DEF Messages
  <2> QED BY <1>2, <2>3, <2>4, <2>6, <2>7 DEF AskInv
<1>6. ASSUME NEW i \in Ids, Answer(i) PROVE AskInv'
  <2>1. [kind |-> "reply", id |-> i] \in Messages
    BY DEF Messages
  <2> QED BY <1>3, <1>4, <1>6, <2>1 DEF Answer
<1>7. ASSUME NEW i \in AskIds, Ask(i) PROVE AskInv'
  <2>1. [kind |-> "ask", id |-> i] \in Messages
    BY DEF Messages
  <2>2. i \in AskedIds' /\ AskedIds \subseteq AskedIds'
    BY <1>4, <1>7, <2>1 DEF Ask
  <2> QED BY <1>2, <1>7, <2>2 DEF Ask, AskInv
<1>8. CASE UNCHANGED <<wire, asked, approvals>>
  BY <1>3, <1>8 DEF AskedIds
<1>9. \/ ReadLine \/ UNCHANGED <<wire, asked, approvals>>
      \/ (\E i \in Ids : Answer(i)) \/ \E i \in AskIds : Ask(i)
  BY DEF Next, CallStep, ReaderStep, StopStep, CodexStep, CheckProcess, AddPending, Send, Get,
     TimeOut, DropPending, PopPending, PutReply, EndOfFile, Terminate, StopFailsPending,
     Hang, Die, vars
<1> QED BY <1>5, <1>6, <1>7, <1>8, <1>9

\* Whatever numbers codex gives its own requests, the lines are matched so.
THEOREM MatchInductive == Spec => [](MatchInv /\ AskInv)
<1>1. Init => MatchInv /\ AskInv
  BY NumberedIsFinite DEF Init, MatchInv, RepliesMatch, AskInv
<1>2. IInv /\ MatchInv /\ AskInv /\ [Next]_vars => (MatchInv /\ AskInv)'
  BY MatchStep, AskStep
<1> QED BY <1>1, <1>2, Inductive, PTL DEF Spec

\* A call returns codex's reply to its own request, whatever is late, lost or
\* out of order; only a request of codex's own under its number can take the
\* place of the reply.
THEOREM RepliesReachTheirCalls == Spec => []RepliesMatch
<1>1. MatchInv => RepliesMatch
  BY DEF MatchInv
<1> QED BY <1>1, MatchInductive, PTL

\* Every approval codex asks for reaches on_event or is on its way, unless it is
\* taken for the reply to a pending call, which then never gets its own.
THEOREM ApprovalsReachTheHost == Spec => []ApprovalsArrive
<1>1. AskInv => ApprovalsArrive
  <2> SUFFICES ASSUME AskInv, NEW i \in asked, i \notin approvals \cup AskedIds
               PROVE  Swallowed(i)
    BY DEF ApprovalsArrive
  <2>1. PICK c \in Callers : TakenBy(c, i)
    BY DEF AskInv, Taken
  <2> QED BY <2>1 DEF TakenBy, Swallowed
<1> QED BY <1>1, MatchInductive, PTL
=============================================================================
