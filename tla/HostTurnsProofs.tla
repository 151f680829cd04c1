--------------------------- MODULE HostTurnsProofs ---------------------------
(***************************************************************************)
(* Proofs about HostTurns, for any calls, requests and limit: what a call  *)
(* is told of its turn, and what a repeated call does.                     *)
(***************************************************************************)
EXTENDS HostTurns, IdQueueLemmas

\* The client waits for an answer, or for the end of the connection, before it
\* sends a request again.
Patient == ~Overlap

\* No two messages have the same text; that of a command is no message.
TextsDiffer == \A r, s \in Requests \ Commands : TextOf[r] = TextOf[s] => r = s

\* What can be remembered, and answered.
Kept    == {Nothing} \cup [kind : {"started", "unconfirmed", "command"}, turn : Nat]
Answers == Kept \cup {Answer("error", 0)}

Given(answer) == answer.kind \notin {"none", "error"}
Active(c) == at[c] \notin {"idle", "done"}

\* answer is about no turn of ts, or about one that was started for r.
Owns(ts, r, answer) ==
    answer.turn # 0 => answer.turn \in 1..Len(ts) /\ RequestOf[ts[answer.turn]] = r
-----------------------------------------------------------------------------
MemoryTyped == /\ idempotency \in [Requests -> Kept]
               /\ order \in Seq(Requests) /\ Distinct(order) /\ Len(order) <= CacheLimit
               /\ forgotten \in SUBSET Requests

Typed == /\ at \in [Calls -> Points]
         /\ turnOf \in [Calls -> Nat]
         /\ response \in [Calls -> Answers]
         /\ MemoryTyped
         /\ resumed \in BOOLEAN
         /\ turns \in Seq(Calls)
         /\ visible \in SUBSET (1..Len(turns))

\* What has happened to a call by the point it has reached.
PhaseInv ==
    /\ \A c \in Calls : /\ at[c] \in {"ready", "confirming"} => RequestOf[c] \notin Commands
                        /\ at[c] # "done" => response[c] = Nothing
                        /\ at[c] = "done" => response[c].kind # "none"
    /\ \A i \in 1..Len(turns) : at[turns[i]] \in {"confirming", "done"}

\* Turns are started for messages, and nobody is told of one of another request.
TurnInv ==
    /\ \A i \in 1..Len(turns) : RequestOfTurn(i) \notin Commands
    /\ \A c \in Calls : turnOf[c] # 0 =>
          turnOf[c] \in 1..Len(turns) /\ RequestOfTurn(turnOf[c]) = RequestOf[c]
    /\ \A c \in Calls : Owns(turns, RequestOf[c], response[c])
    /\ \A r \in Requests : Owns(turns, r, idempotency[r])

Shown(r) == \E t \in visible : RequestOfTurn(t) = r

\* "started" is said, and remembered, of what Codex shows.
ShownInv ==
    /\ \A c \in Calls : response[c].kind = "started" => Shown(RequestOf[c])
    /\ \A r \in Requests : idempotency[r].kind = "started" => Shown(r)

\* One call of a request is under way at a time, and only while no answer is
\* remembered; one that was given is the one that is remembered, or forgotten; and
\* the call that started a turn had failed, or its answer was forgotten, before
\* another one of the same request was started.
AloneInv ==
    /\ \A c, d \in Calls : RequestOf[c] = RequestOf[d] /\ Active(c) /\ Active(d) => c = d
    /\ \A c \in Calls : Active(c) => idempotency[RequestOf[c]] = Nothing
    /\ \A c \in Calls : Given(response[c]) => \/ response[c] = idempotency[RequestOf[c]]
                                              \/ RequestOf[c] \in forgotten
    /\ RepeatsStartNothing

IInv == /\ Typed
        /\ PhaseInv
        /\ TurnInv
        /\ TextsDiffer => ShownInv
        /\ Patient => AloneInv
-----------------------------------------------------------------------------
USE RoutesAssumption, LimitsAssumption DEF Points

\* What _remember_result does to the memory, whatever it pushes out: r is
\* remembered, every other response is kept, or forgotten.
LEMMA Remembers ==
    ASSUME MemoryTyped, NEW r \in Requests, NEW answer \in Kept, Remember(r, answer)
    PROVE  /\ MemoryTyped'
           /\ forgotten \subseteq forgotten'
           /\ \A s \in Requests :
                 \/ idempotency'[s] = (IF s = r THEN answer ELSE idempotency[s])
                 \/ idempotency'[s] = Nothing /\ s \in forgotten'
<1> DEFINE kept == Append(Without(order, r), r)
           full == Len(kept) > CacheLimit
<1>1. /\ Without(order, r) \in Seq(Requests)
      /\ Len(Without(order, r)) \in Nat /\ Len(Without(order, r)) <= CacheLimit
      /\ Distinct(Without(order, r))
      /\ r \notin Elems(Without(order, r))
  BY WithoutRemoves DEF MemoryTyped
<1>2. kept \in Seq(Requests) /\ Distinct(kept) /\ Len(kept) <= CacheLimit + 1 /\ kept # <<>>
  BY <1>1, AppendAdds
<1>3. /\ order' = IF full THEN Tail(kept) ELSE kept
      /\ forgotten' = forgotten \cup (IF full THEN {Head(kept)} ELSE {})
      /\ idempotency' = [s \in Requests |->
                           IF full /\ s = Head(kept) THEN Nothing
                           ELSE IF s = r THEN answer ELSE idempotency[s]]
  BY DEF Remember
<1> HIDE DEF kept
<1>4. Head(kept) \in Requests /\ Tail(kept) \in Seq(Requests) /\ Distinct(Tail(kept))
  BY <1>2, TailDrops
<1>5. Len(Tail(kept)) = Len(kept) - 1 /\ Len(kept) \in Nat
  BY <1>2
<1>6. idempotency' \in [Requests -> Kept]
  BY <1>3 DEF MemoryTyped, Kept
<1> QED BY <1>2, <1>3, <1>4, <1>5, <1>6 DEF MemoryTyped

LEMMA AnswersTyped ==
    /\ Nothing \in Kept /\ Kept \subseteq Answers
    /\ \A n \in Nat : /\ Answer("started", n) \in Kept
                      /\ Answer("unconfirmed", n) \in Kept
                      /\ Answer("command", n) \in Kept
    /\ Answer("error", 0) \in Answers
  BY DEF Kept, Answers, Answer

\* The type invariant of the specification follows.
LEMMA TypedIsTypeOK == Typed => TypeOK
<1> SUFFICES ASSUME Typed PROVE TypeOK
  OBVIOUS
<1>1. Kept \subseteq [kind : {"none", "started", "unconfirmed", "command"}, turn : Nat]
  BY DEF Kept, Nothing, Answer
<1>2. Answers \subseteq [kind : {"none", "started", "unconfirmed", "command", "error"}, turn : Nat]
  BY DEF Answers, Kept, Nothing, Answer
<1>3. /\ response \in [Calls -> [kind : {"none", "started", "unconfirmed", "command", "error"}, turn : Nat]]
      /\ idempotency \in [Requests -> [kind : {"none", "started", "unconfirmed", "command"}, turn : Nat]]
  BY <1>1, <1>2 DEF Typed, MemoryTyped
<1> QED BY <1>3 DEF Typed, MemoryTyped, TypeOK

LEMMA InitHolds == Init => IInv
<1> SUFFICES ASSUME Init PROVE IInv
  OBVIOUS
<1>1. Typed
  <2>1. MemoryTyped
    <3>1. /\ <<>> \in Seq(Requests) /\ Len(<<>>) = 0 /\ Distinct(<<>>)
      BY DEF Distinct
    <3> QED BY <3>1, AnswersTyped DEF Init, MemoryTyped
  <2>2. response \in [Calls -> Answers] /\ turns \in Seq(Calls)
    BY AnswersTyped DEF Init
  <2> QED BY <2>1, <2>2 DEF Init, Typed
<1>2. PhaseInv /\ TurnInv /\ ShownInv /\ AloneInv
  BY DEF Init, PhaseInv, TurnInv, ShownInv, AloneInv, RepeatsStartNothing, Owns, Nothing, Answer,
         Given, Active
<1> QED BY <1>1, <1>2 DEF IInv
-----------------------------------------------------------------------------
\* Delivering an answer keeps the types.
LEMMA DeliverType ==
    ASSUME Typed, NEW c \in Calls, NEW answer \in Kept, Deliver(c, answer),
           UNCHANGED <<resumed, turns, visible>>
    PROVE  Typed'
<1> USE AnswersTyped DEF Typed
<1>1. RequestOf[c] \in Requests
  OBVIOUS
<1>2. CASE Fail(c)
  BY <1>2 DEF Fail, Respond, memory, MemoryTyped
<1>3. CASE Respond(c, answer) /\ Remember(RequestOf[c], answer) /\ UNCHANGED turnOf
  <2>1. MemoryTyped'
    BY <1>1, <1>3, Remembers
  <2> QED BY <1>3, <2>1 DEF Respond
<1> QED BY <1>2, <1>3 DEF Deliver

\* Each step of a call keeps the types.
LEMMA TypeStep == ASSUME Typed, NEW c \in Calls, CallStep(c) PROVE Typed'
<1> USE AnswersTyped DEF Typed
<1>0. RequestOf[c] \in Requests /\ turnOf[c] \in Nat /\ Len(turns) \in Nat
  OBVIOUS
<1>1. CASE Lookup(c)
  <2>1. idempotency[RequestOf[c]] \in Answers
    BY <1>0 DEF MemoryTyped
  <2> QED BY <1>1, <2>1 DEF Lookup, Respond, memory, codex, MemoryTyped
<1>2. CASE RunCommand(c)
  <2>1. CASE Fail(c)
    BY <1>2, <2>1 DEF RunCommand, Fail, Respond, memory, codex, MemoryTyped
  <2>2. CASE ~Fail(c)
    <3>1. Remember(RequestOf[c], Answer("command", 0))
      BY <1>2, <2>2 DEF RunCommand
    <3>2. MemoryTyped'
      BY <1>0, <3>1, Remembers
    <3> QED BY <1>2, <2>2, <3>2 DEF RunCommand, Respond, codex
  <2> QED BY <2>1, <2>2
<1>3. CASE Resume(c)
  BY <1>3 DEF Resume, Fail, Respond, memory, codex, MemoryTyped
<1>4. CASE StartTurn(c)
  <2>1. /\ Append(turns, c) \in Seq(Calls)
        /\ Len(Append(turns, c)) = Len(turns) + 1
        /\ 1..Len(turns) \subseteq 1..(Len(turns) + 1)
    BY <1>0
  <2>2. turns' \in Seq(Calls) /\ visible' \in SUBSET (1..Len(turns'))
    BY <1>0, <1>4, <2>1 DEF StartTurn
  <2>3. MemoryTyped' /\ resumed' = resumed
    BY <1>4 DEF StartTurn, Fail, memory, MemoryTyped
  <2>4. at' \in [Calls -> Points]
    BY <1>4 DEF StartTurn, Fail, Respond
  <2>5. turnOf' \in [Calls -> Nat]
    BY <1>0, <1>4 DEF StartTurn, Fail
  <2>6. response' \in [Calls -> Answers]
    BY <1>4 DEF StartTurn, Fail, Respond
  <2> QED BY <2>2, <2>3, <2>4, <2>5, <2>6
<1>5. CASE Confirm(c)
  <2>1. Answer("started", turnOf[c]) \in Kept /\ Deliver(c, Answer("started", turnOf[c]))
    BY <1>0, <1>5 DEF Confirm
  <2>2. UNCHANGED <<resumed, turns, visible>>
    BY <1>5 DEF Confirm, codex
  <2> QED BY <2>1, <2>2, DeliverType
<1>6. CASE GiveUp(c)
  <2>1. Answer("unconfirmed", turnOf[c]) \in Kept /\ Deliver(c, Answer("unconfirmed", turnOf[c]))
    BY <1>0, <1>6 DEF GiveUp
  <2>2. UNCHANGED <<resumed, turns, visible>>
    BY <1>6 DEF GiveUp, codex
  <2> QED BY <2>1, <2>2, DeliverType
<1> QED BY <1>1, <1>2, <1>3, <1>4, <1>5, <1>6 DEF CallStep

\* Codex writing a turn down, too.
LEMMA PersistType == ASSUME Typed, NEW t \in 1..Len(turns), Persist(t) PROVE Typed'
  BY DEF Typed, Persist, memory, MemoryTyped

\* A turn keeps its number, and every new one belongs to the call that steps.
LEMMA TurnsGrow == ASSUME Typed, NEW c \in Calls, CallStep(c)
                   PROVE  /\ Len(turns) <= Len(turns') /\ Len(turns) \in Nat /\ Len(turns') \in Nat
                          /\ \A i \in 1..Len(turns) : turns'[i] = turns[i]
                          /\ \A i \in 1..Len(turns') : i \in 1..Len(turns) \/ turns'[i] = c
                          /\ visible' = visible
<1>1. CASE StartTurn(c)
  <2>1. turns' \in {turns, Append(turns, c)} /\ visible' = visible
    BY <1>1 DEF StartTurn
  <2>2. CASE turns' = turns BY <2>1, <2>2 DEF Typed
  <2>3. CASE turns' = Append(turns, c)
    <3>1. turns \in Seq(Calls) BY DEF Typed
    <3> QED BY <2>1, <2>3, <3>1
  <2> QED BY <2>1, <2>2, <2>3
<1>2. CASE ~StartTurn(c)
  BY <1>2 DEF CallStep, Lookup, RunCommand, Resume, Confirm, GiveUp, codex, Typed
<1> QED BY <1>1, <1>2

\* A call responds once, with something.
LEMMA RespondPhase ==
    ASSUME Typed, PhaseInv, NEW c \in Calls, NEW answer \in Answers, answer.kind # "none",
           Respond(c, answer), UNCHANGED turns
    PROVE  PhaseInv'
  BY DEF Typed, PhaseInv, Respond

LEMMA PhaseStep == ASSUME Typed, PhaseInv, NEW c \in Calls, CallStep(c) PROVE PhaseInv'
<1> USE AnswersTyped DEF Typed
<1>0. Len(turns) \in Nat /\ turnOf[c] \in Nat
  OBVIOUS
<1>1. \A kind : Answer(kind, 0).kind = kind /\ Answer(kind, turnOf[c]).kind = kind
  BY DEF Answer
\* An error.
<1>2. ASSUME Fail(c), UNCHANGED turns PROVE PhaseInv'
  BY <1>1, <1>2, RespondPhase DEF Fail
\* An answer that is logged first.
<1>3. ASSUME NEW answer \in Kept, answer.kind # "none", Deliver(c, answer), UNCHANGED turns
      PROVE  PhaseInv'
  BY <1>2, <1>3, RespondPhase DEF Deliver
<1>4. CASE Lookup(c)
  <2>1. CASE idempotency[RequestOf[c]] # Nothing
    <3>1. /\ idempotency[RequestOf[c]] \in Answers /\ idempotency[RequestOf[c]].kind # "none"
          /\ Respond(c, idempotency[RequestOf[c]]) /\ UNCHANGED turns
      BY <1>4, <2>1 DEF Lookup, codex, MemoryTyped, Kept
    <3> QED BY <3>1, RespondPhase
  <2>2. CASE idempotency[RequestOf[c]] = Nothing
    BY <1>4, <2>2 DEF Lookup, Begins, codex, PhaseInv
  <2> QED BY <2>1, <2>2
<1>5. CASE RunCommand(c)
  BY <1>1, <1>2, <1>5, RespondPhase DEF RunCommand, codex
<1>6. CASE Resume(c)
  <2>1. CASE Fail(c)
    BY <1>2, <1>6, <2>1 DEF Resume, codex
  <2>2. CASE ~Fail(c)
    BY <1>6, <2>2 DEF Resume, codex, PhaseInv
  <2> QED BY <2>1, <2>2
<1>7. CASE StartTurn(c)
  <2>1. CASE Fail(c) /\ UNCHANGED turns
    BY <1>2, <2>1
  <2>2. CASE turns' = Append(turns, c)
    <3>1. /\ \A i \in 1..Len(turns) : turns'[i] = turns[i]
          /\ \A i \in 1..Len(turns') : i \in 1..Len(turns) \/ turns'[i] = c
      BY <1>7, TurnsGrow DEF CallStep
    <3>2. /\ \/ at' = [at EXCEPT ![c] = "confirming"] /\ UNCHANGED response
             \/ at' = [at EXCEPT ![c] = "done"]
                /\ response' = [response EXCEPT ![c] = Answer("error", 0)]
          /\ at[c] = "ready"
      BY <1>7 DEF StartTurn, Fail, Respond
    <3>3. at'[c] \in {"confirming", "done"}
      BY <3>2
    <3>4. \A d \in Calls : at[d] \in {"confirming", "done"} => at'[d] \in {"confirming", "done"}
      BY <3>2
    <3>5. \A i \in 1..Len(turns) : turns[i] \in Calls
      OBVIOUS
    <3>6. \A i \in 1..Len(turns') : at'[turns'[i]] \in {"confirming", "done"}
      BY <3>1, <3>3, <3>4, <3>5 DEF PhaseInv
    <3> QED BY <1>1, <3>2, <3>6 DEF PhaseInv
  <2> QED BY <1>7, <2>1, <2>2 DEF StartTurn
<1>8. CASE Confirm(c)
  BY <1>0, <1>1, <1>3, <1>8 DEF Confirm, codex
<1>9. CASE GiveUp(c)
  BY <1>0, <1>1, <1>3, <1>9 DEF GiveUp, codex
<1> QED BY <1>4, <1>5, <1>6, <1>7, <1>8, <1>9 DEF CallStep

LEMMA TurnStep == ASSUME Typed, PhaseInv, TurnInv, NEW c \in Calls, CallStep(c) PROVE TurnInv'
<1> USE DEF Typed
<1>0. RequestOf[c] \in Requests /\ Typed'
  BY TypeStep
\* What was somebody's turn still is.
<1>1. ASSUME NEW r, NEW answer \in Answers, Owns(turns, r, answer) PROVE Owns(turns', r, answer)
  BY <1>1, TurnsGrow, AnswersTyped DEF Owns
<1>2. \A i \in 1..Len(turns') : RequestOf[turns'[i]] \notin Commands
  <2>1. CASE StartTurn(c)
    BY <2>1, TurnsGrow DEF StartTurn, PhaseInv, TurnInv, RequestOfTurn
  <2>2. CASE ~StartTurn(c)
    BY <2>2 DEF CallStep, Lookup, RunCommand, Resume, Confirm, GiveUp, codex, TurnInv,
               RequestOfTurn
  <2> QED BY <2>1, <2>2
<1>3. \A d \in Calls : turnOf'[d] # 0 => /\ turnOf'[d] \in 1..Len(turns')
                                         /\ RequestOf[turns'[turnOf'[d]]] = RequestOf[d]
  <2>1. \A d \in Calls : turnOf'[d] # turnOf[d] => /\ d = c /\ turnOf'[d] = Len(turns) + 1
                                                  /\ turns' = Append(turns, c)
    BY DEF CallStep, Lookup, RunCommand, Resume, StartTurn, Confirm, GiveUp, Deliver, Fail
  <2> QED BY <2>1, TurnsGrow DEF TurnInv, RequestOfTurn
\* What is answered, and remembered, is about no turn, about the call's own, or
\* about what was remembered.
<1> DEFINE Tells(answer) ==
             /\ Owns(turns', RequestOf[c], answer)
             /\ \A d \in Calls : response'[d] = response[d] \/ (d = c /\ response'[d] = answer)
             /\ \A s \in Requests : \/ idempotency'[s] \in {idempotency[s], Nothing}
                                    \/ s = RequestOf[c] /\ idempotency'[s] = answer
<1>4. \E answer \in Answers : Tells(answer)
  <2>1. CASE Lookup(c)
    <3>1. idempotency[RequestOf[c]] \in Answers /\ Owns(turns, RequestOf[c], idempotency[RequestOf[c]])
      BY <1>0, AnswersTyped DEF MemoryTyped, TurnInv
    <3>2. Owns(turns', RequestOf[c], idempotency[RequestOf[c]])
      BY <2>1, <3>1, <1>1 DEF Lookup, memory
    <3> QED BY <2>1, <3>1, <3>2 DEF Lookup, Respond, memory
\* An error.
  <2>2. ASSUME UNCHANGED memory, UNCHANGED response \/ Respond(c, Answer("error", 0))
        PROVE  \E answer \in Answers : Tells(answer)
    <3>1. Answer("error", 0) \in Answers /\ Owns(turns', RequestOf[c], Answer("error", 0))
      BY AnswersTyped DEF Owns, Answer
    <3> QED BY <2>2, <3>1 DEF Respond, memory
\* A response that is remembered.
  <2>3. ASSUME NEW answer \in Kept, Owns(turns', RequestOf[c], answer),
               Respond(c, answer), Remember(RequestOf[c], answer)
        PROVE  Tells(answer) /\ answer \in Answers
    <3>1. \A s \in Requests : \/ idempotency'[s] = (IF s = RequestOf[c] THEN answer ELSE idempotency[s])
                              \/ idempotency'[s] = Nothing
      BY <1>0, <2>3, Remembers
    <3> QED BY <2>3, <3>1, AnswersTyped DEF Respond
  <2>4. CASE RunCommand(c)
    <3>1. Answer("command", 0) \in Kept /\ Owns(turns', RequestOf[c], Answer("command", 0))
      BY AnswersTyped DEF Owns, Answer
    <3> QED BY <2>2, <2>3, <2>4, <3>1 DEF RunCommand, Fail
  <2>5. CASE Resume(c) \/ StartTurn(c)
    BY <2>2, <2>5 DEF Resume, StartTurn, Fail
  <2>6. CASE Confirm(c)
    <3>1. Answer("started", turnOf[c]) \in Kept /\ Owns(turns', RequestOf[c], Answer("started", turnOf[c]))
      <4>1. turnOf'[c] = turnOf[c] /\ turnOf[c] \in Nat
        BY <2>6 DEF Confirm, Deliver, Fail
      <4> QED BY <1>3, <4>1, AnswersTyped DEF Owns, Answer
    <3>2. Deliver(c, Answer("started", turnOf[c]))
      BY <2>6 DEF Confirm
    <3> QED BY <2>2, <2>3, <3>1, <3>2 DEF Deliver, Fail
  <2>7. CASE GiveUp(c)
    <3>1. Answer("unconfirmed", turnOf[c]) \in Kept /\ Owns(turns', RequestOf[c], Answer("unconfirmed", turnOf[c]))
      <4>1. turnOf'[c] = turnOf[c] /\ turnOf[c] \in Nat
        BY <2>7 DEF GiveUp, Deliver, Fail
      <4> QED BY <1>3, <4>1, AnswersTyped DEF Owns, Answer
    <3>2. Deliver(c, Answer("unconfirmed", turnOf[c]))
      BY <2>7 DEF GiveUp
    <3> QED BY <2>2, <2>3, <3>1, <3>2 DEF Deliver, Fail
  <2> QED BY <2>1, <2>4, <2>5, <2>6, <2>7 DEF CallStep
<1>5. Owns(turns', RequestOf[c], Nothing) /\ \A r : Owns(turns', r, Nothing)
  BY DEF Owns, Nothing, Answer
<1> PICK answer \in Answers : Tells(answer)
  BY <1>4
<1>6. \A d \in Calls : Owns(turns', RequestOf[d], response'[d])
  BY <1>1 DEF TurnInv
<1>7. \A r \in Requests : Owns(turns', r, idempotency'[r])
  <2> SUFFICES ASSUME NEW r \in Requests PROVE Owns(turns', r, idempotency'[r])
    OBVIOUS
  <2>1. idempotency[r] \in Answers /\ Owns(turns, r, idempotency[r])
    BY AnswersTyped DEF MemoryTyped, TurnInv
  <2> QED BY <2>1, <1>1, <1>5
<1> QED BY <1>2, <1>3, <1>6, <1>7 DEF TurnInv, RequestOfTurn

\* What is visible stays so, and shows the same.
LEMMA ShownStays == ASSUME Typed, NEW c \in Calls, CallStep(c), NEW r, Shown(r) PROVE Shown(r)'
<1>1. PICK t \in visible : RequestOf[turns[t]] = r
  BY DEF Shown, RequestOfTurn
<1>2. t \in visible' /\ RequestOf[turns'[t]] = r
  BY <1>1, TurnsGrow DEF Typed
<1> QED BY <1>2 DEF Shown, RequestOfTurn

LEMMA ShownStep == ASSUME Typed, PhaseInv, TurnInv, TextsDiffer, ShownInv, NEW c \in Calls, CallStep(c)
                   PROVE  ShownInv'
<1> USE DEF Typed
<1>0. RequestOf[c] \in Requests /\ Typed'
  BY TypeStep
\* Remembering a response that is true.
<1>1. ASSUME NEW answer \in Kept, answer.kind = "started" => Shown(RequestOf[c]),
             Respond(c, answer), Remember(RequestOf[c], answer)
      PROVE  ShownInv'
  <2>1. \A r \in Requests : Shown(r) => Shown(r)'
    BY ShownStays
  <2>2. \A s \in Requests : \/ idempotency'[s] = (IF s = RequestOf[c] THEN answer ELSE idempotency[s])
                            \/ idempotency'[s] = Nothing
    BY <1>0, <1>1, Remembers
  <2>3. Nothing.kind # "started"
    BY DEF Nothing, Answer
  <2>4. \A r \in Requests : idempotency'[r].kind = "started" => Shown(r)'
    BY <1>1, <2>1, <2>2, <2>3 DEF ShownInv
  <2>5. \A d \in Calls : response'[d].kind = "started" => Shown(RequestOf[d])'
    BY <1>1, <2>1 DEF ShownInv, Respond
  <2> QED BY <2>4, <2>5 DEF ShownInv
\* Nothing is remembered, and what is said is an error or was remembered.
<1>2. ASSUME UNCHANGED idempotency,
             \A d \in Calls : \/ response'[d] \in {response[d], Answer("error", 0)}
                              \/ response'[d] = idempotency[RequestOf[d]]
      PROVE  ShownInv'
  <2>1. \A r \in Requests : Shown(r) => Shown(r)'
    BY ShownStays
  <2>2. Answer("error", 0).kind # "started"
    BY DEF Answer
  <2> QED BY <1>2, <2>1, <2>2 DEF ShownInv
<1>3. CASE Lookup(c)
  BY <1>2, <1>3 DEF Lookup, Respond, memory
<1>4. CASE RunCommand(c)
  <2>1. Answer("command", 0) \in Kept /\ Answer("command", 0).kind # "started"
    BY AnswersTyped DEF Answer
  <2> QED BY <1>1, <1>2, <1>4, <2>1 DEF RunCommand, Fail, Respond, memory
<1>5. CASE Resume(c) \/ StartTurn(c)
  BY <1>2, <1>5 DEF Resume, StartTurn, Fail, Respond, memory
\* The turn that was seen is its own, or has the text that only its own have.
<1>6. CASE Confirm(c)
  <2>1. PICK t \in visible : t = turnOf[c] \/ TextOf[RequestOfTurn(t)] = TextOf[RequestOf[c]]
    BY <1>6 DEF Confirm, IsVisible
  <2>2. RequestOfTurn(t) \in Requests \ Commands /\ RequestOf[c] \in Requests \ Commands
    BY <1>0, <1>6, <2>1 DEF Confirm, TurnInv, PhaseInv, RequestOfTurn
  <2>3. t # 0 /\ (t = turnOf[c] => RequestOfTurn(t) = RequestOf[c])
    BY <2>1 DEF TurnInv
  <2>4. Shown(RequestOf[c])
    BY <2>1, <2>2, <2>3 DEF Shown, TextsDiffer
  <2>5. Answer("started", turnOf[c]) \in Kept /\ Deliver(c, Answer("started", turnOf[c]))
    BY <1>6, AnswersTyped DEF Confirm
  <2> QED BY <1>1, <1>2, <2>4, <2>5 DEF Deliver, Fail, Respond, memory
<1>7. CASE GiveUp(c)
  <2>1. Answer("unconfirmed", turnOf[c]) \in Kept /\ Answer("unconfirmed", turnOf[c]).kind # "started"
    BY AnswersTyped DEF Answer
  <2>2. Deliver(c, Answer("unconfirmed", turnOf[c]))
    BY <1>7 DEF GiveUp
  <2> QED BY <1>1, <1>2, <2>1, <2>2 DEF Deliver, Fail, Respond, memory
<1> QED BY <1>3, <1>4, <1>5, <1>6, <1>7 DEF CallStep

\* What the call that started a turn answered excuses a second turn for good, when
\* no call answers twice and nothing forgotten is remembered as not forgotten.
LEMMA ExcusesStay ==
    ASSUME Typed, PhaseInv, RepeatsStartNothing, UNCHANGED turns, forgotten \subseteq forgotten',
           \A d \in Calls : at[d] = "done" => response'[d] = response[d]
    PROVE  RepeatsStartNothing'
<1> SUFFICES ASSUME NEW i \in 1..Len(turns), NEW j \in 1..Len(turns), i < j,
                    RequestOfTurn(i) = RequestOfTurn(j)
             PROVE  response'[turns[i]].kind = "error" \/ RequestOfTurn(i) \in forgotten'
  BY DEF RepeatsStartNothing, RequestOfTurn
<1>1. response[turns[i]].kind = "error" \/ RequestOfTurn(i) \in forgotten
  BY DEF RepeatsStartNothing
<1>2. turns[i] \in Calls /\ (at[turns[i]] # "done" => response[turns[i]] = Nothing)
  BY DEF Typed, PhaseInv
<1> QED BY <1>1, <1>2 DEF Nothing, Answer

LEMMA AloneStep == ASSUME Typed, PhaseInv, Patient, AloneInv, NEW c \in Calls, CallStep(c)
                   PROVE  AloneInv'
<1> USE DEF Typed
<1>0. RequestOf[c] \in Requests
  OBVIOUS
\* A call that is under way is the only one of its request.
<1>1. ASSUME Active(c), NEW d \in Calls, d # c, RequestOf[d] = RequestOf[c]
      PROVE  /\ at[d] \in {"idle", "done"}
             /\ Given(response[d]) => RequestOf[c] \in forgotten
  <2>1. at[d] \in {"idle", "done"} /\ idempotency[RequestOf[c]] = Nothing
    BY <1>1 DEF AloneInv, Active
  <2>2. Given(response[d]) => RequestOf[c] \in forgotten
    BY <1>1, <2>1 DEF AloneInv, Given, Nothing, Answer
  <2> QED BY <1>1, <2>1, <2>2
\* It responds, and that is remembered.
<1>2. ASSUME Active(c), NEW answer \in Kept, Given(answer), UNCHANGED turns,
             Respond(c, answer), Remember(RequestOf[c], answer)
      PROVE  AloneInv'
  <2>1. /\ forgotten \subseteq forgotten'
        /\ \A s \in Requests :
              \/ idempotency'[s] = (IF s = RequestOf[c] THEN answer ELSE idempotency[s])
              \/ idempotency'[s] = Nothing /\ s \in forgotten'
    BY <1>0, <1>2, Remembers
  <2>2. /\ at' = [at EXCEPT ![c] = "done"] /\ response' = [response EXCEPT ![c] = answer]
    BY <1>2 DEF Respond
  <2>3. \A d, e \in Calls : RequestOf[d] = RequestOf[e] /\ Active(d)' /\ Active(e)' => d = e
    BY <2>2 DEF AloneInv, Active
  <2>4. ASSUME NEW d \in Calls, Active(d)' PROVE idempotency'[RequestOf[d]] = Nothing
    <3>1. d # c /\ Active(d)
      BY <2>2, <2>4 DEF Active
    <3>2. RequestOf[d] # RequestOf[c]
      BY <1>1, <1>2, <3>1 DEF Active
    <3> QED BY <2>1, <3>1, <3>2 DEF AloneInv
  <2>5. ASSUME NEW d \in Calls, Given(response'[d])
        PROVE  response'[d] = idempotency'[RequestOf[d]] \/ RequestOf[d] \in forgotten'
    <3>1. CASE d = c
      BY <2>1, <2>2, <3>1, <1>0
    <3>2. CASE d # c /\ RequestOf[d] = RequestOf[c]
      BY <1>1, <1>2, <2>1, <2>2, <2>5, <3>2
    <3>3. CASE RequestOf[d] # RequestOf[c]
      BY <2>1, <2>2, <2>5, <3>3 DEF AloneInv
    <3> QED BY <3>1, <3>2, <3>3
  <2>6. RepeatsStartNothing'
    BY <1>2, <2>1, <2>2, ExcusesStay DEF AloneInv, Active
  <2> QED BY <2>3, <2>4, <2>5, <2>6 DEF AloneInv
\* It fails.
<1>3. ASSUME Active(c), Fail(c)
      PROVE  /\ \A d, e \in Calls : RequestOf[d] = RequestOf[e] /\ Active(d)' /\ Active(e)' => d = e
             /\ \A d \in Calls : Active(d)' => idempotency'[RequestOf[d]] = Nothing
             /\ \A d \in Calls : Given(response'[d]) => \/ response'[d] = idempotency'[RequestOf[d]]
                                                        \/ RequestOf[d] \in forgotten'
             /\ UNCHANGED turns => AloneInv'
  <2>1. /\ at' = [at EXCEPT ![c] = "done"]
        /\ response' = [response EXCEPT ![c] = Answer("error", 0)]
        /\ UNCHANGED <<idempotency, forgotten>>
    BY <1>3 DEF Fail, Respond, memory
  <2>2. UNCHANGED turns => RepeatsStartNothing'
    BY <1>3, <2>1, ExcusesStay DEF AloneInv, Active
  <2>3. ~Given(Answer("error", 0))
    BY DEF Given, Answer
  <2> QED BY <2>1, <2>2, <2>3 DEF AloneInv, Active
<1>4. CASE Lookup(c)
  <2>1. \A d \in Calls : RequestOf[d] = RequestOf[c] => ~Active(d)
    BY <1>4 DEF Lookup, Begins, Patient, Active
  <2>2. CASE idempotency[RequestOf[c]] # Nothing
    <3>1. /\ at' = [at EXCEPT ![c] = "done"]
          /\ response' = [response EXCEPT ![c] = idempotency[RequestOf[c]]]
          /\ UNCHANGED <<turns, idempotency, forgotten>>
      BY <1>4, <2>2 DEF Lookup, Respond, memory, codex
    <3>2. \A d \in Calls : Active(d)' => Active(d)
      BY <3>1 DEF Active
    <3>3. RepeatsStartNothing'
      BY <1>4, <3>1, ExcusesStay DEF AloneInv, Lookup, Begins
    <3> QED BY <3>1, <3>2, <3>3 DEF AloneInv
  <2>3. CASE idempotency[RequestOf[c]] = Nothing
    <3>1. at' = [at EXCEPT ![c] = "fresh"] /\ UNCHANGED <<turns, response, idempotency, forgotten>>
      BY <1>4, <2>3 DEF Lookup, memory, codex
    <3>2. \A d \in Calls : Active(d)' => Active(d) \/ d = c
      BY <3>1 DEF Active
    <3>3. RepeatsStartNothing'
      BY <3>1, ExcusesStay DEF AloneInv
    <3> QED BY <2>1, <2>3, <3>1, <3>2, <3>3 DEF AloneInv
  <2> QED BY <2>2, <2>3
<1>5. CASE RunCommand(c)
  <2>1. Answer("command", 0) \in Kept /\ Given(Answer("command", 0)) /\ Active(c) /\ UNCHANGED turns
    BY <1>5, AnswersTyped DEF Answer, Given, RunCommand, Active, codex
  <2> QED BY <1>2, <1>3, <1>5, <2>1 DEF RunCommand
<1>6. CASE Resume(c)
  <2>1. Active(c) /\ UNCHANGED turns
    BY <1>6 DEF Resume, Active, codex
  <2>2. CASE Fail(c)
    BY <1>3, <2>1, <2>2
  <2>3. CASE ~Fail(c)
    <3>1. at' = [at EXCEPT ![c] = "ready"] /\ UNCHANGED <<response, idempotency, forgotten>>
      BY <1>6, <2>3 DEF Resume, memory
    <3>2. RepeatsStartNothing'
      BY <2>1, <3>1, ExcusesStay DEF AloneInv
    <3> QED BY <2>1, <3>1, <3>2 DEF AloneInv, Active
  <2> QED BY <2>2, <2>3
\* A call that is ready has started nothing; another one of its request that
\* started a turn has returned, and given no answer that is still remembered.
<1>7. CASE StartTurn(c)
  <2>1. at[c] = "ready" /\ Active(c)
    BY <1>7 DEF StartTurn, Active
  <2>2. CASE UNCHANGED turns
    <3>1. Fail(c)
      <4>1. turns # Append(turns, c)
        OBVIOUS
      <4> QED BY <1>7, <2>2, <4>1 DEF StartTurn
    <3> QED BY <1>3, <2>1, <2>2, <3>1
  <2>3. CASE turns' = Append(turns, c)
    <3>1. \A d \in Calls : d # c => response'[d] = response[d]
      BY <1>7 DEF StartTurn, Fail, Respond
    <3>2. forgotten' = forgotten
      BY <1>7 DEF StartTurn, Fail, memory
    <3>3. ASSUME NEW i \in 1..Len(turns')
          PROVE  IF i = Len(turns) + 1 THEN turns'[i] = c
                 ELSE i \in 1..Len(turns) /\ turns'[i] = turns[i] /\ turns[i] \in Calls \ {c}
      <4>1. i # Len(turns) + 1 => turns[i] \in Calls /\ at[turns[i]] \in {"confirming", "done"}
        BY <2>3 DEF PhaseInv
      <4> QED BY <2>1, <2>3, <4>1
    <3>4. ASSUME NEW i \in 1..Len(turns), RequestOf[turns[i]] = RequestOf[c]
          PROVE  response[turns[i]].kind = "error" \/ RequestOf[c] \in forgotten
      <4>1. turns[i] \in Calls /\ turns[i] # c /\ at[turns[i]] \in {"confirming", "done"}
        BY <2>1 DEF PhaseInv
      <4>2. at[turns[i]] = "done"
        BY <1>1, <2>1, <3>4, <4>1
      <4> QED BY <1>1, <2>1, <3>4, <4>1, <4>2 DEF PhaseInv, Given
    <3>5. RepeatsStartNothing'
      <4> SUFFICES ASSUME NEW i \in 1..Len(turns'), NEW j \in 1..Len(turns'), i < j,
                          RequestOf[turns'[i]] = RequestOf[turns'[j]]
                   PROVE  response'[turns'[i]].kind = "error" \/ RequestOf[turns'[i]] \in forgotten'
        BY DEF RepeatsStartNothing, RequestOfTurn
      <4>1. i \in 1..Len(turns) /\ turns'[i] = turns[i] /\ turns[i] \in Calls \ {c}
        <5>1. Len(turns') = Len(turns) + 1 /\ Len(turns) \in Nat
          BY <2>3
        <5>2. i # Len(turns) + 1
          BY <5>1
        <5> QED BY <3>3, <5>2
      <4>2. CASE j = Len(turns) + 1
        BY <3>1, <3>2, <3>3, <3>4, <4>1, <4>2
      <4>3. CASE j # Len(turns) + 1
        <5>1. j \in 1..Len(turns) /\ turns'[j] = turns[j]
          BY <3>3, <4>3
        <5> QED BY <3>1, <3>2, <4>1, <5>1 DEF AloneInv, RepeatsStartNothing, RequestOfTurn
      <4> QED BY <4>2, <4>3
    <3>6. CASE Fail(c)
      BY <1>3, <2>1, <3>5, <3>6 DEF AloneInv
    <3>7. CASE ~Fail(c)
      <4>1. at' = [at EXCEPT ![c] = "confirming"] /\ UNCHANGED <<response, idempotency, forgotten>>
        BY <1>7, <3>7 DEF StartTurn, memory
      <4> QED BY <2>1, <3>5, <4>1 DEF AloneInv, Active
    <3> QED BY <3>6, <3>7
  <2> QED BY <1>7, <2>2, <2>3 DEF StartTurn
<1>8. ASSUME Active(c), NEW answer \in Kept, Given(answer), Deliver(c, answer), UNCHANGED turns
      PROVE  AloneInv'
  BY <1>2, <1>3, <1>8 DEF Deliver
<1>9. CASE Confirm(c)
  <2>1. Answer("started", turnOf[c]) \in Kept /\ Given(Answer("started", turnOf[c])) /\ Active(c)
    BY <1>9, AnswersTyped DEF Answer, Given, Confirm, Active
  <2> QED BY <1>8, <1>9, <2>1 DEF Confirm, codex
<1>10. CASE GiveUp(c)
  <2>1. Answer("unconfirmed", turnOf[c]) \in Kept /\ Given(Answer("unconfirmed", turnOf[c])) /\ Active(c)
    BY <1>10, AnswersTyped DEF Answer, Given, GiveUp, MayGiveUp, Active
  <2> QED BY <1>8, <1>10, <2>1 DEF GiveUp, codex
<1> QED BY <1>4, <1>5, <1>6, <1>7, <1>9, <1>10 DEF CallStep
-----------------------------------------------------------------------------
LEMMA PersistStep == ASSUME IInv, NEW t \in 1..Len(turns), Persist(t) PROVE IInv'
<1>1. Typed'
  BY PersistType DEF IInv
<1>2. PhaseInv' /\ TurnInv'
  BY DEF IInv, Persist, memory, PhaseInv, TurnInv, RequestOfTurn
<1>3. ShownInv => ShownInv'
  BY DEF Persist, memory, ShownInv, Shown, RequestOfTurn
<1>4. AloneInv => AloneInv'
  BY DEF Persist, memory, AloneInv, Active, RepeatsStartNothing, RequestOfTurn
<1> QED BY <1>1, <1>2, <1>3, <1>4 DEF IInv

LEMMA StutterStep == ASSUME IInv, UNCHANGED vars PROVE IInv'
  BY DEF IInv, vars, Typed, MemoryTyped, PhaseInv, TurnInv, ShownInv, Shown, AloneInv, Active,
         RepeatsStartNothing, RequestOfTurn

\* For any calls of any requests, with any of the faults: what is known of
\* every call of start_turn and of the remembered responses at every moment
\* (src/vibeslopik_host/host.py), and the rest follows from it.
THEOREM Inductive == Spec => []IInv
<1>1. ASSUME IInv, [Next]_vars PROVE IInv'
  <2>1. ASSUME NEW c \in Calls, CallStep(c) PROVE IInv'
    <3>1. Typed /\ PhaseInv /\ TurnInv
      BY <1>1 DEF IInv
    <3>2. Typed' /\ PhaseInv' /\ TurnInv'
      BY <2>1, <3>1, TypeStep, PhaseStep, TurnStep
    <3>3. TextsDiffer => ShownInv'
      BY <1>1, <2>1, <3>1, ShownStep DEF IInv
    <3>4. Patient => AloneInv'
      BY <1>1, <2>1, <3>1, AloneStep DEF IInv
    <3> QED BY <3>2, <3>3, <3>4 DEF IInv, TextsDiffer, Patient
  <2> QED BY <1>1, <2>1, PersistStep, StutterStep DEF Next
<1> QED BY <1>1, InitHolds, PTL DEF Spec

\* Type correctness; in particular never more than CacheLimit responses are kept.
THEOREM TypeCorrect == Spec => []TypeOK
<1>1. IInv => TypeOK
  BY TypedIsTypeOK DEF IInv
<1> QED BY <1>1, Inductive, PTL

\* However many calls overlap, whatever was lost or pushed out: a call that names a
\* turn names one that its own request started, also when the answer is remembered.
THEOREM AnswersAreOwn == Spec => []AnswersNameOwnTurn
<1>1. IInv => AnswersNameOwnTurn
  BY DEF IInv, Typed, TurnInv, Owns, AnswersNameOwnTurn, RequestOfTurn
<1> QED BY <1>1, Inductive, PTL

\* When no two messages have the same text, "started" is said only when the input
\* is in a turn that Codex shows, so that a draft may be deleted.  Calls may overlap.
THEOREM StartedIsPersisted == ASSUME TextsDiffer PROVE Spec => []StartedMeansPersisted
<1>1. IInv => StartedMeansPersisted
  BY DEF IInv, ShownInv, Shown, StartedMeansPersisted
<1> QED BY <1>1, Inductive, PTL

\* With a client that sends no request again while it is under way, a repeated call
\* starts a second turn only after the client was told that the call which started the
\* first had failed (its answer was lost, or the log could not be written), or when the
\* response was pushed out by newer ones.
THEOREM NoSecondTurn == ASSUME Patient PROVE Spec => []RepeatsStartNothing
<1>1. IInv => RepeatsStartNothing
  BY DEF IInv, AloneInv
<1> QED BY <1>1, Inductive, PTL

\* With such a client all calls of one request that were answered were answered the
\* same, unless the response was pushed out in between.
THEOREM AnswersAgree == ASSUME Patient PROVE Spec => []RepeatsAgree
<1>1. IInv => RepeatsAgree
  BY DEF IInv, AloneInv, Given, RepeatsAgree
<1> QED BY <1>1, Inductive, PTL
=============================================================================
