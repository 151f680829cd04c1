-------------------------- MODULE HostEventsProofs --------------------------
(***************************************************************************)
(* Proofs about HostEvents, for any HTTP threads, models, approvals, turns *)
(* and bounds.  Nearly all of it is about the pipe from Codex: what the    *)
(* Host knows lags behind by what is still in it.                          *)
(***************************************************************************)
EXTENDS HostEvents, TLAPS, FiniteSetTheorems

Pipe == 1..Len(out)
Begun(t) == stage[t] \notin {"none", "queued"}

\* What each kind of message names.
TurnKinds == {"turn/started", "error/willRetry", "item/agentMessage/delta", "item/completed",
              "error", "turn/completed", "turn/failed"}
WellFormed(m) ==
    \/ m.kind = "reply" /\ m.turn = 0 /\ m.about \in Threads
    \/ m.kind = "thread/settings/updated" /\ m.turn = 0 /\ m.about \in Models
    \/ m.kind = "requestApproval" /\ m.turn \in Turns /\ m.about \in Approvals
    \/ m.kind \in TurnKinds /\ m.turn \in Turns
-----------------------------------------------------------------------------
(* Types *)

CodexTyped == /\ stage \in [Turns -> Stages] /\ count \in 0..MaxTurns
              /\ part \in [Turns -> Nat] /\ whole \in [Turns -> SUBSET Nat]
              /\ using \in Models /\ untold \in BOOLEAN
              /\ asked \in SUBSET Approvals /\ decisions \in [Approvals -> Nat]
PipeTyped == /\ out \in Seq(Messages)
             /\ \A i \in Pipe : WellFormed(out[i])
TurnsTyped == /\ status \in [Turns -> Statuses] /\ text \in [Turns -> SUBSET Nat]
              /\ model \in [Turns -> Preferences] /\ confirmed \in [Turns -> BOOLEAN]
              /\ current \in 0..MaxTurns
SettingsTyped == /\ settings \in Preferences /\ override \in Preferences
                 /\ approvals \in SUBSET Approvals
LogTyped == /\ seq \in Nat /\ events \in Seq(1..seq) /\ busy \in {"free", "stdout", "stderr"}
            /\ Len(events) <= MaxLog
            /\ busy # "free" => seq > 0
ThreadTyped == /\ thread \in [Threads -> ThreadStates] /\ left \in [Kinds -> Nat]
               /\ \A h \in Threads : /\ thread[h].op = "start" => thread[h].what \in Preferences
                                     /\ thread[h].op = "decide" => thread[h].what \in Approvals
                                     /\ thread[h].op = "poll" => thread[h].at = "listed"
                                     /\ thread[h].op = "decide" => thread[h].at = "taken"
PollTyped == cursor \in 0..seq /\ seen \in SUBSET (1..seq) /\ excused \in SUBSET (1..seq)
FlagsTyped == unsent \in SUBSET Approvals /\ overlapped \in BOOLEAN /\ behind \in BOOLEAN

\* A reply is for a thread that waits for it, and is the only one for that thread.
ReplyInv ==
    /\ \A i \in Pipe : out[i].kind = "reply" => thread[out[i].about].at = "answered"
    /\ \A i, j \in Pipe : out[i].kind = "reply" /\ out[j].kind = "reply" /\ out[i].about = out[j].about
                          => i = j

Typed == /\ CodexTyped /\ PipeTyped /\ TurnsTyped /\ SettingsTyped
         /\ LogTyped /\ ThreadTyped /\ PollTyped /\ FlagsTyped /\ ReplyInv

LEMMA TypedIsTypeOK == Typed => TypeOK
  BY Zenon DEF Typed, TypeOK, CodexTyped, PipeTyped, TurnsTyped, SettingsTyped, LogTyped, ThreadTyped, PollTyped, FlagsTyped

\* The three ways in which the pipe changes.
LEMMA PipeGrows == ASSUME out \in Seq(Messages), NEW m \in Messages, out' = Append(out, m)
                   PROVE  /\ out' \in Seq(Messages) /\ Len(out') = Len(out) + 1
                          /\ out'[Len(out) + 1] = m
                          /\ \A i \in Pipe : out'[i] = out[i]
                          /\ Pipe' = Pipe \cup {Len(out) + 1}
  BY DEF Pipe

LEMMA PipeGrowsByTwo == ASSUME out \in Seq(Messages), NEW m \in Messages, NEW n \in Messages, out' = out \o <<m, n>>
                        PROVE  /\ out' \in Seq(Messages) /\ Len(out') = Len(out) + 2
                               /\ out'[Len(out) + 1] = m /\ out'[Len(out) + 2] = n
                               /\ \A i \in Pipe : out'[i] = out[i]
                               /\ Pipe' = Pipe \cup {Len(out) + 1, Len(out) + 2}
  BY DEF Pipe

LEMMA PipeShrinks == ASSUME out \in Seq(Messages), out # <<>>, out' = Tail(out)
                     PROVE  /\ out' \in Seq(Messages) /\ Len(out') = Len(out) - 1
                            /\ 1 \in Pipe /\ Head(out) = out[1] /\ Head(out) \in Messages
                            /\ \A i \in Pipe' : i + 1 \in Pipe /\ out'[i] = out[i + 1]
                            /\ \A i \in Pipe \ {1} : i - 1 \in Pipe' /\ out'[i - 1] = out[i]
  BY DEF Pipe
-----------------------------------------------------------------------------
(* What each step does to the pipe *)

Fresh == Pipe' \ Pipe
Extended == /\ out' \in Seq(Messages) /\ Pipe \subseteq Pipe'
            /\ \A i \in Pipe : out'[i] = out[i]
            /\ \A i \in Pipe, j \in Fresh : i < j

\* How a turn goes on, and what it tells of that.
Moves(t) == \/ stage[t] = "queued" /\ stage'[t] = "running" /\ (\A s \in 1..(t - 1) : stage[s] \in Ended)
            \/ stage[t] = "running" /\ stage'[t] = "retrying"
            \/ stage[t] \in {"running", "retrying", "stored"} /\ stage'[t] \in {"spoke", "stored"}
            \/ stage[t] = "spoke" /\ stage'[t] = "stored"
            \/ stage[t] = "stored" /\ stage'[t] = "completed"
            \/ stage[t] \in {"running", "retrying", "spoke", "stored"} /\ stage'[t] = "failed"
LastWord(t) == CASE stage'[t] = "running"   -> "turn/started"
                 [] stage'[t] = "retrying"  -> "error/willRetry"
                 [] stage'[t] = "spoke"     -> "item/agentMessage/delta"
                 [] stage'[t] = "stored"    -> "item/completed"
                 [] stage'[t] = "completed" -> "turn/completed"
                 [] OTHER                   -> "turn/failed"

\* What the turn says, by that.
Says(t) == part' = IF stage'[t] = "spoke" THEN [part EXCEPT ![t] = @ + 1] ELSE part

\* What is told is about the message the turn gives, or about none.
Numbered(t) ==
    \A i \in Fresh : out'[i].part = part'[t]
                      \/ (out'[i].part = 0 /\ out'[i].kind # "item/agentMessage/delta")

LEMMA TurnTells == ASSUME CodexTyped, out \in Seq(Messages), NEW t \in Turns, GoOn(t)
                   PROVE  /\ Moves(t) /\ stage' = [stage EXCEPT ![t] = stage'[t]]
                          /\ UNCHANGED <<count, using, untold, asked, decisions, thread, behind>>
                          /\ UNCHANGED left \/ Spend("more")
                          /\ CodexStep
                          /\ Extended /\ Len(out') \in Fresh
                          /\ out'[Len(out')].kind = LastWord(t)
                          /\ \A i \in Fresh : /\ out'[i].turn = t
                                              /\ out'[i].kind = LastWord(t)
                                                   \/ (out'[i].kind = "error" /\ stage'[t] = "failed")
                          /\ Says(t) /\ Numbered(t)
                          /\ whole' \in [Turns -> SUBSET Nat]
<1> USE DEF CodexTyped
<1>1. ASSUME NEW next \in Stages, Advance(t, next)
      PROVE  /\ stage' = [stage EXCEPT ![t] = next] /\ stage'[t] = next
             /\ UNCHANGED <<count, using, untold, asked, decisions, thread, behind>> /\ CodexStep
  BY <1>1 DEF Advance
<1>2. ASSUME NEW m \in Messages, Emit(m)
      PROVE  Extended /\ Fresh = {Len(out')} /\ out'[Len(out')] = m
  <2>1. out' = Append(out, m)
    BY <1>2 DEF Emit
  <2> QED BY <2>1, PipeGrows DEF Extended, Fresh, Pipe
<1>3. \A kind \in TurnKinds : /\ Message(kind, t, NoModel) \in Messages
                             /\ Message(kind, t, NoModel).turn = t
                             /\ Message(kind, t, NoModel).kind = kind
                             /\ Message(kind, t, NoModel).part = 0
  BY DEF TurnKinds, Message, Messages, Turns
<1>4. \A kind \in TurnKinds, n \in Nat : /\ Item(kind, t, n) \in Messages
                                         /\ Item(kind, t, n).turn = t
                                         /\ Item(kind, t, n).kind = kind
                                         /\ Item(kind, t, n).part = n
  BY DEF TurnKinds, Message, Item, Messages, Turns
<1>5. {"running", "retrying", "spoke", "stored", "completed", "failed"} \subseteq Stages
  BY DEF Stages, Ended
\* A turn goes on without a word of its own.
<1> DEFINE Silent(next, kind) ==
             /\ stage' = [stage EXCEPT ![t] = next] /\ stage'[t] = next
             /\ UNCHANGED <<count, using, untold, asked, decisions, thread, behind>> /\ CodexStep
             /\ UNCHANGED left
             /\ Extended /\ Fresh = {Len(out')}
             /\ out'[Len(out')].turn = t /\ out'[Len(out')].kind = kind
             /\ Says(t) /\ Numbered(t) /\ whole' \in [Turns -> SUBSET Nat]
<1>6. ASSUME NEW next \in Stages \ {"spoke"}, NEW kind \in TurnKinds \ {"item/agentMessage/delta"},
             Advance(t, next), Emit(Message(kind, t, NoModel)), UNCHANGED <<said, left>>
      PROVE  Silent(next, kind)
  <2>1. UNCHANGED <<part, whole, left>>
    BY <1>6 DEF said
  <2>2. Extended /\ Fresh = {Len(out')} /\ out'[Len(out')] = Message(kind, t, NoModel)
    BY <1>2, <1>3, <1>6
  <2> QED BY <1>1, <1>3, <1>6, <2>1, <2>2 DEF Says, Numbered
<1> HIDE DEF Silent
<1>7. CASE Begin(t)
  <2>1. /\ Advance(t, "running") /\ Emit(Message("turn/started", t, NoModel)) /\ UNCHANGED <<said, left>>
        /\ stage[t] = "queued" /\ \A s \in 1..(t - 1) : stage[s] \in Ended
    BY <1>7 DEF Begin
  <2>2. Silent("running", "turn/started")
    BY <1>5, <1>6, <2>1 DEF TurnKinds
  <2> QED BY <2>1, <2>2 DEF Silent, Moves, LastWord
<1>8. CASE Retry(t)
  <2>1. /\ Advance(t, "retrying") /\ Emit(Message("error/willRetry", t, NoModel)) /\ UNCHANGED <<said, left>>
        /\ stage[t] = "running"
    BY <1>8 DEF Retry
  <2>2. Silent("retrying", "error/willRetry")
    BY <1>5, <1>6, <2>1 DEF TurnKinds
  <2> QED BY <2>1, <2>2 DEF Silent, Moves, LastWord
<1>9. CASE Complete(t)
  <2>1. /\ Advance(t, "completed") /\ Emit(Message("turn/completed", t, NoModel)) /\ UNCHANGED <<said, left>>
        /\ stage[t] = "stored"
    BY <1>9 DEF Complete
  <2>2. Silent("completed", "turn/completed")
    BY <1>5, <1>6, <2>1 DEF TurnKinds
  <2> QED BY <2>1, <2>2 DEF Silent, Moves, LastWord
<1>10. CASE Speak(t)
  <2> DEFINE m == Item("item/agentMessage/delta", t, part[t] + 1)
  <2>1. /\ Advance(t, "spoke") /\ Emit(m) /\ stage[t] \in {"running", "retrying", "stored"}
        /\ part' = [part EXCEPT ![t] = @ + 1] /\ whole' = whole
        /\ UNCHANGED left \/ Spend("more")
    BY <1>10 DEF Speak
  <2>2. m \in Messages /\ m.turn = t /\ m.kind = "item/agentMessage/delta" /\ m.part = part[t] + 1
    BY <1>4 DEF TurnKinds
  <2> HIDE DEF m
  <2>3. Extended /\ Fresh = {Len(out')} /\ out'[Len(out')] = m /\ stage'[t] = "spoke"
    BY <1>1, <1>2, <1>5, <2>1, <2>2
  <2>4. Says(t) /\ Numbered(t) /\ Moves(t) /\ LastWord(t) = "item/agentMessage/delta"
    BY <2>1, <2>2, <2>3 DEF Says, Numbered, Moves, LastWord
  <2> QED BY <1>1, <1>5, <2>1, <2>2, <2>3, <2>4
<1>11. CASE Store(t) \/ Picture(t)
  <2>1. PICK n \in Nat : /\ Advance(t, "stored") /\ Emit(Item("item/completed", t, n))
                         /\ n = part[t] \/ n = 0
                         /\ whole' = [whole EXCEPT ![t] = @ \cup {n}]
    BY <1>11 DEF Store, Picture
  <2>2. /\ stage[t] \in {"running", "retrying", "spoke", "stored"} /\ part' = part
        /\ UNCHANGED left \/ Spend("more")
    BY <1>11 DEF Store, Picture
  <2>3. /\ Item("item/completed", t, n) \in Messages /\ Item("item/completed", t, n).turn = t
        /\ Item("item/completed", t, n).kind = "item/completed" /\ Item("item/completed", t, n).part = n
    BY <1>4 DEF TurnKinds
  <2>4. Extended /\ Fresh = {Len(out')} /\ out'[Len(out')] = Item("item/completed", t, n) /\ stage'[t] = "stored"
    BY <1>1, <1>2, <1>5, <2>1, <2>3
  <2>5. Says(t) /\ Numbered(t) /\ Moves(t) /\ LastWord(t) = "item/completed"
    BY <2>1, <2>2, <2>3, <2>4 DEF Says, Numbered, Moves, LastWord
  <2>6. whole' \in [Turns -> SUBSET Nat]
    BY <2>1
  <2> QED BY <1>1, <1>5, <2>1, <2>2, <2>3, <2>4, <2>5, <2>6
<1>12. CASE Fail(t)
  <2>1. /\ out' = out \o <<Message("error", t, NoModel), Message("turn/failed", t, NoModel)>>
        /\ stage[t] \in {"running", "retrying", "spoke", "stored"} /\ Advance(t, "failed")
        /\ UNCHANGED <<part, whole, left>>
    BY <1>12 DEF Fail, said
  <2>2. stage'[t] = "failed"
    BY <1>1, <1>5, <2>1
  <2>3. /\ out' \in Seq(Messages) /\ Len(out') = Len(out) + 2 /\ \A i \in Pipe : out'[i] = out[i]
        /\ Pipe' = Pipe \cup {Len(out) + 1, Len(out) + 2} /\ Len(out) \in Nat
        /\ out'[Len(out) + 1] = Message("error", t, NoModel)
        /\ out'[Len(out) + 2] = Message("turn/failed", t, NoModel)
    <3>1. Message("error", t, NoModel) \in Messages /\ Message("turn/failed", t, NoModel) \in Messages
      BY <1>3 DEF TurnKinds
    <3>2. Len(out) \in Nat
      OBVIOUS
    <3> HIDE DEF CodexTyped
    <3> QED BY <2>1, <3>1, <3>2, PipeGrowsByTwo
  <2>4. Extended /\ Fresh = {Len(out) + 1, Len(out) + 2}
    BY <2>3 DEF Extended, Fresh, Pipe
  <2>5. LastWord(t) = "turn/failed" /\ Moves(t)
    BY <2>1, <2>2 DEF Moves, LastWord
  <2>6. /\ out'[Len(out) + 1].turn = t /\ out'[Len(out) + 1].kind = "error" /\ out'[Len(out) + 1].part = 0
        /\ out'[Len(out) + 2].turn = t /\ out'[Len(out) + 2].kind = "turn/failed" /\ out'[Len(out) + 2].part = 0
    BY <1>3, <2>3 DEF TurnKinds
  <2>7. Says(t) /\ Numbered(t)
    BY <2>1, <2>2, <2>4, <2>6 DEF Says, Numbered
  <2> QED BY <1>1, <1>5, <2>1, <2>2, <2>3, <2>4, <2>5, <2>6, <2>7
<1> QED BY <1>7, <1>8, <1>9, <1>10, <1>11, <1>12 DEF GoOn

\* An approval, a reply or the settings are told of in one message.
Told1(m) == /\ Extended /\ Fresh = {Len(out) + 1} /\ Len(out') = Len(out) + 1
            /\ out'[Len(out) + 1] = m

LEMMA OneIsTold == ASSUME out \in Seq(Messages), NEW m \in Messages, Emit(m) PROVE Told1(m)
<1>1. out' = Append(out, m)
  BY DEF Emit
<1> QED BY <1>1, PipeGrows DEF Told1, Extended, Fresh, Pipe

LEMMA OthersTell == ASSUME CodexTyped, out \in Seq(Messages)
                    PROVE  /\ \A t \in Turns, p \in Approvals : AskApproval(t, p) => Told1(Message("requestApproval", t, p))
                           /\ \A h \in Threads : AnswerRead(h) => Told1(Message("reply", 0, h))
                           /\ \A h \in Threads : AcceptTurn(h) => out' = out \/ Told1(Message("reply", 0, h))
                           /\ TellSettings => Told1(Message("thread/settings/updated", 0, using))
<1>1. ASSUME NEW t \in Turns, NEW p \in Approvals, AskApproval(t, p)
      PROVE  Told1(Message("requestApproval", t, p))
  <2>1. Message("requestApproval", t, p) \in Messages
    BY DEF Message, Messages, Turns
  <2> QED BY <1>1, <2>1, OneIsTold DEF AskApproval
<1>2. ASSUME NEW h \in Threads PROVE Message("reply", 0, h) \in Messages
  BY BoundsAssumption DEF Message, Messages
<1>3. Message("thread/settings/updated", 0, using) \in Messages
  BY BoundsAssumption DEF Message, Messages, CodexTyped
<1>4. ASSUME NEW h \in Threads, AnswerRead(h) PROVE Told1(Message("reply", 0, h))
  BY <1>2, <1>4, OneIsTold DEF AnswerRead
<1>5. ASSUME NEW h \in Threads, AcceptTurn(h) PROVE out' = out \/ Told1(Message("reply", 0, h))
  <2>1. out' = out \/ Emit(Message("reply", 0, h))
    BY <1>5, Zenon DEF AcceptTurn
  <2> QED BY <1>2, <2>1, OneIsTold
<1>6. TellSettings => Told1(Message("thread/settings/updated", 0, using))
  BY <1>3, OneIsTold DEF TellSettings
<1> QED BY <1>1, <1>4, <1>5, <1>6

\* A message is taken out: the first, and the others move up.
Taken1 == /\ out' \in Seq(Messages) /\ 1 \in Pipe /\ Len(out') = Len(out) - 1
          /\ \A i \in Pipe' : i + 1 \in Pipe /\ out'[i] = out[i + 1]
          /\ \A i \in Pipe \ {1} : i - 1 \in Pipe' /\ out'[i - 1] = out[i]

LEMMA OneIsTaken == ASSUME out \in Seq(Messages), HandleEvent \/ HandleReply
                    PROVE  /\ Taken1 /\ Head(out) = out[1]
                           /\ HandleReply => out[1].kind = "reply"
                           /\ HandleEvent => out[1].kind # "reply"
<1>1. out # <<>> /\ out' = Tail(out)
  BY DEF HandleEvent, HandleReply
<1>2. Taken1 /\ Head(out) = out[1]
  BY <1>1, PipeShrinks DEF Taken1
<1> QED BY <1>2 DEF HandleEvent, HandleReply
-----------------------------------------------------------------------------
(* Types are kept *)

LEMMA CodexStaysTyped == ASSUME Typed, [Next]_vars PROVE CodexTyped'
<1> USE DEF CodexTyped, Typed
<1>1. ASSUME NEW t \in Turns, GoOn(t) PROVE CodexTyped'
  <2>1. Moves(t) /\ stage' = [stage EXCEPT ![t] = stage'[t]] /\ UNCHANGED <<count, using, untold, asked, decisions>>
    BY <1>1, TurnTells DEF PipeTyped
  <2>2. stage'[t] \in Stages
    BY <2>1 DEF Moves, Stages, Ended
  <2>3. Says(t) /\ whole' \in [Turns -> SUBSET Nat]
    BY <1>1, TurnTells DEF PipeTyped
  <2>4. part' \in [Turns -> Nat]
    BY <2>3 DEF Says
  <2> QED BY <2>1, <2>2, <2>3, <2>4
<1>2. ASSUME NEW t \in Turns, NEW p \in Approvals, AskApproval(t, p) PROVE CodexTyped'
  BY <1>2 DEF AskApproval, said
<1>3. ASSUME NEW h \in Threads, AcceptTurn(h) PROVE CodexTyped'
  <2>1. thread[h].what \in Preferences
    BY <1>3 DEF AcceptTurn, ThreadTyped
  <2>2. using' \in Models /\ untold' \in BOOLEAN /\ count' = count + 1 /\ UNCHANGED <<part, whole, asked, decisions>>
    BY <1>3, <2>1 DEF AcceptTurn, Preferences, said
  <2>3. count < MaxTurns /\ stage' = [stage EXCEPT ![count + 1] = "queued"]
    BY <1>3 DEF AcceptTurn
  <2>4. count' \in 0..MaxTurns
    BY <2>2, <2>3, BoundsAssumption
  <2>5. stage' \in [Turns -> Stages]
    BY <2>3 DEF Stages
  <2> QED BY <2>2, <2>4, <2>5
<1>4. ASSUME NEW h \in Threads, AnswerRead(h) PROVE CodexTyped'
  BY <1>4 DEF AnswerRead, codexVars, said
<1>5. CASE TellSettings
  BY <1>5 DEF TellSettings, said
<1>6. CASE HandleEvent \/ HandleStderr \/ AppendEvent \/ HandleReply
  BY <1>6 DEF HandleEvent, HandleStderr, AppendEvent, HandleReply, codexVars, said
<1>7. ASSUME NEW h \in Threads, ThreadNext(h), ~Respond(h) PROVE UNCHANGED codexVars
  BY <1>7, Zenon DEF ThreadNext, StartTurn, Record, ReadThread, AnswerThread, SetOverride, ListEvents, AnswerEvents,
     ReplyApproval, Route
<1>8. ASSUME NEW h \in Threads, Respond(h) PROVE CodexTyped'
  <2>1. thread[h].what \in Approvals
    BY <1>8 DEF Respond, ThreadTyped
  <2>2. UNCHANGED <<stage, count, part, whole, using, untold, asked>>
    BY <1>8 DEF Respond, said
  <2>3. decisions' = decisions \/ decisions' = [decisions EXCEPT ![thread[h].what] = @ + 1]
    BY <1>8 DEF Respond
  <2> QED BY <2>1, <2>2, <2>3
<1>9. CASE UNCHANGED vars
  BY <1>9 DEF vars, codexVars, said
<1>10. ASSUME NEW h \in Threads, ThreadNext(h) PROVE CodexTyped'
  BY <1>7, <1>8, <1>10 DEF codexVars, said
<1> QED BY <1>1, <1>2, <1>3, <1>4, <1>5, <1>6, <1>9, <1>10, Zenon DEF Next, CodexNext, ReaderNext

\* What an HTTP thread does: it waits for no reply when it goes on.
LEMMA ThreadMoves == ASSUME Typed, NEW h \in Threads, ThreadNext(h)
                     PROVE  /\ UNCHANGED <<stage, count, part, using, untold, asked, behind, out, seq, busy, events>>
                            /\ \A g \in Threads \ {h} : thread'[g] = thread[g]
                            /\ \/ thread'[h] = thread[h]
                               \/ thread[h].at # "answered" /\ thread'[h].at \notin {"answered", "replied"}
                            /\ ThreadTyped'
<1> USE DEF Typed
<1>1. UNCHANGED <<stage, count, part, using, untold, asked, behind, out, seq, busy, events>>
  BY Zenon DEF ThreadNext, StartTurn, Record, ReadThread, AnswerThread, SetOverride, ListEvents, AnswerEvents,
     ReplyApproval, Respond, Route, codexVars, said, hostVars, logVars
<1>2. left' \in [Kinds -> Nat]
  <2>1. UNCHANGED left \/ \E k : Spend(k)
    BY Zenon DEF ThreadNext, StartTurn, Record, ReadThread, AnswerThread, SetOverride, ListEvents, AnswerEvents,
       ReplyApproval, Respond, Route
  <2> QED BY <2>1 DEF ThreadTyped, Spend
<1>3. Idle \in ThreadStates /\ Idle.op = "idle" /\ Idle.at = "idle" /\ Idle.turn = 0
  BY BoundsAssumption DEF Idle, Nowhere, ThreadStates, Preferences
<1>4. \/ UNCHANGED thread
      \/ Does(h, Idle) /\ (Record(h) \/ AnswerThread(h) \/ AnswerEvents(h) \/ Respond(h))
      \/ thread[h] = Idle /\ Does(h, [Idle EXCEPT !.op = "start", !.at = "asked", !.what = override])
      \/ thread[h] = Idle /\ Does(h, [Idle EXCEPT !.op = "read", !.at = "asked"])
      \/ thread[h] = Idle /\ Does(h, [Idle EXCEPT !.op = "poll", !.at = "listed"])
      \/ thread[h] = Idle /\ \E p \in Approvals : Does(h, [Idle EXCEPT !.op = "decide", !.at = "taken", !.what = p])
  BY Zenon DEF ThreadNext, StartTurn, Record, ReadThread, AnswerThread, SetOverride, ListEvents, AnswerEvents,
     ReplyApproval, Respond, Route, Finish
<1>5. ASSUME NEW next \in ThreadStates, Does(h, next), thread[h].at # "answered", next.at \notin {"answered", "replied"},
             /\ next.op = "start" => next.what \in Preferences
             /\ next.op = "decide" => next.what \in Approvals
             /\ next.op = "poll" => next.at = "listed"
             /\ next.op = "decide" => next.at = "taken"
      PROVE  /\ \A g \in Threads \ {h} : thread'[g] = thread[g]
             /\ thread[h].at # "answered" /\ thread'[h].at \notin {"answered", "replied"}
             /\ ThreadTyped'
  BY <1>2, <1>5 DEF Does, ThreadTyped
<1>6. CASE UNCHANGED thread
  BY <1>1, <1>2, <1>6 DEF ThreadTyped
<1>7. CASE Does(h, Idle) /\ (Record(h) \/ AnswerThread(h) \/ AnswerEvents(h) \/ Respond(h))
  <2>1. thread[h].at # "answered"
    BY <1>7 DEF Record, AnswerThread, AnswerEvents, Respond, ThreadTyped
  <2> QED BY <1>1, <1>3, <1>5, <1>7, <2>1
<1>8. ASSUME NEW op \in {"start", "read", "poll", "decide"}, NEW at \in {"asked", "listed", "taken"}, NEW what \in Preferences \cup Approvals
      PROVE  [Idle EXCEPT !.op = op, !.at = at, !.what = what] \in ThreadStates
  BY <1>3 DEF ThreadStates, Idle
<1>9. CASE thread[h] = Idle /\ Does(h, [Idle EXCEPT !.op = "start", !.at = "asked", !.what = override])
  <2> DEFINE next == [Idle EXCEPT !.op = "start", !.at = "asked", !.what = override]
  <2>1. next.op = "start" /\ next.at = "asked" /\ next.what = override /\ override \in Preferences
    BY DEF Idle, SettingsTyped
  <2>2. next \in ThreadStates
    BY <1>8, <2>1
  <2>3. Does(h, next) /\ thread[h].at # "answered"
    BY <1>3, <1>9
  <2> HIDE DEF next
  <2> QED BY <1>1, <1>5, <2>1, <2>2, <2>3
<1>10. CASE thread[h] = Idle /\ Does(h, [Idle EXCEPT !.op = "read", !.at = "asked"])
  <2> DEFINE next == [Idle EXCEPT !.op = "read", !.at = "asked"]
  <2>1. next.op = "read" /\ next.at = "asked"
    BY DEF Idle
  <2>2. next \in ThreadStates
    BY <1>3 DEF Idle, ThreadStates
  <2>3. Does(h, next) /\ thread[h].at # "answered"
    BY <1>3, <1>10
  <2> HIDE DEF next
  <2> QED BY <1>1, <1>5, <2>1, <2>2, <2>3
<1>11. CASE thread[h] = Idle /\ Does(h, [Idle EXCEPT !.op = "poll", !.at = "listed"])
  <2> DEFINE next == [Idle EXCEPT !.op = "poll", !.at = "listed"]
  <2>1. next.op = "poll" /\ next.at = "listed"
    BY DEF Idle
  <2>2. next \in ThreadStates
    BY <1>3 DEF Idle, ThreadStates
  <2>3. Does(h, next) /\ thread[h].at # "answered"
    BY <1>3, <1>11
  <2> HIDE DEF next
  <2> QED BY <1>1, <1>5, <2>1, <2>2, <2>3
<1>12. ASSUME NEW p \in Approvals, thread[h] = Idle, Does(h, [Idle EXCEPT !.op = "decide", !.at = "taken", !.what = p])
       PROVE  /\ \A g \in Threads \ {h} : thread'[g] = thread[g]
              /\ thread[h].at # "answered" /\ thread'[h].at \notin {"answered", "replied"}
              /\ ThreadTyped'
  <2> DEFINE next == [Idle EXCEPT !.op = "decide", !.at = "taken", !.what = p]
  <2>1. next.op = "decide" /\ next.at = "taken" /\ next.what = p
    BY DEF Idle
  <2>2. next \in ThreadStates
    BY <1>8, <2>1
  <2>3. Does(h, next) /\ thread[h].at # "answered"
    BY <1>3, <1>12
  <2> HIDE DEF next
  <2> QED BY <1>5, <2>1, <2>2, <2>3
<1> QED BY <1>1, <1>4, <1>6, <1>7, <1>9, <1>10, <1>11, <1>12

\* What the two replies of Codex, and their handling, do to the thread that waits.
LEMMA TurnAccepted == ASSUME Typed, NEW h \in Threads, AcceptTurn(h)
                      PROVE  /\ \A g \in Threads \ {h} : thread'[g] = thread[g]
                             /\ thread[h].op = "start" /\ thread[h].at = "asked" /\ ThreadTyped'
                             /\ \/ thread'[h] = Idle /\ out' = out
                                \/ /\ thread'[h].op = "start" /\ thread'[h].at = "answered"
                                   /\ thread'[h].turn = count + 1
                                   /\ Told1(Message("reply", 0, h))
                             /\ count' = count + 1 /\ count' \in Turns /\ stage' = [stage EXCEPT ![count'] = "queued"]
                             /\ UNCHANGED <<part, whole, asked, decisions, left>> /\ CodexStep
<1> USE DEF Typed, ThreadTyped
<1>0. Idle \in ThreadStates /\ Idle.op = "idle"
  BY BoundsAssumption DEF Idle, Nowhere, ThreadStates, Preferences
<1>1. /\ count' = count + 1 /\ count' \in Turns /\ stage' = [stage EXCEPT ![count'] = "queued"]
      /\ UNCHANGED <<part, whole, asked, decisions, left>> /\ CodexStep
      /\ thread[h].op = "start" /\ thread[h].at = "asked"
  BY BoundsAssumption DEF AcceptTurn, CodexTyped, Turns, said
<1>2. CASE Emit(Message("reply", 0, h)) /\ thread' = [thread EXCEPT ![h].turn = count + 1, ![h].at = "answered"]
  <2>1. /\ thread'[h] = [thread[h] EXCEPT !.turn = count + 1, !.at = "answered"]
        /\ \A g \in Threads \ {h} : thread'[g] = thread[g]
        /\ DOMAIN thread' = Threads /\ thread' = [g \in Threads |-> thread'[g]]
    BY <1>2
  <2>2. /\ thread'[h] \in ThreadStates /\ thread'[h].op = "start" /\ thread'[h].at = "answered"
        /\ thread'[h].turn = count + 1 /\ thread'[h].what = thread[h].what
    <3>1. thread[h] \in ThreadStates /\ thread[h].op = "start"
      BY <1>1
    <3>2. count + 1 \in 0..MaxTurns
      BY <1>1, BoundsAssumption DEF Turns
    <3> HIDE DEF Typed, ThreadTyped
    <3> QED BY <2>1, <3>1, <3>2 DEF ThreadStates
  <2>3. thread' \in [Threads -> ThreadStates]
    BY <2>1, <2>2
  <2>4. ThreadTyped'
    <3>1. thread[h].what \in Preferences /\ left' \in [Kinds -> Nat]
      BY <1>1
    <3>2. thread'[h].op = "start" /\ thread'[h].what \in Preferences
      BY <2>2, <3>1
    <3>3. ASSUME NEW g \in Threads
          PROVE  /\ thread'[g].op = "start" => thread'[g].what \in Preferences
                 /\ thread'[g].op = "decide" => thread'[g].what \in Approvals
                 /\ thread'[g].op = "poll" => thread'[g].at = "listed"
                 /\ thread'[g].op = "decide" => thread'[g].at = "taken"
      <4>1. CASE g = h
        BY <3>2, <4>1
      <4>2. CASE g # h
        BY <2>1, <4>2
      <4> QED BY <4>1, <4>2
    <3> QED BY <2>3, <3>1, <3>3
  <2>5. Message("reply", 0, h) \in Messages
    BY BoundsAssumption DEF Message, Messages
  <2>6. Told1(Message("reply", 0, h))
    BY <1>2, <2>5, OneIsTold DEF PipeTyped
  <2> QED BY <1>1, <2>1, <2>2, <2>4, <2>6
<1>3. CASE thread' = [thread EXCEPT ![h] = Idle] /\ out' = out
  BY <1>0, <1>1, <1>3
<1> QED BY <1>2, <1>3, Zenon DEF AcceptTurn

LEMMA ReadAnswered == ASSUME Typed, NEW h \in Threads, AnswerRead(h)
                      PROVE  /\ \A g \in Threads \ {h} : thread'[g] = thread[g]
                             /\ thread[h].op = "read" /\ thread[h].at = "asked" /\ ThreadTyped'
                             /\ thread'[h].op = "read" /\ thread'[h].at = "answered"
                             /\ \/ thread'[h].turn = 0
                                \/ /\ thread'[h].turn = count /\ count # 0 /\ part[count] # 0
                                   /\ thread'[h].part = part[count]
                             /\ Told1(Message("reply", 0, h))
                             /\ UNCHANGED <<codexVars, left, behind>> /\ CodexStep
<1> USE DEF Typed, ThreadTyped
<1> DEFINE spoken == count # 0 /\ part[count] # 0
           turn == IF spoken THEN count ELSE 0
           said1 == IF spoken THEN part[count] ELSE 0
<1>1. /\ thread' = [thread EXCEPT ![h].at = "answered", ![h].turn = turn, ![h].part = said1, ![h].stored = whole]
      /\ thread[h].op = "read" /\ thread[h].at = "asked" /\ Emit(Message("reply", 0, h))
      /\ UNCHANGED <<codexVars, left, behind>> /\ CodexStep
  BY DEF AnswerRead
<1>2. /\ turn \in 0..MaxTurns /\ said1 \in Nat /\ whole \in [Turns -> SUBSET Nat]
      /\ turn = 0 \/ (turn = count /\ count # 0 /\ part[count] # 0 /\ said1 = part[count])
  BY BoundsAssumption DEF CodexTyped, Turns
<1> HIDE DEF turn, said1
<1>3. /\ thread'[h] = [thread[h] EXCEPT !.at = "answered", !.turn = turn, !.part = said1, !.stored = whole]
      /\ \A g \in Threads \ {h} : thread'[g] = thread[g]
      /\ DOMAIN thread' = Threads /\ thread' = [g \in Threads |-> thread'[g]]
  BY <1>1
<1>4. /\ thread'[h] \in ThreadStates /\ thread'[h].op = "read" /\ thread'[h].at = "answered"
      /\ thread'[h].turn = turn /\ thread'[h].part = said1
  <2>1. thread[h] \in ThreadStates
    OBVIOUS
  <2>2. \A r \in ThreadStates : [r EXCEPT !.at = "answered", !.turn = turn, !.part = said1, !.stored = whole]
                                 \in ThreadStates
    BY <1>2 DEF ThreadStates
  <2>3. thread'[h] \in ThreadStates
    BY <1>3, <2>1, <2>2
  <2>4. /\ thread'[h].op = thread[h].op /\ thread'[h].at = "answered"
        /\ thread'[h].turn = turn /\ thread'[h].part = said1
    BY <1>3, <2>1 DEF ThreadStates
  <2> QED BY <1>1, <2>3, <2>4
<1>5. thread' \in [Threads -> ThreadStates]
  BY <1>3, <1>4
<1>6. ThreadTyped'
  BY <1>1, <1>3, <1>4, <1>5
<1>7. Told1(Message("reply", 0, h))
  BY OthersTell DEF PipeTyped
<1> QED BY <1>1, <1>2, <1>3, <1>4, <1>6, <1>7

LEMMA ReplyHandled == ASSUME Typed, HandleReply
                      PROVE  /\ out[1].kind = "reply" /\ out[1].about \in Threads /\ Taken1
                             /\ thread[out[1].about].at = "answered"
                             /\ \A g \in Threads \ {out[1].about} : thread'[g] = thread[g]
                             /\ thread'[out[1].about] = [thread[out[1].about] EXCEPT !.at = "replied"]
                             /\ ThreadTyped'
<1> USE DEF Typed, ThreadTyped
<1>1. Taken1 /\ out[1].kind = "reply" /\ 1 \in Pipe /\ Head(out) = out[1]
  BY OneIsTaken DEF PipeTyped, Taken1
<1>2. out[1].about \in Threads /\ thread[out[1].about].at = "answered"
  BY <1>1 DEF PipeTyped, WellFormed, TurnKinds, ReplyInv
<1> DEFINE k == out[1].about
<1>3. thread' = [thread EXCEPT ![k].at = "replied"] /\ UNCHANGED left /\ k \in Threads /\ thread[k].at = "answered"
  BY <1>1, <1>2 DEF HandleReply
<1> HIDE DEF k
<1>4. /\ thread'[k] = [thread[k] EXCEPT !.at = "replied"]
      /\ \A g \in Threads \ {k} : thread'[g] = thread[g]
      /\ DOMAIN thread' = Threads /\ thread' = [g \in Threads |-> thread'[g]]
  BY <1>3
<1>5. /\ thread'[k] \in ThreadStates /\ thread'[k].op = thread[k].op /\ thread'[k].at = "replied"
      /\ thread'[k].what = thread[k].what
  BY <1>3, <1>4 DEF ThreadStates
<1>6. thread' \in [Threads -> ThreadStates]
  BY <1>4, <1>5
<1>7. ThreadTyped'
  BY <1>3, <1>4, <1>5, <1>6
<1> QED BY <1>1, <1>2, <1>3, <1>4, <1>7 DEF k

LEMMA PipeStaysTyped == ASSUME Typed, [Next]_vars PROVE PipeTyped' /\ ThreadTyped' /\ ReplyInv'
<1> USE DEF Typed
<1>0. out \in Seq(Messages) /\ (\A i \in Pipe : WellFormed(out[i])) /\ CodexTyped
  BY DEF PipeTyped
<1>1. ASSUME UNCHANGED thread, UNCHANGED left \/ Spend("more"), Extended, \A i \in Fresh : WellFormed(out'[i]) /\ out'[i].kind # "reply"
      PROVE  PipeTyped' /\ ThreadTyped' /\ ReplyInv'
  <2>1. PipeTyped'
    BY <1>0, <1>1 DEF PipeTyped, Extended, Fresh
  <2>2. ThreadTyped'
    <3>1. left' \in [Kinds -> Nat]
      BY <1>1 DEF ThreadTyped, Spend, Kinds
    <3> QED BY <1>1, <3>1 DEF ThreadTyped
  <2>3. ReplyInv'
    BY <1>1 DEF ReplyInv, Extended, Fresh
  <2> QED BY <2>1, <2>2, <2>3
<1>2. ASSUME NEW h \in Threads, Told1(Message("reply", 0, h)), thread[h].at = "asked", thread'[h].at = "answered",
             \A g \in Threads \ {h} : thread'[g] = thread[g]
      PROVE  PipeTyped' /\ ReplyInv'
  <2>1. PipeTyped'
    BY <1>0, <1>2 DEF PipeTyped, Told1, Extended, Fresh, WellFormed, Message
  <2>2. \A i \in Pipe : out[i].kind = "reply" => out[i].about \in Threads \ {h}
    BY <1>0, <1>2 DEF ReplyInv, WellFormed, TurnKinds
  <2>3. ReplyInv'
    BY <1>0, <1>2, <2>2 DEF ReplyInv, Told1, Extended, Fresh, Message
  <2> QED BY <2>1, <2>3
<1>3. ASSUME NEW h \in Threads, out' = out, thread[h].at # "answered", \A g \in Threads \ {h} : thread'[g] = thread[g]
      PROVE  PipeTyped' /\ ReplyInv'
  <2>1. PipeTyped'
    BY <1>3 DEF PipeTyped, Pipe
  <2>2. \A i \in Pipe : out[i].kind = "reply" => out[i].about \in Threads \ {h}
    BY <1>0, <1>3 DEF ReplyInv, WellFormed, TurnKinds
  <2> QED BY <1>3, <2>1, <2>2 DEF ReplyInv, Pipe
<1>4. ASSUME NEW t \in Turns, GoOn(t)
      PROVE  PipeTyped' /\ ThreadTyped' /\ ReplyInv'
  <2>1. /\ UNCHANGED thread /\ (UNCHANGED left \/ Spend("more")) /\ Extended
        /\ \A i \in Fresh : out'[i].turn = t /\ (out'[i].kind = LastWord(t) \/ out'[i].kind = "error")
    BY <1>0, <1>4, TurnTells
  <2>2. LastWord(t) \in TurnKinds
    BY DEF LastWord, TurnKinds
  <2> QED BY <1>1, <2>1, <2>2 DEF WellFormed, TurnKinds
<1>5. ASSUME NEW t \in Turns, NEW p \in Approvals, AskApproval(t, p) PROVE PipeTyped' /\ ThreadTyped' /\ ReplyInv'
  <2>1. Told1(Message("requestApproval", t, p)) /\ UNCHANGED thread /\ Spend("ask")
    BY <1>0, <1>5, OthersTell DEF AskApproval
  <2>2. ThreadTyped'
    BY <2>1 DEF ThreadTyped, Spend, Kinds
  <2>3. PipeTyped'
    BY <1>0, <2>1 DEF PipeTyped, Told1, Extended, Fresh, WellFormed, Message
  <2>4. ReplyInv'
    BY <2>1 DEF ReplyInv, Told1, Extended, Fresh, Message
  <2> QED BY <2>2, <2>3, <2>4
<1>6. ASSUME NEW h \in Threads, AcceptTurn(h) PROVE PipeTyped' /\ ThreadTyped' /\ ReplyInv'
  <2>1. /\ \A g \in Threads \ {h} : thread'[g] = thread[g]
        /\ thread[h].at = "asked" /\ ThreadTyped'
        /\ out' = out \/ (thread'[h].at = "answered" /\ Told1(Message("reply", 0, h)))
    BY <1>6, TurnAccepted
  <2> QED BY <1>2, <1>3, <2>1
<1>7. ASSUME NEW h \in Threads, AnswerRead(h) PROVE PipeTyped' /\ ThreadTyped' /\ ReplyInv'
  BY <1>2, <1>7, ReadAnswered
<1>8. CASE TellSettings
  <2>1. Told1(Message("thread/settings/updated", 0, using)) /\ UNCHANGED <<thread, left>>
    BY <1>0, <1>8, OthersTell DEF TellSettings
  <2> QED BY <1>0, <1>1, <2>1 DEF Told1, WellFormed, Message, CodexTyped
<1>9. CASE HandleEvent
  <2>1. Taken1 /\ UNCHANGED <<thread, left>>
    BY <1>0, <1>9, OneIsTaken DEF HandleEvent
  <2>2. PipeTyped'
    BY <1>0, <2>1 DEF PipeTyped, Taken1
  <2>3. ThreadTyped'
    BY <2>1 DEF ThreadTyped
  <2>4. ReplyInv'
    <3>1. \A i \in Pipe' : out'[i].kind = "reply" => thread'[out'[i].about].at = "answered"
      BY <2>1 DEF ReplyInv, Taken1
    <3>2. ASSUME NEW i \in Pipe', NEW j \in Pipe', out'[i].kind = "reply", out'[j].kind = "reply",
                 out'[i].about = out'[j].about
          PROVE  i = j
      <4>1. i + 1 = j + 1
        BY <2>1, <3>2 DEF ReplyInv, Taken1
      <4> QED BY <4>1 DEF Pipe
    <3> QED BY <3>1, <3>2 DEF ReplyInv
  <2> QED BY <2>2, <2>3, <2>4
<1>10. CASE HandleReply
  <2>1. /\ out[1].kind = "reply" /\ out[1].about \in Threads /\ Taken1
        /\ \A g \in Threads \ {out[1].about} : thread'[g] = thread[g]
        /\ ThreadTyped'
    BY <1>10, ReplyHandled
  <2>2. PipeTyped'
    BY <1>0, <2>1 DEF PipeTyped, Taken1
  <2>3. \A i \in Pipe \ {1} : out[i].kind = "reply" => out[i].about \in Threads \ {out[1].about}
    BY <1>0, <2>1 DEF ReplyInv, WellFormed, TurnKinds, Taken1
  <2>4. \A i \in Pipe' : /\ i + 1 \in Pipe \ {1} /\ out'[i] = out[i + 1]
    BY <2>1 DEF Taken1, Pipe
  <2>5. \A i \in Pipe' : out'[i].kind = "reply" => thread'[out'[i].about].at = "answered"
    BY <2>1, <2>3, <2>4 DEF ReplyInv
  <2>6. \A i, j \in Pipe' : out'[i].kind = "reply" /\ out'[j].kind = "reply" /\ out'[i].about = out'[j].about => i = j
    <3> SUFFICES ASSUME NEW i \in Pipe', NEW j \in Pipe', out'[i].kind = "reply", out'[j].kind = "reply",
                        out'[i].about = out'[j].about
                 PROVE  i = j
      OBVIOUS
    <3>1. i + 1 = j + 1
      BY <2>4 DEF ReplyInv
    <3> QED BY <3>1 DEF Pipe
  <2> QED BY <2>1, <2>2, <2>5, <2>6 DEF ReplyInv
<1>11. CASE HandleStderr \/ AppendEvent
  <2>1. UNCHANGED <<thread, out>> /\ (UNCHANGED left \/ Spend("stderr"))
    BY <1>11 DEF HandleStderr, AppendEvent
  <2> QED BY <2>1 DEF PipeTyped, ThreadTyped, ReplyInv, Pipe, Spend
<1>12. ASSUME NEW h \in Threads, ThreadNext(h) PROVE PipeTyped' /\ ThreadTyped' /\ ReplyInv'
  <2>1. /\ UNCHANGED out /\ ThreadTyped' /\ \A g \in Threads \ {h} : thread'[g] = thread[g]
        /\ \/ thread'[h] = thread[h] \/ thread[h].at # "answered"
    BY <1>12, ThreadMoves
  <2>2. CASE thread'[h] = thread[h]
    <3>1. \A g \in Threads : thread'[g] = thread[g]
      BY <2>1, <2>2
    <3> QED BY <1>0, <2>1, <3>1 DEF PipeTyped, ReplyInv, Pipe, WellFormed, TurnKinds
  <2> QED BY <1>3, <2>1, <2>2
<1>13. CASE UNCHANGED vars
  BY <1>13 DEF vars, PipeTyped, ThreadTyped, ReplyInv, Pipe
<1> QED BY <1>4, <1>5, <1>6, <1>7, <1>8, <1>9, <1>10, <1>11, <1>12, <1>13, Zenon DEF Next, CodexNext, ReaderNext

\* An event is about a turn, or it reports the settings of the thread.
LEMMA EventHandled == ASSUME Typed, HandleEvent
                      PROVE  /\ Taken1 /\ Number("stdout") /\ WellFormed(out[1]) /\ out[1].kind # "reply"
                             /\ out[1].part \in Nat
                             /\ \/ /\ out[1].turn \in Turns /\ UpdateTurn(out[1].turn, out[1].kind, out[1].part)
                                   /\ UNCHANGED settings
                                   /\ out[1].kind \in TurnKinds \cup {"requestApproval"}
                                \/ /\ out[1].kind = "thread/settings/updated" /\ out[1].turn = 0
                                   /\ out[1].about \in Models /\ UpdateSettings(out[1].about)
                             /\ out[1].kind # "requestApproval" => approvals' = approvals
                             /\ out[1].kind = "requestApproval" => out[1].about \in Approvals
                                                                   /\ approvals' = approvals \cup {out[1].about}
                             /\ UNCHANGED <<codexVars, override, thread, left, unsent, overlapped, behind>>
<1>1. Taken1 /\ 1 \in Pipe /\ Head(out) = out[1] /\ out[1].kind # "reply"
  BY OneIsTaken DEF Typed, PipeTyped, Taken1
<1>2. WellFormed(out[1]) /\ out[1].part \in Nat
  <2>1. WellFormed(out[1]) /\ out \in Seq(Messages)
    BY <1>1 DEF Typed, PipeTyped
  <2>2. out[1] \in Messages
    BY <1>1, <2>1 DEF Pipe
  <2> QED BY <2>1, <2>2 DEF Messages
<1>3. /\ IF out[1].turn # 0 THEN UpdateTurn(out[1].turn, out[1].kind, out[1].part) /\ UNCHANGED settings
                            ELSE UpdateSettings(out[1].about)
      /\ approvals' = approvals \cup (IF out[1].kind = "requestApproval" THEN {out[1].about} ELSE {})
      /\ Number("stdout") /\ UNCHANGED <<codexVars, override, thread, left, unsent, overlapped, behind>>
  BY <1>1 DEF HandleEvent
<1>4. 0 \notin Turns
  BY BoundsAssumption DEF Turns
<1>5. \/ out[1].turn \in Turns /\ out[1].kind \in TurnKinds \cup {"requestApproval"}
      \/ out[1].kind = "thread/settings/updated" /\ out[1].turn = 0 /\ out[1].about \in Models
  BY <1>1, <1>2 DEF WellFormed
<1>6. out[1].kind = "requestApproval" => out[1].about \in Approvals
  BY <1>2 DEF WellFormed, TurnKinds
<1> QED BY <1>1, <1>2, <1>3, <1>4, <1>5, <1>6

LEMMA TurnsStayTyped == ASSUME Typed, [Next]_vars PROVE TurnsTyped' /\ SettingsTyped'
<1> USE DEF Typed, TurnsTyped, SettingsTyped
<1>1. ASSUME UNCHANGED <<turnVars, settings, override, approvals>> PROVE TurnsTyped' /\ SettingsTyped'
  BY <1>1 DEF turnVars
<1>2. \A kind : \A s \in Statuses : StatusAfter(kind, s) \in Statuses
  BY DEF StatusAfter, Statuses, Ended
<1>3. CASE CodexNext
  BY <1>1, <1>3, Zenon DEF CodexNext, GoOn, Begin, Retry, Speak, Store, Picture, Complete, Fail, AskApproval, AcceptTurn, AnswerRead,
     TellSettings, Advance, CodexStep
<1>4. CASE HandleEvent
  <2>0. SettingsTyped'
    BY <1>4, EventHandled DEF UpdateSettings, Preferences
  <2>1. CASE out[1].turn \in Turns /\ UpdateTurn(out[1].turn, out[1].kind, out[1].part)
    <3>1. status' \in [Turns -> Statuses]
      BY <1>2, <2>1 DEF UpdateTurn
    <3>2. text' \in [Turns -> SUBSET Nat]
      <4>1. \A was \in SUBSET Nat : TextAfter(out[1].kind, out[1].part, was) \in SUBSET Nat
        BY <1>4, EventHandled DEF TextAfter
      <4> QED BY <2>1, <4>1 DEF UpdateTurn
    <3>3. current' \in 0..MaxTurns /\ UNCHANGED <<model, confirmed>>
      BY <2>1, BoundsAssumption DEF UpdateTurn, Turns
    <3> QED BY <2>0, <3>1, <3>2, <3>3
  <2>2. CASE out[1].about \in Models /\ UpdateSettings(out[1].about)
    <3>1. UNCHANGED <<status, text, current>>
      BY <2>2 DEF UpdateSettings
    <3>2. model' \in [Turns -> Preferences]
      BY <2>2 DEF UpdateSettings, Preferences
    <3>3. confirmed' \in [Turns -> BOOLEAN]
      BY <2>2 DEF UpdateSettings
    <3> QED BY <2>0, <3>1, <3>2, <3>3
  <2> QED BY <1>4, <2>1, <2>2, EventHandled
<1>5. CASE HandleStderr \/ AppendEvent \/ HandleReply
  BY <1>1, <1>5, Zenon DEF HandleStderr, AppendEvent, HandleReply
<1>6. ASSUME NEW h \in Threads, Record(h) PROVE TurnsTyped' /\ SettingsTyped'
  <2>1. thread[h].turn \in 0..MaxTurns /\ thread[h].what \in Preferences
    BY <1>6 DEF Record, ThreadTyped, ThreadStates
  <2> DEFINE t == thread[h].turn
  <2>2. /\ status' = [status EXCEPT ![t] = StatusAfter("turn/recorded", @)]
        /\ model' = [model EXCEPT ![t] = IF settings # NoModel THEN settings ELSE thread[h].what]
        /\ confirmed' = [confirmed EXCEPT ![t] = settings # NoModel]
        /\ current' = t
        /\ UNCHANGED <<text, settings, override, approvals>>
    BY <1>6 DEF Record
  <2>3. (IF settings # NoModel THEN settings ELSE thread[h].what) \in Preferences
    BY <2>1
  <2> HIDE DEF t
  <2>4. status' \in [Turns -> Statuses]
    BY <1>2, <2>2
  <2>5. model' \in [Turns -> Preferences]
    BY <2>2, <2>3
  <2>6. confirmed' \in [Turns -> BOOLEAN]
    BY <2>2
  <2> QED BY <2>1, <2>2, <2>4, <2>5, <2>6 DEF t
<1>7. ASSUME NEW h \in Threads, ThreadNext(h), ~Record(h) PROVE TurnsTyped' /\ SettingsTyped'
  <2>1. /\ UNCHANGED <<turnVars, settings>>
        /\ override' = override \/ override' \in Preferences
        /\ approvals' = approvals \/ \E p \in Approvals : approvals' = approvals \ {p}
    BY <1>7, Zenon DEF ThreadNext, StartTurn, ReadThread, AnswerThread, SetOverride, ListEvents, AnswerEvents,
       ReplyApproval, Take, Respond, hostVars
  <2> QED BY <2>1 DEF turnVars
<1>8. CASE UNCHANGED vars
  BY <1>1, <1>8 DEF vars
<1> QED BY <1>3, <1>4, <1>5, <1>6, <1>7, <1>8, Zenon DEF Next, ReaderNext
-----------------------------------------------------------------------------
(* Polls *)

\* An event that was numbered is kept, about to be kept, or excused.
LogInv == \A n \in 1..seq : \/ n \in excused
                            \/ \E i \in 1..Len(events) : events[i] = n
                            \/ busy # "free" /\ n = seq

\* A poll that has its list has all the events up to latestSeq, as it will be told.
PollInv == /\ PollsMissOnlyRaces
           /\ Polling => \A n \in 1..seq : n \in seen \cup excused

\* Who else polls does not matter to a step that neither lists nor answers.
LEMMA PollsGoOn == ASSUME Typed, [Next]_vars,
                          \A h \in Threads : ~ListEvents(h) /\ ~AnswerEvents(h)
                   PROVE  Polling' => Polling
<1> USE DEF Typed
<1>1. ASSUME NEW h \in Threads, \A g \in Threads \ {h} : thread'[g] = thread[g],
             ~(thread'[h].op = "poll" /\ thread'[h].at = "listed")
      PROVE  Polling' => Polling
  BY <1>1 DEF Polling
<1>2. ASSUME thread' = thread PROVE Polling' => Polling
  BY <1>2 DEF Polling
<1>3. ASSUME NEW h \in Threads, AcceptTurn(h) PROVE Polling' => Polling
  BY <1>1, <1>3, TurnAccepted DEF Idle
<1>4. ASSUME NEW h \in Threads, AnswerRead(h) PROVE Polling' => Polling
  BY <1>1, <1>4, ReadAnswered
<1>5. CASE HandleReply
  <2>1. /\ out[1].about \in Threads /\ \A g \in Threads \ {out[1].about} : thread'[g] = thread[g]
        /\ thread'[out[1].about] = [thread[out[1].about] EXCEPT !.at = "replied"] /\ ThreadTyped'
    BY <1>5, ReplyHandled
  <2>2. thread'[out[1].about].at = "replied"
    BY <2>1 DEF ThreadTyped, ThreadStates
  <2> QED BY <1>1, <2>1, <2>2
<1>6. CASE \/ \E t \in Turns : \/ GoOn(t)
                               \/ \E p \in Approvals : AskApproval(t, p)
           \/ TellSettings \/ HandleEvent \/ HandleStderr \/ AppendEvent \/ UNCHANGED vars
  BY <1>2, <1>6, Zenon DEF GoOn, Begin, Retry, Speak, Store, Picture, Complete, Fail, AskApproval, Advance, TellSettings, HandleEvent,
     HandleStderr, AppendEvent, vars
<1>7. ASSUME NEW h \in Threads, ThreadNext(h), ~ListEvents(h), ~AnswerEvents(h) PROVE Polling' => Polling
  <2>1. \/ UNCHANGED thread
        \/ Does(h, Idle)
        \/ Does(h, [Idle EXCEPT !.op = "start", !.at = "asked", !.what = override])
        \/ Does(h, [Idle EXCEPT !.op = "read", !.at = "asked"])
        \/ \E p \in Approvals : Does(h, [Idle EXCEPT !.op = "decide", !.at = "taken", !.what = p])
    BY <1>7, Zenon DEF ThreadNext, StartTurn, Record, ReadThread, AnswerThread, SetOverride,
       ReplyApproval, Respond, Finish
  <2>2. \/ UNCHANGED thread
        \/ (\A g \in Threads \ {h} : thread'[g] = thread[g]) /\ thread'[h].op # "poll"
    <3>1. \/ UNCHANGED thread
          \/ \E next : Does(h, next) /\ next.op # "poll"
      <4>1. /\ Idle.op # "poll" /\ [Idle EXCEPT !.op = "start", !.at = "asked", !.what = override].op # "poll"
            /\ [Idle EXCEPT !.op = "read", !.at = "asked"].op # "poll"
            /\ \A p \in Approvals : [Idle EXCEPT !.op = "decide", !.at = "taken", !.what = p].op # "poll"
        BY DEF Idle
      <4> QED BY <2>1, <4>1, Zenon
    <3> QED BY <3>1 DEF Does, ThreadTyped
  <2> QED BY <1>1, <1>2, <2>2
<1> QED BY <1>3, <1>4, <1>5, <1>6, <1>7, Zenon DEF Next, CodexNext, ReaderNext

LEMMA PollsKept == ASSUME Typed, LogInv, PollInv, [Next]_vars
                   PROVE  LogTyped' /\ PollTyped' /\ LogInv' /\ PollInv'
<1> USE DEF Typed, LogTyped, PollTyped
<1>0. seq \in Nat /\ cursor \in 0..seq /\ Len(events) \in Nat
  OBVIOUS
<1>1. ASSUME NEW who \in {"stdout", "stderr"}, Number(who), Polling' => Polling
      PROVE  LogTyped' /\ PollTyped' /\ LogInv' /\ PollInv'
  <2>1. /\ busy = "free" /\ busy' = who /\ seq' = seq + 1 /\ UNCHANGED <<events, cursor, seen>>
        /\ excused' = excused \cup (IF Polling THEN {seq + 1} ELSE {})
    BY <1>1 DEF Number
  <2>2. LogTyped' /\ PollTyped'
    <3>1. 1..seq \subseteq 1..seq' /\ events' \in Seq(1..seq')
      BY <2>1
    <3> QED BY <1>1, <2>1, <3>1
  <2>3. LogInv'
    BY <2>1 DEF LogInv
  <2>4. PollInv'
    BY <1>1, <2>1 DEF PollInv, PollsMissOnlyRaces
  <2> QED BY <2>2, <2>3, <2>4
<1>2. CASE HandleEvent
  <2>1. \A h \in Threads : ~ListEvents(h) /\ ~AnswerEvents(h)
    BY <1>2, EventHandled DEF Number, ListEvents, AnswerEvents, hostVars, logVars
  <2> QED BY <1>1, <1>2, <2>1, EventHandled, PollsGoOn
<1>3. CASE HandleStderr
  <2>1. thread' = thread /\ Number("stderr")
    BY <1>3 DEF HandleStderr
  <2> QED BY <1>1, <2>1 DEF Polling
<1>4. CASE AppendEvent
  <2> DEFINE longer == Append(events, seq)
             full == Len(longer) > MaxLog
  <2>1. /\ busy # "free" /\ busy' = "free" /\ UNCHANGED <<thread, seq, cursor, seen>>
        /\ events' = IF full THEN Tail(longer) ELSE longer
        /\ excused' = excused \cup (IF full THEN {Head(longer)} ELSE {}) \cup (IF Polling THEN {seq} ELSE {})
    BY <1>4 DEF AppendEvent
  <2>2. seq \in 1..seq /\ MaxLog \in Nat \ {0}
    BY <2>1, BoundsAssumption
  <2>3. /\ longer \in Seq(1..seq) /\ Len(longer) = Len(events) + 1 /\ longer[Len(events) + 1] = seq
        /\ \A i \in 1..Len(events) : longer[i] = events[i]
        /\ Head(longer) = longer[1] /\ longer[1] \in 1..seq
    BY <2>2
  <2>4. /\ Tail(longer) \in Seq(1..seq) /\ Len(Tail(longer)) = Len(events)
        /\ \A i \in 1..Len(longer) : i # 1 => i - 1 \in 1..Len(Tail(longer)) /\ Tail(longer)[i - 1] = longer[i]
    <3> HIDE DEF longer
    <3>1. longer # <<>> /\ Len(longer) \in Nat
      BY <2>3
    <3> QED BY <2>3, <3>1
  <2> HIDE DEF longer
  <2>5. LogTyped' /\ PollTyped'
    <3>1. seq' = seq /\ busy' = "free" /\ cursor' = cursor /\ seen' = seen /\ excused' \in SUBSET (1..seq)
      BY <2>1, <2>2, <2>3
    <3>2. events' \in Seq(1..seq) /\ Len(events') <= MaxLog
      <4>1. CASE full
        BY <2>1, <2>4, <4>1
      <4>2. CASE ~full
        <5>1. Len(longer) <= MaxLog /\ events' = longer
          BY <2>1, <2>2, <2>3, <4>2
        <5> QED BY <2>3, <5>1
      <4> QED BY <4>1, <4>2
    <3> QED BY <3>1, <3>2
  <2>6. \A i \in 1..Len(longer) : longer[i] \in excused' \/ \E j \in 1..Len(events') : events'[j] = longer[i]
    BY <2>1, <2>3, <2>4
  <2>7. \A n \in 1..seq : n \in excused \/ \E i \in 1..Len(longer) : longer[i] = n
    <3> SUFFICES ASSUME NEW n \in 1..seq, n \notin excused PROVE \E i \in 1..Len(longer) : longer[i] = n
      OBVIOUS
    <3>1. CASE \E i \in 1..Len(events) : events[i] = n
      BY <2>3, <3>1
    <3>2. CASE n = seq
      BY <2>3, <3>2
    <3> QED BY <3>1, <3>2 DEF LogInv
  <2>8. LogInv'
    <3>1. seq' = seq /\ excused \subseteq excused'
      BY <2>1
    <3> QED BY <2>6, <2>7, <3>1 DEF LogInv
  <2>9. PollInv'
    BY <2>1 DEF PollInv, PollsMissOnlyRaces, Polling
  <2> QED BY <2>5, <2>8, <2>9
<1>5. ASSUME UNCHANGED <<logVars, pollVars>>, Polling' => Polling
      PROVE  LogTyped' /\ PollTyped' /\ LogInv' /\ PollInv'
  BY <1>5 DEF logVars, pollVars, LogInv, PollInv, PollsMissOnlyRaces
<1>6. ASSUME NEW h \in Threads, ListEvents(h) PROVE LogTyped' /\ PollTyped' /\ LogInv' /\ PollInv'
  <2>1. /\ UNCHANGED <<logVars, cursor>>
        /\ seen' = seen \cup { n \in New : \E i \in 1..Len(events) : events[i] = n }
        /\ excused' = excused \cup (IF busy = "free" THEN {} ELSE {seq})
    BY <1>6 DEF ListEvents, hostVars
  <2>2. LogTyped' /\ PollTyped'
    <3>1. New \subseteq 1..seq /\ UNCHANGED <<seq, events, busy, cursor>>
      BY <2>1 DEF New, logVars
    <3>2. seen' \in SUBSET (1..seq) /\ excused' \in SUBSET (1..seq)
      <4>1. { n \in New : \E i \in 1..Len(events) : events[i] = n } \subseteq 1..seq
        BY <3>1
      <4>2. busy # "free" => seq \in 1..seq
        OBVIOUS
      <4> QED BY <2>1, <4>1, <4>2
    <3> QED BY <3>1, <3>2
  <2>3. LogInv'
    BY <2>1 DEF LogInv, logVars
  <2>4. \A n \in 1..seq : n \in seen' \cup excused'
    <3> SUFFICES ASSUME NEW n \in 1..seq PROVE n \in seen' \cup excused'
      OBVIOUS
    <3>1. CASE n <= cursor
      BY <2>1, <3>1 DEF PollInv, PollsMissOnlyRaces
    <3>2. CASE n > cursor
      BY <2>1, <3>2 DEF LogInv, New
    <3> QED BY <3>1, <3>2
  <2>5. PollInv'
    BY <2>1, <2>4 DEF PollInv, PollsMissOnlyRaces, logVars
  <2> QED BY <2>2, <2>3, <2>5
<1>7. ASSUME NEW h \in Threads, AnswerEvents(h) PROVE LogTyped' /\ PollTyped' /\ LogInv' /\ PollInv'
  <2>1. cursor' = seq /\ UNCHANGED <<logVars, seen, excused>>
    BY <1>7 DEF AnswerEvents, hostVars
  <2>2. \A n \in 1..seq : n \in seen \cup excused
    BY <1>7 DEF PollInv, Polling, AnswerEvents, ThreadTyped
  <2> QED BY <2>1, <2>2 DEF logVars, LogInv, PollInv, PollsMissOnlyRaces
<1>8. CASE ~HandleEvent /\ ~HandleStderr /\ ~AppendEvent /\ \A h \in Threads : ~ListEvents(h) /\ ~AnswerEvents(h)
  <2>1. UNCHANGED <<logVars, pollVars>>
    BY <1>8, Zenon DEF Next, CodexNext, ReaderNext, ThreadNext, GoOn, Begin, Retry, Speak, Store, Picture, Complete, Fail, Advance,
       AskApproval, AcceptTurn, AnswerRead, TellSettings, CodexStep, HandleReply, StartTurn, Record, ReadThread,
       AnswerThread, SetOverride, ReplyApproval, Respond, hostVars, phoneVars, vars
  <2> QED BY <1>5, <1>8, <2>1, PollsGoOn
<1> QED BY <1>2, <1>3, <1>4, <1>6, <1>7, <1>8

LEMMA FlagsStayTyped == ASSUME Typed, [Next]_vars PROVE FlagsTyped'
<1> USE DEF Typed, FlagsTyped
<1>1. ASSUME NEW h \in Threads, Respond(h) PROVE FlagsTyped'
  <2>1. thread[h].what \in Approvals
    BY <1>1 DEF Respond, ThreadTyped
  <2> QED BY <1>1, <2>1 DEF Respond
<1>2. ASSUME NEW h \in Threads, StartTurn(h) PROVE FlagsTyped'
  BY <1>2 DEF StartTurn, Route, phoneVars
<1>3. ASSUME NEW h \in Threads, AcceptTurn(h) PROVE FlagsTyped'
  BY <1>3 DEF AcceptTurn, CodexStep
<1>4. CASE (\A h \in Threads : ~Respond(h) /\ ~StartTurn(h) /\ ~AcceptTurn(h)) /\ Next
  <2>1. UNCHANGED <<unsent, overlapped, behind>>
    BY <1>4, Zenon DEF Next, CodexNext, ReaderNext, ThreadNext, GoOn, Begin, Retry, Speak, Store, Picture, Complete, Fail, Advance,
       AskApproval, AnswerRead, TellSettings, CodexStep, HandleEvent, HandleStderr, AppendEvent, HandleReply, Record,
       ReadThread, AnswerThread, SetOverride, ListEvents, AnswerEvents, ReplyApproval, Route, phoneVars
  <2> QED BY <2>1
<1>5. CASE UNCHANGED vars
  BY <1>5 DEF vars
<1> QED BY <1>1, <1>2, <1>3, <1>4, <1>5
-----------------------------------------------------------------------------
(* Approvals *)

Asks(i, p) == out[i].kind = "requestApproval" /\ out[i].about = p
Holds(h, p) == thread[h].op = "decide" /\ thread[h].what = p
Asked(p) == \E i \in Pipe : Asks(i, p)
Held(p) == \E h \in Threads : Holds(h, p)

\* Where an approval was asked for, it is in one place and there once.
ApprovalInv == \A p \in Approvals :
    /\ \A i, j \in Pipe : Asks(i, p) /\ Asks(j, p) => i = j
    /\ \A g, h \in Threads : Holds(g, p) /\ Holds(h, p) => g = h
    /\ p \in asked <=> Asked(p) \/ p \in approvals \/ Held(p) \/ decisions[p] # 0 \/ p \in unsent
    /\ Asked(p) => ~(p \in approvals \/ Held(p) \/ decisions[p] # 0 \/ p \in unsent)
    /\ p \in approvals => ~(Held(p) \/ decisions[p] # 0 \/ p \in unsent)
    /\ Held(p) => ~(decisions[p] # 0 \/ p \in unsent)
    /\ decisions[p] # 0 => p \notin unsent
    /\ decisions[p] <= 1

\* What leaves every approval where it is.
LEMMA ApprovalsStay == ASSUME ApprovalInv, UNCHANGED <<approvals, asked, decisions, unsent>>,
                              \A p \in Approvals : (Asked(p)' <=> Asked(p)) /\ (Held(p)' <=> Held(p)),
                              \A p \in Approvals : \A i, j \in Pipe' : Asks(i, p)' /\ Asks(j, p)' => i = j,
                              \A p \in Approvals : \A g, h \in Threads : Holds(g, p)' /\ Holds(h, p)' => g = h
                       PROVE  ApprovalInv'
  BY DEF ApprovalInv

LEMMA ApprovalsKept == ASSUME Typed, ApprovalInv, [Next]_vars PROVE ApprovalInv'
<1> USE DEF Typed
<1>1. ASSUME UNCHANGED <<approvals, asked, decisions, unsent>>, Extended,
             \A i \in Fresh : out'[i].kind # "requestApproval",
             \A g \in Threads : \/ thread'[g].op = thread[g].op /\ thread'[g].what = thread[g].what
                                \/ thread[g].op # "decide" /\ thread'[g].op # "decide"
      PROVE  ApprovalInv'
  <2>1. \A p : \A g \in Threads : Holds(g, p)' <=> Holds(g, p)
    BY <1>1 DEF Holds
  <2>2. \A p : \A i \in Pipe' : Asks(i, p)' <=> i \in Pipe /\ Asks(i, p)
    BY <1>1 DEF Asks, Extended, Fresh
  <2>3. \A p \in Approvals : (Asked(p)' <=> Asked(p)) /\ (Held(p)' <=> Held(p))
    BY <1>1, <2>1, <2>2 DEF Asked, Held, Extended
  <2> QED BY <1>1, <2>1, <2>2, <2>3, ApprovalsStay DEF ApprovalInv
<1>2. ASSUME Taken1
      PROVE  /\ \A p \in Approvals : Asked(p)' <=> \E j \in Pipe \ {1} : Asks(j, p)
             /\ \A p \in Approvals : \A i, j \in Pipe' : Asks(i, p)' /\ Asks(j, p)' => i = j
  <2>1. \A p \in Approvals : \A i \in Pipe' : i + 1 \in Pipe \ {1} /\ (Asks(i, p)' <=> Asks(i + 1, p))
    BY <1>2 DEF Asks, Taken1, Pipe
  <2>2. \A p \in Approvals : \A i \in Pipe \ {1} : i - 1 \in Pipe' /\ (Asks(i - 1, p)' <=> Asks(i, p))
    BY <1>2 DEF Asks, Taken1, Pipe
  <2>3. \A p \in Approvals : Asked(p)' <=> \E j \in Pipe \ {1} : Asks(j, p)
    BY <2>1, <2>2 DEF Asked
  <2>4. ASSUME NEW p \in Approvals, NEW i \in Pipe', NEW j \in Pipe', Asks(i, p)', Asks(j, p)' PROVE i = j
    <3>1. i + 1 = j + 1
      BY <2>1, <2>4 DEF ApprovalInv
    <3> QED BY <3>1 DEF Pipe
  <2> QED BY <2>3, <2>4
<1>3. ASSUME NEW t \in Turns, GoOn(t) PROVE ApprovalInv'
  <2>1. /\ UNCHANGED <<asked, decisions, thread>> /\ CodexStep /\ Extended
        /\ \A i \in Fresh : out'[i].kind = LastWord(t) \/ out'[i].kind = "error"
    BY <1>3, TurnTells DEF PipeTyped
  <2>2. LastWord(t) # "requestApproval"
    BY DEF LastWord
  <2> QED BY <1>1, <2>1, <2>2 DEF CodexStep
<1>4. ASSUME NEW t \in Turns, NEW p \in Approvals, AskApproval(t, p) PROVE ApprovalInv'
  <2>1. /\ Told1(Message("requestApproval", t, p)) /\ p \notin asked /\ asked' = asked \cup {p}
        /\ UNCHANGED <<decisions, thread, approvals, unsent>>
    BY <1>4, OthersTell DEF AskApproval, CodexStep, PipeTyped
  <2>2. \A q \in Approvals : \A g \in Threads : Holds(g, q)' <=> Holds(g, q)
    BY <2>1 DEF Holds
  <2>3. \A q \in Approvals : \A i \in Pipe' : Asks(i, q)' <=> (i \in Pipe /\ Asks(i, q)) \/ (i = Len(out) + 1 /\ q = p)
    BY <2>1 DEF Asks, Told1, Extended, Fresh, Message
  <2>4. Len(out) + 1 \in Pipe' /\ Pipe \subseteq Pipe'
    BY <2>1 DEF Told1, Extended, Fresh
  <2>5. ~Asked(p)
    BY <2>1 DEF ApprovalInv
  <2>6. /\ \A q \in Approvals : Held(q)' <=> Held(q)
        /\ \A q \in Approvals : Asked(q)' <=> Asked(q) \/ q = p
    BY <2>2, <2>3, <2>4 DEF Held, Asked
  <2>7. ASSUME NEW q \in Approvals, NEW i \in Pipe', NEW j \in Pipe', Asks(i, q)', Asks(j, q)' PROVE i = j
    BY <2>3, <2>5, <2>7 DEF ApprovalInv, Asked
  <2> QED BY <2>1, <2>2, <2>6, <2>7 DEF ApprovalInv
<1>5. ASSUME NEW h \in Threads, AcceptTurn(h) \/ AnswerRead(h) PROVE ApprovalInv'
  <2>1. /\ \A g \in Threads \ {h} : thread'[g] = thread[g]
        /\ thread[h].op # "decide" /\ thread'[h].op # "decide"
        /\ out' = out \/ Told1(Message("reply", 0, h))
        /\ UNCHANGED <<approvals, asked, decisions, unsent>>
    BY <1>5, TurnAccepted, ReadAnswered DEF CodexStep, codexVars, Idle
  <2>2. CASE out' = out
    <3>1. Extended /\ Fresh = {}
      BY <2>2 DEF Extended, Fresh, PipeTyped, Pipe
    <3> QED BY <1>1, <2>1, <3>1
  <2>3. CASE Told1(Message("reply", 0, h))
    BY <1>1, <2>1, <2>3 DEF Told1, Message
  <2> QED BY <2>1, <2>2, <2>3
<1>6. CASE TellSettings
  <2>1. /\ Told1(Message("thread/settings/updated", 0, using))
        /\ UNCHANGED <<approvals, asked, decisions, unsent, thread>>
    BY <1>6, OthersTell DEF TellSettings, CodexStep, PipeTyped
  <2> QED BY <1>1, <2>1 DEF Told1, Message
<1>7. CASE HandleEvent
  <2>1. /\ Taken1 /\ UNCHANGED <<asked, decisions, unsent, thread>>
        /\ out[1].kind # "requestApproval" => approvals' = approvals
        /\ out[1].kind = "requestApproval" => out[1].about \in Approvals /\ approvals' = approvals \cup {out[1].about}
    BY <1>7, EventHandled DEF codexVars
  <2>2. \A q \in Approvals : (\A g \in Threads : Holds(g, q)' <=> Holds(g, q)) /\ (Held(q)' <=> Held(q))
    BY <2>1 DEF Holds, Held
  <2>3. 1 \in Pipe
    BY <2>1 DEF Taken1
  <2>4. ASSUME NEW q \in Approvals, Asks(1, q) PROVE Asked(q) /\ ~Asked(q)' /\ approvals' = approvals \cup {q}
    BY <1>2, <2>1, <2>3, <2>4 DEF Asks, Asked, ApprovalInv
  <2>5. ASSUME NEW q \in Approvals, ~Asks(1, q) PROVE (Asked(q)' <=> Asked(q)) /\ (q \in approvals' <=> q \in approvals)
    BY <1>2, <2>1, <2>3, <2>5 DEF Asks, Asked
  <2>6. ASSUME NEW q \in Approvals, Asks(1, q)
        PROVE  q \in asked /\ q \in approvals' /\ ~Held(q) /\ decisions[q] = 0 /\ q \notin unsent
    BY <2>4, <2>6 DEF ApprovalInv
  <2> QED BY <1>2, <2>1, <2>2, <2>4, <2>5, <2>6 DEF ApprovalInv
<1>8. CASE HandleReply
  <2> DEFINE k == out[1].about
  <2>1. /\ out[1].kind = "reply" /\ k \in Threads /\ Taken1 /\ \A g \in Threads \ {k} : thread'[g] = thread[g]
        /\ thread'[k] = [thread[k] EXCEPT !.at = "replied"] /\ UNCHANGED <<approvals, asked, decisions, unsent>>
    BY <1>8, ReplyHandled DEF HandleReply, codexVars
  <2>2. thread'[k].op = thread[k].op /\ thread'[k].what = thread[k].what
    BY <2>1 DEF ThreadTyped, ThreadStates
  <2>3. \A q \in Approvals : (\A g \in Threads : Holds(g, q)' <=> Holds(g, q)) /\ (Held(q)' <=> Held(q))
    <3>1. \A g \in Threads : thread'[g].op = thread[g].op /\ thread'[g].what = thread[g].what
      BY <2>1, <2>2
    <3> QED BY <3>1 DEF Holds, Held
  <2>4. \A q \in Approvals : Asked(q)' <=> Asked(q)
    BY <1>2, <2>1 DEF Asks, Asked
  <2> QED BY <1>2, <2>1, <2>3, <2>4, ApprovalsStay DEF ApprovalInv
<1>9. ASSUME UNCHANGED <<out, approvals, asked, decisions, unsent>>, NEW h \in Threads, thread[h].op # "decide",
             thread'[h].op # "decide", \A g \in Threads \ {h} : thread'[g] = thread[g]
      PROVE  ApprovalInv'
  <2>1. Extended /\ Fresh = {}
    BY <1>9 DEF Extended, Fresh, PipeTyped, Pipe
  <2> QED BY <1>1, <1>9, <2>1
<1>10. ASSUME UNCHANGED <<out, approvals, asked, decisions, unsent, thread>> PROVE ApprovalInv'
  <2>1. Extended /\ Fresh = {}
    BY <1>10 DEF Extended, Fresh, PipeTyped, Pipe
  <2> QED BY <1>1, <1>10, <2>1
<1>11. ASSUME NEW h \in Threads, NEW p \in Approvals, ReplyApproval(h, p) PROVE ApprovalInv'
  <2>1. CASE p \notin approvals
    BY <1>10, <1>11, <2>1 DEF ReplyApproval, Route, codexVars, phoneVars
  <2>2. CASE p \in approvals
    <3>1. /\ thread[h] = Idle /\ Does(h, [Idle EXCEPT !.op = "decide", !.at = "taken", !.what = p])
          /\ approvals' = approvals \ {p} /\ UNCHANGED <<out, asked, decisions, unsent>>
      BY <1>11, <2>2 DEF ReplyApproval, Route, Take, codexVars, phoneVars
    <3>2. /\ thread[h].op # "decide" /\ thread'[h].op = "decide" /\ thread'[h].what = p
          /\ \A g \in Threads \ {h} : thread'[g] = thread[g]
      BY <3>1 DEF Does, Idle, ThreadTyped
    <3>3. \A q \in Approvals : \A g \in Threads : Holds(g, q)' <=> Holds(g, q) \/ (g = h /\ q = p)
      BY <3>2 DEF Holds
    <3>4. \A q \in Approvals : Held(q)' <=> Held(q) \/ q = p
      BY <3>3 DEF Held
    <3>5. \A q \in Approvals : (Asked(q)' <=> Asked(q)) /\ \A i \in Pipe : Asks(i, q)' <=> Asks(i, q)
      BY <3>1 DEF Asked, Asks, Pipe
    <3>6. Pipe' = Pipe /\ ~Held(p)
      BY <2>2, <3>1 DEF Pipe, ApprovalInv
    <3>7. \A q \in Approvals : \A g, k \in Threads : Holds(g, q)' /\ Holds(k, q)' => g = k
      BY <3>3, <3>6 DEF ApprovalInv, Held
    <3> QED BY <2>2, <3>1, <3>4, <3>5, <3>6, <3>7 DEF ApprovalInv
  <2> QED BY <2>1, <2>2
<1>12. ASSUME NEW h \in Threads, NEW p \in Approvals, p = thread[h].what, Respond(h) PROVE ApprovalInv'
  <2>1. Holds(h, p)
    BY <1>12 DEF Respond, Holds
  <2>2. /\ UNCHANGED <<asked, out, approvals>> /\ Finish(h)
        /\ \/ decisions' = [decisions EXCEPT ![p] = @ + 1] /\ unsent' = unsent
           \/ decisions' = decisions /\ unsent' = unsent \cup {p}
    BY <1>12 DEF Respond, hostVars
  <2>3. thread'[h].op # "decide" /\ \A g \in Threads \ {h} : thread'[g] = thread[g]
    BY <2>2 DEF Finish, Does, Idle, ThreadTyped
  <2>4. \A q \in Approvals : \A g \in Threads : Holds(g, q)' <=> Holds(g, q) /\ g # h
    BY <2>3 DEF Holds
  <2>5. \A q \in Approvals \ {p} : ~Holds(h, q)
    BY <2>1 DEF Holds
  <2>6. ~Held(p)' /\ \A q \in Approvals \ {p} : Held(q)' <=> Held(q)
    <3>1. \A g \in Threads : Holds(g, p) => g = h
      BY <2>1 DEF ApprovalInv
    <3> QED BY <2>4, <2>5, <3>1 DEF Held
  <2>7. Pipe' = Pipe /\ \A q \in Approvals : (Asked(q)' <=> Asked(q)) /\ \A i \in Pipe : Asks(i, q)' <=> Asks(i, q)
    BY <2>2 DEF Asked, Asks, Pipe
  <2>8. Held(p) /\ p \in asked /\ p \notin approvals /\ ~Asked(p) /\ decisions[p] = 0 /\ p \notin unsent
    BY <2>1 DEF Held, ApprovalInv
  <2>9. \A q \in Approvals \ {p} : decisions'[q] = decisions[q] /\ (q \in unsent' <=> q \in unsent)
    BY <2>2 DEF CodexTyped
  <2>10. (decisions'[p] = 1 /\ p \notin unsent') \/ (decisions'[p] = 0 /\ p \in unsent')
    BY <2>1, <2>2, <2>8 DEF CodexTyped
  <2>11. ASSUME NEW q \in Approvals
         PROVE  /\ \A i, j \in Pipe' : Asks(i, q)' /\ Asks(j, q)' => i = j
                /\ \A g, k \in Threads : Holds(g, q)' /\ Holds(k, q)' => g = k
    BY <2>4, <2>7 DEF ApprovalInv
  <2>12. ASSUME NEW q \in Approvals \ {p}
         PROVE  /\ asked' = asked /\ approvals' = approvals /\ (Held(q)' <=> Held(q)) /\ (Asked(q)' <=> Asked(q))
                /\ decisions'[q] = decisions[q] /\ (q \in unsent' <=> q \in unsent)
    BY <2>2, <2>6, <2>7, <2>9
  <2>13. asked' = asked /\ approvals' = approvals /\ ~Held(p)' /\ ~Asked(p)'
    BY <2>1, <2>2, <2>6, <2>7, <2>8
  <2> QED BY <2>1, <2>8, <2>10, <2>11, <2>12, <2>13 DEF ApprovalInv
<1>13. ASSUME NEW h \in Threads, ThreadNext(h), ~Respond(h), \A p \in Approvals : ~ReplyApproval(h, p)
       PROVE  ApprovalInv'
  <2>1. /\ UNCHANGED <<out, approvals, asked, decisions, unsent>>
        /\ \/ UNCHANGED thread
           \/ thread[h].op \in {"start", "read", "poll"} /\ Does(h, Idle)
           \/ thread[h] = Idle /\ Does(h, [Idle EXCEPT !.op = "start", !.at = "asked", !.what = override])
           \/ thread[h] = Idle /\ Does(h, [Idle EXCEPT !.op = "read", !.at = "asked"])
           \/ thread[h] = Idle /\ Does(h, [Idle EXCEPT !.op = "poll", !.at = "listed"])
    BY <1>13 DEF ThreadNext, StartTurn, Record, ReadThread, AnswerThread, SetOverride, ListEvents, AnswerEvents,
       Route, Finish, codexVars, hostVars, phoneVars, pollVars
  <2>2. \/ UNCHANGED thread
        \/ /\ thread[h].op # "decide" /\ thread'[h].op # "decide"
           /\ \A g \in Threads \ {h} : thread'[g] = thread[g]
    <3>1. /\ Idle.op # "decide"
          /\ [Idle EXCEPT !.op = "start", !.at = "asked", !.what = override].op # "decide"
          /\ [Idle EXCEPT !.op = "read", !.at = "asked"].op # "decide"
          /\ [Idle EXCEPT !.op = "poll", !.at = "listed"].op # "decide"
      BY DEF Idle
    <3>2. UNCHANGED thread \/ \E next : Does(h, next) /\ next.op # "decide" /\ thread[h].op # "decide"
      <4>1. thread[h].op \in {"start", "read", "poll"} => thread[h].op # "decide"
        OBVIOUS
      <4> QED BY <2>1, <3>1, <4>1, Zenon
    <3> QED BY <3>2 DEF Does, ThreadTyped
  <2> QED BY <1>9, <1>10, <2>1, <2>2
<1>14. CASE HandleStderr \/ AppendEvent \/ UNCHANGED vars
  BY <1>10, <1>14 DEF HandleStderr, AppendEvent, vars, codexVars
<1>15. ASSUME NEW h \in Threads, Respond(h) PROVE thread[h].what \in Approvals
  BY <1>15 DEF Respond, ThreadTyped
<1> QED
  BY <1>3, <1>4, <1>5, <1>6, <1>7, <1>8, <1>11, <1>12, <1>15, <1>13, <1>14, Zenon DEF Next, CodexNext, ReaderNext, ThreadNext

LEMMA ApprovalsInPlace == ASSUME ApprovalInv PROVE ApprovalsAccounted
<1> SUFFICES ASSUME NEW p \in Approvals
             PROVE  Cardinality(Places(p)) = (IF p \in asked THEN 1 ELSE 0) /\ decisions[p] <= 1
  BY Zenon DEF ApprovalsAccounted
<1>1. /\ p \in asked <=> Asked(p) \/ p \in approvals \/ Held(p) \/ decisions[p] # 0 \/ p \in unsent
      /\ Asked(p) => ~(p \in approvals \/ Held(p) \/ decisions[p] # 0 \/ p \in unsent)
      /\ p \in approvals => ~(Held(p) \/ decisions[p] # 0 \/ p \in unsent)
      /\ Held(p) => ~(decisions[p] # 0 \/ p \in unsent)
      /\ decisions[p] # 0 => p \notin unsent
      /\ decisions[p] <= 1
  BY DEF ApprovalInv
<1>2. \A x : x \in Places(p) <=> \/ x = "told" /\ Asked(p)
                                 \/ x = "listed" /\ p \in approvals
                                 \/ x = "taken" /\ Held(p)
                                 \/ x = "decided" /\ decisions[p] # 0
                                 \/ x = "unsent" /\ p \in unsent
  BY DEF Places, Asked, Asks, Held, Holds, Pipe
<1>3. CASE p \notin asked
  <2>1. Places(p) = {}
    BY <1>1, <1>2, <1>3
  <2> QED BY <1>1, <1>3, <2>1, FS_EmptySet
<1>4. CASE p \in asked
  <2>1. \E x : Places(p) = {x}
    <3>1. CASE Asked(p)
      <4>1. Places(p) = {"told"} BY <1>1, <1>2, <3>1
      <4> QED BY <4>1
    <3>2. CASE p \in approvals
      <4>1. Places(p) = {"listed"} BY <1>1, <1>2, <3>2
      <4> QED BY <4>1
    <3>3. CASE Held(p)
      <4>1. Places(p) = {"taken"} BY <1>1, <1>2, <3>3
      <4> QED BY <4>1
    <3>4. CASE decisions[p] # 0
      <4>1. Places(p) = {"decided"} BY <1>1, <1>2, <3>4
      <4> QED BY <4>1
    <3>5. CASE p \in unsent
      <4>1. Places(p) = {"unsent"} BY <1>1, <1>2, <3>5
      <4> QED BY <4>1
    <3> QED BY <1>1, <1>4, <3>1, <3>2, <3>3, <3>4, <3>5
  <2> QED BY <1>1, <1>4, <2>1, FS_Singleton
<1> QED BY <1>3, <1>4
-----------------------------------------------------------------------------
(* The turns, and what the pipe still has of them *)

\* Codex numbers the turns in the order it accepts them, and runs one at a time.
StageInv == \A t \in Turns : /\ stage[t] = "none" <=> t > count
                             /\ Begun(t) => \A s \in 1..(t - 1) : stage[s] \in Ended

Started(i, t) == out[i].turn = t /\ out[i].kind = "turn/started"

\* What is still to be read is about turns that have begun, and in their order; a turn
\* that began after something was told of an earlier one is told of after that.
OrderInv ==
    /\ \A i \in Pipe : out[i].turn # 0 => Begun(out[i].turn)
    /\ \A i, j \in Pipe : i < j /\ out[i].turn # 0 /\ out[j].turn # 0 => out[i].turn <= out[j].turn
    /\ \A i \in Pipe, t \in Turns : out[i].turn # 0 /\ out[i].turn < t /\ Begun(t)
                                    => \E j \in Pipe : i < j /\ Started(j, t)

LEMMA StagesKept == ASSUME Typed, StageInv, [Next]_vars PROVE StageInv'
<1> USE DEF Typed
<1>1. ASSUME NEW t \in Turns, GoOn(t) PROVE StageInv'
  <2>1. Moves(t) /\ stage' = [stage EXCEPT ![t] = stage'[t]] /\ count' = count
    BY <1>1, TurnTells DEF PipeTyped
  <2>2. stage[t] \notin Ended /\ stage[t] # "none" /\ stage'[t] \notin {"none", "queued"}
    BY <2>1 DEF Moves, Ended
  <2>3. \A s \in Turns \ {t} : stage'[s] = stage[s]
    BY <2>1 DEF CodexTyped
  <2>4. ASSUME NEW s \in 1..(t - 1) PROVE stage[s] \in Ended
    BY <2>1 DEF Moves, StageInv, Begun
  <2>5. ASSUME NEW s \in Turns, Begun(s)', NEW r \in 1..(s - 1) PROVE stage'[r] \in Ended
    <3>0. r \in Turns /\ r # s
      BY BoundsAssumption DEF Turns
    <3>1. CASE s = t
      BY <2>3, <2>4, <3>0, <3>1
    <3>2. CASE s # t
      <4>1. stage[r] \in Ended
        BY <2>3, <2>5, <3>2 DEF StageInv, Begun
      <4> QED BY <2>2, <2>3, <3>0, <4>1
    <3> QED BY <3>1, <3>2
  <2>6. \A s \in Turns : stage'[s] = "none" <=> s > count'
    BY <2>1, <2>2, <2>3 DEF StageInv
  <2> QED BY <2>5, <2>6 DEF StageInv
<1>2. ASSUME NEW h \in Threads, AcceptTurn(h) PROVE StageInv'
  <2>1. count' = count + 1 /\ count' \in Turns /\ stage' = [stage EXCEPT ![count'] = "queued"] /\ count \in Nat
    BY <1>2, TurnAccepted DEF CodexTyped
  <2>2. stage'[count'] = "queued" /\ \A s \in Turns \ {count'} : stage'[s] = stage[s]
    BY <2>1 DEF CodexTyped
  <2>3. stage[count'] = "none"
    BY <2>1 DEF StageInv
  <2>4. \A s \in Turns : stage'[s] = "none" <=> s > count'
    BY <2>1, <2>2 DEF StageInv, Turns
  <2>5. ASSUME NEW s \in Turns, Begun(s)', NEW r \in 1..(s - 1) PROVE stage'[r] \in Ended
    <3>0. r \in Turns /\ s # count'
      BY <2>2, <2>5, BoundsAssumption DEF Turns, Begun
    <3>1. stage[r] \in Ended
      BY <2>2, <2>5, <3>0 DEF StageInv, Begun
    <3> QED BY <2>2, <2>3, <3>0, <3>1 DEF Ended
  <2> QED BY <2>4, <2>5 DEF StageInv
<1>3. ASSUME UNCHANGED <<stage, count>> PROVE StageInv'
  BY <1>3 DEF StageInv, Begun
<1>4. CASE \/ \E t \in Turns, p \in Approvals : AskApproval(t, p)
           \/ \E h \in Threads : AnswerRead(h)
           \/ TellSettings \/ ReaderNext \/ UNCHANGED vars
  BY <1>3, <1>4, Zenon DEF AskApproval, AnswerRead, TellSettings, ReaderNext, HandleEvent, HandleStderr, AppendEvent,
     HandleReply, codexVars, vars
<1>5. ASSUME NEW h \in Threads, ThreadNext(h) PROVE StageInv'
  BY <1>3, <1>5, ThreadMoves
<1> QED BY <1>1, <1>2, <1>4, <1>5, Zenon DEF Next, CodexNext

\* What any step does to the stages and the pipe.
LEMMA PipeSteps == ASSUME Typed, [Next]_vars
                   PROVE  \/ UNCHANGED <<stage, out>>
                          \/ \E t \in Turns : GoOn(t)
                          \/ \E t \in Turns : /\ stage[t] \in {"running", "spoke", "stored"} /\ UNCHANGED stage
                                              /\ \E p \in Approvals : Told1(Message("requestApproval", t, p))
                          \/ \E h \in Threads : AcceptTurn(h)
                          \/ UNCHANGED stage /\ \E h \in Threads : Told1(Message("reply", 0, h))
                          \/ UNCHANGED stage /\ Told1(Message("thread/settings/updated", 0, using))
                          \/ UNCHANGED stage /\ Taken1
<1> USE DEF Typed, PipeTyped
<1>1. ASSUME NEW t \in Turns, NEW p \in Approvals, AskApproval(t, p)
      PROVE  stage[t] \in {"running", "spoke", "stored"} /\ UNCHANGED stage /\ Told1(Message("requestApproval", t, p))
  BY <1>1, OthersTell DEF AskApproval
<1>2. ASSUME NEW h \in Threads, AnswerRead(h) PROVE UNCHANGED stage /\ Told1(Message("reply", 0, h))
  BY <1>2, ReadAnswered DEF codexVars
<1>3. CASE TellSettings
  BY <1>3, OthersTell DEF TellSettings
<1>4. CASE HandleEvent \/ HandleReply
  BY <1>4, OneIsTaken DEF HandleEvent, HandleReply, codexVars
<1>5. CASE HandleStderr \/ AppendEvent \/ UNCHANGED vars
  BY <1>5 DEF HandleStderr, AppendEvent, codexVars, vars
<1>6. ASSUME NEW h \in Threads, ThreadNext(h) PROVE UNCHANGED <<stage, out>>
  BY <1>6, ThreadMoves
<1> QED BY <1>1, <1>2, <1>3, <1>4, <1>5, <1>6, Zenon DEF Next, CodexNext, ReaderNext

LEMMA OrderKept == ASSUME Typed, StageInv, OrderInv, [Next]_vars PROVE OrderInv'
<1> USE DEF Typed
<1>0. MaxTurns \in Nat /\ Len(out) \in Nat
  BY BoundsAssumption DEF PipeTyped
<1>1. ASSUME NEW t \in Turns, GoOn(t) PROVE OrderInv'
  <2>1. /\ Moves(t) /\ stage' = [stage EXCEPT ![t] = stage'[t]] /\ Extended /\ Len(out') \in Fresh
        /\ out'[Len(out')].kind = LastWord(t)
        /\ \A i \in Fresh : out'[i].turn = t
    BY <1>1, TurnTells DEF PipeTyped
  <2>2. stage'[t] \notin {"none", "queued"} /\ \A s \in Turns \ {t} : stage'[s] = stage[s]
    BY <2>1 DEF Moves, CodexTyped
  <2>3. \A s \in Turns : s > t => ~Begun(s) /\ ~Begun(s)'
    <3>1. stage[t] \notin Ended /\ t \in Nat
      BY <2>1, <1>0 DEF Moves, Ended, Turns
    <3>2. ASSUME NEW s \in Turns, s > t PROVE ~Begun(s)
      BY <1>0, <3>1, <3>2 DEF StageInv, Turns
    <3> QED BY <1>0, <2>2, <3>1, <3>2 DEF Begun, Turns
  <2>4. \A i \in Pipe : out[i].turn # 0 => out[i].turn \in Turns /\ Begun(out[i].turn) /\ out[i].turn <= t
    <3>1. \A i \in Pipe : out[i].turn # 0 => out[i].turn \in Turns /\ Begun(out[i].turn)
      BY DEF OrderInv, PipeTyped, WellFormed
    <3> QED BY <1>0, <2>3, <3>1 DEF Turns
  <2>5. \A i \in Pipe' : i \in Fresh \/ (i \in Pipe /\ out'[i] = out[i])
    BY <2>1 DEF Extended, Fresh
  <2>6. \A i \in Pipe' : out'[i].turn # 0 => out'[i].turn <= t /\ stage'[out'[i].turn] \notin {"none", "queued"}
    BY <1>0, <2>1, <2>2, <2>4, <2>5 DEF Begun, Turns
  <2>7. ASSUME NEW i \in Pipe', NEW j \in Pipe', i < j, out'[i].turn # 0, out'[j].turn # 0
        PROVE  out'[i].turn <= out'[j].turn
    <3>1. CASE j \in Fresh
      BY <2>1, <2>6, <2>7, <3>1
    <3>2. CASE j \in Pipe /\ out'[j] = out[j]
      <4>1. i \in Pipe /\ out'[i] = out[i]
        BY <1>0, <2>1, <2>5, <2>7, <3>2 DEF Pipe, Extended
      <4> QED BY <2>7, <3>2, <4>1 DEF OrderInv
    <3> QED BY <2>5, <3>1, <3>2
  <2>8. ASSUME NEW i \in Pipe', NEW s \in Turns, out'[i].turn # 0, out'[i].turn < s, Begun(s)'
        PROVE  \E j \in Pipe' : i < j /\ Started(j, s)'
    <3>1. s <= t
      BY <1>0, <2>3, <2>8 DEF Turns
    <3>2. i \in Pipe /\ out'[i] = out[i]
      BY <1>0, <2>1, <2>5, <2>8, <3>1 DEF Turns
    <3>3. CASE Begun(s)
      <4>1. PICK j \in Pipe : i < j /\ Started(j, s)
        BY <2>8, <3>2, <3>3 DEF OrderInv
      <4> QED BY <2>1, <4>1 DEF Extended, Started
    <3>4. CASE ~Begun(s)
      <4>1. s = t /\ stage[t] = "queued" /\ stage'[t] = "running"
        BY <2>1, <2>2, <2>8, <3>4 DEF Begun, Moves
      <4>2. LastWord(t) = "turn/started" /\ Len(out') \in Pipe' /\ i < Len(out')
        BY <2>1, <3>2, <4>1 DEF LastWord, Fresh, Extended
      <4> QED BY <2>1, <4>1, <4>2 DEF Started
    <3> QED BY <3>3, <3>4
  <2> QED BY <2>6, <2>7, <2>8 DEF OrderInv, Begun
<1>2. ASSUME Extended, NEW t, t = 0 \/ (t \in Turns /\ stage[t] \in {"running", "spoke", "stored"}),
             \A i \in Fresh : out'[i].turn = t,
             \A s \in Turns : Begun(s)' <=> Begun(s)
      PROVE  OrderInv'
  <2>1. \A i \in Pipe' : i \in Fresh \/ (i \in Pipe /\ out'[i] = out[i])
    BY <1>2 DEF Extended, Fresh
  <2>2. \A i \in Pipe : out[i].turn # 0 => out[i].turn \in Turns /\ Begun(out[i].turn)
    BY DEF OrderInv, PipeTyped, WellFormed
  <2>3. t # 0 => t \in Turns /\ Begun(t) /\ \A s \in Turns : s > t => ~Begun(s)
    <3>1. t # 0 => stage[t] \notin Ended /\ Begun(t)
      BY <1>2 DEF Ended, Begun
    <3> QED BY <1>0, <1>2, <3>1 DEF StageInv, Turns
  <2>4. \A i \in Pipe' : out'[i].turn # 0 => out'[i].turn \in Turns /\ stage'[out'[i].turn] \notin {"none", "queued"}
    BY <1>2, <2>1, <2>2, <2>3 DEF Begun
  <2>5. ASSUME NEW i \in Pipe', NEW j \in Pipe', i < j, out'[i].turn # 0, out'[j].turn # 0
        PROVE  out'[i].turn <= out'[j].turn
    <3>1. CASE j \in Fresh
      BY <1>0, <1>2, <2>1, <2>2, <2>3, <2>5, <3>1 DEF Turns
    <3>2. CASE j \in Pipe /\ out'[j] = out[j]
      <4>1. i \in Pipe /\ out'[i] = out[i]
        BY <1>0, <1>2, <2>1, <2>5, <3>2 DEF Pipe, Extended
      <4> QED BY <2>5, <3>2, <4>1 DEF OrderInv
    <3> QED BY <2>1, <3>1, <3>2
  <2>6. ASSUME NEW i \in Pipe', NEW s \in Turns, out'[i].turn # 0, out'[i].turn < s, Begun(s)'
        PROVE  \E j \in Pipe' : i < j /\ Started(j, s)'
    <3>1. i \in Pipe /\ out'[i] = out[i] /\ Begun(s)
      BY <1>0, <1>2, <2>1, <2>3, <2>6 DEF Turns
    <3>2. PICK j \in Pipe : i < j /\ Started(j, s)
      BY <2>6, <3>1 DEF OrderInv
    <3> QED BY <1>2, <3>2 DEF Extended, Started
  <2> QED BY <2>4, <2>5, <2>6 DEF OrderInv, Begun
<1>3. ASSUME NEW h \in Threads, AcceptTurn(h) PROVE OrderInv'
  <2>1. /\ out' = out \/ Told1(Message("reply", 0, h))
        /\ count' = count + 1 /\ count' \in Turns /\ stage' = [stage EXCEPT ![count'] = "queued"] /\ count \in Nat
    BY <1>3, TurnAccepted DEF CodexTyped
  <2>2. stage[count'] = "none"
    BY <2>1 DEF StageInv
  <2>3. \A s \in Turns : Begun(s)' <=> Begun(s)
    BY <2>1, <2>2 DEF Begun, CodexTyped
  <2>4. CASE out' = out
    <3>1. Extended /\ Fresh = {}
      BY <2>4 DEF Extended, Fresh, PipeTyped, Pipe
    <3> QED BY <1>2, <2>3, <3>1
  <2>5. CASE Told1(Message("reply", 0, h))
    BY <1>2, <2>3, <2>5 DEF Told1, Message
  <2> QED BY <2>1, <2>4, <2>5
<1>4. CASE UNCHANGED stage /\ Taken1
  <2>1. \A i \in Pipe' : i + 1 \in Pipe /\ out'[i] = out[i + 1]
    BY <1>4 DEF Taken1
  <2>2. \A i \in Pipe' : out'[i].turn # 0 => stage'[out'[i].turn] \notin {"none", "queued"}
    BY <1>4, <2>1 DEF OrderInv, Begun
  <2>3. ASSUME NEW i \in Pipe', NEW j \in Pipe', i < j, out'[i].turn # 0, out'[j].turn # 0
        PROVE  out'[i].turn <= out'[j].turn
    <3>1. i + 1 < j + 1
      BY <2>3 DEF Pipe
    <3> QED BY <2>1, <2>3, <3>1 DEF OrderInv
  <2>4. ASSUME NEW i \in Pipe', NEW s \in Turns, out'[i].turn # 0, out'[i].turn < s, Begun(s)'
        PROVE  \E j \in Pipe' : i < j /\ Started(j, s)'
    <3>1. PICK j \in Pipe : i + 1 < j /\ Started(j, s)
      BY <1>4, <2>1, <2>4 DEF OrderInv, Begun
    <3>2. j - 1 \in Pipe' /\ out'[j - 1] = out[j] /\ i < j - 1
      BY <1>4, <3>1 DEF Taken1, Pipe
    <3> QED BY <3>1, <3>2 DEF Started
  <2> QED BY <2>2, <2>3, <2>4 DEF OrderInv, Begun
<1>5. CASE UNCHANGED <<stage, out>>
  BY <1>5 DEF OrderInv, Begun, Started, Pipe
<1>6. ASSUME NEW m, m.turn = 0, UNCHANGED stage, Told1(m) PROVE OrderInv'
  BY <1>2, <1>6 DEF Told1, Begun
<1>7. ASSUME NEW t \in Turns, stage[t] \in {"running", "spoke", "stored"}, UNCHANGED stage,
             NEW p \in Approvals, Told1(Message("requestApproval", t, p)) PROVE OrderInv'
  BY <1>2, <1>7 DEF Told1, Begun, Message
<1>8. \A kind, about : Message(kind, 0, about).turn = 0
  BY DEF Message
<1> QED BY <1>1, <1>3, <1>4, <1>5, <1>6, <1>7, <1>8, PipeSteps, Zenon
-----------------------------------------------------------------------------
(* The status of a turn follows what is read of it *)

Endings == {"error", "turn/completed", "turn/failed"}
StartIsIn(t) == \E i \in Pipe : Started(i, t)
LastIs(t, kind) == \E i \in Pipe : /\ out[i].turn = t /\ out[i].kind = kind
                                   /\ \A j \in Pipe : j > i => out[j].turn # t

\* The status is behind the turn by what is still in the pipe.
StatusFollows(t) ==
    /\ ~Begun(t) => status[t] \in {"unknown", "starting"}
    /\ Begun(t) /\ stage[t] \notin Ended =>
         /\ status[t] = "inProgress" \/ (status[t] \in {"unknown", "starting"} /\ StartIsIn(t))
         /\ \A i \in Pipe : out[i].turn = t => out[i].kind \notin Endings
    /\ stage[t] = "completed" => (Heard(t) /\ status[t] = "completed") \/ LastIs(t, "turn/completed")
    /\ stage[t] = "failed" => (Heard(t) /\ status[t] = "failed") \/ LastIs(t, "turn/failed")
StatusInv == \A t \in Turns : StatusFollows(t)

\* A step that adds or takes nothing about a turn.
Undisturbed(t) == \/ out' = out
                  \/ Extended /\ \A i \in Fresh : out'[i].turn # t
                  \/ Taken1 /\ out[1].turn # t

LEMMA OthersUndisturbed == ASSUME NEW t, Undisturbed(t)
                           PROVE  /\ Heard(t)' <=> Heard(t)
                                  /\ StartIsIn(t)' <=> StartIsIn(t)
                                  /\ \A kind : LastIs(t, kind) => LastIs(t, kind)'
                                  /\ \A i \in Pipe' : out'[i].turn = t => \E j \in Pipe : out'[i] = out[j]
<1> USE DEF Heard, StartIsIn, LastIs, Started
<1>1. CASE out' = out
  BY <1>1 DEF Pipe
<1>2. CASE Extended /\ \A i \in Fresh : out'[i].turn # t
  <2>1. \A i \in Pipe : i \in Pipe' /\ out'[i] = out[i]
    BY <1>2 DEF Extended
  <2>2. \A i \in Pipe' : out'[i].turn = t => i \in Pipe /\ out'[i] = out[i]
    BY <1>2 DEF Extended, Fresh
  <2> QED BY <2>1, <2>2 DEF Pipe
<1>3. CASE Taken1 /\ out[1].turn # t
  <2>1. \A i \in Pipe : out[i].turn = t => i - 1 \in Pipe' /\ out'[i - 1] = out[i]
    BY <1>3 DEF Taken1
  <2>2. \A i \in Pipe' : i + 1 \in Pipe /\ out'[i] = out[i + 1]
    BY <1>3 DEF Taken1
  <2>3. Heard(t)' <=> Heard(t)
    BY <2>1, <2>2 DEF Pipe
  <2>4. StartIsIn(t)' <=> StartIsIn(t)
    BY <2>1, <2>2
  <2>5. ASSUME NEW kind, LastIs(t, kind) PROVE LastIs(t, kind)'
    <3>1. PICK i \in Pipe : out[i].turn = t /\ out[i].kind = kind /\ \A j \in Pipe : j > i => out[j].turn # t
      BY <2>5
    <3>2. i - 1 \in Pipe' /\ out'[i - 1] = out[i]
      BY <2>1, <3>1
    <3>3. \A j \in Pipe' : j > i - 1 => out'[j].turn # t
      BY <2>2, <3>1 DEF Pipe
    <3> QED BY <3>1, <3>2, <3>3
  <2> QED BY <2>2, <2>3, <2>4, <2>5
<1> QED BY <1>1, <1>2, <1>3 DEF Undisturbed

LEMMA StatusStays == ASSUME NEW t \in Turns, StatusFollows(t), Undisturbed(t),
                            \/ status'[t] = status[t]
                            \/ status[t] = "unknown" /\ status'[t] = "starting",
                            \/ stage'[t] = stage[t]
                            \/ ~Begun(t) /\ stage'[t] = "queued"
                     PROVE  StatusFollows(t)'
<1>1. /\ Heard(t)' <=> Heard(t)
      /\ StartIsIn(t)' <=> StartIsIn(t)
      /\ \A kind : LastIs(t, kind) => LastIs(t, kind)'
      /\ \A i \in Pipe' : out'[i].turn = t => \E j \in Pipe : out'[i] = out[j]
  BY OthersUndisturbed
<1>2. CASE ~Begun(t)
  <2>1. ~Begun(t)' /\ status'[t] \in {"unknown", "starting"} /\ stage'[t] \notin Ended
    BY <1>2 DEF StatusFollows, Begun, Ended
  <2> QED BY <2>1 DEF StatusFollows, Ended
<1>3. CASE Begun(t) /\ stage[t] \notin Ended
  <2>1. /\ stage'[t] = stage[t] /\ Begun(t)' /\ stage'[t] \notin Ended
        /\ status[t] = "inProgress" \/ (status[t] \in {"unknown", "starting"} /\ StartIsIn(t))
        /\ \A i \in Pipe : out[i].turn = t => out[i].kind \notin Endings
    BY <1>3 DEF StatusFollows, Begun
  <2>2. status'[t] = "inProgress" \/ (status'[t] \in {"unknown", "starting"} /\ StartIsIn(t)')
    BY <1>1, <2>1
  <2>3. \A i \in Pipe' : out'[i].turn = t => out'[i].kind \notin Endings
    BY <1>1, <2>1
  <2> QED BY <2>1, <2>2, <2>3 DEF StatusFollows, Ended
<1>4. CASE stage[t] \in Ended
  <2>1. stage'[t] = stage[t] /\ Begun(t)' /\ ~(Begun(t)' /\ stage'[t] \notin Ended)
    BY <1>4 DEF Begun, Ended
  <2>2. stage[t] = "completed" => (Heard(t)' /\ status'[t] = "completed") \/ LastIs(t, "turn/completed")'
    BY <1>1 DEF StatusFollows
  <2>3. stage[t] = "failed" => (Heard(t)' /\ status'[t] = "failed") \/ LastIs(t, "turn/failed")'
    BY <1>1 DEF StatusFollows
  <2> QED BY <2>1, <2>2, <2>3 DEF StatusFollows
<1> QED BY <1>2, <1>3, <1>4

\* Something is told of a turn.
LEMMA StatusWaits == ASSUME Typed, StageInv, OrderInv, StatusInv, status' = status, NEW t \in Turns,
                            GoOn(t)
                     PROVE  StatusFollows(t)'
<1>1. /\ Moves(t) /\ Extended /\ Len(out') \in Fresh /\ out'[Len(out')].kind = LastWord(t)
      /\ \A i \in Fresh : /\ out'[i].turn = t
                          /\ out'[i].kind = LastWord(t) \/ (out'[i].kind = "error" /\ stage'[t] = "failed")
  BY TurnTells DEF Typed, PipeTyped
<1>2. StatusFollows(t) /\ Len(out') \in Pipe' /\ out'[Len(out')].turn = t
  BY <1>1 DEF StatusInv, Fresh
<1>3. \A i \in Pipe : i \in Pipe' /\ out'[i] = out[i]
  BY <1>1 DEF Extended
<1>4. \A i \in Pipe' : i \in Fresh \/ (i \in Pipe /\ out'[i] = out[i])
  BY <1>3 DEF Fresh
<1>5. \A j \in Pipe' : ~(j > Len(out'))
  BY <1>1 DEF Pipe, Extended
<1>6. CASE stage'[t] \in Ended
  <2>1. LastWord(t) = (IF stage'[t] = "completed" THEN "turn/completed" ELSE "turn/failed")
    BY <1>6 DEF LastWord, Ended
  <2>2. \A j \in Pipe' : j > Len(out') => out'[j].turn # t
    BY <1>5
  <2>3. stage'[t] = "completed" => LastIs(t, "turn/completed")'
    BY <1>1, <1>2, <2>1, <2>2 DEF LastIs
  <2>4. stage'[t] = "failed" => LastIs(t, "turn/failed")'
    BY <1>1, <1>2, <2>1, <2>2 DEF LastIs
  <2> QED BY <1>6, <2>3, <2>4 DEF StatusFollows, Begun, Ended
<1>7. CASE stage'[t] \notin Ended
  <2>1. stage'[t] \in {"running", "retrying", "spoke", "stored"} /\ LastWord(t) \notin Endings /\ stage[t] \notin Ended
    BY <1>1, <1>7 DEF Moves, LastWord, Ended, Endings
  <2>2. \A i \in Pipe : out[i].turn = t => Begun(t)
    BY BoundsAssumption DEF OrderInv, Turns
  <2>3. \A i \in Pipe' : out'[i].turn = t => out'[i].kind \notin Endings
    BY <1>1, <1>2, <1>4, <1>7, <2>1, <2>2 DEF StatusFollows, Ended
  <2>4. status[t] = "inProgress" \/ (status[t] \in {"unknown", "starting"} /\ StartIsIn(t)')
    <3>1. CASE stage[t] = "queued"
      <4>1. stage'[t] = "running" /\ LastWord(t) = "turn/started"
        BY <1>1, <3>1 DEF Moves, LastWord
      <4> QED BY <1>1, <1>2, <3>1, <4>1 DEF StatusFollows, Begun, StartIsIn, Started
    <3>2. CASE stage[t] # "queued"
      <4>1. Begun(t)
        BY <1>1, <3>2 DEF Moves, Begun
      <4>2. StartIsIn(t) => StartIsIn(t)'
        BY <1>3 DEF StartIsIn, Started
      <4> QED BY <1>2, <2>1, <4>1, <4>2 DEF StatusFollows
    <3> QED BY <3>1, <3>2
  <2> QED BY <2>1, <2>3, <2>4, status' = status DEF StatusFollows, Begun, Ended
<1> QED BY <1>6, <1>7

\* The reader has handled an event.
LEMMA StatusRead == ASSUME Typed, OrderInv, StatusInv, HandleEvent PROVE StatusInv'
<1> DEFINE first == out[1].turn
           kind == out[1].kind
<1>1. /\ Taken1 /\ stage' = stage /\ kind # "reply" /\ 1 \in Pipe
      /\ \/ first \in Turns /\ UpdateTurn(first, kind, out[1].part) /\ kind \in TurnKinds \cup {"requestApproval"}
         \/ kind = "thread/settings/updated" /\ first = 0 /\ status' = status
  BY EventHandled DEF codexVars, UpdateSettings, Taken1
<1>2. \A t \in Turns : t # 0
  BY BoundsAssumption DEF Turns
<1>3. CASE first = 0 /\ status' = status
  <2>1. ASSUME NEW t \in Turns PROVE StatusFollows(t)'
    BY <1>1, <1>2, <1>3, StatusStays DEF Undisturbed, StatusInv
  <2> QED BY <2>1 DEF StatusInv
<1>4. ASSUME first \in Turns, UpdateTurn(first, kind, out[1].part), kind \in TurnKinds \cup {"requestApproval"} PROVE StatusInv'
  <2>1. /\ Begun(first) /\ status' = [status EXCEPT ![first] = StatusAfter(kind, @)] /\ first # 0
        /\ status \in [Turns -> Statuses]
    BY <1>1, <1>2, <1>4 DEF OrderInv, UpdateTurn, Typed, TurnsTyped
  <2>2. status'[first] = StatusAfter(kind, status[first]) /\ \A s \in Turns \ {first} : status'[s] = status[s]
    BY <1>4, <2>1
  <2>3. ASSUME NEW t \in Turns, t # first PROVE StatusFollows(t)'
    BY <1>1, <2>2, <2>3, StatusStays DEF Undisturbed, StatusInv
  <2> HIDE DEF kind
  <2>4. ASSUME NEW t, t = first PROVE StatusFollows(t)'
    <3>1. /\ t \in Turns /\ Begun(t) /\ Begun(t)' /\ StatusFollows(t) /\ out[1].turn = t /\ out[1].kind = kind
          /\ stage'[t] = stage[t] /\ status'[t] = StatusAfter(kind, status[t])
      BY <1>1, <1>4, <2>1, <2>2, <2>4 DEF StatusInv, Begun, kind
    <3>2. \A i \in Pipe' : i + 1 \in Pipe /\ out'[i] = out[i + 1]
      BY <1>1 DEF Taken1
    <3>3. \A i \in Pipe : i = 1 \/ (i - 1 \in Pipe' /\ out'[i - 1] = out[i])
      BY <1>1 DEF Taken1
    <3>4. CASE stage[t] \notin Ended
      <4>1. /\ status[t] = "inProgress" \/ (status[t] \in {"unknown", "starting"} /\ StartIsIn(t))
            /\ \A i \in Pipe : out[i].turn = t => out[i].kind \notin Endings
        BY <3>1, <3>4 DEF StatusFollows
      <4>2. \A i \in Pipe' : out'[i].turn = t => out'[i].kind \notin Endings
        BY <3>2, <4>1
      <4>3. kind \notin Endings
        BY <1>1, <3>1, <4>1
      <4>4. status'[t] = "inProgress" \/ (status'[t] \in {"unknown", "starting"} /\ StartIsIn(t)')
        <5>1. CASE kind \in {"turn/started", "item/agentMessage/delta"}
          BY <3>1, <5>1 DEF StatusAfter
        <5>2. CASE kind \notin {"turn/started", "item/agentMessage/delta"}
          <6>1. status'[t] = IF status[t] = "unknown" THEN "starting" ELSE status[t]
            BY <3>1, <4>3, <5>2 DEF StatusAfter, Endings
          <6>2. StartIsIn(t) => StartIsIn(t)'
            BY <3>1, <3>3, <5>2 DEF StartIsIn, Started
          <6> QED BY <4>1, <6>1, <6>2
        <5> QED BY <5>1, <5>2
      <4> QED BY <3>1, <3>4, <4>2, <4>4 DEF StatusFollows, Ended
    <3>5. ASSUME NEW last, LastIs(t, last), last \in {"turn/completed", "turn/failed"}
          PROVE  \/ Heard(t)' /\ status'[t] = (IF last = "turn/completed" THEN "completed" ELSE "failed")
                 \/ LastIs(t, last)'
      <4>1. PICK i \in Pipe : out[i].turn = t /\ out[i].kind = last /\ \A j \in Pipe : j > i => out[j].turn # t
        BY <3>5 DEF LastIs
      <4>2. CASE i = 1
        <5>1. \A j \in Pipe' : out'[j].turn # t
          BY <3>2, <4>1, <4>2 DEF Pipe
        <5>2. status'[t] = (IF last = "turn/completed" THEN "completed" ELSE "failed")
          BY <3>1, <3>5, <4>1, <4>2 DEF StatusAfter
        <5> QED BY <5>1, <5>2 DEF Heard, Pipe
      <4>3. CASE i # 1
        <5>1. i - 1 \in Pipe' /\ out'[i - 1] = out[i]
          BY <3>3, <4>3
        <5>2. \A j \in Pipe' : j > i - 1 => out'[j].turn # t
          BY <3>2, <4>1 DEF Pipe
        <5> QED BY <4>1, <5>1, <5>2 DEF LastIs
      <4> QED BY <4>2, <4>3
    <3>6. ~Heard(t)
      BY <1>1, <3>1 DEF Heard, Pipe
    <3>7. CASE stage[t] \in Ended
      <4>1. stage[t] = "completed" => LastIs(t, "turn/completed")
        BY <3>1, <3>6 DEF StatusFollows
      <4>2. stage[t] = "failed" => LastIs(t, "turn/failed")
        BY <3>1, <3>6 DEF StatusFollows
      <4>3. stage'[t] = "completed" => (Heard(t)' /\ status'[t] = "completed") \/ LastIs(t, "turn/completed")'
        BY <3>1, <3>5, <4>1
      <4>4. stage'[t] = "failed" => (Heard(t)' /\ status'[t] = "failed") \/ LastIs(t, "turn/failed")'
        BY <3>1, <3>5, <4>2
      <4> QED BY <3>1, <3>7, <4>3, <4>4 DEF StatusFollows
    <3> QED BY <3>4, <3>7
  <2> QED BY <2>3, <2>4 DEF StatusInv
<1> QED BY <1>1, <1>3, <1>4

LEMMA StatusKept == ASSUME Typed, StageInv, OrderInv, StatusInv, [Next]_vars PROVE StatusInv'
<1> USE DEF Typed
<1>0. \A t \in Turns : t # 0
  BY BoundsAssumption DEF Turns
<1>1. ASSUME NEW t \in Turns, GoOn(t) PROVE StatusInv'
  <2>1. /\ stage' = [stage EXCEPT ![t] = stage'[t]] /\ status' = status
        /\ Extended /\ \A i \in Fresh : out'[i].turn = t
    BY <1>1, TurnTells DEF PipeTyped, CodexStep, turnVars
  <2>2. StatusFollows(t)'
    BY <1>1, <2>1, StatusWaits
  <2>3. ASSUME NEW s \in Turns, s # t PROVE StatusFollows(s)'
    <3>1. stage'[s] = stage[s] /\ status'[s] = status[s] /\ Undisturbed(s)
      BY <2>1, <2>3 DEF CodexTyped, Undisturbed
    <3> QED BY <3>1, StatusStays DEF StatusInv
  <2> QED BY <2>2, <2>3 DEF StatusInv
<1>2. ASSUME NEW t \in Turns, NEW p \in Approvals, AskApproval(t, p) PROVE StatusInv'
  <2>1. /\ stage' = stage /\ status' = status /\ stage[t] \in {"running", "spoke", "stored"}
        /\ Told1(Message("requestApproval", t, p))
    BY <1>2, OthersTell DEF PipeTyped, AskApproval, CodexStep, turnVars
  <2>2. /\ Extended /\ \A i \in Pipe' : \/ i \in Pipe /\ out'[i] = out[i]
                                        \/ i \in Fresh /\ out'[i].turn = t /\ out'[i].kind = "requestApproval"
    BY <2>1 DEF Told1, Message, Extended, Fresh
  <2>3. ASSUME NEW s \in Turns, s # t PROVE StatusFollows(s)'
    <3>1. Undisturbed(s)
      BY <2>1, <2>3 DEF Undisturbed, Told1, Message
    <3> QED BY <2>1, <3>1, StatusStays DEF StatusInv
  <2>4. StatusFollows(t)'
    <3>1. Begun(t) /\ stage[t] \notin Ended /\ StatusFollows(t)
      BY <2>1 DEF Begun, Ended, StatusInv
    <3>2. StartIsIn(t) => StartIsIn(t)'
      BY <2>2 DEF StartIsIn, Started, Extended
    <3>3. \A i \in Pipe' : out'[i].turn = t => out'[i].kind \notin Endings
      BY <2>2, <3>1 DEF StatusFollows, Endings
    <3> QED BY <2>1, <3>1, <3>2, <3>3 DEF StatusFollows, Begun, Ended
  <2> QED BY <2>3, <2>4 DEF StatusInv
<1>3. ASSUME \A t \in Turns : Undisturbed(t),
             \A t \in Turns : status'[t] = status[t] \/ (status[t] = "unknown" /\ status'[t] = "starting"),
             \A t \in Turns : stage'[t] = stage[t] \/ (~Begun(t) /\ stage'[t] = "queued")
      PROVE  StatusInv'
  BY <1>3, StatusStays DEF StatusInv
<1>4. ASSUME NEW m, m.turn = 0, Told1(m) PROVE \A t \in Turns : Undisturbed(t)
  BY <1>0, <1>4 DEF Undisturbed, Told1
<1>5. \A kind, about : Message(kind, 0, about).turn = 0
  BY DEF Message
<1>6. ASSUME NEW h \in Threads, AcceptTurn(h) PROVE StatusInv'
  <2>1. /\ out' = out \/ Told1(Message("reply", 0, h))
        /\ status' = status
        /\ count' = count + 1 /\ count' \in Turns /\ stage' = [stage EXCEPT ![count'] = "queued"]
    BY <1>6, TurnAccepted DEF CodexStep, turnVars
  <2>2. stage[count'] = "none"
    BY <2>1 DEF StageInv, CodexTyped
  <2>3. \A t \in Turns : stage'[t] = stage[t] \/ (~Begun(t) /\ stage'[t] = "queued")
    BY <2>1, <2>2 DEF Begun, CodexTyped
  <2>4. \A t \in Turns : Undisturbed(t)
    BY <1>4, <1>5, <2>1 DEF Undisturbed
  <2> QED BY <1>3, <2>1, <2>3, <2>4
<1>7. CASE TellSettings \/ \E h \in Threads : AnswerRead(h)
  <2>1. stage' = stage /\ status' = status /\ \E m : m.turn = 0 /\ Told1(m)
    <3>1. CASE TellSettings
      BY <1>5, <3>1, OthersTell DEF PipeTyped, TellSettings, CodexStep, turnVars
    <3>2. ASSUME NEW h \in Threads, AnswerRead(h) PROVE stage' = stage /\ status' = status /\ Told1(Message("reply", 0, h))
      BY <3>2, ReadAnswered DEF codexVars, CodexStep, turnVars
    <3> QED BY <1>5, <1>7, <3>1, <3>2
  <2> QED BY <1>3, <1>4, <2>1
<1>8. CASE HandleReply
  <2>1. Taken1 /\ out[1].kind = "reply" /\ stage' = stage /\ status' = status /\ 1 \in Pipe
    BY <1>8, ReplyHandled DEF HandleReply, codexVars, turnVars, Taken1
  <2>2. out[1].turn = 0
    BY <2>1 DEF PipeTyped, WellFormed, TurnKinds
  <2>3. \A t \in Turns : Undisturbed(t)
    BY <1>0, <2>1, <2>2 DEF Undisturbed
  <2> QED BY <1>3, <2>1, <2>3
<1>9. ASSUME UNCHANGED <<stage, out, status>> PROVE StatusInv'
  BY <1>3, <1>9 DEF Undisturbed
<1>10. CASE HandleStderr \/ AppendEvent \/ UNCHANGED vars
  BY <1>9, <1>10 DEF HandleStderr, AppendEvent, codexVars, turnVars, vars
<1>11. ASSUME NEW h \in Threads, ThreadNext(h) PROVE StatusInv'
  <2>1. UNCHANGED <<stage, out>>
    BY <1>11, ThreadMoves
  <2>2. CASE Record(h)
    <3>1. status' = [status EXCEPT ![thread[h].turn] = StatusAfter("turn/recorded", @)]
      BY <2>2, Zenon DEF Record
    <3>2. \A was : StatusAfter("turn/recorded", was) = IF was = "unknown" THEN "starting" ELSE was
      BY DEF StatusAfter
    <3>3. \A t \in Turns : status'[t] = status[t] \/ (status[t] = "unknown" /\ status'[t] = "starting")
      BY <3>1, <3>2 DEF TurnsTyped
    <3> QED BY <1>3, <2>1, <3>3 DEF Undisturbed
  <2>3. CASE ~Record(h)
    <3>1. status' = status
      BY <1>11, <2>3, Zenon DEF ThreadNext, StartTurn, ReadThread, AnswerThread, SetOverride, ListEvents, AnswerEvents,
         ReplyApproval, Respond, hostVars, turnVars
    <3> QED BY <1>9, <2>1, <3>1
  <2> QED BY <2>2, <2>3
<1> QED BY <1>1, <1>2, <1>6, <1>7, <1>8, <1>10, <1>11, StatusRead, Zenon DEF Next, CodexNext, ReaderNext

\* A turn of which nothing is still to be read shows where it is.
LEMMA StatusIsRight == ASSUME StatusInv, NEW t \in Turns, Heard(t), stage \in [Turns -> Stages]
                       PROVE  status[t] \in StatusOf(stage[t])
<1>1. ~StartIsIn(t) /\ ~LastIs(t, "turn/completed") /\ ~LastIs(t, "turn/failed") /\ StatusFollows(t)
  BY DEF Heard, StartIsIn, Started, LastIs, Pipe, StatusInv
<1> QED BY <1>1 DEF StatusFollows, StatusOf, Begun, Ended, Stages
-----------------------------------------------------------------------------
(* One call of start_turn at a time, and the turn shown as the thread's *)

\* A step that changes neither the turns nor their records, and one of an HTTP
\* thread that neither starts nor records a turn.
Still == UNCHANGED <<stage, count, part, using, untold, turnVars, settings, overlapped, behind>>
Aside(h) == /\ Still /\ out' = out
            /\ \A g \in Threads \ {h} : thread'[g] = thread[g]
            /\ \/ thread'[h] = thread[h]
               \/ /\ thread'[h].op # "start" /\ thread'[h].at \notin {"answered", "replied"}
                  /\ thread'[h].turn = 0

LEMMA Steps == ASSUME Typed, [Next]_vars
               PROVE  \/ \E t \in Turns : GoOn(t)
                      \/ \E t \in Turns, p \in Approvals : /\ stage[t] \in {"running", "spoke", "stored"} /\ Still /\ thread' = thread
                                                           /\ Told1(Message("requestApproval", t, p))
                      \/ \E h \in Threads : AcceptTurn(h)
                      \/ \E h \in Threads : AnswerRead(h) /\ Still
                      \/ TellSettings
                      \/ HandleEvent
                      \/ HandleReply /\ Still
                      \/ \E h \in Threads : StartTurn(h) \/ Record(h) \/ Aside(h)
                      \/ Still /\ UNCHANGED <<out, thread>>
<1>1. ASSUME NEW t \in Turns, NEW p \in Approvals, AskApproval(t, p)
      PROVE  /\ stage[t] \in {"running", "spoke", "stored"} /\ Still /\ thread' = thread
             /\ Told1(Message("requestApproval", t, p))
  <2>1. Told1(Message("requestApproval", t, p))
    BY <1>1, OthersTell DEF Typed, PipeTyped
  <2> QED BY <1>1, <2>1 DEF AskApproval, CodexStep, Still, said
<1>2. ASSUME NEW h \in Threads, AnswerRead(h) PROVE Still
  BY <1>2, ReadAnswered DEF codexVars, said, CodexStep, Still
<1>3. HandleReply => Still
  BY DEF HandleReply, Still, codexVars, said
<1>4. CASE HandleStderr \/ AppendEvent \/ UNCHANGED vars
  BY <1>4 DEF HandleStderr, AppendEvent, codexVars, said, vars, Still
<1>5. ASSUME NEW h \in Threads, ThreadNext(h), ~StartTurn(h), ~Record(h) PROVE Aside(h)
  <2>1. /\ UNCHANGED <<stage, count, part, using, untold, out, behind>>
        /\ \A g \in Threads \ {h} : thread'[g] = thread[g]
    BY <1>5, ThreadMoves
  <2>2. UNCHANGED <<turnVars, settings, overlapped>> \/ (\E m \in Preferences : SetOverride(h, m))
    BY <1>5, Zenon DEF ThreadNext, ReadThread, AnswerThread, ListEvents, AnswerEvents, ReplyApproval, Respond, hostVars
  <2>3. UNCHANGED <<turnVars, settings, overlapped>>
    BY <2>2, Zenon DEF SetOverride
  <2>4. \/ thread'[h] = thread[h]
        \/ thread'[h].op # "start" /\ thread'[h].at \notin {"answered", "replied"} /\ thread'[h].turn = 0
    <3>1. \/ thread' = thread \/ Finish(h)
          \/ Does(h, [Idle EXCEPT !.op = "read", !.at = "asked"])
          \/ Does(h, [Idle EXCEPT !.op = "poll", !.at = "listed"])
          \/ \E p \in Approvals : Does(h, [Idle EXCEPT !.op = "decide", !.at = "taken", !.what = p])
      BY <1>5, Zenon DEF ThreadNext, ReadThread, AnswerThread, SetOverride, ListEvents, AnswerEvents, ReplyApproval, Respond
    <3>2. ASSUME NEW what, Does(h, what) PROVE thread'[h] = what
      BY <3>2 DEF Does, Typed, ThreadTyped
    <3>3. thread' = thread \/ \E what : /\ Does(h, what) /\ what.op # "start" /\ what.turn = 0
                                        /\ what.at \notin {"answered", "replied"}
      <4>1. /\ Idle.turn = 0
            /\ [Idle EXCEPT !.op = "read", !.at = "asked"].turn = 0
            /\ [Idle EXCEPT !.op = "poll", !.at = "listed"].turn = 0
            /\ Idle.op # "start" /\ Idle.at \notin {"answered", "replied"}
            /\ [Idle EXCEPT !.op = "read", !.at = "asked"].op # "start"
            /\ [Idle EXCEPT !.op = "read", !.at = "asked"].at \notin {"answered", "replied"}
            /\ [Idle EXCEPT !.op = "poll", !.at = "listed"].op # "start"
            /\ [Idle EXCEPT !.op = "poll", !.at = "listed"].at \notin {"answered", "replied"}
        BY DEF Idle
      <4>2. \A p : /\ [Idle EXCEPT !.op = "decide", !.at = "taken", !.what = p].turn = 0
                   /\ [Idle EXCEPT !.op = "decide", !.at = "taken", !.what = p].op # "start"
                   /\ [Idle EXCEPT !.op = "decide", !.at = "taken", !.what = p].at \notin {"answered", "replied"}
        BY DEF Idle
      <4> QED BY <3>1, <4>1, <4>2, Zenon DEF Finish
    <3> QED BY <3>2, <3>3
  <2> QED BY <2>1, <2>3, <2>4, Zenon DEF Aside, Still
<1> QED BY <1>1, <1>2, <1>3, <1>4, <1>5, Zenon DEF Next, CodexNext, ReaderNext, Still, vars

\* Without an overlap one thread at most is in start_turn, and the turn it was told
\* of is the last one that was accepted.
Starts(h) == thread[h].op = "start"
Answered(h) == thread[h].at \in {"answered", "replied"}
AloneInv == ~overlapped =>
    /\ \A g, h \in Threads : Starts(g) /\ Starts(h) => g = h
    /\ \A h \in Threads : Starts(h) /\ Answered(h) => thread[h].turn = count /\ count # 0

LEMMA AloneKept == ASSUME Typed, AloneInv, [Next]_vars PROVE AloneInv'
<1> USE DEF Typed
<1>1. ASSUME UNCHANGED <<count, overlapped>>,
             \A g \in Threads : Starts(g)' => /\ Starts(g) /\ thread'[g].turn = thread[g].turn
                                              /\ Answered(g)' => Answered(g)
      PROVE  AloneInv'
  BY <1>1 DEF AloneInv
<1>2. ASSUME UNCHANGED <<count, overlapped, thread>> PROVE AloneInv'
  BY <1>1, <1>2 DEF Starts, Answered
<1>3. ASSUME NEW t \in Turns, GoOn(t) PROVE AloneInv'
  BY <1>2, <1>3, TurnTells DEF PipeTyped, CodexStep
<1>4. ASSUME NEW h \in Threads, AcceptTurn(h) PROVE AloneInv'
  <2>1. /\ \A g \in Threads \ {h} : thread'[g] = thread[g]
        /\ Starts(h) /\ ~Answered(h)
        /\ thread'[h] = Idle \/ (Starts(h)' /\ thread'[h].turn = count')
        /\ count' # 0 /\ overlapped' = overlapped
    BY <1>4, TurnAccepted DEF CodexStep, Starts, Answered, CodexTyped
  <2>2. thread'[h] = Idle => ~Starts(h)'
    BY DEF Starts, Idle
  <2>3. ~overlapped => \A g \in Threads \ {h} : ~Starts(g) /\ ~Starts(g)'
    BY <2>1 DEF AloneInv, Starts
  <2> QED BY <2>1, <2>2, <2>3 DEF AloneInv
<1>5. ASSUME NEW h \in Threads, AnswerRead(h), Still PROVE AloneInv'
  <2>1. (\A g \in Threads \ {h} : thread'[g] = thread[g]) /\ ~Starts(h)'
    BY <1>5, ReadAnswered DEF Starts
  <2> QED BY <1>1, <1>5, <2>1 DEF Still, Starts, Answered
<1>6. CASE TellSettings \/ HandleEvent
  BY <1>2, <1>6 DEF TellSettings, CodexStep, HandleEvent, codexVars
<1>7. CASE HandleReply /\ Still
  <2>1. /\ \A g \in Threads \ {out[1].about} : thread'[g] = thread[g]
        /\ thread'[out[1].about] = [thread[out[1].about] EXCEPT !.at = "replied"]
        /\ out[1].about \in Threads /\ thread[out[1].about].at = "answered"
        /\ thread[out[1].about] \in ThreadStates
    BY <1>7, ReplyHandled DEF ThreadTyped
  <2>2. /\ thread'[out[1].about].op = thread[out[1].about].op
        /\ thread'[out[1].about].turn = thread[out[1].about].turn
    BY <2>1 DEF ThreadStates
  <2> QED BY <1>1, <1>7, <2>1, <2>2 DEF Still, Starts, Answered
<1>8. ASSUME NEW h \in Threads, StartTurn(h) PROVE AloneInv'
  <2>1. /\ overlapped' <=> (overlapped \/ \E g \in Threads : Starts(g))
        /\ count' = count
    BY <1>8 DEF StartTurn, Route, codexVars, Starts, FlagsTyped
  <2>2. /\ \A g \in Threads \ {h} : thread'[g] = thread[g]
        /\ thread'[h] = [Idle EXCEPT !.op = "start", !.at = "asked", !.what = override]
    BY <1>8 DEF StartTurn, Does, ThreadTyped
  <2>3. ~Answered(h)'
    BY <2>2 DEF Idle, Answered
  <2>4. ~overlapped' => \A g \in Threads \ {h} : ~Starts(g)'
    BY <2>1, <2>2 DEF Starts
  <2> QED BY <2>3, <2>4 DEF AloneInv
<1>9. ASSUME NEW h \in Threads, Record(h) PROVE AloneInv'
  <2>1. (\A g \in Threads \ {h} : thread'[g] = thread[g]) /\ thread'[h] = Idle /\ UNCHANGED <<count, overlapped>>
    BY <1>9 DEF Record, Finish, Does, ThreadTyped, codexVars
  <2>2. ~Starts(h)'
    BY <2>1 DEF Starts, Idle
  <2> QED BY <1>1, <2>1, <2>2 DEF Starts, Answered
<1>10. ASSUME NEW h \in Threads, Aside(h) PROVE AloneInv'
  <2>1. /\ \A g \in Threads \ {h} : thread'[g] = thread[g]
        /\ thread'[h] = thread[h] \/ ~Starts(h)'
        /\ UNCHANGED <<count, overlapped>>
    BY <1>10 DEF Aside, Still, Starts
  <2> QED BY <1>1, <2>1 DEF Starts, Answered
<1>11. CASE Still /\ UNCHANGED <<out, thread>>
  BY <1>2, <1>11 DEF Still
<1> QED BY <1>3, <1>4, <1>5, <1>6, <1>7, <1>8, <1>9, <1>10, <1>11, <1>2, Steps, Zenon DEF Still

\* The turn shown is the last one, once its start has been read.
CurrentInv ==
    /\ current <= count
    /\ \A h \in Threads : thread[h].turn <= count
    /\ count # 0 /\ ~overlapped /\ Begun(count) /\ ~StartIsIn(count) => current = count

LEMMA CurrentKept == ASSUME Typed, StageInv, OrderInv, AloneInv, CurrentInv, [Next]_vars PROVE CurrentInv'
<1> USE DEF Typed
<1>0. count \in Nat /\ count \in 0..MaxTurns /\ MaxTurns \in Nat /\ Len(out) \in Nat
  BY BoundsAssumption DEF CodexTyped, PipeTyped
<1>1. ASSUME UNCHANGED <<count, current, overlapped>>,
             \A h \in Threads : thread'[h].turn <= count,
             count # 0 => (Begun(count)' => Begun(count) \/ StartIsIn(count)'),
             \A t : StartIsIn(t) => StartIsIn(t)'
      PROVE  CurrentInv'
  BY <1>1 DEF CurrentInv, Begun, StartIsIn, Started, Pipe
<1>2. ASSUME Extended PROVE \A t : StartIsIn(t) => StartIsIn(t)'
  BY <1>2 DEF Extended, StartIsIn, Started
<1>3. ASSUME NEW t \in Turns, GoOn(t) PROVE CurrentInv'
  <2>1. /\ Moves(t) /\ stage' = [stage EXCEPT ![t] = stage'[t]]
        /\ UNCHANGED <<count, thread, current, overlapped>> /\ Extended /\ Len(out') \in Fresh
        /\ out'[Len(out')].turn = t /\ out'[Len(out')].kind = LastWord(t)
    BY <1>3, TurnTells DEF PipeTyped, CodexStep, turnVars
  <2>2. ASSUME count # 0, Begun(count)', ~Begun(count) PROVE StartIsIn(count)'
    <3>1. count = t /\ stage[t] = "queued" /\ stage'[t] = "running"
      BY <1>0, <2>1, <2>2 DEF Begun, Moves, CodexTyped, Turns
    <3>2. LastWord(t) = "turn/started" /\ Len(out') \in Pipe'
      BY <2>1, <3>1 DEF LastWord, Fresh
    <3>3. \E i \in Pipe' : out'[i].turn = count /\ out'[i].kind = "turn/started"
      BY <2>1, <3>1, <3>2
    <3> QED BY <2>1, <3>3 DEF StartIsIn, Started
  <2>3. StartIsIn(count)' <=> \E i \in Pipe' : out'[i].turn = count /\ out'[i].kind = "turn/started"
    BY <2>1 DEF StartIsIn, Started
  <2> QED BY <1>1, <1>2, <2>1, <2>2 DEF CurrentInv
<1>4. ASSUME NEW t \in Turns, NEW p \in Approvals, Still, thread' = thread,
             Told1(Message("requestApproval", t, p)) PROVE CurrentInv'
  BY <1>1, <1>2, <1>4 DEF Told1, Still, turnVars, Begun, CurrentInv
<1>5. ASSUME NEW h \in Threads, AcceptTurn(h) PROVE CurrentInv'
  <2>1. /\ \A g \in Threads \ {h} : thread'[g] = thread[g]
        /\ thread'[h] = Idle \/ thread'[h].turn = count + 1
        /\ count' = count + 1 /\ count' \in Turns /\ stage' = [stage EXCEPT ![count'] = "queued"]
        /\ current' = current
    BY <1>5, TurnAccepted DEF CodexStep, turnVars
  <2>2. \A g \in Threads : thread'[g].turn <= count'
    <3>1. \A g \in Threads : thread[g].turn \in Nat
      BY <1>0 DEF ThreadTyped, ThreadStates
    <3> QED BY <1>0, <2>1, <3>1 DEF CurrentInv, Idle
  <2>4. current' <= count'
    BY <1>0, <2>1 DEF CurrentInv, TurnsTyped
  <2>5. ~(stage'[count'] \notin {"none", "queued"})
    BY <2>1 DEF CodexTyped
  <2> QED BY <2>2, <2>4, <2>5 DEF CurrentInv, Begun
<1>6. ASSUME NEW h \in Threads, AnswerRead(h), Still PROVE CurrentInv'
  <2>1. /\ \A g \in Threads \ {h} : thread'[g] = thread[g]
        /\ thread'[h].turn \in {0, count}
        /\ Told1(Message("reply", 0, h))
    BY <1>6, ReadAnswered
  <2>2. \A g \in Threads : thread'[g].turn <= count
    BY <1>0, <2>1 DEF CurrentInv
  <2> QED BY <1>1, <1>2, <1>6, <2>1, <2>2 DEF Told1, Still, turnVars, Begun
<1>7. CASE TellSettings
  <2>1. Extended /\ UNCHANGED <<stage, count, current, overlapped, thread>>
    BY <1>7, OthersTell DEF TellSettings, Told1, PipeTyped, CodexStep, turnVars
  <2> QED BY <1>1, <1>2, <2>1 DEF CurrentInv, Begun
<1>8. ASSUME Taken1, out[1].kind # "turn/started" PROVE \A t : StartIsIn(t) => StartIsIn(t)'
  BY <1>8 DEF Taken1, StartIsIn, Started
<1>9. CASE HandleEvent
  <2>0. /\ Taken1 /\ UNCHANGED <<stage, count, overlapped, thread>> /\ WellFormed(out[1]) /\ 1 \in Pipe
        /\ \/ out[1].turn \in Turns /\ current' = out[1].turn
           \/ out[1].kind = "thread/settings/updated" /\ current' = current
    BY <1>9, EventHandled DEF codexVars, Taken1, UpdateTurn, UpdateSettings
  <2>1. CASE out[1].kind = "thread/settings/updated" /\ current' = current
    BY <1>1, <1>8, <2>0, <2>1 DEF CurrentInv, Begun
  <2>2. CASE out[1].turn \in Turns /\ current' = out[1].turn
    <3>1. Begun(current') /\ current' \in Turns /\ current' # 0 /\ current' \in Nat
      BY <2>0, <2>2, BoundsAssumption DEF OrderInv, Turns
    <3>2. current' <= count
      BY <1>0, <3>1 DEF StageInv, Begun
    <3>3. ASSUME count # 0, Begun(count), current' # count PROVE \E i \in Pipe' : Started(i, count)'
      <4>1. current' < count /\ count \in Turns
        BY <1>0, <3>1, <3>2, <3>3 DEF Turns
      <4>2. PICK j \in Pipe : 1 < j /\ Started(j, count)
        BY <2>0, <2>2, <3>1, <3>3, <4>1 DEF OrderInv
      <4>3. j - 1 \in Pipe' /\ out'[j - 1] = out[j]
        BY <2>0, <4>2 DEF Taken1
      <4> QED BY <2>0, <4>2, <4>3 DEF Started
    <3> QED BY <2>0, <3>2, <3>3 DEF CurrentInv, Begun, StartIsIn
  <2> QED BY <2>0, <2>1, <2>2
<1>10. CASE HandleReply /\ Still
  <2>1. /\ \A g \in Threads \ {out[1].about} : thread'[g] = thread[g]
        /\ thread'[out[1].about] = [thread[out[1].about] EXCEPT !.at = "replied"]
        /\ Taken1 /\ out[1].kind = "reply" /\ out[1].about \in Threads
        /\ thread[out[1].about] \in ThreadStates
    BY <1>10, ReplyHandled DEF ThreadTyped
  <2>2. thread'[out[1].about].turn = thread[out[1].about].turn
    BY <2>1 DEF ThreadStates
  <2>3. \A g \in Threads : thread'[g].turn <= count
    BY <2>1, <2>2 DEF CurrentInv
  <2> QED BY <1>1, <1>8, <1>10, <2>1, <2>3 DEF Still, turnVars, Begun
<1>11. ASSUME NEW h \in Threads, StartTurn(h) PROVE CurrentInv'
  <2>1. /\ \A g \in Threads \ {h} : thread'[g] = thread[g]
        /\ thread'[h] = [Idle EXCEPT !.op = "start", !.at = "asked", !.what = override]
        /\ UNCHANGED <<stage, count, current, out>> /\ (overlapped => overlapped')
    BY <1>11 DEF StartTurn, Does, ThreadTyped, Route, codexVars, hostVars, turnVars
  <2>2. thread'[h].turn = 0
    BY <2>1 DEF Idle
  <2>3. \A g \in Threads : thread'[g].turn <= count
    <3>1. 0 <= count /\ \A g \in Threads : thread[g].turn <= count
      BY <1>0 DEF CurrentInv
    <3> QED BY <2>1, <2>2, <3>1, Zenon
  <2> QED BY <2>1, <2>3 DEF CurrentInv, Begun, StartIsIn, Started, Pipe
<1>12. ASSUME NEW h \in Threads, Record(h) PROVE CurrentInv'
  <2>1. /\ \A g \in Threads \ {h} : thread'[g] = thread[g]
        /\ thread'[h] = Idle /\ current' = thread[h].turn
        /\ UNCHANGED <<stage, count, overlapped, out>>
        /\ thread[h].op = "start" /\ thread[h].at = "replied"
    BY <1>12 DEF Record, Finish, Does, ThreadTyped, codexVars
  <2>2. \A g \in Threads : thread'[g].turn <= count
    BY <1>0, <2>1 DEF CurrentInv, Idle
  <2>3. ~overlapped => current' = count
    BY <2>1 DEF AloneInv, Starts, Answered
  <2> QED BY <2>1, <2>2, <2>3 DEF CurrentInv
<1>13. ASSUME NEW h \in Threads, Aside(h) PROVE CurrentInv'
  <2>1. /\ \A g \in Threads \ {h} : thread'[g] = thread[g]
        /\ UNCHANGED <<stage, count, overlapped, current, out>>
    BY <1>13 DEF Aside, Still, turnVars
  <2>2. thread'[h].turn <= count
    BY <1>0, <1>13 DEF Aside, CurrentInv
  <2> QED BY <1>1, <2>1, <2>2 DEF CurrentInv, Begun, StartIsIn, Started, Pipe
<1>14. CASE Still /\ UNCHANGED <<out, thread>>
  BY <1>1, <1>14 DEF Still, turnVars, CurrentInv, Begun, StartIsIn, Started, Pipe
<1> QED BY <1>3, <1>4, <1>5, <1>6, <1>7, <1>9, <1>10, <1>11, <1>12, <1>13, <1>14, Steps, Zenon
-----------------------------------------------------------------------------
(* What a turn says, and what a read of the thread may show of it *)

\* The messages of a turn are told of and heard in order, up to the one it gave last.
PartInv ==
    /\ \A t \in Turns : \A m \in text[t] : m <= part[t]
    /\ \A i \in Pipe : out[i].turn \in Turns => out[i].part <= part[out[i].turn]
    /\ \A i, j \in Pipe : i < j /\ out[i].turn = out[j].turn /\ out[j].part # 0
                          => out[i].part <= out[j].part
    /\ \A j \in Pipe : out[j].turn \in Turns /\ out[j].part # 0
                       => \A m \in text[out[j].turn] : m <= out[j].part

LEMMA PartsKept == ASSUME Typed, PartInv, [Next]_vars PROVE PartInv'
<1> USE DEF Typed
<1>0. /\ out \in Seq(Messages) => \A i \in Pipe : out[i].part \in Nat
      /\ out' \in Seq(Messages) => \A i \in Pipe' : out'[i].part \in Nat
      /\ part \in [Turns -> Nat] /\ text \in [Turns -> SUBSET Nat] /\ out \in Seq(Messages)
  <2>1. \A m \in Messages : m.part \in Nat
    BY DEF Messages
  <2>2. out \in Seq(Messages) => \A i \in Pipe : out[i] \in Messages
    BY DEF Pipe
  <2>3. out' \in Seq(Messages) => \A i \in Pipe' : out'[i] \in Messages
    BY DEF Pipe
  <2> QED BY <2>1, <2>2, <2>3 DEF CodexTyped, PipeTyped, TurnsTyped
<1>1. ASSUME Extended, UNCHANGED text, part' \in [Turns -> Nat], \A t \in Turns : part[t] <= part'[t],
             \A j \in Fresh : out'[j].part = 0 \/ (\E t \in Turns : out'[j].turn = t /\ out'[j].part = part'[t])
      PROVE  PartInv'
  <2>1. \A t \in Turns : \A m \in text'[t] : m \in Nat /\ m <= part'[t]
    BY <1>0, <1>1 DEF PartInv
  <2>2. /\ \A i \in Pipe' : out'[i].part \in Nat /\ (i \in Fresh \/ (i \in Pipe /\ out'[i] = out[i]))
        /\ \A i \in Pipe', j \in Pipe : i < j => i \in Pipe
    BY <1>0, <1>1 DEF Extended, Fresh, Pipe
  <2>3. \A i \in Pipe' : out'[i].turn \in Turns => out'[i].part <= part'[out'[i].turn]
    BY <1>0, <1>1, <2>2 DEF PartInv
  <2>4. ASSUME NEW i \in Pipe', NEW j \in Pipe', i < j, out'[i].turn = out'[j].turn, out'[j].part # 0
        PROVE  out'[i].part <= out'[j].part
    <3>1. CASE j \in Fresh
      BY <1>1, <2>3, <2>4, <3>1
    <3>2. CASE j \in Pipe /\ out'[j] = out[j]
      BY <2>2, <2>4, <3>2 DEF PartInv, Fresh
    <3> QED BY <2>2, <3>1, <3>2
  <2>5. ASSUME NEW j \in Pipe', out'[j].turn \in Turns, out'[j].part # 0, NEW m \in text'[out'[j].turn]
        PROVE  m <= out'[j].part
    <3>1. CASE j \in Fresh
      BY <1>1, <2>1, <2>5, <3>1
    <3>2. CASE j \in Pipe /\ out'[j] = out[j]
      BY <1>1, <2>5, <3>2 DEF PartInv
    <3> QED BY <2>2, <3>1, <3>2
  <2> QED BY <2>1, <2>3, <2>4, <2>5 DEF PartInv
<1>2. ASSUME UNCHANGED <<text, out, part>> PROVE PartInv'
  BY <1>2 DEF PartInv, Pipe
<1>3. ASSUME UNCHANGED <<text, part>>, Taken1 PROVE PartInv'
  <2>1. \A i \in Pipe' : i + 1 \in Pipe /\ out'[i] = out[i + 1]
    BY <1>3 DEF Taken1
  <2>2. \A i, j \in Pipe' : i < j => i + 1 < j + 1
    BY DEF Pipe
  <2> QED BY <1>3, <2>1, <2>2 DEF PartInv
<1>4. ASSUME NEW m, Told1(m), m.part = 0, UNCHANGED <<text, part>> PROVE PartInv'
  BY <1>0, <1>1, <1>4 DEF Told1
<1>5. \A kind, turn, about : Message(kind, turn, about).part = 0
  BY DEF Message
<1>6. ASSUME NEW t \in Turns, GoOn(t) PROVE PartInv'
  <2>1. /\ Extended /\ Says(t) /\ Numbered(t) /\ UNCHANGED text /\ \A i \in Fresh : out'[i].turn = t
    BY <1>6, TurnTells DEF PipeTyped, CodexStep, turnVars
  <2>2. part' \in [Turns -> Nat] /\ \A s \in Turns : part[s] <= part'[s]
    BY <1>0, <2>1 DEF Says
  <2>3. \A j \in Fresh : out'[j].part = 0 \/ (\E s \in Turns : out'[j].turn = s /\ out'[j].part = part'[s])
    BY <2>1 DEF Numbered
  <2> QED BY <1>1, <2>1, <2>2, <2>3
<1>7. ASSUME NEW h \in Threads, AcceptTurn(h) PROVE PartInv'
  <2>1. UNCHANGED <<text, part>> /\ (UNCHANGED out \/ Told1(Message("reply", 0, h)))
    BY <1>7, TurnAccepted DEF CodexStep, turnVars
  <2> QED BY <1>2, <1>4, <1>5, <2>1
<1>8. ASSUME NEW h \in Threads, AnswerRead(h), Still PROVE PartInv'
  BY <1>4, <1>5, <1>8, ReadAnswered DEF Still, turnVars
<1>9. CASE TellSettings
  <2>1. UNCHANGED <<text, part>> /\ Told1(Message("thread/settings/updated", 0, using))
    BY <1>9, OthersTell DEF TellSettings, PipeTyped, CodexStep, turnVars, said
  <2> QED BY <1>4, <1>5, <2>1
<1>10. CASE HandleEvent
  <2>1. /\ Taken1 /\ part' = part /\ out[1].part \in Nat /\ 1 \in Pipe
        /\ \/ out[1].turn \in Turns /\ UpdateTurn(out[1].turn, out[1].kind, out[1].part)
           \/ text' = text
    BY <1>10, EventHandled DEF UpdateSettings, codexVars, said, Taken1
  <2>2. ASSUME out[1].turn \in Turns, UpdateTurn(out[1].turn, out[1].kind, out[1].part) PROVE PartInv'
    <3>1. text' = [text EXCEPT ![out[1].turn] = TextAfter(out[1].kind, out[1].part, @)]
      BY <2>2 DEF UpdateTurn
    <3>2. \A m : m \in TextAfter(out[1].kind, out[1].part, text[out[1].turn]) => m = out[1].part \/ m \in text[out[1].turn]
      BY DEF TextAfter
    <3>3. \A t \in Turns : \A m \in text'[t] : m \in text[t] \/ (t = out[1].turn /\ m = out[1].part)
      BY <1>0, <3>1, <3>2
    <3>4. \A i \in Pipe' : i + 1 \in Pipe /\ out'[i] = out[i + 1] /\ 1 < i + 1
      BY <2>1 DEF Taken1, Pipe
    <3>5. \A i, j \in Pipe' : i < j => i + 1 < j + 1
      BY DEF Pipe
    <3>6. \A t \in Turns : \A m \in text'[t] : m <= part'[t]
      BY <2>1, <2>2, <3>3 DEF PartInv
    <3>7. ASSUME NEW j \in Pipe', out'[j].turn \in Turns, out'[j].part # 0, NEW m \in text'[out'[j].turn]
          PROVE  m <= out'[j].part
      BY <2>1, <3>3, <3>4, <3>7 DEF PartInv
    <3>8. /\ \A i \in Pipe' : out'[i].turn \in Turns => out'[i].part <= part'[out'[i].turn]
          /\ \A i, j \in Pipe' : i < j /\ out'[i].turn = out'[j].turn /\ out'[j].part # 0 => out'[i].part <= out'[j].part
      BY <2>1, <3>4, <3>5 DEF PartInv
    <3> QED BY <3>6, <3>7, <3>8 DEF PartInv
  <2> QED BY <1>3, <2>1, <2>2
<1>11. CASE HandleReply /\ Still
  BY <1>3, <1>11, ReplyHandled DEF Still, turnVars
<1>12. ASSUME NEW h \in Threads, StartTurn(h) \/ Record(h) \/ Aside(h) PROVE PartInv'
  <2>1. UNCHANGED <<text, out, part>>
    BY <1>12, Zenon DEF StartTurn, Record, Aside, Still, Route, hostVars, turnVars, codexVars, said
  <2> QED BY <1>2, <2>1
<1>13. ASSUME NEW s \in Turns, NEW p \in Approvals, Still, Told1(Message("requestApproval", s, p)) PROVE PartInv'
  BY <1>4, <1>5, <1>13 DEF Still, turnVars
<1>14. CASE Still /\ UNCHANGED <<out, thread>>
  BY <1>2, <1>14 DEF Still, turnVars
<1> QED BY <1>6, <1>7, <1>8, <1>9, <1>10, <1>11, <1>12, <1>13, <1>14, Steps, Zenon

\* The n-th message of turn t, or a later one, is in the words the Host has, or it is still
\* to be read that it began.
Delta(i, t, n) == out[i].turn = t /\ out[i].kind = "item/agentMessage/delta" /\ out[i].part = n
AnswerComes(t, n) == (\E m \in text[t] : m >= n) \/ \E i \in Pipe : Delta(i, t, n)

\* What a turn says is heard or still to be read.
AnswerInv == \A t \in Turns : part[t] # 0 => Begun(t) /\ AnswerComes(t, part[t])

\* A read that found a message was answered after all of its beginning was told.
Found(h) == /\ thread[h].op = "read" /\ thread[h].at \in {"answered", "replied"}
            /\ thread[h].turn # 0
Early(m, t, n) == /\ m.turn = t
                  /\ m.kind = "turn/started" \/ (m.kind = "item/agentMessage/delta" /\ m.part <= n)
NoneIn(t, n) == \A j \in Pipe : ~Early(out[j], t, n)
NoneAfter(h, t, n) == \A i, j \in Pipe : out[i].kind = "reply" /\ out[i].about = h /\ i < j
                                         => ~Early(out[j], t, n)
Shows(h, t, n) == /\ Begun(t) /\ n <= part[t]
                  /\ AnswerComes(t, n)
                  /\ thread[h].at = "replied" => NoneIn(t, n)
                  /\ NoneAfter(h, t, n)
ReadInv == \A h \in Threads : Found(h) => Shows(h, thread[h].turn, thread[h].part)

\* A message, once given, is forgotten only for a later one.
LEMMA AnswerStays == ASSUME NEW t \in Turns, NEW n \in Nat, AnswerComes(t, n), Typed, PartInv, [Next]_vars
                     PROVE  AnswerComes(t, n)'
<1> USE DEF Typed
<1>1. ASSUME UNCHANGED text, Extended PROVE AnswerComes(t, n)'
  BY <1>1 DEF AnswerComes, Delta, Extended
<1>2. ASSUME UNCHANGED text, Taken1, out[1].kind # "item/agentMessage/delta" PROVE AnswerComes(t, n)'
  BY <1>2 DEF AnswerComes, Delta, Taken1
<1>3. ASSUME UNCHANGED <<text, out>> PROVE AnswerComes(t, n)'
  BY <1>3 DEF AnswerComes, Delta, Pipe
<1>4. ASSUME NEW s \in Turns, GoOn(s)
      PROVE  AnswerComes(t, n)'
  BY <1>1, <1>4, TurnTells DEF PipeTyped, CodexStep, turnVars
<1>5. ASSUME NEW m, Told1(m), UNCHANGED text PROVE AnswerComes(t, n)'
  BY <1>1, <1>5 DEF Told1
<1>6. ASSUME NEW h \in Threads, AcceptTurn(h) PROVE AnswerComes(t, n)'
  <2>1. UNCHANGED text /\ (UNCHANGED out \/ Told1(Message("reply", 0, h)))
    BY <1>6, TurnAccepted DEF CodexStep, turnVars
  <2> QED BY <1>3, <1>5, <2>1
<1>7. ASSUME NEW h \in Threads, AnswerRead(h), Still PROVE AnswerComes(t, n)'
  BY <1>5, <1>7, ReadAnswered DEF Still, turnVars
<1>8. CASE TellSettings
  BY <1>5, <1>8, OthersTell DEF TellSettings, PipeTyped, CodexStep, turnVars
<1>9. CASE HandleEvent
  <2> DEFINE k == out[1].part
  <2>1. /\ Taken1 /\ k \in Nat /\ 1 \in Pipe
        /\ \/ out[1].turn \in Turns /\ UpdateTurn(out[1].turn, out[1].kind, k)
           \/ out[1].kind = "thread/settings/updated" /\ text' = text
    BY <1>9, EventHandled DEF UpdateSettings, Taken1
  <2>2. CASE out[1].kind = "thread/settings/updated" /\ text' = text
    BY <1>2, <2>1, <2>2
  <2>3. CASE out[1].turn \in Turns /\ UpdateTurn(out[1].turn, out[1].kind, k)
    <3>1. /\ text' = [text EXCEPT ![out[1].turn] = TextAfter(out[1].kind, k, @)]
          /\ text \in [Turns -> SUBSET Nat]
      BY <2>3 DEF UpdateTurn, TurnsTyped
    <3>2. ASSUME NEW m \in text[t], m >= n PROVE \E l \in text'[t] : l >= n
      <4>1. CASE out[1].turn # t
        BY <2>3, <3>1, <3>2, <4>1
      <4>2. CASE out[1].turn = t
        <5>1. text'[t] = TextAfter(out[1].kind, k, text[t])
          BY <3>1, <4>2
        <5>2. m \in text'[t] \/ (text'[t] = {k} /\ k # 0)
          BY <5>1 DEF TextAfter
        <5>3. k # 0 => m <= k
          BY <2>1, <4>2 DEF PartInv
        <5>4. m \in Nat
          BY <3>1
        <5> QED BY <2>1, <3>2, <5>2, <5>3, <5>4
      <4> QED BY <4>1, <4>2
    <3>3. ASSUME Delta(1, t, n) PROVE n \in text'[t]
      <4>1. text'[t] = TextAfter("item/agentMessage/delta", n, text[t])
        BY <3>1, <3>3 DEF Delta
      <4> QED BY <4>1 DEF TextAfter
    <3>4. \A i \in Pipe \ {1} : Delta(i, t, n) => i - 1 \in Pipe' /\ Delta(i - 1, t, n)'
      BY <2>1 DEF Taken1, Delta
    <3>5. n >= n
      OBVIOUS
    <3> QED BY <3>2, <3>3, <3>4, <3>5 DEF AnswerComes
  <2> QED BY <2>1, <2>2, <2>3
<1>10. CASE HandleReply /\ Still
  BY <1>2, <1>10, ReplyHandled DEF Still, turnVars
<1>11. ASSUME NEW h \in Threads, StartTurn(h) \/ Record(h) \/ Aside(h) PROVE AnswerComes(t, n)'
  <2>1. UNCHANGED <<text, out>>
    BY <1>11, Zenon DEF StartTurn, Record, Aside, Still, hostVars, turnVars
  <2> QED BY <1>3, <2>1
<1>12. ASSUME NEW s \in Turns, NEW p \in Approvals, Still, Told1(Message("requestApproval", s, p)) PROVE AnswerComes(t, n)'
  BY <1>5, <1>12 DEF Still, turnVars
<1>13. CASE Still /\ UNCHANGED <<out, thread>>
  BY <1>3, <1>13 DEF Still, turnVars
<1> QED BY <1>4, <1>6, <1>7, <1>8, <1>9, <1>10, <1>11, <1>12, <1>13, Steps, Zenon

\* Who says something.
LEMMA PartSteps == ASSUME Typed, [Next]_vars
                   PROVE  \/ \E s \in Turns : GoOn(s)
                          \/ \E h \in Threads : AcceptTurn(h)
                          \/ UNCHANGED <<stage, part>>
<1>1. CASE TellSettings
  BY <1>1 DEF TellSettings, said
<1>2. CASE HandleEvent
  BY <1>2, EventHandled DEF codexVars, said
<1>3. ASSUME NEW h \in Threads, StartTurn(h) \/ Record(h) \/ Aside(h) PROVE UNCHANGED <<stage, part>>
  BY <1>3, Zenon DEF StartTurn, Record, Aside, Still, Route, codexVars, said
<1>4. Still => UNCHANGED <<stage, part>>
  BY DEF Still
<1> QED BY <1>1, <1>2, <1>3, <1>4, Steps, Zenon

LEMMA AnswersKept == ASSUME Typed, StageInv, PartInv, AnswerInv, [Next]_vars PROVE AnswerInv'
<1> USE DEF Typed
<1>0. part \in [Turns -> Nat] /\ stage \in [Turns -> Stages]
  BY DEF CodexTyped
<1>1. ASSUME NEW t \in Turns, part'[t] = part[t], part[t] # 0, stage'[t] = stage[t] \/ Begun(t)'
      PROVE  Begun(t)' /\ AnswerComes(t, part[t])'
  <2>1. Begun(t) /\ AnswerComes(t, part[t]) /\ part[t] \in Nat
    BY <1>0, <1>1 DEF AnswerInv
  <2>2. ASSUME NEW n \in Nat, n = part[t], part'[t] = n PROVE AnswerComes(t, part[t])'
    <3>1. AnswerComes(t, n)'
      BY <2>1, <2>2, AnswerStays
    <3> QED BY <2>2, <3>1 DEF AnswerComes, Delta
  <2> QED BY <1>1, <2>1, <2>2 DEF Begun
<1>2. ASSUME NEW s \in Turns, GoOn(s), NEW t \in Turns, part'[t] # 0
      PROVE  Begun(t)' /\ AnswerComes(t, part[t])'
  <2>1. /\ Moves(s) /\ stage' = [stage EXCEPT ![s] = stage'[s]] /\ Len(out') \in Fresh
        /\ out'[Len(out')].kind = LastWord(s) /\ out'[Len(out')].turn = s
        /\ Says(s) /\ Numbered(s)
    BY <1>2, TurnTells DEF PipeTyped
  <2>2. Begun(s)'
    BY <2>1 DEF Moves, Begun
  <2>3. CASE part'[t] = part[t]
    BY <1>0, <1>1, <1>2, <2>1, <2>2, <2>3
  <2>4. CASE part'[t] # part[t]
    <3>1. s = t /\ stage'[t] = "spoke"
      BY <1>0, <2>1, <2>4 DEF Says
    <3>2. Len(out') \in Pipe' /\ out'[Len(out')].kind = "item/agentMessage/delta" /\ out'[Len(out')].part = part'[t]
      BY <2>1, <3>1 DEF LastWord, Numbered, Fresh
    <3> QED BY <2>1, <2>2, <3>1, <3>2 DEF AnswerComes, Delta
  <2> QED BY <2>3, <2>4
<1>3. ASSUME NEW h \in Threads, AcceptTurn(h), NEW t \in Turns, part'[t] # 0
      PROVE  Begun(t)' /\ AnswerComes(t, part[t])'
  <2>1. count' = count + 1 /\ count' \in Turns /\ stage' = [stage EXCEPT ![count'] = "queued"] /\ part' = part
    BY <1>3, TurnAccepted
  <2>2. stage[count'] = "none"
    BY <2>1 DEF StageInv, CodexTyped
  <2>3. t # count'
    BY <1>3, <2>1, <2>2 DEF AnswerInv, Begun
  <2> QED BY <1>0, <1>1, <1>3, <2>1, <2>3
<1>4. ASSUME UNCHANGED <<stage, part>>, NEW t \in Turns, part'[t] # 0
      PROVE  Begun(t)' /\ AnswerComes(t, part[t])'
  BY <1>1, <1>4
<1> QED BY <1>2, <1>3, <1>4, PartSteps DEF AnswerInv

\* A read that stays answered, while nothing of the beginning of its message is told.
LEMMA ReadStays == ASSUME Typed, PartInv, ReadInv, [Next]_vars, NEW h \in Threads, NEW t \in Turns, NEW n \in Nat,
                          t = thread[h].turn, n = thread[h].part,
                          Found(h), Found(h)',
                          thread'[h].at = "replied" => thread[h].at = "replied" \/ NoneIn(t, n)',
                          Begun(t)', part[t] <= part'[t],
                          \/ UNCHANGED out
                          \/ Taken1
                          \/ Extended /\ \A j \in Fresh : ~Early(out'[j], t, n)
                   PROVE  Shows(h, t, n)'
<1>1. /\ AnswerComes(t, n) /\ NoneAfter(h, t, n)
      /\ thread[h].at = "replied" => NoneIn(t, n)
  BY DEF ReadInv, Shows
<1>2. AnswerComes(t, n)'
  BY <1>1, AnswerStays
<1>3. Begun(t)' /\ n <= part'[t]
  <2>1. n <= part[t] /\ part[t] \in Nat /\ part'[t] \in Nat
    BY CodexStaysTyped DEF ReadInv, Shows, Typed, CodexTyped
  <2> QED BY <2>1
<1>4. CASE UNCHANGED out
  BY <1>1, <1>2, <1>3, <1>4 DEF Shows, NoneIn, NoneAfter, Pipe
<1>5. CASE Taken1
  <2>1. \A i \in Pipe' : i + 1 \in Pipe /\ out'[i] = out[i + 1]
    BY <1>5 DEF Taken1
  <2>2. NoneIn(t, n) => NoneIn(t, n)'
    BY <2>1 DEF NoneIn
  <2>3. ASSUME NEW i \in Pipe', NEW j \in Pipe', out'[i].kind = "reply", out'[i].about = h, i < j
        PROVE  ~Early(out'[j], t, n)
    <3>1. i + 1 < j + 1
      BY <2>3 DEF Pipe
    <3> QED BY <1>1, <2>1, <2>3, <3>1 DEF NoneAfter
  <2> QED BY <1>1, <1>2, <1>3, <2>2, <2>3 DEF Shows, NoneAfter
<1>6. CASE Extended /\ \A j \in Fresh : ~Early(out'[j], t, n)
  <2>1. \A i \in Pipe' : i \in Fresh \/ (i \in Pipe /\ out'[i] = out[i])
    BY <1>6 DEF Extended, Fresh
  <2>2. NoneIn(t, n) => NoneIn(t, n)'
    BY <1>6, <2>1 DEF NoneIn
  <2>3. ASSUME NEW i \in Pipe', NEW j \in Pipe', out'[i].kind = "reply", out'[i].about = h, i < j
        PROVE  ~Early(out'[j], t, n)
    <3>1. CASE j \in Fresh
      BY <1>6, <2>3, <3>1
    <3>2. CASE j \in Pipe /\ out'[j] = out[j]
      <4>1. i \in Pipe /\ out'[i] = out[i]
        <5>1. i \notin Fresh
          BY <1>6, <2>3, <3>2 DEF Extended, Pipe
        <5> QED BY <2>1, <5>1
      <4> QED BY <1>1, <2>3, <3>2, <4>1 DEF NoneAfter
    <3> QED BY <2>1, <3>1, <3>2
  <2> QED BY <1>1, <1>2, <1>3, <2>2, <2>3 DEF Shows, NoneAfter
<1> QED BY <1>4, <1>5, <1>6

\* A message that is neither a beginning nor a delta is of no matter to a read.
Late(m) == m.kind \notin {"turn/started", "item/agentMessage/delta"}

LEMMA ReadKept == ASSUME Typed, StageInv, PartInv, AnswerInv, ReadInv, [Next]_vars PROVE ReadInv'
<1> USE DEF Typed
<1>0. /\ \A h \in Threads : thread[h].turn # 0 => thread[h].turn \in Turns
      /\ \A h \in Threads : thread[h].part \in Nat
      /\ part \in [Turns -> Nat] /\ part' \in [Turns -> Nat] /\ stage \in [Turns -> Stages]
  BY BoundsAssumption, CodexStaysTyped DEF CodexTyped, ThreadTyped, ThreadStates, Turns
<1>1. ASSUME NEW h \in Threads, Found(h)', Found(h), thread'[h].turn = thread[h].turn, thread'[h].part = thread[h].part,
             thread'[h].at = "replied" => thread[h].at = "replied" \/ NoneIn(thread[h].turn, thread[h].part)',
             Begun(thread[h].turn)', part[thread[h].turn] <= part'[thread[h].turn],
             \/ UNCHANGED out
             \/ Taken1
             \/ Extended /\ \A j \in Fresh : ~Early(out'[j], thread[h].turn, thread[h].part)
      PROVE  Shows(h, thread[h].turn, thread[h].part)'
  <2>1. ASSUME NEW t \in Turns, t = thread[h].turn, NEW n \in Nat, n = thread[h].part PROVE Shows(h, t, n)'
    <3>1. Begun(t)' /\ (thread'[h].at = "replied" => thread[h].at = "replied" \/ NoneIn(t, n)')
      BY <1>1, <2>1 DEF Begun, NoneIn
    <3> QED BY <1>1, <2>1, <3>1, ReadStays
  <2>2. \A t \in Turns, n \in Nat : t = thread[h].turn /\ n = thread[h].part => t = thread'[h].turn /\ n = thread'[h].part
    BY <1>1
  <2>3. thread[h].turn \in Turns /\ thread[h].part \in Nat
    BY <1>0, <1>1 DEF Found
  <2> QED BY <2>1, <2>2, <2>3 DEF Shows, Begun, AnswerComes, Delta, NoneIn, NoneAfter
<1>2. ASSUME NEW h \in Threads, Found(h)', thread'[h] = thread[h], UNCHANGED <<stage, part>>,
             \/ UNCHANGED out
             \/ Taken1
             \/ Extended /\ \A j \in Fresh : Late(out'[j])
      PROVE  Shows(h, thread[h].turn, thread[h].part)'
  <2>1. Found(h)
    BY <1>2 DEF Found
  <2>2. thread[h].turn \in Turns /\ Begun(thread[h].turn)
    BY <1>0, <2>1 DEF Found, ReadInv, Shows
  <2>3. Begun(thread[h].turn)' /\ part[thread[h].turn] <= part'[thread[h].turn]
    BY <1>0, <1>2, <2>2 DEF Begun
  <2>4. \A m, t, n : Late(m) => ~Early(m, t, n)
    BY DEF Late, Early
  <2> QED BY <1>1, <1>2, <2>1, <2>3, <2>4
<1>3. ASSUME NEW m, Told1(m), Late(m) PROVE Extended /\ \A j \in Fresh : Late(out'[j])
  BY <1>3 DEF Told1
<1>4. ASSUME NEW s \in Turns, GoOn(s),
             NEW h \in Threads, Found(h)'
      PROVE  Shows(h, thread[h].turn, thread[h].part)'
  <2>1. /\ Moves(s) /\ stage' = [stage EXCEPT ![s] = stage'[s]] /\ thread' = thread /\ Extended
        /\ Says(s) /\ Numbered(s)
        /\ \A i \in Fresh : /\ out'[i].turn = s
                            /\ out'[i].kind = LastWord(s) \/ (out'[i].kind = "error" /\ stage'[s] = "failed")
    BY <1>4, TurnTells DEF PipeTyped
  <2>2. /\ Found(h) /\ thread[h].turn \in Turns /\ Begun(thread[h].turn)
        /\ thread[h].part <= part[thread[h].turn] /\ thread[h].part \in Nat
    BY <1>0, <1>4, <2>1 DEF Found, ReadInv, Shows
  <2>3. \A t \in Turns : Begun(t) => Begun(t)' /\ part[t] <= part'[t]
    BY <1>0, <2>1 DEF Moves, Says, Begun
  <2>4. ASSUME NEW j \in Fresh, Early(out'[j], thread[h].turn, thread[h].part) PROVE FALSE
    <3>1. s = thread[h].turn /\ stage[s] \notin {"none", "queued"}
      BY <2>1, <2>2, <2>4 DEF Early, Begun
    <3>2. out'[j].kind = "item/agentMessage/delta" /\ out'[j].part <= thread[h].part /\ stage'[s] = "spoke"
      BY <2>1, <2>4, <3>1 DEF Early, LastWord, Moves
    <3>3. out'[j].part = part[s] + 1
      BY <1>0, <2>1, <2>4, <3>2 DEF Says, Numbered
    <3> QED BY <1>0, <2>2, <3>1, <3>2, <3>3
  <2> QED BY <1>1, <1>4, <2>1, <2>2, <2>3, <2>4
<1>5. ASSUME NEW s \in Turns, NEW p \in Approvals, Still, thread' = thread,
             Told1(Message("requestApproval", s, p)), NEW h \in Threads, Found(h)'
      PROVE  Shows(h, thread[h].turn, thread[h].part)'
  <2>1. Late(Message("requestApproval", s, p))
    BY DEF Message, Late
  <2> QED BY <1>2, <1>3, <1>5, <2>1 DEF Still
<1>6. \A g : Late(Message("reply", 0, g)) /\ Late(Message("thread/settings/updated", 0, using))
  BY DEF Message, Late
<1>7. ASSUME NEW g \in Threads, AcceptTurn(g), NEW h \in Threads, Found(h)'
      PROVE  Shows(h, thread[h].turn, thread[h].part)'
  <2>1. /\ \A k \in Threads \ {g} : thread'[k] = thread[k]
        /\ thread'[g] = Idle \/ thread'[g].op = "start"
        /\ out' = out \/ Told1(Message("reply", 0, g))
        /\ count' = count + 1 /\ count' \in Turns /\ stage' = [stage EXCEPT ![count'] = "queued"]
        /\ part' = part
    BY <1>7, TurnAccepted
  <2>2. h # g
    BY <1>7, <2>1 DEF Found, Idle
  <2>3. Found(h) /\ thread[h].turn \in Turns /\ Begun(thread[h].turn) /\ thread'[h] = thread[h]
    BY <1>0, <1>7, <2>1, <2>2 DEF Found, ReadInv, Shows
  <2>4. stage[count'] = "none"
    BY <2>1 DEF StageInv, CodexTyped
  <2>5. Begun(thread[h].turn)' /\ part[thread[h].turn] <= part'[thread[h].turn]
    BY <1>0, <2>1, <2>3, <2>4 DEF Begun
  <2>6. out' = out \/ (Extended /\ \A j \in Fresh : Late(out'[j]))
    BY <1>3, <1>6, <2>1
  <2>7. \A m, t, n : Late(m) => ~Early(m, t, n)
    BY DEF Late, Early
  <2> QED BY <1>1, <1>7, <2>3, <2>5, <2>6, <2>7
<1>8. ASSUME NEW g \in Threads, AnswerRead(g), Still, NEW h \in Threads, Found(h)'
      PROVE  Shows(h, thread[h].turn, thread[h].part)'
  <2>1. /\ \A k \in Threads \ {g} : thread'[k] = thread[k]
        /\ thread[g].at = "asked" /\ thread'[g].at = "answered"
        /\ \/ thread'[g].turn = 0
           \/ thread'[g].turn = count /\ count # 0 /\ part[count] # 0 /\ thread'[g].part = part[count]
        /\ Told1(Message("reply", 0, g)) /\ UNCHANGED <<stage, part>>
    BY <1>8, ReadAnswered DEF Still
  <2>2. CASE h # g
    BY <1>2, <1>3, <1>6, <1>8, <2>1, <2>2
  <2>3. CASE h = g
    <3>1. /\ thread'[h].turn = count /\ count \in Turns /\ part[count] # 0 /\ thread'[h].part = part[count]
          /\ part[count] \in Nat /\ thread'[h].at = "answered" /\ thread[h].at = "asked"
      BY <1>0, <1>8, <2>1, <2>3, BoundsAssumption DEF Found, CodexTyped, Turns
    <3>2. \A i \in Pipe' : i = Len(out) + 1 \/ (i \in Pipe /\ out'[i] = out[i])
      BY <2>1 DEF Told1, Extended, Fresh
    <3>3. \A i \in Pipe : ~(out[i].kind = "reply" /\ out[i].about = h)
      BY <3>1 DEF ReplyInv
    <3>4. \A i, j \in Pipe' : out'[i].kind = "reply" /\ out'[i].about = h => ~(i < j)
      <4>1. Pipe' = 1..(Len(out) + 1)
        BY <2>1 DEF Told1, Pipe
      <4> QED BY <3>2, <3>3, <4>1, PipeTyped DEF PipeTyped
    <3>5. ASSUME NEW t \in Turns, t = count, NEW n \in Nat, n = part[count] PROVE Shows(h, t, n)'
      <4>1. Begun(t) /\ AnswerComes(t, n)'
        BY <3>1, <3>5, AnswerStays DEF AnswerInv
      <4>2. NoneAfter(h, t, n)'
        BY <3>4 DEF NoneAfter
      <4> QED BY <2>1, <3>1, <3>5, <4>1, <4>2 DEF Shows, Begun
    <3>6. \A t, n : t = count /\ n = part[count] => t = thread'[h].turn /\ n = thread'[h].part
      BY <3>1
    <3> QED BY <3>1, <3>5, <3>6 DEF Shows, Begun, AnswerComes, Delta, NoneIn, NoneAfter
  <2> QED BY <2>2, <2>3
<1>9. ASSUME TellSettings, NEW h \in Threads, Found(h)' PROVE Shows(h, thread[h].turn, thread[h].part)'
  <2>1. Told1(Message("thread/settings/updated", 0, using)) /\ UNCHANGED <<stage, part, thread>>
    BY <1>9, OthersTell DEF TellSettings, PipeTyped, said
  <2> QED BY <1>2, <1>3, <1>6, <1>9, <2>1
<1>10. ASSUME HandleEvent, NEW h \in Threads, Found(h)' PROVE Shows(h, thread[h].turn, thread[h].part)'
  <2>1. Taken1 /\ UNCHANGED <<stage, part, thread>>
    BY <1>10, EventHandled DEF codexVars, said
  <2> QED BY <1>2, <1>10, <2>1
<1>11. ASSUME HandleReply, Still, NEW h \in Threads, Found(h)' PROVE Shows(h, thread[h].turn, thread[h].part)'
  <2>1. /\ out[1].kind = "reply" /\ out[1].about \in Threads /\ Taken1 /\ thread[out[1].about].at = "answered"
        /\ \A g \in Threads \ {out[1].about} : thread'[g] = thread[g]
        /\ thread'[out[1].about] = [thread[out[1].about] EXCEPT !.at = "replied"]
        /\ UNCHANGED <<stage, part>>
    BY <1>11, ReplyHandled DEF Still
  <2>2. CASE h # out[1].about
    BY <1>2, <1>11, <2>1, <2>2
  <2>3. CASE h = out[1].about
    <3>1. /\ thread'[h].op = thread[h].op /\ thread'[h].turn = thread[h].turn /\ thread'[h].part = thread[h].part
          /\ thread'[h].at = "replied"
      BY <2>1, <2>3 DEF ThreadTyped, ThreadStates
    <3>2. Found(h) /\ Shows(h, thread[h].turn, thread[h].part)
      BY <1>11, <2>1, <2>3, <3>1 DEF Found, ReadInv
    <3>3. \A j \in Pipe' : ~Early(out'[j], thread[h].turn, thread[h].part)
      <4>1. \A j \in Pipe' : j + 1 \in Pipe /\ out'[j] = out[j + 1] /\ 1 < j + 1 /\ 1 \in Pipe
        BY <2>1 DEF Taken1, Pipe
      <4> QED BY <2>1, <2>3, <3>2, <4>1 DEF Shows, NoneAfter
    <3>4. /\ Begun(thread[h].turn)' /\ part[thread[h].turn] <= part'[thread[h].turn]
          /\ NoneIn(thread[h].turn, thread[h].part)'
      <4>1. thread[h].turn \in Turns
        BY <1>0, <3>2 DEF Found
      <4>2. NoneIn(thread[h].turn, thread[h].part)'
        BY <3>1, <3>3 DEF NoneIn
      <4> QED BY <1>0, <2>1, <3>1, <3>2, <4>1, <4>2 DEF Shows, Begun
    <3> QED BY <1>1, <1>11, <2>1, <3>1, <3>2, <3>3, <3>4
  <2> QED BY <2>2, <2>3
<1>12. ASSUME NEW g \in Threads, StartTurn(g) \/ Record(g) \/ Aside(g), NEW h \in Threads, Found(h)'
       PROVE  Shows(h, thread[h].turn, thread[h].part)'
  <2>1. UNCHANGED <<stage, part, out>>
    BY <1>12, Zenon DEF StartTurn, Record, Aside, Still, Route, codexVars, said
  <2>2. thread'[h] = thread[h]
    <3>1. CASE StartTurn(g) \/ Record(g)
      <4>1. /\ \A k \in Threads \ {g} : thread'[k] = thread[k]
            /\ \/ thread'[g] = Idle
               \/ thread'[g] = [Idle EXCEPT !.op = "start", !.at = "asked", !.what = override]
        BY <3>1 DEF StartTurn, Record, Finish, Does, ThreadTyped
      <4>2. thread'[g].op # "read"
        <5>1. Idle.op # "read" /\ [Idle EXCEPT !.op = "start", !.at = "asked", !.what = override].op # "read"
          BY DEF Idle
        <5> QED BY <4>1, <5>1, Zenon
      <4> QED BY <1>12, <4>1, <4>2 DEF Found
    <3>2. CASE Aside(g)
      BY <1>12, <3>2 DEF Aside, Found
    <3> QED BY <1>12, <3>1, <3>2
  <2> QED BY <1>2, <1>12, <2>1, <2>2
<1>13. ASSUME Still, UNCHANGED <<out, thread>>, NEW h \in Threads, Found(h)'
       PROVE  Shows(h, thread[h].turn, thread[h].part)'
  BY <1>2, <1>13 DEF Still
<1>14. ASSUME NEW h \in Threads, Found(h)' PROVE Shows(h, thread[h].turn, thread[h].part)'
  BY <1>4, <1>5, <1>7, <1>8, <1>9, <1>10, <1>11, <1>12, <1>13, <1>14, Steps, Zenon
<1> QED BY <1>14 DEF ReadInv

\* A message that a read of the newest turn found is shown, or a later one, unless Codex had
\* stored another one of the turn.
LEMMA AnswerIsShown == ASSUME Typed, CurrentInv, ReadInv PROVE SpokenTurnsAreShown
<1>1. ASSUME NEW h \in Threads, thread[h].op = "read", thread[h].at = "replied", thread[h].turn # 0,
             thread[h].turn = count, ~overlapped, thread[h].stored[count] \subseteq {thread[h].part}
      PROVE  \E n \in Normalized(h, count) : n >= thread[h].part
  <2> DEFINE n == thread[h].part
  <2>1. Shows(h, count, n) /\ NoneIn(count, n)
    BY <1>1 DEF ReadInv, Found, Shows
  <2>2. n \in Nat
    BY DEF Typed, ThreadTyped, ThreadStates
  <2>3. Begun(count) /\ ~StartIsIn(count)
    BY <2>1, <2>2 DEF Shows, NoneIn, Early, StartIsIn, Started
  <2>4. ~\E i \in Pipe : Delta(i, count, n)
    BY <2>1, <2>2 DEF NoneIn, Early, Delta
  <2>5. \E m \in text[count] : m >= n
    BY <2>1, <2>4 DEF Shows, AnswerComes
  <2>6. current = count
    BY <1>1, <2>3 DEF CurrentInv
  <2>7. CASE thread[h].stored[count] = {}
    BY <2>5, <2>6, <2>7 DEF Normalized, Live
  <2>8. CASE thread[h].stored[count] # {}
    <3>1. n \in thread[h].stored[count] /\ n >= n
      BY <1>1, <2>2, <2>8
    <3> QED BY <3>1 DEF Normalized
  <2> QED BY <2>7, <2>8
<1> QED BY <1>1 DEF SpokenTurnsAreShown
-----------------------------------------------------------------------------
(* The settings of the thread, and of the turn shown *)

Tells(i) == out[i].kind = "thread/settings/updated"
LastTells(i) == Tells(i) /\ \A j \in Pipe : j > i => ~Tells(j)
NoneTells == \A i \in Pipe : ~Tells(i)

\* What was reported last is what Codex uses.
SettingsInv == ~untold => /\ \A i \in Pipe : LastTells(i) => out[i].about = using
                          /\ NoneTells => settings \in {NoModel, using}

LEMMA SettingsStay == ASSUME out \in Seq(Messages), SettingsInv, settings' = settings,
                             untold' \/ (~untold /\ using' = using),
                             \/ UNCHANGED out
                             \/ Extended /\ \A j \in Fresh : out'[j].kind # "thread/settings/updated"
                             \/ Taken1 /\ ~Tells(1)
                      PROVE  SettingsInv'
<1>1. CASE untold'
  BY <1>1 DEF SettingsInv
<1>2. CASE UNCHANGED <<out, using>> /\ ~untold /\ ~untold'
  BY <1>2 DEF SettingsInv, LastTells, Tells, NoneTells, Pipe
<1>3. CASE /\ ~untold /\ using' = using
           /\ Extended /\ \A j \in Fresh : out'[j].kind # "thread/settings/updated"
  <2>1. \A i \in Pipe' : (i \in Pipe /\ out'[i] = out[i]) \/ ~Tells(i)'
    BY <1>3 DEF Extended, Fresh, Tells
  <2>2. \A i \in Pipe : i \in Pipe' /\ out'[i] = out[i]
    BY <1>3 DEF Extended
  <2>3. NoneTells' => NoneTells
    BY <2>2 DEF NoneTells, Tells
  <2>4. \A i \in Pipe' : LastTells(i)' => i \in Pipe /\ LastTells(i) /\ out'[i] = out[i]
    BY <2>1, <2>2 DEF LastTells, Tells
  <2> QED BY <1>3, <2>3, <2>4 DEF SettingsInv
<1>4. CASE ~untold /\ using' = using /\ Taken1 /\ ~Tells(1)
  <2>1. \A i \in Pipe' : i + 1 \in Pipe /\ out'[i] = out[i + 1]
    BY <1>4 DEF Taken1
  <2>2. \A i \in Pipe : i = 1 \/ (i - 1 \in Pipe' /\ out'[i - 1] = out[i])
    BY <1>4 DEF Taken1
  <2>3. NoneTells' => NoneTells
    BY <1>4, <2>2 DEF NoneTells, Tells
  <2>4. ASSUME NEW i \in Pipe', LastTells(i)' PROVE LastTells(i + 1)
    <3>1. ASSUME NEW j \in Pipe, j > i + 1 PROVE ~Tells(j)
      <4>1. j - 1 \in Pipe' /\ out'[j - 1] = out[j] /\ j - 1 > i
        BY <2>2, <3>1 DEF Pipe
      <4> QED BY <2>4, <4>1 DEF LastTells, Tells
    <3> QED BY <2>1, <2>4, <3>1 DEF LastTells, Tells
  <2> QED BY <1>4, <2>1, <2>3, <2>4 DEF SettingsInv
<1> QED BY <1>1, <1>2, <1>3, <1>4

LEMMA SettingsKept == ASSUME Typed, SettingsInv, [Next]_vars PROVE SettingsInv'
<1> USE DEF Typed, PipeTyped
<1>1. ASSUME NEW m, Told1(m), m.kind # "thread/settings/updated"
      PROVE  Extended /\ \A j \in Fresh : out'[j].kind # "thread/settings/updated"
  BY <1>1 DEF Told1
<1>2. \A t, p : /\ Message("requestApproval", t, p).kind # "thread/settings/updated"
                /\ Message("reply", t, p).kind # "thread/settings/updated"
  BY DEF Message
<1>3. ASSUME NEW s \in Turns, GoOn(s) PROVE SettingsInv'
  <2>1. /\ UNCHANGED <<using, untold, settings>> /\ Extended
        /\ \A i \in Fresh : out'[i].kind = LastWord(s) \/ out'[i].kind = "error"
    BY <1>3, TurnTells DEF CodexStep
  <2>2. LastWord(s) # "thread/settings/updated"
    BY DEF LastWord
  <2> QED BY <2>1, <2>2, SettingsStay
<1>4. ASSUME NEW s \in Turns, NEW p \in Approvals, Still, Told1(Message("requestApproval", s, p)) PROVE SettingsInv'
  BY <1>1, <1>2, <1>4, SettingsStay DEF Still
<1>5. ASSUME NEW h \in Threads, AcceptTurn(h) PROVE SettingsInv'
  <2>1. settings' = settings /\ (out' = out \/ Told1(Message("reply", 0, h)))
    BY <1>5, TurnAccepted DEF CodexStep
  <2>2. untold' \/ (~untold /\ using' = using)
    BY <1>5 DEF AcceptTurn
  <2> QED BY <1>1, <1>2, <2>1, <2>2, SettingsStay
<1>6. ASSUME NEW h \in Threads, AnswerRead(h), Still PROVE SettingsInv'
  <2>1. Told1(Message("reply", 0, h))
    BY <1>6, ReadAnswered
  <2> QED BY <1>1, <1>2, <1>6, <2>1, SettingsStay DEF Still
<1>7. CASE TellSettings
  <2>1. Told1(Message("thread/settings/updated", 0, using)) /\ using' = using
    BY <1>7, OthersTell DEF TellSettings
  <2>2. /\ Len(out) + 1 \in Pipe' /\ out'[Len(out) + 1].about = using'
        /\ out'[Len(out) + 1].kind = "thread/settings/updated"
    BY <2>1 DEF Told1, Fresh, Message
  <2>3. \A i \in Pipe' : i = Len(out) + 1 \/ i < Len(out) + 1
    BY <2>1 DEF Told1, Pipe
  <2> QED BY <2>2, <2>3 DEF SettingsInv, LastTells, Tells, NoneTells
<1>8. CASE HandleEvent
  <2>1. /\ Taken1 /\ UNCHANGED <<using, untold>>
        /\ \/ settings' = settings /\ ~Tells(1)
           \/ settings' = out[1].about /\ Tells(1)
    BY <1>8, EventHandled DEF codexVars, UpdateSettings, Tells, TurnKinds
  <2>2. CASE settings' = settings /\ ~Tells(1)
    BY <2>1, <2>2, SettingsStay DEF SettingsInv
  <2>3. CASE settings' = out[1].about /\ Tells(1)
    <3>1. \A i \in Pipe' : i + 1 \in Pipe /\ out'[i] = out[i + 1]
      BY <2>1 DEF Taken1
    <3>2. \A i \in Pipe : i = 1 \/ (i - 1 \in Pipe' /\ out'[i - 1] = out[i])
      BY <2>1 DEF Taken1
    <3>3. ASSUME NEW i \in Pipe', LastTells(i)' PROVE LastTells(i + 1)
      <4>1. ASSUME NEW j \in Pipe, j > i + 1 PROVE ~Tells(j)
        <5>1. j - 1 \in Pipe' /\ out'[j - 1] = out[j] /\ j - 1 > i
          BY <3>2, <4>1 DEF Pipe
        <5> QED BY <3>3, <5>1 DEF LastTells, Tells
      <4> QED BY <3>1, <3>3, <4>1 DEF LastTells, Tells
    <3>4. NoneTells' => LastTells(1)
      BY <2>3, <3>2 DEF NoneTells, LastTells, Tells, Pipe
    <3>5. 1 \in Pipe
      BY <2>1 DEF Taken1
    <3> QED BY <2>1, <2>3, <3>1, <3>3, <3>4, <3>5 DEF SettingsInv
  <2> QED BY <2>1, <2>2, <2>3
<1>9. CASE HandleReply /\ Still
  <2>1. Taken1 /\ ~Tells(1)
    BY <1>9, ReplyHandled DEF Tells
  <2> QED BY <1>9, <2>1, SettingsStay DEF Still, SettingsInv
<1>10. ASSUME NEW h \in Threads, StartTurn(h) \/ Record(h) \/ Aside(h) PROVE SettingsInv'
  <2>1. UNCHANGED <<using, untold, settings, out>>
    BY <1>10, Zenon DEF StartTurn, Record, Aside, Still, Route, codexVars, hostVars
  <2> QED BY <2>1 DEF SettingsInv, LastTells, Tells, NoneTells, Pipe
<1>11. CASE Still /\ UNCHANGED <<out, thread>>
  BY <1>11 DEF Still, SettingsInv, LastTells, Tells, NoneTells, Pipe
<1> QED BY <1>3, <1>4, <1>5, <1>6, <1>7, <1>8, <1>9, <1>10, <1>11, Steps, Zenon

\* Without an overlap, and when no turn was accepted while another ran, what is still
\* to be read is about the last turn, as soon as that one is shown.
InTurn == ~overlapped /\ ~behind /\ count # 0
Old(i) == out[i].turn # 0 /\ out[i].turn < count
NoneOld == \A i \in Pipe : ~Old(i)
ArrivedInv == InTurn =>
    /\ \A s \in 1..(count - 1) : stage[s] \in Ended
    /\ current = count => NoneOld
    /\ \A h \in Threads : Starts(h) =>
         /\ thread[h].at = "replied" => NoneOld
         /\ thread[h].at = "answered" =>
              \A i, j \in Pipe : out[i].kind = "reply" /\ out[i].about = h /\ i < j => ~Old(j)

\* The pipe has changed, with nothing about an earlier turn in what was added.
LEMMA ArrivedStays == ASSUME out \in Seq(Messages), ArrivedInv, UNCHANGED <<count, behind>>, overlapped => overlapped',
                             \A s \in 1..(count - 1) : stage[s] \in Ended => stage'[s] = stage[s],
                             InTurn' /\ current' = count => current = count \/ NoneOld',
                             InTurn' => \A h \in Threads : Starts(h)' =>
                                 /\ thread'[h].at = "replied" => NoneOld' \/ (Starts(h) /\ thread[h].at = "replied")
                                 /\ thread'[h].at = "answered" => Starts(h) /\ thread[h].at = "answered",
                             \/ UNCHANGED out
                             \/ Extended /\ \A j \in Fresh : out'[j].turn # 0 => ~(out'[j].turn < count)
                             \/ Taken1
                      PROVE  ArrivedInv'
<1> SUFFICES ASSUME InTurn' PROVE /\ \A s \in 1..(count' - 1) : stage'[s] \in Ended
                                  /\ current' = count' => NoneOld'
                                  /\ \A h \in Threads : Starts(h)' =>
                                       /\ thread'[h].at = "replied" => NoneOld'
                                       /\ thread'[h].at = "answered" =>
                                            \A i, j \in Pipe' : out'[i].kind = "reply" /\ out'[i].about = h /\ i < j => ~Old(j)'
  BY DEF ArrivedInv
<1>1. InTurn
  BY DEF InTurn
<1>2. NoneOld => NoneOld'
  <2>1. CASE UNCHANGED out
    BY <2>1 DEF NoneOld, Old, Pipe
  <2>2. CASE Extended /\ \A j \in Fresh : out'[j].turn # 0 => ~(out'[j].turn < count)
    BY <2>2 DEF NoneOld, Old, Extended, Fresh
  <2>3. CASE Taken1
    BY <2>3 DEF NoneOld, Old, Taken1
  <2> QED BY <2>1, <2>2, <2>3
<1>3. ASSUME NEW h, \A i, j \in Pipe : out[i].kind = "reply" /\ out[i].about = h /\ i < j => ~Old(j)
      PROVE  \A i, j \in Pipe' : out'[i].kind = "reply" /\ out'[i].about = h /\ i < j => ~Old(j)'
  <2>1. CASE UNCHANGED out
    BY <1>3, <2>1 DEF Old, Pipe
  <2>2. CASE Extended /\ \A j \in Fresh : out'[j].turn # 0 => ~(out'[j].turn < count)
    <3>1. ASSUME NEW i \in Pipe', NEW j \in Pipe', out'[i].kind = "reply", out'[i].about = h, i < j PROVE ~Old(j)'
      <4>1. CASE j \in Fresh
        BY <2>2, <4>1 DEF Old
      <4>2. CASE j \notin Fresh
        <5>1. i \notin Fresh
          BY <2>2, <3>1, <4>2 DEF Extended, Fresh, Pipe
        <5> QED BY <1>3, <2>2, <3>1, <4>2, <5>1 DEF Extended, Fresh, Old
      <4> QED BY <4>1, <4>2
    <3> QED BY <3>1
  <2>3. CASE Taken1
    <3>1. ASSUME NEW i \in Pipe', NEW j \in Pipe', out'[i].kind = "reply", out'[i].about = h, i < j PROVE ~Old(j)'
      <4>1. i + 1 \in Pipe /\ j + 1 \in Pipe /\ i + 1 < j + 1 /\ out'[i] = out[i + 1] /\ out'[j] = out[j + 1]
        BY <2>3, <3>1 DEF Taken1, Pipe
      <4> QED BY <1>3, <3>1, <4>1 DEF Old
    <3> QED BY <3>1
  <2> QED BY <2>1, <2>2, <2>3
<1>4. \A s \in 1..(count' - 1) : stage'[s] \in Ended
  BY <1>1 DEF ArrivedInv
<1>5. current' = count' => NoneOld'
  BY <1>1, <1>2 DEF ArrivedInv
<1>6. ASSUME NEW h \in Threads, Starts(h)', thread'[h].at = "replied" PROVE NoneOld'
  BY <1>1, <1>2, <1>6 DEF ArrivedInv
<1>7. ASSUME NEW h \in Threads, Starts(h)', thread'[h].at = "answered"
      PROVE  \A i, j \in Pipe' : out'[i].kind = "reply" /\ out'[i].about = h /\ i < j => ~Old(j)'
  <2>1. \A i, j \in Pipe : out[i].kind = "reply" /\ out[i].about = h /\ i < j => ~Old(j)
    BY <1>1, <1>7 DEF ArrivedInv
  <2> QED BY <1>3, <2>1
<1> QED BY <1>4, <1>5, <1>6, <1>7

\* Only the last turn is under way then.
LEMMA LastRuns == ASSUME Typed, StageInv, ArrivedInv, InTurn, NEW t \in Turns, stage[t] \notin Ended \cup {"none"}
                  PROVE  t = count
<1>1. t \in Nat /\ count \in Nat /\ 1 <= t
  BY BoundsAssumption DEF Turns, Typed, CodexTyped
<1>2. t <= count
  BY <1>1 DEF StageInv
<1> QED BY <1>1, <1>2 DEF ArrivedInv

LEMMA ArrivedKept == ASSUME Typed, StageInv, OrderInv, AloneInv, ArrivedInv, CurrentInv, [Next]_vars PROVE ArrivedInv'
<1> USE DEF Typed, PipeTyped
<1>0. count \in Nat /\ MaxTurns \in Nat
  BY BoundsAssumption DEF CodexTyped
<1>1. ASSUME NEW s \in Turns, GoOn(s) PROVE ArrivedInv'
  <2>1. /\ Moves(s) /\ stage' = [stage EXCEPT ![s] = stage'[s]]
        /\ UNCHANGED <<count, thread, current, overlapped, behind>> /\ Extended
        /\ \A i \in Fresh : out'[i].turn = s
    BY <1>1, TurnTells DEF CodexStep, turnVars
  <2>2. CASE InTurn
    <3>1. s = count
      BY <2>1, <2>2, LastRuns DEF Moves, Ended
    <3>2. \A r \in 1..(count - 1) : stage'[r] = stage[r]
      <4>1. stage \in [Turns -> Stages] /\ \A r \in 1..(count - 1) : r \in Turns /\ r # s
        BY <1>0, <3>1 DEF CodexTyped, Turns
      <4> QED BY <2>1, <4>1
    <3>3. \A i \in Fresh : ~(out'[i].turn < count)
      BY <1>0, <2>1, <3>1
    <3> QED BY <2>1, <3>2, <3>3, ArrivedStays DEF Starts
  <2>3. CASE ~InTurn
    BY <2>1, <2>3 DEF ArrivedInv, InTurn
  <2> QED BY <2>2, <2>3
<1>2. ASSUME NEW s \in Turns, NEW p \in Approvals, stage[s] \in {"running", "spoke", "stored"}, Still, thread' = thread,
             Told1(Message("requestApproval", s, p)) PROVE ArrivedInv'
  <2>1. CASE InTurn
    <3>1. s = count
      BY <1>2, <2>1, LastRuns DEF Ended
    <3>2. Extended /\ \A i \in Fresh : ~(out'[i].turn < count)
      BY <1>0, <1>2, <3>1 DEF Told1, Message
    <3> QED BY <1>2, <3>2, ArrivedStays DEF Still, turnVars, Starts
  <2>2. CASE ~InTurn
    BY <1>2, <2>2 DEF ArrivedInv, InTurn, Still
  <2> QED BY <2>1, <2>2
<1>3. ASSUME NEW h \in Threads, AcceptTurn(h) PROVE ArrivedInv'
  <2>1. /\ \A g \in Threads \ {h} : thread'[g] = thread[g]
        /\ Starts(h) /\ thread[h].at = "asked"
        /\ \/ thread'[h] = Idle
           \/ thread'[h].at = "answered" /\ Told1(Message("reply", 0, h))
        /\ count' = count + 1 /\ count' \in Turns /\ stage' = [stage EXCEPT ![count'] = "queued"]
        /\ UNCHANGED <<current, overlapped>>
    BY <1>3, TurnAccepted DEF CodexStep, turnVars, Starts
  <2>2. behind' <=> behind \/ Running
    BY <1>3 DEF AcceptTurn, FlagsTyped
  <2>3. ASSUME ~behind', NEW s \in 1..(count' - 1) PROVE stage'[s] \in Ended
    <3>1. s \in Turns /\ s <= count /\ s # count'
      BY <1>0, <2>1, <2>3 DEF Turns
    <3>2. stage[s] # "none"
      BY <1>0, <3>1 DEF StageInv, Turns
    <3>3. stage[s] \in Ended
      BY <2>2, <2>3, <3>1, <3>2 DEF Running, CodexTyped
    <3> QED BY <2>1, <3>1, <3>3 DEF CodexTyped
  <2>4. current' # count'
    BY <1>0, <2>1 DEF CurrentInv, TurnsTyped
  <2>5. ASSUME ~overlapped', NEW g \in Threads, Starts(g)'
        PROVE  /\ thread'[g].at # "replied"
               /\ \A i, j \in Pipe' : out'[i].kind = "reply" /\ out'[i].about = g => ~(i < j)
    <3>1. g = h
      BY <2>1, <2>5 DEF AloneInv, Starts
    <3>2. thread'[h] # Idle
      BY <2>5, <3>1 DEF Starts, Idle
    <3>3. \A i \in Pipe' : i = Len(out) + 1 \/ (i \in Pipe /\ out'[i] = out[i])
      BY <2>1, <3>2 DEF Told1, Extended, Fresh
    <3>4. \A i \in Pipe : ~(out[i].kind = "reply" /\ out[i].about = h)
      BY <2>1 DEF ReplyInv
    <3>5. Pipe' = 1..(Len(out) + 1)
      BY <2>1, <3>2 DEF Told1, Pipe
    <3> QED BY <2>1, <3>1, <3>2, <3>3, <3>4, <3>5
  <2> QED BY <2>3, <2>4, <2>5 DEF ArrivedInv, InTurn
<1>4. ASSUME NEW h \in Threads, AnswerRead(h), Still PROVE ArrivedInv'
  <2>1. (\A g \in Threads \ {h} : thread'[g] = thread[g]) /\ ~Starts(h)' /\ Told1(Message("reply", 0, h))
    BY <1>4, ReadAnswered DEF Starts
  <2>2. Extended /\ \A j \in Fresh : out'[j].turn = 0
    BY <2>1 DEF Told1, Message
  <2> QED BY <1>4, <2>1, <2>2, ArrivedStays DEF Still, turnVars, Starts
<1>5. CASE TellSettings
  <2>1. Told1(Message("thread/settings/updated", 0, using))
        /\ UNCHANGED <<stage, count, current, overlapped, behind, thread>>
    BY <1>5, OthersTell DEF TellSettings, CodexStep, turnVars
  <2>2. Extended /\ \A j \in Fresh : out'[j].turn = 0
    BY <2>1 DEF Told1, Message
  <2> QED BY <2>1, <2>2, ArrivedStays DEF Starts
<1>6. CASE HandleEvent
  <2>1. /\ Taken1 /\ UNCHANGED <<stage, count, thread, overlapped, behind>> /\ 1 \in Pipe
        /\ \/ out[1].turn \in Turns /\ current' = out[1].turn
           \/ current' = current
    BY <1>6, EventHandled DEF codexVars, Taken1, UpdateTurn, UpdateSettings
  <2>2. ASSUME current' = count, InTurn', out[1].turn \in Turns, current' = out[1].turn PROVE NoneOld'
    <3>1. ASSUME NEW i \in Pipe', out'[i].turn # 0 PROVE ~(out'[i].turn < count)
      <4>1. i + 1 \in Pipe /\ 1 < i + 1 /\ out'[i] = out[i + 1]
        BY <2>1, <3>1 DEF Taken1, Pipe
      <4>2. out[1].turn <= out[i + 1].turn
        BY <2>1, <2>2, <3>1, <4>1, BoundsAssumption DEF OrderInv, Turns
      <4>3. out[i + 1].turn \in Nat
        BY <3>1, <4>1, <1>0 DEF WellFormed, Turns
      <4> QED BY <1>0, <2>2, <4>1, <4>2, <4>3
    <3> QED BY <2>1, <3>1 DEF NoneOld, Old
  <2>3. InTurn' /\ current' = count => current = count \/ NoneOld'
    BY <2>1, <2>2
  <2> QED BY <2>1, <2>3, ArrivedStays DEF Starts
<1>7. CASE HandleReply /\ Still
  <2>1. /\ \A g \in Threads \ {out[1].about} : thread'[g] = thread[g]
        /\ thread'[out[1].about] = [thread[out[1].about] EXCEPT !.at = "replied"]
        /\ out[1].about \in Threads /\ thread[out[1].about].at = "answered"
        /\ out[1].kind = "reply" /\ Taken1
        /\ thread[out[1].about] \in ThreadStates
    BY <1>7, ReplyHandled DEF ThreadTyped
  <2>2. /\ thread'[out[1].about].op = thread[out[1].about].op
        /\ thread'[out[1].about].at = "replied"
    BY <2>1 DEF ThreadStates
  <2>3. ASSUME InTurn, Starts(out[1].about) PROVE NoneOld'
    <3>1. \A j \in Pipe' : j + 1 \in Pipe /\ out'[j] = out[j + 1] /\ 1 < j + 1 /\ 1 \in Pipe
      BY <2>1 DEF Taken1, Pipe
    <3> QED BY <1>7, <2>1, <2>3, <3>1 DEF ArrivedInv, NoneOld, Old, Still
  <2>4. InTurn' => InTurn
    BY <1>7 DEF InTurn, Still
  <2> QED BY <1>7, <2>1, <2>2, <2>3, <2>4, ArrivedStays DEF Still, turnVars, Starts
<1>8. ASSUME NEW h \in Threads, StartTurn(h) PROVE ArrivedInv'
  <2>1. /\ \A g \in Threads \ {h} : thread'[g] = thread[g]
        /\ thread'[h] = [Idle EXCEPT !.op = "start", !.at = "asked", !.what = override]
        /\ UNCHANGED <<stage, count, current, out, behind>> /\ (overlapped => overlapped')
    BY <1>8 DEF StartTurn, Does, ThreadTyped, Route, codexVars, hostVars, turnVars
  <2>2. thread'[h].at = "asked"
    <3>1. [Idle EXCEPT !.op = "start", !.at = "asked", !.what = override].at = "asked"
      BY DEF Idle
    <3> QED BY <2>1, <3>1, Zenon
  <2>3. \A g \in Threads : Starts(g)' =>
            /\ thread'[g].at = "replied" => Starts(g) /\ thread[g].at = "replied"
            /\ thread'[g].at = "answered" => Starts(g) /\ thread[g].at = "answered"
    BY <2>1, <2>2 DEF Starts
  <2>4. UNCHANGED <<stage, count, current, out, behind>> /\ (overlapped => overlapped')
    BY <2>1
  <2> QED BY <2>3, <2>4, ArrivedStays
<1>9. ASSUME NEW h \in Threads, Record(h) PROVE ArrivedInv'
  <2>1. /\ \A g \in Threads \ {h} : thread'[g] = thread[g]
        /\ thread'[h] = Idle /\ UNCHANGED <<stage, count, overlapped, behind, out>>
        /\ Starts(h) /\ thread[h].at = "replied"
    BY <1>9 DEF Record, Finish, Does, ThreadTyped, codexVars, Starts
  <2>2. ~Starts(h)'
    BY <2>1 DEF Starts, Idle
  <2>3. InTurn' => NoneOld'
    BY <2>1 DEF ArrivedInv, InTurn, NoneOld, Old, Pipe
  <2> QED BY <2>1, <2>2, <2>3, ArrivedStays DEF Starts
<1>10. ASSUME NEW h \in Threads, Aside(h) PROVE ArrivedInv'
  <2>1. /\ \A g \in Threads \ {h} : thread'[g] = thread[g]
        /\ thread'[h] = thread[h] \/ ~Starts(h)'
        /\ UNCHANGED <<stage, count, current, overlapped, behind, out>>
    BY <1>10 DEF Aside, Still, turnVars, Starts
  <2> QED BY <2>1, ArrivedStays DEF Starts
<1>11. CASE Still /\ UNCHANGED <<out, thread>>
  BY <1>11, ArrivedStays DEF Still, turnVars, Starts
<1> QED BY <1>1, <1>2, <1>3, <1>4, <1>5, <1>6, <1>7, <1>8, <1>9, <1>10, <1>11, Steps, Zenon

\* A turn whose settings are confirmed is the one that is shown, and has the model that
\* was reported last.
ConfirmedInv ==
    /\ \A t \in Turns : confirmed[t] = TRUE => t <= count
    /\ InTurn /\ confirmed[count] = TRUE => /\ current = count
                                            /\ ~untold /\ NoneTells => model[count] = using

LEMMA ConfirmedStays == ASSUME ConfirmedInv, UNCHANGED <<count, behind, confirmed, model, using>>,
                               overlapped => overlapped',
                               InTurn' /\ confirmed[count] = TRUE /\ current = count => current' = count,
                               ~untold' /\ NoneTells' => ~untold /\ NoneTells
                        PROVE  ConfirmedInv'
  BY DEF ConfirmedInv, InTurn

LEMMA NothingTold == /\ Extended /\ NoneTells' => NoneTells
                     /\ Taken1 /\ ~Tells(1) /\ NoneTells' => NoneTells
                     /\ UNCHANGED out /\ NoneTells' => NoneTells
<1>1. Extended /\ NoneTells' => NoneTells
  BY DEF Extended, NoneTells, Tells
<1>2. Taken1 /\ ~Tells(1) /\ NoneTells' => NoneTells
  BY DEF Taken1, NoneTells, Tells
<1>3. UNCHANGED out /\ NoneTells' => NoneTells
  BY DEF NoneTells, Tells, Pipe
<1> QED BY <1>1, <1>2, <1>3

LEMMA ConfirmedKept == ASSUME Typed, StageInv, OrderInv, AloneInv, ArrivedInv, CurrentInv, SettingsInv, ConfirmedInv,
                              [Next]_vars
                       PROVE  ConfirmedInv'
<1> USE DEF Typed, PipeTyped
<1>0. count \in Nat /\ MaxTurns \in Nat /\ count \in 0..MaxTurns
  BY BoundsAssumption DEF CodexTyped
<1>1. ASSUME NEW s \in Turns, GoOn(s) PROVE ConfirmedInv'
  <2>1. UNCHANGED <<count, using, untold, overlapped, behind, turnVars>> /\ Extended
    BY <1>1, TurnTells DEF CodexStep
  <2> QED BY <2>1, NothingTold, ConfirmedStays DEF turnVars
<1>2. ASSUME NEW m, Told1(m), Still PROVE ConfirmedInv'
  BY <1>2, NothingTold, ConfirmedStays DEF Still, turnVars, Told1
<1>3. ASSUME NEW h \in Threads, AcceptTurn(h) PROVE ConfirmedInv'
  <2>1. count' = count + 1 /\ count' \in Turns /\ UNCHANGED confirmed
    BY <1>3, TurnAccepted DEF CodexStep, turnVars
  <2>2. confirmed[count'] # TRUE
    <3>1. ~(count' <= count)
      BY <1>0, <2>1
    <3> QED BY <2>1, <3>1, Zenon DEF ConfirmedInv
  <2>3. \A t \in Turns : confirmed'[t] = TRUE => t <= count'
    BY <1>0, <2>1 DEF ConfirmedInv, Turns
  <2> QED BY <2>1, <2>2, <2>3 DEF ConfirmedInv
<1>4. ASSUME NEW h \in Threads, AnswerRead(h), Still PROVE ConfirmedInv'
  <2>1. Told1(Message("reply", 0, h))
    BY <1>4, ReadAnswered
  <2> QED BY <1>2, <1>4, <2>1
<1>5. CASE TellSettings
  <2>1. Told1(Message("thread/settings/updated", 0, using))
        /\ UNCHANGED <<count, using, overlapped, behind, turnVars>>
    BY <1>5, OthersTell DEF TellSettings, CodexStep
  <2>2. ~NoneTells'
    BY <2>1 DEF Told1, Message, NoneTells, Tells, Fresh
  <2> QED BY <2>1, <2>2, ConfirmedStays DEF turnVars
<1>6. CASE HandleEvent
  <2>1. /\ Taken1 /\ UNCHANGED <<stage, count, using, untold, overlapped, behind>> /\ 1 \in Pipe
        /\ \/ /\ out[1].turn \in Turns /\ current' = out[1].turn /\ UNCHANGED <<confirmed, model>>
              /\ ~Tells(1)
           \/ out[1].about \in Models /\ Tells(1) /\ UpdateSettings(out[1].about)
    BY <1>6, EventHandled DEF codexVars, Taken1, UpdateTurn, Tells, TurnKinds
  <2>2. CASE out[1].turn \in Turns /\ current' = out[1].turn /\ UNCHANGED <<confirmed, model>> /\ ~Tells(1)
    <3>1. ASSUME InTurn', current = count PROVE current' = count
      <4>1. NoneOld
        BY <2>1, <3>1 DEF ArrivedInv, InTurn
      <4>2. Begun(out[1].turn) /\ out[1].turn # 0 /\ out[1].turn \in Nat
        BY <2>1, <2>2, BoundsAssumption DEF OrderInv, Turns
      <4>3. ~(out[1].turn < count) /\ out[1].turn <= count
        BY <1>0, <2>1, <2>2, <4>1, <4>2 DEF NoneOld, Old, StageInv, Begun
      <4> QED BY <1>0, <2>2, <4>2, <4>3
    <3> QED BY <2>1, <2>2, <3>1, NothingTold, ConfirmedStays
  <2>3. CASE out[1].about \in Models /\ Tells(1) /\ UpdateSettings(out[1].about)
    <3>1. CASE current = 0
      <4>1. UNCHANGED <<model, confirmed, current>>
        BY <2>3, <3>1, Zenon DEF UpdateSettings
      <4>2. InTurn' => confirmed[count] # TRUE
        BY <2>1, <3>1 DEF ConfirmedInv, InTurn
      <4> QED BY <2>1, <4>1, <4>2 DEF ConfirmedInv
    <3>2. CASE current # 0
      <4>1. /\ model' = [model EXCEPT ![current] = out[1].about]
            /\ confirmed' = [confirmed EXCEPT ![current] = TRUE]
            /\ current' = current /\ current \in Turns
        BY <2>3, <3>2, BoundsAssumption DEF UpdateSettings, TurnsTyped, Turns
      <4>2. \A t \in Turns : confirmed'[t] = TRUE => t <= count'
        BY <2>1, <4>1 DEF ConfirmedInv, CurrentInv, TurnsTyped
      <4>3. ASSUME InTurn', confirmed'[count] = TRUE PROVE current = count
        BY <1>0, <2>1, <4>1, <4>3 DEF ConfirmedInv, InTurn, TurnsTyped, Turns
      <4>4. ASSUME ~untold', NoneTells' PROVE out[1].about = using
        <5>1. \A i \in Pipe : i > 1 => ~Tells(i)
          BY <2>1, <4>4 DEF NoneTells, Tells, Taken1, Pipe
        <5> QED BY <2>1, <2>3, <4>4, <5>1 DEF SettingsInv, LastTells
      <4>5. current = count => model'[count] = out[1].about
        BY <4>1 DEF TurnsTyped
      <4> QED BY <2>1, <4>1, <4>2, <4>3, <4>4, <4>5 DEF ConfirmedInv
    <3> QED BY <3>1, <3>2
  <2> QED BY <2>1, <2>2, <2>3
<1>7. CASE HandleReply /\ Still
  <2>1. Taken1 /\ ~Tells(1)
    BY <1>7, ReplyHandled DEF Tells
  <2> QED BY <1>7, <2>1, NothingTold, ConfirmedStays DEF Still, turnVars
<1>8. ASSUME NEW h \in Threads, StartTurn(h) PROVE ConfirmedInv'
  <2>1. /\ UNCHANGED <<count, behind, using, untold, turnVars, out>>
        /\ overlapped => overlapped'
    BY <1>8 DEF StartTurn, Route, codexVars, hostVars
  <2> QED BY <2>1, NothingTold, ConfirmedStays DEF turnVars
<1>9. ASSUME NEW h \in Threads, Record(h) PROVE ConfirmedInv'
  <2> DEFINE t == thread[h].turn
  <2>1. /\ model' = [model EXCEPT ![t] = IF settings # NoModel THEN settings ELSE thread[h].what]
        /\ confirmed' = [confirmed EXCEPT ![t] = settings # NoModel] /\ current' = t
        /\ UNCHANGED <<count, using, untold, overlapped, behind, out>>
        /\ Starts(h) /\ Answered(h)
    BY <1>9 DEF Record, codexVars, Starts, Answered
  <2>2. t <= count
    BY DEF CurrentInv
  <2>3. \A s \in Turns : confirmed'[s] = TRUE => s <= count'
    BY <2>1, <2>2 DEF ConfirmedInv, TurnsTyped
  <2>4. ASSUME InTurn', confirmed'[count] = TRUE
        PROVE  current' = count /\ (~untold' /\ NoneTells' => model'[count] = using)
    <3>1. t = count /\ count \in Turns
      BY <1>0, <2>1, <2>4 DEF AloneInv, InTurn, Turns
    <3>2. settings # NoModel
      BY <2>1, <2>4, <3>1 DEF TurnsTyped
    <3>3. model'[count] = settings
      BY <2>1, <3>1, <3>2 DEF TurnsTyped
    <3>4. NoneTells' => NoneTells
      BY <2>1, NothingTold
    <3> QED BY <2>1, <3>1, <3>2, <3>3, <3>4 DEF SettingsInv
  <2> QED BY <2>1, <2>3, <2>4 DEF ConfirmedInv
<1>10. ASSUME NEW h \in Threads, Aside(h) PROVE ConfirmedInv'
  BY <1>10, NothingTold, ConfirmedStays DEF Aside, Still, turnVars
<1>11. CASE Still /\ UNCHANGED <<out, thread>>
  BY <1>11, NothingTold, ConfirmedStays DEF Still, turnVars
<1> QED BY <1>1, <1>2, <1>3, <1>4, <1>5, <1>6, <1>7, <1>8, <1>9, <1>10, <1>11, Steps, Zenon
-----------------------------------------------------------------------------
(* The theorems *)

IInv == /\ Typed /\ LogInv /\ PollInv /\ ApprovalInv
        /\ StageInv /\ OrderInv /\ StatusInv
        /\ AloneInv /\ CurrentInv /\ PartInv /\ AnswerInv /\ ReadInv
        /\ SettingsInv /\ ArrivedInv /\ ConfirmedInv

LEMMA InitTyped == Init => Typed
<1> SUFFICES ASSUME Init PROVE Typed
  OBVIOUS
<1>1. out = <<>> /\ Pipe = {} /\ 0 \in 0..MaxTurns /\ {MaxTurns, MaxOut, MaxLog} \subseteq Nat
  BY BoundsAssumption DEF Init, Pipe
<1>2. PipeTyped /\ ReplyInv
  BY <1>1 DEF PipeTyped, ReplyInv
<1>3. CodexTyped
  BY <1>1 DEF Init, Nowhere, CodexTyped, Stages
<1>4. TurnsTyped
  BY <1>1 DEF Init, Nowhere, TurnsTyped, Statuses, Preferences
<1>5. SettingsTyped
  BY DEF Init, SettingsTyped, Preferences
<1>6. LogTyped /\ PollTyped /\ FlagsTyped
  <2>1. FlagsTyped
    BY DEF Init, FlagsTyped
  <2>2. LogTyped
    <3>1. <<>> \in Seq(1..0) /\ Len(<<>>) = 0 /\ MaxLog \in Nat /\ seq = 0 /\ events = <<>> /\ busy = "free"
      BY <1>1 DEF Init
    <3> QED BY <3>1 DEF LogTyped
  <2>3. PollTyped
    BY DEF Init, PollTyped
  <2> QED BY <2>1, <2>2, <2>3
<1>7. ThreadTyped
  <2>1. Idle \in ThreadStates /\ Idle.op = "idle"
    BY <1>1 DEF Idle, Nowhere, ThreadStates, Preferences
  <2>2. left \in [Kinds -> Nat]
    BY BoundsAssumption DEF Init
  <2> QED BY <2>1, <2>2 DEF Init, ThreadTyped
<1> QED BY <1>2, <1>3, <1>4, <1>5, <1>6, <1>7 DEF Typed

LEMMA InitHolds == Init => IInv
<1> SUFFICES ASSUME Init PROVE IInv
  OBVIOUS
<1>0. Typed
  BY InitTyped
<1>1. /\ out = <<>> /\ Pipe = {} /\ count = 0 /\ current = 0 /\ seq = 0 /\ busy = "free"
      /\ \A h \in Threads : thread[h] = Idle
  BY DEF Init, Pipe
<1>2. \A h \in Threads : thread[h].op = "idle" /\ thread[h].at = "idle" /\ thread[h].turn = 0
  BY <1>1 DEF Idle
<1>3. \A t \in Turns : /\ stage[t] = "none" /\ status[t] = "unknown" /\ confirmed[t] = FALSE /\ t > 0
                        /\ part[t] = 0 /\ text[t] = {}
  BY BoundsAssumption DEF Init, Turns, Nowhere
<1>4. LogInv /\ PollInv
  BY <1>1, <1>2 DEF LogInv, PollInv, PollsMissOnlyRaces, Polling, Init
<1>5. ApprovalInv
  BY <1>1, <1>2 DEF ApprovalInv, Asks, Holds, Asked, Held, Init
<1>6. StageInv /\ OrderInv /\ StatusInv
  BY <1>1, <1>3 DEF StageInv, OrderInv, StatusInv, StatusFollows, Begun, Ended
<1>7. AloneInv /\ PartInv /\ AnswerInv /\ ReadInv
  BY <1>1, <1>2, <1>3 DEF AloneInv, Starts, PartInv, AnswerInv, ReadInv, Found
<1>8. CurrentInv
  BY <1>1, <1>2 DEF CurrentInv
<1>9. SettingsInv
  BY <1>1 DEF SettingsInv, Init
<1>10. ArrivedInv /\ ConfirmedInv
  BY <1>1, <1>3 DEF ArrivedInv, InTurn, ConfirmedInv
<1> QED BY <1>0, <1>4, <1>5, <1>6, <1>7, <1>8, <1>9, <1>10 DEF IInv

LEMMA StepHolds == IInv /\ [Next]_vars => IInv'
<1> SUFFICES ASSUME IInv, [Next]_vars PROVE IInv'
  OBVIOUS
<1>0. /\ Typed /\ LogInv /\ PollInv /\ ApprovalInv /\ StageInv /\ OrderInv /\ StatusInv /\ AloneInv /\ CurrentInv
      /\ PartInv /\ AnswerInv /\ ReadInv /\ SettingsInv /\ ArrivedInv /\ ConfirmedInv
  BY DEF IInv
<1>1. LogTyped' /\ PollTyped' /\ LogInv' /\ PollInv'
  BY <1>0, PollsKept
<1>2. Typed'
  <2>1. CodexTyped' /\ FlagsTyped'
    BY <1>0, CodexStaysTyped, FlagsStayTyped
  <2>2. PipeTyped' /\ ThreadTyped' /\ ReplyInv'
    BY <1>0, PipeStaysTyped
  <2>3. TurnsTyped' /\ SettingsTyped'
    BY <1>0, TurnsStayTyped
  <2> QED BY <1>1, <2>1, <2>2, <2>3, Zenon DEF Typed
<1>3. ApprovalInv'
  BY <1>0, ApprovalsKept
<1>4. StageInv' /\ OrderInv' /\ StatusInv'
  BY <1>0, StagesKept, OrderKept, StatusKept
<1>5. AloneInv' /\ CurrentInv'
  BY <1>0, AloneKept, CurrentKept
<1>6. PartInv' /\ AnswerInv' /\ ReadInv'
  BY <1>0, PartsKept, AnswersKept, ReadKept
<1>7. SettingsInv' /\ ArrivedInv' /\ ConfirmedInv'
  BY <1>0, SettingsKept, ArrivedKept, ConfirmedKept
<1> QED BY <1>1, <1>2, <1>3, <1>4, <1>5, <1>6, <1>7, Zenon DEF IInv

\* The inductive invariant: what the Host knows of the turns, the settings, the
\* approvals and the events is behind Codex by what is still in the pipe.
THEOREM Inductive == Spec => []IInv
  BY InitHolds, StepHolds, PTL DEF Spec

\* Every variable keeps its type: the deque keeps to its limit, and an HTTP thread is told
\* only of turns that exist.
THEOREM TypeCorrect == Spec => []TypeOK
<1>1. IInv => TypeOK
  BY TypedIsTypeOK DEF IInv
<1> QED BY <1>1, Inductive, PTL

\* A phone that polls with the latestSeq it was told (event_list) misses an event only
\* when it was numbered or appended while a poll was between its list and reading
\* event_seq, or when the deque had pushed it out.
THEOREM PollsMissNothingElse == Spec => []PollsMissOnlyRaces
<1>1. IInv => PollsMissOnlyRaces
  BY DEF IInv, PollInv
<1> QED BY <1>1, Inductive, PTL

\* Every approval is in one place: on its way, in the table, in the hands of one call of
\* approval_reply, decided once, or lost because the decision could not be sent.
THEOREM ApprovalsAreAccounted == Spec => []ApprovalsAccounted
<1>1. IInv => ApprovalsAccounted
  BY ApprovalsInPlace DEF IInv
<1> QED BY <1>1, Inductive, PTL

\* The status of a turn is where the turn is at Codex once the Host has read all that is
\* told of it, in whatever order _event and start_turn make its record, and the turn shown
\* is then the newest.
THEOREM TurnsFollow == Spec => []TurnsFollowCodex
<1>1. ASSUME IInv PROVE TurnsFollowCodex
  <2>1. Typed /\ StatusInv /\ CurrentInv
    BY <1>1 DEF IInv
  <2>2. \A t \in Turns : Heard(t) => status[t] \in StatusOf(stage[t])
    BY <2>1, StatusIsRight DEF Typed, CodexTyped
  <2>3. ASSUME count # 0, ~overlapped, Heard(count), stage[count] # "queued" PROVE current = count
    <3>1. count \in Turns /\ stage[count] # "none"
      BY <1>1, <2>1, <2>3, BoundsAssumption DEF IInv, StageInv, Typed, CodexTyped, Turns
    <3>2. Begun(count) /\ ~StartIsIn(count)
      BY <2>3, <3>1 DEF Begun, Heard, StartIsIn, Started, Pipe
    <3> QED BY <2>1, <2>3, <3>2 DEF CurrentInv
  <2> QED BY <2>2, <2>3 DEF TurnsFollowCodex
<1>2. IInv => TurnsFollowCodex
  BY <1>1
<1> QED BY <1>2, Inductive, PTL

\* A read that found the newest turn at Codex saying something shows that, or a later message
\* of the turn, although normalize_thread takes the live text and the stored items at two
\* times; unless another message or a picture of the turn was stored, which hides the words
\* of one that is not whole yet.
THEOREM SpokenAreShown == Spec => []SpokenTurnsAreShown
<1>1. IInv => SpokenTurnsAreShown
  BY AnswerIsShown DEF IInv
<1> QED BY <1>1, Inductive, PTL

\* Confirmed settings of the newest turn are those Codex runs it with, once what it reports
\* of them has been read, when no call of start_turn overlapped another and no turn was
\* accepted while one ran.
THEOREM ConfirmedAreCurrent == Spec => []ConfirmedSettingsAreCurrent
<1>1. IInv => ConfirmedSettingsAreCurrent
  BY DEF IInv, ConfirmedInv, InTurn, NoneTells, Tells, Pipe, ConfirmedSettingsAreCurrent
<1> QED BY <1>1, Inductive, PTL
=============================================================================
