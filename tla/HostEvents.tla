----------------------------- MODULE HostEvents -----------------------------
(***************************************************************************)
(* What the Host knows of the turns of one thread, and how phones read it  *)
(* (_event, event_list, read_thread with normalize_thread, set_override,   *)
(* the recording of a new turn in start_turn, and the approvals, in        *)
(* src/vibeslopik_host/host.py).                                           *)
(*                                                                         *)
(* Codex writes events and replies into one pipe.  The reader thread takes *)
(* them out in order: an event goes to _event, which holds self.lock, and  *)
(* a reply to the HTTP thread that waits for it, which goes on later.  The *)
(* HTTP threads take the lock to record a turn and nowhere else here.      *)
(*                                                                         *)
(* Codex is external.  It runs the turns of a thread one after another.  A *)
(* turn says something in one or several messages, each told in a delta    *)
(* and then as a whole, and may make pictures; thread/read shows a message *)
(* once it is whole, and a picture, among the assistant's.                 *)
(***************************************************************************)
EXTENDS Naturals, Sequences, FiniteSets

CONSTANTS Threads,    \* the HTTP threads of the Host
          Models,     \* the models a thread may be set to
          Approvals,  \* the approvals Codex asks for
          MaxTurns,   \* bound: the turns of the thread
          Plans,      \* bound: how often each kind of step may happen, one plan a behaviour
          MaxOut,     \* bound: the messages in the pipe
          MaxLog      \* 1000 in the source: the events that are kept

Kinds == {"start", "override", "read", "poll", "decide", "ask", "more", "stderr"}
Turns == 1..MaxTurns

ASSUME BoundsAssumption == /\ {MaxTurns, MaxOut, MaxLog} \subseteq Nat \ {0}
                           /\ Plans \subseteq [Kinds -> Nat]
ASSUME NoModelIsInherit == "inherit" \notin Models

VARIABLES stage,      \* Codex: how far each turn is
          count,      \* Codex: how many turns it has accepted
          part,       \* Codex: the number of the message each turn gave last
          whole,      \* Codex: the messages of each turn that are whole; 0 for a picture
          using,      \* Codex: the model of the thread
          untold,     \* Codex: it has not reported a change of that yet
          asked,      \* Codex: the approvals it has asked for
          decisions,  \* Codex: how many decisions it got about each
          out,        \* the pipe from Codex
          status, model, confirmed, \* the turn records of the Host
          text,       \* assistantText of each: the messages it has words of
          current,    \* thread_turns: the turn shown as the thread's, 0 for none
          settings,   \* thread_settings
          override,   \* thread_overrides
          approvals,  \* the table of approvals
          seq, events,\* event_seq and the numbers in the deque
          busy,       \* who holds the lock in _event, an event numbered and not appended
          thread,     \* what each HTTP thread is doing
          left,       \* how many steps of each kind may still happen
          cursor, seen, \* the polling phone: latestSeq, and the events it got
          excused,    \* history: events it may miss, handled during a poll or pushed out
          unsent,     \* history: approvals whose decision could not be sent
          overlapped, \* history: two calls of start_turn overlapped
          behind      \* history: a turn was accepted before the one before it ended

said      == <<part, whole>>
codexVars == <<stage, count, said, using, untold, asked, decisions>>
turnVars  == <<status, text, model, confirmed, current>>
logVars   == <<seq, events, busy>>
pollVars  == <<cursor, seen, excused>>
vars == <<codexVars, out, turnVars, settings, override, approvals, logVars, thread,
          left, pollVars, unsent, overlapped, behind>>

Ended  == {"completed", "failed"}
Stages == {"none", "queued", "running", "retrying", "spoke", "stored"} \cup Ended
Statuses == {"unknown", "starting", "inProgress"} \cup Ended
NoModel == "inherit"
Preferences == Models \cup {NoModel}

\* Messages of Codex.  An event is about a turn, and about its part-th message;
\* "about" is the model or the approval it names, or the thread a reply is for.
Message(kind, turn, about) == [kind |-> kind, turn |-> turn, about |-> about, part |-> 0]
Item(kind, turn, n) == [Message(kind, turn, NoModel) EXCEPT !.part = n]

Nowhere == [t \in Turns |-> {}]
Idle == [op |-> "idle", at |-> "idle", turn |-> 0, part |-> 0, what |-> NoModel,
         stored |-> Nowhere]
-----------------------------------------------------------------------------
Init == /\ stage = [t \in Turns |-> "none"]
        /\ count = 0
        /\ part = [t \in Turns |-> 0] /\ whole = Nowhere
        /\ using \in Models /\ untold = FALSE
        /\ asked = {}
        /\ decisions = [p \in Approvals |-> 0]
        /\ out = <<>>
        /\ status = [t \in Turns |-> "unknown"]
        /\ text = Nowhere
        /\ model = [t \in Turns |-> NoModel]
        /\ confirmed = [t \in Turns |-> FALSE]
        /\ current = 0
        /\ settings = NoModel
        /\ override = NoModel
        /\ approvals = {}
        /\ seq = 0 /\ events = <<>> /\ busy = "free"
        /\ thread = [h \in Threads |-> Idle]
        /\ left \in Plans
        /\ cursor = 0 /\ seen = {} /\ excused = {}
        /\ unsent = {}
        /\ overlapped = FALSE
        /\ behind = FALSE
-----------------------------------------------------------------------------
(* Codex. *)

Spend(k) == left[k] > 0 /\ left' = [left EXCEPT ![k] = @ - 1]

Emit(m) == /\ Len(out) < MaxOut
           /\ out' = Append(out, m)

Running == \E t \in Turns : stage[t] \in Stages \ ({"none"} \cup Ended)

CodexStep == UNCHANGED <<turnVars, settings, override, approvals, logVars, pollVars,
                         unsent, overlapped>>

\* Moves turn t on.
Advance(t, next) == /\ stage' = [stage EXCEPT ![t] = next]
                    /\ UNCHANGED <<count, using, untold, asked, decisions, thread, behind>>
                    /\ CodexStep

Begin(t) == /\ stage[t] = "queued"
            /\ \A s \in 1..(t - 1) : stage[s] \in Ended
            /\ Advance(t, "running")
            /\ Emit(Message("turn/started", t, NoModel))
            /\ UNCHANGED <<said, left>>

Retry(t) == /\ stage[t] = "running"
            /\ Advance(t, "retrying")
            /\ Emit(Message("error/willRetry", t, NoModel))
            /\ UNCHANGED <<said, left>>

\* A turn begins to say something, perhaps not for the first time.
Speak(t) == /\ stage[t] \in {"running", "retrying", "stored"}
            /\ Advance(t, "spoke")
            /\ part' = [part EXCEPT ![t] = @ + 1]
            /\ Emit(Item("item/agentMessage/delta", t, part[t] + 1))
            /\ IF part[t] = 0 THEN UNCHANGED left ELSE Spend("more")
            /\ UNCHANGED whole

Store(t) == /\ stage[t] = "spoke"
            /\ Advance(t, "stored")
            /\ whole' = [whole EXCEPT ![t] = @ \cup {part[t]}]
            /\ Emit(Item("item/completed", t, part[t]))
            /\ UNCHANGED <<part, left>>

\* imageView and imageGeneration.
Picture(t) == /\ stage[t] \in {"running", "retrying", "stored"}
              /\ Advance(t, "stored")
              /\ whole' = [whole EXCEPT ![t] = @ \cup {0}]
              /\ Emit(Item("item/completed", t, 0))
              /\ Spend("more")
              /\ UNCHANGED part

Complete(t) == /\ stage[t] = "stored"
               /\ Advance(t, "completed")
               /\ Emit(Message("turn/completed", t, NoModel))
               /\ UNCHANGED <<said, left>>

\* A turn that fails is told of twice: an error without a retry, and its end.
Fail(t) == /\ stage[t] \in {"running", "retrying", "spoke", "stored"}
           /\ Len(out) + 2 <= MaxOut
           /\ Advance(t, "failed")
           /\ out' = out \o <<Message("error", t, NoModel), Message("turn/failed", t, NoModel)>>
           /\ UNCHANGED <<said, left>>

GoOn(t) == \/ Begin(t) \/ Retry(t) \/ Speak(t) \/ Store(t) \/ Picture(t)
           \/ Complete(t) \/ Fail(t)

\* turn/start: a turn is accepted, with the model the Host asked for, if any.
\* The reply may be lost on its way, by a time limit of the Host for example.
AcceptTurn(h) ==
    /\ thread[h].op = "start" /\ thread[h].at = "asked"
    /\ count < MaxTurns
    /\ \/ /\ Emit(Message("reply", 0, h))
          /\ thread' = [thread EXCEPT ![h].turn = count + 1, ![h].at = "answered"]
       \/ /\ thread' = [thread EXCEPT ![h] = Idle]
          /\ UNCHANGED out
    /\ using' = IF thread[h].what = NoModel THEN using ELSE thread[h].what
    /\ untold' = (untold \/ thread[h].what # NoModel)
    /\ count' = count + 1
    /\ stage' = [stage EXCEPT ![count + 1] = "queued"]
    /\ behind' = (behind \/ Running)
    /\ UNCHANGED <<said, asked, decisions, left>>
    /\ CodexStep

\* The settings a turn was started with are reported for the thread.
TellSettings ==
    /\ untold
    /\ untold' = FALSE
    /\ Emit(Message("thread/settings/updated", 0, using))
    /\ UNCHANGED <<stage, count, said, using, asked, decisions, thread, left, behind>>
    /\ CodexStep

\* thread/read: what is whole, of all turns.
AnswerRead(h) ==
    /\ thread[h].op = "read" /\ thread[h].at = "asked"
    /\ Emit(Message("reply", 0, h))
    /\ LET spoken == count # 0 /\ part[count] # 0 IN
         thread' = [thread EXCEPT ![h].at = "answered",
                                  ![h].turn = IF spoken THEN count ELSE 0,
                                  ![h].part = IF spoken THEN part[count] ELSE 0,
                                  ![h].stored = whole]
    /\ UNCHANGED <<codexVars, left, behind>>
    /\ CodexStep

AskApproval(t, p) ==
    /\ stage[t] \in {"running", "spoke", "stored"}
    /\ p \notin asked
    /\ Spend("ask")
    /\ asked' = asked \cup {p}
    /\ Emit(Message("requestApproval", t, p))
    /\ UNCHANGED <<stage, count, said, using, untold, decisions, thread, behind>>
    /\ CodexStep
-----------------------------------------------------------------------------
(* The reader threads: _event, in two steps. *)

StatusAfter(kind, was) ==
    CASE kind \in {"turn/started", "item/agentMessage/delta"} -> "inProgress"
      [] kind \in {"error", "turn/failed"}                    -> "failed"
      [] kind = "turn/completed"                              -> "completed"
      [] OTHER -> IF was = "unknown" THEN "starting" ELSE was

\* The words of a message are added to those of the turn; when it is whole, it
\* is all that is kept.  A picture has none.
TextAfter(kind, n, was) ==
    CASE kind = "item/agentMessage/delta"      -> was \cup {n}
      [] kind = "item/completed" /\ n # 0      -> {n}
      [] OTHER                                 -> was

\* What an event that names a turn does to the record of the turn, which it
\* makes when there is none.
UpdateTurn(t, kind, n) ==
    /\ status' = [status EXCEPT ![t] = StatusAfter(kind, @)]
    /\ text' = [text EXCEPT ![t] = TextAfter(kind, n, @)]
    /\ current' = t
    /\ UNCHANGED <<model, confirmed>>

\* Wrong: new settings of the thread are kept for its later turns.
KeepSettings(m) ==
    /\ settings' = m
    /\ UNCHANGED turnVars

\* New settings of the thread are also those of the turn it shows.
UpdateSettings(m) ==
    /\ settings' = m
    /\ IF current # 0
         THEN /\ model' = [model EXCEPT ![current] = m]
              /\ confirmed' = [confirmed EXCEPT ![current] = TRUE]
         ELSE UNCHANGED <<model, confirmed>>
    /\ UNCHANGED <<status, text, current>>

Polling == \E h \in Threads : thread[h].op = "poll" /\ thread[h].at = "listed"

\* The event gets its number.  A poll that has made its list does not have it.
Number(who) ==
    /\ busy = "free"
    /\ busy' = who
    /\ seq' = seq + 1
    /\ excused' = excused \cup (IF Polling THEN {seq + 1} ELSE {})
    /\ UNCHANGED <<events, cursor, seen>>

HandleEvent ==
    /\ out # <<>> /\ Head(out).kind # "reply"
    /\ Number("stdout")
    /\ out' = Tail(out)
    /\ LET m == Head(out) IN
         /\ IF m.turn # 0
              THEN UpdateTurn(m.turn, m.kind, m.part) /\ UNCHANGED settings
              ELSE UpdateSettings(m.about)
         /\ approvals' = approvals \cup (IF m.kind = "requestApproval" THEN {m.about} ELSE {})
    /\ UNCHANGED <<codexVars, override, thread, left, unsent, overlapped, behind>>

\* A line of stderr is an event of another thread, about no turn.
HandleStderr ==
    /\ Spend("stderr")
    /\ Number("stderr")
    /\ UNCHANGED <<codexVars, out, turnVars, settings, override, approvals, thread,
                   unsent, overlapped, behind>>

\* Wrong: the deque grows without a limit.
AppendUnbounded ==
    /\ busy # "free"
    /\ busy' = "free"
    /\ events' = Append(events, seq)
    /\ excused' = excused \cup (IF Polling THEN {seq} ELSE {})
    /\ UNCHANGED <<codexVars, out, turnVars, settings, override, approvals, seq, cursor,
                   seen, thread, left, unsent, overlapped, behind>>

\* It is appended to the deque, which pushes the oldest out when it is full,
\* and the lock is released.
AppendEvent ==
    /\ busy # "free"
    /\ busy' = "free"
    /\ LET longer == Append(events, seq)
           full == Len(longer) > MaxLog
       IN  /\ events' = IF full THEN Tail(longer) ELSE longer
           /\ excused' = excused \cup (IF full THEN {Head(longer)} ELSE {})
                                 \cup (IF Polling THEN {seq} ELSE {})
    /\ UNCHANGED <<codexVars, out, turnVars, settings, override, approvals, seq, cursor,
                   seen, thread, left, unsent, overlapped, behind>>

\* A reply goes to the thread that waits for it.
HandleReply ==
    /\ out # <<>> /\ Head(out).kind = "reply"
    /\ busy # "stdout"
    /\ out' = Tail(out)
    /\ thread' = [thread EXCEPT ![Head(out).about].at = "replied"]
    /\ UNCHANGED <<codexVars, turnVars, settings, override, approvals, logVars, left,
                   pollVars, unsent, overlapped, behind>>
-----------------------------------------------------------------------------
(* The HTTP threads. *)

hostVars == <<turnVars, settings, override, approvals, logVars>>
phoneVars == <<pollVars, unsent>>

Does(h, what) == thread' = [thread EXCEPT ![h] = what]
Finish(h) == Does(h, Idle)

\* A request of a phone reaches the method that performs it.
Route(h, k) == /\ thread[h] = Idle
               /\ Spend(k)
               /\ UNCHANGED <<codexVars, behind>>

\* start_turn, up to its turn/start.
StartTurn(h) ==
    /\ Route(h, "start")
    /\ Does(h, [Idle EXCEPT !.op = "start", !.at = "asked", !.what = override])
    /\ overlapped' = (overlapped \/ \E g \in Threads : thread[g].op = "start")
    /\ UNCHANGED <<out, hostVars, phoneVars>>

\* Wrong: the record is made anew.
RecordAnew(h) ==
    /\ thread[h].op = "start" /\ thread[h].at = "replied"
    /\ busy = "free"
    /\ LET t == thread[h].turn IN
         /\ status' = [status EXCEPT ![t] = "starting"]
         /\ model' = [model EXCEPT ![t] = IF settings # NoModel THEN settings
                                          ELSE thread[h].what]
         /\ confirmed' = [confirmed EXCEPT ![t] = settings # NoModel]
         /\ current' = t
    /\ Finish(h)
    /\ UNCHANGED <<codexVars, behind, out, text, settings, override, approvals, logVars, left,
                   phoneVars, overlapped>>

\* The reply names the turn: it is recorded, unless an event of it was faster,
\* with the settings Codex last reported, or else those that were asked for.
Record(h) ==
    /\ thread[h].op = "start" /\ thread[h].at = "replied"
    /\ busy = "free"
    /\ LET t == thread[h].turn IN
         /\ status' = [status EXCEPT ![t] = StatusAfter("turn/recorded", @)]
         /\ model' = [model EXCEPT ![t] = IF settings # NoModel THEN settings
                                          ELSE thread[h].what]
         /\ confirmed' = [confirmed EXCEPT ![t] = settings # NoModel]
         /\ current' = t
    /\ Finish(h)
    /\ UNCHANGED <<codexVars, behind, out, text, settings, override, approvals, logVars, left,
                   phoneVars, overlapped>>

ReadThread(h) ==
    /\ Route(h, "read")
    /\ Does(h, [Idle EXCEPT !.op = "read", !.at = "asked"])
    /\ UNCHANGED <<out, hostVars, phoneVars, overlapped>>

\* Wrong: the words are left out when anything of any turn is stored.
LiveUnlessAnyStored(t, stored) ==
    IF t = current /\ (\A s \in Turns : stored[s] = {}) THEN text[t] ELSE {}

\* The words heard so far of the turn shown, unless any message of the assistant
\* in that turn is stored, be it this one, an earlier one or a picture.
Live(t, stored) == IF t = current /\ stored[t] = {} THEN text[t] ELSE {}

\* normalize_thread: what Codex had stored of turn t, and its live words.
Normalized(h, t) == thread[h].stored[t] \cup Live(t, thread[h].stored)

AnswerThread(h) ==
    /\ thread[h].op = "read" /\ thread[h].at = "replied"
    /\ Finish(h)
    /\ UNCHANGED <<codexVars, behind, out, hostVars, left, phoneVars, overlapped>>

SetOverride(h, m) ==
    /\ Route(h, "override")
    /\ m # override
    /\ override' = m
    /\ UNCHANGED <<out, turnVars, settings, approvals, logVars, thread, phoneVars, overlapped>>

\* Wrong: the first new event is left out.
NewAfterNext == { n \in 1..seq : n > cursor + 1 }

New == { n \in 1..seq : n > cursor }

\* event_list makes its list, and reads event_seq after that.  When the deque
\* changes while it is iterated the answer is an error and the phone asks again.
ListEvents(h) ==
    /\ Route(h, "poll")
    /\ ~Polling
    /\ Does(h, [Idle EXCEPT !.op = "poll", !.at = "listed"])
    /\ seen' = seen \cup { n \in New : \E i \in 1..Len(events) : events[i] = n }
    /\ excused' = excused \cup (IF busy = "free" THEN {} ELSE {seq})
    /\ UNCHANGED <<out, hostVars, cursor, unsent, overlapped>>

AnswerEvents(h) ==
    /\ thread[h].op = "poll"
    /\ cursor' = seq
    /\ Finish(h)
    /\ UNCHANGED <<codexVars, behind, out, hostVars, left, seen, excused,
                   unsent, overlapped>>

\* Wrong: the approval stays in the table until it is answered.
TakeKept(p) == UNCHANGED approvals

Take(p) == approvals' = approvals \ {p}

\* approval_reply: the approval is taken out of the table, or there is none.
ReplyApproval(h, p) ==
    /\ Route(h, "decide")
    /\ p \in asked
    /\ IF p \in approvals
         THEN Take(p) /\ Does(h, [Idle EXCEPT !.op = "decide", !.at = "taken", !.what = p])
         ELSE UNCHANGED <<approvals, thread>>
    /\ UNCHANGED <<out, turnVars, settings, override, logVars, phoneVars, overlapped>>

\* The decision is sent; when the pipe to Codex is broken it is not.
Respond(h) ==
    /\ thread[h].op = "decide"
    /\ LET p == thread[h].what IN
         \/ /\ decisions' = [decisions EXCEPT ![p] = @ + 1]
            /\ UNCHANGED unsent
         \/ /\ unsent' = unsent \cup {p}
            /\ UNCHANGED decisions
    /\ Finish(h)
    /\ UNCHANGED <<stage, count, said, using, untold, asked, behind, out, hostVars, left,
                   pollVars, overlapped>>
-----------------------------------------------------------------------------
CodexNext == \/ \E t \in Turns : GoOn(t) \/ \E p \in Approvals : AskApproval(t, p)
             \/ \E h \in Threads : AcceptTurn(h) \/ AnswerRead(h)
             \/ TellSettings

ReaderNext == HandleEvent \/ HandleStderr \/ AppendEvent \/ HandleReply

ThreadNext(h) == \/ StartTurn(h) \/ Record(h) \/ ReadThread(h) \/ AnswerThread(h)
                 \/ \E m \in Preferences : SetOverride(h, m)
                 \/ ListEvents(h) \/ AnswerEvents(h)
                 \/ \E p \in Approvals : ReplyApproval(h, p)
                 \/ Respond(h)

Next == CodexNext \/ ReaderNext \/ \E h \in Threads : ThreadNext(h)

Spec == Init /\ [][Next]_vars
-----------------------------------------------------------------------------
Messages == [kind : {"turn/started", "error/willRetry", "item/agentMessage/delta",
                     "item/completed", "error", "turn/completed", "turn/failed",
                     "requestApproval", "thread/settings/updated", "reply"},
             turn : 0..MaxTurns, about : Models \cup {NoModel} \cup Approvals \cup Threads,
             part : Nat]

ThreadStates == [op : {"idle", "start", "read", "poll", "decide"},
                 at : {"idle", "asked", "answered", "replied", "listed", "taken"},
                 turn : 0..MaxTurns, part : Nat, what : Preferences \cup Approvals,
                 stored : [Turns -> SUBSET Nat]]

TypeOK == /\ stage \in [Turns -> Stages] /\ count \in 0..MaxTurns
          /\ part \in [Turns -> Nat] /\ whole \in [Turns -> SUBSET Nat]
          /\ using \in Models /\ untold \in BOOLEAN
          /\ asked \in SUBSET Approvals /\ decisions \in [Approvals -> Nat]
          /\ out \in Seq(Messages)
          /\ status \in [Turns -> Statuses] /\ text \in [Turns -> SUBSET Nat]
          /\ model \in [Turns -> Preferences] /\ confirmed \in [Turns -> BOOLEAN]
          /\ current \in 0..MaxTurns
          /\ {settings, override} \subseteq Preferences
          /\ approvals \in SUBSET Approvals
          /\ seq \in Nat /\ events \in Seq(1..seq) /\ busy \in {"free", "stdout", "stderr"}
          /\ Len(events) <= MaxLog
          /\ thread \in [Threads -> ThreadStates] /\ left \in [Kinds -> Nat]
          /\ cursor \in 0..seq /\ seen \in SUBSET (1..seq) /\ excused \in SUBSET (1..seq)
          /\ unsent \in SUBSET Approvals
          /\ {overlapped, behind} \subseteq BOOLEAN

\* The events of turn t have all been handled.
Heard(t) == \A i \in 1..Len(out) : out[i].turn # t

StatusOf(s) == CASE s \in {"none", "queued"} -> {"unknown", "starting"}
                 [] s \in Ended              -> {s}
                 [] OTHER                    -> {"inProgress"}

\* What GET /turns/{turnId} says of a turn is where the turn is at Codex, as far
\* as the Host has been told, however late start_turn records it: a turn that has
\* ended is never shown as starting, and a retry is no failure.  And the turn
\* shown as the thread's is the newest one Codex has begun, unless a phone called
\* start_turn again before the first call had recorded its turn.
TurnsFollowCodex ==
    /\ \A t \in Turns : Heard(t) => status[t] \in StatusOf(stage[t])
    /\ count # 0 /\ ~overlapped /\ Heard(count) /\ stage[count] # "queued" => current = count

\* A phone that reads a thread is shown what the newest turn was saying when Codex
\* answered the read, live or whole, or a later message of the turn: the stored part
\* was taken then, the live words are added later by another thread, and may by then
\* be only those of a later message.  It is not so when Codex had stored another
\* message or a picture of the turn: then a message is left out until it is whole.
SpokenTurnsAreShown ==
    \A h \in Threads : /\ thread[h].op = "read" /\ thread[h].at = "replied"
                       /\ thread[h].turn # 0 /\ thread[h].turn = count
                       /\ ~overlapped
                       => \/ \E n \in Normalized(h, count) : n >= thread[h].part
                          \/ thread[h].stored[count] \ {thread[h].part} # {}

\* A turn whose settings are marked as confirmed shows the model Codex runs it
\* with, once the Host has read what Codex reports of them; until then it may show
\* those of an earlier turn, marked as confirmed.  It does not hold of a turn that
\* was accepted while another one ran: the report then goes to that one.
ConfirmedSettingsAreCurrent ==
    /\ count # 0 /\ confirmed[count] /\ ~untold
    /\ \A i \in 1..Len(out) : out[i].kind # "thread/settings/updated"
    /\ ~overlapped /\ ~behind
    => model[count] = using

\* Where an approval can be that Codex has asked for.
Places(p) == { x \in {"told", "listed", "taken", "decided", "unsent"} :
                 CASE x = "told"    -> \E i \in 1..Len(out) : out[i].kind = "requestApproval"
                                                              /\ out[i].about = p
                   [] x = "listed"  -> p \in approvals
                   [] x = "taken"   -> \E h \in Threads : thread[h].op = "decide"
                                                          /\ thread[h].what = p
                   [] x = "decided" -> decisions[p] # 0
                   [] x = "unsent"  -> p \in unsent }

\* Every approval Codex asked for is in one place: on its way to the Host, in the
\* table where a phone finds it, in the hands of one reply, or decided.  Codex
\* hears one decision, however many phones decide; one that could not be sent is
\* lost, for it is in no table any more.
ApprovalsAccounted ==
    \A p \in Approvals : /\ Cardinality(Places(p)) = IF p \in asked THEN 1 ELSE 0
                         /\ decisions[p] <= 1

\* A phone that polls with the latestSeq it was told misses no event, but for
\* those handled while a poll was between making its list and reading event_seq,
\* and those that MaxLog newer ones pushed out.
PollsMissOnlyRaces == \A n \in 1..cursor : n \in seen \cup excused
=============================================================================
