------------------------------- MODULE Relay --------------------------------
(***************************************************************************)
(* The relay process (relay-go/main.go): a FIFO queue of requests for each *)
(* computer, and a table of waiters, one buffered channel of capacity one  *)
(* for each client whose HTTP handler is still waiting.                    *)
(*                                                                         *)
(* Every critical section of relay.mu is one action.  Between critical     *)
(* sections a handler goroutine is at one of the program points recorded   *)
(* in client (clientEndpoint) and poster (the reply branch of              *)
(* hostEndpoint), so that any two handlers may interleave there.  The      *)
(* connections accepted before Shutdown may still run after close, hence   *)
(* no handler action is guarded by anything stronger than Up.              *)
(***************************************************************************)
EXTENDS Naturals, Sequences, FiniteSets, IdQueues

CONSTANTS Hosts,        \* the computers
          Requests,     \* the client requests; each has a random id of its own
          HostOf,       \* the computer each request is addressed to
          Replies,      \* the reply calls computers may make
          ReplyTo,      \* the request each reply names
          Shutdown,     \* the 503 that close() puts in a channel
          QueueLimit,   \* 128 in the source
          WaiterLimit,  \* 1024 in the source
          MayCrash      \* whether the process may be killed

ASSUME FiniteAssumption == IsFiniteSet(Requests)
ASSUME RoutesAssumption == /\ HostOf \in [Requests -> Hosts]
                           /\ ReplyTo \in [Replies -> Requests]
                           /\ Shutdown \notin Replies
ASSUME LimitsAssumption == /\ QueueLimit \in Nat \ {0}
                           /\ WaiterLimit \in Nat \ {0}
                           /\ MayCrash \in BOOLEAN

VARIABLES phase,       \* "serving", "closed" once r.close() ran, "down"
          registered,  \* the keys of state.Hosts
          queues,      \* relay.queues
          waiters,     \* the keys of relay.waiters
          chan,        \* what each request's channel holds
          client,      \* the program point of each clientEndpoint handler
          outcome,     \* how the HTTP exchange of each client ended
          answer,      \* the reply its client was given
          poster,      \* the program point, then the result, of each reply call
          handed       \* history: the requests poll has returned

vars == <<phase, registered, queues, waiters, chan, client, outcome, answer,
          poster, handed>>

ClientPoints == {"idle", "reading", "waiting", "leaving", "expiring", "done"}
Outcomes     == {"none", "refused", "busy", "answered", "stopping", "gone",
                 "timeout", "dropped"}
PosterPoints == {"idle", "sending", "accepted", "notFound", "lost"}

Up == phase # "down"

Queued(h) == Elems(queues[h])

\* select { case waiter <- v: default: } on a channel of capacity one.
TrySend(c, v) == IF c = {} THEN {v} ELSE c
-----------------------------------------------------------------------------
Init == /\ phase      = "serving"
        /\ registered = {}
        /\ queues     = [h \in Hosts |-> <<>>]
        /\ waiters    = {}
        /\ chan       = [r \in Requests |-> {}]
        /\ client     = [r \in Requests |-> "idle"]
        /\ outcome    = [r \in Requests |-> "none"]
        /\ answer     = [r \in Requests |-> {}]
        /\ poster     = [p \in Replies |-> "idle"]
        /\ handed     = {}

\* The exchange of r ends with o.
Finish(r, o) == /\ client'  = [client EXCEPT ![r] = "done"]
                /\ outcome' = [outcome EXCEPT ![r] = o]

\* Wrong: the map entry stays.
DeleteNothing(r) == waiters' = waiters

\* delete(r.waiters, id).
DeleteWaiter(r) == waiters' = waiters \ {r}

Register(h) ==
    /\ Up
    /\ registered' = registered \cup {h}
    /\ UNCHANGED <<phase, queues, waiters, chan, client, outcome, answer,
                   poster, handed>>
-----------------------------------------------------------------------------
(***************************************************************************)
(* clientEndpoint.  Authorization is checked under the lock, the body is   *)
(* read without it, and the limits are checked when it is taken again.     *)
(***************************************************************************)
Authorize(r) ==
    /\ Up
    /\ client[r] = "idle"
    /\ IF HostOf[r] \in registered
         THEN /\ client' = [client EXCEPT ![r] = "reading"]
              /\ UNCHANGED outcome
         ELSE Finish(r, "refused")
    /\ UNCHANGED <<phase, registered, queues, waiters, chan, answer, poster,
                   handed>>

\* readJSON fails, or the client goes away before its body is complete.
RefuseBody(r) ==
    /\ Up
    /\ client[r] = "reading"
    /\ Finish(r, "refused")
    /\ UNCHANGED <<phase, registered, queues, waiters, chan, answer, poster,
                   handed>>

\* Wrong: one too many of each.
RelayIsOverfull(h) == \/ Len(queues[h]) > QueueLimit
                      \/ Cardinality(waiters) > WaiterLimit

RelayIsFull(h) == \/ Len(queues[h]) >= QueueLimit
                  \/ Cardinality(waiters) >= WaiterLimit

Busy(r) ==
    /\ Up
    /\ client[r] = "reading"
    /\ RelayIsFull(HostOf[r])
    /\ Finish(r, "busy")
    /\ UNCHANGED <<phase, registered, queues, waiters, chan, answer, poster,
                   handed>>

\* Wrong: the waiter is entered under the computer's id instead of the
\* request's; both are strings.
EnqueueUnderHost(r) ==
    /\ Up
    /\ client[r] = "reading"
    /\ ~RelayIsFull(HostOf[r])
    /\ waiters' = waiters \cup {HostOf[r]}
    /\ queues'  = [queues EXCEPT ![HostOf[r]] = Append(@, r)]
    /\ client'  = [client EXCEPT ![r] = "waiting"]
    /\ UNCHANGED <<phase, registered, chan, outcome, answer, poster, handed>>

Enqueue(r) ==
    /\ Up
    /\ client[r] = "reading"
    /\ ~RelayIsFull(HostOf[r])
    /\ waiters' = waiters \cup {r}
    /\ queues'  = [queues EXCEPT ![HostOf[r]] = Append(@, r)]
    /\ client'  = [client EXCEPT ![r] = "waiting"]
    /\ UNCHANGED <<phase, registered, chan, outcome, answer, poster, handed>>

\* Wrong: the stop message of close() passes for a reply.
EndsAnswered(r) == "answered"

EndsAs(r) == IF Shutdown \in chan[r] THEN "stopping" ELSE "answered"

\* The three cases of the handler's select.  When several are ready Go picks
\* any of them, so a reply in the channel does not keep the others back.
Receive(r) ==
    /\ Up
    /\ client[r] = "waiting"
    /\ chan[r] # {}
    /\ Finish(r, EndsAs(r))
    /\ answer' = [answer EXCEPT ![r] = chan[r] \ {Shutdown}]
    /\ chan'   = [chan EXCEPT ![r] = {}]
    /\ UNCHANGED <<phase, registered, queues, waiters, poster, handed>>

ClientLeaves(r) ==
    /\ Up
    /\ client[r] = "waiting"
    /\ client' = [client EXCEPT ![r] = "leaving"]
    /\ UNCHANGED <<phase, registered, queues, waiters, chan, outcome, answer,
                   poster, handed>>

\* Wrong: a select without the timer.
TimerIsMissing(r) == FALSE

TimerFires(r) ==
    /\ Up
    /\ client[r] = "waiting"
    /\ client' = [client EXCEPT ![r] = "expiring"]
    /\ UNCHANGED <<phase, registered, queues, waiters, chan, outcome, answer,
                   poster, handed>>

Cancel(r) ==
    /\ Up
    /\ client[r] \in {"leaving", "expiring"}
    /\ DeleteWaiter(r)
    /\ queues'  = [queues EXCEPT ![HostOf[r]] = Without(@, r)]
    /\ Finish(r, IF client[r] = "leaving" THEN "gone" ELSE "timeout")
    /\ UNCHANGED <<phase, registered, chan, answer, poster, handed>>
-----------------------------------------------------------------------------
(***************************************************************************)
(* hostEndpoint.  A poll that finds the queue empty changes nothing.  The  *)
(* computer replies only to what it was handed, but it may reply twice,    *)
(* and at any time: two reply handlers for one request may overlap.        *)
(***************************************************************************)
\* Wrong: the newest request goes first.
PollNewest(h) ==
    /\ Up
    /\ h \in registered
    /\ queues[h] # <<>>
    /\ LET last == Len(queues[h]) IN
         /\ handed' = handed \cup {queues[h][last]}
         /\ queues' = [queues EXCEPT ![h] = SubSeq(@, 1, last - 1)]
    /\ UNCHANGED <<phase, registered, waiters, chan, client, outcome, answer,
                   poster>>

Poll(h) ==
    /\ Up
    /\ h \in registered
    /\ queues[h] # <<>>
    /\ handed' = handed \cup {Head(queues[h])}
    /\ queues' = [queues EXCEPT ![h] = Tail(@)]
    /\ UNCHANGED <<phase, registered, waiters, chan, client, outcome, answer,
                   poster>>

MayReply(p) == /\ Up
               /\ poster[p] = "idle"
               /\ HostOf[ReplyTo[p]] \in registered
               /\ ReplyTo[p] \in handed

TakeWaiter(p) ==
    /\ MayReply(p)
    /\ ReplyTo[p] \in waiters
    /\ DeleteWaiter(ReplyTo[p])
    /\ poster'  = [poster EXCEPT ![p] = "sending"]
    /\ UNCHANGED <<phase, registered, queues, chan, client, outcome, answer,
                   handed>>

ReplyNotFound(p) ==
    /\ MayReply(p)
    /\ ReplyTo[p] \notin waiters
    /\ poster' = [poster EXCEPT ![p] = "notFound"]
    /\ UNCHANGED <<phase, registered, queues, waiters, chan, client, outcome,
                   answer, handed>>

\* Wrong: all waiting clients listen on one channel.
SendToAnyone(p) ==
    /\ Up
    /\ poster[p] = "sending"
    /\ \E r \in Requests : /\ client[r] = "waiting"
                           /\ chan' = [chan EXCEPT ![r] = TrySend(@, p)]
    /\ poster' = [poster EXCEPT ![p] = "accepted"]
    /\ UNCHANGED <<phase, registered, queues, waiters, client, outcome, answer,
                   handed>>

\* Outside the lock; the answer is 200 whether or not the send went through.
SendReply(p) ==
    /\ Up
    /\ poster[p] = "sending"
    /\ chan'   = [chan EXCEPT ![ReplyTo[p]] = TrySend(@, p)]
    /\ poster' = [poster EXCEPT ![p] = "accepted"]
    /\ UNCHANGED <<phase, registered, queues, waiters, client, outcome, answer,
                   handed>>
-----------------------------------------------------------------------------
(***************************************************************************)
(* The end of the process.  A signal makes Shutdown close the listeners;   *)
(* ListenAndServe then returns at once, main calls close and returns       *)
(* without waiting for Shutdown, and with main every handler ends.         *)
(***************************************************************************)
Close ==
    /\ phase = "serving"
    /\ phase' = "closed"
    /\ chan'  = [r \in Requests |->
                   IF r \in waiters THEN TrySend(chan[r], Shutdown) ELSE chan[r]]
    /\ waiters' = {}
    /\ queues'  = [h \in Hosts |-> <<>>]
    /\ UNCHANGED <<registered, client, outcome, answer, poster, handed>>

InFlight(r) == client[r] \notin {"idle", "done"}

\* Memory and goroutines are gone; the peers of open connections see a reset.
Perish ==
    /\ phase'   = "down"
    /\ waiters' = {}
    /\ queues'  = [h \in Hosts |-> <<>>]
    /\ chan'    = [r \in Requests |-> {}]
    /\ outcome' = [r \in Requests |-> IF InFlight(r) THEN "dropped" ELSE outcome[r]]
    /\ client'  = [r \in Requests |-> IF InFlight(r) THEN "done" ELSE client[r]]
    /\ poster'  = [p \in Replies |-> IF poster[p] = "sending" THEN "lost" ELSE poster[p]]
    /\ UNCHANGED <<registered, answer, handed>>

Exit  == phase = "closed" /\ Perish
Crash == MayCrash /\ Up /\ Perish

\* newRelay.  Which registrations a restart finds on disk is the subject of
\* RelayStore; here it may be any of them.
Restart ==
    /\ phase = "down"
    /\ phase' = "serving"
    /\ registered' \in SUBSET registered
    /\ UNCHANGED <<queues, waiters, chan, client, outcome, answer, poster,
                   handed>>
-----------------------------------------------------------------------------
ClientStep(r) == \/ Authorize(r) \/ RefuseBody(r) \/ Busy(r) \/ Enqueue(r)
                 \/ Receive(r) \/ ClientLeaves(r) \/ TimerFires(r) \/ Cancel(r)
ReplyStep(p)  == TakeWaiter(p) \/ ReplyNotFound(p) \/ SendReply(p)
HostStep(h)   == Register(h) \/ Poll(h)
ProcessStep   == Close \/ Exit \/ Crash \/ Restart

Next == \/ \E r \in Requests : ClientStep(r)
        \/ \E p \in Replies : ReplyStep(p)
        \/ \E h \in Hosts : HostStep(h)
        \/ ProcessStep

Spec == Init /\ [][Next]_vars

\* Go schedules every runnable goroutine, the server's ReadTimeout ends the
\* reading of a body, and the five-minute timer fires.  Nothing is assumed of
\* clients, of computers or of whoever stops and starts the process.
Fairness == \A r \in Requests : /\ WF_vars(RefuseBody(r) \/ Busy(r) \/ Enqueue(r))
                                /\ WF_vars(Receive(r) \/ TimerFires(r))
                                /\ WF_vars(Cancel(r))

FairSpec == Spec /\ Fairness
-----------------------------------------------------------------------------
TypeOK == /\ phase \in {"serving", "closed", "down"}
          /\ registered \in SUBSET Hosts
          /\ queues \in [Hosts -> Seq(Requests)]
          /\ waiters \in SUBSET Requests
          /\ chan \in [Requests -> SUBSET (Replies \cup {Shutdown})]
          /\ client \in [Requests -> ClientPoints]
          /\ outcome \in [Requests -> Outcomes]
          /\ answer \in [Requests -> SUBSET Replies]
          /\ poster \in [Replies -> PosterPoints]
          /\ handed \in SUBSET Requests

\* What a poll can return is fresh and wanted: it was not handed over before,
\* stands in the queue once, and its client still waits for the answer.  So a
\* request reaches its computer at most once, and a computer is not made to
\* work for nobody.
QueuedRequestsAreAwaited ==
    \A h \in Hosts :
        /\ Distinct(queues[h])
        /\ \A r \in Queued(h) : /\ HostOf[r] = h
                                 /\ r \in waiters \ handed
                                 /\ InFlight(r)

\* An exchange that has ended, for whatever reason, leaves no waiter and no
\* queue entry behind ("cancelled request leaked" in the relay's test).
NothingLeaks ==
    \A r \in Requests : client[r] \in {"idle", "done"} =>
        r \notin waiters /\ \A h \in Hosts : r \notin Queued(h)

\* The reply handler answers 200 without looking whether its send went
\* through: that is right because the one channel slot is always free then,
\* even when a duplicate reply or close() races with it.
AcceptedReplyFindsRoom ==
    \A p \in Replies : poster[p] = "sending" => chan[ReplyTo[p]] = {}

\* A client is answered only by a reply to its own request, which had been
\* handed over and whose sender was told 200; and by one reply only.
AnswersMatch ==
    \A r \in Requests :
        /\ \A p \in answer[r] : /\ ReplyTo[p] = r
                                /\ poster[p] = "accepted"
                                /\ r \in handed
        /\ \A p, q \in answer[r] : p = q
        /\ outcome[r] = "answered" <=> answer[r] # {}

\* The memory the relay may be made to hold is bounded, although the limits
\* are tested by handlers that run concurrently.
WithinLimits == /\ \A h \in Hosts : Len(queues[h]) <= QueueLimit
                /\ Cardinality(waiters) <= WaiterLimit

\* Requests to one computer do not overtake each other, neither when one is
\* handed over nor when one between them is cancelled.
NoOvertaking ==
    [][\A h \in Hosts : \A r, s \in Requests :
          Before(queues[h], r, s) /\ (r \in Queued(h))' =>
              /\ s \notin handed' \ handed
              /\ (s \in Queued(h))' => Before(queues[h], r, s)']_vars

\* Every client whose request the relay took gets an end to its exchange,
\* even if the computer never polls or replies and nobody stops the relay.
EveryClientFinishes ==
    \A r \in Requests : InFlight(r) ~> client[r] = "done"

\* The relay implements the abstract exchange.
Status == [r \in Requests |-> IF client[r] = "done" THEN "over"
                              ELSE IF client[r] \in {"idle", "reading"} THEN "new"
                              ELSE IF r \in handed THEN "handed" ELSE "pending"]

Promise == INSTANCE Exchange WITH status <- Status

ImplementsExchange == Promise!Spec

\* What close() put in a client's channel reaches that client: a relay that is
\* stopped, not killed, tells every waiting client so (main_test.go:243,
\* "graceful close did not wake client").
CloseWakesClients ==
    [][\A r \in Requests : client[r] = "waiting" /\ Shutdown \in chan[r] =>
                                outcome'[r] # "dropped"]_vars
=============================================================================
