----------------------------- MODULE RelayAgent -----------------------------
(***************************************************************************)
(* The Host's connection to the relay (src/vibeslopik_host/relay.py): one  *)
(* thread registers and polls, and starts a thread for each request, which *)
(* performs it on the Host's local HTTP server and posts the reply; at     *)
(* most Slots of these threads are at work.                                *)
(*                                                                         *)
(* The relay is what Exchange promises of it, so that a request can be     *)
(* followed from the phone to the Host and back.  External are the relay,  *)
(* which may restart and lose the registration, the local HTTP server, and *)
(* the network: a call may fail before or after it arrived.                *)
(***************************************************************************)
EXTENDS Naturals, FiniteSets

CONSTANTS Requests,   \* the phone's requests
          Slots,      \* 8 in the source
          MaxDelay,   \* 30 seconds in the source
          AdminKey,   \* whether RELAY_ADMIN_KEY is configured
          MaxFaults   \* how often something goes wrong outside the agent

ASSUME FiniteAssumption == IsFiniteSet(Requests)
ASSUME LimitsAssumption == /\ Slots \in Nat \ {0}
                           /\ MaxDelay \in Nat \ {0}
                           /\ MaxFaults \in Nat
                           /\ AdminKey \in BOOLEAN

Replies == Requests \X {"result", "error"}
ReplyTo == [p \in Replies |-> p[1]]

VARIABLES status, answer,  \* of Exchange: what became of each request
          known,           \* the relay has the registration of this Host
          loop,            \* the program point of run
          needsRegister,   \* needs_register
          delay,           \* delay, in whole seconds
          worker,          \* the program point of each request's _deliver
          free,            \* the semaphore inflight
          asked,           \* requests the local HTTP server has yet to finish
          performed,       \* how often it performed each request
          faults           \* the faults so far

exchange == <<status, answer>>
agent    == <<loop, needsRegister, delay>>
host     == <<asked, performed>>
vars     == <<exchange, known, agent, worker, free, host, faults>>

TheRelay == INSTANCE Exchange

LoopPoints   == {"top", "backoff", "pause", "ended"}
WorkerPoints == {"none", "starting", "forwarding", "result", "error", "done",
                 "failed", "killed"}
HoldsSlot(r) == worker[r] \in {"forwarding", "result", "error"}
Active(r)    == worker[r] = "starting" \/ HoldsSlot(r)
-----------------------------------------------------------------------------
Init == /\ TheRelay!Init
        /\ known \in BOOLEAN
        /\ loop = "top"
        /\ needsRegister = TRUE
        /\ delay = 1
        /\ worker = [r \in Requests |-> "none"]
        /\ free = Slots
        /\ asked = {}
        /\ performed = [r \in Requests |-> 0]
        /\ faults = 0

Fault == faults < MaxFaults /\ faults' = faults + 1
-----------------------------------------------------------------------------
(***************************************************************************)
(* The phone and the relay.                                                *)
(***************************************************************************)
Submit(r) ==
    /\ known
    /\ TheRelay!Submit(r)
    /\ UNCHANGED <<known, agent, worker, free, host, faults>>

\* The phone leaves, or the relay gives up after five minutes.
GiveUp(r) ==
    /\ status[r] \in {"pending", "handed"}
    /\ TheRelay!GiveUp({r})
    /\ UNCHANGED <<known, agent, worker, free, host, faults>>

\* The relay restarts, with or without what it had stored.
RelayRestarts ==
    /\ Fault
    /\ TheRelay!GiveUp({r \in Requests : status[r] \in {"pending", "handed"}})
    /\ known' \in {known, FALSE}
    /\ UNCHANGED <<agent, worker, free, host>>
-----------------------------------------------------------------------------
(***************************************************************************)
(* run.  Every exception of a call takes the same way: back off and        *)
(* register again.                                                         *)
(***************************************************************************)
\* Wrong: a failed poll does not lead to a registration.
JustWait == loop' = "backoff" /\ UNCHANGED needsRegister

Retry == loop' = "backoff" /\ needsRegister' = TRUE

Register ==
    /\ loop = "top"
    /\ needsRegister
    /\ known' = (known \/ AdminKey)
    /\ needsRegister' = FALSE
    /\ UNCHANGED <<exchange, loop, delay, worker, free, host, faults>>

\* The registration fails; the relay may have it nevertheless.
RegisterFails ==
    /\ loop = "top"
    /\ needsRegister
    /\ AdminKey
    /\ Fault
    /\ known' \in {known, TRUE}
    /\ Retry
    /\ UNCHANGED <<exchange, delay, worker, free, host>>

Polls == loop = "top" /\ ~needsRegister

PollGets(r) ==
    /\ Polls
    /\ known
    /\ TheRelay!Hand(r)
    /\ worker' = [worker EXCEPT ![r] = "starting"]
    /\ delay' = 1
    /\ UNCHANGED <<known, loop, needsRegister, free, host, faults>>

PollFindsNothing ==
    /\ Polls
    /\ known
    /\ \A r \in Requests : status[r] # "pending"
    /\ delay' = 1
    /\ loop' = "pause"
    /\ UNCHANGED <<exchange, known, needsRegister, worker, free, host, faults>>

PollIsUnauthorized ==
    /\ Polls
    /\ ~known
    /\ Retry
    /\ UNCHANGED <<exchange, known, delay, worker, free, host, faults>>

\* The call fails before the relay has it, or what it answered is lost, and
\* with it the request the relay has just taken from its queue.
PollFails ==
    /\ Polls
    /\ Fault
    /\ Retry
    /\ \/ UNCHANGED exchange
       \/ known /\ \E r \in Requests : TheRelay!Hand(r)
    /\ UNCHANGED <<known, delay, worker, free, host>>

\* Wrong: stop_event.wait() without a time.
PauseForever == FALSE

PauseEnds ==
    /\ loop = "pause"
    /\ loop' = "top"
    /\ UNCHANGED <<exchange, known, needsRegister, delay, worker, free, host, faults>>

\* Wrong: the delay doubles without limit.
WaitEverLonger ==
    /\ loop = "backoff"
    /\ loop' = "top"
    /\ delay' = 2 * delay
    /\ UNCHANGED <<exchange, known, needsRegister, worker, free, host, faults>>

BackoffEnds ==
    /\ loop = "backoff"
    /\ loop' = "top"
    /\ delay' = IF 2 * delay <= MaxDelay THEN 2 * delay ELSE MaxDelay
    /\ UNCHANGED <<exchange, known, needsRegister, worker, free, host, faults>>
-----------------------------------------------------------------------------
(***************************************************************************)
(* _deliver.                                                               *)
(***************************************************************************)
\* Wrong: the slot is not given back.
KeepSlot(r, w) == worker' = [worker EXCEPT ![r] = w] /\ UNCHANGED free

Leave(r, w) == worker' = [worker EXCEPT ![r] = w] /\ free' = free + 1

Forward(r) ==
    /\ worker[r] = "starting"
    /\ free > 0
    /\ free' = free - 1
    /\ worker' = [worker EXCEPT ![r] = "forwarding"]
    /\ asked' = asked \cup {r}
    /\ UNCHANGED <<exchange, known, agent, performed, faults>>

\* The local HTTP server does what was asked, in a thread of its own that runs
\* on when _forward has stopped waiting.
Perform(r) ==
    /\ r \in asked
    /\ asked' = asked \ {r}
    /\ performed' = [performed EXCEPT ![r] = @ + 1]
    /\ UNCHANGED <<exchange, known, agent, worker, free, faults>>

ForwardReturns(r) ==
    /\ worker[r] = "forwarding"
    /\ r \notin asked
    /\ worker' = [worker EXCEPT ![r] = "result"]
    /\ UNCHANGED <<exchange, known, agent, free, host, faults>>

\* Wrong: a failure passes for success.
FailureAsResult(r) ==
    /\ worker[r] = "forwarding"
    /\ worker' = [worker EXCEPT ![r] = "result"]
    /\ UNCHANGED <<exchange, known, agent, free, host, faults>>

\* 502: no answer within two minutes, or none that can be read.
ForwardFails(r) ==
    /\ worker[r] = "forwarding"
    /\ worker' = [worker EXCEPT ![r] = "error"]
    /\ UNCHANGED <<exchange, known, agent, free, host, faults>>

Replying(r) == worker[r] \in {"result", "error"}

Reply(r) ==
    /\ Replying(r)
    /\ known
    /\ TheRelay!Answer(r, <<r, worker[r]>>)
    /\ Leave(r, "done")
    /\ UNCHANGED <<known, agent, host, faults>>

\* 404: nobody waits any more.
ReplyTooLate(r) ==
    /\ Replying(r)
    /\ known
    /\ status[r] = "over"
    /\ Leave(r, "done")
    /\ UNCHANGED <<exchange, known, agent, host, faults>>

\* 401: the relay has restarted without the registration.
ReplyIsUnauthorized(r) ==
    /\ Replying(r)
    /\ ~known
    /\ Leave(r, "failed")
    /\ UNCHANGED <<exchange, known, agent, host, faults>>

\* Wrong: the request goes round again.
ReplyFailsAndRepeats(r) ==
    /\ Replying(r)
    /\ Fault
    /\ Leave(r, "starting")
    /\ UNCHANGED <<exchange, known, agent, host>>

\* The call fails, before or after the relay had it, and is not repeated.
ReplyFails(r) ==
    /\ Replying(r)
    /\ Fault
    /\ \/ UNCHANGED exchange
       \/ known /\ TheRelay!Answer(r, <<r, worker[r]>>)
    /\ Leave(r, "failed")
    /\ UNCHANGED <<known, agent, host>>
-----------------------------------------------------------------------------
\* _log raises while run handles an exception: its thread ends, unnoticed.
LoopDies ==
    /\ loop = "top"
    /\ Fault
    /\ loop' = "ended"
    /\ UNCHANGED <<exchange, known, needsRegister, delay, worker, free, host>>

\* The Host process ends, by stop or otherwise, and all its threads with it.
HostEnds ==
    /\ Fault
    /\ loop' = "ended"
    /\ worker' = [r \in Requests |-> IF Active(r) THEN "killed" ELSE worker[r]]
    /\ asked' = {}
    /\ UNCHANGED <<exchange, known, needsRegister, delay, free, performed>>

HostStarts ==
    /\ loop = "ended"
    /\ loop' = "top"
    /\ needsRegister' = TRUE
    /\ delay' = 1
    /\ free' = Slots
    /\ worker' = [r \in Requests |-> IF Active(r) THEN "killed" ELSE worker[r]]
    /\ asked' = {}
    /\ UNCHANGED <<exchange, known, performed, faults>>
-----------------------------------------------------------------------------
LoopStep == \/ Register \/ PollFindsNothing \/ PollIsUnauthorized
            \/ PauseEnds \/ BackoffEnds
            \/ \E r \in Requests : PollGets(r)
DeliverStep(r) == \/ Forward(r) \/ ForwardReturns(r) \/ ForwardFails(r)
                  \/ Reply(r) \/ ReplyTooLate(r) \/ ReplyIsUnauthorized(r)
FaultStep == \/ RelayRestarts \/ RegisterFails \/ PollFails \/ LoopDies \/ HostEnds
             \/ \E r \in Requests : ReplyFails(r)

Next == \/ LoopStep
        \/ FaultStep
        \/ HostStarts
        \/ \E r \in Requests : \/ Submit(r) \/ GiveUp(r) \/ Perform(r)
                               \/ DeliverStep(r)

Spec == Init /\ [][Next]_vars

\* The threads run, and every call and wait of theirs has a time limit.
\* Nothing is assumed of the phone, of the local HTTP server, or of whoever
\* starts the Host.
Fairness == WF_vars(LoopStep) /\ \A r \in Requests : WF_vars(DeliverStep(r))

FairSpec == Spec /\ Fairness
-----------------------------------------------------------------------------
TypeOK == /\ status \in [Requests -> {"new", "pending", "handed", "over"}]
          /\ answer \in [Requests -> SUBSET Replies]
          /\ known \in BOOLEAN
          /\ loop \in LoopPoints
          /\ needsRegister \in BOOLEAN
          /\ delay \in 1..MaxDelay
          /\ worker \in [Requests -> WorkerPoints]
          /\ free \in 0..Slots
          /\ asked \in SUBSET Requests
          /\ performed \in [Requests -> 0..1]
          /\ faults \in 0..MaxFaults

\* A request of the phone is performed at most once and only after the relay
\* handed it over, whatever is lost, repeated or restarted on the way.
PerformedOnce ==
    \A r \in Requests : r \in asked \/ performed[r] > 0 =>
        /\ status[r] \in {"handed", "over"}
        /\ performed[r] + (IF r \in asked THEN 1 ELSE 0) = 1

\* The phone is given a result only of what the Host did for that request; a
\* Host that is too slow is reported as an error, never as a success.
ResultsAreReal ==
    \A r \in Requests : <<r, "result">> \in answer[r] => performed[r] = 1

\* A relay that lost the registration gets it again from an agent that runs,
\* whatever failed in between, so that the phone can reach the Host
\* (test-python-relay.py:90, "Host agent did not reconnect after Relay restart").
RegistrationComesBack == AdminKey => (~known ~> known \/ loop = "ended")

\* However long other requests take, and whatever failed before, a waiting
\* request is fetched by an agent that runs.
WaitingRequestsAreFetched ==
    \A r \in Requests : status[r] = "pending" ~> status[r] # "pending" \/ loop = "ended"

\* Every request that got a thread of its own is answered or given up by the
\* phone or the relay, unless its reply or the Host itself failed: slots do
\* not run out.
FetchedRequestsEnd ==
    \A r \in Requests :
        worker[r] = "starting" ~> status[r] = "over" \/ worker[r] \in {"failed", "killed"}
=============================================================================
