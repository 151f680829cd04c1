------------------------------ MODULE CodexRPC ------------------------------
(***************************************************************************)
(* The JSON-RPC client between the Host's threads and codex app-server     *)
(* (src/vibeslopik_host/rpc.py).  Any number of threads call request; one  *)
(* reader thread takes the lines codex writes, hands replies to the        *)
(* waiting callers through one-element queues and everything else to the   *)
(* event handler; one thread may call stop.  Each access to pending, each  *)
(* use of a queue and each use of the pipes is one action.                 *)
(*                                                                         *)
(* codex itself is external: it may answer a request it received, once and *)
(* in any order, ask for approvals under request ids that it chooses and   *)
(* that may be those of the client's calls, stop reading its input, and    *)
(* die.                                                                    *)
(***************************************************************************)
EXTENDS Naturals, Sequences, FiniteSets

CONSTANTS Callers,   \* the calls of request
          AskIds,    \* the ids codex gives its own approval requests
          MayHang,   \* whether codex may stop reading its stdin
          MayDie,    \* whether codex may die by itself
          MayStop    \* whether stop may be called

ASSUME CallersAssumption == IsFiniteSet(Callers)
ASSUME AskAssumption     == AskIds \subseteq Nat
ASSUME SwitchAssumption  == {MayHang, MayDie, MayStop} \subseteq BOOLEAN

Ids      == 1..Cardinality(Callers)
Messages == [kind : {"reply"}, id : Ids] \cup [kind : {"ask"}, id : AskIds]
Failed   == [kind |-> "failed", id |-> 0]   \* what _fail_pending puts

VARIABLES alive,      \* process.poll() is None
          hung,       \* codex reads its stdin no more
          received,   \* ids of the requests codex has read from its stdin
          answered,   \* those of them it has answered
          asked,      \* ids of the approvals codex has asked for
          wire,       \* lines codex wrote that the reader has not read
          nextId,     \* next_id
          pending,    \* the keys of pending
          box,        \* the content of the queue registered under each id
          caller,     \* the program point of each call of request
          idOf,       \* its request id, 0 before it has one
          result,     \* how it returned
          reader,     \* the program point of _read_stdout
          held,       \* the message the reader is about to deliver
          stopper,    \* the program point of stop
          approvals   \* ids of the approval requests given to on_event

pipes == <<alive, hung, received, answered, asked, wire>>
calls == <<nextId, caller, idOf, result>>
vars  == <<pipes, calls, pending, box, reader, held, stopper, approvals>>

CallPoints == {"idle", "checked", "registered", "waiting", "timedOut", "done"}
Results    == {"none", "reply", "ask", "failed", "error", "timeout"}
None       == [kind |-> "none", id |-> 0]
-----------------------------------------------------------------------------
Init == /\ alive = TRUE /\ hung = FALSE
        /\ received = {} /\ answered = {} /\ asked = {}
        /\ wire = <<>>
        /\ nextId = 1
        /\ pending = {}
        /\ box = [i \in Ids |-> {}]
        /\ caller = [c \in Callers |-> "idle"]
        /\ idOf = [c \in Callers |-> 0]
        /\ result = [c \in Callers |-> "none"]
        /\ reader = "reading"
        /\ held = None
        /\ stopper = "idle"
        /\ approvals = {}
-----------------------------------------------------------------------------
(***************************************************************************)
(* request.                                                                *)
(***************************************************************************)
Return(c, r) == /\ caller' = [caller EXCEPT ![c] = "done"]
                /\ result' = [result EXCEPT ![c] = r]

CheckProcess(c) ==
    /\ caller[c] = "idle"
    /\ IF alive
         THEN /\ caller' = [caller EXCEPT ![c] = "checked"]
              /\ UNCHANGED result
         ELSE Return(c, "error")
    /\ UNCHANGED <<pipes, nextId, idOf, pending, box, reader, held, stopper, approvals>>

\* Wrong: every other id is skipped.
AddPendingByTwo(c) ==
    /\ caller[c] = "checked"
    /\ idOf'    = [idOf EXCEPT ![c] = nextId]
    /\ nextId'  = nextId + 2
    /\ pending' = pending \cup {nextId}
    /\ caller'  = [caller EXCEPT ![c] = "registered"]
    /\ UNCHANGED <<pipes, result, box, reader, held, stopper, approvals>>

AddPending(c) ==
    /\ caller[c] = "checked"
    /\ idOf'    = [idOf EXCEPT ![c] = nextId]
    /\ nextId'  = nextId + 1
    /\ pending' = pending \cup {nextId}
    /\ caller'  = [caller EXCEPT ![c] = "registered"]
    /\ UNCHANGED <<pipes, result, box, reader, held, stopper, approvals>>

\* _send raises when the process has ended, before the write or during it; the
\* pending entry then stays.  What is written to a codex that reads no more
\* stays in the pipe while there is room, and blocks without a time limit when
\* there is none: Fairness does not promise this step then.
Send(c) ==
    /\ caller[c] = "registered"
    /\ IF alive
         THEN /\ received' = IF hung THEN received ELSE received \cup {idOf[c]}
              /\ caller' = [caller EXCEPT ![c] = "waiting"]
              /\ UNCHANGED result
         ELSE /\ Return(c, "error")
              /\ UNCHANGED received
    /\ UNCHANGED <<alive, hung, answered, asked, wire, nextId, idOf, pending, box,
                   reader, held, stopper, approvals>>

Get(c) ==
    /\ caller[c] = "waiting"
    /\ \E m \in box[idOf[c]] : Return(c, m.kind)
    /\ box' = [box EXCEPT ![idOf[c]] = {}]
    /\ UNCHANGED <<pipes, nextId, idOf, pending, reader, held, stopper, approvals>>

\* Wrong: queue.get without a timeout.
WaitForever(c) == FALSE

\* queue.get gives up: the entry goes in a critical section of its own.
TimeOut(c) ==
    /\ caller[c] = "waiting"
    /\ box[idOf[c]] = {}
    /\ caller' = [caller EXCEPT ![c] = "timedOut"]
    /\ UNCHANGED <<pipes, nextId, idOf, result, pending, box, reader, held, stopper,
                   approvals>>

DropPending(c) ==
    /\ caller[c] = "timedOut"
    /\ pending' = pending \ {idOf[c]}
    /\ Return(c, "timeout")
    /\ UNCHANGED <<pipes, nextId, idOf, box, reader, held, stopper, approvals>>
-----------------------------------------------------------------------------
(***************************************************************************)
(* _read_stdout.  Whether a line is a reply is decided by looking its id   *)
(* up in pending, without the lock; the entry is popped under the lock.    *)
(***************************************************************************)
\* Wrong: a message with an id that is not pending counts as a late reply.
ReadRepliesOnly ==
    /\ reader = "reading"
    /\ wire # <<>>
    /\ wire' = Tail(wire)
    /\ IF Head(wire).id \in pending
         THEN reader' = "matched" /\ held' = Head(wire)
         ELSE UNCHANGED <<reader, held>>
    /\ UNCHANGED <<alive, hung, received, answered, asked, calls, pending, box,
                   stopper, approvals>>

ReadLine ==
    /\ reader = "reading"
    /\ wire # <<>>
    /\ wire' = Tail(wire)
    /\ LET m == Head(wire) IN
         IF m.id \in pending
           THEN /\ reader' = "matched"
                /\ held' = m
                /\ UNCHANGED approvals
           ELSE /\ approvals' = approvals \cup (IF m.kind = "ask" THEN {m.id} ELSE {})
                /\ UNCHANGED <<reader, held>>
    /\ UNCHANGED <<alive, hung, received, answered, asked, calls, pending, box,
                   stopper>>

\* Wrong: the entry is read, not popped.
PeekPending ==
    /\ reader = "matched"
    /\ reader' = IF held.id \in pending THEN "holding" ELSE "reading"
    /\ UNCHANGED <<pipes, calls, pending, box, held, stopper, approvals>>

\* When the caller timed out in between, the message is dropped.
PopPending ==
    /\ reader = "matched"
    /\ reader' = IF held.id \in pending THEN "holding" ELSE "reading"
    /\ pending' = pending \ {held.id}
    /\ UNCHANGED <<pipes, calls, box, held, stopper, approvals>>

\* Wrong: a reply goes to whoever waits.
PutAnywhere ==
    /\ reader = "holding"
    /\ \E c \in Callers : /\ caller[c] = "waiting"
                          /\ box' = [box EXCEPT ![idOf[c]] = {held}]
    /\ reader' = "reading"
    /\ UNCHANGED <<pipes, calls, pending, held, stopper, approvals>>

\* waiter.put blocks the reader while the queue is full.
PutReply ==
    /\ reader = "holding"
    /\ box[held.id] = {}
    /\ box' = [box EXCEPT ![held.id] = {held}]
    /\ reader' = "reading"
    /\ UNCHANGED <<pipes, calls, pending, held, stopper, approvals>>

\* _fail_pending empties the table under the lock, then wakes the callers,
\* skipping queues that are full (put_nowait).
FailAll(ids) ==
    box' = [i \in Ids |-> IF i \in ids /\ box[i] = {} THEN {Failed} ELSE box[i]]

\* Wrong: the reader ends without waking anybody.
EndSilently ==
    /\ reader = "reading"
    /\ ~alive
    /\ wire = <<>>
    /\ pending' = {}
    /\ reader' = "ended"
    /\ UNCHANGED <<pipes, calls, box, held, stopper, approvals>>

\* _fail_pending lets the lock go before it wakes the callers, but a caller
\* can tell this from one step only by timing out in between, which it may
\* just as well do before.
EndOfFile ==
    /\ reader = "reading"
    /\ ~alive
    /\ wire = <<>>
    /\ FailAll(pending)
    /\ pending' = {}
    /\ reader' = "ended"
    /\ UNCHANGED <<pipes, calls, held, stopper, approvals>>
-----------------------------------------------------------------------------
(***************************************************************************)
(* stop.                                                                   *)
(***************************************************************************)
Terminate ==
    /\ MayStop
    /\ stopper = "idle"
    /\ alive' = FALSE
    /\ stopper' = "terminated"
    /\ UNCHANGED <<hung, received, answered, asked, wire, calls, pending, box, reader, held,
                   approvals>>

StopFailsPending ==
    /\ stopper = "terminated"
    /\ FailAll(pending)
    /\ pending' = {}
    /\ stopper' = "stopped"
    /\ UNCHANGED <<pipes, calls, reader, held, approvals>>
-----------------------------------------------------------------------------
(***************************************************************************)
(* codex app-server.                                                       *)
(***************************************************************************)
Answer(i) ==
    /\ alive
    /\ i \in received \ answered
    /\ answered' = answered \cup {i}
    /\ wire' = Append(wire, [kind |-> "reply", id |-> i])
    /\ UNCHANGED <<alive, hung, received, asked, calls, pending, box, reader, held,
                   stopper, approvals>>

Ask(i) ==
    /\ alive
    /\ i \in AskIds \ asked
    /\ asked' = asked \cup {i}
    /\ wire' = Append(wire, [kind |-> "ask", id |-> i])
    /\ UNCHANGED <<alive, hung, received, answered, calls, pending, box, reader, held,
                   stopper, approvals>>

Hang ==
    /\ MayHang
    /\ alive /\ ~hung
    /\ hung' = TRUE
    /\ UNCHANGED <<alive, received, answered, asked, wire, calls, pending, box, reader,
                   held, stopper, approvals>>

Die ==
    /\ MayDie
    /\ alive
    /\ alive' = FALSE
    /\ UNCHANGED <<hung, received, answered, asked, wire, calls, pending, box, reader, held,
                   stopper, approvals>>
-----------------------------------------------------------------------------
CallStep(c) == \/ CheckProcess(c) \/ AddPending(c) \/ Send(c)
               \/ Get(c) \/ TimeOut(c) \/ DropPending(c)
ReaderStep  == ReadLine \/ PopPending \/ PutReply \/ EndOfFile
StopStep    == Terminate \/ StopFailsPending
CodexStep   == \/ \E i \in Ids : Answer(i)
               \/ \E i \in AskIds : Ask(i)
               \/ Hang \/ Die

Next == \/ \E c \in Callers : CallStep(c)
        \/ ReaderStep
        \/ StopStep
        \/ CodexStep

Spec == Init /\ [][Next]_vars

\* The threads of the Host run and queue.get ends after its timeout.  A write
\* ends when codex reads its stdin or has gone; of a codex that lives and reads
\* no more nothing is assumed, nor that anybody calls request or stop.
Fairness == /\ \A c \in Callers : /\ WF_vars(AddPending(c))
                                  /\ WF_vars((~hung \/ ~alive) /\ Send(c))
                                  /\ WF_vars(Get(c) \/ TimeOut(c))
                                  /\ WF_vars(DropPending(c))
            /\ WF_vars(ReaderStep)
            /\ WF_vars(StopFailsPending)

FairSpec == Spec /\ Fairness
-----------------------------------------------------------------------------
TypeOK == /\ alive \in BOOLEAN /\ hung \in BOOLEAN
          /\ received \in SUBSET Ids /\ answered \in SUBSET received
          /\ asked \in SUBSET AskIds
          /\ wire \in Seq(Messages)
          /\ nextId \in 1..(Cardinality(Callers) + 1)
          /\ pending \in SUBSET Ids
          /\ box \in [Ids -> SUBSET (Messages \cup {Failed})]
          /\ caller \in [Callers -> CallPoints]
          /\ idOf \in [Callers -> Ids \cup {0}]
          /\ result \in [Callers -> Results]
          /\ reader \in {"reading", "matched", "holding", "ended"}
          /\ held \in Messages \cup {None}
          /\ stopper \in {"idle", "terminated", "stopped"}
          /\ approvals \in SUBSET AskIds

InCall(c) == caller[c] \in {"registered", "waiting", "timedOut"}

\* Each table entry belongs to one call, which is either still in progress or
\* failed to send: no reply, timeout or shutdown leaves one behind.
PendingIsOwned ==
    \A i \in pending : \E c \in Callers :
        /\ idOf[c] = i
        /\ InCall(c) \/ result[c] = "error"
        /\ \A d \in Callers : idOf[d] = i => d = c

\* The reader thread, on which every reply and event depends, never blocks on
\* a full queue, whatever races with a timeout, a stop or a late reply.
ReaderNeverBlocks == reader = "holding" => box[held.id] = {}

\* A call returns the reply to its own request, which codex has sent: no thread
\* sees another's answer, however late or out of order it is.  Where the reader
\* errs is a request of codex's own under the number of a call that is pending.
RepliesMatch ==
    /\ \A i \in Ids : \A m \in box[i] :
           m = Failed \/ (m.id = i /\ i \in IF m.kind = "reply" THEN answered ELSE asked)
    /\ \A c \in Callers : /\ result[c] = "reply" => idOf[c] \in answered
                          /\ result[c] = "ask"   => idOf[c] \in asked

\* Once codex has gone and the reader has seen its last line, nobody is left
\* to wait out a two-minute timeout ("pending requests fail immediately when
\* process stops").
NobodyWaitsForTheDead ==
    reader = "ended" => \A c \in Callers : caller[c] = "waiting" => box[idOf[c]] # {}

\* An approval codex asks for reaches the event handler and so the user, or is
\* still on its way.  The one exception is an approval taken for the reply to
\* the call with its number: it costs that call its own reply too.
AskedIds == { wire[k].id : k \in { j \in 1..Len(wire) : wire[j].kind = "ask" } }

Swallowed(i) == \/ reader = "matched" /\ held = [kind |-> "ask", id |-> i]
                \/ i \notin pending /\ \E c \in Callers : idOf[c] = i /\ result[c] # "reply"

ApprovalsArrive == \A i \in asked : i \in approvals \cup AskedIds \/ Swallowed(i)

\* Every call of request that got its id returns, unless it is writing to a
\* codex that lives and does not read; a codex that dies lets it go.
Blocked(c) == caller[c] = "registered" /\ hung /\ alive

CallsReturn == \A c \in Callers : InCall(c) ~> caller[c] = "done" \/ Blocked(c)
=============================================================================
