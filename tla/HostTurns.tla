----------------------------- MODULE HostTurns ------------------------------
(***************************************************************************)
(* How the Host turns POST /api/threads/{id}/turns into a Codex turn once, *)
(* and says so only when it is true (start_turn and its helpers in         *)
(* src/vibeslopik_host/host.py), for one thread.                           *)
(*                                                                         *)
(* Every call runs in an HTTP thread of its own and takes no lock.  It     *)
(* looks its clientRequestId up among the remembered responses, and, when  *)
(* there is none, performs the request and remembers the response: between *)
(* the two it waits for Codex, for as long as two RPC timeouts and the     *)
(* eighteen seconds of confirmation.                                       *)
(*                                                                         *)
(* Codex is external.  It may refuse a call, perform it although the       *)
(* answer is lost, answer without naming the turn, and needs time to show  *)
(* a new turn in thread/read.  A message is its text; the images go along. *)
(***************************************************************************)
EXTENDS Naturals, Sequences, FiniteSets, IdQueues

CONSTANTS Calls,       \* the HTTP calls
          Requests,    \* the clientRequestIds
          RequestOf,   \* the id each call carries
          Texts,       \* the messages
          TextOf,      \* the message sent under each id
          Compacts,    \* the ids whose message is /compact
          Refreshes,   \* the ids whose message is /refresh or /status
          CacheLimit,  \* 256 in the source
          Overlap,     \* whether a client repeats a call before it has returned
          Faults       \* which of PossibleFaults happen

\* Codex refuses, its answer is lost, it cannot be read, it does not name the
\* turn it started; the log of deliveries cannot be written.
PossibleFaults == {"refuse", "loseAnswer", "unreadable", "unnamed", "log"}

ASSUME RoutesAssumption == /\ RequestOf \in [Calls -> Requests]
                           /\ TextOf \in [Requests -> Texts]
                           /\ Compacts \cup Refreshes \subseteq Requests
                           /\ Compacts \cap Refreshes = {}
ASSUME LimitsAssumption == /\ CacheLimit \in Nat \ {0}
                           /\ Overlap \in BOOLEAN
                           /\ Faults \subseteq PossibleFaults

VARIABLES at,         \* the program point of each call
          turnOf,     \* the turn Codex named in answer to turn/start, 0 before
          response,   \* what each call answered
          idempotency,\* the remembered responses
          order,      \* the ids under which they are kept, oldest first
          forgotten,  \* history: the ids whose response was dropped for newer ones
          resumed,    \* the thread is in resumed_threads
          turns,      \* Codex: the call that started each turn, in order
          visible     \* Codex: the turns that thread/read shows

codex == <<turns, visible>>
vars  == <<at, turnOf, response, idempotency, order, forgotten, resumed, turns,
           visible>>
memory == <<idempotency, order, forgotten>>

Points == {"idle", "fresh", "ready", "confirming", "done"}
Answer(kind, turn) == [kind |-> kind, turn |-> turn]
Nothing == Answer("none", 0)
Commands == Compacts \cup Refreshes

RequestOfTurn(t) == RequestOf[turns[t]]
-----------------------------------------------------------------------------
Init == /\ at = [c \in Calls |-> "idle"]
        /\ turnOf = [c \in Calls |-> 0]
        /\ response = [c \in Calls |-> Nothing]
        /\ idempotency = [r \in Requests |-> Nothing]
        /\ order = <<>>
        /\ forgotten = {}
        /\ resumed \in BOOLEAN
        /\ turns = <<>>
        /\ visible = {}

Respond(c, answer) == /\ at' = [at EXCEPT ![c] = "done"]
                      /\ response' = [response EXCEPT ![c] = answer]

\* Wrong: one response too many is kept.
RememberOneMore(r, answer) ==
    LET kept == Append(Without(order, r), r)
        full == Len(kept) > CacheLimit + 1
    IN  /\ order' = IF full THEN Tail(kept) ELSE kept
        /\ forgotten' = forgotten \cup (IF full THEN {Head(kept)} ELSE {})
        /\ idempotency' = [s \in Requests |->
                             IF full /\ s = Head(kept) THEN Nothing
                             ELSE IF s = r THEN answer ELSE idempotency[s]]

\* _remember_result: the response is kept as the newest, the oldest goes when
\* there are too many.
Remember(r, answer) ==
    LET kept == Append(Without(order, r), r)
        full == Len(kept) > CacheLimit
    IN  /\ order' = IF full THEN Tail(kept) ELSE kept
        /\ forgotten' = forgotten \cup (IF full THEN {Head(kept)} ELSE {})
        /\ idempotency' = [s \in Requests |->
                             IF full /\ s = Head(kept) THEN Nothing
                             ELSE IF s = r THEN answer ELSE idempotency[s]]

\* An exception leaves start_turn: the client gets an error, and nothing is
\* remembered.
Fail(c) == /\ Respond(c, Answer("error", 0))
           /\ UNCHANGED <<turnOf, memory>>

\* A client that waits sends a call again only after the earlier ones returned.
Begins(c) == /\ at[c] = "idle"
             /\ Overlap \/ \A d \in Calls : RequestOf[d] = RequestOf[c] =>
                               at[d] \in {"idle", "done"}

\* Wrong: an unconfirmed turn is not looked up again.
LookupConfirmed(c) ==
    /\ Begins(c)
    /\ LET kept == idempotency[RequestOf[c]] IN
         IF kept.kind \notin {"none", "unconfirmed"}
           THEN Respond(c, kept)
           ELSE /\ at' = [at EXCEPT ![c] = "fresh"]
                /\ UNCHANGED response
    /\ UNCHANGED <<turnOf, memory, resumed, codex>>

Lookup(c) ==
    /\ Begins(c)
    /\ LET kept == idempotency[RequestOf[c]] IN
         IF kept # Nothing
           THEN Respond(c, kept)
           ELSE /\ at' = [at EXCEPT ![c] = "fresh"]
                /\ UNCHANGED response
    /\ UNCHANGED <<turnOf, memory, resumed, codex>>

\* /compact is one RPC, /refresh reads the thread, resuming it before when that
\* was not done yet; the result of either is remembered.
RunCommand(c) ==
    /\ at[c] = "fresh"
    /\ RequestOf[c] \in Commands
    /\ \/ /\ Respond(c, Answer("command", 0))
          /\ Remember(RequestOf[c], Answer("command", 0))
          /\ resumed' = (resumed \/ RequestOf[c] \in Refreshes)
          /\ UNCHANGED turnOf
       \/ /\ "refuse" \in Faults
          /\ Fail(c)
          /\ resumed' \in {resumed, resumed \/ RequestOf[c] \in Refreshes}
    /\ UNCHANGED codex

\* The input is checked and the images written, either of which may fail, then
\* the thread is resumed unless that was done before.
Resume(c) ==
    /\ at[c] = "fresh"
    /\ RequestOf[c] \notin Commands
    /\ \/ /\ at' = [at EXCEPT ![c] = "ready"]
          /\ resumed' = TRUE
          /\ UNCHANGED <<turnOf, response, memory>>
       \/ /\ "refuse" \in Faults
          /\ Fail(c)
          /\ UNCHANGED resumed
    /\ UNCHANGED codex

\* turn/start.  An answer that names no turn is good enough to go on with.
StartTurn(c) ==
    /\ at[c] = "ready"
    /\ \/ /\ turns' = Append(turns, c)
          /\ at' = [at EXCEPT ![c] = "confirming"]
          /\ \/ turnOf' = [turnOf EXCEPT ![c] = Len(turns) + 1]
             \/ "unnamed" \in Faults /\ UNCHANGED turnOf
          /\ UNCHANGED <<response, memory>>
       \/ /\ "loseAnswer" \in Faults
          /\ turns' = Append(turns, c)
          /\ Fail(c)
       \/ /\ "refuse" \in Faults
          /\ UNCHANGED turns
          /\ Fail(c)
    /\ UNCHANGED <<resumed, visible>>

\* Wrong: the answer to turn/start is trusted.
IsNamed(c) == turnOf[c] # 0

\* _turn_is_visible: the turn itself, or any message with the same text.
IsVisible(c) == \E t \in visible : \/ t = turnOf[c]
                                   \/ TextOf[RequestOfTurn(t)] = TextOf[RequestOf[c]]

\* What is known of the delivery is logged, then remembered and answered: when
\* the log cannot be written the client gets an error although the turn runs.
LogFails == "log" \in Faults

Deliver(c, answer) == \/ /\ Respond(c, answer)
                         /\ Remember(RequestOf[c], answer)
                         /\ UNCHANGED turnOf
                      \/ LogFails /\ Fail(c)

\* Wrong: the newest turn of the thread is named.
ConfirmNewest(c) ==
    /\ at[c] = "confirming"
    /\ IsVisible(c)
    /\ Deliver(c, Answer("started", Len(turns)))
    /\ UNCHANGED <<resumed, codex>>

\* _confirm_turn_delivery polls until the turn is seen.
Confirm(c) ==
    /\ at[c] = "confirming"
    /\ IsVisible(c)
    /\ Deliver(c, Answer("started", turnOf[c]))
    /\ UNCHANGED <<resumed, codex>>

MayGiveUp(c) == /\ at[c] = "confirming"
                /\ ~IsVisible(c) \/ "unreadable" \in Faults

\* Wrong: only confirmed turns are remembered.
GiveUpUnremembered(c) ==
    /\ MayGiveUp(c)
    /\ Respond(c, Answer("unconfirmed", turnOf[c]))
    /\ UNCHANGED <<turnOf, memory, resumed, codex>>

\* Its time is over, every read having failed or come too early.
GiveUp(c) ==
    /\ MayGiveUp(c)
    /\ Deliver(c, Answer("unconfirmed", turnOf[c]))
    /\ UNCHANGED <<resumed, codex>>

\* Codex writes a turn down.
Persist(t) ==
    /\ t \in (1..Len(turns)) \ visible
    /\ visible' = visible \cup {t}
    /\ UNCHANGED <<at, turnOf, response, memory, resumed, turns>>
-----------------------------------------------------------------------------
CallStep(c) == \/ Lookup(c) \/ RunCommand(c) \/ Resume(c) \/ StartTurn(c)
               \/ Confirm(c) \/ GiveUp(c)

Next == \/ \E c \in Calls : CallStep(c)
        \/ \E t \in 1..Len(turns) : Persist(t)

Spec == Init /\ [][Next]_vars
-----------------------------------------------------------------------------
TypeOK == /\ at \in [Calls -> Points]
          /\ turnOf \in [Calls -> Nat]
          /\ response \in [Calls -> [kind : {"none", "started", "unconfirmed", "command",
                                             "error"}, turn : Nat]]
          /\ idempotency \in [Requests -> [kind : {"none", "started", "unconfirmed",
                                                   "command"}, turn : Nat]]
          /\ order \in Seq(Requests) /\ Len(order) <= CacheLimit
          /\ forgotten \in SUBSET Requests
          /\ resumed \in BOOLEAN
          /\ turns \in Seq(Calls)
          /\ visible \in SUBSET (1..Len(turns))

\* A second Codex turn is started under one clientRequestId only after the
\* client was told that the call which started the first had failed, or when
\* CacheLimit newer responses have pushed its response out.
RepeatsStartNothing ==
    \A i, j \in 1..Len(turns) : i < j /\ RequestOfTurn(i) = RequestOfTurn(j) =>
        response[turns[i]].kind = "error" \/ RequestOfTurn(i) \in forgotten

\* One clientRequestId, one turn (docs/protocol.md:36, "Turn requests use
\* clientRequestId for idempotency").
AtMostOneTurn ==
    \A i, j \in 1..Len(turns) : RequestOfTurn(i) = RequestOfTurn(j) => i = j

\* A client told "started" may delete its draft: what it asked for is in a turn
\* that Codex shows (docs/ARCHITECTURE_RU.md:11, the Host "confirms that the turn
\* has appeared before the iPhone's draft is deleted"; host.py:374, "Confirm that
\* Codex persisted the submitted input in this branch").
StartedMeansPersisted ==
    \A c \in Calls : response[c].kind = "started" =>
        \E t \in visible : RequestOfTurn(t) = RequestOf[c]

\* Whatever a call answers about a turn, remembered or not, is about a turn its
\* own request started.
AnswersNameOwnTurn ==
    \A c \in Calls : response[c].turn # 0 => /\ response[c].turn <= Len(turns)
                                             /\ RequestOfTurn(response[c].turn) = RequestOf[c]

\* All calls of one request that got an answer got the same one, whether
\* it was made for them or remembered.
RepeatsAgree ==
    \A c, d \in Calls : /\ RequestOf[c] = RequestOf[d]
                        /\ RequestOf[c] \notin forgotten
                        /\ {response[c].kind, response[d].kind} \cap {"none", "error"} = {}
                        => response[c] = response[d]
=============================================================================
