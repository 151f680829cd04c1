------------------------------ MODULE Exchange ------------------------------
(***************************************************************************)
(* What the relay promises, without saying how: every request a client     *)
(* submits is handed to the computer at most once, and ends exactly once,  *)
(* either with one reply that the computer made to that very request after *)
(* it was handed over, or without an answer.                               *)
(***************************************************************************)
CONSTANTS Requests,  \* the client requests
          Replies,   \* the replies a computer may post
          ReplyTo    \* the request each reply names

VARIABLES status,    \* how far each request has come
          answer     \* the replies the client of each request was given

Init == /\ status = [r \in Requests |-> "new"]
        /\ answer = [r \in Requests |-> {}]

Submit(r) == /\ status[r] = "new"
             /\ status' = [status EXCEPT ![r] = "pending"]
             /\ UNCHANGED answer

Hand(r) == /\ status[r] = "pending"
           /\ status' = [status EXCEPT ![r] = "handed"]
           /\ UNCHANGED answer

Answer(r, p) == /\ status[r] = "handed"
                /\ ReplyTo[p] = r
                /\ status' = [status EXCEPT ![r] = "over"]
                /\ answer' = [answer EXCEPT ![r] = {p}]

\* The relay gives up on a set of requests: refusals, disconnects, timeouts
\* and, when its process ends, everything in flight.
GiveUp(S) == /\ \A r \in S : status[r] # "over"
             /\ status' = [r \in Requests |-> IF r \in S THEN "over" ELSE status[r]]
             /\ UNCHANGED answer

Next == \/ \E r \in Requests : \/ Submit(r)
                               \/ Hand(r)
                               \/ \E p \in Replies : Answer(r, p)
        \/ \E S \in SUBSET Requests : GiveUp(S)

Spec == Init /\ [][Next]_<<status, answer>>
=============================================================================
