------------------------------ MODULE IdQueues ------------------------------
(***************************************************************************)
(* Queues of unique ids, as the relay keeps for each computer and the Host *)
(* for the answers it remembers.                                           *)
(***************************************************************************)
EXTENDS Naturals, Sequences

Elems(q)    == { q[i] : i \in 1..Len(q) }
Distinct(q) == \A i, j \in 1..Len(q) : q[i] = q[j] => i = j

\* r stands somewhere ahead of s.
Before(q, r, s) == \E i, j \in 1..Len(q) : i < j /\ q[i] = r /\ q[j] = s

\* The queue without the entry r: a loop that keeps the others in order.  The
\* ids are unique, so at most one entry goes.
Without(q, r) ==
    IF \E i \in 1..Len(q) : q[i] = r
      THEN LET at == CHOOSE i \in 1..Len(q) : q[i] = r
           IN  [i \in 1..(Len(q) - 1) |-> IF i < at THEN q[i] ELSE q[i + 1]]
      ELSE q
=============================================================================
