---------------------------- MODULE MCHostEvents ----------------------------
(***************************************************************************)
(* An instance of HostEvents for TLC: two turns, and in each behaviour a   *)
(* few calls of the phones, so that each of the questions below is asked   *)
(* of every interleaving of what it is about.                              *)
(***************************************************************************)
EXTENDS HostEvents, TLC

CONSTANTS h1, h2, m1, m2, p1

None == [k \in Kinds |-> 0]

SomePlans == { [None EXCEPT !["start"] = 2, !["override"] = 2],            \* settings
               [None EXCEPT !["start"] = 2, !["read"] = 2], \* views
               [None EXCEPT !["start"] = 2, !["read"] = 1, !["more"] = 1],
               [None EXCEPT !["start"] = 1, !["read"] = 2, !["more"] = 2],
               [None EXCEPT !["start"] = 2, !["ask"] = 1, !["decide"] = 2, !["read"] = 1],
               [None EXCEPT !["start"] = 1, !["poll"] = 3, !["stderr"] = 2] }

Alike == Permutations(Threads) \cup Permutations(Models)
=============================================================================
