----------------------------- MODULE MCHostDesk -----------------------------
(***************************************************************************)
(* An instance of HostDesk for TLC: two menus and three Hosts, and in each *)
(* behaviour a few steps of some kinds, one plan for each of the questions *)
(* that are asked.                                                         *)
(***************************************************************************)
EXTENDS HostDesk, TLC

CONSTANTS p1, p2, g1, g2, g3, small, medium, pack

None == [k \in Kinds |-> 0]

SomePlans ==
    { [None EXCEPT !["open"] = 3, !["setup"] = 2, !["kill"] = 1, !["damage"] = 1],
      [None EXCEPT !["open"] = 2, !["setup"] = 1, !["save"] = 1, !["start"] = 1],
      [None EXCEPT !["open"] = 2, !["speech"] = 2, !["save"] = 1, !["kill"] = 1],
      [None EXCEPT !["open"] = 1, !["speech"] = 3, !["kill"] = 1],
      [None EXCEPT !["open"] = 2, !["start"] = 2, !["stop"] = 1, !["auto"] = 2, !["kill"] = 1] }

Alike == Permutations(Menus) \cup Permutations(Hosts)
=============================================================================
