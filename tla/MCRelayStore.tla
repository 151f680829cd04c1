---------------------------- MODULE MCRelayStore ----------------------------
(***************************************************************************)
(* Instances of RelayStore for TLC: three computers register, in any order *)
(* and repeatedly.  They are interchangeable.                              *)
(***************************************************************************)
EXTENDS RelayStore, TLC

Symmetry == Permutations(Hosts)
=============================================================================
