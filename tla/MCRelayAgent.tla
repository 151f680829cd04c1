---------------------------- MODULE MCRelayAgent ----------------------------
(***************************************************************************)
(* An instance of RelayAgent for TLC: two requests for one slot, and three *)
(* faults.  The delay is limited to 3 so that the limit is reached.        *)
(***************************************************************************)
EXTENDS RelayAgent, TLC

=============================================================================
