----------------------------- MODULE MCCodexRPC -----------------------------
(***************************************************************************)
(* An instance of CodexRPC for TLC: two calls, and two approval requests,  *)
(* one of them under the id of the second call.                            *)
(***************************************************************************)
EXTENDS CodexRPC, TLC

=============================================================================
