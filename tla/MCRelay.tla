------------------------------ MODULE MCRelay -------------------------------
(***************************************************************************)
(* An instance of Relay for TLC: three requests compete for the queue of   *)
(* one computer, and the computer may reply to the first of them twice.    *)
(***************************************************************************)
EXTENDS Relay, TLC

CONSTANTS h1, r1, r2, r3, p1, p2

MCHostOf  == r1 :> h1 @@ r2 :> h1 @@ r3 :> h1
MCReplyTo == p1 :> r1 @@ p2 :> r1
=============================================================================
