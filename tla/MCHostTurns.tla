---------------------------- MODULE MCHostTurns -----------------------------
(***************************************************************************)
(* Instances of HostTurns for TLC: a message sent in up to three calls, a  *)
(* second one, with a text of its own or the same, and a /refresh.  The    *)
(* memory may hold two responses only, so that a third id pushes one out.  *)
(***************************************************************************)
EXTENDS HostTurns, TLC

CONSTANTS a1, a2, a3, b1, c1, a, b, c

CallsOf    == a1 :> a @@ a2 :> a @@ a3 :> a @@ b1 :> b @@ c1 :> c
OwnTexts   == a :> "hello" @@ b :> "thanks" @@ c :> "/refresh"
SameTexts  == a :> "continue" @@ b :> "continue" @@ c :> "/compact"
=============================================================================
