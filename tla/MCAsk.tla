-------------------------------- MODULE MCAsk --------------------------------
(* Pairs of questions that meet in one conversation, about one analysis or  *)
(* two; one in a conversation beside one that is not; two that share the    *)
(* answer cache; and analyses without a graph or an index beside the agent. *)
EXTENDS Ask

CONSTANTS a1, a2

Pair(x, s, y, t) == (a1 :> [about |-> x, session |-> s]) @@ (a2 :> [about |-> y, session |-> t])

MCRequests ==
  { Pair("x", "s", "x", "s"), Pair("x", "s", "y", "s"), Pair("x", "none", "x", "s"),
    Pair("flat", "none", "flat", "none"), Pair("flat", "none", "x", "s"),
    Pair("bare", "none", "x", "none") }
=============================================================================
