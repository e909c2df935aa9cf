------------------------------ MODULE MCFanOut ------------------------------
(* Three communities, of which two are analysed and one is sampled twice.   *)
EXTENDS FanOut

MCComplexity == [c \in 1..3 |-> IF c = 1 THEN 1 ELSE 2]
=============================================================================
