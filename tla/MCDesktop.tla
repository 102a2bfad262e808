------------------------------ MODULE MCDesktop ------------------------------
(***************************************************************************)
(* An instance of Desktop for TLC: a screen little larger than the cursor, *)
(* so that most positions overlap and many hang over an edge.              *)
(***************************************************************************)
EXTENDS Desktop

\* An outline, a fill and two transparent pixels.
SmallPattern == [row \in 0 .. 1 |-> [col \in 0 .. 1 |-> IF row = 0 THEN col + 1 ELSE 1 - col]]
=============================================================================
