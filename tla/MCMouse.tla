------------------------------- MODULE MCMouse -------------------------------
(***************************************************************************)
(* Instances of Mouse for TLC, with a movement of 8 bits that takes the    *)
(* cursor past the limit.                                                  *)
(***************************************************************************)
EXTENDS Mouse

Down == {-127}

Setting(c, k, n) == [calls |-> c, keyboard |-> k, packets |-> n]

\* Orbit's polls, once with and once without keys; programs that read the ring, which
\* three packets go round; a program that reads it and drains the 8042.
Several == {Setting({"poll"}, FALSE, 2), Setting({"poll"}, TRUE, 1),
            Setting({"buttons"}, TRUE, 3), Setting({"buttons", "drain"}, TRUE, 2)}

Polling == {Setting({"poll"}, FALSE, 3)}
=============================================================================
