------------------------------- MODULE MCTraps -------------------------------
(***************************************************************************)
(* Instances of Traps for TLC: every wrapper, and the drawing ones.        *)
(***************************************************************************)
EXTENDS Traps

AllWrappers == DOMAIN Wrappers
\* One exception with an error code and one without.
TwoFaults   == {6, 14}
=============================================================================
