------------------------------ MODULE MCTasking ------------------------------
(***************************************************************************)
(* Instances of Tasking for TLC.  Addresses are in KB, as the code lays    *)
(* them out.                                                               *)
(***************************************************************************)
EXTENDS Tasking

UserStackBase   == 2048
UserStackSize   == 64
KernelStackBase == 2560
KernelStackSize == 16
BootEsp0        == 576
OrbitBase       == 3072

\* An orbit that leaves room for three kernel stacks, as the code's leaves room for 33.
OrbitAfterThree == KernelStackBase + 2 * KernelStackSize

\* The only program anyone asks for is orbit.
OrbitEntry == {3072}
=============================================================================
