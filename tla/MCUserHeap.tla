------------------------------ MODULE MCUserHeap ------------------------------
(***************************************************************************)
(* Instances of UserHeap for TLC: the sizes of the code, but for a page of *)
(* 64 bytes and a size_t of 8 bits.  250 is too large to be aligned.       *)
(***************************************************************************)
EXTENDS UserHeap

AskedSizes == {3, 24, 48, 56, 250}
=============================================================================
