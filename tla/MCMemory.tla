------------------------------- MODULE MCMemory -------------------------------
(***************************************************************************)
(* Instances of Memory for TLC, in the proportions of the machine: the     *)
(* heap starts above the reserved pages, and the first kmalloc takes as    *)
(* many pages as lie between address 0 and heap_current.                   *)
(***************************************************************************)
EXTENDS Memory

UnitsPerPage == 3
=============================================================================
