------------------------------ MODULE ReadyFifo ------------------------------
(***************************************************************************)
(* What the ready queue of scheduler.c promises: a bounded first come,     *)
(* first served line of processes, each started at most once.  A process   *)
(* that has left the line is on its way to ring 3, and never gets there    *)
(* when the timer starts the next one first.  The promise ends with the    *)
(* first tear: a preemption between the two halves of an update of the     *)
(* ring.  After it the line may hold anything.                             *)
(***************************************************************************)
EXTENDS Naturals, Sequences

CONSTANTS Capacity, Procs

VARIABLES
  line,      \* the processes that wait, in order of arrival
  leaving,   \* the set of processes taken from the line but not yet started
  began,     \* the processes in ring 3 so far, in order
  torn       \* whether the ring has been torn

vars == <<line, leaving, began, torn>>

Init == line = <<>> /\ leaving = {} /\ began = <<>> /\ torn = FALSE

Seen(p) == \/ \E i \in DOMAIN line : line[i] = p
           \/ \E i \in DOMAIN began : began[i] = p
           \/ p \in leaving

\* The first process is started by the kernel without passing the line.
StartFirst ==
  /\ began = <<>> /\ line = <<>>
  /\ \E p \in Procs : began' = <<p>>
  /\ UNCHANGED <<line, leaving, torn>>

Join ==
  /\ Len(line) < Capacity
  /\ \E p \in Procs : ~Seen(p) /\ line' = Append(line, p)
  /\ UNCHANGED <<leaving, began, torn>>

Leave ==
  /\ line # <<>> /\ leaving = {}
  /\ leaving' = {Head(line)}
  /\ line' = Tail(line)
  /\ UNCHANGED <<began, torn>>

Begin ==
  /\ \E p \in leaving : began' = Append(began, p)
  /\ leaving' = {}
  /\ UNCHANGED <<line, torn>>

\* The timer starts the head of the line, and whoever was leaving is lost.
Preempt ==
  /\ line # <<>>
  /\ began' = Append(began, Head(line))
  /\ line' = Tail(line)
  /\ leaving' = {}
  /\ UNCHANGED torn

Broken == torn'

Next == \/ torn = FALSE /\ (StartFirst \/ Join \/ Leave \/ Begin \/ Preempt)
        \/ Broken

Spec == Init /\ [][Next]_vars
=============================================================================
