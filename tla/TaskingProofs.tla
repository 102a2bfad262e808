---------------------------- MODULE TaskingProofs ----------------------------
(***************************************************************************)
(* Proofs about Tasking for every number of processes and queue slots.     *)
(* TypeOK is not inductive: that queue_count stays in bounds depends on    *)
(* what the code tested some statements earlier and that nothing in        *)
(* between undoes it, which is what Guarded records.                       *)
(*                                                                         *)
(* The second half is about the ready queue as a line of pids. LineInv     *)
(* says where every pid is and in which order the ring holds those it has, *)
(* as long as no abandoned call has torn the ring; every step is then one  *)
(* of seven moves of the line, each of which is a step of ReadyFifo or     *)
(* leaves it alone.                                                        *)
(***************************************************************************)
EXTENDS Tasking, FiniteSetTheorems, TLAPS

\* What the tests of the code still guarantee at a later statement: a tick in
\* between either leaves the queue alone or abandons the code.
Guarded ==
  /\ pc = "boot" => next_pid = 1 /\ pcbs = 0
  /\ pc = "create_pid" => next_pid < MAX_PROCESSES
  /\ pc \in AddSteps => queue_count < MAX_QUEUED_PROCESSES
  /\ pc \in {"tick_head", "tick_count"} => queue_count > 0

IInv == TypeOK /\ Guarded

-----------------------------------------------------------------------------
(***************************************************************************)
(* The arithmetic of ring indices: what (x + 1) % N and (x + N) % N are.   *)
(***************************************************************************)
LEMMA ModUnique ==
  ASSUME NEW N \in Nat \ {0}, NEW q \in Int, NEW r \in 0 .. N - 1
  PROVE  (N * q + r) % N = r
BY SMT

LEMMA ModRange ==
  ASSUME NEW N \in Nat \ {0}, NEW x \in Nat
  PROVE  x % N \in 0 .. N - 1
BY SMT

LEMMA ModDecomposed ==
  ASSUME NEW N \in Nat \ {0}, NEW x \in Nat
  PROVE  \E q \in Int, r \in 0 .. N - 1 : x = N * q + r /\ x % N = r
<1>1. x % N \in 0 .. N - 1 /\ x = N * (x \div N) + (x % N) /\ x \div N \in Int
  BY SMT
<1> QED
  BY <1>1

LEMMA ModSuccessor ==
  ASSUME NEW N \in Nat \ {0}, NEW x \in Nat
  PROVE  (x + 1) % N = IF x % N = N - 1 THEN 0 ELSE (x % N) + 1
<1>1. PICK q \in Int, r \in 0 .. N - 1 : x = N * q + r /\ x % N = r
  BY ModDecomposed
<1>2. CASE r = N - 1
  <2>1. x + 1 = N * (q + 1) + 0
    BY <1>1, <1>2, SMT
  <2>2. (N * (q + 1) + 0) % N = 0
    BY ModUnique, SMT
  <2> QED
    BY <1>1, <1>2, <2>1, <2>2
<1>3. CASE r # N - 1
  <2>1. x + 1 = N * q + (r + 1) /\ r + 1 \in 0 .. N - 1
    BY <1>1, <1>3, SMT
  <2>2. (N * q + (r + 1)) % N = r + 1
    BY ModUnique, <2>1
  <2> QED
    BY <1>1, <1>3, <2>1, <2>2
<1> QED
  BY <1>2, <1>3

\* Two counts that agree as indices agree after one more step of each, and
\* conversely.
LEMMA ModStepBoth ==
  ASSUME NEW N \in Nat \ {0}, NEW x \in Nat, NEW y \in Nat
  PROVE  x % N = y % N <=> (x + 1) % N = (y + 1) % N
<1>1. x % N \in 0 .. N - 1 /\ y % N \in 0 .. N - 1
  BY SMT
<1>2. (x + 1) % N = IF x % N = N - 1 THEN 0 ELSE (x % N) + 1
  BY ModSuccessor
<1>3. (y + 1) % N = IF y % N = N - 1 THEN 0 ELSE (y % N) + 1
  BY ModSuccessor
<1>4. ASSUME NEW r \in 0 .. N - 1, NEW s \in 0 .. N - 1
      PROVE  r = s <=> (IF r = N - 1 THEN 0 ELSE r + 1)
                         = (IF s = N - 1 THEN 0 ELSE s + 1)
  OBVIOUS
<1> QED
  BY <1>1, <1>2, <1>3, <1>4

LEMMA ModPlusN ==
  ASSUME NEW N \in Nat \ {0}, NEW x \in Nat
  PROVE  (x + N) % N = x % N
<1>1. PICK q \in Int, r \in 0 .. N - 1 : x = N * q + r /\ x % N = r
  BY ModDecomposed
<1>2. x + N = N * (q + 1) + r
  BY <1>1, SMT
<1>3. (N * (q + 1) + r) % N = r
  BY ModUnique, SMT
<1> QED
  BY <1>1, <1>2, <1>3

\* Reducing one summand first does not change the index.
LEMMA ModStepThenAdd ==
  ASSUME NEW N \in Nat \ {0}, NEW i \in 0 .. N - 1, NEW k \in Nat
  PROVE  (((i + 1) % N) + k) % N = (i + 1 + k) % N
<1>1. CASE i = N - 1
  <2>1. (i + 1) % N = 0
    <3>1. i % N = i
      BY SMT
    <3> QED
      BY <1>1, <3>1, ModSuccessor, SMT
  <2>2. i + 1 + k = k + N
    BY <1>1, SMT
  <2>3. (k + N) % N = k % N
    BY ModPlusN
  <2>4. 0 + k = k
    OBVIOUS
  <2> QED
    BY <2>1, <2>2, <2>3, <2>4
<1>2. CASE i # N - 1
  <2>1. (i + 1) % N = i + 1
    BY <1>2, SMT
  <2> QED
    BY <2>1
<1> QED
  BY <1>1, <1>2

\* Two indices less than N apart from the same one: wrapped once at most, distinct.
LEMMA ModWrap ==
  ASSUME NEW N \in Nat \ {0}, NEW i \in 0 .. N - 1, NEW k \in 0 .. N - 1
  PROVE  (i + k) % N = IF i + k < N THEN i + k ELSE i + k - N
<1>1. CASE i + k < N
  <2>1. i + k \in 0 .. N - 1 /\ N * 0 = 0
    BY <1>1, SMT
  <2>2. (N * 0 + (i + k)) % N = i + k
    BY <2>1, ModUnique, SMT
  <2> QED
    BY <1>1, <2>1, <2>2
<1>2. CASE i + k >= N
  <2>1. i + k - N \in 0 .. N - 1 /\ N * 1 = N
    BY <1>2, SMT
  <2>2. (N * 1 + (i + k - N)) % N = i + k - N
    BY <2>1, ModUnique, SMT
  <2>3. N * 1 + (i + k - N) = i + k
    BY <2>1, SMT
  <2> QED
    BY <1>2, <2>2, <2>3
<1> QED
  BY <1>1, <1>2

LEMMA ModDistinct ==
  ASSUME NEW N \in Nat \ {0}, NEW i \in 0 .. N - 1,
         NEW j \in 0 .. N - 1, NEW k \in 0 .. N - 1, j # k
  PROVE  (i + j) % N # (i + k) % N
<1>1. (i + j) % N = IF i + j < N THEN i + j ELSE i + j - N
  BY ModWrap
<1>2. (i + k) % N = IF i + k < N THEN i + k ELSE i + k - N
  BY ModWrap
<1> QED
  BY <1>1, <1>2

-----------------------------------------------------------------------------
LEMMA SlotNext ==
  ASSUME NEW s \in Slots
  PROVE  NextSlot(s) \in Slots
BY TaskingAssumption, SMT DEF Slots, NextSlot

LEMMA EntryTypes ==
  /\ NoProc \in Entry
  /\ \A s \in Slots : process_queue \in [Slots -> Entry] =>
       /\ process_queue[s] \in Entry
       /\ process_queue[s].pid \in Nat
       /\ process_queue[s].kernel_stack \in Nat
BY DEF NoProc, Entry

\* A PCB stays one when a pid or a stack top is stored in it.
LEMMA EntryUpdates ==
  ASSUME NEW e \in Entry, NEW n \in Nat
  PROVE  /\ [e EXCEPT !.pid = n] \in Entry
         /\ [e EXCEPT !.user_stack = n] \in Entry
         /\ [e EXCEPT !.kernel_stack = n] \in Entry
         /\ e.pid \in Nat /\ e.user_stack \in Nat /\ e.kernel_stack \in Nat
BY DEF Entry

LEMMA Sizes ==
  /\ MAX_PROCESSES \in Nat /\ MAX_PROCESSES > 1
  /\ MAX_QUEUED_PROCESSES \in Nat /\ MAX_QUEUED_PROCESSES > 0
  /\ PCB_ROOM \in Nat /\ PCB_ROOM > 0
  /\ \A n \in Nat : n + USER_STACK_SIZE \in Nat
  /\ \A n \in Nat : n + KERNEL_INT_STACK_SIZE \in Nat
BY TaskingAssumption

LEMMA AssembleType ==
  ASSUME pkt_i \in 0 .. PacketSize - 1, NEW sync \in BOOLEAN
  PROVE  Assemble(sync) \in 0 .. PacketSize - 1
<1>1. (pkt_i + 1) % 3 \in 0 .. 2
  BY SMT DEF PacketSize
<1>2. CASE pkt_i = 0 /\ ~sync
  BY <1>2, SMT DEF Assemble, PacketSize
<1>3. CASE ~(pkt_i = 0 /\ ~sync)
  BY <1>1, <1>3 DEF Assemble, PacketSize
<1> QED
  BY <1>2, <1>3

LEMMA TakeByteType ==
  ASSUME pkt_i \in 0 .. PacketSize - 1, TakeByte
  PROVE  aux' \in BOOLEAN /\ pkt_i' \in 0 .. PacketSize - 1
<1>1. PICK sync \in BOOLEAN : pkt_i' = Assemble(sync)
  BY DEF TakeByte
<1>2. Assemble(sync) \in 0 .. PacketSize - 1
  BY AssembleType
<1> QED
  BY <1>1, <1>2 DEF TakeByte

LEMMA InitInv == Init => IInv
<1> SUFFICES ASSUME Init PROVE IInv
  OBVIOUS
<1>1. TypeOK
  <2>1. started \in Seq(Nat)
    BY DEF Init
  <2>2. 0 \in Slots /\ 1 \in 1 .. MAX_PROCESSES
    BY TaskingAssumption DEF Slots
  <2>3. process_table \in [Pids -> Entry] /\ process_queue \in [Slots -> Entry]
    BY EntryTypes DEF Init
  <2>4. /\ pc \in Labels /\ running \in Entry /\ new \in Entry
        /\ current_pid \in Nat \cup {-1}
    BY EntryTypes DEF Init, Labels
  <2>5. next_stack_top \in Nat /\ next_kernel_stack_top \in Nat /\ esp0 \in Nat
    BY TaskingAssumption DEF Init
  <2>6. pcbs \in 0 .. PCB_ROOM /\ queue_count \in 0 .. MAX_QUEUED_PROCESSES
    BY Sizes DEF Init
  <2>7. 0 \in 0 .. PacketSize - 1
    BY DEF PacketSize
  <2> QED
    BY <2>1, <2>2, <2>3, <2>4, <2>5, <2>6, <2>7 DEF Init, TypeOK
<1>2. Guarded
  BY DEF Init, Guarded, AddSteps, FieldOf
<1> QED
  BY <1>1, <1>2 DEF IInv

LEMMA StepInv == IInv /\ [Next]_vars => IInv'
<1> SUFFICES ASSUME IInv, [Next]_vars PROVE IInv'
  OBVIOUS
<1> USE TaskingAssumption, EntryTypes DEF IInv
<1> USE DEF Step
<1>1. CASE CreateSysman
  <2>1. next_pid = 1 /\ pcbs = 0 /\ next_pid \in Nat
    BY <1>1 DEF CreateSysman, Guarded
  <2>2. process_table' \in [Pids -> Entry]
    <3>1. 1 \in Pids
      BY Sizes DEF Pids
    <3>2. [process_table[1] EXCEPT !.pid = 1] \in Entry
      BY <3>1, EntryUpdates DEF TypeOK
    <3> QED
      BY <1>1, <2>1, <3>1, <3>2 DEF CreateSysman, TypeOK
  <2>3. new' \in Entry
    BY <1>1, <2>1 DEF CreateSysman, TypeOK, Entry, NoProc
  <2>4. /\ next_pid' \in 1 .. MAX_PROCESSES /\ pcbs' \in 0 .. PCB_ROOM
        /\ next_stack_top' \in Nat /\ next_kernel_stack_top' \in Nat
    <3>1. next_pid' = 2 /\ pcbs' = 1
      BY <1>1, <2>1 DEF CreateSysman
    <3>2. /\ next_stack_top' = next_stack_top + USER_STACK_SIZE
          /\ next_kernel_stack_top' = next_kernel_stack_top + KERNEL_INT_STACK_SIZE
          /\ next_stack_top \in Nat /\ next_kernel_stack_top \in Nat
      BY <1>1 DEF CreateSysman, TypeOK, KernelStackAfter
    <3> QED
      BY <3>1, <3>2, Sizes
  <2>5. pc' \in Labels /\ pc' \notin AddSteps
    BY <1>1 DEF CreateSysman, Labels, AddSteps, FieldOf
  <2> QED
    BY <1>1, <2>2, <2>3, <2>4, <2>5 DEF CreateSysman, TypeOK, Guarded, ringVars,
      hwVars, histVars, tornVars
<1>2. CASE SysmanSwitch
  <2>1. new.pid \in Nat /\ NoProc \in Entry
    BY EntryUpdates, EntryTypes DEF TypeOK
  <2>2. started' \in Seq(Nat)
    BY <1>2, <2>1 DEF SysmanSwitch, TypeOK
  <2>3. pc' \in Labels /\ pc' \notin AddSteps
    BY <1>2 DEF SysmanSwitch, Labels, AddSteps, FieldOf
  <2> QED
    BY <1>2, <2>1, <2>2, <2>3 DEF SysmanSwitch, TypeOK, Guarded, pmVars, ringVars,
      hwVars, tornVars
<1>3. CASE Syscall
  <2>1. new' \in Entry
    BY <1>3 DEF Syscall, TypeOK, Entry, NoProc
  <2> QED
    BY <1>3, <2>1 DEF Syscall, TypeOK, Guarded, Labels, CreateSteps, AddSteps,
      FieldOf, TickSteps, PollSteps, pmVars, ringVars, sysVars, cpuVars, hwVars,
      histVars, tornVars
<1>4. CASE Return
  <2>1. 0 \in Slots
    BY DEF Slots
  <2> QED
    BY <1>4, <2>1 DEF Return, TypeOK, Guarded, Labels, AddSteps, FieldOf, pmVars,
      ringVars, hwVars, histVars, tornVars
<1>5. CASE CreateLimit
  BY <1>5 DEF CreateLimit, TypeOK, Guarded, Labels, CreateSteps, AddSteps, FieldOf,
      ringVars, sysVars, cpuVars, hwVars, histVars, tornVars
<1>6. CASE CreatePid
  <2>0. next_pid \in Nat /\ next_pid >= 1 /\ next_pid < MAX_PROCESSES
    BY SMTT(30), <1>6, Sizes DEF CreatePid, TypeOK, Guarded
  <2>1. new' \in Entry
    BY <1>6, <2>0, EntryUpdates DEF CreatePid, TypeOK
  <2>2. next_pid' \in 1 .. MAX_PROCESSES
    BY <1>6, <2>0, Sizes DEF CreatePid
  <2>3. pc' \in Labels /\ pc' \notin AddSteps
    BY <1>6 DEF CreatePid, Labels, CreateSteps, AddSteps, FieldOf
  <2> QED
    BY <1>6, <2>1, <2>2, <2>3 DEF CreatePid, TypeOK, Guarded, ringVars, sysVars,
      cpuVars, hwVars, histVars, tornVars
<1>7. CASE CreateUserStack
  <2>1. new' \in Entry
    BY <1>7, EntryUpdates DEF CreateUserStack, TypeOK
  <2>2. next_stack_top' \in Nat
    BY <1>7, Sizes DEF CreateUserStack, TypeOK
  <2>3. pc' \in Labels /\ pc' \notin AddSteps
    BY <1>7 DEF CreateUserStack, Labels, CreateSteps, AddSteps, FieldOf
  <2> QED
    BY <1>7, <2>1, <2>2, <2>3 DEF CreateUserStack, TypeOK, Guarded, ringVars, sysVars,
      cpuVars, hwVars, histVars, tornVars
<1>8. CASE CreateKernelStack
  <2>1. new' \in Entry
    BY <1>8, EntryUpdates DEF CreateKernelStack, TypeOK
  <2>2. next_kernel_stack_top' \in Nat
    BY <1>8, Sizes DEF CreateKernelStack, TypeOK, KernelStackAfter
  <2>3. pc' \in Labels /\ pc' \notin AddSteps
    BY <1>8 DEF CreateKernelStack, Labels, CreateSteps, AddSteps, FieldOf
  <2> QED
    BY <1>8, <2>1, <2>2, <2>3 DEF CreateKernelStack, TypeOK, Guarded, ringVars, sysVars,
      cpuVars, hwVars, histVars, tornVars
<1>9. CASE CreateTable
  <2>1. process_table' \in [Pids -> Entry]
    BY <1>9 DEF CreateTable, TypeOK
  <2>2. dropped' \subseteq Nat
    BY <1>9 DEF CreateTable, TypeOK, Entry
  <2> QED
    BY <1>9, <2>1, <2>2 DEF CreateTable, TypeOK, Guarded, Labels, CreateSteps,
      AddSteps, FieldOf, ringVars, sysVars, cpuVars, hwVars, tornVars, QueueFull
<1>10. CASE AddField
  <2>1. PICK l \in DOMAIN FieldOf :
          /\ pc = l /\ pc' = AfterField[l]
          /\ process_queue' = [process_queue EXCEPT
                                 ![queue_tail][FieldOf[l]] = new[FieldOf[l]]]
          /\ UNCHANGED <<pmVars, queue_head, queue_tail, queue_count, sysVars,
                         histVars, new>>
    BY <1>10 DEF AddField, SlotToFill
  <2>2. l \in {"add_pid", "add_entry", "add_ustack", "add_kstack"}
    BY DEF FieldOf
  <2>3. process_queue' \in [Slots -> Entry]
    <3>1. CASE l = "add_pid"
      BY ZenonT(60), <2>1, <3>1 DEF FieldOf, TypeOK, Entry
    <3>2. CASE l = "add_entry"
      BY ZenonT(60), <2>1, <3>2 DEF FieldOf, TypeOK, Entry
    <3>3. CASE l = "add_ustack"
      BY ZenonT(60), <2>1, <3>3 DEF FieldOf, TypeOK, Entry
    <3>4. CASE l = "add_kstack"
      BY ZenonT(60), <2>1, <3>4 DEF FieldOf, TypeOK, Entry
    <3> QED
      BY <2>2, <3>1, <3>2, <3>3, <3>4
  <2>4. pc \in AddSteps /\ pc' \in AddSteps /\ pc' \in Labels
        /\ pc' \notin {"boot", "create_pid", "tick_head", "tick_count"}
    BY <2>1, <2>2 DEF FieldOf, AfterField, AddSteps, Labels
  <2> QED
    BY <2>1, <2>3, <2>4 DEF TypeOK, Guarded, pmVars, sysVars, cpuVars, hwVars,
      histVars, tornVars
<1>11. CASE AddTail
  BY <1>11, SlotNext DEF AddTail, TypeOK, Guarded, Labels, AddSteps, FieldOf,
      pmVars, sysVars, cpuVars, hwVars, histVars, tornVars
<1>12. CASE AddCount
  BY <1>12 DEF AddCount, TypeOK, Guarded, Labels, AddSteps, FieldOf,
      pmVars, sysVars, cpuVars, hwVars, histVars, tornVars
<1>13. CASE TickTake
  <2>1. esp0' \in Nat /\ proc' \in Slots
    BY <1>13 DEF TickTake, TypeOK, TssStack
  <2> QED
    BY <1>13, <2>1 DEF TickTake, TypeOK, Guarded, Labels, TickSteps, AddSteps,
      FieldOf, SomeQueued, pmVars, ringVars, hwVars, histVars, tornVars
<1>14. CASE TickHead
  BY <1>14, SlotNext DEF TickHead, TypeOK, Guarded, Labels, TickSteps, AddSteps,
      FieldOf, pmVars, sysVars, cpuVars, hwVars, histVars, tornVars
<1>15. CASE TickCount
  BY <1>15 DEF TickCount, TypeOK, Guarded, Labels, TickSteps, AddSteps, FieldOf,
      CountAfterTake, pmVars, sysVars, cpuVars, hwVars, histVars, tornVars
<1>16. CASE TickSwitch
  <2>1. /\ current_pid' \in Nat /\ running' \in Entry /\ 0 \in Slots
        /\ started' \in Seq(Nat)
    BY <1>16 DEF TickSwitch, TypeOK, Slots
  <2> QED
    BY <1>16, <2>1 DEF TickSwitch, TypeOK, Guarded, Labels, AddSteps, FieldOf,
      pmVars, ringVars, hwVars, tornVars
<1>17. CASE TickReturns
  <2>1. irr' \subseteq {TIMER, MOUSE} /\ isr' \subseteq {TIMER}
    BY <1>17 DEF TickReturns, TypeOK, NonSpecificEOI
  <2> QED
    BY <1>17, <2>1 DEF TickReturns, TypeOK, Guarded, pmVars, ringVars, cpuVars,
      histVars, tornVars
<1>18. CASE TickDispatches
  <2>1. /\ current_pid' \in Nat /\ running' \in Entry /\ 0 \in Slots
        /\ started' \in Seq(Nat) /\ esp0' \in Nat
    BY <1>18 DEF TickDispatches, TypeOK, Slots, TssStack
  <2>2. lost' \subseteq Nat
    BY <1>18 DEF TickDispatches, TypeOK, InHand, Taken, Entry
  <2>3. queue_head' \in Slots /\ queue_count' \in 0 .. MAX_QUEUED_PROCESSES
    BY <1>18, SlotNext DEF TickDispatches, TypeOK, SomeQueued, CountAfterTake
  <2>4. irr' \subseteq {TIMER, MOUSE} /\ isr' \subseteq {TIMER}
    BY <1>18 DEF TickDispatches, TypeOK
  <2> QED
    BY SMTT(30), <1>18, <2>1, <2>2, <2>3, <2>4 DEF TickDispatches, TypeOK, Guarded, Labels,
      AddSteps, FieldOf, pmVars
<1>19. CASE MouseInterrupt
  <2>1. isr = {}
    BY <1>19 DEF MouseInterrupt, TypeOK, Deliverable, Blocked, TIMER, MOUSE
  <2>2. irr' \subseteq {TIMER, MOUSE} /\ isr' \subseteq {TIMER}
    BY <1>19, <2>1 DEF MouseInterrupt, TypeOK, NonSpecificEOI, MOUSE
  <2>3. aux' \in BOOLEAN /\ pkt_i' \in 0 .. PacketSize - 1
    <3>1. CASE aux
      BY <1>19, <3>1, TakeByteType DEF MouseInterrupt, TypeOK
    <3>2. CASE ~aux
      BY <1>19, <3>2 DEF MouseInterrupt, TypeOK
    <3> QED
      BY <3>1, <3>2
  <2> QED
    BY <1>19, <2>2, <2>3 DEF MouseInterrupt, TypeOK, Guarded, pmVars, ringVars,
      cpuVars, histVars, tornVars
<1>20. CASE PollRead
  <2>1. aux' \in BOOLEAN /\ pkt_i' \in 0 .. PacketSize - 1
    <3>1. CASE aux
      BY <1>20, <3>1, TakeByteType DEF PollRead, TypeOK
    <3>2. CASE ~aux
      BY <1>20, <3>2 DEF PollRead, TypeOK
    <3> QED
      BY <3>1, <3>2
  <2>2. pc' \in {"poll_eoi", "return"}
    BY <1>20 DEF PollRead
  <2> QED
    BY <1>20, <2>1, <2>2 DEF PollRead, TypeOK, Guarded, Labels, PollSteps,
      AddSteps, FieldOf, pmVars, ringVars, cpuVars, histVars, tornVars
<1>21. CASE PollEOI
  <2>1. isr' \subseteq {TIMER}
    BY <1>21 DEF PollEOI, TypeOK, NonSpecificEOI
  <2> QED
    BY <1>21, <2>1 DEF PollEOI, TypeOK, Guarded, Labels, AddSteps, FieldOf,
      pmVars, ringVars, cpuVars, histVars, tornVars
<1>22. CASE TimerFires
  BY <1>22 DEF TimerFires, TypeOK, Guarded, pmVars, ringVars, cpuVars, histVars,
      tornVars
<1>23. CASE MouseSends
  BY <1>23 DEF MouseSends, TypeOK, Guarded, pmVars, ringVars, cpuVars, histVars,
      tornVars
<1>24. CASE UNCHANGED vars
  BY <1>24 DEF vars, TypeOK, Guarded, pmVars, ringVars, sysVars, cpuVars, hwVars,
      histVars, tornVars
<1> QED
  BY <1>1, <1>2, <1>3, <1>4, <1>5, <1>6, <1>7, <1>8, <1>9, <1>10, <1>11, <1>12,
     <1>13, <1>14, <1>15, <1>16, <1>17, <1>18, <1>19, <1>20, <1>21, <1>22, <1>23,
     <1>24
  DEF Next, Kernel, Create, Add, Yield, Poll

\* The indices and the count of the ready queue stay in bounds, no pid beyond the
\* process table is drawn, and no interrupt but the timer's stays in service.
THEOREM TypeCorrect == Spec => []TypeOK
<1>1. IInv => TypeOK
  BY DEF IInv
<1> QED
  BY <1>1, InitInv, StepInv, PTL DEF Spec

-----------------------------------------------------------------------------
(***************************************************************************)
(* The ready queue.  Both sides of RingAgrees move together: an action     *)
(* adds one to both, takes one from both, or leaves both as they are.      *)
(***************************************************************************)
HeadSide == queue_head + queue_count + torn_adds + Adding
TailSide == queue_tail + torn_takes + Taking

LEMMA SidesType ==
  ASSUME IInv
  PROVE  /\ HeadSide \in Nat /\ TailSide \in Nat
         /\ queue_head \in Nat /\ queue_tail \in Nat /\ queue_count \in Nat
         /\ torn_adds \in Nat /\ torn_takes \in Nat
         /\ Adding \in {0, 1} /\ Taking \in {0, 1}
<1>1. /\ queue_head \in Nat /\ queue_tail \in Nat /\ queue_count \in Nat
      /\ torn_adds \in Nat /\ torn_takes \in Nat
  BY Sizes DEF IInv, TypeOK, Slots
<1>2. Adding \in {0, 1} /\ Taking \in {0, 1}
  BY DEF Adding, Taking
<1> QED
  BY <1>1, <1>2 DEF HeadSide, TailSide

\* A statement that touches neither the ring nor its counts of tears.
LEMMA SidesKept ==
  ASSUME RingAgrees,
         UNCHANGED <<queue_head, queue_tail, queue_count, torn_adds, torn_takes>>,
         \/ pc' = pc
         \/ /\ pc \notin {"add_count", "tick_count"}
            /\ pc' \notin {"add_count", "tick_count"}
  PROVE  RingAgrees'
BY DEF RingAgrees, Adding, Taking

LEMMA RingInit == Init => RingAgrees
BY DEF Init, RingAgrees, Adding, Taking

LEMMA RingStep == IInv /\ RingAgrees /\ [Next]_vars => RingAgrees'
<1> SUFFICES ASSUME IInv, RingAgrees, [Next]_vars PROVE RingAgrees'
  OBVIOUS
<1> DEFINE N == MAX_QUEUED_PROCESSES
<1>a. N \in Nat \ {0} /\ queue_head \in 0 .. N - 1 /\ queue_tail \in 0 .. N - 1
  BY TaskingAssumption DEF IInv, TypeOK, Slots
<1>b. HeadSide % N = TailSide % N
  BY DEF RingAgrees, HeadSide, TailSide
<1>c. (RingAgrees)' <=> HeadSide' % N = TailSide' % N
  BY DEF RingAgrees, HeadSide, TailSide
<1>d. (HeadSide + 1) % N = (TailSide + 1) % N
  BY <1>a, <1>b, SidesType, ModStepBoth
<1> HIDE DEF N
<1> USE DEF Step
<1>1. CASE AddTail
  <2>1. HeadSide' = HeadSide + 1
    BY <1>1, SidesType DEF AddTail, HeadSide, Adding, tornVars, histVars
  <2>2. TailSide' = ((queue_tail + 1) % N) + torn_takes
    BY <1>1, SidesType DEF AddTail, TailSide, Taking, NextSlot, tornVars, histVars, N
  <2>3. TailSide + 1 = queue_tail + 1 + torn_takes
    BY <1>1, SidesType DEF AddTail, TailSide, Taking
  <2>4. TailSide' % N = (TailSide + 1) % N
    BY <1>a, <2>2, <2>3, SidesType, ModStepThenAdd
  <2> QED
    BY <1>c, <1>d, <2>1, <2>4
<1>2. CASE AddCount
  <2>1. HeadSide' = HeadSide /\ TailSide' = TailSide
    BY <1>2, SidesType DEF AddCount, HeadSide, TailSide, Adding, Taking, tornVars,
      histVars
  <2> QED
    BY <1>b, <1>c, <2>1
<1>3. CASE TickHead
  <2>1. TailSide' = TailSide + 1
    BY <1>3, SidesType DEF TickHead, TailSide, Taking, tornVars, histVars
  <2>2. HeadSide' = ((queue_head + 1) % N) + (queue_count + torn_adds)
    BY <1>3, <1>a, SidesType DEF TickHead, HeadSide, Adding, NextSlot, tornVars,
      histVars, N
  <2>3. HeadSide + 1 = queue_head + 1 + (queue_count + torn_adds)
    BY <1>3, SidesType DEF TickHead, HeadSide, Adding
  <2>4. queue_count + torn_adds \in Nat
    BY SidesType
  <2>5. HeadSide' % N = (HeadSide + 1) % N
    BY <1>a, <2>2, <2>3, <2>4, ModStepThenAdd
  <2> QED
    BY <1>c, <1>d, <2>1, <2>5
<1>4. CASE TickCount
  <2>1. queue_count > 0
    BY <1>4 DEF TickCount, IInv, Guarded
  <2>2. HeadSide' \in Nat /\ HeadSide' + 1 = HeadSide
    BY <1>4, <2>1, SidesType DEF TickCount, HeadSide, Adding, CountAfterTake,
      tornVars, histVars
  <2>3. TailSide' \in Nat /\ TailSide' + 1 = TailSide
    BY <1>4, SidesType DEF TickCount, TailSide, Taking, tornVars, histVars
  <2> QED
    BY <1>a, <1>b, <1>c, <2>2, <2>3, ModStepBoth
<1>5. CASE TickDispatches
  <2>1. queue_count > 0
    BY <1>5 DEF TickDispatches, SomeQueued
  <2>2. torn_adds' = torn_adds + Adding /\ torn_takes' = torn_takes + Taking
    BY <1>5, SidesType DEF TickDispatches, Adding, Taking
  <2>3. Adding' = 0 /\ Taking' = 0
    BY <1>5 DEF TickDispatches, Adding, Taking
  <2>4. TailSide' = TailSide
    BY <1>5, <2>2, <2>3, SidesType DEF TickDispatches, TailSide
  <2>5. HeadSide' = ((queue_head + 1) % N) + (queue_count - 1 + torn_adds + Adding)
    <3>1. queue_head' = (queue_head + 1) % N /\ queue_count' = queue_count - 1
      BY <1>5 DEF TickDispatches, CountAfterTake, NextSlot, N
    <3>2. (queue_head + 1) % N \in Nat
      BY <1>a, SMT
    <3> QED
      BY <2>1, <2>2, <2>3, <3>1, <3>2, SidesType DEF HeadSide
  <2>6. HeadSide = queue_head + 1 + (queue_count - 1 + torn_adds + Adding)
    BY SidesType DEF HeadSide
  <2>7. queue_count - 1 + torn_adds + Adding \in Nat
    BY <2>1, SidesType
  <2>8. HeadSide' % N = HeadSide % N
    BY <1>a, <2>5, <2>6, <2>7, ModStepThenAdd
  <2> QED
    BY <1>b, <1>c, <2>4, <2>8
<1>6. CASE AddField
  <2>1. PICK l \in DOMAIN FieldOf :
          /\ pc = l /\ pc' = AfterField[l]
          /\ UNCHANGED <<queue_head, queue_tail, queue_count, torn_adds, torn_takes>>
    BY <1>6 DEF AddField, histVars, tornVars
  <2>2. pc \notin {"add_count", "tick_count"} /\ pc' \notin {"add_count", "tick_count"}
    BY <2>1 DEF FieldOf, AfterField
  <2> QED
    BY <2>1, <2>2, SidesKept
<1>7. CASE CreateSysman \/ SysmanSwitch \/ Create \/ Return \/ Syscall \/ Poll
  <2>1. /\ UNCHANGED <<ringVars, tornVars>>
        /\ pc \notin {"add_count", "tick_count"}
        /\ pc' \notin {"add_count", "tick_count"}
    BY <1>7 DEF CreateSysman, SysmanSwitch, Create, CreateLimit, CreatePid,
      CreateUserStack, CreateKernelStack, CreateTable, Return, Syscall, Poll,
      PollRead, PollEOI, histVars
  <2> QED
    BY <2>1, SidesKept DEF ringVars, tornVars
<1>8. CASE TickTake \/ TickSwitch
  <2>1. /\ UNCHANGED <<ringVars, tornVars>>
        /\ pc \notin {"add_count", "tick_count"}
        /\ pc' \notin {"add_count", "tick_count"}
    BY <1>8 DEF TickTake, TickSwitch, histVars
  <2> QED
    BY <2>1, SidesKept DEF ringVars, tornVars
<1>9. CASE TickReturns \/ MouseInterrupt \/ TimerFires \/ MouseSends \/ UNCHANGED vars
  <2>1. UNCHANGED <<ringVars, tornVars, pc>>
    BY <1>9 DEF TickReturns, MouseInterrupt, TimerFires, MouseSends, vars, histVars
  <2> QED
    BY <2>1, SidesKept DEF ringVars, tornVars
<1> QED
  BY <1>1, <1>2, <1>3, <1>4, <1>5, <1>6, <1>7, <1>8, <1>9 DEF Next, Kernel, Add, Yield

\* queue_head, queue_tail and queue_count tell the same story for every size of
\* the queue: they differ by exactly the calls that a tick abandoned between an
\* index and the count.
THEOREM RingAlwaysAgrees == Spec => []RingAgrees
<1> QED
  BY InitInv, StepInv, RingInit, RingStep, PTL DEF Spec

-----------------------------------------------------------------------------
(***************************************************************************)
(* The stacks.  Both stack tops only grow, by at least one, so a top drawn *)
(* now is above every top in the table; it stays different from them while *)
(* process_create holds it, whatever becomes of the creation.              *)
(***************************************************************************)
HasStack(p) == process_table[p].kernel_stack # 0

TopsBelowNext ==
  \A p \in Pids : HasStack(p) =>
    /\ process_table[p].user_stack < next_stack_top
    /\ process_table[p].kernel_stack < next_kernel_stack_top

NewUserStack ==
  pc \in {"create_kstack", "create_table"} =>
    /\ new.user_stack < next_stack_top
    /\ \A p \in Pids : HasStack(p) => process_table[p].user_stack # new.user_stack

NewKernelStack ==
  pc = "create_table" =>
    /\ new.kernel_stack < next_kernel_stack_top
    /\ \A p \in Pids : HasStack(p) => process_table[p].kernel_stack # new.kernel_stack

StackInv == TopsBelowNext /\ NewUserStack /\ NewKernelStack /\ StackTopsUnique

LEMMA StackInit == Init => StackInv
BY DEF Init, StackInv, TopsBelowNext, NewUserStack, NewKernelStack, StackTopsUnique,
    HasStack, NoProc

\* A statement that draws no stack and stores none.
LEMMA StacksKept ==
  ASSUME StackInv,
         UNCHANGED <<process_table, next_stack_top, next_kernel_stack_top>>,
         \/ UNCHANGED <<pc, new>>
         \/ pc' \notin {"create_kstack", "create_table"}
  PROVE  StackInv'
BY DEF StackInv, TopsBelowNext, NewUserStack, NewKernelStack, StackTopsUnique, HasStack

LEMMA StackStep == IInv /\ StackInv /\ [Next]_vars => StackInv'
<1> SUFFICES ASSUME IInv, StackInv, [Next]_vars PROVE StackInv'
  OBVIOUS
<1>a. /\ next_stack_top \in Nat /\ next_kernel_stack_top \in Nat
      /\ process_table \in [Pids -> Entry]
      /\ new.user_stack \in Nat /\ new.kernel_stack \in Nat
  BY DEF IInv, TypeOK, Entry
<1>b. \A p \in Pids : /\ process_table[p].user_stack \in Nat
                      /\ process_table[p].kernel_stack \in Nat
  BY <1>a DEF Entry
<1>c. /\ next_stack_top + USER_STACK_SIZE > next_stack_top
      /\ next_kernel_stack_top + KERNEL_INT_STACK_SIZE > next_kernel_stack_top
      /\ next_stack_top + USER_STACK_SIZE \in Nat
      /\ next_kernel_stack_top + KERNEL_INT_STACK_SIZE \in Nat
  BY <1>a, TaskingAssumption
<1> USE DEF Step
<1>1. CASE CreateSysman
  <2>1. \A p \in Pids : /\ process_table'[p].user_stack = process_table[p].user_stack
                        /\ process_table'[p].kernel_stack = process_table[p].kernel_stack
    BY <1>1, <1>a DEF CreateSysman, Entry
  <2>2. /\ next_stack_top' = next_stack_top + USER_STACK_SIZE
        /\ next_kernel_stack_top' = next_kernel_stack_top + KERNEL_INT_STACK_SIZE
        /\ pc' = "sysman_switch"
    BY <1>1 DEF CreateSysman, KernelStackAfter
  <2>3. TopsBelowNext'
    BY <2>1, <2>2, <1>b, <1>c, <1>a DEF StackInv, TopsBelowNext, HasStack
  <2>4. StackTopsUnique'
    BY <2>1 DEF StackInv, StackTopsUnique
  <2> QED
    BY <2>2, <2>3, <2>4 DEF StackInv, NewUserStack, NewKernelStack
<1>2. CASE CreateUserStack
  <2>1. /\ UNCHANGED <<process_table, next_kernel_stack_top>>
        /\ next_stack_top' = next_stack_top + USER_STACK_SIZE
        /\ pc' = "create_kstack" /\ new' = [new EXCEPT !.user_stack = next_stack_top]
    BY <1>2 DEF CreateUserStack
  <2>2. new'.user_stack = next_stack_top
    BY <2>1 DEF IInv, TypeOK, Entry
  <2>3. TopsBelowNext'
    BY <2>1, <1>a, <1>b, <1>c DEF StackInv, TopsBelowNext, HasStack
  <2>4. NewUserStack'
    BY <2>1, <2>2, <1>a, <1>b, <1>c DEF StackInv, TopsBelowNext, NewUserStack, HasStack
  <2> QED
    BY <2>1, <2>3, <2>4 DEF StackInv, NewKernelStack, StackTopsUnique
<1>3. CASE CreateKernelStack
  <2>1. /\ UNCHANGED <<process_table, next_stack_top>>
        /\ next_kernel_stack_top' = next_kernel_stack_top + KERNEL_INT_STACK_SIZE
        /\ pc = "create_kstack" /\ pc' = "create_table"
        /\ new' = [new EXCEPT !.kernel_stack = next_kernel_stack_top]
    BY <1>3 DEF CreateKernelStack, KernelStackAfter
  <2>2. new'.kernel_stack = next_kernel_stack_top /\ new'.user_stack = new.user_stack
    BY <2>1 DEF IInv, TypeOK, Entry
  <2>3. TopsBelowNext'
    BY <2>1, <1>a, <1>b, <1>c DEF StackInv, TopsBelowNext, HasStack
  <2>4. NewUserStack'
    BY <2>1, <2>2 DEF StackInv, NewUserStack, HasStack
  <2>5. NewKernelStack'
    BY <2>1, <2>2, <1>a, <1>b, <1>c DEF StackInv, TopsBelowNext, NewKernelStack, HasStack
  <2> QED
    BY <2>1, <2>3, <2>4, <2>5 DEF StackInv, StackTopsUnique
<1>4. CASE CreateTable
  <2>1. /\ UNCHANGED <<next_stack_top, next_kernel_stack_top, new>>
        /\ pc = "create_table" /\ pc' \in {"add_pid", "return"}
        /\ process_table' = [process_table EXCEPT ![new.pid] = new]
    BY <1>4 DEF CreateTable
  <2>2. \A p \in Pids : process_table'[p] = IF p = new.pid THEN new ELSE process_table[p]
    BY <2>1, <1>a
  <2>3. TopsBelowNext'
    BY <2>1, <2>2 DEF StackInv, TopsBelowNext, NewUserStack, NewKernelStack, HasStack
  <2>4. StackTopsUnique'
    BY <2>1, <2>2 DEF StackInv, StackTopsUnique, NewUserStack, NewKernelStack, HasStack
  <2> QED
    BY <2>1, <2>3, <2>4 DEF StackInv, NewUserStack, NewKernelStack
<1>5. CASE AddField
  <2>1. PICK l \in DOMAIN FieldOf : pc' = AfterField[l] /\ UNCHANGED pmVars
    BY <1>5 DEF AddField
  <2>2. pc' \notin {"create_kstack", "create_table"}
    BY <2>1 DEF FieldOf, AfterField
  <2> QED
    BY <2>1, <2>2, StacksKept DEF pmVars
<1>6. CASE CreateLimit \/ CreatePid \/ Syscall \/ SysmanSwitch \/ Return \/ Poll
  <2>1. /\ UNCHANGED <<process_table, next_stack_top, next_kernel_stack_top>>
        /\ pc' \notin {"create_kstack", "create_table"}
    BY <1>6 DEF CreateLimit, CreatePid, Syscall, SysmanSwitch, Return, Poll, PollRead,
      PollEOI, pmVars
  <2> QED
    BY <2>1, StacksKept
<1>7. CASE AddTail \/ AddCount \/ Yield \/ TickDispatches
  <2>1. /\ UNCHANGED <<process_table, next_stack_top, next_kernel_stack_top>>
        /\ pc' \notin {"create_kstack", "create_table"}
    BY <1>7 DEF AddTail, AddCount, Yield, TickTake, TickHead, TickCount, TickSwitch,
      TickDispatches, pmVars
  <2> QED
    BY <2>1, StacksKept
<1>8. CASE TickReturns \/ MouseInterrupt \/ TimerFires \/ MouseSends \/ UNCHANGED vars
  <2>1. UNCHANGED <<process_table, next_stack_top, next_kernel_stack_top, pc, new>>
    BY <1>8 DEF TickReturns, MouseInterrupt, TimerFires, MouseSends, vars, pmVars
  <2> QED
    BY <2>1, StacksKept
<1> QED
  BY <1>1, <1>2, <1>3, <1>4, <1>5, <1>6, <1>7, <1>8 DEF Next, Kernel, Create, Add

\* No two processes in the table share a stack top, for any sizes of the table
\* and of the stacks, and wherever a tick abandons a creation.
THEOREM StackTopsAlwaysUnique == Spec => []StackTopsUnique
<1>1. StackInv => StackTopsUnique
  BY DEF StackInv
<1> QED
  BY <1>1, InitInv, StepInv, StackInit, StackStep, PTL DEF Spec

-----------------------------------------------------------------------------
(***************************************************************************)
(* The kernel stacks and orbit.  process_create draws a pid before it      *)
(* draws a stack, and neither is given back: however many creations are    *)
(* abandoned between the two, as many stacks have been drawn as pids, or   *)
(* fewer, and one less still where the code is about to draw one.          *)
(***************************************************************************)
Drawing == pc \in {"create_ustack", "create_kstack"}

DrawnLessThanPids ==
  /\ next_kernel_stack_top <= KernelStackOf(next_pid)
  /\ Drawing => /\ new.pid = next_pid - 1 /\ new.pid \in Pids
                /\ next_kernel_stack_top <= KernelStackOf(new.pid)

StacksInPlace ==
  /\ \A p \in Pids : process_table[p].kernel_stack <= KernelStackOf(p)
  /\ pc = "create_table" => new.kernel_stack <= KernelStackOf(new.pid)

OrbitInv == DrawnLessThanPids /\ StacksInPlace

LEMMA NextStack ==
  ASSUME NEW n \in Nat \ {0}
  PROVE  /\ KernelStackOf(n) \in Nat
         /\ KernelStackOf(n + 1) = KernelStackOf(n) + KERNEL_INT_STACK_SIZE
<1>1. KERNEL_INT_STACK_BASE \in Nat /\ KERNEL_INT_STACK_SIZE \in Nat
  BY TaskingAssumption
<1>2. /\ (n - 1) * KERNEL_INT_STACK_SIZE \in Nat
      /\ ((n + 1) - 1) * KERNEL_INT_STACK_SIZE
           = (n - 1) * KERNEL_INT_STACK_SIZE + KERNEL_INT_STACK_SIZE
  BY <1>1, SMT
<1> QED
  BY <1>1, <1>2 DEF KernelStackOf

LEMMA OrbitInit == Init => OrbitInv
<1> SUFFICES ASSUME Init PROVE OrbitInv
  OBVIOUS
<1>1. \A p \in Pids : KernelStackOf(p) \in Nat /\ process_table[p].kernel_stack = 0
  <2>1. \A p \in Pids : p \in Nat \ {0}
    BY Sizes DEF Pids
  <2>2. \A p \in Pids : process_table[p].kernel_stack = 0
    BY DEF Init, NoProc
  <2> QED
    BY <2>1, <2>2, NextStack
<1>2. KernelStackOf(1) = KERNEL_INT_STACK_BASE /\ KERNEL_INT_STACK_BASE \in Nat
  BY TaskingAssumption DEF KernelStackOf
<1>3. next_kernel_stack_top = KERNEL_INT_STACK_BASE /\ next_pid = 1 /\ pc = "boot"
  BY DEF Init
<1> QED
  BY <1>1, <1>2, <1>3 DEF OrbitInv, DrawnLessThanPids, StacksInPlace, Drawing

\* A statement that draws neither pid nor stack and stores none.
LEMMA OrbitKept ==
  ASSUME OrbitInv,
         UNCHANGED <<process_table, next_kernel_stack_top, next_pid>>,
         \/ UNCHANGED <<pc, new>>
         \/ pc' \notin {"create_ustack", "create_kstack", "create_table"}
  PROVE  OrbitInv'
BY DEF OrbitInv, DrawnLessThanPids, StacksInPlace, Drawing

LEMMA OrbitStep == IInv /\ OrbitInv /\ [Next]_vars => OrbitInv'
<1> SUFFICES ASSUME IInv, OrbitInv, [Next]_vars PROVE OrbitInv'
  OBVIOUS
<1>a. /\ next_kernel_stack_top \in Nat /\ next_pid \in Nat \ {0}
      /\ next_pid <= MAX_PROCESSES
      /\ process_table \in [Pids -> Entry] /\ new \in Entry
  <2>1. next_pid \in 1 .. MAX_PROCESSES
    BY DEF IInv, TypeOK
  <2>2. /\ next_kernel_stack_top \in Nat
        /\ process_table \in [Pids -> Entry] /\ new \in Entry
    BY DEF IInv, TypeOK
  <2> QED
    BY <2>1, <2>2, Sizes
<1>b. /\ KERNEL_INT_STACK_SIZE \in Nat /\ KERNEL_INT_STACK_SIZE > 0
      /\ KernelStackOf(next_pid) \in Nat
      /\ KernelStackOf(next_pid + 1) = KernelStackOf(next_pid) + KERNEL_INT_STACK_SIZE
  BY <1>a, NextStack, TaskingAssumption
<1> USE DEF Step
<1>1. CASE CreateSysman
  <2>1. \A p \in Pids : process_table'[p].kernel_stack = process_table[p].kernel_stack
    BY <1>1, <1>a DEF CreateSysman, Entry
  <2>2. /\ next_kernel_stack_top' = next_kernel_stack_top + KERNEL_INT_STACK_SIZE
        /\ next_pid' = next_pid + 1 /\ pc' = "sysman_switch"
    BY <1>1 DEF CreateSysman, KernelStackAfter
  <2>3. next_kernel_stack_top' <= KernelStackOf(next_pid')
    BY <2>2, <1>a, <1>b DEF OrbitInv, DrawnLessThanPids
  <2> QED
    BY <2>1, <2>2, <2>3 DEF OrbitInv, DrawnLessThanPids, StacksInPlace, Drawing
<1>2. CASE CreatePid
  <2>1. /\ UNCHANGED <<process_table, next_kernel_stack_top>>
        /\ next_pid' = next_pid + 1 /\ pc = "create_pid" /\ pc' = "create_ustack"
        /\ new' = [new EXCEPT !.pid = next_pid]
    BY <1>2 DEF CreatePid
  <2>2. new'.pid = next_pid
    BY <2>1, <1>a DEF Entry
  <2>3. next_pid \in Pids
    BY <2>1, <1>a, Sizes DEF IInv, Guarded, Pids
  <2>4. next_kernel_stack_top <= KernelStackOf(next_pid)
    BY DEF OrbitInv, DrawnLessThanPids
  <2>5. next_kernel_stack_top <= KernelStackOf(next_pid + 1)
    BY <2>4, <1>a, <1>b
  <2>6. DrawnLessThanPids'
    BY <2>1, <2>2, <2>3, <2>4, <2>5, <1>a DEF DrawnLessThanPids
  <2> QED
    BY <2>1, <2>6 DEF OrbitInv, StacksInPlace
<1>3. CASE CreateUserStack
  <2>1. /\ UNCHANGED <<process_table, next_kernel_stack_top, next_pid>>
        /\ pc = "create_ustack" /\ pc' = "create_kstack" /\ new'.pid = new.pid
    BY <1>3, <1>a DEF CreateUserStack, Entry
  <2> QED
    BY <2>1 DEF OrbitInv, DrawnLessThanPids, StacksInPlace, Drawing
<1>4. CASE CreateKernelStack
  <2>1. /\ UNCHANGED <<process_table, next_pid>>
        /\ next_kernel_stack_top' = next_kernel_stack_top + KERNEL_INT_STACK_SIZE
        /\ pc = "create_kstack" /\ pc' = "create_table"
        /\ new' = [new EXCEPT !.kernel_stack = next_kernel_stack_top]
    BY <1>4 DEF CreateKernelStack, KernelStackAfter
  <2>2. new'.kernel_stack = next_kernel_stack_top /\ new'.pid = new.pid
    BY <2>1, <1>a DEF Entry
  <2>3. /\ new.pid = next_pid - 1 /\ new.pid \in Nat \ {0}
        /\ next_kernel_stack_top <= KernelStackOf(new.pid)
    BY <2>1, Sizes DEF OrbitInv, DrawnLessThanPids, Drawing, Pids
  <2>4. /\ KernelStackOf(new.pid) \in Nat
        /\ KernelStackOf(next_pid) = KernelStackOf(new.pid) + KERNEL_INT_STACK_SIZE
    <3>1. next_pid = new.pid + 1
      BY <2>3, <1>a
    <3> QED
      BY <2>3, <3>1, NextStack
  <2>5. next_kernel_stack_top' <= KernelStackOf(next_pid)
    BY <2>1, <2>3, <2>4, <1>a, <1>b
  <2> QED
    BY <2>1, <2>2, <2>3, <2>5 DEF OrbitInv, DrawnLessThanPids, StacksInPlace, Drawing
<1>5. CASE CreateTable
  <2>1. /\ UNCHANGED <<next_kernel_stack_top, next_pid, new>>
        /\ pc = "create_table" /\ pc' \in {"add_pid", "return"}
        /\ process_table' = [process_table EXCEPT ![new.pid] = new]
    BY <1>5 DEF CreateTable
  <2>2. \A p \in Pids : process_table'[p] = IF p = new.pid THEN new ELSE process_table[p]
    BY <2>1, <1>a
  <2>3. \A p \in Pids : process_table'[p].kernel_stack <= KernelStackOf(p)
    BY <2>1, <2>2 DEF OrbitInv, StacksInPlace
  <2> QED
    BY <2>1, <2>3 DEF OrbitInv, DrawnLessThanPids, StacksInPlace, Drawing
<1>6. CASE AddField
  <2>1. PICK l \in DOMAIN FieldOf : pc' = AfterField[l] /\ UNCHANGED pmVars
    BY <1>6 DEF AddField
  <2>2. pc' \notin {"create_ustack", "create_kstack", "create_table"}
    BY <2>1 DEF FieldOf, AfterField
  <2> QED
    BY <2>1, <2>2, OrbitKept DEF pmVars
<1>7. CASE \/ CreateLimit \/ Syscall \/ SysmanSwitch \/ Return \/ Poll \/ AddTail
           \/ AddCount \/ Yield \/ TickDispatches
  <2>1. /\ UNCHANGED <<process_table, next_kernel_stack_top, next_pid>>
        /\ pc' \notin {"create_ustack", "create_kstack", "create_table"}
    BY <1>7 DEF CreateLimit, Syscall, SysmanSwitch, Return, Poll, PollRead, PollEOI,
      AddTail, AddCount, Yield, TickTake, TickHead, TickCount, TickSwitch,
      TickDispatches, pmVars
  <2> QED
    BY <2>1, OrbitKept
<1>8. CASE TickReturns \/ MouseInterrupt \/ TimerFires \/ MouseSends \/ UNCHANGED vars
  <2>1. UNCHANGED <<process_table, next_kernel_stack_top, next_pid, pc, new>>
    BY <1>8 DEF TickReturns, MouseInterrupt, TimerFires, MouseSends, vars, pmVars
  <2> QED
    BY <2>1, OrbitKept
<1> QED
  BY <1>1, <1>2, <1>3, <1>4, <1>5, <1>6, <1>7, <1>8 DEF Next, Kernel, Create, Add

\* As many processes as kernel stacks fit below orbit keep clear of it, for any sizes and
\* wherever a tick abandons creations: an abandoned creation wastes its pid before its
\* stack (process_manager.c:23, 129-143).
THEOREM FirstStacksAlwaysClearOfOrbit == Spec => []FirstStacksClearOfOrbit
<1>1. ASSUME IInv, OrbitInv PROVE FirstStacksClearOfOrbit
  <2> SUFFICES ASSUME NEW p \in Pids, KernelStackOf(p) <= ORBIT_BASE
               PROVE  process_table[p].kernel_stack <= ORBIT_BASE
    BY DEF FirstStacksClearOfOrbit
  <2>1. process_table[p].kernel_stack <= KernelStackOf(p)
    BY <1>1 DEF OrbitInv, StacksInPlace
  <2>2. process_table[p].kernel_stack \in Nat /\ ORBIT_BASE \in Nat
    BY <1>1, TaskingAssumption DEF IInv, TypeOK, Entry
  <2>3. KernelStackOf(p) \in Nat
    BY NextStack, Sizes DEF Pids
  <2> QED
    BY <2>1, <2>2, <2>3
<1> QED
  BY <1>1, InitInv, StepInv, OrbitInit, OrbitStep, PTL DEF Spec

-----------------------------------------------------------------------------
(***************************************************************************)
(* What the ready queue does with pids, for every number of processes and  *)
(* slots: each is in one place, the line is first come, first served, and  *)
(* a program runs on the stacks of its own PCB.  All of it holds until the *)
(* ring is torn.  A step of Tasking moves pids between places in one of    *)
(* seven ways (Move); Accounted, Ordered and the refinement follow from    *)
(* the move alone, so each action is looked at once.                       *)
(***************************************************************************)

-----------------------------------------------------------------------------
(***************************************************************************)
(* Sequences of pids.                                                      *)
(***************************************************************************)
Increasing(s) == \A i, j \in DOMAIN s : i < j => s[i] < s[j]

LEMMA PidsOfAppend ==
  ASSUME NEW s \in Seq(Nat), NEW p \in Nat
  PROVE  /\ PidsOf(Append(s, p)) = PidsOf(s) \cup {p}
         /\ Increasing(s) /\ (\A q \in PidsOf(s) : q < p) => Increasing(Append(s, p))
<1>1. /\ Len(s) \in Nat /\ DOMAIN s = 1 .. Len(s)
      /\ DOMAIN Append(s, p) = 1 .. Len(s) + 1
      /\ Append(s, p)[Len(s) + 1] = p
      /\ \A i \in 1 .. Len(s) : Append(s, p)[i] = s[i]
  OBVIOUS
<1>2. 1 .. Len(s) + 1 = (1 .. Len(s)) \cup {Len(s) + 1}
  BY <1>1
<1>3. PidsOf(Append(s, p)) = PidsOf(s) \cup {p}
  BY <1>1, <1>2 DEF PidsOf
<1>4. ASSUME Increasing(s), \A q \in PidsOf(s) : q < p,
             NEW i \in 1 .. Len(s) + 1, NEW j \in 1 .. Len(s) + 1, i < j
      PROVE  Append(s, p)[i] < Append(s, p)[j]
  <2>1. i \in 1 .. Len(s) /\ s[i] \in PidsOf(s)
    BY <1>1, <1>4 DEF PidsOf
  <2>2. CASE j = Len(s) + 1
    BY <1>1, <1>4, <2>1, <2>2
  <2>3. CASE j \in 1 .. Len(s)
    BY <1>1, <1>4, <2>1, <2>3 DEF Increasing
  <2> QED
    BY <1>2, <2>2, <2>3
<1> QED
  BY <1>1, <1>3, <1>4 DEF Increasing

LEMMA PidsOfTail ==
  ASSUME NEW s \in Seq(Nat), s # <<>>, Increasing(s)
  PROVE  /\ Head(s) \in PidsOf(s) /\ Head(s) \in Nat
         /\ PidsOf(Tail(s)) = PidsOf(s) \ {Head(s)}
         /\ Increasing(Tail(s))
         /\ \A q \in PidsOf(Tail(s)) : Head(s) < q
<1>1. /\ Len(s) \in Nat /\ Len(s) > 0 /\ DOMAIN s = 1 .. Len(s)
      /\ DOMAIN Tail(s) = 1 .. Len(s) - 1
      /\ Head(s) = s[1]
      /\ \A i \in 1 .. Len(s) - 1 : Tail(s)[i] = s[i + 1]
      /\ \A i \in 1 .. Len(s) : s[i] \in Nat
  OBVIOUS
<1>2. Head(s) \in PidsOf(s) /\ Head(s) \in Nat
  BY <1>1 DEF PidsOf
<1>3. \A q \in PidsOf(Tail(s)) : Head(s) < q /\ q \in PidsOf(s)
  <2> SUFFICES ASSUME NEW i \in 1 .. Len(s) - 1
               PROVE  Head(s) < Tail(s)[i] /\ Tail(s)[i] \in PidsOf(s)
    BY <1>1 DEF PidsOf
  <2>1. 1 \in DOMAIN s /\ i + 1 \in DOMAIN s /\ 1 < i + 1
    BY <1>1
  <2>2. s[1] < s[i + 1]
    BY <2>1 DEF Increasing
  <2> QED
    BY <1>1, <2>1, <2>2 DEF PidsOf
<1>4. \A q \in PidsOf(s) : q # Head(s) => q \in PidsOf(Tail(s))
  <2> SUFFICES ASSUME NEW i \in 1 .. Len(s), s[i] # s[1]
               PROVE  s[i] \in PidsOf(Tail(s))
    BY <1>1 DEF PidsOf
  <2>1. i - 1 \in 1 .. Len(s) - 1 /\ Tail(s)[i - 1] = s[i]
    BY <1>1
  <2> QED
    BY <1>1, <2>1 DEF PidsOf
<1>5. Increasing(Tail(s))
  <2> SUFFICES ASSUME NEW i \in 1 .. Len(s) - 1, NEW j \in 1 .. Len(s) - 1, i < j
               PROVE  Tail(s)[i] < Tail(s)[j]
    BY <1>1 DEF Increasing
  <2>1. i + 1 \in DOMAIN s /\ j + 1 \in DOMAIN s /\ i + 1 < j + 1
    BY <1>1
  <2>2. s[i + 1] < s[j + 1]
    BY <2>1 DEF Increasing
  <2> QED
    BY <1>1, <2>2
<1>6. \A q \in PidsOf(Tail(s)) : q # Head(s)
  <2> SUFFICES ASSUME NEW q \in PidsOf(Tail(s)), q = Head(s) PROVE FALSE
    OBVIOUS
  <2>1. Head(s) < Head(s) /\ Head(s) \in Nat
    BY <1>2, <1>3
  <2> QED
    BY <2>1
<1> QED
  BY <1>2, <1>3, <1>4, <1>5, <1>6

\* A line without repetition has as many pids as entries.
LEMMA PidsCounted ==
  ASSUME NEW s \in Seq(Nat), Increasing(s)
  PROVE  Cardinality(PidsOf(s)) = Len(s)
<1>1. /\ Len(s) \in Nat /\ DOMAIN s = 1 .. Len(s)
      /\ \A i \in 1 .. Len(s) : s[i] \in Nat
      /\ s \in [1 .. Len(s) -> PidsOf(s)]
  <2>1. s \in [1 .. Len(s) -> Nat] /\ Len(s) \in Nat
    OBVIOUS
  <2> QED
    BY <2>1 DEF PidsOf
<1>2. \A i, j \in 1 .. Len(s) : s[i] = s[j] => i = j
  <2> SUFFICES ASSUME NEW i \in 1 .. Len(s), NEW j \in 1 .. Len(s), s[i] = s[j], i # j
               PROVE  FALSE
    OBVIOUS
  <2>1. i < j \/ j < i
    BY <1>1
  <2>2. s[i] < s[j] \/ s[j] < s[i]
    BY <1>1, <2>1 DEF Increasing
  <2> QED
    BY <1>1, <2>2
<1>3. \A p \in PidsOf(s) : \E i \in 1 .. Len(s) : s[i] = p
  BY <1>1 DEF PidsOf
<1>4. s \in Bijection(1 .. Len(s), PidsOf(s))
  BY <1>1, <1>2, <1>3 DEF Bijection, Injection, Surjection, IsInjective
<1>5. ExistsBijection(1 .. Len(s), PidsOf(s))
  BY <1>4 DEF ExistsBijection
<1> QED
  BY <1>1, <1>5, FS_CountingElements

-----------------------------------------------------------------------------
(***************************************************************************)
(* The places a pid can be in, and the seven ways a step moves pids        *)
(* between them while the ring is not torn.                                *)
(***************************************************************************)
Accounted ==
  /\ PidsOf(started) \cup PidsOf(Ring) \cup InHand \cup lost \cup dropped
       = 1 .. next_pid - 1
  /\ PidsOf(started) \cap (PidsOf(Ring) \cup InHand \cup lost \cup dropped) = {}
  /\ PidsOf(Ring) \cap (InHand \cup lost \cup dropped) = {}
  /\ InHand \cap (lost \cup dropped) = {}
  /\ lost \cap dropped = {}

Ordered ==
  /\ Increasing(started) /\ Increasing(Ring)
  /\ \A p \in PidsOf(started), q \in PidsOf(Ring) : p < q
  /\ \A p \in PidsOf(started), t \in Taken : p < t
  /\ \A t \in Taken, q \in PidsOf(Ring) : t < q

Newest == next_pid - 1

Stay == UNCHANGED <<started, Ring, InHand, Taken, lost, dropped, next_pid>>

\* process_create draws a pid.
Draw ==
  /\ InHand = {} /\ Taken = {} /\ Taken' = {}
  /\ next_pid' = next_pid + 1 /\ InHand' = {next_pid}
  /\ UNCHANGED <<started, Ring, lost, dropped>>

\* scheduler_add_process finds the queue full.
TurnAway ==
  /\ Taken = {} /\ Taken' = {}
  /\ InHand = {Newest} /\ InHand' = {}
  /\ dropped' = dropped \cup {Newest}
  /\ UNCHANGED <<started, Ring, lost, next_pid>>

\* scheduler_add_process counts the slot it has filled.
Join ==
  /\ Len(Ring) < MAX_QUEUED_PROCESSES
  /\ Taken = {} /\ Taken' = {}
  /\ InHand = {Newest} /\ InHand' = {}
  /\ Ring' = Append(Ring, Newest)
  /\ UNCHANGED <<started, lost, dropped, next_pid>>

\* yield moves queue_head past the process it is about to start.
Leave ==
  /\ Ring # <<>> /\ InHand = {} /\ Taken = {}
  /\ InHand' = {Head(Ring)} /\ Taken' = {Head(Ring)}
  /\ Ring' = Tail(Ring)
  /\ UNCHANGED <<started, lost, dropped, next_pid>>

\* The process in hand enters ring 3: sysman, or the one yield took.
Begin ==
  /\ \/ started = <<>> /\ Ring = <<>> /\ InHand = {Newest} /\ Taken = {}
     \/ Taken = InHand
  /\ \E p \in InHand : InHand = {p} /\ started' = Append(started, p)
  /\ InHand' = {} /\ Taken' = {}
  /\ UNCHANGED <<Ring, lost, dropped, next_pid>>

\* The timer starts the head of the line in place of the interrupted code.
Preempt ==
  /\ Ring # <<>>
  /\ started' = Append(started, Head(Ring)) /\ Ring' = Tail(Ring)
  /\ InHand' = {} /\ Taken' = {}
  /\ lost' = lost \cup InHand
  /\ UNCHANGED <<dropped, next_pid>>

Move == Stay \/ Draw \/ TurnAway \/ Join \/ Leave \/ Begin \/ Preempt

PlacesType ==
  /\ started \in Seq(Nat) /\ Ring \in Seq(Nat) /\ next_pid \in Nat /\ next_pid > 0
  /\ Taken \subseteq InHand

\* Pids in the first four places, seen as four disjoint parts of 1 .. next_pid - 1.
LEMMA PlacesBound ==
  ASSUME PlacesType, Accounted
  PROVE  /\ \A p \in PidsOf(started) \cup PidsOf(Ring) \cup InHand :
              p \in Nat /\ p < next_pid /\ p > 0
         /\ InHand = {Newest} =>
              \A p \in PidsOf(started) \cup PidsOf(Ring) : p < Newest
<1>1. \A p \in PidsOf(started) \cup PidsOf(Ring) \cup InHand : p \in 1 .. next_pid - 1
  BY DEF Accounted
<1>2. ASSUME InHand = {Newest}, NEW p \in PidsOf(started) \cup PidsOf(Ring)
      PROVE  p # Newest
  BY <1>2 DEF Accounted
<1> QED
  BY <1>1, <1>2 DEF PlacesType, Newest

LEMMA MoveAccounts ==
  ASSUME PlacesType, Accounted, Ordered, Move
  PROVE  Accounted'
<1>a. started \in Seq(Nat) /\ Ring \in Seq(Nat) /\ next_pid \in Nat /\ next_pid > 0
  BY DEF PlacesType
<1>1. CASE Stay
  BY <1>1 DEF Stay, Accounted
<1>2. CASE Draw
  <2>1. 1 .. next_pid' - 1 = (1 .. next_pid - 1) \cup {next_pid}
        /\ next_pid \notin 1 .. next_pid - 1
    BY <1>a, <1>2 DEF Draw
  <2>2. next_pid \notin PidsOf(started) \cup PidsOf(Ring) \cup lost \cup dropped
    BY <2>1 DEF Accounted
  <2> QED
    BY <1>2, <2>1, <2>2 DEF Draw, Accounted
<1>3. CASE TurnAway
  <2>1. 1 .. next_pid' - 1 = 1 .. next_pid - 1
    BY <1>3 DEF TurnAway
  <2> QED
    BY <1>3, <2>1 DEF TurnAway, Accounted
<1>4. CASE Join
  <2>1. PidsOf(Ring') = PidsOf(Ring) \cup {Newest}
    BY <1>a, <1>4, PidsOfAppend DEF Join, Newest
  <2>2. (1 .. next_pid - 1)' = 1 .. next_pid - 1
    BY <1>4 DEF Join
  <2> QED
    BY <1>4, <2>1, <2>2 DEF Join, Accounted
<1>5. CASE Leave
  <2>1. /\ Head(Ring) \in PidsOf(Ring)
        /\ PidsOf(Ring') = PidsOf(Ring) \ {Head(Ring)}
    BY <1>a, <1>5, PidsOfTail DEF Leave, Ordered
  <2>2. (1 .. next_pid - 1)' = 1 .. next_pid - 1
    BY <1>5 DEF Leave
  <2> QED
    BY <1>5, <2>1, <2>2 DEF Leave, Accounted
<1>6. CASE Begin
  <2>1. PICK p \in InHand : InHand = {p} /\ started' = Append(started, p)
    BY <1>6 DEF Begin
  <2>2. p \in Nat
    BY <2>1, PlacesBound
  <2>3. PidsOf(started') = PidsOf(started) \cup {p}
    BY <1>a, <2>1, <2>2, PidsOfAppend
  <2>4. (1 .. next_pid - 1)' = 1 .. next_pid - 1
    BY <1>6 DEF Begin
  <2> QED
    BY <1>6, <2>1, <2>3, <2>4 DEF Begin, Accounted
<1>7. CASE Preempt
  <2>1. /\ Head(Ring) \in PidsOf(Ring) /\ Head(Ring) \in Nat
        /\ PidsOf(Ring') = PidsOf(Ring) \ {Head(Ring)}
    BY <1>a, <1>7, PidsOfTail DEF Preempt, Ordered
  <2>2. PidsOf(started') = PidsOf(started) \cup {Head(Ring)}
    BY <1>a, <1>7, <2>1, PidsOfAppend DEF Preempt
  <2>3. (1 .. next_pid - 1)' = 1 .. next_pid - 1
    BY <1>7 DEF Preempt
  <2> QED
    BY <1>7, <2>1, <2>2, <2>3 DEF Preempt, Accounted
<1> QED
  BY <1>1, <1>2, <1>3, <1>4, <1>5, <1>6, <1>7 DEF Move

LEMMA MoveKeepsOrder ==
  ASSUME PlacesType, Accounted, Ordered, Move
  PROVE  Ordered'
<1>a. started \in Seq(Nat) /\ Ring \in Seq(Nat) /\ Taken \subseteq InHand
  BY DEF PlacesType
<1>b. Newest \in Nat
  BY DEF PlacesType, Newest
<1>1. CASE Stay
  BY <1>1 DEF Stay, Ordered
<1>2. CASE Draw \/ TurnAway
  BY <1>2 DEF Draw, TurnAway, Ordered
<1>3. CASE Join
  <2>1. \A p \in PidsOf(started) \cup PidsOf(Ring) : p < Newest
    BY <1>3, PlacesBound DEF Join
  <2>2. PidsOf(Ring') = PidsOf(Ring) \cup {Newest} /\ Increasing(Ring')
    BY <1>a, <1>b, <1>3, <2>1, PidsOfAppend DEF Join, Ordered
  <2> QED
    BY <1>3, <2>1, <2>2 DEF Join, Ordered
<1>4. CASE Leave
  <2>1. /\ Head(Ring) \in PidsOf(Ring)
        /\ PidsOf(Ring') = PidsOf(Ring) \ {Head(Ring)}
        /\ Increasing(Ring')
        /\ \A q \in PidsOf(Ring') : Head(Ring) < q
    BY <1>a, <1>4, PidsOfTail DEF Leave, Ordered
  <2> QED
    BY <1>4, <2>1 DEF Leave, Ordered
<1>5. CASE Begin
  <2>1. PICK p \in InHand : InHand = {p} /\ started' = Append(started, p)
    BY <1>5 DEF Begin
  <2>2. p \in Nat
    BY <2>1, PlacesBound
  <2>3. (\A s \in PidsOf(started) : s < p) /\ (\A q \in PidsOf(Ring) : p < q)
    <3>1. CASE Taken = InHand
      BY <2>1, <3>1 DEF Ordered
    <3>2. CASE started = <<>> /\ Ring = <<>>
      BY <3>2 DEF PidsOf
    <3> QED
      BY <1>5, <3>1, <3>2 DEF Begin
  <2>4. PidsOf(started') = PidsOf(started) \cup {p} /\ Increasing(started')
    BY <1>a, <2>1, <2>2, <2>3, PidsOfAppend DEF Ordered
  <2> QED
    BY <1>5, <2>3, <2>4 DEF Begin, Ordered
<1>6. CASE Preempt
  <2>1. /\ Head(Ring) \in PidsOf(Ring) /\ Head(Ring) \in Nat
        /\ PidsOf(Ring') = PidsOf(Ring) \ {Head(Ring)}
        /\ Increasing(Ring')
        /\ \A q \in PidsOf(Ring') : Head(Ring) < q
    BY <1>a, <1>6, PidsOfTail DEF Preempt, Ordered
  <2>2. \A s \in PidsOf(started) : s < Head(Ring)
    BY <2>1 DEF Ordered
  <2>3. PidsOf(started') = PidsOf(started) \cup {Head(Ring)} /\ Increasing(started')
    BY <1>a, <1>6, <2>1, <2>2, PidsOfAppend DEF Preempt, Ordered
  <2> QED
    BY <1>6, <2>1, <2>3 DEF Preempt, Ordered
<1> QED
  BY <1>1, <1>2, <1>3, <1>4, <1>5, <1>6 DEF Move

-----------------------------------------------------------------------------
(***************************************************************************)
(* The slots of the ring: the line of the n slots of q from h on, and what *)
(* becomes of it when a step keeps, adds or takes one.                     *)
(***************************************************************************)
SlotAt(h, k) == (h + k) % MAX_QUEUED_PROCESSES
LineIn(q, h, n) == [i \in 1 .. n |-> q[SlotAt(h, i - 1)].pid]

LEMMA SlotAtType ==
  ASSUME NEW h \in Slots, NEW k \in Nat
  PROVE  SlotAt(h, k) \in Slots
<1>1. MAX_QUEUED_PROCESSES \in Nat \ {0} /\ h + k \in Nat
  BY TaskingAssumption DEF Slots
<1> QED
  BY <1>1, ModRange DEF Slots, SlotAt

LEMMA SlotAtShifts ==
  ASSUME NEW h \in Slots, NEW k \in Nat
  PROVE  /\ SlotAt(NextSlot(h), k) = SlotAt(h, k + 1)
         /\ SlotAt(h, 0) = h
<1>1. /\ MAX_QUEUED_PROCESSES \in Nat \ {0} /\ h \in Nat /\ h < MAX_QUEUED_PROCESSES
      /\ h \in 0 .. MAX_QUEUED_PROCESSES - 1
  BY TaskingAssumption DEF Slots
<1>2. h + (k + 1) = h + 1 + k /\ h + 0 = h
  BY <1>1
<1>3. h % MAX_QUEUED_PROCESSES = h
  BY <1>1, SMT
<1> QED
  BY <1>1, <1>2, <1>3, ModStepThenAdd DEF SlotAt, NextSlot

LEMMA SlotAtDistinct ==
  ASSUME NEW h \in Slots, NEW j \in Slots, NEW k \in Slots, j # k
  PROVE  SlotAt(h, j) # SlotAt(h, k)
<1>1. MAX_QUEUED_PROCESSES \in Nat \ {0}
  BY TaskingAssumption
<1> QED
  BY <1>1, ModDistinct DEF SlotAt, Slots

LEMMA LineType ==
  ASSUME NEW q \in [Slots -> Entry], NEW h \in Slots, NEW n \in Nat
  PROVE  /\ LineIn(q, h, n) \in Seq(Nat) /\ Len(LineIn(q, h, n)) = n
         /\ \A k \in Nat : q[SlotAt(h, k)] \in Entry /\ q[SlotAt(h, k)].pid \in Nat
<1>1. \A k \in Nat : q[SlotAt(h, k)] \in Entry /\ q[SlotAt(h, k)].pid \in Nat
  BY SlotAtType DEF Entry
<1>2. \A i \in 1 .. n : q[SlotAt(h, i - 1)].pid \in Nat
  BY <1>1
<1> QED
  BY <1>1, <1>2 DEF LineIn

LEMMA LineKept ==
  ASSUME NEW q, NEW h, NEW r, NEW g, NEW n \in Nat,
         \A k \in 0 .. n - 1 : r[SlotAt(g, k)].pid = q[SlotAt(h, k)].pid
  PROVE  LineIn(r, g, n) = LineIn(q, h, n)
<1>1. \A i \in 1 .. n : i - 1 \in 0 .. n - 1
  OBVIOUS
<1>2. \A i \in 1 .. n : r[SlotAt(g, i - 1)].pid = q[SlotAt(h, i - 1)].pid
  BY <1>1
<1> QED
  BY <1>2 DEF LineIn

LEMMA LineGrows ==
  ASSUME NEW q \in [Slots -> Entry], NEW h \in Slots, NEW n \in Nat
  PROVE  LineIn(q, h, n + 1) = Append(LineIn(q, h, n), q[SlotAt(h, n)].pid)
<1> DEFINE s == LineIn(q, h, n)
           e == q[SlotAt(h, n)].pid
<1>1. s \in Seq(Nat) /\ Len(s) = n /\ e \in Nat
  BY LineType
<1>2. \A i \in 1 .. n + 1 : q[SlotAt(h, i - 1)].pid = IF i = n + 1 THEN e ELSE s[i]
  BY DEF LineIn
<1>3. LineIn(q, h, n + 1) = [i \in 1 .. n + 1 |-> IF i = n + 1 THEN e ELSE s[i]]
  BY <1>2 DEF LineIn
<1> HIDE DEF s, e
<1>4. /\ Append(s, e) \in Seq(Nat) /\ Len(Append(s, e)) = n + 1
      /\ \A i \in 1 .. n + 1 : Append(s, e)[i] = IF i = n + 1 THEN e ELSE s[i]
  BY <1>1
<1>5. \A t \in Seq(Nat) : t = [i \in 1 .. Len(t) |-> t[i]]
  OBVIOUS
<1>6. Append(s, e) = [i \in 1 .. n + 1 |-> Append(s, e)[i]]
  BY <1>4, <1>5
<1> QED
  BY <1>3, <1>4, <1>6 DEF s, e

LEMMA LineShrinks ==
  ASSUME NEW q \in [Slots -> Entry], NEW h \in Slots, NEW n \in Nat
  PROVE  /\ LineIn(q, h, n + 1) # <<>>
         /\ Head(LineIn(q, h, n + 1)) = q[h].pid
         /\ Tail(LineIn(q, h, n + 1)) = LineIn(q, NextSlot(h), n)
<1> DEFINE s == LineIn(q, h, n + 1)
<1>1. s \in Seq(Nat) /\ Len(s) = n + 1
  BY LineType
<1>2. \A i \in 1 .. n + 1 : s[i] = q[SlotAt(h, i - 1)].pid
  BY DEF LineIn
<1> HIDE DEF s
<1>3. s # <<>> /\ Head(s) = s[1] /\ 1 \in 1 .. n + 1
  BY <1>1
<1>4. SlotAt(h, 1 - 1) = h
  BY SlotAtShifts
<1>5. Head(s) = q[h].pid
  BY <1>2, <1>3, <1>4
<1>6. /\ Tail(s) \in Seq(Nat) /\ Len(Tail(s)) = n
      /\ \A i \in 1 .. n : Tail(s)[i] = s[i + 1]
  BY <1>1, <1>3
<1>7. \A t \in Seq(Nat) : t = [i \in 1 .. Len(t) |-> t[i]]
  OBVIOUS
<1>8. Tail(s) = [i \in 1 .. n |-> Tail(s)[i]]
  BY <1>6, <1>7
<1>9. \A i \in 1 .. n : Tail(s)[i] = q[SlotAt(NextSlot(h), i - 1)].pid
  <2> TAKE i \in 1 .. n
  <2>1. i - 1 \in Nat /\ i + 1 \in 1 .. n + 1 /\ (i + 1) - 1 = (i - 1) + 1
    OBVIOUS
  <2>2. SlotAt(NextSlot(h), i - 1) = SlotAt(h, (i - 1) + 1)
    BY <2>1, SlotAtShifts
  <2> QED
    BY <1>2, <1>6, <2>1, <2>2
<1> QED
  BY <1>3, <1>5, <1>8, <1>9 DEF s, LineIn

LEMMA LineOfRing ==
  ASSUME NEW q, NEW h \in Slots, NEW n \in Nat
  PROVE  [i \in 1 .. n |-> q[(h + i - 1) % MAX_QUEUED_PROCESSES].pid] = LineIn(q, h, n)
<1>1. h \in Nat
  BY TaskingAssumption DEF Slots
<1>2. \A i \in 1 .. n : h + i - 1 = h + (i - 1)
  BY <1>1
<1> QED
  BY <1>2 DEF LineIn, SlotAt

LEMMA LengthBound ==
  ASSUME NEW n \in 0 .. MAX_QUEUED_PROCESSES, NEW t \in {0, 1}, t = 1 => n > 0
  PROVE  n - t \in Nat /\ n - t <= MAX_QUEUED_PROCESSES
BY Sizes

LEMMA RingIsLine ==
  ASSUME IInv
  PROVE  /\ RingLength \in Nat /\ RingLength <= MAX_QUEUED_PROCESSES
         /\ Ring = LineIn(process_queue, queue_head, RingLength)
         /\ Ring \in Seq(Nat) /\ Len(Ring) = RingLength
<1>1. /\ queue_count \in 0 .. MAX_QUEUED_PROCESSES /\ queue_head \in Slots
      /\ process_queue \in [Slots -> Entry]
      /\ Taking \in {0, 1}
      /\ Taking = 1 => queue_count > 0
  BY DEF IInv, TypeOK, Guarded, Taking
<1>2. RingLength \in Nat /\ RingLength <= MAX_QUEUED_PROCESSES
  BY <1>1, LengthBound DEF RingLength
<1>3. Ring = LineIn(process_queue, queue_head, RingLength)
  BY <1>1, <1>2, LineOfRing DEF Ring
<1> QED
  BY <1>1, <1>2, <1>3, LineType

LEMMA RingIsLineAfter ==
  ASSUME IInv'
  PROVE  /\ RingLength' \in Nat /\ RingLength' <= MAX_QUEUED_PROCESSES
         /\ Ring' = LineIn(process_queue', queue_head', RingLength')
<1>1. /\ queue_count' \in 0 .. MAX_QUEUED_PROCESSES /\ queue_head' \in Slots
      /\ Taking' \in {0, 1}
      /\ Taking' = 1 => queue_count' > 0
  BY DEF IInv, TypeOK, Guarded, Taking
<1>2. RingLength' = queue_count' - Taking'
  BY DEF RingLength
<1>3. RingLength' \in Nat /\ RingLength' <= MAX_QUEUED_PROCESSES
  BY <1>1, <1>2, LengthBound
<1> QED
  BY <1>1, <1>3, LineOfRing DEF Ring

-----------------------------------------------------------------------------
(***************************************************************************)
(* What the code in progress holds: a new process on its way into the      *)
(* ring, field by field, or one taken out of it.                           *)
(***************************************************************************)
Behind(k) == process_queue[SlotAt(queue_head, k)]

HoldsNew == AddSteps \cup {"sysman_switch", "create_ustack", "create_kstack",
                           "create_table"}

Holding ==
  /\ pc \in {"boot", "sysman_switch"} => started = <<>> /\ queue_count = 0
  /\ pc = "sysman_switch" => new.pid = 1
  /\ pc \in HoldsNew => new.pid = Newest
  /\ pc \in AddSteps => new = process_table[new.pid]
  /\ pc \in AddSteps \ {"add_pid"} => Behind(queue_count).pid = new.pid
  /\ pc \in {"add_ustack", "add_kstack", "add_tail", "add_count"} =>
       Behind(queue_count).entry_point = new.entry_point
  /\ pc \in {"add_kstack", "add_tail", "add_count"} =>
       Behind(queue_count).user_stack = new.user_stack
  /\ pc \in {"add_tail", "add_count"} =>
       Behind(queue_count).kernel_stack = new.kernel_stack
  /\ pc = "tick_head" => proc = queue_head

\* While nothing is torn, the slot to fill is the first one behind the line.
LEMMA TailBehind ==
  ASSUME IInv, RingAgrees, ~Torn, pc \notin {"add_count", "tick_count"}
  PROVE  queue_tail = SlotAt(queue_head, queue_count)
<1>1. torn_adds = 0 /\ torn_takes = 0
  BY DEF Torn, IInv, TypeOK
<1>2. Adding = 0 /\ Taking = 0
  BY DEF Adding, Taking
<1>3. /\ MAX_QUEUED_PROCESSES \in Nat \ {0} /\ queue_tail \in 0 .. MAX_QUEUED_PROCESSES - 1
      /\ queue_head \in Nat /\ queue_count \in Nat /\ queue_tail \in Nat
  BY TaskingAssumption DEF IInv, TypeOK, Slots
<1>4. /\ queue_head + queue_count + 0 + 0 = queue_head + queue_count
      /\ queue_tail + 0 + 0 = queue_tail
  BY <1>3
<1>5. queue_tail % MAX_QUEUED_PROCESSES = queue_tail
  BY <1>3, SMT
<1> QED
  BY <1>1, <1>2, <1>4, <1>5 DEF RingAgrees, SlotAt

LEMMA TornStays ==
  ASSUME IInv, [Next]_vars, ~Torn'
  PROVE  ~Torn /\ (TickDispatches => pc \notin {"add_count", "tick_count"})
<1>1. torn_adds \in Nat /\ torn_takes \in Nat
  BY DEF IInv, TypeOK
<1>2. CASE TickDispatches
  <2>1. /\ torn_adds' = IF pc = "add_count" THEN torn_adds + 1 ELSE torn_adds
        /\ torn_takes' = IF pc = "tick_count" THEN torn_takes + 1 ELSE torn_takes
    BY <1>2 DEF TickDispatches
  <2> QED
    BY <1>1, <2>1 DEF Torn
<1>3. CASE ~TickDispatches
  <2>1. UNCHANGED <<torn_adds, torn_takes>>
    BY <1>3 DEF Next, vars, Kernel, Create, Add, Yield, Poll, CreateSysman, SysmanSwitch,
      Syscall, Return, CreateLimit, CreatePid, CreateUserStack, CreateKernelStack,
      CreateTable, AddField, AddTail, AddCount, TickTake, TickHead, TickCount, TickSwitch,
      TickReturns, MouseInterrupt, PollRead, PollEOI, TimerFires, MouseSends, histVars,
      tornVars
  <2> QED
    BY <1>3, <2>1 DEF Torn
<1> QED
  BY <1>2, <1>3

LEMMA AddStepsAre ==
  AddSteps = {"add_pid", "add_entry", "add_ustack", "add_kstack", "add_tail", "add_count"}
BY DEF AddSteps, FieldOf

\* A statement after which the ring is the same line.
LEMMA RingKept ==
  ASSUME IInv, IInv', UNCHANGED <<queue_head, queue_count>>, Taking' = Taking,
         \A k \in 0 .. queue_count - 1 :
           process_queue'[SlotAt(queue_head, k)].pid = process_queue[SlotAt(queue_head, k)].pid
  PROVE  Ring' = Ring
<1>1. RingLength' = RingLength
  BY DEF RingLength
<1>2. \A k \in 0 .. RingLength - 1 : k \in 0 .. queue_count - 1
  <2>1. queue_count \in 0 .. MAX_QUEUED_PROCESSES /\ Taking \in {0, 1}
    BY DEF IInv, TypeOK, Taking
  <2> QED
    BY <2>1, Sizes DEF RingLength
<1>3. LineIn(process_queue', queue_head, RingLength)
        = LineIn(process_queue, queue_head, RingLength)
  BY <1>2, RingIsLine, LineKept
<1> QED
  BY <1>1, <1>3, RingIsLine, RingIsLineAfter

\* A statement or an interrupt that takes the head out of the ring.
LEMMA RingTaken ==
  ASSUME IInv, IInv', UNCHANGED process_queue, queue_head' = NextSlot(queue_head),
         RingLength' = RingLength - 1, RingLength > 0
  PROVE  /\ Ring # <<>> /\ Head(Ring) = process_queue[queue_head].pid
         /\ Ring' = Tail(Ring)
<1>1. RingLength - 1 \in Nat /\ (RingLength - 1) + 1 = RingLength
  <2>1. RingLength \in Nat
    BY RingIsLine
  <2> QED
    BY <2>1
<1>3. process_queue \in [Slots -> Entry] /\ queue_head \in Slots
  BY DEF IInv, TypeOK
<1>2. /\ Ring = LineIn(process_queue, queue_head, RingLength)
      /\ Ring' = LineIn(process_queue, NextSlot(queue_head), RingLength - 1)
  BY RingIsLine, RingIsLineAfter
<1> QED
  BY ZenonT(60), <1>1, <1>2, <1>3, LineShrinks

\* The slot the new process goes to is none of the line's.
LEMMA SlotsApart ==
  ASSUME IInv, RingAgrees, ~Torn, pc \in AddSteps \ {"add_count"}
  PROVE  /\ queue_tail = SlotAt(queue_head, queue_count) /\ queue_tail \in Slots
         /\ RingLength = queue_count
         /\ \A k \in 0 .. RingLength - 1 : SlotAt(queue_head, k) # queue_tail
<1>1. queue_tail = SlotAt(queue_head, queue_count) /\ queue_tail \in Slots
  BY TailBehind, AddStepsAre DEF IInv, TypeOK
<1>2. queue_count \in Nat /\ queue_count < MAX_QUEUED_PROCESSES
  BY Sizes DEF IInv, TypeOK, Guarded
<1>3. RingLength = queue_count
  BY <1>2, AddStepsAre DEF RingLength, Taking
<1>4. queue_head \in Slots /\ queue_count \in Slots
  BY <1>2, Sizes DEF IInv, TypeOK, Slots
<1>5. \A k \in 0 .. queue_count - 1 : k \in Slots /\ k # queue_count
  BY <1>2, Sizes DEF Slots
<1>6. \A k \in 0 .. queue_count - 1 : SlotAt(queue_head, k) # queue_tail
  BY <1>1, <1>4, <1>5, SlotAtDistinct
<1> QED
  BY <1>1, <1>3, <1>6

\* Every step moves pids in one of the seven ways.
LEMMA EveryStepMoves ==
  ASSUME IInv, IInv', RingAgrees, Holding, [Next]_vars, ~Torn'
  PROVE  Move
<1>a. ~Torn /\ (TickDispatches => pc \notin {"add_count", "tick_count"})
  BY TornStays
<1>b. /\ queue_head \in Slots /\ queue_tail \in Slots /\ proc \in Slots
      /\ process_queue \in [Slots -> Entry] /\ process_table \in [Pids -> Entry]
      /\ queue_count \in 0 .. MAX_QUEUED_PROCESSES
      /\ next_pid \in 1 .. MAX_PROCESSES /\ new \in Entry
  BY DEF IInv, TypeOK
<1>c. queue_count \in Nat /\ next_pid \in Nat
  BY <1>b, Sizes
<1> USE DEF Step
<1>1. CASE CreateSysman
  <2>1. Ring' = Ring
    BY <1>1, RingKept DEF CreateSysman, ringVars, Taking
  <2>2. new'.pid = next_pid
    BY <1>1 DEF CreateSysman, NoProc
  <2> QED
    BY <1>1, <2>1, <2>2, AddStepsAre DEF CreateSysman, Move, Draw, InHand, Taken, histVars
<1>2. CASE SysmanSwitch
  <2>1. started = <<>> /\ queue_count = 0 /\ new.pid = Newest /\ Taking = 0
    BY <1>2 DEF SysmanSwitch, Holding, HoldsNew, Taking
  <2>2. Ring' = Ring
    BY <1>2, RingKept DEF SysmanSwitch, ringVars, Taking
  <2>3. Ring = <<>>
    BY <2>1, RingIsLine DEF RingLength
  <2>4. InHand = {Newest} /\ Taken = {} /\ InHand' = {} /\ Taken' = {}
    BY <1>2, <2>1, AddStepsAre DEF SysmanSwitch, InHand, Taken
  <2> QED
    BY <1>2, <2>1, <2>2, <2>3, <2>4 DEF SysmanSwitch, Move, Begin, pmVars
<1>3. CASE Syscall \/ Return \/ CreateLimit \/ Poll \/ TickTake
  <2>1. /\ UNCHANGED <<ringVars, started, lost, dropped, next_pid>>
        /\ pc \in {"user", "return", "create_limit", "poll_read", "poll_eoi", "tick_take"}
        /\ pc' \in {"user", "return", "create_limit", "create_pid", "poll_read", "poll_eoi",
                    "tick_take", "tick_head", "halted"}
    BY <1>3 DEF Syscall, Return, CreateLimit, Poll, PollRead, PollEOI, TickTake, histVars,
      pmVars
  <2>2. Ring' = Ring
    BY <2>1, RingKept DEF ringVars, Taking
  <2>3. InHand = {} /\ Taken = {} /\ InHand' = {} /\ Taken' = {}
    BY <2>1, AddStepsAre DEF InHand, Taken
  <2> QED
    BY <2>1, <2>2, <2>3 DEF Move, Stay
<1>4. CASE CreatePid
  <2>1. Ring' = Ring
    BY <1>4, RingKept DEF CreatePid, ringVars, Taking
  <2>2. new'.pid = next_pid
    BY <1>4, <1>b DEF CreatePid, Entry
  <2> QED
    BY <1>4, <2>1, <2>2, AddStepsAre DEF CreatePid, Move, Draw, InHand, Taken, histVars
<1>5. CASE CreateUserStack \/ CreateKernelStack
  <2>1. /\ UNCHANGED <<ringVars, started, lost, dropped, next_pid>>
        /\ pc \in {"create_ustack", "create_kstack"}
        /\ pc' \in {"create_kstack", "create_table"}
    BY <1>5 DEF CreateUserStack, CreateKernelStack, histVars
  <2>2. new'.pid = new.pid
    BY <1>5, <1>b DEF CreateUserStack, CreateKernelStack, Entry
  <2>3. Ring' = Ring
    BY <2>1, RingKept DEF ringVars, Taking
  <2>4. InHand = {new.pid} /\ Taken = {} /\ InHand' = {new'.pid} /\ Taken' = {}
    BY <2>1 DEF InHand, Taken
  <2> QED
    BY <2>1, <2>2, <2>3, <2>4 DEF Move, Stay
<1>6. CASE CreateTable
  <2>1. Ring' = Ring
    BY <1>6, RingKept DEF CreateTable, ringVars, Taking
  <2>2. new.pid = Newest
    BY <1>6 DEF CreateTable, Holding, HoldsNew
  <2>3. CASE pc' = "add_pid" /\ UNCHANGED dropped
    BY <1>6, <2>1, <2>2, <2>3, AddStepsAre DEF CreateTable, Move, Stay, InHand, Taken
  <2>4. CASE pc' = "return" /\ dropped' = dropped \cup {new.pid}
    BY <1>6, <2>1, <2>2, <2>4, AddStepsAre DEF CreateTable, Move, TurnAway, InHand, Taken
  <2> QED
    BY <1>6, <2>3, <2>4 DEF CreateTable
<1>7. CASE AddField
  <2>1. PICK l \in DOMAIN FieldOf :
          /\ pc = l /\ pc' = AfterField[l]
          /\ process_queue' = [process_queue EXCEPT
                                 ![queue_tail][FieldOf[l]] = new[FieldOf[l]]]
          /\ UNCHANGED <<pmVars, queue_head, queue_tail, queue_count, sysVars,
                         histVars, new>>
    BY <1>7 DEF AddField, SlotToFill
  <2>2. /\ pc \in {"add_pid", "add_entry", "add_ustack", "add_kstack"}
        /\ pc' \in {"add_entry", "add_ustack", "add_kstack", "add_tail"}
    BY <2>1 DEF FieldOf, AfterField
  <2>3. queue_tail \in Slots /\ RingLength = queue_count
        /\ \A k \in 0 .. RingLength - 1 : SlotAt(queue_head, k) # queue_tail
    BY <1>a, <2>2, SlotsApart, AddStepsAre
  <2>4. \A k \in 0 .. queue_count - 1 :
          process_queue'[SlotAt(queue_head, k)] = process_queue[SlotAt(queue_head, k)]
    BY <1>b, <2>1, <2>3
  <2>5. Ring' = Ring
    BY <2>1, <2>2, <2>4, RingKept DEF Taking
  <2> QED
    BY <2>1, <2>2, <2>5, AddStepsAre DEF Move, Stay, InHand, Taken, pmVars, histVars
<1>8. CASE AddTail
  <2>1. Ring' = Ring
    BY <1>8, RingKept DEF AddTail, Taking
  <2> QED
    BY <1>8, <2>1, AddStepsAre DEF AddTail, Move, Stay, InHand, Taken, pmVars, histVars
<1>9. CASE AddCount
  <2>1. /\ queue_count < MAX_QUEUED_PROCESSES /\ new.pid = Newest
        /\ process_queue[SlotAt(queue_head, queue_count)].pid = Newest
    BY <1>9, AddStepsAre DEF AddCount, IInv, Guarded, Holding, HoldsNew, Behind
  <2>2. RingLength = queue_count /\ RingLength' = queue_count + 1
    BY <1>9, <1>b DEF AddCount, RingLength, Taking
  <2>3. Ring' = Append(Ring, Newest)
    BY <1>9, <1>b, <2>1, <2>2, RingIsLine, RingIsLineAfter, LineGrows DEF AddCount
  <2>4. Len(Ring) < MAX_QUEUED_PROCESSES
    BY <2>1, <2>2, RingIsLine
  <2>5. InHand = {Newest} /\ Taken = {} /\ InHand' = {} /\ Taken' = {}
    BY <1>9, <2>1, AddStepsAre DEF AddCount, InHand, Taken
  <2> QED
    BY <1>9, <2>3, <2>4, <2>5 DEF AddCount, Move, Join, pmVars, histVars
<1>10. CASE TickHead
  <2>1. queue_count > 0 /\ proc = queue_head
    BY <1>10 DEF TickHead, IInv, Guarded, Holding
  <2>2. RingLength = queue_count /\ RingLength' = RingLength - 1
    BY <1>10, <1>b DEF TickHead, RingLength, Taking
  <2>3. /\ Ring # <<>> /\ Head(Ring) = process_queue[queue_head].pid
        /\ Ring' = Tail(Ring)
    BY <1>10, <2>1, <2>2, RingTaken DEF TickHead
  <2>4. /\ InHand = {} /\ Taken = {}
        /\ InHand' = {process_queue[queue_head].pid}
        /\ Taken' = {process_queue[queue_head].pid}
    BY <1>10, <2>1, AddStepsAre DEF TickHead, InHand, Taken, sysVars, cpuVars
  <2> QED
    BY <1>10, <2>3, <2>4 DEF TickHead, Move, Leave, pmVars, histVars
<1>11. CASE TickCount
  <2>1. RingLength' = RingLength
    BY <1>11, <1>b DEF TickCount, RingLength, Taking, CountAfterTake
  <2>2. Ring' = Ring
    BY <1>11, <2>1 DEF TickCount, Ring
  <2> QED
    BY <1>11, <2>2, AddStepsAre DEF TickCount, Move, Stay, InHand, Taken, pmVars, sysVars,
      cpuVars, histVars
<1>12. CASE TickSwitch
  <2>1. Ring' = Ring
    BY <1>12, RingKept DEF TickSwitch, ringVars, Taking
  <2>2. /\ InHand = {process_queue[proc].pid} /\ Taken = InHand
        /\ InHand' = {} /\ Taken' = {}
    BY <1>12, AddStepsAre DEF TickSwitch, InHand, Taken
  <2> QED
    BY <1>12, <2>1, <2>2 DEF TickSwitch, Move, Begin, pmVars
<1>13. CASE TickDispatches
  <2>1. queue_count > 0
    BY <1>13 DEF TickDispatches, SomeQueued
  <2>2. RingLength = queue_count /\ RingLength' = RingLength - 1
    BY <1>13, <1>a, <1>b DEF TickDispatches, RingLength, Taking, CountAfterTake
  <2>3. /\ Ring # <<>> /\ Head(Ring) = process_queue[queue_head].pid
        /\ Ring' = Tail(Ring)
    BY <1>13, <2>1, <2>2, RingTaken DEF TickDispatches
  <2>4. InHand' = {} /\ Taken' = {}
    BY <1>13, AddStepsAre DEF TickDispatches, InHand, Taken
  <2> QED
    BY <1>13, <2>3, <2>4 DEF TickDispatches, Move, Preempt, pmVars
<1>14. CASE TickReturns \/ MouseInterrupt \/ TimerFires \/ MouseSends \/ UNCHANGED vars
  <2>1. UNCHANGED <<ringVars, started, lost, dropped, next_pid, pc, new, proc>>
    BY <1>14 DEF TickReturns, MouseInterrupt, TimerFires, MouseSends, vars, pmVars, sysVars,
      cpuVars, histVars
  <2>2. Ring' = Ring
    BY <2>1, RingKept DEF ringVars, Taking
  <2> QED
    BY <2>1, <2>2 DEF Move, Stay, InHand, Taken, ringVars
<1> QED
  BY <1>1, <1>2, <1>3, <1>4, <1>5, <1>6, <1>7, <1>8, <1>9, <1>10, <1>11, <1>12, <1>13,
     <1>14
  DEF Next, Kernel, Create, Add, Yield

-----------------------------------------------------------------------------
(***************************************************************************)
(* The entries of the ring are the PCBs in the table, and what runs is one *)
(* of them on its stacks.                                                  *)
(***************************************************************************)
IsPcb(e) == e.pid \in Pids /\ e = process_table[e.pid]

\* yield has set the TSS for the process it starts, and still runs in the caller.
Starting == pc \in TickSteps \ {"tick_take"}

Contents ==
  /\ \A k \in 0 .. RingLength - 1 : IsPcb(Behind(k))
  /\ pc \in {"tick_count", "tick_switch"} => IsPcb(process_queue[proc])

Runs ==
  /\ Starting => esp0 = process_queue[proc].kernel_stack
  /\ pc \notin {"boot", "sysman_switch"} =>
       /\ running.pid \in PidsOf(started)
       /\ running.pid # 1 =>
            /\ running = process_table[running.pid]
            /\ ~Starting => esp0 = running.kernel_stack

LineInv == Accounted /\ Ordered /\ Holding /\ Contents /\ Runs

\* The pid of the process in hand is the newest, is in the table's range, and no
\* entry of the ring has it.
LEMMA NewestInHand ==
  ASSUME IInv, Accounted, Holding, pc \in HoldsNew
  PROVE  /\ new.pid = Newest /\ Newest \in Pids
         /\ \A k \in 0 .. RingLength - 1 : Behind(k).pid # new.pid
         /\ new.pid \notin PidsOf(started)
<1>1. new.pid = Newest /\ InHand = {new.pid}
  BY DEF Holding, HoldsNew, InHand
<1>2. Newest \in 1 .. next_pid - 1 /\ next_pid \in 1 .. MAX_PROCESSES
  BY <1>1 DEF Accounted, IInv, TypeOK
<1>3. Newest \in Pids
  BY <1>2, Sizes DEF Pids
<1>4. new.pid \notin PidsOf(Ring) /\ new.pid \notin PidsOf(started)
  BY <1>1 DEF Accounted
<1>5. ASSUME NEW k \in 0 .. RingLength - 1 PROVE Behind(k).pid \in PidsOf(Ring)
  <2>1. RingLength \in Nat /\ Ring = LineIn(process_queue, queue_head, RingLength)
    BY RingIsLine
  <2>2. k + 1 \in 1 .. RingLength /\ (k + 1) - 1 = k
    BY <2>1
  <2>3. k + 1 \in DOMAIN Ring /\ Ring[k + 1] = Behind(k).pid
    BY <2>1, <2>2 DEF LineIn, Behind
  <2> QED
    BY <2>3 DEF PidsOf
<1> QED
  BY <1>1, <1>3, <1>4, <1>5

\* A step that leaves a slot alone, and what is held with it.
LEMMA HoldingKept ==
  ASSUME Holding, UNCHANGED <<pc, new, next_pid, started, process_table, ringVars, proc>>
  PROVE  Holding'
BY DEF Holding, Behind, Newest, ringVars

LEMMA HoldingStep ==
  ASSUME IInv, RingAgrees, LineInv, [Next]_vars, ~Torn'
  PROVE  Holding'
<1>a. ~Torn /\ Accounted /\ Holding
  BY TornStays DEF LineInv
<1>b. /\ queue_head \in Slots /\ new \in Entry
      /\ process_queue \in [Slots -> Entry] /\ process_table \in [Pids -> Entry]
  BY DEF IInv, TypeOK
<1>c. next_pid \in Nat
  BY Sizes DEF IInv, TypeOK
<1> USE AddStepsAre DEF Step
<1>1. CASE CreateSysman
  <2>1. next_pid = 1
    BY <1>1 DEF CreateSysman, IInv, Guarded
  <2>2. new'.pid = 1 /\ Newest' = 1
    BY <1>1, <2>1 DEF CreateSysman, NoProc, Newest
  <2> QED
    BY <1>1, <1>a, <2>2 DEF CreateSysman, Holding, ringVars, histVars
<1>2. CASE CreatePid
  <2>1. new'.pid = next_pid /\ Newest' = next_pid
    BY <1>2, <1>b, <1>c DEF CreatePid, Entry, Newest
  <2> QED
    BY <1>2, <2>1 DEF CreatePid, Holding, HoldsNew
<1>3. CASE CreateUserStack \/ CreateKernelStack
  <2>1. /\ UNCHANGED next_pid
        /\ pc \in {"create_ustack", "create_kstack"}
        /\ pc' \in {"create_kstack", "create_table"}
    BY <1>3 DEF CreateUserStack, CreateKernelStack
  <2>2. new'.pid = new.pid
    BY <1>3, <1>b DEF CreateUserStack, CreateKernelStack, Entry
  <2> QED
    BY <1>a, <2>1, <2>2 DEF Holding, HoldsNew, Newest
<1>4. CASE CreateTable
  <2>1. new.pid = Newest /\ Newest \in Pids
    BY <1>4, <1>a, NewestInHand DEF CreateTable, HoldsNew
  <2>2. process_table'[new.pid] = new
    BY <1>4, <1>b, <2>1 DEF CreateTable
  <2> QED
    BY <1>4, <2>1, <2>2 DEF CreateTable, Holding, HoldsNew, Newest
<1>5. CASE AddField
  <2>1. PICK l \in DOMAIN FieldOf :
          /\ pc = l /\ pc' = AfterField[l]
          /\ process_queue' = [process_queue EXCEPT
                                 ![queue_tail][FieldOf[l]] = new[FieldOf[l]]]
          /\ UNCHANGED <<pmVars, queue_head, queue_tail, queue_count, sysVars,
                         histVars, new>>
    BY <1>5 DEF AddField, SlotToFill
  <2>2. /\ l \in {"add_pid", "add_entry", "add_ustack", "add_kstack"}
        /\ pc' \in {"add_entry", "add_ustack", "add_kstack", "add_tail"}
    BY <2>1 DEF FieldOf, AfterField
  <2>3. queue_tail = SlotAt(queue_head, queue_count) /\ queue_tail \in Slots
    BY <1>a, <2>1, <2>2, SlotsApart
  <2>4. Behind(queue_count)' = process_queue'[queue_tail]
        /\ Behind(queue_count) = process_queue[queue_tail]
    BY <2>1, <2>3 DEF Behind, SlotAt
  <2>5. process_queue'[queue_tail]
          = [process_queue[queue_tail] EXCEPT ![FieldOf[l]] = new[FieldOf[l]]]
    BY <1>b, <2>1, <2>3
  <2>6. UNCHANGED <<new, next_pid, process_table>> /\ new.pid = Newest
        /\ new = process_table[new.pid]
    BY <1>a, <2>1, <2>2 DEF pmVars, Holding, HoldsNew
  <2>7. process_queue[queue_tail] \in Entry
    BY <1>b, <2>3
  <2>8. CASE l = "add_pid"
    <3>1. pc' = "add_entry" /\ Behind(queue_count)'.pid = new.pid
      BY <2>1, <2>4, <2>5, <2>7, <2>8 DEF FieldOf, AfterField, Entry
    <3> QED
      BY <2>6, <3>1 DEF Holding, HoldsNew, Newest
  <2>9. CASE l = "add_entry"
    <3>1. /\ pc' = "add_ustack"
          /\ Behind(queue_count)'.pid = Behind(queue_count).pid
          /\ Behind(queue_count)'.entry_point = new.entry_point
      BY <2>1, <2>4, <2>5, <2>7, <2>9 DEF FieldOf, AfterField, Entry
    <3> QED
      BY <1>a, <2>1, <2>6, <2>9, <3>1 DEF Holding, HoldsNew, Newest
  <2>10. CASE l = "add_ustack"
    <3>1. /\ pc' = "add_kstack"
          /\ Behind(queue_count)'.pid = Behind(queue_count).pid
          /\ Behind(queue_count)'.entry_point = Behind(queue_count).entry_point
          /\ Behind(queue_count)'.user_stack = new.user_stack
      BY <2>1, <2>4, <2>5, <2>7, <2>10 DEF FieldOf, AfterField, Entry
    <3> QED
      BY <1>a, <2>1, <2>6, <2>10, <3>1 DEF Holding, HoldsNew, Newest
  <2>11. CASE l = "add_kstack"
    <3>1. /\ pc' = "add_tail"
          /\ Behind(queue_count)'.pid = Behind(queue_count).pid
          /\ Behind(queue_count)'.entry_point = Behind(queue_count).entry_point
          /\ Behind(queue_count)'.user_stack = Behind(queue_count).user_stack
          /\ Behind(queue_count)'.kernel_stack = new.kernel_stack
      BY <2>1, <2>4, <2>5, <2>7, <2>11 DEF FieldOf, AfterField, Entry
    <3> QED
      BY <1>a, <2>1, <2>6, <2>11, <3>1 DEF Holding, HoldsNew, Newest
  <2> QED
    BY <2>2, <2>8, <2>9, <2>10, <2>11
<1>6. CASE AddTail
  <2>1. Behind(queue_count)' = Behind(queue_count)
    BY <1>6 DEF AddTail, Behind, SlotAt
  <2> QED
    BY <1>6, <1>a, <2>1 DEF AddTail, Holding, HoldsNew, Newest, pmVars, histVars
<1>7. CASE TickTake
  BY <1>7 DEF TickTake, Holding, HoldsNew, ringVars
<1>8. CASE SysmanSwitch \/ Syscall \/ Return \/ CreateLimit \/ AddCount \/ Poll
  <2>1. pc' \notin HoldsNew \cup {"boot", "tick_head"}
    BY <1>8 DEF SysmanSwitch, Syscall, Return, CreateLimit, AddCount, Poll, PollRead,
      PollEOI, HoldsNew
  <2> QED
    BY <2>1 DEF Holding, HoldsNew
<1>9. CASE TickHead \/ TickCount \/ TickSwitch \/ TickDispatches
  <2>1. pc' \notin HoldsNew \cup {"boot", "tick_head"}
    BY <1>9 DEF TickHead, TickCount, TickSwitch, TickDispatches, HoldsNew
  <2> QED
    BY <2>1 DEF Holding, HoldsNew
<1>10. CASE TickReturns \/ MouseInterrupt \/ TimerFires \/ MouseSends \/ UNCHANGED vars
  <2>1. UNCHANGED <<pc, new, next_pid, started, process_table, ringVars, proc>>
    BY <1>10 DEF TickReturns, MouseInterrupt, TimerFires, MouseSends, vars, pmVars, sysVars,
      cpuVars, histVars
  <2> QED
    BY <1>a, <2>1, HoldingKept
<1> QED
  BY <1>1, <1>2, <1>3, <1>4, <1>5, <1>6, <1>7, <1>8, <1>9, <1>10
  DEF Next, Kernel, Create, Add, Yield

\* A new process whose four fields are in its slot is there as it is in the table.
LEMMA SlotFilled ==
  ASSUME IInv, Accounted, Holding, pc = "add_count"
  PROVE  IsPcb(Behind(queue_count))
<1>1. new.pid = Newest /\ Newest \in Pids
  BY NewestInHand, AddStepsAre DEF HoldsNew
<1>2. /\ Behind(queue_count).pid = new.pid
      /\ Behind(queue_count).entry_point = new.entry_point
      /\ Behind(queue_count).user_stack = new.user_stack
      /\ Behind(queue_count).kernel_stack = new.kernel_stack
      /\ new = process_table[new.pid]
  BY AddStepsAre DEF Holding
<1>3. queue_count \in Nat /\ queue_head \in Slots /\ new \in Entry
      /\ process_queue \in [Slots -> Entry]
  BY Sizes DEF IInv, TypeOK
<1>4. Behind(queue_count) \in Entry
  BY <1>3, LineType DEF Behind
<1>5. Behind(queue_count) = new
  BY <1>2, <1>3, <1>4 DEF Entry
<1> QED
  BY <1>1, <1>2, <1>5 DEF IsPcb

\* A step that leaves the table alone and the line too.
LEMMA ContentsKept ==
  ASSUME Contents, UNCHANGED <<process_table, process_queue, queue_head, proc>>,
         RingLength' = RingLength,
         pc' \in {"tick_count", "tick_switch"} => pc \in {"tick_count", "tick_switch"}
  PROVE  Contents'
BY DEF Contents, IsPcb, Behind, SlotAt

LEMMA ContentsStep ==
  ASSUME IInv, RingAgrees, LineInv, [Next]_vars, ~Torn'
  PROVE  Contents'
<1>a. /\ ~Torn /\ Accounted /\ Holding /\ Contents
      /\ TickDispatches => pc \notin {"add_count", "tick_count"}
  BY TornStays DEF LineInv
<1>b. /\ queue_head \in Slots /\ proc \in Slots
      /\ process_queue \in [Slots -> Entry] /\ process_table \in [Pids -> Entry]
      /\ queue_count \in 0 .. MAX_QUEUED_PROCESSES
  BY DEF IInv, TypeOK
<1>c. queue_count \in Nat /\ RingLength \in Nat
  BY <1>b, Sizes, RingIsLine
<1> USE AddStepsAre DEF Step
<1>1. CASE CreateSysman
  <2>1. queue_count = 0 /\ RingLength' = 0
    BY <1>1, <1>a DEF CreateSysman, Holding, RingLength, Taking, ringVars
  <2> QED
    BY <1>1, <2>1 DEF CreateSysman, Contents
<1>2. CASE CreateTable
  <2>1. /\ new.pid = Newest
        /\ \A k \in 0 .. RingLength - 1 : Behind(k).pid # new.pid
    BY <1>2, <1>a, NewestInHand DEF CreateTable, HoldsNew
  <2>2. /\ UNCHANGED <<process_queue, queue_head>> /\ RingLength' = RingLength
        /\ process_table' = [process_table EXCEPT ![new.pid] = new]
        /\ pc' \in {"add_pid", "return"}
    BY <1>2 DEF CreateTable, ringVars, RingLength, Taking
  <2>3. \A k \in 0 .. RingLength - 1 :
          Behind(k).pid \in Pids /\ process_table'[Behind(k).pid] = process_table[Behind(k).pid]
    BY <1>a, <1>b, <2>1, <2>2 DEF Contents, IsPcb
  <2> QED
    BY <1>a, <2>2, <2>3 DEF Contents, IsPcb, Behind, SlotAt
<1>3. CASE AddField
  <2>1. PICK l \in DOMAIN FieldOf :
          /\ pc = l /\ pc' = AfterField[l]
          /\ process_queue' = [process_queue EXCEPT
                                 ![queue_tail][FieldOf[l]] = new[FieldOf[l]]]
          /\ UNCHANGED <<pmVars, queue_head, queue_tail, queue_count, sysVars,
                         histVars, new>>
    BY <1>3 DEF AddField, SlotToFill
  <2>2. /\ pc \in {"add_pid", "add_entry", "add_ustack", "add_kstack"}
        /\ pc' \in {"add_entry", "add_ustack", "add_kstack", "add_tail"}
    BY <2>1 DEF FieldOf, AfterField
  <2>3. /\ queue_tail \in Slots
        /\ \A k \in 0 .. RingLength - 1 : SlotAt(queue_head, k) # queue_tail
    BY <1>a, <2>2, SlotsApart
  <2>4. \A k \in 0 .. RingLength - 1 :
          process_queue'[SlotAt(queue_head, k)] = process_queue[SlotAt(queue_head, k)]
    BY <1>b, <2>1, <2>3
  <2>5. RingLength' = RingLength /\ UNCHANGED <<process_table, queue_head>>
    BY <2>1, <2>2 DEF RingLength, Taking, pmVars
  <2> QED
    BY <1>a, <2>2, <2>4, <2>5 DEF Contents, IsPcb, Behind, SlotAt
<1>4. CASE AddCount
  <2>1. RingLength = queue_count /\ RingLength' = queue_count + 1
    BY <1>4, <1>c DEF AddCount, RingLength, Taking
  <2>2. IsPcb(Behind(queue_count))
    BY <1>4, <1>a, SlotFilled DEF AddCount
  <2>3. \A k \in 0 .. queue_count : IsPcb(Behind(k))
    BY <1>a, <1>c, <2>1, <2>2 DEF Contents
  <2>4. UNCHANGED <<process_table, process_queue, queue_head>> /\ pc' = "return"
    BY <1>4 DEF AddCount, pmVars
  <2>5. 0 .. RingLength' - 1 = 0 .. queue_count
    BY <1>c, <2>1
  <2> QED
    BY <2>3, <2>4, <2>5 DEF Contents, IsPcb, Behind, SlotAt
<1>5. CASE TickHead \/ TickDispatches
  <2>1. /\ RingLength > 0 /\ RingLength' = RingLength - 1
        /\ queue_head' = NextSlot(queue_head) /\ UNCHANGED <<process_table, process_queue>>
    <3>1. CASE TickHead
      BY <3>1, <1>c DEF TickHead, IInv, Guarded, RingLength, Taking, pmVars
    <3>2. CASE TickDispatches
      BY <3>2, <1>a, <1>c DEF TickDispatches, SomeQueued, RingLength, Taking, CountAfterTake,
        pmVars
    <3> QED
      BY <1>5, <3>1, <3>2
  <2>2. \A k \in 0 .. RingLength' - 1 : k \in Nat /\ k + 1 \in 0 .. RingLength - 1
    BY <1>c, <2>1
  <2>3. \A k \in 0 .. RingLength' - 1 : SlotAt(queue_head', k) = SlotAt(queue_head, k + 1)
    BY <1>b, <2>1, <2>2, SlotAtShifts
  <2>4. \A k \in 0 .. RingLength' - 1 : IsPcb(process_queue[SlotAt(queue_head', k)])
    BY <1>a, <2>2, <2>3 DEF Contents, Behind
  <2>5. IsPcb(process_queue[queue_head])
    <3>1. 0 \in 0 .. RingLength - 1 /\ SlotAt(queue_head, 0) = queue_head
      BY <1>b, <1>c, <2>1, SlotAtShifts
    <3> QED
      BY <1>a, <3>1 DEF Contents, Behind
  <2>6. pc' \in {"tick_count", "tick_switch"} => proc' = queue_head
    BY <1>5, <1>a DEF TickHead, TickDispatches, Holding, sysVars, cpuVars
  <2> QED
    BY <2>1, <2>4, <2>5, <2>6 DEF Contents, IsPcb, Behind
<1>6. CASE TickCount
  <2>1. RingLength' = RingLength
    BY <1>6, <1>c DEF TickCount, RingLength, Taking, CountAfterTake
  <2> QED
    BY <1>6, <1>a, <2>1, ContentsKept DEF TickCount, pmVars, sysVars, cpuVars
<1>7. CASE \/ SysmanSwitch \/ Syscall \/ Return \/ CreateLimit \/ CreatePid
           \/ CreateUserStack \/ CreateKernelStack
  <2>1. /\ UNCHANGED <<process_table, ringVars>>
        /\ pc \notin {"tick_count", "tick_switch"} /\ pc' \notin {"tick_count", "tick_switch"}
    BY <1>7 DEF SysmanSwitch, Syscall, Return, CreateLimit, CreatePid, CreateUserStack,
      CreateKernelStack, pmVars
  <2>2. RingLength' = RingLength
    BY <2>1 DEF RingLength, Taking, ringVars
  <2> QED
    BY <1>a, <2>1, <2>2 DEF Contents, IsPcb, Behind, SlotAt, ringVars
<1>8. CASE Poll \/ AddTail \/ TickTake \/ TickSwitch
  <2>1. /\ UNCHANGED <<process_table, process_queue, queue_head, queue_count>>
        /\ pc # "tick_count" /\ pc' \notin {"tick_count", "tick_switch"}
    BY <1>8 DEF Poll, PollRead, PollEOI, AddTail, TickTake, TickSwitch, pmVars, ringVars
  <2>2. RingLength' = RingLength
    BY <2>1 DEF RingLength, Taking
  <2> QED
    BY <1>a, <2>1, <2>2 DEF Contents, IsPcb, Behind, SlotAt
<1>9. CASE TickReturns \/ MouseInterrupt \/ TimerFires \/ MouseSends \/ UNCHANGED vars
  <2>1. UNCHANGED <<pc, process_table, ringVars, proc>>
    BY <1>9 DEF TickReturns, MouseInterrupt, TimerFires, MouseSends, vars, pmVars, sysVars,
      cpuVars
  <2>2. RingLength' = RingLength
    BY <2>1 DEF RingLength, Taking, ringVars
  <2> QED
    BY <1>a, <2>1, <2>2, ContentsKept DEF ringVars
<1> QED
  BY <1>1, <1>2, <1>3, <1>4, <1>5, <1>6, <1>7, <1>8, <1>9
  DEF Next, Kernel, Create, Add, Yield

\* A step that starts nothing, where yield is not in between.
LEMMA RunsKept ==
  ASSUME Runs, UNCHANGED <<process_table, running, esp0, started>>,
         pc \notin {"boot", "sysman_switch"},
         ~Starting, pc' \notin TickSteps \ {"tick_take"}
  PROVE  Runs'
BY DEF Runs, Starting

\* A step that starts a queued process.
LEMMA RunsStarted ==
  ASSUME NEW e \in Entry, IsPcb(e), IInv, UNCHANGED process_table, running' = e,
         started' = Append(started, e.pid), esp0' = e.kernel_stack, pc' = "user"
  PROVE  Runs'
<1>1. started \in Seq(Nat) /\ e.pid \in Nat
  BY DEF IInv, TypeOK, Entry
<1>2. e.pid \in PidsOf(started')
  BY <1>1, PidsOfAppend
<1> QED
  BY <1>2 DEF Runs, Starting, TickSteps, IsPcb

LEMMA RunsStep ==
  ASSUME IInv, RingAgrees, LineInv, [Next]_vars, ~Torn'
  PROVE  Runs'
<1>a. /\ ~Torn /\ Accounted /\ Holding /\ Contents /\ Runs
      /\ TickDispatches => pc \notin {"add_count", "tick_count"}
  BY TornStays DEF LineInv
<1>b. /\ queue_head \in Slots /\ proc \in Slots /\ started \in Seq(Nat)
      /\ process_queue \in [Slots -> Entry] /\ process_table \in [Pids -> Entry]
  BY DEF IInv, TypeOK
<1>c. queue_count \in Nat /\ RingLength \in Nat
  <2>1. queue_count \in 0 .. MAX_QUEUED_PROCESSES
    BY DEF IInv, TypeOK
  <2> QED
    BY <2>1, Sizes, RingIsLine
<1> USE DEF Step
<1>1. CASE CreateSysman
  BY <1>1 DEF CreateSysman, Runs, Starting, TickSteps
<1>2. CASE SysmanSwitch
  <2>1. running'.pid = 1 /\ started' = Append(started, 1)
    BY <1>2, <1>a DEF SysmanSwitch, Holding
  <2>2. 1 \in PidsOf(started')
    BY <1>b, <2>1, PidsOfAppend
  <2> QED
    BY <1>2, <2>1, <2>2 DEF SysmanSwitch, Runs, Starting, TickSteps
<1>3. CASE Syscall \/ Return \/ CreateLimit \/ CreatePid \/ CreateUserStack
           \/ CreateKernelStack \/ Poll
  <2>1. /\ UNCHANGED <<process_table, running, esp0, started>>
        /\ pc \notin {"boot", "sysman_switch"} /\ ~Starting
        /\ pc' \notin TickSteps \ {"tick_take"}
    BY <1>3 DEF Syscall, Return, CreateLimit, CreatePid, CreateUserStack,
      CreateKernelStack, Poll, PollRead, PollEOI, Starting, TickSteps, pmVars, sysVars,
      cpuVars, histVars
  <2> QED
    BY <1>a, <2>1, RunsKept
<1>4. CASE CreateTable
  <2>1. new.pid \notin PidsOf(started)
    BY <1>4, <1>a, NewestInHand DEF CreateTable, HoldsNew
  <2>2. running.pid \in PidsOf(started) /\ ~Starting
    BY <1>4, <1>a DEF CreateTable, Runs, Starting, TickSteps
  <2>3. process_table'[running.pid] = process_table[running.pid]
    BY <1>4, <2>1, <2>2, <1>b DEF CreateTable
  <2> QED
    BY <1>4, <1>a, <2>2, <2>3 DEF CreateTable, Runs, Starting, TickSteps, sysVars, cpuVars
<1>5. CASE AddField
  <2>1. PICK l \in DOMAIN FieldOf :
          /\ pc = l /\ pc' = AfterField[l] /\ UNCHANGED <<pmVars, sysVars, histVars>>
    BY <1>5 DEF AddField
  <2>2. /\ pc \in {"add_pid", "add_entry", "add_ustack", "add_kstack"}
        /\ pc' \in {"add_entry", "add_ustack", "add_kstack", "add_tail"}
    BY <2>1 DEF FieldOf, AfterField
  <2> QED
    BY <1>a, <2>1, <2>2, RunsKept DEF Starting, TickSteps, pmVars, sysVars, cpuVars, histVars
<1>6. CASE AddTail \/ AddCount
  <2>1. /\ UNCHANGED <<process_table, running, esp0, started>>
        /\ pc \notin {"boot", "sysman_switch"} /\ ~Starting
        /\ pc' \notin TickSteps \ {"tick_take"}
    BY <1>6 DEF AddTail, AddCount, Starting, TickSteps, pmVars, sysVars, cpuVars, histVars
  <2> QED
    BY <1>a, <2>1, RunsKept
<1>7. CASE TickTake
  <2>1. CASE pc' = "return" /\ UNCHANGED esp0
    BY <1>7, <1>a, <2>1, RunsKept DEF TickTake, Starting, TickSteps, pmVars, histVars
  <2>2. CASE proc' = queue_head /\ esp0' = TssStack(process_queue[queue_head])
             /\ pc' = "tick_head"
    BY <1>7, <1>a, <2>2 DEF TickTake, Runs, Starting, TickSteps, TssStack, pmVars, ringVars,
      histVars
  <2> QED
    BY <1>7, <2>1, <2>2 DEF TickTake
<1>8. CASE TickHead \/ TickCount
  <2>1. /\ UNCHANGED <<process_table, process_queue, proc, running, esp0, started>>
        /\ Starting /\ Starting' /\ pc \notin {"boot", "sysman_switch"}
    BY <1>8 DEF TickHead, TickCount, Starting, TickSteps, pmVars, sysVars, cpuVars, histVars
  <2> QED
    BY <1>a, <2>1 DEF Runs
<1>9. CASE TickSwitch
  <2>1. /\ process_queue[proc] \in Entry /\ IsPcb(process_queue[proc])
        /\ esp0 = process_queue[proc].kernel_stack
    BY <1>9, <1>a, <1>b DEF TickSwitch, Contents, Runs, Starting, TickSteps
  <2>2. /\ UNCHANGED <<process_table, esp0>> /\ running' = process_queue[proc]
        /\ started' = Append(started, process_queue[proc].pid) /\ pc' = "user"
    BY <1>9 DEF TickSwitch, pmVars
  <2> QED
    BY <2>1, <2>2, RunsStarted
<1>10. CASE TickDispatches
  <2>1. RingLength > 0
    BY <1>10, <1>a, <1>c DEF TickDispatches, SomeQueued, RingLength, Taking
  <2>2. 0 \in 0 .. RingLength - 1 /\ SlotAt(queue_head, 0) = queue_head
    BY <1>b, <1>c, <2>1, SlotAtShifts
  <2>3. process_queue[queue_head] \in Entry /\ IsPcb(process_queue[queue_head])
    BY <1>a, <1>b, <2>2 DEF Contents, Behind
  <2>4. /\ UNCHANGED process_table /\ running' = process_queue[queue_head]
        /\ started' = Append(started, process_queue[queue_head].pid) /\ pc' = "user"
        /\ esp0' = process_queue[queue_head].kernel_stack
    BY <1>10 DEF TickDispatches, TssStack, pmVars
  <2> QED
    BY <2>3, <2>4, RunsStarted
<1>11. CASE TickReturns \/ MouseInterrupt \/ TimerFires \/ MouseSends \/ UNCHANGED vars
  <2>1. UNCHANGED <<pc, process_table, process_queue, proc, running, esp0, started>>
    BY <1>11 DEF TickReturns, MouseInterrupt, TimerFires, MouseSends, vars, pmVars, ringVars,
      sysVars, cpuVars, histVars
  <2> QED
    BY <1>a, <2>1 DEF Runs, Starting
<1> QED
  BY <1>1, <1>2, <1>3, <1>4, <1>5, <1>6, <1>7, <1>8, <1>9, <1>10, <1>11
  DEF Next, Kernel, Create, Add, Yield

-----------------------------------------------------------------------------
LEMMA LineInit == Init => LineInv
<1> SUFFICES ASSUME Init PROVE LineInv
  OBVIOUS
<1> USE AddStepsAre
<1>1. RingLength = 0 /\ Ring = <<>> /\ started = <<>>
  BY DEF Init, RingLength, Taking, Ring
<1>2. PidsOf(<<>>) = {}
  BY DEF PidsOf
<1>3. InHand = {} /\ Taken = {}
  BY DEF Init, InHand, Taken
<1>4. Accounted
  BY <1>1, <1>2, <1>3 DEF Init, Accounted
<1>5. Ordered
  BY <1>1, <1>2, <1>3 DEF Ordered, Increasing
<1>6. Holding
  BY DEF Init, Holding, HoldsNew
<1>7. Contents
  BY <1>1 DEF Init, Contents
<1>8. Runs
  BY DEF Init, Runs, Starting, TickSteps
<1> QED
  BY <1>4, <1>5, <1>6, <1>7, <1>8 DEF LineInv

UntilTorn == ~Torn => LineInv

LEMMA LineStep == IInv /\ RingAgrees /\ UntilTorn /\ [Next]_vars => UntilTorn'
<1> SUFFICES ASSUME IInv, RingAgrees, UntilTorn, [Next]_vars, ~Torn' PROVE LineInv'
  BY DEF UntilTorn
<1>1. IInv' /\ ~Torn
  BY StepInv, TornStays
<1>2. LineInv
  BY <1>1 DEF UntilTorn
<1>3. PlacesType
  <2>1. next_pid \in Nat /\ next_pid > 0 /\ started \in Seq(Nat)
    BY Sizes DEF IInv, TypeOK
  <2>2. Taken \subseteq InHand
    BY AddStepsAre DEF Taken, InHand
  <2> QED
    BY <2>1, <2>2, RingIsLine DEF PlacesType
<1>4. Move
  BY <1>1, <1>2, EveryStepMoves DEF LineInv
<1>5. Accounted' /\ Ordered'
  BY <1>2, <1>3, <1>4, MoveAccounts, MoveKeepsOrder DEF LineInv
<1> QED
  BY <1>2, <1>5, HoldingStep, ContentsStep, RunsStep DEF LineInv

LEMMA LineAlways == Spec => [](IInv /\ RingAgrees /\ UntilTorn)
<1>1. Init => UntilTorn
  BY LineInit DEF UntilTorn
<1> QED
  BY <1>1, InitInv, StepInv, RingInit, RingStep, LineStep, PTL DEF Spec

-----------------------------------------------------------------------------
(***************************************************************************)
(* The theorems.                                                           *)
(***************************************************************************)

\* Until a tick tears the ring, every pid process_create has drawn is in exactly one
\* place: started, queued, in hand, abandoned, or turned away; and none is started or
\* queued twice.
THEOREM EveryPidAlwaysAccounted == Spec => []EveryPidAccounted
<1>1. ASSUME IInv, UntilTorn PROVE EveryPidAccounted
  <2> SUFFICES ASSUME ~Torn
               PROVE  LET places == <<PidsOf(started), PidsOf(Ring), InHand, lost, dropped>>
                      IN  /\ UNION PidsOf(places) = 1 .. next_pid - 1
                          /\ \A i, j \in DOMAIN places :
                               i # j => places[i] \cap places[j] = {}
                          /\ Cardinality(PidsOf(started)) = Len(started)
                          /\ Cardinality(PidsOf(Ring)) = RingLength
    BY DEF EveryPidAccounted
  <2> DEFINE places == <<PidsOf(started), PidsOf(Ring), InHand, lost, dropped>>
  <2>1. Accounted /\ Ordered
    BY <1>1 DEF UntilTorn, LineInv
  <2>2. started \in Seq(Nat) /\ Ring \in Seq(Nat) /\ Len(Ring) = RingLength
    BY <1>1, RingIsLine DEF IInv, TypeOK
  <2>3. Cardinality(PidsOf(started)) = Len(started)
        /\ Cardinality(PidsOf(Ring)) = RingLength
    BY <2>1, <2>2, PidsCounted DEF Ordered
  <2>4. DOMAIN places = {1, 2, 3, 4, 5}
    OBVIOUS
  <2>5. PidsOf(places) = {PidsOf(started), PidsOf(Ring), InHand, lost, dropped}
    BY <2>4 DEF PidsOf
  <2>6. UNION PidsOf(places) = 1 .. next_pid - 1
    BY <2>1, <2>5 DEF Accounted
  <2>7. ASSUME NEW i \in {1, 2, 3, 4, 5}, NEW j \in {1, 2, 3, 4, 5}, i # j
        PROVE  places[i] \cap places[j] = {}
    BY <2>1, <2>7 DEF Accounted
  <2> QED
    BY <2>3, <2>4, <2>6, <2>7
<1> QED
  BY <1>1, LineAlways, PTL

\* Until a tick tears the ring, processes are started in the order process_create drew
\* their pids, and those that wait come after those that have run.
THEOREM AlwaysStartedInOrder == Spec => []StartedInOrder
<1>1. ASSUME IInv, UntilTorn PROVE StartedInOrder
  <2> SUFFICES ASSUME ~Torn, NEW i \in DOMAIN (started \o Ring),
                      NEW j \in DOMAIN (started \o Ring), i < j
               PROVE  (started \o Ring)[i] < (started \o Ring)[j]
    BY DEF StartedInOrder
  <2> DEFINE n == Len(started)
  <2>1. Ordered
    BY <1>1 DEF UntilTorn, LineInv
  <2>2. started \in Seq(Nat) /\ Ring \in Seq(Nat)
    BY <1>1, RingIsLine DEF IInv, TypeOK
  <2>3. /\ n \in Nat /\ Len(Ring) \in Nat
        /\ DOMAIN started = 1 .. n /\ DOMAIN Ring = 1 .. Len(Ring)
        /\ DOMAIN (started \o Ring) = 1 .. n + Len(Ring)
        /\ \A k \in 1 .. n + Len(Ring) :
             (started \o Ring)[k] = IF k <= n THEN started[k] ELSE Ring[k - n]
    BY <2>2
  <2> HIDE DEF n
  <2>4. CASE j <= n
    <3>1. i \in 1 .. n /\ j \in 1 .. n
      BY <2>3, <2>4
    <3> QED
      BY <2>1, <2>3, <3>1 DEF Ordered, Increasing
  <2>5. CASE i <= n /\ j > n
    <3>1. i \in 1 .. n /\ j - n \in 1 .. Len(Ring)
      BY <2>3, <2>5
    <3>2. started[i] \in PidsOf(started) /\ Ring[j - n] \in PidsOf(Ring)
      BY <2>3, <3>1 DEF PidsOf
    <3> QED
      BY <2>1, <2>3, <2>5, <3>2 DEF Ordered
  <2>6. CASE i > n
    <3>1. i - n \in 1 .. Len(Ring) /\ j - n \in 1 .. Len(Ring) /\ i - n < j - n /\ j > n
      BY <2>3, <2>6
    <3> QED
      BY <2>1, <2>3, <2>6, <3>1 DEF Ordered, Increasing
  <2> QED
    BY <2>3, <2>4, <2>5, <2>6
<1> QED
  BY <1>1, LineAlways, PTL

\* Until a tick tears the ring, a program that process_create made runs on the user stack
\* of its own PCB, and its next interrupt on that PCB's kernel stack (gdt.c:122).
THEOREM AlwaysRunsOnItsStacks == Spec => []RunsOnItsStacks
<1>1. UntilTorn => RunsOnItsStacks
  BY DEF UntilTorn, LineInv, Runs, Starting, TickSteps, RunsOnItsStacks
<1> QED
  BY <1>1, LineAlways, PTL

-----------------------------------------------------------------------------
(***************************************************************************)
(* The refinement of ReadyFifo.                                            *)
(***************************************************************************)
LEMMA SeenIsPlaced ==
  ASSUME NEW p, p \notin PidsOf(Ring), p \notin PidsOf(started), p \notin Taken
  PROVE  ~Fifo!Seen(p)
BY DEF Fifo!Seen, PidsOf

LEMMA FifoInit == Init => Fifo!Init
<1> SUFFICES ASSUME Init PROVE Fifo!Init
  OBVIOUS
<1>1. Ring = <<>>
  BY DEF Init, Ring, RingLength, Taking
<1>2. Taken = {} /\ Torn = FALSE
  BY DEF Init, Taken, Torn
<1> QED
  BY <1>1, <1>2 DEF Init, Fifo!Init

\* While the ring is whole, a move is a step of the line, or none.
LEMMA MoveIsFifoStep ==
  ASSUME IInv, LineInv, Move, Torn = FALSE, Torn' = FALSE
  PROVE  Fifo!Next \/ UNCHANGED Fifo!vars
<1>a. /\ Accounted /\ started \in Seq(Nat) /\ Ring \in Seq(Nat) /\ Taken \subseteq InHand
      /\ next_pid \in 1 .. MAX_PROCESSES
  BY RingIsLine, AddStepsAre DEF LineInv, IInv, TypeOK, Taken, InHand
<1>b. ASSUME InHand = {Newest} PROVE Newest \in Pids
  <2>1. Newest \in 1 .. next_pid - 1
    BY <1>a, <1>b DEF Accounted
  <2> QED
    BY <1>a, <2>1, Sizes DEF Pids
<1>1. CASE Stay \/ Draw \/ TurnAway
  BY <1>1 DEF Stay, Draw, TurnAway, Fifo!vars
<1>2. CASE Join
  <2>1. Newest \in Pids /\ ~Fifo!Seen(Newest)
    BY <1>a, <1>b, <1>2, SeenIsPlaced DEF Join, Accounted
  <2>2. Fifo!Join
    BY <1>2, <2>1 DEF Join, Fifo!Join
  <2> QED
    BY <2>2 DEF Fifo!Next
<1>3. CASE Leave
  BY <1>3 DEF Leave, Fifo!Leave, Fifo!Next
<1>4. CASE Begin
  <2>1. PICK p \in InHand : InHand = {p} /\ started' = Append(started, p)
    BY <1>4 DEF Begin
  <2>2. CASE Taken = InHand
    BY <1>4, <2>1, <2>2 DEF Begin, Fifo!Begin, Fifo!Next
  <2>3. CASE started = <<>> /\ Ring = <<>> /\ InHand = {Newest} /\ Taken = {}
    <3>1. started' = <<Newest>> /\ Newest \in Pids
      BY <1>b, <2>1, <2>3
    <3> QED
      BY <1>4, <2>3, <3>1 DEF Begin, Fifo!StartFirst, Fifo!Next
  <2> QED
    BY <1>4, <2>2, <2>3 DEF Begin
<1>5. CASE Preempt
  BY <1>5 DEF Preempt, Fifo!Preempt, Fifo!Next
<1> QED
  BY <1>1, <1>2, <1>3, <1>4, <1>5 DEF Move

LEMMA FifoStep ==
  IInv /\ RingAgrees /\ UntilTorn /\ [Next]_vars => Fifo!Next \/ UNCHANGED Fifo!vars
<1> SUFFICES ASSUME IInv, RingAgrees, UntilTorn, [Next]_vars
             PROVE  Fifo!Next \/ UNCHANGED Fifo!vars
  OBVIOUS
<1>1. CASE Torn'
  BY <1>1 DEF Fifo!Next, Fifo!Broken
<1>2. CASE ~Torn'
  <2>1. IInv' /\ ~Torn
    BY <1>2, StepInv, TornStays
  <2>2. Torn = FALSE /\ Torn' = FALSE
    BY <1>2, <2>1 DEF Torn
  <2>3. LineInv
    BY <2>1 DEF UntilTorn
  <2>4. Move
    BY <1>2, <2>1, <2>3, EveryStepMoves DEF LineInv
  <2> QED
    BY <2>2, <2>3, <2>4, MoveIsFifoStep
<1> QED
  BY <1>1, <1>2

\* The ready queue, with its ticks at any statement, implements a bounded first come,
\* first served line until the first tear.
THEOREM RingImplementsFifo == Spec => ImplementsFifo
<1>1. IInv /\ RingAgrees /\ UntilTorn /\ [Next]_vars => [Fifo!Next]_(Fifo!vars)
  BY FifoStep
<1> QED
  BY <1>1, FifoInit, LineAlways, PTL DEF Spec, ImplementsFifo, Fifo!Spec
=============================================================================
