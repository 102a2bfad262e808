------------------------------- MODULE Tasking -------------------------------
(***************************************************************************)
(* The tasking core of MaahiOS on its single CPU: the process manager      *)
(* (process_manager.c), the ready queue and the scheduler (scheduler.c),   *)
(* the timer interrupt (pit.c, irq0_stub), the switch to ring 3 (ring3.c), *)
(* the system calls that reach them (syscall_handler.c) and the interrupt  *)
(* controller they acknowledge.                                            *)
(*                                                                         *)
(* syscall_dispatcher runs with interrupts enabled (the sti of line 198),  *)
(* so an IRQ may be taken between any two statements of a system call:     *)
(* those calls are modelled one statement at a time, pc naming the next    *)
(* one.  Interrupt handlers run with interrupts disabled and are atomic.   *)
(* A tick that starts a queued process leaves by IRET to ring 3 and never  *)
(* comes back, so what it interrupted is never resumed, and a tick that    *)
(* returns has changed nothing the interrupted code reads.  Two statements *)
(* therefore share an action only when abandoning the code between them    *)
(* leaves the same state as abandoning it before both.                     *)
(***************************************************************************)
EXTENDS Integers, Sequences, FiniteSets

CONSTANTS
  MAX_PROCESSES,          \* size of process_table (64)
  MAX_QUEUED_PROCESSES,   \* size of process_queue (16)
  USER_STACK_BASE,        \* first user stack top (0x200000)
  USER_STACK_SIZE,        \* distance of two user stack tops (64 KB)
  KERNEL_INT_STACK_BASE,  \* first kernel stack top (0x280000)
  KERNEL_INT_STACK_SIZE,  \* distance of two kernel stack tops (16 KB)
  BOOT_ESP0,              \* TSS.esp0 before any process (0x90000)
  ORBIT_BASE,             \* where orbit's image is linked and copied (0x300000)
  PCB_ROOM,               \* how many PCBs kmalloc can hand out
  EntryPoints,            \* entry points user programs ask to start
  Syscalls,               \* the system calls user programs make
  MouseActive             \* whether the mouse sends bytes

Calls == {"create", "yield", "poll", "exit"}

ASSUME TaskingAssumption ==
  /\ MAX_PROCESSES \in Nat \ {0, 1}
  /\ MAX_QUEUED_PROCESSES \in Nat \ {0}
  /\ USER_STACK_BASE \in Nat \ {0}
  /\ USER_STACK_SIZE \in Nat \ {0}
  /\ KERNEL_INT_STACK_BASE \in Nat \ {0}
  /\ KERNEL_INT_STACK_SIZE \in Nat \ {0}
  /\ BOOT_ESP0 \in Nat /\ ORBIT_BASE \in Nat
  /\ PCB_ROOM \in Nat \ {0}
  /\ EntryPoints \subseteq Nat
  /\ Syscalls \subseteq Calls
  /\ MouseActive \in BOOLEAN

VARIABLES
  \* process_manager.c
  next_pid, next_stack_top, next_kernel_stack_top, process_table,
  pcbs,                   \* PCBs kmalloc has handed out; kfree is a no-op
  \* scheduler.c
  scheduling_enabled, current_pid,
  process_queue, queue_head, queue_tail, queue_count,
  \* the CPU: next statement, the program it runs, TSS.esp0, and the locals
  \* pcb/stack tops of process_create and proc of scheduler_tick
  pc, running, esp0, new, proc,
  \* the interrupt controller, the 8042's output buffer and the mouse packet
  irr, isr, aux, pkt_i,
  \* history: pids in the order ring 3 was entered, pids abandoned with the code
  \* that held them, pids a full queue turned away, and how often a call was
  \* abandoned between moving an index of the ring and its count
  started, lost, dropped, torn_adds, torn_takes

pmVars   == <<next_pid, next_stack_top, next_kernel_stack_top, process_table, pcbs>>
ringVars == <<process_queue, queue_head, queue_tail, queue_count>>
tornVars == <<torn_adds, torn_takes>>
histVars == <<started, lost, dropped, tornVars>>
hwVars   == <<irr, isr, aux, pkt_i>>
cpuVars  == <<running, esp0, current_pid, proc>>
sysVars  == <<scheduling_enabled, cpuVars, hwVars>>
vars     == <<pmVars, ringVars, sysVars, histVars, pc, new>>

-----------------------------------------------------------------------------
Pids  == 1 .. MAX_PROCESSES - 1
Slots == 0 .. MAX_QUEUED_PROCESSES - 1

\* queued_process_t; a slot never written is all zeros (it is in .bss).
Entry  == [pid : Nat, entry_point : Nat, user_stack : Nat, kernel_stack : Nat]
NoProc == [pid |-> 0, entry_point |-> 0, user_stack |-> 0, kernel_stack |-> 0]

\* The interrupt lines: the timer, and the mouse through the slave controller.
TIMER == 0
MOUSE == 12

PacketSize == 3   \* bytes of a mouse packet

\* Where the kernel is in process_create and scheduler_add_process.
CreateSteps == {"create_limit", "create_pid", "create_ustack", "create_kstack",
                "create_table"}
FieldOf == [add_pid |-> "pid", add_entry |-> "entry_point",
            add_ustack |-> "user_stack", add_kstack |-> "kernel_stack"]
AfterField == [add_pid |-> "add_entry", add_entry |-> "add_ustack",
               add_ustack |-> "add_kstack", add_kstack |-> "add_tail"]
AddSteps  == DOMAIN FieldOf \cup {"add_tail", "add_count"}
TickSteps == {"tick_take", "tick_head", "tick_count", "tick_switch"}
PollSteps == {"poll_read", "poll_eoi"}
Labels    == CreateSteps \cup AddSteps \cup TickSteps \cup PollSteps
               \cup {"boot", "sysman_switch", "user", "return", "halted"}

-----------------------------------------------------------------------------
(***************************************************************************)
(* The expressions of the code that decide and update.  A name that ends   *)
(* in a slip (Kept, Stale, OffByOne, ...) is the bug whose absence the     *)
(* properties below depend on; no action uses it.                          *)
(***************************************************************************)
QueueFullOffByOne == queue_count > MAX_QUEUED_PROCESSES
QueueFull         == queue_count >= MAX_QUEUED_PROCESSES

SomeQueuedOffByOne == scheduling_enabled /\ queue_count > 1
SomeQueued         == scheduling_enabled /\ queue_count > 0

SlotToFillAtHead == queue_head
SlotToFill       == queue_tail

NextSlot(slot) == (slot + 1) % MAX_QUEUED_PROCESSES

CountAfterTakeKept == queue_count
CountAfterTake     == queue_count - 1

TssStackStale(entry) == esp0
TssStack(entry)      == entry.kernel_stack

KernelStackAfterShared == next_kernel_stack_top
KernelStackAfterTwice  == next_kernel_stack_top + 2 * KERNEL_INT_STACK_SIZE
KernelStackAfter       == next_kernel_stack_top + KERNEL_INT_STACK_SIZE

(***************************************************************************)
(* The interrupt controllers.  A line in service blocks itself and every   *)
(* line of lower priority; the mouse sits on the slave, whose cascade      *)
(* input is below the timer.  A non-specific EOI retires the line of       *)
(* highest priority in service, whichever that is.  The CPU takes a        *)
(* request whenever IF is set: everywhere but after kernel_main's cli.     *)
(***************************************************************************)
Blocked(line) == \E l \in isr : l <= line
NonSpecificEOI(S) == {l \in S : \E h \in S : h < l}
Deliverable(line) == pc # "boot" /\ line \in irr /\ ~Blocked(line)

Step(from, to) == pc = from /\ pc' = to

-----------------------------------------------------------------------------
(***************************************************************************)
(* kernel_main hands over: memory and devices are up, the mouse line is    *)
(* unmasked, interrupts are off and sysman is about to be created.         *)
(***************************************************************************)
Init ==
  /\ next_pid = 1
  /\ next_stack_top = USER_STACK_BASE
  /\ next_kernel_stack_top = KERNEL_INT_STACK_BASE
  /\ process_table = [p \in Pids |-> NoProc]
  /\ pcbs = 0
  /\ scheduling_enabled = FALSE
  /\ current_pid = -1
  /\ process_queue = [s \in Slots |-> NoProc]
  /\ queue_head = 0 /\ queue_tail = 0 /\ queue_count = 0
  /\ pc = "boot"
  /\ running = NoProc
  /\ esp0 = BOOT_ESP0
  /\ new = NoProc
  /\ proc = 0
  /\ irr = {} /\ isr = {}
  /\ aux = FALSE
  /\ pkt_i = 0
  /\ started = <<>>
  /\ lost = {} /\ dropped = {}
  /\ torn_adds = 0 /\ torn_takes = 0

\* kernel_main from the cli on and process_create_sysman up to its sti, all of
\* it with interrupts off.  Only the process table learns of sysman: neither the
\* scheduler's current_pid nor the stack fields of the PCB are set.
CreateSysman ==
  /\ Step("boot", "sysman_switch")
  /\ scheduling_enabled' = TRUE
  /\ pcbs' = pcbs + 1
  /\ next_pid' = next_pid + 1
  /\ next_stack_top' = next_stack_top + USER_STACK_SIZE
  /\ next_kernel_stack_top' = KernelStackAfter
  /\ process_table' = [process_table EXCEPT ![next_pid].pid = next_pid]
  /\ esp0' = next_kernel_stack_top
  /\ new' = [NoProc EXCEPT !.pid = next_pid, !.user_stack = next_stack_top,
                           !.kernel_stack = next_kernel_stack_top]
  /\ UNCHANGED <<current_pid, running, proc, ringVars, hwVars, histVars>>

\* The sti, then ring3_switch_with_stack into sysman.
SysmanSwitch ==
  /\ Step("sysman_switch", "user")
  /\ running' = new
  /\ started' = Append(started, new.pid)
  /\ new' = NoProc
  /\ UNCHANGED <<pmVars, ringVars, scheduling_enabled, esp0, current_pid, proc,
                 hwVars, lost, dropped, tornVars>>

-----------------------------------------------------------------------------
\* INT 0x80 and the dispatch on the system call number.  process_create's
\* argument goes to new.  kernel_exit executes hlt for ever, interrupts on.
Syscall ==
  /\ \/ /\ "create" \in Syscalls
        /\ Step("user", "create_limit")
        /\ \E e \in EntryPoints : new' = [NoProc EXCEPT !.entry_point = e]
     \/ "yield" \in Syscalls /\ Step("user", "tick_take") /\ UNCHANGED new
     \/ "poll" \in Syscalls  /\ Step("user", "poll_read") /\ UNCHANGED new
     \/ "exit" \in Syscalls  /\ Step("user", "halted")    /\ UNCHANGED new
  /\ UNCHANGED <<pmVars, ringVars, sysVars, histVars>>

\* The end of syscall_dispatcher and the IRET of syscall_int.
Return ==
  /\ Step("return", "user")
  /\ new' = NoProc
  /\ proc' = 0
  /\ UNCHANGED <<pmVars, ringVars, scheduling_enabled, running, esp0,
                 current_pid, hwVars, histVars>>

-----------------------------------------------------------------------------
\* process_create: the limit check and kmalloc.
CreateLimit ==
  /\ \/ /\ Step("create_limit", "create_pid")
        /\ next_pid < MAX_PROCESSES /\ pcbs < PCB_ROOM
        /\ pcbs' = pcbs + 1
     \/ /\ Step("create_limit", "return")
        /\ next_pid >= MAX_PROCESSES \/ pcbs = PCB_ROOM
        /\ UNCHANGED pcbs
  /\ UNCHANGED <<next_pid, next_stack_top, next_kernel_stack_top, process_table,
                 ringVars, sysVars, histVars, new>>

CreatePid ==
  /\ Step("create_pid", "create_ustack")
  /\ new' = [new EXCEPT !.pid = next_pid]
  /\ next_pid' = next_pid + 1
  /\ UNCHANGED <<next_stack_top, next_kernel_stack_top, process_table, pcbs,
                 ringVars, sysVars, histVars>>

CreateUserStack ==
  /\ Step("create_ustack", "create_kstack")
  /\ new' = [new EXCEPT !.user_stack = next_stack_top]
  /\ next_stack_top' = next_stack_top + USER_STACK_SIZE
  /\ UNCHANGED <<next_pid, next_kernel_stack_top, process_table, pcbs, ringVars,
                 sysVars, histVars>>

CreateKernelStack ==
  /\ Step("create_kstack", "create_table")
  /\ new' = [new EXCEPT !.kernel_stack = next_kernel_stack_top]
  /\ next_kernel_stack_top' = KernelStackAfter
  /\ UNCHANGED <<next_pid, next_stack_top, process_table, pcbs, ringVars,
                 sysVars, histVars>>

\* The PCB becomes visible, with the stack tops stored in it just before, and
\* scheduler_add_process tests for a full queue: if it is, it returns without
\* a word and process_create returns the pid all the same.
CreateTable ==
  /\ \/ /\ Step("create_table", "add_pid")
        /\ ~QueueFull
        /\ UNCHANGED dropped
     \/ /\ Step("create_table", "return")
        /\ QueueFull
        /\ dropped' = dropped \cup {new.pid}
  /\ process_table' = [process_table EXCEPT ![new.pid] = new]
  /\ UNCHANGED <<next_pid, next_stack_top, next_kernel_stack_top, pcbs, ringVars,
                 sysVars, started, lost, tornVars, new>>

\* scheduler_add_process: the four fields of the slot, then tail, then count.
AddField ==
  \E l \in DOMAIN FieldOf :
    /\ Step(l, AfterField[l])
    /\ process_queue' = [process_queue EXCEPT
                           ![SlotToFill][FieldOf[l]] = new[FieldOf[l]]]
    /\ UNCHANGED <<pmVars, queue_head, queue_tail, queue_count, sysVars,
                   histVars, new>>

AddTail ==
  /\ Step("add_tail", "add_count")
  /\ queue_tail' = NextSlot(queue_tail)
  /\ UNCHANGED <<pmVars, process_queue, queue_head, queue_count, sysVars,
                 histVars, new>>

AddCount ==
  /\ Step("add_count", "return")
  /\ queue_count' = queue_count + 1
  /\ UNCHANGED <<pmVars, process_queue, queue_head, queue_tail, sysVars,
                 histVars, new>>

-----------------------------------------------------------------------------
\* scheduler_tick as SYSCALL_YIELD runs it, interruptible throughout: the checks,
\* proc and the TSS; then head, count, and the switch that never returns.
TickTake ==
  /\ \/ /\ Step("tick_take", "tick_head")
        /\ SomeQueued
        /\ proc' = queue_head
        /\ esp0' = TssStack(process_queue[queue_head])
     \/ /\ Step("tick_take", "return")
        /\ ~SomeQueued
        /\ UNCHANGED <<proc, esp0>>
  /\ UNCHANGED <<pmVars, ringVars, scheduling_enabled, running, current_pid,
                 hwVars, histVars, new>>

TickHead ==
  /\ Step("tick_head", "tick_count")
  /\ queue_head' = NextSlot(queue_head)
  /\ UNCHANGED <<pmVars, process_queue, queue_tail, queue_count, sysVars,
                 histVars, new>>

TickCount ==
  /\ Step("tick_count", "tick_switch")
  /\ queue_count' = CountAfterTake
  /\ UNCHANGED <<pmVars, process_queue, queue_head, queue_tail, sysVars,
                 histVars, new>>

\* current_pid, and ring3_switch_with_stack in place of a return to the caller.
TickSwitch ==
  /\ Step("tick_switch", "user")
  /\ current_pid' = process_queue[proc].pid
  /\ running' = process_queue[proc]
  /\ started' = Append(started, process_queue[proc].pid)
  /\ proc' = 0
  /\ UNCHANGED <<pmVars, ringVars, scheduling_enabled, esp0, hwVars, lost,
                 dropped, tornVars, new>>

-----------------------------------------------------------------------------
(***************************************************************************)
(* The timer interrupt: irq0_stub calls pit_handler, which calls           *)
(* scheduler_tick, all with interrupts off.                                *)
(***************************************************************************)

\* Nothing is queued: the handler returns, irq0_stub sends the EOI, and the
\* interrupted code goes on.
TickReturns ==
  /\ Deliverable(TIMER)
  /\ ~SomeQueued
  /\ irr' = irr \ {TIMER}
  /\ isr' = NonSpecificEOI(isr \cup {TIMER})
  /\ UNCHANGED <<pmVars, ringVars, scheduling_enabled, cpuVars, aux, pkt_i,
                 histVars, pc, new>>

\* The pid that only the interrupted code holds: drawn by process_create and not
\* in the ring yet, or taken out of the ring by yield and not in ring 3 yet.
Taken  == IF pc \in {"tick_count", "tick_switch"}
          THEN {process_queue[proc].pid} ELSE {}
InHand == IF pc \in AddSteps \cup {"sysman_switch", "create_ustack",
                                   "create_kstack", "create_table"}
          THEN {new.pid} ELSE Taken

\* A process is queued: it is started in place of the interrupted code.  The
\* handler never returns to irq0_stub, so no EOI is sent and IRQ0 stays in
\* service.
TickDispatches ==
  /\ Deliverable(TIMER)
  /\ SomeQueued
  /\ irr' = irr \ {TIMER}
  /\ isr' = isr \cup {TIMER}
  /\ esp0' = TssStack(process_queue[queue_head])
  /\ queue_head' = NextSlot(queue_head)
  /\ queue_count' = CountAfterTake
  /\ current_pid' = process_queue[queue_head].pid
  /\ running' = process_queue[queue_head]
  /\ started' = Append(started, process_queue[queue_head].pid)
  /\ pc' = "user"
  /\ new' = NoProc /\ proc' = 0
  /\ lost' = lost \cup InHand
  /\ torn_adds' = IF pc = "add_count" THEN torn_adds + 1 ELSE torn_adds
  /\ torn_takes' = IF pc = "tick_count" THEN torn_takes + 1 ELSE torn_takes
  /\ UNCHANGED <<pmVars, scheduling_enabled, process_queue, queue_tail, aux,
                 pkt_i, dropped>>

-----------------------------------------------------------------------------
(***************************************************************************)
(* The mouse, as far as it acknowledges interrupts: mouse_handler takes    *)
(* the byte in the 8042, drops a first byte without the sync bit, and      *)
(* sends EOIs of its own when the byte completes a packet.                 *)
(***************************************************************************)
Completes      == pkt_i + 1 = PacketSize
Assemble(sync) == IF pkt_i = 0 /\ ~sync THEN 0 ELSE (pkt_i + 1) % PacketSize
TakeByte       == /\ aux' = FALSE
                  /\ \E sync \in BOOLEAN : pkt_i' = Assemble(sync)

\* irq12_stub around mouse_handler: the byte may be gone (polled), and on a
\* completed packet the handler's EOIs come before the stub's.
MouseInterrupt ==
  /\ Deliverable(MOUSE)
  /\ irr' = irr \ {MOUSE}
  /\ IF aux THEN TakeByte ELSE UNCHANGED <<aux, pkt_i>>
  /\ LET entered == isr \cup {MOUSE}
         handled == IF aux /\ Completes THEN NonSpecificEOI(entered) ELSE entered
     IN  isr' = NonSpecificEOI(handled)
  /\ UNCHANGED <<pmVars, ringVars, scheduling_enabled, cpuVars, histVars, pc, new>>

\* SYSCALL_POLL_MOUSE: mouse_handler called with interrupts on, and no IRQ12 in
\* service for its EOI to retire.
PollRead ==
  /\ \/ /\ Step("poll_read", IF Completes THEN "poll_eoi" ELSE "return")
        /\ aux
        /\ TakeByte
     \/ /\ Step("poll_read", "return")
        /\ ~aux
        /\ UNCHANGED <<aux, pkt_i>>
  /\ UNCHANGED <<pmVars, ringVars, scheduling_enabled, cpuVars, irr, isr,
                 histVars, new>>

PollEOI ==
  /\ Step("poll_eoi", "return")
  /\ isr' = NonSpecificEOI(isr)
  /\ UNCHANGED <<pmVars, ringVars, scheduling_enabled, cpuVars, irr, aux, pkt_i,
                 histVars, new>>

\* The PIT raises IRQ0; the request stays latched until it is taken.
TimerFires ==
  /\ TIMER \notin irr
  /\ irr' = irr \cup {TIMER}
  /\ UNCHANGED <<pmVars, ringVars, scheduling_enabled, cpuVars, isr, aux, pkt_i,
                 histVars, pc, new>>

\* The 8042 has room for one byte and raises IRQ12 when the mouse fills it.
MouseSends ==
  /\ MouseActive /\ ~aux
  /\ aux' = TRUE
  /\ irr' = irr \cup {MOUSE}
  /\ UNCHANGED <<pmVars, ringVars, scheduling_enabled, cpuVars, isr, pkt_i,
                 histVars, pc, new>>

-----------------------------------------------------------------------------
Create == CreateLimit \/ CreatePid \/ CreateUserStack \/ CreateKernelStack \/ CreateTable
Add    == AddField \/ AddTail \/ AddCount
Yield  == TickTake \/ TickHead \/ TickCount \/ TickSwitch
Poll   == PollRead \/ PollEOI
Kernel == CreateSysman \/ SysmanSwitch \/ Create \/ Add \/ Yield \/ Poll \/ Return

Next == \/ Kernel \/ Syscall
        \/ TickReturns \/ TickDispatches \/ MouseInterrupt
        \/ TimerFires \/ MouseSends

Spec == Init /\ [][Next]_vars

\* The CPU executes, the PIT oscillates, and a deliverable interrupt is taken;
\* nothing is assumed of user programs or of the mouse.
Fairness ==
  /\ WF_vars(Kernel)
  /\ WF_vars(TimerFires)
  /\ WF_vars(TickReturns)
  /\ WF_vars(TickDispatches)
  /\ WF_vars(MouseInterrupt)

FairSpec == Spec /\ Fairness

-----------------------------------------------------------------------------
(***************************************************************************)
(* Correctness.                                                            *)
(***************************************************************************)

\* The top of the n-th kernel stack of those process_manager.c draws.
KernelStackOf(n) == KERNEL_INT_STACK_BASE + (n - 1) * KERNEL_INT_STACK_SIZE

\* The variables keep their types: the indices stay inside process_queue, the
\* count between empty and full, and no pid beyond the process table is drawn.
TypeOK ==
  /\ next_pid \in 1 .. MAX_PROCESSES
  /\ next_stack_top \in Nat /\ next_kernel_stack_top \in Nat
  /\ process_table \in [Pids -> Entry]
  /\ pcbs \in 0 .. PCB_ROOM
  /\ scheduling_enabled \in BOOLEAN
  /\ current_pid \in Nat \cup {-1}
  /\ process_queue \in [Slots -> Entry]
  /\ queue_head \in Slots /\ queue_tail \in Slots
  /\ queue_count \in 0 .. MAX_QUEUED_PROCESSES
  /\ pc \in Labels
  /\ running \in Entry /\ new \in Entry
  /\ esp0 \in Nat
  /\ proc \in Slots
  /\ irr \subseteq {TIMER, MOUSE} /\ isr \subseteq {TIMER}
  /\ aux \in BOOLEAN
  /\ pkt_i \in 0 .. PacketSize - 1
  /\ started \in Seq(Nat)
  /\ lost \subseteq Nat /\ dropped \subseteq Nat
  /\ torn_adds \in Nat /\ torn_takes \in Nat

\* A call was abandoned between moving queue_tail or queue_head and updating
\* queue_count, which leaves the ring inconsistent for good.
Torn == torn_adds + torn_takes > 0

\* A call has moved the index and not yet the count.
Adding == IF pc = "add_count" THEN 1 ELSE 0
Taking == IF pc = "tick_count" THEN 1 ELSE 0

\* queue_head, queue_tail and queue_count agree, up to the statement in
\* progress and to exactly the calls a tick abandoned at one of the two
\* statements where the index has moved and the count has not.
RingAgrees ==
  (queue_head + queue_count + torn_adds + Adding) % MAX_QUEUED_PROCESSES
    = (queue_tail + torn_takes + Taking) % MAX_QUEUED_PROCESSES

\* The pids in the ring, in order; yield takes the head before it counts.
RingLength == queue_count - Taking
Ring == [i \in 1 .. RingLength |->
           process_queue[(queue_head + i - 1) % MAX_QUEUED_PROCESSES].pid]
PidsOf(s) == {s[i] : i \in DOMAIN s}

\* Every pid process_manager.c has drawn is in exactly one place: started,
\* queued, in the hands of the code that runs, abandoned with the code that
\* held it, or turned away by a full queue.  None is started twice.
EveryPidAccounted ==
  ~Torn =>
    LET places == <<PidsOf(started), PidsOf(Ring), InHand, lost, dropped>>
    IN  /\ UNION PidsOf(places) = 1 .. next_pid - 1
        /\ \A i, j \in DOMAIN places : i # j => places[i] \cap places[j] = {}
        /\ Cardinality(PidsOf(started)) = Len(started)
        /\ Cardinality(PidsOf(Ring)) = RingLength

\* The ready queue is first come, first served: processes are started in the
\* order process_create drew their pids, whatever interrupted the calls.
StartedInOrder ==
  ~Torn =>
    LET line == started \o Ring
    IN  \A i, j \in DOMAIN line : i < j => line[i] < line[j]

\* No two processes in the table share a user stack or a kernel stack top,
\* even when creations are abandoned half way (process_manager.c:18).
StackTopsUnique ==
  \A p, q \in Pids :
    /\ p # q
    /\ process_table[p].kernel_stack # 0 /\ process_table[q].kernel_stack # 0
    => /\ process_table[p].user_stack # process_table[q].user_stack
       /\ process_table[p].kernel_stack # process_table[q].kernel_stack

\* Whenever ring 3 runs a process that process_create made, it runs on the user
\* stack of that process's PCB, and the TSS holds the PCB's kernel stack, on
\* which its next interrupt will be taken (gdt.c:122).
RunsOnItsStacks ==
  (pc = "user" /\ running.pid # 1 /\ ~Torn) =>
    LET pcb == process_table[running.pid]
    IN  /\ running = pcb
        /\ esp0 = pcb.kernel_stack

\* A creation abandoned half way uses up its pid before its stack, so the kernel stack
\* of process p is never above the p-th one: as many processes as there are stacks
\* below orbit keep clear of it, whatever creations are abandoned (process_manager.c:23).
FirstStacksClearOfOrbit ==
  \A p \in Pids :
    KernelStackOf(p) <= ORBIT_BASE => process_table[p].kernel_stack <= ORBIT_BASE

\* The ring refines a first come, first served line until it is torn: a process
\* is leaving from the moment yield moves queue_head to its entry into ring 3.
Fifo == INSTANCE ReadyFifo
          WITH Capacity <- MAX_QUEUED_PROCESSES, Procs <- Pids, line <- Ring,
               leaving <- Taken, began <- started, torn <- Torn
ImplementsFifo == Fifo!Spec

\* While IRQ0 is not stuck in service, a queued process does not wait for ever:
\* the timer starts one, whatever the running program does.
TimerServes ==
  \A n \in 0 .. MAX_PROCESSES :
    (queue_count > 0 /\ isr = {} /\ Len(started) = n) ~>
      (Len(started) > n)

-----------------------------------------------------------------------------
(***************************************************************************)
(* What comments and documents say of the program, and the code does not.  *)
(***************************************************************************)

\* "Proper EOI being sent to both PICs after each interrupt": no line is in
\* service while a program runs.
EoiAfterEachInterrupt == pc = "user" => isr = {}

\* "Kernel interrupt stacks must NOT overlap with orbit (0x00300000)!"
\* (process_manager.c:23): no kernel stack of a process reaches into orbit.
KernelStacksClearOfOrbit ==
  \A p \in Pids : process_table[p].kernel_stack <= ORBIT_BASE
=============================================================================
