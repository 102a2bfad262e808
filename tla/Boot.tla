--------------------------------- MODULE Boot ---------------------------------
(***************************************************************************)
(* kernel_main from its first line to the first instruction of sysman:     *)
(* the whole of the kernel's initialisation, in its order, with memory and *)
(* paging as in Paging, and the masks of the interrupt controllers as in   *)
(* IrqManager; then sysman, as far as it enables the mouse again.          *)
(*                                                                         *)
(* What varies is the machine, which mask writes are lost, and when an     *)
(* interrupt is possible.  What the handlers do is in Tasking and Mouse;   *)
(* here is what must be in place before they may run.  mouse_init is in    *)
(* Mouse, and what is drawn in Screen.                                     *)
(***************************************************************************)
EXTENDS Paging, IrqManager

CONSTANTS
  BAR_UNIT,               \* the low bits of a BAR are flags (16)
  PCB_SIZE,               \* what kmalloc takes for a process_t
  BOOT_ESP0,              \* TSS.esp0 as gdt_init leaves it
  KERNEL_INT_STACK_BASE   \* sysman's kernel stack

TIMER == 0
MOUSE == 12
ALL_ONES == ENTRIES * ENTRIES * PAGE_SIZE - 1   \* the highest address; no device

\* A machine has BGA graphics or not, the BAR0 of each BGA device in the order of the
\* scan, and in the BIOS's interrupt vector 255 the bit that process_manager.c reads
\* where it means the serial port.
ASSUME BootAssumption ==
  /\ Lines = {TIMER, MOUSE}
  /\ {BAR_UNIT, PCB_SIZE} \subseteq Nat \ {0}
  /\ {BOOT_ESP0, KERNEL_INT_STACK_BASE} \subseteq Nat
  /\ \A mach \in Machines :
       /\ {mach.bga, mach.vector255} \subseteq BOOLEAN /\ DOMAIN mach.bars \subseteq Nat
       \* A BAR that was set is not in memory, and the device ends in the address space.
       /\ \A bar \in Range(mach.bars) :
            bar \in {0, ALL_ONES} \/ bar \in MB + mach.total_pages * PAGE_SIZE .. ALL_ONES - FB_SIZE

VARIABLES
  at,            \* the next step of kernel_main
  if_flag,       \* the processor takes interrupts
  gates,         \* the gates of the IDT: the handler of each vector
  esp0,          \* TSS.esp0; 0 before ltr
  kernel_heap,   \* heap_start; 0 before kheap_init
  scheduling_enabled,
  sysman,        \* process_table has sysman
  framebuffer    \* the BGA driver's; 0 before bga_init

cpuVars  == <<if_flag, gates, esp0>>
ownVars  == <<kernel_heap, scheduling_enabled, sysman, framebuffer>>
bootVars == <<vars, irqVars, at, cpuVars, ownVars>>

\* kernel_main, and process_create_sysman from its sti on.
KernelMainTimerEarly ==
  <<"bga_check", "memory", "gdt", "idt", "remap", "exceptions", "mouse_gate", "kheap", "managers",
    "enable_timer", "sti", "bga_init", "draw", "enable_mouse", "modules", "cli",
    "enable_scheduler", "create_sysman", "sti", "ring3", "sysman">>
KernelMain ==
  <<"bga_check", "memory", "gdt", "idt", "remap", "exceptions", "mouse_gate", "kheap", "managers",
    "sti", "bga_init", "draw", "enable_mouse", "modules", "cli",
    "enable_scheduler", "enable_timer", "create_sysman", "sti", "ring3", "sysman">>
STOPPED == Len(KernelMain) + 1   \* hlt for ever, a fault, or a loop that never ends

Vectors == 0 .. 255
NoGates == [vector \in Vectors |-> "none"]

At(label) == at # STOPPED /\ KernelMain[at] = label

\* The step that is next, with no call of irq_manager.c under way.
Do(label) == At(label) /\ ipc \in {"reset", "idle"} /\ at' = at + 1
Stop      == at' = STOPPED

-----------------------------------------------------------------------------
BootInit ==
  /\ Init /\ IrqInit
  /\ at = 1 /\ if_flag = FALSE /\ gates = NoGates /\ esp0 = 0
  /\ kernel_heap = 0 /\ scheduling_enabled = FALSE /\ sysman = FALSE /\ framebuffer = 0

\* bga_is_available.
CheckBga ==
  /\ At("bga_check")
  /\ IF machine.bga THEN at' = at + 1 ELSE Stop
  /\ UNCHANGED <<vars, irqVars, cpuVars, ownVars>>

\* pmm_init to the map of the framebuffer; the kernel stops if it unmaps itself.
InitMemory ==
  /\ At("memory")
  /\ \/ pc # "orbit" /\ SetUpMemory /\ at' = IF pc' = "stopped" THEN STOPPED ELSE at
     \/ pc = "orbit" /\ UNCHANGED vars /\ at' = at + 1
  /\ UNCHANGED <<irqVars, cpuVars, ownVars>>

\* gdt_init and gdt_load: the TSS has a stack for interrupts from ring 3.
LoadGdt == /\ Do("gdt") /\ esp0' = BOOT_ESP0
           /\ UNCHANGED <<vars, irqVars, if_flag, gates, ownVars>>

\* Calls of idt_set_entry for the vectors that have a handler in new.
SetGates(label, new) ==
  /\ Do(label)
  /\ gates' = [vector \in Vectors |-> IF new[vector] # "none" THEN new[vector] ELSE gates[vector]]
  /\ UNCHANGED <<vars, irqVars, if_flag, esp0, ownVars>>

\* idt_init zeroes every gate before idt_load.
LoadIdt == /\ Do("idt") /\ gates' = NoGates
           /\ UNCHANGED <<vars, irqVars, if_flag, esp0, ownVars>>

ExceptionGate(vector) == IF vector \in 0 .. 19 THEN "exception_stub"
                         ELSE IF vector = 128 THEN "syscall_int" ELSE "none"
TimerGate(vector)     == IF vector = 32 THEN "irq0_stub" ELSE ExceptionGate(vector)
MouseGate(vector)     == IF vector = 44 THEN "irq12_stub" ELSE "none"
SetExceptions == SetGates("exceptions", [vector \in Vectors |-> TimerGate(vector)])
SetMouseGate  == SetGates("mouse_gate", [vector \in Vectors |-> MouseGate(vector)])

\* The calls of irq_manager.c: the next step waits until they return.
CallIrq ==
  /\ \/ Do("remap") /\ IrqManagerInit
     \/ Do("enable_mouse") /\ IrqEnable(MOUSE)
     \/ Do("enable_timer") /\ IrqEnable(TIMER)
  /\ UNCHANGED <<vars, cpuVars, ownVars>>

StepIrq ==
  /\ Remap \/ EnableNext
  /\ UNCHANGED <<vars, at, cpuVars, ownVars>>

\* kheap_init: without a page the heap starts at address 0.
InitHeap ==
  /\ Do("kheap")
  /\ \E frame \in DOMAIN mem : Alloc(frame) /\ kernel_heap' = frame * PAGE_SIZE
  /\ UNCHANGED <<machine, mem, dir, enabled, pc, addr, irqVars, cpuVars, scheduling_enabled,
                 sysman, framebuffer>>

\* process_manager_init and scheduler_init set what is so from the start, then pit_init.
InitManagers ==
  /\ Do("managers") /\ scheduling_enabled' = FALSE /\ sysman' = FALSE
  /\ UNCHANGED <<vars, irqVars, cpuVars, kernel_heap, framebuffer>>

SetIf ==
  /\ \/ Do("sti") /\ if_flag' = TRUE
     \/ Do("cli") /\ if_flag' = FALSE
  /\ UNCHANGED <<vars, irqVars, gates, esp0, ownVars>>

\* bga_get_framebuffer_addr: the first BAR that was set, without its flags, or the
\* address kernel_main has mapped.
BarAddressRaw(bar) == bar
BarAddress(bar)    == (bar \div BAR_UNIT) * BAR_UNIT
BarsSet == {i \in DOMAIN machine.bars : machine.bars[i] \notin {0, ALL_ONES}}

InitBga ==
  /\ Do("bga_init")
  /\ framebuffer' = IF BarsSet = {} THEN FB_ADDR ELSE BarAddress(machine.bars[Min(BarsSet)])
  /\ UNCHANGED <<vars, irqVars, cpuVars, kernel_heap, scheduling_enabled, sysman>>

\* The loading screen: bga_clear writes every word of the framebuffer, and a page that
\* is not mapped faults in the kernel.
Draw ==
  /\ At("draw")
  /\ IF enabled => \A f \in Frames(framebuffer, framebuffer + FB_SIZE) : Walk(f) # Absent
       THEN at' = at + 1 ELSE Stop
  /\ UNCHANGED <<vars, irqVars, cpuVars, ownVars>>

\* With fewer than two modules kernel_main goes idle, interrupts on.
LoadModules ==
  /\ At("modules") /\ ipc = "idle" /\ CopyOrbit
  /\ IF pc' = "ready" THEN at' = at + 1 ELSE Stop
  /\ UNCHANGED <<irqVars, cpuVars, ownVars>>

EnableScheduler ==
  /\ Do("enable_scheduler") /\ scheduling_enabled' = TRUE
  /\ UNCHANGED <<vars, irqVars, cpuVars, kernel_heap, sysman, framebuffer>>

\* process_create_sysman up to its sti.  kmalloc takes pages until those it has taken
\* would reach from address 0 to the end of the PCB, whoever's they are; it fails at the
\* end of the heap, and a heap at address 0 looks as if it had.
PcbEnd     == kernel_heap + PCB_SIZE
Lowest(n)  == {p \in Pages \ used : Cardinality({q \in Pages \ used : q < p}) < n}
HeapPages  == Lowest(Frame(Up(PcbEnd, PAGE_SIZE)))

CreateSysman ==
  /\ At("create_sysman") /\ ipc = "idle"
  /\ \/ /\ machine.vector255
        /\ IF PcbEnd > KERNEL_SPACE
             THEN Stop /\ UNCHANGED <<bitmapVars, sysman, esp0>>
             ELSE /\ used' = used \cup HeapPages
                  /\ used_pages' = used_pages + Cardinality(HeapPages)
                  /\ IF kernel_heap = 0
                       THEN Stop /\ UNCHANGED <<sysman, esp0>>
                       ELSE sysman' = TRUE /\ esp0' = KERNEL_INT_STACK_BASE /\ at' = at + 1
     \/ ~machine.vector255 /\ Stop /\ UNCHANGED <<bitmapVars, sysman, esp0>>
  /\ UNCHANGED <<machine, mem, dir, enabled, pc, addr, exhausted, irqVars, if_flag, gates,
                 kernel_heap, scheduling_enabled, framebuffer>>

\* ring3_switch_with_stack.
EnterRing3 == /\ Do("ring3")
              /\ UNCHANGED <<vars, irqVars, cpuVars, ownVars>>

\* SYSCALL_RE_ENABLE_MOUSE, at any time and abandoned anywhere; its drain of the 8042 is
\* in Mouse.
ReEnableMouse ==
  /\ At("sysman")
  /\ IrqEnable(MOUSE) \/ AbandonEnable
  /\ UNCHANGED <<vars, at, cpuVars, ownVars>>

Kernel == \/ CheckBga \/ InitMemory \/ LoadGdt \/ LoadIdt \/ CallIrq \/ StepIrq \/ SetExceptions
          \/ SetMouseGate \/ InitHeap \/ InitManagers \/ SetIf \/ InitBga \/ Draw \/ LoadModules
          \/ EnableScheduler \/ CreateSysman \/ EnterRing3

BootNext == Kernel \/ ReEnableMouse

\* There is always a next instruction.
BootSpec == BootInit /\ [][BootNext]_bootVars /\ WF_bootVars(Kernel)

-----------------------------------------------------------------------------
BootTypeOK ==
  /\ TypeOK /\ IrqTypeOK
  /\ at \in 1 .. STOPPED
  /\ {if_flag, scheduling_enabled, sysman} \subseteq BOOLEAN
  /\ gates \in [Vectors -> {"none", "exception_stub", "syscall_int", "irq0_stub", "irq12_stub"}]
  /\ {esp0, kernel_heap, framebuffer} \subseteq Nat

\* The vector a controller gives to the processor for one of its lines.
Number(byte)  == LET digit(bit) == IF bit \in byte THEN 2 ^ bit ELSE 0
                 IN  digit(0) + digit(1) + digit(2) + digit(3)
                       + digit(4) + digit(5) + digit(6) + digit(7)
Vector(line)  == Number(icws[PicOf(line)][1]) + BitOf(line)
Connected     == Number(icws["slave"][2]) \in icws["master"][2]
OwnHandler    == [line \in Lines |-> IF line = TIMER THEN "irq0_stub" ELSE "irq12_stub"]

\* Whenever the processor may take an interrupt, each line that it may come from has a
\* handler, and the handler is that line's: the controllers are remapped away from the
\* exceptions and wired to each other, and the gate is there.  The timer, whose tick
\* starts processes, may come only when there is a process and the scheduler is on.
\* Sysman starts on its own interrupt stack, with a gate for every exception and for
\* its system calls.
HandlersReady ==
  /\ (if_flag /\ ipc # "remap") =>
       \A pic \in Pics, bit \in Bits :
         LET line == IF pic = "master" THEN bit ELSE 8 + bit
         IN  (Heard(line) /\ line # CASCADE) =>
               /\ line \in Lines
               /\ Vector(line) \in Vectors /\ gates[Vector(line)] = OwnHandler[line]
               /\ line >= 8 => Connected
               /\ line = TIMER => scheduling_enabled /\ sysman
  /\ At("sysman") =>
       /\ if_flag /\ esp0 = KERNEL_INT_STACK_BASE
       /\ \A vector \in Vectors :
            ExceptionGate(vector) # "none" => gates[vector] = ExceptionGate(vector)

\* A machine as the build's emulator has it, with memory for the tables and a heap that
\* starts below the end of the map, runs sysman in the end.
Bootable(mach) == /\ mach.bga /\ mach.vector255 /\ Len(mach.mods) >= 2
                  /\ \A bar \in Range(mach.bars) :
                       bar \in {0, ALL_ONES} \cup FB_ADDR .. FB_ADDR + BAR_UNIT - 1
SysmanRuns == (Bootable(machine) /\ [](Sound /\ PcbEnd <= KERNEL_SPACE)) => <>At("sysman")
=============================================================================
