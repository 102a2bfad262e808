# MaahiOS in TLA+

MaahiOS is a small 32-bit x86 operating system: a kernel that boots by multiboot,
allocates pages, turns paging on, and runs three kinds of code on one CPU: interrupt
handlers, system calls, and ring-3 programs (`sysman`, which starts `orbit`, the
desktop). This directory models the parts of it where orders of events matter,
checks them with TLC on small instances, and proves most of their safety properties with TLAPS
for every size: those of the process manager, the scheduler and its queue, the memory managers,
the boot, paging, the interrupt masks, the mouse driver, the user heap and the cursor.

Source paths below are relative to `src/src/`.

## 1. The system

### Components

| Component | State | Operations | Where in here |
|---|---|---|---|
| Boot, `kernel.c` | none of its own | `kernel_main`: everything below in one order, the copy of orbit to 3 MB, then sysman | Boot |
| Physical pages, `managers/memory/pmm.c` | `bitmap`, `total_pages`, `used_pages` | `pmm_init`, `pmm_mark_region_used`, `pmm_alloc_page`, `pmm_free_page` | Paging, Memory |
| Paging, `managers/memory/paging.c` | `kernel_page_directory` and its tables | `paging_init`, `paging_map_page`, `paging_enable`, `vmm_*` | Paging, Memory |
| Kernel heap, `lib/kheap.c` | `heap_start`, `heap_current`, a static | `kheap_init`, `kmalloc`; `kfree` does nothing | Memory |
| Process manager, `managers/process/` | `next_pid`, two next stack tops, `process_table` | `process_create_sysman`, `process_create` | Tasking |
| Scheduler, `managers/scheduler/` | ring of 16 queued processes, `current_pid` | `scheduler_add_process`, `scheduler_tick` | Tasking, ReadyFifo |
| Ring 3 and TSS, `managers/ring3`, `managers/gdt` | `TSS.esp0` | `ring3_switch_with_stack`, `gdt_set_kernel_stack` | Tasking, Traps, Boot |
| PIT, PICs, stubs | requests and lines in service | `irq0_stub`, `irq12_stub`, EOIs | Tasking (EOIs), Traps (frames) |
| System calls, `syscalls/` | two text colours | wrappers, `syscall_int`, `syscall_dispatcher`, interrupts on | Traps (the way in and out); the cases in Tasking, Memory, Mouse, Screen, TextScreen, Desktop |
| Mouse driver, `drivers/mouse.c` | byte index, packet, ring of 128, position | `mouse_init`, `mouse_handler`, `mouse_read`, `mouse_drain_buffer` | Mouse, EOIs in Tasking |
| orbit and cursor, `orbit/`, `libgui/cursor_compositor.c` | statics of the loop, saved pixels | what it draws, the main loop, `orbit_draw_cursor` | Screen, Desktop |
| Graphics screen, `drivers/bga.c` | framebuffer, text cursor | clear, fill, outline, text, BMP | Screen, Desktop |
| Text screen, `drivers/vga.c` | cells, cursor, colour | text, positioned text, clear, cursor, rectangle, box | TextScreen |
| IDT and exceptions, `managers/interrupt/` | gates | the stubs, `exception_handler` | Traps, Boot (gates), TextScreen (reports) |
| User heap, `lib/heap.c` | a list of blocks per program | `malloc`, `free` | UserHeap |
| sysman | none | draws, starts orbit | Screen; a program of Tasking |
| IRQ manager, `managers/irq` | masks of the PICs | `irq_manager_init`, `irq_enable` | IrqManager, Boot |
| GUI windows and controls | pools of 8 and 32 | create, destroy, draw, hit test | `gui_button` in Screen; else not yet |
| VBE, mode 13h, PCI, USB | registers | output and probing | no |

### How they interact

There is one CPU, and no code of the kernel takes a lock. What interleaves is decided by
the interrupt flag:

* Interrupt handlers run with interrupts off and are not interrupted.
* `syscall_dispatcher` executes `sti` (`syscall_handler.c:198`), so every system call
  may be interrupted between any two instructions, by the timer or the mouse.
* `irq0_stub` calls `pit_handler`, which calls `scheduler_tick`. If a process is queued
  this *starts* it: IRET to ring 3 with a new stack. Nothing saves what was
  interrupted, so it is never resumed, whether it was a program or the middle of
  a system call. There is no round robin: a process that was replaced is gone.

So a system call sees two kinds of interference: a tick that returns and has changed
nothing the call uses, and a tick that *abandons* the call where it stands. This is the
source of most hazards (partial failure at every statement), and it decides how the models
are cut into steps: a system call is modelled one access to shared state at a time, a
handler is one action, and two statements share an action only if abandoning the call
between them leaves the same state as abandoning it before both.

### What is hard, and what would be correct

* *Process manager and scheduler.* A creation or a start abandoned half way. Every pid is
  in one place, processes start in the order of their creation, no two share a stack, each
  runs on its own; the ring's head, tail and count agree; somebody queued is started.
* *Pages and kernel heap.* An allocation abandoned between bit and count; a heap that takes
  pages without looking at them. Nothing is owned twice, the count tracks the bitmap, the
  heap grows over no page of a program.
* *Paging.* Allocation and reservation of the directory and its tables in an order that only
  works out on some machines. Structures do not overlap, and everything is mapped to itself.
* *Boot.* Twenty steps in one order, interrupts on for most of them, on machines nobody has tried. No
  interrupt finds its vector, its gate or what its handler uses missing, and sysman is reached.
* *Interrupt masks.* Read, modify, write, read again, retry, abandoned anywhere by a tick. Nothing
  is opened that nobody asked for, and what was asked for is open.
* *Mouse.* One handler, run as an interrupt and inside a system call with interrupts on. No
  store out of bounds, the cursor on the screen, packets whole and in order, bytes taken.
* *Desktop.* Saved pixels that are stale, three system calls that read one position, a polling
  fallback. The cursor destroys nothing and ends where the mouse is.
* *System-call plumbing.* Six words pushed by hand, two stacks, registers that a C function may
  clobber, interrupts between any two instructions. Arguments and results arrive, nothing interrupted
  notices, each `iret` and `ret` finds its address.
* *Screen.* Drawing cut short at any word, a text cursor that outlives the call, shapes across
  every edge. A call paints its shape and nothing else.
* *Text screen.* A cursor in two static variables that every print, report and borrowed position moves one
  after the other, at the edge, on the last line, and cut off anywhere. A call shows its text and
  leaves the cursor behind it.
* *User heap.* Split, join, growth by pages that do not touch. No byte lost, objects apart,
  an end to the recursion.

`PROJECT.json` lists every hazard at its line with the properties that cover it.

## 2. The modules

| Module | What it is |
|---|---|
| `Tasking` | process manager, scheduler, ring-3 switch, timer and EOIs, statement by statement |
| `ReadyFifo` | what the ready queue promises: a bounded first come, first served line |
| `Memory` | page allocator and kernel heap at run time, with the calls abandoned |
| `Paging` | page allocator, directory and tables during boot, for many machines |
| `IrqManager` | the masks of both controllers, `irq_enable` and its retries, writes that are lost |
| `Boot` | `kernel_main`, from the check for graphics to sysman: `Paging` and `IrqManager` in one order with everything else |
| `Mouse` | the mouse driver and the 8042 |
| `Desktop` | orbit's loop, the cursor compositor and the pixel functions |
| `UserHeap` | `malloc` and `free` of a program |
| `Traps` | wrappers, stubs, gates, dispatcher and exception handler, word by word on the stack |
| `Screen` | the drawing functions, and kernel, sysman and orbit drawing one after the other |
| `TextScreen` | extends `Screen` by the text screen: the text calls, faults and the reports of them |
| `MC...` | the instance of each for TLC |
| `TaskingProofs`, `MemoryProofs`, `MouseProofs`, `UserHeapProofs`, `DesktopProofs`, `TrapsProofs` | proofs about the module in the name |
| `BootProofs` | proofs about `Boot` and its two parts: the masks of `IrqManager`, the order of `kernel_main`, and `Paging` |
| `ScreenProofs` | proofs about `Screen` and `TextScreen` |

They meet at stated interfaces rather than in one product:

* `Boot` is composed of `Paging` and `IrqManager`: it extends both, and its actions are theirs or leave their
  state alone. It ends where `Tasking` starts (sysman running, the scheduler on, the timer open).
* `TextScreen` extends `Screen` in the same way: one program, one call at a time, two screens.
* `Paging` ends where `Memory` starts: `ReadyForMemory` is `Memory`'s initial state (the used
  pages are the first `used_pages`).
* `Memory` and `Mouse` replace the scheduler by the action `Abandon`, which is `Tasking`'s
  `TickDispatches` seen by a call in progress.
* `Tasking` and `Mouse` share `mouse_handler`: the EOIs are in the first, the bytes in the second.
* `Desktop` takes from the mouse what `Mouse` establishes: packets taken by an interrupt, which leaves the
  position on the screen, or by a poll, which may be cut off between movement and limits and then leaves it
  beyond the edge until the next packet (`OnScreen` with its `cut`).
* `Tasking`, `Memory`, `Mouse`, `Screen` and `TextScreen` start inside the dispatcher, with their arguments; that they
  get there, and that an interrupt leaves them as they were, is `Traps`.
* `Screen` ends where `Desktop` starts: a desktop that is drawn. Its `TickStarts` is `TickDispatches` too.
* `UserHeap` takes from `Memory` that a page is given to one program only, the lowest free
  one first (`FirstFree`).

### From state and actions to the code

`PROJECT.json`'s map gives the lines of every definition. In general:

* A variable has the name of the C variable. `pc` names the next statement of the
  code in progress, and other variables hold its locals (`new`, `proc`, `page`, `ptr`, `idx`,
  ...). Variables that the comments call *history* (`started`, `lost`, `torn_adds`, `held`,
  `leaked`, `disturbed`, `crossed`, `cut`, `stained`, ...) are read by no action.
* The expressions that decide are operators of their own (`QueueFull`, `SlotToFill`, `Freeable`,
  `Join`, ...). Some have a neighbour that is wrong on purpose (`QueueFullOffByOne`,
  `JoinBare`): no action uses these; put in the place of the right one, each makes a run fail.
* The bounds that are not the code's are constants: `MAX_CREATIONS`, `MAX_STARTS`, `MAX_PACKETS`,
  `MAX_LIVE`, `MAX_MALLOCS`, `REACH`. `MAX_BMP` is the code's 128.

`Tasking`. *Init* is `kernel_main` after its `cli`. `CreateSysman` and `SysmanSwitch` are
`process_create_sysman`; `Syscall` and `Return` enter and leave the dispatcher; `Create...`
and `Add...` are the statements of `process_create` and `scheduler_add_process`;
`TickTake` ... `TickSwitch` are `scheduler_tick` called by `SYSCALL_YIELD` with interrupts on;
`TickReturns` and `TickDispatches` are the timer interrupt. `isr` is the in-service state of the
controllers, with the nesting rules of the 8259A; the sti of a system call lets an
interrupt in only if no line of its priority or above is in service.
The poll is cut only where its EOI matters. Addresses are in KB. `PCB_ROOM` stands for the memory
kmalloc can still find.

`Memory`. `AllocSet`, `AllocCount`, `AllocReturn` are `pmm_alloc_page`; `FreeClear`, `FreeCount`
are `pmm_free_page`; `KmallocBump` and `KmallocCover` are `kmalloc`, whose calls of
`pmm_alloc_page` go through the same three actions. A program frees what it holds, a free page, or an
address outside memory: `pmm_free_page` has no notion of owners, and with any other use
no ownership could be stated. Addresses are in units of 16 bytes.

`Paging`. One action per step of the boot; `MapIdentity` and `MapFramebuffer` map one page each,
and `MapPage` allocates a table when there is none. `Walk` is what the processor does. `mem`
is physical memory as words, so that tables that overlap would be seen.

`IrqManager`. A byte is the set of its bits. `IrqEnable(line)` enters `irq_enable`; a line of the slave makes
two passes of `ReadMask`, `WriteMask`, `CheckMask`, `RetryMask`, first for the cascade (`PassEnds`
goes from one to the other). `OutMask` is one `outb`, which may get lost: the code has loops for it.
`Remap` sends the ten words of `pic_remap` to what `Accept` knows of an 8259A.

`Boot`. `KernelMain` is the sequence of labels, `at` the place in it; a step is taken by the action that asks
for its label. A call of `irq_manager.c` is entered by one step and holds up the next one until it has
returned. `InitMemory` takes `Paging`'s steps. `ReEnableMouse` is sysman's system call. A machine also has a list of BAR0s
and the byte at 0x3FD. What faults or halts goes to `STOPPED`.

`Mouse`. `MouseInterrupt` is the whole handler (`HandlerStores`, `HandlerCompletes`, ...);
`PollStatus` to `LimitTop` are the same handler inside `SYSCALL_POLL_MOUSE`, one
access at a time, with `pkt[pkt_i++] = b` as load, store, use. `AwaitAck` to `FlushRead`
are the end of `mouse_init`, which races with IRQ12 for the ACK. `Machines` are the machines looked at: the calls
their programs make, whether keys are pressed, how many packets come; `machine` is the one at hand.

`Desktop`. `ReadX`, `ReadY`, `CountSilence`/`CountReset`, `Poll` are the rounds of orbit's loop;
`DrawCursor`, `RestoreArea`, `BackupArea`, `DrawShape` are `orbit_draw_cursor`. A packet is one call
of the handler here. `MouseInterrupt` leaves any position on the screen; `Poll` leaves any position `Around` it, and
`PollLimits` limits that, unless a tick starts another orbit first. `stained` are the pixels of cursors
that were drawn left of the screen, which nobody removes. The background gives every pixel a
colour of its own, so a pixel restored in the wrong place is noticed. `StartOrbit` is a tick that
starts another orbit, at any step.

`UserHeap`. `TakeBlock`, `NothingFits` and `Expand` are one level of `malloc`'s recursion; `Free` is
`free`; `OthersTake` and `OthersGive` are the rest of the system, which makes the
pages of the heap non-contiguous and out of order.

`Traps`. A word on a stack says what it is (`<<"arg", 2>>`, `<<"ebx", 0>>`), so that words that change
places are seen. `Int80` is a wrapper up to its `int $0x80` and `syscall_int` up to its call, which run
with interrupts off or on registers only; from `Sti` on every instruction is a step of its own.
`Irq` and `IrqReturns` are both interrupt stubs; the C handlers in between are `Tasking` and `Mouse`.
`Fault` is any exception in a program or in a case of the dispatcher. Locals of C functions, which the
compiler lays out, are not on the stack of the model; what is read beyond the frame is `Junk`. Hence
either branch of `exception_handler` may follow a fault.

`Screen`. `StartCall` is a wrapper up to its drawing function; `WritePixel` one word of the framebuffer.
The words of a shape are computed by the functions' loops (`FillWrites`, `BmpWrites`, ...); `ShapeOf` says
the same shape as a set of points in the plane, and `Painted` compares. An image may be missing, no BMP,
without a size or larger than `MAX_BMP`; for the last two a yellow square is drawn. A write outside the
framebuffer would add a word to `fb`. `KernelDraws`, `SysmanDraws`, `OrbitDraws` are the programs with
one of each kind of drawing where the code repeats one (five nested fills, four buttons).

`TextScreen`. A text call is a string of characters for `putchar`, `puts`, `putint` (`PutintText` makes the
digits) and `vga_print`, which have the same body; `BreakLine`, `NextLine`, `LimitLine`, `PutHere`,
`StepRight` are its stores. `vga_print_at` borrows the cursor: `ToX`, `ToY`, then `PutThere`, `StepThere`,
then `BackX`, `BackY`. `Fault` is an exception of a program, or of the kernel reading its string;
`ReportDraws` and `PanicDraws` are the two reports with one label, value and colour of each kind. Exception
gates are trap gates, so that a tick cuts a report short like a call. `Asked` and `CursorBehind`
say where text belongs by counting lines and columns. The cells are what is stored at 0xB8000; whether the
adapter shows them is outside the model.

## 3. The runs

All passing runs are complete explorations.

| Run | Instance | What it shows |
|---|---|---|
| `tasking` | 6 processes, ring of 2, memory for 4 PCBs, room for 3 kernel stacks below orbit | types; ring indices; pids; order; stacks; `ImplementsFifo`; a queued process is started whatever the program does |
| `tasking_eoi` | 2 processes | violation: the EOI of a starting tick is missing |
| `tasking_stacks` | the code's sizes: 63 creations, stacks of 16 KB from 0x280000, orbit at 0x300000 | violation: the 34th kernel stack reaches orbit |
| `memory` | 8 pages of 3 units, PCBs of 2, 5 creations, 3 starts | ownership, count, heap, PCBs, every call ends |
| `boot` | 174 machines with 4 masks of the BIOS each, 3 lost writes, pages of 4 bytes, tables of 8 entries | layout, the map, the hand-over to `Memory`; handlers before their lines; masks; sysman is reached |
| `mouse` | ring of 2, up to 3 packets of -127 on 4 machines (with and without polls, keys, drains), screen of 301 lines, one start | order, whole packets, limits, bytes taken |
| `mouse_atomic` | 3 packets, polls | violation: a store beyond `pkt` |
| `user_heap` | 3 pages of 64 bytes, size_t of 8 bits, 4 mallocs, 3 objects | bytes, objects, end of malloc |
| `traps` | all wrappers, one exception with and one without error code | frames, arguments, results, interrupts without a trace |
| `traps_rect` | the same | violation: `draw_rect`'s height and colour |
| `screen` | screen of 6x4, characters of 2x2, text screen of 3x2, 35 calls to choose three from, images up to 2x2 and beyond, two faults | words written, shapes, the desktop, the text |
| `desktop` | screen 3x3, positions up to one pixel beyond it, cursor 2x2, 3 movements, one more orbit | pixels, what a cut poll leaves behind, and the cursor's final place |

### Why the bounds are enough

* *Tasking.* Six processes are three times the ring: it wraps, fills, turns a process away, and the
  memory for PCBs runs out. Ring positions repeat after two steps, so a longer run only repeats. One tick
  can start a process before IRQ0 is stuck in service; the poll's non-specific EOI retires it
  again, so several do, and both kinds of torn ring occur. The fourth kernel stack overruns orbit's place, so
  `FirstStacksClearOfOrbit` is about the first three while the overrun happens; `tasking_stacks` has the code's
  own sizes and needs no interrupt.
* *Memory.* `PAGE_SIZE = 3` and `PCB_SIZE = 2` make PCBs straddle pages; heap end 15 is inside the
  memory, so both "out of space" and "out of pages" occur; five creations go beyond the heap,
  and three starts are one for each kind of abandoned call. As in the
  code, where 63 PCBs fill less than a page, the heap ends within what its first call has taken; beyond
  that `HeapClearOfPrograms` would not hold.
* *Boot.* Three lost writes are one more than the shorter of the two loops makes up for, so both sides of the
  premise of `MasksAsAsked` occur; two lines are all the code enables. The machines vary in memory (so small that tables run out; small enough that the
  reservation reaches beyond its end; large), in the kernel's end, in gaps between modules, and in the
  size of the second module, up to one that pushes the bitmap beyond the place of orbit. The
  proportions are the code's: 32 bytes stand for 32 MB, 96 for 128 MB. One machine comes also without BGA, without a
  BAR, with a BAR elsewhere, and with the bit at 0x3FD clear: all the ways to stop.
* *Mouse.* Movements have their 8 bits, and the screen 301 of its 768 lines, so that one movement of twice 127
  from line 240 passes the limit. Three packets in a ring of two go over the tail. With polls two packets are
  enough: one under way in a poll, and another one by an interrupt inside it. One start cuts one call off.
* *Desktop.* On a screen a little larger than the cursor all overlaps of old and new
  position, and all of the two lower edges, occur in one move; the third move
  comes after an arbitrary pair. One pixel beyond each edge (`REACH`) is enough for a position that is negative, whose
  cursor is partly on the screen and taken for none, and for one beyond the right and the lower edge. The one more
  orbit is started after a poll was cut, or in the middle of a move.
* *Traps.* One call at a time, with an exception in it and an interrupt in that, is all that fits on a
  kernel stack, for handlers run with interrupts off; more calls repeat the same frames. The two
  exceptions are one of each stub.
* *Screen.* Three calls are what a torn text cursor needs: one that starts a program, one that is cut, one
  that prints after it. Six cells make a print of four wrap in both directions. `MAX_BMP = 2`
  lies below the images of 3x1 and 1x3, one too wide and one too high. The rectangles cross
  each edge, miss the screen, are empty, and have a negative width. On the text screen strings of exactly a
  line, of more than the screen, and of newlines only reach every wrap from every column. The programs that
  fault (`FAULTY`) are the one without a script of its own and what runs after a report: a fault
  while sysman or orbit draws would only cut what ticks cut anyway.
* *UserHeap.* Sizes on both sides of every limit: rounded up, the exact remainder for a split,
  a whole page, more than a page, and one that wraps around in `align_size`.

`CHECK_DEADLOCK FALSE` is set where the modelled part may really stop: after `SYSCALL_EXIT` with IRQ0 stuck
in service (`tasking`), a mouse that has sent its packets, a boot that is over, a
fatal exception, and a program that has made its calls.

### Fairness

* The CPU executes the next statement of kernel code (`WF` on `Kernel`, `Handler`, `Steps`, `Loop`,
  ...): there is always a current instruction, and handlers are finite.
* `boot` assumes it of `kernel_main` only; that sysman is reached is stated for machines as the emulator has them
  (`Bootable`) whose memory holds what the boot needs.
* The PIT oscillates and a request that can be delivered is taken (`tasking`): it is the hardware's
  doing. A request blocked by a line in service is not taken, and nothing forces it.
* `mouse` assumes, on the machines whose programs poll, that a poll is made again and again, which is orbit's
  endless loop, and *not* that IRQ12 comes: the poll exists for the case that it does not. Once a byte has been
  stored out of bounds the program is undefined and the liveness property asks no more.
* `desktop` assumes only that orbit's loop runs; interrupts may stop for good at any step.
* Nothing is assumed of user programs, of the mouse, or of other programs' pages. `TimerServes` is
  stated for the case that IRQ0 is not stuck in service, since it can be (finding below).

## 4. The proofs

All theorems hold for every value of the constants that meets the `ASSUME` of the module:
`TaskingAssumption`, `MemoryAssumption`, `PagingAssumption`, `IrqAssumption`, `BootAssumption`,
`MouseAssumption`, `UserHeapAssumption`, `DesktopAssumption`, `TrapsAssumption`, `ScreenAssumption`,
`RequestsAssumption`, `TextAssumption`, `TextRequestsAssumption`. TLC evaluates all of them in the runs. They
say that sizes are natural numbers, positive where the code divides by them or indexes with them, and:

* interrupt lines are 0 to 15, the shorter loop of retries is the cascade's, the two lines are what kernel_main enables;
* of memory at boot: the boundaries are those of pages; kernel and modules lie one behind the other in the machine's
  memory, as multiboot loads them, and the bitmap and one more page behind them; the framebuffer is above all
  memory; orbit's place (3 MB) is no higher than 2 MB and the span of one table (4 MB);
* a BAR that was set names a range outside memory that fits into the address space;
* the pages of a program's heap, and the size of a page, fit into `size_t`;
* the wrappers called are among the wrappers there are, and the exceptions are numbers 0 to 19;
* the sizes of a character divide those of the screen, every character has a glyph within its cell, a space
  and orbit's letters among them, and the sizes of a button are no larger than half of a 16-bit register holds; a call carries integers of any sign for its positions and sizes,
  the sizes of an image are not negative, and a program that is started is one of those with an entry point.

Four theorems have a hypothesis of their own; each is named below with the reason for it.

### The process manager and its queue (`TaskingProofs`)

* `TypeCorrect`: `Spec => []TypeOK`. `TypeOK` alone is not inductive: that `queue_count` stays at
  most `MAX_QUEUED_PROCESSES` when `queue_count++` runs depends on a test seven statements earlier.
  `Guarded` says what such tests still guarantee (not full in `AddSteps`, not empty in a start,
  a pid left after the limit check). It is inductive because a tick between test and use either changes
  nothing or abandons the code; that is the design argument of the code, made explicit.
* `RingAlwaysAgrees`: `Spec => []RingAgrees`, modulo the ring size and counting the calls abandoned
  at the two bad statements (`torn_adds`, `torn_takes`). Each action adds one to both sides, or
  to none.
* `StackTopsAlwaysUnique`: `Spec => []StackTopsUnique`, from an invariant that says every stack top in the
  table, and the one in the hands of a creation, is below the next one, with an order
  kept between the two moves of a creation.
* `FirstStacksAlwaysClearOfOrbit`: `Spec => []FirstStacksClearOfOrbit`, for any sizes: as many processes as there are kernel
  stacks below orbit keep clear of it. A creation draws its pid before its stack, and neither is given back, so the stack of
  process `p` is never above the `p`-th one, however many creations are abandoned between the two (`OrbitInv`). The code bounds
  the number of processes by its table only, which is more than there is room for: section 5.
* `EveryPidAlwaysAccounted`, `AlwaysStartedInOrder`, `AlwaysRunsOnItsStacks` and `RingImplementsFifo`. The properties say
  nothing once an abandoned call has torn the ring, and so does their invariant, `LineInv`, until then (`UntilTorn`).
  Its parts: every pid drawn is in one place (`Accounted`) and the places are ordered, started before queued before in hand
  (`Ordered`); the process in hand is the newest of a creation or the first of a start (`Holding`); every slot between
  head and tail holds the PCB the table has for its pid (`Contents`); who runs does so on the stacks of the
  last pid started (`Runs`). On these terms every step is one of seven *moves*: a pid is drawn, joins the line, is turned away from a full one, leaves it for
  `yield`'s hand, enters ring 3, or is started by the timer in place of what was in hand; or nothing moves. The proof goes through the actions once, to
  say which move each is (`EveryStepMoves`), and through the moves once for each theorem. For the last one, each
  move is a step of `ReadyFifo` under the refinement mapping of `ImplementsFifo`.

### Pages and the kernel heap (`MemoryProofs`)

* `MemoryTypeCorrect`, `AlwaysHandedOutOnce` and `CountAlwaysTracksBitmap` come from one
  invariant: `TypeOK`, what the next statement relies on (`Local`), pairwise disjoint owners
  (`OwnersApart`, shown equivalent to `HandedOutOnce`) and the count. They need each
  other: `used_pages` stays above zero because it counts the bitmap; the count is right because a
  page about to be marked is nobody's; and that is so because all that anybody owns is marked.
* `HeapAlwaysClearOfPrograms`: programs own no page of the heap, although `kmalloc` never looks at what it
  grows over. The first `kmalloc` is made while the kernel is alone, and takes as many pages as there are *below* the heap
  (section 5), one behind the other since none was ever given back; they are the ones from the heap on
  (`FirstKmalloc`). All PCBs lie in them as long as the heap does not outgrow them, which is the hypothesis
  (`HeapHasRoom`: no more creations than fit, of which the code makes 63 of 44 bytes, or an end before
  that). It is needed: with `HEAP_END = 30` and 8 creations TLC finds a program that owns a page of the heap.
* `PcbsAlwaysBacked` needs in addition that there is memory behind the heap's addresses (`HeapInMemory`).

### Boot and interrupt masks (`BootProofs`)

* `IrqTypeCorrect` and `MasksAlwaysAsAsked` of `IrqManager`, from `IrqInv`. That every line that was
  enabled can be heard needs a count: a bit that is still set when the retries are over has cost one lost write for
  every time it was written (`lost >= 1 + tries`), so with no more than `CASCADE_RETRIES` lost it is clear. That
  no other line is opened needs that the mask in the hands of a call is the register's but for one bit
  (`Written`), which holds because only one call is ever under way: an abandoned one never comes back.
* `BootImplementsIrqManager` shows that every step of `Boot` is a step of `IrqManager` or leaves the masks
  alone, and `BootKeepsMasks` is the property of the run, for every machine and every number of lost writes.
* `HandlersAlwaysReady`: `PlaceInv` says for every place of `kernel_main` what it finds done by the places before it: how many words
  of the remapping have arrived, which gates are set, what the flag is, which lines have been begun. It is
  stated by ranges of `at`, so a call moved in `kernel_main` breaks the range it is in.

### Paging (`BootProofs`)

`StructuresAlwaysApart`, `AlwaysMapsToItself` and `AlwaysReadyForMemory` come from one invariant, `PagingInv`, proved step by step:

* Until the directory has its page, all that is used lies below the end of the bitmap (`Marked`), so that
  `pmm_alloc_page` gives it the first page behind (`DirectoryPlaced`). Where the boot is `Sound` that is below orbit.
* `paging_init` then reserves all pages up to `ActualUsed`, directory included. What is used is an initial
  segment of memory from then on, so that every table comes from behind it, on a page of its own (`TablesPlaced`). Since
  `find_highest_used_address` adds at least 1 MB and rounds up to the span of a table, twice, orbit's copy ends before the
  tables begin, and begins behind the directory.
* The words of directory and tables map exactly the pages that the loops have come to (`Mapped`). One iteration
  writes one word of a table nothing else shares; a new table is cleared first.
* `AlwaysReadyForMemory` needs that memory reaches as far as the reservation. It does, for a table exists, and
  it was allocated behind it.

`MemoryPlaces` says which steps of `Paging` belong to which places of `Boot`. `BootTypeCorrect` puts these together with `PlaceInv`
and `IrqInv`.

### Mouse, heap, cursor

* `AlwaysOnScreen` (`MouseProofs`): the position is off the screen only between the movement and its two limits, in a
  poll; an interrupt in between limits it as well, and the poll then limits what it finds. A tick that starts a process there
  leaves it off the screen (`cut`), until the next packet is limited. `Desktop` goes on from that case.
* `AlwaysWholeUndisturbed`: the bytes in `pkt`, the byte in the 8042 and the next one the mouse sends are neighbours in its stream,
  as long as only the handler of IRQ12 takes bytes.
* `AlwaysReportedInOrder`: packets of the part of the ring that is yet to be read are in order, ahead of all that were
  reported, and behind the one that is coming (`Front`). It includes a `mouse_read` that is overtaken: `push_packet` comes
  round to the tail, and the window is the whole ring (`Window`). It is about machines whose programs do
  not poll, as the property says; with polls TLC finds a packet filed late.
* `StoredInBoundsWithoutPolls`, of the same machines: the property `mouse_atomic` sees violated with polls
  holds without them, whatever is drained and abandoned. So it is the polls that break it, and nothing else.
* `ObjectsAlwaysApart` (`UserHeapProofs`): the blocks of the list, free or not, are apart and inside pages that were given to
  the program (`ListInv`), which each of the list's operations keeps: `CutApart` for a split, `JoinedApart`,
  `GrownApart`, `MarkedApart`. The test for a split adds header and alignment to the size without a check; it does not
  wrap because the block it looks at ends inside a page (`NoWrap`).
* `StatsAlwaysAddUp`: the sizes and headers of the list are the bytes of the pages given, and no size falls below zero
  (`StatsInv`). Since no page is given twice (it was free when it was given, and others give back only their own), that bounds the
  sizes: no more pages are given than fit into the address space (`PagesBound`), so a block is smaller than the address space and the
  test for a cut does not wrap (`CutHasRoom`), joins across foreign memory or not: the property has no exception for
  `crossed`, and the proof no case for it. (After such a join the block also covers memory of another program; that is
  `ObjectsApart`'s business, which excepts it.) The sum over a list is a
  recursive function; that a changed list has the changed sum (`TotalAppended`, `TotalSplit`, `TotalPlus`) is an
  induction, done by hand in `Induction`: among the lengths at which a claim fails there would be a least one. One
  set of lengths at a time, it does not take the operator parameter of the library's theorem.
* `DesktopAlwaysWhole` (`DesktopProofs`): `CursorOverDesktop` needs that the backup holds the desktop below the
  cursor whenever there is a cursor to remove (`PixelInv`), and that the desktop is bare when it is taken. Both hold
  except at the pixels in `stained`. That `stained` stays empty unless a poll was cut off before its limits is `OffInv`:
  until then the mouse is off the screen only while orbit is at these limits, and what orbit has read of it never is.

### The ways into the kernel (`TrapsProofs`)

Each instruction pushes or pops one or a few words, and the properties compare what is popped at the end with what was there at the start,
so the invariant (`IInv`) has to name every word. It does it once for each level of nesting:

* Inside a call the kernel stack is a prefix of one sequence, `Frame`: the words of INT 0x80 and of `syscall_int`. How long a prefix
  is a function of the label (`Depth`). The registers are the wrapper's until the dispatcher returns, then they hold the result.
* An exception finds one of these stacks and adds to it, at most 29 words in all. The code below it never resumes: either report
  starts a program afresh or stops the machine.
* During an interrupt the same is said of the machine that was interrupted, at the label that lies on the stack, and the words on
  top of it are given by the stub's progress. No second interrupt comes since the gate has cleared IF.

From that `StacksKnown` follow `TypeCorrect`, `ArgumentsDelivered` (a case reads the slots of the frame `Frame` puts the arguments in; the words
passed on the program's stack are excepted, as in the property), `CallsPreserve` (the pops of the stub undo its pushes), `AlwaysInterruptible` and
`InterruptsUnseen`: from the instruction an interrupt returns to, the machine is the one it came to. All of it for any set of wrappers
and of exceptions, since the table of the wrappers is a constant definition that the proof unfolds only for its types.

### The two screens (`ScreenProofs`)

That the kernel stores no word outside the framebuffer and the text screen, for any sizes, images and calls, negative positions and
empty shapes included:

* *The words of a shape.* A call's words are computed when it starts and stored one by one. Each shape is shown to lie inside once
  (`ClearInside`, `FillInside`, `RectInside`, `CharInside`, `BmpInside` and those of the text screen), by its rows and columns (`InRows`). A shape is
  a filter and a concatenation of sequences of any length; that these keep to the points of their parts (`FlattenTyped`, `KeptTyped`)
  is again an induction by hand. That the words still to be stored lie inside is a conjunct of the invariant (`CallInv`), and so is that the rest
  of every program's script is made of calls that do.
* *The cursors.* The graphics cursor is tested for the bottom of the screen only after a line has been added, so that its bound depends on the
  statement (`GraphicsInv`), and the test suffices because it is a multiple of the height of a character, which divides the height of the screen.
  The text cursor is limited after a newline and after the last column; `vga_print_at` borrows it, and what it gives back is bounded as well
  (`TextInv`).
* *A print cut short* between moving a cursor and limiting it leaves it one step further, and the next print starts there. The next tick can add
  another step. So the bounds grow by a column and a line for each of these cuts, counted in `torn` and `cut`.

`ScreensKnown` is that invariant (`IInv`), and `FramebufferKept` follows with no hypothesis: `bga_putpixel` and the limits of `bga_fill_rect` clip all
that is drawn. `ScreensTypeCorrect` is `TextTypeOK` under `ShapesOnText`: `vga_draw_rect` clips only at the right and the bottom, and `vga_draw_box` of height
0 writes the row above itself, so a call of either begins on the screen, and a box has an extent. No wrapper makes these calls.

That what is stored is what the call means (`AlwaysPainted`, `DesktopAlwaysShown`):

* *The words of a shape, once more.* For each shape the words are shown to be *all* the points of the set that `ShapeOf` describes
  and in the colour of `ColorOf` (`Paints`; `FillPaints`, `RectPaints`, `CharPaints`, `ImagePaints`), by what the elements are of sequences that
  are filtered and put together (`KeptRange`, `FlattenRange`, `RasterRange`).
* *Where characters stand.* The code carries a position from one character to the next; `ShapeOf` counts cells from the first one. That they agree
  (`PrintAtPlaces`, `PutsPlaces`) is a step in rows and columns: the test for the edge is true in the last cell of a row and only there (`LineEnds`), and the
  test for the bottom in the last row (`LastLine`).
* *How far a call has painted.* `PaintInv` says it for every label: inside the points covered so far (`Upto` for a text, the whole shape for
  the others) a word has its new colour or is still in `work`; outside them it is as it was `before` the call. The rest of a text
  is that of the call's string, and the position is the one of its next character, off by what the statements in between have not
  done yet. A tick or a fault ends the call, and the invariant says nothing of an abandoned one. There is one lemma per action.
* *The desktop.* Of `Painted` follows what each of orbit's calls leaves. `DeskInv` says that after so many calls the picture is the one of so
  many calls laid one over the other (`Sheet`), from the fifth on, which clears the screen: so nothing of what sysman or the kernel
  drew can be left, wherever the tick has cut it. None of the calls depends on cursor or colours (`OverPlain`), which sysman may have changed.

That a text call shows what it was asked to (`TextAlwaysShown`), whatever was printed and cut short before:

* *Where a character belongs.* `Asked` counts lines and columns of the whole text; the code carries `vga_x` and `vga_y` from
  one character to the next. `Counted` unfolds the count of lines, a recursive function, once and for all. Then the cursor in
  front of each character is a function of what is behind it (`Spots`): one line down after a newline (`BehindNewline`), one cell
  on after a character (`BehindCharacter`), which first takes a line of its own when the one before is full (`LineIsFull`,
  `LineHasRoom`), and never further down than the last line.
* *How far a call has written.* `WriteInv` says it for every label: of a print, that the cells are those of the characters
  `Taken` so far, the last one winning where several went to the same cell (`Printed`), and the cursor is the next one's spot,
  off by the stores still to come; of `vga_print_at`, the same along one line, and that the borrowed cursor is the one it
  gives back; of a shape, that every cell has what was asked for or is still in `work` (`Pending`). A call that is cut
  short is followed no further: the next one starts from what it finds.
* *What is asked of the requests* (`TextsShowable`). A text is a sequence; a rectangle or box begins on the screen, a box has an
  extent, and colours are below 16, since `vga.c` does not check these; and the digits of a number stand for it. That last
  one is what `vga_putint` computes, an induction over its digits, so the conjunct `NumberAsked` of the property is the
  hypothesis here and is checked by the run (`PutintText` on 0, -107 and the lowest integer). That all requests of the run are
  showable is an assumption of `MCScreen`, which TLC evaluates.

### Only model-checked

* All liveness properties (`TimerServes`, `CallEnds`, `BytesTaken`, `CursorCatchesUp`,
  `MallocEnds`, `SysmanRuns`): out of the prover's reach.
* What `PutintText` makes of a number, for the numbers of the run.

## 5. Where the code differs from what is said of it

Shown by runs:

* "Proper EOI being sent to both PICs after each interrupt" (`docs/IRQ12_INVESTIGATION.md:8`). A tick that
  starts a process never returns to the stub that sends the EOI, so IRQ0 and
  IRQ12 stay blocked until something else sends one (`tasking_eoi`). It explains why IRQ12 "stops".
* The mouse handler is "ATOMIC + CORRECT" (`mouse.c:159`). Polled, it is not atomic: IRQ12 between the
  increment and the reset of `pkt_i` stores a fourth byte beyond `pkt[3]` (`mouse_atomic`).
* "Kernel interrupt stacks must NOT overlap with orbit (0x00300000)!" (`process_manager.c:23`). Nothing checks it: there is
  room for 33 stacks of 16 KB from 0x280000, and PCBs for 63 processes after sysman (`tasking_stacks`). Up to the 33rd process
  it holds (`FirstStacksClearOfOrbit`).
* "arg1 = x, arg2 = y, arg3 = width, stack = height, color" (`syscall_handler.c:372`). `user_esp` is an
  address above the frame on the *kernel* stack; the processor had switched stacks, and pushed five words, not
  three. An outline is drawn with a height and a colour nobody passed (`traps_rect`).

Seen while modelling; no run is about them:

* `process_create` "RETURNS control to caller" (`process_manager.c:116`), unless a tick in it starts
  a queued process: then it is abandoned.
* The polls are a workaround for a silent IRQ12 (`orbit.c:116`); a key's byte in the 8042, which nobody takes
  since IRQ1 is masked, makes them pass over everything behind it. `BytesTaken` is about the bytes of the mouse: keys are pressed in `mouse`,
  and nothing is claimed of theirs, nor of a packet behind one.
* The exception stubs pass no parameters: `exception_handler` takes the saved EBP for the number and EDI for
  the error code. It reads CS at `40(%esp)` after the compiler has moved ESP, and the entry point
  it restarts sysman at is never assigned, so the restart is a jump to address 0.
* The gate of INT 0x80 is an interrupt gate (0xEE), not a trap gate (`idt.c:99`); the dispatcher's `sti` undoes
  the difference.
* The wrappers with operands in `"a"`, `"b"` do not declare that ECX and EDX (and EAX) are clobbered: the program's own
  registers are safe only as far as the compiler does not rely on them across the call.
* `print_at` passes colours that the dispatcher replaces by white, so that all text is white. A negative width reaches
  `bga_fill_rect` as 65535 or a little less, and fills to the right edge.
* A process whose creation succeeded may never start: a full queue drops it in silence, and a
  later start replaces it. `current_pid` is -1 while sysman runs.
* User stacks (64 KB from 0x200000) reach the first kernel stack's top after eight processes.
* "Prevents cursor from destroying UI elements underneath" (`cursor_compositor.c:6`), unless a poll was cut off between moving
  the mouse and limiting it (`mouse.c:150-155`) by a tick that started the next orbit. That one may find the mouse left of the
  screen; then its cursor, as far as it is on the screen, is taken for none at the next move (`cursor_compositor.c:108`) and stays
  in the desktop for good. `CursorOverDesktop` says that nothing else does, and nothing at all without such a cut.
* `last_page_allocated` starts at 0, so the first `kmalloc`, of 44 bytes, takes one page for every page
  below `heap_current`: about as much memory as the kernel has reserved.
* `paging.c:177` says that the allocator returns pages outside the identity map. The pages
  reserved end at 36 MB or a little more and the map at 128 MB. Pages above 128 MB are not mapped at all.
* Page tables come from an allocation nobody checks: without memory they are put at address 0.
* orbit is copied to 3 MB over whatever is there; the models require (`Sound`) that bitmap and directory end below.
* `mouse_init` may lose the race for its ACK to IRQ12, whose handler takes 0xFA for the first byte
  of a packet (its bit 3 is set); packets are then misaligned. A movement of -128 is not
  inverted: its negative does not fit.
* kernel_main maps the framebuffer at the address its emulator uses (`kernel.c:130`) before bga_init asks the device for
  it (`bga.c:270`); "Platform-independent graphics driver for QEMU/Bochs/VirtualBox" (`bga.c:3`) holds where they agree.
  Elsewhere the first word drawn faults.
* The `serial_print` of `process_manager.c` and its neighbours polls the byte at address 0x3FD, in the BIOS's interrupt vectors,
  instead of the port; whether sysman is ever created depends on a bit of vector 255 (`Bootable`).
* `boot.s` copies sysman to 0x110000, which is inside the kernel's image; nobody uses the copy, for
  `process_create_sysman` is given the module where it was loaded.
* kernel_main reads `mods_count` without looking at the flag that says it is there.
* `mouse_init` makes the 8042 raise IRQ1 although IRQ1 stays masked; the spurious interrupts 7 and 15 of the
  controllers have no gate.
* When no page is left `kheap_init` puts the heap at address 0, so that the first `kmalloc` looks as if it had failed.
* The report of a fatal exception ends with "The system has been halted" (`exception_handler.c:193`). The gate leaves interrupts
  on until the `cli` after the last line, so a tick with a process in the queue goes on with that
  process instead, and the machine runs. Its background has the colour the last text call has set, for the screen is
  cleared before the colour is chosen.
* `vga_putint` of the lowest integer prints a sign and no digits. `vga_draw_rect` does not clip at the left and the top, and
  `vga_draw_box` of height 0 writes the row above: no wrapper makes these calls, and the run makes them with
  positions on the screen.
* The text screen is written to while the adapter is in a graphics mode, where nobody sees it: `heap.c` and orbit report there.
* `malloc` calls itself for ever when a page does not help; sizes near the end of `size_t` are
  aligned to 0; `free` joins blocks that are neighbours in the list but not in memory, and `malloc`
  may then hand out what lies between them, memory of other programs: `ObjectsApart` holds until then (`crossed`).

## 6. Not modelled

* *GUI pools*: windows and controls; no program creates any. Planned.
* *The font, VBE, mode 13h, PCI and USB probing*: data and I/O without a
  state that another part depends on. `usb_init` and `vbe_init` have no caller; the scheduler's messages
  go to `vbe_print`, which passes them on to `vga_print` (in `Screen`'s scripts). `graphics.c` has
  system calls, and no wrapper for them.
* *Encodings of GDT and IDT, multiboot header, linker scripts*: data the processor reads. `irq_disable`: no caller.
* In `Tasking`, what a process does between its system calls; in `UserHeap`, the contents of memory.

## 7. Plan

Done in this order: Tasking with its queue, Memory, Mouse, Paging, UserHeap, Desktop, the proofs of the
first two, Traps, Screen, IrqManager and Boot with their proofs, TextScreen, the refinement of the queue
and the proofs of boot, paging, mouse, user heap and cursor, of the ways into the kernel and of both screens. Next:

1. *GUI*: window and control pools with their limits and hit tests.
2. *Composition* of Paging and Memory beyond the identity map.

## 8. Running it

    tlc -workers 2 -config MCTasking_all.cfg MCTasking     # 20 s
    tlapm TaskingProofs.tla                                # 2 min; ScreenProofs 9, BootProofs 4, the others less

`boot` and `screen` take about one minute, `mouse` about two, `desktop` half a minute, the other runs seconds. The runs named *violation*
end with the counterexample that is described above.
