-------------------------------- MODULE Traps --------------------------------
(***************************************************************************)
(* The ways into the kernel and out of it: the wrappers of                 *)
(* user_syscalls.c, the stubs of interrupt_stubs.s (INT 0x80, IRQ0, IRQ12, *)
(* the exceptions), the gates of idt.c they hang on, syscall_dispatcher    *)
(* and exception_handler.                                                  *)
(*                                                                         *)
(* One program runs at a time.  The CPU is its registers, IF, the next     *)
(* instruction and two stacks, on which every word pushed is kept.  A word *)
(* says what it is: <<"arg", 2>> is the second argument of the call,       *)
(* <<"ebx", 0>> what the program had in EBX, <<"at", -3>> the address      *)
(* three words below the top of the stack.  The path of a call is modelled *)
(* instruction by instruction from the dispatcher's sti on, since an       *)
(* interrupt may come between any two.                                     *)
(***************************************************************************)
EXTENDS Integers, Sequences

CONSTANTS
  Wrapped,    \* the wrappers that programs call
  Faults      \* the exceptions that occur, by vector

VARIABLES
  pc,         \* the next instruction
  r,          \* the general registers
  if,         \* the interrupt flag
  kstack,     \* the words on the kernel stack of the running program
  ustack,     \* the words a wrapper has pushed on the user stack
  call,       \* the wrapper that was called
  taken,      \* what the kernel's handler took for its arguments
  seen,       \* history: the machine when the last interrupt was taken
  reported    \* what exception_handler took for the number of the exception

vars == <<pc, r, if, kstack, ustack, call, taken, seen, reported>>

-----------------------------------------------------------------------------
Regs == {"eax", "ebx", "ecx", "edx", "esi", "edi", "ebp"}

\* A program's own content of its registers.
Own == [reg \in Regs |-> <<reg, 0>>]
Junk == <<"junk", 0>>
None == "none"

Push(stack, words) == stack \o words
Pop(stack, n)      == SubSeq(stack, 1, Len(stack) - n)
Top(stack, n)      == stack[Len(stack) - n]

-----------------------------------------------------------------------------
(***************************************************************************)
(* The wrappers: the number each puts in EAX, where its arguments go, and  *)
(* whether it reads EAX back.  stack0 is the word ESP points to.           *)
(***************************************************************************)
Wrapper(nr, in, back) == [nr |-> nr, in |-> in, back |-> back]

TextWrappers ==
  [putchar        |-> Wrapper( 1, <<"ebx">>, FALSE),
   puts           |-> Wrapper( 2, <<"ebx">>, FALSE),
   putint         |-> Wrapper( 3, <<"ebx">>, FALSE),
   exit           |-> Wrapper( 4, <<"ebx">>, FALSE),
   alloc_page     |-> Wrapper( 6, <<>>, TRUE),
   free_page      |-> Wrapper( 7, <<"ebx">>, FALSE),
   clear          |-> Wrapper( 8, <<>>, FALSE),
   set_color      |-> Wrapper( 9, <<"ebx", "ecx">>, FALSE),
   create_process |-> Wrapper(17, <<"ebx">>, TRUE),
   get_orbit      |-> Wrapper(18, <<>>, TRUE)]

\* gfx_set_color looks its two colours up first; fill_rect packs the width and the
\* height into its third argument.
DrawRectIn == <<"ebx", "ecx", "edx", "stack0", "stack1">>

GfxWrappers ==
  [gfx_putc      |-> Wrapper(19, <<"ebx">>, FALSE),
   gfx_puts      |-> Wrapper(20, <<"ebx">>, FALSE),
   gfx_clear     |-> Wrapper(21, <<>>, FALSE),
   gfx_set_color |-> Wrapper(22, <<"ebx", "ecx">>, FALSE),
   fill_rect     |-> Wrapper(23, <<"ebx", "ecx", "edx", "esi">>, FALSE),
   draw_rect     |-> Wrapper(24, DrawRectIn, FALSE),
   print_at      |-> Wrapper(25, DrawRectIn, FALSE),
   clear_color   |-> Wrapper(26, <<"ebx">>, FALSE),
   draw_bmp      |-> Wrapper(27, <<"ebx", "ecx", "edx">>, FALSE)]

DeviceWrappers ==
  [mouse_x       |-> Wrapper(28, <<>>, TRUE),
   mouse_y       |-> Wrapper(29, <<>>, TRUE),
   mouse_buttons |-> Wrapper(30, <<>>, TRUE),
   yield         |-> Wrapper(31, <<>>, FALSE),
   irq_total     |-> Wrapper(32, <<>>, TRUE),
   pic_mask      |-> Wrapper(33, <<>>, TRUE),
   re_enable     |-> Wrapper(34, <<>>, FALSE),
   poll_mouse    |-> Wrapper(35, <<>>, TRUE),
   read_pixel    |-> Wrapper(36, <<"ebx", "ecx">>, TRUE)]

Wrappers ==
  [name \in DOMAIN TextWrappers \cup DOMAIN GfxWrappers \cup DOMAIN DeviceWrappers |->
     IF name \in DOMAIN TextWrappers THEN TextWrappers[name]
     ELSE IF name \in DOMAIN GfxWrappers THEN GfxWrappers[name]
     ELSE DeviceWrappers[name]]

ASSUME TrapsAssumption == /\ Wrapped \subseteq DOMAIN Wrappers
                          /\ Faults \subseteq 0 .. 19

\* A wrapper loads EAX and the registers; the words it pushes go last first.
In(name)      == Wrappers[name].in
Pushed(name)  == {i \in DOMAIN In(name) : In(name)[i] \in {"stack0", "stack1"}}
Loaded(name)  == [reg \in Regs |->
                    IF reg = "eax" THEN <<"nr", Wrappers[name].nr>>
                    ELSE IF \E i \in DOMAIN In(name) : In(name)[i] = reg
                    THEN <<"arg", CHOOSE i \in DOMAIN In(name) : In(name)[i] = reg>>
                    ELSE Own[reg]]
OnStack(name) == IF Pushed(name) = {} THEN <<>> ELSE <<<<"arg", 5>>, <<"arg", 4>>>>

-----------------------------------------------------------------------------
(***************************************************************************)
(* The dispatcher's side: which of its parameters (or of the words         *)
(* user_esp points at) each case hands to the kernel function, and which   *)
(* cases set return_value.  Both PRINT_AT cases make up their colours.     *)
(***************************************************************************)
TextCases ==
  [nr \in {1, 2, 3, 4, 6, 7, 8, 9, 17, 18} |->
     CASE nr \in {6, 8, 18} -> <<>>
       [] nr = 9            -> <<"arg1", "arg2">>
       [] OTHER             -> <<"arg1">>]

FillRectCaseShort == <<"arg1", "arg2", "arg3", "arg3">>
FillRectCase      == <<"arg1", "arg2", "arg3", "arg4">>

GfxCases ==
  [nr \in 19 .. 27 |->
     CASE nr \in {19, 20, 26} -> <<"arg1">>
       [] nr = 21             -> <<>>
       [] nr = 22             -> <<"arg1", "arg2">>
       [] nr = 23             -> FillRectCase
       [] nr = 24             -> <<"arg1", "arg2", "arg3", "user0", "user1">>
       [] nr \in {25, 27}     -> <<"arg1", "arg2", "arg3">>]

DeviceCases == [nr \in 28 .. 36 |-> IF nr = 36 THEN <<"arg1", "arg2">> ELSE <<>>]

Cases ==
  [nr \in DOMAIN TextCases \cup DOMAIN GfxCases \cup DOMAIN DeviceCases |->
     IF nr \in DOMAIN TextCases THEN TextCases[nr]
     ELSE IF nr \in DOMAIN GfxCases THEN GfxCases[nr] ELSE DeviceCases[nr]]
Results == {6, 17, 18, 28, 29, 30, 32, 33, 35, 36}

-----------------------------------------------------------------------------
(***************************************************************************)
(* What the CPU pushes and pops.  From ring 3 it starts at TSS.esp0, where *)
(* a program's kernel stack is empty, and pushes SS and ESP first.         *)
(***************************************************************************)
InRing3 == pc \in {"user", "back"}

Flags(on) == <<"if", IF on THEN 1 ELSE 0>>
CpuFrame ==
  (IF InRing3 THEN <<<<"ss", 3>>, <<"at", -Len(ustack)>>>> ELSE <<>>)
    \o <<Flags(if), <<"cs", IF InRing3 THEN 3 ELSE 0>>, <<pc, 0>>>>

\* IRET: the words left, and where it goes.
IretFrom(stack) ==
  LET ring3 == Top(stack, 1) = <<"cs", 3>>
  IN  /\ pc' = Top(stack, 0)[1]
      /\ if' = (Top(stack, 2) = Flags(TRUE))
      /\ kstack' = Pop(stack, IF ring3 THEN 5 ELSE 3)

\* The gates: 0x8E and 0xEE are interrupt gates, which clear IF; the exceptions'
\* 0x8F are trap gates, which leave it.
IfInIrq     == FALSE
IfInSyscall == FALSE
IfInFault   == if

-----------------------------------------------------------------------------
(***************************************************************************)
(* The stubs' own words.                                                   *)
(***************************************************************************)
\* syscall_int: four registers, then the parameters and the return address.  EBP
\* points at the first of the four, and user_esp is EBP + 32, eight words up.
SavedBySyscallSwapped == <<"ebp", "ebx", "esi", "edi">>
SavedBySyscall        == <<"ebp", "ebx", "edi", "esi">>
PoppedBySyscall       == <<"esi", "edi", "ebx", "ebp">>

SyscallFrame(regs, frame) ==
  LET saved    == [i \in 1 .. 4 |-> regs[SavedBySyscall[i]]]
      user_esp == <<"at", 8 - (Len(frame) + 1)>>
  IN  frame \o saved \o
        <<user_esp, regs["esi"], regs["edx"], regs["ecx"], regs["ebx"],
          regs["eax"], <<"drop", 0>>>>

ParameterWordsFive == 5
ParameterWords     == 6

\* pusha and popa (the saved ESP is skipped), and the return address of the call.
SavedByIrq == <<"eax", "ecx", "edx", "ebx", "esp", "ebp", "esi", "edi">>
Pusha == [i \in 1 .. 8 |-> IF SavedByIrq[i] = "esp" THEN <<"at", -Len(kstack)>>
                           ELSE r[SavedByIrq[i]]]
Restored(reg)     == Top(kstack, 9 - (CHOOSE i \in 1 .. 8 : SavedByIrq[i] = reg))
PopaNoEdx(reg)    == IF reg = "edx" THEN Junk ELSE Restored(reg)
Popa(reg)         == Restored(reg)

\* The exceptions: the CPU's error code where there is one, else a dummy after the
\* number, and the seven registers of exception_common.
WithErrorCode == {8, 10, 11, 12, 13, 14, 17}
StubWords(n) == IF n \in WithErrorCode THEN <<<<"code", n>>, <<"number", n>>>>
                ELSE <<<<"number", n>>, <<"code", 0>>>>
SavedByFault == <<"eax", "ebx", "ecx", "edx", "esi", "edi", "ebp">>

\* A C function compiled for i686: parameter k of a call lies k words below the
\* return address, and EAX, ECX and EDX are its own to use.
Parameter(k) == Top(kstack, k)
Clobbered(result) == [r EXCEPT !["eax"] = result, !["ecx"] = Junk, !["edx"] = Junk]

\* The word at an address: what lies above the stack's top is none of its words.
WordAt(at) == IF at < 0 THEN kstack[-at] ELSE Junk

\* ring3_switch_with_stack: a program starts with interrupts on, on stacks that
\* hold nothing, whatever the kernel was doing.
FlagsAtSwitchKept == if
FlagsAtSwitch     == TRUE
StartProgram ==
  /\ pc' = "user"
  /\ r' = Own
  /\ if' = FlagsAtSwitch
  /\ kstack' = <<>> /\ ustack' = <<>>
  /\ call' = None
  /\ taken' = <<>> /\ seen' = <<>>

Step(from, to) == pc = from /\ pc' = to

-----------------------------------------------------------------------------
Init ==
  /\ pc = "user"
  /\ r = Own
  /\ if = TRUE
  /\ kstack = <<>> /\ ustack = <<>>
  /\ call = None
  /\ taken = <<>>
  /\ seen = <<>>
  /\ reported = None

\* A wrapper up to its INT 0x80, and syscall_int up to its call, with IF clear.
Int80 ==
  /\ Step("user", "dispatch")
  /\ \E name \in Wrapped :
       /\ call' = name
       /\ r' = Loaded(name)
       /\ ustack' = OnStack(name)
       /\ kstack' = SyscallFrame(Loaded(name),
                      <<<<"ss", 3>>, <<"at", -Len(OnStack(name))>>, Flags(if),
                        <<"cs", 3>>, <<"back", 0>>>>)
  /\ if' = IfInSyscall
  /\ taken' = <<>>
  /\ UNCHANGED <<seen, reported>>

\* syscall_dispatcher's first statement.
Sti ==
  /\ Step("dispatch", "case")
  /\ if' = TRUE
  /\ UNCHANGED <<r, kstack, ustack, call, taken, seen, reported>>

\* The case of the call: what the kernel function is given.  SYSCALL_EXIT halts,
\* interrupts on, for ever.
Word(source) ==
  CASE source = "arg1"  -> Parameter(2)
    [] source = "arg2"  -> Parameter(3)
    [] source = "arg3"  -> Parameter(4)
    [] source = "arg4"  -> Parameter(5)
    [] source = "user0" -> WordAt(Parameter(6)[2])
    [] source = "user1" -> WordAt(Parameter(6)[2] + 1)

Case ==
  LET nr == Parameter(1)[2]
  IN  /\ Step("case", IF nr = 4 THEN "halted" ELSE "return")
      /\ taken' = [i \in DOMAIN Cases[nr] |-> Word(Cases[nr][i])]
      /\ UNCHANGED <<r, if, kstack, ustack, call, seen, reported>>

\* The dispatcher returns 0 or the result, to the instruction after the call.
DispatcherReturns ==
  LET nr == Parameter(1)[2]
  IN  /\ Step("return", Top(kstack, 0)[1])
      /\ r' = Clobbered(IF nr \in Results THEN <<"result", nr>> ELSE <<"zero", 0>>)
      /\ kstack' = Pop(kstack, 1)
      /\ UNCHANGED <<if, ustack, call, taken, seen, reported>>

DropParameters ==
  /\ Step("drop", "pop1")
  /\ kstack' = Pop(kstack, ParameterWords)
  /\ UNCHANGED <<r, if, ustack, call, taken, seen, reported>>

PopStep == <<"pop1", "pop2", "pop3", "pop4", "iret">>
PopRegister ==
  \E i \in 1 .. 4 :
    /\ Step(PopStep[i], PopStep[i + 1])
    /\ r' = [r EXCEPT ![PoppedBySyscall[i]] = Top(kstack, 0)]
    /\ kstack' = Pop(kstack, 1)
    /\ UNCHANGED <<if, ustack, call, taken, seen, reported>>

Iret ==
  /\ pc = "iret"
  /\ IretFrom(kstack)
  /\ UNCHANGED <<r, ustack, call, taken, seen, reported>>

\* The wrapper drops what it pushed, and the program goes on with its registers.
WrapperReturns ==
  /\ Step("back", "user")
  /\ r' = Own
  /\ ustack' = <<>>
  /\ call' = None /\ taken' = <<>>
  /\ UNCHANGED <<if, kstack, seen, reported>>

-----------------------------------------------------------------------------
\* irq0_stub and irq12_stub up to the call of the C handler.
Irq ==
  /\ if
  /\ pc' = "irq"
  /\ if' = IfInIrq
  /\ kstack' = kstack \o CpuFrame \o Pusha \o <<<<"popa", 0>>>>
  /\ seen' = [pc |-> pc, r |-> r, if |-> if, kstack |-> kstack]
  /\ UNCHANGED <<r, ustack, call, taken, reported>>

\* The handler returns: popa and IRET.
IrqReturns ==
  /\ pc = "irq"
  /\ r' = [reg \in Regs |-> Popa(reg)]
  /\ IretFrom(Pop(kstack, 9))
  /\ UNCHANGED <<ustack, call, taken, seen, reported>>

\* scheduler_tick, in a timer interrupt or in SYSCALL_YIELD, starts another program
\* and leaves this one's stacks as they are for good.
TickStarts ==
  /\ pc = "irq" \/ (pc = "case" /\ call = "yield")
  /\ StartProgram
  /\ UNCHANGED reported

-----------------------------------------------------------------------------
\* A fault in a program or in the kernel function it called: the gate, the stub and
\* exception_common, up to the call of exception_handler.
Fault ==
  /\ pc \in {"user", "case"}
  /\ \E n \in Faults :
       kstack' = kstack \o CpuFrame \o StubWords(n)
                   \o [i \in 1 .. 7 |-> r[SavedByFault[i]]] \o <<<<"common", 0>>>>
  /\ pc' = "fault"
  /\ if' = IfInFault
  /\ UNCHANGED <<r, ustack, call, taken, seen, reported>>

\* exception_handler reads its parameters where a C function finds them, and CS at
\* a fixed distance from wherever ESP is by then: either branch may follow.
FaultRestarts ==
  /\ pc = "fault"
  /\ reported' = Parameter(1)
  /\ StartProgram

FaultHalts ==
  /\ Step("fault", "dead")
  /\ reported' = Parameter(1)
  /\ if' = FALSE
  /\ UNCHANGED <<r, kstack, ustack, call, taken, seen>>

-----------------------------------------------------------------------------
Next == \/ Int80 \/ Sti \/ Case \/ DispatcherReturns \/ DropParameters
        \/ PopRegister \/ Iret \/ WrapperReturns
        \/ Irq \/ IrqReturns \/ TickStarts
        \/ Fault \/ FaultRestarts \/ FaultHalts

Spec == Init /\ [][Next]_vars

-----------------------------------------------------------------------------
(***************************************************************************)
(* Correctness.                                                            *)
(***************************************************************************)
Labels == {"user", "dispatch", "case", "return", "drop", "back", "irq", "fault",
           "halted", "dead"} \cup {PopStep[i] : i \in 1 .. 5}

\* Whatever is popped into EIP is an instruction of a stub or of a program, nothing
\* is left on the kernel stack when a program runs, and it never holds more than one
\* call, one exception in it and one interrupt in that: 16, 13 and 12 words, beside
\* the locals of the C functions.
TypeOK ==
  /\ pc \in Labels
  /\ DOMAIN r = Regs
  /\ if \in BOOLEAN
  /\ InRing3 => kstack = <<>>
  /\ Len(kstack) <= 16 + 13 + 12
  /\ call \in Wrapped \cup {None}

\* The arguments a wrapper passes in registers are those the kernel function works
\* with, in their order, although the stub pushes them, interrupts come in between
\* and the dispatcher renames them (syscall_handler.c:185-190).
ArgumentsArrive ==
  pc = "return" =>
    \A i \in DOMAIN taken : i \notin Pushed(call) => taken[i] = <<"arg", i>>

\* A call comes back with the registers a C function must keep, with what the
\* wrapper pushed still on the user stack, and with the result of its own case in
\* EAX if it reads one.
CallPreserves ==
  pc = "back" =>
    /\ \A reg \in {"ebx", "esi", "edi", "ebp"} : r[reg] = Loaded(call)[reg]
    /\ Wrappers[call].back => r["eax"] = <<"result", Wrappers[call].nr>>
    /\ ustack = OnStack(call)

\* Code that was interrupted goes on with every register, IF and both stacks as
\* they were, at the instruction it was at, or never again.
InterruptsInvisible ==
  [][(pc = "irq" /\ seen' # <<>>) =>
        seen = [pc |-> pc', r |-> r', if |-> if', kstack |-> kstack']]_vars

\* A program always runs with interrupts on, so that the timer can take the CPU
\* from it, however the program was started or left.
ProgramsInterruptible == InRing3 => if

-----------------------------------------------------------------------------
(***************************************************************************)
(* What the comments say, and the code does not do.                        *)
(***************************************************************************)

\* "arg1 = x, arg2 = y, arg3 = width, stack = height, color" (syscall_handler.c:372):
\* the rectangle drawn is the one the program asked for.
DrawnAsAsked ==
  pc = "return" => \A i \in DOMAIN taken : taken[i] = <<"arg", i>>
=============================================================================
