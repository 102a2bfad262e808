------------------------------ MODULE IrqManager ------------------------------
(***************************************************************************)
(* irq_manager.c and the mask registers of the two 8259As behind it: the   *)
(* remapping of the lines during boot, and irq_enable, which reads a mask, *)
(* clears a bit, writes the mask back, reads it again and, if it is not    *)
(* what was written, writes it a number of times more.                     *)
(*                                                                         *)
(* The fault that irq_enable looks for is modelled: a write of a mask may  *)
(* be lost.  The writes of pic_remap, which the code does not check, are   *)
(* taken to arrive.  A call may be abandoned anywhere: after boot it is    *)
(* made by a system call, and a tick may start a process in its place.     *)
(*                                                                         *)
(* A byte is the set of its bits.                                          *)
(***************************************************************************)
EXTENDS Integers, Sequences

CONSTANTS
  Lines,             \* the lines that are enabled (0 and 12)
  CASCADE_RETRIES,   \* further writes of the cascade's mask (2)
  LINE_RETRIES,      \* further writes of a line's mask (5)
  BootMasks,         \* the masks the BIOS may leave
  MAX_LOST           \* how many writes of a mask are lost

ASSUME IrqAssumption ==
  /\ Lines \subseteq 0 .. 15
  /\ CASCADE_RETRIES \in Nat /\ LINE_RETRIES \in Nat /\ CASCADE_RETRIES <= LINE_RETRIES
  /\ BootMasks \subseteq SUBSET (0 .. 7)
  /\ MAX_LOST \in Nat

VARIABLES
  imr,     \* the mask of each controller: lines it does not pass on
  icws,    \* the words it was initialised with, after the first
  ipc,     \* the next statement
  word,    \* pic_remap: the next word to send
  call,    \* irq_enable: its argument and locals
  \* history: mask writes lost, lines irq_enable was entered with, returned for
  lost, begun, asked

irqVars == <<imr, icws, ipc, word, call, lost, begun, asked>>

Pics    == {"master", "slave"}
Bits    == 0 .. 7
CASCADE == 2     \* the line of the master the slave is on

\* A call clears one bit of one mask at a time; a line of the slave needs two passes.
PicOf(line) == IF line < 8 THEN "master" ELSE "slave"
BitOf(line) == line % 8
Retries(c)  == IF c.line >= 8 /\ c.pic = "master" THEN CASCADE_RETRIES ELSE LINE_RETRIES
Call(line, pic, bit) ==
  [line |-> line, pic |-> pic, bit |-> bit, mask |-> {}, tries |-> 0]
NoCall      == Call(0, "master", 0)
EnableSteps == {"read", "write", "check", "retry"}
IrqLabels   == EnableSteps \cup {"reset", "remap", "idle"}

\* The words pic_remap sends: ICW1 to the command port, then the vector offset, the
\* cascade, 8086 mode and a mask of ones to the data port, the controllers in turn.
RemapWords ==
  <<[pic |-> "master", port |-> "command", byte |-> {0, 4}],
    [pic |-> "slave",  port |-> "command", byte |-> {0, 4}],
    [pic |-> "master", port |-> "data",    byte |-> {5}],
    [pic |-> "slave",  port |-> "data",    byte |-> {3, 5}],
    [pic |-> "master", port |-> "data",    byte |-> {CASCADE}],
    [pic |-> "slave",  port |-> "data",    byte |-> {1}],
    [pic |-> "master", port |-> "data",    byte |-> {0}],
    [pic |-> "slave",  port |-> "data",    byte |-> {0}],
    [pic |-> "master", port |-> "data",    byte |-> Bits],
    [pic |-> "slave",  port |-> "data",    byte |-> Bits]>>

\* irq_enable's new mask.  (A name that ends in a slip is a bug no action has.)
MaskedAlone(byte, bit) == Bits \ {bit}
Masked(byte, bit)      == byte \ {bit}

-----------------------------------------------------------------------------
IrqInit ==
  /\ imr \in [Pics -> BootMasks]
  /\ icws = [master |-> <<{3}, {CASCADE}, {0}>>, slave |-> <<{4, 5, 6}, {1}, {0}>>]
  /\ ipc = "reset" /\ word = 1 /\ call = NoCall
  /\ lost = 0 /\ begun = {} /\ asked = {}

\* The 8259A: a word to the command port with bit 4 set clears the mask and starts the
\* initialisation, whose three words it then expects at the data port; after those the
\* data port is the mask.
Accept(w) ==
  \/ /\ w.port = "command"
     /\ icws' = [icws EXCEPT ![w.pic] = <<>>]
     /\ imr' = [imr EXCEPT ![w.pic] = {}]
  \/ /\ w.port = "data" /\ Len(icws[w.pic]) < 3
     /\ icws' = [icws EXCEPT ![w.pic] = Append(@, w.byte)]
     /\ UNCHANGED imr
  \/ /\ w.port = "data" /\ Len(icws[w.pic]) = 3
     /\ imr' = [imr EXCEPT ![w.pic] = w.byte]
     /\ UNCHANGED icws

\* irq_manager_init is pic_remap, with interrupts off.
IrqManagerInit == /\ ipc = "reset" /\ ipc' = "remap"
                  /\ UNCHANGED <<imr, icws, word, call, lost, begun, asked>>

Remap ==
  /\ ipc = "remap"
  /\ Accept(RemapWords[word])
  /\ IF word = Len(RemapWords)
       THEN ipc' = "idle" /\ UNCHANGED word
       ELSE word' = word + 1 /\ UNCHANGED ipc
  /\ UNCHANGED <<call, lost, begun, asked>>

-----------------------------------------------------------------------------
\* irq_enable: a line of the slave first needs the cascade open.
IrqEnable(line) ==
  /\ ipc = "idle" /\ ipc' = "read"
  /\ call' = Call(line, "master", IF line < 8 THEN line ELSE CASCADE)
  /\ begun' = begun \cup {line}
  /\ UNCHANGED <<imr, icws, word, lost, asked>>

ReadMask ==
  /\ ipc = "read" /\ ipc' = "write"
  /\ call' = [call EXCEPT !.mask = Masked(imr[call.pic], call.bit)]
  /\ UNCHANGED <<imr, icws, word, lost, begun, asked>>

\* outb to the data port, or into the void.
OutMask ==
  \/ imr' = [imr EXCEPT ![call.pic] = call.mask] /\ UNCHANGED lost
  \/ lost < MAX_LOST /\ lost' = lost + 1 /\ UNCHANGED imr

WriteMask ==
  /\ ipc = "write" /\ ipc' = "check"
  /\ OutMask
  /\ UNCHANGED <<icws, word, call, begun, asked>>

\* From the cascade to the line, or back to the caller.
PassEnds ==
  \/ /\ PicOf(call.line) # call.pic
     /\ call' = Call(call.line, PicOf(call.line), BitOf(call.line))
     /\ ipc' = "read" /\ UNCHANGED asked
  \/ /\ PicOf(call.line) = call.pic
     /\ ipc' = "idle" /\ call' = NoCall /\ asked' = asked \cup {call.line}

CheckMask ==
  /\ ipc = "check"
  /\ \/ imr[call.pic] = call.mask /\ PassEnds
     \/ imr[call.pic] # call.mask /\ ipc' = "retry" /\ UNCHANGED <<call, asked>>
  /\ UNCHANGED <<imr, icws, word, lost, begun>>

\* The writes that follow a write that failed are not checked.
RetryMask ==
  /\ ipc = "retry"
  /\ \/ /\ call.tries < Retries(call)
        /\ OutMask
        /\ call' = [call EXCEPT !.tries = @ + 1]
        /\ UNCHANGED <<ipc, asked>>
     \/ /\ call.tries = Retries(call)
        /\ PassEnds /\ UNCHANGED <<imr, lost>>
  /\ UNCHANGED <<icws, word, begun>>

\* A tick starts a process in place of the system call that enables the mouse.
AbandonEnable ==
  /\ ipc \in EnableSteps /\ ipc' = "idle" /\ call' = NoCall
  /\ UNCHANGED <<imr, icws, word, lost, begun, asked>>

EnableNext == ReadMask \/ WriteMask \/ CheckMask \/ RetryMask

IrqNext == \/ IrqManagerInit \/ Remap \/ EnableNext \/ AbandonEnable
           \/ \E line \in Lines : IrqEnable(line)

IrqSpec == IrqInit /\ [][IrqNext]_irqVars

-----------------------------------------------------------------------------
CallType  == [line : Lines \cup {0}, pic : Pics, bit : Bits, mask : SUBSET Bits, tries : Nat]
IrqTypeOK ==
  /\ imr \in [Pics -> SUBSET Bits]
  /\ icws \in [Pics -> Seq(SUBSET Bits)]
  /\ ipc \in IrqLabels
  /\ word \in 1 .. 10
  /\ call \in CallType
  /\ lost \in Nat
  /\ begun \subseteq Lines /\ asked \subseteq Lines

\* The processor can be told of a line.
Heard(line) == /\ BitOf(line) \notin imr[PicOf(line)]
               /\ line >= 8 => CASCADE \notin imr["master"]

\* What may be open once irq_enable has been entered with these lines.
MayBeOpen(lines) ==
  [pic \in Pics |-> {BitOf(n) : n \in {l \in lines : PicOf(l) = pic}} \cup
                    {b \in {CASCADE} : pic = "master" /\ \E l \in lines : l >= 8}]

\* After pic_remap no line is open that irq_enable was not entered for: a mask is
\* never written from a stale or a partial value.  And as long as no more writes were
\* lost than the shorter of the two loops repeats, every line that irq_enable has
\* returned for can be heard, whatever other lines were enabled or abandoned since.
MasksAsAsked ==
  ipc \notin {"reset", "remap"} =>
    /\ \A pic \in Pics : Bits \ imr[pic] \subseteq MayBeOpen(begun)[pic]
    /\ lost <= CASCADE_RETRIES => \A line \in asked : Heard(line)
=============================================================================
