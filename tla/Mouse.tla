-------------------------------- MODULE Mouse --------------------------------
(***************************************************************************)
(* The PS/2 mouse driver (mouse.c): bytes come one at a time through the   *)
(* 8042, mouse_handler assembles three of them into a packet, moves the    *)
(* cursor and files the packet in a ring that mouse_get_buttons reads.     *)
(*                                                                         *)
(* mouse_handler runs twice: as the handler of IRQ12, with interrupts off, *)
(* and inside SYSCALL_POLL_MOUSE, with interrupts on, where IRQ12 may come *)
(* between any two statements.  The first is one action, the second one    *)
(* action for each access to what the two share.  Abandon is the tick that *)
(* starts another process (module Tasking) in the middle of a system call. *)
(*                                                                         *)
(* One axis is modelled: mouse_x goes the way of mouse_y, without the      *)
(* inversion.  A movement is a signed number of Bits bits (8).  The EOIs   *)
(* are in Tasking; here IRQ12 may be taken whenever it is raised.          *)
(***************************************************************************)
EXTENDS Integers, Sequences

CONSTANTS
  MOUSE_BUF_SIZE,  \* packets in ring (128)
  START_Y, MAX_Y,  \* the cursor's first line (240) and the screen's last (767)
  Bits,            \* bits of a movement (8)
  Movements,       \* the movements the mouse reports
  Machines,        \* what the programs, the keyboard and the mouse may do
  MAX_PACKETS,     \* how many packets a mouse sends at most
  MAX_STARTS       \* how many ticks find a process to start

Signed == -(2^(Bits - 1)) .. 2^(Bits - 1) - 1

\* The system calls made, whether keys are pressed, and the packets the mouse sends.
Settings == [calls : SUBSET {"poll", "buttons", "drain"}, keyboard : BOOLEAN,
             packets : 0 .. MAX_PACKETS]

ASSUME MouseAssumption ==
  /\ MOUSE_BUF_SIZE \in Nat \ {0, 1}
  /\ MAX_Y \in Nat /\ START_Y \in 0 .. MAX_Y
  /\ Bits \in Nat \ {0} /\ 2^Bits \in Nat \ {0} /\ Movements \subseteq Signed
  /\ MAX_PACKETS \in Nat /\ MAX_STARTS \in Nat
  /\ Machines \subseteq Settings

VARIABLES
  \* mouse.c
  pkt_i, pkt, ring, head, tail, mouse_y,
  \* the 8042: data register, OBF and AUX bits, and the request it raised
  data, obf, aux, irq,
  \* the call in progress: next statement, the byte read, and what was loaded of
  \* pkt_i, pkt and one of the other globals
  pc, byte, idx, parts, loaded,
  \* the next byte the mouse sends, and which of Machines it is part of
  next, machine,
  \* history: the packets mouse_read returned, whether anything but IRQ12 took a
  \* byte of a packet (or IRQ12 anything else), a store beyond pkt, ticks that started
  \* a process, and whether one cut a poll off between the movement and its limits and
  \* no packet has been limited since
  reported, disturbed, overrun, starts, cut

drvVars  == <<pkt_i, pkt, ring, head, tail, mouse_y>>
hwVars   == <<data, obf, aux, irq>>
locals   == <<byte, idx, parts, loaded>>
mouseVars == <<next, machine>>
histVars == <<reported, disturbed, overrun, starts, cut>>
vars     == <<drvVars, hwVars, pc, locals, mouseVars, histVars>>

-----------------------------------------------------------------------------
\* Byte at of the n-th packet; sync is its bit 3, which is set in the first byte of a
\* packet and may be set in the others.  The ACK of a command, 0xFA, has it set.
Byte   == [n : 0 .. MAX_PACKETS, at : 0 .. 2, sync : BOOLEAN, d : Signed]
Ack    == [n |-> 0, at |-> 0, sync |-> TRUE, d |-> 0]
Slots  == 0 .. MOUSE_BUF_SIZE - 1
PacketSize == 3

\* A packet as filed: which one its buttons are of, whether its bytes are those of
\* one packet, the movement the mouse reported and the one made of it.
NoPacket == [n |-> 0, whole |-> TRUE, d |-> 0, dy |-> 0]

\* Conversion to int8_t.
ToSigned(k) == ((k + 2^(Bits - 1)) % 2^Bits) - 2^(Bits - 1)

(***************************************************************************)
(* The expressions of the driver.  A name that ends in a slip (Early,      *)
(* Newest, LowOnly, ...) is the bug whose absence the properties below     *)
(* depend on; no action uses it.                                           *)
(***************************************************************************)
FullEarly(i) == i >= PacketSize - 1
Full(i)      == i >= PacketSize

Invert(d) == ToSigned(-d)
Filed(b)  == [n |-> b[0].n,
              whole |-> \A k \in 0 .. 2 : b[k].at = k /\ b[k].n = b[0].n,
              d |-> b[2].d, dy |-> Invert(b[2].d)]

NextSlot(s) == (s + 1) % MOUSE_BUF_SIZE

ClampHighOff(y) == IF y > MAX_Y THEN MAX_Y + 1 ELSE y
ClampHigh(y)    == IF y > MAX_Y THEN MAX_Y ELSE y
ClampLow(y)     == IF y < 0 THEN 0 ELSE y

\* ignore until proper sync
InSync(b) == pkt_i # 0 \/ b.sync

NewestSlot == (head + MOUSE_BUF_SIZE - 1) % MOUSE_BUF_SIZE
OldestSlot == tail

ReadyOfKeyboard == obf /\ ~aux
Ready           == obf /\ aux

Step(from, to) == pc = from /\ pc' = to

\* The call is over, and with it its locals.
Return(from) ==
  /\ Step(from, "user")
  /\ byte' = Ack /\ idx' = 0 /\ loaded' = 0 /\ parts' = [k \in 0 .. 2 |-> Ack]

\* The two calls of flush_output: its test, its read, and what follows it.
Flushes == {[test |-> "i_test", drop |-> "i_drop", after |-> "user"],
            [test |-> "d_test", drop |-> "d_drop", after |-> "d_reset"]}

\* The loads of dx, dy and buttons, in this order.
PartOf    == [h_dx |-> 1, h_dy |-> 2, h_buttons |-> 0]
AfterPart == [h_dx |-> "h_dy", h_dy |-> "h_buttons", h_buttons |-> "h_file"]

Moving     == {"h_low", "h_high"}   \* the movement is made, its limits are to come
InitLabels == {"i_wait", "i_ack", "i_test", "i_drop"}
Labels == {"user", "h_status", "h_read", "h_sync", "h_load", "h_store", "h_put",
           "h_full", "h_reset", "h_file", "h_head", "h_advance", "h_load_y", "h_move",
           "h_low", "h_high", "g_read", "g_tail", "d_test", "d_drop", "d_reset"}
          \cup DOMAIN PartOf \cup InitLabels

-----------------------------------------------------------------------------
\* mouse_init has sent the command that enables reporting, with IRQ12 unmasked and
\* interrupts on, and the mouse has answered.
Init ==
  /\ pkt_i = 0 /\ head = 0 /\ tail = 0
  /\ pkt = [k \in 0 .. 2 |-> Ack]
  /\ ring = [s \in Slots |-> NoPacket]
  /\ mouse_y = START_Y
  /\ data = Ack /\ obf = TRUE /\ aux = TRUE /\ irq = TRUE
  /\ pc = "i_wait" /\ byte = Ack /\ idx = 0 /\ parts = pkt /\ loaded = 0
  /\ next = [n |-> 1, at |-> 0] /\ machine \in Machines
  /\ reported = <<>> /\ disturbed = FALSE /\ overrun = FALSE /\ starts = 0
  /\ cut = FALSE

-----------------------------------------------------------------------------
\* The mouse sends its next byte as soon as the 8042 has room; the keyboard's byte
\* takes the same room, and IRQ1 is masked.  Only a third byte has a movement: the
\* second is mouse_x's.
MouseSends ==
  /\ ~obf /\ next.n <= machine.packets
  /\ \E s \in BOOLEAN, m \in IF next.at = 2 THEN Movements ELSE {0} :
       /\ next.at = 0 => s
       /\ data' = [n |-> next.n, at |-> next.at, sync |-> s, d |-> m]
  /\ obf' = TRUE /\ aux' = TRUE /\ irq' = TRUE
  /\ next' = IF next.at = 2 THEN [n |-> next.n + 1, at |-> 0]
                            ELSE [next EXCEPT !.at = @ + 1]
  /\ UNCHANGED <<drvVars, pc, locals, machine, histVars>>

KeyPressed ==
  /\ machine.keyboard /\ ~obf
  /\ obf' = TRUE /\ aux' = FALSE
  /\ UNCHANGED <<drvVars, data, irq, pc, locals, mouseVars, histVars>>

-----------------------------------------------------------------------------
\* mouse_handler as the handler of IRQ12, in one piece: nothing to read, a key's byte
\* or a byte out of sync; a byte of a packet; the last byte of a packet.
HandlerIgnores ==
  /\ ~Ready \/ ~InSync(data)
  /\ UNCHANGED <<drvVars, overrun, cut>>

HandlerStores ==
  /\ Ready /\ InSync(data) /\ pkt_i < PacketSize /\ ~Full(pkt_i + 1)
  /\ pkt' = [pkt EXCEPT ![pkt_i] = data]
  /\ pkt_i' = pkt_i + 1
  /\ UNCHANGED <<ring, head, tail, mouse_y, overrun, cut>>

HandlerCompletes ==
  /\ Ready /\ InSync(data) /\ pkt_i < PacketSize /\ Full(pkt_i + 1)
  /\ pkt' = [pkt EXCEPT ![pkt_i] = data]
  /\ pkt_i' = 0
  /\ ring' = [ring EXCEPT ![head] = Filed(pkt')]
  /\ head' = NextSlot(head)
  /\ mouse_y' = ClampHigh(ClampLow(mouse_y + 2 * Filed(pkt').dy)) /\ cut' = FALSE
  /\ UNCHANGED <<tail, overrun>>

\* pkt_i points beyond pkt: what the store hits is undefined.
HandlerOverruns ==
  /\ Ready /\ InSync(data) /\ pkt_i >= PacketSize
  /\ overrun' = TRUE
  /\ UNCHANGED <<drvVars, cut>>

MouseInterrupt ==
  /\ irq /\ irq' = FALSE
  /\ HandlerIgnores \/ HandlerStores \/ HandlerCompletes \/ HandlerOverruns
  /\ obf' = FALSE
  /\ disturbed' = (disturbed \/ (Ready /\ data.n = 0))
  /\ UNCHANGED <<data, aux, pc, locals, mouseVars, reported, starts>>

-----------------------------------------------------------------------------
\* The end of mouse_init: it waits for the ACK, in vain when IRQ12 took it first,
\* reads the data register, and flushes what the mouse may have sent since.
AwaitAck ==
  /\ Step("i_wait", "i_ack")
  /\ UNCHANGED <<drvVars, hwVars, locals, mouseVars, histVars>>

\* A read of the data register whose byte is thrown away.
Discard ==
  /\ obf' = FALSE
  /\ disturbed' = (disturbed \/ (Ready /\ data.n # 0))
  /\ UNCHANGED <<drvVars, data, aux, irq, locals, mouseVars, reported, overrun, starts, cut>>

ReadAck == Step("i_ack", "i_test") /\ Discard

\* flush_output; its limit of 16 bytes is beyond what the bounded mouse sends.
FlushTest ==
  /\ \E f \in Flushes : \/ Step(f.test, f.drop) /\ obf
                        \/ Step(f.test, f.after) /\ ~obf
  /\ UNCHANGED <<drvVars, hwVars, locals, mouseVars, histVars>>

FlushRead == \E f \in Flushes : Step(f.drop, f.test) /\ Discard

\* mouse_drain_buffer, of SYSCALL_RE_ENABLE_MOUSE.
Drain ==
  /\ "drain" \in machine.calls /\ Step("user", "d_test")
  /\ UNCHANGED <<drvVars, hwVars, locals, mouseVars, histVars>>

DrainReset ==
  /\ Step("d_reset", "user")
  /\ pkt_i' = 0
  /\ disturbed' = (disturbed \/ pkt_i # 0)
  /\ UNCHANGED <<pkt, ring, head, tail, mouse_y, hwVars, locals, mouseVars, reported,
                 overrun, starts, cut>>

-----------------------------------------------------------------------------
(***************************************************************************)
(* SYSCALL_POLL_MOUSE: its own test of the status, then mouse_handler with *)
(* interrupts on.  A byte that IRQ12 takes in between is read twice: the   *)
(* data register keeps it.                                                 *)
(***************************************************************************)
PollStatus ==
  /\ "poll" \in machine.calls /\ Ready /\ Step("user", "h_status")
  /\ UNCHANGED <<drvVars, hwVars, locals, mouseVars, histVars>>

\* No data; a key's byte, which is discarded; a byte of the mouse.
Status ==
  /\ \/ Step("h_status", "h_read") /\ Ready /\ UNCHANGED <<obf, locals>>
     \/ Return("h_status") /\ ~Ready /\ obf' = FALSE
  /\ UNCHANGED <<drvVars, data, aux, irq, mouseVars, histVars>>

ReadData ==
  /\ Step("h_read", "h_sync")
  /\ byte' = data
  /\ obf' = FALSE /\ disturbed' = TRUE
  /\ UNCHANGED <<drvVars, data, aux, irq, idx, parts, loaded, mouseVars, reported, overrun,
                 starts, cut>>

SyncTest ==
  /\ \/ Step("h_sync", "h_load") /\ InSync(byte) /\ UNCHANGED locals
     \/ Return("h_sync") /\ ~InSync(byte)
  /\ UNCHANGED <<drvVars, hwVars, mouseVars, histVars>>

\* pkt[pkt_i++] = b: the index is loaded, stored incremented, then used.
LoadIndex ==
  /\ Step("h_load", "h_store")
  /\ idx' = pkt_i
  /\ UNCHANGED <<drvVars, hwVars, byte, parts, loaded, mouseVars, histVars>>

StoreIndex ==
  /\ Step("h_store", "h_put")
  /\ pkt_i' = idx + 1
  /\ UNCHANGED <<pkt, ring, head, tail, mouse_y, hwVars, locals, mouseVars, histVars>>

PutByte ==
  /\ Step("h_put", "h_full")
  /\ \/ /\ idx < PacketSize
        /\ pkt' = [pkt EXCEPT ![idx] = byte] /\ UNCHANGED overrun
     \/ /\ idx >= PacketSize
        /\ overrun' = TRUE /\ UNCHANGED pkt
  /\ UNCHANGED <<pkt_i, ring, head, tail, mouse_y, hwVars, locals, mouseVars, reported,
                 disturbed, starts, cut>>

FullTest ==
  /\ \/ Step("h_full", "h_reset") /\ Full(pkt_i) /\ UNCHANGED locals
     \/ Return("h_full") /\ ~Full(pkt_i)
  /\ UNCHANGED <<drvVars, hwVars, mouseVars, histVars>>

ResetIndex ==
  /\ Step("h_reset", "h_dx")
  /\ pkt_i' = 0
  /\ UNCHANGED <<pkt, ring, head, tail, mouse_y, hwVars, locals, mouseVars, histVars>>

TakePart ==
  \E l \in DOMAIN PartOf :
    /\ Step(l, AfterPart[l])
    /\ parts' = [parts EXCEPT ![PartOf[l]] = pkt[PartOf[l]]]
    /\ UNCHANGED <<drvVars, hwVars, byte, idx, loaded, mouseVars, histVars>>

\* push_packet: the slot, head, the position and its limits.
FilePacket ==
  /\ Step("h_file", "h_head")
  /\ ring' = [ring EXCEPT ![head] = Filed(parts)]
  /\ UNCHANGED <<pkt_i, pkt, head, tail, mouse_y, hwVars, locals, mouseVars, histVars>>

LoadHead ==
  /\ Step("h_head", "h_advance")
  /\ loaded' = head
  /\ UNCHANGED <<drvVars, hwVars, byte, idx, parts, mouseVars, histVars>>

AdvanceHead ==
  /\ Step("h_advance", "h_load_y")
  /\ head' = NextSlot(loaded)
  /\ UNCHANGED <<pkt_i, pkt, ring, tail, mouse_y, hwVars, locals, mouseVars, histVars>>

LoadPosition ==
  /\ Step("h_load_y", "h_move")
  /\ loaded' = mouse_y
  /\ UNCHANGED <<drvVars, hwVars, byte, idx, parts, mouseVars, histVars>>

SetPosition(y) ==
  /\ mouse_y' = y
  /\ UNCHANGED <<pkt_i, pkt, ring, head, tail, hwVars, mouseVars, reported, disturbed,
                 overrun, starts>>

Move ==
  /\ Step("h_move", "h_low") /\ UNCHANGED locals
  /\ SetPosition(loaded + 2 * Filed(parts).dy) /\ UNCHANGED cut
LimitLow ==
  /\ Step("h_low", "h_high") /\ UNCHANGED locals
  /\ SetPosition(ClampLow(mouse_y)) /\ UNCHANGED cut
LimitTop == Return("h_high") /\ SetPosition(ClampHigh(mouse_y)) /\ cut' = FALSE

-----------------------------------------------------------------------------
\* SYSCALL_MOUSE_GET_BUTTONS: mouse_read, with interrupts on.  An empty ring returns
\* at once and changes nothing.
GetButtons ==
  /\ "buttons" \in machine.calls /\ head # tail /\ Step("user", "g_read")
  /\ UNCHANGED <<drvVars, hwVars, locals, mouseVars, histVars>>

ReadPacket ==
  /\ Step("g_read", "g_tail")
  /\ loaded' = ring[OldestSlot].n
  /\ UNCHANGED <<drvVars, hwVars, byte, idx, parts, mouseVars, histVars>>

AdvanceTail ==
  /\ Return("g_tail")
  /\ tail' = NextSlot(tail)
  /\ reported' = Append(reported, loaded)
  /\ UNCHANGED <<pkt_i, pkt, ring, head, mouse_y, hwVars, mouseVars, disturbed, overrun,
                 starts, cut>>

\* A tick starts another process: the call is never resumed.
Abandon ==
  /\ pc \notin {"user"} \cup InitLabels /\ Return(pc)
  /\ starts < MAX_STARTS /\ starts' = starts + 1
  /\ cut' = (cut \/ pc \in Moving)
  /\ UNCHANGED <<drvVars, hwVars, mouseVars, reported, disturbed, overrun>>

-----------------------------------------------------------------------------
MouseInit == AwaitAck \/ ReadAck
Handler == \/ Status \/ ReadData \/ SyncTest \/ LoadIndex \/ StoreIndex \/ PutByte
           \/ FullTest \/ ResetIndex \/ TakePart \/ FilePacket \/ LoadHead
           \/ AdvanceHead \/ LoadPosition \/ Move \/ LimitLow \/ LimitTop
Reader  == ReadPacket \/ AdvanceTail
Flush   == FlushTest \/ FlushRead \/ DrainReset

\* Once a byte has been stored beyond pkt the program has no defined behaviour,
\* and the model stops.
Next == /\ ~overrun
        /\ \/ MouseSends \/ KeyPressed \/ MouseInterrupt \/ MouseInit
           \/ PollStatus \/ Handler \/ GetButtons \/ Reader \/ Drain \/ Flush \/ Abandon

Spec == Init /\ [][Next]_vars

\* What orbit's loop gives the driver even when IRQ12 has stopped: mouse_init ends,
\* a poll is made again and again, and the statements of a call are executed.
FairSpec ==
  /\ Spec
  /\ WF_vars(MouseInit) /\ WF_vars(Flush) /\ WF_vars(Reader)
  /\ WF_vars(~overrun /\ PollStatus) /\ WF_vars(~overrun /\ Handler)

-----------------------------------------------------------------------------
\* mouse_read never returns a packet twice, nor an older one after a newer one, even
\* when push_packet has gone round the ring and over the tail in the meantime, as long
\* as IRQ12 alone runs the handler.
ReportedInOrder ==
  "poll" \notin machine.calls =>
    \A i, j \in DOMAIN reported : i < j => reported[i] < reported[j]

\* As long as the handler of IRQ12 takes every byte of the mouse and nothing else, the
\* three bytes of a filed packet were sent as one (mouse.c:184-194).
WholeUndisturbed == disturbed \/ \A s \in Slots : ring[s].whole

\* The position is off the screen only between the movement and its limits, separate
\* statements that IRQ12 runs between (mouse.c:150-155), or after a tick has cut a poll
\* off there, and then only until the next packet is limited.
OnScreen == (pc \notin Moving /\ ~cut) => mouse_y \in 0 .. MAX_Y

\* No byte is stored beyond pkt[3]: the handler is "ATOMIC + CORRECT" (mouse.c:159).
StoredInBounds == ~overrun

\* A mouse's byte in the 8042 is taken out of it even when IRQ12 has stopped, which is what
\* the polls of orbit's loop are for (orbit.c:116-117), or the program has no defined
\* behaviour any more.  Without a key's byte: the polls leave that where it is.
BytesTaken == (obf /\ aux /\ "poll" \in machine.calls) ~> (~obf \/ overrun)
=============================================================================
