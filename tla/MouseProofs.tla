----------------------------- MODULE MouseProofs -----------------------------
(***************************************************************************)
(* Proofs about the mouse driver, for every screen, every ring and any     *)
(* number of packets.                                                      *)
(*                                                                         *)
(* The position is on the screen whenever no call is between its movement  *)
(* and its limits. The rest is about one stream of bytes: the latest of it *)
(* are in pkt, the next one is in the 8042. WholeInv says that they are    *)
(* neighbours until anything but the handler of IRQ12 takes one. OrderInv  *)
(* says that packets never go back; it stands drains and keys, but no      *)
(* poll, which IRQ12 may overtake between any two of its statements.       *)
(***************************************************************************)
EXTENDS Mouse, TLAPS

Bytes   == [n : Nat, at : 0 .. 2, sync : BOOLEAN, d : Int]
Packets == [n : Nat, whole : BOOLEAN, d : Int, dy : Int]

MouseTypes ==
  /\ pkt_i \in Nat /\ pkt \in [0 .. 2 -> Bytes]
  /\ ring \in [Slots -> Packets] /\ head \in Slots /\ tail \in Slots
  /\ mouse_y \in Int
  /\ data \in Bytes /\ obf \in BOOLEAN /\ aux \in BOOLEAN
  /\ byte \in Bytes /\ idx \in Nat /\ parts \in [0 .. 2 -> Bytes]
  /\ loaded \in Int
  /\ next \in [n : Nat \ {0}, at : 0 .. 2]
  /\ reported \in Seq(Int) /\ disturbed \in BOOLEAN
  /\ starts \in Nat /\ cut \in BOOLEAN
  /\ pc = "h_advance" => loaded \in Slots

LEMMA Constant ==
  /\ MOUSE_BUF_SIZE \in Nat \ {0, 1} /\ START_Y \in Int
  /\ START_Y >= 0 /\ START_Y <= MAX_Y /\ MAX_Y \in Nat /\ Movements \subseteq Int
<1>1. 2^(Bits - 1) \in Int
  BY MouseAssumption, SMT
<1>2. Signed \subseteq Int
  BY <1>1 DEF Signed
<1> QED
  BY <1>2, MouseAssumption

LEMMA Slot ==
  /\ 0 \in Slots
  /\ \A s \in Slots : /\ s \in Nat
                      /\ NextSlot(s) = IF s = MOUSE_BUF_SIZE - 1 THEN 0 ELSE s + 1
                      /\ NextSlot(s) \in Slots
<1>1. MOUSE_BUF_SIZE \in Nat \ {0, 1}
  BY Constant
<1>2. ASSUME NEW s \in Slots
      PROVE  (s + 1) % MOUSE_BUF_SIZE = IF s = MOUSE_BUF_SIZE - 1 THEN 0 ELSE s + 1
  <2>1. s \in 0 .. MOUSE_BUF_SIZE - 1
    BY DEF Slots
  <2>2. CASE s = MOUSE_BUF_SIZE - 1
    <3>1. MOUSE_BUF_SIZE % MOUSE_BUF_SIZE = 0
      BY <1>1, SMT
    <3> QED
      BY <1>1, <2>1, <2>2, <3>1
  <2>3. CASE s # MOUSE_BUF_SIZE - 1
    BY <1>1, <2>1, <2>3, SMT
  <2> QED
    BY <2>2, <2>3
<1> QED
  BY <1>1, <1>2 DEF Slots, NextSlot

LEMMA ByteTyped ==
  /\ Ack \in Bytes /\ Ack.n = 0 /\ Ack.at = 0
  /\ [k \in 0 .. 2 |-> Ack] \in [0 .. 2 -> Bytes]
  /\ [s \in Slots |-> NoPacket] \in [Slots -> Packets] /\ NoPacket.whole
BY DEF Ack, Bytes, NoPacket, Packets

LEMMA FiledTyped ==
  ASSUME NEW b \in [0 .. 2 -> Bytes]
  PROVE  Filed(b) \in Packets /\ Filed(b).dy \in Int /\ Filed(b).n = b[0].n
<1>1. 2^(Bits - 1) \in Int /\ 2^Bits \in Nat \ {0}
  BY MouseAssumption, SMT
<1>2. \A k \in Int : ToSigned(k) \in Int
  <2> DEFINE h == 2^(Bits - 1)
             m == 2^Bits
  <2>1. h \in Int /\ m \in Nat \ {0}
    BY <1>1
  <2> HIDE DEF h, m
  <2>2. ASSUME NEW k \in Int
        PROVE  ((k + h) % m) - h \in Int
    BY <2>1, SMT
  <2> QED
    BY <2>2 DEF ToSigned, h, m
<1>3. b[0] \in Bytes /\ b[2] \in Bytes
  OBVIOUS
<1>4. b[2].d \in Int /\ b[0].n \in Nat
  BY <1>3 DEF Bytes
<1>5. Invert(b[2].d) \in Int
  BY <1>2, <1>4 DEF Invert
<1> QED
  BY <1>4, <1>5 DEF Filed, Packets

LEMMA ClampTyped ==
  ASSUME NEW y \in Int
  PROVE  /\ ClampLow(y) \in Nat /\ ClampHigh(y) \in Int
         /\ y >= 0 => ClampHigh(y) \in 0 .. MAX_Y
BY Constant DEF ClampLow, ClampHigh

LEMMA InitTypes == Init => MouseTypes
<1> SUFFICES ASSUME Init PROVE MouseTypes
  OBVIOUS
<1>1. reported = <<>> /\ reported \in Seq(Int)
  BY DEF Init
<1>2. [n |-> 1, at |-> 0] \in [n : Nat \ {0}, at : 0 .. 2]
  OBVIOUS
<1>3. START_Y \in Int
  BY Constant
<1>4. /\ pkt_i \in Nat /\ pkt \in [0 .. 2 -> Bytes] /\ ring \in [Slots -> Packets]
      /\ head \in Slots /\ tail \in Slots /\ mouse_y \in Int
  BY <1>3, Slot, ByteTyped DEF Init
<1>5. disturbed \in BOOLEAN /\ cut \in BOOLEAN /\ starts \in Nat
  BY DEF Init
<1> QED
  BY <1>1, <1>2, <1>4, <1>5, ByteTyped DEF Init, MouseTypes

-----------------------------------------------------------------------------
\* What a call does at the end: its locals are as before the first call.
LEMMA ReturnTypes ==
  ASSUME NEW l, Return(l)
  PROVE  /\ pc = l /\ pc' = "user"
         /\ byte' \in Bytes /\ idx' = 0 /\ loaded' = 0 /\ parts' \in [0 .. 2 -> Bytes]
BY ByteTyped DEF Return, Step

LEMMA SendsTypes == MouseTypes /\ MouseSends => MouseTypes'
<1> SUFFICES ASSUME MouseTypes, MouseSends PROVE MouseTypes'
  OBVIOUS
<1>1. UNCHANGED <<drvVars, pc, locals, machine, histVars>> /\ obf' = TRUE /\ aux' = TRUE
  BY DEF MouseSends
<1>2. next.n \in Nat \ {0} /\ next.at \in 0 .. 2
  BY DEF MouseTypes
<1>3. PICK s \in BOOLEAN, m \in IF next.at = 2 THEN Movements ELSE {0} :
        data' = [n |-> next.n, at |-> next.at, sync |-> s, d |-> m]
  BY DEF MouseSends
<1>4. m \in Int
  BY <1>3, Constant
<1>5. data' \in Bytes
  BY <1>2, <1>3, <1>4 DEF Bytes
<1>6. next' \in [n : Nat \ {0}, at : 0 .. 2]
  BY <1>2 DEF MouseSends, MouseTypes
<1> QED
  BY <1>1, <1>5, <1>6 DEF MouseTypes, drvVars, locals, histVars

\* A packet is complete when its third byte arrives.
LEMMA CompletesTypes ==
  MouseTypes /\ HandlerCompletes
    => /\ pkt_i' = 0 /\ pkt' = [pkt EXCEPT ![pkt_i] = data]
       /\ pkt_i = 2 /\ pkt' \in [0 .. 2 -> Bytes]
       /\ ring' = [ring EXCEPT ![head] = Filed(pkt')] /\ ring' \in [Slots -> Packets]
       /\ head' = NextSlot(head) /\ head' \in Slots
       /\ mouse_y' \in 0 .. MAX_Y
       /\ UNCHANGED <<tail, overrun>>
<1> SUFFICES ASSUME MouseTypes, HandlerCompletes
             PROVE  /\ pkt_i = 2 /\ pkt' \in [0 .. 2 -> Bytes]
                    /\ ring' \in [Slots -> Packets] /\ head' \in Slots
                    /\ mouse_y' \in 0 .. MAX_Y
  BY DEF HandlerCompletes
<1>1. pkt_i = 2
  BY DEF HandlerCompletes, MouseTypes, Full, PacketSize
<1>2. pkt' \in [0 .. 2 -> Bytes]
  BY <1>1 DEF HandlerCompletes, MouseTypes
<1>3. Filed(pkt') \in Packets /\ Filed(pkt').dy \in Int
  BY <1>2, FiledTyped
<1>4. ring' \in [Slots -> Packets] /\ head' \in Slots
  BY <1>3, Slot DEF HandlerCompletes, MouseTypes
<1>5. mouse_y' = ClampHigh(ClampLow(mouse_y + 2 * Filed(pkt').dy))
  BY DEF HandlerCompletes
<1>6. mouse_y + 2 * Filed(pkt').dy \in Int
  BY <1>3 DEF MouseTypes
<1>7. ClampLow(mouse_y + 2 * Filed(pkt').dy) \in Nat
  BY <1>6, ClampTyped
<1>8. mouse_y' \in 0 .. MAX_Y
  BY <1>5, <1>7, ClampTyped
<1> QED
  BY <1>1, <1>2, <1>4, <1>8

LEMMA InterruptTypes == MouseTypes /\ MouseInterrupt => MouseTypes'
<1> SUFFICES ASSUME MouseTypes, MouseInterrupt PROVE MouseTypes'
  OBVIOUS
<1>1. /\ UNCHANGED <<data, aux, pc, locals, mouseVars, reported, starts>>
      /\ obf' = FALSE /\ disturbed' \in BOOLEAN /\ cut' \in BOOLEAN
  BY DEF MouseInterrupt, HandlerIgnores, HandlerStores, HandlerCompletes, HandlerOverruns,
         MouseTypes
<1> DEFINE Driver == /\ pkt_i' \in Nat /\ pkt' \in [0 .. 2 -> Bytes]
                     /\ ring' \in [Slots -> Packets] /\ head' \in Slots
                     /\ tail' \in Slots /\ mouse_y' \in Int
<1>2. CASE HandlerIgnores \/ HandlerOverruns
  BY <1>2, <1>1 DEF HandlerIgnores, HandlerOverruns, MouseTypes, drvVars, mouseVars,
                      locals
<1>3. CASE HandlerStores
  <2>1. pkt_i' \in Nat /\ pkt' \in [0 .. 2 -> Bytes]
    <3>1. pkt_i' = pkt_i + 1 /\ pkt' = [pkt EXCEPT ![pkt_i] = data]
      BY <1>3 DEF HandlerStores
    <3>2. pkt_i \in Nat /\ pkt \in [0 .. 2 -> Bytes] /\ data \in Bytes
      BY DEF MouseTypes
    <3>3. [pkt EXCEPT ![pkt_i] = data] \in [0 .. 2 -> Bytes]
      BY <3>2
    <3> QED
      BY <3>1, <3>2, <3>3
  <2>2. UNCHANGED <<ring, head, tail, mouse_y>>
    BY <1>3 DEF HandlerStores
  <2> QED
    BY <2>1, <2>2, <1>1 DEF MouseTypes, mouseVars, locals
<1>4. CASE HandlerCompletes
  <2>1. Driver
    BY <1>4, CompletesTypes, Constant DEF MouseTypes
  <2> QED
    BY <2>1, <1>1 DEF MouseTypes, mouseVars, locals
<1> QED
  BY <1>2, <1>3, <1>4 DEF MouseInterrupt

LEMMA CallTypes ==
  /\ MouseTypes
  /\ \/ KeyPressed \/ MouseInit \/ Flush \/ Drain \/ PollStatus \/ GetButtons
     \/ Reader \/ Abandon
  => MouseTypes'
<1> SUFFICES ASSUME MouseTypes,
                    \/ KeyPressed \/ MouseInit \/ Flush \/ Drain \/ PollStatus
                    \/ GetButtons \/ Reader \/ Abandon
             PROVE  MouseTypes'
  OBVIOUS
<1> USE DEF drvVars, hwVars, locals, mouseVars, histVars
<1>1. CASE KeyPressed
  BY <1>1 DEF KeyPressed, MouseTypes
<1>2. ASSUME Discard, NEW l, pc' = l, l # "h_advance" PROVE MouseTypes'
  BY <1>2 DEF Discard, MouseTypes
<1>3. CASE MouseInit
  BY <1>2, <1>3 DEF MouseInit, AwaitAck, ReadAck, Step, MouseTypes
<1>4. CASE FlushTest
  BY <1>4 DEF FlushTest, Flushes, Step, MouseTypes
<1>5. CASE FlushRead
  BY <1>2, <1>5 DEF FlushRead, Flushes, Step
<1>6. CASE DrainReset
  BY <1>6 DEF DrainReset, Step, MouseTypes
<1>7. CASE Drain \/ PollStatus \/ GetButtons
  BY <1>7 DEF Drain, PollStatus, GetButtons, Step, MouseTypes
<1>8. CASE ReadPacket
  <2>1. ring[tail].n \in Int
    BY DEF MouseTypes, Packets
  <2> QED
    BY <1>8, <2>1 DEF ReadPacket, OldestSlot, Step, MouseTypes
<1>9. CASE AdvanceTail
  <2>1. Return("g_tail")
    BY <1>9 DEF AdvanceTail
  <2>2. tail' \in Slots
    BY <1>9, Slot DEF AdvanceTail, MouseTypes
  <2>3. reported' \in Seq(Int)
    BY <1>9 DEF AdvanceTail, MouseTypes
  <2> QED
    BY <1>9, <2>1, <2>2, <2>3, ReturnTypes DEF AdvanceTail, MouseTypes
<1>10. CASE Abandon
  <2>1. Return(pc)
    BY <1>10 DEF Abandon
  <2> QED
    BY <1>10, <2>1, ReturnTypes DEF Abandon, MouseTypes
<1> QED
  BY <1>1, <1>3, <1>4, <1>5, <1>6, <1>7, <1>8, <1>9, <1>10 DEF Flush, Reader

LEMMA HandlerTypes == MouseTypes /\ Handler => MouseTypes'
<1> SUFFICES ASSUME MouseTypes, Handler PROVE MouseTypes'
  OBVIOUS
<1> USE DEF drvVars, hwVars, locals, mouseVars, histVars
<1>1. CASE Status
  <2>1. UNCHANGED <<drvVars, data, aux, mouseVars, histVars>> /\ obf' \in BOOLEAN
    BY <1>1 DEF Status, MouseTypes
  <2>2. CASE Step("h_status", "h_read") /\ UNCHANGED locals
    BY <2>1, <2>2 DEF Step, MouseTypes
  <2>3. CASE Return("h_status")
    BY <2>1, <2>3, ReturnTypes DEF MouseTypes
  <2> QED
    BY <1>1, <2>2, <2>3 DEF Status
<1>2. CASE ReadData
  BY <1>2 DEF ReadData, Step, MouseTypes
<1>3. CASE SyncTest
  BY <1>3, ReturnTypes DEF SyncTest, Step, MouseTypes
<1>4. CASE LoadIndex \/ StoreIndex \/ ResetIndex
  BY <1>4 DEF LoadIndex, StoreIndex, ResetIndex, Step, MouseTypes
<1>5. CASE PutByte
  <2>1. pkt' \in [0 .. 2 -> Bytes]
    BY <1>5 DEF PutByte, MouseTypes, PacketSize
  <2> QED
    BY <1>5, <2>1 DEF PutByte, Step, MouseTypes
<1>6. CASE FullTest
  BY <1>6, ReturnTypes DEF FullTest, Step, MouseTypes
<1>7. CASE TakePart
  <2>1. PICK l \in {"h_dx", "h_dy", "h_buttons"} :
          /\ Step(l, AfterPart[l])
          /\ parts' = [parts EXCEPT ![PartOf[l]] = pkt[PartOf[l]]]
          /\ UNCHANGED <<drvVars, hwVars, byte, idx, loaded, mouseVars, histVars>>
    BY <1>7 DEF TakePart, PartOf
  <2>2. parts' \in [0 .. 2 -> Bytes] /\ pc' # "h_advance"
    BY <2>1 DEF PartOf, AfterPart, Step, MouseTypes
  <2> QED
    BY <2>1, <2>2 DEF MouseTypes
<1>8. CASE FilePacket
  <2>1. Filed(parts) \in Packets
    BY FiledTyped DEF MouseTypes
  <2> QED
    BY <1>8, <2>1 DEF FilePacket, Step, MouseTypes
<1>9. CASE LoadHead \/ LoadPosition
  BY <1>9 DEF LoadHead, LoadPosition, Step, Slots, MouseTypes
<1>10. CASE AdvanceHead
  <2>1. head' \in Slots
    BY <1>10, Slot DEF AdvanceHead, Step, MouseTypes
  <2> QED
    BY <1>10, <2>1 DEF AdvanceHead, Step, MouseTypes
<1>11. CASE Move
  <2>1. mouse_y' \in Int
    BY <1>11, FiledTyped DEF Move, SetPosition, MouseTypes
  <2> QED
    BY <1>11, <2>1 DEF Move, SetPosition, Step, MouseTypes
<1>12. CASE LimitLow
  <2>1. mouse_y' \in Int
    BY <1>12, ClampTyped DEF LimitLow, SetPosition, MouseTypes
  <2> QED
    BY <1>12, <2>1 DEF LimitLow, SetPosition, Step, MouseTypes
<1>13. CASE LimitTop
  <2>1. mouse_y' \in Int
    BY <1>13, ClampTyped DEF LimitTop, SetPosition, MouseTypes
  <2>2. Return("h_high") /\ cut' \in BOOLEAN
    BY <1>13 DEF LimitTop
  <2>3. UNCHANGED <<pkt_i, pkt, ring, head, tail, hwVars, next, reported, disturbed, starts>>
    BY <1>13 DEF LimitTop, SetPosition
  <2> QED
    BY <2>1, <2>2, <2>3, ReturnTypes DEF MouseTypes
<1> QED
  BY <1>1, <1>2, <1>3, <1>4, <1>5, <1>6, <1>7, <1>8, <1>9, <1>10, <1>11, <1>12, <1>13
     DEF Handler

LEMMA StepTypes == MouseTypes /\ [Next]_vars => MouseTypes'
<1>1. MouseTypes /\ Next => MouseTypes'
  BY SendsTypes, InterruptTypes, CallTypes, HandlerTypes DEF Next
<1>2. MouseTypes /\ UNCHANGED vars => MouseTypes'
  BY DEF MouseTypes, vars, drvVars, hwVars, locals, mouseVars, histVars
<1> QED
  BY <1>1, <1>2

-----------------------------------------------------------------------------
(***************************************************************************)
(* OnScreen.  The position is off the screen only between the movement and *)
(* its limits, or after a poll was cut off there; IRQ12, or the next poll  *)
(* that completes a packet, limits it again.                               *)
(***************************************************************************)
ScreenInv == \/ pc = "h_low"
             \/ pc = "h_high" /\ mouse_y >= 0
             \/ pc \notin Moving /\ cut
             \/ mouse_y \in 0 .. MAX_Y

\* The steps that leave the position alone are none of those it is limited in.
LEMMA PositionKept ==
  ASSUME \/ MouseSends \/ KeyPressed \/ MouseInit \/ PollStatus \/ GetButtons
         \/ Reader \/ Drain \/ Flush
         \/ Status \/ ReadData \/ SyncTest \/ LoadIndex \/ StoreIndex \/ PutByte
         \/ FullTest \/ ResetIndex \/ TakePart \/ FilePacket \/ LoadHead
         \/ AdvanceHead \/ LoadPosition
  PROVE  /\ UNCHANGED <<mouse_y, cut>>
         /\ UNCHANGED pc \/ (pc \notin Moving /\ pc' \notin Moving)
<1> USE DEF drvVars, histVars, Step, Return, Moving
<1>1. CASE MouseSends \/ KeyPressed
  BY <1>1 DEF MouseSends, KeyPressed
<1>2. CASE MouseInit \/ PollStatus \/ GetButtons \/ Reader \/ Drain
  BY <1>2 DEF MouseInit, AwaitAck, ReadAck, Discard, PollStatus, GetButtons, Reader,
              ReadPacket, AdvanceTail, Drain
<1>3. CASE Flush
  BY <1>3 DEF Flush, FlushTest, FlushRead, DrainReset, Discard, Flushes
<1>4. CASE Status \/ ReadData \/ SyncTest \/ LoadIndex \/ StoreIndex \/ PutByte
  BY <1>4 DEF Status, ReadData, SyncTest, LoadIndex, StoreIndex, PutByte
<1>5. CASE FullTest \/ ResetIndex \/ FilePacket \/ LoadHead \/ AdvanceHead \/ LoadPosition
  BY <1>5 DEF FullTest, ResetIndex, FilePacket, LoadHead, AdvanceHead, LoadPosition
<1>6. CASE TakePart
  BY <1>6 DEF TakePart, PartOf, AfterPart
<1> QED
  BY <1>1, <1>2, <1>3, <1>4, <1>5, <1>6

LEMMA StepScreen == MouseTypes /\ ScreenInv /\ [Next]_vars => ScreenInv'
<1> SUFFICES ASSUME MouseTypes, ScreenInv, [Next]_vars PROVE ScreenInv'
  OBVIOUS
<1>1. ASSUME UNCHANGED <<mouse_y, cut>>,
             UNCHANGED pc \/ (pc \notin Moving /\ pc' \notin Moving)
      PROVE  ScreenInv'
  BY <1>1 DEF ScreenInv, Moving
<1>2. CASE MouseInterrupt
  <2>1. CASE HandlerCompletes
    BY <2>1, CompletesTypes DEF ScreenInv
  <2>2. CASE HandlerIgnores \/ HandlerStores \/ HandlerOverruns
    BY <1>1, <1>2, <2>2
       DEF MouseInterrupt, HandlerIgnores, HandlerStores, HandlerOverruns, drvVars
  <2> QED
    BY <1>2, <2>1, <2>2 DEF MouseInterrupt
<1>3. CASE Move
  BY <1>3 DEF Move, Step, ScreenInv
<1>4. CASE LimitLow
  <2>1. mouse_y' >= 0 /\ pc' = "h_high"
    BY <1>4, ClampTyped DEF LimitLow, SetPosition, Step, MouseTypes
  <2> QED
    BY <2>1 DEF ScreenInv
<1>5. CASE LimitTop
  <2>1. pc = "h_high" /\ mouse_y' = ClampHigh(mouse_y) /\ mouse_y \in Int
    BY <1>5 DEF LimitTop, Return, Step, SetPosition, MouseTypes
  <2>2. mouse_y >= 0
    BY <2>1, Constant DEF ScreenInv, Moving
  <2>3. mouse_y' \in 0 .. MAX_Y
    BY <2>1, <2>2, ClampTyped
  <2> QED
    BY <2>3 DEF ScreenInv
<1>6. CASE Abandon
  BY <1>6 DEF Abandon, Return, Step, drvVars, ScreenInv, Moving
<1>7. CASE UNCHANGED vars
  BY <1>1, <1>7 DEF vars, drvVars, histVars
<1> QED
  BY <1>1, <1>2, <1>3, <1>4, <1>5, <1>6, <1>7, PositionKept DEF Next, Handler

\* The cursor is on the screen wherever the code is but between the movement and its
\* limits, whatever the size of the screen and of the movements, and wherever IRQ12 comes
\* (mouse.c:150-155); a tick that cuts a poll off there leaves it off the screen, and
\* the next packet brings it back.
THEOREM AlwaysOnScreen == Spec => []OnScreen
<1>1. Init => MouseTypes /\ ScreenInv
  BY InitTypes, Constant DEF Init, ScreenInv
<1>2. MouseTypes /\ ScreenInv /\ [Next]_vars => (MouseTypes /\ ScreenInv)'
  BY StepTypes, StepScreen
<1>3. MouseTypes /\ ScreenInv => OnScreen
  BY DEF ScreenInv, OnScreen, Moving
<1> QED
  BY <1>1, <1>2, <1>3, PTL DEF Spec

-----------------------------------------------------------------------------
(***************************************************************************)
(* What the two invariants of the byte stream need to know of a step: it   *)
(* is one of those that are named, a statement of a poll that has read its *)
(* byte, one that leaves the stream as it is, or one that empties the data *)
(* register or puts a key's byte into it.                                  *)
(***************************************************************************)
HandlerLabels == {"h_sync", "h_load", "h_store", "h_put", "h_full", "h_reset", "h_dx",
                  "h_dy", "h_buttons", "h_file", "h_head", "h_advance", "h_load_y",
                  "h_move", "h_low", "h_high"}
PollLabels    == HandlerLabels \cup {"h_status", "h_read"}
Taking        == {"g_read", "g_tail"}

stream == <<pkt_i, pkt, ring, head, tail, next, reported>>

Polls == pc \in HandlerLabels /\ disturbed' = disturbed

NoPolls == "poll" \notin machine.calls

Stands == /\ UNCHANGED <<stream, data, obf, aux, disturbed>>
          /\ pc' \notin HandlerLabels \cup {"g_tail"}
          /\ pc' = "h_status" => ~NoPolls
          /\ pc' = "h_read" => pc = "h_status"
          /\ pc' = "g_read" => head # tail

Drops == /\ UNCHANGED <<stream, data>>
         /\ ~Ready'
         /\ disturbed' = (disturbed \/ (Ready /\ data.n # 0))
         /\ UNCHANGED <<pc, loaded>> \/ pc' \notin PollLabels \cup Taking

LEMMA StepKinds ==
  ASSUME MouseTypes, Next
  PROVE  \/ MouseSends \/ MouseInterrupt \/ ReadData \/ DrainReset \/ ReadPacket
         \/ AdvanceTail \/ Polls \/ Stands \/ Drops
<1> USE DEF drvVars, hwVars, locals, mouseVars, histVars, stream, Step, Return
<1>1. CASE KeyPressed
  BY <1>1 DEF KeyPressed, Drops, Ready, MouseTypes
<1>2. ASSUME Discard, pc' \in {"i_test", "d_test"} PROVE Drops
  BY <1>2 DEF Discard, Drops, Ready, PollLabels, HandlerLabels, Taking
<1>3. CASE MouseInit
  BY <1>2, <1>3 DEF MouseInit, AwaitAck, ReadAck, Stands, HandlerLabels
<1>4. CASE FlushTest
  BY <1>4 DEF FlushTest, Flushes, Stands, HandlerLabels
<1>5. CASE FlushRead
  BY <1>2, <1>5 DEF FlushRead, Flushes
<1>6. CASE PollStatus \/ GetButtons \/ Drain
  BY <1>6 DEF PollStatus, GetButtons, Drain, Stands, NoPolls, HandlerLabels
<1>7. CASE Abandon
  BY <1>7 DEF Abandon, Stands, HandlerLabels
<1>8. CASE Status
  BY <1>8 DEF Status, Stands, Drops, Ready, HandlerLabels, PollLabels, Taking, MouseTypes
<1>9. CASE SyncTest \/ LoadIndex \/ StoreIndex \/ PutByte \/ FullTest \/ ResetIndex
  BY <1>9 DEF SyncTest, LoadIndex, StoreIndex, PutByte, FullTest, ResetIndex, Polls,
              HandlerLabels
<1>10. CASE TakePart
  BY <1>10 DEF TakePart, PartOf, Polls, HandlerLabels
<1>11. CASE FilePacket \/ LoadHead \/ AdvanceHead \/ LoadPosition
  BY <1>11 DEF FilePacket, LoadHead, AdvanceHead, LoadPosition, Polls, HandlerLabels
<1>12. CASE Move \/ LimitLow \/ LimitTop
  BY <1>12 DEF Move, LimitLow, LimitTop, SetPosition, Polls, HandlerLabels
<1>13. Flush => FlushTest \/ FlushRead \/ DrainReset
  BY DEF Flush
<1>14. Reader => ReadPacket \/ AdvanceTail
  BY DEF Reader
<1> QED
  BY <1>1, <1>3, <1>4, <1>5, <1>6, <1>7, <1>8, <1>9, <1>10, <1>11,
     <1>12, <1>13, <1>14 DEF Next, Handler

-----------------------------------------------------------------------------
(***************************************************************************)
(* WholeUndisturbed.  Until something disturbs the stream, what is in pkt  *)
(* is the beginning of one packet, and the next byte the handler will see  *)
(* is the one that continues it.                                           *)
(***************************************************************************)
Coming == IF Ready /\ data.n # 0 THEN [n |-> data.n, at |-> data.at] ELSE next

WholeInv ==
  ~disturbed =>
    /\ pc \notin HandlerLabels
    /\ pkt_i \in 0 .. 2
    /\ \A k \in 0 .. 2 : k < pkt_i => pkt[k].at = k /\ pkt[k].n = pkt[0].n
    /\ Coming.at = pkt_i
    /\ pkt_i > 0 => Coming.n = pkt[0].n
    /\ Ready /\ data.n # 0 =>
         /\ data.at = 0 => data.sync
         /\ next = IF data.at = 2 THEN [n |-> data.n + 1, at |-> 0]
                                  ELSE [n |-> data.n, at |-> data.at + 1]
    /\ \A s \in Slots : ring[s].whole

LEMMA SendsWhole == MouseTypes /\ WholeInv /\ MouseSends => WholeInv'
<1> SUFFICES ASSUME MouseTypes, WholeInv, MouseSends, ~disturbed' PROVE WholeInv'
  BY DEF WholeInv
<1>1. UNCHANGED <<pkt_i, pkt, ring, pc, disturbed>> /\ ~obf /\ obf' = TRUE /\ aux' = TRUE
  BY DEF MouseSends, drvVars, histVars
<1>2. next.n \in Nat \ {0} /\ next.at \in 0 .. 2 /\ next = [n |-> next.n, at |-> next.at]
  BY DEF MouseTypes
<1>3. PICK s \in BOOLEAN, m \in IF next.at = 2 THEN Movements ELSE {0} :
        /\ next.at = 0 => s
        /\ data' = [n |-> next.n, at |-> next.at, sync |-> s, d |-> m]
  BY DEF MouseSends
<1>4. Ready' /\ data'.n = next.n /\ data'.at = next.at /\ data'.sync = s /\ ~Ready
  BY <1>1, <1>3 DEF Ready
<1>5. next' = IF next.at = 2 THEN [n |-> next.n + 1, at |-> 0]
                             ELSE [n |-> next.n, at |-> next.at + 1]
  BY <1>2 DEF MouseSends
<1>6. Coming = next /\ Coming' = [n |-> next.n, at |-> next.at]
  BY <1>2, <1>4 DEF Coming
<1> QED
  BY <1>1, <1>2, <1>3, <1>4, <1>5, <1>6 DEF WholeInv

LEMMA StoresWhole ==
  ASSUME MouseTypes, WholeInv, MouseInterrupt, ~disturbed', HandlerStores \/ HandlerCompletes
  PROVE  WholeInv'
<1>1. /\ ~disturbed /\ Ready /\ data.n # 0
      /\ UNCHANGED <<data, pc, next>> /\ obf' = FALSE
  BY DEF MouseInterrupt, HandlerStores, HandlerCompletes, mouseVars, MouseTypes
<1>2. ~Ready' /\ Coming' = next
  BY <1>1 DEF Ready, Coming
<1>3. /\ pkt_i \in 0 .. 2 /\ pc \notin HandlerLabels
      /\ data.at = pkt_i /\ (pkt_i > 0 => data.n = pkt[0].n)
      /\ next = IF data.at = 2 THEN [n |-> data.n + 1, at |-> 0]
                               ELSE [n |-> data.n, at |-> data.at + 1]
      /\ \A k \in 0 .. 2 : k < pkt_i => pkt[k].at = k /\ pkt[k].n = pkt[0].n
      /\ \A s \in Slots : ring[s].whole
  BY <1>1 DEF WholeInv, Coming
<1>4. /\ pkt' = [pkt EXCEPT ![pkt_i] = data] /\ pkt \in [0 .. 2 -> Bytes]
  BY DEF HandlerStores, HandlerCompletes, MouseTypes
<1>5. \A k \in 0 .. 2 : k <= pkt_i => pkt'[k].at = k /\ pkt'[k].n = pkt'[0].n
  BY <1>3, <1>4
<1>6. pkt'[0].n = data.n
  BY <1>3, <1>4
<1>7. CASE HandlerStores
  <2>1. pkt_i' = pkt_i + 1 /\ pkt_i < 2 /\ ring' = ring
    BY <1>3, <1>7 DEF HandlerStores, Full, PacketSize
  <2>2. \A k \in 0 .. 2 : k < pkt_i' => pkt'[k].at = k /\ pkt'[k].n = pkt'[0].n
    BY <1>3, <1>5, <2>1
  <2>3. Coming'.at = pkt_i' /\ Coming'.n = pkt'[0].n /\ pkt_i' \in 0 .. 2
    BY <1>2, <1>3, <1>6, <2>1
  <2> QED
    BY <1>1, <1>2, <1>3, <2>1, <2>2, <2>3 DEF WholeInv
<1>8. CASE HandlerCompletes
  <2>1. pkt_i = 2 /\ pkt_i' = 0 /\ ring' = [ring EXCEPT ![head] = Filed(pkt')]
    BY <1>8, CompletesTypes
  <2>2. Filed(pkt').whole
    BY <1>5, <2>1 DEF Filed
  <2>3. \A s \in Slots : ring'[s].whole
    BY <1>3, <2>1, <2>2 DEF MouseTypes
  <2>4. Coming'.at = 0
    BY <1>2, <1>3, <2>1
  <2> QED
    BY <1>1, <1>2, <1>3, <2>1, <2>3, <2>4 DEF WholeInv
<1> QED
  BY <1>7, <1>8

LEMMA StepWhole == MouseTypes /\ WholeInv /\ [Next]_vars => WholeInv'
<1> SUFFICES ASSUME MouseTypes, WholeInv, [Next]_vars, ~disturbed' PROVE WholeInv'
  BY DEF WholeInv
<1>1. CASE MouseSends
  BY <1>1, SendsWhole
<1>2. ASSUME UNCHANGED <<pkt_i, pkt, ring, data, next>>, ~disturbed,
             ~(Ready /\ data.n # 0), ~Ready',
             pc' = pc \/ pc' \notin HandlerLabels
      PROVE  WholeInv'
  <2>1. Coming' = next /\ Coming = next
    BY <1>2 DEF Coming
  <2> QED
    BY <1>2, <2>1 DEF WholeInv
<1>3. CASE MouseInterrupt
  <2>1. CASE HandlerStores \/ HandlerCompletes
    BY <1>3, <2>1, StoresWhole
  <2>2. CASE HandlerIgnores \/ HandlerOverruns
    <3>1. /\ UNCHANGED <<pkt_i, pkt, ring, data, next, pc>> /\ obf' = FALSE
          /\ ~disturbed /\ (Ready => data.n # 0)
      BY <1>3, <2>2
         DEF MouseInterrupt, HandlerIgnores, HandlerOverruns, drvVars, mouseVars, MouseTypes
    <3>2. ASSUME Ready PROVE FALSE
      <4>1. pkt_i \in 0 .. 2 /\ (pkt_i = 0 => data.sync)
        BY <3>1, <3>2 DEF WholeInv, Coming
      <4> QED
        BY <2>2, <3>2, <4>1
           DEF HandlerIgnores, HandlerOverruns, InSync, PacketSize
    <3> QED
      BY <1>2, <3>1, <3>2 DEF Ready
  <2> QED
    BY <1>3, <2>1, <2>2 DEF MouseInterrupt
<1>4. CASE ReadData
  BY <1>4 DEF ReadData
<1>5. CASE DrainReset
  <2>1. /\ UNCHANGED <<pkt, ring, data, obf, aux, next>> /\ pkt_i' = 0 /\ pkt_i = 0
        /\ ~disturbed /\ pc' = "user"
    BY <1>5 DEF DrainReset, Step, hwVars, mouseVars, MouseTypes
  <2>2. Coming' = Coming /\ Ready' = Ready
    BY <2>1 DEF Coming, Ready
  <2> QED
    BY <2>1, <2>2 DEF WholeInv, HandlerLabels
<1>6. ASSUME UNCHANGED <<pkt_i, pkt, ring, data, obf, aux, next, disturbed>>,
             pc' = pc \/ pc' \notin HandlerLabels
      PROVE  WholeInv'
  <2>1. Coming' = Coming /\ Ready' = Ready
    BY <1>6 DEF Coming, Ready
  <2> QED
    BY <1>6, <2>1 DEF WholeInv
<1>7. CASE ReadPacket
  BY <1>6, <1>7
     DEF ReadPacket, Step, drvVars, hwVars, mouseVars, histVars, HandlerLabels
<1>8. CASE AdvanceTail
  BY <1>6, <1>8
     DEF AdvanceTail, Return, Step, drvVars, hwVars, mouseVars, histVars, HandlerLabels
<1>9. CASE Polls
  BY <1>9 DEF Polls, WholeInv
<1>10. CASE Stands
  BY <1>6, <1>10 DEF Stands, stream
<1>11. CASE Drops
  BY <1>2, <1>11 DEF Drops, stream, PollLabels
<1>12. CASE UNCHANGED vars
  BY <1>6, <1>12 DEF vars, drvVars, hwVars, mouseVars, histVars
<1> QED
  BY <1>1, <1>3, <1>4, <1>5, <1>7, <1>8, <1>9, <1>10, <1>11, <1>12, StepKinds

\* As long as the handler of IRQ12 takes every byte of the mouse and nothing else, the
\* three bytes of every filed packet were sent as one, for any ring, number of packets
\* and system calls (mouse.c:184-194).
THEOREM AlwaysWholeUndisturbed == Spec => []WholeUndisturbed
<1>1. Init => MouseTypes /\ WholeInv
  <2>1. ASSUME Init PROVE WholeInv
    <3>1. Coming = [n |-> 1, at |-> 0] /\ pkt_i = 0
      BY <2>1, ByteTyped DEF Init, Coming
    <3>2. \A s \in Slots : ring[s].whole
      BY <2>1, ByteTyped DEF Init
    <3> QED
      BY <2>1, <3>1, <3>2, ByteTyped DEF Init, WholeInv, HandlerLabels
  <2> QED
    BY <2>1, InitTypes
<1>2. MouseTypes /\ WholeInv /\ [Next]_vars => (MouseTypes /\ WholeInv)'
  BY StepTypes, StepWhole
<1>3. MouseTypes /\ WholeInv => WholeUndisturbed
  BY DEF WholeInv, WholeUndisturbed
<1> QED
  BY <1>1, <1>2, <1>3, PTL DEF Spec

-----------------------------------------------------------------------------
(***************************************************************************)
(* ReportedInOrder, when nobody polls.  Front is the packet that will be   *)
(* filed next, or an earlier one: it never goes back, and it is ahead of   *)
(* everything in the part of the ring that is yet to be read, Window,      *)
(* which is in order and ahead of everything reported.  The window is the  *)
(* whole ring when push_packet comes round to the tail under a mouse_read. *)
(***************************************************************************)
Front == IF pkt_i > 0 THEN pkt[0].n ELSE IF Ready THEN data.n ELSE next.n

Dist   == [s \in Slots |-> IF s >= tail THEN s - tail ELSE s - tail + MOUSE_BUF_SIZE]
Window == {s \in Slots : IF head = tail THEN pc \in Taking ELSE Dist[s] < Dist[head]}

StreamInv ==
  /\ pc \notin PollLabels
  /\ pkt_i \in 0 .. 2
  /\ pkt_i > 0 => IF Ready THEN 3 * data.n + data.at >= 3 * pkt[0].n + pkt_i
                           ELSE 3 * next.n + next.at >= 3 * pkt[0].n + pkt_i
  /\ Ready => 3 * next.n + next.at > 3 * data.n + data.at

InOrder == \A i, j \in DOMAIN reported : i < j => reported[i] < reported[j]

WindowInv ==
  /\ \A s \in Window : ring[s].n < Front
  /\ \A s, t \in Window : Dist[s] < Dist[t] => ring[s].n < ring[t].n
  /\ \A i \in DOMAIN reported : reported[i] < Front
  /\ \A i \in DOMAIN reported, s \in Window : reported[i] < ring[s].n
  /\ InOrder

\* What mouse_read has loaded.
HandInv ==
  pc = "g_tail" => /\ loaded < Front
                   /\ \A s \in Window \ {tail} : loaded < ring[s].n
                   /\ \A i \in DOMAIN reported : reported[i] < loaded

Numbers == /\ \A s \in Slots : ring[s].n \in Int /\ Dist[s] \in Int
           /\ \A i \in DOMAIN reported : reported[i] \in Int
           /\ Front \in Int /\ loaded \in Int /\ Window \subseteq Slots
           /\ head \in Slots /\ tail \in Slots

LEMMA AllNumbers == MouseTypes => Numbers
<1> SUFFICES ASSUME MouseTypes PROVE Numbers
  OBVIOUS
<1>1. MOUSE_BUF_SIZE \in Int /\ Slots \subseteq Int
  BY Constant DEF Slots
<1>2. \A s \in Slots : Dist[s] \in Int
  BY <1>1 DEF Dist, MouseTypes
<1>3. \A s \in Slots : ring[s].n \in Int
  BY DEF MouseTypes, Packets
<1>4. Front \in Int
  BY DEF Front, MouseTypes, Bytes
<1> QED
  BY <1>2, <1>3, <1>4 DEF Numbers, MouseTypes, Window

\* The positions of the bytes, in numbers alone.
LEMMA BytePlaces ==
  ASSUME NEW n \in Nat, NEW a \in 0 .. 2, NEW m \in Nat, NEW b \in 0 .. 2
  PROVE  /\ 3 * n + a >= 3 * m + b => n >= m
         /\ 3 * n + a >= 3 * m + 3 => n >= m + 1
OBVIOUS

\* The front never goes back; when a packet is filed it passes it.
LEMMA StreamInterrupt ==
  ASSUME MouseTypes, StreamInv, MouseInterrupt
  PROVE  StreamInv' /\ Front' >= Front /\ (HandlerCompletes => Front' > Front)
<1> DEFINE D == 3 * data.n + data.at
           N == 3 * next.n + next.at
<1>1. /\ data.n \in Nat /\ data.at \in 0 .. 2 /\ next.n \in Nat /\ next.at \in 0 .. 2
      /\ pkt[0].n \in Nat /\ pkt_i \in 0 .. 2 /\ pc \notin PollLabels
  BY DEF MouseTypes, Bytes, StreamInv
<1>2. UNCHANGED <<data, next, pc>> /\ ~Ready'
  BY DEF MouseInterrupt, Ready, mouseVars
<1>3. CASE HandlerIgnores \/ HandlerOverruns
  <2>1. UNCHANGED <<pkt_i, pkt>> /\ ~HandlerCompletes
    BY <1>1, <1>3
       DEF HandlerIgnores, HandlerOverruns, HandlerCompletes, drvVars, PacketSize
  <2>2. N >= D \/ ~Ready
    BY <1>1 DEF StreamInv
  <2>3. next.n >= data.n \/ ~Ready
    BY <1>1, <2>2, BytePlaces
  <2> QED
    BY <1>1, <1>2, <2>1, <2>2, <2>3 DEF StreamInv, Front
<1>4. CASE HandlerStores \/ HandlerCompletes
  <2>1. /\ Ready /\ pkt' = [pkt EXCEPT ![pkt_i] = data] /\ pkt \in [0 .. 2 -> Bytes]
    BY <1>4 DEF HandlerStores, HandlerCompletes, MouseTypes
  <2>2. N >= D + 1 /\ (pkt_i > 0 => D >= 3 * pkt[0].n + pkt_i)
    BY <1>1, <2>1 DEF StreamInv
  <2>3. pkt'[0].n = IF pkt_i > 0 THEN pkt[0].n ELSE data.n
    BY <1>1, <2>1
  <2>4. Front = pkt'[0].n
    BY <2>1, <2>3 DEF Front
  <2>5. N >= 3 * pkt'[0].n + pkt_i + 1
    BY <1>1, <2>2, <2>3
  <2>6. CASE HandlerStores
    <3>1. pkt_i' = pkt_i + 1 /\ pkt_i < 2 /\ ~HandlerCompletes
      BY <1>1, <2>6 DEF HandlerStores, HandlerCompletes, Full, PacketSize
    <3>2. Front' = pkt'[0].n /\ pkt'[0].n \in Nat
      BY <1>1, <2>3, <3>1 DEF Front
    <3> QED
      BY <1>1, <1>2, <2>4, <2>5, <3>1, <3>2 DEF StreamInv
  <2>7. CASE HandlerCompletes
    <3>1. pkt_i = 2 /\ pkt_i' = 0
      BY <2>7, CompletesTypes
    <3>2. Front' = next.n /\ pkt'[0].n \in Nat
      BY <1>1, <1>2, <2>3, <3>1 DEF Front
    <3>3. next.n >= pkt'[0].n + 1
      <4>1. N >= 3 * pkt'[0].n + 3
        BY <2>5, <3>1, <3>2, <1>1
      <4> QED
        BY <1>1, <3>2, <4>1, BytePlaces
    <3> QED
      BY <1>1, <1>2, <2>4, <3>1, <3>2, <3>3 DEF StreamInv
  <2> QED
    BY <1>4, <2>6, <2>7
<1> QED
  BY <1>3, <1>4 DEF MouseInterrupt

LEMMA StreamStep ==
  ASSUME MouseTypes, StreamInv, Next \/ UNCHANGED vars, NoPolls
  PROVE  StreamInv' /\ Front' >= Front
<1>1. /\ data.n \in Nat /\ data.at \in 0 .. 2 /\ next.n \in Nat /\ next.at \in 0 .. 2
      /\ pkt[0].n \in Nat /\ pkt_i \in 0 .. 2 /\ pc \notin PollLabels
      /\ Front \in Int
  BY SMTT(30), AllNumbers DEF MouseTypes, Bytes, StreamInv, Numbers
<1>2. CASE MouseSends
  <2>1. UNCHANGED <<pkt_i, pkt, pc>> /\ ~Ready /\ Ready'
    BY <1>2 DEF MouseSends, drvVars, Ready
  <2>2. data'.n = next.n /\ data'.at = next.at
    BY <1>2 DEF MouseSends
  <2>3. 3 * next'.n + next'.at = 3 * next.n + next.at + 1
    BY <1>1, <1>2 DEF MouseSends, MouseTypes
  <2> QED
    BY <1>1, <2>1, <2>2, <2>3 DEF StreamInv, Front
<1>3. ASSUME UNCHANGED <<pkt_i, pkt, next, data, obf, aux>>, pc' \notin PollLabels
      PROVE  StreamInv' /\ Front' >= Front
  <2>1. Ready' = Ready
    BY <1>3 DEF Ready
  <2>2. Front' = Front
    BY <1>3, <2>1 DEF Front
  <2> QED
    BY <1>1, <1>3, <2>1, <2>2 DEF StreamInv
<1>4. CASE DrainReset
  <2>1. UNCHANGED <<pkt, next, data, obf, aux>> /\ pkt_i' = 0 /\ pc' = "user"
    BY <1>4 DEF DrainReset, Step, hwVars, mouseVars
  <2>2. Ready' = Ready
    BY <2>1 DEF Ready
  <2>3. pkt_i > 0 => /\ Ready => data.n >= pkt[0].n
                     /\ ~Ready => next.n >= pkt[0].n
    BY <1>1, BytePlaces DEF StreamInv
  <2>4. Front' >= Front
    BY <1>1, <2>1, <2>2, <2>3 DEF Front
  <2> QED
    BY <1>1, <2>1, <2>2, <2>4 DEF StreamInv, PollLabels, HandlerLabels
<1>5. CASE ReadPacket \/ AdvanceTail
  BY <1>3, <1>5 DEF ReadPacket, AdvanceTail, Return, Step, drvVars, hwVars, mouseVars,
                    PollLabels, HandlerLabels
<1>6. CASE Stands
  BY <1>1, <1>3, <1>6 DEF Stands, stream, PollLabels
<1>7. CASE Drops
  <2>1. UNCHANGED <<pkt_i, pkt, next, data>> /\ ~Ready' /\ pc' \notin PollLabels
    BY <1>1, <1>7 DEF Drops, stream
  <2>2. 3 * next.n + next.at >= 3 * data.n + data.at \/ ~Ready
    BY <1>1 DEF StreamInv
  <2>3. next.n >= data.n \/ ~Ready
    BY <1>1, <2>2, BytePlaces
  <2> QED
    BY <1>1, <2>1, <2>2, <2>3 DEF StreamInv, Front
<1>8. CASE ReadData \/ Polls
  BY <1>1, <1>8 DEF ReadData, Step, Polls, PollLabels
<1>9. CASE UNCHANGED vars
  BY <1>1, <1>3, <1>9 DEF vars, drvVars, hwVars, mouseVars
<1> QED
  BY <1>2, <1>4, <1>5, <1>6, <1>7, <1>8, <1>9, StreamInterrupt, StepKinds

-----------------------------------------------------------------------------
\* What filing a packet does to the window: the slot of head joins it, at the far end,
\* and pushes everything out of it when it had been the whole ring.
LEMMA WindowFiled ==
  ASSUME MouseTypes, head' = NextSlot(head), UNCHANGED <<tail, pc>>
  PROVE  /\ Dist' = Dist
         /\ \A s \in Window' : s # head => s \in Window /\ Dist[s] < Dist[head]
<1>1. Dist' = Dist
  BY DEF Dist
<1>2. MOUSE_BUF_SIZE \in Nat \ {0, 1} /\ head \in 0 .. MOUSE_BUF_SIZE - 1
      /\ tail \in 0 .. MOUSE_BUF_SIZE - 1
  BY Constant DEF MouseTypes, Slots
<1>3. head' = IF head = MOUSE_BUF_SIZE - 1 THEN 0 ELSE head + 1
  BY Slot DEF MouseTypes
<1>4. ASSUME NEW s \in Window', s # head
      PROVE  s \in Window /\ Dist[s] < Dist[head]
  <2>1. /\ s \in 0 .. MOUSE_BUF_SIZE - 1 /\ s \in Slots
        /\ head' # tail => Dist[s] < Dist[head']
    BY <1>1, <1>4 DEF Window, Slots
  <2>2. /\ Dist[s] = IF s >= tail THEN s - tail ELSE s - tail + MOUSE_BUF_SIZE
        /\ Dist[head] = IF head >= tail THEN head - tail ELSE head - tail + MOUSE_BUF_SIZE
        /\ Dist[head'] = IF head' >= tail THEN head' - tail
                                          ELSE head' - tail + MOUSE_BUF_SIZE
    BY <2>1, Slot DEF Dist, MouseTypes
  <2>3. Dist[s] < Dist[head] /\ head # tail
    BY <1>2, <1>3, <1>4, <2>1, <2>2
  <2> QED
    BY <2>1, <2>3 DEF Window
<1> QED
  BY <1>1, <1>4

\* What moving the tail does: the first slot leaves it.
LEMMA WindowRead ==
  ASSUME MouseTypes, tail' = NextSlot(tail), UNCHANGED head,
         pc \in Taking, pc' = "user"
  PROVE  /\ Window' \subseteq Window \ {tail}
         /\ \A s, t \in Window' : Dist'[s] < Dist'[t] => Dist[s] < Dist[t]
<1>1. MOUSE_BUF_SIZE \in Nat \ {0, 1} /\ head \in 0 .. MOUSE_BUF_SIZE - 1
      /\ tail \in 0 .. MOUSE_BUF_SIZE - 1
  BY Constant DEF MouseTypes, Slots
<1>2. tail' = IF tail = MOUSE_BUF_SIZE - 1 THEN 0 ELSE tail + 1
  BY Slot DEF MouseTypes
<1>3. \A s \in Slots :
        /\ s \in 0 .. MOUSE_BUF_SIZE - 1
        /\ Dist[s] = IF s >= tail THEN s - tail ELSE s - tail + MOUSE_BUF_SIZE
        /\ Dist'[s] = IF s >= tail' THEN s - tail' ELSE s - tail' + MOUSE_BUF_SIZE
  BY DEF Dist, Slots
<1>4. \A s \in Slots : Dist'[s] = IF s = tail THEN MOUSE_BUF_SIZE - 1 ELSE Dist[s] - 1
  BY <1>1, <1>2, <1>3
<1>5. ASSUME NEW s \in Window'
      PROVE  s \in Slots /\ s \in Window /\ s # tail
  <2>1. s \in Slots /\ head # tail' /\ Dist'[s] < Dist'[head]
    BY <1>5 DEF Window, Taking
  <2>2. head \in Slots /\ Dist[head] \in 0 .. MOUSE_BUF_SIZE - 1
        /\ Dist[s] \in 0 .. MOUSE_BUF_SIZE - 1
    BY <1>1, <1>3, <2>1 DEF MouseTypes
  <2>3. s # tail
    BY <1>1, <1>4, <2>1, <2>2
  <2>4. head = tail \/ Dist[s] < Dist[head]
    BY <1>1, <1>4, <2>1, <2>2, <2>3
  <2> QED
    BY <2>1, <2>3, <2>4 DEF Window
<1>6. \A s \in Slots : Dist[s] \in Int
  BY AllNumbers DEF Numbers
<1> QED
  BY <1>4, <1>5, <1>6

\* While a packet is read, the slot of tail is the first of the window.
LEMMA TailFirst ==
  ASSUME MouseTypes, pc \in Taking
  PROVE  tail \in Window /\ \A s \in Window : s # tail => Dist[tail] < Dist[s]
<1>1. MOUSE_BUF_SIZE \in Nat \ {0, 1} /\ head \in 0 .. MOUSE_BUF_SIZE - 1
      /\ tail \in 0 .. MOUSE_BUF_SIZE - 1 /\ head \in Slots /\ tail \in Slots
  BY Constant DEF MouseTypes, Slots
<1>2. \A s \in Slots : s \in 0 .. MOUSE_BUF_SIZE - 1
        /\ Dist[s] = IF s >= tail THEN s - tail ELSE s - tail + MOUSE_BUF_SIZE
  BY DEF Dist, Slots
<1>3. Dist[tail] = 0 /\ \A s \in Slots : s # tail => Dist[s] > 0
  BY <1>1, <1>2
<1> QED
  BY <1>1, <1>3 DEF Window

OrderInv == StreamInv /\ WindowInv /\ HandInv

\* Steps that file and report nothing.
LEMMA OrderKept ==
  ASSUME MouseTypes, OrderInv, MouseTypes', StreamInv', Front' >= Front,
         UNCHANGED <<ring, head, tail, reported>>,
         UNCHANGED <<pc, loaded>> \/ pc' \notin Taking \/ (pc' = "g_read" /\ head # tail)
  PROVE  OrderInv'
<1>1. Dist' = Dist
  BY DEF Dist
<1>2. Window' \subseteq Window
  BY <1>1 DEF Window
<1>3. Numbers /\ Numbers'
  <2>1. Numbers
    BY AllNumbers
  <2>2. Front' \in Int
    <3>1. (MouseTypes => Numbers)'
      BY AllNumbers, PTL
    <3> QED
      BY <3>1 DEF Numbers
  <2> QED
    BY <2>1, AllNumbers, PTL
<1>4. Front \in Int /\ Front' \in Int /\ Front' >= Front /\ Window \subseteq Slots
      /\ (\A s \in Slots : ring[s].n \in Int)
      /\ (\A i \in DOMAIN reported : reported[i] \in Int) /\ loaded \in Int
  BY <1>3 DEF Numbers
<1>5. WindowInv'
  <2>1. \A s \in Window' : ring'[s].n < Front'
    BY <1>2, <1>4 DEF OrderInv, WindowInv
  <2>2. \A s, t \in Window' : Dist'[s] < Dist'[t] => ring'[s].n < ring'[t].n
    BY <1>1, <1>2 DEF OrderInv, WindowInv
  <2>3. \A i \in DOMAIN reported' : reported'[i] < Front'
    BY <1>4 DEF OrderInv, WindowInv
  <2>4. \A i \in DOMAIN reported', s \in Window' : reported'[i] < ring'[s].n
    BY <1>2 DEF OrderInv, WindowInv
  <2>5. InOrder'
    BY DEF OrderInv, WindowInv, InOrder
  <2> QED
    BY <2>1, <2>2, <2>3, <2>4, <2>5 DEF WindowInv
<1>6. HandInv'
  <2>1. CASE pc' # "g_tail"
    BY <2>1 DEF HandInv
  <2>2. CASE pc' = "g_tail"
    <3>1. UNCHANGED <<pc, loaded>>
      BY <2>2 DEF Taking
    <3> QED
      BY <1>2, <1>4, <2>2, <3>1 DEF OrderInv, HandInv
  <2> QED
    BY <2>1, <2>2
<1> QED
  BY <1>5, <1>6 DEF OrderInv

LEMMA OrderFiled ==
  ASSUME MouseTypes, OrderInv, MouseTypes', MouseInterrupt, HandlerCompletes
  PROVE  OrderInv'
<1>1. StreamInv' /\ Front' > Front
  BY StreamInterrupt DEF OrderInv
<1>2. /\ pkt_i = 2 /\ pkt' = [pkt EXCEPT ![pkt_i] = data] /\ pkt' \in [0 .. 2 -> Bytes]
      /\ ring' = [ring EXCEPT ![head] = Filed(pkt')] /\ ring \in [Slots -> Packets]
      /\ head' = NextSlot(head) /\ UNCHANGED tail
  BY CompletesTypes DEF MouseTypes
<1>3. UNCHANGED <<pc, loaded, reported>>
  BY DEF MouseInterrupt, locals
<1>4. Filed(pkt').n = Front
  <2>1. pkt'[0].n = pkt[0].n
    BY <1>2
  <2>2. \A b \in [0 .. 2 -> Bytes] : Filed(b).n = b[0].n
    BY FiledTyped
  <2>3. Front = pkt[0].n
    BY <1>2 DEF Front
  <2> QED
    BY <1>2, <2>1, <2>2, <2>3
<1>5. /\ Dist' = Dist
      /\ \A s \in Window' : s # head => s \in Window /\ Dist[s] < Dist[head]
  BY <1>2, <1>3, WindowFiled
<1>6. Numbers /\ Numbers'
  BY AllNumbers, PTL
<1>7. Front \in Int /\ Front' \in Int /\ Window' \subseteq Slots /\ loaded \in Int
      /\ (\A s \in Slots : ring[s].n \in Int /\ Dist[s] \in Int)
      /\ (\A i \in DOMAIN reported : reported[i] \in Int) /\ head \in Slots
  BY <1>6 DEF Numbers
<1>8. \A s \in Slots : ring'[s].n = IF s = head THEN Front ELSE ring[s].n
  BY <1>2, <1>4
<1>9. WindowInv'
  <2>1. \A s \in Window' : ring'[s].n < Front'
    BY <1>1, <1>5, <1>7, <1>8 DEF OrderInv, WindowInv
  <2>2. ASSUME NEW s \in Window', NEW t \in Window', Dist'[s] < Dist'[t]
        PROVE  ring'[s].n < ring'[t].n
    <3>1. s # head
      <4>1. ASSUME s = head PROVE FALSE
        <5>1. t # head /\ Dist[t] < Dist[s] /\ Dist[s] < Dist[t]
          BY <1>5, <1>7, <2>2, <4>1
        <5> QED
          BY <1>7, <5>1
      <4> QED
        BY <4>1
    <3>2. s \in Window /\ ring'[s].n = ring[s].n
      BY <1>5, <1>7, <1>8, <3>1
    <3>3. CASE t = head
      BY <1>7, <1>8, <3>2, <3>3 DEF OrderInv, WindowInv
    <3>4. CASE t # head
      BY <1>5, <1>7, <1>8, <2>2, <3>2, <3>4 DEF OrderInv, WindowInv
    <3> QED
      BY <3>3, <3>4
  <2>3. \A i \in DOMAIN reported' : reported'[i] < Front'
    BY <1>1, <1>3, <1>7 DEF OrderInv, WindowInv
  <2>4. \A i \in DOMAIN reported', s \in Window' : reported'[i] < ring'[s].n
    BY <1>3, <1>5, <1>7, <1>8 DEF OrderInv, WindowInv
  <2>5. InOrder'
    BY <1>3 DEF OrderInv, WindowInv, InOrder
  <2> QED
    BY <2>1, <2>2, <2>3, <2>4, <2>5 DEF WindowInv
<1>10. HandInv'
  <2> SUFFICES ASSUME pc = "g_tail" PROVE HandInv'
    BY <1>3 DEF HandInv
  <2>1. /\ loaded < Front /\ \A i \in DOMAIN reported : reported[i] < loaded
        /\ \A s \in Window \ {tail} : loaded < ring[s].n
    BY DEF OrderInv, HandInv
  <2>2. \A s \in Window' \ {tail} : loaded < ring'[s].n
    BY <1>5, <1>7, <1>8, <2>1
  <2>3. loaded < Front'
    BY <1>1, <1>7, <2>1
  <2> QED
    BY <1>2, <1>3, <2>1, <2>2, <2>3 DEF HandInv
<1> QED
  BY <1>1, <1>9, <1>10 DEF OrderInv

LEMMA OrderLoaded ==
  ASSUME MouseTypes, OrderInv, StreamInv', Front' = Front, ReadPacket
  PROVE  OrderInv'
<1>1. /\ pc = "g_read" /\ pc' = "g_tail" /\ loaded' = ring[tail].n
      /\ UNCHANGED <<ring, head, tail, reported>>
  BY DEF ReadPacket, Step, OldestSlot, drvVars, histVars
<1>2. Dist' = Dist /\ Window' = Window
  BY <1>1 DEF Dist, Window, Taking
<1>3. tail \in Window /\ \A s \in Window : s # tail => Dist[tail] < Dist[s]
  BY <1>1, TailFirst DEF Taking
<1>4. WindowInv'
  BY <1>1, <1>2 DEF OrderInv, WindowInv, InOrder
<1>5. HandInv'
  BY <1>1, <1>2, <1>3 DEF OrderInv, WindowInv, HandInv
<1> QED
  BY <1>4, <1>5 DEF OrderInv

LEMMA OrderReported ==
  ASSUME MouseTypes, OrderInv, StreamInv', Front' = Front, AdvanceTail
  PROVE  OrderInv'
<1>1. /\ pc = "g_tail" /\ pc' = "user" /\ tail' = NextSlot(tail)
      /\ reported' = Append(reported, loaded) /\ UNCHANGED <<ring, head>>
  BY DEF AdvanceTail, Return, Step
<1>2. /\ Window' \subseteq Window \ {tail}
      /\ \A s, t \in Window' : Dist'[s] < Dist'[t] => Dist[s] < Dist[t]
  BY <1>1, WindowRead DEF Taking
<1>3. /\ loaded < Front /\ \A i \in DOMAIN reported : reported[i] < loaded
      /\ \A s \in Window \ {tail} : loaded < ring[s].n
  BY <1>1 DEF OrderInv, HandInv
<1>4. reported \in Seq(Int) /\ loaded \in Int
  BY DEF MouseTypes
<1>5. /\ DOMAIN reported' = 1 .. Len(reported) + 1 /\ Len(reported) \in Nat
      /\ DOMAIN reported = 1 .. Len(reported)
      /\ \A i \in 1 .. Len(reported) : reported'[i] = reported[i]
      /\ reported'[Len(reported) + 1] = loaded
  BY <1>1, <1>4
<1>6. \A i \in DOMAIN reported' : i \in DOMAIN reported \/ i = Len(reported) + 1
  BY <1>5
<1>7. WindowInv'
  <2>1. \A s \in Window' : ring'[s].n < Front'
    BY <1>1, <1>2 DEF OrderInv, WindowInv
  <2>2. \A s, t \in Window' : Dist'[s] < Dist'[t] => ring'[s].n < ring'[t].n
    BY <1>1, <1>2 DEF OrderInv, WindowInv
  <2>3. \A i \in DOMAIN reported' : reported'[i] < Front'
    BY <1>3, <1>5, <1>6 DEF OrderInv, WindowInv
  <2>4. \A i \in DOMAIN reported', s \in Window' : reported'[i] < ring'[s].n
    BY <1>1, <1>2, <1>3, <1>5, <1>6 DEF OrderInv, WindowInv
  <2>5. InOrder'
    <3> SUFFICES ASSUME NEW i \in DOMAIN reported', NEW j \in DOMAIN reported', i < j
                 PROVE  reported'[i] < reported'[j]
      BY DEF InOrder
    <3>1. i \in DOMAIN reported
      BY <1>5
    <3>2. CASE j \in DOMAIN reported
      BY <1>5, <3>1, <3>2 DEF OrderInv, WindowInv, InOrder
    <3>3. CASE j = Len(reported) + 1
      BY <1>3, <1>5, <3>1, <3>3
    <3> QED
      BY <1>6, <3>2, <3>3
  <2> QED
    BY <2>1, <2>2, <2>3, <2>4, <2>5 DEF WindowInv
<1>8. HandInv'
  BY <1>1 DEF HandInv
<1> QED
  BY <1>7, <1>8 DEF OrderInv

LEMMA StepOrder ==
  ASSUME MouseTypes, OrderInv, [Next]_vars, NoPolls
  PROVE  OrderInv'
<1>1. MouseTypes' /\ StreamInv' /\ Front' >= Front
  BY StepTypes, StreamStep DEF OrderInv
<1>2. ASSUME UNCHANGED <<ring, head, tail, reported>>,
             \/ UNCHANGED <<pc, loaded>> \/ pc' \notin Taking
             \/ pc' = "g_read" /\ head # tail
      PROVE  OrderInv'
  BY <1>1, <1>2, OrderKept
<1>3. CASE MouseSends
  BY <1>2, <1>3 DEF MouseSends, drvVars, locals, histVars
<1>4. CASE MouseInterrupt
  <2>1. CASE HandlerCompletes
    BY <1>1, <1>4, <2>1, OrderFiled
  <2>2. CASE HandlerIgnores \/ HandlerStores \/ HandlerOverruns
    BY <1>2, <1>4, <2>2 DEF MouseInterrupt, HandlerIgnores, HandlerStores,
                            HandlerOverruns, drvVars, locals
  <2> QED
    BY <1>4, <2>1, <2>2 DEF MouseInterrupt
<1>5. CASE ReadData \/ Polls
  BY <1>5 DEF ReadData, Step, Polls, PollLabels, OrderInv, StreamInv
<1>6. CASE DrainReset
  BY <1>2, <1>6 DEF DrainReset, Step, Taking
<1>7. CASE ReadPacket \/ AdvanceTail
  <2>1. Front' = Front
    BY <1>7 DEF ReadPacket, AdvanceTail, Front, Ready, drvVars, hwVars, mouseVars
  <2> QED
    BY <1>1, <1>7, <2>1, OrderLoaded, OrderReported
<1>8. CASE Stands
  BY <1>2, <1>8 DEF Stands, stream, Taking
<1>9. CASE Drops
  BY <1>2, <1>9 DEF Drops, stream
<1>10. CASE UNCHANGED vars
  BY <1>2, <1>10 DEF vars, drvVars, locals, histVars
<1> QED
  BY <1>3, <1>4, <1>5, <1>6, <1>7, <1>8, <1>9, <1>10, StepKinds

\* The machine stays the one it is.
LEMMA MachineKept == [Next]_vars => machine' = machine
<1> SUFFICES ASSUME [Next]_vars PROVE machine' = machine
  OBVIOUS
<1> USE DEF mouseVars
<1>1. CASE MouseSends \/ KeyPressed \/ MouseInterrupt \/ Abandon
  BY <1>1 DEF MouseSends, KeyPressed, MouseInterrupt, Abandon
<1>2. CASE MouseInit \/ Flush
  BY <1>2 DEF MouseInit, AwaitAck, ReadAck, Discard, Flush, FlushTest, FlushRead,
              DrainReset
<1>3. CASE PollStatus \/ GetButtons \/ Drain \/ Reader
  BY <1>3 DEF PollStatus, GetButtons, Drain, Reader, ReadPacket, AdvanceTail
<1>4. CASE Handler
  BY <1>4 DEF Handler, Status, ReadData, SyncTest, LoadIndex, StoreIndex, PutByte,
              FullTest, ResetIndex, TakePart, FilePacket, LoadHead, AdvanceHead,
              LoadPosition, Move, LimitLow, LimitTop, SetPosition
<1>5. CASE UNCHANGED vars
  BY <1>5 DEF vars
<1> QED
  BY <1>1, <1>2, <1>3, <1>4, <1>5 DEF Next

\* Where no program polls, mouse_read never returns a packet twice, nor an older one
\* after a newer one, for any size of the ring: not when push_packet has gone round it
\* and over the tail, and not when a tick abandons the read (mouse.c:140-156, 205-216).
THEOREM AlwaysReportedInOrder == Spec => []ReportedInOrder
<1> DEFINE Inv == MouseTypes /\ (NoPolls => OrderInv)
<1>1. Init => Inv
  <2> SUFFICES ASSUME Init PROVE OrderInv
    BY InitTypes
  <2>1. /\ pkt_i = 0 /\ head = tail /\ pc = "i_wait" /\ reported = <<>>
        /\ data = Ack /\ next.n = 1 /\ next.at = 0
    BY DEF Init
  <2>2. Window = {} /\ DOMAIN reported = {}
    BY <2>1 DEF Window, Taking
  <2>3. StreamInv
    BY <2>1, ByteTyped DEF StreamInv, PollLabels, HandlerLabels
  <2> QED
    BY <2>1, <2>2, <2>3 DEF OrderInv, WindowInv, HandInv, InOrder
<1>2. Inv /\ [Next]_vars => Inv'
  BY StepTypes, StepOrder, MachineKept DEF NoPolls
<1>3. Inv => ReportedInOrder
  BY DEF OrderInv, WindowInv, NoPolls, InOrder, ReportedInOrder
<1> QED
  BY <1>1, <1>2, <1>3, PTL DEF Spec
-----------------------------------------------------------------------------
\* Only the handler stores beyond pkt.
LEMMA OverrunKept ==
  ASSUME Next
  PROVE  overrun' = overrun \/ HandlerOverruns \/ PutByte
<1> USE DEF drvVars, histVars
<1>1. CASE MouseSends \/ KeyPressed \/ MouseInterrupt \/ Abandon
  BY <1>1 DEF MouseSends, KeyPressed, Abandon, MouseInterrupt, HandlerIgnores,
              HandlerStores, HandlerCompletes
<1>2. CASE MouseInit \/ Flush
  BY <1>2 DEF MouseInit, AwaitAck, ReadAck, Discard, Flush, FlushTest, FlushRead,
              DrainReset
<1>3. CASE PollStatus \/ GetButtons \/ Drain \/ Reader
  BY <1>3 DEF PollStatus, GetButtons, Drain, Reader, ReadPacket, AdvanceTail
<1>4. CASE Handler
  BY <1>4 DEF Handler, Status, ReadData, SyncTest, LoadIndex, StoreIndex, FullTest,
              ResetIndex, TakePart, FilePacket, LoadHead, AdvanceHead, LoadPosition,
              Move, LimitLow, LimitTop, SetPosition
<1> QED
  BY <1>1, <1>2, <1>3, <1>4 DEF Next

\* It is the polls, and they alone, that make the handler store beyond pkt: where none
\* is made, no byte is, whatever is drained and abandoned (mouse.c:184-194).
THEOREM StoredInBoundsWithoutPolls ==
  Spec => []("poll" \notin machine.calls => StoredInBounds)
<1> DEFINE Inv == MouseTypes /\ (NoPolls => StreamInv /\ ~overrun)
<1>1. Init => Inv
  BY InitTypes, ByteTyped DEF Init, StreamInv, PollLabels, HandlerLabels
<1>2. Inv /\ [Next]_vars => Inv'
  <2> SUFFICES ASSUME MouseTypes, StreamInv, ~overrun, [Next]_vars, NoPolls
               PROVE  MouseTypes' /\ StreamInv' /\ ~overrun'
    BY StepTypes, MachineKept DEF NoPolls
  <2>1. MouseTypes' /\ StreamInv'
    BY StepTypes, StreamStep
  <2>2. ~HandlerOverruns /\ ~PutByte
    BY DEF StreamInv, HandlerOverruns, PutByte, PacketSize, Step, PollLabels,
           HandlerLabels
  <2>3. ~overrun'
    BY <2>2, OverrunKept DEF vars, histVars
  <2> QED
    BY <2>1, <2>3
<1>3. Inv => ("poll" \notin machine.calls => StoredInBounds)
  BY DEF StoredInBounds, NoPolls
<1> QED
  BY <1>1, <1>2, <1>3, PTL DEF Spec
=============================================================================
