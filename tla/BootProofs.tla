------------------------------ MODULE BootProofs ------------------------------
(***************************************************************************)
(* The boot: the masks of the interrupt controllers, the order of          *)
(* kernel_main, and memory and paging, on every machine.                   *)
(*                                                                         *)
(* The masks, for every set of lines, every number of lost writes and      *)
(* calls abandoned anywhere: IrqManager's types, and MasksAsAsked, which   *)
(* is not inductive. IrqInv adds what a call under way relies on: that its *)
(* mask was read from the register it goes to and has not changed since    *)
(* but for its own bit, that the cascade is open before the line is tried, *)
(* and that a bit still set has cost a lost write for every time it was    *)
(* written. Then Boot: kernel_main and sysman take no other steps of the   *)
(* masks.                                                                  *)
(*                                                                         *)
(* The order of kernel_main: PlaceInv says what each of its steps finds    *)
(* done by the steps before it; HandlersReady follows, place by place.     *)
(*                                                                         *)
(* Memory and paging, from the bitmap to what kernel_main hands over to    *)
(* Memory: PagingInv says what is in memory at each step of the boot. The  *)
(* directory is on the first page behind the bitmap. Every table it points *)
(* to is a page of its own behind everything the boot has reserved, since  *)
(* the reservation comes before the first table is allocated. The words of *)
(* directory and tables map exactly the addresses mapped so far, each to   *)
(* itself. Where the boot is Sound, orbit's copy lies between the          *)
(* directory and the tables. MemoryPlaces ties the steps of Paging to the  *)
(* places of kernel_main in Boot.                                          *)
(***************************************************************************)
EXTENDS Boot, FiniteSetTheorems, TLAPS


LEMMA CallsAreTyped ==
  ASSUME IrqAssumption
  PROVE  /\ \A n \in Lines : PicOf(n) \in Pics /\ BitOf(n) \in Bits /\ (n < 8 => n \in Bits)
         /\ \A n \in Lines \cup {0}, p \in Pics, b \in Bits : Call(n, p, b) \in CallType
         /\ NoCall \in CallType
  BY DEF IrqAssumption, PicOf, BitOf, NoCall, Call, CallType, Pics, Bits

LEMMA RemapWordsTyped ==
  /\ Len(RemapWords) = 10
  /\ \A k \in 1 .. 10 : RemapWords[k].pic \in Pics /\ RemapWords[k].byte \in SUBSET Bits
  BY DEF RemapWords, Pics, Bits, CASCADE

LEMMA AcceptTyped ==
  ASSUME IrqTypeOK, NEW w, w.pic \in Pics, w.byte \in SUBSET Bits, Accept(w)
  PROVE  imr' \in [Pics -> SUBSET Bits] /\ icws' \in [Pics -> Seq(SUBSET Bits)]
<1> DEFINE p == w.pic
           b == w.byte
<1>1. /\ imr \in [Pics -> SUBSET Bits] /\ icws \in [Pics -> Seq(SUBSET Bits)]
      /\ p \in Pics /\ b \in SUBSET Bits
  BY DEF IrqTypeOK
<1>2. Append(icws[p], b) \in Seq(SUBSET Bits) /\ <<>> \in Seq(SUBSET Bits)
  BY <1>1
<1>3. /\ \/ icws' = [icws EXCEPT ![p] = <<>>]
         \/ icws' = [icws EXCEPT ![p] = Append(icws[p], b)]
         \/ icws' = icws
      /\ \/ imr' = [imr EXCEPT ![p] = {}]
         \/ imr' = [imr EXCEPT ![p] = b]
         \/ imr' = imr
  BY DEF Accept
<1> HIDE DEF p, b
<1> QED
  BY <1>1, <1>2, <1>3

LEMMA CallFields ==
  ASSUME NEW c \in CallType
  PROVE  /\ c.line \in Lines \cup {0} /\ c.pic \in Pics /\ c.bit \in Bits
         /\ c.mask \in SUBSET Bits /\ c.tries \in Nat
         /\ \A mask \in SUBSET Bits : [c EXCEPT !.mask = mask] \in CallType
         /\ \A tries \in Nat : [c EXCEPT !.tries = tries] \in CallType
  BY DEF CallType

LEMMA OutMaskTyped ==
  ASSUME IrqTypeOK, OutMask
  PROVE  imr' \in [Pics -> SUBSET Bits] /\ lost' \in Nat
<1>1. call.pic \in Pics /\ call.mask \in SUBSET Bits
  BY CallFields DEF IrqTypeOK
<1> QED
  BY <1>1 DEF IrqTypeOK, OutMask

LEMMA PassEndsTyped ==
  ASSUME IrqAssumption, IrqTypeOK, PassEnds, call.line \in Lines
  PROVE  call' \in CallType /\ ipc' \in IrqLabels /\ asked' \subseteq Lines
<1>1. call' \in CallType
  <2>1. /\ Call(call.line, PicOf(call.line), BitOf(call.line)) \in CallType
        /\ NoCall \in CallType
    BY CallsAreTyped
  <2> QED
    BY <2>1 DEF PassEnds
<1> QED
  BY <1>1 DEF IrqTypeOK, PassEnds, IrqLabels, EnableSteps

\* The line of a call under way is one of the lines.
LineOfCall == ipc \in EnableSteps => call.line \in Lines

\* Nothing but the type is needed for the type.
LEMMA TypeStep ==
  ASSUME IrqAssumption, IrqTypeOK, LineOfCall, [IrqNext]_irqVars
  PROVE  IrqTypeOK' /\ LineOfCall'
<1> USE CallsAreTyped DEF IrqTypeOK, LineOfCall
<1>1. CASE UNCHANGED irqVars
  BY <1>1 DEF irqVars
<1>2. CASE IrqManagerInit
  BY <1>2 DEF IrqManagerInit, IrqLabels, EnableSteps
<1>3. CASE Remap
  <2> DEFINE w == RemapWords[word]
  <2>2. Accept(w) /\ w.pic \in Pics /\ w.byte \in SUBSET Bits
    BY <1>3, RemapWordsTyped DEF Remap
  <2> HIDE DEF w
  <2>1. /\ imr' \in [Pics -> SUBSET Bits] /\ icws' \in [Pics -> Seq(SUBSET Bits)]
    BY <2>2, AcceptTyped
  <2>4. word' \in 1 .. 10
    <3>1. word \in 1 .. 10 /\ Len(RemapWords) = 10
      BY RemapWordsTyped
    <3> QED
      BY <1>3, <3>1 DEF Remap
  <2>3. ipc' \in {"remap", "idle"}
    BY <1>3 DEF Remap
  <2> QED
    BY <1>3, <2>1, <2>3, <2>4 DEF Remap, IrqLabels, EnableSteps
<1>4. CASE AbandonEnable
  BY <1>4 DEF AbandonEnable, IrqLabels, EnableSteps
<1>5. ASSUME NEW line \in Lines, IrqEnable(line)
      PROVE  IrqTypeOK' /\ LineOfCall'
  <2>1. /\ (IF line < 8 THEN line ELSE CASCADE) \in Bits
        /\ "master" \in Pics
    BY CallsAreTyped DEF CASCADE, Bits, Pics
  <2>2. call' \in CallType
    BY <1>5, <2>1, CallsAreTyped DEF IrqEnable
  <2>3. call'.line = line
    BY <1>5 DEF IrqEnable, Call
  <2> QED
    BY <1>5, <2>2, <2>3 DEF IrqEnable, IrqLabels, EnableSteps
<1>6. CASE ReadMask
  <2>1. Masked(imr[call.pic], call.bit) \in SUBSET Bits
    BY CallFields DEF Masked
  <2>2. call' \in CallType /\ call'.line = call.line
    BY <1>6, <2>1, CallFields DEF ReadMask, CallType
  <2> QED
    BY <1>6, <2>2 DEF ReadMask, IrqLabels, EnableSteps
<1>7. CASE WriteMask
  BY <1>7, OutMaskTyped DEF WriteMask, IrqLabels, EnableSteps
<1>8. ASSUME PassEnds, ipc \in EnableSteps
      PROVE  LineOfCall'
  BY <1>8 DEF PassEnds, Call, EnableSteps
<1>9. CASE CheckMask
  BY <1>8, <1>9, PassEndsTyped DEF CheckMask, IrqLabels, EnableSteps
<1>10. CASE RetryMask
  <2>1. CASE call.tries < Retries(call)
    <3>1. /\ call' = [call EXCEPT !.tries = @ + 1]
          /\ OutMask /\ UNCHANGED <<ipc, icws, word, begun, asked>>
      BY <1>10, <2>1, CallFields DEF RetryMask, Retries, IrqAssumption
    <3>2. call.tries + 1 \in Nat
      BY CallFields
    <3>3. call' \in CallType /\ call'.line = call.line
      BY <3>1, <3>2, CallFields DEF CallType
    <3> QED
      BY <1>10, <3>1, <3>3, OutMaskTyped DEF EnableSteps
  <2>2. CASE PassEnds /\ UNCHANGED <<imr, lost, icws, word, begun>>
    BY <1>8, <1>10, <2>2, PassEndsTyped DEF RetryMask, EnableSteps
  <2> QED
    BY <1>10, <2>1, <2>2 DEF RetryMask
<1> QED
  BY <1>1, <1>2, <1>3, <1>4, <1>5, <1>6, <1>7, <1>9, <1>10 DEF IrqNext, EnableNext

-----------------------------------------------------------------------------
(***************************************************************************)
(* What the masks are while a call is under way.                           *)
(***************************************************************************)
\* Before pic_remap's k-th word each controller has had so many words since its ICW1.
MasterHad(k) == IF k = 1 \/ k >= 8 THEN 3 ELSE (k - 2) \div 2
SlaveHad(k)  == IF k <= 2 \/ k >= 9 THEN 3 ELSE (k - 3) \div 2

Remapping ==
  ipc \in {"reset", "remap"} =>
    /\ begun = {} /\ asked = {}
    /\ ipc = "reset" => word = 1
    /\ Len(icws["master"]) = MasterHad(word) /\ Len(icws["slave"]) = SlaveHad(word)
    /\ word = 10 => imr["master"] = Bits

\* The bit that a call is clearing is one of the two its line needs; the mask it writes
\* is the controller's without that bit, and if the bit is still there after so many
\* writes, as many were lost; it comes to the line with the cascade open.
Call0 ==
  /\ call.line \in Lines /\ call.line \in begun
  /\ \/ call.pic = PicOf(call.line) /\ call.bit = BitOf(call.line)
     \/ call.pic = "master" /\ call.line >= 8 /\ call.bit = CASCADE
Cascaded == (call.pic = "slave" /\ lost <= CASCADE_RETRIES) => CASCADE \notin imr["master"]
Written  == /\ call.bit \notin call.mask
            /\ call.mask \subseteq imr[call.pic]
            /\ imr[call.pic] \subseteq call.mask \cup {call.bit}
Calling ==
  ipc \in EnableSteps =>
    /\ Call0 /\ Cascaded
    /\ ipc \in {"write", "check", "retry"} => Written
    /\ ipc \in {"read", "write", "check"} => call.tries = 0
    /\ (ipc = "check" /\ call.bit \in imr[call.pic]) => lost >= 1
    /\ ipc = "retry" => call.tries <= Retries(call)
    /\ (ipc = "retry" /\ call.bit \in imr[call.pic]) => lost >= 1 + call.tries

IrqInv == IrqTypeOK /\ Remapping /\ Calling /\ MasksAsAsked

LEMMA InvInit == IrqAssumption /\ IrqInit => IrqInv
<1> SUFFICES ASSUME IrqAssumption, IrqInit
             PROVE  IrqInv
  OBVIOUS
<1>1. imr \in [Pics -> SUBSET Bits]
  BY DEF IrqInit, IrqAssumption, Bits
<1>2. icws \in [Pics -> Seq(SUBSET Bits)] /\ Len(icws["master"]) = 3 /\ Len(icws["slave"]) = 3
  <2> DEFINE m == <<{3}, {CASCADE}, {0}>>
             s == <<{4, 5, 6}, {1}, {0}>>
  <2>1. m \in Seq(SUBSET Bits) /\ s \in Seq(SUBSET Bits) /\ Len(m) = 3 /\ Len(s) = 3
    BY DEF Bits, CASCADE
  <2>2. icws = [master |-> m, slave |-> s]
    BY DEF IrqInit
  <2> HIDE DEF m, s
  <2> QED
    BY <2>1, <2>2 DEF Pics
<1>3. NoCall \in CallType
  BY CallsAreTyped
<1>4. IrqTypeOK
  <2>1. /\ ipc \in IrqLabels /\ word \in 1 .. 10 /\ lost \in Nat
        /\ begun \subseteq Lines /\ asked \subseteq Lines /\ call = NoCall
    BY DEF IrqInit, IrqLabels
  <2> QED
    BY <1>1, <1>2, <1>3, <2>1 DEF IrqTypeOK
<1>5. Remapping
  BY <1>2 DEF IrqInit, Remapping, MasterHad, SlaveHad
<1>6. Calling /\ MasksAsAsked
  BY DEF IrqInit, Calling, MasksAsAsked, EnableSteps
<1> QED
  BY <1>4, <1>5, <1>6 DEF IrqInv

\* The words of pic_remap: the controllers in turn, commands first, masks of ones last.
LEMMA RemapScript ==
  /\ \A k \in 1 .. 10 : RemapWords[k].pic = IF k \in {1, 3, 5, 7, 9} THEN "master" ELSE "slave"
  /\ \A k \in 1 .. 10 : RemapWords[k].port = IF k \in {1, 2} THEN "command" ELSE "data"
  /\ RemapWords[9].byte = Bits /\ RemapWords[10].byte = Bits
  BY DEF RemapWords

LEMMA RemapStep ==
  ASSUME IrqAssumption, IrqInv, Remap, IrqTypeOK'
  PROVE  Remapping' /\ Calling' /\ MasksAsAsked'
<1>1. /\ word \in 1 .. 10 /\ icws \in [Pics -> Seq(SUBSET Bits)] /\ imr \in [Pics -> SUBSET Bits]
      /\ ipc = "remap" /\ begun = {} /\ asked = {} /\ begun' = {} /\ asked' = {}
      /\ Len(icws["master"]) = MasterHad(word) /\ Len(icws["slave"]) = SlaveHad(word)
      /\ word = 10 => imr["master"] = Bits
  BY DEF IrqInv, IrqTypeOK, Remapping, Remap
<1>2. ASSUME NEW p \in Pics, RemapWords[word].pic = p
      PROVE  /\ \A q \in Pics \ {p} : icws'[q] = icws[q] /\ imr'[q] = imr[q]
             /\ RemapWords[word].port = "command" => Len(icws'[p]) = 0
             /\ (RemapWords[word].port = "data" /\ Len(icws[p]) < 3)
                  => Len(icws'[p]) = Len(icws[p]) + 1
             /\ (RemapWords[word].port = "data" /\ Len(icws[p]) = 3)
                  => icws' = icws /\ imr'[p] = RemapWords[word].byte
  <2> DEFINE w == RemapWords[word]
  <2>1. Accept(w) /\ w.pic = p
    BY <1>2 DEF Remap
  <2> HIDE DEF w
  <2>2. Len(<<>>) = 0 /\ Len(Append(icws[p], w.byte)) = Len(icws[p]) + 1
    BY <1>1
  <2>3. w.port = "command" \/ w.port # "command"
    OBVIOUS
  <2>4. \A q \in Pics \ {p} : icws'[q] = icws[q] /\ imr'[q] = imr[q]
    BY <1>1, <2>1 DEF Accept
  <2>5. w.port = "command" => icws'[p] = <<>>
    BY <1>1, <2>1 DEF Accept
  <2>6. (w.port = "data" /\ Len(icws[p]) < 3) => icws'[p] = Append(icws[p], w.byte)
    <3>1. ASSUME w.port = "data", Len(icws[p]) < 3
          PROVE  icws' = [icws EXCEPT ![p] = Append(icws[p], w.byte)]
      <4>0. Len(icws[p]) \in Nat
        BY <1>1
      <4>1. Len(icws[p]) # 3
        BY SMTT(30), <3>1, <4>0
      <4> QED
        BY <2>1, <3>1, <4>1 DEF Accept
    <3> QED
      BY <1>1, <3>1
  <2>7. (w.port = "data" /\ Len(icws[p]) = 3) => icws' = icws /\ imr'[p] = w.byte
    BY <1>1, <2>1 DEF Accept
  <2> QED
    BY <2>2, <2>4, <2>5, <2>6, <2>7 DEF w
<1>3. "master" \in Pics /\ "slave" \in Pics /\ \A p \in Pics : p \in {"master", "slave"}
  BY DEF Pics
<1>4. CASE word = 10
  <2>1. ipc' = "idle"
    BY <1>4, RemapWordsTyped DEF Remap
  <2>2. imr'["master"] = Bits /\ imr'["slave"] = Bits
    BY <1>1, <1>2, <1>3, <1>4, RemapScript DEF SlaveHad
  <2> QED
    BY <1>1, <1>3, <2>1, <2>2 DEF Remapping, Calling, MasksAsAsked, EnableSteps
<1>5. CASE word # 10
  <2>1. ipc' = "remap" /\ word' = word + 1
    BY <1>1, <1>5, RemapWordsTyped DEF Remap
  <2>5. Len(icws["master"]) \in Nat /\ Len(icws["slave"]) \in Nat
    BY <1>1, <1>3
  <2>6. ASSUME word \in {1, 3, 5, 7, 9}
        PROVE  Len(icws'["master"]) = MasterHad(word + 1) /\ Len(icws'["slave"]) = SlaveHad(word + 1)
    <3>1. RemapWords[word].pic = "master" /\ icws'["slave"] = icws["slave"]
      BY <1>1, <1>2, <1>3, <2>6, RemapScript
    <3>2. Len(icws'["slave"]) = SlaveHad(word + 1)
      BY <1>1, <1>5, <2>6, <3>1 DEF SlaveHad
    <3>3. CASE word = 1
      BY <1>2, <1>3, <3>1, <3>2, <3>3, RemapScript DEF MasterHad
    <3>4. CASE word = 9
      BY <1>1, <1>2, <1>3, <3>1, <3>2, <3>4, RemapScript DEF MasterHad
    <3>5. CASE word \in {3, 5, 7}
      <4>1. /\ RemapWords[word].port = "data"
            /\ Len(icws["master"]) < 3 /\ Len(icws["master"]) + 1 = MasterHad(word + 1)
        BY <1>1, <3>5, RemapScript DEF MasterHad
      <4> QED
        BY <1>2, <1>3, <3>1, <3>2, <4>1
    <3> QED
      BY <2>6, <3>3, <3>4, <3>5
  <2>7. ASSUME word \in {2, 4, 6, 8}
        PROVE  Len(icws'["master"]) = MasterHad(word + 1) /\ Len(icws'["slave"]) = SlaveHad(word + 1)
    <3>1. RemapWords[word].pic = "slave" /\ icws'["master"] = icws["master"]
      BY <1>1, <1>2, <1>3, <2>7, RemapScript
    <3>2. Len(icws'["master"]) = MasterHad(word + 1)
      BY <1>1, <1>5, <2>7, <3>1 DEF MasterHad
    <3>3. CASE word = 2
      BY <1>2, <1>3, <3>1, <3>2, <3>3, RemapScript DEF SlaveHad
    <3>5. CASE word \in {4, 6, 8}
      <4>1. /\ RemapWords[word].port = "data"
            /\ Len(icws["slave"]) < 3 /\ Len(icws["slave"]) + 1 = SlaveHad(word + 1)
        BY <1>1, <3>5, RemapScript DEF SlaveHad
      <4> QED
        BY <1>2, <1>3, <3>1, <3>2, <4>1
    <3> QED
      BY <2>7, <3>3, <3>5
  <2>2. Len(icws'["master"]) = MasterHad(word + 1) /\ Len(icws'["slave"]) = SlaveHad(word + 1)
    BY <1>1, <1>5, <2>6, <2>7
  <2>4. word + 1 = 10 => imr'["master"] = Bits
    BY <1>1, <1>2, <1>3, RemapScript DEF MasterHad
  <2> QED
    BY <1>1, <2>1, <2>2, <2>4 DEF Remapping, Calling, MasksAsAsked, EnableSteps
<1> QED
  BY <1>4, <1>5

-----------------------------------------------------------------------------
\* What may be open grows with the lines, and a call's own bit is part of it.
LEMMA MayBeOpenGrows ==
  ASSUME NEW A, NEW B, A \subseteq B, NEW p \in Pics
  PROVE  MayBeOpen(A)[p] \subseteq MayBeOpen(B)[p]
  BY DEF MayBeOpen

LEMMA CallMayOpen ==
  ASSUME IrqAssumption, IrqTypeOK, Call0
  PROVE  call.bit \in MayBeOpen(begun)[call.pic]
<1>1. call.pic \in Pics
  BY CallFields DEF IrqTypeOK
<1>2. CASE call.pic = PicOf(call.line) /\ call.bit = BitOf(call.line)
  BY <1>1, <1>2 DEF MayBeOpen, Call0
<1>3. CASE call.pic = "master" /\ call.line >= 8 /\ call.bit = CASCADE
  BY <1>1, <1>3 DEF MayBeOpen, Call0
<1> QED
  BY <1>2, <1>3 DEF Call0

\* A step that only clears bits which may be open keeps MasksAsAsked.
LEMMA ClearingKeeps ==
  ASSUME IrqAssumption, IrqInv, IrqTypeOK', ipc \notin {"reset", "remap"},
         \A p \in Pics : imr'[p] \subseteq imr[p],
         \A p \in Pics : imr[p] \ imr'[p] \subseteq MayBeOpen(begun)[p],
         begun \subseteq begun', asked' = asked, lost <= lost'
  PROVE  MasksAsAsked'
<1>1. \A p \in Pics : Bits \ imr'[p] \subseteq MayBeOpen(begun')[p]
  <2>1. \A p \in Pics : Bits \ imr[p] \subseteq MayBeOpen(begun)[p]
    BY DEF IrqInv, MasksAsAsked
  <2>2. \A p \in Pics : MayBeOpen(begun)[p] \subseteq MayBeOpen(begun')[p]
    BY MayBeOpenGrows
  <2> QED
    BY <2>1, <2>2
<1>2. ASSUME lost' <= CASCADE_RETRIES, NEW line \in asked'
      PROVE  Heard(line)'
  <2>1. lost <= CASCADE_RETRIES
    BY <1>2 DEF IrqInv, IrqTypeOK, IrqAssumption
  <2>2. Heard(line) /\ line \in Lines
    BY <1>2, <2>1 DEF IrqInv, IrqTypeOK, MasksAsAsked
  <2>3. PicOf(line) \in Pics /\ "master" \in Pics
    BY <2>2, CallsAreTyped DEF Pics
  <2> QED
    BY <2>2, <2>3 DEF Heard
<1> QED
  BY <1>1, <1>2 DEF MasksAsAsked

\* An outb to the data port clears at most the call's bit; if it leaves it, one more
\* write is lost.
LEMMA OutMaskClears ==
  ASSUME IrqAssumption, IrqTypeOK, Call0, Written, OutMask
  PROVE  /\ \A p \in Pics : imr'[p] \subseteq imr[p]
         /\ \A p \in Pics : imr[p] \ imr'[p] \subseteq MayBeOpen(begun)[p]
         /\ \A p \in Pics \ {call.pic} : imr'[p] = imr[p]
         /\ call.mask \subseteq imr'[call.pic]
         /\ imr'[call.pic] \subseteq call.mask \cup {call.bit}
         /\ lost' \in Nat /\ lost <= lost'
         /\ call.bit \in imr'[call.pic] => lost' = lost + 1 /\ imr' = imr
<1>1. call.pic \in Pics /\ imr \in [Pics -> SUBSET Bits] /\ lost \in Nat
  BY CallFields DEF IrqTypeOK
<1>2. CASE imr' = [imr EXCEPT ![call.pic] = call.mask] /\ lost' = lost
  <2>1. imr'[call.pic] = call.mask /\ \A p \in Pics \ {call.pic} : imr'[p] = imr[p]
    BY <1>1, <1>2
  <2> QED
    BY <1>1, <1>2, <2>1, CallMayOpen DEF Written
<1>3. CASE imr' = imr /\ lost' = lost + 1
  BY <1>1, <1>3 DEF Written
<1> QED
  BY <1>2, <1>3 DEF OutMask

\* At the end of a pass its bit is clear, unless as many writes were lost as it makes.
LEMMA PassEndsKeeps ==
  ASSUME IrqAssumption, IrqInv, IrqTypeOK', ipc \in EnableSteps, PassEnds,
         lost <= CASCADE_RETRIES => call.bit \notin imr[call.pic],
         UNCHANGED <<imr, lost, begun>>
  PROVE  Remapping' /\ Calling' /\ MasksAsAsked'
<1>1. Call0 /\ Cascaded /\ call.line \in Lines
  BY DEF IrqInv, Calling, Call0
<1>2. CASE PicOf(call.line) # call.pic
  <2>1. /\ call' = Call(call.line, PicOf(call.line), BitOf(call.line))
        /\ ipc' = "read" /\ asked' = asked
    BY <1>2 DEF PassEnds
  <2>2. /\ call'.line = call.line /\ call'.pic = PicOf(call.line)
        /\ call'.bit = BitOf(call.line) /\ call'.tries = 0
    BY <2>1 DEF Call
  <2>3. call.pic = "master" /\ call.bit = CASCADE
    BY <1>1, <1>2 DEF Call0
  <2>4. Call0' /\ Cascaded'
    BY <1>1, <2>2, <2>3 DEF Call0, Cascaded
  <2>5. MasksAsAsked'
    BY <2>1, ClearingKeeps DEF EnableSteps, IrqInv, IrqTypeOK
  <2> QED
    BY <2>1, <2>2, <2>4, <2>5 DEF Remapping, Calling, EnableSteps
<1>3. CASE PicOf(call.line) = call.pic
  <2>1. ipc' = "idle" /\ asked' = asked \cup {call.line}
    BY <1>3 DEF PassEnds
  <2>2. lost <= CASCADE_RETRIES => Heard(call.line)
    <3> SUFFICES ASSUME lost <= CASCADE_RETRIES
                 PROVE  Heard(call.line)
      OBVIOUS
    <3>1. call.line < 8 => call.pic = "master"
      BY <1>3 DEF PicOf
    <3>2. call.line >= 8 => call.pic = "slave"
      <4>1. call.line \in 0 .. 15
        BY <1>1 DEF IrqAssumption
      <4> QED
        BY <1>3, <4>1 DEF PicOf
    <3>3. call.bit = BitOf(call.line)
      BY <1>1, <1>3, <3>1, <3>2 DEF Call0
    <3> QED
      BY <1>1, <1>3, <3>2, <3>3 DEF Heard, Cascaded
  <2>3. \A p \in Pics : Bits \ imr[p] \subseteq MayBeOpen(begun)[p]
    BY DEF IrqInv, MasksAsAsked, EnableSteps
  <2>4. lost <= CASCADE_RETRIES => \A line \in asked : Heard(line)
    BY DEF IrqInv, MasksAsAsked, EnableSteps
  <2>5. MasksAsAsked'
    BY <2>1, <2>2, <2>3, <2>4 DEF MasksAsAsked, Heard, MayBeOpen
  <2> QED
    BY <2>1, <2>5 DEF Remapping, Calling, EnableSteps
<1> QED
  BY <1>2, <1>3

-----------------------------------------------------------------------------
LEMMA InvStep ==
  ASSUME IrqAssumption, IrqInv, [IrqNext]_irqVars
  PROVE  IrqInv'
<1>0. IrqTypeOK /\ Remapping /\ Calling /\ MasksAsAsked
  BY DEF IrqInv
<1>1. IrqTypeOK'
  <2>1. LineOfCall
    BY <1>0 DEF LineOfCall, Calling, Call0
  <2> QED
    BY <1>0, <2>1, TypeStep
<1> SUFFICES Remapping' /\ Calling' /\ MasksAsAsked'
  BY <1>1 DEF IrqInv
<1>2. CASE UNCHANGED irqVars
  BY <1>0, <1>2 DEF irqVars, Remapping, Calling, MasksAsAsked, Call0, Cascaded, Written, Heard,
       MayBeOpen, Retries
<1>3. CASE IrqManagerInit
  BY <1>0, <1>3 DEF IrqManagerInit, Remapping, Calling, MasksAsAsked, EnableSteps
<1>4. CASE Remap
  BY <1>1, <1>4, RemapStep
<1>5. CASE AbandonEnable
  <2>1. MasksAsAsked'
    BY <1>1, <1>5, ClearingKeeps DEF AbandonEnable, EnableSteps, IrqInv, IrqTypeOK
  <2> QED
    BY <1>5, <2>1 DEF AbandonEnable, Remapping, Calling, EnableSteps
<1>6. ASSUME NEW line \in Lines, IrqEnable(line)
      PROVE  Remapping' /\ Calling' /\ MasksAsAsked'
  <2>1. MasksAsAsked'
    BY <1>1, <1>6, ClearingKeeps DEF IrqEnable, IrqInv, IrqTypeOK
  <2>2. line \in 0 .. 15
    BY DEF IrqAssumption
  <2>3. /\ call'.line = line /\ call'.pic = "master" /\ call'.tries = 0
        /\ call'.bit = IF line < 8 THEN line ELSE CASCADE
        /\ line \in begun'
    BY <1>6 DEF IrqEnable, Call
  <2>4. Call0' /\ Cascaded'
    <3>1. /\ line < 8 => PicOf(line) = "master" /\ BitOf(line) = line
          /\ ~(line < 8) => line >= 8 /\ PicOf(line) = "slave"
      BY <2>2 DEF PicOf, BitOf
    <3>2. Call0'
      <4>1. CASE line < 8
        <5>1. call'.bit = line
          BY <2>3, <4>1
        <5>2. PicOf(call'.line) = call'.pic /\ BitOf(call'.line) = call'.bit
          BY <2>3, <3>1, <4>1, <5>1
        <5> QED
          BY <2>3, <5>2 DEF Call0
      <4>2. CASE ~(line < 8)
        <5>1. call'.bit = CASCADE
          BY <2>3, <4>2
        <5> QED
          BY <2>3, <3>1, <4>2, <5>1 DEF Call0
      <4> QED
        BY <4>1, <4>2
    <3> QED
      BY <2>3, <3>2 DEF Cascaded
  <2> QED
    BY <1>6, <2>1, <2>3, <2>4 DEF IrqEnable, Remapping, Calling, EnableSteps
<1>7. ASSUME ipc \in EnableSteps
      PROVE  Call0 /\ Cascaded /\ call.pic \in Pics /\ ipc \notin {"reset", "remap"}
  BY <1>0, <1>7, CallFields DEF Calling, IrqTypeOK, EnableSteps
<1>8. CASE ReadMask
  <2>1. /\ call'.line = call.line /\ call'.pic = call.pic /\ call'.bit = call.bit
        /\ call'.tries = call.tries /\ call'.mask = imr[call.pic] \ {call.bit}
        /\ ipc = "read" /\ ipc' = "write"
        /\ UNCHANGED <<imr, lost, begun, asked>>
    BY <1>0, <1>8 DEF ReadMask, IrqTypeOK, CallType, Masked
  <2>2. Call0' /\ Cascaded' /\ Written'
    BY <1>7, <2>1 DEF Call0, Cascaded, Written, EnableSteps
  <2>3. MasksAsAsked'
    BY <1>1, <1>7, <2>1, ClearingKeeps DEF EnableSteps, IrqInv, IrqTypeOK
  <2> QED
    BY <1>0, <2>1, <2>2, <2>3 DEF Remapping, Calling, EnableSteps
<1>9. ASSUME OutMask, Written, ipc \in EnableSteps,
             UNCHANGED <<begun, asked>>, call'.line = call.line, call'.pic = call.pic,
             call'.bit = call.bit, call'.mask = call.mask
      PROVE  Call0' /\ Cascaded' /\ Written' /\ MasksAsAsked'
  <2>1. Call0'
    BY <1>7, <1>9 DEF Call0
  <2>2. Written'
    BY <1>0, <1>7, <1>9, OutMaskClears DEF Written
  <2>3. Cascaded'
    <3>1. lost' <= CASCADE_RETRIES => lost <= CASCADE_RETRIES
      BY <1>0, <1>7, <1>9, OutMaskClears DEF IrqTypeOK, IrqAssumption
    <3>2. call.pic = "slave" => imr'["master"] = imr["master"]
      BY <1>0, <1>7, <1>9, OutMaskClears DEF Pics
    <3> QED
      BY <1>7, <1>9, <3>1, <3>2 DEF Cascaded
  <2>4. MasksAsAsked'
    BY <1>0, <1>1, <1>7, <1>9, OutMaskClears, ClearingKeeps
  <2> QED
    BY <2>1, <2>2, <2>3, <2>4
<1>10. CASE WriteMask
  <2>1. /\ ipc = "write" /\ ipc' = "check" /\ OutMask /\ call' = call
        /\ UNCHANGED <<begun, asked>> /\ Written /\ call.tries = 0
    BY <1>0, <1>10 DEF WriteMask, Calling, EnableSteps
  <2>2. Call0' /\ Cascaded' /\ Written' /\ MasksAsAsked'
    BY <1>9, <2>1 DEF EnableSteps
  <2>3. call.bit \in imr'[call.pic] => lost' >= 1
    BY <1>0, <1>7, <2>1, OutMaskClears DEF EnableSteps, IrqTypeOK
  <2> QED
    BY <1>0, <2>1, <2>2, <2>3 DEF Remapping, Calling, EnableSteps
<1>11. CASE CheckMask
  <2>1. /\ ipc = "check" /\ Written /\ call.tries = 0
        /\ call.bit \in imr[call.pic] => lost >= 1
        /\ UNCHANGED <<imr, lost, begun>>
    BY <1>0, <1>11 DEF CheckMask, Calling, EnableSteps
  <2>2. CASE imr[call.pic] = call.mask /\ PassEnds
    BY <1>1, <2>1, <2>2, PassEndsKeeps DEF Written, EnableSteps
  <2>3. CASE imr[call.pic] # call.mask /\ ipc' = "retry" /\ UNCHANGED <<call, asked>>
    <3>1. call.bit \in imr[call.pic]
      BY <2>1, <2>3 DEF Written
    <3>2. MasksAsAsked'
      BY <1>1, <1>7, <2>1, <2>3, ClearingKeeps DEF EnableSteps, IrqInv, IrqTypeOK
    <3>3. Call0' /\ Cascaded' /\ Written'
      BY <1>7, <2>1, <2>3 DEF Call0, Cascaded, Written, EnableSteps
    <3>4. 0 <= Retries(call)
      BY DEF Retries, IrqAssumption
    <3> QED
      BY <2>1, <2>3, <3>1, <3>2, <3>3, <3>4 DEF Remapping, Calling, EnableSteps, Retries
  <2> QED
    BY <1>11, <2>2, <2>3 DEF CheckMask
<1>12. CASE RetryMask
  <2>1. /\ ipc = "retry" /\ Written /\ call.tries <= Retries(call) /\ call.tries \in Nat
        /\ call.bit \in imr[call.pic] => lost >= 1 + call.tries
        /\ lost \in Nat /\ Retries(call) \in Nat /\ Retries(call) >= CASCADE_RETRIES
    BY <1>0, <1>12, CallFields DEF RetryMask, Calling, EnableSteps, IrqTypeOK, Retries, IrqAssumption
  <2>2. CASE /\ call.tries < Retries(call) /\ OutMask /\ call' = [call EXCEPT !.tries = @ + 1]
             /\ UNCHANGED <<ipc, begun, asked>>
    <3>1. /\ call'.line = call.line /\ call'.pic = call.pic /\ call'.bit = call.bit
          /\ call'.mask = call.mask /\ call'.tries = call.tries + 1
      BY <1>0, <2>2 DEF IrqTypeOK, CallType
    <3>2. Call0' /\ Cascaded' /\ Written' /\ MasksAsAsked'
      BY <1>9, <2>1, <2>2, <3>1 DEF EnableSteps
    <3>3. Retries(call') = Retries(call)
      BY <3>1 DEF Retries
    <3>4. call.bit \in imr'[call.pic] => lost' >= 1 + call'.tries
      BY <1>0, <1>7, <2>1, <2>2, <3>1, OutMaskClears DEF EnableSteps
    <3>5. call'.tries <= Retries(call')
      BY <2>1, <2>2, <3>1, <3>3
    <3> QED
      BY <2>1, <2>2, <3>1, <3>2, <3>3, <3>4, <3>5 DEF Remapping, Calling, EnableSteps, Retries
  <2>3. CASE call.tries = Retries(call) /\ PassEnds /\ UNCHANGED <<imr, lost, begun>>
    <3>1. lost <= CASCADE_RETRIES => call.bit \notin imr[call.pic]
      BY <2>1, <2>3 DEF IrqAssumption
    <3> QED
      BY <1>1, <2>1, <2>3, <3>1, PassEndsKeeps DEF EnableSteps
  <2> QED
    BY <1>12, <2>2, <2>3 DEF RetryMask
<1> QED
  BY <1>2, <1>3, <1>4, <1>5, <1>6, <1>8, <1>10, <1>11, <1>12 DEF IrqNext, EnableNext

LEMMA Invariance == IrqSpec => []IrqInv
<1>1. IrqInit => IrqInv
  BY InvInit, IrqAssumption
<1>2. IrqInv /\ [IrqNext]_irqVars => IrqInv'
  BY InvStep, IrqAssumption
<1> QED
  BY <1>1, <1>2, PTL DEF IrqSpec

\* The types of irq_manager.c's state are kept, whatever is lost or abandoned.
THEOREM IrqTypeCorrect == IrqSpec => []IrqTypeOK
<1>1. IrqInv => IrqTypeOK
  BY DEF IrqInv
<1> QED
  BY <1>1, Invariance, PTL

\* No line is open that nobody enabled, and a line that was enabled can be heard unless
\* more writes were lost than the retries make up for.
THEOREM MasksAlwaysAsAsked == IrqSpec => []MasksAsAsked
<1>1. IrqInv => MasksAsAsked
  BY DEF IrqInv
<1> QED
  BY <1>1, Invariance, PTL
-----------------------------------------------------------------------------
\* Whatever else kernel_main and sysman do, they touch the masks by a step of
\* irq_manager.c or not at all.
LEMMA BootStepsMasks ==
  ASSUME BootAssumption, [BootNext]_bootVars
  PROVE  [IrqNext]_irqVars
<1>1. TIMER \in Lines /\ MOUSE \in Lines
  BY DEF BootAssumption
<1>2. CASE UNCHANGED bootVars
  BY <1>2 DEF bootVars
<1>3. CASE CallIrq
  BY <1>1, <1>3 DEF CallIrq, IrqNext
<1>4. CASE StepIrq
  BY <1>4 DEF StepIrq, IrqNext
<1>5. CASE ReEnableMouse
  BY <1>1, <1>5 DEF ReEnableMouse, IrqNext
<1>6. CASE CheckBga \/ InitMemory \/ LoadGdt \/ InitHeap \/ InitManagers
  BY <1>6 DEF CheckBga, InitMemory, LoadGdt, InitHeap, InitManagers
<1>7. CASE LoadIdt \/ SetExceptions \/ SetMouseGate
  BY <1>7 DEF LoadIdt, SetExceptions, SetMouseGate, SetGates
<1>8. CASE SetIf \/ InitBga \/ Draw \/ LoadModules
  BY <1>8 DEF SetIf, InitBga, Draw, LoadModules
<1>9. CASE EnableScheduler \/ CreateSysman \/ EnterRing3
  BY <1>9 DEF EnableScheduler, CreateSysman, EnterRing3
<1> QED
  BY <1>2, <1>3, <1>4, <1>5, <1>6, <1>7, <1>8, <1>9 DEF BootNext, Kernel

\* So the boot, and every enabling of the mouse by sysman afterwards, is a behaviour of
\* irq_manager.c alone, ...
THEOREM BootImplementsIrqManager == BootSpec => IrqSpec
<1>1. BootInit => IrqInit
  BY DEF BootInit
<1>2. [BootNext]_bootVars => [IrqNext]_irqVars
  BY BootStepsMasks, BootAssumption
<1> QED
  BY <1>1, <1>2, PTL DEF BootSpec, IrqSpec

\* ... and from its remapping of the controllers on keeps the masks as asked for.
THEOREM BootKeepsMasks == BootSpec => []MasksAsAsked
  BY BootImplementsIrqManager, MasksAlwaysAsAsked, PTL

-----------------------------------------------------------------------------
(***************************************************************************)
(* The order of kernel_main, for every machine, every pattern of lost mask *)
(* writes and every moment an interrupt may come: HandlersReady.  The      *)
(* invariant says, for each place in kernel_main, what is done by then:    *)
(* how far the controllers are programmed, whether interrupts are on,      *)
(* which gates are set, and that the line of the timer is not touched      *)
(* before the scheduler is on.  What the kernel has left behind is also    *)
(* there when it has stopped, with interrupts on or off.                   *)
(***************************************************************************)
\* The initialisation words, as far as pic_remap has sent them.
Programmed ==
  /\ ipc = "reset" => word = 1
  /\ ipc # "reset" =>
       /\ (ipc # "remap" \/ word > 3) => icws["master"][1] = {5}
       /\ (ipc # "remap" \/ word > 4) => icws["slave"][1] = {3, 5}
       /\ (ipc # "remap" \/ word > 5) => icws["master"][2] = {CASCADE}
       /\ (ipc # "remap" \/ word > 6) => icws["slave"][2] = {1}

\* Where kernel_main is, and how far the controllers are.
RemapInOrder ==
  /\ at \in 1 .. 5 => ipc = "reset"
  /\ at \in 6 .. 21 => ipc # "reset"
  /\ at \in 7 .. 21 => ipc \notin {"reset", "remap"}
  /\ if_flag => ipc \notin {"reset", "remap"}

\* Interrupts are on between the first sti and cli, and from the second sti on.
FlagInOrder == at # 22 => (if_flag <=> at \in 11 .. 15 \cup 20 .. 21)

GatesInOrder ==
  /\ gates \in [Vectors -> {"none", "exception_stub", "syscall_int", "irq0_stub", "irq12_stub"}]
  /\ (at \in 7 .. 21 \/ if_flag) =>
        /\ gates[32] = "irq0_stub"
        /\ \A vector \in Vectors :
             ExceptionGate(vector) # "none" => gates[vector] = ExceptionGate(vector)
  /\ (at \in 8 .. 21 \/ if_flag) => gates[44] = "irq12_stub"

\* The scheduler and sysman, against the line of the timer.
TimerInOrder ==
  /\ at \in 17 .. 21 => scheduling_enabled
  /\ at \in 19 .. 21 => sysman /\ esp0 = KERNEL_INT_STACK_BASE
  /\ TIMER \in begun => /\ at \in 18 .. 22 /\ scheduling_enabled
                        /\ (at = 22 => ~if_flag)

PlaceInv == /\ at \in 1 .. 22 /\ begun \subseteq Lines
            /\ RemapInOrder /\ FlagInOrder /\ GatesInOrder /\ TimerInOrder

-----------------------------------------------------------------------------
\* The words of pic_remap reach the controllers in the order of RemapWords.
LEMMA WordsSent ==
  /\ RemapWords[3].byte = {5} /\ RemapWords[4].byte = {3, 5}
  /\ RemapWords[5].byte = {CASCADE} /\ RemapWords[6].byte = {1}
  BY DEF RemapWords

LEMMA AcceptWord ==
  ASSUME IrqTypeOK, NEW w, w.pic \in Pics, w.byte \in SUBSET Bits, Accept(w)
  PROVE  /\ \A q \in Pics \ {w.pic} : icws'[q] = icws[q]
         /\ w.port = "data" =>
              /\ \A k \in 1 .. Len(icws[w.pic]) : icws'[w.pic][k] = icws[w.pic][k]
              /\ Len(icws[w.pic]) < 3 => icws'[w.pic][Len(icws[w.pic]) + 1] = w.byte
<1> DEFINE p == w.pic
           b == w.byte
<1>1. /\ icws \in [Pics -> Seq(SUBSET Bits)] /\ p \in Pics /\ b \in SUBSET Bits
      /\ icws[p] \in Seq(SUBSET Bits) /\ Len(icws[p]) \in Nat
  BY DEF IrqTypeOK
<1>2. /\ \/ w.port = "command" /\ icws' = [icws EXCEPT ![p] = <<>>]
         \/ /\ w.port = "data" /\ Len(icws[p]) < 3
            /\ icws' = [icws EXCEPT ![p] = Append(icws[p], b)]
         \/ w.port = "data" /\ Len(icws[p]) = 3 /\ icws' = icws
  BY DEF Accept
<1>3. /\ \A k \in 1 .. Len(icws[p]) : Append(icws[p], b)[k] = icws[p][k]
      /\ Append(icws[p], b)[Len(icws[p]) + 1] = b
  BY <1>1
<1> HIDE DEF p, b
<1>4. \A q \in Pics \ {p} : icws'[q] = icws[q]
  BY <1>1, <1>2
<1>5. ASSUME w.port = "data"
      PROVE  /\ \A k \in 1 .. Len(icws[p]) : icws'[p][k] = icws[p][k]
             /\ Len(icws[p]) < 3 => icws'[p][Len(icws[p]) + 1] = b
  <2>1. CASE Len(icws[p]) < 3
    <3>0. Len(icws[p]) # 3
      <4>1. \A n \in Nat : n < 3 => n # 3
        OBVIOUS
      <4> QED
        BY <1>1, <2>1, <4>1, Zenon
    <3>1. icws' = [icws EXCEPT ![p] = Append(icws[p], b)]
      BY <1>2, <1>5, <3>0
    <3>2. icws'[p] = Append(icws[p], b)
      BY <1>1, <3>1
    <3> QED
      BY <1>3, <3>2
  <2>2. CASE ~(Len(icws[p]) < 3)
    BY <1>1, <1>2, <1>5, <2>2
  <2> QED
    BY <2>1, <2>2
<1> QED
  BY <1>4, <1>5 DEF p, b

LEMMA ProgrammedStep ==
  ASSUME IrqInv, Programmed, [IrqNext]_irqVars
  PROVE  Programmed'
<1>1. IrqTypeOK /\ Remapping
  BY DEF IrqInv
<1>2. CASE UNCHANGED <<icws, ipc, word>>
  BY <1>2 DEF Programmed
<1>3. CASE IrqManagerInit
  BY <1>3 DEF IrqManagerInit, Programmed
<1>4. CASE /\ ipc \notin {"reset", "remap"} /\ ipc' \notin {"reset", "remap"}
           /\ icws' = icws
  BY <1>4 DEF Programmed
<1>5. CASE Remap
  <2>1. /\ ipc = "remap" /\ ipc' \in {"remap", "idle"} /\ word \in 1 .. 10
        /\ ipc' = "idle" => word = 10
        /\ ipc' = "remap" => word' = word + 1
        /\ Accept(RemapWords[word])
        /\ Len(icws["master"]) = MasterHad(word) /\ Len(icws["slave"]) = SlaveHad(word)
    BY <1>1, <1>5, RemapWordsTyped DEF Remap, IrqTypeOK, Remapping
  <2>2. "master" \in Pics /\ "slave" \in Pics
    BY DEF Pics
  <2> DEFINE w == RemapWords[word]
  <2>3. /\ w.pic \in Pics /\ w.byte \in SUBSET Bits
        /\ w.pic = IF word \in {1, 3, 5, 7, 9} THEN "master" ELSE "slave"
        /\ w.port = IF word \in {1, 2} THEN "command" ELSE "data"
    BY <2>1, RemapWordsTyped, RemapScript
  <2>4. /\ \A q \in Pics \ {w.pic} : icws'[q] = icws[q]
        /\ w.port = "data" =>
              /\ \A k \in 1 .. Len(icws[w.pic]) : icws'[w.pic][k] = icws[w.pic][k]
              /\ Len(icws[w.pic]) < 3 => icws'[w.pic][Len(icws[w.pic]) + 1] = w.byte
    BY <1>1, <2>1, <2>3, AcceptWord
  <2> HIDE DEF w
  <2>5. word > 3 => icws'["master"][1] = icws["master"][1]
    BY <2>1, <2>2, <2>3, <2>4 DEF MasterHad
  <2>6. word > 5 => icws'["master"][2] = icws["master"][2]
    BY <2>1, <2>2, <2>3, <2>4 DEF MasterHad
  <2>7. word > 4 => icws'["slave"][1] = icws["slave"][1]
    BY <2>1, <2>2, <2>3, <2>4 DEF SlaveHad
  <2>8. word > 6 => icws'["slave"][2] = icws["slave"][2]
    BY <2>1, <2>2, <2>3, <2>4 DEF SlaveHad
  <2>9. /\ word = 3 => icws'["master"][1] = {5}
        /\ word = 5 => icws'["master"][2] = {CASCADE}
    BY <2>1, <2>3, <2>4, WordsSent DEF w, MasterHad
  <2>10. /\ word = 4 => icws'["slave"][1] = {3, 5}
         /\ word = 6 => icws'["slave"][2] = {1}
    BY <2>1, <2>3, <2>4, WordsSent DEF w, SlaveHad
  <2> QED
    BY <2>1, <2>5, <2>6, <2>7, <2>8, <2>9, <2>10 DEF Programmed
<1>6. CASE EnableNext \/ AbandonEnable \/ \E line \in Lines : IrqEnable(line)
  <2>1. /\ ipc \notin {"reset", "remap"} /\ ipc' \notin {"reset", "remap"}
        /\ icws' = icws
    BY <1>6 DEF EnableNext, AbandonEnable, IrqEnable, ReadMask, WriteMask, CheckMask,
      RetryMask, PassEnds, EnableSteps
  <2> QED
    BY <1>4, <2>1
<1> QED
  BY <1>2, <1>3, <1>5, <1>6 DEF IrqNext, irqVars

LEMMA ProgrammedAlways == IrqSpec => [](IrqInv /\ Programmed)
<1>1. IrqInit => IrqInv /\ Programmed
  BY InvInit, IrqAssumption DEF IrqInit, Programmed
<1>2. IrqInv /\ Programmed /\ [IrqNext]_irqVars => (IrqInv /\ Programmed)'
  BY InvStep, ProgrammedStep, IrqAssumption
<1> QED
  BY <1>1, <1>2, PTL DEF IrqSpec

-----------------------------------------------------------------------------
\* The places of kernel_main.
LEMMA Places ==
  /\ STOPPED = 22
  /\ \A k \in 1 .. 21 :
       /\ KernelMain[k] = "bga_check" <=> k = 1
       /\ KernelMain[k] = "memory" <=> k = 2
       /\ KernelMain[k] = "gdt" <=> k = 3
       /\ KernelMain[k] = "idt" <=> k = 4
       /\ KernelMain[k] = "remap" <=> k = 5
       /\ KernelMain[k] = "exceptions" <=> k = 6
       /\ KernelMain[k] = "mouse_gate" <=> k = 7
       /\ KernelMain[k] = "kheap" <=> k = 8
       /\ KernelMain[k] = "managers" <=> k = 9
       /\ KernelMain[k] = "sti" <=> k \in {10, 19}
       /\ KernelMain[k] = "bga_init" <=> k = 11
       /\ KernelMain[k] = "draw" <=> k = 12
       /\ KernelMain[k] = "enable_mouse" <=> k = 13
       /\ KernelMain[k] = "modules" <=> k = 14
       /\ KernelMain[k] = "cli" <=> k = 15
       /\ KernelMain[k] = "enable_scheduler" <=> k = 16
       /\ KernelMain[k] = "enable_timer" <=> k = 17
       /\ KernelMain[k] = "create_sysman" <=> k = 18
       /\ KernelMain[k] = "ring3" <=> k = 20
       /\ KernelMain[k] = "sysman" <=> k = 21
  BY DEF STOPPED, KernelMain

LEMMA PlaceInit == BootInit => PlaceInv
<1> SUFFICES ASSUME BootInit PROVE PlaceInv
  OBVIOUS
<1>1. /\ at = 1 /\ if_flag = FALSE /\ gates = NoGates /\ ipc = "reset" /\ begun = {}
  BY DEF BootInit, IrqInit
<1>2. GatesInOrder
  BY <1>1 DEF GatesInOrder, NoGates
<1> QED
  BY <1>1, <1>2 DEF PlaceInv, RemapInOrder, FlagInOrder, TimerInOrder

\* The steps that touch neither gates, flag nor controllers.
QuietVars == <<if_flag, gates, ipc, begun>>

LEMMA GatesKept ==
  ASSUME GatesInOrder, UNCHANGED <<gates, if_flag>>, at # 22 => at' \in {at, at + 1, 22},
         at \in 1 .. 22, at = 22 => at' = 22, at' = at + 1 => at \notin {6, 7}
  PROVE  GatesInOrder'
  BY DEF GatesInOrder

LEMMA PlaceStep ==
  ASSUME BootAssumption, PlaceInv, [BootNext]_bootVars
  PROVE  PlaceInv'
<1>a. /\ at \in 1 .. 22 /\ begun \subseteq Lines
      /\ RemapInOrder /\ FlagInOrder /\ GatesInOrder /\ TimerInOrder
  BY DEF PlaceInv
<1>b. TIMER \in Lines /\ MOUSE \in Lines /\ TIMER # MOUSE
  BY DEF BootAssumption, TIMER, MOUSE
<1> USE Places
<1>1. CASE UNCHANGED bootVars
  BY <1>1, <1>a DEF bootVars, irqVars, cpuVars, ownVars, PlaceInv, RemapInOrder,
    FlagInOrder, GatesInOrder, TimerInOrder
\* A step that changes only where kernel_main is.
<1>2. ASSUME NEW k \in {1, 2, 3, 11, 12, 14, 20}, at = k, at' \in {k, k + 1, 22},
             at' = 22 => k \notin {3, 11, 20},
             UNCHANGED <<irqVars, if_flag, gates, scheduling_enabled, sysman>>,
             k # 3 => esp0' = esp0
      PROVE  PlaceInv'
  <2>1. ipc' = ipc /\ begun' = begun
    BY <1>2 DEF irqVars
  <2>2. RemapInOrder' /\ FlagInOrder'
    BY <1>2, <1>a, <2>1 DEF RemapInOrder, FlagInOrder
  <2>3. GatesInOrder'
    BY <1>2, <1>a, GatesKept
  <2>4. TimerInOrder'
    BY <1>2, <1>a, <2>1 DEF TimerInOrder
  <2> QED
    BY <1>2, <1>a, <2>1, <2>2, <2>3, <2>4 DEF PlaceInv
<1>3. CASE CheckBga
  <2>1. at = 1 /\ at' \in {2, 22} /\ UNCHANGED <<irqVars, cpuVars, ownVars>>
    BY <1>3, <1>a DEF CheckBga, At, Stop
  <2> QED
    BY <1>2, <2>1 DEF cpuVars, ownVars
<1>4. CASE InitMemory
  <2>1. at = 2 /\ at' \in {2, 3, 22} /\ UNCHANGED <<irqVars, cpuVars, ownVars>>
    BY <1>4, <1>a DEF InitMemory, At
  <2> QED
    BY <1>2, <2>1 DEF cpuVars, ownVars
<1>5. CASE LoadGdt
  <2>1. at = 3 /\ at' = 4 /\ UNCHANGED <<irqVars, if_flag, gates, ownVars>>
    BY <1>5, <1>a DEF LoadGdt, Do, At
  <2> QED
    BY <1>2, <2>1 DEF ownVars
<1>6. CASE InitBga
  <2>1. /\ at = 11 /\ at' = 12
        /\ UNCHANGED <<irqVars, cpuVars, scheduling_enabled, sysman>>
    <3>1. Do("bga_init") /\ UNCHANGED <<irqVars, cpuVars, scheduling_enabled, sysman>>
      BY <1>6, ZenonT(30) DEF InitBga
    <3> QED
      BY <1>a, <3>1 DEF Do, At
  <2> QED
    BY <1>2, <2>1 DEF cpuVars
<1>7. CASE Draw
  <2>1. at = 12 /\ at' \in {13, 22} /\ UNCHANGED <<irqVars, cpuVars, ownVars>>
    BY <1>7, <1>a DEF Draw, At, Stop
  <2> QED
    BY <1>2, <2>1 DEF cpuVars, ownVars
<1>8. CASE LoadModules
  <2>1. at = 14 /\ at' \in {15, 22} /\ UNCHANGED <<irqVars, cpuVars, ownVars>>
    BY <1>8, <1>a DEF LoadModules, At, Stop
  <2> QED
    BY <1>2, <2>1 DEF cpuVars, ownVars
<1>9. CASE EnterRing3
  <2>1. at = 20 /\ at' = 21 /\ UNCHANGED <<irqVars, cpuVars, ownVars>>
    BY <1>9, <1>a DEF EnterRing3, Do, At
  <2> QED
    BY <1>2, <2>1 DEF cpuVars, ownVars
\* The gates.
<1>10. CASE LoadIdt
  <2>1. /\ at = 4 /\ at' = 5 /\ gates' = NoGates
        /\ UNCHANGED <<irqVars, if_flag, esp0, ownVars>>
    BY <1>10, <1>a DEF LoadIdt, Do, At
  <2>2. ipc' = ipc /\ begun' = begun
    BY <2>1 DEF irqVars
  <2>3. RemapInOrder' /\ FlagInOrder' /\ TimerInOrder'
    BY <1>a, <2>1, <2>2 DEF RemapInOrder, FlagInOrder, TimerInOrder, ownVars
  <2>4. GatesInOrder'
    BY <1>a, <2>1 DEF GatesInOrder, NoGates, FlagInOrder
  <2> QED
    BY <1>a, <2>1, <2>2, <2>3, <2>4 DEF PlaceInv
<1>11. CASE SetExceptions
  <2>1. /\ at = 6 /\ at' = 7 /\ ipc \in {"reset", "idle"}
        /\ gates' = [vector \in Vectors |->
                       IF TimerGate(vector) # "none" THEN TimerGate(vector) ELSE gates[vector]]
        /\ UNCHANGED <<irqVars, if_flag, esp0, ownVars>>
    BY <1>11, <1>a DEF SetExceptions, SetGates, Do, At
  <2>2. ipc' = ipc /\ begun' = begun
    BY <2>1 DEF irqVars
  <2>3. ~if_flag
    BY <1>a, <2>1 DEF FlagInOrder
  <2>4. FlagInOrder' /\ TimerInOrder'
    BY <1>a, <2>1, <2>2 DEF FlagInOrder, TimerInOrder, ownVars
  <2>5. GatesInOrder'
    <3>1. 32 \in Vectors
      BY DEF Vectors
    <3>2. \A vector \in Vectors :
            TimerGate(vector) \in {"none", "exception_stub", "syscall_int", "irq0_stub"}
      BY DEF TimerGate, ExceptionGate
    <3>3. gates' \in [Vectors -> {"none", "exception_stub", "syscall_int", "irq0_stub",
                                  "irq12_stub"}]
      BY <1>a, <2>1, <3>2 DEF GatesInOrder
    <3>4. gates'[32] = "irq0_stub"
      BY <2>1, <3>1 DEF TimerGate
    <3>5. \A vector \in Vectors :
            ExceptionGate(vector) # "none" => gates'[vector] = ExceptionGate(vector)
      BY <2>1 DEF TimerGate, ExceptionGate
    <3> QED
      BY <2>1, <2>3, <3>3, <3>4, <3>5 DEF GatesInOrder
  <2>6. RemapInOrder'
    BY <2>1, <2>2, <2>3, <1>a DEF RemapInOrder
  <2> QED
    BY <1>a, <2>1, <2>2, <2>4, <2>5, <2>6 DEF PlaceInv
<1>12. CASE SetMouseGate
  <2>1. /\ at = 7 /\ at' = 8
        /\ gates' = [vector \in Vectors |->
                       IF MouseGate(vector) # "none" THEN MouseGate(vector) ELSE gates[vector]]
        /\ UNCHANGED <<irqVars, if_flag, esp0, ownVars>>
    BY <1>12, <1>a DEF SetMouseGate, SetGates, Do, At
  <2>2. ipc' = ipc /\ begun' = begun
    BY <2>1 DEF irqVars
  <2>3. ~if_flag
    BY <1>a, <2>1 DEF FlagInOrder
  <2>4. FlagInOrder' /\ TimerInOrder' /\ RemapInOrder'
    BY <1>a, <2>1, <2>2 DEF FlagInOrder, TimerInOrder, RemapInOrder, ownVars
  <2>5. GatesInOrder'
    <3>1. 32 \in Vectors /\ 44 \in Vectors
      BY DEF Vectors
    <3>2. \A vector \in Vectors : MouseGate(vector) \in {"none", "irq12_stub"}
      BY DEF MouseGate
    <3>3. gates' \in [Vectors -> {"none", "exception_stub", "syscall_int", "irq0_stub",
                                  "irq12_stub"}]
      BY <1>a, <2>1, <3>2 DEF GatesInOrder
    <3>4. gates'[32] = "irq0_stub" /\ gates'[44] = "irq12_stub"
      BY <1>a, <2>1, <3>1 DEF MouseGate, GatesInOrder
    <3>5. \A vector \in Vectors :
            ExceptionGate(vector) # "none" => gates'[vector] = ExceptionGate(vector)
      <4> SUFFICES ASSUME NEW vector \in Vectors, ExceptionGate(vector) # "none"
                   PROVE  gates'[vector] = ExceptionGate(vector)
        OBVIOUS
      <4>1. vector # 44
        BY DEF ExceptionGate
      <4>2. gates[vector] = ExceptionGate(vector)
        BY <1>a, <2>1 DEF GatesInOrder
      <4> QED
        BY <2>1, <4>1, <4>2 DEF MouseGate
    <3> QED
      BY <2>1, <2>3, <3>3, <3>4, <3>5 DEF GatesInOrder
  <2> QED
    BY <1>a, <2>1, <2>2, <2>4, <2>5 DEF PlaceInv
\* The controllers.
<1>13. CASE CallIrq
  <2>1. UNCHANGED <<if_flag, gates, esp0, scheduling_enabled, sysman>>
    BY <1>13 DEF CallIrq, cpuVars, ownVars
  <2>2. CASE Do("remap") /\ IrqManagerInit
    <3>1. at = 5 /\ at' = 6 /\ ipc' = "remap" /\ begun' = begun
      BY <1>a, <2>2 DEF Do, At, IrqManagerInit
    <3>2. GatesInOrder'
      BY <1>a, <2>1, <3>1, GatesKept
    <3> QED
      BY <1>a, <2>1, <3>1, <3>2
      DEF PlaceInv, RemapInOrder, FlagInOrder, TimerInOrder
  <2>3. CASE Do("enable_mouse") /\ IrqEnable(MOUSE)
    <3>1. /\ at = 13 /\ at' = 14 /\ ipc' = "read" /\ begun' = begun \cup {MOUSE}
      BY <1>a, <2>3 DEF Do, At, IrqEnable
    <3>2. GatesInOrder'
      BY <1>a, <2>1, <3>1, GatesKept
    <3> QED
      BY <1>a, <1>b, <2>1, <3>1, <3>2
      DEF PlaceInv, RemapInOrder, FlagInOrder, TimerInOrder
  <2>4. CASE Do("enable_timer") /\ IrqEnable(TIMER)
    <3>1. /\ at = 17 /\ at' = 18 /\ ipc' = "read" /\ begun' = begun \cup {TIMER}
      BY <1>a, <2>4 DEF Do, At, IrqEnable
    <3>2. GatesInOrder'
      BY <1>a, <2>1, <3>1, GatesKept
    <3> QED
      BY <1>a, <1>b, <2>1, <3>1, <3>2
      DEF PlaceInv, RemapInOrder, FlagInOrder, TimerInOrder
  <2> QED
    BY <1>13, <2>2, <2>3, <2>4 DEF CallIrq
<1>14. ASSUME at' = at, UNCHANGED <<if_flag, gates, esp0, scheduling_enabled, sysman>>,
              ipc \notin {"reset", "remap"} => ipc' \notin {"reset", "remap"},
              ipc # "reset", ipc' # "reset",
              begun' \subseteq Lines, TIMER \in begun' => TIMER \in begun
       PROVE  PlaceInv'
  <2>1. GatesInOrder'
    BY <1>14, <1>a, GatesKept
  <2>2. RemapInOrder'
    BY <1>14, <1>a DEF RemapInOrder
  <2>3. FlagInOrder' /\ TimerInOrder'
    BY <1>14, <1>a DEF FlagInOrder, TimerInOrder
  <2> QED
    BY <1>14, <1>a, <2>1, <2>2, <2>3 DEF PlaceInv
<1>15. CASE StepIrq
  <2>1. /\ at' = at /\ UNCHANGED <<if_flag, gates, esp0, scheduling_enabled, sysman>>
    BY <1>15 DEF StepIrq, cpuVars, ownVars
  <2>2. /\ ipc \notin {"reset", "remap"} => ipc' \notin {"reset", "remap"}
        /\ ipc # "reset" /\ ipc' # "reset" /\ begun' = begun
    BY <1>15 DEF StepIrq, Remap, EnableNext, ReadMask, WriteMask, CheckMask, RetryMask,
      PassEnds
  <2> QED
    BY <1>14, <1>a, <2>1, <2>2
<1>16. CASE ReEnableMouse
  <2>1. /\ at' = at /\ UNCHANGED <<if_flag, gates, esp0, scheduling_enabled, sysman>>
    BY <1>16 DEF ReEnableMouse, cpuVars, ownVars
  <2>2. /\ ipc \notin {"reset", "remap"} /\ ipc' \notin {"reset", "remap"}
        /\ begun' = begun \/ begun' = begun \cup {MOUSE}
    BY <1>16 DEF ReEnableMouse, IrqEnable, AbandonEnable, EnableSteps
  <2> QED
    BY <1>14, <1>a, <1>b, <2>1, <2>2
\* The rest.
<1>17. CASE InitHeap
  <2>1. /\ at = 8 /\ at' = 9
        /\ UNCHANGED <<irqVars, cpuVars, scheduling_enabled, sysman>>
    <3>1. Do("kheap") /\ UNCHANGED <<irqVars, cpuVars, scheduling_enabled, sysman>>
      BY <1>17, ZenonT(30) DEF InitHeap
    <3> QED
      BY <1>a, <3>1 DEF Do, At
  <2>2. ipc' = ipc /\ begun' = begun
    BY <2>1 DEF irqVars
  <2>3. GatesInOrder'
    BY <1>a, <2>1, GatesKept DEF cpuVars
  <2> QED
    BY <1>a, <2>1, <2>2, <2>3
    DEF PlaceInv, RemapInOrder, FlagInOrder, TimerInOrder, cpuVars
<1>18. CASE InitManagers
  <2>1. /\ at = 9 /\ at' = 10 /\ UNCHANGED <<irqVars, cpuVars>>
    BY <1>18, <1>a DEF InitManagers, Do, At
  <2>2. ipc' = ipc /\ begun' = begun
    BY <2>1 DEF irqVars
  <2>3. GatesInOrder'
    BY <1>a, <2>1, GatesKept DEF cpuVars
  <2> QED
    BY <1>a, <2>1, <2>2, <2>3
    DEF PlaceInv, RemapInOrder, FlagInOrder, TimerInOrder, cpuVars
<1>19. CASE SetIf
  <2>1. /\ \/ at \in {10, 19} /\ if_flag' = TRUE
           \/ at = 15 /\ if_flag' = FALSE
        /\ at' = at + 1 /\ UNCHANGED <<irqVars, gates, esp0, ownVars>>
    BY <1>19, <1>a DEF SetIf, Do, At
  <2>2. ipc' = ipc /\ begun' = begun
    BY <2>1 DEF irqVars
  <2>3. GatesInOrder'
    BY <1>a, <2>1 DEF GatesInOrder
  <2> QED
    BY <1>a, <2>1, <2>2, <2>3
    DEF PlaceInv, RemapInOrder, FlagInOrder, TimerInOrder, ownVars
<1>20. CASE EnableScheduler
  <2>1. /\ at = 16 /\ at' = 17 /\ scheduling_enabled' = TRUE
        /\ UNCHANGED <<irqVars, cpuVars, sysman>>
    BY <1>20, <1>a DEF EnableScheduler, Do, At
  <2>2. ipc' = ipc /\ begun' = begun
    BY <2>1 DEF irqVars
  <2>3. GatesInOrder'
    BY <1>a, <2>1, GatesKept DEF cpuVars
  <2> QED
    BY <1>a, <2>1, <2>2, <2>3
    DEF PlaceInv, RemapInOrder, FlagInOrder, TimerInOrder, cpuVars
<1>21. CASE CreateSysman
  <2>1. /\ at = 18 /\ UNCHANGED <<irqVars, if_flag, gates, scheduling_enabled>>
        /\ \/ at' = 22
           \/ at' = 19 /\ sysman' = TRUE /\ esp0' = KERNEL_INT_STACK_BASE
    <3>1. /\ At("create_sysman") /\ UNCHANGED <<irqVars, if_flag, gates, scheduling_enabled>>
          /\ \/ Stop
             \/ at' = at + 1 /\ sysman' = TRUE /\ esp0' = KERNEL_INT_STACK_BASE
      BY <1>21, ZenonT(30) DEF CreateSysman
    <3> QED
      BY <1>a, <3>1 DEF Stop, At
  <2>2. ipc' = ipc /\ begun' = begun
    BY <2>1 DEF irqVars
  <2>3. GatesInOrder'
    BY <1>a, <2>1, GatesKept
  <2> QED
    BY <1>a, <2>1, <2>2, <2>3 DEF PlaceInv, RemapInOrder, FlagInOrder, TimerInOrder
<1> QED
  BY <1>1, <1>3, <1>4, <1>5, <1>6, <1>7, <1>8, <1>9, <1>10, <1>11, <1>12, <1>13, <1>15,
    <1>16, <1>17, <1>18, <1>19, <1>20, <1>21 DEF BootNext, Kernel

-----------------------------------------------------------------------------
LEMMA VectorOf ==
  ASSUME IrqInv, Programmed, ipc \notin {"reset", "remap"}
  PROVE  Vector(TIMER) = 32 /\ Vector(MOUSE) = 44 /\ Connected
<1>1. /\ icws["master"][1] = {5} /\ icws["slave"][1] = {3, 5}
      /\ icws["master"][2] = {CASCADE} /\ icws["slave"][2] = {1}
  BY DEF Programmed
<1>2. 2 ^ 5 = 32 /\ 2 ^ 3 = 8 /\ 2 ^ 1 = 2
  OBVIOUS
<1>3. Number({5}) = 32 /\ Number({3, 5}) = 40 /\ Number({1}) = 2
  BY <1>2 DEF Number
<1>4. /\ PicOf(TIMER) = "master" /\ BitOf(TIMER) = 0
      /\ PicOf(MOUSE) = "slave" /\ BitOf(MOUSE) = 4
  BY DEF PicOf, BitOf, TIMER, MOUSE
<1>5. Vector(TIMER) = Number({5}) + 0 /\ Vector(MOUSE) = Number({3, 5}) + 4
  BY <1>1, <1>4, Zenon DEF Vector
<1>6. Number({1}) \in icws["master"][2]
  BY <1>1, <1>3 DEF CASCADE
<1> QED
  BY <1>1, <1>3, <1>5, <1>6 DEF Connected

\* Only the lines that irq_enable was entered with can be heard, and the cascade.
LEMMA HeardLines ==
  ASSUME BootAssumption, IrqInv, ipc \notin {"reset", "remap"}, begun \subseteq Lines,
         NEW pic \in Pics, NEW bit \in Bits,
         Heard(IF pic = "master" THEN bit ELSE 8 + bit),
         (IF pic = "master" THEN bit ELSE 8 + bit) # CASCADE
  PROVE  (IF pic = "master" THEN bit ELSE 8 + bit) \in begun
<1>1. Lines = {TIMER, MOUSE} /\ TIMER = 0 /\ MOUSE = 12 /\ CASCADE = 2
  BY DEF BootAssumption, TIMER, MOUSE, CASCADE
<1>2. \A p \in Pics : Bits \ imr[p] \subseteq MayBeOpen(begun)[p]
  BY DEF IrqInv, MasksAsAsked
<1>3. CASE pic = "master"
  <2>1. PicOf(bit) = "master" /\ BitOf(bit) = bit
    BY DEF PicOf, BitOf, Bits
  <2>2. bit \in MayBeOpen(begun)["master"] /\ bit # 2
    BY <1>1, <1>2, <1>3, <2>1 DEF Heard, Pics
  <2>3. PICK n \in begun : PicOf(n) = "master" /\ bit = BitOf(n)
    BY <1>1, <2>2 DEF MayBeOpen, Pics
  <2>4. n = 0 /\ BitOf(n) = 0
    BY <1>1, <2>3 DEF PicOf, BitOf
  <2> QED
    BY <1>3, <2>3, <2>4
<1>4. CASE pic = "slave"
  <2>1. PicOf(8 + bit) = "slave" /\ BitOf(8 + bit) = bit
    BY DEF PicOf, BitOf, Bits
  <2>2. bit \in MayBeOpen(begun)["slave"]
    BY <1>1, <1>2, <1>4, <2>1 DEF Heard, Pics
  <2>3. PICK n \in begun : PicOf(n) = "slave" /\ bit = BitOf(n)
    BY <1>1, <2>2 DEF MayBeOpen, Pics
  <2>4. n = 12 /\ BitOf(n) = 4
    BY <1>1, <2>3 DEF PicOf, BitOf
  <2> QED
    BY <1>4, <2>3, <2>4
<1> QED
  BY <1>3, <1>4 DEF Pics

LEMMA ReadyWhereItIs ==
  ASSUME BootAssumption, IrqInv, Programmed, PlaceInv
  PROVE  HandlersReady
<1>1. /\ at \in 1 .. 22 /\ begun \subseteq Lines
      /\ RemapInOrder /\ FlagInOrder /\ GatesInOrder /\ TimerInOrder
  BY DEF PlaceInv
<1>2. Lines = {TIMER, MOUSE} /\ TIMER = 0 /\ MOUSE = 12 /\ CASCADE = 2
  BY DEF BootAssumption, TIMER, MOUSE, CASCADE
<1>3. ASSUME if_flag, NEW pic \in Pics, NEW bit \in Bits,
             NEW line, line = IF pic = "master" THEN bit ELSE 8 + bit,
             Heard(line), line # CASCADE
      PROVE  /\ line \in Lines
             /\ Vector(line) \in Vectors /\ gates[Vector(line)] = OwnHandler[line]
             /\ line >= 8 => Connected
             /\ line = TIMER => scheduling_enabled /\ sysman
  <2>1. ipc \notin {"reset", "remap"}
    BY <1>1, <1>3 DEF RemapInOrder
  <2>2. line \in begun /\ line \in Lines
    BY <1>1, <1>3, <2>1, HeardLines
  <2>3. Vector(TIMER) = 32 /\ Vector(MOUSE) = 44 /\ Connected
    BY <2>1, VectorOf
  <2>4. gates[32] = "irq0_stub" /\ gates[44] = "irq12_stub"
    BY <1>1, <1>3 DEF GatesInOrder
  <2>5. OwnHandler[TIMER] = "irq0_stub" /\ OwnHandler[MOUSE] = "irq12_stub"
    BY <1>2 DEF OwnHandler
  <2>6. Vector(line) \in Vectors /\ gates[Vector(line)] = OwnHandler[line]
    BY <1>2, <2>2, <2>3, <2>4, <2>5 DEF Vectors
  <2>7. line = TIMER => scheduling_enabled /\ sysman
    BY <1>1, <1>3, <2>2 DEF TimerInOrder, FlagInOrder
  <2> QED
    BY <2>2, <2>3, <2>6, <2>7
<1>4. At("sysman") => /\ if_flag /\ esp0 = KERNEL_INT_STACK_BASE
                      /\ \A vector \in Vectors :
                           ExceptionGate(vector) # "none" => gates[vector] = ExceptionGate(vector)
  BY <1>1, Places DEF At, FlagInOrder, TimerInOrder, GatesInOrder
<1> QED
  BY <1>3, <1>4 DEF HandlersReady

\* No interrupt finds a line without its handler, and the timer's tick finds a process:
\* in the order of kernel_main, on every machine, whatever mask writes are lost.
THEOREM HandlersAlwaysReady == BootSpec => []HandlersReady
<1>1. BootSpec => []PlaceInv
  <2>1. PlaceInv /\ [BootNext]_bootVars => PlaceInv'
    BY PlaceStep, BootAssumption
  <2> QED
    BY <2>1, PlaceInit, PTL DEF BootSpec
<1>2. BootSpec => [](IrqInv /\ Programmed)
  BY BootImplementsIrqManager, ProgrammedAlways, PTL
<1>3. IrqInv /\ Programmed /\ PlaceInv => HandlersReady
  BY ReadyWhereItIs, BootAssumption
<1> QED
  BY <1>1, <1>2, <1>3, PTL

-----------------------------------------------------------------------------
(***************************************************************************)
(* Memory and paging.                                                      *)
(***************************************************************************)
\* The address at which a frame begins, and what pmm_init finds of the machine.
Base(f)    == f * PAGE_SIZE
TABLE_SPAN == ENTRIES * PAGE_SIZE

-----------------------------------------------------------------------------
(***************************************************************************)
(* Frames and addresses.                                                   *)
(***************************************************************************)
LEMMA Divided ==
  ASSUME NEW n \in Nat \ {0}, NEW x \in Nat
  PROVE  /\ x \div n \in Nat /\ x % n \in 0 .. n - 1
         /\ x = (x \div n) * n + (x % n)
BY SMT

LEMMA ProductOrdered ==
  ASSUME NEW n \in Nat, NEW a \in Nat, NEW b \in Nat, a < b
  PROVE  a * n + n <= b * n /\ a * n \in Nat /\ b * n \in Nat
<1>1. PICK d \in Nat : b = a + 1 + d
  <2>1. b - a - 1 \in Nat /\ b = a + 1 + (b - a - 1)
    OBVIOUS
  <2> QED
    BY <2>1
<1>2. b * n = a * n + n + d * n
  BY <1>1, SMT
<1>3. d * n \in Nat /\ a * n \in Nat
  BY SMT
<1> QED
  BY <1>2, <1>3

LEMMA DividedUnique ==
  ASSUME NEW n \in Nat \ {0}, NEW q \in Nat, NEW r \in 0 .. n - 1
  PROVE  (q * n + r) \div n = q /\ (q * n + r) % n = r
BY SMT

LEMMA Constants ==
  /\ PAGE_SIZE \in Nat \ {0} /\ ENTRIES \in Nat \ {0} /\ MB \in Nat /\ MB > 1
  /\ WORD_BITS \in Nat \ {0} /\ WORD_SIZE \in Nat \ {0}
  /\ IDENTITY_MAP_SIZE \in Nat /\ KERNEL_SPACE \in Nat /\ FB_ADDR \in Nat
  /\ FB_SIZE \in Nat /\ ORBIT_BASE \in Nat
  /\ MB < KERNEL_SPACE /\ KERNEL_SPACE <= FB_ADDR
  /\ MB % PAGE_SIZE = 0 /\ KERNEL_SPACE % PAGE_SIZE = 0 /\ FB_ADDR % PAGE_SIZE = 0
  /\ ORBIT_BASE % PAGE_SIZE = 0
  /\ TABLE_SPAN \in Nat \ {0}
  /\ ORBIT_BASE <= 2 * MB + TABLE_SPAN
  /\ ENTRIES * ENTRIES \in Nat /\ FB_ADDR + FB_SIZE <= Base(ENTRIES * ENTRIES)
<1>1. /\ PAGE_SIZE \in Nat \ {0} /\ ENTRIES \in Nat \ {0} /\ MB \in Nat /\ MB > 1
      /\ WORD_BITS \in Nat \ {0} /\ WORD_SIZE \in Nat \ {0}
      /\ IDENTITY_MAP_SIZE \in Nat /\ KERNEL_SPACE \in Nat /\ FB_ADDR \in Nat
      /\ FB_SIZE \in Nat /\ ORBIT_BASE \in Nat
      /\ MB < KERNEL_SPACE /\ KERNEL_SPACE <= FB_ADDR
  BY PagingAssumption
<1>2. /\ MB % PAGE_SIZE = 0 /\ KERNEL_SPACE % PAGE_SIZE = 0 /\ FB_ADDR % PAGE_SIZE = 0
      /\ ORBIT_BASE % PAGE_SIZE = 0
  BY PagingAssumption
<1>3. ENTRIES * PAGE_SIZE \in Nat \ {0} /\ ENTRIES * ENTRIES \in Nat
  BY <1>1, SMT
<1>4. /\ ORBIT_BASE <= 2 * MB + ENTRIES * PAGE_SIZE
      /\ FB_ADDR + FB_SIZE <= ENTRIES * ENTRIES * PAGE_SIZE
  BY PagingAssumption
<1> QED
  BY <1>1, <1>2, <1>3, <1>4 DEF TABLE_SPAN, Base

LEMMA BaseFacts ==
  /\ Base(0) = 0
  /\ \A f \in Nat : Base(f) \in Nat /\ Base(f + 1) = Base(f) + PAGE_SIZE
                    /\ Frame(Base(f)) = f
  /\ \A f, g \in Nat : f < g => Base(f) + PAGE_SIZE <= Base(g)
<1>1. Base(0) = 0
  BY Constants DEF Base
<1>2. ASSUME NEW f \in Nat
      PROVE  Base(f) \in Nat /\ Base(f + 1) = Base(f) + PAGE_SIZE /\ Frame(Base(f)) = f
  <2>1. PAGE_SIZE \in Nat \ {0}
    BY Constants
  <2>2. f * PAGE_SIZE \in Nat /\ (f + 1) * PAGE_SIZE = f * PAGE_SIZE + PAGE_SIZE
    BY <2>1, SMT
  <2>3. (f * PAGE_SIZE + 0) \div PAGE_SIZE = f /\ f * PAGE_SIZE + 0 = f * PAGE_SIZE
    BY <2>1, <2>2, DividedUnique
  <2> QED
    BY <2>2, <2>3 DEF Base, Frame
<1>3. ASSUME NEW f \in Nat, NEW g \in Nat, f < g PROVE Base(f) + PAGE_SIZE <= Base(g)
  BY <1>3, Constants, ProductOrdered DEF Base
<1> QED
  BY <1>1, <1>2, <1>3

LEMMA FrameFacts ==
  \A a \in Nat : /\ Frame(a) \in Nat /\ Base(Frame(a)) <= a /\ a < Base(Frame(a)) + PAGE_SIZE
                 /\ a % PAGE_SIZE = 0 => Base(Frame(a)) = a
<1> SUFFICES ASSUME NEW a \in Nat
             PROVE  /\ Frame(a) \in Nat /\ Base(Frame(a)) <= a
                    /\ a < Base(Frame(a)) + PAGE_SIZE
                    /\ a % PAGE_SIZE = 0 => Base(Frame(a)) = a
  OBVIOUS
<1>1. PAGE_SIZE \in Nat \ {0}
  BY Constants
<1> DEFINE q == a \div PAGE_SIZE
           m == a % PAGE_SIZE
<1>2. q \in Nat /\ m \in 0 .. PAGE_SIZE - 1 /\ a = q * PAGE_SIZE + m
  BY <1>1, Divided
<1>3. q * PAGE_SIZE \in Nat
  BY <1>1, <1>2, SMT
<1> HIDE DEF q, m
<1>4. q * PAGE_SIZE <= a /\ a < q * PAGE_SIZE + PAGE_SIZE /\ (m = 0 => q * PAGE_SIZE = a)
  BY <1>1, <1>2, <1>3
<1> QED
  BY <1>2, <1>4 DEF q, m, Frame, Base

LEMMA UpFacts ==
  ASSUME NEW u \in Nat \ {0}, NEW a \in Nat
  PROVE  /\ Up(a, u) \in Nat /\ a <= Up(a, u) /\ Up(a, u) < a + u
         /\ \E k \in Nat : Up(a, u) = k * u
<1> DEFINE x == a + u - 1
           q == x \div u
<1>1. x \in Nat
  OBVIOUS
<1>2. q \in Nat /\ x % u \in 0 .. u - 1 /\ x = q * u + (x % u)
  BY <1>1, Divided
<1>3. q * u \in Nat
  BY <1>2, SMT
<1>4. Up(a, u) = q * u
  BY DEF Up
<1> HIDE DEF q
<1>5. a <= q * u /\ q * u < a + u
  BY <1>2, <1>3
<1> QED
  BY <1>2, <1>3, <1>4, <1>5

\* The frames of a region are those that have a byte of it or of the page it begins in.
LEMMA FramesFacts ==
  ASSUME NEW a \in Nat, NEW b \in Nat
  PROVE  \A f : f \in Frames(a, b) <=> f \in Nat /\ Base(f) + PAGE_SIZE > a /\ Base(f) < b
<1>1. PICK k \in Nat : Up(b, PAGE_SIZE) = k * PAGE_SIZE
  BY Constants, UpFacts
<1>2. /\ Frame(Up(b, PAGE_SIZE)) = k /\ b <= Base(k) /\ Base(k) < b + PAGE_SIZE
  BY <1>1, Constants, BaseFacts, UpFacts DEF Base
<1>3. Frames(a, b) = Frame(a) .. k - 1
  BY <1>2 DEF Frames
<1>4. /\ Frame(a) \in Nat /\ Base(Frame(a)) <= a /\ a < Base(Frame(a)) + PAGE_SIZE
  BY FrameFacts
<1>5. PAGE_SIZE \in Nat \ {0}
  BY Constants
<1>6. ASSUME NEW f \in Nat
      PROVE  (f >= Frame(a) <=> Base(f) + PAGE_SIZE > a) /\ (f <= k - 1 <=> Base(f) < b)
  <2> DEFINE g == Frame(a)
  <2>1. /\ g \in Nat /\ Base(f) \in Nat /\ Base(g) \in Nat /\ Base(k) \in Nat
        /\ f < g => Base(f) + PAGE_SIZE <= Base(g)
        /\ g < f => Base(g) + PAGE_SIZE <= Base(f)
        /\ f < k => Base(f) + PAGE_SIZE <= Base(k)
        /\ k < f => Base(k) + PAGE_SIZE <= Base(f)
    BY <1>4, BaseFacts
  <2>2. Base(g) <= a /\ a < Base(g) + PAGE_SIZE
    BY <1>4
  <2> HIDE DEF g
  <2>3. f >= g <=> Base(f) + PAGE_SIZE > a
    <3>1. f < g \/ f = g \/ g < f
      BY <2>1
    <3> QED
      BY <1>5, <2>1, <2>2, <3>1
  <2>4. f <= k - 1 <=> Base(f) < b
    <3>1. f < k \/ f = k \/ k < f
      OBVIOUS
    <3> QED
      BY <1>2, <1>5, <2>1, <3>1
  <2> QED
    BY <2>3, <2>4 DEF g
<1>7. \A f : f \in Frame(a) .. k - 1 <=> f \in Nat /\ f >= Frame(a) /\ f <= k - 1
  BY <1>4
<1> QED
  BY <1>3, <1>6, <1>7

\* A set of numbers with a bound has a greatest.
LEMMA MaxFacts ==
  ASSUME NEW S \in SUBSET Nat, S # {}, NEW n \in Nat, \A s \in S : s <= n
  PROVE  Max(S) \in S /\ \A s \in S : s <= Max(S)
<1> DEFINE T == {n - s : s \in S}
<1>1. T \subseteq Nat /\ T # {}
  <2>1. \A s \in S : n - s \in Nat
    OBVIOUS
  <2>2. PICK s \in S : TRUE
    OBVIOUS
  <2>3. n - s \in T
    BY <2>2
  <2> QED
    BY <2>1, <2>3
<1>2. PICK t \in T : \A y \in T : ~(<<y, t>> \in OpToRel(<, Nat))
  BY <1>1, NatLessThanWellFounded, WFMin
<1>3. \A y \in T : ~(y < t)
  BY <1>1, <1>2 DEF OpToRel
<1>4. PICK m \in S : t = n - m
  OBVIOUS
<1>5. \A s \in S : s <= m
  <2> SUFFICES ASSUME NEW s \in S PROVE s <= m
    OBVIOUS
  <2>1. ~(n - s < n - m)
    BY <1>3, <1>4
  <2> QED
    BY <2>1
<1>6. \E x \in S : \A y \in S : x >= y
  BY <1>5
<1>7. Max(S) \in S /\ \A y \in S : Max(S) >= y
  BY <1>6 DEF Max
<1> QED
  BY <1>7

-----------------------------------------------------------------------------
(***************************************************************************)
(* What the boot loader has put into memory, and what pmm_init and         *)
(* paging_init compute of it.                                              *)
(***************************************************************************)
LEMMA BaseSum == \A f, g \in Nat : Base(f + g) = Base(f) + Base(g)
BY Constants, SMT DEF Base

LEMMA StartFacts == Start \in Nat /\ Base(Start) = MB
BY Constants, FrameFacts DEF Start, Frame

LEMMA Element == ASSUME NEW S, NEW s \in Seq(S), NEW i \in DOMAIN s PROVE s[i] \in S
OBVIOUS

LEMMA MachineFacts ==
  ASSUME NEW mach \in Machines
  PROVE  /\ mach.total_pages \in Nat /\ mach.kernel_end \in Nat /\ MB < mach.kernel_end
         /\ mach.mods \in Seq([start : Nat, end : Nat])
         /\ \A mod \in Range(mach.mods) :
              /\ mod.start \in Nat /\ mod.end \in Nat /\ MB < mod.start
              /\ mod.start < mod.end /\ mod.end \in Ends(mach)
         /\ Ends(mach) \in SUBSET Nat /\ mach.kernel_end \in Ends(mach)
         /\ \A end \in Ends(mach) :
              end <= BitmapAddr(mach) /\ end <= MB + Base(mach.total_pages)
         /\ BitmapAddr(mach) \in Nat /\ BitmapEnd(mach) \in Nat
         /\ BitmapAddr(mach) <= BitmapEnd(mach)
         /\ BitmapEnd(mach) + PAGE_SIZE < MB + Base(mach.total_pages)
         /\ MB + Base(mach.total_pages) <= FB_ADDR
<1>1. /\ mach.total_pages \in Nat /\ mach.kernel_end \in Nat /\ MB < mach.kernel_end
      /\ mach.mods \in Seq([start : Nat, end : Nat])
      /\ BitmapEnd(mach) + PAGE_SIZE < MB + Base(mach.total_pages)
      /\ MB + Base(mach.total_pages) <= FB_ADDR
  BY PagingAssumption DEF Base
<1>2. /\ \A end \in Ends(mach) : end <= MB + Base(mach.total_pages)
      /\ \A i \in DOMAIN mach.mods : /\ mach.kernel_end <= mach.mods[i].start
                                     /\ mach.mods[i].start < mach.mods[i].end
  BY PagingAssumption DEF Base
<1>3. ASSUME NEW mod \in Range(mach.mods)
      PROVE  /\ mod.start \in Nat /\ mod.end \in Nat /\ MB < mod.start
             /\ mod.start < mod.end /\ mod.end \in Ends(mach)
  <2>1. PICK i \in DOMAIN mach.mods : mod = mach.mods[i]
    BY DEF Range
  <2>2. mod \in [start : Nat, end : Nat]
    <3> DEFINE mods == mach.mods
               Mod == [start : Nat, end : Nat]
    <3>1. mods \in Seq(Mod) /\ i \in DOMAIN mods
      BY <1>1
    <3> HIDE DEF mods, Mod
    <3>2. mods[i] \in Mod
      BY <3>1, Element
    <3> QED
      BY <2>1, <3>2 DEF mods, Mod
  <2>3. mod.start \in Nat /\ mod.end \in Nat /\ mod.end \in Ends(mach)
    BY <2>2 DEF Ends
  <2> QED
    BY SMTT(30), <1>1, <1>2, <2>1, <2>3, Constants
<1>4. Ends(mach) \in SUBSET Nat /\ mach.kernel_end \in Ends(mach)
  BY <1>1, <1>3 DEF Ends
<1>5. Max(Ends(mach)) \in Ends(mach) /\ \A end \in Ends(mach) : end <= Max(Ends(mach))
  <2> DEFINE n == MB + Base(mach.total_pages)
  <2>1. n \in Nat
    <3>1. Base(mach.total_pages) \in Nat
      BY <1>1, BaseFacts
    <3> QED
      BY <3>1, Constants
  <2>2. Ends(mach) # {} /\ \A end \in Ends(mach) : end <= n
    BY <1>2, <1>4
  <2> HIDE DEF n
  <2> QED
    BY <1>4, <2>1, <2>2, MaxFacts
<1>6. /\ BitmapAddr(mach) \in Nat
      /\ \A end \in Ends(mach) : end <= BitmapAddr(mach)
  <2>1. /\ Up(Max(Ends(mach)), PAGE_SIZE) \in Nat
        /\ Max(Ends(mach)) <= Up(Max(Ends(mach)), PAGE_SIZE)
    BY <1>4, <1>5, Constants, UpFacts
  <2> QED
    BY <1>4, <1>5, <2>1 DEF BitmapAddr
<1>7. BitmapEnd(mach) \in Nat /\ BitmapAddr(mach) <= BitmapEnd(mach)
  <2>1. Up(mach.total_pages, WORD_BITS) \in Nat
    BY <1>1, Constants, UpFacts
  <2>2. Up(mach.total_pages, WORD_BITS) \div WORD_BITS \in Nat
    BY <2>1, Constants, Divided
  <2>3. (Up(mach.total_pages, WORD_BITS) \div WORD_BITS) * WORD_SIZE \in Nat
    BY <2>2, Constants, SMT
  <2> QED
    BY <1>6, <2>3 DEF BitmapEnd
<1> QED
  BY <1>1, <1>2, <1>3, <1>4, <1>6, <1>7

\* A multiple of u, a little more, and up to a multiple again.
LEMMA UpMore ==
  ASSUME NEW u \in Nat \ {0}, NEW k \in Nat, NEW x \in Nat \ {0}
  PROVE  Up(k * u + x, u) >= k * u + u
<1>1. k * u \in Nat
  BY SMT
<1> DEFINE a == k * u + x
<1>0. a \in Nat /\ a > k * u
  BY <1>1
<1> HIDE DEF a
<1>2. PICK j \in Nat : Up(a, u) = j * u
  BY <1>0, UpFacts
<1>3. a <= j * u
  BY <1>0, <1>2, UpFacts
<1>4. j * u \in Nat
  BY SMT
<1>5. ~(j < k) /\ j # k
  <2>1. j # k
    BY <1>0, <1>1, <1>3
  <2>2. ASSUME j < k PROVE FALSE
    <3>1. j * u + u <= k * u
      BY <2>2, ProductOrdered
    <3> QED
      BY <1>0, <1>1, <1>3, <1>4, <3>1
  <2> QED
    BY <2>1, <2>2
<1>6. k < j
  BY <1>5
<1>7. k * u + u <= j * u
  BY <1>6, ProductOrdered
<1> QED
  BY <1>2, <1>7 DEF a

\* What paging_init reserves: more than everything that is there, by a span and more.
LEMMA ReservedFacts ==
  ASSUME machine \in Machines, dir \in Nat
  PROVE  /\ ActualUsed \in Nat /\ \E k \in Nat : ActualUsed = Base(k)
         /\ Base(dir) + MB <= ActualUsed
         /\ 3 * MB + TABLE_SPAN <= ActualUsed
         /\ \A end \in Ends(machine) : end + MB + TABLE_SPAN <= ActualUsed
<1> DEFINE lows == {2 * MB} \cup Ends(machine)
           highs == {IDENTITY_MAP_SIZE} \cup {Up(end + MB, TABLE_SPAN) : end \in lows}
<1>1. MB \in Nat /\ MB > 1 /\ TABLE_SPAN \in Nat \ {0} /\ IDENTITY_MAP_SIZE \in Nat
      /\ MB \div 2 \in Nat \ {0}
  BY Constants
<1>2. lows \in SUBSET Nat /\ 2 * MB \in lows /\ Ends(machine) \subseteq lows
      /\ \A end \in lows : end <= 2 * MB + MB + Base(machine.total_pages)
  <2>1. /\ Base(machine.total_pages) \in Nat /\ Ends(machine) \in SUBSET Nat
        /\ \A end \in Ends(machine) : end <= MB + Base(machine.total_pages)
    <3>1. machine.total_pages \in Nat
      BY MachineFacts
    <3> QED
      BY <3>1, MachineFacts, BaseFacts
  <2> QED
    BY <1>1, <2>1
<1> HIDE DEF lows
<1>3. ASSUME NEW end \in lows
      PROVE  /\ Up(end + MB, TABLE_SPAN) \in Nat /\ end + MB <= Up(end + MB, TABLE_SPAN)
             /\ Up(end + MB, TABLE_SPAN) < end + MB + TABLE_SPAN
             /\ \E k \in Nat : Up(end + MB, TABLE_SPAN) = k * TABLE_SPAN
  <2> DEFINE a == end + MB
  <2>1. a \in Nat
    BY <1>1, <1>2
  <2> HIDE DEF a
  <2>2. /\ Up(a, TABLE_SPAN) \in Nat /\ a <= Up(a, TABLE_SPAN)
        /\ Up(a, TABLE_SPAN) < a + TABLE_SPAN
        /\ \E k \in Nat : Up(a, TABLE_SPAN) = k * TABLE_SPAN
    BY <1>1, <2>1, UpFacts
  <2> QED
    BY <2>2 DEF a
<1>4. Max(highs) \in highs /\ \A h \in highs : h <= Max(highs)
  <2> DEFINE n == IDENTITY_MAP_SIZE + 2 * MB + MB + Base(machine.total_pages) + MB + TABLE_SPAN
  <2>0. Base(machine.total_pages) \in Nat
    BY MachineFacts, BaseFacts
  <2>1. n \in Nat /\ highs \in SUBSET Nat /\ highs # {}
    BY <1>1, <1>3, <2>0
  <2>2. \A h \in highs : h <= n
    BY <1>1, <1>2, <1>3, <2>0
  <2> HIDE DEF n, highs
  <2> QED
    BY <2>1, <2>2, MaxFacts
<1>5. Highest = Max(highs)
  BY DEF Highest, lows, TABLE_SPAN
<1>6. \E k \in Nat : Highest = k * TABLE_SPAN
  <2>1. \A end \in lows : \E k \in Nat : Up(end + MB, TABLE_SPAN) = k * TABLE_SPAN
    BY <1>3
  <2>2. IDENTITY_MAP_SIZE % TABLE_SPAN = 0
    BY PagingAssumption DEF TABLE_SPAN
  <2>3. \E k \in Nat : IDENTITY_MAP_SIZE = k * TABLE_SPAN
    <3> DEFINE q == IDENTITY_MAP_SIZE \div TABLE_SPAN
    <3>1. q \in Nat /\ IDENTITY_MAP_SIZE = q * TABLE_SPAN + (IDENTITY_MAP_SIZE % TABLE_SPAN)
      BY <1>1, Divided
    <3>2. q * TABLE_SPAN \in Nat
      BY <1>1, <3>1, SMT
    <3> QED
      BY <2>2, <3>1, <3>2
  <2> QED
    BY <1>4, <1>5, <2>1, <2>3
<1>7. Highest \in Nat /\ \A end \in lows : end + MB <= Highest
  <2>1. \A end \in lows : Up(end + MB, TABLE_SPAN) <= Highest
    BY <1>4, <1>5
  <2>2. Highest \in Nat
    BY <1>1, <1>3, <1>4, <1>5
  <2> QED
    BY <1>1, <1>2, <1>3, <2>1, <2>2
<1>8. ReservationEnd \in Nat /\ ReservationEnd >= Highest + TABLE_SPAN
  <2>1. ReservationEnd = Up(Highest + MB \div 2, TABLE_SPAN)
    BY DEF ReservationEnd, TABLE_SPAN
  <2>2. PICK k \in Nat : Highest = k * TABLE_SPAN
    BY <1>6
  <2> DEFINE x == MB \div 2
  <2>3. x \in Nat \ {0} /\ Highest + x \in Nat
    BY <1>1, <1>7
  <2> HIDE DEF x
  <2>4. Up(k * TABLE_SPAN + x, TABLE_SPAN) >= k * TABLE_SPAN + TABLE_SPAN
    BY <1>1, <2>3, UpMore
  <2>5. Up(Highest + x, TABLE_SPAN) \in Nat
    BY <1>1, <2>3, UpFacts
  <2> QED
    BY <2>1, <2>2, <2>4, <2>5 DEF x
<1> DEFINE two == {ReservationEnd, dir * PAGE_SIZE + MB}
<1>9. /\ Max(two) \in Nat /\ ReservationEnd <= Max(two) /\ Base(dir) + MB <= Max(two)
  <2>1. Base(dir) \in Nat /\ Base(dir) = dir * PAGE_SIZE
    BY BaseFacts DEF Base
  <2>2. two \in SUBSET Nat /\ two # {}
        /\ \A h \in two : h <= ReservationEnd + (Base(dir) + MB)
        /\ ReservationEnd + (Base(dir) + MB) \in Nat
    BY <1>1, <1>8, <2>1
  <2>3. Max(two) \in two /\ \A h \in two : h <= Max(two)
    BY <2>2, MaxFacts
  <2> QED
    BY <2>1, <2>2, <2>3
<1> HIDE DEF two, highs
<1>10. /\ ActualUsed = Up(Max(two), TABLE_SPAN)
  BY DEF ActualUsed, two, TABLE_SPAN
<1>11. PICK k \in Nat : ActualUsed = k * TABLE_SPAN
  BY <1>1, <1>9, <1>10, UpFacts
<1>12. ActualUsed \in Nat /\ Max(two) <= ActualUsed
  BY <1>1, <1>9, <1>10, UpFacts
<1>13. \E j \in Nat : ActualUsed = Base(j)
  <2>1. k * ENTRIES \in Nat /\ k * TABLE_SPAN = (k * ENTRIES) * PAGE_SIZE
    BY Constants, SMT DEF TABLE_SPAN
  <2> QED
    BY <1>11, <2>1 DEF Base
<1>14. \A end \in lows : end + MB + TABLE_SPAN <= ActualUsed
  BY <1>1, <1>2, <1>7, <1>8, <1>9, <1>12
<1>15. Base(dir) + MB <= ActualUsed
  BY <1>1, <1>9, <1>12, BaseFacts
<1>16. 3 * MB + TABLE_SPAN <= ActualUsed
  BY <1>1, <1>2, <1>14
<1> QED
  BY <1>2, <1>12, <1>13, <1>14, <1>15, <1>16

-----------------------------------------------------------------------------
(***************************************************************************)
(* Pages of the bitmap, and the frames they stand for.                     *)
(***************************************************************************)
FramesOf(S) == {p + Start : p \in S}
UsedFrames  == FramesOf(used)
Virtual(d, e) == d * ENTRIES + e

LEMMA BaseOrder ==
  \A f, g \in Nat : (f < g <=> Base(f) < Base(g)) /\ (f <= g <=> Base(f) <= Base(g))
<1> SUFFICES ASSUME NEW f \in Nat, NEW g \in Nat
             PROVE  (f < g <=> Base(f) < Base(g)) /\ (f <= g <=> Base(f) <= Base(g))
  OBVIOUS
<1>1. /\ Base(f) \in Nat /\ Base(g) \in Nat /\ PAGE_SIZE \in Nat \ {0}
      /\ f < g => Base(f) + PAGE_SIZE <= Base(g)
      /\ g < f => Base(g) + PAGE_SIZE <= Base(f)
  BY Constants, BaseFacts
<1>2. f < g \/ f = g \/ g < f
  OBVIOUS
<1> QED
  BY <1>1, <1>2

LEMMA FramesOfFacts ==
  ASSUME NEW S \in SUBSET Nat
  PROVE  \A f : f \in FramesOf(S) <=> f \in Nat /\ f - Start \in S
<1> SUFFICES ASSUME NEW f PROVE f \in FramesOf(S) <=> f \in Nat /\ f - Start \in S
  OBVIOUS
<1>1. Start \in Nat
  BY StartFacts
<1>2. ASSUME f \in FramesOf(S) PROVE f \in Nat /\ f - Start \in S
  <2>1. PICK p \in S : f = p + Start
    BY <1>2 DEF FramesOf
  <2>2. p \in Nat /\ p + Start - Start = p
    BY <1>1
  <2> QED
    BY <1>1, <2>1, <2>2
<1>3. ASSUME f \in Nat, f - Start \in S PROVE f \in FramesOf(S)
  <2>1. f = (f - Start) + Start
    BY <1>1, <1>3
  <2> QED
    BY <1>3, <2>1 DEF FramesOf
<1> QED
  BY <1>2, <1>3

LEMMA PagesFacts ==
  ASSUME machine \in Machines
  PROVE  /\ Pages \in SUBSET Nat /\ machine.total_pages \in Nat /\ IsFiniteSet(Pages)
         /\ \A f \in Nat : f - Start \in Pages <=>
                           MB <= Base(f) /\ Base(f) < MB + Base(machine.total_pages)
         /\ \A f \in Nat : f - Start \in Pages <=>
                           Start <= f /\ f \in 0 .. Start + machine.total_pages - 1
         /\ Start + machine.total_pages - 1 \in Nat /\ Start > 0
<1>1. machine.total_pages \in Nat /\ Start \in Nat /\ Base(Start) = MB /\ MB > 1
  BY MachineFacts, StartFacts, Constants
<1>2. Pages = 0 .. machine.total_pages - 1
  BY DEF Pages
<1>3. IsFiniteSet(Pages)
  BY SMTT(30), <1>1, <1>2, FS_Interval
<1>4. Base(Start + machine.total_pages) = MB + Base(machine.total_pages)
      /\ Start + machine.total_pages \in Nat
  <2> DEFINE n == machine.total_pages
  <2>1. n \in Nat
    BY <1>1
  <2> HIDE DEF n
  <2>2. Base(Start + n) = Base(Start) + Base(n)
    BY <1>1, <2>1, BaseSum
  <2> QED
    BY <1>1, <2>2 DEF n
<1>5. Start > 0
  BY <1>1, BaseFacts
<1>6. ASSUME NEW f \in Nat
      PROVE  f - Start \in Pages <=> Start <= f /\ f < Start + machine.total_pages
  BY <1>1, <1>2
<1>7. ASSUME NEW f \in Nat
      PROVE  f - Start \in Pages <=>
                           MB <= Base(f) /\ Base(f) < MB + Base(machine.total_pages)
  <2>1. (Start <= f <=> Base(Start) <= Base(f))
        /\ (f < Start + machine.total_pages <=> Base(f) < Base(Start + machine.total_pages))
    BY <1>1, <1>4, BaseOrder
  <2> QED
    BY <1>1, <1>4, <1>6, <2>1
<1>8. \A f \in Nat : f < Start + machine.total_pages
                      <=> f \in 0 .. Start + machine.total_pages - 1
  BY <1>1
<1> QED
  BY <1>1, <1>2, <1>3, <1>5, <1>6, <1>7, <1>8

\* The pages a region marks are those of its frames that are in memory.
LEMMA RegionFacts ==
  ASSUME machine \in Machines, NEW a \in Nat, NEW b \in Nat
  PROVE  /\ Region(a, b) \in SUBSET Pages
         /\ \A f \in Nat : f - Start \in Region(a, b) <=>
                           f - Start \in Pages /\ Base(f) + PAGE_SIZE > a /\ Base(f) < b
         /\ (MB <= a /\ b <= MB + Base(machine.total_pages))
               => Frames(a, b) \subseteq FramesOf(Region(a, b))
         /\ \A f \in FramesOf(Region(a, b)) : f \in Nat /\ Base(f) < b
<1>1. Region(a, b) \in SUBSET Pages /\ Region(a, b) \in SUBSET Nat
  BY PagesFacts DEF Region
<1>2. ASSUME NEW f \in Nat
      PROVE  f - Start \in Region(a, b) <=>
                           f - Start \in Pages /\ Base(f) + PAGE_SIZE > a /\ Base(f) < b
  <2>1. (f - Start) + Start = f
    BY StartFacts
  <2>2. f - Start \in Region(a, b) <=> f - Start \in Pages /\ f \in Frames(a, b)
    BY <2>1 DEF Region
  <2> QED
    BY <2>2, FramesFacts
<1>3. ASSUME MB <= a, b <= MB + Base(machine.total_pages), NEW f \in Frames(a, b)
      PROVE  f \in FramesOf(Region(a, b))
  <2>1. f \in Nat /\ Base(f) + PAGE_SIZE > a /\ Base(f) < b
    BY FramesFacts
  <2>2. MB <= Base(f)
    <3>1. Start \in Nat /\ Base(Start) = MB /\ (f < Start => Base(f) + PAGE_SIZE <= Base(Start))
      BY <2>1, StartFacts, BaseFacts
    <3>2. Base(f) \in Nat /\ PAGE_SIZE \in Nat /\ MB \in Nat
      BY <2>1, BaseFacts, Constants
    <3>3. ~(f < Start)
      <4> SUFFICES ASSUME f < Start PROVE FALSE
        OBVIOUS
      <4>1. Base(f) + PAGE_SIZE <= MB
        BY <3>1
      <4> QED
        BY <1>3, <2>1, <3>2, <4>1
    <3> QED
      BY <2>1, <3>1, <3>3, BaseOrder
  <2>3. Base(f) < MB + Base(machine.total_pages)
    <3>1. Base(f) \in Nat /\ MB \in Nat
      BY <2>1, BaseFacts, Constants
    <3>2. Base(machine.total_pages) \in Nat
      BY PagesFacts, BaseFacts
    <3> QED
      BY <1>3, <2>1, <3>1, <3>2
  <2>4. f - Start \in Pages
    BY <2>1, <2>2, <2>3, PagesFacts
  <2> QED
    BY <1>1, <1>2, <2>1, <2>4, FramesOfFacts
<1> QED
  BY <1>1, <1>2, <1>3, FramesOfFacts

\* A set of numbers that has all below any it has is counted by its first absentee.
LEMMA DownClosed ==
  ASSUME NEW n \in Nat, NEW S \in SUBSET (0 .. n - 1),
         \A p \in S : \A q \in 0 .. n - 1 : q < p => q \in S
  PROVE  S = 0 .. Cardinality(S) - 1 /\ Cardinality(S) \in Nat
<1>1. CASE S = {}
  <2>1. Cardinality(S) = 0
    BY <1>1, FS_EmptySet
  <2>2. 0 .. 0 - 1 = {}
    OBVIOUS
  <2> QED
    BY <1>1, <2>1, <2>2
<1>2. CASE S # {}
  <2> DEFINE m == Max(S)
  <2>1. m \in S /\ \A s \in S : s <= m
    <3>1. S \in SUBSET Nat /\ \A s \in S : s <= n
      OBVIOUS
    <3> QED
      BY <1>2, <3>1, MaxFacts
  <2> HIDE DEF m
  <2>2. S = 0 .. m
    <3>1. m \in 0 .. n - 1 /\ \A s \in S : s \in Nat /\ s <= m
      BY <2>1
    <3>2. S \subseteq 0 .. m
      BY <3>1
    <3>3. ASSUME NEW q \in 0 .. m PROVE q \in S
      <4>1. q \in 0 .. n - 1 /\ (q < m \/ q = m)
        BY <3>1
      <4> QED
        BY <2>1, <4>1
    <3> QED
      BY <3>2, <3>3
  <2>3. Cardinality(0 .. m) = m + 1
    BY <2>1, FS_Interval
  <2>4. m \in Nat
    BY <2>1
  <2>5. 0 .. m = 0 .. m + 1 - 1
    BY <2>4
  <2> QED
    BY <2>2, <2>3, <2>4, <2>5
<1> QED
  BY <1>1, <1>2

\* A virtual page and its indices.
LEMMA VirtualFacts ==
  /\ \A d, e \in Entries : /\ Virtual(d, e) \in 0 .. ENTRIES * ENTRIES - 1
                           /\ DirIndex(Virtual(d, e)) = d /\ TableIndex(Virtual(d, e)) = e
  /\ \A v \in 0 .. ENTRIES * ENTRIES - 1 :
       DirIndex(v) \in Entries /\ TableIndex(v) \in Entries
       /\ v = Virtual(DirIndex(v), TableIndex(v))
<1>1. ENTRIES \in Nat \ {0}
  BY Constants
<1>2. ASSUME NEW d \in Entries, NEW e \in Entries
      PROVE  /\ Virtual(d, e) \in 0 .. ENTRIES * ENTRIES - 1
             /\ DirIndex(Virtual(d, e)) = d /\ TableIndex(Virtual(d, e)) = e
  <2>1. d \in Nat /\ d < ENTRIES /\ e \in 0 .. ENTRIES - 1
    BY <1>1 DEF Entries
  <2>2. d * ENTRIES + ENTRIES <= ENTRIES * ENTRIES /\ d * ENTRIES \in Nat
    BY <1>1, <2>1, ProductOrdered
  <2>3. (d * ENTRIES + e) \div ENTRIES = d /\ (d * ENTRIES + e) % ENTRIES = e
    BY <1>1, <2>1, DividedUnique
  <2>4. ENTRIES * ENTRIES \in Nat
    BY Constants
  <2>5. d * ENTRIES + e \in 0 .. ENTRIES * ENTRIES - 1
    <3> DEFINE x == d * ENTRIES
               y == ENTRIES * ENTRIES
    <3>1. x \in Nat /\ y \in Nat /\ x + ENTRIES <= y
      BY <2>2, <2>4
    <3> HIDE DEF x, y
    <3>2. x + e \in 0 .. y - 1
      BY <1>1, <2>1, <3>1
    <3> QED
      BY <3>2 DEF x, y
  <2> QED
    BY <2>3, <2>5 DEF Virtual, DirIndex, TableIndex
<1>3. ASSUME NEW v \in 0 .. ENTRIES * ENTRIES - 1
      PROVE  /\ DirIndex(v) \in Entries /\ TableIndex(v) \in Entries
             /\ v = Virtual(DirIndex(v), TableIndex(v))
  <2> DEFINE d == v \div ENTRIES
             e == v % ENTRIES
  <2>0. v \in Nat /\ v < ENTRIES * ENTRIES
    BY Constants
  <2>1. d \in Nat /\ e \in 0 .. ENTRIES - 1 /\ v = d * ENTRIES + e
    BY <1>1, <2>0, Divided
  <2> HIDE DEF d, e
  <2>2. d < ENTRIES
    <3>1. ENTRIES < d => ENTRIES * ENTRIES + ENTRIES <= d * ENTRIES
      BY <1>1, <2>1, ProductOrdered
    <3>2. d * ENTRIES \in Nat /\ ENTRIES * ENTRIES \in Nat
      BY <1>1, <2>1, SMT
    <3>3. d # ENTRIES
      BY <1>1, <2>0, <2>1, <3>2
    <3>4. ~(ENTRIES < d)
      BY <1>1, <2>0, <2>1, <3>1, <3>2
    <3> QED
      BY <1>1, <2>1, <3>3, <3>4
  <2>3. d \in Entries /\ e \in Entries
    BY <1>1, <2>1, <2>2 DEF Entries
  <2> QED
    BY <2>1, <2>3 DEF d, e, Virtual, DirIndex, TableIndex
<1> QED
  BY <1>2, <1>3

-----------------------------------------------------------------------------
(***************************************************************************)
(* The invariant: which regions are marked after which step, that until    *)
(* the directory is there all that is used lies below the end of the       *)
(* bitmap, that the directory takes the first page behind it, and the      *)
(* tables pages behind all that paging_init has reserved, each its own;    *)
(* and that the map holds the pages the loops have come to, nothing else.  *)
(***************************************************************************)
Early == {"kernel", "modules", "bitmap", "framebuffer", "directory"}
Late  == pc \notin Early \cup {"reserve"} /\ Sound
Word  == {Absent, Junk} \cup 0 .. ENTRIES * ENTRIES - 1
KernelFrames == Frames(MB, machine.kernel_end)

PagingTypes ==
  /\ machine \in Machines
  /\ used \subseteq Pages /\ used_pages = Cardinality(used)
  /\ mem \in [0 .. Start + machine.total_pages - 1 -> [Entries -> Word]]
  /\ dir \in 0 .. Start + machine.total_pages - 1
  /\ enabled \in BOOLEAN /\ exhausted \in BOOLEAN /\ pc \in Labels
  /\ addr \in Nat /\ addr <= Base(ENTRIES * ENTRIES) /\ Base(Frame(addr)) = addr

Marked ==
  /\ pc # "kernel" => KernelFrames \subseteq UsedFrames
  /\ pc \notin {"kernel", "modules"} => Loaded \subseteq UsedFrames
  /\ pc \notin {"kernel", "modules", "bitmap"} => Bitmap \subseteq UsedFrames
  /\ pc \in Early => /\ dir = 0 /\ ~exhausted
                     /\ \A f \in UsedFrames : Base(f) < BitmapEnd(machine)
  /\ enabled => pc \notin Early \cup {"reserve", "identity", "enable"}
  /\ pc = "ready" => Len(machine.mods) >= 2

DirectoryPlaced ==
  (pc \notin Early /\ Sound) =>
    /\ dir \in UsedFrames /\ dir \notin Loaded \cup Bitmap /\ Base(dir) < ORBIT_BASE
    /\ pc # "stopped"
    /\ pc = "reserve" =>
         /\ \A e \in Entries : mem[dir][e] = Absent
         /\ \A f \in UsedFrames : Base(f) < BitmapEnd(machine) \/ f = dir

TablesPlaced ==
  Late =>
    /\ used = 0 .. used_pages - 1
    /\ \A p \in Pages : Base(p + Start) < ActualUsed => p \in used
    /\ \A e \in Entries : mem[dir][e] # Absent
                           => mem[dir][e] \in UsedFrames /\ ActualUsed <= Base(mem[dir][e])
    /\ \A d, e \in Entries : mem[dir][d] = mem[dir][e] => d = e \/ mem[dir][d] = Absent
    /\ pc = "map_fb" => addr >= FB_ADDR

\* The pages the loops of identity_map_region have come to.
MappedPages ==
  {v \in 0 .. ENTRIES * ENTRIES - 1 :
     \/ v \in Frames(0, KERNEL_SPACE) /\ (pc = "identity" => Base(v) < addr)
     \/ /\ v \in Frames(FB_ADDR, FB_ADDR + FB_SIZE) /\ pc \notin {"identity", "enable"}
        /\ pc = "map_fb" => Base(v) < addr}

Mapped ==
  Late =>
    \A d, e \in Entries :
      /\ mem[dir][d] = Absent => Virtual(d, e) \notin MappedPages
      /\ mem[dir][d] # Absent =>
           mem[mem[dir][d]][e] = IF Virtual(d, e) \in MappedPages THEN Virtual(d, e) ELSE Absent

PagingInv == PagingTypes /\ Marked /\ DirectoryPlaced /\ TablesPlaced /\ Mapped

LEMMA SameMachine ==
  ASSUME machine' = machine
  PROVE  /\ KernelFrames' = KernelFrames /\ Loaded' = Loaded /\ Bitmap' = Bitmap
         /\ BitmapEnd(machine') = BitmapEnd(machine) /\ Pages' = Pages
         /\ dir' = dir => ActualUsed' = ActualUsed
<1>1. KernelFrames' = KernelFrames /\ Pages' = Pages
  BY DEF KernelFrames, Pages
<1>2. Loaded' = Loaded /\ Bitmap' = Bitmap /\ BitmapEnd(machine') = BitmapEnd(machine)
  BY DEF Loaded, Bitmap
<1>3. ASSUME dir' = dir PROVE ActualUsed' = ActualUsed
  <2>1. Highest' = Highest
    BY DEF Highest
  <2>2. ReservationEnd' = ReservationEnd
    BY <2>1 DEF ReservationEnd
  <2> QED
    BY <1>3, <2>2 DEF ActualUsed
<1> QED
  BY <1>1, <1>2, <1>3

LEMMA UsedGrows == ASSUME used \subseteq used' PROVE UsedFrames \subseteq UsedFrames'
BY DEF UsedFrames, FramesOf

LEMMA UsedFacts ==
  ASSUME PagingTypes
  PROVE  /\ used \in SUBSET Nat /\ IsFiniteSet(used) /\ used_pages \in Nat
         /\ \A f : f \in UsedFrames <=> f \in Nat /\ f - Start \in used
         /\ \A f \in UsedFrames : f \in 0 .. Start + machine.total_pages - 1
                                 /\ Start <= f /\ MB <= Base(f)
                                 /\ Base(f) < MB + Base(machine.total_pages)
<1>1. machine \in Machines /\ used \subseteq Pages /\ used_pages = Cardinality(used)
  BY DEF PagingTypes
<1>2. used \in SUBSET Nat /\ IsFiniteSet(used)
  BY <1>1, PagesFacts, FS_Subset
<1>3. used_pages \in Nat
  BY <1>1, <1>2, FS_CardinalityType
<1>4. \A f : f \in UsedFrames <=> f \in Nat /\ f - Start \in used
  BY <1>2, FramesOfFacts DEF UsedFrames
<1>5. ASSUME NEW f \in UsedFrames
      PROVE  /\ f \in 0 .. Start + machine.total_pages - 1
             /\ Start <= f /\ MB <= Base(f)
             /\ Base(f) < MB + Base(machine.total_pages)
  <2>1. f \in Nat /\ f - Start \in Pages
    BY <1>1, <1>4
  <2> QED
    BY <1>1, <2>1, PagesFacts
<1> QED
  BY <1>2, <1>3, <1>4, <1>5

LEMMA MarkFacts ==
  ASSUME PagingTypes, NEW region \in SUBSET Pages, Mark(region)
  PROVE  /\ used' = used \cup region /\ used \subseteq used'
         /\ used' \subseteq Pages /\ used_pages' = Cardinality(used')
         /\ UsedFrames' = UsedFrames \cup FramesOf(region)
         /\ machine' = machine /\ mem' = mem /\ dir' = dir /\ enabled' = enabled
         /\ exhausted' = exhausted
<1>1. /\ used' = used \cup region /\ used_pages' = used_pages + Cardinality(region \ used)
      /\ machine' = machine /\ mem' = mem /\ dir' = dir /\ enabled' = enabled
      /\ exhausted' = exhausted
  BY DEF Mark, Added
<1>2. used \subseteq Pages /\ used_pages = Cardinality(used) /\ IsFiniteSet(Pages)
  BY PagesFacts DEF PagingTypes
<1>3. Cardinality(used \cup region) = Cardinality(used) + Cardinality(region \ used)
  <2>1. IsFiniteSet(used) /\ IsFiniteSet(region \ used)
    BY <1>2, FS_Subset
  <2>2. used \cup region = used \cup (region \ used) /\ used \cap (region \ used) = {}
    OBVIOUS
  <2>3. Cardinality(used \cup (region \ used))
          = Cardinality(used) + Cardinality(region \ used) - Cardinality(used \cap (region \ used))
    BY <2>1, FS_Union
  <2>4. Cardinality(used) \in Nat /\ Cardinality(region \ used) \in Nat
    BY <2>1, FS_CardinalityType
  <2>5. Cardinality(used \cap (region \ used)) = 0
    BY <2>2, FS_EmptySet
  <2>6. Cardinality(used \cup region) = Cardinality(used \cup (region \ used))
    BY <2>2
  <2> QED
    BY <2>3, <2>4, <2>5, <2>6
<1>4. FramesOf(used \cup region) = FramesOf(used) \cup FramesOf(region)
  BY DEF FramesOf
<1> QED
  BY <1>1, <1>2, <1>3, <1>4 DEF UsedFrames

LEMMA AllocFacts ==
  ASSUME PagingTypes, machine' = machine, NEW frame \in Nat, Alloc(frame)
  PROVE  /\ used \subseteq used' /\ used' \subseteq Pages /\ used_pages' = Cardinality(used')
         /\ exhausted' \in BOOLEAN /\ (exhausted => exhausted')
         /\ ~exhausted' =>
              /\ frame - Start \in Pages \ used /\ frame \in UsedFrames' /\ frame # 0
              /\ \A q \in Pages \ used : frame - Start <= q
              /\ UsedFrames' = UsedFrames \cup {frame}
              /\ used = 0 .. used_pages - 1 => used' = 0 .. used_pages' - 1
         /\ exhausted' => frame = 0 \/ frame \in 0 .. Start + machine.total_pages - 1
<1>0. /\ used \subseteq Pages /\ used_pages = Cardinality(used) /\ IsFiniteSet(used)
      /\ used_pages \in Nat /\ exhausted \in BOOLEAN /\ machine \in Machines
  BY UsedFacts DEF PagingTypes
<1>1. CASE /\ frame - Start \in Pages \ used
           /\ \A q \in Pages \ used : frame - Start <= q
           /\ used' = Taken(frame - Start) /\ used_pages' = used_pages + 1
           /\ UNCHANGED exhausted
  <2> DEFINE p == frame - Start
  <2>1. p \in Pages \ used /\ used' = used \cup {p} /\ used_pages' = used_pages + 1
        /\ exhausted' = exhausted
    BY <1>1 DEF Taken
  <2>2. Start \in Nat /\ Start > 0 /\ Start <= frame
        /\ frame \in 0 .. Start + machine.total_pages - 1
    BY <1>0, <2>1, PagesFacts, StartFacts
  <2>3. p + Start = frame
    BY <2>2
  <2> HIDE DEF p
  <2>4. used' \subseteq Pages /\ used_pages' = Cardinality(used')
    BY <1>0, <2>1, FS_AddElement
  <2>5. UsedFrames' = UsedFrames \cup {frame}
    BY <2>1, <2>3 DEF UsedFrames, FramesOf
  <2>6. ASSUME used = 0 .. used_pages - 1 PROVE used' = 0 .. used_pages' - 1
    <3> DEFINE n == used_pages
               t == machine.total_pages
    <3>1. Pages = 0 .. t - 1 /\ t \in Nat /\ p \in Nat /\ n \in Nat /\ used = 0 .. n - 1
      BY <1>0, <2>1, <2>6, PagesFacts DEF Pages
    <3>2. p \in Pages /\ p \notin used /\ used' = used \cup {p} /\ used_pages' = n + 1
      BY <2>1
    <3>3. \A q \in Pages \ used : p <= q
      BY <1>1 DEF p
    <3> HIDE DEF n, t
    <3>4. p >= n
      BY <3>1, <3>2
    <3>5. n \in Pages \ used
      BY <3>1, <3>2, <3>4
    <3>6. p = n
      BY <3>1, <3>3, <3>4, <3>5
    <3>7. 0 .. n + 1 - 1 = (0 .. n - 1) \cup {n}
      BY <3>1
    <3> QED
      BY <3>1, <3>2, <3>6, <3>7
  <2>7. used \subseteq used' /\ exhausted' \in BOOLEAN /\ (exhausted => exhausted')
    BY <1>0, <2>1
  <2>8. frame \in UsedFrames' /\ frame # 0
    BY <2>2, <2>5
  <2> QED
    BY <1>1, <2>1, <2>2, <2>4, <2>5, <2>6, <2>7, <2>8 DEF p
<1>2. CASE Pages \subseteq used /\ frame = 0 /\ exhausted' = TRUE /\ UNCHANGED bitmapVars
  BY <1>0, <1>2 DEF bitmapVars
<1> QED
  BY <1>1, <1>2 DEF Alloc

\* A word written into a frame, and a frame cleared.
LEMMA WordWritten ==
  ASSUME NEW m, NEW D, m \in [D -> [Entries -> Word]], NEW f, NEW e, NEW w \in Word
  PROVE  /\ [m EXCEPT ![f][e] = w] \in [D -> [Entries -> Word]]
         /\ f \in D => [m EXCEPT ![f][e] = w][f] = [m[f] EXCEPT ![e] = w]
         /\ \A g \in D \ {f} : [m EXCEPT ![f][e] = w][g] = m[g]
OBVIOUS

LEMMA ClearedFacts ==
  ASSUME PagingTypes, NEW f \in Nat
  PROVE  /\ Cleared(f) \in [0 .. Start + machine.total_pages - 1 -> [Entries -> Word]]
         /\ \A g \in 0 .. Start + machine.total_pages - 1 :
              Cleared(f)[g] = IF g = f THEN [e \in Entries |-> Absent] ELSE mem[g]
BY DEF Cleared, PagingTypes, Word

LEMMA PagingInit == Init => PagingInv
<1> SUFFICES ASSUME Init PROVE PagingInv
  OBVIOUS
<1>1. /\ machine \in Machines /\ used = {} /\ used_pages = 0
      /\ mem = [f \in 0 .. Start + machine.total_pages - 1 |-> [e \in Entries |-> Junk]]
      /\ dir = 0 /\ enabled = FALSE /\ pc = "kernel" /\ addr = 0 /\ exhausted = FALSE
  BY DEF Init
<1>2. PagingTypes
  <2>1. used \subseteq Pages /\ used_pages = Cardinality(used)
    BY <1>1, FS_EmptySet
  <2>2. dir \in 0 .. Start + machine.total_pages - 1
    BY <1>1, PagesFacts
  <2>3. addr \in Nat /\ addr <= Base(ENTRIES * ENTRIES) /\ Base(Frame(addr)) = addr
    <3>1. Base(ENTRIES * ENTRIES) \in Nat
      BY Constants, BaseFacts
    <3>2. Base(0) = 0 /\ Frame(Base(0)) = 0
      BY BaseFacts
    <3> QED
      BY <1>1, <3>1, <3>2
  <2>4. mem \in [0 .. Start + machine.total_pages - 1 -> [Entries -> Word]]
    BY <1>1 DEF Word
  <2> QED
    BY <1>1, <2>1, <2>2, <2>3, <2>4 DEF PagingTypes, Labels
<1>3. Marked
  <2>1. UsedFrames = {}
    BY <1>1 DEF UsedFrames, FramesOf
  <2> QED
    BY <1>1, <2>1 DEF Marked
<1>4. pc \in Early /\ ~Late
  BY <1>1 DEF Early, Late
<1> QED
  BY <1>2, <1>3, <1>4 DEF PagingInv, DirectoryPlaced, TablesPlaced, Mapped

LEMMA EarlyMark ==
  ASSUME PagingInv, NEW region \in SUBSET Pages, Mark(region), pc \in Early, pc' \in Early,
         UNCHANGED addr,
         \A f \in FramesOf(region) : Base(f) < BitmapEnd(machine),
         KernelFrames \subseteq UsedFrames \cup FramesOf(region),
         pc' \notin {"kernel", "modules"} => Loaded \subseteq UsedFrames \cup FramesOf(region),
         pc' \notin {"kernel", "modules", "bitmap"}
           => Bitmap \subseteq UsedFrames \cup FramesOf(region)
  PROVE  PagingInv'
<1>1. PagingTypes /\ Marked
  BY DEF PagingInv
<1>2. /\ used' \subseteq Pages /\ used_pages' = Cardinality(used')
      /\ UsedFrames' = UsedFrames \cup FramesOf(region)
      /\ machine' = machine /\ mem' = mem /\ dir' = dir /\ enabled' = enabled
      /\ exhausted' = exhausted
  BY <1>1, MarkFacts
<1>3. /\ KernelFrames' = KernelFrames /\ Loaded' = Loaded /\ Bitmap' = Bitmap
      /\ BitmapEnd(machine') = BitmapEnd(machine) /\ Pages' = Pages
  BY <1>2, SameMachine
<1>4. PagingTypes'
  <2>1. pc' \in Labels
    BY DEF Early, Labels
  <2> QED
    BY <1>1, <1>2, <1>3, <2>1 DEF PagingTypes
<1>5. Marked'
  <2>1. ~enabled'
    BY <1>1, <1>2 DEF Marked, PagingTypes
  <2>2. dir' = 0 /\ ~exhausted' /\ \A f \in UsedFrames' : Base(f) < BitmapEnd(machine')
    BY <1>1, <1>2, <1>3 DEF Marked
  <2> QED
    BY <1>2, <1>3, <2>1, <2>2 DEF Marked, Early
<1> QED
  BY <1>4, <1>5 DEF PagingInv, DirectoryPlaced, TablesPlaced, Mapped, Late

LEMMA MarkKernelStep == ASSUME PagingInv, MarkKernel PROVE PagingInv'
<1>1. /\ pc = "kernel" /\ pc' = "modules" /\ UNCHANGED addr
      /\ Mark(Region(MB, machine.kernel_end))
  BY DEF MarkKernel, Step
<1>2. machine \in Machines
  BY DEF PagingInv, PagingTypes
<1> DEFINE b == machine.kernel_end
<1>3. b \in Nat /\ b <= BitmapAddr(machine) /\ BitmapAddr(machine) <= BitmapEnd(machine)
      /\ BitmapAddr(machine) \in Nat /\ BitmapEnd(machine) \in Nat
      /\ b <= MB + Base(machine.total_pages)
  BY <1>2, MachineFacts
<1>4. KernelFrames = Frames(MB, b)
  BY DEF KernelFrames
<1>5. Mark(Region(MB, b))
  BY <1>1
<1> HIDE DEF b
<1>6. /\ Region(MB, b) \in SUBSET Pages
      /\ Frames(MB, b) \subseteq FramesOf(Region(MB, b))
      /\ \A f \in FramesOf(Region(MB, b)) : f \in Nat /\ Base(f) < b
  BY <1>2, <1>3, RegionFacts, Constants
<1>7. \A f \in FramesOf(Region(MB, b)) : Base(f) < BitmapEnd(machine)
  BY <1>3, <1>6, BaseFacts
<1> DEFINE region == Region(MB, b)
<1>8. /\ region \in SUBSET Pages /\ Mark(region) /\ KernelFrames \subseteq FramesOf(region)
      /\ \A f \in FramesOf(region) : Base(f) < BitmapEnd(machine)
  BY <1>4, <1>5, <1>6, <1>7
<1>9. pc \in Early /\ pc' \in Early
  BY <1>1 DEF Early
<1> HIDE DEF region
<1>10. KernelFrames \subseteq UsedFrames \cup FramesOf(region)
  BY <1>8
<1> QED
  BY <1>1, <1>8, <1>9, <1>10, EarlyMark

LEMMA MarkModulesStep == ASSUME PagingInv, MarkModules PROVE PagingInv'
<1> DEFINE mods == Range(machine.mods)
           region == UNION {Region(mod.start, mod.end) : mod \in mods}
<1>1. pc = "modules" /\ pc' = "bitmap" /\ UNCHANGED addr /\ Mark(region)
  BY DEF MarkModules, Step
<1>2. machine \in Machines /\ Marked
  BY DEF PagingInv, PagingTypes
<1>3. ASSUME NEW mod \in mods
      PROVE  /\ Region(mod.start, mod.end) \in SUBSET Pages
             /\ Frames(mod.start, mod.end) \subseteq FramesOf(Region(mod.start, mod.end))
             /\ \A f \in FramesOf(Region(mod.start, mod.end)) : Base(f) < BitmapEnd(machine)
  <2> DEFINE a == mod.start
             b == mod.end
  <2>1. /\ a \in Nat /\ b \in Nat /\ MB < a /\ b <= MB + Base(machine.total_pages)
        /\ b <= BitmapAddr(machine) /\ BitmapAddr(machine) <= BitmapEnd(machine)
        /\ BitmapAddr(machine) \in Nat /\ BitmapEnd(machine) \in Nat /\ MB \in Nat
    BY <1>2, MachineFacts, Constants
  <2> HIDE DEF a, b
  <2>2. /\ Region(a, b) \in SUBSET Pages
        /\ Frames(a, b) \subseteq FramesOf(Region(a, b))
        /\ \A f \in FramesOf(Region(a, b)) : f \in Nat /\ Base(f) < b
    BY <1>2, <2>1, RegionFacts
  <2>3. \A f \in FramesOf(Region(a, b)) : Base(f) < BitmapEnd(machine)
    BY <2>1, <2>2, BaseFacts
  <2> QED
    BY <2>2, <2>3 DEF a, b
<1>4. region \in SUBSET Pages
  BY <1>3
<1>5. \A f \in FramesOf(region) :
        \E mod \in mods : f \in FramesOf(Region(mod.start, mod.end))
  BY DEF FramesOf
<1>6. \A mod \in mods : FramesOf(Region(mod.start, mod.end)) \subseteq FramesOf(region)
  BY DEF FramesOf
<1>7. \A f \in FramesOf(region) : Base(f) < BitmapEnd(machine)
  BY <1>3, <1>5
<1>8. Loaded = KernelFrames \cup UNION {Frames(mod.start, mod.end) : mod \in mods}
  BY DEF Loaded, KernelFrames
<1>9. KernelFrames \subseteq UsedFrames
  BY <1>1, <1>2 DEF Marked
<1>10. UNION {Frames(mod.start, mod.end) : mod \in mods} \subseteq FramesOf(region)
  BY <1>3, <1>6
<1> HIDE DEF region, mods
<1>11. /\ KernelFrames \subseteq UsedFrames \cup FramesOf(region)
       /\ Loaded \subseteq UsedFrames \cup FramesOf(region)
  BY <1>8, <1>9, <1>10
<1>12. pc \in Early /\ pc' \in Early
  BY <1>1 DEF Early
<1> QED
  BY <1>1, <1>4, <1>7, <1>11, <1>12, EarlyMark

LEMMA MarkBitmapStep == ASSUME PagingInv, MarkBitmap PROVE PagingInv'
<1> DEFINE a == BitmapAddr(machine)
           b == BitmapEnd(machine)
           region == Region(a, b)
<1>1. pc = "bitmap" /\ pc' = "framebuffer" /\ UNCHANGED addr /\ Mark(region)
  BY DEF MarkBitmap, Step
<1>2. machine \in Machines /\ Marked
  BY DEF PagingInv, PagingTypes
<1>3. a \in Nat /\ b \in Nat /\ MB <= a /\ b <= MB + Base(machine.total_pages)
  <2>1. /\ machine.kernel_end <= a /\ MB < machine.kernel_end /\ machine.kernel_end \in Nat
        /\ a \in Nat /\ b \in Nat /\ b + PAGE_SIZE < MB + Base(machine.total_pages)
    BY <1>2, MachineFacts
  <2>2. MB \in Nat /\ PAGE_SIZE \in Nat /\ Base(machine.total_pages) \in Nat
    BY <1>2, PagesFacts, BaseFacts, Constants
  <2> HIDE DEF a, b
  <2> QED
    BY <2>1, <2>2
<1>4. Bitmap = Frames(a, b)
  BY DEF Bitmap
<1>5. b = BitmapEnd(machine)
  OBVIOUS
<1> HIDE DEF a, b
<1>6. /\ region \in SUBSET Pages /\ Frames(a, b) \subseteq FramesOf(region)
      /\ \A f \in FramesOf(region) : f \in Nat /\ Base(f) < b
  BY <1>2, <1>3, RegionFacts
<1>7. KernelFrames \subseteq UsedFrames /\ Loaded \subseteq UsedFrames
  BY <1>1, <1>2 DEF Marked
<1> HIDE DEF region
<1>8. /\ KernelFrames \subseteq UsedFrames \cup FramesOf(region)
      /\ Loaded \subseteq UsedFrames \cup FramesOf(region)
      /\ Bitmap \subseteq UsedFrames \cup FramesOf(region)
      /\ \A f \in FramesOf(region) : Base(f) < BitmapEnd(machine)
  BY <1>4, <1>5, <1>6, <1>7
<1>9. pc \in Early /\ pc' \in Early
  BY <1>1 DEF Early
<1> QED
  BY <1>1, <1>6, <1>8, <1>9, EarlyMark

\* No page of the framebuffer is in memory.
LEMMA MarkFramebufferStep == ASSUME PagingInv, MarkFramebuffer PROVE PagingInv'
<1> DEFINE region == Region(FB_ADDR, FB_ADDR + FB_SIZE)
<1>1. pc = "framebuffer" /\ pc' = "directory" /\ UNCHANGED addr /\ Mark(region)
  BY DEF MarkFramebuffer, Step
<1>2. machine \in Machines /\ Marked
  BY DEF PagingInv, PagingTypes
<1>3. region \in SUBSET Pages
      /\ \A f \in Nat : f - Start \in region => f - Start \in Pages /\ Base(f) + PAGE_SIZE > FB_ADDR
  <2> DEFINE b == FB_ADDR + FB_SIZE
  <2>1. FB_ADDR \in Nat /\ b \in Nat
    BY Constants
  <2> HIDE DEF b
  <2>2. Region(FB_ADDR, b) \in SUBSET Pages
        /\ \A f \in Nat : f - Start \in Region(FB_ADDR, b)
                            => f - Start \in Pages /\ Base(f) + PAGE_SIZE > FB_ADDR
    BY <1>2, <2>1, RegionFacts
  <2> QED
    BY <2>2 DEF b
<1> HIDE DEF region
<1>4. region = {}
  <2> SUFFICES ASSUME NEW p \in region PROVE FALSE
    OBVIOUS
  <2>1. p \in Nat /\ Start \in Nat /\ p < machine.total_pages /\ machine.total_pages \in Nat
    BY <1>2, <1>3, PagesFacts, StartFacts DEF Pages
  <2>2. p + Start \in Nat /\ (p + Start) - Start = p
    BY <2>1
  <2>3. Base(p + Start) + PAGE_SIZE > FB_ADDR
    BY <1>3, <2>2
  <2>4. Base(p + Start) = Base(p) + MB
    BY <2>1, BaseSum, StartFacts
  <2>5. Base(p) + PAGE_SIZE <= Base(machine.total_pages)
    BY <2>1, BaseFacts
  <2>6. MB + Base(machine.total_pages) <= FB_ADDR
    BY <1>2, MachineFacts
  <2>7. Base(p) \in Nat /\ Base(machine.total_pages) \in Nat /\ MB \in Nat /\ FB_ADDR \in Nat
        /\ PAGE_SIZE \in Nat
    BY <2>1, BaseFacts, Constants
  <2> QED
    BY <2>3, <2>4, <2>5, <2>6, <2>7
<1>5. FramesOf(region) = {}
  BY <1>4 DEF FramesOf
<1>6. KernelFrames \subseteq UsedFrames /\ Loaded \subseteq UsedFrames /\ Bitmap \subseteq UsedFrames
  BY <1>1, <1>2 DEF Marked
<1>7. /\ KernelFrames \subseteq UsedFrames \cup FramesOf(region)
      /\ Loaded \subseteq UsedFrames \cup FramesOf(region)
      /\ Bitmap \subseteq UsedFrames \cup FramesOf(region)
      /\ \A f \in FramesOf(region) : Base(f) < BitmapEnd(machine)
  BY <1>5, <1>6
<1>8. pc \in Early /\ pc' \in Early
  BY <1>1 DEF Early
<1> QED
  BY <1>1, <1>3, <1>7, <1>8, EarlyMark

\* The directory is on the first page behind the bitmap, or nearer.
LEMMA AllocDirectoryStep == ASSUME PagingInv, AllocDirectory PROVE PagingInv'
<1>1. /\ pc = "directory" /\ pc' = "reserve"
      /\ UNCHANGED <<machine, enabled, addr>>
  BY DEF AllocDirectory, Step
<1>2. PagingTypes /\ Marked /\ machine \in Machines
  BY DEF PagingInv, PagingTypes
<1>3. PICK frame \in DOMAIN mem : Alloc(frame) /\ dir' = frame /\ mem' = Cleared(frame)
  BY DEF AllocDirectory
<1>4. frame \in 0 .. Start + machine.total_pages - 1 /\ frame \in Nat
  <2>1. DOMAIN mem = 0 .. Start + machine.total_pages - 1
    BY <1>2 DEF PagingTypes
  <2> QED
    BY <1>2, <1>3, <2>1, PagesFacts
<1>5. /\ used \subseteq used' /\ used' \subseteq Pages /\ used_pages' = Cardinality(used')
      /\ exhausted' \in BOOLEAN
      /\ ~exhausted' =>
           /\ frame - Start \in Pages \ used /\ frame \in UsedFrames'
           /\ \A q \in Pages \ used : frame - Start <= q
           /\ UsedFrames' = UsedFrames \cup {frame}
  BY <1>1, <1>2, <1>3, <1>4, AllocFacts
<1>6. /\ KernelFrames' = KernelFrames /\ Loaded' = Loaded /\ Bitmap' = Bitmap
      /\ BitmapEnd(machine') = BitmapEnd(machine) /\ Pages' = Pages
  BY <1>1, SameMachine
<1>7. /\ mem' \in [0 .. Start + machine.total_pages - 1 -> [Entries -> Word]]
      /\ mem'[frame] = [e \in Entries |-> Absent]
  BY <1>2, <1>3, <1>4, ClearedFacts
<1>8. PagingTypes'
  BY <1>1, <1>2, <1>3, <1>4, <1>5, <1>6, <1>7 DEF PagingTypes, Labels
<1>9. UsedFrames \subseteq UsedFrames'
  BY <1>5, UsedGrows
<1>10. KernelFrames \subseteq UsedFrames /\ Loaded \subseteq UsedFrames /\ Bitmap \subseteq UsedFrames
       /\ \A f \in UsedFrames : Base(f) < BitmapEnd(machine)
  BY <1>1, <1>2 DEF Marked, Early
<1>11. Marked'
  <2>1. pc' \notin Early
    BY <1>1 DEF Early
  <2>2. ~enabled'
    BY <1>1, <1>2 DEF Marked, Early, PagingTypes
  <2> QED
    BY <1>1, <1>6, <1>9, <1>10, <2>1, <2>2 DEF Marked
<1>12. DirectoryPlaced'
  <2> SUFFICES ASSUME Sound'
               PROVE  /\ frame \in UsedFrames' /\ frame \notin Loaded \cup Bitmap
                      /\ Base(frame) < ORBIT_BASE
                      /\ \A e \in Entries : mem'[frame][e] = Absent
                      /\ \A f \in UsedFrames' : Base(f) < BitmapEnd(machine) \/ f = frame
    BY <1>1, <1>3, <1>6 DEF DirectoryPlaced
  <2>1. ~exhausted' /\ BitmapEnd(machine) + PAGE_SIZE <= ORBIT_BASE
    BY <1>6 DEF Sound
  <2>2. frame \notin UsedFrames
    <3>1. \A f : f \in UsedFrames <=> f \in Nat /\ f - Start \in used
      BY <1>2, UsedFacts
    <3> QED
      BY <1>5, <2>1, <3>1
  <2>3. Base(frame) < ORBIT_BASE
    <3> DEFINE b == BitmapEnd(machine)
    <3>1. /\ b \in Nat /\ MB < b /\ b + PAGE_SIZE < MB + Base(machine.total_pages)
          /\ PAGE_SIZE \in Nat /\ MB \in Nat /\ Base(machine.total_pages) \in Nat
          /\ ORBIT_BASE \in Nat
      <4>1. /\ BitmapEnd(machine) \in Nat /\ BitmapAddr(machine) \in Nat
            /\ BitmapAddr(machine) <= BitmapEnd(machine)
            /\ machine.kernel_end \in Nat
            /\ MB < machine.kernel_end /\ machine.kernel_end <= BitmapAddr(machine)
            /\ BitmapEnd(machine) + PAGE_SIZE < MB + Base(machine.total_pages)
        BY <1>2, MachineFacts
      <4>2. PAGE_SIZE \in Nat /\ MB \in Nat /\ Base(machine.total_pages) \in Nat
        BY <1>2, PagesFacts, BaseFacts, Constants
      <4>3. ORBIT_BASE \in Nat
        BY Constants
      <4> QED
        BY <4>1, <4>2, <4>3
    <3>2. b = BitmapEnd(machine)
      OBVIOUS
    <3> HIDE DEF b
    <3> DEFINE g == Frame(Up(b, PAGE_SIZE))
    <3>3. g \in Nat /\ Base(g) \in Nat /\ b <= Base(g) /\ Base(g) < b + PAGE_SIZE
      <4>1. PICK k \in Nat : Up(b, PAGE_SIZE) = k * PAGE_SIZE
        BY <3>1, Constants, UpFacts
      <4>2. b <= Base(k) /\ Base(k) < b + PAGE_SIZE /\ g = k
        BY <3>1, <4>1, Constants, BaseFacts, UpFacts DEF Base
      <4> QED
        BY <4>2, BaseFacts
    <3> HIDE DEF g
    <3>4. g - Start \in Pages
      <4>1. MB <= Base(g) /\ Base(g) < MB + Base(machine.total_pages)
        BY <3>1, <3>3
      <4> QED
        BY <1>2, <3>3, <4>1, PagesFacts
    <3>5. g - Start \notin used
      <4>1. g \notin UsedFrames
        BY <1>10, <3>1, <3>2, <3>3
      <4> QED
        BY <1>2, <3>3, <4>1, UsedFacts
    <3>6. frame - Start <= g - Start
      BY <1>5, <2>1, <3>4, <3>5
    <3>7. frame <= g
      BY <1>4, <3>3, <3>6, StartFacts
    <3>8. Base(frame) <= Base(g) /\ Base(frame) \in Nat
      BY <1>4, <3>3, <3>7, BaseOrder, BaseFacts
    <3> QED
      BY <2>1, <3>1, <3>2, <3>3, <3>8
  <2> QED
    BY <1>5, <1>7, <1>10, <2>1, <2>2, <2>3
<1>13. ~Late'
  BY <1>1 DEF Late
<1> QED
  BY <1>8, <1>11, <1>12, <1>13 DEF PagingInv, TablesPlaced, Mapped

\* What stays when the bitmap has only gained pages and everything else is as it was.
LEMMA RegionsKept ==
  ASSUME PagingInv, machine' = machine, dir' = dir, enabled' = enabled,
         used \subseteq used', pc \notin Early, pc' \notin Early,
         enabled' => pc' \notin {"reserve", "identity", "enable"},
         pc' = "ready" => pc = "ready"
  PROVE  Marked'
<1>1. /\ KernelFrames' = KernelFrames /\ Loaded' = Loaded /\ Bitmap' = Bitmap
  BY SameMachine
<1>2. UsedFrames \subseteq UsedFrames'
  BY UsedGrows
<1> QED
  BY <1>1, <1>2 DEF PagingInv, Marked, Early

LEMMA DirectoryKept ==
  ASSUME PagingInv, machine' = machine, dir' = dir, exhausted => exhausted',
         used \subseteq used', pc \notin Early, pc' \notin {"reserve", "stopped"}
  PROVE  DirectoryPlaced'
<1>1. Loaded' = Loaded /\ Bitmap' = Bitmap /\ BitmapEnd(machine') = BitmapEnd(machine)
  BY SameMachine
<1>2. UsedFrames \subseteq UsedFrames'
  BY UsedGrows
<1>3. Sound' => Sound
  BY <1>1 DEF Sound
<1> QED
  BY <1>1, <1>2, <1>3 DEF PagingInv, DirectoryPlaced

\* Everything marked so far lies in the region paging_init reserves.
LEMMA ReserveStep == ASSUME PagingInv, Reserve PROVE PagingInv'
<1> DEFINE region == Region(MB, ActualUsed)
<1>1. pc = "reserve" /\ pc' = "identity" /\ addr' = 0 /\ Mark(region)
  BY DEF Reserve, Step
<1>2. PagingTypes /\ machine \in Machines /\ dir \in 0 .. Start + machine.total_pages - 1
      /\ dir \in Nat
  <2>1. PagingTypes /\ machine \in Machines /\ dir \in 0 .. Start + machine.total_pages - 1
    BY DEF PagingInv, PagingTypes
  <2> QED
    BY <2>1, PagesFacts
<1>3. /\ ActualUsed \in Nat /\ \E k \in Nat : ActualUsed = Base(k)
      /\ Base(dir) + MB <= ActualUsed /\ 3 * MB + TABLE_SPAN <= ActualUsed
  BY <1>2, ReservedFacts
<1>4. /\ region \in SUBSET Pages
      /\ \A f \in Nat : f - Start \in region <=>
                        f - Start \in Pages /\ Base(f) + PAGE_SIZE > MB /\ Base(f) < ActualUsed
  <2> DEFINE b == ActualUsed
  <2>1. b \in Nat /\ MB \in Nat
    BY <1>3, Constants
  <2> HIDE DEF b
  <2>2. /\ Region(MB, b) \in SUBSET Pages
        /\ \A f \in Nat : f - Start \in Region(MB, b) <=>
                          f - Start \in Pages /\ Base(f) + PAGE_SIZE > MB /\ Base(f) < b
    BY <1>2, <2>1, RegionFacts
  <2> QED
    BY <2>2 DEF b
<1> HIDE DEF region
<1>5. /\ used' = used \cup region /\ used \subseteq used'
      /\ used' \subseteq Pages /\ used_pages' = Cardinality(used')
      /\ machine' = machine /\ mem' = mem /\ dir' = dir /\ enabled' = enabled
      /\ exhausted' = exhausted
  BY <1>1, <1>2, <1>4, MarkFacts
<1>6. Pages' = Pages /\ ActualUsed' = ActualUsed /\ BitmapEnd(machine') = BitmapEnd(machine)
  BY <1>5, SameMachine
<1>7. pc \notin Early /\ pc' \notin Early
  BY <1>1 DEF Early
<1>8. PagingTypes'
  <2>1. addr' \in Nat /\ addr' <= Base(ENTRIES * ENTRIES) /\ Base(Frame(addr')) = addr'
    <3>1. Base(ENTRIES * ENTRIES) \in Nat
      BY Constants, BaseFacts
    <3>2. Base(0) = 0 /\ Frame(Base(0)) = 0
      BY BaseFacts
    <3> QED
      BY <1>1, <3>1, <3>2
  <2> QED
    BY <1>1, <1>2, <1>5, <1>6, <2>1 DEF PagingTypes, Labels
<1>9. Marked'
  <2>1. ~enabled'
    BY <1>1, <1>5 DEF PagingInv, Marked, PagingTypes
  <2> QED
    BY <1>1, <1>5, <1>7, <2>1, RegionsKept
<1>10. DirectoryPlaced'
  BY <1>1, <1>5, <1>7, DirectoryKept
<1>11. ASSUME Sound
       PROVE  /\ dir \in UsedFrames /\ \A e \in Entries : mem[dir][e] = Absent
              /\ \A f \in UsedFrames : Base(f) < ActualUsed
  <2>1. /\ dir \in UsedFrames /\ \A e \in Entries : mem[dir][e] = Absent
        /\ \A f \in UsedFrames : Base(f) < BitmapEnd(machine) \/ f = dir
    BY <1>1, <1>7, <1>11 DEF PagingInv, DirectoryPlaced
  <2>2. BitmapEnd(machine) + PAGE_SIZE <= ORBIT_BASE
    BY <1>11 DEF Sound
  <2>3. /\ PAGE_SIZE \in Nat \ {0} /\ MB \in Nat \ {0} /\ TABLE_SPAN \in Nat /\ ORBIT_BASE \in Nat
        /\ ORBIT_BASE <= 2 * MB + TABLE_SPAN
    BY Constants
  <2>4. BitmapEnd(machine) \in Nat /\ Base(dir) \in Nat
    BY <1>2, MachineFacts, BaseFacts
  <2>5. BitmapEnd(machine) <= ActualUsed /\ Base(dir) < ActualUsed
    BY <1>3, <2>2, <2>3, <2>4
  <2>6. \A f \in UsedFrames : Base(f) \in Nat
    BY <1>2, UsedFacts, BaseFacts
  <2> QED
    BY <1>3, <2>1, <2>4, <2>5, <2>6
<1>12. ASSUME Sound PROVE used' = 0 .. used_pages' - 1
                          /\ \A p \in Pages : Base(p + Start) < ActualUsed => p \in used'
  <2> DEFINE t == machine.total_pages
  <2>0. Pages = 0 .. t - 1 /\ t \in Nat /\ Start \in Nat /\ PAGE_SIZE \in Nat \ {0} /\ MB \in Nat
    BY <1>2, PagesFacts, StartFacts, Constants DEF Pages
  <2>1. ASSUME NEW p \in Pages
        PROVE  p \in used' <=> Base(p + Start) < ActualUsed
    <3> DEFINE f == p + Start
    <3>1. f \in Nat /\ f - Start = p
      BY <2>0
    <3>2. Base(f) \in Nat /\ MB <= Base(f)
      BY <1>2, <3>1, BaseFacts, PagesFacts
    <3>3. p \in region <=> Base(f) + PAGE_SIZE > MB /\ Base(f) < ActualUsed
      BY <1>4, <3>1
    <3>4. p \in region <=> Base(f) < ActualUsed
      BY <2>0, <3>2, <3>3
    <3>5. p \in used => Base(f) < ActualUsed
      BY <1>2, <1>11, <1>12, <3>1, UsedFacts
    <3> QED
      BY <1>5, <3>4, <3>5
  <2>2. ASSUME NEW p \in used', NEW q \in 0 .. t - 1, q < p PROVE q \in used'
    <3>1. p \in Pages /\ q \in Pages /\ p + Start \in Nat /\ q + Start \in Nat
          /\ q + Start < p + Start
      BY <1>5, <2>0, <2>2
    <3>2. Base(q + Start) < Base(p + Start)
      BY <3>1, BaseOrder
    <3>3. Base(p + Start) < ActualUsed
      BY <2>1, <3>1
    <3>4. Base(q + Start) \in Nat /\ Base(p + Start) \in Nat
      BY <3>1, BaseFacts
    <3> QED
      BY <1>3, <2>1, <3>1, <3>2, <3>3, <3>4
  <2> HIDE DEF t
  <2> DEFINE S == used'
  <2>3. S \in SUBSET (0 .. t - 1) /\ \A p \in S : \A q \in 0 .. t - 1 : q < p => q \in S
    BY <1>5, <2>0, <2>2
  <2> HIDE DEF S
  <2>4. S = 0 .. Cardinality(S) - 1
    BY <2>0, <2>3, DownClosed
  <2>5. used' = 0 .. used_pages' - 1
    BY <1>5, <2>4 DEF S
  <2> QED
    BY <2>1, <2>5
<1>13. Sound' => Sound
  BY <1>5, <1>6 DEF Sound
<1>14. TablesPlaced'
  BY <1>1, <1>5, <1>6, <1>11, <1>12, <1>13 DEF TablesPlaced, Late
<1>15. MappedPages' = {}
  <2> SUFFICES ASSUME NEW v \in 0 .. ENTRIES * ENTRIES - 1, Base(v) < 0 PROVE FALSE
    BY <1>1 DEF MappedPages
  <2>1. v \in Nat
    BY Constants
  <2> QED
    BY <2>1, BaseFacts
<1>16. Mapped'
  BY <1>5, <1>11, <1>13, <1>15 DEF Mapped, Late
<1> QED
  BY <1>8, <1>9, <1>10, <1>14, <1>16 DEF PagingInv

-----------------------------------------------------------------------------
(***************************************************************************)
(* The loops of identity_map_region, page by page.                         *)
(***************************************************************************)
\* Every frame of memory has the number of a virtual page.
LEMMA FramesAreWords ==
  ASSUME machine \in Machines
  PROVE  0 .. Start + machine.total_pages - 1 \subseteq 0 .. ENTRIES * ENTRIES - 1
<1> DEFINE t == machine.total_pages
           w == ENTRIES * ENTRIES
<1>1. Start \in Nat /\ t \in Nat /\ Base(Start) = MB /\ MB + Base(t) <= FB_ADDR
  BY MachineFacts, StartFacts
<1>2. w \in Nat /\ FB_ADDR + FB_SIZE <= Base(w) /\ FB_ADDR \in Nat /\ FB_SIZE \in Nat
  BY Constants
<1> HIDE DEF t, w
<1>3. Base(Start + t) = MB + Base(t) /\ Base(Start + t) \in Nat /\ Base(w) \in Nat
  <2>1. Base(Start + t) = Base(Start) + Base(t)
    BY <1>1, BaseSum
  <2>2. Start + t \in Nat
    BY <1>1
  <2>3. Base(Start + t) \in Nat /\ Base(w) \in Nat
    BY <1>2, <2>2, BaseFacts
  <2> QED
    BY <1>1, <2>1, <2>3
<1>4. Base(Start + t) <= Base(w)
  BY <1>1, <1>2, <1>3
<1>5. Start + t <= w
  BY <1>1, <1>2, <1>4, BaseOrder
<1>6. 0 .. Start + t - 1 \subseteq 0 .. w - 1
  BY <1>1, <1>2, <1>5
<1> QED
  BY <1>6 DEF t, w

\* What a page of the loop leaves of the loop's own state.
LEMMA NextAddress ==
  ASSUME PagingTypes, addr < Base(ENTRIES * ENTRIES), addr' = addr + PAGE_SIZE
  PROVE  /\ Frame(addr) \in 0 .. ENTRIES * ENTRIES - 1 /\ Frame(addr) \in Nat
         /\ Base(Frame(addr)) = addr
         /\ addr' \in Nat /\ addr' <= Base(ENTRIES * ENTRIES) /\ Base(Frame(addr')) = addr'
<1> DEFINE v == Frame(addr)
           w == ENTRIES * ENTRIES
<1>1. addr \in Nat /\ Base(v) = addr /\ v \in Nat /\ w \in Nat /\ addr < Base(w)
  BY FrameFacts, Constants DEF PagingTypes
<1> HIDE DEF v, w
<1>2. v < w
  BY <1>1, BaseOrder
<1>3. addr' = Base(v + 1) /\ v + 1 \in Nat
  BY <1>1, BaseFacts
<1>4. addr' \in Nat /\ Frame(addr') = v + 1
  BY <1>3, BaseFacts
<1>5. v + 1 <= w
  BY <1>1, <1>2
<1>6. addr' <= Base(w)
  BY <1>1, <1>3, <1>5, BaseOrder
<1>7. v \in 0 .. w - 1
  BY <1>1, <1>2
<1> QED
  BY <1>1, <1>3, <1>4, <1>6, <1>7 DEF v, w

\* Tables are not the directory.
LEMMA DirectoryIsNoTable ==
  ASSUME PagingInv, Late
  PROVE  /\ \A f \in Nat : ActualUsed <= Base(f) => f # dir
         /\ dir \in UsedFrames
<1>1. dir \in UsedFrames
  BY DEF PagingInv, DirectoryPlaced, Late
<1>2. machine \in Machines /\ dir \in Nat
  BY <1>1, UsedFacts DEF PagingInv, PagingTypes
<1>3. Base(dir) + MB <= ActualUsed /\ ActualUsed \in Nat
  BY <1>2, ReservedFacts
<1>4. MB > 0 /\ MB \in Nat
  BY Constants
<1>5. Base(dir) \in Nat
  BY <1>2, BaseFacts
<1> QED
  BY <1>1, <1>3, <1>4, <1>5

LEMMA MapIntoTable ==
  ASSUME PagingInv, pc \in {"identity", "map_fb"}, pc' = pc,
         UNCHANGED <<machine, dir, enabled, bitmapVars, exhausted>>,
         addr' = addr + PAGE_SIZE, addr < Base(ENTRIES * ENTRIES),
         mem[dir][DirIndex(Frame(addr))] # Absent,
         mem' = [mem EXCEPT ![mem[dir][DirIndex(Frame(addr))]][TableIndex(Frame(addr))] = Frame(addr)],
         Late => MappedPages' = MappedPages \cup {Frame(addr)}
  PROVE  PagingInv'
<1> DEFINE v == Frame(addr)
           d0 == DirIndex(v)
           e0 == TableIndex(v)
           t == mem[dir][d0]
           D == 0 .. Start + machine.total_pages - 1
<1>1. PagingTypes /\ machine \in Machines /\ dir \in D /\ mem \in [D -> [Entries -> Word]]
  BY DEF PagingInv, PagingTypes
<1>2. /\ v \in 0 .. ENTRIES * ENTRIES - 1 /\ v \in Nat /\ Base(v) = addr
      /\ addr' \in Nat /\ addr' <= Base(ENTRIES * ENTRIES) /\ Base(Frame(addr')) = addr'
  BY <1>1, NextAddress
<1>3. d0 \in Entries /\ e0 \in Entries /\ v = Virtual(d0, e0) /\ v \in Word
  BY <1>2, VirtualFacts DEF Word
<1>4. t = mem[dir][d0] /\ t # Absent /\ mem' = [mem EXCEPT ![t][e0] = v]
  OBVIOUS
<1>5. Late => MappedPages' = MappedPages \cup {v}
  OBVIOUS
<1> HIDE DEF v, d0, e0, t, D
<1>6. /\ mem' \in [D -> [Entries -> Word]]
      /\ t \in D => mem'[t] = [mem[t] EXCEPT ![e0] = v]
      /\ \A g \in D \ {t} : mem'[g] = mem[g]
  <2>1. mem \in [D -> [Entries -> Word]] /\ v \in Word
    BY <1>1, <1>3
  <2>2. /\ [mem EXCEPT ![t][e0] = v] \in [D -> [Entries -> Word]]
        /\ t \in D => [mem EXCEPT ![t][e0] = v][t] = [mem[t] EXCEPT ![e0] = v]
        /\ \A g \in D \ {t} : [mem EXCEPT ![t][e0] = v][g] = mem[g]
    BY <2>1, WordWritten
  <2> QED
    BY <1>4, <2>2
<1>7. pc \notin Early /\ pc' \notin Early /\ pc' \notin {"reserve", "stopped"}
  BY DEF Early
<1>8. /\ used' = used /\ used_pages' = used_pages /\ machine' = machine /\ dir' = dir
      /\ enabled' = enabled /\ exhausted' = exhausted
  BY DEF bitmapVars
<1>9. Pages' = Pages /\ ActualUsed' = ActualUsed /\ UsedFrames' = UsedFrames
      /\ (Late' <=> Late)
  BY <1>8, SameMachine DEF UsedFrames, Late, Sound
<1>10. PagingTypes'
  BY <1>1, <1>2, <1>6, <1>8, <1>9 DEF PagingTypes, D
<1>11. Marked'
  <2>1. enabled' => pc' \notin {"reserve", "identity", "enable"}
    BY <1>7, <1>8 DEF PagingInv, Marked
  <2> QED
    BY <1>7, <1>8, <2>1, RegionsKept
<1>12. DirectoryPlaced'
  BY <1>7, <1>8, DirectoryKept
<1>13. ASSUME Late
       PROVE  /\ t \in D /\ mem'[dir] = mem[dir]
              /\ \A d \in Entries : mem[dir][d] # Absent =>
                    /\ mem[dir][d] \in D
                    /\ d = d0 => mem'[mem[dir][d]] = [mem[t] EXCEPT ![e0] = v]
                    /\ d # d0 => mem'[mem[dir][d]] = mem[mem[dir][d]]
  <2>1. /\ \A e \in Entries : mem[dir][e] # Absent
                              => mem[dir][e] \in UsedFrames /\ ActualUsed <= Base(mem[dir][e])
        /\ \A d, e \in Entries : mem[dir][d] = mem[dir][e] => d = e \/ mem[dir][d] = Absent
    BY <1>13 DEF PagingInv, TablesPlaced
  <2>2. \A f \in UsedFrames : f \in Nat /\ f \in D
    BY <1>1, UsedFacts DEF D
  <2>3. \A e \in Entries : mem[dir][e] # Absent => mem[dir][e] \in D /\ mem[dir][e] # dir
    BY <1>13, <2>1, <2>2, DirectoryIsNoTable
  <2>4. t \in D /\ t # dir
    BY <1>3, <1>4, <2>3
  <2>5. mem'[dir] = mem[dir]
    BY <1>1, <1>6, <2>4
  <2>6. ASSUME NEW d \in Entries, mem[dir][d] # Absent
        PROVE  /\ d = d0 => mem'[mem[dir][d]] = [mem[t] EXCEPT ![e0] = v]
               /\ d # d0 => mem'[mem[dir][d]] = mem[mem[dir][d]]
    <3>1. d # d0 => mem[dir][d] # t
      BY <1>3, <1>4, <2>1, <2>6
    <3> QED
      BY <1>4, <1>6, <2>3, <2>4, <2>6, <3>1
  <2> QED
    BY <2>3, <2>4, <2>5, <2>6
<1>14. TablesPlaced'
  <2> SUFFICES ASSUME Late
               PROVE  /\ used = 0 .. used_pages - 1
                      /\ \A p \in Pages : Base(p + Start) < ActualUsed => p \in used
                      /\ \A e \in Entries : mem[dir][e] # Absent
                           => mem[dir][e] \in UsedFrames /\ ActualUsed <= Base(mem[dir][e])
                      /\ \A d, e \in Entries : mem[dir][d] = mem[dir][e] => d = e \/ mem[dir][d] = Absent
                      /\ pc = "map_fb" => addr' >= FB_ADDR
    BY <1>8, <1>9, <1>13 DEF TablesPlaced
  <2>1. pc = "map_fb" => addr >= FB_ADDR
    BY DEF PagingInv, TablesPlaced
  <2>2. addr' >= addr /\ addr \in Nat
    BY <1>1, Constants DEF PagingTypes
  <2>3. pc = "map_fb" => addr' >= FB_ADDR
    BY <1>2, <2>1, <2>2, Constants
  <2> QED
    BY <2>3 DEF PagingInv, TablesPlaced
<1>15. Mapped'
  <2> SUFFICES ASSUME Late, NEW d \in Entries, NEW e \in Entries
               PROVE  /\ mem'[dir][d] = Absent => Virtual(d, e) \notin MappedPages'
                      /\ mem'[dir][d] # Absent =>
                           mem'[mem'[dir][d]][e] =
                             IF Virtual(d, e) \in MappedPages' THEN Virtual(d, e) ELSE Absent
    BY <1>8, <1>9 DEF Mapped
  <2>1. /\ mem[dir][d] = Absent => Virtual(d, e) \notin MappedPages
        /\ mem[dir][d] # Absent =>
              mem[mem[dir][d]][e] = IF Virtual(d, e) \in MappedPages THEN Virtual(d, e) ELSE Absent
    BY DEF PagingInv, Mapped
  <2>2. Virtual(d, e) = v <=> d = d0 /\ e = e0
    BY <1>3, VirtualFacts
  <2>3. mem'[dir] = mem[dir]
    BY <1>13
  <2>4. CASE mem[dir][d] = Absent
    <3>1. d # d0
      BY <1>4, <2>4
    <3> QED
      BY <1>5, <2>1, <2>2, <2>3, <2>4, <3>1
  <2>5. CASE mem[dir][d] # Absent /\ d = d0
    <3>1. mem[t] \in [Entries -> Word] /\ mem[dir][d] = t
      BY <1>1, <1>4, <1>13, <2>5
    <3>2. mem'[t] = [mem[t] EXCEPT ![e0] = v]
      BY <1>6, <1>13
    <3>3. mem'[t][e] = IF e = e0 THEN v ELSE mem[t][e]
      BY <3>1, <3>2
    <3> QED
      BY <1>5, <2>1, <2>2, <2>3, <2>5, <3>1, <3>3
  <2>6. CASE mem[dir][d] # Absent /\ d # d0
    <3>1. mem'[mem[dir][d]] = mem[mem[dir][d]]
      BY <1>13, <2>6
    <3> QED
      BY <1>5, <2>1, <2>2, <2>3, <2>6, <3>1
  <2> QED
    BY <2>4, <2>5, <2>6
<1> QED
  BY <1>10, <1>11, <1>12, <1>14, <1>15 DEF PagingInv

LEMMA MapIntoNewTable ==
  ASSUME PagingInv, pc \in {"identity", "map_fb"}, pc' = pc,
         UNCHANGED <<machine, dir, enabled>>,
         addr' = addr + PAGE_SIZE, addr < Base(ENTRIES * ENTRIES),
         mem[dir][DirIndex(Frame(addr))] = Absent,
         NEW frame \in DOMAIN mem, Alloc(frame),
         mem' = [Cleared(frame) EXCEPT ![dir][DirIndex(Frame(addr))] = frame,
                                       ![frame][TableIndex(Frame(addr))] = Frame(addr)],
         Late => MappedPages' = MappedPages \cup {Frame(addr)}
  PROVE  PagingInv'
<1> DEFINE v == Frame(addr)
           d0 == DirIndex(v)
           e0 == TableIndex(v)
           D == 0 .. Start + machine.total_pages - 1
           none == [e \in Entries |-> Absent]
           base == Cleared(frame)
           mid == [base EXCEPT ![dir][d0] = frame]
<1>1. PagingTypes /\ machine \in Machines /\ dir \in D /\ mem \in [D -> [Entries -> Word]]
  BY DEF PagingInv, PagingTypes
<1>2. /\ v \in 0 .. ENTRIES * ENTRIES - 1 /\ v \in Nat /\ Base(v) = addr
      /\ addr' \in Nat /\ addr' <= Base(ENTRIES * ENTRIES) /\ Base(Frame(addr')) = addr'
  BY <1>1, NextAddress
<1>3. d0 \in Entries /\ e0 \in Entries /\ v = Virtual(d0, e0) /\ v \in Word
  BY <1>2, VirtualFacts DEF Word
<1>4. frame \in D /\ frame \in Word /\ frame \in Nat /\ frame # Absent
  <2>1. frame \in D
    BY <1>1
  <2>2. frame \in 0 .. ENTRIES * ENTRIES - 1
    BY <1>1, <2>1, FramesAreWords
  <2>3. frame \in Nat
    BY <2>2, Constants
  <2> QED
    BY <2>1, <2>2, <2>3 DEF Word, Absent
<1>5. /\ mem[dir][d0] = Absent
      /\ mem' = [mid EXCEPT ![frame][e0] = v]
      /\ Late => MappedPages' = MappedPages \cup {v}
  OBVIOUS
<1>6. base \in [D -> [Entries -> Word]]
      /\ \A g \in D : base[g] = IF g = frame THEN none ELSE mem[g]
  BY <1>1, <1>4, ClearedFacts
<1> HIDE DEF v, d0, e0, D, base
<1>7. /\ mid \in [D -> [Entries -> Word]]
      /\ dir \in D => mid[dir] = [base[dir] EXCEPT ![d0] = frame]
      /\ \A g \in D \ {dir} : mid[g] = base[g]
  BY <1>4, <1>6, WordWritten
<1> HIDE DEF mid
<1>8. /\ mem' \in [D -> [Entries -> Word]]
      /\ frame \in D => mem'[frame] = [mid[frame] EXCEPT ![e0] = v]
      /\ \A g \in D \ {frame} : mem'[g] = mid[g]
  <2>1. mid \in [D -> [Entries -> Word]] /\ v \in Word
    BY <1>3, <1>7
  <2>2. /\ [mid EXCEPT ![frame][e0] = v] \in [D -> [Entries -> Word]]
        /\ frame \in D => [mid EXCEPT ![frame][e0] = v][frame] = [mid[frame] EXCEPT ![e0] = v]
        /\ \A g \in D \ {frame} : [mid EXCEPT ![frame][e0] = v][g] = mid[g]
    BY <2>1, WordWritten
  <2> QED
    BY <1>5, <2>2
<1>9. pc \notin Early /\ pc' \notin Early /\ pc' \notin {"reserve", "stopped"}
  BY DEF Early
<1>10. /\ used \subseteq used' /\ used' \subseteq Pages /\ used_pages' = Cardinality(used')
       /\ exhausted' \in BOOLEAN /\ (exhausted => exhausted')
       /\ ~exhausted' =>
              /\ frame - Start \in Pages \ used /\ frame \in UsedFrames'
              /\ UsedFrames' = UsedFrames \cup {frame}
              /\ used = 0 .. used_pages - 1 => used' = 0 .. used_pages' - 1
  BY <1>1, <1>4, AllocFacts
<1>11. Pages' = Pages /\ ActualUsed' = ActualUsed /\ BitmapEnd(machine') = BitmapEnd(machine)
  BY SameMachine
<1>12. PagingTypes'
  BY <1>1, <1>2, <1>8, <1>10, <1>11 DEF PagingTypes, D
<1>13. Marked'
  <2>1. enabled' => pc' \notin {"reserve", "identity", "enable"}
    BY <1>9 DEF PagingInv, Marked
  <2> QED
    BY <1>9, <1>10, <2>1, RegionsKept
<1>14. DirectoryPlaced'
  BY <1>9, <1>10, DirectoryKept
<1>15. Late' => Late /\ ~exhausted'
  BY <1>9, <1>10, <1>11 DEF Late, Sound
<1>16. ASSUME Late'
       PROVE  /\ frame # dir /\ ActualUsed <= Base(frame)
              /\ mem'[frame] = [e \in Entries |-> IF e = e0 THEN v ELSE Absent]
              /\ \A d \in Entries : mem'[dir][d] = IF d = d0 THEN frame ELSE mem[dir][d]
              /\ \A d \in Entries : mem[dir][d] # Absent =>
                     mem[dir][d] # frame /\ mem'[mem[dir][d]] = mem[mem[dir][d]]
  <2>1. Late /\ ~exhausted'
    BY <1>15, <1>16
  <2>2. /\ \A p \in Pages : Base(p + Start) < ActualUsed => p \in used
        /\ \A e \in Entries : mem[dir][e] # Absent
                              => mem[dir][e] \in UsedFrames /\ ActualUsed <= Base(mem[dir][e])
    BY <2>1 DEF PagingInv, TablesPlaced
  <2>3. \A f : f \in UsedFrames <=> f \in Nat /\ f - Start \in used
    BY <1>1, UsedFacts
  <2>4. frame \notin UsedFrames /\ dir \in UsedFrames
    BY <1>10, <2>1, <2>3, DirectoryIsNoTable
  <2>5. \A f \in UsedFrames : f \in D /\ f \in Nat
    BY <1>1, UsedFacts DEF D
  <2>6. ActualUsed <= Base(frame)
    <3>1. frame - Start \in Pages /\ frame - Start \notin used /\ frame - Start + Start = frame
      BY <1>4, <1>10, <2>1, StartFacts
    <3>2. ~(Base(frame) < ActualUsed)
      BY <2>2, <3>1
    <3>3. dir \in Nat
      BY <2>4, <2>5
    <3>4. ActualUsed \in Nat /\ Base(frame) \in Nat
      BY <1>1, <1>4, <3>3, ReservedFacts, BaseFacts
    <3> QED
      BY <3>2, <3>4
  <2>7. mem'[frame] = [e \in Entries |-> IF e = e0 THEN v ELSE Absent]
    <3>1. mid[frame] = none
      BY <1>4, <1>6, <1>7, <2>4
    <3> QED
      BY <1>4, <1>8, <3>1
  <2>8. ASSUME NEW d \in Entries PROVE mem'[dir][d] = IF d = d0 THEN frame ELSE mem[dir][d]
    <3>1. mem'[dir] = mid[dir] /\ mid[dir] = [base[dir] EXCEPT ![d0] = frame]
          /\ base[dir] = mem[dir]
      BY <1>1, <1>6, <1>7, <1>8, <2>4
    <3>2. mem[dir] \in [Entries -> Word]
      BY <1>1
    <3> QED
      BY <3>1, <3>2
  <2>9. ASSUME NEW d \in Entries, mem[dir][d] # Absent
        PROVE  mem[dir][d] # frame /\ mem'[mem[dir][d]] = mem[mem[dir][d]]
    <3> DEFINE g == mem[dir][d]
    <3>1. g \in UsedFrames /\ g \in D /\ g \in Nat /\ ActualUsed <= Base(g)
      BY <2>2, <2>5, <2>9
    <3> HIDE DEF g
    <3>2. g # dir
      BY <2>1, <3>1, DirectoryIsNoTable
    <3>3. g # frame
      BY <2>4, <3>1
    <3>4. mem'[g] = mem[g]
      BY <1>6, <1>7, <1>8, <3>1, <3>2, <3>3
    <3> QED
      BY <3>3, <3>4 DEF g
  <2> QED
    BY <2>4, <2>6, <2>7, <2>8, <2>9
<1>17. TablesPlaced'
  <2> SUFFICES ASSUME Late'
               PROVE  /\ used' = 0 .. used_pages' - 1
                      /\ \A p \in Pages : Base(p + Start) < ActualUsed => p \in used'
                      /\ \A e \in Entries : mem'[dir][e] # Absent
                           => mem'[dir][e] \in UsedFrames' /\ ActualUsed <= Base(mem'[dir][e])
                      /\ \A d, e \in Entries :
                           mem'[dir][d] = mem'[dir][e] => d = e \/ mem'[dir][d] = Absent
                      /\ pc = "map_fb" => addr' >= FB_ADDR
    BY <1>11 DEF TablesPlaced
  <2>1. Late /\ ~exhausted'
    BY <1>15
  <2>2. /\ used = 0 .. used_pages - 1
        /\ \A p \in Pages : Base(p + Start) < ActualUsed => p \in used
        /\ \A e \in Entries : mem[dir][e] # Absent
                              => mem[dir][e] \in UsedFrames /\ ActualUsed <= Base(mem[dir][e])
        /\ \A d, e \in Entries : mem[dir][d] = mem[dir][e] => d = e \/ mem[dir][d] = Absent
        /\ pc = "map_fb" => addr >= FB_ADDR
    BY <2>1 DEF PagingInv, TablesPlaced
  <2>3. addr' >= addr /\ addr \in Nat /\ FB_ADDR \in Nat
    BY SMTT(30), <1>1, Constants DEF PagingTypes
  <2>4. pc = "map_fb" => addr' >= FB_ADDR
    BY <1>2, <2>2, <2>3
  <2>5. ASSUME NEW e \in Entries, mem'[dir][e] # Absent
        PROVE  mem'[dir][e] \in UsedFrames' /\ ActualUsed <= Base(mem'[dir][e])
    BY ZenonT(60), <1>10, <1>16, <2>1, <2>2, <2>5
  <2>6. ASSUME NEW d \in Entries, NEW e \in Entries, mem'[dir][d] = mem'[dir][e]
        PROVE  d = e \/ mem'[dir][d] = Absent
    <3>1. \A i \in Entries : mem'[dir][i] = IF i = d0 THEN frame ELSE mem[dir][i]
      BY <1>16
    <3>2. \A i \in Entries : mem[dir][i] # frame
      BY <1>4, <1>16
    <3> QED
      BY <2>2, <2>6, <3>1, <3>2
  <2> QED
    BY <1>10, <2>1, <2>2, <2>4, <2>5, <2>6
<1>18. Mapped'
  <2> SUFFICES ASSUME Late', NEW d \in Entries, NEW e \in Entries
               PROVE  /\ mem'[dir][d] = Absent => Virtual(d, e) \notin MappedPages'
                      /\ mem'[dir][d] # Absent =>
                           mem'[mem'[dir][d]][e] =
                             IF Virtual(d, e) \in MappedPages' THEN Virtual(d, e) ELSE Absent
    BY ZenonT(60) DEF Mapped
  <2>1. MappedPages' = MappedPages \cup {v}
    BY <1>5, <1>15
  <2>2. /\ mem[dir][d] = Absent => Virtual(d, e) \notin MappedPages
        /\ mem[dir][d] # Absent =>
              mem[mem[dir][d]][e] = IF Virtual(d, e) \in MappedPages THEN Virtual(d, e) ELSE Absent
    BY <1>15 DEF PagingInv, Mapped
  <2>3. Virtual(d, e) = v <=> d = d0 /\ e = e0
    BY <1>3, VirtualFacts
  <2>4. CASE d = d0
    <3>0. mem'[frame] = [i \in Entries |-> IF i = e0 THEN v ELSE Absent]
      BY <1>16
    <3>1. mem'[frame][e] = IF e = e0 THEN v ELSE Absent
      BY <3>0
    <3>2. \A i \in Entries : mem'[dir][i] = IF i = d0 THEN frame ELSE mem[dir][i]
      BY <1>16
    <3>3. mem'[dir][d] = frame
      BY <2>4, <3>2, Zenon
    <3> QED
      BY <1>4, <1>5, <2>1, <2>2, <2>3, <2>4, <3>1, <3>3
  <2>5. CASE d # d0 /\ mem[dir][d] = Absent
    <3>1. mem'[dir][d] = Absent
      BY <1>16, <2>5
    <3> QED
      BY <2>1, <2>2, <2>3, <2>5, <3>1
  <2>6. CASE d # d0 /\ mem[dir][d] # Absent
    <3>1. mem'[dir][d] = mem[dir][d] /\ mem'[mem[dir][d]] = mem[mem[dir][d]]
      BY <1>16, <2>6
    <3> QED
      BY <2>1, <2>2, <2>3, <2>6, <3>1
  <2> QED
    BY <2>4, <2>5, <2>6
<1> QED
  BY <1>12, <1>13, <1>14, <1>17, <1>18 DEF PagingInv

\* The end of a loop changes what is next, not what is mapped.
LEMMA LoopDone ==
  ASSUME PagingInv, UNCHANGED <<machine, bitmapVars, mem, dir, exhausted>>,
         pc \notin Early \cup {"reserve"}, pc' \in Labels \ (Early \cup {"reserve"}),
         Late => pc' # "stopped",
         pc' # "ready", enabled' \in BOOLEAN, enabled' => pc' \notin {"identity", "enable"},
         addr' \in Nat, addr' <= Base(ENTRIES * ENTRIES), Base(Frame(addr')) = addr',
         pc' = "map_fb" => addr' >= FB_ADDR,
         Late => MappedPages' = MappedPages
  PROVE  PagingInv'
<1>1. /\ used' = used /\ used_pages' = used_pages /\ machine' = machine /\ mem' = mem
      /\ dir' = dir /\ exhausted' = exhausted
  BY DEF bitmapVars
<1>2. /\ KernelFrames' = KernelFrames /\ Loaded' = Loaded /\ Bitmap' = Bitmap
      /\ BitmapEnd(machine') = BitmapEnd(machine) /\ Pages' = Pages
      /\ ActualUsed' = ActualUsed /\ UsedFrames' = UsedFrames
  BY <1>1, SameMachine DEF UsedFrames
<1>3. (Sound' <=> Sound) /\ (Late <=> Sound) /\ (Late' <=> Late)
  BY <1>1, <1>2 DEF Late, Sound
<1>4. PagingTypes'
  BY <1>1, <1>2 DEF PagingInv, PagingTypes
<1>5. Marked'
  BY <1>1, <1>2 DEF PagingInv, Marked, Early
<1>6. DirectoryPlaced'
  BY <1>1, <1>2, <1>3 DEF PagingInv, DirectoryPlaced
<1>7. TablesPlaced'
  BY <1>1, <1>2, <1>3 DEF PagingInv, TablesPlaced
<1>8. Mapped'
  BY <1>1, <1>2, <1>3 DEF PagingInv, Mapped
<1> QED
  BY <1>4, <1>5, <1>6, <1>7, <1>8 DEF PagingInv

LEMMA MapPageStep ==
  ASSUME PagingInv, pc \in {"identity", "map_fb"}, pc' = pc,
         UNCHANGED <<machine, dir, enabled>>,
         addr' = addr + PAGE_SIZE, addr < Base(ENTRIES * ENTRIES), MapPage(Frame(addr)),
         Late => MappedPages' = MappedPages \cup {Frame(addr)}
  PROVE  PagingInv'
<1>1. CASE /\ mem[dir][DirIndex(Frame(addr))] # Absent
           /\ mem' = [mem EXCEPT ![mem[dir][DirIndex(Frame(addr))]][TableIndex(Frame(addr))] = Frame(addr)]
           /\ UNCHANGED <<bitmapVars, exhausted>>
  <2>1. UNCHANGED <<machine, dir, enabled, bitmapVars, exhausted>>
    BY <1>1
  <2> QED
    BY <1>1, <2>1, MapIntoTable
<1>2. CASE /\ mem[dir][DirIndex(Frame(addr))] = Absent
           /\ \E frame \in DOMAIN mem :
                /\ Alloc(frame)
                /\ mem' = [Cleared(frame) EXCEPT ![dir][DirIndex(Frame(addr))] = frame,
                                                 ![frame][TableIndex(Frame(addr))] = Frame(addr)]
  <2>1. PICK frame \in DOMAIN mem :
                /\ Alloc(frame)
                /\ mem' = [Cleared(frame) EXCEPT ![dir][DirIndex(Frame(addr))] = frame,
                                                 ![frame][TableIndex(Frame(addr))] = Frame(addr)]
    BY <1>2
  <2> QED
    BY <1>2, <2>1, MapIntoNewTable
<1> QED
  BY <1>1, <1>2 DEF MapPage

LEMMA MapIdentityStep == ASSUME PagingInv, MapIdentity PROVE PagingInv'
<1>1. /\ pc = "identity" /\ UNCHANGED <<machine, dir, enabled>>
      /\ \/ /\ addr < KERNEL_SPACE /\ MapPage(Frame(addr)) /\ addr' = addr + PAGE_SIZE
            /\ pc' = pc
         \/ /\ addr >= KERNEL_SPACE /\ pc' = "enable" /\ addr' = 0
            /\ UNCHANGED <<bitmapVars, mem, exhausted>>
  BY DEF MapIdentity, MapRegion
<1>2. PagingTypes /\ addr \in Nat
  BY DEF PagingInv, PagingTypes
<1>3. /\ KERNEL_SPACE \in Nat /\ PAGE_SIZE \in Nat \ {0} /\ FB_ADDR \in Nat /\ FB_SIZE \in Nat
      /\ KERNEL_SPACE <= FB_ADDR /\ ENTRIES * ENTRIES \in Nat
      /\ FB_ADDR + FB_SIZE <= Base(ENTRIES * ENTRIES)
  BY Constants
<1>4. \A f : f \in Frames(0, KERNEL_SPACE)
               <=> f \in Nat /\ Base(f) + PAGE_SIZE > 0 /\ Base(f) < KERNEL_SPACE
  BY <1>3, FramesFacts
<1>5. CASE addr < KERNEL_SPACE /\ MapPage(Frame(addr)) /\ addr' = addr + PAGE_SIZE /\ pc' = pc
  <2>1. addr < Base(ENTRIES * ENTRIES)
    <3>1. Base(ENTRIES * ENTRIES) \in Nat
      BY <1>3, BaseFacts
    <3> QED
      BY <1>2, <1>3, <1>5, <3>1
  <2>2. MappedPages' = MappedPages \cup {Frame(addr)}
    <3> DEFINE v == Frame(addr)
               w == ENTRIES * ENTRIES
    <3>1. v \in Nat /\ Base(v) = addr /\ v \in 0 .. w - 1
      BY <1>2, <1>5, <2>1, NextAddress
    <3>2. v \in Frames(0, KERNEL_SPACE)
      BY <1>2, <1>3, <1>4, <1>5, <3>1
    <3>3. MappedPages = {u \in 0 .. w - 1 : u \in Frames(0, KERNEL_SPACE) /\ Base(u) < addr}
      BY <1>1 DEF MappedPages
    <3>4. MappedPages' = {u \in 0 .. w - 1 : u \in Frames(0, KERNEL_SPACE) /\ Base(u) < addr'}
      BY <1>1, <1>5 DEF MappedPages
    <3>5. ASSUME NEW u \in 0 .. w - 1 PROVE Base(u) < addr' <=> Base(u) < addr \/ u = v
      <4>1. u \in Nat
        BY <1>3
      <4>2. /\ Base(u) \in Nat /\ (u < v => Base(u) + PAGE_SIZE <= Base(v))
            /\ (v < u => Base(v) + PAGE_SIZE <= Base(u))
        BY <3>1, <4>1, BaseFacts
      <4>3. u < v \/ u = v \/ v < u
        BY <3>1, <4>1
      <4> QED
        BY <1>2, <1>3, <1>5, <3>1, <4>2, <4>3
    <3> HIDE DEF v, w
    <3> QED
      BY <3>1, <3>2, <3>3, <3>4, <3>5 DEF v
  <2> QED
    BY <1>1, <1>5, <2>1, <2>2, MapPageStep
<1>6. CASE addr >= KERNEL_SPACE /\ pc' = "enable" /\ addr' = 0
           /\ UNCHANGED <<bitmapVars, mem, exhausted>>
  <2>1. MappedPages' = MappedPages
    <3>1. MappedPages = {u \in 0 .. ENTRIES * ENTRIES - 1 :
                           u \in Frames(0, KERNEL_SPACE) /\ Base(u) < addr}
      BY <1>1 DEF MappedPages
    <3>2. MappedPages' = {u \in 0 .. ENTRIES * ENTRIES - 1 : u \in Frames(0, KERNEL_SPACE)}
      BY <1>6 DEF MappedPages
    <3>3. \A u \in Frames(0, KERNEL_SPACE) : Base(u) < addr
      BY <1>2, <1>3, <1>4, <1>6, BaseFacts
    <3> QED
      BY <3>1, <3>2, <3>3
  <2>2. addr' \in Nat /\ addr' <= Base(ENTRIES * ENTRIES) /\ Base(Frame(addr')) = addr'
    <3>1. Base(ENTRIES * ENTRIES) \in Nat
      BY <1>3, BaseFacts
    <3>2. Base(0) = 0 /\ Frame(Base(0)) = 0
      BY BaseFacts
    <3> QED
      BY <1>6, <3>1, <3>2
  <2>3. enabled' = FALSE
    BY <1>1 DEF PagingInv, PagingTypes, Marked
  <2>4. /\ pc \notin Early \cup {"reserve"} /\ pc' \in Labels \ (Early \cup {"reserve"})
        /\ pc' # "stopped" /\ pc' # "map_fb" /\ pc' # "ready"
    BY <1>1, <1>6 DEF Early, Labels
  <2>5. UNCHANGED <<machine, bitmapVars, mem, dir, exhausted>>
    BY <1>1, <1>6
  <2> QED
    BY <2>1, <2>2, <2>3, <2>4, <2>5, LoopDone
<1> QED
  BY <1>1, <1>5, <1>6

LEMMA MapFramebufferStep == ASSUME PagingInv, MapFramebuffer PROVE PagingInv'
<1> DEFINE b == FB_ADDR + FB_SIZE
           w == ENTRIES * ENTRIES
<1>1. /\ pc = "map_fb" /\ UNCHANGED <<machine, dir, enabled>>
      /\ \/ /\ addr < Up(b, PAGE_SIZE) /\ MapPage(Frame(addr)) /\ addr' = addr + PAGE_SIZE
            /\ pc' = pc
         \/ /\ addr >= Up(b, PAGE_SIZE) /\ pc' = "orbit" /\ addr' = 0
            /\ UNCHANGED <<bitmapVars, mem, exhausted>>
  BY DEF MapFramebuffer, MapRegion
<1>2. PagingTypes /\ addr \in Nat
  BY DEF PagingInv, PagingTypes
<1>3. /\ PAGE_SIZE \in Nat \ {0} /\ FB_ADDR \in Nat /\ b \in Nat
      /\ w \in Nat /\ b <= Base(w) /\ Base(w) \in Nat
  BY Constants, BaseFacts
<1>4. Up(b, PAGE_SIZE) \in Nat /\ b <= Up(b, PAGE_SIZE)
  BY <1>3, UpFacts
<1> DEFINE space == Frames(0, KERNEL_SPACE)
           screen == Frames(FB_ADDR, b)
<1>5. \A f : f \in screen <=> f \in Nat /\ Base(f) + PAGE_SIZE > FB_ADDR /\ Base(f) < b
  BY <1>3, FramesFacts
<1>6. MappedPages = {u \in 0 .. w - 1 : u \in space \/ (u \in screen /\ Base(u) < addr)}
  BY <1>1 DEF MappedPages
<1> HIDE DEF b
<1>7. CASE addr < Up(b, PAGE_SIZE) /\ MapPage(Frame(addr)) /\ addr' = addr + PAGE_SIZE /\ pc' = pc
  <2> DEFINE v == Frame(addr)
  <2>1. PICK k \in Nat : Up(b, PAGE_SIZE) = k * PAGE_SIZE
    BY <1>3, UpFacts
  <2>2. Base(k) = Up(b, PAGE_SIZE) /\ Base(k) < b + PAGE_SIZE /\ Base(k) \in Nat
    BY <1>3, <2>1, UpFacts, BaseFacts DEF Base
  <2>3. v \in Nat /\ Base(v) = addr
    BY <1>2, FrameFacts DEF PagingTypes
  <2> HIDE DEF v
  <2>4. v < k
    BY <1>7, <2>2, <2>3, BaseOrder
  <2>5. Base(v) + PAGE_SIZE <= Base(k)
    BY <2>3, <2>4, BaseFacts
  <2>6. addr < b
    BY <1>2, <1>3, <2>2, <2>3, <2>5
  <2>7. addr < Base(w)
    BY <1>2, <1>3, <2>6
  <2>8. v \in 0 .. w - 1
    BY <1>2, <1>7, <2>7, NextAddress DEF v
  <2>9. ASSUME Late PROVE MappedPages' = MappedPages \cup {v}
    <3>1. addr >= FB_ADDR
      BY <1>1, <2>9 DEF PagingInv, TablesPlaced
    <3>2. v \in screen
      BY <1>2, <1>3, <1>5, <2>3, <2>6, <3>1
    <3>4. MappedPages' = {u \in 0 .. w - 1 : u \in space \/ (u \in screen /\ Base(u) < addr')}
      BY <1>1, <1>7 DEF MappedPages, b
    <3>5. ASSUME NEW u \in 0 .. w - 1 PROVE Base(u) < addr' <=> Base(u) < addr \/ u = v
      <4>1. u \in Nat
        BY <1>3
      <4>2. /\ Base(u) \in Nat /\ (u < v => Base(u) + PAGE_SIZE <= Base(v))
            /\ (v < u => Base(v) + PAGE_SIZE <= Base(u))
        BY <2>3, <4>1, BaseFacts
      <4>3. u < v \/ u = v \/ v < u
        BY <2>3, <4>1
      <4> QED
        BY <1>2, <1>3, <1>7, <2>3, <4>2, <4>3
    <3> HIDE DEF w, space, screen
    <3> QED
      BY <1>6, <2>8, <3>2, <3>4, <3>5
  <2> QED
    BY <1>1, <1>7, <2>7, <2>9, MapPageStep DEF v
<1>8. CASE addr >= Up(b, PAGE_SIZE) /\ pc' = "orbit" /\ addr' = 0
           /\ UNCHANGED <<bitmapVars, mem, exhausted>>
  <2>1. MappedPages' = MappedPages
    <3>1. MappedPages' = {u \in 0 .. w - 1 : u \in space \/ u \in screen}
      BY <1>8 DEF MappedPages, b
    <3>2. \A u \in screen : Base(u) < addr
      BY SMTT(30), <1>2, <1>3, <1>4, <1>5, <1>8, BaseFacts
    <3> HIDE DEF w, space, screen
    <3> QED
      BY <1>6, <3>1, <3>2
  <2>2. addr' \in Nat /\ addr' <= Base(ENTRIES * ENTRIES) /\ Base(Frame(addr')) = addr'
    <3>2. Base(0) = 0 /\ Frame(Base(0)) = 0
      BY BaseFacts
    <3> QED
      BY <1>3, <1>8, <3>2
  <2>3. enabled' \in BOOLEAN
    BY <1>1 DEF PagingInv, PagingTypes
  <2>4. /\ pc \notin Early \cup {"reserve"} /\ pc' \in Labels \ (Early \cup {"reserve"})
        /\ pc' # "stopped" /\ pc' # "map_fb" /\ pc' # "ready"
        /\ pc' \notin {"identity", "enable"}
    BY <1>1, <1>8 DEF Early, Labels
  <2>5. UNCHANGED <<machine, bitmapVars, mem, dir, exhausted>>
    BY <1>1, <1>8
  <2> QED
    BY <2>1, <2>2, <2>3, <2>4, <2>5, LoopDone
<1> QED
  BY <1>1, <1>7, <1>8

-----------------------------------------------------------------------------
(***************************************************************************)
(* Paging on, orbit's copy, and the pages of the heap.                     *)
(***************************************************************************)
\* What the processor finds is what the loops have mapped.
LEMMA WalkFacts ==
  ASSUME PagingInv, Late
  PROVE  \A v \in 0 .. ENTRIES * ENTRIES - 1 : Walk(v) = IF v \in MappedPages THEN v ELSE Absent
<1> SUFFICES ASSUME NEW v \in 0 .. ENTRIES * ENTRIES - 1
             PROVE  Walk(v) = IF v \in MappedPages THEN v ELSE Absent
  OBVIOUS
<1> DEFINE d == DirIndex(v)
           e == TableIndex(v)
           table == mem[dir][d]
<1>1. d \in Entries /\ e \in Entries /\ v = Virtual(d, e)
  BY VirtualFacts
<1>2. Walk(v) = IF table \in DOMAIN mem THEN mem[table][e] ELSE table
  BY DEF Walk, DirIndex, TableIndex
<1>3. DOMAIN mem = 0 .. Start + machine.total_pages - 1 /\ PagingTypes
  BY DEF PagingInv, PagingTypes
<1>4. /\ table = Absent => v \notin MappedPages
      /\ table # Absent => mem[table][e] = IF v \in MappedPages THEN v ELSE Absent
  BY <1>1 DEF PagingInv, Mapped
<1>5. table # Absent => table \in UsedFrames
  BY <1>1 DEF PagingInv, TablesPlaced
<1> HIDE DEF d, e, table
<1>6. table = Absent => table \notin DOMAIN mem
  <2>1. Start + machine.total_pages - 1 \in Nat
    BY <1>3, PagesFacts DEF PagingTypes
  <2> QED
    BY <1>3, <2>1 DEF Absent
<1>7. table # Absent => table \in DOMAIN mem
  BY <1>3, <1>5, UsedFacts
<1> QED
  BY <1>2, <1>4, <1>6, <1>7

\* The kernel is mapped where it runs: paging does not stop it.
LEMMA EnableStep == ASSUME PagingInv, Enable PROVE PagingInv'
<1>1. /\ pc = "enable" /\ enabled' = (dir # 0) /\ addr' = FB_ADDR
      /\ pc' = IF dir = 0 \/ Walk(Start) = Start THEN "map_fb" ELSE "stopped"
      /\ UNCHANGED <<machine, bitmapVars, mem, dir, exhausted>>
  BY DEF Enable
<1>2. /\ KERNEL_SPACE \in Nat /\ PAGE_SIZE \in Nat \ {0} /\ FB_ADDR \in Nat /\ FB_SIZE \in Nat
      /\ MB \in Nat /\ MB < KERNEL_SPACE /\ KERNEL_SPACE <= FB_ADDR /\ ENTRIES * ENTRIES \in Nat
      /\ FB_ADDR + FB_SIZE <= Base(ENTRIES * ENTRIES) /\ FB_ADDR % PAGE_SIZE = 0
  BY Constants
<1>3. /\ FB_ADDR <= Base(ENTRIES * ENTRIES) /\ Base(Frame(FB_ADDR)) = FB_ADDR
      /\ Frame(FB_ADDR) \in Nat
  <2>1. Base(ENTRIES * ENTRIES) \in Nat
    BY <1>2, BaseFacts
  <2> QED
    BY <1>2, <2>1, FrameFacts
<1>4. ASSUME Late PROVE pc' = "map_fb"
  <2>1. Start \in Nat /\ Base(Start) = MB
    BY StartFacts
  <2>2. Start \in 0 .. ENTRIES * ENTRIES - 1
    <3> DEFINE w == ENTRIES * ENTRIES
    <3>1. w \in Nat /\ Base(w) \in Nat /\ MB < Base(w)
      BY <1>2, <1>3, BaseFacts
    <3> HIDE DEF w
    <3>2. Start < w
      BY <2>1, <3>1, BaseOrder
    <3>3. Start \in 0 .. w - 1
      BY <2>1, <3>1, <3>2
    <3> QED
      BY <3>3 DEF w
  <2>3. Start \in Frames(0, KERNEL_SPACE)
    BY <1>2, <2>1, FramesFacts
  <2>4. Start \in MappedPages
    BY <1>1, <2>2, <2>3 DEF MappedPages
  <2>5. Walk(Start) = Start
    BY <1>4, <2>2, <2>4, WalkFacts
  <2> QED
    BY <1>1, <2>5
<1>5. ASSUME Late PROVE MappedPages' = MappedPages
  <2> DEFINE w == ENTRIES * ENTRIES
             space == Frames(0, KERNEL_SPACE)
             b == FB_ADDR + FB_SIZE
             screen == Frames(FB_ADDR, b)
  <2>1. MappedPages = {u \in 0 .. w - 1 : u \in space}
    BY <1>1 DEF MappedPages
  <2>2. MappedPages' = {u \in 0 .. w - 1 : u \in space \/ (u \in screen /\ Base(u) < FB_ADDR)}
    BY <1>1, <1>4, <1>5 DEF MappedPages
  <2>3. b \in Nat
    BY <1>2
  <2>4. ASSUME NEW u \in screen PROVE ~(Base(u) < FB_ADDR)
    <3> DEFINE k == Frame(FB_ADDR)
    <3> HIDE DEF b
    <3>1. u \in Nat /\ Base(u) + PAGE_SIZE > FB_ADDR /\ Base(u) \in Nat
      BY <1>2, <2>3, FramesFacts, BaseFacts
    <3>2. k \in Nat /\ Base(k) = FB_ADDR
      BY <1>3
    <3> HIDE DEF k
    <3>3. u < k => Base(u) + PAGE_SIZE <= Base(k)
      BY <3>1, <3>2, BaseFacts
    <3>4. ~(u < k)
      BY <1>2, <3>1, <3>2, <3>3
    <3> QED
      BY <1>2, <3>1, <3>2, <3>4, BaseOrder
  <2> HIDE DEF w, space, screen
  <2> QED
    BY <2>1, <2>2, <2>4
<1>6. enabled' \in BOOLEAN /\ addr' \in Nat
  BY <1>1, <1>2
<1>7. /\ pc \notin Early \cup {"reserve"} /\ pc' \in Labels \ (Early \cup {"reserve"})
      /\ pc' \notin {"identity", "enable"}
  BY <1>1 DEF Early, Labels
<1>8. Late => pc' # "stopped"
  BY <1>4
<1>9. pc' = "map_fb" => addr' >= FB_ADDR
  BY <1>1, <1>2
<1> QED
  BY <1>1, <1>3, <1>5, <1>6, <1>7, <1>8, <1>9, LoopDone

\* With the tables behind all that is reserved, orbit's copy lies before them.
LEMMA OrbitFacts ==
  ASSUME PagingInv, Late, Len(machine.mods) >= 2
  PROVE  /\ OrbitEnd \in Nat /\ OrbitEnd <= ActualUsed
         /\ \A f : f \in Frames(ORBIT_BASE, OrbitEnd) <=>
                 f \in Nat /\ Base(f) + PAGE_SIZE > ORBIT_BASE /\ Base(f) < OrbitEnd
         /\ dir \notin Frames(ORBIT_BASE, OrbitEnd)
<1> DEFINE mods == machine.mods
           two == mods[2]
<1>1. PagingTypes /\ machine \in Machines
  BY DEF PagingInv, PagingTypes
<1>2. /\ two.start \in Nat /\ two.end \in Nat /\ MB < two.start /\ two.start < two.end
      /\ two.end \in Ends(machine)
  <2>1. two \in Range(mods)
    <3>1. mods \in Seq([start : Nat, end : Nat]) /\ Len(mods) >= 2
      BY <1>1, MachineFacts
    <3> HIDE DEF mods
    <3>2. 2 \in DOMAIN mods
      BY <3>1
    <3> QED
      BY <3>2 DEF Range
  <2> QED
    BY <1>1, <2>1, MachineFacts
<1>3. dir \in UsedFrames /\ dir \in Nat /\ Base(dir) < ORBIT_BASE
  <2>1. dir \in UsedFrames /\ Base(dir) < ORBIT_BASE
    BY DEF PagingInv, DirectoryPlaced, Late
  <2> QED
    BY <1>1, <2>1, UsedFacts
<1>4. ActualUsed \in Nat /\ two.end + MB + TABLE_SPAN <= ActualUsed
  BY <1>1, <1>2, <1>3, ReservedFacts
<1>5. /\ MB \in Nat /\ TABLE_SPAN \in Nat /\ ORBIT_BASE \in Nat
      /\ ORBIT_BASE <= 2 * MB + TABLE_SPAN /\ PAGE_SIZE \in Nat \ {0}
      /\ ORBIT_BASE % PAGE_SIZE = 0
  BY Constants
<1>6. OrbitEnd = ORBIT_BASE + two.end - two.start
  BY DEF OrbitEnd
<1> HIDE DEF two, mods
<1>7. OrbitEnd \in Nat /\ OrbitEnd <= ActualUsed
  BY SMTT(30), <1>2, <1>4, <1>5, <1>6
<1> DEFINE b == OrbitEnd
<1>8. b \in Nat
  BY <1>7
<1> HIDE DEF b
<1>9. \A f : f \in Frames(ORBIT_BASE, b) <=>
                 f \in Nat /\ Base(f) + PAGE_SIZE > ORBIT_BASE /\ Base(f) < b
  BY <1>5, <1>8, FramesFacts
<1>10. ~(Base(dir) + PAGE_SIZE > ORBIT_BASE)
  <2> DEFINE k == Frame(ORBIT_BASE)
  <2>1. k \in Nat /\ Base(k) = ORBIT_BASE
    BY <1>5, FrameFacts
  <2> HIDE DEF k
  <2>2. dir < k
    BY <1>3, <2>1, BaseOrder
  <2>3. Base(dir) + PAGE_SIZE <= Base(k) /\ Base(dir) \in Nat
    BY <1>3, <2>1, <2>2, BaseFacts
  <2> QED
    BY <1>5, <2>1, <2>3
<1> QED
  BY <1>7, <1>9, <1>10 DEF b

\* Used pages beyond those orbit covers hold every table; the copy touches none.
LEMMA CopyOrbitStep == ASSUME PagingInv, CopyOrbit PROVE PagingInv'
<1>1. /\ pc = "orbit" /\ pc' \in {"ready", "idle"}
      /\ UNCHANGED <<machine, bitmapVars, dir, enabled, addr, exhausted>>
      /\ \/ /\ Len(machine.mods) >= 2
            /\ mem' = [f \in DOMAIN mem |-> IF f \in Frames(ORBIT_BASE, OrbitEnd)
                                               THEN [e \in Entries |-> Junk] ELSE mem[f]]
         \/ UNCHANGED mem /\ pc' = "idle"
  BY DEF CopyOrbit
<1> DEFINE D == 0 .. Start + machine.total_pages - 1
<1>2. PagingTypes /\ machine \in Machines /\ dir \in D /\ mem \in [D -> [Entries -> Word]]
  BY DEF PagingInv, PagingTypes
<1>3. /\ used' = used /\ used_pages' = used_pages /\ machine' = machine
      /\ dir' = dir /\ exhausted' = exhausted /\ enabled' = enabled /\ addr' = addr
  BY <1>1 DEF bitmapVars
<1>4. /\ KernelFrames' = KernelFrames /\ Loaded' = Loaded /\ Bitmap' = Bitmap
      /\ BitmapEnd(machine') = BitmapEnd(machine) /\ Pages' = Pages
      /\ ActualUsed' = ActualUsed /\ UsedFrames' = UsedFrames
  BY <1>3, SameMachine DEF UsedFrames
<1>5. pc \notin Early \cup {"reserve"} /\ pc' \notin Early \cup {"reserve", "stopped"}
      /\ pc' \in Labels /\ pc' \notin {"identity", "enable", "map_fb"}
  BY <1>1 DEF Early, Labels
<1>6. (Sound' <=> Sound) /\ (Late <=> Sound) /\ (Late' <=> Late)
  BY <1>3, <1>4, <1>5 DEF Late, Sound
<1>7. mem' \in [D -> [Entries -> Word]]
  <2>1. [e \in Entries |-> Junk] \in [Entries -> Word]
    BY DEF Word
  <2> QED
    BY <1>1, <1>2, <2>1
<1>8. ASSUME Late
      PROVE  /\ mem'[dir] = mem[dir]
             /\ \A d \in Entries : mem[dir][d] # Absent => mem'[mem[dir][d]] = mem[mem[dir][d]]
  <2>1. CASE UNCHANGED mem
    BY <2>1
  <2>2. CASE /\ Len(machine.mods) >= 2
             /\ mem' = [f \in DOMAIN mem |-> IF f \in Frames(ORBIT_BASE, OrbitEnd)
                                                THEN [e \in Entries |-> Junk] ELSE mem[f]]
    <3>1. /\ OrbitEnd \in Nat /\ OrbitEnd <= ActualUsed
          /\ \A f \in Frames(ORBIT_BASE, OrbitEnd) : f \in Nat /\ Base(f) < OrbitEnd
          /\ dir \notin Frames(ORBIT_BASE, OrbitEnd)
      BY <1>8, <2>2, OrbitFacts
    <3>2. \A d \in Entries : mem[dir][d] # Absent
                              => mem[dir][d] \in UsedFrames /\ ActualUsed <= Base(mem[dir][d])
      BY <1>8 DEF PagingInv, TablesPlaced
    <3> DEFINE orbit == Frames(ORBIT_BASE, OrbitEnd)
    <3>3. \A f \in D : f \notin orbit => mem'[f] = mem[f]
      BY <1>2, <2>2
    <3>4. \A f \in UsedFrames : f \in D /\ f \in Nat
      BY <1>2, UsedFacts
    <3> HIDE DEF orbit
    <3>5. ASSUME NEW d \in Entries, mem[dir][d] # Absent
          PROVE  mem'[mem[dir][d]] = mem[mem[dir][d]]
      <4> DEFINE g == mem[dir][d]
      <4>1. g \in UsedFrames /\ ActualUsed <= Base(g)
        BY <3>2, <3>5
      <4> HIDE DEF g
      <4>2. g \in D /\ g \in Nat /\ Base(g) \in Nat
        BY <3>4, <4>1, BaseFacts
      <4>3. dir \in Nat
        BY <1>8, <3>4, DirectoryIsNoTable
      <4>4. ActualUsed \in Nat
        BY <1>2, <4>3, ReservedFacts
      <4>5. g \notin orbit
        BY <3>1, <4>1, <4>2, <4>4 DEF orbit
      <4> QED
        BY <3>3, <4>2, <4>5 DEF g
    <3>6. mem'[dir] = mem[dir]
      BY <1>2, <3>1, <3>3 DEF orbit
    <3> QED
      BY <3>5, <3>6
  <2> QED
    BY <1>1, <2>1, <2>2
<1>9. PagingTypes'
  BY <1>2, <1>3, <1>4, <1>5, <1>7 DEF PagingTypes
<1>10. Marked'
  <2>1. pc' = "ready" => Len(machine'.mods) >= 2
    BY <1>1
  <2> QED
    BY <1>3, <1>4, <1>5, <2>1 DEF PagingInv, Marked, Early
<1>11. DirectoryPlaced'
  BY <1>3, <1>4, <1>5, <1>6 DEF PagingInv, DirectoryPlaced
<1>12. TablesPlaced'
  BY <1>3, <1>4, <1>5, <1>6, <1>8 DEF PagingInv, TablesPlaced
<1>13. MappedPages' = MappedPages
  BY <1>1 DEF MappedPages
<1>14. Mapped'
  BY <1>3, <1>6, <1>8, <1>13 DEF PagingInv, Mapped
<1> QED
  BY <1>9, <1>10, <1>11, <1>12, <1>14 DEF PagingInv

\* The bitmap gains pages, in their order, and nothing else happens.
LEMMA PagesTaken ==
  ASSUME PagingInv, pc \in {"orbit", "ready", "idle"},
         UNCHANGED <<machine, mem, dir, enabled, pc, addr>>,
         used \subseteq used', used' \subseteq Pages, used_pages' = Cardinality(used'),
         exhausted' \in BOOLEAN, exhausted => exhausted',
         (~exhausted' /\ used = 0 .. used_pages - 1) => used' = 0 .. used_pages' - 1
  PROVE  PagingInv'
<1>1. pc \notin Early \cup {"reserve", "stopped", "map_fb", "identity", "enable"}
  BY DEF Early
<1>2. /\ Pages' = Pages /\ ActualUsed' = ActualUsed /\ BitmapEnd(machine') = BitmapEnd(machine)
      /\ UsedFrames \subseteq UsedFrames'
  BY SameMachine, UsedGrows
<1>3. Late' => Late /\ ~exhausted'
  BY <1>1, <1>2 DEF Late, Sound
<1>4. PagingTypes'
  BY <1>2 DEF PagingInv, PagingTypes
<1>5. Marked'
  BY <1>1, RegionsKept
<1>6. DirectoryPlaced'
  BY <1>1, DirectoryKept
<1>7. TablesPlaced'
  BY <1>1, <1>2, <1>3 DEF PagingInv, TablesPlaced
<1>8. MappedPages' = MappedPages
  BY <1>1 DEF MappedPages
<1>9. Mapped'
  BY <1>3, <1>8 DEF PagingInv, Mapped
<1> QED
  BY <1>4, <1>5, <1>6, <1>7, <1>9 DEF PagingInv

-----------------------------------------------------------------------------
(***************************************************************************)
(* The steps of kernel_main, at their places.                              *)
(***************************************************************************)
\* Where kernel_main is, against where the set-up of memory is.
MemoryPlaces ==
  /\ at \in 1 .. 22
  /\ at \in 1 .. 2 => pc \in Labels \ {"idle", "ready", "stopped"}
  /\ at \in 3 .. 14 => pc = "orbit"
  /\ at \in 15 .. 21 => pc = "ready"

BootTypes ==
  /\ esp0 \in Nat /\ kernel_heap \in Nat /\ framebuffer \in Nat
  /\ if_flag \in BOOLEAN /\ scheduling_enabled \in BOOLEAN /\ sysman \in BOOLEAN

LEMMA BootConstants ==
  /\ BAR_UNIT \in Nat \ {0} /\ PCB_SIZE \in Nat \ {0}
  /\ BOOT_ESP0 \in Nat /\ KERNEL_INT_STACK_BASE \in Nat
BY BootAssumption

\* The steps that leave memory and the heap alone.
LEMMA OtherSteps ==
  ASSUME at \in 1 .. 22,
         \/ CheckBga \/ LoadGdt \/ LoadIdt \/ CallIrq \/ StepIrq \/ SetExceptions \/ SetMouseGate
         \/ InitManagers \/ SetIf \/ InitBga \/ Draw \/ EnableScheduler \/ EnterRing3
         \/ ReEnableMouse
  PROVE  /\ UNCHANGED <<vars, kernel_heap>>
         /\ at' = 22 \/ at' = at \/ (at \notin {2, 14, 22} /\ at' = at + 1)
<1> USE Places
<1>1. CASE CheckBga
  BY <1>1 DEF CheckBga, At, Stop, ownVars
<1>2. CASE LoadGdt
  BY <1>2 DEF LoadGdt, Do, At, ownVars
<1>3. CASE LoadIdt
  BY <1>3 DEF LoadIdt, Do, At, ownVars
<1>4. CASE CallIrq
  <2>1. UNCHANGED <<vars, kernel_heap>> /\ (Do("remap") \/ Do("enable_mouse") \/ Do("enable_timer"))
    BY <1>4, Zenon DEF CallIrq, ownVars
  <2> QED
    BY <2>1 DEF Do, At
<1>5. CASE StepIrq
  BY <1>5 DEF StepIrq, ownVars
<1>6. CASE SetExceptions
  <2>1. UNCHANGED <<vars, kernel_heap>> /\ Do("exceptions")
    BY <1>6, Zenon DEF SetExceptions, SetGates, ownVars
  <2> QED
    BY <2>1 DEF Do, At
<1>7. CASE SetMouseGate
  <2>1. UNCHANGED <<vars, kernel_heap>> /\ Do("mouse_gate")
    BY <1>7, Zenon DEF SetMouseGate, SetGates, ownVars
  <2> QED
    BY <2>1 DEF Do, At
<1>8. CASE InitManagers
  BY <1>8 DEF InitManagers, Do, At
<1>9. CASE SetIf
  <2>1. UNCHANGED <<vars, kernel_heap>> /\ (Do("sti") \/ Do("cli"))
    BY <1>9, Zenon DEF SetIf, ownVars
  <2> QED
    BY <2>1 DEF Do, At
<1>10. CASE InitBga
  <2>1. UNCHANGED <<vars, kernel_heap>> /\ Do("bga_init")
    BY <1>10, Zenon DEF InitBga
  <2> QED
    BY <2>1 DEF Do, At
<1>11. CASE Draw
  <2>1. UNCHANGED <<vars, kernel_heap>> /\ At("draw") /\ (at' = at + 1 \/ Stop)
    BY <1>11, Zenon DEF Draw, ownVars
  <2> QED
    BY <2>1 DEF At, Stop
<1>12. CASE EnableScheduler
  BY <1>12 DEF EnableScheduler, Do, At
<1>13. CASE EnterRing3
  BY <1>13 DEF EnterRing3, Do, At, ownVars
<1>14. CASE ReEnableMouse
  BY <1>14 DEF ReEnableMouse, ownVars
<1> QED
  BY <1>1, <1>2, <1>3, <1>4, <1>5, <1>6, <1>7, <1>8, <1>9, <1>10, <1>11, <1>12, <1>13, <1>14

\* A step of the set-up keeps the invariant and does not go past the map of the screen.
LEMMA SetUpMemoryStep ==
  ASSUME PagingInv, SetUpMemory
  PROVE  PagingInv' /\ pc' \in Labels \ {"idle", "ready"}
<1>1. PagingInv'
  BY MarkKernelStep, MarkModulesStep, MarkBitmapStep, MarkFramebufferStep, AllocDirectoryStep,
     ReserveStep, MapIdentityStep, EnableStep, MapFramebufferStep DEF SetUpMemory
<1>2. CASE MarkKernel \/ MarkModules \/ MarkBitmap \/ MarkFramebuffer \/ AllocDirectory \/ Reserve
  BY <1>1, <1>2 DEF MarkKernel, MarkModules, MarkBitmap, MarkFramebuffer, AllocDirectory, Reserve,
              Step, Labels
<1>3. CASE MapIdentity
  BY <1>1, <1>3 DEF MapIdentity, MapRegion, Labels
<1>4. CASE MapFramebuffer
  BY <1>1, <1>4 DEF MapFramebuffer, MapRegion, Labels
<1>5. CASE Enable
  BY <1>1, <1>5 DEF Enable, Labels
<1> QED
  BY <1>1, <1>2, <1>3, <1>4, <1>5 DEF SetUpMemory

LEMMA InitMemoryStep ==
  ASSUME PagingInv, MemoryPlaces, InitMemory
  PROVE  PagingInv' /\ MemoryPlaces' /\ UNCHANGED kernel_heap
<1>1. at = 2 /\ UNCHANGED kernel_heap /\ STOPPED = 22
  BY Places DEF InitMemory, At, MemoryPlaces, ownVars
<1>2. CASE pc # "orbit" /\ SetUpMemory /\ at' = IF pc' = "stopped" THEN STOPPED ELSE at
  <2>1. PagingInv' /\ pc' \in Labels \ {"idle", "ready"}
    BY <1>2, SetUpMemoryStep
  <2> QED
    BY <1>1, <1>2, <2>1 DEF MemoryPlaces
<1>3. CASE pc = "orbit" /\ UNCHANGED vars /\ at' = at + 1
  <2>1. PagingInv'
    BY <1>3 DEF vars, bitmapVars, PagingInv, PagingTypes, Marked, DirectoryPlaced, TablesPlaced,
                Mapped, Late, Sound, Early, UsedFrames, KernelFrames, Loaded, Bitmap, Pages,
                MappedPages, ActualUsed, ReservationEnd, Highest
  <2> QED
    BY <1>1, <1>3, <2>1 DEF MemoryPlaces, vars
<1> QED
  BY <1>1, <1>2, <1>3 DEF InitMemory

LEMMA InitHeapStep ==
  ASSUME PagingInv, MemoryPlaces, InitHeap
  PROVE  PagingInv' /\ MemoryPlaces' /\ kernel_heap' \in Nat
<1>1. /\ Do("kheap") /\ UNCHANGED <<machine, mem, dir, enabled, pc, addr>>
      /\ \E frame \in DOMAIN mem : Alloc(frame) /\ kernel_heap' = frame * PAGE_SIZE
  BY Zenon DEF InitHeap
<1>2. at = 8 /\ at' = 9 /\ pc = "orbit" /\ pc' = "orbit"
  BY <1>1, Places DEF Do, At, MemoryPlaces
<1>3. PICK frame \in DOMAIN mem : Alloc(frame) /\ kernel_heap' = frame * PAGE_SIZE
  BY <1>1
<1>4. PagingTypes /\ frame \in Nat
  <2>1. PagingTypes /\ machine \in Machines /\ DOMAIN mem = 0 .. Start + machine.total_pages - 1
    BY DEF PagingInv, PagingTypes
  <2>2. Start + machine.total_pages - 1 \in Nat
    BY <2>1, PagesFacts
  <2> QED
    BY <2>1, <2>2
<1>5. /\ used \subseteq used' /\ used' \subseteq Pages /\ used_pages' = Cardinality(used')
      /\ exhausted' \in BOOLEAN /\ (exhausted => exhausted')
      /\ ~exhausted' => (used = 0 .. used_pages - 1 => used' = 0 .. used_pages' - 1)
  BY <1>1, <1>3, <1>4, AllocFacts
<1>6. PagingInv'
  BY <1>1, <1>2, <1>5, PagesTaken
<1>7. kernel_heap' \in Nat
  BY <1>3, <1>4, BaseFacts DEF Base
<1> QED
  BY <1>2, <1>6, <1>7 DEF MemoryPlaces

\* The pages kmalloc takes are the first that are free, each of them once.
LEMMA HeapPagesFirst ==
  ASSUME PagingInv, kernel_heap \in Nat
  PROVE  /\ HeapPages \subseteq Pages /\ HeapPages \cap used = {}
         /\ \A p \in HeapPages, q \in Pages \ used : q < p => q \in HeapPages
<1> DEFINE n == Frame(Up(PcbEnd, PAGE_SIZE))
           Before(p) == {q \in Pages \ used : q < p}
<1>1. machine \in Machines
  BY DEF PagingInv, PagingTypes
<1>2. IsFiniteSet(Pages) /\ Pages \in SUBSET Nat
  BY <1>1, PagesFacts
<1>3. n \in Nat
  <2>1. PcbEnd \in Nat
    BY BootConstants DEF PcbEnd
  <2> QED
    BY <2>1, UpFacts, FrameFacts, Constants
<1>4. HeapPages = {p \in Pages \ used : Cardinality(Before(p)) < n}
  BY DEF HeapPages, Lowest
<1> HIDE DEF n
<1>5. ASSUME NEW p \in HeapPages, NEW q \in Pages \ used, q < p PROVE q \in HeapPages
  <2>1. Before(q) \in SUBSET Before(p)
    <3>1. p \in Nat /\ q \in Nat
      BY <1>2, <1>4
    <3>2. \A x \in Pages \ used : x < q => x < p
      BY <1>2, <1>5, <3>1
    <3> QED
      BY <3>2
  <2>2. IsFiniteSet(Before(p)) /\ IsFiniteSet(Before(q))
    BY <1>2, FS_Subset
  <2>3. Cardinality(Before(q)) <= Cardinality(Before(p))
    BY <2>1, <2>2, FS_Subset
  <2>4. Cardinality(Before(p)) \in Nat /\ Cardinality(Before(q)) \in Nat
    BY <2>2, FS_CardinalityType
  <2>5. Cardinality(Before(p)) < n
    BY <1>4, <1>5
  <2> HIDE DEF Before
  <2>6. Cardinality(Before(q)) < n
    BY <1>3, <2>3, <2>4, <2>5
  <2> QED
    BY <1>4, <1>5, <2>6
<1> QED
  BY <1>4, <1>5

LEMMA CreateSysmanStep ==
  ASSUME PagingInv, MemoryPlaces, kernel_heap \in Nat, CreateSysman
  PROVE  PagingInv' /\ MemoryPlaces' /\ UNCHANGED kernel_heap
<1>1. /\ At("create_sysman") /\ (Stop \/ at' = at + 1)
      /\ UNCHANGED <<machine, mem, dir, enabled, pc, addr, exhausted, kernel_heap>>
      /\ \/ UNCHANGED bitmapVars
         \/ used' = used \cup HeapPages /\ used_pages' = used_pages + Cardinality(HeapPages)
  BY ZenonT(30) DEF CreateSysman
<1>2. at = 18 /\ at' \in {19, 22} /\ pc = "ready" /\ pc' = "ready"
  BY <1>1, Places DEF At, Stop, MemoryPlaces
<1>3. /\ PagingTypes /\ used \subseteq Pages /\ used_pages = Cardinality(used)
      /\ machine \in Machines /\ exhausted \in BOOLEAN
  BY DEF PagingInv, PagingTypes
<1>4. CASE UNCHANGED bitmapVars
  <2>1. used' = used /\ used_pages' = used_pages
    BY <1>4 DEF bitmapVars
  <2> QED
    BY <1>1, <1>2, <1>3, <2>1, PagesTaken DEF MemoryPlaces
<1>5. CASE used' = used \cup HeapPages /\ used_pages' = used_pages + Cardinality(HeapPages)
  <2>1. /\ HeapPages \subseteq Pages /\ HeapPages \cap used = {}
        /\ \A p \in HeapPages, q \in Pages \ used : q < p => q \in HeapPages
    BY HeapPagesFirst
  <2>2. used_pages' = Cardinality(used')
    <3>1. IsFiniteSet(Pages)
      BY <1>3, PagesFacts
    <3>2. IsFiniteSet(used) /\ IsFiniteSet(HeapPages)
      BY <1>3, <2>1, <3>1, FS_Subset
    <3>3. Cardinality(used \cup HeapPages)
            = Cardinality(used) + Cardinality(HeapPages) - Cardinality(used \cap HeapPages)
      BY <3>2, FS_Union
    <3>4. Cardinality(used \cap HeapPages) = 0
      BY <2>1, FS_EmptySet
    <3>5. Cardinality(used) \in Nat /\ Cardinality(HeapPages) \in Nat
      BY <3>2, FS_CardinalityType
    <3>6. Cardinality(used \cup HeapPages) = used_pages + Cardinality(HeapPages)
      BY <1>3, <3>3, <3>4, <3>5
    <3> QED
      BY <1>5, <3>6
  <2>3. ASSUME used = 0 .. used_pages - 1 PROVE used' = 0 .. used_pages' - 1
    <3> DEFINE t == machine.total_pages
               S == used \cup HeapPages
    <3>1. t \in Nat /\ Pages = 0 .. t - 1 /\ used_pages \in Nat
      BY <1>3, PagesFacts, UsedFacts DEF Pages
    <3> HIDE DEF t
    <3>2. ASSUME NEW p \in S, NEW q \in 0 .. t - 1, q < p PROVE q \in S
      <4>1. CASE p \in used
        BY <2>3, <3>1, <3>2, <4>1
      <4>2. CASE p \in HeapPages
        BY <2>1, <3>1, <3>2, <4>2
      <4> QED
        BY <3>2, <4>1, <4>2
    <3>3. S \in SUBSET (0 .. t - 1) /\ \A p \in S : \A q \in 0 .. t - 1 : q < p => q \in S
      BY <1>3, <2>1, <3>1, <3>2
    <3>4. used' = S
      BY <1>5
    <3> HIDE DEF S
    <3>5. S = 0 .. Cardinality(S) - 1
      BY <3>1, <3>3, DownClosed
    <3> QED
      BY <2>2, <3>4, <3>5
  <2>4. used \subseteq used' /\ used' \subseteq Pages
    BY <1>3, <1>5, <2>1
  <2>5. PagingInv'
    BY <1>1, <1>2, <1>3, <2>2, <2>3, <2>4, PagesTaken
  <2> QED
    BY <1>1, <1>2, <2>5 DEF MemoryPlaces
<1> QED
  BY <1>1, <1>4, <1>5

LEMMA LoadModulesStep ==
  ASSUME PagingInv, MemoryPlaces, LoadModules
  PROVE  PagingInv' /\ MemoryPlaces' /\ UNCHANGED kernel_heap
<1>1. /\ At("modules") /\ CopyOrbit /\ UNCHANGED kernel_heap
      /\ IF pc' = "ready" THEN at' = at + 1 ELSE Stop
  BY DEF LoadModules, ownVars
<1>2. at = 14 /\ STOPPED = 22
  BY <1>1, Places DEF At, MemoryPlaces
<1>3. PagingInv'
  BY <1>1, CopyOrbitStep
<1> QED
  BY <1>1, <1>2, <1>3 DEF MemoryPlaces, Stop

BootInv == PagingInv /\ MemoryPlaces /\ kernel_heap \in Nat

LEMMA BootInvStep == BootInv /\ [BootNext]_bootVars => BootInv'
<1> SUFFICES ASSUME BootInv, [BootNext]_bootVars PROVE BootInv'
  OBVIOUS
<1>a. PagingInv /\ MemoryPlaces /\ kernel_heap \in Nat /\ at \in 1 .. 22
  BY DEF BootInv, MemoryPlaces
<1>1. ASSUME UNCHANGED <<vars, kernel_heap>>,
             at' = 22 \/ at' = at \/ (at \notin {2, 14, 22} /\ at' = at + 1)
      PROVE  BootInv'
  <2>1. PagingInv'
    BY ZenonT(60), <1>a, <1>1 DEF vars, bitmapVars, PagingInv, PagingTypes, Marked, DirectoryPlaced,
       TablesPlaced, Mapped, Late, Sound, Early, UsedFrames, KernelFrames, Loaded, Bitmap, Pages,
       MappedPages, ActualUsed, ReservationEnd, Highest
  <2>2. pc' = pc /\ kernel_heap' = kernel_heap
    BY <1>1 DEF vars
  <2>3. MemoryPlaces'
    BY <1>a, <1>1, <2>2 DEF MemoryPlaces
  <2> QED
    BY <1>a, <2>1, <2>2, <2>3 DEF BootInv
<1>2. CASE UNCHANGED bootVars
  BY <1>1, <1>2 DEF bootVars, ownVars
<1>3. CASE InitMemory
  BY <1>a, <1>3, InitMemoryStep DEF BootInv
<1>4. CASE InitHeap
  BY <1>a, <1>4, InitHeapStep DEF BootInv
<1>5. CASE LoadModules
  BY <1>a, <1>5, LoadModulesStep DEF BootInv
<1>6. CASE CreateSysman
  BY <1>a, <1>6, CreateSysmanStep DEF BootInv
<1>7. CASE \/ CheckBga \/ LoadGdt \/ LoadIdt \/ CallIrq \/ StepIrq \/ SetExceptions
           \/ SetMouseGate \/ InitManagers \/ SetIf \/ InitBga \/ Draw \/ EnableScheduler
           \/ EnterRing3 \/ ReEnableMouse
  BY <1>a, <1>1, <1>7, OtherSteps
<1> QED
  BY <1>2, <1>3, <1>4, <1>5, <1>6, <1>7 DEF BootNext, Kernel

LEMMA BootAlways == BootSpec => []BootInv
<1>1. BootInit => BootInv
  <2>1. BootInit => PagingInv
    BY PagingInit DEF BootInit
  <2>2. BootInit => MemoryPlaces /\ kernel_heap \in Nat
    BY DEF BootInit, Init, MemoryPlaces, Labels
  <2> QED
    BY <2>1, <2>2 DEF BootInv
<1> QED
  BY <1>1, BootInvStep, PTL DEF BootSpec

-----------------------------------------------------------------------------
\* Where the tables are, and that what is loaded lies before them.
LEMMA TablesBehind ==
  ASSUME PagingInv, Late
  PROVE  /\ \A f \in Tables : f \in UsedFrames /\ ActualUsed <= Base(f)
         /\ \A f \in Loaded \cup Bitmap : f \in Nat /\ Base(f) < ActualUsed
         /\ ActualUsed \in Nat
<1>1. machine \in Machines /\ PagingTypes
  BY DEF PagingInv, PagingTypes
<1>2. dir \in Nat /\ dir \in UsedFrames
  BY <1>1, DirectoryIsNoTable, UsedFacts
<1>3. /\ ActualUsed \in Nat /\ 3 * MB + TABLE_SPAN <= ActualUsed
      /\ \A end \in Ends(machine) : end + MB + TABLE_SPAN <= ActualUsed
  BY <1>1, <1>2, ReservedFacts
<1>4. \A f \in Tables : f \in UsedFrames /\ ActualUsed <= Base(f)
  BY DEF Tables, PagingInv, TablesPlaced
<1>5. /\ MB \in Nat \ {0} /\ TABLE_SPAN \in Nat /\ ORBIT_BASE \in Nat
      /\ ORBIT_BASE <= 2 * MB + TABLE_SPAN /\ PAGE_SIZE \in Nat
  BY Constants
<1>6. /\ Ends(machine) \in SUBSET Nat /\ BitmapAddr(machine) \in Nat /\ BitmapEnd(machine) \in Nat
      /\ machine.kernel_end \in Ends(machine)
      /\ \A mod \in Range(machine.mods) : mod.start \in Nat /\ mod.end \in Ends(machine)
  BY <1>1, MachineFacts
<1>7. ASSUME NEW end \in Ends(machine), NEW a \in Nat, NEW f \in Frames(a, end)
      PROVE  f \in Nat /\ Base(f) < ActualUsed
  <2>1. end \in Nat /\ f \in Nat /\ Base(f) < end /\ Base(f) \in Nat
    BY <1>6, FramesFacts, BaseFacts
  <2>2. end + MB + TABLE_SPAN <= ActualUsed
    BY <1>3
  <2> QED
    BY <1>3, <1>5, <2>1, <2>2
<1>8. ASSUME NEW f \in Loaded PROVE f \in Nat /\ Base(f) < ActualUsed
  <2>1. CASE f \in Frames(MB, machine.kernel_end)
    BY <1>5, <1>6, <1>7, <2>1
  <2>2. CASE f \in UNION {Frames(mod.start, mod.end) : mod \in Range(machine.mods)}
    <3>1. PICK mod \in Range(machine.mods) : f \in Frames(mod.start, mod.end)
      BY <2>2
    <3>2. mod.start \in Nat /\ mod.end \in Ends(machine)
      BY <1>6
    <3> QED
      BY <1>7, <3>1, <3>2
  <2> QED
    BY <2>1, <2>2 DEF Loaded
<1>9. ASSUME NEW f \in Bitmap PROVE f \in Nat /\ Base(f) < ActualUsed
  <2>1. f \in Nat /\ Base(f) < BitmapEnd(machine) /\ Base(f) \in Nat
    BY <1>6, FramesFacts, BaseFacts DEF Bitmap
  <2>2. BitmapEnd(machine) + PAGE_SIZE <= ORBIT_BASE
    BY DEF Late, Sound
  <2> QED
    BY <1>3, <1>5, <1>6, <2>1, <2>2
<1> QED
  BY <1>3, <1>4, <1>8, <1>9

LEMMA ApartWhereItIs == PagingInv => StructuresApart
<1> SUFFICES ASSUME PagingInv, dir # 0, Sound
             PROVE  /\ ({dir} \cup Tables) \cap (Loaded \cup Bitmap \cup Orbit) = {}
                    /\ dir \notin Tables
                    /\ \A d, e \in Entries :
                         mem[dir][d] = mem[dir][e] => d = e \/ mem[dir][d] = Absent
  BY DEF StructuresApart
<1>1. pc \notin Early
  BY DEF PagingInv, Marked
<1>2. dir \notin Loaded \cup Bitmap
  BY <1>1 DEF PagingInv, DirectoryPlaced
<1>3. CASE pc = "reserve"
  <2>1. \A e \in Entries : mem[dir][e] = Absent
    BY <1>1, <1>3 DEF PagingInv, DirectoryPlaced
  <2>2. Tables = {} /\ Orbit = {}
    BY <1>3, <2>1 DEF Tables, Orbit
  <2> QED
    BY <1>2, <2>1, <2>2
<1>4. CASE pc # "reserve"
  <2>1. Late
    BY <1>1, <1>4 DEF Late
  <2>2. /\ \A f \in Tables : f \in UsedFrames /\ ActualUsed <= Base(f)
        /\ \A f \in Loaded \cup Bitmap : f \in Nat /\ Base(f) < ActualUsed
        /\ ActualUsed \in Nat
    BY <2>1, TablesBehind
  <2>3. dir \notin Tables
    <3>1. \A f \in Tables : f \in Nat
      BY <2>2, UsedFacts DEF PagingInv
    <3> QED
      BY <2>1, <2>2, <3>1, DirectoryIsNoTable
  <2>4. dir \notin Orbit /\ \A f \in Orbit : f \in Nat /\ Base(f) < ActualUsed
    <3>1. CASE pc = "ready" /\ Len(machine.mods) >= 2
      <4>1. /\ OrbitEnd \in Nat /\ OrbitEnd <= ActualUsed
            /\ \A f \in Frames(ORBIT_BASE, OrbitEnd) : f \in Nat /\ Base(f) < OrbitEnd
            /\ dir \notin Frames(ORBIT_BASE, OrbitEnd)
        BY <2>1, <3>1, OrbitFacts
      <4>2. Orbit = Frames(ORBIT_BASE, OrbitEnd)
        BY <3>1 DEF Orbit
      <4> QED
        BY <2>2, <4>1, <4>2, BaseFacts
    <3>2. CASE pc # "ready"
      BY <3>2 DEF Orbit
    <3>3. pc = "ready" => Len(machine.mods) >= 2
      BY DEF PagingInv, Marked
    <3> QED
      BY <3>1, <3>2, <3>3
  <2>5. \A f \in Tables : f \notin Loaded \cup Bitmap \cup Orbit
    <3> SUFFICES ASSUME NEW f \in Tables, f \in Loaded \cup Bitmap \cup Orbit PROVE FALSE
      OBVIOUS
    <3>1. f \in Nat /\ Base(f) < ActualUsed /\ ActualUsed <= Base(f)
      BY <2>2, <2>4
    <3>2. Base(f) \in Nat
      BY <3>1, BaseFacts
    <3> QED
      BY <2>2, <3>1, <3>2
  <2>6. \A d, e \in Entries : mem[dir][d] = mem[dir][e] => d = e \/ mem[dir][d] = Absent
    BY <2>1 DEF PagingInv, TablesPlaced
  <2> QED
    BY <1>2, <2>3, <2>4, <2>5, <2>6
<1> QED
  BY <1>3, <1>4

LEMMA MappedWhereItIs == PagingInv => MapsToItself
<1> SUFFICES ASSUME PagingInv, enabled, Sound, NEW v \in 0 .. ENTRIES * ENTRIES - 1
             PROVE  Walk(v) = IF \/ v \in Frames(0, KERNEL_SPACE)
                                 \/ /\ v \in Frames(FB_ADDR, FB_ADDR + FB_SIZE)
                                    /\ pc = "map_fb" => v * PAGE_SIZE < addr
                              THEN v ELSE Absent
  BY DEF MapsToItself
<1>1. pc \notin Early \cup {"reserve", "identity", "enable"}
  BY DEF PagingInv, Marked
<1>2. Late
  BY <1>1 DEF Late
<1>3. Walk(v) = IF v \in MappedPages THEN v ELSE Absent
  BY <1>2, WalkFacts
<1>4. v \in MappedPages <=> \/ v \in Frames(0, KERNEL_SPACE)
                           \/ /\ v \in Frames(FB_ADDR, FB_ADDR + FB_SIZE)
                              /\ pc = "map_fb" => v * PAGE_SIZE < addr
  BY <1>1, Zenon DEF MappedPages, Base
<1> QED
  BY <1>3, <1>4

\* A table is behind what is reserved, so memory reaches that far, and orbit's pages are
\* among those that paging_init has reserved.
LEMMA ReadyWhereMemoryIs == PagingInv => ReadyForMemory
<1> SUFFICES ASSUME PagingInv, pc = "ready", Sound
             PROVE  /\ Loaded \cup Bitmap \cup {dir} \cup Tables \cup Orbit \subseteq UsedFrames
                    /\ used = 0 .. used_pages - 1
  BY DEF ReadyForMemory, UsedFrames, FramesOf
<1>1. Late /\ Len(machine.mods) >= 2 /\ PagingTypes /\ machine \in Machines
  BY DEF Late, Early, PagingInv, Marked, PagingTypes
<1>2. Loaded \subseteq UsedFrames /\ Bitmap \subseteq UsedFrames
  BY DEF PagingInv, Marked
<1>3. dir \in UsedFrames
  BY <1>1, DirectoryIsNoTable
<1>4. /\ \A f \in Tables : f \in UsedFrames /\ ActualUsed <= Base(f)
      /\ ActualUsed \in Nat
  BY <1>1, TablesBehind
<1>5. /\ used = 0 .. used_pages - 1
      /\ \A p \in Pages : Base(p + Start) < ActualUsed => p \in used
  BY <1>1 DEF PagingInv, TablesPlaced
<1>6. ActualUsed < MB + Base(machine.total_pages)
  <2>1. 0 \in 0 .. ENTRIES * ENTRIES - 1 /\ 0 \in Frames(0, KERNEL_SPACE)
    <3>1. ENTRIES * ENTRIES \in Nat \ {0} /\ KERNEL_SPACE \in Nat \ {0}
          /\ PAGE_SIZE \in Nat \ {0}
      BY Constants, SMT
    <3>2. 0 \in Frames(0, KERNEL_SPACE)
      <4>1. Base(0) = 0
        BY <3>1 DEF Base
      <4>2. 0 \in Nat /\ Base(0) + PAGE_SIZE > 0 /\ Base(0) < KERNEL_SPACE
        BY <3>1, <4>1
      <4>3. KERNEL_SPACE \in Nat
        BY <3>1
      <4> QED
        BY <4>2, <4>3, FramesFacts
    <3>3. \A w \in Nat \ {0} : 0 \in 0 .. w - 1
      OBVIOUS
    <3> QED
      BY <3>1, <3>2, <3>3
  <2>2. 0 \in MappedPages
    BY <2>1 DEF MappedPages
  <2>3. DirIndex(0) \in Entries /\ TableIndex(0) \in Entries
        /\ 0 = Virtual(DirIndex(0), TableIndex(0))
    BY <2>1, VirtualFacts
  <2>4. mem[dir][DirIndex(0)] # Absent
    BY <1>1, <2>2, <2>3 DEF PagingInv, Mapped
  <2>5. PICK f \in Tables : TRUE
    BY <2>3, <2>4 DEF Tables
  <2>6. /\ f \in Nat /\ Base(f) < MB + Base(machine.total_pages) /\ ActualUsed <= Base(f)
    BY <1>1, <1>4, UsedFacts
  <2>7. Base(f) \in Nat /\ Base(machine.total_pages) \in Nat /\ MB \in Nat
    BY <1>1, <2>6, BaseFacts, PagesFacts, Constants
  <2> QED
    BY <1>4, <2>6, <2>7
<1>7. ASSUME NEW f \in Orbit PROVE f \in UsedFrames
  <2>1. Orbit = Frames(ORBIT_BASE, OrbitEnd)
    BY DEF Orbit
  <2>2. /\ OrbitEnd \in Nat /\ OrbitEnd <= ActualUsed /\ f \in Nat
        /\ Base(f) + PAGE_SIZE > ORBIT_BASE /\ Base(f) < OrbitEnd
    BY <1>1, <1>7, <2>1, OrbitFacts
  <2>3. /\ Base(f) \in Nat /\ MB \in Nat /\ PAGE_SIZE \in Nat /\ ORBIT_BASE \in Nat
        /\ Base(machine.total_pages) \in Nat
    BY <1>1, <2>2, BaseFacts, PagesFacts, Constants
  <2>4. MB <= BitmapEnd(machine) /\ BitmapEnd(machine) \in Nat
    <3>1. /\ machine.kernel_end \in Nat /\ MB < machine.kernel_end
          /\ machine.kernel_end <= BitmapAddr(machine) /\ BitmapAddr(machine) \in Nat
          /\ BitmapAddr(machine) <= BitmapEnd(machine) /\ BitmapEnd(machine) \in Nat
      BY <1>1, MachineFacts
    <3> QED
      BY <2>3, <3>1
  <2>5. BitmapEnd(machine) + PAGE_SIZE <= ORBIT_BASE
    BY DEF Sound
  <2>6. MB <= Base(f) /\ Base(f) < MB + Base(machine.total_pages) /\ Base(f) < ActualUsed
    BY <1>4, <1>6, <2>2, <2>3, <2>4, <2>5
  <2>7. f - Start \in Pages /\ (f - Start) + Start = f
    BY <1>1, <2>2, <2>6, PagesFacts, StartFacts
  <2>8. f - Start \in used
    BY <1>5, <2>6, <2>7
  <2> QED
    BY <1>1, <2>2, <2>8, UsedFacts
<1> QED
  BY <1>2, <1>3, <1>4, <1>5, <1>7

\* The directory and its tables never lie on the kernel, a module, the bitmap or orbit's
\* copy, and no entry shares a table with another: whatever the machine has.
THEOREM StructuresAlwaysApart == BootSpec => []StructuresApart
<1>1. BootInv => StructuresApart
  BY ApartWhereItIs DEF BootInv
<1> QED
  BY <1>1, BootAlways, PTL

\* Paging never maps a page of the kernel's space or of the framebuffer anywhere but to
\* itself, and nothing else: the kernel goes on where it was when paging comes on.
THEOREM AlwaysMapsToItself == BootSpec => []MapsToItself
<1>1. BootInv => MapsToItself
  BY MappedWhereItIs DEF BootInv
<1> QED
  BY <1>1, BootAlways, PTL

\* What kernel_main leaves is what Memory starts from, on every machine.
THEOREM AlwaysReadyForMemory == BootSpec => []ReadyForMemory
<1>1. BootInv => ReadyForMemory
  BY ReadyWhereMemoryIs DEF BootInv
<1> QED
  BY <1>1, BootAlways, PTL

-----------------------------------------------------------------------------
(***************************************************************************)
(* The types of all that kernel_main touches.                              *)
(***************************************************************************)
LEMMA FramebufferTyped ==
  ASSUME machine \in Machines, InitBga
  PROVE  framebuffer' \in Nat
<1> DEFINE bars == machine.bars
           S == {i \in DOMAIN bars : bars[i] \notin {0, ALL_ONES}}
           first == Min(S)
<1>1. framebuffer' = IF S = {} THEN FB_ADDR ELSE BarAddress(bars[first])
  BY DEF InitBga, BarsSet
<1>2. DOMAIN bars \subseteq Nat
      /\ \A bar \in Range(bars) :
           bar \in {0, ALL_ONES} \/ bar \in MB + machine.total_pages * PAGE_SIZE .. ALL_ONES - FB_SIZE
  BY BootAssumption
<1>3. CASE S = {}
  BY <1>1, <1>3, Constants
<1>4. CASE S # {}
  <2>1. first \in S
    <3>1. S \subseteq Nat
      BY <1>2
    <3>2. PICK m \in S : \A y \in S : ~(<<y, m>> \in OpToRel(<, Nat))
      BY <1>4, <3>1, NatLessThanWellFounded, WFMin
    <3>3. \A y \in S : ~(y < m)
      BY <3>1, <3>2 DEF OpToRel
    <3>4. \A y \in S : m =< y
      BY <3>1, <3>3
    <3> QED
      BY <3>4 DEF Min
  <2>2. bars[first] \in Range(bars) /\ bars[first] \notin {0, ALL_ONES}
    BY <2>1 DEF Range
  <2>3. bars[first] \in MB + machine.total_pages * PAGE_SIZE .. ALL_ONES - FB_SIZE
    BY <1>2, <2>2
  <2>4. MB + machine.total_pages * PAGE_SIZE \in Nat /\ ALL_ONES - FB_SIZE \in Int
    <3>1. Base(machine.total_pages) \in Nat /\ Base(ENTRIES * ENTRIES) \in Nat
      BY PagesFacts, BaseFacts, Constants
    <3> QED
      BY <3>1, Constants DEF Base, ALL_ONES
  <2> DEFINE bar == bars[first]
             low == MB + machine.total_pages * PAGE_SIZE
             high == ALL_ONES - FB_SIZE
  <2>5. bar \in low .. high /\ low \in Nat /\ high \in Int
    BY <2>3, <2>4
  <2> HIDE DEF bar, low, high
  <2>6. bar \in Nat
    BY <2>5
  <2>7. bar \div BAR_UNIT \in Nat
    BY <2>6, BootConstants, Divided
  <2>8. BarAddress(bar) \in Nat
    <3> DEFINE q == bar \div BAR_UNIT
    <3>1. q \in Nat /\ BAR_UNIT \in Nat
      BY <2>7, BootConstants
    <3> HIDE DEF q
    <3>2. q * BAR_UNIT \in Nat
      BY <3>1, SMT
    <3> QED
      BY <3>2 DEF q, BarAddress
  <2> QED
    BY <1>1, <1>4, <2>8 DEF bar
<1> QED
  BY <1>3, <1>4

LEMMA BootTypesStep ==
  ASSUME BootInv, BootTypes, [BootNext]_bootVars
  PROVE  BootTypes'
<1>a. PagingInv /\ MemoryPlaces /\ kernel_heap \in Nat /\ machine \in Machines
  BY DEF BootInv, PagingInv, PagingTypes
<1>1. CASE UNCHANGED <<cpuVars, ownVars>>
  BY <1>1 DEF BootTypes, cpuVars, ownVars
<1>2. CASE UNCHANGED bootVars
  BY <1>1, <1>2 DEF bootVars
<1>3. CASE \/ CheckBga \/ InitMemory \/ CallIrq \/ StepIrq \/ Draw \/ LoadModules \/ EnterRing3
           \/ ReEnableMouse
  <2>1. UNCHANGED <<cpuVars, ownVars>>
    BY <1>3, ZenonT(30) DEF CheckBga, InitMemory, CallIrq, StepIrq, Draw, LoadModules, EnterRing3,
                            ReEnableMouse
  <2> QED
    BY <1>1, <2>1
<1>4. CASE LoadGdt
  BY <1>4, BootConstants DEF LoadGdt, BootTypes, ownVars
<1>5. CASE LoadIdt
  BY <1>5 DEF LoadIdt, BootTypes, ownVars
<1>6. CASE SetExceptions \/ SetMouseGate
  <2>1. UNCHANGED <<if_flag, esp0, ownVars>>
    BY <1>6, ZenonT(30) DEF SetExceptions, SetMouseGate, SetGates
  <2> QED
    BY <2>1 DEF BootTypes, ownVars
<1>7. CASE InitHeap
  <2>1. UNCHANGED <<cpuVars, scheduling_enabled, sysman, framebuffer>>
    BY <1>7, Zenon DEF InitHeap
  <2>2. kernel_heap' \in Nat
    BY <1>a, <1>7, InitHeapStep
  <2> QED
    BY <2>1, <2>2 DEF BootTypes, cpuVars
<1>8. CASE InitManagers
  BY <1>8 DEF InitManagers, BootTypes, cpuVars
<1>9. CASE SetIf
  <2>1. (if_flag' = TRUE \/ if_flag' = FALSE) /\ UNCHANGED <<esp0, ownVars>>
    BY <1>9, ZenonT(30) DEF SetIf
  <2>2. if_flag' \in BOOLEAN
    BY <2>1
  <2> QED
    BY <2>1, <2>2 DEF BootTypes, ownVars
<1>10. CASE InitBga
  <2>1. UNCHANGED <<cpuVars, kernel_heap, scheduling_enabled, sysman>>
    BY <1>10, Zenon DEF InitBga
  <2>2. framebuffer' \in Nat
    BY <1>a, <1>10, FramebufferTyped
  <2> QED
    BY <2>1, <2>2 DEF BootTypes, cpuVars
<1>11. CASE EnableScheduler
  BY <1>11 DEF EnableScheduler, BootTypes, cpuVars
<1>12. CASE CreateSysman
  <2>1. /\ UNCHANGED <<if_flag, kernel_heap, scheduling_enabled, framebuffer>>
        /\ \/ UNCHANGED <<sysman, esp0>>
           \/ sysman' = TRUE /\ esp0' = KERNEL_INT_STACK_BASE
    BY <1>12, ZenonT(30) DEF CreateSysman
  <2> QED
    BY <2>1, BootConstants DEF BootTypes
<1> QED
  BY <1>2, <1>3, <1>4, <1>5, <1>6, <1>7, <1>8, <1>9, <1>10, <1>11, <1>12 DEF BootNext, Kernel

\* From the first line of kernel_main to sysman every variable keeps to its type.
THEOREM BootTypeCorrect == BootSpec => []BootTypeOK
<1>1. BootSpec => []BootTypes
  <2>1. BootInit => BootTypes
    <3> SUFFICES ASSUME BootInit PROVE BootTypes
      OBVIOUS
    <3>1. /\ if_flag = FALSE /\ scheduling_enabled = FALSE /\ sysman = FALSE
          /\ esp0 = 0 /\ kernel_heap = 0 /\ framebuffer = 0
      BY Zenon DEF BootInit
    <3> QED
      BY <3>1 DEF BootTypes
  <2>2. BootInv /\ BootTypes /\ [BootNext]_bootVars => BootTypes'
    BY BootTypesStep
  <2> QED
    BY <2>1, <2>2, BootAlways, PTL DEF BootSpec
<1>2. BootSpec => []PlaceInv
  <2>1. PlaceInv /\ [BootNext]_bootVars => PlaceInv'
    BY PlaceStep, BootAssumption
  <2> QED
    BY <2>1, PlaceInit, PTL DEF BootSpec
<1>3. BootSpec => []IrqTypeOK
  BY BootImplementsIrqManager, IrqTypeCorrect, PTL
<1>4. PagingInv => TypeOK
  <2> SUFFICES ASSUME PagingInv PROVE TypeOK
    OBVIOUS
  <2>1. PagingTypes /\ used_pages \in Nat
    BY UsedFacts DEF PagingInv
  <2>2. addr \in 0 .. ENTRIES * ENTRIES * PAGE_SIZE
    <3>1. Base(ENTRIES * ENTRIES) \in Nat /\ addr \in Nat /\ addr <= Base(ENTRIES * ENTRIES)
      BY <2>1, Constants, BaseFacts DEF PagingTypes
    <3>2. addr \in 0 .. Base(ENTRIES * ENTRIES)
      BY <3>1
    <3> QED
      BY <3>2 DEF Base
  <2>3. \A f \in DOMAIN mem, e \in Entries :
          mem[f][e] \in {Absent, Junk} \cup 0 .. ENTRIES * ENTRIES - 1
    BY <2>1 DEF PagingTypes, Word
  <2> QED
    BY <2>1, <2>2, <2>3 DEF TypeOK, PagingTypes
<1>5. BootInv /\ BootTypes /\ PlaceInv /\ IrqTypeOK => BootTypeOK
  BY <1>4, Places DEF BootInv, BootTypes, PlaceInv, GatesInOrder, BootTypeOK
<1> QED
  BY <1>1, <1>2, <1>3, <1>5, BootAlways, PTL
=============================================================================
