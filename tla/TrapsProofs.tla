---------------------------- MODULE TrapsProofs ----------------------------
(***************************************************************************)
(* Proofs about the ways into the kernel, for every set of wrappers and of *)
(* exceptions.                                                             *)
(*                                                                         *)
(* What the kernel stack holds at an instruction is known word by word:    *)
(* inside a call it is a prefix of one sequence, the frame that INT 0x80   *)
(* and syscall_int build, and an interrupt adds its own words to what was  *)
(* there. IInv says so at every label, of the machine itself or, during an *)
(* interrupt, of the machine that was interrupted; the properties are read *)
(* off the words.                                                          *)
(***************************************************************************)
EXTENDS Traps, SequenceTheorems, TLAPS

Kinds == {"arg", "nr", "result", "zero", "junk", "at", "drop", "popa", "common", "ss",
          "cs", "if", "code", "number"} \cup Regs \cup Labels
Words == Kinds \X Int

\* The frame of a call, complete, and how much of it is there at each label.
Frame(name) ==
  SyscallFrame(Loaded(name),
    <<<<"ss", 3>>, <<"at", -Len(OnStack(name))>>, Flags(TRUE), <<"cs", 3>>, <<"back", 0>>>>)

Depth == [dispatch |-> 16, case |-> 16, return |-> 16, halted |-> 16, drop |-> 15,
          pop1 |-> 9, pop2 |-> 8, pop3 |-> 7, pop4 |-> 6, iret |-> 5, back |-> 0]

\* The registers once the dispatcher has returned.
Result(name) == IF Wrappers[name].nr \in Results THEN <<"result", Wrappers[name].nr>>
                ELSE <<"zero", 0>>
Returned(name) ==
  [Loaded(name) EXCEPT !["eax"] = Result(name), !["ecx"] = Junk, !["edx"] = Junk]

InDispatcher == {"dispatch", "case", "return", "halted"}

TakenWell == \A i \in DOMAIN taken : i \notin Pushed(call) => taken[i] = <<"arg", i>>

\* The machine outside interrupts: at instruction p, with the registers regs and
\* the words stack.
Running(p, regs, stack) ==
  /\ p = "user" /\ call = None /\ ustack = <<>>
  /\ regs = Own /\ stack = <<>>

Calling(p, regs, stack) ==
  /\ p \in DOMAIN Depth /\ call \in Wrapped /\ ustack = OnStack(call)
  /\ regs = IF p \in InDispatcher THEN Loaded(call) ELSE Returned(call)
  /\ stack = SubSeq(Frame(call), 1, Depth[p])
  /\ p = "return" => TakenWell

Faulting(p, regs, stack) ==
  /\ p = "fault" /\ call \in Wrapped \cup {None} /\ ustack \in Seq(Words)
  /\ regs \in [Regs -> Words] /\ stack \in Seq(Words) /\ Len(stack) <= 29

Machine(p, regs, stack) ==
  Running(p, regs, stack) \/ Calling(p, regs, stack) \/ Faulting(p, regs, stack)

\* What an interrupt pushes on a machine at p with regs and n words on its stack.
CpuWords(p) ==
  (IF p \in {"user", "back"} THEN <<<<"ss", 3>>, <<"at", -Len(ustack)>>>> ELSE <<>>)
    \o <<Flags(TRUE), <<"cs", IF p \in {"user", "back"} THEN 3 ELSE 0>>, <<p, 0>>>>
SavedWords(regs, n) ==
  [i \in 1 .. 8 |-> IF SavedByIrq[i] = "esp" THEN <<"at", -n>> ELSE regs[SavedByIrq[i]]]

Interrupted ==
  /\ pc = "irq" /\ if = FALSE
  /\ seen = [pc |-> seen.pc, r |-> r, if |-> TRUE, kstack |-> seen.kstack]
  /\ seen.pc # "dispatch"
  /\ Machine(seen.pc, r, seen.kstack)
  /\ kstack = seen.kstack \o CpuWords(seen.pc)
                \o SavedWords(r, Len(seen.kstack)) \o <<<<"popa", 0>>>>

Dead ==
  /\ pc = "dead" /\ if = FALSE /\ Faulting("fault", r, kstack)

IInv ==
  \/ Machine(pc, r, kstack) /\ if = (pc # "dispatch")
  \/ Interrupted
  \/ Dead

-----------------------------------------------------------------------------
(***************************************************************************)
(* What a stack gives back of what was pushed on it.                       *)
(***************************************************************************)
LEMMA PushPop ==
  ASSUME NEW S, NEW s \in Seq(S), NEW t \in Seq(S)
  PROVE  Pop(s \o t, Len(t)) = s
<1>1. /\ s \o t \in Seq(S) /\ Len(s \o t) = Len(s) + Len(t)
      /\ \A i \in 1 .. Len(s) + Len(t) :
           (s \o t)[i] = IF i <= Len(s) THEN s[i] ELSE t[i - Len(s)]
  BY ConcatProperties
<1>2. Len(s) \in Nat /\ Len(t) \in Nat
  BY LenProperties
<1>3. Pop(s \o t, Len(t)) = SubSeq(s \o t, 1, Len(s))
  BY <1>1, <1>2 DEF Pop
<1>4. \A i \in 1 .. Len(s) : (s \o t)[i] \in S /\ (s \o t)[i] = s[i]
  BY <1>1, <1>2, ElementOfSeq
<1>5. /\ SubSeq(s \o t, 1, Len(s)) \in Seq(S)
      /\ Len(SubSeq(s \o t, 1, Len(s))) = Len(s)
      /\ \A i \in 1 .. Len(s) : SubSeq(s \o t, 1, Len(s))[i] = (s \o t)[i]
  <2> DEFINE u == s \o t
             n == Len(s)
  <2>1. n \in Int /\ n >= 0 /\ \A i \in 1 .. n : u[i] \in S
    BY <1>2, <1>4
  <2> HIDE DEF u, n
  <2>2. /\ SubSeq(u, 1, n) \in Seq(S)
        /\ Len(SubSeq(u, 1, n)) = IF 1 <= n THEN n - 1 + 1 ELSE 0
        /\ \A i \in 1 .. n - 1 + 1 : SubSeq(u, 1, n)[i] = u[1 + i - 1]
    BY <2>1, SubSeqProperties
  <2>3. SubSeq(u, 1, n) \in Seq(S) /\ Len(SubSeq(u, 1, n)) = n
        /\ \A i \in 1 .. n : SubSeq(u, 1, n)[i] = u[i]
    BY <2>1, <2>2
  <2> QED
    BY <2>3 DEF u, n
<1> QED
  BY <1>3, <1>4, <1>5, SeqEqual

LEMMA PushTop ==
  ASSUME NEW S, NEW s \in Seq(S), NEW t \in Seq(S), NEW n \in 0 .. Len(t) - 1
  PROVE  Top(s \o t, n) = t[Len(t) - n]
<1>1. /\ Len(s \o t) = Len(s) + Len(t)
      /\ \A i \in 1 .. Len(s) + Len(t) :
           (s \o t)[i] = IF i <= Len(s) THEN s[i] ELSE t[i - Len(s)]
  BY ConcatProperties
<1>2. Len(s) \in Nat /\ Len(t) \in Nat
  BY LenProperties
<1> QED
  BY <1>1, <1>2 DEF Top

\* A stack that holds the first n words of s.
LEMMA PrefixPop ==
  ASSUME NEW S, NEW s \in Seq(S), NEW n \in 0 .. Len(s), NEW k \in 0 .. n
  PROVE  /\ Len(SubSeq(s, 1, n)) = n
         /\ SubSeq(s, 1, n) \in Seq(S)
         /\ \A i \in 1 .. n : SubSeq(s, 1, n)[i] = s[i]
         /\ Pop(SubSeq(s, 1, n), k) = SubSeq(s, 1, n - k)
         /\ k < n => Top(SubSeq(s, 1, n), k) = s[n - k]
<1>1. Len(s) \in Nat /\ \A i \in 1 .. Len(s) : s[i] \in S
  BY LenProperties, ElementOfSeq
<1>2. ASSUME NEW m \in 0 .. Len(s)
      PROVE  /\ SubSeq(s, 1, m) \in Seq(S) /\ Len(SubSeq(s, 1, m)) = m
             /\ \A i \in 1 .. m : SubSeq(s, 1, m)[i] = s[i]
  <2>1. m \in Int /\ \A i \in 1 .. m : s[i] \in S
    BY <1>1
  <2>2. /\ SubSeq(s, 1, m) \in Seq(S)
        /\ Len(SubSeq(s, 1, m)) = IF 1 <= m THEN m - 1 + 1 ELSE 0
        /\ \A i \in 1 .. m - 1 + 1 : SubSeq(s, 1, m)[i] = s[1 + i - 1]
    BY <2>1, SubSeqProperties
  <2> QED
    BY <1>1, <2>2
<1> DEFINE p == SubSeq(s, 1, n)
<1>3. p \in Seq(S) /\ Len(p) = n /\ \A i \in 1 .. n : p[i] = s[i]
  BY <1>2
<1>4. Pop(p, k) = SubSeq(p, 1, n - k)
  BY <1>3 DEF Pop
<1>5. n - k \in 0 .. Len(s) /\ n - k \in Int /\ n - k <= n
  BY <1>1
<1>6. /\ SubSeq(p, 1, n - k) \in Seq(S) /\ Len(SubSeq(p, 1, n - k)) = n - k
      /\ \A i \in 1 .. n - k : SubSeq(p, 1, n - k)[i] = p[i]
  <2> DEFINE m == n - k
  <2>1. m \in Int /\ 0 <= m /\ m <= n /\ n \in Int
    BY <1>1
  <2> HIDE DEF m, p
  <2>2. \A i \in 1 .. m : p[i] \in S
    BY <1>1, <1>3, <2>1
  <2>3. /\ SubSeq(p, 1, m) \in Seq(S)
        /\ Len(SubSeq(p, 1, m)) = IF 1 <= m THEN m - 1 + 1 ELSE 0
        /\ \A i \in 1 .. m - 1 + 1 : SubSeq(p, 1, m)[i] = p[1 + i - 1]
    BY <2>1, <2>2, SubSeqProperties
  <2>4. /\ SubSeq(p, 1, m) \in Seq(S) /\ Len(SubSeq(p, 1, m)) = m
        /\ \A i \in 1 .. m : SubSeq(p, 1, m)[i] = p[i]
    BY <2>1, <2>3
  <2> QED
    BY <2>4 DEF m
<1>7. SubSeq(p, 1, n - k) = SubSeq(s, 1, n - k)
  <2> DEFINE m == n - k
  <2>1. m \in 0 .. Len(s) /\ m <= n
    BY <1>5
  <2>2. /\ SubSeq(s, 1, m) \in Seq(S) /\ Len(SubSeq(s, 1, m)) = m
        /\ \A i \in 1 .. m : SubSeq(s, 1, m)[i] = s[i]
    BY <1>2, <2>1
  <2>3. \A i \in 1 .. m : p[i] = s[i]
    BY <1>1, <1>3, <2>1
  <2> HIDE DEF p
  <2> QED
    BY <1>6, <2>2, <2>3, SeqEqual
<1>8. k < n => Top(p, k) = s[n - k]
  BY <1>1, <1>3 DEF Top
<1> QED
  BY <1>3, <1>4, <1>7, <1>8

-----------------------------------------------------------------------------
(***************************************************************************)
(* The two tables agree: a wrapper's number is that of a case, which takes *)
(* its arguments from where the wrapper has put them.                      *)
(***************************************************************************)
ArgRegs == <<"ebx", "ecx", "edx", "esi">>
Sources == <<"arg1", "arg2", "arg3", "arg4">>

InLists == {<<>>, <<"ebx">>, <<"ebx", "ecx">>, <<"ebx", "ecx", "edx">>,
            <<"ebx", "ecx", "edx", "esi">>, <<"ebx", "ecx", "edx", "stack0", "stack1">>}

\* A wrapper with arguments at in fits a case that takes its own from.
Fits(in, from) ==
  \A i \in DOMAIN from :
    \/ i \in DOMAIN in /\ in[i] \in {"stack0", "stack1"}
    \/ i \in DOMAIN in /\ i \in 1 .. 4 /\ in[i] = ArgRegs[i] /\ from[i] = Sources[i]

LEMMA TextTable ==
  \A name \in DOMAIN TextWrappers :
    LET w == TextWrappers[name]
    IN  /\ w.nr \in DOMAIN TextCases /\ w.in \in InLists
        /\ w.back => w.nr \in Results
        /\ Fits(w.in, TextCases[w.nr])
BY SMTT(30) DEF TextWrappers, Wrapper, TextCases, InLists, Results, Fits, ArgRegs, Sources

LEMMA GfxTable ==
  \A name \in DOMAIN GfxWrappers :
    LET w == GfxWrappers[name]
    IN  /\ w.nr \in DOMAIN GfxCases /\ w.in \in InLists
        /\ w.back => w.nr \in Results
        /\ Fits(w.in, GfxCases[w.nr])
BY SMTT(30) DEF GfxWrappers, DrawRectIn, Wrapper, GfxCases, FillRectCase, InLists,
                Results, Fits, ArgRegs, Sources

LEMMA DeviceTable ==
  \A name \in DOMAIN DeviceWrappers :
    LET w == DeviceWrappers[name]
    IN  /\ w.nr \in DOMAIN DeviceCases /\ w.in \in InLists
        /\ w.back => w.nr \in Results
        /\ Fits(w.in, DeviceCases[w.nr])
BY SMTT(30) DEF DeviceWrappers, Wrapper, DeviceCases, InLists, Results, Fits, ArgRegs,
                Sources

LEMMA Tables ==
  ASSUME NEW name \in DOMAIN Wrappers
  PROVE  /\ Wrappers[name].nr \in DOMAIN Cases /\ Wrappers[name].nr \in Int
         /\ In(name) \in InLists
         /\ Wrappers[name].back => Wrappers[name].nr \in Results
         /\ Fits(In(name), Cases[Wrappers[name].nr])
<1> DEFINE w == Wrappers[name]
<1>1. /\ \A nr \in DOMAIN TextCases : nr \in 1 .. 18
      /\ DOMAIN GfxCases = 19 .. 27 /\ DOMAIN DeviceCases = 28 .. 36
  BY DEF TextCases, GfxCases, DeviceCases
<1>2. \A nr \in DOMAIN TextCases \cup DOMAIN GfxCases \cup DOMAIN DeviceCases :
        /\ nr \in DOMAIN Cases
        /\ Cases[nr] = IF nr \in DOMAIN TextCases THEN TextCases[nr]
                       ELSE IF nr \in DOMAIN GfxCases THEN GfxCases[nr]
                       ELSE DeviceCases[nr]
  BY DEF Cases
<1>3. \/ name \in DOMAIN TextWrappers /\ w = TextWrappers[name]
      \/ name \in DOMAIN GfxWrappers /\ w = GfxWrappers[name]
      \/ name \in DOMAIN DeviceWrappers /\ w = DeviceWrappers[name]
  BY DEF Wrappers
<1>4. \/ w.nr \in DOMAIN TextCases /\ Fits(w.in, TextCases[w.nr])
      \/ w.nr \in DOMAIN GfxCases /\ Fits(w.in, GfxCases[w.nr])
      \/ w.nr \in DOMAIN DeviceCases /\ Fits(w.in, DeviceCases[w.nr])
  <2> HIDE DEF w
  <2> QED
    BY <1>3, TextTable, GfxTable, DeviceTable
<1>5. w.in \in InLists /\ (w.back => w.nr \in Results)
  <2> HIDE DEF w
  <2> QED
    BY <1>3, TextTable, GfxTable, DeviceTable
<1>6. w.nr \in DOMAIN Cases /\ Fits(w.in, Cases[w.nr]) /\ w.nr \in Int
  <2> HIDE DEF w
  <2>1. w.nr \in 1 .. 36
    BY <1>1, <1>4
  <2> QED
    BY <1>1, <1>2, <1>4, <2>1
<1> QED
  BY <1>5, <1>6 DEF In

LEMMA InListsTyped ==
  ASSUME NEW in \in InLists
  PROVE  /\ DOMAIN in \subseteq 1 .. 5
         /\ \A i \in DOMAIN in : \A j \in DOMAIN in : in[i] = in[j] => i = j
         /\ \A i \in DOMAIN in : in[i] # "eax"
BY DEF InLists

LEMMA LoadedWords ==
  ASSUME NEW name \in DOMAIN Wrappers
  PROVE  /\ Loaded(name) \in [Regs -> Words]
         /\ Loaded(name)["eax"] = <<"nr", Wrappers[name].nr>>
         /\ \A i \in DOMAIN In(name) :
              In(name)[i] \in Regs => Loaded(name)[In(name)[i]] = <<"arg", i>>
<1>1. Wrappers[name].nr \in Int /\ In(name) \in InLists
  BY Tables
<1>2. /\ DOMAIN In(name) \subseteq 1 .. 5
      /\ \A i \in DOMAIN In(name) : \A j \in DOMAIN In(name) :
           In(name)[i] = In(name)[j] => i = j
      /\ \A i \in DOMAIN In(name) : In(name)[i] # "eax"
  BY <1>1, InListsTyped
<1>3. ASSUME NEW i \in DOMAIN In(name), In(name)[i] \in Regs
      PROVE  Loaded(name)[In(name)[i]] = <<"arg", i>>
  <2>1. (CHOOSE j \in DOMAIN In(name) : In(name)[j] = In(name)[i]) = i
    BY <1>2, <1>3
  <2> QED
    BY <1>2, <1>3, <2>1 DEF Loaded
<1>4. ASSUME NEW reg \in Regs
      PROVE  Loaded(name)[reg] \in Words
  <2>1. CASE reg = "eax"
    BY <1>1, <2>1 DEF Loaded, Words, Kinds
  <2>2. CASE \E i \in DOMAIN In(name) : In(name)[i] = reg
    <3>1. PICK i \in DOMAIN In(name) : In(name)[i] = reg
      BY <2>2
    <3>2. Loaded(name)[reg] = <<"arg", i>>
      BY <1>3, <3>1
    <3> QED
      BY <1>2, <3>2 DEF Words, Kinds
  <2>3. CASE reg # "eax" /\ ~ \E i \in DOMAIN In(name) : In(name)[i] = reg
    <3>1. Loaded(name)[reg] = <<reg, 0>>
      BY <2>3 DEF Loaded, Own
    <3> QED
      BY <3>1 DEF Words, Kinds
  <2> QED
    BY <2>1, <2>2, <2>3
<1>5. Loaded(name) = [reg \in Regs |-> Loaded(name)[reg]]
  BY DEF Loaded
<1>6. Loaded(name)["eax"] = <<"nr", Wrappers[name].nr>>
  BY DEF Loaded, Regs
<1> QED
  BY <1>3, <1>4, <1>5, <1>6

LEMMA OnStackWords ==
  ASSUME NEW name \in DOMAIN Wrappers
  PROVE  OnStack(name) \in Seq(Words) /\ Len(OnStack(name)) \in Nat
<1>1. <<"arg", 5>> \in Words /\ <<"arg", 4>> \in Words
  BY DEF Words, Kinds
<1> QED
  BY <1>1 DEF OnStack

-----------------------------------------------------------------------------
(***************************************************************************)
(* The words of a call's frame.                                            *)
(***************************************************************************)
EntryWords(name) ==
  <<<<"ss", 3>>, <<"at", -Len(OnStack(name))>>, Flags(TRUE), <<"cs", 3>>, <<"back", 0>>>>
SavedOf(regs) == <<regs["ebp"], regs["ebx"], regs["edi"], regs["esi"]>>
ParametersOf(regs) ==
  <<<<"at", 2>>, regs["esi"], regs["edx"], regs["ecx"], regs["ebx"], regs["eax"],
    <<"drop", 0>>>>

LEMMA FrameParts ==
  ASSUME NEW name \in DOMAIN Wrappers
  PROVE  /\ Frame(name) = EntryWords(name) \o SavedOf(Loaded(name))
                            \o ParametersOf(Loaded(name))
         /\ EntryWords(name) \in Seq(Words)
         /\ SavedOf(Loaded(name)) \in Seq(Words)
         /\ ParametersOf(Loaded(name)) \in Seq(Words)
<1> DEFINE q == Loaded(name)
<1>1. q \in [Regs -> Words]
  BY LoadedWords
<1>2. [i \in 1 .. 4 |-> q[SavedBySyscall[i]]] = SavedOf(q)
  <2> HIDE DEF q
  <2> QED
    BY DEF SavedBySyscall, SavedOf
<1>3. Len(EntryWords(name)) = 5 /\ 8 - (5 + 1) = 2
  BY DEF EntryWords
<1>4. Frame(name) = EntryWords(name) \o SavedOf(q) \o ParametersOf(q)
  <2> HIDE DEF q
  <2>1. SyscallFrame(q, EntryWords(name))
          = EntryWords(name) \o [i \in 1 .. 4 |-> q[SavedBySyscall[i]]] \o ParametersOf(q)
    BY <1>3 DEF SyscallFrame, ParametersOf
  <2> QED
    BY <1>2, <2>1 DEF Frame, EntryWords, q
<1>5. \A reg \in Regs : q[reg] \in Words
  BY <1>1
<1>6. SavedOf(q) \in Seq(Words)
  <2> HIDE DEF q
  <2> QED
    BY <1>5 DEF SavedOf, Regs
<1>7. ParametersOf(q) \in Seq(Words)
  <2> HIDE DEF q
  <2>1. <<"at", 2>> \in Words /\ <<"drop", 0>> \in Words
    BY DEF Words, Kinds
  <2> QED
    BY <1>5, <2>1 DEF ParametersOf, Regs
<1>8. EntryWords(name) \in Seq(Words)
  <2>1. <<"ss", 3>> \in Words /\ <<"cs", 3>> \in Words /\ <<"back", 0>> \in Words
        /\ Flags(TRUE) \in Words
    BY DEF Words, Kinds, Labels, Flags
  <2>2. <<"at", -Len(OnStack(name))>> \in Words
    BY OnStackWords DEF Words, Kinds
  <2>3. ASSUME NEW W, NEW a \in W, NEW b \in W, NEW c \in W, NEW d \in W, NEW f \in W
        PROVE  <<a, b, c, d, f>> \in Seq(W)
    OBVIOUS
  <2> QED
    BY <2>1, <2>2, <2>3 DEF EntryWords
<1> QED
  BY <1>4, <1>6, <1>7, <1>8

LEMMA FrameWords ==
  ASSUME NEW name \in DOMAIN Wrappers
  PROVE  /\ Frame(name) \in Seq(Words) /\ Len(Frame(name)) = 16
         /\ Frame(name)[1] = <<"ss", 3>> /\ Frame(name)[3] = Flags(TRUE)
         /\ Frame(name)[4] = <<"cs", 3>> /\ Frame(name)[5] = <<"back", 0>>
         /\ Frame(name)[6] = Loaded(name)["ebp"] /\ Frame(name)[7] = Loaded(name)["ebx"]
         /\ Frame(name)[8] = Loaded(name)["edi"] /\ Frame(name)[9] = Loaded(name)["esi"]
         /\ Frame(name)[11] = Loaded(name)["esi"] /\ Frame(name)[12] = Loaded(name)["edx"]
         /\ Frame(name)[13] = Loaded(name)["ecx"] /\ Frame(name)[14] = Loaded(name)["ebx"]
         /\ Frame(name)[15] = Loaded(name)["eax"] /\ Frame(name)[16] = <<"drop", 0>>
<1> DEFINE e == EntryWords(name)
           s == SavedOf(Loaded(name))
           t == ParametersOf(Loaded(name))
<1>1. /\ Frame(name) = e \o s \o t
      /\ e \in Seq(Words) /\ s \in Seq(Words) /\ t \in Seq(Words)
  BY FrameParts
<1>2. Len(e) = 5 /\ Len(s) = 4 /\ Len(t) = 7
  BY DEF EntryWords, SavedOf, ParametersOf
<1>3. /\ e[1] = <<"ss", 3>> /\ e[3] = Flags(TRUE) /\ e[4] = <<"cs", 3>>
      /\ e[5] = <<"back", 0>>
  BY DEF EntryWords
<1>4. /\ s[1] = Loaded(name)["ebp"] /\ s[2] = Loaded(name)["ebx"]
      /\ s[3] = Loaded(name)["edi"] /\ s[4] = Loaded(name)["esi"]
  BY DEF SavedOf
<1>5. /\ t[2] = Loaded(name)["esi"] /\ t[3] = Loaded(name)["edx"]
      /\ t[4] = Loaded(name)["ecx"] /\ t[5] = Loaded(name)["ebx"]
      /\ t[6] = Loaded(name)["eax"] /\ t[7] = <<"drop", 0>>
  BY DEF ParametersOf
<1> HIDE DEF e, s, t
<1> DEFINE u == e \o s
           f == u \o t
<1>6. /\ u \in Seq(Words) /\ Len(u) = 5 + 4
      /\ \A i \in 1 .. 5 + 4 : u[i] = IF i <= 5 THEN e[i] ELSE s[i - 5]
  <2>1. /\ u \in Seq(Words) /\ Len(u) = Len(e) + Len(s)
        /\ \A i \in 1 .. Len(e) + Len(s) : u[i] = IF i <= Len(e) THEN e[i] ELSE s[i - Len(e)]
    BY <1>1, ConcatProperties
  <2> HIDE DEF u
  <2> QED
    BY <1>2, <2>1
<1> HIDE DEF u
<1>7. /\ f \in Seq(Words) /\ Len(f) = 9 + 7
      /\ \A i \in 1 .. 9 + 7 : f[i] = IF i <= 9 THEN u[i] ELSE t[i - 9]
  <2>1. /\ f \in Seq(Words) /\ Len(f) = Len(u) + Len(t)
        /\ \A i \in 1 .. Len(u) + Len(t) : f[i] = IF i <= Len(u) THEN u[i] ELSE t[i - Len(u)]
    BY <1>1, <1>6, ConcatProperties
  <2> HIDE DEF f
  <2> QED
    BY <1>2, <1>6, <2>1
<1> HIDE DEF f
<1>8. /\ f[1] = e[1] /\ f[3] = e[3] /\ f[4] = e[4] /\ f[5] = e[5]
      /\ f[6] = s[1] /\ f[7] = s[2] /\ f[8] = s[3] /\ f[9] = s[4]
      /\ f[11] = t[2] /\ f[12] = t[3] /\ f[13] = t[4] /\ f[14] = t[5]
      /\ f[15] = t[6] /\ f[16] = t[7]
  BY <1>6, <1>7
<1>9. f \in Seq(Words) /\ Len(f) = 16 /\ Frame(name) = f
  BY <1>1, <1>7 DEF f, u
<1> QED
  BY <1>3, <1>4, <1>5, <1>8, <1>9

\* What the stack holds at each label of a call, and what is left of it.
LEMMA CallStack ==
  ASSUME NEW name \in DOMAIN Wrappers, NEW p \in DOMAIN Depth, NEW k \in 0 .. Depth[p]
  PROVE  LET s == SubSeq(Frame(name), 1, Depth[p])
         IN  /\ Depth[p] \in 0 .. 16 /\ Len(s) = Depth[p] /\ s \in Seq(Words)
             /\ Pop(s, k) = SubSeq(Frame(name), 1, Depth[p] - k)
             /\ k < Depth[p] => Top(s, k) = Frame(name)[Depth[p] - k]
<1>1. Depth[p] \in 0 .. 16
  BY DEF Depth
<1> DEFINE f == Frame(name)
           n == Depth[p]
<1>2. f \in Seq(Words) /\ n \in 0 .. Len(f) /\ k \in 0 .. n
  BY <1>1, FrameWords
<1> HIDE DEF f, n
<1>3. /\ Len(SubSeq(f, 1, n)) = n /\ SubSeq(f, 1, n) \in Seq(Words)
      /\ Pop(SubSeq(f, 1, n), k) = SubSeq(f, 1, n - k)
      /\ k < n => Top(SubSeq(f, 1, n), k) = f[n - k]
  BY <1>2, PrefixPop
<1> QED
  BY <1>1, <1>3 DEF f, n

-----------------------------------------------------------------------------
(***************************************************************************)
(* The machine outside interrupts.                                         *)
(***************************************************************************)
LEMMA KnownWrappers ==
  \A name \in Wrapped : name \in DOMAIN Wrappers
BY TrapsAssumption

LEMMA ReturnedWords ==
  ASSUME NEW name \in DOMAIN Wrappers
  PROVE  /\ Returned(name) \in [Regs -> Words]
         /\ Returned(name)["eax"] = Result(name)
         /\ \A reg \in {"ebx", "esi", "edi", "ebp"} :
              Returned(name)[reg] = Loaded(name)[reg]
<1>1. Loaded(name) \in [Regs -> Words]
  BY LoadedWords
<1>2. Wrappers[name].nr \in Int
  BY Tables
<1>3. Result(name) \in Words /\ Junk \in Words
  BY <1>2 DEF Result, Junk, Words, Kinds
<1> QED
  BY <1>1, <1>3 DEF Returned, Regs

LEMMA OwnWords ==
  Own \in [Regs -> Words]
BY DEF Own, Words, Kinds

LEMMA MachineTyped ==
  ASSUME NEW p, NEW regs, NEW stack, Machine(p, regs, stack)
  PROVE  /\ p \in Labels /\ p \notin {"irq", "dead"}
         /\ regs \in [Regs -> Words]
         /\ stack \in Seq(Words) /\ Len(stack) \in Nat /\ Len(stack) <= 29
         /\ p \in {"user", "back"} => stack = <<>>
         /\ ustack \in Seq(Words) /\ Len(ustack) \in Nat
         /\ call \in Wrapped \cup {None}
<1>0. <<>> \in Seq(Words) /\ Len(<<>>) = 0 /\ 0 \in Nat
  BY EmptySeq
<1>1. CASE Running(p, regs, stack)
  BY <1>0, <1>1, OwnWords DEF Running, Labels
<1>2. CASE Calling(p, regs, stack)
  <2>1. p \in DOMAIN Depth /\ call \in DOMAIN Wrappers /\ call \in Wrapped
    BY <1>2, KnownWrappers DEF Calling
  <2>2. p \in Labels /\ p \notin {"irq", "dead", "user"}
    BY <2>1 DEF Depth, Labels, PopStep
  <2>3. Depth[p] \in 0 .. 16 /\ (p = "back" => Depth[p] = 0)
    BY <2>1 DEF Depth
  <2>4. 0 \in 0 .. Depth[p]
    BY <2>3
  <2>5. Len(stack) = Depth[p] /\ stack \in Seq(Words)
    BY <1>2, <2>1, <2>4, CallStack DEF Calling
  <2>6. regs \in [Regs -> Words]
    BY <1>2, <2>1, LoadedWords, ReturnedWords DEF Calling
  <2>7. ustack \in Seq(Words) /\ Len(ustack) \in Nat
    BY <1>2, <2>1, OnStackWords DEF Calling
  <2>8. p \in {"user", "back"} => stack = <<>>
    BY <2>2, <2>3, <2>5, EmptySeq
  <2> QED
    BY <2>1, <2>2, <2>3, <2>5, <2>6, <2>7, <2>8
<1>3. CASE Faulting(p, regs, stack)
  BY <1>3, LenProperties DEF Faulting, Labels
<1> QED
  BY <1>1, <1>2, <1>3 DEF Machine

Outside == Machine(pc, r, kstack) /\ if = (pc # "dispatch")

\* Inside a call: the label, the words and what an action takes from their top.
LEMMA InCall ==
  ASSUME Outside, pc \in DOMAIN Depth
  PROVE  /\ call \in Wrapped /\ call \in DOMAIN Wrappers
         /\ Calling(pc, r, kstack)
         /\ \A k \in 0 .. Depth[pc] : Pop(kstack, k) = SubSeq(Frame(call), 1, Depth[pc] - k)
         /\ \A k \in 0 .. Depth[pc] - 1 : Top(kstack, k) = Frame(call)[Depth[pc] - k]
<1>1. Calling(pc, r, kstack)
  BY DEF Outside, Machine, Running, Faulting, Depth
<1>2. call \in Wrapped /\ call \in DOMAIN Wrappers /\ kstack = SubSeq(Frame(call), 1, Depth[pc])
  BY <1>1, KnownWrappers DEF Calling
<1>3. Depth[pc] \in 0 .. 16
  BY DEF Depth
<1>4. ASSUME NEW k \in 0 .. Depth[pc]
      PROVE  /\ Pop(kstack, k) = SubSeq(Frame(call), 1, Depth[pc] - k)
             /\ k < Depth[pc] => Top(kstack, k) = Frame(call)[Depth[pc] - k]
  BY <1>2, CallStack
<1>5. \A k \in 0 .. Depth[pc] - 1 : k \in 0 .. Depth[pc] /\ k < Depth[pc]
  BY <1>3
<1> QED
  BY <1>1, <1>2, <1>4, <1>5

LEMMA Int80Step ==
  ASSUME Outside, Int80
  PROVE  Outside'
<1>1. PICK name \in Wrapped :
        /\ call' = name /\ r' = Loaded(name) /\ ustack' = OnStack(name)
        /\ kstack' = SyscallFrame(Loaded(name),
             <<<<"ss", 3>>, <<"at", -Len(OnStack(name))>>, Flags(if), <<"cs", 3>>, <<"back", 0>>>>)
  BY DEF Int80
<1>2. pc = "user" /\ pc' = "dispatch" /\ if = TRUE /\ if' = FALSE
  BY DEF Int80, Step, Outside, IfInSyscall
<1>3. kstack' = Frame(name)
  BY <1>1, <1>2 DEF Frame
<1>4. Frame(name) = SubSeq(Frame(name), 1, 16)
  BY FrameWords, KnownWrappers, SubSeqFull
<1>5. "dispatch" \in DOMAIN Depth /\ Depth["dispatch"] = 16
  BY DEF Depth
<1>6. Calling(pc, r, kstack)'
  BY <1>1, <1>2, <1>3, <1>4, <1>5 DEF Calling, InDispatcher
<1> QED
  BY <1>2, <1>6 DEF Outside, Machine

LEMMA StiStep ==
  ASSUME Outside, Sti
  PROVE  Outside'
<1>1. /\ pc = "dispatch" /\ pc' = "case" /\ if' = TRUE
      /\ r' = r /\ kstack' = kstack /\ ustack' = ustack /\ call' = call /\ taken' = taken
  BY DEF Sti, Step
<1>2. /\ {"dispatch", "case"} \subseteq DOMAIN Depth
      /\ Depth["dispatch"] = 16 /\ Depth["case"] = 16
  BY DEF Depth
<1>3. Calling(pc, r, kstack)
  BY <1>1, <1>2, InCall
<1>4. Calling(pc, r, kstack)'
  BY <1>1, <1>2, <1>3 DEF Calling, InDispatcher
<1> QED
  BY <1>1, <1>4 DEF Outside, Machine

\* The dispatcher's case finds each argument the wrapper passed in a register.
LEMMA CaseStep ==
  ASSUME Outside, Case
  PROVE  Outside'
<1> DEFINE nr == Wrappers[call].nr
<1>1. pc = "case" /\ if = TRUE /\ if' = TRUE
  BY DEF Case, Step, Outside
<1>2. {"case", "return", "halted"} \subseteq DOMAIN Depth /\ Depth["case"] = 16
      /\ Depth["return"] = 16 /\ Depth["halted"] = 16
  BY DEF Depth
<1>3. Calling(pc, r, kstack) /\ call \in DOMAIN Wrappers
  BY <1>1, <1>2, InCall
<1>4. \A k \in 0 .. 15 : Top(kstack, k) = Frame(call)[16 - k]
  BY <1>1, <1>2, InCall
<1>5. Parameter(1)[2] = nr
  <2>a. Frame(call)[15] = Loaded(call)["eax"]
    BY <1>3, FrameWords
  <2>1. Parameter(1) = Loaded(call)["eax"]
    BY <1>4, <2>a DEF Parameter
  <2>2. Loaded(call)["eax"] = <<"nr", nr>>
    BY <1>3, LoadedWords
  <2> QED
    BY <2>1, <2>2
<1>6. /\ taken' = [i \in DOMAIN Cases[nr] |-> Word(Cases[nr][i])]
      /\ pc' = (IF nr = 4 THEN "halted" ELSE "return")
      /\ r' = r /\ kstack' = kstack /\ ustack' = ustack /\ call' = call
  BY <1>5 DEF Case, Step
<1>7. In(call) \in InLists /\ Fits(In(call), Cases[nr])
  BY <1>3, Tables
<1>8. ASSUME NEW i \in DOMAIN Cases[nr], i \notin Pushed(call)
      PROVE  Word(Cases[nr][i]) = <<"arg", i>>
  <2>1. /\ i \in DOMAIN In(call) /\ i \in 1 .. 4 /\ In(call)[i] = ArgRegs[i]
        /\ Cases[nr][i] = Sources[i]
    BY <1>7, <1>8 DEF Fits, Pushed
  <2>2. ArgRegs[i] \in Regs
    BY <2>1 DEF ArgRegs, Regs
  <2>3. Loaded(call)[ArgRegs[i]] = <<"arg", i>>
    BY <1>3, <2>1, <2>2, LoadedWords
  <2>4. /\ Parameter(2) = Loaded(call)["ebx"] /\ Parameter(3) = Loaded(call)["ecx"]
        /\ Parameter(4) = Loaded(call)["edx"] /\ Parameter(5) = Loaded(call)["esi"]
    <3>1. /\ Frame(call)[14] = Loaded(call)["ebx"] /\ Frame(call)[13] = Loaded(call)["ecx"]
          /\ Frame(call)[12] = Loaded(call)["edx"] /\ Frame(call)[11] = Loaded(call)["esi"]
      BY <1>3, FrameWords
    <3> QED
      BY <1>4, <3>1 DEF Parameter
  <2>5. Word(Sources[i]) = Parameter(i + 1)
    BY <2>1 DEF Word, Sources
  <2>6. Parameter(i + 1) = Loaded(call)[ArgRegs[i]]
    BY <2>1, <2>4 DEF ArgRegs
  <2> QED
    BY <2>1, <2>3, <2>5, <2>6
<1>9. TakenWell'
  <2>1. Pushed(call)' = Pushed(call)
    BY <1>6 DEF Pushed, In
  <2>2. DOMAIN taken' = DOMAIN Cases[nr]
        /\ \A i \in DOMAIN Cases[nr] : taken'[i] = Word(Cases[nr][i])
    BY <1>6
  <2> QED
    BY <1>6, <1>8, <2>1, <2>2 DEF TakenWell
<1>10. Calling(pc, r, kstack)'
  <2>1. pc' \in {"return", "halted"}
    BY <1>6
  <2>2. pc' \in DOMAIN Depth /\ pc' \in InDispatcher /\ Depth[pc'] = 16
    BY <1>2, <2>1 DEF InDispatcher
  <2>3. pc \in InDispatcher /\ Depth[pc] = 16
    BY <1>1, <1>2 DEF InDispatcher
  <2> QED
    BY <1>3, <1>6, <1>9, <2>2, <2>3 DEF Calling
<1> QED
  BY <1>1, <1>6, <1>10 DEF Outside, Machine

LEMMA DispatcherReturnsStep ==
  ASSUME Outside, DispatcherReturns
  PROVE  Outside'
<1> DEFINE nr == Wrappers[call].nr
<1>1. pc = "return" /\ if = TRUE /\ if' = TRUE
  BY DEF DispatcherReturns, Step, Outside
<1>2. {"return", "drop"} \subseteq DOMAIN Depth /\ Depth["return"] = 16 /\ Depth["drop"] = 15
  BY DEF Depth
<1>3. Calling(pc, r, kstack) /\ call \in DOMAIN Wrappers
  BY <1>1, <1>2, InCall
<1>4. /\ \A k \in 0 .. 15 : Top(kstack, k) = Frame(call)[16 - k]
      /\ Pop(kstack, 1) = SubSeq(Frame(call), 1, 15)
  BY <1>1, <1>2, InCall
<1>5. Parameter(1)[2] = nr
  <2>a. Frame(call)[15] = Loaded(call)["eax"]
    BY <1>3, FrameWords
  <2>1. Parameter(1) = Loaded(call)["eax"]
    BY <1>4, <2>a DEF Parameter
  <2>2. Loaded(call)["eax"] = <<"nr", nr>>
    BY <1>3, LoadedWords
  <2> QED
    BY <2>1, <2>2
<1>6. Top(kstack, 0)[1] = "drop"
  <2>1. Frame(call)[16] = <<"drop", 0>>
    BY <1>3, FrameWords
  <2> QED
    BY <1>4, <2>1
<1>7. /\ r' = Clobbered(Result(call)) /\ pc' = "drop"
      /\ kstack' = SubSeq(Frame(call), 1, 15)
      /\ ustack' = ustack /\ call' = call
  BY <1>4, <1>5, <1>6 DEF DispatcherReturns, Step, Result
<1>8. r' = Returned(call)
  <2>1. r = Loaded(call)
    BY <1>1, <1>3 DEF Calling, InDispatcher
  <2> QED
    BY <1>7, <2>1 DEF Clobbered, Returned
<1>9. Calling(pc, r, kstack)'
  BY <1>2, <1>3, <1>7, <1>8 DEF Calling, InDispatcher, Returned, Result
<1> QED
  BY <1>1, <1>7, <1>9 DEF Outside, Machine

LEMMA DropParametersStep ==
  ASSUME Outside, DropParameters
  PROVE  Outside'
<1>1. /\ pc = "drop" /\ pc' = "pop1" /\ if = TRUE /\ if' = TRUE
      /\ kstack' = Pop(kstack, 6)
      /\ r' = r /\ ustack' = ustack /\ call' = call
  BY DEF DropParameters, Step, Outside, ParameterWords
<1>2. {"drop", "pop1"} \subseteq DOMAIN Depth /\ Depth["drop"] = 15 /\ Depth["pop1"] = 9
  BY DEF Depth
<1>3. Calling(pc, r, kstack) /\ Pop(kstack, 6) = SubSeq(Frame(call), 1, 9)
  BY <1>1, <1>2, InCall
<1>4. Calling(pc, r, kstack)'
  BY <1>1, <1>2, <1>3 DEF Calling, InDispatcher
<1> QED
  BY <1>1, <1>4 DEF Outside, Machine

\* Each pop puts back what the register held all along.
LEMMA PopRegisterStep ==
  ASSUME Outside, PopRegister
  PROVE  Outside'
<1>1. PICK i \in 1 .. 4 :
        /\ pc = PopStep[i] /\ pc' = PopStep[i + 1]
        /\ r' = [r EXCEPT ![PoppedBySyscall[i]] = Top(kstack, 0)]
        /\ kstack' = Pop(kstack, 1)
        /\ if' = if /\ ustack' = ustack /\ call' = call
  BY DEF PopRegister, Step
<1>2. /\ PopStep[i] \in DOMAIN Depth /\ PopStep[i + 1] \in DOMAIN Depth
      /\ Depth[PopStep[i]] = 10 - i /\ Depth[PopStep[i + 1]] = 9 - i
      /\ PopStep[i] \notin InDispatcher /\ PopStep[i + 1] \notin InDispatcher
  BY DEF PopStep, Depth, InDispatcher
<1>3. Calling(pc, r, kstack) /\ call \in DOMAIN Wrappers
  BY <1>1, <1>2, InCall
<1>4. Pop(kstack, 1) = SubSeq(Frame(call), 1, 9 - i) /\ Top(kstack, 0) = Frame(call)[10 - i]
  <2>1. /\ 1 \in 0 .. Depth[pc] /\ 0 \in 0 .. Depth[pc] - 1
        /\ Depth[pc] - 1 = 9 - i /\ Depth[pc] - 0 = 10 - i
    BY <1>1, <1>2
  <2> QED
    BY <1>1, <1>2, <2>1, InCall
<1>5. PoppedBySyscall[i] \in {"ebx", "esi", "edi", "ebp"}
      /\ Frame(call)[10 - i] = Loaded(call)[PoppedBySyscall[i]]
  <2>a. /\ Frame(call)[6] = Loaded(call)["ebp"] /\ Frame(call)[7] = Loaded(call)["ebx"]
        /\ Frame(call)[8] = Loaded(call)["edi"] /\ Frame(call)[9] = Loaded(call)["esi"]
    BY <1>3, FrameWords
  <2>1. CASE i = 1
    BY <2>1, <2>a DEF PoppedBySyscall
  <2>2. CASE i = 2
    BY <2>2, <2>a DEF PoppedBySyscall
  <2>3. CASE i = 3
    BY <2>3, <2>a DEF PoppedBySyscall
  <2>4. CASE i = 4
    BY <2>4, <2>a DEF PoppedBySyscall
  <2> QED
    BY <2>1, <2>2, <2>3, <2>4
<1>6. r = Returned(call) /\ r \in [Regs -> Words]
  BY <1>1, <1>2, <1>3, ReturnedWords DEF Calling
<1>7. r' = r
  <2>1. r[PoppedBySyscall[i]] = Top(kstack, 0)
    BY <1>3, <1>4, <1>5, <1>6, ReturnedWords
  <2> QED
    BY <1>1, <1>6, <2>1
<1>8. Calling(pc, r, kstack)'
  <2>1. pc' # "return"
    BY <1>1, <1>2 DEF InDispatcher
  <2>2. pc \notin InDispatcher /\ pc' \notin InDispatcher /\ pc' \in DOMAIN Depth /\ Depth[pc'] = 9 - i
    BY <1>1, <1>2
  <2> QED
    BY <1>1, <1>3, <1>4, <1>7, <2>1, <2>2 DEF Calling
<1>9. pc # "dispatch" /\ pc' # "dispatch"
  BY <1>1, <1>2 DEF InDispatcher
<1> QED
  BY <1>1, <1>8, <1>9 DEF Outside, Machine

LEMMA IretStep ==
  ASSUME Outside, Iret
  PROVE  Outside'
<1>1. /\ pc = "iret" /\ if = TRUE
      /\ r' = r /\ ustack' = ustack /\ call' = call
  BY DEF Iret, Outside
<1>2. {"iret", "back"} \subseteq DOMAIN Depth /\ Depth["iret"] = 5 /\ Depth["back"] = 0
  BY DEF Depth
<1>3. Calling(pc, r, kstack) /\ call \in DOMAIN Wrappers
  BY <1>1, <1>2, InCall
<1>4. /\ \A k \in 0 .. 4 : Top(kstack, k) = Frame(call)[5 - k]
      /\ Pop(kstack, 5) = SubSeq(Frame(call), 1, 0)
  BY <1>1, <1>2, InCall
<1>5. /\ Frame(call)[3] = Flags(TRUE) /\ Frame(call)[4] = <<"cs", 3>>
      /\ Frame(call)[5] = <<"back", 0>>
  BY <1>3, FrameWords
<1>6. /\ Top(kstack, 0) = <<"back", 0>> /\ Top(kstack, 1) = <<"cs", 3>>
      /\ Top(kstack, 2) = Flags(TRUE)
  <2>1. /\ Top(kstack, 0) = Frame(call)[5] /\ Top(kstack, 1) = Frame(call)[4]
        /\ Top(kstack, 2) = Frame(call)[3]
    BY <1>4
  <2> QED
    BY <1>5, <2>1, Zenon
<1>7. pc' = "back" /\ if' = TRUE /\ kstack' = SubSeq(Frame(call), 1, 0)
  <2>1. <<"back", 0>>[1] = "back"
    OBVIOUS
  <2>2. /\ pc' = Top(kstack, 0)[1] /\ if' = (Top(kstack, 2) = Flags(TRUE))
        /\ kstack' = Pop(kstack, IF Top(kstack, 1) = <<"cs", 3>> THEN 5 ELSE 3)
    BY Zenon DEF Iret, IretFrom
  <2> QED
    BY <1>4, <1>6, <2>1, <2>2, Zenon
<1>8. Calling(pc, r, kstack)'
  BY <1>1, <1>2, <1>3, <1>7 DEF Calling, InDispatcher
<1> QED
  BY <1>7, <1>8 DEF Outside, Machine

LEMMA WrapperReturnsStep ==
  ASSUME Outside, WrapperReturns
  PROVE  Outside'
<1>1. /\ pc = "back" /\ pc' = "user" /\ if' = if /\ if = TRUE /\ kstack' = kstack
      /\ r' = Own /\ ustack' = <<>> /\ call' = None
  BY DEF WrapperReturns, Step, Outside
<1>2. kstack = <<>>
  BY <1>1, MachineTyped DEF Outside
<1>3. Running(pc, r, kstack)'
  BY <1>1, <1>2 DEF Running
<1> QED
  BY <1>1, <1>3 DEF Outside, Machine

LEMMA StartStep ==
  ASSUME StartProgram
  PROVE  Outside' /\ seen' = <<>>
<1>1. Running(pc, r, kstack)' /\ pc' = "user" /\ if' = TRUE /\ seen' = <<>>
  BY DEF StartProgram, FlagsAtSwitch, Running
<1> QED
  BY <1>1 DEF Outside, Machine

-----------------------------------------------------------------------------
(***************************************************************************)
(* Interrupts and exceptions.                                              *)
(***************************************************************************)
LEMMA CpuWordsTyped ==
  ASSUME NEW p \in Labels, Len(ustack) \in Nat
  PROVE  /\ CpuWords(p) \in Seq(Words)
         /\ p \in {"user", "back"} =>
              /\ Len(CpuWords(p)) = 5
              /\ CpuWords(p)[5] = <<p, 0>> /\ CpuWords(p)[4] = <<"cs", 3>>
              /\ CpuWords(p)[3] = Flags(TRUE)
         /\ p \notin {"user", "back"} =>
              /\ Len(CpuWords(p)) = 3
              /\ CpuWords(p)[3] = <<p, 0>> /\ CpuWords(p)[2] = <<"cs", 0>>
              /\ CpuWords(p)[1] = Flags(TRUE)
<1>1. /\ <<"at", -Len(ustack)>> \in Words /\ <<"ss", 3>> \in Words
      /\ <<p, 0>> \in Words /\ <<"cs", 3>> \in Words /\ <<"cs", 0>> \in Words
  BY DEF Words, Kinds
<1>2. Flags(TRUE) \in Words
  BY DEF Flags, Words, Kinds
<1> DEFINE cs == <<"cs", IF p \in {"user", "back"} THEN 3 ELSE 0>>
           t  == <<Flags(TRUE), cs, <<p, 0>>>>
           u  == <<<<"ss", 3>>, <<"at", -Len(ustack)>>>>
<1>3. t \in Seq(Words) /\ Len(t) = 3 /\ t[1] = Flags(TRUE) /\ t[2] = cs /\ t[3] = <<p, 0>>
  <2>1. cs \in Words
    BY <1>1
  <2>2. ASSUME NEW W, NEW a \in W, NEW b \in W, NEW c \in W
        PROVE  /\ <<a, b, c>> \in Seq(W) /\ Len(<<a, b, c>>) = 3
               /\ <<a, b, c>>[1] = a /\ <<a, b, c>>[2] = b /\ <<a, b, c>>[3] = c
    OBVIOUS
  <2> HIDE DEF cs
  <2> QED
    BY <1>1, <1>2, <2>1, <2>2
<1>4. u \in Seq(Words) /\ Len(u) = 2
  BY <1>1
<1>5. CpuWords(p) = IF p \in {"user", "back"} THEN u \o t ELSE t
  <2>1. CpuWords(p) = IF p \in {"user", "back"} THEN u \o t ELSE <<>> \o t
    BY DEF CpuWords
  <2> HIDE DEF u, t
  <2>2. <<>> \o t = t
    BY <1>3, ConcatEmptySeq
  <2> QED
    BY <2>1, <2>2
<1> DEFINE w == u \o t
<1> HIDE DEF u, t, cs
<1>6. w \in Seq(Words) /\ Len(w) = 5 /\ w[3] = t[1] /\ w[4] = t[2] /\ w[5] = t[3]
  <2>1. /\ w \in Seq(Words) /\ Len(w) = Len(u) + Len(t)
        /\ \A i \in 1 .. Len(u) + Len(t) : w[i] = IF i <= Len(u) THEN u[i] ELSE t[i - Len(u)]
    BY <1>3, <1>4, ConcatProperties
  <2> HIDE DEF w
  <2>2. Len(w) = 5 /\ \A i \in 1 .. 5 : w[i] = IF i <= 2 THEN u[i] ELSE t[i - 2]
    BY <1>3, <1>4, <2>1
  <2>3. w[3] = t[1] /\ w[4] = t[2] /\ w[5] = t[3]
    BY <2>2
  <2> QED
    BY <2>1, <2>2, <2>3
<1>7. CpuWords(p) = IF p \in {"user", "back"} THEN w ELSE t
  BY <1>5
<1> HIDE DEF w
<1>8. ASSUME p \in {"user", "back"}
      PROVE  /\ CpuWords(p) \in Seq(Words) /\ Len(CpuWords(p)) = 5
             /\ CpuWords(p)[5] = <<p, 0>> /\ CpuWords(p)[4] = cs
             /\ CpuWords(p)[3] = Flags(TRUE) /\ cs = <<"cs", 3>>
  <2>1. CpuWords(p) = w
    BY <1>7, <1>8
  <2>2. cs = <<"cs", 3>>
    BY <1>8 DEF cs
  <2> QED
    BY <1>3, <1>6, <2>1, <2>2
<1>9. ASSUME p \notin {"user", "back"}
      PROVE  /\ CpuWords(p) \in Seq(Words) /\ Len(CpuWords(p)) = 3
             /\ CpuWords(p)[3] = <<p, 0>> /\ CpuWords(p)[2] = cs
             /\ CpuWords(p)[1] = Flags(TRUE) /\ cs = <<"cs", 0>>
  <2>1. CpuWords(p) = t
    BY <1>7, <1>9
  <2>2. cs = <<"cs", 0>>
    BY <1>9 DEF cs
  <2> QED
    BY <1>3, <2>1, <2>2
<1> QED
  BY <1>8, <1>9, Zenon

LEMMA SavedWordsTyped ==
  ASSUME NEW regs \in [Regs -> Words], NEW n \in Nat
  PROVE  SavedWords(regs, n) \in Seq(Words) /\ Len(SavedWords(regs, n)) = 8
<1>1. \A i \in 1 .. 8 : SavedByIrq[i] = "esp" \/ SavedByIrq[i] \in Regs
  BY DEF SavedByIrq, Regs
<1>2. <<"at", -n>> \in Words
  BY DEF Words, Kinds
<1>3. SavedWords(regs, n) \in [1 .. 8 -> Words]
  BY <1>1, <1>2 DEF SavedWords
<1>4. SavedWords(regs, n) \in Seq(Words)
  <2>1. ASSUME NEW S, NEW m \in Nat
        PROVE  [1 .. m -> S] \subseteq Seq(S)
    BY SeqDef
  <2> QED
    BY <1>3, <2>1
<1> QED
  BY <1>3, <1>4, LenProperties

LEMMA IrqStep ==
  ASSUME Outside, Irq
  PROVE  Interrupted'
<1>1. /\ if = TRUE /\ pc' = "irq" /\ if' = FALSE
      /\ seen' = [pc |-> pc, r |-> r, if |-> if, kstack |-> kstack]
      /\ kstack' = kstack \o CpuFrame \o Pusha \o <<<<"popa", 0>>>>
      /\ r' = r /\ ustack' = ustack /\ call' = call /\ taken' = taken
  BY DEF Irq, IfInIrq, Outside
<1>2. pc # "dispatch"
  BY <1>1 DEF Outside
<1>3. /\ seen'.pc = pc /\ seen'.kstack = kstack
      /\ seen' = [pc |-> pc, r |-> r, if |-> TRUE, kstack |-> kstack]
  BY <1>1
<1>4. CpuFrame = CpuWords(pc) /\ Pusha = SavedWords(r, Len(kstack))
  BY <1>1 DEF CpuFrame, CpuWords, InRing3, Pusha, SavedWords
<1>5. CpuWords(seen.pc)' = CpuWords(pc) /\ SavedWords(r, Len(seen.kstack))' = SavedWords(r, Len(kstack))
  BY <1>1, <1>3 DEF CpuWords, SavedWords
<1>6. Machine(seen.pc, r, seen.kstack)'
  <2>1. Machine(pc, r, kstack)
    BY DEF Outside
  <2> QED
    BY <1>1, <1>3, <2>1
       DEF Machine, Running, Calling, Faulting, TakenWell, Pushed, In
<1> QED
  BY <1>1, <1>2, <1>3, <1>4, <1>5, <1>6 DEF Interrupted

LEMMA RestoredByPopa ==
  ASSUME NEW reg \in Regs
  PROVE  \E i \in 1 .. 8 : /\ (CHOOSE j \in 1 .. 8 : SavedByIrq[j] = reg) = i
                           /\ SavedByIrq[i] = reg
<1>1. \E j \in 1 .. 8 : SavedByIrq[j] = reg
  BY DEF SavedByIrq, Regs
<1> QED
  BY <1>1

\* popa and IRET undo what the interrupt has pushed, word by word.
LEMMA IrqReturnsStep ==
  ASSUME Interrupted, IrqReturns
  PROVE  /\ pc' = seen.pc /\ r' = r /\ if' = TRUE /\ kstack' = seen.kstack
         /\ seen' = seen /\ Outside'
<1> DEFINE p == seen.pc
           s == seen.kstack
           f == CpuWords(p)
           w == SavedWords(r, Len(s))
           x == <<<<"popa", 0>>>>
<1>1. /\ kstack = ((s \o f) \o w) \o x
      /\ Machine(p, r, s) /\ p # "dispatch"
      /\ ustack' = ustack /\ call' = call /\ taken' = taken /\ seen' = seen
      /\ r' = [reg \in Regs |-> Popa(reg)]
      /\ IretFrom(Pop(kstack, 9))
  BY DEF Interrupted, IrqReturns
<1>2. /\ p \in Labels /\ s \in Seq(Words) /\ Len(s) \in Nat /\ r \in [Regs -> Words]
      /\ (p \in {"user", "back"} => s = <<>>) /\ Len(ustack) \in Nat
  <2> HIDE DEF p, s
  <2> QED
    BY <1>1, MachineTyped
<1>3. f \in Seq(Words)
  <2> HIDE DEF p
  <2> QED
    BY <1>2, CpuWordsTyped
<1>4. w \in Seq(Words) /\ Len(w) = 8
  <2> HIDE DEF s
  <2> QED
    BY <1>2, SavedWordsTyped
<1>5. x \in Seq(Words) /\ Len(x) = 1
  <2>1. <<"popa", 0>> \in Words
    BY DEF Words, Kinds
  <2> QED
    BY <2>1
<1> DEFINE t == w \o x
           b == s \o f
<1> HIDE DEF p, s, f, w, x
<1>6. b \in Seq(Words)
  BY <1>2, <1>3, ConcatProperties
<1>7. /\ t \in Seq(Words) /\ Len(t) = 9
      /\ \A i \in 1 .. 8 : t[i] = w[i]
  <2>1. /\ t \in Seq(Words) /\ Len(t) = Len(w) + Len(x)
        /\ \A i \in 1 .. Len(w) + Len(x) : t[i] = IF i <= Len(w) THEN w[i] ELSE x[i - Len(w)]
    BY <1>4, <1>5, ConcatProperties
  <2> HIDE DEF t
  <2> QED
    BY <1>4, <1>5, <2>1, SMTT(60)
<1> HIDE DEF b
<1>8. kstack = b \o t
  <2>1. (b \o w) \o x = b \o (w \o x)
    BY <1>4, <1>5, <1>6, ConcatAssociative, SMTT(60)
  <2>2. kstack = (b \o w) \o x
    BY <1>1 DEF b
  <2> QED
    BY <2>1, <2>2 DEF t
<1> HIDE DEF t
<1>9. Pop(kstack, 9) = b
  BY <1>6, <1>7, <1>8, PushPop
<1>10. \A k \in 0 .. 8 : Top(kstack, k) = t[9 - k]
  <2>1. ASSUME NEW k \in 0 .. Len(t) - 1
        PROVE  Top(b \o t, k) = t[Len(t) - k]
    <3>1. b \in Seq(Words) /\ t \in Seq(Words)
      BY <1>6, <1>7
    <3> QED
      BY <2>1, <3>1, PushTop
  <2> QED
    BY <1>7, <1>8, <2>1
<1>11. r' = r
  <2>1. ASSUME NEW reg \in Regs
        PROVE  Popa(reg) = r[reg]
    <3>1. PICK i \in 1 .. 8 : /\ (CHOOSE j \in 1 .. 8 : SavedByIrq[j] = reg) = i
                              /\ SavedByIrq[i] = reg
      BY RestoredByPopa
    <3>2. Popa(reg) = Top(kstack, 9 - i)
      BY <3>1 DEF Popa, Restored
    <3>3. 9 - i \in 0 .. 8 /\ 9 - (9 - i) = i
      OBVIOUS
    <3>4. Top(kstack, 9 - i) = t[i]
      BY <1>10, <3>3
    <3>5. t[i] = w[i]
      BY <1>7
    <3>6. w[i] = r[reg]
      <4>1. SavedByIrq[i] # "esp"
        BY <3>1 DEF Regs
      <4> QED
        BY <3>1, <4>1 DEF w, SavedWords
    <3> QED
      BY <3>2, <3>4, <3>5, <3>6
  <2>2. r = [reg \in Regs |-> r[reg]]
    BY <1>2
  <2> QED
    BY <1>1, <2>1, <2>2
<1>12. pc' = p /\ if' = TRUE /\ kstack' = s
  <2>1. /\ pc' = Top(b, 0)[1] /\ if' = (Top(b, 2) = Flags(TRUE))
        /\ kstack' = Pop(b, IF Top(b, 1) = <<"cs", 3>> THEN 5 ELSE 3)
    BY <1>1, <1>9, Zenon DEF IretFrom
  <2>2. <<p, 0>>[1] = p /\ <<"cs", 0>> # <<"cs", 3>>
    OBVIOUS
  <2>3. /\ \A k \in 0 .. Len(f) - 1 : Top(b, k) = f[Len(f) - k]
        /\ Pop(b, Len(f)) = s
    BY <1>2, <1>3, PushTop, PushPop DEF b
  <2>4. CASE p \in {"user", "back"}
    <3>1. /\ Len(f) = 5 /\ f[5] = <<p, 0>> /\ f[4] = <<"cs", 3>> /\ f[3] = Flags(TRUE)
      BY <1>2, <2>4, CpuWordsTyped DEF f
    <3>2. /\ Top(b, 0) = f[5] /\ Top(b, 1) = f[4] /\ Top(b, 2) = f[3] /\ Pop(b, 5) = s
      <4>1. Pop(b, 5) = s /\ \A k \in 0 .. 4 : Top(b, k) = f[5 - k]
        BY <2>3, <3>1
      <4> HIDE DEF b
      <4> QED
        BY <4>1
    <3> QED
      BY <2>1, <2>2, <3>1, <3>2, Zenon
  <2>5. CASE p \notin {"user", "back"}
    <3>1. /\ Len(f) = 3 /\ f[3] = <<p, 0>> /\ f[2] = <<"cs", 0>> /\ f[1] = Flags(TRUE)
      BY <1>2, <2>5, CpuWordsTyped DEF f
    <3>2. /\ Top(b, 0) = f[3] /\ Top(b, 1) = f[2] /\ Top(b, 2) = f[1] /\ Pop(b, 3) = s
      <4>1. Pop(b, 3) = s /\ \A k \in 0 .. 2 : Top(b, k) = f[3 - k]
        BY <2>3, <3>1
      <4> HIDE DEF b
      <4> QED
        BY <4>1
    <3> QED
      BY <2>1, <2>2, <3>1, <3>2, Zenon
  <2> QED
    BY <2>4, <2>5
<1>13. Machine(pc, r, kstack)'
  BY <1>1, <1>11, <1>12
     DEF Machine, Running, Calling, Faulting, TakenWell, Pushed, In
<1> QED
  BY <1>1, <1>11, <1>12, <1>13 DEF Outside, p, s

\* An exception adds 13 words in ring 3 and 11 to 16 in a call.
LEMMA FaultStep ==
  ASSUME Outside, Fault
  PROVE  Outside'
<1>1. PICK n \in Faults :
        kstack' = kstack \o CpuFrame \o StubWords(n)
                    \o [i \in 1 .. 7 |-> r[SavedByFault[i]]] \o <<<<"common", 0>>>>
  BY DEF Fault
<1>2. /\ pc \in {"user", "case"} /\ pc' = "fault" /\ if = TRUE /\ if' = TRUE
      /\ r' = r /\ ustack' = ustack /\ call' = call
  BY DEF Fault, Outside, IfInFault
<1>3. /\ pc \in Labels /\ r \in [Regs -> Words] /\ kstack \in Seq(Words) /\ Len(kstack) \in Nat
      /\ (pc = "user" => kstack = <<>>)
      /\ ustack \in Seq(Words) /\ Len(ustack) \in Nat /\ call \in Wrapped \cup {None}
  BY MachineTyped DEF Outside
<1>4. (pc = "user" /\ Len(kstack) = 0) \/ (pc = "case" /\ Len(kstack) = 16)
  <2>1. CASE pc = "user"
    BY <1>3, <2>1, EmptySeq
  <2>2. CASE pc = "case"
    <3>1. "case" \in DOMAIN Depth /\ Depth["case"] = 16 /\ 0 \in 0 .. 16
      BY DEF Depth
    <3>2. kstack = SubSeq(Frame(call), 1, 16) /\ call \in DOMAIN Wrappers
      BY <2>2, <3>1, InCall DEF Calling
    <3> QED
      BY <2>2, <3>1, <3>2, CallStack
  <2> QED
    BY <1>2, <2>1, <2>2
<1> DEFINE f == CpuWords(pc)
           c == StubWords(n)
           w == [i \in 1 .. 7 |-> r[SavedByFault[i]]]
           x == <<<<"common", 0>>>>
<1>5. CpuFrame = f
  BY <1>2 DEF CpuFrame, CpuWords, InRing3
<1>6. f \in Seq(Words) /\ Len(f) = IF pc = "user" THEN 5 ELSE 3
  <2>1. pc \in {"user", "case"}
    BY <1>2
  <2> QED
    BY <1>3, <2>1, CpuWordsTyped
<1>7. c \in Seq(Words) /\ Len(c) = 2
  <2>1. n \in Int
    BY TrapsAssumption
  <2>2. <<"code", n>> \in Words /\ <<"number", n>> \in Words /\ <<"code", 0>> \in Words
    BY <2>1 DEF Words, Kinds
  <2>3. ASSUME NEW W, NEW a \in W, NEW d \in W
        PROVE  <<a, d>> \in Seq(W) /\ Len(<<a, d>>) = 2
    OBVIOUS
  <2> QED
    BY <2>2, <2>3 DEF StubWords
<1>8. w \in Seq(Words) /\ Len(w) = 7
  <2>1. \A i \in 1 .. 7 : SavedByFault[i] \in Regs
    BY DEF SavedByFault, Regs
  <2>2. w \in [1 .. 7 -> Words]
    BY <1>3, <2>1
  <2>3. ASSUME NEW S, NEW m \in Nat
        PROVE  [1 .. m -> S] \subseteq Seq(S)
    BY SeqDef
  <2>4. w \in Seq(Words)
    BY <2>2, <2>3
  <2> QED
    BY <2>2, <2>4, LenProperties
<1>9. x \in Seq(Words) /\ Len(x) = 1
  <2>1. <<"common", 0>> \in Words
    BY DEF Words, Kinds
  <2> QED
    BY <2>1
<1> HIDE DEF f, c, w, x
<1>10. kstack' = kstack \o f \o c \o w \o x
  BY <1>1, <1>5 DEF c, w, x
<1>11. ASSUME NEW s \in Seq(Words), NEW t \in Seq(Words)
       PROVE  s \o t \in Seq(Words) /\ Len(s \o t) = Len(s) + Len(t)
  BY ConcatProperties
<1>12. kstack \o f \in Seq(Words) /\ Len(kstack \o f) = Len(kstack) + Len(f)
  BY <1>3, <1>6, <1>11
<1>13. /\ kstack \o f \o c \in Seq(Words)
       /\ Len(kstack \o f \o c) = Len(kstack \o f) + Len(c)
  BY <1>7, <1>11, <1>12
<1>14. /\ kstack \o f \o c \o w \in Seq(Words)
       /\ Len(kstack \o f \o c \o w) = Len(kstack \o f \o c) + Len(w)
  BY <1>8, <1>11, <1>13
<1>15. /\ kstack \o f \o c \o w \o x \in Seq(Words)
       /\ Len(kstack \o f \o c \o w \o x) = Len(kstack \o f \o c \o w) + Len(x)
  BY <1>9, <1>11, <1>14
<1>16. kstack' \in Seq(Words) /\ Len(kstack') <= 29
  <2> DEFINE l1 == Len(kstack \o f)
             l2 == Len(kstack \o f \o c)
             l3 == Len(kstack \o f \o c \o w)
  <2>1. /\ l1 = Len(kstack) + Len(f) /\ l2 = l1 + Len(c) /\ l3 = l2 + Len(w)
        /\ Len(kstack') = l3 + Len(x) /\ kstack' \in Seq(Words)
    BY <1>10, <1>12, <1>13, <1>14, <1>15
  <2>2. (Len(kstack) = 0 /\ Len(f) = 5) \/ (Len(kstack) = 16 /\ Len(f) = 3)
    BY <1>4, <1>6
  <2> DEFINE lk == Len(kstack)
             lf == Len(f)
  <2>3. l1 = lk + lf /\ l2 = l1 + 2 /\ l3 = l2 + 7 /\ Len(kstack') = l3 + 1
    BY <1>7, <1>8, <1>9, <2>1
  <2>4. (lk = 0 /\ lf = 5) \/ (lk = 16 /\ lf = 3)
    BY <2>2
  <2> HIDE DEF l1, l2, l3, lk, lf
  <2>5. Len(kstack') = 15 \/ Len(kstack') = 29
    BY <2>3, <2>4
  <2> QED
    BY <2>1, <2>5
<1>17. Faulting(pc, r, kstack)'
  BY <1>2, <1>3, <1>16 DEF Faulting
<1> QED
  BY <1>2, <1>17 DEF Outside, Machine

LEMMA FaultHaltsStep ==
  ASSUME Outside, FaultHalts
  PROVE  Dead'
<1>1. /\ pc = "fault" /\ pc' = "dead" /\ if' = FALSE
      /\ r' = r /\ kstack' = kstack /\ ustack' = ustack /\ call' = call
  BY DEF FaultHalts, Step
<1>2. Faulting("fault", r, kstack)
  BY <1>1 DEF Outside, Machine, Running, Calling, Faulting, Depth
<1>3. Faulting("fault", r, kstack)'
  BY <1>1, <1>2 DEF Faulting
<1> QED
  BY <1>1, <1>3 DEF Dead

-----------------------------------------------------------------------------
LEMMA InitIInv ==
  Init => IInv
BY DEF Init, IInv, Machine, Running

\* Which actions are possible where: only what IrqReturns and TickStarts do leaves
\* an interrupt, and nothing leaves the dead machine.
LEMMA WhatMayHappen ==
  ASSUME IInv, Next
  PROVE  \/ Outside /\ \/ Int80 \/ Sti \/ Case \/ DispatcherReturns
                       \/ DropParameters \/ PopRegister \/ Iret \/ WrapperReturns
                       \/ Irq \/ Fault \/ FaultHalts
         \/ Interrupted /\ IrqReturns
         \/ StartProgram
<1>1. CASE Outside
  <2>1. pc # "irq"
    BY <1>1, MachineTyped DEF Outside
  <2> QED
    BY <1>1, <2>1, Zenon DEF Next, IrqReturns, TickStarts, FaultRestarts
<1>2. CASE Interrupted
  <2>1. pc = "irq" /\ if = FALSE
    BY <1>2 DEF Interrupted
  <2>2. \A i \in 1 .. 4 : PopStep[i] # "irq"
    BY DEF PopStep
  <2>3. ~Irq /\ ~Fault /\ ~FaultHalts /\ ~FaultRestarts
    BY <2>1 DEF Irq, Fault, FaultHalts, FaultRestarts, Step
  <2>4. ~Int80 /\ ~Sti /\ ~Case /\ ~DispatcherReturns /\ ~DropParameters
    BY <2>1 DEF Int80, Sti, Case, DispatcherReturns, DropParameters, Step
  <2>5. ~PopRegister /\ ~Iret /\ ~WrapperReturns
    BY <2>1, <2>2 DEF PopRegister, Iret, WrapperReturns, Step
  <2> QED
    BY <1>2, <2>3, <2>4, <2>5, Zenon DEF Next, TickStarts
<1>3. CASE Dead
  <2>1. pc = "dead" /\ if = FALSE
    BY <1>3 DEF Dead
  <2>2. \A i \in 1 .. 4 : PopStep[i] # "dead"
    BY DEF PopStep
  <2>3. ~Irq /\ ~Fault /\ ~FaultHalts /\ ~FaultRestarts /\ ~IrqReturns /\ ~TickStarts
    BY <2>1 DEF Irq, Fault, FaultHalts, FaultRestarts, IrqReturns, TickStarts, Step
  <2>4. ~Int80 /\ ~Sti /\ ~Case /\ ~DispatcherReturns /\ ~DropParameters
    BY <2>1 DEF Int80, Sti, Case, DispatcherReturns, DropParameters, Step
  <2>5. ~PopRegister /\ ~Iret /\ ~WrapperReturns
    BY <2>1, <2>2 DEF PopRegister, Iret, WrapperReturns, Step
  <2> QED
    BY <2>3, <2>4, <2>5, Zenon DEF Next
<1> QED
  BY <1>1, <1>2, <1>3 DEF IInv, Outside

LEMMA NextIInv ==
  ASSUME IInv, [Next]_vars
  PROVE  IInv'
<1>1. CASE UNCHANGED vars
  <2>1. /\ pc' = pc /\ r' = r /\ if' = if /\ kstack' = kstack /\ ustack' = ustack
        /\ call' = call /\ taken' = taken /\ seen' = seen
    BY <1>1 DEF vars
  <2>3. CASE Machine(pc, r, kstack) /\ if = (pc # "dispatch")
    <3>1. Machine(pc, r, kstack)'
      BY <2>1, <2>3 DEF Machine, Running, Calling, Faulting, TakenWell, Pushed, In
    <3> QED
      BY <2>1, <2>3, <3>1 DEF IInv
  <2>4. CASE Interrupted
    <3>1. Machine(seen.pc, r, seen.kstack)'
      BY <2>1, <2>4 DEF Interrupted, Machine, Running, Calling, Faulting, TakenWell, Pushed, In
    <3>2. CpuWords(seen.pc)' = CpuWords(seen.pc)
          /\ SavedWords(r, Len(seen.kstack))' = SavedWords(r, Len(seen.kstack))
      BY <2>1 DEF CpuWords, SavedWords
    <3> QED
      BY <2>1, <2>4, <3>1, <3>2 DEF IInv, Interrupted
  <2>5. CASE Dead
    BY <2>1, <2>5 DEF IInv, Dead, Faulting
  <2> QED
    BY <2>3, <2>4, <2>5 DEF IInv
<1>2. CASE Next
  <2>1. Outside' => IInv'
    BY DEF Outside, IInv
  <2>2. Interrupted' => IInv'
    BY DEF IInv
  <2>3. Dead' => IInv'
    BY DEF IInv
  <2>4. Outside /\ Int80 => Outside'
    BY Int80Step
  <2>5. Outside /\ Sti => Outside'
    BY StiStep
  <2>6. Outside /\ Case => Outside'
    BY CaseStep
  <2>7. Outside /\ DispatcherReturns => Outside'
    BY DispatcherReturnsStep
  <2>8. Outside /\ DropParameters => Outside'
    BY DropParametersStep
  <2>9. Outside /\ PopRegister => Outside'
    BY PopRegisterStep
  <2>10. Outside /\ Iret => Outside'
    BY IretStep
  <2>11. Outside /\ WrapperReturns => Outside'
    BY WrapperReturnsStep
  <2>12. Outside /\ Irq => Interrupted'
    BY IrqStep
  <2>13. Outside /\ Fault => Outside'
    BY FaultStep
  <2>14. Outside /\ FaultHalts => Dead'
    BY FaultHaltsStep
  <2>15. Interrupted /\ IrqReturns => Outside'
    BY IrqReturnsStep
  <2>16. StartProgram => Outside'
    BY StartStep
  <2> QED
    BY <1>2, <2>1, <2>2, <2>3, <2>4, <2>5, <2>6, <2>7, <2>8, <2>9, <2>10, <2>11, <2>12,
       <2>13, <2>14, <2>15, <2>16, WhatMayHappen, Zenon
<1> QED
  BY <1>1, <1>2

\* What is on the kernel stack, in the registers and in IF at every instruction of
\* the ways into the kernel and out of it (interrupt_stubs.s:128-224).
THEOREM StacksKnown == Spec => []IInv
<1> QED
  BY InitIInv, NextIInv, PTL DEF Spec

-----------------------------------------------------------------------------
(***************************************************************************)
(* The properties.                                                         *)
(***************************************************************************)
LEMMA IInvTypeOK ==
  ASSUME IInv
  PROVE  TypeOK
<1>1. CASE Outside
  <2>1. if \in BOOLEAN /\ Machine(pc, r, kstack)
    BY <1>1 DEF Outside
  <2>2. /\ pc \in Labels /\ r \in [Regs -> Words] /\ Len(kstack) \in Nat /\ Len(kstack) <= 29
        /\ pc \in {"user", "back"} => kstack = <<>>
        /\ call \in Wrapped \cup {None}
    BY <2>1, MachineTyped
  <2> QED
    BY <2>1, <2>2 DEF TypeOK, InRing3
<1>2. CASE Interrupted
  <2>1. pc = "irq" /\ if = FALSE /\ Machine(seen.pc, r, seen.kstack)
    BY <1>2 DEF Interrupted
  <2> DEFINE p == seen.pc
             s == seen.kstack
             f == CpuWords(p)
             w == SavedWords(r, Len(s))
             x == <<<<"popa", 0>>>>
  <2>2. /\ p \in Labels /\ r \in [Regs -> Words] /\ s \in Seq(Words)
        /\ Len(s) \in Nat /\ Len(s) <= 29 /\ Len(ustack) \in Nat
        /\ (p \in {"user", "back"} => s = <<>>)
        /\ call \in Wrapped \cup {None}
    <3> HIDE DEF p, s
    <3>1. Machine(p, r, s)
      BY <2>1 DEF p, s
    <3> QED
      BY <3>1, MachineTyped
  <2>3. kstack = ((s \o f) \o w) \o x
    BY <1>2 DEF Interrupted
  <2> HIDE DEF p, s
  <2>4. /\ f \in Seq(Words) /\ Len(f) = IF p \in {"user", "back"} THEN 5 ELSE 3
        /\ w \in Seq(Words) /\ Len(w) = 8
    BY <2>2, CpuWordsTyped, SavedWordsTyped
  <2>5. x \in Seq(Words) /\ Len(x) = 1
    <3>1. <<"popa", 0>> \in Words
      BY DEF Words, Kinds
    <3> QED
      BY <3>1
  <2> HIDE DEF f, w, x
  <2>6. ASSUME NEW a \in Seq(Words), NEW b \in Seq(Words)
        PROVE  a \o b \in Seq(Words) /\ Len(a \o b) = Len(a) + Len(b)
    BY ConcatProperties
  <2>7. s \o f \in Seq(Words) /\ Len(s \o f) = Len(s) + Len(f)
    BY <2>2, <2>4, <2>6
  <2>8. (s \o f) \o w \in Seq(Words) /\ Len((s \o f) \o w) = Len(s \o f) + Len(w)
    BY <2>4, <2>6, <2>7
  <2>9. Len(((s \o f) \o w) \o x) = Len((s \o f) \o w) + Len(x)
    BY <2>5, <2>6, <2>8
  <2>10. Len(kstack) <= 41
    <3> DEFINE l1 == Len(s \o f)
               l2 == Len((s \o f) \o w)
               ls == Len(s)
               lf == Len(f)
    <3>1. l1 = ls + lf /\ l2 = l1 + 8 /\ Len(kstack) = l2 + 1
      BY <2>3, <2>4, <2>5, <2>7, <2>8, <2>9
    <3>2. (ls = 0 /\ lf = 5) \/ (ls \in Nat /\ ls <= 29 /\ lf = 3)
      BY <2>2, <2>4, EmptySeq
    <3> HIDE DEF l1, l2, ls, lf
    <3> QED
      BY <3>1, <3>2
  <2>11. pc \in Labels /\ pc \notin {"user", "back"} /\ if \in BOOLEAN
    BY <2>1 DEF Labels
  <2>12. Len(kstack) <= 16 + 13 + 12 /\ DOMAIN r = Regs
    BY <2>2, <2>10
  <2> QED
    BY <2>2, <2>11, <2>12, Zenon DEF TypeOK, InRing3
<1>3. CASE Dead
  <2>1. /\ pc = "dead" /\ if = FALSE /\ call \in Wrapped \cup {None}
        /\ r \in [Regs -> Words] /\ kstack \in Seq(Words) /\ Len(kstack) <= 29
    BY <1>3 DEF Dead, Faulting
  <2>2. Len(kstack) \in Nat
    BY <2>1, LenProperties
  <2>3. pc \in Labels /\ pc \notin {"user", "back"} /\ if \in BOOLEAN
    BY <2>1 DEF Labels
  <2>4. Len(kstack) <= 16 + 13 + 12 /\ DOMAIN r = Regs
    BY <2>1, <2>2
  <2> QED
    BY <2>1, <2>3, <2>4, Zenon DEF TypeOK, InRing3
<1>4. Outside \/ Interrupted \/ Dead
  BY DEF IInv, Outside
<1> QED
  BY <1>1, <1>2, <1>3, <1>4

\* No stack ever holds more than a call, an exception in it and an interrupt in
\* that, and every address popped into EIP is an instruction
\* (interrupt_stubs.s:54-224).
THEOREM TypeCorrect == Spec => []TypeOK
<1> QED
  BY StacksKnown, IInvTypeOK, PTL

\* Arguments passed in registers reach the kernel function in their order, whatever
\* interrupts come between the wrapper and the case (interrupt_stubs.s:138-167,
\* syscall_handler.c:185-190).
THEOREM ArgumentsDelivered == Spec => []ArgumentsArrive
<1>1. IInv => ArgumentsArrive
  <2> SUFFICES ASSUME IInv, pc = "return"
               PROVE  TakenWell
    BY DEF ArgumentsArrive, TakenWell
  <2>1. Calling(pc, r, kstack)
    BY DEF IInv, Machine, Running, Faulting, Interrupted, Dead
  <2> QED
    BY <2>1 DEF Calling
<1> QED
  BY <1>1, StacksKnown, PTL

\* A call gives the program back the registers a C function keeps, what the wrapper
\* pushed and, where the wrapper reads it, the result (interrupt_stubs.s:169-179).
THEOREM CallsPreserve == Spec => []CallPreserves
<1>1. IInv => CallPreserves
  <2> SUFFICES ASSUME IInv, pc = "back"
               PROVE  CallPreserves
    BY DEF CallPreserves
  <2>1. Calling(pc, r, kstack)
    BY DEF IInv, Machine, Running, Faulting, Interrupted, Dead
  <2>2. call \in DOMAIN Wrappers /\ r = Returned(call) /\ ustack = OnStack(call)
    BY <2>1, KnownWrappers DEF Calling, InDispatcher
  <2>3. Wrappers[call].back => r["eax"] = <<"result", Wrappers[call].nr>>
    BY <2>2, Tables, ReturnedWords DEF Result
  <2>4. \A reg \in {"ebx", "esi", "edi", "ebp"} : r[reg] = Loaded(call)[reg]
    BY <2>2, ReturnedWords
  <2> QED
    BY <2>2, <2>3, <2>4 DEF CallPreserves
<1> QED
  BY <1>1, StacksKnown, PTL

\* However a program was started or left, it runs with interrupts on
\* (ring3.c:43-53).
THEOREM AlwaysInterruptible == Spec => []ProgramsInterruptible
<1>1. IInv => ProgramsInterruptible
  BY DEF IInv, Interrupted, Dead, ProgramsInterruptible, InRing3
<1> QED
  BY <1>1, StacksKnown, PTL

\* What an interrupt came between goes on as if it had not come
\* (interrupt_stubs.s:184-224).
THEOREM InterruptsUnseen == Spec => InterruptsInvisible
<1> DEFINE Unseen == (pc = "irq" /\ seen' # <<>>) =>
                       seen = [pc |-> pc', r |-> r', if |-> if', kstack |-> kstack']
<1>1. ASSUME IInv, Next
      PROVE  Unseen
  <2> SUFFICES ASSUME pc = "irq", seen' # <<>>
               PROVE  seen = [pc |-> pc', r |-> r', if |-> if', kstack |-> kstack']
    OBVIOUS
  <2>1. ~Outside
    BY MachineTyped DEF Outside
  <2>2. Interrupted /\ IrqReturns
    BY <1>1, <2>1, WhatMayHappen, StartStep
  <2>3. /\ pc' = seen.pc /\ r' = r /\ if' = TRUE /\ kstack' = seen.kstack
    BY <2>2, IrqReturnsStep
  <2>4. seen = [pc |-> seen.pc, r |-> r, if |-> TRUE, kstack |-> seen.kstack]
    BY <2>2 DEF Interrupted
  <2> QED
    BY <2>3, <2>4
<1>2. IInv /\ [Next]_vars => [Unseen]_vars
  BY <1>1
<1> QED
  BY <1>2, StacksKnown, PTL DEF Spec, InterruptsInvisible
=============================================================================
