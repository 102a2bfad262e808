---------------------------- MODULE UserHeapProofs ----------------------------
(***************************************************************************)
(* Proofs about the heap of a ring-3 program, for every size of pages and  *)
(* any other use of them: no byte is in two objects, as long as no join    *)
(* has crossed memory that is not the heap's, and none is lost.            *)
(*                                                                         *)
(* ListInv says the first of the blocks, free or not: each ends where no   *)
(* other begins, inside the pages the program was given.  StatsInv says    *)
(* the second of their sizes and headers: they add up to those pages, and  *)
(* no page is given twice.  A size that is added to an address, or to what *)
(* a cut needs, does not wrap, because a block is smaller than the pages   *)
(* and pages end in the address space.                                     *)
(***************************************************************************)
EXTENDS UserHeap, FiniteSetTheorems, TLAPS

Block  == [addr : Nat, free : BOOLEAN, size : Int]
End(b) == b.addr + BLOCK_HEADER_SIZE + b.size

\* Of a list of blocks: no size is below zero and every byte is of a page of G; no byte
\* is of two blocks; every object of L is in a block that is not free.
Inside(bs, G) ==
  \A i \in DOMAIN bs :
    /\ bs[i].size >= 0
    /\ \A x \in Int : bs[i].addr <= x /\ x < End(bs[i])
         => \E p \in G : p * PAGE_SIZE <= x /\ x < p * PAGE_SIZE + PAGE_SIZE
Before(b, c) == End(b) <= c.addr
Apart(bs) ==
  \A i, j \in DOMAIN bs : i # j => Before(bs[i], bs[j]) \/ Before(bs[j], bs[i])
Holds(bs, L) ==
  \A a \in DOMAIN L : \E i \in DOMAIN bs : /\ Data(bs[i]) = a /\ ~bs[i].free
                                           /\ bs[i].size >= AlignSize(L[a])

\* The block malloc cuts off for the program, the lists malloc and free make of a list, and
\* the objects held then.
Taken(b) == [addr |-> b.addr, free |-> FALSE, size |-> size]
MarkedList(bs, i, f) == [bs EXCEPT ![i].free = f]
CutList(bs, i) ==
  InsertAt([bs EXCEPT ![i].free = FALSE, ![i].size = size], i + 1, Rest(bs[i]))
JoinedList(bs, i) == RemoveAt([bs EXCEPT ![i] = Join(@, bs[i + 1])], i + 1)
Handed(L, a, n)   == [x \in DOMAIN L \cup {a} |-> IF x = a THEN n ELSE L[x]]
Returned(L, a)    == [x \in DOMAIN L \ {a} |-> L[x]]

HeapTypes ==
  /\ blocks \in Seq(Block) /\ size \in Nat /\ asked \in Nat /\ crossed \in BOOLEAN
  /\ pc # "idle" => size = AlignSize(asked)
  /\ available \subseteq Pages /\ given \in Seq(Pages)
  /\ available \cap Range(given) = {}
  /\ \A a \in DOMAIN live : a \in Int /\ live[a] \in Nat

ListInv ==
  ~crossed => Inside(blocks, Range(given)) /\ Apart(blocks) /\ Holds(blocks, live)

-----------------------------------------------------------------------------
(***************************************************************************)
(* Lists, sizes and pages.                                                 *)
(***************************************************************************)
LEMMA Constant ==
  /\ PAGE_SIZE \in Nat /\ BLOCK_HEADER_SIZE \in Nat \ {0} /\ ALIGN_SIZE \in Nat \ {0}
  /\ PAGE_SIZE > BLOCK_HEADER_SIZE + ALIGN_SIZE
  /\ 2^Bits \in Nat /\ PAGE_SIZE < 2^Bits /\ Pages \subseteq Nat \ {0}
  /\ \A p \in Pages : (p + 1) * PAGE_SIZE <= 2^Bits
  /\ Sizes \subseteq Nat
<1>1. 2^Bits \in Int
  BY UserHeapAssumption, SMT
<1> QED
  BY <1>1, UserHeapAssumption

LEMMA AlignTyped == \A n \in Nat : AlignSize(n) \in Nat
<1> SUFFICES ASSUME NEW n \in Nat PROVE AlignSize(n) \in Nat
  OBVIOUS
<1> DEFINE m == 2^Bits
           sum == (n + ALIGN_SIZE - 1) % m
<1>1. m \in Nat \ {0} /\ ALIGN_SIZE \in Nat \ {0}
  BY Constant
<1> HIDE DEF m
<1>2. sum \in Nat
  BY <1>1, SMT
<1> HIDE DEF sum
<1>3. sum % ALIGN_SIZE \in 0 .. ALIGN_SIZE - 1 /\ sum % ALIGN_SIZE <= sum
  BY <1>1, <1>2, SMT
<1> QED
  BY <1>2, <1>3 DEF AlignSize, sum, m

LEMMA PageUnique ==
  ASSUME NEW p \in Nat, NEW q \in Nat, NEW x \in Int,
         p * PAGE_SIZE <= x, x < p * PAGE_SIZE + PAGE_SIZE,
         q * PAGE_SIZE <= x, x < q * PAGE_SIZE + PAGE_SIZE
  PROVE  p = q
<1>1. PAGE_SIZE \in Nat
  BY Constant
<1>2. ASSUME NEW a \in Nat, NEW b \in Nat, a < b
      PROVE  a * PAGE_SIZE + PAGE_SIZE <= b * PAGE_SIZE
  <2>1. PICK d \in Nat : b = a + 1 + d
    <3>1. b - a - 1 \in Nat /\ b = a + 1 + (b - a - 1)
      BY <1>2
    <3> QED
      BY <3>1
  <2>2. b * PAGE_SIZE = a * PAGE_SIZE + PAGE_SIZE + d * PAGE_SIZE
    BY <1>1, <2>1, SMT
  <2>3. d * PAGE_SIZE \in Nat
    BY <1>1, SMT
  <2>4. a * PAGE_SIZE \in Nat
    BY <1>1, SMT
  <2> QED
    BY <1>1, <2>2, <2>3, <2>4
<1>3. p * PAGE_SIZE \in Int /\ q * PAGE_SIZE \in Int
  BY <1>1, SMT
<1>4. ~(p < q)
  BY <1>1, <1>2, <1>3
<1>5. ~(q < p)
  BY <1>1, <1>2, <1>3
<1> QED
  BY <1>4, <1>5

LEMMA Concatenated ==
  ASSUME NEW S, NEW s \in Seq(S), NEW t \in Seq(S)
  PROVE  /\ s \o t \in Seq(S) /\ DOMAIN (s \o t) = 1 .. Len(s) + Len(t)
         /\ \A j \in 1 .. Len(s) + Len(t) :
              (s \o t)[j] = IF j <= Len(s) THEN s[j] ELSE t[j - Len(s)]
<1>1. s \o t \in Seq(S) /\ Len(s \o t) = Len(s) + Len(t)
  OBVIOUS
<1>2. DOMAIN (s \o t) = 1 .. Len(s \o t)
  BY <1>1
<1> QED
  BY <1>1, <1>2

LEMMA Inserted ==
  ASSUME NEW us \in Seq(Block), NEW i \in 1 .. Len(us), NEW c \in Block
  PROVE  /\ InsertAt(us, i + 1, c) \in Seq(Block)
         /\ DOMAIN InsertAt(us, i + 1, c) = 1 .. Len(us) + 1
         /\ \A j \in 1 .. Len(us) + 1 :
              InsertAt(us, i + 1, c)[j] = IF j <= i THEN us[j]
                                          ELSE IF j = i + 1 THEN c ELSE us[j - 1]
<1> DEFINE l  == SubSeq(us, 1, i)
           r  == SubSeq(us, i + 1, Len(us))
           lc == l \o <<c>>
           cs == lc \o r
<1>1. Len(us) \in Nat /\ i \in 1 .. Len(us)
  OBVIOUS
<1>2. l \in Seq(Block) /\ Len(l) = i /\ \A j \in 1 .. i : l[j] = us[j]
  BY <1>1
<1>3. r \in Seq(Block) /\ Len(r) = Len(us) - i
      /\ \A j \in 1 .. Len(us) - i : r[j] = us[i + j]
  BY <1>1
<1> HIDE DEF l, r
<1>4. lc \in Seq(Block) /\ Len(lc) = i + 1
      /\ \A j \in 1 .. i + 1 : lc[j] = IF j <= i THEN l[j] ELSE c
  BY <1>1, <1>2
<1> HIDE DEF lc
<1>5. cs \in Seq(Block) /\ DOMAIN cs = 1 .. Len(us) + 1
      /\ \A j \in 1 .. Len(us) + 1 : cs[j] = IF j <= i + 1 THEN lc[j] ELSE r[j - (i + 1)]
  <2>1. Len(lc) + Len(r) = Len(us) + 1
    BY <1>1, <1>3, <1>4
  <2>2. /\ cs \in Seq(Block) /\ DOMAIN cs = 1 .. Len(lc) + Len(r)
        /\ \A j \in 1 .. Len(lc) + Len(r) :
             cs[j] = IF j <= Len(lc) THEN lc[j] ELSE r[j - Len(lc)]
    BY <1>3, <1>4, Concatenated
  <2> QED
    BY <1>4, <2>1, <2>2
<1>6. cs = InsertAt(us, i + 1, c)
  <2>1. (i + 1) - 1 = i
    BY <1>1
  <2> QED
    BY <2>1 DEF InsertAt, l, lc, r
<1> HIDE DEF cs
<1>7. ASSUME NEW j \in 1 .. Len(us) + 1
      PROVE  cs[j] = IF j <= i THEN us[j] ELSE IF j = i + 1 THEN c ELSE us[j - 1]
  <2>1. CASE j <= i + 1
    BY <1>1, <1>2, <1>4, <1>5, <2>1
  <2>2. CASE j > i + 1
    <3>1. cs[j] = r[j - (i + 1)] /\ j - (i + 1) \in 1 .. Len(us) - i
      BY <1>1, <1>5, <2>2
    <3>2. r[j - (i + 1)] = us[i + (j - (i + 1))] /\ i + (j - (i + 1)) = j - 1
      BY SMTT(30), <1>1, <1>3, <3>1
    <3> QED
      BY <1>1, <2>2, <3>1, <3>2
  <2> QED
    BY <1>1, <2>1, <2>2
<1> QED
  BY <1>5, <1>6, <1>7

LEMMA Removed ==
  ASSUME NEW us \in Seq(Block), NEW i \in 1 .. Len(us) - 1
  PROVE  /\ RemoveAt(us, i + 1) \in Seq(Block)
         /\ DOMAIN RemoveAt(us, i + 1) = 1 .. Len(us) - 1
         /\ \A j \in 1 .. Len(us) - 1 :
              RemoveAt(us, i + 1)[j] = IF j <= i THEN us[j] ELSE us[j + 1]
<1> DEFINE l  == SubSeq(us, 1, i)
           r  == SubSeq(us, i + 2, Len(us))
           cs == l \o r
<1>1. Len(us) \in Nat /\ i \in 1 .. Len(us) - 1
  OBVIOUS
<1>2. l \in Seq(Block) /\ Len(l) = i /\ \A j \in 1 .. i : l[j] = us[j]
  BY <1>1
<1>3. r \in Seq(Block) /\ Len(r) = Len(us) - i - 1
      /\ \A j \in 1 .. Len(us) - i - 1 : r[j] = us[i + 1 + j]
  BY <1>1
<1> HIDE DEF l, r
<1>4. cs \in Seq(Block) /\ DOMAIN cs = 1 .. Len(us) - 1
      /\ \A j \in 1 .. Len(us) - 1 : cs[j] = IF j <= i THEN l[j] ELSE r[j - i]
  <2>1. Len(l) + Len(r) = Len(us) - 1
    BY <1>1, <1>2, <1>3
  <2>2. /\ cs \in Seq(Block) /\ DOMAIN cs = 1 .. Len(l) + Len(r)
        /\ \A j \in 1 .. Len(l) + Len(r) :
             cs[j] = IF j <= Len(l) THEN l[j] ELSE r[j - Len(l)]
    BY <1>2, <1>3, Concatenated
  <2> QED
    BY <1>2, <2>1, <2>2
<1>5. cs = RemoveAt(us, i + 1)
  <2>1. (i + 1) - 1 = i /\ (i + 1) + 1 = i + 2
    BY <1>1
  <2> QED
    BY <2>1 DEF RemoveAt, l, r
<1> HIDE DEF cs
<1>6. ASSUME NEW j \in 1 .. Len(us) - 1
      PROVE  cs[j] = IF j <= i THEN us[j] ELSE us[j + 1]
  <2>1. CASE j <= i
    BY <1>1, <1>2, <1>4, <2>1
  <2>2. CASE j > i
    <3>1. cs[j] = r[j - i] /\ j - i \in 1 .. Len(us) - i - 1
      BY SMTT(30), <1>1, <1>4, <2>2
    <3>2. r[j - i] = us[i + 1 + (j - i)] /\ i + 1 + (j - i) = j + 1
      BY <1>1, <1>3, <3>1
    <3> QED
      BY <1>1, <2>2, <3>1, <3>2
  <2> QED
    BY <1>1, <2>1, <2>2
<1> QED
  BY <1>4, <1>5, <1>6

-----------------------------------------------------------------------------
(***************************************************************************)
(* What malloc, expand_heap and free do to a list.                         *)
(***************************************************************************)
LEMMA BlocksTyped ==
  ASSUME NEW bs \in Seq(Block)
  PROVE  /\ DOMAIN bs = 1 .. Len(bs) /\ Len(bs) \in Nat
         /\ \A i \in DOMAIN bs :
              /\ bs[i] \in Block /\ bs[i].addr \in Nat /\ bs[i].size \in Int
              /\ End(bs[i]) \in Int
              /\ End(bs[i]) = bs[i].addr + BLOCK_HEADER_SIZE + bs[i].size
              /\ bs[i].size >= 0 => bs[i].addr < End(bs[i])
<1>1. ASSUME NEW b \in Block
      PROVE  /\ b.addr \in Nat /\ b.size \in Int /\ End(b) \in Int
             /\ End(b) = b.addr + BLOCK_HEADER_SIZE + b.size
             /\ b.size >= 0 => b.addr < End(b)
  <2>1. b.addr \in Nat /\ b.size \in Int
    BY DEF Block
  <2> QED
    BY <2>1, Constant DEF End
<1>2. DOMAIN bs = 1 .. Len(bs) /\ Len(bs) \in Nat /\ \A i \in DOMAIN bs : bs[i] \in Block
  OBVIOUS
<1> QED
  BY <1>1, <1>2

\* Every block of the new list is part of one of the old, and those of the same are
\* apart: a block is cut in two, or only marked.
LEMMA Refined ==
  ASSUME NEW G, NEW bs \in Seq(Block), NEW cs \in Seq(Block), Inside(bs, G), Apart(bs),
         NEW src \in [DOMAIN cs -> DOMAIN bs],
         \A j \in DOMAIN cs : /\ bs[src[j]].addr <= cs[j].addr /\ cs[j].size >= 0
                              /\ End(cs[j]) <= End(bs[src[j]]),
         \A j, k \in DOMAIN cs :
           j # k /\ src[j] = src[k] => Before(cs[j], cs[k]) \/ Before(cs[k], cs[j])
  PROVE  Inside(cs, G) /\ Apart(cs)
<1>1. /\ \A j \in DOMAIN cs : /\ cs[j].addr \in Int /\ cs[j].size \in Int
                              /\ End(cs[j]) \in Int /\ src[j] \in DOMAIN bs
      /\ \A i \in DOMAIN bs : bs[i].addr \in Int /\ End(bs[i]) \in Int
  BY BlocksTyped
<1>2. ASSUME NEW j \in DOMAIN cs, NEW x \in Int, cs[j].addr <= x, x < End(cs[j])
      PROVE  \E p \in G : p * PAGE_SIZE <= x /\ x < p * PAGE_SIZE + PAGE_SIZE
  <2>1. bs[src[j]].addr <= x /\ x < End(bs[src[j]])
    BY <1>1, <1>2
  <2> QED
    BY <1>1, <2>1 DEF Inside
<1>3. ASSUME NEW j \in DOMAIN cs, NEW k \in DOMAIN cs, j # k, src[j] # src[k]
      PROVE  Before(cs[j], cs[k]) \/ Before(cs[k], cs[j])
  <2>1. Before(bs[src[j]], bs[src[k]]) \/ Before(bs[src[k]], bs[src[j]])
    BY <1>1, <1>3 DEF Apart
  <2> QED
    BY SMTT(30), <1>1, <2>1 DEF Before
<1>4. Inside(cs, G)
  BY <1>2 DEF Inside
<1>5. Apart(cs)
  BY <1>3 DEF Apart
<1> QED
  BY <1>4, <1>5

LEMMA JoinExtent ==
  ASSUME NEW b \in Block, NEW c \in Block, Touch(b, c)
  PROVE  /\ Join(b, c).addr = b.addr /\ End(Join(b, c)) = End(c) /\ End(b) = c.addr
         /\ b.size >= 0 /\ c.size >= 0 => Join(b, c).size >= 0
         /\ Join(b, c) \in Block
<1>1. /\ b.addr \in Nat /\ b.size \in Int /\ c.addr \in Nat /\ c.size \in Int
      /\ BLOCK_HEADER_SIZE \in Nat /\ b.addr + BLOCK_HEADER_SIZE + b.size = c.addr
  BY Constant DEF Block, Touch, Data
<1>2. /\ Join(b, c).addr = b.addr /\ Join(b, c).free = TRUE
      /\ Join(b, c).size = b.size + BLOCK_HEADER_SIZE + c.size
  BY DEF Join
<1>3. End(Join(b, c)) = End(c) /\ End(b) = c.addr
  BY <1>1, <1>2 DEF End
<1>4. Join(b, c) \in Block
  BY <1>1 DEF Join, Block
<1> QED
  BY <1>1, <1>2, <1>3, <1>4

\* Two blocks that touch become one.
LEMMA JoinedApart ==
  ASSUME NEW G, NEW bs \in Seq(Block), NEW cs \in Seq(Block), Inside(bs, G), Apart(bs),
         NEW i \in 1 .. Len(bs) - 1, Touch(bs[i], bs[i + 1]),
         DOMAIN cs = 1 .. Len(bs) - 1,
         \A j \in DOMAIN cs : cs[j] = IF j = i THEN Join(bs[i], bs[i + 1])
                                      ELSE IF j < i THEN bs[j] ELSE bs[j + 1]
  PROVE  Inside(cs, G) /\ Apart(cs)
<1> DEFINE src(j) == IF j <= i THEN j ELSE j + 1
<1>1. /\ DOMAIN bs = 1 .. Len(bs) /\ Len(bs) \in Nat /\ i \in DOMAIN bs
      /\ i + 1 \in DOMAIN bs /\ i \in DOMAIN cs
      /\ \A k \in DOMAIN bs : /\ bs[k].addr \in Int /\ bs[k].size \in Int
                              /\ End(bs[k]) \in Int /\ bs[k].size >= 0
                              /\ bs[k].addr < End(bs[k])
  BY BlocksTyped DEF Inside
<1>2. /\ cs[i].addr = bs[i].addr /\ End(cs[i]) = End(bs[i + 1]) /\ cs[i].size >= 0
      /\ End(bs[i]) = bs[i + 1].addr
  BY <1>1, BlocksTyped, JoinExtent
<1>3. \A j \in DOMAIN cs :
        j # i => src(j) \in DOMAIN bs /\ src(j) \notin {i, i + 1} /\ cs[j] = bs[src(j)]
  BY SMTT(30), <1>1
<1>4. \A j, k \in DOMAIN cs : j # k => src(j) # src(k)
  BY <1>1
<1> HIDE DEF src
<1>5. ASSUME NEW x \in Int, cs[i].addr <= x, x < End(cs[i])
      PROVE  \E p \in G : p * PAGE_SIZE <= x /\ x < p * PAGE_SIZE + PAGE_SIZE
  <2>1. \/ bs[i].addr <= x /\ x < End(bs[i])
        \/ bs[i + 1].addr <= x /\ x < End(bs[i + 1])
    BY <1>1, <1>2, <1>5
  <2> QED
    BY <1>1, <2>1 DEF Inside
<1>6. Inside(cs, G)
  <2> SUFFICES ASSUME NEW j \in DOMAIN cs
               PROVE  /\ cs[j].size >= 0
                      /\ \A x \in Int : cs[j].addr <= x /\ x < End(cs[j])
                           => \E p \in G : /\ p * PAGE_SIZE <= x
                                           /\ x < p * PAGE_SIZE + PAGE_SIZE
    BY DEF Inside
  <2>1. CASE j = i
    BY <1>2, <1>5, <2>1
  <2>2. CASE j # i
    BY <1>3, <2>2 DEF Inside
  <2> QED
    BY <2>1, <2>2
<1>7. ASSUME NEW j \in DOMAIN cs, j # i
      PROVE  Before(cs[i], cs[j]) \/ Before(cs[j], cs[i])
  <2> DEFINE k == src(j)
  <2>1. k \in DOMAIN bs /\ k # i /\ k # i + 1 /\ cs[j] = bs[k]
    BY <1>3, <1>7
  <2> HIDE DEF k
  <2>2. Before(bs[i], bs[k]) \/ Before(bs[k], bs[i])
    BY <1>1, <2>1 DEF Apart
  <2>3. Before(bs[i + 1], bs[k]) \/ Before(bs[k], bs[i + 1])
    BY <1>1, <2>1 DEF Apart
  <2>4. /\ bs[k].addr < End(bs[k]) /\ bs[i].addr < End(bs[i])
        /\ bs[i + 1].addr < End(bs[i + 1])
    BY <1>1, <2>1
  <2> QED
    BY <1>1, <1>2, <2>1, <2>2, <2>3, <2>4 DEF Before
<1>8. Apart(cs)
  <2> SUFFICES ASSUME NEW j \in DOMAIN cs, NEW k \in DOMAIN cs, j # k
               PROVE  Before(cs[j], cs[k]) \/ Before(cs[k], cs[j])
    BY DEF Apart
  <2>1. CASE j = i \/ k = i
    BY <1>7, <2>1
  <2>2. CASE j # i /\ k # i
    BY <1>3, <1>4, <2>2 DEF Apart
  <2> QED
    BY <2>1, <2>2
<1> QED
  BY <1>6, <1>8

\* A page that is not one of the heap's yet.
LEMMA GrownApart ==
  ASSUME NEW G \in SUBSET Pages, NEW p \in Pages \ G, NEW bs \in Seq(Block),
         Inside(bs, G), Apart(bs)
  PROVE  /\ PageBlock(p) \in Block /\ Append(bs, PageBlock(p)) \in Seq(Block)
         /\ Inside(Append(bs, PageBlock(p)), G \cup {p})
         /\ Apart(Append(bs, PageBlock(p)))
<1> DEFINE c == PageBlock(p)
           cs == Append(bs, c)
           P == p * PAGE_SIZE
<1>1. p \in Nat /\ PAGE_SIZE \in Nat /\ P \in Nat /\ G \subseteq Nat
  <2>1. p \in Nat /\ PAGE_SIZE \in Nat
    BY Constant
  <2> QED
    BY <2>1, Constant, SMT
<1>2. c \in Block /\ c.addr = P /\ c.size = PAGE_SIZE - BLOCK_HEADER_SIZE /\ c.size >= 0
      /\ End(c) = P + PAGE_SIZE
  BY <1>1, Constant DEF PageBlock, Block, End
<1>3. /\ DOMAIN bs = 1 .. Len(bs) /\ Len(bs) \in Nat
      /\ \A k \in DOMAIN bs : /\ bs[k].addr \in Int /\ End(bs[k]) \in Int
                              /\ bs[k].addr < End(bs[k])
  BY BlocksTyped DEF Inside
<1> HIDE DEF c
<1>4. /\ cs \in Seq(Block) /\ DOMAIN cs = 1 .. Len(bs) + 1
      /\ \A j \in DOMAIN bs : cs[j] = bs[j]
      /\ cs[Len(bs) + 1] = c
  BY <1>2, <1>3
<1>5. \A j \in DOMAIN cs : j \in DOMAIN bs \/ j = Len(bs) + 1
  BY <1>3, <1>4
<1> HIDE DEF cs, P
<1>6. ASSUME NEW k \in DOMAIN bs PROVE Before(bs[k], c) \/ Before(c, bs[k])
  <2> SUFFICES ASSUME ~Before(bs[k], c), ~Before(c, bs[k]) PROVE FALSE
    OBVIOUS
  <2>1. PICK x \in Int : /\ bs[k].addr <= x /\ x < End(bs[k])
                         /\ P <= x /\ x < P + PAGE_SIZE
    <3>1. P < End(bs[k]) /\ bs[k].addr < P + PAGE_SIZE
      BY <1>1, <1>2, <1>3 DEF Before
    <3>2. PAGE_SIZE > 0
      BY Constant
    <3> DEFINE x == IF P <= bs[k].addr THEN bs[k].addr ELSE P
    <3>3. /\ x \in Int /\ bs[k].addr <= x /\ x < End(bs[k])
          /\ P <= x /\ x < P + PAGE_SIZE
      BY <1>1, <1>3, <3>1, <3>2
    <3> QED
      BY <3>3
  <2>2. PICK q \in G : q * PAGE_SIZE <= x /\ x < q * PAGE_SIZE + PAGE_SIZE
    BY <2>1 DEF Inside
  <2>3. q = p
    BY <1>1, <2>1, <2>2, PageUnique DEF P
  <2> QED
    BY <2>3
<1>7. Inside(cs, G \cup {p})
  <2> SUFFICES ASSUME NEW j \in DOMAIN cs
               PROVE  /\ cs[j].size >= 0
                      /\ \A x \in Int : cs[j].addr <= x /\ x < End(cs[j])
                           => \E q \in G \cup {p} : /\ q * PAGE_SIZE <= x
                                                    /\ x < q * PAGE_SIZE + PAGE_SIZE
    BY DEF Inside
  <2>1. CASE j \in DOMAIN bs
    BY <1>4, <2>1 DEF Inside
  <2>2. CASE j = Len(bs) + 1
    BY <1>2, <1>4, <2>2 DEF P
  <2> QED
    BY <1>5, <2>1, <2>2
<1>8. Apart(cs)
  <2> SUFFICES ASSUME NEW j \in DOMAIN cs, NEW k \in DOMAIN cs, j # k
               PROVE  Before(cs[j], cs[k]) \/ Before(cs[k], cs[j])
    BY DEF Apart
  <2>1. CASE j \in DOMAIN bs /\ k \in DOMAIN bs
    BY <1>4, <2>1 DEF Apart
  <2>2. CASE j = Len(bs) + 1 \/ k = Len(bs) + 1
    BY <1>4, <1>5, <1>6, <2>2
  <2> QED
    BY <1>5, <2>1, <2>2
<1> QED
  BY <1>2, <1>4, <1>7, <1>8 DEF c, cs

\* No block reaches the end of a size_t: what malloc adds up to decide whether to cut a
\* block does not wrap around.
LEMMA NoWrap ==
  ASSUME NEW G \in SUBSET Pages, NEW bs \in Seq(Block), Inside(bs, G),
         NEW i \in DOMAIN bs, size \in Nat, Fits(bs[i])
  PROVE  Splits(bs[i]) <=> bs[i].size >= size + BLOCK_HEADER_SIZE + ALIGN_SIZE
<1> DEFINE b == bs[i]
           m == 2^Bits
           sum == size + BLOCK_HEADER_SIZE + ALIGN_SIZE
<1>1. /\ b.addr \in Int /\ b.size \in Int /\ b.size >= 0 /\ End(b) \in Int
      /\ End(b) = b.addr + BLOCK_HEADER_SIZE + b.size /\ b.addr < End(b) /\ b.size >= size
  BY BlocksTyped DEF Inside, Fits
<1>2. m \in Nat /\ PAGE_SIZE < m /\ PAGE_SIZE \in Nat
      /\ {BLOCK_HEADER_SIZE, ALIGN_SIZE} \subseteq Nat
      /\ PAGE_SIZE > BLOCK_HEADER_SIZE + ALIGN_SIZE
  BY Constant
<1>3. b.addr >= PAGE_SIZE
  <2>1. PICK p \in G : p * PAGE_SIZE <= b.addr
    BY <1>1 DEF Inside
  <2>2. p \in Nat \ {0} /\ p - 1 \in Nat
    BY Constant
  <2>3. p * PAGE_SIZE = (p - 1) * PAGE_SIZE + PAGE_SIZE /\ (p - 1) * PAGE_SIZE \in Nat
    BY <1>2, <2>2, SMT
  <2> QED
    BY <1>1, <1>2, <2>1, <2>3
<1>4. End(b) <= m
  <2>1. End(b) - 1 \in Int /\ b.addr <= End(b) - 1 /\ End(b) - 1 < End(b)
    BY <1>1
  <2>2. PICK p \in G : End(b) - 1 < p * PAGE_SIZE + PAGE_SIZE
    BY <2>1 DEF Inside
  <2>3. p \in Nat /\ (p + 1) * PAGE_SIZE <= m
    BY Constant
  <2>4. (p + 1) * PAGE_SIZE = p * PAGE_SIZE + PAGE_SIZE /\ p * PAGE_SIZE \in Nat
    BY <1>2, <2>3, SMT
  <2> QED
    BY <1>1, <1>2, <2>2, <2>3, <2>4
<1> HIDE DEF b, m
<1>5. sum \in Nat /\ sum < m
  <2>1. BLOCK_HEADER_SIZE \in Nat /\ ALIGN_SIZE \in Nat
    BY <1>2
  <2>2. size + BLOCK_HEADER_SIZE + PAGE_SIZE <= m
    BY <1>1, <1>2, <1>3, <1>4, <2>1
  <2> QED
    BY <1>2, <2>1, <2>2
<1> HIDE DEF sum
<1>6. sum % m = sum
  <2>1. m \in Nat \ {0} /\ sum \in 0 .. m - 1
    BY <1>2, <1>5
  <2> QED
    BY <2>1, SMT
<1> QED
  BY <1>6 DEF Splits, sum, m, b


-----------------------------------------------------------------------------
(***************************************************************************)
(* The steps of malloc and free.                                           *)
(***************************************************************************)
\* A block is marked, whole.
LEMMA MarkedApart ==
  ASSUME NEW bs \in Seq(Block), NEW i \in DOMAIN bs, NEW f \in BOOLEAN
  PROVE  /\ MarkedList(bs, i, f) \in Seq(Block)
         /\ DOMAIN MarkedList(bs, i, f) = DOMAIN bs
         /\ \A j \in DOMAIN bs : j # i => MarkedList(bs, i, f)[j] = bs[j]
         /\ MarkedList(bs, i, f)[i].addr = bs[i].addr
         /\ MarkedList(bs, i, f)[i].size = bs[i].size
         /\ MarkedList(bs, i, f)[i].free = f
         /\ \A G : Inside(bs, G) => Inside(MarkedList(bs, i, f), G)
         /\ Apart(bs) => Apart(MarkedList(bs, i, f))
<1> DEFINE cs == [bs EXCEPT ![i].free = f]
<1>1. bs[i] \in Block /\ DOMAIN bs = 1 .. Len(bs) /\ Len(bs) \in Nat
  BY BlocksTyped
<1>2. [bs[i] EXCEPT !.free = f] \in Block
      /\ [bs[i] EXCEPT !.free = f].addr = bs[i].addr
      /\ [bs[i] EXCEPT !.free = f].size = bs[i].size
      /\ [bs[i] EXCEPT !.free = f].free = f
  BY <1>1 DEF Block
<1>3. cs = [bs EXCEPT ![i] = [bs[i] EXCEPT !.free = f]]
  OBVIOUS
<1>4. cs \in Seq(Block) /\ DOMAIN cs = DOMAIN bs
      /\ cs[i] = [bs[i] EXCEPT !.free = f] /\ \A j \in DOMAIN bs : j # i => cs[j] = bs[j]
  BY <1>1, <1>2, <1>3
<1> HIDE DEF cs
<1>5. \A j \in DOMAIN bs : cs[j].addr = bs[j].addr /\ cs[j].size = bs[j].size
  BY <1>2, <1>4
<1>6. \A j \in DOMAIN bs : End(cs[j]) = End(bs[j])
  BY <1>5 DEF End
<1>7. \A G : Inside(bs, G) => Inside(cs, G)
  BY <1>4, <1>5, <1>6 DEF Inside
<1>8. Apart(bs) => Apart(cs)
  BY <1>4, <1>5, <1>6 DEF Apart, Before
<1> QED
  BY <1>2, <1>4, <1>7, <1>8 DEF cs, MarkedList

\* A block is cut in two, of which the first is taken.
LEMMA CutBlocks ==
  ASSUME NEW bs \in Seq(Block), NEW i \in DOMAIN bs, size \in Nat
  PROVE  /\ CutList(bs, i) \in Seq(Block)
         /\ DOMAIN CutList(bs, i) = 1 .. Len(bs) + 1
         /\ \A j \in DOMAIN CutList(bs, i) :
              CutList(bs, i)[j] = IF j = i THEN Taken(bs[i])
                                  ELSE IF j = i + 1 THEN Rest(bs[i])
                                  ELSE IF j < i THEN bs[j] ELSE bs[j - 1]
<1> DEFINE b == Taken(bs[i])
           c == Rest(bs[i])
           cs == InsertAt([bs EXCEPT ![i] = b], i + 1, c)
<1>1. /\ DOMAIN bs = 1 .. Len(bs) /\ Len(bs) \in Nat /\ bs[i] \in Block
      /\ bs[i].addr \in Nat /\ bs[i].size \in Int /\ BLOCK_HEADER_SIZE \in Nat
  BY BlocksTyped, Constant
<1>2. b \in Block /\ c \in Block
  BY SMTT(30), <1>1 DEF Block, Rest, Taken
<1>3. [bs EXCEPT ![i].free = FALSE, ![i].size = size] = [bs EXCEPT ![i] = b]
  <2>1. [bs[i] EXCEPT !.free = FALSE, !.size = size] = b
    <3> DEFINE r == [bs[i] EXCEPT !.free = FALSE]
               t == [r EXCEPT !.size = size]
    <3>1. r \in Block /\ r.addr = bs[i].addr /\ r.free = FALSE
      BY <1>1 DEF Block
    <3> HIDE DEF r
    <3>2. t \in Block /\ t.addr = bs[i].addr /\ t.free = FALSE /\ t.size = size
      BY SMTT(30), <3>1 DEF Block
    <3>3. \A v, w \in Block :
            v.addr = w.addr /\ v.free = w.free /\ v.size = w.size => v = w
      BY SMTT(30) DEF Block
    <3>4. b \in Block /\ b.addr = bs[i].addr /\ b.free = FALSE /\ b.size = size
      BY <1>2 DEF Taken
    <3> HIDE DEF t, b
    <3>5. t = b
      BY <3>2, <3>3, <3>4
    <3> QED
      BY <3>5 DEF r, t
  <2>2. [bs EXCEPT ![i].free = FALSE, ![i].size = size]
          = [bs EXCEPT ![i] = [bs[i] EXCEPT !.free = FALSE, !.size = size]]
    BY <1>1
  <2> QED
    BY <2>1, <2>2
<1> HIDE DEF b, c
<1>4. /\ cs \in Seq(Block) /\ DOMAIN cs = 1 .. Len(bs) + 1
      /\ \A j \in DOMAIN cs : cs[j] = IF j = i THEN b ELSE IF j = i + 1 THEN c
                                      ELSE IF j < i THEN bs[j] ELSE bs[j - 1]
  <2> DEFINE us == [bs EXCEPT ![i] = b]
  <2>1. us \in Seq(Block) /\ Len(us) = Len(bs) /\ i \in 1 .. Len(us)
    BY <1>1, <1>2
  <2>2. \A j \in 1 .. Len(bs) : us[j] = IF j = i THEN b ELSE bs[j]
    BY <1>1
  <2>3. cs = InsertAt(us, i + 1, c)
    OBVIOUS
  <2> HIDE DEF us, cs
  <2>4. /\ cs \in Seq(Block) /\ DOMAIN cs = 1 .. Len(us) + 1
        /\ \A j \in 1 .. Len(us) + 1 : cs[j] = IF j <= i THEN us[j]
                                               ELSE IF j = i + 1 THEN c ELSE us[j - 1]
    <3>1. c \in Block
      BY <1>2
    <3>2. /\ InsertAt(us, i + 1, c) \in Seq(Block)
          /\ DOMAIN InsertAt(us, i + 1, c) = 1 .. Len(us) + 1
          /\ \A j \in 1 .. Len(us) + 1 :
               InsertAt(us, i + 1, c)[j] = IF j <= i THEN us[j]
                                           ELSE IF j = i + 1 THEN c ELSE us[j - 1]
      BY <2>1, <3>1, Inserted
    <3> QED
      BY <2>3, <3>2
  <2>5. ASSUME NEW j \in DOMAIN cs
        PROVE  cs[j] = IF j = i THEN b ELSE IF j = i + 1 THEN c
                       ELSE IF j < i THEN bs[j] ELSE bs[j - 1]
    <3>1. j \in 1 .. Len(bs) + 1 /\ i \in 1 .. Len(bs) /\ Len(bs) \in Nat
      BY <1>1, <2>1, <2>4
    <3>2. CASE j <= i
      <4>1. cs[j] = us[j] /\ j \in 1 .. Len(bs)
        BY <2>1, <2>4, <3>1, <3>2
      <4>2. us[j] = IF j = i THEN b ELSE bs[j]
        BY <2>2, <4>1
      <4>3. j = i \/ (j < i /\ j # i + 1)
        BY <3>1, <3>2
      <4> QED
        BY <3>1, <4>1, <4>2, <4>3
    <3>3. CASE j = i + 1
      BY <2>1, <2>4, <3>1, <3>3
    <3>4. CASE j > i + 1
      <4>1. cs[j] = us[j - 1] /\ j - 1 \in 1 .. Len(bs) /\ j - 1 # i
        BY <2>1, <2>4, <3>1, <3>4
      <4> QED
        BY <2>2, <3>1, <3>4, <4>1
    <3> QED
      BY <3>1, <3>2, <3>3, <3>4
  <2> QED
    BY <2>1, <2>4, <2>5
<1>5. cs = CutList(bs, i)
  BY <1>3 DEF cs, c, CutList
<1> HIDE DEF cs
<1> QED
  BY <1>4, <1>5 DEF b, c

LEMMA CutApart ==
  ASSUME NEW bs \in Seq(Block), NEW i \in DOMAIN bs, size \in Nat
  PROVE  /\ CutList(bs, i) \in Seq(Block) /\ i \in DOMAIN CutList(bs, i)
         /\ \A j \in DOMAIN bs :
              j # i => \E k \in DOMAIN CutList(bs, i) : /\ k # i
                                                        /\ CutList(bs, i)[k] = bs[j]
         /\ CutList(bs, i)[i].addr = bs[i].addr /\ CutList(bs, i)[i].size = size
         /\ CutList(bs, i)[i].free = FALSE
         /\ \A G : Inside(bs, G) /\ Apart(bs) /\ bs[i].size >= size + BLOCK_HEADER_SIZE
                   => Inside(CutList(bs, i), G) /\ Apart(CutList(bs, i))
<1> DEFINE b == Taken(bs[i])
           c == Rest(bs[i])
           cs == CutList(bs, i)
<1>1. /\ DOMAIN bs = 1 .. Len(bs) /\ Len(bs) \in Nat /\ bs[i] \in Block
      /\ bs[i].addr \in Nat /\ bs[i].size \in Int /\ BLOCK_HEADER_SIZE \in Nat
  BY BlocksTyped, Constant
<1>4. /\ b.addr = bs[i].addr /\ b.size = size /\ b.free = FALSE
      /\ c.addr = bs[i].addr + BLOCK_HEADER_SIZE + size
      /\ c.size = bs[i].size - size - BLOCK_HEADER_SIZE
  BY DEF Rest, Taken
<1>5. /\ cs \in Seq(Block) /\ DOMAIN cs = 1 .. Len(bs) + 1
      /\ \A j \in DOMAIN cs : cs[j] = IF j = i THEN b ELSE IF j = i + 1 THEN c
                                      ELSE IF j < i THEN bs[j] ELSE bs[j - 1]
  BY CutBlocks
<1> HIDE DEF b, c
<1> HIDE DEF cs
<1>6. i \in DOMAIN cs /\ i + 1 \in DOMAIN cs /\ cs[i] = b /\ cs[i + 1] = c
  BY <1>1, <1>5
<1>7. ASSUME NEW j \in DOMAIN bs, j # i
      PROVE  \E k \in DOMAIN cs : k # i /\ cs[k] = bs[j]
  <2>1. CASE j < i
    <3>1. j \in DOMAIN cs /\ j # i /\ cs[j] = bs[j]
      BY <1>1, <1>5, <1>7, <2>1
    <3> QED
      BY <3>1
  <2>2. CASE j > i
    <3>1. j + 1 \in DOMAIN cs /\ j + 1 # i /\ j + 1 # i + 1 /\ ~(j + 1 < i)
          /\ (j + 1) - 1 = j
      BY <1>1, <1>5, <1>7, <2>2
    <3>2. cs[j + 1] = bs[j]
      BY <1>5, <3>1
    <3> QED
      BY <3>1, <3>2
  <2> QED
    BY <1>1, <1>7, <2>1, <2>2
<1>8. ASSUME NEW G, Inside(bs, G), Apart(bs), bs[i].size >= size + BLOCK_HEADER_SIZE
      PROVE  Inside(cs, G) /\ Apart(cs)
  <2> DEFINE src == [j \in DOMAIN cs |-> IF j <= i THEN j ELSE j - 1]
  <2>1. src \in [DOMAIN cs -> DOMAIN bs]
    BY <1>1, <1>5
  <2>2. /\ End(b) = c.addr /\ End(c) = End(bs[i]) /\ c.size >= 0 /\ size >= 0
        /\ End(b) <= End(bs[i]) /\ bs[i].addr <= c.addr
    BY SMTT(30), <1>1, <1>4, <1>8 DEF End
  <2>3. ASSUME NEW j \in DOMAIN cs
        PROVE  /\ bs[src[j]].addr <= cs[j].addr /\ cs[j].size >= 0
               /\ End(cs[j]) <= End(bs[src[j]])
    <3>1. CASE j = i
      BY <1>1, <1>4, <1>6, <2>2, <3>1
    <3>2. CASE j = i + 1
      <4>1. src[j] = i /\ cs[j] = c
        BY <1>1, <1>6, <2>3, <3>2
      <4>2. End(bs[i]) \in Int
        BY BlocksTyped
      <4> QED
        BY <1>1, <2>2, <4>1, <4>2
    <3>3. CASE j # i /\ j # i + 1
      <4>1. cs[j] = bs[src[j]] /\ src[j] \in DOMAIN bs
        BY <1>1, <1>5, <2>1, <2>3, <3>3
      <4>2. bs[src[j]].size >= 0
        BY <1>8, <4>1 DEF Inside
      <4>3. bs[src[j]].addr \in Int /\ End(bs[src[j]]) \in Int
        BY <4>1, BlocksTyped
      <4> QED
        BY <4>1, <4>2, <4>3
    <3> QED
      BY <3>1, <3>2, <3>3
  <2>4. ASSUME NEW j \in DOMAIN cs, NEW k \in DOMAIN cs, j # k, src[j] = src[k]
        PROVE  Before(cs[j], cs[k]) \/ Before(cs[k], cs[j])
    <3>1. (j = i /\ k = i + 1) \/ (j = i + 1 /\ k = i)
      BY <1>1, <1>5, <2>4
    <3>2. Before(b, c)
      BY <1>1, <1>4, <2>2 DEF Before
    <3> QED
      BY <1>6, <3>1, <3>2
  <2> HIDE DEF src
  <2> QED
    BY <1>5, <1>8, <2>1, <2>3, <2>4, Refined
<1>9. cs[i].addr = bs[i].addr /\ cs[i].size = size /\ cs[i].free = FALSE
  BY <1>4, <1>6
<1> QED
  BY <1>5, <1>6, <1>7, <1>8, <1>9 DEF cs

\* Two neighbours of the list become one block.
LEMMA JoinedBlocks ==
  ASSUME NEW bs \in Seq(Block), NEW i \in DOMAIN bs, i + 1 \in DOMAIN bs
  PROVE  /\ JoinedList(bs, i) \in Seq(Block)
         /\ DOMAIN JoinedList(bs, i) = 1 .. Len(bs) - 1
         /\ \A j \in DOMAIN JoinedList(bs, i) :
              JoinedList(bs, i)[j] = IF j = i THEN Join(bs[i], bs[i + 1])
                                     ELSE IF j < i THEN bs[j] ELSE bs[j + 1]
<1> DEFINE b == Join(bs[i], bs[i + 1])
           us == [bs EXCEPT ![i] = b]
           cs == RemoveAt(us, i + 1)
<1>1. /\ DOMAIN bs = 1 .. Len(bs) /\ Len(bs) \in Nat /\ i \in 1 .. Len(bs) - 1
      /\ bs[i] \in Block /\ bs[i + 1] \in Block
  BY BlocksTyped
<1>2. b \in Block
  <2>1. /\ bs[i].addr \in Nat /\ bs[i].size \in Int /\ bs[i + 1].size \in Int
        /\ BLOCK_HEADER_SIZE \in Int
    BY SMTT(30), <1>1, BlocksTyped, Constant
  <2> QED
    BY SMTT(30), <2>1 DEF Join, Block
<1>3. cs = JoinedList(bs, i)
  BY DEF JoinedList
<1> HIDE DEF b
<1>4. us \in Seq(Block) /\ Len(us) = Len(bs) /\ i \in 1 .. Len(us) - 1
      /\ \A j \in 1 .. Len(bs) : us[j] = IF j = i THEN b ELSE bs[j]
  BY <1>1, <1>2
<1> HIDE DEF us
<1>5. /\ cs \in Seq(Block) /\ DOMAIN cs = 1 .. Len(us) - 1
      /\ \A j \in 1 .. Len(us) - 1 : cs[j] = IF j <= i THEN us[j] ELSE us[j + 1]
  BY <1>4, Removed
<1> HIDE DEF cs
<1>6. ASSUME NEW j \in DOMAIN cs
      PROVE  cs[j] = IF j = i THEN b ELSE IF j < i THEN bs[j] ELSE bs[j + 1]
  <2>1. j \in 1 .. Len(bs) - 1 /\ j \in 1 .. Len(bs) /\ j + 1 \in 1 .. Len(bs)
        /\ i \in 1 .. Len(bs)
    BY <1>1, <1>4, <1>5
  <2>2. CASE j <= i
    <3>1. cs[j] = us[j] /\ (j = i \/ j < i)
      BY <1>4, <1>5, <2>1, <2>2
    <3> QED
      BY <1>4, <2>1, <3>1
  <2>3. CASE j > i
    <3>1. cs[j] = us[j + 1] /\ j + 1 # i
      BY <1>4, <1>5, <2>1, <2>3
    <3>2. us[j + 1] = bs[j + 1]
      BY <1>4, <2>1, <3>1
    <3> QED
      BY <2>1, <2>3, <3>1, <3>2
  <2> QED
    BY <2>1, <2>2, <2>3
<1> QED
  BY <1>3, <1>4, <1>5, <1>6 DEF b

\* An object is handed out: its block was free, and the other objects keep theirs.
LEMMA HandedHolds ==
  ASSUME NEW bs \in Seq(Block), NEW cs \in Seq(Block), NEW i \in DOMAIN bs,
         i \in DOMAIN cs, NEW L, NEW n \in Nat, Holds(bs, L), bs[i].free,
         \A j \in DOMAIN bs : j # i => \E k \in DOMAIN cs : k # i /\ cs[k] = bs[j],
         cs[i].addr = bs[i].addr, cs[i].free = FALSE, cs[i].size >= AlignSize(n)
  PROVE  Holds(cs, Handed(L, Data(bs[i]), n))
<1> DEFINE M == Handed(L, Data(bs[i]), n)
<1>0. /\ DOMAIN M = DOMAIN L \cup {Data(bs[i])}
      /\ \A a \in DOMAIN M : M[a] = IF a = Data(bs[i]) THEN n ELSE L[a]
  BY DEF Handed
<1> HIDE DEF M
<1> SUFFICES ASSUME NEW a \in DOMAIN M
             PROVE  \E k \in DOMAIN cs : /\ Data(cs[k]) = a /\ ~cs[k].free
                                         /\ cs[k].size >= AlignSize(M[a])
  BY DEF Holds, M
<1>1. CASE a = Data(bs[i])
  <2>1. M[a] = n
    BY <1>0, <1>1
  <2>2. Data(cs[i]) = a /\ ~cs[i].free /\ cs[i].size >= AlignSize(M[a])
    BY <1>1, <2>1 DEF Data
  <2> QED
    BY <2>2
<1>2. CASE a # Data(bs[i])
  <2>1. a \in DOMAIN L /\ M[a] = L[a]
    BY <1>0, <1>2
  <2>2. PICK j \in DOMAIN bs : /\ Data(bs[j]) = a /\ ~bs[j].free
                               /\ bs[j].size >= AlignSize(L[a])
    BY <2>1 DEF Holds
  <2>3. PICK k \in DOMAIN cs : cs[k] = bs[j]
    BY <2>2
  <2> QED
    BY <2>1, <2>2, <2>3
<1> QED
  BY <1>1, <1>2

\* The blocks of a list that are apart have their data at different addresses.
LEMMA DataUnique ==
  ASSUME NEW G, NEW bs \in Seq(Block), Inside(bs, G), Apart(bs),
         NEW i \in DOMAIN bs, NEW j \in DOMAIN bs, Data(bs[i]) = Data(bs[j])
  PROVE  i = j
<1>1. /\ bs[i].addr \in Int /\ bs[j].addr \in Int /\ BLOCK_HEADER_SIZE \in Int
      /\ bs[i].addr < End(bs[i]) /\ bs[j].addr < End(bs[j])
      /\ End(bs[i]) \in Int /\ End(bs[j]) \in Int
  BY BlocksTyped, Constant DEF Inside
<1>2. bs[i].addr = bs[j].addr
  BY <1>1 DEF Data
<1>3. ~Before(bs[i], bs[j]) /\ ~Before(bs[j], bs[i])
  BY <1>1, <1>2 DEF Before
<1> QED
  BY <1>3 DEF Apart

\* An object is given back: the blocks of the others are still in the list.
LEMMA FreedHolds ==
  ASSUME NEW bs \in Seq(Block), NEW cs, NEW i \in DOMAIN bs, NEW L, Holds(bs, L),
         \A j \in DOMAIN bs : j # i /\ ~bs[j].free
            => \E k \in DOMAIN cs : /\ cs[k].addr = bs[j].addr /\ cs[k].size = bs[j].size
                                    /\ ~cs[k].free
  PROVE  Holds(cs, Returned(L, Data(bs[i])))
<1> DEFINE M == Returned(L, Data(bs[i]))
<1>0. DOMAIN M = DOMAIN L \ {Data(bs[i])} /\ \A a \in DOMAIN M : M[a] = L[a]
  BY DEF Returned
<1> HIDE DEF M
<1> SUFFICES ASSUME NEW a \in DOMAIN M
             PROVE  \E k \in DOMAIN cs : /\ Data(cs[k]) = a /\ ~cs[k].free
                                         /\ cs[k].size >= AlignSize(M[a])
  BY DEF Holds, M
<1>1. a \in DOMAIN L /\ a # Data(bs[i]) /\ M[a] = L[a]
  BY <1>0
<1>2. PICK j \in DOMAIN bs : /\ Data(bs[j]) = a /\ ~bs[j].free
                             /\ bs[j].size >= AlignSize(L[a])
  BY <1>1 DEF Holds
<1>3. j # i
  BY <1>1, <1>2
<1>4. PICK k \in DOMAIN cs : /\ cs[k].addr = bs[j].addr /\ cs[k].size = bs[j].size
                             /\ ~cs[k].free
  BY <1>2, <1>3
<1>5. Data(cs[k]) = a
  BY <1>2, <1>4 DEF Data
<1> QED
  BY <1>1, <1>2, <1>4, <1>5

-----------------------------------------------------------------------------
(***************************************************************************)
(* The invariant: every step of the program and of the others keeps it.    *)
(***************************************************************************)
LEMMA HeapInit == Init => HeapTypes /\ ListInv
<1> SUFFICES ASSUME Init PROVE HeapTypes /\ ListInv
  OBVIOUS
<1>1. blocks = <<>> /\ live = <<>> /\ given = <<>> /\ crossed = FALSE
      /\ DOMAIN blocks = {} /\ DOMAIN live = {} /\ Range(given) = {}
  BY DEF Init, Range
<1>2. HeapTypes
  <2>1. blocks \in Seq(Block) /\ given \in Seq(Pages)
    BY <1>1
  <2>2. size \in Nat /\ asked \in Nat /\ crossed \in BOOLEAN /\ pc = "idle"
        /\ available \subseteq Pages
    BY DEF Init
  <2> QED
    BY <1>1, <2>1, <2>2 DEF HeapTypes
<1>3. ListInv
  BY <1>1 DEF ListInv, Inside, Apart, Holds
<1> QED
  BY <1>2, <1>3

\* What HeapTypes and ListInv say of the list, for the lemmas about lists.
LEMMA ListFacts ==
  ASSUME HeapTypes
  PROVE  /\ blocks \in Seq(Block) /\ DOMAIN blocks = 1 .. Len(blocks)
         /\ Len(blocks) \in Nat /\ Range(given) \in SUBSET Pages
         /\ \A i \in DOMAIN blocks : blocks[i] \in Block
<1>1. blocks \in Seq(Block) /\ given \in Seq(Pages)
  BY DEF HeapTypes
<1>2. Range(given) \subseteq Pages
  BY <1>1 DEF Range
<1> QED
  BY <1>1, <1>2, BlocksTyped

LEMMA GivenAppended ==
  ASSUME NEW p \in Pages, given \in Seq(Pages)
  PROVE  /\ Append(given, p) \in Seq(Pages)
         /\ Range(Append(given, p)) = Range(given) \cup {p}
<1> DEFINE g == Append(given, p)
<1>1. /\ g \in Seq(Pages) /\ DOMAIN g = DOMAIN given \cup {Len(given) + 1}
      /\ Len(given) \in Nat /\ DOMAIN given = 1 .. Len(given)
      /\ \A j \in DOMAIN given : g[j] = given[j]
      /\ g[Len(given) + 1] = p
  OBVIOUS
<1> HIDE DEF g
<1>2. Range(g) = Range(given) \cup {p}
  BY <1>1 DEF Range
<1> QED
  BY <1>1, <1>2 DEF g

LEMMA MallocStep == HeapTypes /\ ListInv /\ Malloc => HeapTypes' /\ ListInv'
<1> SUFFICES ASSUME HeapTypes, ListInv, Malloc PROVE HeapTypes' /\ ListInv'
  OBVIOUS
<1>1. UNCHANGED <<blocks, took, available, given, live, crossed>>
  BY DEF Malloc
<1>2. PICK n \in Sizes : asked' = n /\ size' = AlignSize(n)
  BY DEF Malloc
<1>3. n \in Nat /\ size' \in Nat
  BY <1>2, Constant, AlignTyped
<1>4. (pc # "idle" => size = AlignSize(asked))'
  BY <1>2 DEF AlignSize
<1>5. HeapTypes'
  BY <1>1, <1>2, <1>3, <1>4 DEF HeapTypes
<1>6. ListInv'
  BY <1>1 DEF ListInv, Inside, Apart, Before, Holds, End, Data, AlignSize
<1> QED
  BY <1>5, <1>6

LEMMA TakeBlockStep == HeapTypes /\ ListInv /\ TakeBlock => HeapTypes' /\ ListInv'
<1> SUFFICES ASSUME HeapTypes, ListInv, TakeBlock PROVE HeapTypes' /\ ListInv'
  OBVIOUS
<1> DEFINE G == Range(given)
<1>1. /\ pc = "search" /\ pc' = "idle" /\ size' = 0 /\ asked' = 0
      /\ UNCHANGED <<available, given, mallocs, crossed>>
  BY DEF TakeBlock, Return
<1>2. PICK i \in DOMAIN blocks :
        /\ FirstFit(i) /\ Hand(blocks[i])
        /\ \/ /\ Splits(blocks[i])
              /\ blocks' = InsertAt([blocks EXCEPT ![i].free = FALSE, ![i].size = size],
                                    i + 1, Rest(blocks[i]))
           \/ /\ ~Splits(blocks[i])
              /\ blocks' = [blocks EXCEPT ![i].free = FALSE]
  BY ZenonT(30) DEF TakeBlock
<1>3. blocks[i].free /\ blocks[i].size >= size /\ Fits(blocks[i])
  BY <1>2 DEF FirstFit, Fits
<1>4. size \in Nat /\ asked \in Nat /\ size = AlignSize(asked)
  BY <1>1 DEF HeapTypes
<1>5. live' = [a \in DOMAIN live \cup {Data(blocks[i])} |->
                 IF a = Data(blocks[i]) THEN asked ELSE live[a]]
  BY <1>2 DEF Hand
<1>6. blocks \in Seq(Block) /\ blocks[i] \in Block /\ Data(blocks[i]) \in Int
  <2>1. blocks[i].addr \in Nat /\ blocks \in Seq(Block) /\ blocks[i] \in Block
    BY ListFacts, BlocksTyped
  <2> QED
    BY <2>1, Constant DEF Data
<1>7. \A a \in DOMAIN live' : a \in Int /\ live'[a] \in Nat
  BY <1>4, <1>5, <1>6 DEF HeapTypes
\* What the new list is, cut or marked.
<1>8. /\ blocks' \in Seq(Block) /\ i \in DOMAIN blocks'
      /\ \A j \in DOMAIN blocks :
           j # i => \E k \in DOMAIN blocks' : k # i /\ blocks'[k] = blocks[j]
      /\ blocks'[i].addr = blocks[i].addr /\ blocks'[i].free = FALSE
      /\ blocks'[i].size >= size
      /\ Inside(blocks, G) /\ Apart(blocks) => Inside(blocks', G) /\ Apart(blocks')
  <2>1. CASE blocks' = CutList(blocks, i) /\ Splits(blocks[i])
    <3>1. Inside(blocks, G) => blocks[i].size >= size + BLOCK_HEADER_SIZE
      <4> SUFFICES ASSUME Inside(blocks, G)
                   PROVE  blocks[i].size >= size + BLOCK_HEADER_SIZE
        OBVIOUS
      <4>1. blocks[i].size >= size + BLOCK_HEADER_SIZE + ALIGN_SIZE
        BY <1>3, <1>4, <1>6, <2>1, ListFacts, NoWrap
      <4>2. blocks[i].size \in Int /\ BLOCK_HEADER_SIZE \in Nat /\ ALIGN_SIZE \in Nat
        BY <1>6, BlocksTyped, Constant
      <4> QED
        BY <1>4, <4>1, <4>2
    <3>2. size >= size
      BY <1>4
    <3> QED
      BY <1>4, <1>6, <2>1, <3>1, <3>2, CutApart
  <2>2. CASE blocks' = MarkedList(blocks, i, FALSE)
    BY ZenonT(60), <1>3, <1>6, <2>2, MarkedApart
  <2> QED
    BY <1>2, <2>1, <2>2 DEF CutList, MarkedList
<1>9. HeapTypes'
  BY <1>1, <1>7, <1>8 DEF HeapTypes
<1>10. ASSUME ~crossed PROVE Holds(blocks', live')
  <2>1. Holds(blocks, live)
    BY <1>10 DEF ListInv
  <2>2. blocks'[i].size >= AlignSize(asked)
    BY <1>4, <1>8
  <2>3. Holds(blocks', Handed(live, Data(blocks[i]), asked))
    BY <1>3, <1>4, <1>6, <1>8, <2>1, <2>2, HandedHolds
  <2> QED
    BY <1>5, <2>3 DEF Handed
<1>11. ASSUME ~crossed PROVE Inside(blocks', G) /\ Apart(blocks')
  BY <1>8, <1>11 DEF ListInv
<1>12. ASSUME ~crossed PROVE (Inside(blocks, Range(given)) /\ Apart(blocks)
                              /\ Holds(blocks, live))'
  <2>1. Range(given') = Range(given)
    BY <1>1
  <2>2. Inside(blocks', Range(given')) /\ Apart(blocks') /\ Holds(blocks', live')
    BY <1>10, <1>11, <1>12, <2>1
  <2> QED
    BY <2>2 DEF Inside, Apart, Before, Holds, End, Data, AlignSize, Range
<1>13. ListInv'
  BY <1>1, <1>12 DEF ListInv
<1> QED
  BY <1>9, <1>13

\* A step that leaves the list, the objects and the size alone.
LEMMA QuietStep ==
  ASSUME HeapTypes, ListInv, UNCHANGED <<blocks, size, asked, given, live, crossed>>,
         pc' # "idle" => pc # "idle",
         available' \subseteq Pages, available' \cap Range(given) = {}
  PROVE  HeapTypes' /\ ListInv'
<1>1. Range(given)' = Range(given)
  BY DEF Range
<1>2. HeapTypes'
  BY <1>1 DEF HeapTypes, AlignSize
<1>3. ListInv'
  BY DEF ListInv, Inside, Apart, Before, Holds, End, Data, AlignSize, Range
<1> QED
  BY <1>2, <1>3

LEMMA ExpandStep == HeapTypes /\ ListInv /\ Expand => HeapTypes' /\ ListInv'
<1> SUFFICES ASSUME HeapTypes, ListInv, Expand PROVE HeapTypes' /\ ListInv'
  OBVIOUS
<1>1. pc = "expand" /\ UNCHANGED <<live, mallocs, crossed>>
  BY DEF Expand
<1>2. /\ size' \in Nat /\ asked' \in Nat
      /\ pc' # "idle" => size' = size /\ asked' = asked
  BY DEF Expand, Return, HeapTypes
<1>3. (pc # "idle" => size = AlignSize(asked))'
  BY <1>1, <1>2 DEF HeapTypes, AlignSize
<1>4. /\ blocks \in Seq(Block) /\ given \in Seq(Pages) /\ Range(given) \in SUBSET Pages
      /\ available \subseteq Pages /\ available \cap Range(given) = {}
      /\ crossed \in BOOLEAN /\ \A a \in DOMAIN live : a \in Int /\ live[a] \in Nat
  BY ListFacts DEF HeapTypes
<1>5. CASE UNCHANGED <<available, given, blocks>>
  <2>1. HeapTypes'
    BY <1>1, <1>2, <1>3, <1>5 DEF HeapTypes, Range
  <2>2. ListInv'
    BY <1>1, <1>5
       DEF ListInv, Inside, Apart, Before, Holds, End, Data, AlignSize, Range
  <2> QED
    BY <2>1, <2>2
<1>6. ASSUME NEW p \in available, available' = available \ {p},
             given' = Append(given, p), blocks' = Append(blocks, PageBlock(p))
      PROVE  HeapTypes' /\ ListInv'
  <2>1. p \in Pages \ Range(given) /\ p \in Pages
    BY <1>4
  <2>2. given' \in Seq(Pages) /\ Range(given') = Range(given) \cup {p}
    BY <1>4, <1>6, <2>1, GivenAppended
  <2>3. PageBlock(p) \in Block
    BY <2>1, Constant DEF PageBlock, Block
  <2>4. /\ blocks' \in Seq(Block)
        /\ \A i \in DOMAIN blocks : i \in DOMAIN blocks' /\ blocks'[i] = blocks[i]
    BY <1>4, <1>6, <2>3
  <2>5. available' \subseteq Pages /\ available' \cap Range(given') = {}
    BY <1>4, <1>6, <2>2
  <2>6. HeapTypes'
    BY <1>1, <1>2, <1>3, <1>4, <2>2, <2>4, <2>5 DEF HeapTypes, Range
  <2>7. ASSUME ~crossed
        PROVE  Inside(blocks', Range(given')) /\ Apart(blocks') /\ Holds(blocks', live')
    <3>1. Inside(blocks, Range(given)) /\ Apart(blocks) /\ Holds(blocks, live)
      BY <2>7 DEF ListInv
    <3>2. Inside(blocks', Range(given) \cup {p}) /\ Apart(blocks')
      BY <1>4, <1>6, <2>1, <3>1, GrownApart
    <3>3. Holds(blocks', live)
      BY <2>4, <3>1 DEF Holds
    <3> QED
      BY <1>1, <2>2, <3>2, <3>3
  <2>8. ListInv'
    BY <1>1, <2>7 DEF ListInv, Inside, Apart, Before, Holds, End, Data, AlignSize, Range
  <2> QED
    BY <2>6, <2>8
<1> QED
  BY <1>5, <1>6, ZenonT(30) DEF Expand

LEMMA FreeStep == HeapTypes /\ ListInv /\ Free => HeapTypes' /\ ListInv'
<1> SUFFICES ASSUME HeapTypes, ListInv, Free PROVE HeapTypes' /\ ListInv'
  OBVIOUS
<1> DEFINE G == Range(given)
<1>1. UNCHANGED <<callVars, available, given, mallocs>>
  BY DEF Free
<1>2. PICK i \in DOMAIN blocks :
        /\ Data(blocks[i]) \in DOMAIN live
        /\ live' = [a \in DOMAIN live \ {Data(blocks[i])} |-> live[a]]
        /\ \/ /\ NextIsFree(i)
              /\ blocks' = RemoveAt([blocks EXCEPT ![i] = Join(@, blocks[i + 1])], i + 1)
              /\ crossed' = (crossed \/ ~Touch(blocks[i], blocks[i + 1]))
           \/ /\ ~NextIsFree(i)
              /\ blocks' = [blocks EXCEPT ![i].free = TRUE]
              /\ UNCHANGED crossed
  BY ZenonT(30) DEF Free
<1>3. /\ blocks \in Seq(Block) /\ DOMAIN blocks = 1 .. Len(blocks) /\ Len(blocks) \in Nat
      /\ crossed \in BOOLEAN
  BY ListFacts DEF HeapTypes
<1>4. \A a \in DOMAIN live' : a \in Int /\ live'[a] \in Nat
  BY <1>2 DEF HeapTypes
\* What the new list is, joined or marked.
<1>5. /\ blocks' \in Seq(Block) /\ crossed' \in BOOLEAN /\ (crossed => crossed')
      /\ \A j \in DOMAIN blocks : j # i /\ ~blocks[j].free
           => \E k \in DOMAIN blocks' : /\ blocks'[k].addr = blocks[j].addr
                                        /\ blocks'[k].size = blocks[j].size
                                        /\ ~blocks'[k].free
      /\ ~crossed' /\ Inside(blocks, G) /\ Apart(blocks)
           => Inside(blocks', G) /\ Apart(blocks')
  <2>1. CASE /\ NextIsFree(i) /\ blocks' = JoinedList(blocks, i)
             /\ crossed' = (crossed \/ ~Touch(blocks[i], blocks[i + 1]))
    <3>1. /\ i \in 1 .. Len(blocks) - 1 /\ i + 1 \in DOMAIN blocks
          /\ blocks[i + 1].free
      BY <1>3, <2>1 DEF NextIsFree
    <3>2. /\ blocks' \in Seq(Block) /\ DOMAIN blocks' = 1 .. Len(blocks) - 1
          /\ \A j \in DOMAIN blocks' :
               blocks'[j] = IF j = i THEN Join(blocks[i], blocks[i + 1])
                            ELSE IF j < i THEN blocks[j] ELSE blocks[j + 1]
      BY <1>3, <2>1, <3>1, JoinedBlocks
    <3>3. ASSUME NEW j \in DOMAIN blocks, j # i, ~blocks[j].free
          PROVE  \E k \in DOMAIN blocks' : blocks'[k] = blocks[j]
      <4>1. j # i + 1 /\ j \in 1 .. Len(blocks)
        BY <1>3, <3>1, <3>3
      <4>2. CASE j < i
        BY <1>3, <3>1, <3>2, <4>1, <4>2
      <4>3. CASE j > i
        <5>1. j - 1 \in DOMAIN blocks' /\ j - 1 # i /\ ~(j - 1 < i) /\ (j - 1) + 1 = j
          BY <1>3, <3>1, <3>2, <4>1, <4>3
        <5> QED
          BY <3>2, <5>1
      <4> QED
        BY <3>1, <3>3, <4>1, <4>2, <4>3
    <3>4. ASSUME ~crossed', Inside(blocks, G), Apart(blocks)
          PROVE  Inside(blocks', G) /\ Apart(blocks')
      <4>1. Touch(blocks[i], blocks[i + 1])
        BY <2>1, <3>4
      <4> DEFINE cs == blocks'
      <4>2. /\ cs \in Seq(Block) /\ DOMAIN cs = 1 .. Len(blocks) - 1
            /\ \A j \in DOMAIN cs :
                 cs[j] = IF j = i THEN Join(blocks[i], blocks[i + 1])
                         ELSE IF j < i THEN blocks[j] ELSE blocks[j + 1]
        BY <3>2
      <4> HIDE DEF cs
      <4>3. Inside(cs, G) /\ Apart(cs)
        BY <1>3, <3>1, <3>4, <4>1, <4>2, JoinedApart
      <4> QED
        BY <4>3 DEF cs
    <3> QED
      BY <1>3, <2>1, <3>2, <3>3, <3>4
  <2>2. CASE blocks' = MarkedList(blocks, i, TRUE) /\ UNCHANGED crossed
    <3>1. /\ blocks' \in Seq(Block) /\ DOMAIN blocks' = DOMAIN blocks
          /\ \A j \in DOMAIN blocks : j # i => blocks'[j] = blocks[j]
          /\ Inside(blocks, G) => Inside(blocks', G)
          /\ Apart(blocks) => Apart(blocks')
      <4> DEFINE cs == MarkedList(blocks, i, TRUE)
      <4>1. /\ cs \in Seq(Block) /\ DOMAIN cs = DOMAIN blocks
            /\ \A j \in DOMAIN blocks : j # i => cs[j] = blocks[j]
            /\ Inside(blocks, G) => Inside(cs, G)
            /\ Apart(blocks) => Apart(cs)
        <5>1. TRUE \in BOOLEAN
          OBVIOUS
        <5> QED
          BY <1>3, <5>1, MarkedApart, ZenonT(30)
      <4>2. blocks' = cs
        BY <2>2
      <4> HIDE DEF cs
      <4> QED
        BY <4>1, <4>2
    <3> QED
      BY <1>3, <2>2, <3>1
  <2> QED
    BY <1>2, <2>1, <2>2 DEF JoinedList, MarkedList
<1>6. HeapTypes'
  BY <1>1, <1>4, <1>5 DEF HeapTypes, callVars, AlignSize, Range
<1>7. ASSUME ~crossed'
      PROVE  Inside(blocks', G) /\ Apart(blocks') /\ Holds(blocks', live')
  <2>1. Inside(blocks, G) /\ Apart(blocks) /\ Holds(blocks, live)
    BY <1>5, <1>7 DEF ListInv
  <2>2. Inside(blocks', G) /\ Apart(blocks')
    BY <1>5, <1>7, <2>1
  <2>3. Holds(blocks', Returned(live, Data(blocks[i])))
    BY <1>3, <1>5, <2>1, FreedHolds
  <2>4. live' = Returned(live, Data(blocks[i]))
    BY <1>2 DEF Returned
  <2> QED
    BY <2>2, <2>3, <2>4
<1>8. ListInv'
  BY <1>1, <1>7 DEF ListInv, Inside, Apart, Before, Holds, End, Data, AlignSize, Range
<1> QED
  BY <1>6, <1>8

LEMMA HeapStep == HeapTypes /\ ListInv /\ [Next]_vars => HeapTypes' /\ ListInv'
<1> SUFFICES ASSUME HeapTypes, ListInv, [Next]_vars PROVE HeapTypes' /\ ListInv'
  OBVIOUS
<1>1. available \subseteq Pages /\ available \cap Range(given) = {}
  BY DEF HeapTypes
<1>2. CASE Malloc
  BY <1>2, MallocStep
<1>3. CASE TakeBlock
  BY <1>3, TakeBlockStep
<1>4. CASE NothingFits
  BY <1>1, <1>4, QuietStep DEF NothingFits
<1>5. CASE Expand
  BY <1>5, ExpandStep
<1>6. CASE Free
  BY <1>6, FreeStep
<1>7. CASE OthersTake
  BY <1>1, <1>7, QuietStep DEF OthersTake, callVars
<1>8. CASE OthersGive
  BY <1>1, <1>8, QuietStep DEF OthersGive, callVars
<1>9. CASE UNCHANGED vars
  BY <1>1, <1>9, QuietStep DEF vars, callVars
<1> QED
  BY <1>2, <1>3, <1>4, <1>5, <1>6, <1>7, <1>8, <1>9 DEF Next, Steps

\* The objects of a list whose blocks are apart are apart.
LEMMA HeldApart == HeapTypes /\ ListInv => ObjectsApart
<1> SUFFICES ASSUME HeapTypes, ListInv, ~crossed,
                    \A a \in DOMAIN live : AlignSize(live[a]) >= live[a]
             PROVE  LET Of(a) == Bytes(a - BLOCK_HEADER_SIZE, BLOCK_HEADER_SIZE + live[a])
                    IN  \A a \in DOMAIN live :
                          /\ Of(a) \subseteq UNION {Bytes(p * PAGE_SIZE, PAGE_SIZE) :
                                                    p \in Range(given)}
                          /\ \A b \in DOMAIN live \ {a} : Of(a) \cap Of(b) = {}
  BY DEF ObjectsApart
<1> DEFINE Of(a) == Bytes(a - BLOCK_HEADER_SIZE, BLOCK_HEADER_SIZE + live[a])
           G == Range(given)
<1>1. /\ Inside(blocks, G) /\ Apart(blocks) /\ Holds(blocks, live)
      /\ blocks \in Seq(Block) /\ G \in SUBSET Pages
  BY ListFacts DEF ListInv
<1>2. ASSUME NEW a \in DOMAIN live
      PROVE  \E i \in DOMAIN blocks :
               /\ Data(blocks[i]) = a
               /\ \A x \in Of(a) : x \in Int /\ blocks[i].addr <= x /\ x < End(blocks[i])
  <2>1. PICK i \in DOMAIN blocks : /\ Data(blocks[i]) = a
                                   /\ blocks[i].size >= AlignSize(live[a])
    BY <1>1 DEF Holds
  <2>2. /\ a \in Int /\ live[a] \in Nat /\ BLOCK_HEADER_SIZE \in Int
        /\ blocks[i].addr \in Int /\ blocks[i].size \in Int /\ End(blocks[i]) \in Int
        /\ End(blocks[i]) = blocks[i].addr + BLOCK_HEADER_SIZE + blocks[i].size
        /\ AlignSize(live[a]) \in Nat
    <3>1. a \in Int /\ live[a] \in Nat
      BY DEF HeapTypes
    <3>2. AlignSize(live[a]) \in Nat
      BY <3>1, AlignTyped
    <3> QED
      BY <1>1, <3>1, <3>2, BlocksTyped, Constant
  <2>3. blocks[i].size >= live[a] /\ blocks[i].addr = a - BLOCK_HEADER_SIZE
    BY <2>1, <2>2 DEF Data
  <2>4. ASSUME NEW x \in Of(a)
        PROVE  x \in Int /\ blocks[i].addr <= x /\ x < End(blocks[i])
    BY <2>2, <2>3 DEF Bytes
  <2> QED
    BY <2>1, <2>4
<1> HIDE DEF Of
<1>3. ASSUME NEW a \in DOMAIN live, NEW x \in Of(a)
      PROVE  \E p \in G : x \in Bytes(p * PAGE_SIZE, PAGE_SIZE)
  <2>1. PICK i \in DOMAIN blocks : x \in Int /\ blocks[i].addr <= x /\ x < End(blocks[i])
    BY <1>2, <1>3
  <2>2. PICK p \in G : p * PAGE_SIZE <= x /\ x < p * PAGE_SIZE + PAGE_SIZE
    BY <1>1, <2>1 DEF Inside
  <2>3. p \in Nat /\ PAGE_SIZE \in Nat
    BY <1>1, Constant
  <2>4. p * PAGE_SIZE \in Nat
    BY <2>3, SMT
  <2>5. x \in Bytes(p * PAGE_SIZE, PAGE_SIZE)
    BY <2>1, <2>2, <2>3, <2>4 DEF Bytes
  <2> QED
    BY <2>5
<1>4. ASSUME NEW a \in DOMAIN live, NEW b \in DOMAIN live \ {a} PROVE Of(a) \cap Of(b) = {}
  <2>1. PICK i \in DOMAIN blocks :
          /\ Data(blocks[i]) = a
          /\ \A x \in Of(a) : x \in Int /\ blocks[i].addr <= x /\ x < End(blocks[i])
    BY <1>2
  <2>2. PICK j \in DOMAIN blocks :
          /\ Data(blocks[j]) = b
          /\ \A x \in Of(b) : x \in Int /\ blocks[j].addr <= x /\ x < End(blocks[j])
    BY <1>2
  <2>3. Before(blocks[i], blocks[j]) \/ Before(blocks[j], blocks[i])
    BY <1>1, <2>1, <2>2 DEF Apart
  <2>4. /\ blocks[i].addr \in Int /\ End(blocks[i]) \in Int
        /\ blocks[j].addr \in Int /\ End(blocks[j]) \in Int
    BY <1>1, BlocksTyped
  <2>5. ASSUME NEW x \in Of(a), x \in Of(b) PROVE FALSE
    BY <2>1, <2>2, <2>3, <2>4, <2>5 DEF Before
  <2> QED
    BY <2>5
<1>5. \A a \in DOMAIN live :
        /\ Of(a) \subseteq UNION {Bytes(p * PAGE_SIZE, PAGE_SIZE) : p \in G}
        /\ \A b \in DOMAIN live \ {a} : Of(a) \cap Of(b) = {}
  BY <1>3, <1>4
<1> QED
  BY <1>5 DEF Of

\* Whatever the sizes, the pages the kernel has and the order in which other programs
\* take and give them: an object of malloc and its header lie in pages of the heap and
\* in no other object, as long as no join has crossed memory that is not the heap's and
\* every size could be aligned.
THEOREM ObjectsAlwaysApart == Spec => []ObjectsApart
<1>1. Spec => [](HeapTypes /\ ListInv)
  BY HeapInit, HeapStep, PTL DEF Spec
<1> QED
  BY <1>1, HeldApart, PTL

-----------------------------------------------------------------------------
(***************************************************************************)
(* Sums.  Total is a recursive function: that it exists, and what it adds  *)
(* up, is by induction, which here is a set of numbers that holds 0 and,   *)
(* with a number, the next.                                                *)
(***************************************************************************)
Less == {ss \in Nat \X Nat : ss[1] < ss[2]}

\* Induction over a set of numbers: its least number outside T, if there were one, would be
\* 0 or follow one of T.
LEMMA Induction ==
  ASSUME NEW N \in Nat, NEW T, 0 \in T,
         \A n \in 0 .. N - 1 : n \in T => n + 1 \in T
  PROVE  N \in T /\ \A n \in 0 .. N : n \in T
<1> SUFFICES ASSUME NEW n \in 0 .. N, n \notin T PROVE FALSE
  OBVIOUS
<1> DEFINE U == {k \in 0 .. N : k \notin T}
<1>1. OpToRel(<, Nat) = Less
  BY Zenon DEF OpToRel, Less
<1>2. IsWellFoundedOn(Less, Nat)
  BY NatLessThanWellFounded, <1>1, Zenon
<1>3. U \subseteq Nat /\ U # {}
  OBVIOUS
<1> HIDE DEF U
<1>4. PICK x \in U : \A y \in U : ~(<<y, x>> \in Less)
  BY <1>2, <1>3, WFMin, Zenon
<1>5. x \in Nat /\ \A y \in U : ~(y < x)
  BY <1>3, <1>4 DEF Less
<1>6. x \in 0 .. N /\ x \notin T /\ x # 0 /\ x - 1 \in 0 .. N - 1
  BY <1>5 DEF U
<1>7. x - 1 \in T
  BY <1>5, <1>6 DEF U
<1> QED
  BY <1>6, <1>7

\* The sums of the first numbers of v.
SumsOf(f, v, N) ==
  /\ f \in [0 .. N -> Int] /\ f[0] = 0
  /\ \A n \in 1 .. N : f[n] = f[n - 1] + v[n]

LEMMA SumsStep ==
  ASSUME NEW v, NEW N \in Nat, NEW f, SumsOf(f, v, N)
  PROVE  /\ \A n \in 0 .. N : f[n] \in Int
         /\ \A n \in 0 .. N - 1 : f[n + 1] = f[n] + v[n + 1]
<1>1. ASSUME NEW n \in 0 .. N - 1 PROVE f[n + 1] = f[n] + v[n + 1]
  <2>1. n + 1 \in 1 .. N /\ (n + 1) - 1 = n
    OBVIOUS
  <2> QED
    BY <2>1 DEF SumsOf
<1> QED
  BY <1>1 DEF SumsOf

LEMMA SumsExist ==
  ASSUME NEW v, NEW N \in Nat, \A n \in 1 .. N : v[n] \in Int
  PROVE  \E f : SumsOf(f, v, N)
<1> DEFINE T == {n \in 0 .. N : \E f : SumsOf(f, v, n)}
<1>1. 0 \in T
  <2>1. SumsOf([n \in 0 .. 0 |-> 0], v, 0)
    BY DEF SumsOf
  <2> QED
    BY <2>1
<1>2. ASSUME NEW n \in 0 .. N - 1, n \in T PROVE n + 1 \in T
  <2>1. PICK f : SumsOf(f, v, n)
    BY <1>2
  <2> DEFINE g == [k \in 0 .. n + 1 |-> IF k = n + 1 THEN f[n] + v[n + 1] ELSE f[k]]
  <2>2. f[n] \in Int /\ v[n + 1] \in Int /\ f \in [0 .. n -> Int] /\ f[0] = 0
    BY <2>1 DEF SumsOf
  <2>3. g \in [0 .. n + 1 -> Int] /\ g[0] = 0
    BY <2>2
  <2>4. \A k \in 1 .. n + 1 : g[k] = g[k - 1] + v[k]
    BY <2>1, SMTT(60) DEF SumsOf
  <2>5. SumsOf(g, v, n + 1)
    BY <2>3, <2>4 DEF SumsOf
  <2> QED
    BY <2>5
<1>3. N \in T
  <2> HIDE DEF T
  <2> QED
    BY <1>1, <1>2, Induction
<1> QED
  BY <1>3

\* Total is the last of them.
LEMMA TotalSums ==
  ASSUME NEW v \in Seq(Int)
  PROVE  \E f : SumsOf(f, v, Len(v)) /\ Total(v) = f[Len(v)]
<1> DEFINE N == Len(v)
           F(f) == f = [n \in 0 .. N |-> IF n = 0 THEN 0 ELSE f[n - 1] + v[n]]
           s == CHOOSE f : F(f)
<1>1. N \in Nat /\ \A n \in 1 .. N : v[n] \in Int
  OBVIOUS
<1>2. PICK f : SumsOf(f, v, N)
  BY <1>1, SumsExist
<1>3. F(f)
  BY <1>1, <1>2 DEF SumsOf
<1>4. F(s)
  BY <1>3
<1>5. Total(v) = s[N]
  BY DEF Total
<1>6. \A n \in 0 .. N : s[n] = f[n]
  <2> DEFINE T == {n \in 0 .. N : s[n] = f[n]}
  <2> HIDE DEF s
  <2>1. 0 \in T
    BY <1>1, <1>2, <1>4 DEF SumsOf
  <2>2. ASSUME NEW n \in 0 .. N - 1, n \in T PROVE n + 1 \in T
    BY <1>1, <1>2, <1>4, <2>2 DEF SumsOf
  <2> QED
    BY <1>1, <2>1, <2>2, Induction
<1> QED
  BY <1>1, <1>2, <1>5, <1>6

LEMMA TotalEmpty == Total(<<>>) = 0
<1>1. <<>> \in Seq(Int) /\ Len(<<>>) = 0
  OBVIOUS
<1>2. \E f : SumsOf(f, <<>>, 0) /\ Total(<<>>) = f[0]
  <2> DEFINE e == <<>>
  <2>1. e \in Seq(Int) /\ Len(e) = 0
    OBVIOUS
  <2> HIDE DEF e
  <2>2. \E f : SumsOf(f, e, 0) /\ Total(e) = f[0]
    BY <2>1, TotalSums
  <2> QED
    BY <2>2 DEF e
<1> QED
  BY <1>2 DEF SumsOf

LEMMA TotalAppended ==
  ASSUME NEW v \in Seq(Int), NEW c \in Int
  PROVE  Total(Append(v, c)) = Total(v) + c
<1> DEFINE w == Append(v, c)
           N == Len(v)
<1>1. /\ w \in Seq(Int) /\ Len(w) = N + 1 /\ N \in Nat
      /\ \A n \in 1 .. N : w[n] = v[n] /\ v[n] \in Int
      /\ w[N + 1] = c
  OBVIOUS
<1> HIDE DEF w, N
<1>2. PICK f : SumsOf(f, v, N) /\ Total(v) = f[N]
  BY TotalSums DEF N
<1>3. PICK g : SumsOf(g, w, N + 1) /\ Total(w) = g[N + 1]
  BY <1>1, TotalSums
<1>4. \A n \in 0 .. N : n \in {k \in 0 .. N : g[k] = f[k]}
  <2> DEFINE T == {k \in 0 .. N : g[k] = f[k]}
  <2>1. 0 \in T
    BY <1>1, <1>2, <1>3 DEF SumsOf
  <2>2. ASSUME NEW n \in 0 .. N - 1, n \in T PROVE n + 1 \in T
    BY <1>1, <1>2, <1>3, <2>2 DEF SumsOf
  <2> HIDE DEF T
  <2>3. \A n \in 0 .. N : n \in T
    BY <1>1, <2>1, <2>2, Induction
  <2> QED
    BY <2>3 DEF T
<1>5. g[N] = f[N] /\ g[N + 1] = g[N] + c
  BY <1>1, <1>3, <1>4 DEF SumsOf
<1> QED
  BY <1>2, <1>3, <1>5 DEF w

\* w is v but for its i-th number, which is made two of the same sum.
SplitAt(v, w, N, i) ==
  /\ \A n \in 1 .. N : v[n] \in Int
  /\ \A n \in 1 .. N + 1 : w[n] \in Int
  /\ \A n \in 1 .. i - 1 : w[n] = v[n]
  /\ w[i] + w[i + 1] = v[i]
  /\ \A n \in i + 1 .. N : w[n + 1] = v[n]

LEMMA SplitSums ==
  ASSUME NEW N \in Nat, NEW i \in 1 .. N, NEW v, NEW w, NEW f, NEW g,
         SumsOf(f, v, N), SumsOf(g, w, N + 1), SplitAt(v, w, N, i)
  PROVE  g[N + 1] = f[N]
<1> DEFINE T == {n \in 0 .. N : IF n < i THEN g[n] = f[n] ELSE g[n + 1] = f[n]}
<1>1. 0 \in T
  BY DEF SumsOf
<1>2. ASSUME NEW n \in 0 .. N - 1, n \in T PROVE n + 1 \in T
  <2>1. PICK m \in 1 .. N : m = n + 1
    OBVIOUS
  <2>2. PICK k \in 1 .. N + 1 : k = m + 1
    OBVIOUS
  <2>3. f[m] = f[n] + v[m] /\ f[n] \in Int
    BY <2>1, SumsStep
  <2>4. g[m] = g[n] + w[m] /\ g[n] \in Int /\ g[m] \in Int
    BY <2>1, SumsStep
  <2>5. g[k] = g[m] + w[k]
    BY <2>1, <2>2, SumsStep
  <2>6. v[m] \in Int /\ w[m] \in Int /\ w[k] \in Int
    BY DEF SplitAt
  <2>7. CASE m < i
    <3>1. w[m] = v[m] /\ g[n] = f[n]
      BY <1>2, <2>1, <2>7 DEF SplitAt
    <3> QED
      BY <2>1, <2>3, <2>4, <2>7, <3>1
  <2>8. CASE m = i
    <3>1. g[n] = f[n] /\ w[m] + w[k] = v[m]
      BY <1>2, <2>1, <2>2, <2>8 DEF SplitAt
    <3>2. g[k] = f[m]
      BY <2>3, <2>4, <2>5, <2>6, <3>1
    <3> QED
      BY <2>1, <2>2, <2>8, <3>2
  <2>9. CASE m > i
    <3>1. g[m] = f[n] /\ w[k] = v[m]
      BY <1>2, <2>1, <2>2, <2>9 DEF SplitAt
    <3>2. g[k] = f[m]
      BY <2>3, <2>5, <3>1
    <3> QED
      BY <2>1, <2>2, <2>9, <3>2
  <2> QED
    BY <2>7, <2>8, <2>9
<1>3. N \in T
  <2> HIDE DEF T
  <2> QED
    BY <1>1, <1>2, Induction
<1> QED
  BY <1>3

LEMMA TotalSplit ==
  ASSUME NEW v \in Seq(Int), NEW w \in Seq(Int), NEW N \in Nat, NEW i \in 1 .. N,
         Len(v) = N, Len(w) = N + 1, SplitAt(v, w, N, i)
  PROVE  Total(w) = Total(v)
<1>1. PICK f : SumsOf(f, v, N) /\ Total(v) = f[N]
  BY TotalSums
<1>2. PICK g : SumsOf(g, w, N + 1) /\ Total(w) = g[N + 1]
  BY TotalSums
<1>3. g[N + 1] = f[N]
  BY <1>1, <1>2, SplitSums
<1> QED
  BY <1>1, <1>2, <1>3

\* Of numbers that are not negative, the sum is at least each of them.
LEMMA TotalBound ==
  ASSUME NEW v \in Seq(Int), \A j \in 1 .. Len(v) : v[j] >= 0, NEW i \in 1 .. Len(v)
  PROVE  v[i] <= Total(v) /\ Total(v) \in Int
<1> DEFINE N == Len(v)
<1>1. N \in Nat /\ i \in 1 .. N /\ \A n \in 1 .. N : v[n] \in Int /\ v[n] >= 0
  OBVIOUS
<1>2. PICK f : SumsOf(f, v, N) /\ Total(v) = f[N]
  BY TotalSums
<1> DEFINE T == {n \in 0 .. N : f[n] >= 0 /\ (n >= i => f[n] >= v[i])}
<1> HIDE DEF N
<1>3. 0 \in T
  BY <1>1, <1>2 DEF SumsOf
<1>4. ASSUME NEW n \in 0 .. N - 1, n \in T PROVE n + 1 \in T
  <2>1. /\ n + 1 \in 1 .. N /\ n + 1 \in 0 .. N /\ n \in 0 .. N /\ f[n] \in Int
        /\ f[n + 1] = f[n] + v[n + 1]
    BY <1>1, <1>2, SumsStep
  <2>4. v[n + 1] \in Int /\ v[n + 1] >= 0 /\ v[i] \in Int
    BY <1>1, <2>1
  <2>2. f[n] >= 0 /\ (n >= i => f[n] >= v[i])
    BY <1>4
  <2>3. f[n + 1] >= 0 /\ (n + 1 >= i => f[n + 1] >= v[i])
    <3>1. CASE n + 1 = i
      BY <1>1, <2>1, <2>2, <2>4, <3>1
    <3>2. CASE n + 1 # i
      BY <1>1, <2>1, <2>2, <2>4, <3>2
    <3> QED
      BY <3>1, <3>2
  <2> QED
    BY <2>1, <2>3
<1>5. N \in T
  <2> HIDE DEF T
  <2> QED
    BY <1>1, <1>3, <1>4, Induction
<1> QED
  BY <1>1, <1>2, <1>5 DEF SumsOf

\* z adds x, y and a constant up.
AddsUp(x, y, z, c, N) ==
  \A n \in 1 .. N : x[n] \in Int /\ y[n] \in Int /\ z[n] = x[n] + y[n] + c

LEMMA PlusSums ==
  ASSUME NEW N \in Nat, NEW c \in Int, NEW x, NEW y, NEW z, NEW f, NEW g, NEW h,
         SumsOf(f, x, N), SumsOf(g, y, N), SumsOf(h, z, N), AddsUp(x, y, z, c, N)
  PROVE  h[N] = f[N] + g[N] + c * N
<1> DEFINE T == {n \in 0 .. N : h[n] = f[n] + g[n] + c * n}
<1>1. 0 \in T
  BY DEF SumsOf
<1>2. ASSUME NEW n \in 0 .. N - 1, n \in T PROVE n + 1 \in T
  <2>1. PICK m \in 1 .. N : m = n + 1
    OBVIOUS
  <2>2. /\ f[m] = f[n] + x[m] /\ g[m] = g[n] + y[m] /\ h[m] = h[n] + z[m]
        /\ f[n] \in Int /\ g[n] \in Int
    <3>1. n \in 0 .. N - 1 /\ n \in 0 .. N
      OBVIOUS
    <3>2. f[n + 1] = f[n] + x[n + 1] /\ f[n] \in Int
      BY <3>1, SumsStep, ZenonT(30)
    <3>3. g[n + 1] = g[n] + y[n + 1] /\ g[n] \in Int
      BY <3>1, SumsStep, ZenonT(30)
    <3>4. h[n + 1] = h[n] + z[n + 1]
      BY <3>1, SumsStep, ZenonT(30)
    <3> QED
      BY <2>1, <3>2, <3>3, <3>4
  <2>3. PICK p \in Int : p = c * n /\ p + c = c * (n + 1)
    BY SMT
  <2>4. z[m] = x[m] + y[m] + c /\ x[m] \in Int /\ y[m] \in Int
    BY DEF AddsUp
  <2>5. h[n] = f[n] + g[n] + p
    BY <1>2, <2>3
  <2> HIDE DEF T
  <2>6. h[m] = f[m] + g[m] + (p + c)
    BY <2>2, <2>4, <2>5
  <2>7. h[n + 1] = f[n + 1] + g[n + 1] + c * (n + 1)
    BY <2>1, <2>3, <2>6
  <2> QED
    BY <2>1, <2>7 DEF T
<1>3. N \in T
  <2> HIDE DEF T
  <2> QED
    BY <1>1, <1>2, Induction
<1> QED
  BY <1>3

LEMMA TotalPlus ==
  ASSUME NEW N \in Nat, NEW c \in Int, NEW x \in Seq(Int), NEW y \in Seq(Int),
         NEW z \in Seq(Int), Len(x) = N, Len(y) = N, Len(z) = N, AddsUp(x, y, z, c, N)
  PROVE  Total(z) = Total(x) + Total(y) + c * N
<1>1. PICK f : SumsOf(f, x, N) /\ Total(x) = f[N]
  BY TotalSums
<1>2. PICK g : SumsOf(g, y, N) /\ Total(y) = g[N]
  BY TotalSums
<1>3. PICK h : SumsOf(h, z, N) /\ Total(z) = h[N]
  BY TotalSums
<1>4. h[N] = f[N] + g[N] + c * N
  BY <1>1, <1>2, <1>3, PlusSums
<1> QED
  BY <1>1, <1>2, <1>3, <1>4

-----------------------------------------------------------------------------
(***************************************************************************)
(* The bytes of the pages.  A cut and a join keep the sum of the sizes and *)
(* headers, and no page is given twice, so that a block is smaller than    *)
(* the address space and a cut is made only where there is room for it:    *)
(* crossed or not, which ListInv does not know.                            *)
(***************************************************************************)
Sized(bs) == [i \in DOMAIN bs |-> bs[i].size + BLOCK_HEADER_SIZE]

StatsInv ==
  /\ \A i \in DOMAIN blocks : blocks[i].size >= 0
  /\ Total(Sized(blocks)) = PAGE_SIZE * Len(given)
  /\ \A j, k \in DOMAIN given : given[j] = given[k] => j = k

LEMMA SizedTyped ==
  ASSUME NEW bs \in Seq(Block)
  PROVE  /\ Sized(bs) \in Seq(Int) /\ Len(Sized(bs)) = Len(bs) /\ Len(bs) \in Nat
         /\ DOMAIN bs = 1 .. Len(bs)
         /\ \A i \in 1 .. Len(bs) : /\ Sized(bs)[i] = bs[i].size + BLOCK_HEADER_SIZE
                                    /\ bs[i].size \in Int
<1>1. /\ DOMAIN bs = 1 .. Len(bs) /\ Len(bs) \in Nat /\ BLOCK_HEADER_SIZE \in Int
      /\ \A i \in DOMAIN bs : bs[i].size \in Int
  BY BlocksTyped, Constant
<1>2. Sized(bs) \in [1 .. Len(bs) -> Int]
  BY <1>1 DEF Sized
<1>3. ASSUME NEW n \in Nat, NEW f \in [1 .. n -> Int] PROVE f \in Seq(Int) /\ Len(f) = n
  OBVIOUS
<1>4. Sized(bs) \in Seq(Int) /\ Len(Sized(bs)) = Len(bs)
  BY <1>1, <1>2, <1>3
<1>5. \A i \in 1 .. Len(bs) : Sized(bs)[i] = bs[i].size + BLOCK_HEADER_SIZE
  BY <1>1 DEF Sized
<1> QED
  BY <1>1, <1>4, <1>5

\* A marked list, a cut one and a joined one have the bytes of the list.
LEMMA MarkedTotal ==
  ASSUME NEW bs \in Seq(Block), NEW i \in DOMAIN bs, NEW f \in BOOLEAN
  PROVE  Sized(MarkedList(bs, i, f)) = Sized(bs)
<1> DEFINE cs == MarkedList(bs, i, f)
<1>1. /\ DOMAIN cs = DOMAIN bs /\ \A j \in DOMAIN bs : j # i => cs[j] = bs[j]
      /\ cs[i].size = bs[i].size
  <2>1. DOMAIN cs = DOMAIN bs
    BY DEF MarkedList
  <2>2. \A j \in DOMAIN bs : j # i => cs[j] = bs[j]
    BY SMTT(60) DEF MarkedList
  <2>3. cs[i].size = bs[i].size
    BY MarkedApart, ZenonT(30)
  <2> QED
    BY <2>1, <2>2, <2>3
<1> HIDE DEF cs
<1>2. \A j \in DOMAIN bs : cs[j].size = bs[j].size
  BY <1>1
<1>3. Sized(cs) = Sized(bs)
  BY <1>1, <1>2 DEF Sized
<1> QED
  BY <1>3 DEF cs

LEMMA CutTotal ==
  ASSUME NEW bs \in Seq(Block), NEW i \in DOMAIN bs, size \in Nat
  PROVE  Total(Sized(CutList(bs, i))) = Total(Sized(bs))
<1> DEFINE cs == CutList(bs, i)
           N == Len(bs)
<1>1. /\ cs \in Seq(Block) /\ DOMAIN cs = 1 .. N + 1
      /\ \A j \in DOMAIN cs : cs[j] = IF j = i THEN Taken(bs[i])
                                      ELSE IF j = i + 1 THEN Rest(bs[i])
                                      ELSE IF j < i THEN bs[j] ELSE bs[j - 1]
  BY CutBlocks
<1> HIDE DEF cs
<1>2. /\ N \in Nat /\ i \in 1 .. N /\ Sized(bs) \in Seq(Int) /\ Len(Sized(bs)) = N
      /\ \A j \in 1 .. N : /\ Sized(bs)[j] = bs[j].size + BLOCK_HEADER_SIZE
                           /\ bs[j].size \in Int /\ Sized(bs)[j] \in Int
  BY SizedTyped, Constant
<1> HIDE DEF N
<1>3. /\ Sized(cs) \in Seq(Int) /\ Len(Sized(cs)) = N + 1
      /\ \A j \in 1 .. N + 1 : /\ Sized(cs)[j] = cs[j].size + BLOCK_HEADER_SIZE
                               /\ cs[j].size \in Int /\ Sized(cs)[j] \in Int
  <2>1. Len(cs) = N + 1
    BY <1>1, <1>2
  <2> QED
    BY <1>1, <2>1, SizedTyped, Constant
<1>4. SplitAt(Sized(bs), Sized(cs), N, i)
  <2>1. ASSUME NEW n \in 1 .. i - 1 PROVE Sized(cs)[n] = Sized(bs)[n]
    <3>1. n \in 1 .. N /\ n \in 1 .. N + 1 /\ n # i /\ n # i + 1 /\ n < i
      BY <1>2
    <3>2. cs[n] = bs[n]
      BY <1>1, <3>1
    <3>3. Sized(cs)[n] = cs[n].size + BLOCK_HEADER_SIZE
      BY <1>3, <3>1
    <3>4. Sized(bs)[n] = bs[n].size + BLOCK_HEADER_SIZE
      BY <1>2, <3>1
    <3> QED
      BY <3>2, <3>3, <3>4
  <2>2. Sized(cs)[i] + Sized(cs)[i + 1] = Sized(bs)[i]
    <3>1. cs[i].size = size /\ cs[i + 1].size = bs[i].size - size - BLOCK_HEADER_SIZE
      BY <1>1, <1>2 DEF Taken, Rest
    <3>2. /\ Sized(cs)[i] = size + BLOCK_HEADER_SIZE
          /\ Sized(cs)[i + 1] = bs[i].size - size - BLOCK_HEADER_SIZE + BLOCK_HEADER_SIZE
          /\ Sized(bs)[i] = bs[i].size + BLOCK_HEADER_SIZE /\ bs[i].size \in Int
      <4>1. i \in 1 .. N /\ i \in 1 .. N + 1 /\ i + 1 \in 1 .. N + 1
        BY <1>2
      <4>2. /\ Sized(cs)[i] = cs[i].size + BLOCK_HEADER_SIZE
            /\ Sized(cs)[i + 1] = cs[i + 1].size + BLOCK_HEADER_SIZE
        BY <1>3, <4>1, ZenonT(30)
      <4>3. Sized(bs)[i] = bs[i].size + BLOCK_HEADER_SIZE /\ bs[i].size \in Int
        BY <1>2, <4>1, ZenonT(30)
      <4> QED
        BY <3>1, <4>2, <4>3, Zenon
    <3>3. \A x, y, z \in Int : (x + y) + (z - x - y + y) = z + y
      OBVIOUS
    <3> QED
      BY <3>2, <3>3, Constant
  <2>3. ASSUME NEW n \in i + 1 .. N PROVE Sized(cs)[n + 1] = Sized(bs)[n]
    <3>1. n \in 1 .. N /\ n + 1 \in 1 .. N + 1 /\ n + 1 # i /\ n + 1 # i + 1
          /\ ~(n + 1 < i) /\ (n + 1) - 1 = n
      BY <1>2
    <3>2. cs[n + 1] = bs[n]
      BY <1>1, <3>1
    <3>3. Sized(cs)[n + 1] = cs[n + 1].size + BLOCK_HEADER_SIZE
      BY <1>3, <3>1
    <3>4. Sized(bs)[n] = bs[n].size + BLOCK_HEADER_SIZE
      BY <1>2, <3>1
    <3> QED
      BY <3>2, <3>3, <3>4
  <2> QED
    BY <1>2, <1>3, <2>1, <2>2, <2>3 DEF SplitAt
<1>5. Total(Sized(cs)) = Total(Sized(bs))
  BY <1>2, <1>3, <1>4, TotalSplit
<1> QED
  BY <1>5 DEF cs

LEMMA JoinedTotal ==
  ASSUME NEW bs \in Seq(Block), NEW i \in DOMAIN bs, i + 1 \in DOMAIN bs
  PROVE  Total(Sized(JoinedList(bs, i))) = Total(Sized(bs))
<1> DEFINE cs == JoinedList(bs, i)
           N == Len(bs) - 1
<1>1. /\ cs \in Seq(Block) /\ DOMAIN cs = 1 .. N
      /\ \A j \in DOMAIN cs : cs[j] = IF j = i THEN Join(bs[i], bs[i + 1])
                                      ELSE IF j < i THEN bs[j] ELSE bs[j + 1]
  BY JoinedBlocks
<1> HIDE DEF cs
<1>2. /\ N \in Nat /\ i \in 1 .. N /\ Sized(bs) \in Seq(Int) /\ Len(Sized(bs)) = N + 1
      /\ \A j \in 1 .. N + 1 : /\ Sized(bs)[j] = bs[j].size + BLOCK_HEADER_SIZE
                               /\ bs[j].size \in Int /\ Sized(bs)[j] \in Int
  <2>1. Len(bs) \in Nat /\ i \in 1 .. Len(bs) /\ i + 1 \in 1 .. Len(bs)
    BY BlocksTyped
  <2>2. N \in Nat /\ i \in 1 .. N /\ N + 1 = Len(bs)
    BY <2>1
  <2> QED
    BY <2>2, SizedTyped, Constant
<1> HIDE DEF N
<1>3. /\ Sized(cs) \in Seq(Int) /\ Len(Sized(cs)) = N
      /\ \A j \in 1 .. N : /\ Sized(cs)[j] = cs[j].size + BLOCK_HEADER_SIZE
                           /\ cs[j].size \in Int /\ Sized(cs)[j] \in Int
  <2>1. Len(cs) = N
    BY <1>1, <1>2
  <2> QED
    BY <1>1, <2>1, SizedTyped, Constant, SMTT(60)
<1>4. SplitAt(Sized(cs), Sized(bs), N, i)
  <2>1. ASSUME NEW n \in 1 .. i - 1 PROVE Sized(bs)[n] = Sized(cs)[n]
    <3>1. n \in 1 .. N /\ n \in 1 .. N + 1 /\ n # i /\ n < i
      BY <1>2, SMTT(60)
    <3>2. cs[n] = bs[n]
      BY <1>1, <3>1
    <3>3. Sized(cs)[n] = cs[n].size + BLOCK_HEADER_SIZE
      BY <1>3, <3>1
    <3>4. Sized(bs)[n] = bs[n].size + BLOCK_HEADER_SIZE
      BY <1>2, <3>1
    <3> QED
      BY <3>2, <3>3, <3>4
  <2>2. Sized(bs)[i] + Sized(bs)[i + 1] = Sized(cs)[i]
    <3>1. cs[i].size = bs[i].size + BLOCK_HEADER_SIZE + bs[i + 1].size
      BY <1>1, <1>2 DEF Join
    <3>2. /\ Sized(cs)[i] = bs[i].size + BLOCK_HEADER_SIZE + bs[i + 1].size
                              + BLOCK_HEADER_SIZE
          /\ Sized(bs)[i] = bs[i].size + BLOCK_HEADER_SIZE /\ bs[i].size \in Int
          /\ Sized(bs)[i + 1] = bs[i + 1].size + BLOCK_HEADER_SIZE /\ bs[i + 1].size \in Int
      <4>1. i \in 1 .. N /\ i \in 1 .. N + 1 /\ i + 1 \in 1 .. N + 1
        BY <1>2
      <4>2. Sized(cs)[i] = cs[i].size + BLOCK_HEADER_SIZE
        BY <1>3, <4>1, ZenonT(30)
      <4>3. /\ Sized(bs)[i] = bs[i].size + BLOCK_HEADER_SIZE /\ bs[i].size \in Int
            /\ Sized(bs)[i + 1] = bs[i + 1].size + BLOCK_HEADER_SIZE /\ bs[i + 1].size \in Int
        BY <1>2, <4>1, ZenonT(30)
      <4> QED
        BY <3>1, <4>2, <4>3, Zenon
    <3>3. \A x, y, z \in Int : (x + y) + (z + y) = x + y + z + y
      OBVIOUS
    <3> QED
      BY <3>2, <3>3, Constant
  <2>3. ASSUME NEW n \in i + 1 .. N PROVE Sized(bs)[n + 1] = Sized(cs)[n]
    <3>1. n \in 1 .. N /\ n + 1 \in 1 .. N + 1 /\ n # i /\ ~(n < i)
      BY <1>2
    <3>2. cs[n] = bs[n + 1]
      BY <1>1, <3>1
    <3>3. Sized(cs)[n] = cs[n].size + BLOCK_HEADER_SIZE
      BY <1>3, <3>1
    <3>4. Sized(bs)[n + 1] = bs[n + 1].size + BLOCK_HEADER_SIZE
      BY <1>2, <3>1
    <3> QED
      BY <3>2, <3>3, <3>4
  <2> QED
    BY <1>2, <1>3, <2>1, <2>2, <2>3 DEF SplitAt
<1>5. Total(Sized(bs)) = Total(Sized(cs))
  BY <1>2, <1>3, <1>4, TotalSplit
<1> QED
  BY <1>5 DEF cs

LEMMA GrownTotal ==
  ASSUME NEW bs \in Seq(Block), NEW p \in Pages
  PROVE  Total(Sized(Append(bs, PageBlock(p)))) = Total(Sized(bs)) + PAGE_SIZE
<1> DEFINE c == PageBlock(p)
           cs == Append(bs, c)
           N == Len(bs)
<1>1. c \in Block /\ c.size + BLOCK_HEADER_SIZE = PAGE_SIZE
  <2>1. p \in Nat /\ PAGE_SIZE \in Nat /\ BLOCK_HEADER_SIZE \in Nat
    BY Constant
  <2>2. p * PAGE_SIZE \in Nat
    BY <2>1, SMT
  <2> QED
    BY <2>1, <2>2 DEF PageBlock, Block
<1> HIDE DEF c
<1>2. /\ N \in Nat /\ cs \in Seq(Block) /\ Len(cs) = N + 1 /\ cs[N + 1] = c
      /\ \A j \in 1 .. N : cs[j] = bs[j]
  BY <1>1
<1> HIDE DEF cs
<1>3. /\ Sized(bs) \in Seq(Int) /\ Len(Sized(bs)) = N
      /\ \A j \in 1 .. N : Sized(bs)[j] = bs[j].size + BLOCK_HEADER_SIZE
  BY SizedTyped
<1>4. /\ Sized(cs) \in Seq(Int) /\ Len(Sized(cs)) = N + 1
      /\ \A j \in 1 .. N + 1 : Sized(cs)[j] = cs[j].size + BLOCK_HEADER_SIZE
  BY <1>2, SizedTyped
<1> HIDE DEF N
<1>5. Sized(cs) = Append(Sized(bs), PAGE_SIZE)
  <2> DEFINE w == Append(Sized(bs), PAGE_SIZE)
  <2>1. /\ w \in Seq(Int) /\ Len(w) = N + 1 /\ w[N + 1] = PAGE_SIZE
        /\ \A j \in 1 .. N : w[j] = Sized(bs)[j]
    BY <1>2, <1>3, Constant
  <2> HIDE DEF w
  <2>2. ASSUME NEW j \in 1 .. N + 1 PROVE Sized(cs)[j] = w[j]
    <3>1. CASE j = N + 1
      BY <1>1, <1>2, <1>4, <2>1, <3>1
    <3>2. CASE j # N + 1
      <4>1. j \in 1 .. N
        BY <1>2, <3>2
      <4> QED
        BY <1>2, <1>3, <1>4, <2>1, <4>1
    <3> QED
      BY <3>1, <3>2
  <2>3. ASSUME NEW x \in Seq(Int), NEW y \in Seq(Int), Len(x) = Len(y),
               \A j \in 1 .. Len(x) : x[j] = y[j]
        PROVE  x = y
    <3>1. \A s \in Seq(Int) : s = [j \in 1 .. Len(s) |-> s[j]]
      OBVIOUS
    <3>2. x = [j \in 1 .. Len(x) |-> x[j]] /\ y = [j \in 1 .. Len(y) |-> y[j]]
      BY <3>1
    <3>3. [j \in 1 .. Len(x) |-> x[j]] = [j \in 1 .. Len(y) |-> y[j]]
      BY <2>3
    <3> QED
      BY <3>2, <3>3
  <2>4. Sized(cs) = w
    BY <1>4, <2>1, <2>2, <2>3
  <2> QED
    BY <2>4 DEF w
<1>6. Total(Sized(cs)) = Total(Sized(bs)) + PAGE_SIZE
  BY <1>3, <1>5, TotalAppended, Constant
<1> QED
  BY <1>6 DEF cs, c

\* No page is given twice, and none ends beyond the address space.
LEMMA PagesBound ==
  ASSUME HeapTypes, StatsInv
  PROVE  PAGE_SIZE * Len(given) \in Nat /\ PAGE_SIZE * Len(given) + PAGE_SIZE <= 2^Bits
<1> DEFINE q == 2^Bits \div PAGE_SIZE
           n == Len(given)
<1>1. /\ PAGE_SIZE \in Nat \ {0} /\ 2^Bits \in Nat /\ PAGE_SIZE < 2^Bits
      /\ given \in Seq(Pages) /\ n \in Nat /\ DOMAIN given = 1 .. n
      /\ \A j \in 1 .. n : given[j] \in Pages
  BY Constant DEF HeapTypes
<1>2. ASSUME NEW m \in Nat, NEW P \in Nat \ {0}
      PROVE  m \div P \in Nat /\ P * (m \div P) <= m /\ m < P * (m \div P) + P
  BY SMTT(30)
<1>3. q \in Nat /\ PAGE_SIZE * q <= 2^Bits /\ 2^Bits < PAGE_SIZE * q + PAGE_SIZE
  BY <1>1, <1>2
<1> HIDE DEF q, n
<1>4. ASSUME NEW p \in Pages PROVE p \in 1 .. q - 1
  <2>1. p \in Nat \ {0} /\ (p + 1) * PAGE_SIZE <= 2^Bits
    BY Constant
  <2>2. ASSUME NEW a \in Nat, NEW P \in Nat \ {0}, NEW b \in Nat, NEW m \in Nat,
               a * P <= m, m < P * b + P
        PROVE  a <= b
    <3>1. CASE a >= b + 1
      <4>1. a * P >= (b + 1) * P /\ (b + 1) * P = P * b + P /\ a * P \in Nat /\ P * b \in Nat
        BY SMTT(30), <3>1
      <4> QED
        BY <2>2, <4>1
    <3> QED
      BY <3>1
  <2>3. p + 1 \in Nat /\ p + 1 <= q
    BY <1>1, <1>3, <2>1, <2>2
  <2> QED
    BY <1>3, <2>1, <2>3
<1>5. n <= q - 1 \/ n = 0
  <2>1. CASE q >= 1
    <3>1. given \in [1 .. n -> 1 .. q - 1]
      BY <1>1, <1>4
    <3>2. given \in Injection(1 .. n, 1 .. q - 1)
      BY <1>1, <3>1 DEF Injection, IsInjective, StatsInv
    <3>3. IsFiniteSet(1 .. q - 1) /\ Cardinality(1 .. q - 1) = q - 1
      BY <1>3, <2>1, FS_Interval
    <3>4. Cardinality(1 .. n) = n
      BY <1>1, FS_Interval
    <3>5. Cardinality(1 .. n) <= Cardinality(1 .. q - 1)
      BY <3>2, <3>3, FS_Injection
    <3> QED
      BY <3>3, <3>4, <3>5
  <2>2. CASE q = 0
    BY <1>1, <1>3, <2>2
  <2> QED
    BY <1>3, <2>1, <2>2
<1>6. PAGE_SIZE * n \in Nat /\ PAGE_SIZE * n + PAGE_SIZE <= 2^Bits
  <2>1. ASSUME NEW a \in Nat, NEW b \in Nat, NEW P \in Nat, a <= b - 1
        PROVE  P * a \in Nat /\ P * a + P <= P * b /\ P * b \in Nat
    <3>1. P * (b - 1) >= P * a /\ P * (b - 1) + P = P * b
      BY SMTT(30), <2>1
    <3>2. P * a \in Nat /\ P * b \in Nat /\ P * (b - 1) \in Int
      BY SMTT(30)
    <3> QED
      BY <3>1, <3>2
  <2>2. CASE n <= q - 1
    <3>1. PAGE_SIZE * n \in Nat /\ PAGE_SIZE * n + PAGE_SIZE <= PAGE_SIZE * q
          /\ PAGE_SIZE * q \in Nat
      BY <1>1, <1>3, <2>1, <2>2
    <3> QED
      BY <1>1, <1>3, <3>1
  <2>3. CASE n = 0
    <3>1. PAGE_SIZE * n = 0
      BY <1>1, <2>3, SMT
    <3> QED
      BY <1>1, <3>1
  <2> QED
    BY <1>5, <2>2, <2>3
<1> QED
  BY <1>6 DEF n

\* Every block is smaller than the address space by a page: malloc's sum does not wrap.
LEMMA CutHasRoom ==
  ASSUME HeapTypes, StatsInv, NEW i \in DOMAIN blocks, Fits(blocks[i]), Splits(blocks[i])
  PROVE  blocks[i].size - size - BLOCK_HEADER_SIZE >= 0
<1> DEFINE sum == size + BLOCK_HEADER_SIZE + ALIGN_SIZE
           m == 2^Bits
           b == blocks[i]
<1>1. /\ blocks \in Seq(Block) /\ i \in 1 .. Len(blocks) /\ size \in Nat
      /\ \A j \in 1 .. Len(blocks) : blocks[j].size >= 0
      /\ b.size >= size
  BY ListFacts DEF HeapTypes, StatsInv, Fits
<1>2. /\ Sized(blocks) \in Seq(Int) /\ Len(Sized(blocks)) = Len(blocks)
      /\ \A j \in 1 .. Len(blocks) : /\ Sized(blocks)[j] = blocks[j].size + BLOCK_HEADER_SIZE
                                     /\ blocks[j].size \in Int
  BY <1>1, SizedTyped
<1>3. /\ m \in Nat /\ PAGE_SIZE \in Nat /\ BLOCK_HEADER_SIZE \in Nat /\ ALIGN_SIZE \in Nat
      /\ PAGE_SIZE > BLOCK_HEADER_SIZE + ALIGN_SIZE
  BY Constant
<1>4. ASSUME NEW j \in 1 .. Len(blocks) PROVE Sized(blocks)[j] >= 0
  <2>1. blocks[j].size \in Int /\ blocks[j].size >= 0
        /\ Sized(blocks)[j] = blocks[j].size + BLOCK_HEADER_SIZE
    BY <1>1, <1>2, ZenonT(30)
  <2> QED
    BY <1>3, <2>1
<1>5. Sized(blocks)[i] <= Total(Sized(blocks))
  BY <1>1, <1>2, <1>4, TotalBound
<1>6. b.size \in Int /\ b.size + BLOCK_HEADER_SIZE <= PAGE_SIZE * Len(given)
  BY <1>1, <1>2, <1>5 DEF StatsInv
<1>7. PAGE_SIZE * Len(given) \in Nat /\ PAGE_SIZE * Len(given) + PAGE_SIZE <= m
  BY PagesBound
<1> HIDE DEF m, b
<1>8. sum \in Nat /\ sum < m
  BY <1>1, <1>3, <1>6, <1>7
<1> HIDE DEF sum
<1>9. sum % m = sum
  <2>1. m \in Nat \ {0} /\ sum \in 0 .. m - 1
    BY <1>3, <1>8
  <2> QED
    BY <2>1, SMT
<1>10. b.size >= sum
  BY <1>9 DEF Splits, sum, m, b
<1> QED
  BY <1>1, <1>3, <1>6, <1>10 DEF sum, b

LEMMA StatsInit == Init => StatsInv
<1> SUFFICES ASSUME Init PROVE StatsInv
  OBVIOUS
<1>1. blocks = <<>> /\ given = <<>> /\ DOMAIN blocks = {} /\ DOMAIN given = {}
      /\ Len(given) = 0
  BY DEF Init
<1>2. Sized(blocks) = <<>>
  BY <1>1 DEF Sized
<1>3. PAGE_SIZE * Len(given) = 0
  BY <1>1, Constant, SMT
<1> QED
  BY <1>1, <1>2, <1>3, TotalEmpty DEF StatsInv

\* The new list and pages, as StatsInv says it of the next state.
LEMMA StatsNext ==
  ASSUME \A i \in DOMAIN blocks' : blocks'[i].size >= 0,
         Total(Sized(blocks')) = PAGE_SIZE * Len(given'),
         \A j, k \in DOMAIN given' : given'[j] = given'[k] => j = k
  PROVE  StatsInv'
BY DEF StatsInv, Sized, Total

LEMMA StatsQuiet == StatsInv /\ UNCHANGED <<blocks, given>> => StatsInv'
BY StatsNext DEF StatsInv

LEMMA TakeBlockStats == HeapTypes /\ StatsInv /\ TakeBlock => StatsInv'
<1> SUFFICES ASSUME HeapTypes, StatsInv, TakeBlock PROVE StatsInv'
  OBVIOUS
<1>1. given' = given
  BY DEF TakeBlock
<1>2. PICK i \in DOMAIN blocks :
        /\ FirstFit(i)
        /\ \/ /\ Splits(blocks[i])
              /\ blocks' = InsertAt([blocks EXCEPT ![i].free = FALSE, ![i].size = size],
                                    i + 1, Rest(blocks[i]))
           \/ /\ ~Splits(blocks[i])
              /\ blocks' = [blocks EXCEPT ![i].free = FALSE]
  BY ZenonT(30) DEF TakeBlock
<1>3. /\ blocks \in Seq(Block) /\ size \in Nat /\ Fits(blocks[i])
      /\ \A j \in DOMAIN blocks : blocks[j].size >= 0
      /\ DOMAIN blocks = 1 .. Len(blocks) /\ Len(blocks) \in Nat
  BY <1>2, ListFacts DEF HeapTypes, StatsInv, FirstFit
<1>4. /\ Total(Sized(blocks')) = Total(Sized(blocks))
      /\ \A j \in DOMAIN blocks' : blocks'[j].size >= 0
  <2>1. CASE Splits(blocks[i]) /\ blocks' = CutList(blocks, i)
    <3>1. Total(Sized(CutList(blocks, i))) = Total(Sized(blocks))
      BY <1>3, CutTotal
    <3>2. /\ DOMAIN blocks' = 1 .. Len(blocks) + 1
          /\ \A j \in DOMAIN blocks' :
               blocks'[j] = IF j = i THEN Taken(blocks[i])
                            ELSE IF j = i + 1 THEN Rest(blocks[i])
                            ELSE IF j < i THEN blocks[j] ELSE blocks[j - 1]
      BY <1>3, <2>1, CutBlocks
    <3>3. Rest(blocks[i]).size >= 0 /\ Taken(blocks[i]).size >= 0
      <4>1. blocks[i].size - size - BLOCK_HEADER_SIZE >= 0
        BY <1>3, <2>1, CutHasRoom
      <4> QED
        BY <1>3, <4>1 DEF Rest, Taken
    <3>4. ASSUME NEW j \in DOMAIN blocks' PROVE blocks'[j].size >= 0
      <4>1. CASE j = i \/ j = i + 1
        BY <3>2, <3>3, <4>1
      <4>2. CASE j # i /\ j # i + 1
        <5>1. CASE j < i
          <6>1. j \in DOMAIN blocks /\ blocks'[j] = blocks[j]
            BY <1>3, <3>2, <4>2, <5>1
          <6> QED
            BY <1>3, <6>1
        <5>2. CASE ~(j < i)
          <6>1. j - 1 \in DOMAIN blocks /\ blocks'[j] = blocks[j - 1]
            BY <1>3, <3>2, <4>2, <5>2
          <6> QED
            BY <1>3, <6>1
        <5> QED
          BY <5>1, <5>2
      <4> QED
        BY <4>1, <4>2
    <3> QED
      BY <2>1, <3>1, <3>4
  <2>2. CASE blocks' = MarkedList(blocks, i, FALSE)
    <3>1. Sized(blocks') = Sized(blocks)
      <4>1. FALSE \in BOOLEAN
        OBVIOUS
      <4> QED
        BY <1>3, <2>2, <4>1, MarkedTotal, ZenonT(30)
    <3>2. \A j \in DOMAIN blocks' : blocks'[j].size >= 0
      BY <1>3, <2>2 DEF MarkedList
    <3> QED
      BY <3>1, <3>2
  <2> QED
    BY <1>2, <2>1, <2>2 DEF CutList, MarkedList
<1> QED
  BY <1>1, <1>4, StatsNext DEF StatsInv

LEMMA FreeStats == HeapTypes /\ StatsInv /\ Free => StatsInv'
<1> SUFFICES ASSUME HeapTypes, StatsInv, Free PROVE StatsInv'
  OBVIOUS
<1>1. given' = given
  BY DEF Free
<1>2. PICK i \in DOMAIN blocks :
        \/ /\ NextIsFree(i)
           /\ blocks' = RemoveAt([blocks EXCEPT ![i] = Join(@, blocks[i + 1])], i + 1)
        \/ /\ ~NextIsFree(i)
           /\ blocks' = [blocks EXCEPT ![i].free = TRUE]
  BY ZenonT(30) DEF Free
<1>3. /\ blocks \in Seq(Block) /\ \A j \in DOMAIN blocks : blocks[j].size >= 0
      /\ DOMAIN blocks = 1 .. Len(blocks) /\ Len(blocks) \in Nat
  BY ListFacts DEF StatsInv
<1>4. /\ Total(Sized(blocks')) = Total(Sized(blocks))
      /\ \A j \in DOMAIN blocks' : blocks'[j].size >= 0
  <2>1. CASE NextIsFree(i) /\ blocks' = JoinedList(blocks, i)
    <3>1. i \in 1 .. Len(blocks) - 1 /\ i + 1 \in DOMAIN blocks
      BY <1>3, <2>1 DEF NextIsFree
    <3>2. Total(Sized(JoinedList(blocks, i))) = Total(Sized(blocks))
      BY <1>3, <3>1, JoinedTotal
    <3>3. /\ DOMAIN blocks' = 1 .. Len(blocks) - 1
          /\ \A j \in DOMAIN blocks' :
               blocks'[j] = IF j = i THEN Join(blocks[i], blocks[i + 1])
                            ELSE IF j < i THEN blocks[j] ELSE blocks[j + 1]
      BY <1>3, <2>1, <3>1, JoinedBlocks
    <3>4. Join(blocks[i], blocks[i + 1]).size >= 0
      <4>1. blocks[i].size \in Nat /\ blocks[i + 1].size \in Nat
        <5>1. blocks[i].size \in Int /\ blocks[i].size >= 0
          BY <1>3, BlocksTyped
        <5>2. blocks[i + 1].size \in Int /\ blocks[i + 1].size >= 0
          BY <1>3, <3>1, BlocksTyped
        <5> QED
          BY <5>1, <5>2
      <4> QED
        BY <4>1, Constant DEF Join
    <3>5. ASSUME NEW j \in DOMAIN blocks' PROVE blocks'[j].size >= 0
      <4>1. CASE j = i
        BY <3>3, <3>4, <4>1
      <4>2. CASE j # i
        <5>1. j \in DOMAIN blocks /\ j + 1 \in DOMAIN blocks
          BY <1>3, <3>3
        <5> QED
          BY <1>3, <3>3, <4>2, <5>1
      <4> QED
        BY <4>1, <4>2
    <3> QED
      BY <2>1, <3>2, <3>5
  <2>2. CASE blocks' = MarkedList(blocks, i, TRUE)
    <3>1. Sized(blocks') = Sized(blocks)
      <4>1. TRUE \in BOOLEAN
        OBVIOUS
      <4> QED
        BY <1>3, <2>2, <4>1, MarkedTotal, ZenonT(30)
    <3>2. \A j \in DOMAIN blocks' : blocks'[j].size >= 0
      BY <1>3, <2>2 DEF MarkedList
    <3> QED
      BY <3>1, <3>2
  <2> QED
    BY <1>2, <2>1, <2>2 DEF JoinedList, MarkedList
<1> QED
  BY <1>1, <1>4, StatsNext DEF StatsInv

LEMMA ExpandStats == HeapTypes /\ StatsInv /\ Expand => StatsInv'
<1> SUFFICES ASSUME HeapTypes, StatsInv, Expand PROVE StatsInv'
  OBVIOUS
<1>1. CASE UNCHANGED <<blocks, given>>
  BY <1>1, StatsQuiet
<1>2. ASSUME NEW p \in available, given' = Append(given, p),
             blocks' = Append(blocks, PageBlock(p))
      PROVE  StatsInv'
  <2>1. /\ blocks \in Seq(Block) /\ given \in Seq(Pages) /\ p \in Pages
        /\ p \notin Range(given) /\ \A j \in DOMAIN blocks : blocks[j].size >= 0
        /\ \A j, k \in DOMAIN given : given[j] = given[k] => j = k
    BY DEF HeapTypes, StatsInv
  <2>2. Total(Sized(blocks')) = PAGE_SIZE * Len(given')
    <3>1. Len(given) \in Nat /\ Len(given') = Len(given) + 1
      BY <1>2, <2>1
    <3>2. PAGE_SIZE * (Len(given) + 1) = PAGE_SIZE * Len(given) + PAGE_SIZE
      BY <3>1, Constant, SMTT(30)
    <3>3. Total(Sized(blocks')) = Total(Sized(blocks)) + PAGE_SIZE
      BY <1>2, <2>1, GrownTotal
    <3> QED
      BY <3>1, <3>2, <3>3 DEF StatsInv
  <2>3. PageBlock(p).size >= 0
    BY Constant DEF PageBlock
  <2>4. \A i \in DOMAIN blocks' : blocks'[i].size >= 0
    <3>1. /\ \A j \in DOMAIN blocks : blocks'[j] = blocks[j]
          /\ DOMAIN blocks' = DOMAIN blocks \cup {Len(blocks) + 1}
          /\ blocks'[Len(blocks) + 1] = PageBlock(p)
      BY <1>2, <2>1
    <3> QED
      BY <2>1, <2>3, <3>1
  <2>5. \A j, k \in DOMAIN given' : given'[j] = given'[k] => j = k
    <3>1. /\ \A j \in DOMAIN given : given'[j] = given[j]
          /\ DOMAIN given' = DOMAIN given \cup {Len(given) + 1}
          /\ given'[Len(given) + 1] = p
      BY <1>2, <2>1
    <3>2. \A j \in DOMAIN given : given[j] # p
      BY <2>1 DEF Range
    <3> QED
      BY <2>1, <3>1, <3>2
  <2> QED
    BY <2>2, <2>4, <2>5, StatsNext
<1> QED
  BY <1>1, <1>2, ZenonT(30) DEF Expand

LEMMA StatsStep == HeapTypes /\ StatsInv /\ [Next]_vars => StatsInv'
<1> SUFFICES ASSUME HeapTypes, StatsInv, [Next]_vars PROVE StatsInv'
  OBVIOUS
<1>1. CASE Malloc
  BY <1>1, StatsQuiet DEF Malloc
<1>2. CASE TakeBlock
  BY <1>2, TakeBlockStats
<1>3. CASE NothingFits
  BY <1>3, StatsQuiet DEF NothingFits
<1>4. CASE Expand
  BY <1>4, ExpandStats
<1>5. CASE Free
  BY <1>5, FreeStats
<1>6. CASE OthersTake
  BY <1>6, StatsQuiet DEF OthersTake
<1>7. CASE OthersGive
  BY <1>7, StatsQuiet DEF OthersGive
<1>8. CASE UNCHANGED vars
  BY <1>8, StatsQuiet DEF vars
<1> QED
  BY <1>1, <1>2, <1>3, <1>4, <1>5, <1>6, <1>7, <1>8 DEF Next, Steps

\* What heap_stats adds up, of the used and of the free blocks, with their headers.
LEMMA KindsAddUp ==
  ASSUME HeapTypes
  PROVE  Stats(TRUE) + Stats(FALSE) + BLOCK_HEADER_SIZE * Len(blocks) = Total(Sized(blocks))
<1> DEFINE N == Len(blocks)
           fr == [i \in DOMAIN blocks |->
                    IF blocks[i].free = TRUE THEN blocks[i].size ELSE 0]
           us == [i \in DOMAIN blocks |->
                    IF blocks[i].free = FALSE THEN blocks[i].size ELSE 0]
<1>1. /\ blocks \in Seq(Block) /\ DOMAIN blocks = 1 .. N /\ N \in Nat
      /\ Sized(blocks) \in Seq(Int) /\ Len(Sized(blocks)) = N
      /\ \A i \in 1 .. N : /\ Sized(blocks)[i] = blocks[i].size + BLOCK_HEADER_SIZE
                           /\ blocks[i].size \in Int
  BY ListFacts, SizedTyped
<1>2. \A i \in 1 .. N : blocks[i].free = TRUE \/ blocks[i].free = FALSE
  BY <1>1, ListFacts DEF Block
<1>3. ASSUME NEW n \in Nat, NEW f \in [1 .. n -> Int] PROVE f \in Seq(Int) /\ Len(f) = n
  OBVIOUS
<1>4. fr \in Seq(Int) /\ Len(fr) = N
      /\ \A i \in 1 .. N : fr[i] = IF blocks[i].free = TRUE THEN blocks[i].size ELSE 0
  BY <1>1, <1>3
<1>5. us \in Seq(Int) /\ Len(us) = N
      /\ \A i \in 1 .. N : us[i] = IF blocks[i].free = FALSE THEN blocks[i].size ELSE 0
  BY <1>1, <1>3
<1>6. Stats(TRUE) = Total(fr) /\ Stats(FALSE) = Total(us)
  BY DEF Stats
<1>7. /\ 0 \in Int
      /\ \A x \in Int : /\ x + BLOCK_HEADER_SIZE = x + 0 + BLOCK_HEADER_SIZE
                        /\ x + BLOCK_HEADER_SIZE = 0 + x + BLOCK_HEADER_SIZE
  BY Constant
<1> HIDE DEF fr, us, N
<1>8. AddsUp(fr, us, Sized(blocks), BLOCK_HEADER_SIZE, N)
  <2>1. ASSUME NEW i \in 1 .. N
        PROVE  /\ fr[i] \in Int /\ us[i] \in Int
               /\ Sized(blocks)[i] = fr[i] + us[i] + BLOCK_HEADER_SIZE
    <3>1. CASE blocks[i].free = TRUE
      <4>1. fr[i] = blocks[i].size /\ us[i] = 0
        BY <1>4, <1>5, <3>1, ZenonT(30)
      <4>2. blocks[i].size \in Int /\ Sized(blocks)[i] = blocks[i].size + BLOCK_HEADER_SIZE
        BY <1>1
      <4> QED
        BY <1>7, <4>1, <4>2, Zenon
    <3>2. CASE blocks[i].free = FALSE
      <4>1. fr[i] = 0 /\ us[i] = blocks[i].size
        BY <1>4, <1>5, <3>2, ZenonT(30)
      <4>2. blocks[i].size \in Int /\ Sized(blocks)[i] = blocks[i].size + BLOCK_HEADER_SIZE
        BY <1>1
      <4> QED
        BY <1>7, <4>1, <4>2, Zenon
    <3> QED
      BY <1>2, <3>1, <3>2
  <2> QED
    BY <2>1 DEF AddsUp
<1>9. Total(Sized(blocks)) = Total(fr) + Total(us) + BLOCK_HEADER_SIZE * N
  <2>1. BLOCK_HEADER_SIZE \in Int
    BY Constant
  <2> QED
    BY <1>1, <1>4, <1>5, <1>8, <2>1, TotalPlus
<1> QED
  BY <1>6, <1>9 DEF N

\* Whatever the sizes, the pages and the order in which other programs take and give them,
\* and whether or not a join crosses their memory: the used and the free bytes of
\* heap_stats and the headers are the bytes of the pages the heap was given, and no size,
\* from which malloc subtracts, goes below zero.
THEOREM StatsAlwaysAddUp == Spec => []StatsAddUp
<1>1. Init => HeapTypes /\ ListInv /\ StatsInv
  BY HeapInit, StatsInit
<1>2. HeapTypes /\ ListInv /\ StatsInv /\ [Next]_vars => HeapTypes' /\ ListInv' /\ StatsInv'
  BY HeapStep, StatsStep
<1>3. HeapTypes /\ StatsInv => StatsAddUp
  BY KindsAddUp DEF StatsAddUp, StatsInv
<1>4. Spec => [](HeapTypes /\ ListInv /\ StatsInv)
  BY <1>1, <1>2, PTL DEF Spec
<1> QED
  BY <1>3, <1>4, PTL
=============================================================================
