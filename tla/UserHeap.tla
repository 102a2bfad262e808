------------------------------- MODULE UserHeap -------------------------------
(***************************************************************************)
(* The heap of a ring-3 program (lib/heap.c): malloc and free on a list of *)
(* blocks that grows by pages of SYSCALL_ALLOC_PAGE.                       *)
(*                                                                         *)
(* The list is a sequence of blocks in list order, which is not the order  *)
(* of their addresses when other programs take and free pages meanwhile.   *)
(* malloc calls itself after each page: the search is an action and the    *)
(* page another, and other programs run in between.  Sizes are size_t,     *)
(* numbers of Bits bits; addresses are bytes.  The two statistics counters *)
(* are left out, and so is memory: a header is read as it was written.     *)
(* That holds while programs write only to the bytes of their blocks and   *)
(* no join has crossed memory that is not the heap's (crossed); after one, *)
(* as long as the owner of that memory has not written over a header.      *)
(***************************************************************************)
EXTENDS Integers, Sequences, FiniteSets, SequencesExt

CONSTANTS
  PAGE_SIZE,          \* bytes of a page (4096)
  BLOCK_HEADER_SIZE,  \* bytes of a block_header_t (12)
  ALIGN_SIZE,         \* 8
  Bits,               \* bits of a size_t (32)
  Pages,              \* the page numbers of the machine
  Sizes,              \* the sizes the program asks for
  MAX_LIVE,           \* how many objects it holds at once
  MAX_MALLOCS         \* how often it calls malloc

ASSUME UserHeapAssumption ==
  /\ PAGE_SIZE \in Nat /\ {BLOCK_HEADER_SIZE, ALIGN_SIZE} \subseteq Nat \ {0}
  /\ PAGE_SIZE > BLOCK_HEADER_SIZE + ALIGN_SIZE
  /\ Bits \in Nat /\ PAGE_SIZE < 2^Bits
  /\ Pages \subseteq Nat \ {0} /\ \A p \in Pages : (p + 1) * PAGE_SIZE <= 2^Bits
  /\ Sizes \subseteq 1 .. 2^Bits - 1 /\ MAX_LIVE \in Nat
  /\ MAX_MALLOCS \in Nat

VARIABLES
  blocks,    \* the list from heap_start on
  pc, size,  \* the malloc in progress: its next step and its aligned size
  \* history: the size it was asked for, and whether it was given a page
  asked, took,
  available, \* the pages the kernel can give
  given,     \* the pages it gave, in order
  \* history: the objects held, address |-> size asked for; how many mallocs there were
  live, mallocs,
  crossed    \* history: free has joined two blocks that do not touch in memory

callVars == <<pc, size, asked, took>>
vars     == <<blocks, callVars, available, given, live, mallocs, crossed>>

-----------------------------------------------------------------------------
(***************************************************************************)
(* The expressions of the code that decide and update.  A name that ends   *)
(* in a slip is the bug whose absence the properties below depend on; no   *)
(* action uses it.                                                         *)
(***************************************************************************)
AlignSize(n) ==
  LET sum == (n + ALIGN_SIZE - 1) % 2^Bits IN sum - (sum % ALIGN_SIZE)

FitsSplit(b) == b.free /\ b.size >= size + BLOCK_HEADER_SIZE + ALIGN_SIZE
Fits(b)      == b.free /\ b.size >= size

Splits(b) == b.size >= (size + BLOCK_HEADER_SIZE + ALIGN_SIZE) % 2^Bits

\* The block malloc cuts off, and the block two neighbours become.
RestAtData(b)  == [addr |-> b.addr + size, free |-> TRUE,
                   size |-> b.size - size - BLOCK_HEADER_SIZE]
Rest(b)        == [addr |-> b.addr + BLOCK_HEADER_SIZE + size, free |-> TRUE,
                   size |-> b.size - size - BLOCK_HEADER_SIZE]
JoinBare(b, c) == [addr |-> b.addr, free |-> TRUE, size |-> b.size + c.size]
Join(b, c)     == [addr |-> b.addr, free |-> TRUE,
                   size |-> b.size + BLOCK_HEADER_SIZE + c.size]

PageBlock(p) == [addr |-> p * PAGE_SIZE, free |-> TRUE,
                 size |-> PAGE_SIZE - BLOCK_HEADER_SIZE]
Data(b)      == b.addr + BLOCK_HEADER_SIZE
Touch(b, c)  == Data(b) + b.size = c.addr

NextIsFree(i) == i < Len(blocks) /\ blocks[i + 1].free

\* The index of the block first fit finds.
FirstFit(i) == Fits(blocks[i]) /\ \A j \in 1 .. i - 1 : ~Fits(blocks[j])

-----------------------------------------------------------------------------
Init ==
  /\ blocks = <<>>
  /\ pc = "idle" /\ size = 0 /\ asked = 0 /\ took = FALSE
  /\ available = Pages /\ given = <<>>
  /\ live = <<>> /\ mallocs = 0 /\ crossed = FALSE

\* malloc(n), n > 0, is called.
Malloc ==
  /\ pc = "idle" /\ mallocs < MAX_MALLOCS /\ Cardinality(DOMAIN live) < MAX_LIVE
  /\ \E n \in Sizes : asked' = n /\ size' = AlignSize(n)
  /\ pc' = "search" /\ mallocs' = mallocs + 1
  /\ UNCHANGED <<blocks, took, available, given, live, crossed>>

\* It returns, an object or 0.
Return == pc' = "idle" /\ size' = 0 /\ asked' = 0 /\ took' = FALSE

Hand(b) == live' = [a \in DOMAIN live \cup {Data(b)} |->
                      IF a = Data(b) THEN asked ELSE live[a]]

\* The search ends at a block that is large enough, which is split if the rest can hold
\* a block of its own.
TakeBlock ==
  /\ pc = "search" /\ Return
  /\ \E i \in DOMAIN blocks :
       /\ FirstFit(i)
       /\ Hand(blocks[i])
       /\ \/ /\ Splits(blocks[i])
             /\ blocks' = InsertAt([blocks EXCEPT ![i].free = FALSE, ![i].size = size],
                                   i + 1, Rest(blocks[i]))
          \/ /\ ~Splits(blocks[i])
             /\ blocks' = [blocks EXCEPT ![i].free = FALSE]
  /\ UNCHANGED <<available, given, mallocs, crossed>>

NothingFits ==
  /\ pc = "search" /\ \A i \in DOMAIN blocks : ~Fits(blocks[i])
  /\ pc' = "expand"
  /\ UNCHANGED <<blocks, size, asked, took, available, given, live, mallocs, crossed>>

\* expand_heap: the kernel gives its first free page, or none; malloc then calls itself
\* with the aligned size, which it does not search for when it is 0.
Expand ==
  /\ pc = "expand"
  /\ \/ \E p \in available :
          /\ \A q \in available : p <= q
          /\ available' = available \ {p} /\ given' = Append(given, p)
          /\ blocks' = Append(blocks, PageBlock(p))
     \/ /\ available = {}
        /\ UNCHANGED <<available, given, blocks>>
  /\ \/ /\ blocks' # <<>> /\ size # 0
        /\ pc' = "search" /\ took' = (took \/ available # {}) /\ UNCHANGED <<size, asked>>
     \/ /\ blocks' = <<>> \/ size = 0
        /\ Return
  /\ UNCHANGED <<live, mallocs, crossed>>

\* free(p) of an object the program holds: its block is joined with the next one of the
\* list if that is free.
Free ==
  /\ pc = "idle"
  /\ \E i \in DOMAIN blocks :
       /\ Data(blocks[i]) \in DOMAIN live
       /\ live' = [a \in DOMAIN live \ {Data(blocks[i])} |-> live[a]]
       /\ \/ /\ NextIsFree(i)
             /\ blocks' = RemoveAt([blocks EXCEPT ![i] = Join(@, blocks[i + 1])], i + 1)
             /\ crossed' = (crossed \/ ~Touch(blocks[i], blocks[i + 1]))
          \/ /\ ~NextIsFree(i)
             /\ blocks' = [blocks EXCEPT ![i].free = TRUE]
             /\ UNCHANGED crossed
  /\ UNCHANGED <<callVars, available, given, mallocs>>

\* Other programs take pages from the kernel and give them back.
OthersTake ==
  /\ \E p \in available :
       (\A q \in available : p <= q) /\ available' = available \ {p}
  /\ UNCHANGED <<blocks, callVars, given, live, mallocs, crossed>>

OthersGive ==
  /\ \E p \in Pages \ (available \cup Range(given)) : available' = available \cup {p}
  /\ UNCHANGED <<blocks, callVars, given, live, mallocs, crossed>>

-----------------------------------------------------------------------------
Steps == TakeBlock \/ NothingFits \/ Expand
Next  == Malloc \/ Steps \/ Free \/ OthersTake \/ OthersGive

Spec == Init /\ [][Next]_vars

\* The program executes malloc.
FairSpec == Spec /\ WF_vars(Steps)

-----------------------------------------------------------------------------
\* used_bytes and free_bytes of heap_stats: the sum of a sequence, and of what the blocks
\* of one kind add to it.
Total(v) ==
  LET sum[n \in 0 .. Len(v)] == IF n = 0 THEN 0 ELSE sum[n - 1] + v[n]
  IN  sum[Len(v)]

Stats(free) ==
  Total([i \in DOMAIN blocks |-> IF blocks[i].free = free THEN blocks[i].size ELSE 0])

\* heap_stats accounts for every byte of every page the heap was given: no split, no
\* join, of blocks that touch or not, and no order of the pages loses one, and no size, a
\* size_t from which a header is subtracted, goes below zero.
StatsAddUp ==
  /\ Stats(TRUE) + Stats(FALSE) + BLOCK_HEADER_SIZE * Len(blocks)
       = PAGE_SIZE * Len(given)
  /\ \A i \in DOMAIN blocks : blocks[i].size >= 0

Bytes(from, n) == from .. from + n - 1

\* The bytes of an object and its header lie in the heap's pages and in no other
\* object, whatever pages other programs take in between, unless a join has crossed
\* memory of theirs or a size was too large to be aligned.
ObjectsApart ==
  (~crossed /\ \A a \in DOMAIN live : AlignSize(live[a]) >= live[a]) =>
    LET Of(a) == Bytes(a - BLOCK_HEADER_SIZE, BLOCK_HEADER_SIZE + live[a])
    IN  \A a \in DOMAIN live :
          /\ Of(a) \subseteq UNION {Bytes(p * PAGE_SIZE, PAGE_SIZE) : p \in Range(given)}
          /\ \A b \in DOMAIN live \ {a} : Of(a) \cap Of(b) = {}

\* Once the kernel has given malloc a page, for a size that a page can hold, malloc
\* returns; for any other size, and without a page, it may call itself for ever.
MallocEnds == (took /\ size <= PAGE_SIZE - BLOCK_HEADER_SIZE) ~> pc = "idle"
=============================================================================
