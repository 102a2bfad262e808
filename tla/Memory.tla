-------------------------------- MODULE Memory --------------------------------
(***************************************************************************)
(* The page allocator of MaahiOS (pmm.c, with the vmm_ wrappers of         *)
(* paging.c) and the kernel heap that grows on it (kheap.c), once paging   *)
(* is on.  Programs reach the first through SYSCALL_ALLOC_PAGE and         *)
(* SYSCALL_FREE_PAGE and the second through SYSCALL_CREATE_PROCESS, whose  *)
(* process_create asks kmalloc for a PCB.                                  *)
(*                                                                         *)
(* System calls run with interrupts enabled, and a timer tick that starts  *)
(* a queued process abandons them wherever they are (module Tasking); the  *)
(* calls are therefore modelled statement by statement, and Abandon is     *)
(* that tick.  Two statements share an action when abandoning the code     *)
(* between them leaves what abandoning it before both leaves.              *)
(*                                                                         *)
(* Physical memory from memory_start on is a row of pages, numbered from 0 *)
(* as in the bitmap.  Addresses are counted in units of 16 bytes, to which *)
(* kmalloc rounds every size.                                              *)
(***************************************************************************)
EXTENDS Integers, FiniteSets

CONSTANTS
  TOTAL_PAGES,       \* total_pages
  RESERVED_PAGES,    \* the pages in use when kheap_init runs: 0 .. this - 1
  START_PAGES,       \* memory_start, in pages (256)
  PAGE_SIZE,         \* units of a page (256)
  PCB_SIZE,          \* units of a PCB (3)
  HEAP_END,          \* heap_end, the end of the identity map, in units
  MAX_CREATIONS,     \* how often process_create reaches kmalloc
  MAX_STARTS         \* how many ticks find a process to start

ASSUME MemoryAssumption ==
  /\ TOTAL_PAGES \in Nat /\ RESERVED_PAGES \in Nat
  /\ RESERVED_PAGES < TOTAL_PAGES
  /\ START_PAGES \in Nat \ {0}
  /\ PAGE_SIZE \in Nat \ {0} /\ PCB_SIZE \in Nat \ {0}
  /\ HEAP_END \in Nat
  /\ MAX_CREATIONS \in Nat /\ MAX_STARTS \in Nat

VARIABLES
  used,                 \* pages whose bit is set in bitmap
  used_pages,
  heap_start, heap_current,
  last_page_allocated,  \* kmalloc's static
  \* the call in progress: its next statement, who called pmm_alloc_page, the
  \* page it works on and the object kmalloc will return
  pc, caller, page, ptr,
  booting,              \* the kernel has not entered ring 3 yet: no tick
  \* history: what programs hold, what the heap took, what PCBs kmalloc returned,
  \* pages abandoned between their bit and the count, clears abandoned likewise
  held, heap_pages, pcbs, leaked, uncounted, creations, starts

heapVars == <<heap_start, heap_current, last_page_allocated>>
callVars == <<caller, page, ptr>>
histVars == <<held, heap_pages, pcbs, leaked, uncounted>>
vars     == <<used, used_pages, heapVars, pc, callVars, booting, histVars,
              creations, starts>>

Pages    == 0 .. TOTAL_PAGES - 1
Reserved == 0 .. RESERVED_PAGES - 1
NoPage   == -1
Labels   == {"boot", "idle", "kmalloc", "cover", "alloc_set", "alloc_count",
             "alloc_return", "free_clear", "free_count"}

-----------------------------------------------------------------------------
(***************************************************************************)
(* The expressions of the code that decide and update.  A name that ends   *)
(* in a slip (Inverted, Last, Early, ...) is the bug whose absence the     *)
(* properties below depend on; no action uses it.                          *)
(***************************************************************************)
RoundUp(addr) == ((addr + PAGE_SIZE - 1) \div PAGE_SIZE) * PAGE_SIZE

\* The page the scan of pmm_alloc_page stops at.
FirstFreeInverted(p) == p \in used /\ \A q \in 0 .. p - 1 : q \notin used
FirstFree(p)         == p \notin used /\ \A q \in 0 .. p - 1 : q \in used

\* The address of a page, and the page of a heap address.
PageToAddr(p)    == (START_PAGES + p) * PAGE_SIZE
AddrToPage(addr) == (addr \div PAGE_SIZE) - START_PAGES

\* page_end, and last_page_allocated after one more page.
CoverEndEarly  == RoundUp(heap_current) - heap_start
CoverEnd       == RoundUp(heap_current)
CoveredForever == last_page_allocated
CoveredNext    == last_page_allocated + PAGE_SIZE

\* pmm_free_page's checks, and used_pages after it.
FreeableOffByOne(p) == p \in 0 .. TOTAL_PAGES /\ p \notin Pages \ used
Freeable(p)         == p \in Pages /\ p \in used
CountAfterFreeKept  == used_pages
CountAfterFree      == used_pages - 1

Step(from, to) == pc = from /\ pc' = to

-----------------------------------------------------------------------------
\* Paging is on: kernel, modules, bitmap, page directory and page tables fill the
\* pages below RESERVED_PAGES, and pmm_mark_region_used has counted each.
Init ==
  /\ used = Reserved /\ used_pages = RESERVED_PAGES
  /\ heap_start = 0 /\ heap_current = 0 /\ last_page_allocated = 0
  /\ pc = "boot" /\ caller = "none" /\ page = NoPage /\ ptr = 0
  /\ booting = TRUE
  /\ held = {} /\ heap_pages = {} /\ pcbs = {} /\ leaked = {} /\ uncounted = 0
  /\ creations = 0 /\ starts = 0

\* kheap_init, with interrupts off, then process_create_sysman calls kmalloc.
KheapInit ==
  /\ Step("boot", "kmalloc")
  /\ \E p \in Pages :
       /\ FirstFree(p)
       /\ used' = used \cup {p}
       /\ heap_start' = PageToAddr(p) /\ heap_current' = PageToAddr(p)
       /\ heap_pages' = {p}
  /\ used_pages' = used_pages + 1
  /\ UNCHANGED <<last_page_allocated, callVars, booting, held, pcbs, leaked,
                 uncounted, creations, starts>>

-----------------------------------------------------------------------------
\* The system calls: vmm_alloc_page and vmm_free_page only pass on.  A program
\* frees a page it holds, or an address that is no page in use.
AllocCall ==
  /\ Step("idle", "alloc_set")
  /\ caller' = "program"
  /\ UNCHANGED <<used, used_pages, heapVars, page, ptr, booting, histVars,
                 creations, starts>>

FreeCall ==
  /\ Step("idle", "free_clear")
  /\ page' \in held \cup (Pages \ used) \cup {TOTAL_PAGES}
  /\ UNCHANGED <<used, used_pages, heapVars, caller, ptr, booting, histVars,
                 creations, starts>>

CreateCall ==
  /\ Step("idle", "kmalloc")
  /\ creations < MAX_CREATIONS
  /\ creations' = creations + 1
  /\ UNCHANGED <<used, used_pages, heapVars, callVars, booting, histVars, starts>>

\* The call is over; the locals are gone.
Done == /\ pc' = "idle"
        /\ caller' = "none" /\ page' = NoPage /\ ptr' = 0

-----------------------------------------------------------------------------
\* kmalloc up to the move of heap_current: out of space, or the PCB's place.
KmallocBump ==
  \/ /\ Step("kmalloc", "cover")
     /\ heap_current + PCB_SIZE <= HEAP_END
     /\ ptr' = heap_current
     /\ heap_current' = heap_current + PCB_SIZE
     /\ UNCHANGED <<used, used_pages, heap_start, last_page_allocated, caller,
                    page, booting, histVars, creations, starts>>
  \/ /\ pc = "kmalloc"
     /\ heap_current + PCB_SIZE > HEAP_END
     /\ Done
     /\ booting' = FALSE
     /\ UNCHANGED <<used, used_pages, heapVars, histVars, creations, starts>>

\* The while loop's test: one more page, or the PCB goes to process_create.
KmallocCover ==
  \/ /\ Step("cover", "alloc_set")
     /\ last_page_allocated < CoverEnd
     /\ caller' = "heap"
     /\ UNCHANGED <<used, used_pages, heapVars, page, ptr, booting, histVars,
                    creations, starts>>
  \/ /\ pc = "cover"
     /\ last_page_allocated >= CoverEnd
     /\ pcbs' = pcbs \cup {ptr}
     /\ Done
     /\ booting' = FALSE
     /\ UNCHANGED <<used, used_pages, heapVars, held, heap_pages, leaked,
                    uncounted, creations, starts>>

-----------------------------------------------------------------------------
\* pmm_alloc_page: the scan and bitmap_set, used_pages++, the return.
AllocSet ==
  /\ \/ /\ Step("alloc_set", "alloc_count")
        /\ \E p \in Pages :
             /\ FirstFree(p)
             /\ page' = p
             /\ used' = used \cup {p}
     \/ /\ Step("alloc_set", "alloc_return")
        /\ Pages \subseteq used
        /\ page' = NoPage
        /\ UNCHANGED used
  /\ UNCHANGED <<used_pages, heapVars, caller, ptr, booting, histVars, creations,
                 starts>>

AllocCount ==
  /\ Step("alloc_count", "alloc_return")
  /\ used_pages' = used_pages + 1
  /\ UNCHANGED <<used, heapVars, callVars, booting, histVars, creations, starts>>

\* What the caller does with the page: a program is handed it, kmalloc forgets
\* its number, and no one looks whether it was 0.
AllocReturn ==
  /\ \/ /\ caller = "program" /\ pc = "alloc_return"
        /\ held' = held \cup ({page} \ {NoPage})
        /\ Done
        /\ UNCHANGED <<last_page_allocated, heap_pages>>
     \/ /\ caller = "heap" /\ Step("alloc_return", "cover")
        /\ heap_pages' = heap_pages \cup ({page} \ {NoPage})
        /\ last_page_allocated' = CoveredNext
        /\ caller' = "none" /\ page' = NoPage
        /\ UNCHANGED <<held, ptr>>
  /\ UNCHANGED <<used, used_pages, heap_start, heap_current, booting, pcbs, leaked,
                 uncounted, creations, starts>>

\* pmm_free_page: the checks and bitmap_clear, then used_pages--.
FreeClear ==
  \/ /\ Step("free_clear", "free_count")
     /\ Freeable(page)
     /\ used' = used \ {page}
     /\ held' = held \ {page}
     /\ UNCHANGED <<used_pages, heapVars, callVars, booting, heap_pages, pcbs,
                    leaked, uncounted, creations, starts>>
  \/ /\ pc = "free_clear"
     /\ ~Freeable(page)
     /\ Done
     /\ UNCHANGED <<used, used_pages, heapVars, booting, histVars, creations, starts>>

FreeCount ==
  /\ pc = "free_count"
  /\ used_pages' = CountAfterFree
  /\ Done
  /\ UNCHANGED <<used, heapVars, booting, histVars, creations, starts>>

-----------------------------------------------------------------------------
\* A tick finds a process queued and starts it: the call is never resumed.
Abandon ==
  /\ ~booting /\ pc # "idle"
  /\ starts < MAX_STARTS
  /\ starts' = starts + 1
  /\ leaked' = IF pc = "alloc_count" THEN leaked \cup {page} ELSE leaked
  /\ uncounted' = IF pc = "free_count" THEN uncounted + 1 ELSE uncounted
  /\ Done
  /\ UNCHANGED <<used, used_pages, heapVars, booting, held, heap_pages, pcbs,
                 creations>>

Kernel == \/ KheapInit \/ KmallocBump \/ KmallocCover
          \/ AllocSet \/ AllocCount \/ AllocReturn \/ FreeClear \/ FreeCount

Next == Kernel \/ AllocCall \/ FreeCall \/ CreateCall \/ Abandon

Spec == Init /\ [][Next]_vars

\* The CPU executes the kernel's code.
FairSpec == Spec /\ WF_vars(Kernel)

-----------------------------------------------------------------------------
(***************************************************************************)
(* Correctness.                                                            *)
(***************************************************************************)

\* The variables keep their types; in particular used_pages never goes below
\* zero, where a uint32_t would wrap.
TypeOK ==
  /\ used \subseteq Pages /\ used_pages \in Nat
  /\ heap_start \in Nat /\ heap_current \in Nat /\ last_page_allocated \in Nat
  /\ pc \in Labels /\ caller \in {"none", "heap", "program"}
  /\ page \in Pages \cup {NoPage, TOTAL_PAGES} /\ ptr \in Nat
  /\ booting \in BOOLEAN
  /\ held \subseteq Pages /\ heap_pages \subseteq Pages /\ pcbs \subseteq Nat
  /\ leaked \subseteq Pages /\ uncounted \in Nat
  /\ creations \in 0 .. MAX_CREATIONS /\ starts \in 0 .. MAX_STARTS

\* The page pmm_alloc_page is about to return.
InHand == IF pc \in {"alloc_count", "alloc_return"} THEN {page} \ {NoPage} ELSE {}

\* What anybody was given stays marked until it is given back, and nothing is
\* given twice: not to two programs, nor to a program and the kernel.
HandedOutOnce ==
  LET owners == <<Reserved, heap_pages, held, InHand, leaked>>
  IN  \A i \in DOMAIN owners :
        /\ owners[i] \subseteq used
        /\ \A j \in DOMAIN owners : i # j => owners[i] \cap owners[j] = {}

Counting == IF pc = "alloc_count" THEN 1 ELSE 0
Freeing  == IF pc = "free_count" THEN 1 ELSE 0

\* used_pages counts the bits of the bitmap, up to the statement in progress and
\* to exactly the calls abandoned between a bit and the count.
CountTracksBitmap ==
  used_pages + Counting + Cardinality(leaked)
    = Cardinality(used) + Freeing + uncounted

\* The pages of the heap up to heap_current.
HeapRegion == IF heap_current = heap_start THEN {}
              ELSE AddrToPage(heap_start) .. AddrToPage(heap_current - 1)

\* No page the heap has grown over is in a program's hands: kmalloc never asks
\* which page pmm_alloc_page gave it, so this rests on how many it has taken.
HeapClearOfPrograms == HeapRegion \cap held = {}

\* Every PCB lies in pages that are marked as used.
PcbsBacked ==
  \A a \in pcbs : AddrToPage(a) .. AddrToPage(a + PCB_SIZE - 1) \subseteq used

\* A call of the allocators comes to its end.
CallEnds == (pc # "idle") ~> (pc = "idle")
=============================================================================
