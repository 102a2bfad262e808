----------------------------- MODULE MemoryProofs -----------------------------
(***************************************************************************)
(* Proofs about Memory for every size of memory and of pages: the types,   *)
(* that no page is given twice, and that used_pages counts the bitmap.     *)
(* They need each other: used_pages stays above zero because it counts the *)
(* bitmap, the count is right because pmm_alloc_page never marks a page    *)
(* twice and the page abandoned there belongs to nobody else.              *)
(*                                                                         *)
(* Then the heap, which grows over pages without looking at them: it meets *)
(* no program because its first kmalloc, at boot, takes one page after the *)
(* other before there is a program, and all PCBs fit into what it took     *)
(* (HeapHasRoom).                                                          *)
(***************************************************************************)
EXTENDS Memory, FiniteSetTheorems, TLAPS

\* What the next statement relies on.
Local ==
  /\ pc = "boot" => /\ used = Reserved
                    /\ heap_pages = {} /\ held = {} /\ leaked = {}
  /\ pc = "alloc_count" => page \in Pages
  /\ pc = "alloc_return" => page \in Pages \cup {NoPage}
  /\ pc = "free_clear" => page \in held \cup (Pages \ used) \cup {TOTAL_PAGES}

\* HandedOutOnce, one owner after the other.
OwnersApart ==
  /\ Reserved \subseteq used /\ heap_pages \subseteq used /\ held \subseteq used
  /\ InHand \subseteq used /\ leaked \subseteq used
  /\ Reserved \cap (heap_pages \cup held \cup InHand \cup leaked) = {}
  /\ heap_pages \cap (held \cup InHand \cup leaked) = {}
  /\ held \cap (InHand \cup leaked) = {}
  /\ InHand \cap leaked = {}

IInv == TypeOK /\ Local /\ OwnersApart /\ CountTracksBitmap

-----------------------------------------------------------------------------
LEMMA OwnersEquiv == OwnersApart <=> HandedOutOnce
<1> DEFINE owners == <<Reserved, heap_pages, held, InHand, leaked>>
<1>1. DOMAIN owners = {1, 2, 3, 4, 5}
  OBVIOUS
<1>2. /\ owners[1] = Reserved /\ owners[2] = heap_pages /\ owners[3] = held
      /\ owners[4] = InHand /\ owners[5] = leaked
  OBVIOUS
<1>3. HandedOutOnce <=> \A i \in DOMAIN owners :
        /\ owners[i] \subseteq used
        /\ \A j \in DOMAIN owners : i # j => owners[i] \cap owners[j] = {}
  BY DEF HandedOutOnce
<1> HIDE DEF owners
<1>4. ASSUME OwnersApart PROVE HandedOutOnce
  BY <1>1, <1>2, <1>3, <1>4 DEF OwnersApart
<1>5. ASSUME HandedOutOnce PROVE OwnersApart
  <2>1. \A i \in {1, 2, 3, 4, 5} : owners[i] \subseteq used
    BY <1>1, <1>3, <1>5
  <2>2. \A i, j \in {1, 2, 3, 4, 5} : i # j => owners[i] \cap owners[j] = {}
    BY <1>1, <1>3, <1>5
  <2>3. /\ Reserved \subseteq used /\ heap_pages \subseteq used /\ held \subseteq used
        /\ InHand \subseteq used /\ leaked \subseteq used
    BY <2>1, <1>2
  <2>4. /\ Reserved \cap heap_pages = {} /\ Reserved \cap held = {}
        /\ Reserved \cap InHand = {} /\ Reserved \cap leaked = {}
    BY <2>2, <1>2
  <2>5. /\ heap_pages \cap held = {} /\ heap_pages \cap InHand = {}
        /\ heap_pages \cap leaked = {} /\ held \cap InHand = {}
        /\ held \cap leaked = {} /\ InHand \cap leaked = {}
    BY <2>2, <1>2
  <2> QED
    BY <2>3, <2>4, <2>5 DEF OwnersApart
<1> QED
  BY <1>4, <1>5

\* Sets of pages are finite, and the abandoned ones are no more than the marked.
LEMMA Finite ==
  ASSUME used \subseteq Pages, leaked \subseteq used
  PROVE  /\ IsFiniteSet(used) /\ IsFiniteSet(leaked)
         /\ Cardinality(used) \in Nat /\ Cardinality(leaked) \in Nat
         /\ Cardinality(leaked) <= Cardinality(used)
<1>1. IsFiniteSet(Pages)
  BY FS_Interval, MemoryAssumption DEF Pages
<1>2. IsFiniteSet(used)
  BY <1>1, FS_Subset
<1>3. IsFiniteSet(leaked) /\ Cardinality(leaked) <= Cardinality(used)
  BY <1>2, FS_Subset
<1> QED
  BY <1>2, <1>3, FS_CardinalityType

LEMMA ReservedPages == Reserved \subseteq Pages /\ Cardinality(Reserved) = RESERVED_PAGES
<1>1. Reserved \subseteq Pages
  BY MemoryAssumption DEF Reserved, Pages
<1>2. /\ RESERVED_PAGES \in Nat
      /\ Cardinality(0 .. RESERVED_PAGES - 1)
           = IF 0 > RESERVED_PAGES - 1 THEN 0 ELSE RESERVED_PAGES - 1 - 0 + 1
  BY FS_Interval, MemoryAssumption
<1> QED
  BY <1>1, <1>2 DEF Reserved

LEMMA InitInv == Init => IInv
<1> SUFFICES ASSUME Init PROVE IInv
  OBVIOUS
<1>1. InHand = {} /\ Counting = 0 /\ Freeing = 0
  BY DEF Init, InHand, Counting, Freeing
<1>2. TypeOK
  BY ReservedPages, MemoryAssumption DEF Init, TypeOK, Labels
<1>3. Local
  BY DEF Init, Local
<1>4. OwnersApart
  BY <1>1 DEF Init, OwnersApart
<1>5. CountTracksBitmap
  BY <1>1, ReservedPages, FS_EmptySet, MemoryAssumption DEF Init, CountTracksBitmap
<1> QED
  BY <1>2, <1>3, <1>4, <1>5 DEF IInv

-----------------------------------------------------------------------------
LEMMA StepInv == IInv /\ [Next]_vars => IInv'
<1> SUFFICES ASSUME IInv, [Next]_vars PROVE IInv'
  OBVIOUS
<1>a. TypeOK /\ Local /\ OwnersApart /\ CountTracksBitmap
  BY DEF IInv
<1>b. /\ IsFiniteSet(used) /\ IsFiniteSet(leaked)
      /\ Cardinality(used) \in Nat /\ Cardinality(leaked) \in Nat
      /\ Cardinality(leaked) <= Cardinality(used)
  BY <1>a, Finite DEF TypeOK, OwnersApart
<1>c. \A p \in Pages : p \in Nat /\ p # NoPage /\ p # TOTAL_PAGES
  BY MemoryAssumption DEF Pages, NoPage
<1>d. NoPage \notin used
  BY <1>a, <1>c DEF TypeOK
<1> USE DEF Step
<1>1. CASE KheapInit
  <2>1. PICK p \in Pages :
          /\ p \notin used /\ used' = used \cup {p} /\ heap_pages' = {p}
          /\ heap_start' = PageToAddr(p) /\ heap_current' = PageToAddr(p)
    BY <1>1 DEF KheapInit, FirstFree
  <2>2. /\ pc = "boot" /\ pc' = "kmalloc" /\ used_pages' = used_pages + 1
        /\ UNCHANGED <<last_page_allocated, callVars, booting, held, pcbs, leaked,
                       uncounted, creations, starts>>
    BY <1>1 DEF KheapInit
  <2>3. TypeOK'
    <3>1. PageToAddr(p) \in Nat
      BY <1>c, MemoryAssumption DEF PageToAddr
    <3> QED
      BY <1>a, <2>1, <2>2, <3>1 DEF TypeOK, Labels, callVars
  <2>4. Local'
    BY <2>2 DEF Local
  <2>5. OwnersApart'
    BY <1>a, <2>1, <2>2 DEF OwnersApart, Local, InHand
  <2>6. CountTracksBitmap'
    <3>1. Cardinality(used') = Cardinality(used) + 1
      BY <1>b, <2>1, FS_AddElement
    <3> QED
      BY <1>a, <1>b, <2>2, <3>1 DEF CountTracksBitmap, Counting, Freeing, TypeOK
  <2> QED
    BY <2>3, <2>4, <2>5, <2>6 DEF IInv
<1>2. CASE AllocCall
  <2>1. TypeOK'
    BY <1>a, <1>2 DEF AllocCall, TypeOK, Labels, heapVars, histVars
  <2>2. Local' /\ OwnersApart' /\ CountTracksBitmap'
    BY <1>a, <1>2 DEF AllocCall, Local, OwnersApart, CountTracksBitmap, InHand,
      Counting, Freeing, histVars
  <2> QED
    BY <2>1, <2>2 DEF IInv
<1>3. CASE FreeCall
  <2>1. TypeOK'
    BY <1>a, <1>3 DEF FreeCall, TypeOK, Labels, heapVars, histVars
  <2>2. Local' /\ OwnersApart' /\ CountTracksBitmap'
    BY <1>a, <1>3 DEF FreeCall, Local, OwnersApart, CountTracksBitmap, InHand,
      Counting, Freeing, histVars
  <2> QED
    BY <2>1, <2>2 DEF IInv
<1>4. CASE CreateCall
  <2>1. TypeOK'
    <3>1. creations' \in 0 .. MAX_CREATIONS
      BY <1>a, <1>4, MemoryAssumption DEF CreateCall, TypeOK
    <3> QED
      BY <1>a, <1>4, <3>1 DEF CreateCall, TypeOK, Labels, heapVars, histVars, callVars
  <2>2. Local' /\ OwnersApart' /\ CountTracksBitmap'
    BY <1>a, <1>4 DEF CreateCall, Local, OwnersApart, CountTracksBitmap, InHand,
      Counting, Freeing, histVars
  <2> QED
    BY <2>1, <2>2 DEF IInv
<1>5. CASE KmallocBump
  <2>1. TypeOK'
    <3>1. heap_current' \in Nat /\ ptr' \in Nat
      BY <1>a, <1>5, MemoryAssumption DEF KmallocBump, Done, TypeOK, heapVars
    <3>2. /\ pc' \in Labels /\ caller' \in {"none", "heap", "program"}
          /\ page' \in Pages \cup {NoPage, TOTAL_PAGES} /\ booting' \in BOOLEAN
      BY <1>a, <1>5 DEF KmallocBump, Done, TypeOK, Labels
    <3>3. UNCHANGED <<used, used_pages, heap_start, last_page_allocated, histVars,
                      creations, starts>>
      BY <1>5 DEF KmallocBump, heapVars
    <3> QED
      BY <1>a, <3>1, <3>2, <3>3 DEF TypeOK, histVars
  <2>2. Local' /\ OwnersApart' /\ CountTracksBitmap'
    BY <1>a, <1>5 DEF KmallocBump, Done, Local, OwnersApart, CountTracksBitmap, InHand,
      Counting, Freeing, histVars
  <2> QED
    BY <2>1, <2>2 DEF IInv
<1>6. CASE KmallocCover
  <2>1. TypeOK'
    <3>1. pcbs' \subseteq Nat /\ ptr' \in Nat
      <4>1. \/ pcbs' = pcbs /\ ptr' = ptr
            \/ pcbs' = pcbs \cup {ptr} /\ ptr' = 0
        BY <1>6 DEF KmallocCover, Done, histVars
      <4>2. pcbs \subseteq Nat /\ ptr \in Nat /\ 0 \in Nat
        BY <1>a DEF TypeOK
      <4> QED
        BY <4>1, <4>2
    <3>2. /\ pc' \in Labels /\ caller' \in {"none", "heap", "program"}
          /\ page' \in Pages \cup {NoPage, TOTAL_PAGES} /\ booting' \in BOOLEAN
      BY <1>a, <1>6 DEF KmallocCover, Done, TypeOK, Labels
    <3>3. UNCHANGED <<used, used_pages, heapVars, held, heap_pages, leaked, uncounted,
                      creations, starts>>
      BY <1>6 DEF KmallocCover, histVars
    <3> QED
      BY <1>a, <3>1, <3>2, <3>3 DEF TypeOK, heapVars
  <2>2. Local' /\ OwnersApart' /\ CountTracksBitmap'
    BY <1>a, <1>6 DEF KmallocCover, Done, Local, OwnersApart, CountTracksBitmap, InHand,
      Counting, Freeing, histVars
  <2> QED
    BY <2>1, <2>2 DEF IInv
<1>7. CASE AllocSet
  <2>1. /\ pc = "alloc_set"
        /\ UNCHANGED <<used_pages, heapVars, caller, ptr, booting, histVars, creations,
                       starts>>
    BY <1>7 DEF AllocSet
  <2>2. CASE pc' = "alloc_count"
    <3>1. PICK p \in Pages : p \notin used /\ page' = p /\ used' = used \cup {p}
      BY <1>7, <2>2 DEF AllocSet, FirstFree
    <3>2. TypeOK'
      BY <1>a, <2>1, <2>2, <3>1 DEF TypeOK, Labels, heapVars, histVars
    <3>3. Local'
      BY <2>2, <3>1 DEF Local
    <3>4. InHand' = {p}
      BY <1>c, <2>2, <3>1 DEF InHand
    <3>5. OwnersApart'
      BY <1>a, <2>1, <3>1, <3>4 DEF OwnersApart, histVars
    <3>6. CountTracksBitmap'
      <4>1. Cardinality(used') = Cardinality(used) + 1
        BY <1>b, <3>1, FS_AddElement
      <4> QED
        BY <1>a, <1>b, <2>1, <2>2, <4>1
        DEF CountTracksBitmap, Counting, Freeing, TypeOK, histVars
    <3> QED
      BY <3>2, <3>3, <3>5, <3>6 DEF IInv
  <2>3. CASE pc' = "alloc_return"
    <3>1. page' = NoPage /\ used' = used
      BY <1>7, <2>3 DEF AllocSet
    <3>2. TypeOK'
      BY <1>a, <2>1, <2>3, <3>1 DEF TypeOK, Labels, heapVars, histVars
    <3>3. Local' /\ OwnersApart' /\ CountTracksBitmap'
      BY <1>a, <2>1, <2>3, <3>1 DEF Local, OwnersApart, CountTracksBitmap, InHand,
        Counting, Freeing, histVars
    <3> QED
      BY <3>2, <3>3 DEF IInv
  <2> QED
    BY <1>7, <2>2, <2>3 DEF AllocSet
<1>8. CASE AllocCount
  <2>1. TypeOK'
    BY <1>a, <1>8 DEF AllocCount, TypeOK, Labels, heapVars, callVars, histVars
  <2>2. Local' /\ OwnersApart'
    BY <1>a, <1>8 DEF AllocCount, Local, OwnersApart, InHand, callVars, histVars
  <2>3. CountTracksBitmap'
    BY <1>a, <1>b, <1>8 DEF AllocCount, CountTracksBitmap, Counting, Freeing, TypeOK,
      histVars
  <2> QED
    BY <2>1, <2>2, <2>3 DEF IInv
<1>9. CASE AllocReturn
  <2>1. /\ pc = "alloc_return" /\ page \in Pages \cup {NoPage}
        /\ InHand = {page} \ {NoPage} /\ InHand \subseteq Pages
    BY <1>a, <1>9, <1>c DEF AllocReturn, Local, InHand
  <2>2. /\ UNCHANGED <<used, used_pages, heap_start, heap_current, booting, pcbs,
                       leaked, uncounted, creations, starts>>
        /\ pc' \in {"idle", "cover"} /\ page' = NoPage /\ caller' = "none"
        /\ InHand' = {}
    BY <1>9 DEF AllocReturn, Done, InHand
  <2>3. \/ held' = held \cup InHand /\ UNCHANGED <<heap_pages, last_page_allocated>>
        \/ /\ heap_pages' = heap_pages \cup InHand /\ UNCHANGED held
           /\ last_page_allocated' = CoveredNext
    BY <1>9, <2>1 DEF AllocReturn
  <2>4. ptr' \in Nat /\ last_page_allocated' \in Nat
    BY <1>a, <1>9, MemoryAssumption DEF AllocReturn, Done, TypeOK, CoveredNext
  <2>5. TypeOK'
    BY <1>a, <2>1, <2>2, <2>3, <2>4 DEF TypeOK, Labels
  <2>6. Local' /\ OwnersApart'
    BY <1>a, <2>1, <2>2, <2>3 DEF Local, OwnersApart
  <2>7. CountTracksBitmap'
    BY <1>a, <2>1, <2>2 DEF CountTracksBitmap, Counting, Freeing
  <2> QED
    BY <2>5, <2>6, <2>7 DEF IInv
<1>10. CASE FreeClear
  <2>1. CASE Freeable(page)
    <3>1. /\ pc = "free_clear" /\ pc' = "free_count"
          /\ page \in held /\ page \in used
          /\ used' = used \ {page} /\ held' = held \ {page}
          /\ UNCHANGED <<used_pages, heapVars, callVars, booting, heap_pages, pcbs,
                         leaked, uncounted, creations, starts>>
      BY <1>a, <1>c, <1>10, <2>1 DEF FreeClear, Freeable, Local
    <3>2. TypeOK'
      BY <1>a, <3>1 DEF TypeOK, Labels, heapVars, callVars
    <3>3. Local' /\ OwnersApart'
      BY <1>a, <3>1 DEF Local, OwnersApart, InHand, callVars
    <3>4. CountTracksBitmap'
      <4>1. Cardinality(used') = Cardinality(used) - 1
        BY <1>b, <3>1, FS_RemoveElement
      <4> QED
        BY <1>a, <1>b, <3>1, <4>1 DEF CountTracksBitmap, Counting, Freeing, TypeOK
    <3> QED
      BY <3>2, <3>3, <3>4 DEF IInv
  <2>2. CASE ~Freeable(page)
    <3>1. /\ pc = "free_clear" /\ Done
          /\ UNCHANGED <<used, used_pages, heapVars, booting, histVars, creations, starts>>
      BY <1>10, <2>2 DEF FreeClear
    <3>2. TypeOK'
      BY <1>a, <3>1 DEF Done, TypeOK, Labels, heapVars, histVars
    <3>3. Local' /\ OwnersApart' /\ CountTracksBitmap'
      BY <1>a, <3>1 DEF Done, Local, OwnersApart, CountTracksBitmap, InHand, Counting,
        Freeing, histVars
    <3> QED
      BY <3>2, <3>3 DEF IInv
  <2> QED
    BY <2>1, <2>2
<1>11. CASE FreeCount
  <2>1. used_pages \in Nat /\ used_pages >= 1
    <3>1. used_pages + Cardinality(leaked) = Cardinality(used) + 1 + uncounted
      BY <1>a, <1>b, <1>11 DEF FreeCount, CountTracksBitmap, Counting, Freeing, TypeOK
    <3> QED
      BY <1>a, <1>b, <3>1 DEF TypeOK
  <2>2. TypeOK'
    BY <1>a, <1>11, <2>1 DEF FreeCount, CountAfterFree, Done, TypeOK, Labels, heapVars,
      histVars
  <2>3. Local' /\ OwnersApart'
    BY <1>a, <1>11 DEF FreeCount, Done, Local, OwnersApart, InHand, histVars
  <2>4. CountTracksBitmap'
    BY <1>a, <1>b, <1>11, <2>1 DEF FreeCount, CountAfterFree, Done, CountTracksBitmap,
      Counting, Freeing, TypeOK, histVars
  <2> QED
    BY <2>2, <2>3, <2>4 DEF IInv
<1>12. CASE Abandon
  <2>1. /\ pc' = "idle" /\ InHand' = {} /\ Counting' = 0 /\ Freeing' = 0
        /\ UNCHANGED <<used, used_pages, heapVars, booting, held, heap_pages, pcbs,
                       creations>>
    BY <1>12 DEF Abandon, Done, InHand, Counting, Freeing
  <2>2. TypeOK'
    BY <1>a, <1>12, MemoryAssumption
    DEF Abandon, Done, TypeOK, Local, Labels, heapVars
  <2>3. Local'
    BY <2>1 DEF Local
  <2>4. CASE pc = "alloc_count"
    <3>1. /\ InHand = {page} /\ page \in Pages /\ page \notin leaked
          /\ leaked' = leaked \cup {page} /\ uncounted' = uncounted
      BY <1>a, <1>c, <1>12, <2>4 DEF Abandon, Local, InHand, OwnersApart
    <3>2. OwnersApart'
      BY <1>a, <2>1, <3>1 DEF OwnersApart
    <3>3. Cardinality(leaked') = Cardinality(leaked) + 1
      BY <1>b, <3>1, FS_AddElement
    <3>4. CountTracksBitmap'
      BY <1>a, <1>b, <2>1, <2>4, <3>1, <3>3
      DEF CountTracksBitmap, Counting, Freeing, TypeOK
    <3> QED
      BY <2>2, <2>3, <3>2, <3>4 DEF IInv
  <2>5. CASE pc # "alloc_count"
    <3>1. leaked' = leaked /\ uncounted' = uncounted + Freeing /\ Counting = 0
      BY <1>a, <1>12, <2>5 DEF Abandon, Counting, Freeing, TypeOK
    <3>2. OwnersApart'
      BY <1>a, <2>1, <3>1 DEF OwnersApart
    <3>3. CountTracksBitmap'
      BY <1>a, <1>b, <2>1, <3>1 DEF CountTracksBitmap, Freeing, TypeOK
    <3> QED
      BY <2>2, <2>3, <3>2, <3>3 DEF IInv
  <2> QED
    BY <2>4, <2>5
<1>13. CASE UNCHANGED vars
  <2>1. TypeOK'
    BY <1>a, <1>13 DEF vars, TypeOK, heapVars, callVars, histVars
  <2>2. Local' /\ OwnersApart' /\ CountTracksBitmap'
    BY <1>a, <1>13 DEF vars, Local, OwnersApart, CountTracksBitmap, InHand, Counting,
      Freeing, callVars, histVars
  <2> QED
    BY <2>1, <2>2 DEF IInv
<1> QED
  BY <1>1, <1>2, <1>3, <1>4, <1>5, <1>6, <1>7, <1>8, <1>9, <1>10, <1>11, <1>12, <1>13
  DEF Next, Kernel

\* used_pages never goes below zero, and every page number is one of the bitmap.
THEOREM MemoryTypeCorrect == Spec => []TypeOK
<1>1. IInv => TypeOK
  BY DEF IInv
<1> QED
  BY <1>1, InitInv, StepInv, PTL DEF Spec

\* pmm_alloc_page gives no page twice, whatever calls the timer abandons.
THEOREM AlwaysHandedOutOnce == Spec => []HandedOutOnce
<1>1. IInv => HandedOutOnce
  BY OwnersEquiv DEF IInv
<1> QED
  BY <1>1, InitInv, StepInv, PTL DEF Spec

\* used_pages is off by exactly the calls abandoned between a bit and the count.
THEOREM CountAlwaysTracksBitmap == Spec => []CountTracksBitmap
<1>1. IInv => CountTracksBitmap
  BY DEF IInv
<1> QED
  BY <1>1, InitInv, StepInv, PTL DEF Spec

-----------------------------------------------------------------------------
(***************************************************************************)
(* The heap on its pages.  kmalloc never asks which page pmm_alloc_page    *)
(* gave it: it counts pages up from address 0 although the heap begins at  *)
(* HeapStart, and so the first kmalloc takes far more pages than its PCB   *)
(* needs.  It runs at boot, where nothing is freed and nothing abandoned,  *)
(* and therefore takes the pages that follow the first one of the heap,    *)
(* as many of them as lie below FirstEnd.  The heap is safe for as long as *)
(* it keeps within that size.                                              *)
(***************************************************************************)
HeapStart == PageToAddr(RESERVED_PAGES)
FirstEnd  == RoundUp(HeapStart + PCB_SIZE)

\* The kernel's pages, and that they reach n units up from the heap's first page.
Taken         == Reserved \cup heap_pages
TakenUpTo(n)  == \A p \in Pages : (p - RESERVED_PAGES) * PAGE_SIZE <= n => p \in Taken
Allocating    == pc \in {"alloc_set", "alloc_count", "alloc_return"}
ServingKernel == pc = "cover" \/ (Allocating /\ caller = "heap")

BeforeHeap ==
  pc = "boot" => /\ booting /\ last_page_allocated = 0
                 /\ pcbs = {} /\ caller = "none"

\* The first kmalloc: the kernel is alone, and takes page after page.
FirstKmalloc ==
  booting /\ pc # "boot" =>
    /\ pc \in {"kmalloc", "cover", "alloc_set", "alloc_count", "alloc_return"}
    /\ Allocating => caller = "heap"
    /\ held = {} /\ pcbs = {}
    /\ used = Taken \cup InHand
    /\ TakenUpTo(last_page_allocated)
    /\ pc \in {"alloc_count", "alloc_return"} =>
         \A q \in Pages : (page = NoPage \/ q < page) => q \in Taken
    /\ heap_current = IF pc = "kmalloc" THEN HeapStart ELSE HeapStart + PCB_SIZE

\* Ever after: its pages are there, or there was no place for one PCB.
AfterFirst ==
  ~booting => \/ TakenUpTo(FirstEnd)
              \/ /\ heap_current = HeapStart /\ pcbs = {}
                 /\ heap_current + PCB_SIZE > HEAP_END

\* How far the heap has grown, and that the PCBs lie in it.
Growth ==
  pc # "boot" =>
    /\ heap_start = HeapStart /\ heap_current >= HeapStart
    /\ heap_current > HeapStart => heap_current <= HEAP_END
    /\ heap_current + (IF pc = "kmalloc" THEN PCB_SIZE ELSE 0)
         <= HeapStart + (creations + 1) * PCB_SIZE
    /\ ServingKernel => ptr >= HeapStart /\ ptr + PCB_SIZE <= heap_current
    /\ \A a \in pcbs : a >= HeapStart /\ a + PCB_SIZE <= heap_current

HeapInv == BeforeHeap /\ FirstKmalloc /\ AfterFirst /\ Growth

-----------------------------------------------------------------------------
LEMMA TimesMonotone ==
  ASSUME NEW n \in Nat \ {0}, NEW x \in Int, NEW y \in Int
  PROVE  x <= y <=> x * n <= y * n
<1>1. (y - x) * n = y * n - x * n
  BY SMT
<1>2. \A d \in Int : d >= 0 => d * n >= 0
  BY SMT
<1>3. \A d \in Int : d < 0 => d * n < 0
  BY SMT
<1> QED
  BY <1>1, <1>2, <1>3

LEMMA HeapSizes == HeapStart \in Nat /\ FirstEnd \in Nat /\ Reserved \subseteq Pages
<1>1. HeapStart \in Nat
  BY MemoryAssumption, SMT DEF HeapStart, PageToAddr
<1>2. \A a \in Nat : RoundUp(a) \in Nat
  BY MemoryAssumption, SMT DEF RoundUp
<1>3. HeapStart + PCB_SIZE \in Nat
  BY <1>1, MemoryAssumption
<1> QED
  BY <1>1, <1>2, <1>3, ReservedPages DEF FirstEnd

\* An address lies in its page.
LEMMA InItsPage ==
  ASSUME NEW a \in Nat
  PROVE  /\ AddrToPage(a) \in Int
         /\ (AddrToPage(a) + START_PAGES) * PAGE_SIZE <= a
         /\ a < (AddrToPage(a) + START_PAGES + 1) * PAGE_SIZE
<1> DEFINE d == a \div PAGE_SIZE
<1>1. d \in Int /\ d * PAGE_SIZE <= a /\ a < (d + 1) * PAGE_SIZE
  BY MemoryAssumption, SMT
<1>2. AddrToPage(a) = d - START_PAGES
  BY DEF AddrToPage
<1> HIDE DEF d
<1>3. AddrToPage(a) \in Int /\ AddrToPage(a) + START_PAGES = d
  BY <1>1, <1>2, MemoryAssumption
<1> QED
  BY <1>1, <1>3

\* A page between two addresses of the heap, seen from the heap's first page.
LEMMA HeapPage ==
  ASSUME NEW a \in Nat, NEW b \in Nat, a >= HeapStart,
         NEW p \in AddrToPage(a) .. AddrToPage(b)
  PROVE  /\ p \in Int /\ p >= RESERVED_PAGES
         /\ (p - RESERVED_PAGES) * PAGE_SIZE <= b - HeapStart
<1>1. /\ AddrToPage(a) \in Int /\ AddrToPage(b) \in Int
      /\ a < (AddrToPage(a) + START_PAGES + 1) * PAGE_SIZE
      /\ (AddrToPage(b) + START_PAGES) * PAGE_SIZE <= b
  BY InItsPage
<1>2. p \in Int /\ AddrToPage(a) <= p /\ p <= AddrToPage(b)
  BY <1>1
<1>3. HeapStart = (START_PAGES + RESERVED_PAGES) * PAGE_SIZE /\ HeapStart \in Nat
  BY HeapSizes DEF HeapStart, PageToAddr
<1>4. p >= RESERVED_PAGES
  <2> DEFINE x == AddrToPage(a) + START_PAGES + 1
             y == START_PAGES + RESERVED_PAGES
  <2>1. x \in Int /\ y \in Int
    BY <1>1, MemoryAssumption
  <2>2. x * PAGE_SIZE \in Int /\ y * PAGE_SIZE <= a /\ a < x * PAGE_SIZE
    <3>1. x * PAGE_SIZE \in Int
      BY <2>1, MemoryAssumption, SMT
    <3> QED
      BY <3>1, <1>1, <1>3
  <2>3. x <= y <=> x * PAGE_SIZE <= y * PAGE_SIZE
    BY <2>1, TimesMonotone, MemoryAssumption
  <2>4. y * PAGE_SIZE \in Int
    BY <1>3
  <2> HIDE DEF x, y
  <2>5. ~(x <= y)
    BY <2>2, <2>3, <2>4
  <2> QED
    BY <1>1, <1>2, <2>5, MemoryAssumption DEF x, y
<1>5. (p - RESERVED_PAGES) * PAGE_SIZE <= b - HeapStart
  <2> DEFINE x == p + START_PAGES
             y == AddrToPage(b) + START_PAGES
  <2>1. x \in Int /\ y \in Int /\ x <= y
    BY <1>1, <1>2, MemoryAssumption
  <2>2. x * PAGE_SIZE <= y * PAGE_SIZE
    BY <2>1, TimesMonotone, MemoryAssumption
  <2>3. (p - RESERVED_PAGES) * PAGE_SIZE = x * PAGE_SIZE - HeapStart
    BY <1>2, <1>3, MemoryAssumption, SMT
  <2>4. x * PAGE_SIZE \in Int /\ y * PAGE_SIZE \in Int
    BY <2>1, MemoryAssumption, SMT
  <2> QED
    BY <1>1, <1>3, <2>2, <2>3, <2>4
<1> QED
  BY <1>2, <1>4, <1>5
-----------------------------------------------------------------------------
LEMMA HeapInit == Init => HeapInv
  BY DEF Init, HeapInv, BeforeHeap, FirstKmalloc, AfterFirst, Growth

LEMMA HeapStep == IInv /\ HeapInv /\ [Next]_vars => HeapInv'
<1> SUFFICES ASSUME IInv, HeapInv, [Next]_vars PROVE HeapInv'
  OBVIOUS
<1>a. TypeOK /\ Local /\ OwnersApart
  BY DEF IInv
<1>b. BeforeHeap /\ FirstKmalloc /\ AfterFirst /\ Growth
  BY DEF HeapInv
<1>c. \A p \in Pages : p \in Nat /\ p # NoPage
  BY MemoryAssumption DEF Pages, NoPage
<1>d. HeapStart \in Nat /\ FirstEnd \in Nat /\ Reserved \subseteq Pages
  BY HeapSizes
<1>e. (creations + 1) * PCB_SIZE \in Nat /\ (creations + 1) * PCB_SIZE >= PCB_SIZE
  BY <1>a, MemoryAssumption, SMT DEF TypeOK
<1> USE DEF Step
<1>1. CASE KheapInit
  <2>1. PICK p \in Pages :
          /\ p \notin used /\ \A q \in 0 .. p - 1 : q \in used
          /\ used' = used \cup {p} /\ heap_pages' = {p}
          /\ heap_start' = PageToAddr(p) /\ heap_current' = PageToAddr(p)
    BY <1>1 DEF KheapInit, FirstFree
  <2>2. /\ pc = "boot" /\ pc' = "kmalloc"
        /\ UNCHANGED <<last_page_allocated, callVars, booting, held, pcbs, leaked,
                       creations>>
    BY <1>1 DEF KheapInit
  <2>3. /\ used = Reserved /\ held = {} /\ leaked = {} /\ booting
        /\ last_page_allocated = 0 /\ pcbs = {} /\ caller = "none"
    BY <1>a, <1>b, <2>2 DEF Local, BeforeHeap
  <2>4. p = RESERVED_PAGES
    BY <1>c, <2>1, <2>3, MemoryAssumption DEF Reserved
  <2>5. Taken' = Reserved \cup {RESERVED_PAGES} /\ used' = Taken' /\ InHand' = {}
    BY <2>1, <2>2, <2>3, <2>4 DEF Taken, InHand
  <2>6. TakenUpTo(0)'
    <3>1. \A q \in Pages : (q - RESERVED_PAGES) * PAGE_SIZE <= 0 =>
            q \in Reserved \cup {RESERVED_PAGES}
      <4> SUFFICES ASSUME NEW q \in Pages, (q - RESERVED_PAGES) * PAGE_SIZE <= 0
                   PROVE  q \in Reserved \cup {RESERVED_PAGES}
        OBVIOUS
      <4>1. q - RESERVED_PAGES \in Int /\ 0 * PAGE_SIZE = 0
        BY <1>c, MemoryAssumption
      <4>2. q - RESERVED_PAGES <= 0
        BY <4>1, TimesMonotone, MemoryAssumption
      <4> QED
        BY <1>c, <4>2, MemoryAssumption DEF Reserved
    <3> QED
      BY <3>1, <2>5 DEF TakenUpTo
  <2>7. BeforeHeap' /\ AfterFirst'
    BY <2>2, <2>3 DEF BeforeHeap, AfterFirst
  <2>8. FirstKmalloc'
    BY <2>1, <2>2, <2>3, <2>4, <2>5, <2>6
    DEF FirstKmalloc, Allocating, HeapStart, TakenUpTo
  <2>9. Growth'
    <3>1. /\ heap_start' = HeapStart /\ heap_current' = HeapStart /\ pcbs' = {}
          /\ creations' = creations /\ ~ServingKernel'
      BY <2>1, <2>2, <2>3, <2>4 DEF HeapStart, ServingKernel, Allocating
    <3> QED
      BY <1>d, <1>e, <2>2, <3>1, MemoryAssumption DEF Growth
  <2> QED
    BY <2>7, <2>8, <2>9 DEF HeapInv
<1>2. CASE AllocCall \/ FreeCall \/ CreateCall
  <2>1. /\ pc = "idle" /\ pc' \in {"alloc_set", "free_clear", "kmalloc"}
        /\ UNCHANGED <<heapVars, booting, histVars>>
    BY <1>2 DEF AllocCall, FreeCall, CreateCall
  <2>2. ~booting
    BY <1>b, <2>1 DEF FirstKmalloc
  <2>3. BeforeHeap' /\ FirstKmalloc'
    BY <2>1, <2>2 DEF BeforeHeap, FirstKmalloc
  <2>4. AfterFirst'
    BY <1>b, <2>1, <2>2 DEF AfterFirst, TakenUpTo, Taken, heapVars, histVars
  <2>5. /\ heap_start = HeapStart /\ heap_current >= HeapStart
        /\ heap_current > HeapStart => heap_current <= HEAP_END
        /\ heap_current <= HeapStart + (creations + 1) * PCB_SIZE
        /\ \A a \in pcbs : a >= HeapStart /\ a + PCB_SIZE <= heap_current
    BY <1>a, <1>b, <1>d, <1>e, <2>1 DEF Growth, TypeOK
  <2>6. ~ServingKernel'
    <3>1. pc' = "alloc_set" => caller' = "program"
      BY <1>2 DEF AllocCall, FreeCall, CreateCall
    <3> QED
      BY <2>1, <3>1 DEF ServingKernel, Allocating
  <2>7. heap_current + (IF pc' = "kmalloc" THEN PCB_SIZE ELSE 0)
          <= HeapStart + (creations' + 1) * PCB_SIZE
    <3>1. CASE pc' = "kmalloc"
      <4>1. creations' = creations + 1
        BY <1>2, <3>1 DEF AllocCall, FreeCall, CreateCall
      <4>2. (creations + 1 + 1) * PCB_SIZE = (creations + 1) * PCB_SIZE + PCB_SIZE
        BY <1>a, MemoryAssumption, SMT DEF TypeOK
      <4> QED
        BY <1>a, <1>d, <1>e, <2>5, <3>1, <4>1, <4>2, MemoryAssumption DEF TypeOK
    <3>2. CASE pc' # "kmalloc"
      <4>1. creations' = creations
        BY <1>2, <3>2 DEF AllocCall, FreeCall, CreateCall
      <4> QED
        BY <1>a, <2>5, <3>2, <4>1 DEF TypeOK
    <3> QED
      BY <3>1, <3>2
  <2>8. Growth'
    BY <2>1, <2>5, <2>6, <2>7 DEF Growth, heapVars, histVars
  <2> QED
    BY <2>3, <2>4, <2>8 DEF HeapInv
<1>3. CASE KmallocBump
  <2>1. pc = "kmalloc" /\ UNCHANGED <<used, heap_start, last_page_allocated, histVars,
                                      creations>>
    BY <1>3 DEF KmallocBump, heapVars
  <2>2. CASE heap_current + PCB_SIZE <= HEAP_END
    <3>1. /\ pc' = "cover" /\ ptr' = heap_current
          /\ heap_current' = heap_current + PCB_SIZE /\ booting' = booting
      BY <1>3, <2>2, <1>a, MemoryAssumption DEF KmallocBump, TypeOK
    <3>2. InHand = {} /\ InHand' = {}
      BY <2>1, <3>1 DEF InHand
    <3>3. BeforeHeap' /\ FirstKmalloc'
      BY <1>b, <2>1, <3>1, <3>2
      DEF BeforeHeap, FirstKmalloc, Allocating, Taken, TakenUpTo, histVars
    <3>4. AfterFirst'
      BY <1>b, <2>1, <2>2, <3>1, <1>a, MemoryAssumption
      DEF AfterFirst, TakenUpTo, Taken, histVars, TypeOK
    <3>5. Growth'
      <4>1. /\ heap_start' = HeapStart /\ heap_current' > HeapStart
            /\ heap_current' <= HEAP_END
            /\ ptr' >= HeapStart /\ ptr' + PCB_SIZE <= heap_current'
        BY <1>a, <1>b, <1>d, <2>1, <2>2, <3>1, MemoryAssumption DEF Growth, TypeOK
      <4>2. heap_current' <= HeapStart + (creations + 1) * PCB_SIZE /\ pc' # "kmalloc"
        BY <1>b, <2>1, <3>1 DEF Growth
      <4>3. \A a \in pcbs : a >= HeapStart /\ a + PCB_SIZE <= heap_current'
        BY <1>a, <1>b, <2>1, <3>1, MemoryAssumption DEF Growth, TypeOK
      <4>4. heap_current' \in Nat
        BY <1>a, <3>1, MemoryAssumption DEF TypeOK
      <4> QED
        BY <1>d, <1>e, <2>1, <4>1, <4>2, <4>3, <4>4 DEF Growth, histVars
    <3> QED
      BY <3>3, <3>4, <3>5 DEF HeapInv
  <2>3. CASE heap_current + PCB_SIZE > HEAP_END
    <3>1. pc' = "idle" /\ ~booting' /\ heap_current' = heap_current
      BY <1>3, <2>3, <1>a, MemoryAssumption DEF KmallocBump, Done, heapVars, TypeOK
    <3>2. BeforeHeap' /\ FirstKmalloc'
      BY <3>1 DEF BeforeHeap, FirstKmalloc
    <3>3. AfterFirst'
      BY <1>b, <2>1, <2>3, <3>1 DEF AfterFirst, FirstKmalloc, TakenUpTo, Taken, histVars
    <3>4. Growth'
      <4>1. ~ServingKernel'
        BY <3>1 DEF ServingKernel, Allocating
      <4>2. heap_current <= HeapStart + (creations + 1) * PCB_SIZE
        BY <1>a, <1>b, <1>d, <1>e, <2>1, MemoryAssumption DEF Growth, TypeOK
      <4> QED
        BY <1>a, <1>b, <2>1, <3>1, <4>1, <4>2 DEF Growth, histVars, TypeOK
    <3> QED
      BY <3>2, <3>3, <3>4 DEF HeapInv
  <2> QED
    BY <2>2, <2>3, <1>a, MemoryAssumption DEF TypeOK
<1>4. CASE KmallocCover
  <2>1. pc = "cover" /\ UNCHANGED <<used, heapVars, held, heap_pages, leaked, creations>>
    BY <1>4 DEF KmallocCover, histVars
  <2>2. CASE last_page_allocated < CoverEnd
    <3>1. /\ pc' = "alloc_set" /\ caller' = "heap"
          /\ UNCHANGED <<booting, ptr, pcbs>>
      <4>1. CoverEnd \in Int
        BY <1>a, MemoryAssumption, SMT DEF CoverEnd, RoundUp, TypeOK
      <4> QED
        BY <1>4, <2>2, <1>a, <4>1 DEF KmallocCover, histVars, TypeOK
    <3>2. InHand = {} /\ InHand' = {}
      BY <2>1, <3>1 DEF InHand
    <3>3. BeforeHeap' /\ FirstKmalloc'
      BY <1>b, <2>1, <3>1, <3>2
      DEF BeforeHeap, FirstKmalloc, Allocating, Taken, TakenUpTo, heapVars
    <3>4. AfterFirst'
      BY <1>b, <2>1, <3>1 DEF AfterFirst, TakenUpTo, Taken, heapVars
    <3>5. Growth'
      BY <1>b, <2>1, <3>1 DEF Growth, ServingKernel, heapVars
    <3> QED
      BY <3>3, <3>4, <3>5 DEF HeapInv
  <2>3. CASE last_page_allocated >= CoverEnd
    <3>1. CoverEnd \in Int
      BY <1>a, MemoryAssumption, SMT DEF CoverEnd, RoundUp, TypeOK
    <3>2. pc' = "idle" /\ ~booting' /\ pcbs' = pcbs \cup {ptr}
      BY <1>4, <2>3, <3>1, <1>a DEF KmallocCover, Done, TypeOK
    <3>3. BeforeHeap' /\ FirstKmalloc'
      BY <3>2 DEF BeforeHeap, FirstKmalloc
    <3>4. TakenUpTo(FirstEnd)
      <4>1. CASE booting
        <5>1. TakenUpTo(last_page_allocated) /\ heap_current = HeapStart + PCB_SIZE
          BY <1>b, <2>1, <4>1 DEF FirstKmalloc
        <5>2. FirstEnd <= last_page_allocated
          BY <2>3, <5>1 DEF CoverEnd, FirstEnd
        <5>3. \A p \in Pages : (p - RESERVED_PAGES) * PAGE_SIZE \in Int
          BY <1>c, MemoryAssumption, SMT
        <5> QED
          BY <1>a, <1>d, <5>1, <5>2, <5>3 DEF TakenUpTo, TypeOK
      <4>2. CASE ~booting
        <5>1. ptr >= HeapStart /\ ptr + PCB_SIZE <= heap_current
          BY <1>b, <2>1 DEF Growth, ServingKernel
        <5>2. heap_current # HeapStart
          BY <1>a, <1>d, <5>1, MemoryAssumption DEF TypeOK
        <5> QED
          BY <1>b, <4>2, <5>2 DEF AfterFirst
      <4> QED
        BY <4>1, <4>2
    <3>5. AfterFirst'
      BY <2>1, <3>2, <3>4 DEF AfterFirst, TakenUpTo, Taken
    <3>6. Growth'
      <4>1. ~ServingKernel'
        BY <3>2 DEF ServingKernel, Allocating
      <4>2. ptr >= HeapStart /\ ptr + PCB_SIZE <= heap_current
        BY <1>b, <2>1 DEF Growth, ServingKernel
      <4> QED
        BY <1>b, <2>1, <3>2, <4>1, <4>2 DEF Growth, heapVars
    <3> QED
      BY <3>3, <3>5, <3>6 DEF HeapInv
  <2> QED
    <3>1. CoverEnd \in Int
      BY <1>a, MemoryAssumption, SMT DEF CoverEnd, RoundUp, TypeOK
    <3> QED
      BY <1>a, <2>2, <2>3, <3>1 DEF TypeOK
<1>5. CASE AllocSet
  <2>1. /\ pc = "alloc_set"
        /\ UNCHANGED <<heapVars, caller, ptr, booting, histVars, creations>>
    BY <1>5 DEF AllocSet
  <2>2. pc' \in {"alloc_count", "alloc_return"}
    BY <1>5 DEF AllocSet
  <2>3. BeforeHeap' /\ AfterFirst'
    BY <1>b, <2>1, <2>2
    DEF BeforeHeap, AfterFirst, TakenUpTo, Taken, heapVars, histVars
  <2>4. Growth'
    BY <1>b, <2>1, <2>2 DEF Growth, ServingKernel, Allocating, heapVars, histVars
  <2>5. FirstKmalloc'
    <3> SUFFICES ASSUME booting PROVE FirstKmalloc'
      BY <2>1 DEF FirstKmalloc
    <3>1. /\ caller = "heap" /\ held = {} /\ pcbs = {} /\ used = Taken
          /\ TakenUpTo(last_page_allocated) /\ heap_current = HeapStart + PCB_SIZE
      BY <1>b, <2>1 DEF FirstKmalloc, Allocating, InHand
    <3>2. /\ used' = Taken \cup InHand'
          /\ \A q \in Pages : (page' = NoPage \/ q < page') => q \in Taken
      <4>1. CASE pc' = "alloc_count"
        <5>1. PICK p \in Pages :
                /\ p \notin used /\ \A q \in 0 .. p - 1 : q \in used
                /\ page' = p /\ used' = used \cup {p}
          BY <1>5, <4>1 DEF AllocSet, FirstFree
        <5>2. InHand' = {p} /\ page' # NoPage
          BY <1>c, <4>1, <5>1 DEF InHand
        <5> QED
          BY <1>c, <3>1, <5>1, <5>2
      <4>2. CASE pc' = "alloc_return"
        <5>1. page' = NoPage /\ used' = used /\ Pages \subseteq used
          BY <1>5, <4>2 DEF AllocSet
        <5>2. InHand' = {}
          BY <4>2, <5>1 DEF InHand
        <5> QED
          BY <3>1, <5>1, <5>2
      <4> QED
        BY <2>2, <4>1, <4>2
    <3> QED
      BY <2>1, <2>2, <3>1, <3>2
      DEF FirstKmalloc, TakenUpTo, Taken, heapVars, histVars
  <2> QED
    BY <2>3, <2>4, <2>5 DEF HeapInv
<1>6. CASE AllocCount
  <2>1. /\ pc = "alloc_count" /\ pc' = "alloc_return"
        /\ UNCHANGED <<used, heapVars, callVars, booting, histVars, creations>>
    BY <1>6 DEF AllocCount
  <2>2. InHand' = InHand
    BY <2>1 DEF InHand, callVars
  <2>3. BeforeHeap' /\ FirstKmalloc'
    BY <1>b, <2>1, <2>2
    DEF BeforeHeap, FirstKmalloc, Allocating, Taken, TakenUpTo, heapVars, callVars, histVars
  <2>4. AfterFirst' /\ Growth'
    BY <1>b, <2>1 DEF AfterFirst, Growth, TakenUpTo, Taken, ServingKernel, Allocating,
      heapVars, callVars, histVars
  <2> QED
    BY <2>3, <2>4 DEF HeapInv
<1>7. CASE AllocReturn
  <2>1. /\ pc = "alloc_return" /\ InHand = {page} \ {NoPage}
        /\ page \in Pages \cup {NoPage}
        /\ UNCHANGED <<used, heap_start, heap_current, booting, pcbs, leaked, creations>>
    BY <1>a, <1>7 DEF AllocReturn, Local, InHand
  <2>2. CASE caller = "program"
    <3>1. /\ ~booting /\ pc' = "idle" /\ UNCHANGED <<heap_pages, last_page_allocated>>
      BY <1>b, <1>7, <2>1, <2>2 DEF AllocReturn, Done, FirstKmalloc, Allocating
    <3>2. BeforeHeap' /\ FirstKmalloc' /\ AfterFirst'
      BY <1>b, <2>1, <3>1 DEF BeforeHeap, FirstKmalloc, AfterFirst, TakenUpTo, Taken
    <3>3. Growth'
      BY <1>b, <2>1, <3>1 DEF Growth, ServingKernel, Allocating
    <3> QED
      BY <3>2, <3>3 DEF HeapInv
  <2>3. CASE caller = "heap"
    <3>1. /\ pc' = "cover" /\ heap_pages' = heap_pages \cup InHand
          /\ last_page_allocated' = last_page_allocated + PAGE_SIZE
          /\ UNCHANGED <<held, ptr>> /\ InHand' = {}
      BY <1>7, <2>1, <2>3 DEF AllocReturn, InHand, CoveredNext
    <3>2. Taken' = Taken \cup InHand
      BY <3>1 DEF Taken
    <3>3. BeforeHeap' /\ AfterFirst'
      BY <1>b, <2>1, <3>1, <3>2 DEF BeforeHeap, AfterFirst, TakenUpTo
    <3>4. Growth'
      BY <1>b, <2>1, <2>3, <3>1 DEF Growth, ServingKernel, Allocating
    <3>5. FirstKmalloc'
      <4> SUFFICES ASSUME booting PROVE FirstKmalloc'
        BY <2>1 DEF FirstKmalloc
      <4>1. /\ held = {} /\ pcbs = {} /\ used = Taken \cup InHand
            /\ TakenUpTo(last_page_allocated)
            /\ \A q \in Pages : (page = NoPage \/ q < page) => q \in Taken
            /\ heap_current = HeapStart + PCB_SIZE
        BY <1>b, <2>1 DEF FirstKmalloc
      <4>2. \A q \in Pages : (q - RESERVED_PAGES) * PAGE_SIZE
                                <= last_page_allocated + PAGE_SIZE
              => q \in Taken \cup InHand
        <5> SUFFICES ASSUME NEW q \in Pages, q \notin Taken \cup InHand,
                            (q - RESERVED_PAGES) * PAGE_SIZE
                              <= last_page_allocated + PAGE_SIZE
                     PROVE  FALSE
          OBVIOUS
        <5>1. page \in Pages /\ page < q /\ page \notin Taken
          <6>1. page # NoPage /\ ~(q < page)
            BY <4>1
          <6>2. page \in Pages /\ page \in InHand /\ page # q
            BY <2>1, <6>1
          <6>3. page \notin Taken
            BY <1>a, <6>2 DEF OwnersApart, Taken
          <6> QED
            BY <1>c, <6>1, <6>2, <6>3
        <5>2. (page - RESERVED_PAGES) * PAGE_SIZE <= last_page_allocated
          <6> DEFINE x == page - RESERVED_PAGES
                     y == q - RESERVED_PAGES
          <6>1. x \in Int /\ y - 1 \in Int /\ y \in Int /\ x <= y - 1
            BY <1>c, <5>1, MemoryAssumption
          <6>2. x * PAGE_SIZE <= (y - 1) * PAGE_SIZE
            BY <6>1, TimesMonotone, MemoryAssumption
          <6>3. (y - 1) * PAGE_SIZE = y * PAGE_SIZE - PAGE_SIZE
            BY <6>1, MemoryAssumption, SMT
          <6>4. x * PAGE_SIZE \in Int /\ y * PAGE_SIZE \in Int
            BY <6>1, MemoryAssumption, SMT
          <6>5. y * PAGE_SIZE <= last_page_allocated + PAGE_SIZE
            OBVIOUS
          <6> HIDE DEF x, y
          <6>6. x * PAGE_SIZE <= last_page_allocated
            BY <1>a, <6>2, <6>3, <6>4, <6>5, MemoryAssumption DEF TypeOK
          <6> QED
            BY <6>6 DEF x
        <5> QED
          BY <4>1, <5>1, <5>2 DEF TakenUpTo
      <4> QED
        BY <2>1, <3>1, <3>2, <4>1, <4>2 DEF FirstKmalloc, Allocating, TakenUpTo
    <3> QED
      BY <3>3, <3>4, <3>5 DEF HeapInv
  <2> QED
    BY <1>7, <2>2, <2>3 DEF AllocReturn
<1>8. CASE FreeClear \/ FreeCount \/ Abandon
  <2>1. /\ pc' \in {"idle", "free_count"} /\ pc # "boot"
        /\ booting' = booting /\ (Abandon => ~booting)
        /\ UNCHANGED <<heapVars, heap_pages, pcbs, creations>>
    BY <1>b, <1>8 DEF FreeClear, FreeCount, Abandon, Done, histVars, BeforeHeap
  <2>2. ~booting
    BY <1>b, <1>8, <2>1 DEF FreeClear, FreeCount, FirstKmalloc
  <2>3. BeforeHeap' /\ FirstKmalloc' /\ AfterFirst'
    BY <1>b, <2>1, <2>2
    DEF BeforeHeap, FirstKmalloc, AfterFirst, TakenUpTo, Taken, heapVars
  <2>4. heap_current <= HeapStart + (creations + 1) * PCB_SIZE
    BY <1>a, <1>b, <1>d, <1>e, <2>1, MemoryAssumption DEF Growth, TypeOK
  <2>5. Growth'
    <3>1. ~ServingKernel'
      BY <2>1 DEF ServingKernel, Allocating
    <3> QED
      BY <1>a, <1>b, <2>1, <2>4, <3>1 DEF Growth, heapVars, TypeOK
  <2> QED
    BY <2>3, <2>5 DEF HeapInv
<1>9. CASE UNCHANGED vars
  <2>1. BeforeHeap' /\ FirstKmalloc'
    BY <1>b, <1>9 DEF vars, BeforeHeap, FirstKmalloc, Allocating, Taken, TakenUpTo,
      InHand, heapVars, callVars, histVars
  <2>2. AfterFirst' /\ Growth'
    BY <1>b, <1>9 DEF vars, AfterFirst, Growth, Taken, TakenUpTo, ServingKernel,
      Allocating, heapVars, callVars, histVars
  <2> QED
    BY <2>1, <2>2 DEF HeapInv
<1> QED
  BY <1>1, <1>2, <1>3, <1>4, <1>5, <1>6, <1>7, <1>8, <1>9 DEF Next, Kernel

LEMMA HeapAlways == Spec => [](IInv /\ HeapInv)
  BY InitInv, StepInv, HeapInit, HeapStep, PTL DEF Spec

-----------------------------------------------------------------------------
\* The heap keeps within the pages of its first kmalloc: because the identity map
\* ends there, or because no more PCBs are asked for than fit (20000 and more).
HeapHasRoom == \/ HEAP_END <= HeapStart + FirstEnd
               \/ (MAX_CREATIONS + 1) * PCB_SIZE <= FirstEnd

\* There is memory behind the heap's addresses.
HeapInMemory == \/ HEAP_END <= PageToAddr(TOTAL_PAGES)
                \/ HeapStart + (MAX_CREATIONS + 1) * PCB_SIZE <= PageToAddr(TOTAL_PAGES)

LEMMA HeapBounded ==
  ASSUME IInv, HeapInv, heap_current # heap_start, pc # "boot"
  PROVE  /\ TakenUpTo(FirstEnd) \/ booting
         /\ HeapHasRoom => heap_current <= HeapStart + FirstEnd
         /\ HeapInMemory => heap_current <= PageToAddr(TOTAL_PAGES)
<1>1. TypeOK /\ HeapStart \in Nat /\ FirstEnd \in Nat
  BY HeapSizes DEF IInv
<1>2. heap_start = HeapStart /\ heap_current > HeapStart /\ heap_current <= HEAP_END
  BY <1>1 DEF HeapInv, Growth, TypeOK
<1>3. TakenUpTo(FirstEnd) \/ booting
  BY <1>2 DEF HeapInv, AfterFirst
<1>4. heap_current <= HeapStart + (MAX_CREATIONS + 1) * PCB_SIZE
  <2> DEFINE x == creations + 1
             y == MAX_CREATIONS + 1
  <2>1. x \in Int /\ y \in Int /\ x <= y
    BY <1>1, MemoryAssumption DEF TypeOK
  <2>2. x * PCB_SIZE <= y * PCB_SIZE
    BY <2>1, TimesMonotone, MemoryAssumption
  <2>3. heap_current <= HeapStart + x * PCB_SIZE
    <3>1. x * PCB_SIZE \in Int
      BY <2>1, MemoryAssumption, SMT
    <3>2. heap_current + (IF pc = "kmalloc" THEN PCB_SIZE ELSE 0)
            <= HeapStart + x * PCB_SIZE
      BY DEF HeapInv, Growth
    <3> HIDE DEF x
    <3> QED
      BY <1>1, <3>1, <3>2, MemoryAssumption DEF TypeOK
  <2>4. x * PCB_SIZE \in Int /\ y * PCB_SIZE \in Int
    BY <2>1, MemoryAssumption, SMT
  <2> HIDE DEF x, y
  <2>5. heap_current <= HeapStart + y * PCB_SIZE
    BY <1>1, <2>2, <2>3, <2>4 DEF TypeOK
  <2> QED
    BY <2>5 DEF y
<1>5. (MAX_CREATIONS + 1) * PCB_SIZE \in Int /\ PageToAddr(TOTAL_PAGES) \in Int
  BY MemoryAssumption, SMT DEF PageToAddr
<1>6. HeapHasRoom => heap_current <= HeapStart + FirstEnd
  BY <1>1, <1>2, <1>4, <1>5, MemoryAssumption DEF HeapHasRoom, TypeOK
<1>7. HeapInMemory => heap_current <= PageToAddr(TOTAL_PAGES)
  BY <1>1, <1>2, <1>4, <1>5, MemoryAssumption DEF HeapInMemory, TypeOK
<1> QED
  BY <1>3, <1>6, <1>7

\* A page between addresses of the heap that the kernel's pages reach.
LEMMA HeapPageTaken ==
  ASSUME TakenUpTo(FirstEnd), heap_current \in Nat, heap_current <= HeapStart + FirstEnd,
         NEW a \in Nat, NEW b \in Nat, a >= HeapStart, b < heap_current,
         NEW p \in AddrToPage(a) .. AddrToPage(b), p \in Pages
  PROVE  p \in Taken
<1>1. p \in Int /\ (p - RESERVED_PAGES) * PAGE_SIZE <= b - HeapStart
  BY HeapPage
<1>2. (p - RESERVED_PAGES) * PAGE_SIZE \in Int
  BY <1>1, MemoryAssumption, SMT
<1>3. (p - RESERVED_PAGES) * PAGE_SIZE <= FirstEnd
  BY <1>1, <1>2, HeapSizes
<1> QED
  BY <1>3 DEF TakenUpTo

\* No program's page lies in the heap, however the calls interleave and whatever
\* the timer abandons, while the heap keeps within its first pages.
THEOREM HeapAlwaysClearOfPrograms ==
  ASSUME HeapHasRoom
  PROVE  Spec => []HeapClearOfPrograms
<1>1. ASSUME IInv, HeapInv PROVE HeapClearOfPrograms
  <2>1. TypeOK /\ OwnersApart /\ HeapStart \in Nat
    BY <1>1, HeapSizes DEF IInv
  <2>2. CASE pc = "boot"
    BY <1>1, <2>2 DEF IInv, Local, HeapClearOfPrograms
  <2>3. CASE heap_current = heap_start
    BY <2>3 DEF HeapClearOfPrograms, HeapRegion
  <2>4. CASE pc # "boot" /\ heap_current # heap_start
    <3>1. CASE booting
      BY <1>1, <2>4, <3>1 DEF HeapInv, FirstKmalloc, HeapClearOfPrograms
    <3>2. CASE ~booting
      <4>1. TakenUpTo(FirstEnd) /\ heap_current <= HeapStart + FirstEnd
        BY <1>1, <2>4, <3>2, HeapBounded
      <4>2. heap_start = HeapStart /\ heap_current > HeapStart
        BY <1>1, <2>1, <2>4 DEF HeapInv, Growth, TypeOK
      <4>3. heap_current - 1 \in Nat /\ heap_current - 1 < heap_current
        BY <2>1, <4>2 DEF TypeOK
      <4>4. ASSUME NEW p \in HeapRegion, p \in held PROVE FALSE
        <5>1. p \in Pages /\ p \in AddrToPage(heap_start) .. AddrToPage(heap_current - 1)
          BY <2>1, <2>4, <4>4 DEF HeapRegion, TypeOK
        <5>2. p \in Taken
          BY <2>1, <4>1, <4>2, <4>3, <5>1, HeapPageTaken DEF TypeOK
        <5> QED
          BY <2>1, <4>4, <5>2 DEF Taken, OwnersApart
      <4> QED
        BY <4>4 DEF HeapClearOfPrograms
    <3> QED
      BY <3>1, <3>2
  <2> QED
    BY <2>2, <2>3, <2>4
<1> QED
  BY <1>1, HeapAlways, PTL

\* Every PCB stays in pages that are marked, even when memory ran out at boot.
THEOREM PcbsAlwaysBacked ==
  ASSUME HeapHasRoom, HeapInMemory
  PROVE  Spec => []PcbsBacked
<1>1. ASSUME IInv, HeapInv PROVE PcbsBacked
  <2>1. TypeOK /\ OwnersApart /\ HeapStart \in Nat
    BY <1>1, HeapSizes DEF IInv
  <2> SUFFICES ASSUME NEW a \in pcbs, NEW p \in AddrToPage(a) .. AddrToPage(a + PCB_SIZE - 1)
               PROVE  p \in used
    BY DEF PcbsBacked
  <2>2. ~booting /\ pc # "boot"
    BY <1>1 DEF HeapInv, BeforeHeap, FirstKmalloc
  <2>3. a \in Nat /\ a >= HeapStart /\ a + PCB_SIZE <= heap_current
    BY <1>1, <2>1, <2>2 DEF HeapInv, Growth, TypeOK
  <2>4. heap_start = HeapStart /\ heap_current # heap_start /\ heap_current \in Nat
    BY <1>1, <2>1, <2>2, <2>3, MemoryAssumption DEF HeapInv, Growth, TypeOK
  <2>5. /\ TakenUpTo(FirstEnd) /\ heap_current <= HeapStart + FirstEnd
        /\ heap_current <= PageToAddr(TOTAL_PAGES)
    BY <1>1, <2>2, <2>4, HeapBounded
  <2> DEFINE b == a + PCB_SIZE - 1
  <2>6. b \in Nat /\ b < heap_current
    BY <2>3, <2>4, MemoryAssumption
  <2>7. p \in Int /\ p >= RESERVED_PAGES /\ p <= AddrToPage(b)
    <3>1. AddrToPage(a) \in Int /\ AddrToPage(b) \in Int
      BY <2>3, <2>6, InItsPage
    <3>2. p \in AddrToPage(a) .. AddrToPage(b)
      OBVIOUS
    <3> HIDE DEF b
    <3> QED
      BY <2>3, <2>6, <3>1, <3>2, HeapPage
  <2>8. p < TOTAL_PAGES
    <3> DEFINE x == TOTAL_PAGES + START_PAGES
               y == AddrToPage(b) + START_PAGES
    <3> HIDE DEF b
    <3>1. x \in Int /\ y \in Int /\ y * PAGE_SIZE <= b
      BY <2>6, InItsPage, MemoryAssumption
    <3>2. b < x * PAGE_SIZE
      <4>1. PageToAddr(TOTAL_PAGES) = x * PAGE_SIZE /\ x * PAGE_SIZE \in Int
        BY MemoryAssumption, SMT DEF PageToAddr
      <4> HIDE DEF x
      <4> QED
        BY <2>4, <2>5, <2>6, <4>1
    <3>3. x <= y <=> x * PAGE_SIZE <= y * PAGE_SIZE
      BY <3>1, TimesMonotone, MemoryAssumption
    <3>4. x * PAGE_SIZE \in Int /\ y * PAGE_SIZE \in Int
      BY <3>1, MemoryAssumption, SMT
    <3> HIDE DEF x, y
    <3>5. ~(x <= y)
      BY <2>6, <3>1, <3>2, <3>3, <3>4
    <3>6. y < x
      BY <3>1, <3>5
    <3>7. AddrToPage(b) \in Int
      BY <2>6, InItsPage
    <3> QED
      BY <2>7, <3>6, <3>7, MemoryAssumption DEF x, y
  <2>9. p \in Pages
    BY <2>7, <2>8, MemoryAssumption DEF Pages
  <2>10. p \in Taken
    <3>1. p \in AddrToPage(a) .. AddrToPage(b)
      OBVIOUS
    <3> HIDE DEF b
    <3> QED
      BY <2>3, <2>4, <2>5, <2>6, <2>9, <3>1, HeapPageTaken
  <2> QED
    BY <2>1, <2>10 DEF Taken, OwnersApart
<1> QED
  BY <1>1, HeapAlways, PTL
=============================================================================
