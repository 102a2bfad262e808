-------------------------------- MODULE Paging --------------------------------
(***************************************************************************)
(* What kernel_main does to memory before the first process: pmm_init      *)
(* (pmm.c), paging_init (paging.c), the map of the framebuffer and the     *)
(* copy of orbit (kernel.c), on machines of different sizes with different *)
(* modules.  One processor, interrupts off or without effect on this       *)
(* state: the steps have one order, and what varies is the machine.  Boot  *)
(* takes them in turn, between the other steps of kernel_main.             *)
(*                                                                         *)
(* A frame is a page of physical memory, numbered from address 0; a page   *)
(* of the bitmap is numbered from memory_start.  The words of a frame are  *)
(* the entries of a directory or a table: Absent, or the frame they map;   *)
(* the flags are the same everywhere.  Junk is anything else.              *)
(***************************************************************************)
EXTENDS Integers, FiniteSets, Sequences, SequencesExt

CONSTANTS
  PAGE_SIZE,          \* bytes of a page (4096)
  ENTRIES,            \* entries of a directory or table (1024)
  MB,                 \* 0x100000, where memory_start is
  IDENTITY_MAP_SIZE,  \* the least the identity map is taken to need (32 MB)
  KERNEL_SPACE,       \* identity_map_end in the end (128 MB)
  FB_ADDR, FB_SIZE,   \* the framebuffer
  ORBIT_BASE,         \* where orbit is linked (3 MB)
  WORD_BITS,          \* pages of a word of the bitmap (32)
  WORD_SIZE,          \* bytes of such a word (4)
  Machines            \* [total_pages, kernel_end, mods : sequence of [start, end]]

Up(addr, unit) == ((addr + unit - 1) \div unit) * unit

\* pmm_init puts the bitmap on the page behind kernel and modules.
Ends(mach)       == {mach.kernel_end} \cup {mod.end : mod \in Range(mach.mods)}
BitmapAddr(mach) == Up(Max(Ends(mach)), PAGE_SIZE)
BitmapEnd(mach)  == BitmapAddr(mach)
                      + (Up(mach.total_pages, WORD_BITS) \div WORD_BITS) * WORD_SIZE

ASSUME PagingAssumption ==
  /\ {PAGE_SIZE, ENTRIES, MB, WORD_BITS, WORD_SIZE} \subseteq Nat \ {0}
  /\ {IDENTITY_MAP_SIZE, KERNEL_SPACE, FB_ADDR, FB_SIZE, ORBIT_BASE} \subseteq Nat
  /\ {a % PAGE_SIZE : a \in {MB, KERNEL_SPACE, FB_ADDR, ORBIT_BASE}} = {0}
  /\ IDENTITY_MAP_SIZE % (ENTRIES * PAGE_SIZE) = 0
  /\ MB > 1 /\ MB < KERNEL_SPACE
  /\ ORBIT_BASE <= 2 * MB + ENTRIES * PAGE_SIZE
  /\ KERNEL_SPACE <= FB_ADDR /\ FB_ADDR + FB_SIZE <= ENTRIES * ENTRIES * PAGE_SIZE
  \* The boot loader has put kernel and modules one behind the other into memory,
  \* and the bitmap and one page more fit behind them.
  /\ \A mach \in Machines :
       /\ {mach.total_pages, mach.kernel_end} \subseteq Nat /\ mach.kernel_end > MB
       /\ mach.mods \in Seq([start : Nat, end : Nat])
       /\ \A i \in DOMAIN mach.mods :
            /\ mach.kernel_end <= mach.mods[i].start /\ mach.mods[i].start < mach.mods[i].end
            /\ \A j \in DOMAIN mach.mods : i < j => mach.mods[i].end <= mach.mods[j].start
       /\ \A end \in Ends(mach) : end <= MB + mach.total_pages * PAGE_SIZE
       /\ BitmapEnd(mach) + PAGE_SIZE < MB + mach.total_pages * PAGE_SIZE
       /\ MB + mach.total_pages * PAGE_SIZE <= FB_ADDR

VARIABLES
  machine,
  used,       \* pages whose bit is set in bitmap
  used_pages,
  mem,        \* the frames of physical memory
  dir,        \* the frame of kernel_page_directory; 0 before it has one
  enabled,    \* paging is on
  pc, addr,   \* the next step of kernel_main; the address to map next
  exhausted   \* history: pmm_alloc_page had no page to give

bitmapVars == <<used, used_pages>>
vars == <<machine, bitmapVars, mem, dir, enabled, pc, addr, exhausted>>

Absent == -1
Junk   == -2
Labels == {"kernel", "modules", "bitmap", "framebuffer", "directory", "reserve",
           "identity", "enable", "map_fb", "orbit", "ready", "idle", "stopped"}

Start    == MB \div PAGE_SIZE
Pages    == 0 .. machine.total_pages - 1
Entries  == 0 .. ENTRIES - 1
Frame(a) == a \div PAGE_SIZE
Frames(from, to) == Frame(from) .. Frame(Up(to, PAGE_SIZE)) - 1

-----------------------------------------------------------------------------
(***************************************************************************)
(* The expressions of the code that decide and update.  A name that ends   *)
(* in a slip is the bug whose absence the properties below depend on; no   *)
(* action uses it.                                                         *)
(***************************************************************************)
\* The pages pmm_mark_region_used marks, down from the first byte and up to the last.
RegionUnbounded(from, to) == {f - Start : f \in Frames(from, to)}
RegionInside(from, to)    == {p \in Pages : p + Start \in Frame(from) .. Frame(to) - 1}
Region(from, to)          == {p \in Pages : p + Start \in Frames(from, to)}

AddedAll(region) == Cardinality(region)
Added(region)    == Cardinality(region \ used)

\* find_highest_used_address, and the end of what paging_init reserves, at first and
\* with room for the tables behind the directory.
Highest == Max({IDENTITY_MAP_SIZE} \cup
               {Up(end + MB, ENTRIES * PAGE_SIZE) : end \in {2 * MB} \cup Ends(machine)})
ReservationEnd == Up(Highest + MB \div 2, ENTRIES * PAGE_SIZE)
ActualUsedFound == BitmapEnd(machine)
ActualUsed      == Up(Max({ReservationEnd, dir * PAGE_SIZE + MB}), ENTRIES * PAGE_SIZE)

\* The bitmap after pmm_alloc_page.
TakenNot(page) == used
Taken(page)    == used \cup {page}

\* The indices of a virtual page.
DirIndexLow(v) == v % ENTRIES
DirIndex(v)    == v \div ENTRIES
TableIndex(v)  == v % ENTRIES

Step(from, to) == pc = from /\ pc' = to

-----------------------------------------------------------------------------
Init ==
  /\ machine \in Machines
  /\ used = {} /\ used_pages = 0
  /\ mem = [f \in 0 .. Start + machine.total_pages - 1 |-> [e \in Entries |-> Junk]]
  /\ dir = 0 /\ enabled = FALSE
  /\ pc = "kernel" /\ addr = 0 /\ exhausted = FALSE

\* pmm_mark_region_used counts only the pages that were not marked yet.
Mark(region) ==
  /\ used' = used \cup region
  /\ used_pages' = used_pages + Added(region)
  /\ UNCHANGED <<machine, mem, dir, enabled, exhausted>>

\* pmm_init: the kernel, the modules, the bitmap.
MarkKernel  == Step("kernel", "modules") /\ Mark(Region(MB, machine.kernel_end))
               /\ UNCHANGED addr
MarkModules == Step("modules", "bitmap") /\ UNCHANGED addr
               /\ Mark(UNION {Region(mod.start, mod.end) : mod \in Range(machine.mods)})
MarkBitmap  == Step("bitmap", "framebuffer") /\ UNCHANGED addr
               /\ Mark(Region(BitmapAddr(machine), BitmapEnd(machine)))

\* kernel_main reserves the framebuffer, of which no page is in memory.
MarkFramebuffer == Step("framebuffer", "directory") /\ UNCHANGED addr
                   /\ Mark(Region(FB_ADDR, FB_ADDR + FB_SIZE))

\* pmm_alloc_page gives the first free page, or address 0.
Alloc(frame) ==
  \/ /\ frame - Start \in Pages \ used
     /\ \A q \in Pages \ used : frame - Start <= q
     /\ used' = Taken(frame - Start) /\ used_pages' = used_pages + 1
     /\ UNCHANGED exhausted
  \/ /\ Pages \subseteq used /\ frame = 0
     /\ exhausted' = TRUE
     /\ UNCHANGED bitmapVars

Cleared(frame) == [mem EXCEPT ![frame] = [e \in Entries |-> Absent]]

\* paging_init: the directory, then the region that holds all of the above and more.
AllocDirectory ==
  /\ Step("directory", "reserve")
  /\ \E frame \in DOMAIN mem :
       Alloc(frame) /\ dir' = frame /\ mem' = Cleared(frame)
  /\ UNCHANGED <<machine, enabled, addr>>

Reserve == Step("reserve", "identity") /\ Mark(Region(MB, ActualUsed)) /\ addr' = 0

\* paging_map_page: an entry that is present has its table, any other is given a new one.
MapPage(v) ==
  \/ /\ mem[dir][DirIndex(v)] # Absent
     /\ mem' = [mem EXCEPT ![mem[dir][DirIndex(v)]][TableIndex(v)] = v]
     /\ UNCHANGED <<bitmapVars, exhausted>>
  \/ /\ mem[dir][DirIndex(v)] = Absent
     /\ \E frame \in DOMAIN mem :
          /\ Alloc(frame)
          /\ mem' = [Cleared(frame) EXCEPT ![dir][DirIndex(v)] = frame,
                                           ![frame][TableIndex(v)] = v]

\* identity_map_region, a page at a time.
MapRegion(label, end, after, then) ==
  /\ pc = label
  /\ \/ /\ addr < end
        /\ MapPage(Frame(addr))
        /\ addr' = addr + PAGE_SIZE
        /\ UNCHANGED pc
     \/ /\ addr >= end
        /\ pc' = after /\ addr' = then
        /\ UNCHANGED <<bitmapVars, mem, exhausted>>
  /\ UNCHANGED <<machine, dir, enabled>>

MapIdentity    == MapRegion("identity", KERNEL_SPACE, "enable", 0)
MapFramebuffer == MapRegion("map_fb", Up(FB_ADDR + FB_SIZE, PAGE_SIZE), "orbit", 0)

\* The frame the processor finds behind a virtual page.
Walk(v) == LET table == mem[dir][v \div ENTRIES]
           IN  IF table \in DOMAIN mem THEN mem[table][v % ENTRIES] ELSE table

\* paging_enable; without a directory it does nothing.  A kernel whose own code is not
\* mapped where it runs goes no further.
Enable ==
  /\ pc = "enable"
  /\ enabled' = (dir # 0)
  /\ pc' = IF dir = 0 \/ Walk(Start) = Start THEN "map_fb" ELSE "stopped"
  /\ addr' = FB_ADDR
  /\ UNCHANGED <<machine, bitmapVars, mem, dir, exhausted>>

\* With two modules, the second is copied to where it is linked; with fewer, the kernel
\* goes idle.
OrbitEnd == ORBIT_BASE + machine.mods[2].end - machine.mods[2].start

CopyOrbit ==
  /\ pc = "orbit"
  /\ \/ /\ Len(machine.mods) >= 2
        /\ mem' = [f \in DOMAIN mem |-> IF f \in Frames(ORBIT_BASE, OrbitEnd)
                                          THEN [e \in Entries |-> Junk] ELSE mem[f]]
        /\ pc' = "ready"
     \/ /\ Len(machine.mods) < 2
        /\ pc' = "idle" /\ UNCHANGED mem
  /\ UNCHANGED <<machine, bitmapVars, dir, enabled, addr, exhausted>>

SetUpMemory == \/ MarkKernel \/ MarkModules \/ MarkBitmap \/ MarkFramebuffer \/ AllocDirectory
               \/ Reserve \/ MapIdentity \/ Enable \/ MapFramebuffer

-----------------------------------------------------------------------------
\* Every variable keeps to its type; a directory that has been cleared holds frames.
TypeOK ==
  /\ machine \in Machines
  /\ used \subseteq Pages /\ used_pages \in Nat
  /\ DOMAIN mem = 0 .. Start + machine.total_pages - 1
  /\ \A f \in DOMAIN mem, e \in Entries :
       mem[f][e] \in {Absent, Junk} \cup 0 .. ENTRIES * ENTRIES - 1
  /\ dir \in DOMAIN mem /\ enabled \in BOOLEAN /\ exhausted \in BOOLEAN
  /\ pc \in Labels /\ addr \in 0 .. ENTRIES * ENTRIES * PAGE_SIZE

\* Memory was large enough for the tables, and what pmm_init found ends below the place
\* orbit is copied to; kernel_main checks neither.
Sound == ~exhausted /\ BitmapEnd(machine) + PAGE_SIZE <= ORBIT_BASE

Loaded == Frames(MB, machine.kernel_end) \cup
          UNION {Frames(mod.start, mod.end) : mod \in Range(machine.mods)}
Bitmap == Frames(BitmapAddr(machine), BitmapEnd(machine))
Tables == {mem[dir][e] : e \in Entries} \ {Absent}
Orbit  == IF pc = "ready" THEN Frames(ORBIT_BASE, OrbitEnd) ELSE {}

\* The directory and its tables lie on pages of their own: not on the kernel, a module,
\* the bitmap or orbit's copy, and no two entries of the directory share a table.
StructuresApart ==
  (dir # 0 /\ Sound) =>
    /\ ({dir} \cup Tables) \cap (Loaded \cup Bitmap \cup Orbit) = {}
    /\ dir \notin Tables
    /\ \A d, e \in Entries : mem[dir][d] = mem[dir][e] => d = e \/ mem[dir][d] = Absent

\* From the moment paging is on, through the map of the framebuffer and the copy of
\* orbit, every page of the kernel's space is found at its own address; in the end so is
\* every page of the framebuffer, and nothing else is mapped.
MapsToItself ==
  (enabled /\ Sound) =>
    \A v \in 0 .. ENTRIES * ENTRIES - 1 :
      Walk(v) = IF \/ v \in Frames(0, KERNEL_SPACE)
                   \/ /\ v \in Frames(FB_ADDR, FB_ADDR + FB_SIZE)
                      /\ pc = "map_fb" => v * PAGE_SIZE < addr
                THEN v ELSE Absent

\* What is left is what Memory starts from: no page that holds the kernel, a module, the
\* bitmap, a table or orbit's copy is left for pmm_alloc_page to give to a program, the
\* pages in use are the first ones, and used_pages has counted each of them once although
\* the regions overlap.
ReadyForMemory ==
  (pc = "ready" /\ Sound) =>
    /\ Loaded \cup Bitmap \cup {dir} \cup Tables \cup Orbit \subseteq {p + Start : p \in used}
    /\ used = 0 .. used_pages - 1
=============================================================================
