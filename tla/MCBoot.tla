-------------------------------- MODULE MCBoot --------------------------------
(***************************************************************************)
(* Instances of Boot for TLC: pages of 4 bytes, tables of 8 entries, and   *)
(* machines that differ in memory, in the end of the kernel, in where the  *)
(* modules lie and in how many there are; one of them also with other      *)
(* graphics, and with another interrupt vector 255.                        *)
(***************************************************************************)
EXTENDS Boot

Mods(k, gap, len1, len2) ==
  LET m1 == [start |-> k + gap, end |-> k + gap + len1]
  IN  {<<>>, <<m1>>, <<m1, [start |-> m1.end, end |-> m1.end + len2]>>}

\* As the build's emulator is: one device, with a flag in its BAR.
MachineOf(t, k, mods) ==
  [total_pages |-> t, kernel_end |-> k, mods |-> mods, bga |-> TRUE, bars |-> <<FB_ADDR + 1>>,
   vector255 |-> TRUE]

MachinesOf(totals) ==
  {MachineOf(t, k, mods) :
     t \in totals, k \in {9, 12},
     mods \in UNION {Mods(9, g, l1, l2) \cup Mods(12, g, l1, l2) :
                       g \in {0, 3}, l1 \in {2, 5}, l2 \in {1, 4, 21}}}

Usual  == MachineOf(30, 9, <<[start |-> 9, end |-> 11], [start |-> 11, end |-> 12]>>)
Others == {[Usual EXCEPT !.bars = bars] : bars \in {<<>>, <<0>>, <<ALL_ONES, FB_ADDR>>, <<160>>}}
            \cup {[Usual EXCEPT !.bga = FALSE], [Usual EXCEPT !.vector255 = FALSE]}

MCMachines ==
  Others \cup
  {mach \in MachinesOf({14, 17, 22, 30}) :
     /\ mach.mods = <<>> \/ mach.mods[1].start >= mach.kernel_end
     /\ BitmapEnd(mach) + PAGE_SIZE < MB + mach.total_pages * PAGE_SIZE}

\* The BIOS leaves the timer and the keyboard open, or everything.
MCBootMasks == {{2, 3, 4, 5, 6, 7}, {}}
=============================================================================
