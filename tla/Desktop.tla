------------------------------- MODULE Desktop -------------------------------
(***************************************************************************)
(* orbit, the desktop of MaahiOS: its main loop (orbit.c), which looks at  *)
(* the mouse, polls it when IRQ12 has been silent for three rounds, and    *)
(* moves the cursor over the screen (cursor_compositor.c), saving and      *)
(* restoring the pixels below it through bga.c.                            *)
(*                                                                         *)
(* The mouse is that of module Mouse: packets wait, and are taken by an    *)
(* interrupt, which leaves the position on the screen, or by a poll, which *)
(* may be interrupted between moving the position and limiting it; a       *)
(* packet counts as one call of the handler.  IRQ12 may stop for good      *)
(* (module Tasking).  A tick may start another orbit wherever this one is, *)
(* in a poll too; all have the same image, statics included.  Each of      *)
(* orbit's system calls on the mouse is a step, a poll that finds data     *)
(* two; the loops over the pixels are one step each, for nobody else draws *)
(* until another orbit clears the screen.                                  *)
(***************************************************************************)
EXTENDS Integers

CONSTANTS
  WIDTH, HEIGHT,   \* of the screen
  CUR_W, CUR_H,    \* of the cursor (12, 18)
  CursorPattern,   \* [row -> [column -> 0 transparent, 1 outline, 2 fill]]
  IDLE_POLLS,      \* 2: silent rounds before orbit polls
  REACH,           \* how far beyond an edge movements may lead before they are limited
  MAX_PACKETS,     \* how often the mouse moves
  MAX_STARTS       \* how many more orbits are started

ASSUME DesktopAssumption ==
  /\ {WIDTH, HEIGHT, CUR_W, CUR_H} \subseteq Nat \ {0}
  /\ CursorPattern \in [0 .. CUR_H - 1 -> [0 .. CUR_W - 1 -> 0 .. 2]]
  /\ {IDLE_POLLS, REACH, MAX_PACKETS, MAX_STARTS} \subseteq Nat

VARIABLES
  screen,                           \* the framebuffer
  cursor_backup,
  cur,                              \* cur_x and cur_y; NoPosition for -1
  at,                               \* orbit's x and y
  last_irq_count, polls_since_irq,  \* orbit's statics
  pc,                               \* the next step of orbit
  \* the mouse: its position, the calls of its handler, the packets to be taken,
  \* whether IRQ12 is still delivered
  mouse, irq_total, waiting, irqs,
  packets, starts,                  \* how many there were
  stained,  \* history: pixels of cursors that were drawn left of the screen
  cut       \* history: a poll was abandoned with the position off the screen

cursorVars == <<screen, cursor_backup, cur>>
countVars  == <<last_irq_count, polls_since_irq>>
mouseVars  == <<mouse, irq_total, waiting, irqs>>
histVars   == <<packets, starts, stained, cut>>
vars       == <<cursorVars, at, countVars, pc, mouseVars, histVars>>

Screen     == (0 .. WIDTH - 1) \X (0 .. HEIGHT - 1)
Around     == (-REACH .. WIDTH - 1 + REACH) \X (-REACH .. HEIGHT - 1 + REACH)
Cursor     == (0 .. CUR_W - 1) \X (0 .. CUR_H - 1)
NoPosition == <<-1, -1>>
\* Two colours of no pixel of the desktop, whose pixels all differ.
Black      == <<-1, 0>>
White      == <<-1, 1>>
Background == [p \in Screen |-> p]
Colours    == Screen \cup {Black, White}
Labels     == {"read_x", "read_y", "count", "poll", "limit",
               "draw", "restore", "backup", "shape"}

-----------------------------------------------------------------------------
(***************************************************************************)
(* The expressions of the code that decide and update.  A name that ends   *)
(* in a slip is the bug whose absence the properties below depend on; no   *)
(* action uses it.                                                         *)
(***************************************************************************)
\* bga_get_pixel, black beyond the screen, and bga_fill_rect for one pixel of each
\* place, which draws nothing there.
GetPixel(p) == IF p \in Screen THEN screen[p] ELSE Black
Fill(colour, places) == [p \in Screen |-> IF p \in places THEN colour[p] ELSE screen[p]]

Place(p, c)   == <<p[1] + c[1], p[2] + c[2]>>
Offset(p, at0) == <<p[1] - at0[1], p[2] - at0[2]>>
Area(at0)     == {Place(at0, c) : c \in Cursor}

\* Where orbit_draw_cursor restores, and whether it has anything to do.
RestoreAtNew == at
RestoreAt    == cur
MovedBothWays == at[1] # cur[1] /\ at[2] # cur[2]
Moved         == at[1] # cur[1] \/ at[2] # cur[2]

\* Whether orbit polls, and whether a poll finds a packet.
Due             == polls_since_irq >= IDLE_POLLS
Available == waiting > 0

\* push_packet's limits of the position.
Limit(z, last) == IF z < 0 THEN 0 ELSE IF z > last THEN last ELSE z
Limited(p)     == <<Limit(p[1], WIDTH - 1), Limit(p[2], HEIGHT - 1)>>

Pattern(c)    == CursorPattern[c[2]][c[1]]
Shape(at0)    == {p \in Area(at0) : Pattern(Offset(p, at0)) # 0}
Ink(at0)      == [p \in Shape(at0) |-> IF Pattern(Offset(p, at0)) = 1 THEN Black ELSE White]

-----------------------------------------------------------------------------
\* orbit_main_c has cleared the screen and drawn the desktop.
Init ==
  /\ screen = Background
  /\ cursor_backup = [c \in Cursor |-> Black] /\ cur = NoPosition
  /\ at = <<0, 0>>
  /\ last_irq_count = 0 /\ polls_since_irq = 0
  /\ pc = "read_x"
  /\ mouse = <<WIDTH \div 2, HEIGHT \div 2>> /\ irq_total = 0 /\ waiting = 0 /\ irqs = TRUE
  /\ packets = 0 /\ starts = 0 /\ stained = {} /\ cut = FALSE

-----------------------------------------------------------------------------
MouseMoves ==
  /\ packets < MAX_PACKETS
  /\ packets' = packets + 1 /\ waiting' = waiting + 1
  /\ UNCHANGED <<cursorVars, at, countVars, pc, mouse, irq_total, irqs, starts, stained, cut>>

\* mouse_handler takes a packet; what it does to the position is said by its callers.
Handle ==
  /\ waiting' = waiting - 1
  /\ irq_total' = irq_total + 1
  /\ UNCHANGED irqs

\* The whole handler, for its gate keeps interrupts off: movement and limits.
MouseInterrupt ==
  /\ irqs /\ waiting > 0 /\ Handle
  /\ mouse' \in Screen
  /\ UNCHANGED <<cursorVars, at, countVars, pc, histVars>>

InterruptsStop ==
  /\ irqs /\ irqs' = FALSE
  /\ UNCHANGED <<cursorVars, at, countVars, pc, mouse, irq_total, waiting, histVars>>

\* A tick starts another orbit, whose orbit_main_c forgets the cursor and draws the
\* desktop anew.  The call it cuts is never resumed: if that is a poll, the position
\* keeps what the movement has left until the next packet.
StartOrbit ==
  /\ starts < MAX_STARTS /\ starts' = starts + 1
  /\ screen' = Background /\ cur' = NoPosition
  /\ pc' = "read_x" /\ at' = <<0, 0>>
  /\ stained' = {}
  /\ cut' = (cut \/ (pc = "limit" /\ mouse \notin Screen))
  /\ UNCHANGED <<cursor_backup, countVars, mouseVars, packets>>

-----------------------------------------------------------------------------
(***************************************************************************)
(* The main loop.                                                          *)
(***************************************************************************)
Step(from, to) == pc = from /\ pc' = to

ReadX ==
  /\ Step("read_x", "read_y")
  /\ at' = [at EXCEPT ![1] = mouse[1]]
  /\ UNCHANGED <<cursorVars, countVars, mouseVars, histVars>>

ReadY ==
  /\ Step("read_y", "count")
  /\ at' = [at EXCEPT ![2] = mouse[2]]
  /\ UNCHANGED <<cursorVars, countVars, mouseVars, histVars>>

\* The handler has not run since the last round: after IDLE_POLLS such rounds, each
\* further one polls (the counter goes on; here it stays at the first value that polls).
CountSilence ==
  /\ pc = "count" /\ irq_total = last_irq_count
  /\ pc' = IF Due THEN "poll" ELSE "draw"
  /\ polls_since_irq' = IF Due THEN IDLE_POLLS ELSE polls_since_irq + 1
  /\ UNCHANGED <<cursorVars, at, last_irq_count, mouseVars, histVars>>

CountReset ==
  /\ Step("count", "draw") /\ irq_total # last_irq_count
  /\ polls_since_irq' = 0 /\ last_irq_count' = irq_total
  /\ UNCHANGED <<cursorVars, at, mouseVars, histVars>>

\* SYSCALL_POLL_MOUSE, with interrupts on: the handler moves x, then y, then limits
\* them one by one.  Whatever of that has been done, the position is one of Around.
Poll ==
  /\ pc = "poll"
  /\ \/ Available /\ Handle /\ mouse' \in Around /\ pc' = "limit"
     \/ ~Available /\ UNCHANGED mouseVars /\ pc' = "draw"
  /\ UNCHANGED <<cursorVars, at, countVars, histVars>>

PollLimits ==
  /\ Step("limit", "draw")
  /\ mouse' = Limited(mouse)
  /\ UNCHANGED <<cursorVars, at, countVars, irq_total, waiting, irqs, histVars>>

-----------------------------------------------------------------------------
(***************************************************************************)
(* orbit_draw_cursor(x, y), with the x and y read before the poll.         *)
(***************************************************************************)
DrawCursor ==
  /\ pc = "draw"
  /\ \/ ~Moved /\ pc' = "read_x"
     \/ Moved /\ cur[1] >= 0 /\ pc' = "restore"
     \/ Moved /\ cur[1] < 0 /\ pc' = "backup"
  /\ UNCHANGED <<cursorVars, at, countVars, mouseVars, histVars>>

RestoreArea ==
  /\ Step("restore", "backup")
  /\ screen' = Fill([p \in Area(RestoreAt) |-> cursor_backup[Offset(p, RestoreAt)]],
                    Area(RestoreAt))
  /\ UNCHANGED <<cursor_backup, cur, at, countVars, mouseVars, histVars>>

BackupArea ==
  /\ Step("backup", "shape")
  /\ cursor_backup' = [c \in Cursor |-> GetPixel(Place(at, c))]
  /\ UNCHANGED <<screen, cur, at, countVars, mouseVars, histVars>>

DrawShape ==
  /\ Step("shape", "read_x")
  /\ screen' = Fill(Ink(at), Shape(at))
  /\ cur' = at
  /\ stained' = IF at[1] < 0 THEN stained \cup (Shape(at) \cap Screen) ELSE stained
  /\ UNCHANGED <<cursor_backup, at, countVars, mouseVars, packets, starts, cut>>

-----------------------------------------------------------------------------
Loop == \/ ReadX \/ ReadY \/ CountSilence \/ CountReset \/ Poll \/ PollLimits
        \/ DrawCursor \/ RestoreArea \/ BackupArea \/ DrawShape
Next == MouseMoves \/ MouseInterrupt \/ InterruptsStop \/ StartOrbit \/ Loop

\* orbit's loop runs; nothing is assumed of the interrupts.
Spec     == Init /\ [][Next]_vars
FairSpec == Spec /\ WF_vars(Loop)

-----------------------------------------------------------------------------
\* The cursor destroys nothing: outside the calls that move it, the screen is the
\* desktop with one cursor on it, at cur, also where the cursor hangs over the edges and
\* after another orbit was started in the middle of a move or of a poll; while it moves,
\* the desktop is whole.  What is left out are the pixels of a cursor drawn left of the
\* screen, which orbit_draw_cursor takes for no cursor (cursor_compositor.c:108) and
\* never removes; and these are only there once a poll has been cut between moving the
\* position and limiting it (mouse.c:150-155).
CursorOverDesktop ==
  /\ \A p \in Screen \ stained :
       screen[p] = IF pc \notin {"backup", "shape"} /\ cur[1] >= 0 /\ p \in Shape(cur)
                   THEN Ink(cur)[p] ELSE Background[p]
  /\ stained # {} => cut

\* Whatever interrupts are lost, once the mouse rests and no other orbit is started the
\* cursor comes to rest where the mouse is, and no packet is left behind: a position
\* torn between the reads of x and y, or one read before the poll, does not last.
CursorCatchesUp == <>[](cur = mouse /\ waiting = 0)
=============================================================================
