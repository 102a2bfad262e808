---------------------------- MODULE DesktopProofs ----------------------------
(***************************************************************************)
(* Proofs about orbit's cursor, for every screen, every cursor, whatever   *)
(* the mouse does and wherever another orbit is started, a poll included:  *)
(* the cursor destroys nothing but what one drawn left of the screen       *)
(* leaves, and only a poll that was cut lets one be drawn there.           *)
(* CursorInv says what CursorOverDesktop does not: that the backup holds   *)
(* the desktop below the cursor whenever there is one to restore, that the *)
(* desktop is bare when it is taken, and who may take the position off the *)
(* screen.                                                                 *)
(***************************************************************************)
EXTENDS Desktop, TLAPS

\* The desktop with the cursor on it, and without, but for the pixels left behind.
Covered ==
  \A p \in Screen \ stained : screen[p] = IF cur[1] >= 0 /\ p \in Shape(cur)
                                          THEN Ink(cur)[p] ELSE p
Bare == \A p \in Screen \ stained : screen[p] = p

\* The pixel the desktop has at a place, and the backup of those below a cursor.
Below(p) == IF p \in Screen THEN p ELSE Black
SavedAtCur == \A c \in Cursor :
                Place(cur, c) \notin stained => cursor_backup[c] = Below(Place(cur, c))
SavedAtAt  == \A c \in Cursor :
                Place(at, c) \notin stained => cursor_backup[c] = Below(Place(at, c))

Positions == Around \cup {NoPosition}

PixelInv ==
  /\ at \in Around /\ mouse \in Around /\ cur \in Positions
  /\ pc = "restore" => cur[1] >= 0
  /\ pc \notin {"backup", "shape"} => Covered
  /\ (pc \notin {"backup", "shape"} /\ cur[1] >= 0) => SavedAtCur
  /\ pc \in {"backup", "shape"} => Bare
  /\ pc = "shape" => SavedAtAt

\* Only a poll leaves the position off the screen, and only until its limits.
OffInv ==
  /\ mouse \notin Screen => cut \/ pc = "limit"
  /\ at[1] < 0 => cut
  /\ stained # {} => cut

CursorInv == PixelInv /\ OffInv

-----------------------------------------------------------------------------
(***************************************************************************)
(* Places on the screen.                                                   *)
(***************************************************************************)
LEMMA Sizes ==
  /\ WIDTH \in Nat \ {0} /\ HEIGHT \in Nat \ {0}
  /\ CUR_W \in Nat \ {0} /\ CUR_H \in Nat \ {0} /\ REACH \in Nat
BY DesktopAssumption

LEMMA ScreenTyped ==
  /\ Screen \subseteq Around /\ <<0, 0>> \in Screen
  /\ \A p \in Screen : p[1] >= 0
  /\ NoPosition[1] = -1
  /\ \A p \in Positions : p[1] \in Int /\ p[2] \in Int /\ p = <<p[1], p[2]>>
<1>1. NoPosition = <<-1, -1>> /\ NoPosition[1] = -1 /\ NoPosition[2] = -1
  BY DEF NoPosition
<1>2. \A p \in Around : p[1] \in Int /\ p[2] \in Int /\ p = <<p[1], p[2]>>
  BY Sizes DEF Around
<1>3. Screen \subseteq Around /\ <<0, 0>> \in Screen /\ \A p \in Screen : p[1] >= 0
  BY Sizes DEF Screen, Around
<1> QED
  BY <1>1, <1>2, <1>3 DEF Positions

\* A pixel of the cursor's area is the place of one pixel of the cursor.
LEMMA OffsetOfPlace ==
  ASSUME NEW at0 \in Positions, NEW p \in Area(at0)
  PROVE  Offset(p, at0) \in Cursor /\ Place(at0, Offset(p, at0)) = p
<1>1. PICK c \in Cursor : p = Place(at0, c)
  BY DEF Area
<1>2. at0[1] \in Int /\ at0[2] \in Int
  BY ScreenTyped
<1>3. c[1] \in Int /\ c[2] \in Int /\ c = <<c[1], c[2]>>
  BY Sizes DEF Cursor
<1>4. p[1] = at0[1] + c[1] /\ p[2] = at0[2] + c[2]
  BY <1>1 DEF Place
<1>5. p[1] - at0[1] = c[1] /\ p[2] - at0[2] = c[2]
  BY <1>2, <1>3, <1>4
<1>6. Offset(p, at0) = c
  BY <1>3, <1>5 DEF Offset
<1> QED
  BY <1>1, <1>6

\* What push_packet's limits are for (mouse.c:152-155).
LEMMA LimitedOnScreen == ASSUME NEW p \in Around PROVE Limited(p) \in Screen
<1>1. p[1] \in Int /\ p[2] \in Int
  BY ScreenTyped DEF Positions
<1>2. \A z \in Int : \A n \in Nat \ {0} : Limit(z, n - 1) \in 0 .. n - 1
  BY DEF Limit
<1>3. Limit(p[1], WIDTH - 1) \in 0 .. WIDTH - 1 /\ Limit(p[2], HEIGHT - 1) \in 0 .. HEIGHT - 1
  BY <1>1, <1>2, Sizes
<1> QED
  BY <1>3 DEF Limited, Screen

-----------------------------------------------------------------------------
(***************************************************************************)
(* The invariant.                                                          *)
(***************************************************************************)
LEMMA CursorInit == Init => CursorInv
<1> SUFFICES ASSUME Init PROVE CursorInv
  OBVIOUS
<1>1. /\ pc = "read_x" /\ cur = NoPosition /\ screen = Background /\ stained = {}
      /\ at = <<0, 0>> /\ mouse = <<WIDTH \div 2, HEIGHT \div 2>>
  BY DEF Init
<1>2. cur[1] = -1
  BY <1>1, ScreenTyped
<1>3. Covered
  BY <1>1, <1>2 DEF Covered, Background
<1>4. \A n \in Nat \ {0} : n \div 2 \in 0 .. n - 1
  OBVIOUS
<1>5. at \in Screen /\ mouse \in Screen
  BY <1>1, <1>4, ScreenTyped, Sizes DEF Screen
<1>6. at[1] >= 0 /\ at[1] \in Int
  BY <1>1
<1>7. PixelInv
  BY <1>1, <1>2, <1>3, <1>5, ScreenTyped DEF PixelInv, Positions
<1>8. OffInv
  BY <1>1, <1>5, <1>6 DEF OffInv
<1> QED
  BY <1>7, <1>8 DEF CursorInv

\* A step that leaves the screen, the backup and the cursor alone.
LEMMA StillStep ==
  ASSUME PixelInv, UNCHANGED <<cursorVars, stained>>, at' \in Around, mouse' \in Around,
         pc \notin {"backup", "shape"}, pc' \notin {"restore", "backup", "shape"}
  PROVE  PixelInv'
<1>1. UNCHANGED <<screen, cursor_backup, cur>>
  BY DEF cursorVars
<1>2. UNCHANGED <<Covered, SavedAtCur>>
  BY <1>1 DEF Covered, SavedAtCur, Below, Shape, Ink, Area, Offset, Place, Pattern
<1> QED
  BY <1>1, <1>2 DEF PixelInv

\* A step of the mouse, wherever orbit is.
LEMMA MouseStep ==
  ASSUME CursorInv, UNCHANGED <<cursorVars, at, pc, stained, cut>>,
         mouse' = mouse \/ mouse' \in Screen
  PROVE  CursorInv'
<1>1. UNCHANGED <<screen, cursor_backup, cur, at>>
  BY DEF cursorVars
<1>2. UNCHANGED <<Covered, Bare, SavedAtCur, SavedAtAt>>
  BY <1>1 DEF Covered, Bare, SavedAtCur, SavedAtAt, Below, Shape, Ink, Area, Offset, Place,
              Pattern
<1>3. mouse' \in Around
  BY ScreenTyped DEF CursorInv, PixelInv
<1>4. PixelInv'
  BY <1>1, <1>2, <1>3 DEF CursorInv, PixelInv
<1>5. OffInv'
  BY <1>1 DEF CursorInv, OffInv
<1> QED
  BY <1>4, <1>5 DEF CursorInv

LEMMA StartOrbitStep == CursorInv /\ StartOrbit => CursorInv'
<1> SUFFICES ASSUME CursorInv, StartOrbit PROVE CursorInv'
  OBVIOUS
<1>1. /\ screen' = Background /\ cur' = NoPosition /\ pc' = "read_x" /\ at' = <<0, 0>>
      /\ mouse' = mouse /\ stained' = {} /\ cut' = (cut \/ (pc = "limit" /\ mouse \notin Screen))
  BY DEF StartOrbit, mouseVars
<1>2. cur'[1] = -1
  BY <1>1, ScreenTyped
<1>3. Covered'
  BY <1>1, <1>2 DEF Covered, Background
<1>4. at' \in Around /\ mouse' \in Around /\ cur' \in Positions
  BY <1>1, ScreenTyped DEF CursorInv, PixelInv, Positions
<1>5. at'[1] >= 0 /\ at'[1] \in Int
  BY <1>1
<1>6. PixelInv'
  BY <1>1, <1>2, <1>3, <1>4 DEF PixelInv
<1>7. mouse' \notin Screen => cut'
  BY <1>1, Zenon DEF CursorInv, OffInv
<1>8. ~(at'[1] < 0) /\ stained' = {}
  BY <1>1, <1>5
<1>9. OffInv'
  BY <1>7, <1>8 DEF OffInv, Screen
<1> QED
  BY <1>6, <1>9 DEF CursorInv

LEMMA ReadStep == CursorInv /\ (ReadX \/ ReadY) => CursorInv'
<1> SUFFICES ASSUME CursorInv, ReadX \/ ReadY PROVE CursorInv'
  OBVIOUS
<1>1. /\ UNCHANGED <<cursorVars, stained, cut>> /\ mouse' = mouse
      /\ pc \in {"read_x", "read_y"} /\ pc' \in {"read_y", "count"}
  BY DEF ReadX, ReadY, Step, mouseVars, histVars
<1>2. at \in Around /\ mouse \in Around
  BY DEF CursorInv, PixelInv
<1>3. at' = <<mouse[1], at[2]>> \/ at' = <<at[1], mouse[2]>>
  <2>1. at' = [at EXCEPT ![1] = mouse[1]] \/ at' = [at EXCEPT ![2] = mouse[2]]
    BY DEF ReadX, ReadY
  <2>2. at = <<at[1], at[2]>>
    BY <1>2, ScreenTyped DEF Positions
  <2> QED
    BY <2>1, <2>2
<1>4. at' \in Around
  <2>1. \A p \in Around : /\ p[1] \in -REACH .. WIDTH - 1 + REACH
                          /\ p[2] \in -REACH .. HEIGHT - 1 + REACH
    BY DEF Around
  <2>2. \A x \in -REACH .. WIDTH - 1 + REACH : \A y \in -REACH .. HEIGHT - 1 + REACH :
          <<x, y>> \in Around
    BY DEF Around
  <2> QED
    BY <1>2, <1>3, <2>1, <2>2
<1>5. PixelInv'
  BY <1>1, <1>2, <1>4, StillStep DEF CursorInv
<1>6. ASSUME at'[1] < 0 PROVE cut
  <2>1. CASE at'[1] = at[1]
    BY <1>6, <2>1 DEF CursorInv, OffInv
  <2>2. CASE at'[1] = mouse[1]
    <3>1. mouse \notin Screen
      <4>1. mouse[1] \in Int
        BY <1>2, ScreenTyped DEF Positions
      <4> QED
        BY <1>6, <2>2, <4>1, ScreenTyped
    <3> QED
      BY <1>1, <3>1 DEF CursorInv, OffInv
  <2> QED
    BY <1>3, <2>1, <2>2
<1>7. OffInv'
  BY <1>1, <1>6 DEF CursorInv, OffInv
<1> QED
  BY <1>5, <1>7 DEF CursorInv

LEMMA CountStep == CursorInv /\ (CountSilence \/ CountReset) => CursorInv'
<1> SUFFICES ASSUME CursorInv, CountSilence \/ CountReset PROVE CursorInv'
  OBVIOUS
<1>1. /\ UNCHANGED <<cursorVars, at, mouse, stained, cut>>
      /\ pc = "count" /\ pc' \in {"poll", "draw"}
  BY DEF CountSilence, CountReset, Step, mouseVars, histVars
<1>2. PixelInv'
  BY <1>1, StillStep DEF CursorInv, PixelInv
<1>3. OffInv'
  BY <1>1 DEF CursorInv, OffInv
<1> QED
  BY <1>2, <1>3 DEF CursorInv

\* A poll may take the position off the screen, its limits bring it back.
LEMMA PollStep == CursorInv /\ (Poll \/ PollLimits) => CursorInv'
<1> SUFFICES ASSUME CursorInv, Poll \/ PollLimits PROVE CursorInv'
  OBVIOUS
<1>1. UNCHANGED <<cursorVars, at, stained, cut>>
  BY DEF Poll, PollLimits, histVars
<1>2. CASE Poll
  <2>1. /\ pc = "poll"
        /\ \/ mouse' \in Around /\ pc' = "limit"
           \/ mouse' = mouse /\ pc' = "draw"
    BY <1>2 DEF Poll, mouseVars
  <2>2. PixelInv'
    BY <1>1, <2>1, StillStep DEF CursorInv, PixelInv
  <2>3. OffInv'
    BY <1>1, <2>1 DEF CursorInv, OffInv
  <2> QED
    BY <2>2, <2>3 DEF CursorInv
<1>3. CASE PollLimits
  <2>1. pc = "limit" /\ pc' = "draw" /\ mouse' = Limited(mouse)
    BY <1>3 DEF PollLimits, Step
  <2>2. mouse' \in Screen /\ mouse' \in Around
    BY <2>1, LimitedOnScreen, ScreenTyped DEF CursorInv, PixelInv
  <2>3. PixelInv'
    BY <1>1, <2>1, <2>2, StillStep DEF CursorInv, PixelInv
  <2>4. OffInv'
    BY <1>1, <2>2 DEF CursorInv, OffInv
  <2> QED
    BY <2>3, <2>4 DEF CursorInv
<1> QED
  BY <1>2, <1>3

\* What the steps that draw do not touch.
LEMMA OffStays ==
  ASSUME OffInv, UNCHANGED <<at, mouse, stained, cut>>, pc # "limit"
  PROVE  OffInv'
BY DEF OffInv

LEMMA DrawCursorStep == CursorInv /\ DrawCursor => CursorInv'
<1> SUFFICES ASSUME CursorInv, DrawCursor PROVE CursorInv'
  OBVIOUS
<1>1. /\ pc = "draw" /\ UNCHANGED <<screen, cursor_backup, cur, at, mouse, stained, cut>>
      /\ \/ pc' = "read_x"
         \/ cur[1] >= 0 /\ pc' = "restore"
         \/ cur[1] < 0 /\ pc' = "backup"
  BY DEF DrawCursor, cursorVars, mouseVars, histVars
<1>2. /\ Covered /\ (cur[1] >= 0 => SavedAtCur) /\ cur \in Positions
      /\ at \in Around /\ mouse \in Around
  BY <1>1 DEF CursorInv, PixelInv
<1>3. UNCHANGED <<Covered, Bare, SavedAtCur>>
  BY <1>1 DEF Covered, Bare, SavedAtCur, Below, Shape, Ink, Area, Offset, Place, Pattern
<1>4. PixelInv'
  <2>1. CASE pc' = "read_x"
    BY <1>1, <1>2, <1>3, <2>1 DEF PixelInv
  <2>2. CASE cur[1] >= 0 /\ pc' = "restore"
    BY <1>1, <1>2, <1>3, <2>2 DEF PixelInv
  <2>3. CASE cur[1] < 0 /\ pc' = "backup"
    <3>1. ~(cur[1] >= 0)
      BY <1>2, <2>3, ScreenTyped
    <3>2. Bare
      BY <1>2, <3>1 DEF Covered, Bare
    <3> QED
      BY <1>1, <1>2, <1>3, <2>3, <3>2 DEF PixelInv
  <2> QED
    BY <1>1, <2>1, <2>2, <2>3
<1> QED
  BY <1>1, <1>4, OffStays DEF CursorInv

\* What lay below the cursor is put back: the desktop is bare.
LEMMA RestoreStep == CursorInv /\ RestoreArea => CursorInv'
<1> SUFFICES ASSUME CursorInv, RestoreArea PROVE CursorInv'
  OBVIOUS
<1>1. /\ pc = "restore" /\ pc' = "backup"
      /\ UNCHANGED <<cursor_backup, cur, at, mouse, stained, cut>>
      /\ screen' = Fill([p \in Area(cur) |-> cursor_backup[Offset(p, cur)]], Area(cur))
  BY DEF RestoreArea, RestoreAt, Step, mouseVars, histVars
<1>2. /\ Covered /\ SavedAtCur /\ cur \in Positions /\ at \in Around /\ mouse \in Around
  BY <1>1 DEF CursorInv, PixelInv
<1>3. ASSUME NEW p \in Screen, p \notin stained PROVE screen'[p] = p
  <2>1. screen'[p] = IF p \in Area(cur) THEN cursor_backup[Offset(p, cur)] ELSE screen[p]
    BY <1>1 DEF Fill
  <2>2. CASE p \in Area(cur)
    <3>1. Offset(p, cur) \in Cursor /\ Place(cur, Offset(p, cur)) = p
      BY <1>2, <2>2, OffsetOfPlace
    <3>2. cursor_backup[Offset(p, cur)] = Below(Place(cur, Offset(p, cur)))
      BY <1>2, <1>3, <3>1 DEF SavedAtCur
    <3> QED
      BY <2>1, <2>2, <3>1, <3>2 DEF Below
  <2>3. CASE p \notin Area(cur)
    <3>1. p \notin Shape(cur)
      BY <2>3 DEF Shape
    <3> QED
      BY <1>2, <1>3, <2>1, <2>3, <3>1 DEF Covered
  <2> QED
    BY <2>2, <2>3
<1>4. Bare'
  BY <1>1, <1>3 DEF Bare, Screen
<1>5. PixelInv'
  BY <1>1, <1>2, <1>4 DEF PixelInv
<1> QED
  BY <1>1, <1>5, OffStays DEF CursorInv

LEMMA BackupStep == CursorInv /\ BackupArea => CursorInv'
<1> SUFFICES ASSUME CursorInv, BackupArea PROVE CursorInv'
  OBVIOUS
<1>1. /\ pc = "backup" /\ pc' = "shape" /\ UNCHANGED <<screen, cur, at, mouse, stained, cut>>
      /\ cursor_backup' = [c \in Cursor |-> GetPixel(Place(at, c))]
  BY DEF BackupArea, Step, mouseVars, histVars
<1>2. Bare /\ at \in Around /\ mouse \in Around /\ cur \in Positions
  BY <1>1 DEF CursorInv, PixelInv
<1>3. ASSUME NEW c \in Cursor, Place(at, c) \notin stained
      PROVE  cursor_backup'[c] = Below(Place(at, c))
  <2>1. cursor_backup'[c] = GetPixel(Place(at, c))
    BY <1>1
  <2> QED
    BY <1>2, <1>3, <2>1 DEF GetPixel, Below, Bare
<1>4. SavedAtAt'
  BY <1>1, <1>3 DEF SavedAtAt, Below, Place
<1>5. Bare'
  BY <1>1, <1>2 DEF Bare
<1>6. PixelInv'
  BY <1>1, <1>2, <1>4, <1>5 DEF PixelInv
<1> QED
  BY <1>1, <1>6, OffStays DEF CursorInv

\* A cursor at a position the code takes for none is never removed: its pixels are
\* stained.  Any other one is covered by what the backup holds.
LEMMA ShapeStep == CursorInv /\ DrawShape => CursorInv'
<1> SUFFICES ASSUME CursorInv, DrawShape PROVE CursorInv'
  OBVIOUS
<1>1. /\ pc = "shape" /\ pc' = "read_x" /\ UNCHANGED <<cursor_backup, at, mouse, cut>>
      /\ screen' = Fill(Ink(at), Shape(at)) /\ cur' = at
      /\ stained' = IF at[1] < 0 THEN stained \cup (Shape(at) \cap Screen) ELSE stained
  BY DEF DrawShape, Step, mouseVars
<1>2. Bare /\ SavedAtAt /\ at \in Around /\ mouse \in Around
  BY <1>1 DEF CursorInv, PixelInv
<1>3. at[1] \in Int
  BY <1>2, ScreenTyped DEF Positions
<1>4. \A p \in Screen \ stained :
        screen'[p] = IF p \in Shape(at) THEN Ink(at)[p] ELSE p
  BY <1>1, <1>2 DEF Fill, Bare
<1>5. Shape(cur)' = Shape(at) /\ Ink(cur)' = Ink(at)
  BY <1>1 DEF Shape, Ink, Area, Offset, Place, Pattern
<1>6. Covered'
  <2>1. CASE at[1] >= 0
    <3>1. stained' = stained /\ cur'[1] >= 0
      BY <1>1, <1>3, <2>1
    <3> QED
      BY <1>1, <1>4, <1>5, <3>1 DEF Covered, Screen
  <2>2. CASE at[1] < 0
    <3>1. stained' = stained \cup (Shape(at) \cap Screen) /\ ~(cur'[1] >= 0)
      BY <1>1, <1>3, <2>2
    <3>2. \A p \in Screen \ stained' : screen'[p] = p
      BY <1>4, <3>1
    <3> QED
      BY <3>1, <3>2 DEF Covered, Screen
  <2> QED
    BY <1>3, <2>1, <2>2
<1>7. cur'[1] >= 0 => SavedAtCur'
  <2> SUFFICES ASSUME cur'[1] >= 0 PROVE SavedAtCur'
    OBVIOUS
  <2>1. stained' = stained
    BY <1>1, <1>3
  <2> QED
    BY <1>1, <1>2, <2>1 DEF SavedAtCur, SavedAtAt, Below, Place
<1>8. PixelInv'
  BY <1>1, <1>2, <1>6, <1>7 DEF PixelInv, Positions
<1>9. OffInv'
  BY <1>1 DEF CursorInv, OffInv
<1> QED
  BY <1>8, <1>9 DEF CursorInv

LEMMA CursorStep == CursorInv /\ [Next]_vars => CursorInv'
<1> SUFFICES ASSUME CursorInv, [Next]_vars PROVE CursorInv'
  OBVIOUS
<1>1. CASE MouseMoves \/ MouseInterrupt \/ InterruptsStop \/ UNCHANGED vars
  <2>1. /\ mouse' = mouse \/ mouse' \in Screen
        /\ UNCHANGED <<cursorVars, at, pc, stained, cut>>
    BY <1>1 DEF MouseMoves, MouseInterrupt, InterruptsStop, vars, mouseVars, histVars
  <2> QED
    BY <2>1, MouseStep
<1>2. CASE StartOrbit
  BY <1>2, StartOrbitStep
<1>3. CASE ReadX \/ ReadY
  BY <1>3, ReadStep
<1>4. CASE CountSilence \/ CountReset
  BY <1>4, CountStep
<1>5. CASE Poll \/ PollLimits
  BY <1>5, PollStep
<1>6. CASE DrawCursor
  BY <1>6, DrawCursorStep
<1>7. CASE RestoreArea
  BY <1>7, RestoreStep
<1>8. CASE BackupArea
  BY <1>8, BackupStep
<1>9. CASE DrawShape
  BY <1>9, ShapeStep
<1> QED
  BY <1>1, <1>2, <1>3, <1>4, <1>5, <1>6, <1>7, <1>8, <1>9 DEF Next, Loop

\* orbit's cursor destroys nothing, whatever the size of the screen, the shape of the
\* cursor, the way the mouse takes and the moments at which another orbit starts, but
\* for the pixels of a cursor drawn left of the screen, which needs a poll that was cut
\* between moving the position and limiting it (cursor_compositor.c:108, mouse.c:150-155).
THEOREM DesktopAlwaysWhole == Spec => []CursorOverDesktop
<1>1. CursorInv => CursorOverDesktop
  BY DEF CursorInv, PixelInv, OffInv, Covered, Bare, CursorOverDesktop, Background
<1>2. Spec => []CursorInv
  BY CursorInit, CursorStep, PTL DEF Spec
<1> QED
  BY <1>1, <1>2, PTL

=============================================================================
