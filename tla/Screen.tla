-------------------------------- MODULE Screen --------------------------------
(***************************************************************************)
(* The graphics screen: the drawing functions of bga.c behind the GFX      *)
(* system calls, and the programs that draw when the machine comes up, in  *)
(* their order: kernel_main's loading screen, sysman, orbit, and whatever  *)
(* orbit starts.                                                           *)
(*                                                                         *)
(* The framebuffer is a row of W * H words.  A call writes it one word at  *)
(* a time, and moves the text cursor one statement at a time, because a    *)
(* tick that finds a process queued abandons the call wherever it is, and  *)
(* the next program draws on what is left.                                 *)
(***************************************************************************)
EXTENDS Integers, Sequences, FiniteSets, SequencesExt

CONSTANTS
  W, H,               \* screen_width, screen_height (1024, 768)
  CHAR_W, CHAR_H,     \* a character's cell (8, 16)
  Glyph,              \* character -> the points of its cell that are set
  HALF,               \* what half a register holds (2^16)
  BUTTON_W, BUTTON_H, \* a button (150, 40), the offset of its shadow (3) and
  SHADOW, LINE,       \* the thickness of its highlights (2)
  Buttons,            \* where orbit puts its buttons
  Box,                \* the frame sysman and kernel_main draw: x, y, w, h
  Icon,               \* the BMP orbit draws
  MAX_BMP,            \* the width and the height up to which an image is drawn (128)
  Requests,           \* the calls a program may make once it is up
  Heights, Colors,    \* what the dispatcher may read as draw_rect's height, colour
  MAX_REQUESTS        \* how many of the requests are followed

ASSUME ScreenAssumption ==
  /\ {W, H, CHAR_W, CHAR_H, HALF} \subseteq Nat \ {0}
  /\ W % CHAR_W = 0 /\ H % CHAR_H = 0
  /\ {BUTTON_W, BUTTON_H, SHADOW, LINE, Box.x, Box.y, Box.w, Box.h} \subseteq Int
  /\ {BUTTON_W, BUTTON_H, LINE} \subseteq 0 .. HALF - 1
  /\ Buttons \in Seq([x : Int, y : Int]) /\ {Icon.w, Icon.h} \subseteq Nat
  /\ {"o", " ", "."} \subseteq DOMAIN Glyph
  /\ \A c \in DOMAIN Glyph : Glyph[c] \subseteq (0 .. CHAR_H - 1) \X (0 .. CHAR_W - 1)
  /\ Heights \subseteq Int
  /\ {MAX_BMP, MAX_REQUESTS} \subseteq Nat

VARIABLES
  fb,                      \* framebuffer, and any word written outside it
  cursor_x, cursor_y,      \* bga.c's text cursor
  current_fg, current_bg,  \* syscall_handler.c's colours
  prog,                    \* the program that runs
  script,                  \* the calls it is still going to make
  ready,                   \* the programs in the ready queue
  requests,                \* calls of Requests made so far
  pc, job,                 \* next statement of the call being served, and the call
  work,                    \* the words it is about to write
  text, pos_x, pos_y,      \* the rest of the string; bga_print_at's position
  before, home,            \* history: the picture and the cursor when the call began
  torn                     \* history: prints abandoned with the cursor off its grid

progVars == <<prog, script, ready, requests>>
cursorVars == <<cursor_x, cursor_y>>
colorVars == <<current_fg, current_bg>>
textVars == <<text, pos_x, pos_y>>
callVars == <<job, before, home>>
vars == <<fb, cursorVars, colorVars, progVars, pc, work, textVars,
          callVars, torn>>

-----------------------------------------------------------------------------
(***************************************************************************)
(* Calls, as records of the arguments the wrappers take.                   *)
(***************************************************************************)
None == [kind |-> "none"]
Null == [data |-> "NULL"]   \* an image that is not there
Newline == "newline"

ClearColor(c)        == [kind |-> "clear_color", color |-> c]
FillRect(x, y, w, h, c) == [kind |-> "fill", x |-> x, y |-> y, w |-> w, h |-> h, color |-> c]
DrawRect(x, y, w)    == [kind |-> "rect", x |-> x, y |-> y, w |-> w]
PrintAt(x, y, s)     == [kind |-> "print_at", x |-> x, y |-> y, s |-> s]
Puts(s)              == [kind |-> "puts", s |-> s]
SetColor(fg, bg)     == [kind |-> "set_color", fg |-> fg, bg |-> bg]
GfxClear             == [kind |-> "gfx_clear"]
DrawBmp(x, y, image) == [kind |-> "bmp", x |-> x, y |-> y, image |-> image]
Create(program)      == [kind |-> "create", program |-> program]
Say(s)               == [kind |-> "vga_print", s |-> s]  \* text: see TextScreen

(***************************************************************************)
(* The programs' drawing.                                                  *)
(***************************************************************************)
\* gui_button: a shadow, the base, two highlight lines and the text.
GuiButton(x, y) ==
  << FillRect(x + SHADOW, y + SHADOW, BUTTON_W, BUTTON_H, "shadow"),
     FillRect(x, y, BUTTON_W, BUTTON_H, "base"),
     FillRect(x, y, BUTTON_W, LINE, "bright"),
     FillRect(x, y + LINE, BUTTON_W, LINE, "mid"),
     PrintAt(x + SHADOW, y + SHADOW, <<"o">>) >>

\* kernel_main: the banner and what the scheduler reports, which vbe_print, having no
\* framebuffer, passes on to vga_print; the loading screen's clear, nested fills and
\* messages.
KernelDraws ==
  << Say(<<"S", Newline>>), Say(<<"I", Newline>>),
     ClearColor("dark"),
     FillRect(Box.x - 1, Box.y - 1, Box.w + 2, Box.h + 2, "bright"),
     FillRect(Box.x, Box.y, Box.w, Box.h, "dark"),
     PrintAt(Box.x, Box.y, <<"o", " ", "o">>),
     Say(<<"E", Newline>>), Create("sysman") >>

\* sysman_main_c, which goes on drawing after it has had orbit started.  The orbit
\* module is there (grub.cfg loads it), so the branches that give up are not taken.
SysmanDraws ==
  << ClearColor("black"),
     FillRect(Box.x + 1, Box.y + 1, Box.w, Box.h, "shadow"),
     FillRect(Box.x, Box.y, Box.w, Box.h, "grey"),
     PrintAt(Box.x, Box.y, <<"o", "o">>),
     PrintAt(W - CHAR_W, H - CHAR_H, <<"o">>),
     Create("orbit"),
     ClearColor("black"),
     PrintAt(0, 0, <<"o">>) >>

\* orbit_main_c up to its event loop: the masks as text, the desktop, text again.
OrbitNoClear ==
  FlattenSeq([i \in DOMAIN Buttons |-> GuiButton(Buttons[i].x, Buttons[i].y)])
    \o <<DrawBmp(W - 2, H - 2, Icon)>>
OrbitDraws ==
  <<Say(<<"o", Newline>>), Say(<<"m">>), Say(<<"i">>), Say(<<Newline>>),
    ClearColor("desk")>>
    \o FlattenSeq([i \in DOMAIN Buttons |-> GuiButton(Buttons[i].x, Buttons[i].y)])
    \o << PrintAt(W - 2 * CHAR_W, 0, <<"o", ".", "o">>), Say(<<"s", Newline>>),
          DrawBmp(W - 2, H - 2, Icon), Say(<<"c", Newline>>) >>

Script == [kernel |-> KernelDraws, sysman |-> SysmanDraws, orbit |-> OrbitDraws,
           client |-> <<>>]

\* The registers a wrapper fills hold numbers, negative ones too; every character has a
\* glyph (bga_putchar takes those it does not know for 0); an image may be missing, the sizes
\* in its header have no sign; a program is started at an entry point.
Typed(call) ==
  /\ call.kind \in {"fill", "rect", "print_at", "bmp"} => {call.x, call.y} \subseteq Int
  /\ call.kind = "fill" => {call.w, call.h} \subseteq Int
  /\ call.kind = "rect" => call.w \in Int
  /\ call.kind \in {"print_at", "puts"} => call.s \in Seq(DOMAIN Glyph \cup {Newline})
  /\ call.kind = "bmp" => call.image = Null \/ {call.image.w, call.image.h} \subseteq Nat
  /\ call.kind = "create" => call.program \in DOMAIN Script

ASSUME RequestsAssumption == \A call \in Requests : Typed(call)

-----------------------------------------------------------------------------
(***************************************************************************)
(* The words each function writes, in the order of its loops.              *)
(***************************************************************************)
Lesser(a, b) == IF a < b THEN a ELSE b

\* A double loop over the rows from r up to rowEnd and the columns from c up to colEnd.
Raster(r, rowEnd, c, colEnd) ==
  IF rowEnd <= r \/ colEnd <= c THEN <<>>
  ELSE [i \in 1 .. (rowEnd - r) * (colEnd - c) |->
          <<r + ((i - 1) \div (colEnd - c)), c + ((i - 1) % (colEnd - c))>>]

\* A single loop from a up to b.
Counting(a, b) == IF b <= a THEN <<>> ELSE [i \in 1 .. b - a |-> a + i - 1]

Word(x, y) == y * W + x
Writes(points, c) == [i \in DOMAIN points |->
                        [at |-> Word(points[i][2], points[i][1]), color |-> c]]

\* The points a loop does not skip.
Kept(points, S) ==
  FlattenSeq([i \in DOMAIN points |-> IF points[i] \in S THEN <<points[i]>> ELSE <<>>])

\* bga_putpixel, which leaves out every point that is not on the screen.
OnScreen == (0 .. H - 1) \X (0 .. W - 1)
Putpixels(points, c) == Writes(Kept(points, OnScreen), c)

\* bga_clear.
Pixels == W * H
ClearWrites(c) == [i \in 1 .. Pixels |-> [at |-> i - 1, color |-> c]]

\* bga_fill_rect: the loops stop at the right and the bottom edge and skip what
\* lies left of or above the screen.
FirstNegative(z) == z
FirstFrom(z)     == IF z < 0 THEN 0 ELSE z
FillWrites(x, y, w, h, c) ==
  Writes(Raster(FirstFrom(y), Lesser(y + h, H), FirstFrom(x), Lesser(x + w, W)), c)

\* bga_draw_rect: top and bottom column by column, then left and right.
RectWrites(x, y, w, h, c) ==
  LET across == Counting(x, Lesser(x + w, W))
      down   == Counting(y, Lesser(y + h, H))
  IN  Putpixels(FlattenSeq([i \in DOMAIN across |->
                              << <<y, across[i]>>, <<y + h - 1, across[i]>> >>])
                \o FlattenSeq([i \in DOMAIN down |->
                              << <<down[i], x>>, <<down[i], x + w - 1>> >>]), c)

\* bga_putchar: the points of the glyph, the background left as it is.
CharWrites(x, y, char, c) ==
  LET set == Kept(Raster(0, CHAR_H, 0, CHAR_W), Glyph[char])
  IN  Putpixels([i \in DOMAIN set |-> <<y + set[i][1], x + set[i][2]>>], c)

\* bga_draw_bmp: nothing for a null pointer, a red square for what is no BMP, a yellow
\* one for a size it does not draw, else the pixels that are not transparent, the last
\* row first.
ErrorSize == 2
BadSize(image) ==
  image.w > MAX_BMP \/ image.h > MAX_BMP \/ image.w = 0 \/ image.h = 0
BmpRow(image, row) == image.h - row
BmpWrites(x, y, image) ==
  IF image = Null THEN <<>>
  ELSE IF ~image.signature THEN FillWrites(x, y, ErrorSize, ErrorSize, "red")
  ELSE IF BadSize(image) THEN FillWrites(x, y, ErrorSize, ErrorSize, "yellow")
  ELSE LET color(p) == image.rows[BmpRow(image, p[1])][p[2] + 1]
           drawn == Kept(Raster(0, image.h, 0, image.w),
                         {p \in (0 .. image.h - 1) \X (0 .. image.w - 1) :
                            color(p) # "clear" /\ <<y + p[1], x + p[2]>> \in OnScreen})
       IN  [i \in DOMAIN drawn |-> [at |-> Word(x + drawn[i][2], y + drawn[i][1]),
                                    color |-> color(drawn[i])]]

-----------------------------------------------------------------------------
(***************************************************************************)
(* One call.  A drawing call is its words, and then what follows `draw'.   *)
(***************************************************************************)
AfterDraw(call) == IF call.kind \in {"print_at", "puts"} THEN "advance"
                   ELSE IF call.kind \in {"clear_color", "gfx_clear"} THEN "home_x"
                   ELSE "done"

\* syscall_dispatcher's case for the call: its words, if it is one of those that
\* only draw.  Width and height of fill_rect travel as two halves of a register.
WordsOf(call) ==
  CASE call.kind = "clear_color" -> ClearWrites(call.color)
    [] call.kind = "gfx_clear"   -> ClearWrites(current_bg)
    [] call.kind = "fill" -> FillWrites(call.x, call.y, call.w % HALF, call.h % HALF,
                                        call.color)
    [] call.kind = "rect" -> RectWrites(call.x, call.y, call.w, call.h, call.color)
    [] call.kind = "bmp"  -> BmpWrites(call.x, call.y, call.image)

\* DrawRect's height and colour are whatever lies at user_esp (see Traps).
Served(call) == IF call.kind = "rect"
                THEN {[kind |-> "rect", x |-> call.x, y |-> call.y, w |-> call.w,
                       h |-> h, color |-> c] : h \in Heights, c \in Colors}
                ELSE {call}

\* A word stored in memory, or beyond it.
Store(memory, at, word) ==
  [k \in DOMAIN memory \cup {at} |-> IF k = at THEN word ELSE memory[k]]

StartCall ==
  /\ pc = "ready" /\ script # <<>>
  /\ script' = Tail(script)
  /\ before' = fb /\ home' = <<cursor_x, cursor_y>>
  /\ \E call \in Served(Head(script)) :
       /\ job' = call
       /\ \/ /\ call.kind \in {"print_at", "puts"}
             /\ text' = call.s /\ pc' = "char"
             /\ pos_x' = IF call.kind = "print_at" THEN call.x ELSE 0
             /\ pos_y' = IF call.kind = "print_at" THEN call.y ELSE 0
             /\ UNCHANGED <<work, colorVars, ready>>
          \/ /\ call.kind \in {"clear_color", "gfx_clear", "fill", "rect", "bmp"}
             /\ work' = WordsOf(call) /\ pc' = "draw"
             /\ UNCHANGED <<colorVars, ready, textVars>>
          \/ /\ call.kind = "set_color"
             /\ current_fg' = call.fg /\ current_bg' = call.bg /\ pc' = "done"
             /\ UNCHANGED <<work, ready, textVars>>
          \/ /\ call.kind = "create"
             /\ ready' = Append(ready, call.program) /\ pc' = "done"
             /\ UNCHANGED <<work, colorVars, textVars>>
  /\ UNCHANGED <<fb, cursorVars, prog, requests, torn>>

WritePixel ==
  /\ pc = "draw" /\ work # <<>>
  /\ work' = Tail(work)
  /\ fb' = Store(fb, Head(work).at, Head(work).color)
  /\ UNCHANGED <<cursorVars, colorVars, progVars, pc, textVars, callVars, torn>>

Drawn ==
  /\ pc = "draw" /\ work = <<>>
  /\ pc' = AfterDraw(job)
  /\ UNCHANGED <<fb, cursorVars, colorVars, progVars, work, textVars,
                 callVars, torn>>

\* bga_set_cursor(0, 0), after the clear.
HomeX ==
  /\ pc = "home_x"
  /\ cursor_x' = 0 /\ pc' = "home_y"
  /\ UNCHANGED <<fb, cursor_y, colorVars, progVars, work, textVars, callVars,
                 torn>>

HomeY ==
  /\ pc = "home_y"
  /\ cursor_y' = 0 /\ pc' = "done"
  /\ UNCHANGED <<fb, cursor_x, colorVars, progVars, work, textVars, callVars,
                 torn>>

(***************************************************************************)
(* bga_print_at and bga_print: the head of the string, then what its       *)
(* drawing leaves to do.  bga_print moves a cursor that outlives the call. *)
(***************************************************************************)
EndOfText ==
  /\ pc = "char" /\ text = <<>>
  /\ pc' = "done"
  /\ UNCHANGED <<fb, cursorVars, colorVars, progVars, work, textVars,
                 callVars, torn>>

DrawChar ==
  /\ pc = "char" /\ text # <<>> /\ Head(text) # Newline
  /\ work' = IF job.kind = "print_at"
             THEN CharWrites(pos_x, pos_y, Head(text), "white")
             ELSE CharWrites(cursor_x, cursor_y, Head(text), current_fg)
  /\ pc' = "draw"
  /\ UNCHANGED <<fb, cursorVars, colorVars, progVars, textVars, callVars, torn>>

\* A newline, or the edge: back to the column the text began in.
NextLineAtZero(x) == pos_x' = 0 /\ pos_y' = pos_y + CHAR_H
NextLineAt(x)     == pos_x' = x /\ pos_y' = pos_y + CHAR_H

PosAfterChar ==
  IF pos_x + CHAR_W + CHAR_W > W THEN NextLineAt(job.x)
  ELSE pos_x' = pos_x + CHAR_W /\ UNCHANGED pos_y

PosNewline ==
  /\ pc = "char" /\ text # <<>> /\ Head(text) = Newline /\ job.kind = "print_at"
  /\ NextLineAt(job.x)
  /\ text' = Tail(text)
  /\ UNCHANGED <<fb, cursorVars, colorVars, progVars, pc, work, callVars, torn>>

PosAdvance ==
  /\ pc = "advance" /\ job.kind = "print_at"
  /\ PosAfterChar
  /\ text' = Tail(text) /\ pc' = "char"
  /\ UNCHANGED <<fb, cursorVars, colorVars, progVars, work, callVars, torn>>

CursorNewline ==
  /\ pc = "char" /\ text # <<>> /\ Head(text) = Newline /\ job.kind = "puts"
  /\ cursor_x' = 0 /\ pc' = "line"
  /\ UNCHANGED <<fb, cursor_y, colorVars, progVars, work, textVars, callVars,
                 torn>>

CursorAdvance ==
  /\ pc = "advance" /\ job.kind = "puts"
  /\ cursor_x' = cursor_x + CHAR_W /\ pc' = "wrap"
  /\ UNCHANGED <<fb, cursor_y, colorVars, progVars, work, textVars, callVars,
                 torn>>

PastEdge(x) == x + CHAR_W > W
CursorWrap ==
  /\ pc = "wrap"
  /\ IF PastEdge(cursor_x)
     THEN cursor_x' = 0 /\ pc' = "line" /\ UNCHANGED text
     ELSE pc' = "char" /\ text' = Tail(text) /\ UNCHANGED cursor_x
  /\ UNCHANGED <<fb, cursor_y, colorVars, progVars, work, pos_x, pos_y,
                 callVars, torn>>

CursorLine ==
  /\ pc = "line"
  /\ cursor_y' = cursor_y + CHAR_H /\ pc' = "top"
  /\ UNCHANGED <<fb, cursor_x, colorVars, progVars, work, textVars, callVars,
                 torn>>

TopOrHere == IF cursor_y >= H THEN 0 ELSE cursor_y
CursorTop ==
  /\ pc = "top"
  /\ cursor_y' = TopOrHere
  /\ text' = Tail(text) /\ pc' = "char"
  /\ UNCHANGED <<fb, cursor_x, colorVars, progVars, work, pos_x, pos_y,
                 callVars, torn>>

Return ==
  /\ pc = "done"
  /\ pc' = "ready" /\ job' = None
  /\ UNCHANGED <<fb, cursorVars, colorVars, progVars, work, textVars, before,
                 home, torn>>
-----------------------------------------------------------------------------
\* A program that is up makes any of the calls the wrappers offer.
Request ==
  /\ pc = "ready" /\ script = <<>> /\ prog \in {"orbit", "client"}
  /\ requests < MAX_REQUESTS
  /\ requests' = requests + 1
  /\ \E call \in Requests : script' = <<call>>
  /\ UNCHANGED <<fb, cursorVars, colorVars, prog, ready, pc, work, textVars,
                 callVars, torn>>

\* A tick takes the first process of the ready queue; the one it interrupts is
\* never resumed (see Tasking), and neither is the call it was in.
TickStarts ==
  /\ ready # <<>>
  /\ prog' = Head(ready) /\ script' = Script[Head(ready)] /\ ready' = Tail(ready)
  /\ pc' = "ready" /\ job' = None /\ work' = <<>> /\ text' = <<>>
  /\ pos_x' = 0 /\ pos_y' = 0
  /\ torn' = IF pc \in {"wrap", "top"} THEN torn + 1 ELSE torn
  /\ UNCHANGED <<fb, cursorVars, colorVars, requests, before, home>>

Words == 0 .. W * H - 1
Blank == [k \in Words |-> "boot"]

Init ==
  /\ fb = Blank
  /\ cursor_x = 0 /\ cursor_y = 0
  /\ current_fg = "white" /\ current_bg = "black"
  /\ prog = "kernel" /\ script = Script["kernel"] /\ ready = <<>> /\ requests = 0
  /\ pc = "ready" /\ job = None /\ work = <<>>
  /\ text = <<>> /\ pos_x = 0 /\ pos_y = 0
  /\ before = Blank /\ home = <<0, 0>> /\ torn = 0

CallStep == \/ StartCall \/ WritePixel \/ Drawn \/ HomeX \/ HomeY
            \/ EndOfText \/ DrawChar \/ PosNewline \/ PosAdvance
            \/ CursorNewline \/ CursorAdvance \/ CursorWrap \/ CursorLine
            \/ CursorTop \/ Return

-----------------------------------------------------------------------------
(***************************************************************************)
(* What a call is asked to paint: the points of a shape, each with its     *)
(* colour, said in the plane and not by loops.                             *)
(***************************************************************************)
Plane == (0 .. W - 1) \X (0 .. H - 1)

InBox(p, x, y, w, h) == x <= p[1] /\ p[1] < x + w /\ y <= p[2] /\ p[2] < y + h

\* The cell of a string's i-th character, counted in lines of n cells.
CellOf(s, i, first, n) ==
  LET cell[k \in 1 .. Len(s) + 1] ==
        IF k = 1 THEN first
        ELSE IF s[k - 1] = Newline THEN (cell[k - 1] \div n + 1) * n ELSE cell[k - 1] + 1
  IN  cell[i]

\* The corner of the cell: lines of print_at begin where the text does, those of puts at
\* the left, its first one where the call before has stopped.
FewestOne(n) == IF n < 1 THEN 1 ELSE n
PrintAtCorner(call, i) ==
  LET n    == FewestOne((W - call.x) \div CHAR_W)
      cell == CellOf(call.s, i, 0, n)
  IN  <<call.x + (cell % n) * CHAR_W, call.y + (cell \div n) * CHAR_H>>
PutsCorner(call, i) ==
  LET n    == W \div CHAR_W
      cell == CellOf(call.s, i, (home[2] \div CHAR_H) * n + home[1] \div CHAR_W, n)
  IN  <<(cell % n) * CHAR_W, ((cell \div n) % (H \div CHAR_H)) * CHAR_H>>
Corner(call, i) == IF call.kind = "print_at" THEN PrintAtCorner(call, i) ELSE PutsCorner(call, i)

CharPoints(call, i) ==
  {p \in Plane : call.s[i] # Newline /\ <<p[2] - Corner(call, i)[2], p[1] - Corner(call, i)[1]>>
                                          \in Glyph[call.s[i]]}
TextPoints(call) == UNION {CharPoints(call, i) : i \in DOMAIN call.s}

BmpPoints(call) == {p \in Plane : /\ InBox(p, call.x, call.y, call.image.w, call.image.h)
                                  /\ call.image.rows[call.image.h - (p[2] - call.y)]
                                                    [p[1] - call.x + 1] # "clear"}
IsDrawnBmp(image) == image.signature /\ {image.w, image.h} \subseteq 1 .. MAX_BMP

ShapeOf(call) ==
  CASE call.kind \in {"clear_color", "gfx_clear"} -> Plane
    [] call.kind = "fill" -> {p \in Plane : InBox(p, call.x, call.y, call.w, call.h)}
    [] call.kind = "rect" ->
         {p \in Plane : /\ InBox(p, call.x, call.y, call.w, call.h)
                        /\ ~InBox(p, call.x + 1, call.y + 1, call.w - 2, call.h - 2)}
    [] call.kind = "bmp" ->
         IF call.image = Null THEN {}
         ELSE IF IsDrawnBmp(call.image) THEN BmpPoints(call)
         ELSE {p \in Plane : InBox(p, call.x, call.y, ErrorSize, ErrorSize)}
    [] call.kind \in {"print_at", "puts"} -> TextPoints(call)
    [] OTHER -> {}

ColorOf(call, p) ==
  CASE call.kind = "gfx_clear" -> current_bg
    [] call.kind = "print_at" -> "white"
    [] call.kind = "puts" -> current_fg
    [] call.kind = "bmp" -> IF ~call.image.signature THEN "red"
                            ELSE IF ~IsDrawnBmp(call.image) THEN "yellow"
                            ELSE call.image.rows[call.image.h - (p[2] - call.y)]
                                                [p[1] - call.x + 1]
    [] OTHER -> call.color

Point(k) == <<k % W, k \div W>>
Over(picture, call) == LET shape == ShapeOf(call)
                       IN  [k \in Words |-> IF Point(k) \in shape
                                            THEN ColorOf(call, Point(k)) ELSE picture[k]]

\* The calls whose arguments describe a shape: no negative or over-wide rectangle,
\* and no print after a switch that may have left the text cursor off its grid.
Meant(call) ==
  /\ call.kind = "fill" => {call.w, call.h} \subseteq 0 .. HALF - 1
  /\ call.kind = "rect" => call.w >= 1 /\ call.h >= 1
  /\ call.kind = "puts" => torn = 0

-----------------------------------------------------------------------------
Kinds == {"none", "clear_color", "fill", "rect", "print_at", "puts", "set_color",
          "gfx_clear", "bmp", "create"}
Labels == {"ready", "draw", "home_x", "home_y", "char", "advance", "wrap", "line", "top",
           "done"}

\* Nothing is written outside the framebuffer, whatever rectangle, text or image is
\* given and wherever a print cut short left the cursor (bga.c: the count in bga_clear,
\* the clipping in bga_putpixel and bga_fill_rect); and the cursor keeps the range
\* its wraps leave it, a cell more for each such print.
TypeOK ==
  /\ DOMAIN fb = Words /\ DOMAIN before = Words
  /\ cursor_x \in 0 .. W + torn * CHAR_W
  /\ cursor_y \in 0 .. H + torn * CHAR_H
  /\ requests \in 0 .. MAX_REQUESTS

\* When a call is done the screen shows the shape it was asked for over what was
\* there before, and no other word has changed: loops, clipping, packed width and
\* height, flipped rows, wrapped lines together (bga.c, syscall_handler.c), and a text
\* cursor that every call before has left on the grid, unless one was cut short.
Painted == pc = "done" /\ Meant(job) => fb = Over(before, job)

\* The picture after the first n calls of orbit's.
Drawing[n \in 0 .. Len(OrbitDraws)] ==
  IF n = 0 THEN Blank ELSE Over(Drawing[n - 1], OrbitDraws[n])

\* When orbit has drawn its desktop the screen shows the clear, the buttons, the
\* text and the icon one over the other, wherever the tick that started orbit cut
\* sysman's drawing, and nothing of what sysman or the kernel drew (orbit.c).
DesktopShown ==
  prog = "orbit" /\ pc = "ready" /\ script = <<>> /\ requests = 0
    => fb = Drawing[Len(OrbitDraws)]
=============================================================================
