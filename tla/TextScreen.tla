------------------------------ MODULE TextScreen ------------------------------
(***************************************************************************)
(* The text screen beside the graphics screen: vga.c behind the text       *)
(* system calls and behind the reports of exception_handler, which a       *)
(* program's fault brings up.                                              *)
(*                                                                         *)
(* The programs, their calls and the tick that abandons them are those of  *)
(* Screen.  An exception gate leaves interrupts on (idt.c:74), so a tick   *)
(* abandons a report like any call, even the last one before the machine   *)
(* is to be halted.  The cursor lives in two static variables and stays    *)
(* where it was.                                                           *)
(*                                                                         *)
(* The cells are what the code has stored from 0xB8000 on.  Whether the    *)
(* adapter shows them is its own affair: in a graphics mode it does not.   *)
(***************************************************************************)
EXTENDS Screen

CONSTANTS
  VGA_WIDTH, VGA_HEIGHT,  \* 80, 25
  INT_MAX,                \* 2^31 - 1
  FAULTY,                 \* the programs that may fault
  MAX_FAULTS              \* how many faults are followed

ASSUME TextAssumption ==
  /\ VGA_WIDTH \in Nat \ {0, 1, 2} /\ VGA_HEIGHT \in Nat \ {0, 1}
  /\ INT_MAX \in Nat
  /\ MAX_FAULTS \in Nat

VARIABLES
  vga,              \* the cells, and any word written behind them
  vga_x, vga_y,     \* vga.c's cursor
  vga_attr,         \* vga_current_attr
  faults,           \* faults so far
  cut,              \* history: prints abandoned with the cursor below the screen
  shown             \* history: cells, cursor and colour when the call began

vgaVars == <<vga, vga_x, vga_y, vga_attr, faults, cut, shown>>
graphicsVars == <<fb, cursorVars, colorVars, torn>>
textScreenVars == <<vars, vgaVars>>

-----------------------------------------------------------------------------
(***************************************************************************)
(* Text calls.  putchar, puts, putint and vga_print are strings of         *)
(* characters that go the same way.                                        *)
(***************************************************************************)
PrintAtCell(x, y, s) == [kind |-> "vga_at", x |-> x, y |-> y, s |-> s]
ClearText         == [kind |-> "vga_clear", x |-> 0, y |-> 0]
SetAttr(fg, bg)   == [kind |-> "vga_color", fg |-> fg, bg |-> bg]
SetCursor(x, y)   == [kind |-> "vga_cursor", x |-> x, y |-> y]
TextRect(x, y, w, h, c) == [kind |-> "vga_rect", x |-> x, y |-> y, w |-> w, h |-> h, color |-> c]
TextBox(x, y, w, h) == [kind |-> "vga_box", x |-> x, y |-> y, w |-> w, h |-> h]
TextKinds == {"vga_print", "vga_at", "vga_clear", "vga_color", "vga_cursor",
              "vga_rect", "vga_box"}

TextTyped(call) ==
  /\ call.kind \in Kinds \cup TextKinds
  /\ call.kind \in {"vga_at", "vga_cursor", "vga_rect", "vga_box"}
       => {call.x, call.y} \subseteq Int
  /\ call.kind \in {"vga_rect", "vga_box"} => {call.w, call.h} \subseteq Int
  /\ call.kind = "vga_clear" => call = ClearText
  /\ call.kind = "vga_color" => {call.fg, call.bg} \subseteq Int

ASSUME TextRequestsAssumption == \A call \in Requests : TextTyped(call)

Putchar(c) == Say(<<c>>)

\* kernel_puts of a null pointer.
PutsNull == Say(<<"N", "U", "L", "L">>)

\* vga_putint: the digits come out last first into a buffer that is printed backwards.
\* The negative of the lowest integer is itself (built without optimisation), which
\* leaves the loop nothing to do.
Negative(n) == IF n = -INT_MAX - 1 THEN n ELSE -n
Buffer[n \in Nat] == IF n = 0 THEN <<>> ELSE <<ToString(n % 10)>> \o Buffer[n \div 10]
PutintText(n) ==
  IF n = 0 THEN <<"0">>
  ELSE LET size == IF n < 0 THEN Negative(n) ELSE n
       IN  (IF n < 0 THEN <<"-">> ELSE <<>>) \o (IF size > 0 THEN Reverse(Buffer[size]) ELSE <<>>)
Putint(n) == Say(PutintText(n)) @@ [number |-> n]

\* handle_user_exception, whose report begins and ends with a newline.
ReportDraws == <<Say(<<Newline, "R", Newline, "r", Newline>>)>>

\* handle_kernel_exception: two clears (the first in vbe_emergency_text_mode), a header
\* across the screen with a title over it, fields with a label and a value, a footer.
Header == [i \in 1 .. VGA_WIDTH |-> "="]
PanicDraws ==
  << ClearText, ClearText,
     SetAttr(7, 0), PrintAtCell(0, 0, Header),
     SetAttr(12, 0), PrintAtCell(1, 0, <<"B">>),
     SetAttr(11, 0), PrintAtCell(0, VGA_HEIGHT - 1, <<"T">>),
     SetAttr(15, 0), PrintAtCell(2, VGA_HEIGHT - 1, <<"v">>) >>

-----------------------------------------------------------------------------
(***************************************************************************)
(* The words of the functions that only write.                             *)
(***************************************************************************)
Cells == VGA_WIDTH * VGA_HEIGHT
TextWords == 0 .. Cells - 1
CellAt(x, y) == y * VGA_WIDTH + x

Attr(fg, bg) == ((bg * 16) % 256) + (fg % 16)

VgaClearWrites == [i \in 1 .. Cells |-> [at |-> i - 1, char |-> " ", attr |-> vga_attr]]

VgaRectWrites(x, y, w, h, c) ==
  LET points == Raster(y, Lesser(y + h, VGA_HEIGHT), x, Lesser(x + w, VGA_WIDTH))
  IN  [i \in DOMAIN points |-> [at |-> CellAt(points[i][2], points[i][1]),
                                char |-> "block", attr |-> Attr(c, c)]]

InText(x, y) == x >= 0 /\ x < VGA_WIDTH /\ y >= 0 /\ y < VGA_HEIGHT

\* vga_draw_box: nothing unless the box fits; top, bottom, then both sides.
VgaBoxWrites(x, y, w, h) ==
  LET Along(row) == [i \in 1 .. w |-> [at |-> CellAt(x + i - 1, row), char |-> "=",
                                       attr |-> vga_attr]]
      side(col, row) == [at |-> CellAt(col, row), char |-> "|", attr |-> vga_attr]
      down == Counting(y + 1, y + h - 1)
  IN  IF x < 0 \/ y < 0 \/ x + w > VGA_WIDTH \/ y + h > VGA_HEIGHT THEN <<>>
      ELSE Along(y) \o Along(y + h - 1)
             \o FlattenSeq([i \in DOMAIN down |->
                              <<side(x, down[i]), side(x + w - 1, down[i])>>])

TextWordsOf(call) ==
  CASE call.kind = "vga_clear" -> VgaClearWrites
    [] call.kind = "vga_rect" -> VgaRectWrites(call.x, call.y, call.w, call.h, call.color)
    [] call.kind = "vga_box"  -> VgaBoxWrites(call.x, call.y, call.w, call.h)

-----------------------------------------------------------------------------
(***************************************************************************)
(* One text call.                                                          *)
(***************************************************************************)
Same == UNCHANGED <<graphicsVars, progVars, callVars, faults, cut, shown>>
Step(from, to) == pc = from /\ pc' = to /\ Same

StartText ==
  /\ pc = "ready" /\ script # <<>>
  /\ script' = Tail(script) /\ job' = Head(script)
  /\ before' = fb /\ home' = <<cursor_x, cursor_y>>
  /\ shown' = [vga |-> vga, x |-> vga_x, y |-> vga_y, attr |-> vga_attr]
  /\ LET call == Head(script)
     IN  \/ /\ call.kind = "vga_print"
            /\ text' = call.s /\ pc' = "vga_char"
            /\ UNCHANGED <<work, pos_x, pos_y, vga_attr>>
         \/ /\ call.kind \in {"vga_clear", "vga_rect", "vga_box"}
            /\ work' = TextWordsOf(call) /\ pc' = "vga_draw"
            /\ UNCHANGED <<textVars, vga_attr>>
         \/ /\ call.kind = "vga_color"
            /\ vga_attr' = Attr(call.fg, call.bg) /\ pc' = "done"
            /\ UNCHANGED <<work, textVars>>
         \/ /\ call.kind = "vga_cursor"
            /\ pc' = IF InText(call.x, call.y) THEN "to_x" ELSE "done"
            /\ UNCHANGED <<work, textVars, vga_attr>>
         \/ /\ call.kind = "vga_at"
            /\ IF InText(call.x, call.y)
               THEN /\ pc' = "to_x" /\ text' = call.s
                    /\ pos_x' = vga_x /\ pos_y' = vga_y     \* saved_x, saved_y
               ELSE pc' = "done" /\ UNCHANGED textVars
            /\ UNCHANGED <<work, vga_attr>>
  /\ UNCHANGED <<graphicsVars, prog, ready, requests, vga, vga_x, vga_y, faults, cut>>

WriteCell ==
  /\ work # <<>>
  /\ Step("vga_draw", "vga_draw")
  /\ vga' = Store(vga, Head(work).at, [char |-> Head(work).char, attr |-> Head(work).attr])
  /\ work' = Tail(work)
  /\ UNCHANGED <<textVars, vga_x, vga_y, vga_attr>>

\* vga_clear goes on to home the cursor.
TextDrawn ==
  /\ work = <<>>
  /\ Step("vga_draw", IF job.kind = "vga_clear" THEN "to_x" ELSE "done")
  /\ UNCHANGED <<work, textVars, vga, vga_x, vga_y, vga_attr>>

ToX ==
  /\ Step("to_x", "to_y")
  /\ vga_x' = job.x
  /\ UNCHANGED <<work, textVars, vga, vga_y, vga_attr>>

ToY ==
  /\ Step("to_y", IF job.kind = "vga_at" THEN "at_char" ELSE "done")
  /\ vga_y' = job.y
  /\ UNCHANGED <<work, textVars, vga, vga_x, vga_attr>>

Put(c) == vga' = Store(vga, CellAt(vga_x, vga_y), [char |-> c, attr |-> vga_attr])

(***************************************************************************)
(* vga_print and vga_putchar: the line is broken before the character that *)
(* does not fit, and the last line is the end of the screen.               *)
(***************************************************************************)
EndOfPrint ==
  /\ text = <<>>
  /\ Step("vga_char", "done")
  /\ UNCHANGED <<work, textVars, vga, vga_x, vga_y, vga_attr>>

LineFullEarly(x) == x >= VGA_WIDTH - 1
LineFull(x)      == x >= VGA_WIDTH

\* A newline, or a full line.
BreakLine ==
  /\ text # <<>>
  /\ Head(text) = Newline \/ LineFull(vga_x)
  /\ Step("vga_char", "vga_line")
  /\ vga_x' = 0
  /\ UNCHANGED <<work, textVars, vga, vga_y, vga_attr>>

NextLine ==
  /\ Step("vga_line", "vga_limit")
  /\ vga_y' = vga_y + 1
  /\ UNCHANGED <<work, textVars, vga, vga_x, vga_attr>>

OnLastLine(y) == IF y >= VGA_HEIGHT THEN VGA_HEIGHT - 1 ELSE y
LimitLine ==
  /\ pc = "vga_limit"
  /\ vga_y' = OnLastLine(vga_y)
  /\ IF Head(text) = Newline
     THEN Step("vga_limit", "vga_char") /\ text' = Tail(text)
     ELSE Step("vga_limit", "vga_put") /\ UNCHANGED text
  /\ UNCHANGED <<work, pos_x, pos_y, vga, vga_x, vga_attr>>

FitsHere ==
  /\ text # <<>>
  /\ Head(text) # Newline /\ ~LineFull(vga_x)
  /\ Step("vga_char", "vga_put")
  /\ UNCHANGED <<work, textVars, vga, vga_x, vga_y, vga_attr>>

PutHere ==
  /\ Step("vga_put", "vga_step")
  /\ Put(Head(text))
  /\ UNCHANGED <<work, textVars, vga_x, vga_y, vga_attr>>

StepRight ==
  /\ Step("vga_step", "vga_char")
  /\ vga_x' = vga_x + 1 /\ text' = Tail(text)
  /\ UNCHANGED <<work, pos_x, pos_y, vga, vga_y, vga_attr>>

(***************************************************************************)
(* vga_print_at: one line, cut at the edge, with the cursor borrowed.      *)
(***************************************************************************)
GoesOn == text # <<>> /\ vga_x < VGA_WIDTH /\ Head(text) # Newline

PutThere ==
  /\ GoesOn
  /\ Step("at_char", "at_step")
  /\ Put(Head(text))
  /\ UNCHANGED <<work, textVars, vga_x, vga_y, vga_attr>>

StepThere ==
  /\ Step("at_step", "at_char")
  /\ vga_x' = vga_x + 1 /\ text' = Tail(text)
  /\ UNCHANGED <<work, pos_x, pos_y, vga, vga_y, vga_attr>>

EndThere ==
  /\ ~GoesOn
  /\ Step("at_char", "back_x")
  /\ UNCHANGED <<work, textVars, vga, vga_x, vga_y, vga_attr>>

BackX ==
  /\ Step("back_x", "back_y")
  /\ vga_x' = pos_x
  /\ UNCHANGED <<work, textVars, vga, vga_y, vga_attr>>

BackY ==
  /\ Step("back_y", "done")
  /\ vga_y' = pos_y
  /\ UNCHANGED <<work, textVars, vga, vga_x, vga_attr>>

TextStep == \/ StartText \/ WriteCell \/ TextDrawn \/ ToX \/ ToY
            \/ EndOfPrint \/ BreakLine \/ NextLine \/ LimitLine \/ FitsHere
            \/ PutHere \/ StepRight
            \/ PutThere \/ StepThere \/ EndThere \/ BackX \/ BackY

-----------------------------------------------------------------------------
(***************************************************************************)
(* Faults.  Either branch of exception_handler may follow (see Traps): a   *)
(* report and a jump to sysman_entry_point, or a report and the end.       *)
(* Nothing ever assigns sysman_entry_point (kernel.c:92), so the jump ends *)
(* astray.  The kernel itself faults where it reads a program's string.    *)
(***************************************************************************)
Handler == [report |-> ReportDraws, panic |-> PanicDraws]

Fault ==
  /\ prog \in FAULTY /\ pc \in {"ready", "char", "vga_char"}
  /\ faults < MAX_FAULTS
  /\ faults' = faults + 1
  /\ \E handler \in DOMAIN Handler : prog' = handler /\ script' = Handler[handler]
  /\ pc' = "ready" /\ job' = None /\ work' = <<>> /\ text' = <<>>
  /\ pos_x' = 0 /\ pos_y' = 0
  /\ UNCHANGED <<graphicsVars, ready, requests, before, home, vga, vga_x, vga_y,
                 vga_attr, cut, shown>>

\* ring3_switch(sysman_entry_point), to whatever lies at address 0.
GoAstray ==
  /\ prog = "report" /\ script = <<>> /\ pc = "ready"
  /\ prog' = "astray"
  /\ UNCHANGED <<graphicsVars, script, ready, requests, pc, work, textVars, callVars,
                 vgaVars>>

\* cli; hlt.
Halt ==
  /\ prog = "panic" /\ script = <<>> /\ pc = "ready"
  /\ pc' = "stopped"
  /\ UNCHANGED <<graphicsVars, progVars, work, textVars, callVars, vgaVars>>

TextTick ==
  /\ pc # "stopped"
  /\ TickStarts
  /\ cut' = IF pc = "vga_limit" /\ vga_y >= VGA_HEIGHT THEN cut + 1 ELSE cut
  /\ UNCHANGED <<vga, vga_x, vga_y, vga_attr, faults, shown>>

Left == [k \in TextWords |-> [char |-> "grub", attr |-> 7]]

TextInit ==
  /\ Init
  /\ vga = Left /\ vga_x = 0 /\ vga_y = 0 /\ vga_attr = 7
  /\ faults = 0 /\ cut = 0
  /\ shown = [vga |-> Left, x |-> 0, y |-> 0, attr |-> 7]

TextNext ==
  \/ (CallStep \/ Request) /\ UNCHANGED vgaVars
  \/ TextStep
  \/ Fault \/ GoAstray \/ Halt
  \/ TextTick

TextSpec == TextInit /\ [][TextNext]_textScreenVars

-----------------------------------------------------------------------------
(***************************************************************************)
(* What a call is asked to show, said by lines and columns.                *)
(***************************************************************************)
\* The character after the last newline before the i-th; the column the i-th has on a
\* line without an edge; the lines that n columns take, an empty one being a line.
FirstOfLine(s, i) == Max({0} \cup {j \in 1 .. i - 1 : s[j] = Newline}) + 1
Column(s, i) == i - FirstOfLine(s, i) + (IF FirstOfLine(s, i) = 1 THEN shown.x ELSE 0)
LinesOf(n) == IF n = 0 THEN 1 ELSE (n + VGA_WIDTH - 1) \div VGA_WIDTH
LinesBefore(s, i) ==
  LET lines[k \in 1 .. Len(s) + 1] ==
        IF k = 1 THEN 0
        ELSE lines[k - 1] + (IF s[k - 1] = Newline THEN LinesOf(Column(s, k - 1)) ELSE 0)
  IN  lines[i]
LineFrom(s, i, n) == Lesser(VGA_HEIGHT - 1, shown.y + LinesBefore(s, i) + (n \div VGA_WIDTH))

PlaceOf(s, i) == CellAt(Column(s, i) % VGA_WIDTH, LineFrom(s, i, Column(s, i)))

\* Behind the last character, on its own line even when that is full.
CursorBehind(s) ==
  LET n == Column(s, Len(s) + 1)
  IN  IF n = 0 THEN <<0, LineFrom(s, Len(s) + 1, 0)>>
      ELSE <<((n - 1) % VGA_WIDTH) + 1, LineFrom(s, Len(s) + 1, n - 1)>>

Cell(c) == [char |-> c, attr |-> shown.attr]
OneLine(s) == {i \in DOMAIN s : \A j \in 1 .. i : s[j] # Newline}

\* The cell the call leaves at word k.
Asked(call, k) ==
  LET p == <<k % VGA_WIDTH, k \div VGA_WIDTH>>
      fits == InText(call.x, call.y)
  IN  CASE call.kind = "vga_print" ->
             LET here == {i \in DOMAIN call.s : call.s[i] # Newline /\ PlaceOf(call.s, i) = k}
             IN  IF here = {} THEN shown.vga[k] ELSE Cell(call.s[Max(here)])
        [] call.kind = "vga_at" ->
             IF fits /\ p[2] = call.y /\ p[1] - call.x + 1 \in OneLine(call.s)
             THEN Cell(call.s[p[1] - call.x + 1]) ELSE shown.vga[k]
        [] call.kind = "vga_clear" -> Cell(" ")
        [] call.kind = "vga_rect" ->
             IF InBox(p, call.x, call.y, call.w, call.h)
             THEN [char |-> "block", attr |-> 17 * call.color] ELSE shown.vga[k]
        [] call.kind = "vga_box" ->
             IF call.x + call.w > VGA_WIDTH \/ call.y + call.h > VGA_HEIGHT
                  \/ ~InBox(p, call.x, call.y, call.w, call.h) THEN shown.vga[k]
             ELSE IF p[2] \in {call.y, call.y + call.h - 1} THEN Cell("=")
             ELSE IF p[1] \in {call.x, call.x + call.w - 1} THEN Cell("|")
             ELSE shown.vga[k]
        [] OTHER -> shown.vga[k]

\* The number a string of digits stands for.
ValueOf(s) ==
  LET digit(c) == CHOOSE d \in 0 .. 9 : ToString(d) = c
      size == FoldLeft(LAMBDA n, c : IF c = "-" THEN n ELSE 10 * n + digit(c), 0, s)
  IN  IF s[1] = "-" THEN -size ELSE size
NumberAsked(call) ==
  "number" \in DOMAIN call => call.number \in {ValueOf(call.s), -INT_MAX - 1}

CursorAsked(call) ==
  CASE call.kind = "vga_print" -> CursorBehind(call.s)
    [] call.kind = "vga_clear" -> <<0, 0>>
    [] call.kind = "vga_cursor" /\ InText(call.x, call.y) -> <<call.x, call.y>>
    [] OTHER -> <<shown.x, shown.y>>

AttrAsked(call) == IF call.kind = "vga_color" THEN call.fg + 16 * call.bg ELSE shown.attr

\* A call that can be shown: its text is a string, its number the one its digits stand for;
\* a shape that vga.c does not clip begins on the screen and has an extent; a colour is one
\* of sixteen.  So are the calls that kernel, sysman, orbit and the reports make.
Showable(call) ==
  /\ call.kind \in {"vga_print", "vga_at"} => call.s \in Seq(Range(call.s))
  /\ call.kind \in {"vga_rect", "vga_box"} => call.x >= 0 /\ call.y >= 0
  /\ call.kind = "vga_rect" => call.color \in 0 .. 15
  /\ call.kind = "vga_box" => call.w >= 1 /\ call.h >= 1
  /\ call.kind = "vga_color" => {call.fg, call.bg} \subseteq 0 .. 15
  /\ call.kind \in TextKinds => NumberAsked(call)

-----------------------------------------------------------------------------
TextLabels == {"vga_draw", "to_x", "to_y", "vga_char", "vga_line", "vga_limit", "vga_put",
               "vga_step", "at_char", "at_step", "back_x", "back_y", "stopped"}

\* Screen's bounds (TypeOK), and those of the text: a program leaves the cursor on the
\* screen or at most a line below it, for each print that a tick cut between moving the
\* cursor and limiting it, and no text lands further down (vga.c).
TextTypeOK ==
  /\ TypeOK
  /\ prog \in DOMAIN Script \cup DOMAIN Handler \cup {"astray"}
  /\ pc \in Labels \cup TextLabels
  /\ job.kind \in Kinds \cup TextKinds
  /\ faults \in 0 .. MAX_FAULTS
  /\ vga_x \in 0 .. VGA_WIDTH
  /\ vga_y \in 0 .. VGA_HEIGHT + cut
  /\ DOMAIN vga \subseteq 0 .. Cells + cut * VGA_WIDTH - 1
  /\ TextWords \subseteq DOMAIN vga
  /\ vga_attr \in 0 .. 255

\* When a text call is done, the cells, the cursor and the colour are what it asked for
\* over what was there, and no other word has changed: lines broken at the edge and at
\* newlines, one newline after a full line, the last line written over and over, a
\* cursor borrowed and given back, the digits of any number but the lowest, whatever
\* calls and reports were cut short before (vga.c), unless one of them has left the
\* cursor below the screen.
TextShown ==
  pc = "done" /\ job.kind \in TextKinds /\ shown.y < VGA_HEIGHT =>
    /\ vga = [k \in DOMAIN shown.vga |-> IF k \in TextWords THEN Asked(job, k)
                                         ELSE shown.vga[k]]
    /\ <<vga_x, vga_y>> = CursorAsked(job)
    /\ vga_attr = AttrAsked(job)
    /\ NumberAsked(job)
=============================================================================
