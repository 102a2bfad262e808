------------------------------- MODULE MCScreen -------------------------------
(***************************************************************************)
(* A screen of three characters by two, and a text screen of three by two.  *)
(***************************************************************************)
EXTENDS TextScreen

MCGlyph == [c \in {"o", " ", "."} |->
              CASE c = "o" -> {<<0, 0>>, <<1, 1>>}
                [] c = "." -> {<<1, 0>>}
                [] OTHER -> {}]
MCButtons == << [x |-> 0, y |-> 0], [x |-> 2, y |-> 2] >>
MCBox == [x |-> 1, y |-> 1, w |-> 3, h |-> 2]
Image(sign, w, h, rows) == [signature |-> sign, w |-> w, h |-> h, rows |-> rows]
MCIcon == Image(TRUE, 2, 2, << <<"paper", "clear">>, <<"ink", "paper">> >>)
NoBmp == Image(FALSE, 2, 2, << >>)
Flat  == Image(TRUE, 2, 0, << >>)
Wide  == Image(TRUE, 3, 1, << <<"ink", "paper", "ink">> >>)   \* wider than is drawn
High  == Image(TRUE, 1, 3, << <<"ink">>, <<"paper">>, <<"ink">> >>)

MCHeights == {-1, 1, 3}

MCLowest == -128

MCRequests ==
  { FillRect(-1, -1, 3, 2, "grey"), FillRect(5, 3, 3, 3, "grey"),
    FillRect(2, 1, -1, 1, "grey"), FillRect(1, 1, 0, 2, "grey"),
    DrawRect(-1, 1, 4), DrawRect(1, 0, 3), DrawRect(4, 2, 5),
    PrintAt(3, 1, <<"o", "o", ".">>), PrintAt(-1, 3, <<"o", Newline, "o">>),
    PrintAt(5, 0, <<"o", "o">>),
    Puts(<<"o", "o", "o", ".">>), Puts(<<"o", Newline, ".">>), Puts(<<Newline>>),
    SetColor("paper", "desk"), GfxClear,
    DrawBmp(-1, 1, MCIcon), DrawBmp(5, -1, MCIcon), DrawBmp(1, 1, NoBmp),
    DrawBmp(4, 3, Flat), DrawBmp(1, 2, Wide), DrawBmp(2, 0, High), DrawBmp(1, 1, Null),
    Create("client"),
    Putchar("a"), Say(<<"a", "b", "c", Newline>>), Say(<<Newline, Newline, "b">>),
    Say(<<"a", "b", "c", "a", "b", "c", "a">>), PutsNull,
    Putint(0), Putint(-107), Putint(MCLowest), ClearText, SetAttr(4, 1),
    SetCursor(2, 1), SetCursor(3, 0), TextRect(1, 0, 5, 2, 3), TextBox(0, 0, 3, 2),
    TextBox(1, 0, 3, 1) }

\* What the theorem on the text screen asks of requests.
ASSUME MCShowable == \A call \in Requests : Showable(call)
===============================================================================
