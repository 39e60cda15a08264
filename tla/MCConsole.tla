------------------------------- MODULE MCConsole -------------------------------
(***************************************************************************)
(* A text screen of three lines of two usable columns, one letter, and a   *)
(* message of two lines; a framebuffer of four lines of eight pixels in    *)
(* memory for five, and fonts of glyphs three pixels wide, which are two   *)
(* bytes per line.                                                         *)
(***************************************************************************)
EXTENDS Screens

MCMessage == <<"x", "\n", " ", "x">>

\* Lists with characters of one to four bytes; one list is empty, "?" is in none
\* and shown by glyph 0.
MCLists == << <<65533>>, <<97, 233>>, <<>>, <<8800, 128512, 98>> >>
\* All characters printed are in the last list, "a" in an earlier one too.
MCLastList == << <<65533>>, <<97, 233>>, <<>>, <<8800, 128512, 98, 97, 63>> >>
\* Small glyphs, two lines of two on the screen, and high ones, one line of two; a
\* font without lists whose last glyph is "a".
MCPicture(h, g) == {<<r, c>> \in (0 .. h - 1) \X (0 .. 2) : ((g + 2) \div 2 ^ (r + c)) % 2 = 1}
MCFont(n, h, lists) ==
  [width |-> 3, height |-> h, lists |-> lists, pictures |-> [g \in 0 .. n - 1 |-> MCPicture(h, g)]]
MCFonts == {MCFont(4, 2, MCLastList), MCFont(4, 4, MCLists), MCFont(98, 4, NoTable)}
MCInfo == [pitch |-> 9, width |-> 8, height |-> 4]
MCOutChars == {7, 10, 63, 97, 98}
=============================================================================
