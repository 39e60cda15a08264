----------------------------- MODULE ConsoleProofs -----------------------------
(***************************************************************************)
(* Proofs about the consoles: that the two writers of the text screen      *)
(* print what TextScreen expects and that the exception handler's message  *)
(* survives whatever it interrupted; and, of the framebuffer, that each    *)
(* character is found in the font's table and drawn as its glyph.          *)
(***************************************************************************)
EXTENDS Screens, DataInduction, SequenceTheorems, FiniteSetTheorems, TLAPS

Screen == [buf : [Cells -> Cell], x : 0 .. width - 1, y : 0 .. height - 1]

\* The text the memory b shows.
Lines(b) == [r \in 0 .. height - 1 |-> [k \in 0 .. width - 2 |-> b[r * width + k]]]

Blanks == {EarlyBlank, KernelBlank}

-----------------------------------------------------------------------------
(***************************************************************************)
(* Cells of the screen.                                                    *)
(***************************************************************************)
LEMMA Products ==
  ASSUME NEW a \in Int, NEW b \in Int, NEW n \in Nat, a <= b
  PROVE  a * n \in Int /\ b * n \in Int /\ a * n <= b * n
OBVIOUS

LEMMA IndexIsCell ==
  ASSUME NEW x \in 0 .. width - 1, NEW y \in 0 .. height - 1
  PROVE  y * width + x \in Cells
<1>1. width \in Nat /\ height \in Nat /\ width > 1 /\ height > 0
  BY SizeAssumption
<1>2. y * width \in Int /\ (height - 1) * width \in Int /\ y * width <= (height - 1) * width
  BY <1>1, Products
<1>3. 0 * width <= y * width /\ 0 * width = 0
  BY <1>1, Products
<1>4. (height - 1) * width = width * height - width /\ width * height \in Int
  BY <1>1
<1> QED
  BY <1>1, <1>2, <1>3, <1>4 DEF Cells

\* A cell has one row and one column.
LEMMA IndexIsUnique ==
  ASSUME NEW x1 \in 0 .. width - 1, NEW y1 \in Nat,
         NEW x2 \in 0 .. width - 1, NEW y2 \in Nat,
         y1 * width + x1 = y2 * width + x2
  PROVE  x1 = x2 /\ y1 = y2
<1>1. width \in Nat /\ width > 1
  BY SizeAssumption
<1>2. ASSUME NEW a \in Nat, NEW b \in Nat, a < b
      PROVE  a * width + width <= b * width
  <2>1. (a + 1) * width <= b * width
    BY <1>1, <1>2, Products
  <2>2. (a + 1) * width = a * width + width
    BY <1>1
  <2> QED
    BY <2>1, <2>2
<1>3. y1 * width \in Int /\ y2 * width \in Int
  BY <1>1
<1>4. ~(y1 < y2)
  <2> SUFFICES ASSUME y1 < y2 PROVE FALSE
    OBVIOUS
  <2>1. y1 * width + width <= y2 * width
    BY <1>2
  <2> QED
    BY <2>1, <1>1, <1>3
<1>5. ~(y2 < y1)
  <2> SUFFICES ASSUME y2 < y1 PROVE FALSE
    OBVIOUS
  <2>1. y2 * width + width <= y1 * width
    BY <1>2
  <2> QED
    BY <2>1, <1>1, <1>3
<1> QED
  BY <1>3, <1>4, <1>5

LEMMA BlanksAreCells == Blanks \subseteq Cell
<1>1. " " \in Printable \cup {"?"}
  BY TextAssumption
<1>2. "bright_white" \in Foregrounds /\ "black" \in Foregrounds
  BY DEF Foregrounds
<1>3. <<" ", "bright_white">> \in Cell /\ <<" ", "black">> \in Cell
  BY <1>1, <1>2 DEF Cell
<1> QED
  BY <1>3 DEF Blanks, EarlyBlank, KernelBlank

-----------------------------------------------------------------------------
(***************************************************************************)
(* What the operations on a screen do to it.                               *)
(***************************************************************************)
LEMMA ScrolledBuffer ==
  ASSUME NEW b \in [Cells -> Cell], NEW blank \in Cell
  PROVE  scroll_line(b, blank) \in [Cells -> Cell]
<1>1. width \in Nat /\ height \in Nat /\ width > 1 /\ height > 0
  BY SizeAssumption
<1>2. width * (height - 1) = width * height - width /\ width * height \in Nat
  BY <1>1
<1>3. ASSUME NEW k \in Cells, k < width * (height - 1)
      PROVE  k + width \in Cells
  BY <1>1, <1>2, <1>3 DEF Cells
<1> QED
  BY <1>3 DEF scroll_line

LEMMA PartlyScrolledBuffer ==
  ASSUME NEW b \in [Cells -> Cell], NEW blank \in Cell, NEW c \in PartlyScrolled(b, blank)
  PROVE  c \in [Cells -> Cell]
<1>1. scroll_line(b, blank) \in [Cells -> Cell]
  BY ScrolledBuffer
<1> QED
  BY <1>1 DEF PartlyScrolled

LEMMA NewlineScreen ==
  ASSUME NEW s \in Screen, NEW blank \in Cell
  PROVE  /\ newline(s, blank) \in Screen
         /\ newline(s, blank).x = 0
         /\ IF s.y + 1 = height
              THEN /\ newline(s, blank).y = s.y
                   /\ newline(s, blank).buf = scroll_line(s.buf, blank)
              ELSE newline(s, blank).y = s.y + 1 /\ newline(s, blank).buf = s.buf
<1>1. width \in Nat /\ height \in Nat /\ width > 1 /\ height > 0
  BY SizeAssumption
<1>2. scroll_line(s.buf, blank) \in [Cells -> Cell]
  BY ScrolledBuffer DEF Screen
<1>3. CASE s.y + 1 = height
  <2>1. newline(s, blank) = [s EXCEPT !.buf = scroll_line(s.buf, blank), !.x = 0]
    BY <1>3 DEF newline
  <2> DEFINE b == scroll_line(s.buf, blank)
             t == [s EXCEPT !.buf = b, !.x = 0]
  <2>2. b \in [Cells -> Cell] /\ 0 \in 0 .. width - 1
    BY <1>1, <1>2
  <2> HIDE DEF b
  <2>3. t.buf = b /\ t.x = 0 /\ t.y = s.y
    BY DEF Screen
  <2>4. t \in Screen
    BY <2>2 DEF Screen
  <2> QED
    BY <1>3, <2>1, <2>3, <2>4 DEF b
<1>4. CASE s.y + 1 # height
  <2>1. newline(s, blank) = [s EXCEPT !.y = s.y + 1, !.x = 0]
    BY <1>4 DEF newline
  <2> DEFINE b == s.y + 1
             t == [s EXCEPT !.y = b, !.x = 0]
  <2>2. 0 \in 0 .. width - 1 /\ b \in 0 .. height - 1
    BY <1>1, <1>4 DEF Screen
  <2> HIDE DEF b
  <2>3. t.buf = s.buf /\ t.x = 0 /\ t.y = b
    BY DEF Screen
  <2>4. t \in Screen
    BY <2>2 DEF Screen
  <2> QED
    BY <1>4, <2>1, <2>3, <2>4 DEF b
<1> QED
  BY <1>3, <1>4

LEMMA AmidNewlineScreen ==
  ASSUME NEW s \in Screen, NEW blank \in Cell, NEW t \in AmidNewline(s, blank)
  PROVE  t \in Screen
<1>1. width \in Nat /\ height \in Nat /\ width > 1 /\ height > 0
  BY SizeAssumption
<1>2. CASE s.y + 1 = height
  <2>1. PICK b \in PartlyScrolled(s.buf, blank) : t = [s EXCEPT !.buf = b]
    BY <1>2 DEF AmidNewline
  <2>2. b \in [Cells -> Cell]
    BY PartlyScrolledBuffer DEF Screen
  <2> QED
    BY <2>1, <2>2 DEF Screen
<1>3. CASE s.y + 1 # height
  <2>1. t = [s EXCEPT !.y = s.y + 1]
    BY <1>3 DEF AmidNewline
  <2> QED
    BY <1>1, <1>3, <2>1 DEF Screen
<1> QED
  BY <1>2, <1>3

LEMMA WrappedScreen ==
  ASSUME NEW s \in Screen, NEW blank \in Cell
  PROVE  /\ Wrapped(s, blank) \in Screen
         /\ Wrapped(s, blank).x < width - 1
<1>1. width \in Nat /\ width > 1
  BY SizeAssumption
<1>2. s.x \in 0 .. width - 1
  BY DEF Screen
<1>3. CASE LineFull(s)
  <2>1. newline(s, blank) \in Screen /\ newline(s, blank).x = 0
    BY NewlineScreen
  <2> QED
    BY <1>1, <1>3, <2>1 DEF Wrapped
<1>4. CASE ~LineFull(s)
  BY <1>1, <1>2, <1>4 DEF Wrapped, LineFull
<1> QED
  BY <1>3, <1>4

LEMMA WrittenScreen ==
  ASSUME NEW s \in Screen, NEW cell \in Cell
  PROVE  /\ Written(s, cell) \in Screen
         /\ Written(s, cell).x = s.x /\ Written(s, cell).y = s.y
         /\ Written(s, cell).buf = [s.buf EXCEPT ![s.y * width + s.x] = cell]
BY DEF Written, Screen

LEMMA PrintedScreen ==
  ASSUME NEW s \in Screen, NEW cell \in Cell, NEW blank \in Cell
  PROVE  /\ Printed(s, cell, blank) \in Screen
         /\ Printed(s, cell, blank).x = Wrapped(s, blank).x + 1
         /\ Printed(s, cell, blank).y = Wrapped(s, blank).y
         /\ Printed(s, cell, blank).buf = Written(Wrapped(s, blank), cell).buf
<1>1. width \in Nat /\ width > 1
  BY SizeAssumption
<1> DEFINE w == Wrapped(s, blank)
           t == Written(w, cell)
<1>2. w \in Screen /\ w.x < width - 1
  BY WrappedScreen
<1>3. t \in Screen /\ t.x = w.x /\ t.y = w.y
  BY <1>2, WrittenScreen
<1>4. Printed(s, cell, blank) = [t EXCEPT !.x = t.x + 1]
  BY DEF Printed, Advanced
<1> HIDE DEF w, t
<1>5. [t EXCEPT !.x = t.x + 1] \in Screen
  BY <1>1, <1>2, <1>3 DEF Screen
<1>6. /\ [t EXCEPT !.x = t.x + 1].x = t.x + 1
      /\ [t EXCEPT !.x = t.x + 1].y = t.y
      /\ [t EXCEPT !.x = t.x + 1].buf = t.buf
  BY <1>3 DEF Screen
<1> QED
  BY <1>3, <1>4, <1>5, <1>6 DEF w, t

LEMMA AmidPrintedScreen ==
  ASSUME NEW s \in Screen, NEW cell \in Cell, NEW blank \in Cell,
         NEW t \in AmidPrinted(s, cell, blank)
  PROVE  t \in Screen
<1>1. Wrapped(s, blank) \in Screen
  BY WrappedScreen
<1>2. Written(Wrapped(s, blank), cell) \in Screen
  BY <1>1, WrittenScreen
<1>3. CASE t \in {s, Wrapped(s, blank), Written(Wrapped(s, blank), cell)}
  BY <1>1, <1>2, <1>3
<1>4. CASE t \in AmidNewline(s, blank)
  BY <1>4, AmidNewlineScreen
<1> QED
  BY <1>3, <1>4 DEF AmidPrinted

LEMMA ReturnScreen ==
  ASSUME NEW s \in Screen
  PROVE  /\ [s EXCEPT !.x = 0] \in Screen
         /\ [s EXCEPT !.x = 0].x = 0 /\ [s EXCEPT !.x = 0].y = s.y
         /\ [s EXCEPT !.x = 0].buf = s.buf
<1>1. 0 \in 0 .. width - 1
  BY SizeAssumption
<1> QED
  BY <1>1 DEF Screen

LEMMA vga_out_charScreen ==
  ASSUME NEW s \in Screen, NEW ch \in Text
  PROVE  /\ vga_out_char(s, ch) \in Screen
         /\ \A t \in Amid_vga_out_char(s, ch) : t \in Screen
<1>1. EarlyBlank \in Cell
  BY BlanksAreCells DEF Blanks
<1>2. "\n" \notin Printable /\ "\r" \notin Printable
  BY TextAssumption
<1>3. CASE ch = "\n"
  BY <1>1, <1>2, <1>3, NewlineScreen, AmidNewlineScreen
     DEF vga_out_char, Amid_vga_out_char, isprint
<1>4. CASE ch = "\r"
  BY <1>2, <1>4, ReturnScreen DEF vga_out_char, Amid_vga_out_char, isprint
<1>5. CASE isprint(ch)
  <2>1. OfEarly(ch) \in Cell
    BY <1>5 DEF isprint, OfEarly, Cell, Foregrounds
  <2>2. ch # "\n" /\ ch # "\r"
    BY <1>2, <1>5 DEF isprint
  <2>3. Printed(s, OfEarly(ch), EarlyBlank) \in Screen
    BY <1>1, <2>1, PrintedScreen
  <2>4. \A t \in AmidPrinted(s, OfEarly(ch), EarlyBlank) : t \in Screen
    BY <1>1, <2>1, AmidPrintedScreen
  <2> QED
    BY <1>5, <2>2, <2>3, <2>4 DEF vga_out_char, Amid_vga_out_char
<1>6. CASE ch # "\n" /\ ch # "\r" /\ ~isprint(ch)
  BY <1>6 DEF vga_out_char, Amid_vga_out_char
<1> QED
  BY <1>3, <1>4, <1>5, <1>6

LEMMA write_charScreen ==
  ASSUME NEW s \in Screen, NEW ch \in Text, fg_color \in Foregrounds
  PROVE  /\ write_char(s, ch) \in Screen
         /\ \A t \in Amid_write_char(s, ch) : t \in Screen
<1>1. KernelBlank \in Cell
  BY BlanksAreCells DEF Blanks
<1>2. "\n" \notin Printable /\ "\r" \notin Printable
  BY TextAssumption
<1>3. CASE ch = "\n"
  BY <1>1, <1>2, <1>3, NewlineScreen, AmidNewlineScreen DEF write_char, Amid_write_char, isprint
<1>4. CASE ch = "\r"
  BY <1>2, <1>4, ReturnScreen DEF write_char, Amid_write_char, isprint
<1>5. CASE isprint(ch)
  <2>1. <<ch, fg_color>> \in Cell
    BY <1>5 DEF isprint, Cell
  <2>2. ch # "\n" /\ ch # "\r"
    BY <1>2, <1>5 DEF isprint
  <2>3. Printed(s, <<ch, fg_color>>, KernelBlank) \in Screen
    BY <1>1, <2>1, PrintedScreen
  <2>4. \A t \in AmidPrinted(s, <<ch, fg_color>>, KernelBlank) : t \in Screen
    BY <1>1, <2>1, AmidPrintedScreen
  <2> QED
    BY <1>5, <2>2, <2>3, <2>4 DEF write_char, Amid_write_char
<1>6. CASE ch # "\n" /\ ch # "\r" /\ ~isprint(ch)
  BY <1>6 DEF write_char, Amid_write_char
<1> QED
  BY <1>3, <1>4, <1>5, <1>6

-----------------------------------------------------------------------------
(***************************************************************************)
(* The invariant.  Beyond the types: nothing was printed before init_vga,  *)
(* and the kernel's console is at the top until the kernel has it.         *)
(***************************************************************************)
Beginnings ==
  /\ phase = "boot" => cursor_x = 0 /\ cursor_y = 0
  /\ phase \in {"boot", "early"} => x_cord = 0 /\ y_cord = 0
  /\ phase \notin {"fault", "halt"} => said = 0

TextInv == TypeOK /\ Beginnings

LEMMA MessageIsText ==
  /\ Len(Message) \in Nat
  /\ \A k \in 1 .. Len(Message) : Message[k] \in Printable \cup {"\n"} /\ Message[k] \in Text
<1>1. Message \in Seq(Printable \cup {"\n"})
  BY TextAssumption
<1>2. Len(Message) \in Nat /\ \A k \in 1 .. Len(Message) : Message[k] \in Printable \cup {"\n"}
  BY <1>1
<1> QED
  BY <1>2 DEF Text

LEMMA ScreensOfInv ==
  ASSUME TypeOK
  PROVE  EarlyScreen \in Screen /\ KernelScreen \in Screen
BY DEF TypeOK, EarlyScreen, KernelScreen, Screen

LEMMA TextInvInit == Init => TextInv
<1> SUFFICES ASSUME Init PROVE TextInv
  OBVIOUS
<1>1. width \in Nat /\ height \in Nat /\ width > 1 /\ height > 0
  BY SizeAssumption
<1>2. <<"?", "black">> \in Cell
  BY DEF Cell, Foregrounds
<1>3. buffer \in [Cells -> Cell]
  BY <1>2 DEF Init
<1>4. "bright_white" \in Foregrounds
  BY DEF Foregrounds
<1>5. Len(Message) \in Nat
  BY MessageIsText
<1>6. TypeOK
  BY <1>1, <1>3, <1>4, <1>5 DEF TypeOK, Init
<1> QED
  BY <1>6 DEF TextInv, Beginnings, Init

LEMMA TextInvStep == TextInv /\ [Next]_vars => TextInv'
<1> SUFFICES ASSUME TextInv, [Next]_vars PROVE TextInv'
  OBVIOUS
<1>1. TypeOK /\ Beginnings
  BY DEF TextInv
<1>2. EarlyScreen \in Screen /\ KernelScreen \in Screen
  BY <1>1, ScreensOfInv
<1>3. Len(Message) \in Nat /\ " " \in Text
  BY MessageIsText, TextAssumption DEF Text
<1>4. ASSUME NEW s \in Screen, EarlyBecomes(s)
      PROVE  buffer' \in [Cells -> Cell] /\ cursor_x' \in 0 .. width - 1 /\ cursor_y' \in 0 .. height - 1
  BY <1>4 DEF EarlyBecomes, Screen
<1>5. ASSUME NEW s \in Screen, KernelBecomes(s)
      PROVE  buffer' \in [Cells -> Cell] /\ x_cord' \in 0 .. width - 1 /\ y_cord' \in 0 .. height - 1
  BY <1>5 DEF KernelBecomes, Screen
<1>6. CASE init_vga
  <2>1. EarlyBlank \in Cell
    BY BlanksAreCells DEF Blanks
  <2>2. buffer' \in [Cells -> Cell]
    BY <1>6, <2>1 DEF init_vga
  <2> QED
    BY <1>1, <1>6, <2>2 DEF init_vga, TextInv, TypeOK, Beginnings, early, kernel
<1>7. CASE KernelMain
  BY <1>1, <1>7 DEF KernelMain, TextInv, TypeOK, Beginnings, early, kernel
<1>8. CASE Tab
  <2>1. write_char(KernelScreen, " ") \in Screen
    BY <1>1, <1>2, <1>3, write_charScreen DEF TypeOK
  <2>2. buffer' \in [Cells -> Cell] /\ x_cord' \in 0 .. width - 1 /\ y_cord' \in 0 .. height - 1
    BY <1>5, <1>8, <2>1 DEF Tab
  <2>3. tab' \in 0 .. 4
    <3>1. tab \in 0 .. 4
      BY <1>1 DEF TypeOK
    <3>2. tab > 0 /\ tab' = tab - 1
      BY <1>8 DEF Tab
    <3> QED
      BY <3>1, <3>2
  <2> QED
    BY <1>1, <1>8, <2>2, <2>3 DEF Tab, TextInv, TypeOK, Beginnings, early
<1>9. CASE handle_exception
  <2>1. CASE said < Len(Message)
    <3>1. said + 1 \in 1 .. Len(Message)
      <4> DEFINE n == Len(Message)
      <4>1. said \in 0 .. n
        BY <1>1 DEF TypeOK
      <4>2. n \in Nat /\ said < n
        BY <1>3, <2>1
      <4> HIDE DEF n
      <4>3. said + 1 \in 1 .. n
        BY <4>1, <4>2
      <4> QED
        BY <4>3 DEF n
    <3>2. vga_out_char(EarlyScreen, Message[said + 1]) \in Screen
      BY <1>2, <3>1, vga_out_charScreen, MessageIsText
    <3>3. EarlyBecomes(vga_out_char(EarlyScreen, Message[said + 1]))
      BY <1>9, <2>1 DEF handle_exception
    <3>4. buffer' \in [Cells -> Cell] /\ cursor_x' \in 0 .. width - 1 /\ cursor_y' \in 0 .. height - 1
      BY <1>4, <3>2, <3>3
    <3>5. said' \in 0 .. Len(Message)
      <4>1. said' = said + 1
        BY <1>9, <2>1 DEF handle_exception
      <4>2. said + 1 \in 0 .. Len(Message)
        BY <3>1
      <4> QED
        BY <4>1, <4>2
    <3> QED
      BY <1>1, <1>9, <2>1, <3>4, <3>5 DEF handle_exception, TextInv, TypeOK, Beginnings, kernel
  <2>2. CASE ~(said < Len(Message))
    BY <1>1, <1>9, <2>2 DEF handle_exception, TextInv, TypeOK, Beginnings, early, kernel
  <2> QED
    BY <2>1, <2>2
<1>10. ASSUME NEW ch \in Text, EarlyPrint(ch)
       PROVE  TextInv'
  <2>1. vga_out_char(EarlyScreen, ch) \in Screen
    BY <1>2, vga_out_charScreen
  <2>2. buffer' \in [Cells -> Cell] /\ cursor_x' \in 0 .. width - 1 /\ cursor_y' \in 0 .. height - 1
    BY <1>4, <1>10, <2>1 DEF EarlyPrint
  <2> QED
    BY <1>1, <1>10, <2>2 DEF EarlyPrint, TextInv, TypeOK, Beginnings, kernel
<1>11. ASSUME NEW ch \in Text, KernelPrint(ch)
       PROVE  TextInv'
  <2>1. write_char(KernelScreen, ch) \in Screen
    BY <1>1, <1>2, write_charScreen DEF TypeOK
  <2>2. buffer' \in [Cells -> Cell] /\ x_cord' \in 0 .. width - 1 /\ y_cord' \in 0 .. height - 1
    BY <1>5, <1>11, <2>1 DEF KernelPrint
  <2>3. tab' \in 0 .. 4
    BY <1>11 DEF KernelPrint
  <2> QED
    BY <1>1, <1>11, <2>2, <2>3 DEF KernelPrint, TextInv, TypeOK, Beginnings, early
<1>12. ASSUME NEW ch \in Text, Fault(ch)
       PROVE  TextInv'
  <2>1. CASE phase = "early"
    <3>1. PICK s \in Amid_vga_out_char(EarlyScreen, ch) : EarlyBecomes(s)
      BY <1>12, <2>1 DEF Fault
    <3>2. buffer' \in [Cells -> Cell] /\ cursor_x' \in 0 .. width - 1 /\ cursor_y' \in 0 .. height - 1
      BY <1>2, <1>4, <3>1, vga_out_charScreen
    <3> QED
      BY <1>1, <1>12, <2>1, <3>2 DEF Fault, TextInv, TypeOK, Beginnings, kernel
  <2>2. CASE phase = "kernel"
    <3>1. PICK s \in Amid_write_char(KernelScreen, ch) : buffer' = s.buf /\ UNCHANGED early
      BY <1>12, <2>2 DEF Fault
    <3>2. s \in Screen
      BY <1>1, <1>2, <3>1, write_charScreen DEF TypeOK
    <3>3. buffer' \in [Cells -> Cell]
      BY <3>1, <3>2 DEF Screen
    <3> QED
      BY <1>1, <1>12, <2>2, <3>1, <3>3 DEF Fault, TextInv, TypeOK, Beginnings, early, kernel
  <2> QED
    BY <1>12, <2>1, <2>2 DEF Fault
<1>13. ASSUME NEW c \in Colors, set_color(c)
       PROVE  TextInv'
  <2>1. fg_color' \in Foregrounds
    BY <1>13 DEF set_color, Foregrounds
  <2> QED
    BY <1>1, <1>13, <2>1 DEF set_color, TextInv, TypeOK, Beginnings, early
<1>14. CASE UNCHANGED vars
  BY <1>1, <1>14 DEF vars, TextInv, TypeOK, Beginnings
<1> QED
  BY <1>6, <1>7, <1>8, <1>9, <1>10, <1>11, <1>12, <1>13, <1>14 DEF Next

\* The characters a writer printed are cells of the screen and its cursor stays
\* inside it (vga.cpp:55-77, console.cpp:34-62), in the middle of a character too.
THEOREM TypeCorrect == Spec => []TypeOK
<1>1. Spec => []TextInv
  BY TextInvInit, TextInvStep, PTL DEF Spec
<1>2. TextInv => TypeOK
  BY DEF TextInv
<1> QED
  BY <1>1, <1>2, PTL

-----------------------------------------------------------------------------
(***************************************************************************)
(* What the operations on a screen do to the text it shows.                *)
(***************************************************************************)
LEMMA TextIndex ==
  ASSUME NEW r \in 0 .. height - 1, NEW k \in 0 .. width - 2
  PROVE  r * width + k \in Cells
<1>1. k \in 0 .. width - 1
  BY SizeAssumption
<1> QED
  BY <1>1, IndexIsCell

LEMMA LinesType ==
  ASSUME NEW b \in [Cells -> Cell]
  PROVE  Lines(b) \in [0 .. height - 1 -> [0 .. width - 2 -> Cell]]
<1>1. ASSUME NEW r \in 0 .. height - 1, NEW k \in 0 .. width - 2
      PROVE  b[r * width + k] \in Cell
  BY TextIndex
<1> QED
  BY <1>1 DEF Lines

LEMMA LinesOfScroll ==
  ASSUME NEW b \in [Cells -> Cell], NEW blank \in Cell
  PROVE  Lines(scroll_line(b, blank))
           = [r \in 0 .. height - 1 |-> IF r + 1 < height THEN Lines(b)[r + 1]
                                        ELSE [k \in 0 .. width - 2 |-> blank]]
<1> DEFINE c == scroll_line(b, blank)
<1>1. width \in Nat /\ height \in Nat /\ width > 1 /\ height > 0
  BY SizeAssumption
<1>2. ASSUME NEW r \in 0 .. height - 1, NEW k \in 0 .. width - 2, r + 1 < height
      PROVE  c[r * width + k] = b[(r + 1) * width + k]
  <2>1. r * width + k \in Cells
    BY TextIndex
  <2>2. (r + 1) * width <= (height - 1) * width /\ (r + 1) * width \in Int
        /\ (height - 1) * width \in Int
    BY <1>1, <1>2, Products
  <2>3. (r + 1) * width = r * width + width /\ r * width \in Int
    BY <1>1
  <2>4. width * (height - 1) = (height - 1) * width
    BY <1>1
  <2>5. r * width + k < width * (height - 1)
    BY <1>1, <2>2, <2>3, <2>4
  <2>6. (r * width + k) + width = (r + 1) * width + k
    BY <1>1, <2>3
  <2> HIDE DEF Cells
  <2> QED
    BY <2>1, <2>5, <2>6 DEF scroll_line
<1>3. ASSUME NEW r \in 0 .. height - 1, NEW k \in 0 .. width - 2, ~(r + 1 < height)
      PROVE  c[r * width + k] = blank
  <2>1. r * width + k \in Cells
    BY TextIndex
  <2>2. r = height - 1
    BY <1>1, <1>3
  <2>3. r * width = width * (height - 1) /\ r * width \in Int
    BY <1>1, <2>2
  <2>4. ~(r * width + k < width * (height - 1))
    BY <2>3
  <2> QED
    BY <2>1, <2>4 DEF scroll_line
<1>4. ASSUME NEW r \in 0 .. height - 1
      PROVE  [k \in 0 .. width - 2 |-> c[r * width + k]]
               = IF r + 1 < height THEN Lines(b)[r + 1] ELSE [k \in 0 .. width - 2 |-> blank]
  <2>1. CASE r + 1 < height
    <3>1. r + 1 \in 0 .. height - 1
      BY <1>1, <2>1
    <3>2. Lines(b)[r + 1] = [k \in 0 .. width - 2 |-> b[(r + 1) * width + k]]
      BY <3>1 DEF Lines
    <3>3. \A k \in 0 .. width - 2 : c[r * width + k] = b[(r + 1) * width + k]
      BY <1>2, <2>1
    <3> HIDE DEF c
    <3> QED
      BY <2>1, <3>2, <3>3
  <2>2. CASE ~(r + 1 < height)
    <3>1. \A k \in 0 .. width - 2 : c[r * width + k] = blank
      BY <1>3, <2>2
    <3> HIDE DEF c
    <3> QED
      BY <2>2, <3>1
  <2> QED
    BY <2>1, <2>2
<1> HIDE DEF c
<1>5. Lines(c) = [r \in 0 .. height - 1 |-> [k \in 0 .. width - 2 |-> c[r * width + k]]]
  BY DEF Lines
<1>6. Lines(c) = [r \in 0 .. height - 1 |-> IF r + 1 < height THEN Lines(b)[r + 1]
                                            ELSE [k \in 0 .. width - 2 |-> blank]]
  BY <1>4, <1>5
<1> QED
  BY <1>6 DEF c

LEMMA LinesOfWrite ==
  ASSUME NEW b \in [Cells -> Cell], NEW cell \in Cell,
         NEW x \in 0 .. width - 2, NEW y \in 0 .. height - 1,
         NEW c, c = [b EXCEPT ![y * width + x] = cell]
  PROVE  Lines(c) = [Lines(b) EXCEPT ![y][x] = cell]
<1> DEFINE R == 0 .. height - 1
           K == 0 .. width - 2
           L == Lines(b)
<1>1. width \in Nat /\ height \in Nat /\ width > 1 /\ height > 0
  BY SizeAssumption
<1>2. y * width + x \in Cells
  BY TextIndex
<1>3. ASSUME NEW r \in R, NEW k \in K
      PROVE  c[r * width + k] = IF r = y /\ k = x THEN cell ELSE b[r * width + k]
  <2>1. r * width + k \in Cells
    BY TextIndex
  <2>2. k \in 0 .. width - 1 /\ x \in 0 .. width - 1 /\ r \in Nat /\ y \in Nat
    BY <1>1
  <2>3. r * width + k = y * width + x => r = y /\ k = x
    BY <2>2, IndexIsUnique
  <2> QED
    BY <1>2, <2>1, <2>3
<1>4. L \in [R -> [K -> Cell]]
  BY LinesType
<1>5. ASSUME NEW r \in R, NEW k \in K
      PROVE  L[r][k] = b[r * width + k]
  BY DEF Lines
<1>6. ASSUME NEW r \in R
      PROVE  [k \in K |-> c[r * width + k]] = IF r = y THEN [L[r] EXCEPT ![x] = cell] ELSE L[r]
  <2>1. L[r] \in [K -> Cell]
    BY <1>4
  <2>2. \A k \in K : c[r * width + k] = IF r = y /\ k = x THEN cell ELSE L[r][k]
    BY <1>3, <1>5
  <2> HIDE DEF K, L
  <2> QED
    BY <2>1, <2>2
<1>7. Lines(c) = [r \in R |-> [k \in K |-> c[r * width + k]]]
  BY DEF Lines
<1>8. y \in R /\ x \in K
  OBVIOUS
<1> HIDE DEF R, K, L
<1>9. Lines(c) = [r \in R |-> IF r = y THEN [L[r] EXCEPT ![x] = cell] ELSE L[r]]
  BY <1>6, <1>7
<1>10. [r \in R |-> IF r = y THEN [L[r] EXCEPT ![x] = cell] ELSE L[r]]
         = [L EXCEPT ![y] = [L[y] EXCEPT ![x] = cell]]
  BY <1>4, <1>8
<1>11. [L EXCEPT ![y][x] = cell] = [L EXCEPT ![y] = [L[y] EXCEPT ![x] = cell]]
  BY <1>4, <1>8
<1> QED
  BY <1>9, <1>10, <1>11 DEF L

LEMMA LinesOfBlank ==
  ASSUME NEW blank \in Cell
  PROVE  Lines([k \in Cells |-> blank])
           = [r \in 0 .. height - 1 |-> [k \in 0 .. width - 2 |-> blank]]
<1>1. ASSUME NEW r \in 0 .. height - 1, NEW k \in 0 .. width - 2
      PROVE  [c \in Cells |-> blank][r * width + k] = blank
  BY TextIndex
<1> QED
  BY <1>1 DEF Lines

\* The text u moved up, over an empty line.
UpText(u, blank) ==
  [r \in 0 .. height - 1 |-> IF r + 1 < height THEN u[r + 1]
                             ELSE [k \in 0 .. width - 2 |-> blank]]

Rewritten(u, y, x, cell) == [u EXCEPT ![y][x] = cell]

\* Printing a character at row y and column x of the text u leads to x1, y1 and v.
TextPut(u, x, y, cell, blank, v, x1, y1) ==
  \/ /\ x < width - 1
     /\ x1 = x + 1 /\ y1 = y
     /\ v = Rewritten(u, y, x, cell)
  \/ /\ x = width - 1 /\ y + 1 < height
     /\ x1 = 1 /\ y1 = y + 1
     /\ v = Rewritten(u, y + 1, 0, cell)
  \/ /\ x = width - 1 /\ y + 1 = height
     /\ x1 = 1 /\ y1 = y
     /\ v = Rewritten(UpText(u, blank), y, 0, cell)

LEMMA ScrollText ==
  ASSUME NEW b \in [Cells -> Cell], NEW blank \in Cell
  PROVE  Lines(scroll_line(b, blank)) = UpText(Lines(b), blank)
BY LinesOfScroll DEF UpText

LEMMA PrintedText ==
  ASSUME NEW s \in Screen, NEW cell \in Cell, NEW blank \in Cell, NEW t,
         t = Printed(s, cell, blank)
  PROVE  TextPut(Lines(s.buf), s.x, s.y, cell, blank, Lines(t.buf), t.x, t.y)
<1> DEFINE w == Wrapped(s, blank)
           u == Lines(s.buf)
<1>1. width \in Nat /\ height \in Nat /\ width > 1 /\ height > 0
  BY SizeAssumption
<1>2. s.x \in 0 .. width - 1 /\ s.y \in 0 .. height - 1 /\ s.buf \in [Cells -> Cell]
  BY DEF Screen
<1>3. w \in Screen /\ w.x < width - 1
  BY WrappedScreen
<1>4. t.x = w.x + 1 /\ t.y = w.y /\ t.buf = Written(w, cell).buf
  BY PrintedScreen
<1>5. w = IF s.x + 1 = width THEN newline(s, blank) ELSE s
  BY DEF Wrapped, LineFull
<1> HIDE DEF w
<1>6. w.x \in 0 .. width - 2 /\ w.y \in 0 .. height - 1 /\ w.buf \in [Cells -> Cell]
  BY <1>1, <1>3 DEF Screen
<1>7. t.buf = [w.buf EXCEPT ![w.y * width + w.x] = cell]
  BY <1>3, <1>4, WrittenScreen
<1>8. Lines(t.buf) = [Lines(w.buf) EXCEPT ![w.y][w.x] = cell]
  BY <1>6, <1>7, LinesOfWrite
<1>9. CASE s.x < width - 1
  <2>1. w = s
    BY <1>1, <1>2, <1>5, <1>9
  <2> QED
    BY <1>4, <1>8, <1>9, <2>1 DEF TextPut, Rewritten
<1>10. CASE s.x = width - 1
  <2>1. w = newline(s, blank)
    BY <1>1, <1>2, <1>5, <1>10
  <2>2. w.x = 0
    BY <2>1, NewlineScreen
  <2>3. t.x = 1
    BY <1>4, <2>2
  <2>4. CASE s.y + 1 = height
    <3>1. w.y = s.y /\ w.buf = scroll_line(s.buf, blank)
      BY <2>1, <2>4, NewlineScreen
    <3>2. Lines(w.buf) = UpText(u, blank)
      BY <1>2, <3>1, ScrollText
    <3>3. Lines(t.buf) = [UpText(u, blank) EXCEPT ![s.y][0] = cell]
      BY <1>8, <2>2, <3>1, <3>2
    <3> QED
      BY <1>4, <1>10, <2>3, <2>4, <3>1, <3>3 DEF TextPut, Rewritten
  <2>5. CASE s.y + 1 # height
    <3>1. w.y = s.y + 1 /\ w.buf = s.buf
      BY <2>1, <2>5, NewlineScreen
    <3>2. s.y + 1 < height
      BY <1>1, <1>2, <2>5
    <3>3. Lines(t.buf) = [u EXCEPT ![s.y + 1][0] = cell]
      BY <1>8, <2>2, <3>1
    <3> QED
      BY <1>4, <1>10, <2>3, <3>1, <3>2, <3>3 DEF TextPut, Rewritten
  <2> QED
    BY <2>4, <2>5
<1> QED
  BY <1>1, <1>2, <1>9, <1>10

-----------------------------------------------------------------------------
(***************************************************************************)
(* The refinement.                                                         *)
(***************************************************************************)
Row == IF phase = "kernel" THEN y_cord ELSE cursor_y
Col == IF phase = "kernel" THEN x_cord ELSE cursor_x
Intact == phase \notin {"fault", "halt"}

LEMMA PutStep ==
  ASSUME NEW s \in Screen, NEW cell \in Cell, NEW blank \in Blanks,
         s.buf = buffer, s.x = Col, s.y = Row,
         Printed(s, cell, blank).buf = buffer',
         Printed(s, cell, blank).x = Col', Printed(s, cell, blank).y = Row',
         Intact' <=> Intact
  PROVE  Shown!Put(cell)
<1> DEFINE u == Lines(buffer)
           v == Lines(buffer')
           up == UpText(u, blank)
<1>1. width \in Nat /\ height \in Nat /\ width > 1 /\ height > 0 /\ width - 1 - 1 = width - 2
  BY SizeAssumption
<1>2. blank \in Cell
  BY BlanksAreCells
<1>3. TextPut(u, Col, Row, cell, blank, v, Col', Row')
  BY <1>2, PrintedText
<1>4. Shown!Up(blank) = up
  BY <1>1 DEF Shown!Up, UpText, Lines
<1> HIDE DEF up, u, v
<1>5. CASE Col < width - 1
  <2>1. Col' = Col + 1 /\ Row' = Row /\ v = [u EXCEPT ![Row][Col] = cell]
    BY <1>1, <1>3, <1>5 DEF TextPut, Rewritten
  <2> QED
    BY <1>5, <2>1 DEF Shown!Put, Row, Col, Intact, u, v, Lines
<1>6. CASE Col = width - 1 /\ Row + 1 < height
  <2>1. Col' = 1 /\ Row' = Row + 1 /\ v = [u EXCEPT ![Row + 1][0] = cell]
    BY <1>1, <1>3, <1>6 DEF TextPut, Rewritten
  <2>2. Shown!Below(blank).text = u /\ Shown!Below(blank).at = Row + 1
    BY <1>6 DEF Shown!Below, Row, u, Lines
  <2> QED
    BY <1>6, <2>1, <2>2 DEF Shown!Put, Row, Col, Intact, v, Lines, Blanks
<1>7. CASE Col = width - 1 /\ Row + 1 = height
  <2>1. Col' = 1 /\ Row' = Row /\ v = [up EXCEPT ![Row][0] = cell]
    BY <1>1, <1>3, <1>7 DEF TextPut, Rewritten, up
  <2>2. Shown!Below(blank).text = up /\ Shown!Below(blank).at = Row
    BY <1>1, <1>4, <1>7 DEF Shown!Below, Row
  <2> QED
    BY <1>7, <2>1, <2>2 DEF Shown!Put, Row, Col, Intact, v, Lines, Blanks
<1> QED
  BY <1>3, <1>5, <1>6, <1>7 DEF TextPut, Rewritten

LEMMA NewLineStep ==
  ASSUME NEW s \in Screen, NEW blank \in Blanks,
         s.buf = buffer, s.x = Col, s.y = Row,
         newline(s, blank).buf = buffer',
         newline(s, blank).x = Col', newline(s, blank).y = Row',
         Intact' <=> Intact
  PROVE  Shown!NewLine
<1> DEFINE u == Lines(buffer)
           v == Lines(buffer')
           up == UpText(u, blank)
<1>1. width \in Nat /\ height \in Nat /\ width > 1 /\ height > 0 /\ width - 1 - 1 = width - 2
  BY SizeAssumption
<1>2. blank \in Cell /\ s.y \in 0 .. height - 1 /\ s.buf \in [Cells -> Cell]
  BY BlanksAreCells DEF Screen
<1>3. Shown!Up(blank) = up
  BY <1>1 DEF Shown!Up, UpText, Lines
<1>4. Col' = 0
  BY NewlineScreen, <1>2
<1> HIDE DEF up
<1>5. CASE Row + 1 = height
  <2>1. Row' = Row /\ buffer' = scroll_line(buffer, blank)
    BY <1>2, <1>5, NewlineScreen
  <2>2. v = up
    BY <1>2, <2>1, ScrollText DEF up
  <2>3. Shown!Below(blank).text = up /\ Shown!Below(blank).at = Row
    BY <1>1, <1>3, <1>5 DEF Shown!Below, Row
  <2> QED
    BY <1>4, <2>1, <2>2, <2>3 DEF Shown!NewLine, Row, Col, Intact, v, Lines, Blanks
<1>6. CASE Row + 1 # height
  <2>1. Row' = Row + 1 /\ v = u
    BY <1>2, <1>6, NewlineScreen
  <2>2. Row + 1 < height
    BY <1>1, <1>2, <1>6
  <2>3. Shown!Below(blank).text = u /\ Shown!Below(blank).at = Row + 1
    BY <2>2 DEF Shown!Below, Row, Lines
  <2> QED
    BY <1>4, <2>1, <2>3 DEF Shown!NewLine, Row, Col, Intact, Lines, Blanks
<1> QED
  BY <1>5, <1>6

\* A carriage return.
LEMMA ReturnStep ==
  ASSUME buffer' = buffer, Col' = 0, Row' = Row, Intact' <=> Intact
  PROVE  Shown!Return
BY DEF Shown!Return, Row, Col, Intact

LEMMA SilentStep ==
  ASSUME buffer' = buffer, Col' = Col, Row' = Row, Intact' <=> Intact
  PROVE  UNCHANGED Shown!screen
BY DEF Shown!screen, Row, Col, Intact

LEMMA EarlyStep ==
  ASSUME TypeOK, phase # "kernel", phase' # "kernel", Intact' <=> Intact,
         NEW ch \in Text, EarlyBecomes(vga_out_char(EarlyScreen, ch))
  PROVE  [Shown!ScreenNext]_Shown!screen
<1> DEFINE s == EarlyScreen
           t == vga_out_char(s, ch)
<1>1. s \in Screen /\ s.buf = buffer /\ s.x = Col /\ s.y = Row
  BY ScreensOfInv DEF EarlyScreen, Row, Col
<1>2. t.buf = buffer' /\ t.x = Col' /\ t.y = Row'
  BY DEF EarlyBecomes, Row, Col
<1>3. EarlyBlank \in Blanks /\ EarlyBlank \in Cell
  BY BlanksAreCells DEF Blanks
<1>4. "\n" \notin Printable /\ "\r" \notin Printable
  BY TextAssumption
<1> HIDE DEF s
<1>5. CASE ch = "\n"
  <2>1. t = newline(s, EarlyBlank)
    BY <1>4, <1>5 DEF vga_out_char, isprint
  <2>2. Shown!NewLine
    BY <1>1, <1>2, <1>3, <2>1, NewLineStep
  <2> QED
    BY <2>2 DEF Shown!ScreenNext
<1>6. CASE ch = "\r"
  <2>1. t = [s EXCEPT !.x = 0]
    BY <1>4, <1>6 DEF vga_out_char, isprint
  <2>2. Shown!Return
    BY <1>1, <1>2, <2>1, ReturnScreen, ReturnStep
  <2> QED
    BY <2>2 DEF Shown!ScreenNext
<1>7. CASE isprint(ch)
  <2>1. OfEarly(ch) \in Cell
    BY <1>7 DEF isprint, OfEarly, Cell, Foregrounds
  <2>2. ch # "\n" /\ ch # "\r"
    BY <1>4, <1>7 DEF isprint
  <2>3. t = Printed(s, OfEarly(ch), EarlyBlank)
    BY <1>7, <2>2 DEF vga_out_char
  <2>4. Shown!Put(OfEarly(ch))
    BY <1>1, <1>2, <1>3, <2>1, <2>3, PutStep
  <2> QED
    BY <2>1, <2>4 DEF Shown!ScreenNext
<1>8. CASE ch # "\n" /\ ch # "\r" /\ ~isprint(ch)
  <2>1. t = s
    BY <1>8 DEF vga_out_char
  <2> QED
    BY <1>1, <1>2, <2>1, SilentStep
<1> QED
  BY <1>5, <1>6, <1>7, <1>8

LEMMA KernelStep ==
  ASSUME TypeOK, phase = "kernel", phase' = "kernel",
         NEW ch \in Text, KernelBecomes(write_char(KernelScreen, ch))
  PROVE  [Shown!ScreenNext]_Shown!screen
<1> DEFINE s == KernelScreen
           t == write_char(s, ch)
<1>1. s \in Screen /\ s.buf = buffer /\ s.x = Col /\ s.y = Row
  BY ScreensOfInv DEF KernelScreen, Row, Col
<1>2. t.buf = buffer' /\ t.x = Col' /\ t.y = Row' /\ (Intact' <=> Intact)
  BY DEF KernelBecomes, Row, Col, Intact
<1>3. KernelBlank \in Blanks /\ KernelBlank \in Cell
  BY BlanksAreCells DEF Blanks
<1>4. "\n" \notin Printable /\ "\r" \notin Printable
  BY TextAssumption
<1> HIDE DEF s
<1>5. CASE ch = "\n"
  <2>1. t = newline(s, KernelBlank)
    BY <1>4, <1>5 DEF write_char, isprint
  <2>2. Shown!NewLine
    BY <1>1, <1>2, <1>3, <2>1, NewLineStep
  <2> QED
    BY <2>2 DEF Shown!ScreenNext
<1>6. CASE ch = "\r"
  <2>1. t = [s EXCEPT !.x = 0]
    BY <1>4, <1>6 DEF write_char, isprint
  <2>2. Shown!Return
    BY <1>1, <1>2, <2>1, ReturnScreen, ReturnStep
  <2> QED
    BY <2>2 DEF Shown!ScreenNext
<1>7. CASE isprint(ch)
  <2>1. PICK cell \in Cell : cell = <<ch, fg_color>>
    BY <1>7 DEF isprint, Cell, TypeOK
  <2>2. ch # "\n" /\ ch # "\r"
    BY <1>4, <1>7 DEF isprint
  <2>3. t = Printed(s, cell, KernelBlank)
    BY <1>7, <2>1, <2>2 DEF write_char
  <2>4. Shown!Put(cell)
    BY <1>1, <1>2, <1>3, <2>1, <2>3, PutStep
  <2> QED
    BY <2>1, <2>4 DEF Shown!ScreenNext
<1>8. CASE ch # "\n" /\ ch # "\r" /\ ~isprint(ch)
  <2>1. t = s
    BY <1>8 DEF write_char
  <2> QED
    BY <1>1, <1>2, <2>1, SilentStep
<1> QED
  BY <1>5, <1>6, <1>7, <1>8

LEMMA TextStep == TextInv /\ TextInv' /\ [Next]_vars => [Shown!ScreenNext]_Shown!screen
<1> SUFFICES ASSUME TextInv, TextInv', [Next]_vars
             PROVE  [Shown!ScreenNext]_Shown!screen
  OBVIOUS
<1>1. TypeOK /\ Beginnings
  BY DEF TextInv
<1>2. width \in Nat /\ height \in Nat /\ width > 1 /\ height > 0 /\ width - 1 - 1 = width - 2
  BY SizeAssumption
<1>3. CASE init_vga
  <2>1. buffer' = [k \in Cells |-> EarlyBlank] /\ EarlyBlank \in Blanks /\ EarlyBlank \in Cell
    BY <1>3, BlanksAreCells DEF init_vga, Blanks
  <2>2. Lines(buffer') = [r \in 0 .. height - 1 |-> [k \in 0 .. width - 2 |-> EarlyBlank]]
    BY <2>1, LinesOfBlank
  <2>3. cursor_x' = 0 /\ cursor_y' = 0 /\ phase' = "early" /\ phase = "boot"
    BY <1>1, <1>3 DEF init_vga, early, Beginnings
  <2>4. Shown!Clear
    BY <1>2, <2>1, <2>2, <2>3 DEF Shown!Clear, Lines, Blanks
  <2> QED
    BY <2>4 DEF Shown!ScreenNext
<1>4. CASE KernelMain
  <2>1. Shown!Attach
    BY <1>1, <1>4 DEF KernelMain, Shown!Attach, Beginnings, kernel
  <2> QED
    BY <2>1 DEF Shown!ScreenNext
<1>5. CASE Tab
  <2>1. " " \in Text
    BY TextAssumption DEF Text
  <2>2. phase = "kernel" /\ phase' = "kernel" /\ KernelBecomes(write_char(KernelScreen, " "))
    BY <1>5 DEF Tab
  <2> QED
    BY <1>1, <2>1, <2>2, KernelStep
<1>6. CASE handle_exception
  <2>1. CASE said < Len(Message)
    <3>1. said + 1 \in 1 .. Len(Message)
      <4> DEFINE n == Len(Message)
      <4>1. said \in 0 .. n
        BY <1>1 DEF TypeOK
      <4>2. n \in Nat /\ said < n
        BY <2>1, MessageIsText
      <4> HIDE DEF n
      <4>3. said + 1 \in 1 .. n
        BY <4>1, <4>2
      <4> QED
        BY <4>3 DEF n
    <3>2. Message[said + 1] \in Text
      BY <3>1, MessageIsText
    <3>3. /\ phase = "fault" /\ phase' = "fault"
          /\ EarlyBecomes(vga_out_char(EarlyScreen, Message[said + 1]))
      BY <1>6, <2>1 DEF handle_exception
    <3>4. Intact' <=> Intact
      BY <3>3 DEF Intact
    <3> QED
      BY <1>1, <3>2, <3>3, <3>4, EarlyStep
  <2>2. CASE ~(said < Len(Message))
    <3>1. phase = "fault" /\ phase' = "halt" /\ UNCHANGED <<buffer, early>>
      BY <1>6, <2>2 DEF handle_exception
    <3> QED
      BY <3>1, SilentStep DEF early, Row, Col, Intact
  <2> QED
    BY <2>1, <2>2
<1>7. ASSUME NEW ch \in Text, EarlyPrint(ch)
      PROVE  [Shown!ScreenNext]_Shown!screen
  <2>1. phase = "early" /\ phase' = "early" /\ EarlyBecomes(vga_out_char(EarlyScreen, ch))
    BY <1>7 DEF EarlyPrint
  <2>2. Intact' <=> Intact
    BY <2>1 DEF Intact
  <2> QED
    BY <1>1, <2>1, <2>2, EarlyStep
<1>8. ASSUME NEW ch \in Text, KernelPrint(ch)
      PROVE  [Shown!ScreenNext]_Shown!screen
  <2>1. phase = "kernel" /\ phase' = "kernel" /\ KernelBecomes(write_char(KernelScreen, ch))
    BY <1>8 DEF KernelPrint
  <2> QED
    BY <1>1, <2>1, KernelStep
<1>9. ASSUME NEW ch \in Text, Fault(ch)
      PROVE  [Shown!ScreenNext]_Shown!screen
  <2>1. phase \in {"early", "kernel"} /\ phase' = "fault"
    BY <1>9 DEF Fault
  <2>2. /\ buffer' \in [Cells -> Cell]
        /\ cursor_x' \in 0 .. width - 1 /\ cursor_y' \in 0 .. height - 1
    BY DEF TextInv, TypeOK
  <2>3. Lines(buffer') \in [0 .. height - 1 -> [0 .. width - 2 -> Cell]]
    BY <2>2, LinesType
  <2>4. Lines(buffer') \in Shown!Text
    BY <1>2, <2>3 DEF Shown!Text, Shown!Line
  <2>5. Shown!Tear
    BY <2>1, <2>2, <2>4 DEF Shown!Tear, Lines
  <2> QED
    BY <2>5 DEF Shown!ScreenNext
<1>10. ASSUME NEW c \in Colors, set_color(c)
       PROVE  [Shown!ScreenNext]_Shown!screen
  BY <1>10, SilentStep DEF set_color, early, Row, Col, Intact
<1>11. CASE UNCHANGED vars
  BY <1>11, SilentStep DEF vars, Row, Col, Intact
<1> QED
  BY <1>3, <1>4, <1>5, <1>6, <1>7, <1>8, <1>9, <1>10, <1>11 DEF Next

\* Both consoles print what TextScreen expects of a writer, character by character,
\* and only an exception can tear the text (vga.cpp, console.cpp).
THEOREM ImplementsText == Spec => IsText
<1>1. Init => Shown!ScreenInit
  <2> SUFFICES ASSUME Init PROVE Shown!ScreenInit
    OBVIOUS
  <2>1. TextInv
    BY TextInvInit
  <2>2. Lines(buffer) \in [0 .. height - 1 -> [0 .. width - 2 -> Cell]]
    BY <2>1, LinesType DEF TextInv, TypeOK
  <2>3. width - 1 - 1 = width - 2
    BY SizeAssumption
  <2>4. Lines(buffer) \in Shown!Text
    BY <2>2, <2>3 DEF Shown!Text, Shown!Line
  <2> QED
    BY <2>4 DEF Shown!ScreenInit, Init, Lines
<1> QED
  BY <1>1, TextInvInit, TextInvStep, TextStep, PTL DEF Spec, IsText, Shown!ScreenSpec

-----------------------------------------------------------------------------
(***************************************************************************)
(* The handler's message.  A character of it stays where it was printed    *)
(* until the text moves up, and moves up with it; the message has fewer    *)
(* lines than the screen, so that none of it moves off.                    *)
(***************************************************************************)
LEMMA DivisionRange ==
  ASSUME NEW a \in Nat, NEW n \in Nat \ {0}
  PROVE  a \div n \in Nat /\ a % n \in 0 .. n - 1 /\ a = (a \div n) * n + (a % n)
OBVIOUS

LEMMA DivisionUnique ==
  ASSUME NEW n \in Nat \ {0}, NEW q \in Nat, NEW r \in 0 .. n - 1
  PROVE  (q * n + r) \div n = q /\ (q * n + r) % n = r
OBVIOUS

\* A cursor, its line counted from the one the message begins on.
Position == [line : Nat, col : 0 .. width - 1]

LEMMA PastPlace == ASSUME NEW p \in Position, NEW ch PROVE Past(p, ch) \in Position
<1>1. width \in Nat /\ width > 1 /\ p.line \in Nat /\ p.col \in 0 .. width - 1
  BY SizeAssumption DEF Position
<1>2. CASE ch = "\n"
  <2>1. Past(p, ch) = [line |-> p.line + 1, col |-> 0]
    BY <1>2 DEF Past
  <2> QED
    BY <1>1, <2>1 DEF Position
<1>3. CASE ch # "\n" /\ p.col + 1 = width
  <2>1. Past(p, ch) = [line |-> p.line + 1, col |-> 1]
    BY <1>3 DEF Past
  <2> QED
    BY <1>1, <2>1 DEF Position
<1>4. CASE ch # "\n" /\ p.col + 1 # width
  <2>1. Past(p, ch) = [line |-> p.line, col |-> p.col + 1]
    BY <1>4 DEF Past
  <2> QED
    BY <1>1, <1>4, <2>1 DEF Position
<1> QED
  BY <1>2, <1>3, <1>4

IsLayout(at, x) ==
  at = [k \in 0 .. Len(Message) |->
          IF k = 0 THEN [line |-> 0, col |-> x] ELSE Past(at[k - 1], Message[k])]

LEMMA LayoutExists == ASSUME NEW x \in 0 .. width - 1 PROVE \E at : IsLayout(at, x)
<1> DEFINE n == Len(Message)
           first == [line |-> 0, col |-> x]
           F == [k \in Nat |-> [p \in Position |-> Past(p, Message[k])]]
<1>1. n \in Nat
  BY MessageIsText
<1>2. first \in Position
  BY DEF Position
<1>3. Rounds(F, Position)
  BY PastPlace DEF Rounds
<1> HIDE DEF first, F
<1>4. PICK at : Iterates(at, Position, first, F, n)
  BY <1>1, <1>2, <1>3, Iteration
<1>5. at \in [0 .. n -> Position] /\ at[0] = first
  BY <1>4 DEF Iterates
<1>6. ASSUME NEW k \in 1 .. n PROVE at[k] = Past(at[k - 1], Message[k])
  <2>1. k \in Nat /\ k - 1 \in 0 .. n
    BY <1>1
  <2>2. at[k] = F[k][at[k - 1]] /\ at[k - 1] \in Position
    BY <1>4, <1>5, <2>1 DEF Iterates
  <2> QED
    BY <2>1, <2>2 DEF F
<1>7. ASSUME NEW k \in 0 .. n
      PROVE  at[k] = IF k = 0 THEN first ELSE Past(at[k - 1], Message[k])
  <2>1. k = 0 \/ k \in 1 .. n
    BY <1>1
  <2> QED
    BY <1>5, <1>6, <2>1
<1> HIDE DEF n
<1>8. at = [k \in 0 .. n |-> IF k = 0 THEN first ELSE Past(at[k - 1], Message[k])]
  BY <1>5, <1>7
<1> QED
  BY <1>8 DEF IsLayout, n, first

LEMMA LaidOutIs ==
  ASSUME NEW x \in 0 .. width - 1
  PROVE  /\ LaidOut(x) \in [0 .. Len(Message) -> Position]
         /\ LaidOut(x)[0] = [line |-> 0, col |-> x]
         /\ \A k \in 0 .. Len(Message) - 1 :
              LaidOut(x)[k + 1] = Past(LaidOut(x)[k], Message[k + 1])
<1> DEFINE at == LaidOut(x)
           n == Len(Message)
           T == {k \in 0 .. n : at[k] \in Position}
<1>1. IsLayout(at, x)
  BY LayoutExists DEF LaidOut, IsLayout
<1>2. n \in Nat
  BY MessageIsText
<1> HIDE DEF at
<1>3. at = [k \in 0 .. n |-> IF k = 0 THEN [line |-> 0, col |-> x] ELSE Past(at[k - 1], Message[k])]
  BY <1>1 DEF IsLayout
<1> HIDE DEF n
<1>4. at[0] = [line |-> 0, col |-> x]
  <2>1. 0 \in 0 .. n
    BY <1>2
  <2> QED
    BY <1>3, <2>1
<1>5. ASSUME NEW k \in 0 .. n - 1
      PROVE  at[k + 1] = Past(at[k], Message[k + 1])
  <2>1. k + 1 \in 0 .. n /\ k + 1 # 0 /\ (k + 1) - 1 = k
    BY <1>2
  <2> QED
    BY <1>3, <2>1
<1>6. 0 \in T
  BY <1>2, <1>4 DEF Position
<1>7. \A k \in 0 .. n - 1 : k \in T => k + 1 \in T
  <2> SUFFICES ASSUME NEW k \in 0 .. n - 1, k \in T PROVE k + 1 \in T
    OBVIOUS
  <2>1. at[k + 1] \in Position
    BY <1>5, PastPlace
  <2> QED
    BY <1>2, <2>1
<1> HIDE DEF T
<1>8. \A k \in 0 .. n : k \in T
  BY <1>2, <1>6, <1>7, BoundedInduction
<1>9. at \in [0 .. n -> Position]
  BY <1>3, <1>8 DEF T
<1> QED
  BY <1>4, <1>5, <1>9 DEF at, n

\* p is not behind q.
Before(p, q) == p.line < q.line \/ (p.line = q.line /\ p.col <= q.col)

\* The text u, with the cursor at row y and at place p of the message, shows c
\* before place q.
Kept(q, p, u, y, c) ==
  /\ Before(q, p) /\ q.col >= 1 /\ p.line <= y
  /\ u[y - (p.line - q.line)][q.col - 1] = c

\* A line feed at row y of the text u leads to row z and v.
Turned(u, y, blank, v, z) ==
  \/ y + 1 < height /\ z = y + 1 /\ v = u
  \/ y + 1 = height /\ z = y /\ v = UpText(u, blank)

LEMMA TurnedKeeps ==
  ASSUME NEW u, NEW y \in 0 .. height - 1, NEW blank, NEW v, NEW z,
         Turned(u, y, blank, v, z),
         NEW p \in Position, NEW q \in Position, NEW c, Kept(q, p, u, y, c),
         NEW p1 \in Position, p1.line = p.line + 1, p1.line < height
  PROVE  Kept(q, p1, v, z, c) /\ q.line < p1.line
<1> DEFINE r == y - (p.line - q.line)
<1>1. /\ height \in Nat /\ y \in Nat /\ y < height
      /\ p.line \in Nat /\ q.line \in Nat /\ p.line <= y /\ q.line <= p.line
  <2>1. p.line \in Nat /\ q.line \in Nat /\ p.col \in Int /\ q.col \in Int
    BY SizeAssumption DEF Position
  <2>2. p.line <= y /\ q.line <= p.line
    BY <2>1 DEF Kept, Before
  <2> QED
    BY <2>1, <2>2, SizeAssumption
<1>2. r \in Nat /\ r <= y /\ u[r][q.col - 1] = c /\ q.col >= 1
  <2>1. u[r][q.col - 1] = c /\ q.col >= 1
    BY DEF Kept
  <2> QED
    BY <1>1, <2>1
<1>3. Before(q, p1) /\ q.line < p1.line
  BY <1>1 DEF Before
<1>4. CASE y + 1 < height /\ z = y + 1 /\ v = u
  <2>1. z - (p1.line - q.line) = r /\ p1.line <= z
    BY <1>1, <1>4
  <2> QED
    BY <1>2, <1>3, <1>4, <2>1 DEF Kept
<1>5. CASE y + 1 = height /\ z = y /\ v = UpText(u, blank)
  <2>1. p1.line <= z /\ z - (p1.line - q.line) = r - 1 /\ r - 1 \in 0 .. height - 1 /\ r - 1 + 1 = r
        /\ r < height
    BY <1>1, <1>2, <1>5
  <2> HIDE DEF r
  <2>2. v[r - 1] = u[r]
    BY <1>5, <2>1 DEF UpText
  <2> QED
    BY <1>2, <1>3, <2>1, <2>2 DEF Kept
<1> QED
  BY <1>4, <1>5 DEF Turned

\* A character is written behind those before it.
LEMMA WrittenKeeps ==
  ASSUME NEW u \in [0 .. height - 1 -> [0 .. width - 2 -> Cell]],
         NEW y \in 0 .. height - 1, NEW x \in 0 .. width - 2, NEW cell,
         NEW v, v = Rewritten(u, y, x, cell),
         NEW p \in Position, NEW q \in Position, NEW c, Kept(q, p, u, y, c),
         q.line < p.line \/ q.col <= x,
         NEW p1 \in Position, p1.line = p.line, p1.col = x + 1, p.col <= x + 1
  PROVE  Kept(q, p1, v, y, c)
<1> DEFINE r == y - (p.line - q.line)
           k == q.col - 1
<1>1. /\ height \in Nat /\ y \in Nat /\ y < height /\ width \in Nat /\ x \in Nat
      /\ p.line \in Nat /\ q.line \in Nat /\ p.line <= y /\ q.line <= p.line
      /\ p.col \in Int /\ q.col \in 0 .. width - 1 /\ q.col >= 1
  <2>1. /\ p.line \in Nat /\ q.line \in Nat /\ p.col \in Int /\ q.col \in 0 .. width - 1
        /\ width \in Nat /\ height \in Nat
    BY SizeAssumption DEF Position
  <2>2. p.line <= y /\ q.line <= p.line /\ q.col >= 1
    BY <2>1 DEF Kept, Before
  <2> QED
    BY <2>1, <2>2, SizeAssumption
<1>2. u[r][k] = c
  BY DEF Kept
<1>3. r \in 0 .. height - 1 /\ k \in 0 .. width - 2 /\ ~(r = y /\ k = x)
  <2>1. r \in 0 .. height - 1 /\ k \in 0 .. width - 2
    <3> DEFINE a == p.line
               b == q.line
               d == q.col
    <3>1. /\ a \in Nat /\ b \in Nat /\ d \in 0 .. width - 1 /\ d >= 1 /\ a <= y /\ b <= a
          /\ height \in Nat /\ y \in Nat /\ y < height /\ width \in Nat
      BY <1>1
    <3> HIDE DEF a, b, d
    <3>2. y - (a - b) \in 0 .. height - 1
      BY <3>1
    <3>3. d - 1 \in 0 .. width - 2
      BY <3>1
    <3> QED
      BY <3>2, <3>3 DEF a, b, d
  <2>2. q.line < p.line => r # y
    BY <1>1
  <2>3. q.col <= x => k # x
    BY <1>1
  <2> QED
    BY <2>1, <2>2, <2>3
<1>4. Before(q, p1)
  BY <1>1 DEF Before, Kept
<1>5. y - (p1.line - q.line) = r /\ p1.line <= y
  BY <1>1
<1> HIDE DEF r, k
<1>6. v[r][k] = u[r][k]
  BY <1>1, <1>3 DEF Rewritten
<1> QED
  BY <1>1, <1>2, <1>4, <1>5, <1>6 DEF Kept, r, k

LEMMA WrittenIs ==
  ASSUME NEW u \in [0 .. height - 1 -> [0 .. width - 2 -> Cell]],
         NEW y \in 0 .. height - 1, NEW x \in 0 .. width - 2, NEW cell,
         NEW v, v = Rewritten(u, y, x, cell),
         NEW p1 \in Position, p1.line <= y, p1.col = x + 1
  PROVE  Kept(p1, p1, v, y, cell)
<1>1. p1.line \in Nat /\ y \in Int /\ x \in Nat
  BY SizeAssumption DEF Position
<1>2. y - (p1.line - p1.line) = y /\ p1.col - 1 = x /\ p1.col >= 1 /\ p1.line <= y
  BY <1>1
<1>3. Before(p1, p1)
  BY <1>1 DEF Before
<1>4. v[y][x] = cell
  BY DEF Rewritten
<1> QED
  BY <1>2, <1>3, <1>4 DEF Kept

\* All the first n characters of the message, laid out by at, are on the text u,
\* whose cursor is at column x of row y.
Legible(at, n, u, x, y) ==
  /\ at[n].col = x /\ at[n].line <= y
  /\ \A k \in 1 .. n : Message[k] # "\n" => Kept(at[k], at[n], u, y, OfEarly(Message[k]))

LEMMA LegibleTurn ==
  ASSUME NEW n \in 0 .. Len(Message) - 1, NEW at \in [0 .. Len(Message) -> Position],
         NEW u, NEW x, NEW y \in 0 .. height - 1, Legible(at, n, u, x, y),
         NEW blank, NEW v, NEW z, Turned(u, y, blank, v, z),
         NEW p1 \in Position, p1.line = at[n].line + 1, p1.line < height
  PROVE  /\ p1.line <= z
         /\ \A k \in 1 .. n : Message[k] # "\n" =>
              Kept(at[k], p1, v, z, OfEarly(Message[k])) /\ at[k].line < p1.line
<1>1. Len(Message) \in Nat
  BY MessageIsText
<1>2. at[n] \in Position /\ \A k \in 1 .. n : at[k] \in Position
  BY <1>1
<1>3. p1.line <= z
  <2>1. at[n].line \in Nat /\ at[n].line <= y
    BY <1>2 DEF Legible, Position
  <2> QED
    BY <2>1, SizeAssumption DEF Turned
<1>4. ASSUME NEW k \in 1 .. n, Message[k] # "\n"
      PROVE  Kept(at[k], p1, v, z, OfEarly(Message[k])) /\ at[k].line < p1.line
  <2> DEFINE p == at[n]
             q == at[k]
             c == OfEarly(Message[k])
  <2>1. p \in Position /\ q \in Position /\ Kept(q, p, u, y, c) /\ p1.line = p.line + 1
    BY <1>2, <1>4 DEF Legible
  <2> HIDE DEF p, q, c
  <2>2. Kept(q, p1, v, z, c) /\ q.line < p1.line
    BY <2>1, TurnedKeeps
  <2> QED
    BY <2>2 DEF q, c
<1> QED
  BY <1>3, <1>4

LEMMA LegibleWrite ==
  ASSUME NEW n \in 0 .. Len(Message) - 1, NEW at \in [0 .. Len(Message) -> Position],
         NEW u \in [0 .. height - 1 -> [0 .. width - 2 -> Cell]],
         NEW y \in 0 .. height - 1, NEW x \in 0 .. width - 2,
         NEW p \in Position, p.line <= y, p.col <= x,
         \A k \in 1 .. n : Message[k] # "\n" =>
           /\ Kept(at[k], p, u, y, OfEarly(Message[k]))
           /\ at[k].line < p.line \/ at[k].col <= x,
         NEW v, v = Rewritten(u, y, x, OfEarly(Message[n + 1])),
         at[n + 1].line = p.line, at[n + 1].col = x + 1
  PROVE  Legible(at, n + 1, v, x + 1, y)
<1>1. Len(Message) \in Nat /\ n \in Nat
  BY MessageIsText
<1>2. at[n + 1] \in Position /\ \A k \in 1 .. n : at[k] \in Position
  <2> DEFINE N == Len(Message)
  <2>1. N \in Nat /\ n \in 0 .. N - 1 /\ at \in [0 .. N -> Position]
    BY <1>1
  <2> HIDE DEF N
  <2>2. n + 1 \in 0 .. N /\ \A k \in 1 .. n : k \in 0 .. N
    BY <2>1
  <2> QED
    BY <2>1, <2>2
<1>3. p.col \in Int /\ x \in Nat
  BY SizeAssumption DEF Position
<1>4. ASSUME NEW k \in 1 .. n + 1, Message[k] # "\n"
      PROVE  Kept(at[k], at[n + 1], v, y, OfEarly(Message[k]))
  <2>1. CASE k = n + 1
    <3> DEFINE p1 == at[n + 1]
               cell == OfEarly(Message[n + 1])
    <3>1. p1 \in Position /\ p1.line <= y /\ p1.col = x + 1 /\ v = Rewritten(u, y, x, cell)
      BY <1>2
    <3> HIDE DEF p1, cell
    <3>2. Kept(p1, p1, v, y, cell)
      BY <3>1, WrittenIs
    <3> QED
      BY <2>1, <3>2 DEF p1, cell
  <2>2. CASE k # n + 1
    <3> DEFINE p1 == at[n + 1]
               cell == OfEarly(Message[n + 1])
               q == at[k]
               c == OfEarly(Message[k])
    <3>1. k \in 1 .. n
      BY <1>1, <2>2
    <3>2. /\ p1 \in Position /\ p1.line = p.line /\ p1.col = x + 1 /\ v = Rewritten(u, y, x, cell)
          /\ q \in Position /\ Kept(q, p, u, y, c) /\ (q.line < p.line \/ q.col <= x)
      BY <1>2, <1>4, <3>1
    <3>3. p.col <= x + 1
      BY <1>3
    <3> HIDE DEF p1, cell, q, c
    <3>4. Kept(q, p1, v, y, c)
      BY <3>2, <3>3, WrittenKeeps
    <3> QED
      BY <3>4 DEF p1, q, c
  <2> QED
    BY <2>1, <2>2
<1> QED
  BY <1>4 DEF Legible

\* What the handler printed is on the screen before its cursor, laid out from some
\* column on.
Readable ==
  \E x \in 0 .. width - 1 : Legible(LaidOut(x), said, Lines(buffer), cursor_x, cursor_y)

MessageInv == TextInv /\ Readable

LEMMA NothingLegible ==
  ASSUME NEW u, NEW x \in 0 .. width - 1, NEW y \in 0 .. height - 1
  PROVE  Legible(LaidOut(x), 0, u, x, y)
<1>1. LaidOut(x)[0] = [line |-> 0, col |-> x]
  BY LaidOutIs
<1> QED
  BY <1>1, SizeAssumption DEF Legible

LEMMA NothingPrinted == ASSUME TypeOK, said = 0 PROVE Readable
<1>1. cursor_x \in 0 .. width - 1 /\ cursor_y \in 0 .. height - 1
  BY DEF TypeOK
<1> QED
  BY <1>1, NothingLegible DEF Readable

LEMMA ReadableOnScreen == MessageInv => MessageReadable
<1> SUFFICES ASSUME MessageInv PROVE \E x \in 0 .. width - 1 : Shows(LaidOut(x))
  BY DEF MessageReadable
<1>1. PICK x \in 0 .. width - 1 : Legible(LaidOut(x), said, Lines(buffer), cursor_x, cursor_y)
  BY DEF MessageInv, Readable
<1> DEFINE at == LaidOut(x)
<1>2. at \in [0 .. Len(Message) -> Position] /\ Legible(at, said, Lines(buffer), cursor_x, cursor_y)
  BY <1>1, LaidOutIs
<1>3. TypeOK
  BY DEF MessageInv, TextInv
<1> HIDE DEF at
<1>4. Len(Message) \in Nat /\ said \in 0 .. Len(Message)
  BY <1>3, MessageIsText DEF TypeOK
<1>5. said \in 0 .. Len(Message) /\ \A k \in 1 .. said : k \in 0 .. Len(Message)
  BY <1>4
<1>6. ASSUME NEW k \in 1 .. said, Message[k] # "\n"
      PROVE  buffer[RowOf(at, k) * width + at[k].col - 1] = OfEarly(Message[k])
  <2> DEFINE p == at[said]
             q == at[k]
             c == OfEarly(Message[k])
             r == cursor_y - (p.line - q.line)
             j == q.col - 1
  <2>1. p \in Position /\ q \in Position /\ Kept(q, p, Lines(buffer), cursor_y, c)
    BY <1>2, <1>5, <1>6 DEF Legible
  <2> HIDE DEF p, q, c
  <2>2. Lines(buffer)[r][j] = c
    BY <2>1 DEF Kept
  <2>3. r \in 0 .. height - 1 /\ j \in 0 .. width - 2 /\ q.col \in Int /\ r \in Int /\ width \in Int
    <3>1. p.line \in Nat /\ q.line \in Nat /\ q.col \in 0 .. width - 1 /\ p.col \in Int
      BY <2>1, SizeAssumption DEF Position
    <3>2. p.line <= cursor_y /\ q.line <= p.line /\ q.col >= 1
      BY <2>1, <3>1 DEF Kept, Before
    <3>3. cursor_y \in 0 .. height - 1
      BY <1>3 DEF TypeOK
    <3> QED
      BY <3>1, <3>2, <3>3, SizeAssumption
  <2>4. RowOf(at, k) = r
    BY DEF RowOf, p, q
  <2> HIDE DEF r
  <2>5. r * width + q.col - 1 = r * width + j
    BY <2>3
  <2> HIDE DEF j
  <2>6. buffer[r * width + j] = c
    BY <2>2, <2>3 DEF Lines
  <2> QED
    BY <2>4, <2>5, <2>6 DEF q, c
<1>7. Shows(at)
  BY <1>2, <1>6 DEF Shows, Legible
<1> QED
  BY <1>7 DEF at

\* The handler's step on the text: a line feed, or a character behind one if the
\* line is full.
LEMMA HandlerText ==
  ASSUME TypeOK, said < Len(Message), handle_exception, phase = "fault"
  PROVE  LET ch == Message[said + 1]
             u == Lines(buffer)
             v == Lines(buffer')
         IN  \/ ch = "\n" /\ cursor_x' = 0 /\ Turned(u, cursor_y, EarlyBlank, v, cursor_y')
             \/ /\ ch # "\n"
                /\ TextPut(u, cursor_x, cursor_y, OfEarly(ch), EarlyBlank, v, cursor_x', cursor_y')
<1> DEFINE ch == Message[said + 1]
           cell == OfEarly(ch)
           s == EarlyScreen
           n == Len(Message)
<1>1. n \in Nat /\ said \in 0 .. n /\ said < n
  BY MessageIsText DEF TypeOK
<1>2. said + 1 \in 1 .. n
  <2> HIDE DEF n
  <2> QED
    BY <1>1
<1>3. ch \in Printable \cup {"\n"}
  BY <1>2, MessageIsText
<1>4. EarlyBecomes(vga_out_char(s, ch))
  BY DEF handle_exception
<1>5. s \in Screen /\ s.buf = buffer /\ s.x = cursor_x /\ s.y = cursor_y
  BY ScreensOfInv DEF EarlyScreen
<1>6. EarlyBlank \in Cell
  BY BlanksAreCells DEF Blanks
<1> HIDE DEF ch, s
<1>7. ASSUME ch = "\n"
      PROVE  cursor_x' = 0 /\ Turned(Lines(buffer), cursor_y, EarlyBlank, Lines(buffer'), cursor_y')
  <2> DEFINE t == newline(s, EarlyBlank)
  <2>1. buffer' = t.buf /\ cursor_x' = t.x /\ cursor_y' = t.y
    BY <1>4, <1>7, TextAssumption DEF EarlyBecomes, vga_out_char, isprint
  <2>2. t.x = 0
    BY <1>5, <1>6, NewlineScreen
  <2>3. CASE s.y + 1 = height
    <3>1. t.y = s.y /\ t.buf = scroll_line(s.buf, EarlyBlank)
      BY <1>5, <1>6, <2>3, NewlineScreen
    <3>2. buffer \in [Cells -> Cell]
      BY DEF TypeOK
    <3>3. Lines(t.buf) = UpText(Lines(buffer), EarlyBlank)
      BY <1>5, <1>6, <3>1, <3>2, ScrollText
    <3> QED
      BY <1>5, <2>1, <2>2, <2>3, <3>1, <3>3 DEF Turned
  <2>4. CASE s.y + 1 # height
    <3>1. t.y = s.y + 1 /\ t.buf = s.buf
      BY <1>5, <1>6, <2>4, NewlineScreen
    <3>2. cursor_y + 1 < height
      BY <1>5, <2>4, SizeAssumption DEF TypeOK
    <3> QED
      BY <1>5, <2>1, <2>2, <3>1, <3>2 DEF Turned
  <2> QED
    BY <2>3, <2>4
<1>8. ASSUME ch # "\n"
      PROVE  TextPut(Lines(buffer), cursor_x, cursor_y, cell, EarlyBlank, Lines(buffer'), cursor_x', cursor_y')
  <2> DEFINE t == Printed(s, cell, EarlyBlank)
  <2>1. isprint(ch) /\ ch # "\n" /\ ch # "\r"
    BY <1>3, <1>8, TextAssumption DEF isprint
  <2>2. cell \in Cell
    BY <2>1 DEF isprint, OfEarly, Cell, Foregrounds
  <2>3. vga_out_char(s, ch) = t
    BY <2>1 DEF vga_out_char
  <2>4. buffer' = t.buf /\ cursor_x' = t.x /\ cursor_y' = t.y
    BY <1>4, <2>3 DEF EarlyBecomes
  <2> HIDE DEF cell
  <2>5. TextPut(Lines(s.buf), s.x, s.y, cell, EarlyBlank, Lines(t.buf), t.x, t.y)
    BY <1>5, <1>6, <2>2, PrintedText
  <2> QED
    BY <1>5, <2>4, <2>5
<1> QED
  BY <1>7, <1>8 DEF ch

LEMMA ReadableStep == MessageInv /\ TextInv' /\ [Next]_vars => Readable'
<1> SUFFICES ASSUME MessageInv, TextInv', [Next]_vars PROVE Readable'
  OBVIOUS
<1>1. TypeOK /\ Beginnings /\ Readable
  BY DEF MessageInv, TextInv
<1>2. ASSUME said' = 0 PROVE Readable'
  <2>1. cursor_x' \in 0 .. width - 1 /\ cursor_y' \in 0 .. height - 1
    BY DEF TextInv, TypeOK
  <2>2. Legible(LaidOut(cursor_x'), 0, Lines(buffer'), cursor_x', cursor_y')
    BY <2>1, NothingLegible
  <2> QED
    BY <1>2, <2>1, <2>2 DEF Readable
<1>3. CASE phase' \notin {"fault", "halt"}
  <2>1. said' = 0
    BY <1>3 DEF TextInv, Beginnings
  <2> QED
    BY <1>2, <2>1
<1>4. CASE UNCHANGED <<buffer, cursor_x, cursor_y, said>>
  BY <1>1, <1>4 DEF Readable
<1>5. CASE phase = "fault" /\ handle_exception /\ said < Len(Message)
  <2>1. PICK x0 \in 0 .. width - 1 : Legible(LaidOut(x0), said, Lines(buffer), cursor_x, cursor_y)
    BY <1>1 DEF Readable
  <2> DEFINE at == LaidOut(x0)
             n == said
             ch == Message[n + 1]
             p == at[n]
             p1 == at[n + 1]
             u == Lines(buffer)
             v == Lines(buffer')
             x == cursor_x
             y == cursor_y
  <2>2. Len(Message) \in Nat /\ n \in Nat /\ n \in 0 .. Len(Message) - 1 /\ n' = n + 1
    <3>1. said \in 0 .. Len(Message) /\ Len(Message) \in Nat
      BY <1>1, MessageIsText DEF TypeOK
    <3>2. said' = said + 1
      BY <1>5 DEF handle_exception
    <3> QED
      BY <1>5, <3>1, <3>2
  <2>3. at \in [0 .. Len(Message) -> Position] /\ p1 = Past(p, ch)
    BY <2>2, LaidOutIs
  <2>4. p1.line < height
    BY <2>2, MessageAssumption
  <2>5. \/ ch = "\n" /\ cursor_x' = 0 /\ Turned(u, y, EarlyBlank, v, cursor_y')
        \/ /\ ch # "\n"
           /\ TextPut(u, x, y, OfEarly(ch), EarlyBlank, v, cursor_x', cursor_y')
    BY <1>1, <1>5, HandlerText
  <2>6. /\ u \in [0 .. height - 1 -> [0 .. width - 2 -> Cell]]
        /\ x \in 0 .. width - 1 /\ y \in 0 .. height - 1
    BY <1>1, LinesType DEF TypeOK
  <2>7. Legible(at, n, u, x, y)
    BY <2>1
  <2>8. cursor_y' \in 0 .. height - 1
    BY DEF TextInv, TypeOK
  <2>9. p \in Position /\ p1 \in Position
    BY <2>2, <2>3
  <2>10. p.col = x /\ p.line <= y /\ p.line \in Nat
    BY <2>7, <2>9 DEF Legible, Position
  <2>11. \A k \in 1 .. n : at[k] \in Position
    BY <2>2, <2>3
  <2>12. ch = Message[n + 1] /\ width \in Nat /\ width > 1 /\ height \in Nat
    BY SizeAssumption
  <2> HIDE DEF at, n, ch, u, v, x, y
  <2>13. ASSUME ch = "\n"
         PROVE  Legible(at, n + 1, v, cursor_x', cursor_y')
    <3>1. p1.line = p.line + 1 /\ p1.col = 0
      BY <2>3, <2>13 DEF Past
    <3>2. Turned(u, y, EarlyBlank, v, cursor_y') /\ cursor_x' = 0
      BY <2>5, <2>13
    <3>3. /\ p1.line <= cursor_y'
          /\ \A k \in 1 .. n : Message[k] # "\n" => Kept(at[k], p1, v, cursor_y', OfEarly(Message[k]))
      BY <2>2, <2>3, <2>4, <2>6, <2>7, <2>9, <3>1, <3>2, LegibleTurn
    <3>4. ASSUME NEW k \in 1 .. n + 1, Message[k] # "\n" PROVE k \in 1 .. n
      <4>1. k # n + 1
        BY <2>12, <2>13, <3>4
      <4> QED
        BY <2>2, <4>1
    <3> QED
      BY <3>1, <3>2, <3>3, <3>4 DEF Legible
  <2>14. ASSUME ch # "\n", x < width - 1
         PROVE  Legible(at, n + 1, v, cursor_x', cursor_y')
    <3>1. p1.line = p.line /\ p1.col = x + 1
      BY <2>3, <2>6, <2>10, <2>12, <2>14 DEF Past
    <3>2. cursor_x' = x + 1 /\ cursor_y' = y /\ v = Rewritten(u, y, x, OfEarly(ch))
      BY <2>5, <2>6, <2>12, <2>14 DEF TextPut
    <3>3. x \in 0 .. width - 2
      BY <2>6, <2>12, <2>14
    <3>4. ASSUME NEW k \in 1 .. n, Message[k] # "\n"
          PROVE  /\ Kept(at[k], p, u, y, OfEarly(Message[k]))
                 /\ at[k].line < p.line \/ at[k].col <= x
      <4>1. Kept(at[k], p, u, y, OfEarly(Message[k]))
        BY <2>7, <3>4 DEF Legible
      <4> QED
        BY <2>10, <4>1 DEF Kept, Before
    <3>5. p.col <= x
      BY <2>6, <2>10
    <3>6. v = Rewritten(u, y, x, OfEarly(Message[n + 1]))
      BY <2>12, <3>2
    <3> HIDE DEF p
    <3>7. Legible(at, n + 1, v, x + 1, y)
      BY <2>2, <2>3, <2>6, <2>9, <2>10, <3>1, <3>3, <3>4, <3>5, <3>6, LegibleWrite
    <3> QED
      BY <3>2, <3>7
  <2>15. ASSUME ch # "\n", x = width - 1
         PROVE  Legible(at, n + 1, v, cursor_x', cursor_y')
    <3>1. p1.line = p.line + 1 /\ p1.col = 1
      BY <2>3, <2>10, <2>12, <2>15 DEF Past
    <3> DEFINE pm == [line |-> p.line + 1, col |-> 0]
    <3>2. pm \in Position /\ pm.line = p.line + 1 /\ pm.col = 0
      BY <2>10, <2>12 DEF Position
    <3> HIDE DEF pm
    <3>3. PICK w : /\ Turned(u, y, EarlyBlank, w, cursor_y')
                   /\ w \in [0 .. height - 1 -> [0 .. width - 2 -> Cell]]
                   /\ v = Rewritten(w, cursor_y', 0, OfEarly(ch))
                   /\ cursor_x' = 1
      <4>1. EarlyBlank \in Cell
        BY BlanksAreCells DEF Blanks
      <4>2. UpText(u, EarlyBlank) \in [0 .. height - 1 -> [0 .. width - 2 -> Cell]]
        <5>1. ASSUME NEW r \in 0 .. height - 1, r + 1 < height PROVE r + 1 \in 0 .. height - 1
          BY <2>12, <5>1
        <5> QED
          BY <2>6, <4>1, <5>1 DEF UpText
      <4>3. CASE y + 1 < height
        BY <2>5, <2>6, <2>12, <2>15, <4>3 DEF TextPut, Turned
      <4>4. CASE ~(y + 1 < height)
        BY <2>5, <2>6, <2>12, <2>15, <4>2, <4>4 DEF TextPut, Turned
      <4> QED
        BY <4>3, <4>4
    <3>4. /\ pm.line <= cursor_y'
          /\ \A k \in 1 .. n : Message[k] # "\n" =>
               Kept(at[k], pm, w, cursor_y', OfEarly(Message[k])) /\ at[k].line < pm.line
      BY <2>2, <2>3, <2>4, <2>6, <2>7, <3>1, <3>2, <3>3, LegibleTurn
    <3>5. 0 \in 0 .. width - 2 /\ pm.col <= 0 /\ p1.col = 0 + 1 /\ p1.line = pm.line
      BY <2>12, <3>1, <3>2
    <3> DEFINE o == 0
               z == cursor_y'
    <3>6. v = Rewritten(w, z, o, OfEarly(Message[n + 1]))
      BY <2>12, <3>3
    <3>7. /\ o \in 0 .. width - 2 /\ pm.col <= o /\ p1.col = o + 1 /\ p1.line = pm.line
          /\ z \in 0 .. height - 1 /\ pm.line <= z
          /\ \A k \in 1 .. n : Message[k] # "\n" =>
               /\ Kept(at[k], pm, w, z, OfEarly(Message[k]))
               /\ at[k].line < pm.line \/ at[k].col <= o
          /\ cursor_x' = o + 1
      BY <2>8, <3>3, <3>4, <3>5
    <3> HIDE DEF o, z
    <3>8. /\ at \in [0 .. Len(Message) -> Position] /\ pm \in Position
          /\ w \in [0 .. height - 1 -> [0 .. width - 2 -> Cell]]
      BY <2>3, <3>2, <3>3
    <3>9. Legible(at, n + 1, v, o + 1, z)
      BY <2>2, <3>6, <3>7, <3>8, LegibleWrite
    <3> QED
      BY <3>7, <3>9 DEF z
  <2>16. Legible(at, n + 1, v, cursor_x', cursor_y')
    <3>1. x < width - 1 \/ x = width - 1
      BY <2>6, <2>12
    <3> QED
      BY <2>13, <2>14, <2>15, <3>1
  <2>17. Legible(LaidOut(x0), said', Lines(buffer'), cursor_x', cursor_y')
    BY <2>2, <2>16 DEF at, n, v
  <2> QED
    BY <2>17 DEF Readable
<1>6. CASE handle_exception
  BY <1>4, <1>5, <1>6 DEF handle_exception, early
<1>7. CASE init_vga \/ KernelMain \/ Tab
  BY <1>3, <1>7 DEF init_vga, KernelMain, Tab
<1>8. ASSUME NEW ch \in Text, EarlyPrint(ch) \/ KernelPrint(ch)
      PROVE  Readable'
  BY <1>3, <1>8 DEF EarlyPrint, KernelPrint
<1>9. ASSUME NEW ch \in Text, Fault(ch)
      PROVE  Readable'
  BY <1>1, <1>2, <1>9 DEF Fault, Beginnings
<1>10. ASSUME NEW c \in Colors, set_color(c)
       PROVE  Readable'
  BY <1>3, <1>10 DEF set_color
<1>11. CASE UNCHANGED vars
  BY <1>4, <1>11 DEF vars
<1> QED
  BY <1>6, <1>7, <1>8, <1>9, <1>10, <1>11 DEF Next

\* Wherever an exception interrupts a writer, in the middle of a character, a line
\* feed or a scroll, the message of the handler, line feeds included, can be read on
\* the screen afterwards (idt.cpp:134-149).
THEOREM MessageIsReadable == Spec => []MessageReadable
<1>1. Init => MessageInv
  <2> SUFFICES ASSUME Init PROVE MessageInv
    OBVIOUS
  <2>1. said = 0
    BY DEF Init
  <2>2. TextInv
    BY TextInvInit
  <2> QED
    BY <2>1, <2>2, NothingPrinted DEF MessageInv, TextInv
<1>2. MessageInv /\ [Next]_vars => MessageInv'
  BY TextInvStep, ReadableStep DEF MessageInv
<1> QED
  BY <1>1, <1>2, ReadableOnScreen, PTL DEF Spec

-----------------------------------------------------------------------------
(***************************************************************************)
(* The framebuffer: the UTF-8 text of a character reads back.              *)
(***************************************************************************)
\* Numbers small enough for four bytes of UTF-8
Coded(ch) == ch \in Nat /\ ch < 2097152

LEMMA CharacterCoded == ASSUME NEW ch \in Character PROVE Coded(ch)
<1>1. MaxCharacter \in Nat /\ MaxCharacter < 2097152
  BY SMT DEF MaxCharacter
<1>2. ch \in Nat /\ ch <= MaxCharacter
  BY <1>1 DEF Character
<1>3. QED
  BY SMT, <1>1, <1>2 DEF Coded

\* The sequence t is in s from place i on.
Holds(s, i, t) == \A k \in 1 .. Len(t) : s[i + k - 1] = t[k]

LEMMA Utf8Type ==
  ASSUME NEW ch, Coded(ch)
  PROVE  Utf8(ch) \in Seq(Nat) /\ Len(Utf8(ch)) \in 1 .. 4
<1>1. CASE ch < 128
  <2>1. Utf8(ch) = <<ch>>
    BY SMT, <1>1 DEF Utf8
  <2>2. QED
    BY SMT, <2>1 DEF Coded
<1>2. CASE 128 <= ch /\ ch < 2048
  <2>1. Utf8(ch) = <<192 + ch \div 64, Trailing(ch)>>
    BY SMT, <1>2 DEF Utf8, Coded
  <2>2. 192 + ch \div 64 \in Nat /\ Trailing(ch) \in Nat
    BY SMT, <1>2 DEF Trailing, Coded
  <2>3. QED
    BY SMT, <2>1, <2>2
<1>3. CASE 2048 <= ch /\ ch < 65536
  <2>1. Utf8(ch) = <<224 + ch \div 4096, Trailing(ch \div 64), Trailing(ch)>>
    BY SMT, <1>3 DEF Utf8, Coded
  <2>2. 224 + ch \div 4096 \in Nat /\ Trailing(ch \div 64) \in Nat /\ Trailing(ch) \in Nat
    BY SMT, <1>3 DEF Trailing, Coded
  <2>3. QED
    BY SMT, <2>1, <2>2
<1>4. CASE 65536 <= ch
  <2>1. Utf8(ch) = <<240 + ch \div 262144, Trailing(ch \div 4096), Trailing(ch \div 64), Trailing(ch)>>
    BY SMT, <1>4 DEF Utf8, Coded
  <2>2. /\ 240 + ch \div 262144 \in Nat /\ Trailing(ch \div 4096) \in Nat
        /\ Trailing(ch \div 64) \in Nat /\ Trailing(ch) \in Nat
    BY SMT, <1>4 DEF Trailing, Coded
  <2>3. QED
    BY SMT, <2>1, <2>2
<1>5. QED
  BY SMT, <1>1, <1>2, <1>3, <1>4 DEF Coded

LEMMA Utf8Decodes ==
  ASSUME NEW ch, Coded(ch), NEW s, NEW i \in Nat, Holds(s, i, Utf8(ch))
  PROVE  /\ SequenceLength(s[i]) = Len(Utf8(ch))
         /\ Decoded(s, i) = uint16(ch)
         /\ s[i] # 255
<1>1. CASE ch < 128
  <2>1. Utf8(ch) = <<ch>>
    BY SMT, <1>1 DEF Utf8
  <2>2. s[i] = ch
    <3>1. s[i + 1 - 1] = Utf8(ch)[1]
      BY SMT, <2>1 DEF Holds
    <3>2. QED
      BY SMT, <3>1, <2>1
  <2>3. Bit(s[i], 128) = 0
    BY SMT, <2>2, <1>1 DEF Bit, Coded
  <2>4. SequenceLength(s[i]) = 1
    BY SMT, <2>3 DEF SequenceLength
  <2>5. Decoded(s, i) = uint16(ch)
    BY SMT, <2>2, <2>3 DEF Decoded
  <2>6. QED
    BY SMT, <2>1, <2>2, <2>4, <2>5, <1>1 DEF Coded
<1>2. CASE 128 <= ch /\ ch < 2048
  <2>1. Utf8(ch) = <<192 + ch \div 64, Trailing(ch)>>
    BY SMT, <1>2 DEF Utf8, Coded
  <2>2. s[i] = 192 + ch \div 64 /\ s[i + 1] = 128 + (ch % 64)
    <3>1. s[i + 1 - 1] = Utf8(ch)[1] /\ s[i + 2 - 1] = Utf8(ch)[2]
      BY SMT, <2>1 DEF Holds
    <3>2. QED
      BY SMT, <3>1, <2>1 DEF Trailing
  <2>3. Bit(s[i], 128) = 1 /\ Bit(s[i], 32) = 0
    BY SMT, <2>2, <1>2 DEF Bit, Coded
  <2>4. SequenceLength(s[i]) = 2
    BY SMT, <2>3 DEF SequenceLength
  <2>5. Decoded(s, i) = uint16(64 * (s[i] % 32) + (s[i + 1] % 64))
    BY SMT, <2>3, <2>4 DEF Decoded
  <2>6. s[i] % 32 = ch \div 64 /\ s[i + 1] % 64 = ch % 64
    BY SMT, <2>2, <1>2 DEF Coded
  <2>7. 64 * (ch \div 64) + (ch % 64) = ch
    BY SMT, <1>2 DEF Coded
  <2>8. QED
    BY SMT, <2>1, <2>2, <2>4, <2>5, <2>6, <2>7, <1>2
<1>3. CASE 2048 <= ch /\ ch < 65536
  <2>1. Utf8(ch) = <<224 + ch \div 4096, Trailing(ch \div 64), Trailing(ch)>>
    BY SMT, <1>3 DEF Utf8, Coded
  <2>2. /\ s[i] = 224 + ch \div 4096
        /\ s[i + 1] = 128 + ((ch \div 64) % 64)
        /\ s[i + 2] = 128 + (ch % 64)
    <3>1. s[i + 1 - 1] = Utf8(ch)[1] /\ s[i + 2 - 1] = Utf8(ch)[2] /\ s[i + 3 - 1] = Utf8(ch)[3]
      BY SMT, <2>1 DEF Holds
    <3>2. QED
      BY SMT, <3>1, <2>1 DEF Trailing
  <2>3. Bit(s[i], 128) = 1 /\ Bit(s[i], 32) = 1 /\ Bit(s[i], 16) = 0
    BY SMT, <2>2, <1>3 DEF Bit, Coded
  <2>4. SequenceLength(s[i]) = 3
    BY SMT, <2>3 DEF SequenceLength
  <2>5. Decoded(s, i) = uint16(64 * (64 * (s[i] % 16) + (s[i + 1] % 64)) + (s[i + 2] % 64))
    BY SMT, <2>3, <2>4 DEF Decoded
  <2>6. s[i] % 16 = ch \div 4096 /\ s[i + 1] % 64 = (ch \div 64) % 64 /\ s[i + 2] % 64 = ch % 64
    BY SMT, <2>2, <1>3 DEF Coded
  <2>7. 64 * (64 * (ch \div 4096) + ((ch \div 64) % 64)) + (ch % 64) = ch
    BY SMT, <1>3 DEF Coded
  <2>8. QED
    BY SMT, <2>1, <2>2, <2>4, <2>5, <2>6, <2>7, <1>3
<1>4. CASE 65536 <= ch
  <2>1. Utf8(ch) = <<240 + ch \div 262144, Trailing(ch \div 4096), Trailing(ch \div 64), Trailing(ch)>>
    BY SMT, <1>4 DEF Utf8, Coded
  <2>2. /\ s[i] = 240 + ch \div 262144
        /\ s[i + 1] = 128 + ((ch \div 4096) % 64)
        /\ s[i + 2] = 128 + ((ch \div 64) % 64)
        /\ s[i + 3] = 128 + (ch % 64)
    <3>1. /\ s[i + 1 - 1] = Utf8(ch)[1] /\ s[i + 2 - 1] = Utf8(ch)[2]
          /\ s[i + 3 - 1] = Utf8(ch)[3] /\ s[i + 4 - 1] = Utf8(ch)[4]
      BY SMT, <2>1 DEF Holds
    <3>2. QED
      BY SMT, <3>1, <2>1 DEF Trailing
  <2>3. Bit(s[i], 128) = 1 /\ Bit(s[i], 32) = 1 /\ Bit(s[i], 16) = 1 /\ Bit(s[i], 8) = 0
    BY SMT, <2>2, <1>4 DEF Bit, Coded
  <2>4. SequenceLength(s[i]) = 4
    BY SMT, <2>3 DEF SequenceLength
  <2>5. Decoded(s, i) = uint16(64 * (64 * (64 * (s[i] % 8) + (s[i + 1] % 64)) + (s[i + 2] % 64))
                           + (s[i + 3] % 64))
    BY SMT, <2>3, <2>4 DEF Decoded
  <2>6. /\ s[i] % 8 = ch \div 262144 /\ s[i + 1] % 64 = (ch \div 4096) % 64
        /\ s[i + 2] % 64 = (ch \div 64) % 64 /\ s[i + 3] % 64 = ch % 64
    BY SMT, <2>2, <1>4 DEF Coded
  <2>7. 64 * (64 * (64 * (ch \div 262144) + ((ch \div 4096) % 64)) + ((ch \div 64) % 64)) + (ch % 64) = ch
    BY SMT, <1>4 DEF Coded
  <2>8. QED
    BY SMT, <2>1, <2>2, <2>4, <2>5, <2>6, <2>7, <1>4 DEF Coded
<1>5. QED
  BY SMT, <1>1, <1>2, <1>3, <1>4 DEF Coded

-----------------------------------------------------------------------------
(***************************************************************************)
(* The text of the font's table.                                           *)
(***************************************************************************)
\* Of p it is known that s begins with it.
StartsWith(s, p) ==
  /\ s \in Seq(Nat) /\ p \in Seq(Nat) /\ Len(p) <= Len(s)
  /\ \A k \in 1 .. Len(p) : s[k] = p[k]

LEMMA ConcatText ==
  ASSUME NEW p \in Seq(Nat), NEW q \in Seq(Nat)
  PROVE  /\ p \o q \in Seq(Nat) /\ Len(p \o q) = Len(p) + Len(q)
         /\ \A k \in 1 .. Len(p) : (p \o q)[k] = p[k]
         /\ \A k \in 1 .. Len(q) : (p \o q)[Len(p) + k] = q[k]
<1>1. p \o q \in Seq(Nat) /\ Len(p \o q) = Len(p) + Len(q) /\ Len(p) \in Nat /\ Len(q) \in Nat
  OBVIOUS
<1>2. ASSUME NEW k \in 1 .. Len(p) PROVE (p \o q)[k] = p[k]
  OBVIOUS
<1>3. ASSUME NEW k \in 1 .. Len(q) PROVE (p \o q)[Len(p) + k] = q[k]
  OBVIOUS
<1>4. QED
  BY <1>1, <1>2, <1>3

LEMMA ConcatStarts ==
  ASSUME NEW p \in Seq(Nat), NEW q \in Seq(Nat)
  PROVE  StartsWith(p \o q, p)
BY ConcatText DEF StartsWith

LEMMA StartsSame ==
  ASSUME NEW p \in Seq(Nat)
  PROVE  StartsWith(p, p)
BY DEF StartsWith

LEMMA StartsTransitive ==
  ASSUME NEW s, NEW p, NEW q, StartsWith(s, p), StartsWith(p, q)
  PROVE  StartsWith(s, q)
BY DEF StartsWith

\* What starts with a text and more holds the more behind it.
LEMMA StartsHolds ==
  ASSUME NEW s, NEW p \in Seq(Nat), NEW q \in Seq(Nat), StartsWith(s, p \o q)
  PROVE  Holds(s, Len(p) + 1, q) /\ Len(p) + Len(q) <= Len(s)
<1>1. /\ Len(p \o q) = Len(p) + Len(q) /\ Len(p) \in Nat /\ Len(q) \in Nat
      /\ \A k \in 1 .. Len(q) : (p \o q)[Len(p) + k] = q[k]
  BY ConcatText
<1>2. ASSUME NEW k \in 1 .. Len(q) PROVE s[Len(p) + 1 + k - 1] = q[k]
  <2>1. Len(p) + k \in 1 .. Len(p \o q) /\ Len(p) + 1 + k - 1 = Len(p) + k
    BY <1>1
  <2>2. s[Len(p) + k] = (p \o q)[Len(p) + k]
    BY <2>1 DEF StartsWith
  <2>3. QED
    BY <1>1, <2>1, <2>2
<1>3. QED
  BY <1>1, <1>2 DEF Holds, StartsWith

Lists == Seq(Seq(Character))

\* t has the concatenations of the first texts of u.
Adds(t, u, k) == t[k] = t[k - 1] \o u[k]
Joins(t, u, n) ==
  /\ t = [k \in 0 .. n |-> t[k]]
  /\ t[0] = <<>>
  /\ \A k \in 1 .. n : Adds(t, u, k)

LEMMA JoinsExist ==
  ASSUME NEW n \in Nat, NEW u \in [1 .. n -> Seq(Nat)]
  PROVE  \E t : Joins(t, u, n)
<1> DEFINE S == Seq(Nat)
           U(k) == IF k \in 1 .. n THEN u[k] ELSE <<>>
           F == [k \in Nat |-> [x \in S |-> x \o U(k)]]
<1>1. Rounds(F, S)
  <2>1. ASSUME NEW k \in Nat, NEW x \in S PROVE x \o U(k) \in S
    <3>1. U(k) \in S
      OBVIOUS
    <3> HIDE DEF U
    <3>2. QED
      BY <3>1, ConcatText
  <2> HIDE DEF U
  <2>2. QED
    BY <2>1 DEF Rounds
<1>2. <<>> \in S
  OBVIOUS
<1>3. PICK g : Iterates(g, S, <<>>, F, n)
  <2> HIDE DEF F, S
  <2>1. QED
    BY <1>1, <1>2, Iteration
<1>4. g \in [0 .. n -> S] /\ g[0] = <<>> /\ \A k \in 1 .. n : g[k] = F[k][g[k - 1]]
  BY <1>3 DEF Iterates
<1>5. \A k \in 1 .. n : g[k] = g[k - 1] \o u[k]
  <2> SUFFICES ASSUME NEW k \in 1 .. n PROVE g[k] = g[k - 1] \o u[k]
    OBVIOUS
  <2>1. k \in Nat /\ g[k - 1] \in S
    BY <1>4
  <2>2. F[k][g[k - 1]] = g[k - 1] \o U(k)
    BY <2>1
  <2>3. QED
    BY <1>4, <2>2
<1>6. QED
  BY <1>4, <1>5 DEF Joins, Adds

LEMMA JoinsFirst ==
  ASSUME NEW n, NEW u, NEW t, Joins(t, u, n)
  PROVE  t[0] = <<>>
BY DEF Joins

LEMMA JoinsNext ==
  ASSUME NEW n, NEW u, NEW t, Joins(t, u, n), NEW k \in 1 .. n
  PROVE  Adds(t, u, k)
BY DEF Joins

\* A recursive function that joins the texts f[k] is one.
IsSum(t, f, n) == t = [k \in 0 .. n |-> IF k = 0 THEN <<>> ELSE t[k - 1] \o f[k]]
LEMMA JoinsAre ==
  ASSUME NEW n \in Nat, NEW u, NEW f, \A k \in 1 .. n : f[k] = u[k], NEW t
  PROVE  Joins(t, u, n) <=> IsSum(t, f, n)
<1>1. ASSUME Joins(t, u, n), NEW k \in 0 .. n
      PROVE  t[k] = IF k = 0 THEN <<>> ELSE t[k - 1] \o f[k]
  <2>1. CASE k = 0
    BY <1>1, <2>1, JoinsFirst
  <2>2. CASE k # 0
    <3>1. k \in 1 .. n
      BY <2>2
    <3>2. Adds(t, u, k)
      BY <1>1, <3>1, JoinsNext
    <3>3. QED
      BY <2>2, <3>1, <3>2 DEF Adds
  <2>3. QED
    BY <2>1, <2>2
<1>2. ASSUME Joins(t, u, n)
      PROVE  t = [k \in 0 .. n |-> IF k = 0 THEN <<>> ELSE t[k - 1] \o f[k]]
  <2>1. t = [k \in 0 .. n |-> t[k]]
    BY <1>2 DEF Joins
  <2>2. \A k \in 0 .. n : t[k] = IF k = 0 THEN <<>> ELSE t[k - 1] \o f[k]
    BY <1>1, <1>2
  <2>3. QED
    BY <2>1, <2>2
<1>3. ASSUME t = [k \in 0 .. n |-> IF k = 0 THEN <<>> ELSE t[k - 1] \o f[k]]
      PROVE  Joins(t, u, n)
  <2>1. \A k \in 0 .. n : t[k] = IF k = 0 THEN <<>> ELSE t[k - 1] \o f[k]
    BY <1>3
  <2>2. t[0] = <<>>
    BY <2>1
  <2>3. ASSUME NEW k \in 1 .. n PROVE t[k] = t[k - 1] \o u[k]
    <3>1. k \in 0 .. n /\ k # 0 /\ f[k] = u[k]
      OBVIOUS
    <3>2. QED
      BY <2>1, <3>1
  <2>4. t = [k \in 0 .. n |-> t[k]]
    BY <1>3, <2>1
  <2>5. QED
    BY <2>2, <2>3, <2>4 DEF Joins, Adds
<1>4. QED
  BY <1>2, <1>3 DEF IsSum

LEMMA JoinsType ==
  ASSUME NEW n \in Nat, NEW u \in [1 .. n -> Seq(Nat)], NEW t, Joins(t, u, n)
  PROVE  \A k \in 0 .. n : t[k] \in Seq(Nat)
<1> DEFINE T == {k \in Nat : t[k] \in Seq(Nat)}
<1>1. 0 \in T
  <2>1. t[0] = <<>> /\ <<>> \in Seq(Nat)
    BY JoinsFirst
  <2>2. QED
    BY <2>1
<1>2. ASSUME NEW k \in 0 .. n - 1, k \in T PROVE k + 1 \in T
  <2>1. k + 1 \in 1 .. n /\ (k + 1) - 1 = k /\ k + 1 \in Nat
    OBVIOUS
  <2>2. t[k + 1] = t[k] \o u[k + 1]
    <3>1. Adds(t, u, k + 1)
      BY <2>1, JoinsNext
    <3>2. QED
      BY <2>1, <3>1 DEF Adds
  <2>3. t[k] \in Seq(Nat) /\ u[k + 1] \in Seq(Nat)
    BY <1>2, <2>1
  <2>4. t[k + 1] \in Seq(Nat)
    BY <2>2, <2>3, ConcatText
  <2>5. QED
    BY <2>1, <2>4
<1> HIDE DEF T
<1>3. \A k \in 0 .. n : k \in T
  BY <1>1, <1>2, BoundedInduction
<1>4. QED
  BY <1>3 DEF T

\* A longer one starts with a shorter one.
LEMMA JoinsStart ==
  ASSUME NEW n \in Nat, NEW u \in [1 .. n -> Seq(Nat)], NEW t, Joins(t, u, n),
         NEW i \in 0 .. n
  PROVE  StartsWith(t[n], t[i])
<1> DEFINE T == {k \in Nat : StartsWith(t[i + k], t[i])}
<1>1. \A k \in 0 .. n : t[k] \in Seq(Nat)
  BY JoinsType
<1>2. 0 \in T
  <2>1. i + 0 = i
    OBVIOUS
  <2>2. QED
    BY <1>1, <2>1, StartsSame
<1>3. ASSUME NEW k \in 0 .. n - i - 1, k \in T PROVE k + 1 \in T
  <2>1. /\ i + (k + 1) \in 1 .. n /\ i + (k + 1) - 1 = i + k /\ k + 1 \in Nat
        /\ i + k \in 0 .. n
    OBVIOUS
  <2>2. t[i + (k + 1)] = t[i + k] \o u[i + (k + 1)]
    <3> DEFINE j == i + (k + 1)
    <3>1. j \in 1 .. n /\ j - 1 = i + k
      BY <2>1
    <3> HIDE DEF j
    <3>2. Adds(t, u, j)
      BY <3>1, JoinsNext
    <3>3. QED
      BY <3>1, <3>2 DEF j, Adds
  <2>3. t[i + k] \in Seq(Nat) /\ u[i + (k + 1)] \in Seq(Nat)
    BY <1>1, <2>1
  <2>4. StartsWith(t[i + (k + 1)], t[i + k])
    BY <2>2, <2>3, ConcatStarts
  <2>5. StartsWith(t[i + k], t[i])
    BY <1>3
  <2>6. StartsWith(t[i + (k + 1)], t[i])
    BY <2>4, <2>5, StartsTransitive
  <2>7. QED
    BY <2>1, <2>6
<1> HIDE DEF T
<1>4. n - i \in Nat
  OBVIOUS
<1>5. \A k \in 0 .. n - i : k \in T
  BY <1>2, <1>3, <1>4, BoundedInduction
<1>6. n - i \in T /\ i + (n - i) = n
  BY <1>4, <1>5
<1>7. QED
  BY <1>6 DEF T

Codes(list) == [k \in 1 .. Len(list) |-> Utf8(list[k])]

LEMMA ListTextIs ==
  ASSUME NEW list \in Seq(Character)
  PROVE  /\ Codes(list) \in [1 .. Len(list) -> Seq(Nat)]
         /\ Joins(ListText(list), Codes(list), Len(list))
<1> DEFINE n == Len(list)
           u == Codes(list)
           f == [k \in 1 .. n |-> Utf8(list[k])]
           Is(t) == t = [k \in 0 .. n |-> IF k = 0 THEN <<>> ELSE t[k - 1] \o Utf8(list[k])]
           If(t) == IsSum(t, f, n)
           t == CHOOSE t : Is(t)
<1>1. u \in [1 .. n -> Seq(Nat)] /\ n \in Nat
  <2>1. \A k \in 1 .. n : list[k] \in Character
    OBVIOUS
  <2>2. \A k \in 1 .. n : Utf8(list[k]) \in Seq(Nat)
    BY <2>1, CharacterCoded, Utf8Type
  <2>3. QED
    BY <2>2 DEF Codes
<1>2. \A k \in 1 .. n : f[k] = u[k] /\ f[k] = Utf8(list[k])
  BY DEF Codes
<1> HIDE DEF u, n, f
<1>3. \A x : Is(x) <=> If(x)
  <2> SUFFICES ASSUME NEW x PROVE Is(x) <=> If(x)
    OBVIOUS
  <2>1. [k \in 0 .. n |-> IF k = 0 THEN <<>> ELSE x[k - 1] \o Utf8(list[k])]
          = [k \in 0 .. n |-> IF k = 0 THEN <<>> ELSE x[k - 1] \o f[k]]
    <3>1. ASSUME NEW k \in 0 .. n
          PROVE  (IF k = 0 THEN <<>> ELSE x[k - 1] \o Utf8(list[k]))
                   = (IF k = 0 THEN <<>> ELSE x[k - 1] \o f[k])
      <4>1. k # 0 => k \in 1 .. n
        BY <1>1
      <4>2. QED
        BY <1>2, <4>1
    <3>2. QED
      BY <3>1
  <2>2. QED
    BY <2>1 DEF IsSum
<1>4. \A x : Joins(x, u, n) <=> If(x)
  <2>1. \A k \in 1 .. n : f[k] = u[k]
    BY <1>2
  <2>2. QED
    BY <1>1, <2>1, JoinsAre
<1>5. PICK g : Joins(g, u, n)
  BY <1>1, JoinsExist
<1>6. Is(g)
  BY <1>3, <1>4, <1>5
<1>7. Is(t)
  BY <1>6
<1> HIDE DEF t, Is, If
<1>8. Joins(t, u, n)
  BY <1>3, <1>4, <1>7
<1>9. ListText(list) = t
  BY DEF ListText, t, Is, n
<1>10. QED
  BY <1>1, <1>8, <1>9 DEF u, n

\* What each list adds to the table
Entry(list) == ListText(list)[Len(list)] \o <<255>>
Entries(lists) == [g \in 1 .. Len(lists) |-> Entry(lists[g])]

LEMMA EntryType ==
  ASSUME NEW list \in Seq(Character)
  PROVE  Entry(list) \in Seq(Nat)
<1>1. Len(list) \in 0 .. Len(list) /\ Len(list) \in Nat
  OBVIOUS
<1>2. ListText(list)[Len(list)] \in Seq(Nat)
  BY <1>1, ListTextIs, JoinsType
<1>3. <<255>> \in Seq(Nat)
  OBVIOUS
<1>4. QED
  BY <1>2, <1>3, ConcatText DEF Entry

LEMMA TableTextIs ==
  ASSUME NEW lists \in Lists
  PROVE  /\ Entries(lists) \in [1 .. Len(lists) -> Seq(Nat)]
         /\ Joins(TableText(lists), Entries(lists), Len(lists))
<1> DEFINE n == Len(lists)
           u == Entries(lists)
           Is(t) == t = [g \in 0 .. n |->
                          IF g = 0 THEN <<>>
                          ELSE t[g - 1] \o (ListText(lists[g])[Len(lists[g])] \o <<255>>)]
           f == [g \in 1 .. n |-> ListText(lists[g])[Len(lists[g])] \o <<255>>]
           If(t) == IsSum(t, f, n)
           t == CHOOSE t : Is(t)
<1>1. u \in [1 .. n -> Seq(Nat)] /\ n \in Nat /\ \A k \in 1 .. n : u[k] = Entry(lists[k])
  <2>1. \A k \in 1 .. n : lists[k] \in Seq(Character)
    BY DEF Lists
  <2>2. \A k \in 1 .. n : Entry(lists[k]) \in Seq(Nat)
    BY <2>1, EntryType
  <2>3. n \in Nat
    BY DEF Lists
  <2>4. QED
    BY <2>2, <2>3 DEF Entries
<1>2. \A k \in 1 .. n : f[k] = u[k] /\ f[k] = ListText(lists[k])[Len(lists[k])] \o <<255>>
  BY DEF Entries, Entry
<1> HIDE DEF u, n, f
<1>3. \A x : Is(x) <=> If(x)
  <2> SUFFICES ASSUME NEW x PROVE Is(x) <=> If(x)
    OBVIOUS
  <2>1. [g \in 0 .. n |-> IF g = 0 THEN <<>>
                          ELSE x[g - 1] \o (ListText(lists[g])[Len(lists[g])] \o <<255>>)]
          = [k \in 0 .. n |-> IF k = 0 THEN <<>> ELSE x[k - 1] \o f[k]]
    <3>1. ASSUME NEW k \in 0 .. n
          PROVE  (IF k = 0 THEN <<>>
                  ELSE x[k - 1] \o (ListText(lists[k])[Len(lists[k])] \o <<255>>))
                   = (IF k = 0 THEN <<>> ELSE x[k - 1] \o f[k])
      <4>1. k # 0 => k \in 1 .. n
        BY <1>1
      <4>2. QED
        BY <1>2, <4>1
    <3>2. QED
      BY <3>1
  <2>2. QED
    BY <2>1 DEF IsSum
<1>4. \A x : Joins(x, u, n) <=> If(x)
  <2>1. \A k \in 1 .. n : f[k] = u[k]
    BY <1>2
  <2>2. QED
    BY <1>1, <2>1, JoinsAre
<1>5. PICK g : Joins(g, u, n)
  BY <1>1, JoinsExist
<1>6. Is(g)
  BY <1>3, <1>4, <1>5
<1>7. Is(t)
  BY SMTT(30), ZenonT(60), <1>6
<1> HIDE DEF t, Is, If
<1>8. Joins(t, u, n)
  BY <1>3, <1>4, <1>7
<1>9. TableText(lists) = t
  BY DEF TableText, t, Is, n
<1>10. QED
  BY <1>1, <1>8, <1>9 DEF u, n

-----------------------------------------------------------------------------
(***************************************************************************)
(* The table that psf_init makes of the text.                              *)
(***************************************************************************)
\* Among the first g - 1 lists and the first k characters of the g-th, the
\* character c is in the list of h.
Listed(lists, h, c, g, k) ==
  /\ h \in 1 .. Len(lists)
  /\ \E m \in 1 .. Len(lists[h]) :
       (h < g \/ (h = g /\ m <= k)) /\ uint16(lists[h][m]) = c

\* The table has the last of them.
IsTable(table, lists, g, k) ==
  /\ \A c \in DOMAIN table : \E h : Listed(lists, h, c, g, k) /\ table[c] = h - 1
  /\ \A h, c : Listed(lists, h, c, g, k) => c \in DOMAIN table /\ h - 1 <= table[c]

LEMMA ListedMore ==
  ASSUME NEW lists \in Lists, NEW g \in 1 .. Len(lists), NEW k \in Nat,
         k + 1 \in 1 .. Len(lists[g]), NEW h, NEW c
  PROVE  /\ Listed(lists, h, c, g, k) => Listed(lists, h, c, g, k + 1)
         /\ Listed(lists, h, c, g, k + 1)
              => Listed(lists, h, c, g, k) \/ (h = g /\ c = uint16(lists[g][k + 1]))
<1>1. ASSUME Listed(lists, h, c, g, k)
      PROVE  Listed(lists, h, c, g, k + 1)
  <2>1. PICK m \in 1 .. Len(lists[h]) :
          (h < g \/ (h = g /\ m <= k)) /\ uint16(lists[h][m]) = c
    BY <1>1 DEF Listed
  <2>2. h < g \/ (h = g /\ m <= k + 1)
    BY <2>1
  <2>3. QED
    BY <1>1, <2>1, <2>2 DEF Listed
<1>2. ASSUME Listed(lists, h, c, g, k + 1), ~ Listed(lists, h, c, g, k)
      PROVE  h = g /\ c = uint16(lists[g][k + 1])
  <2>1. PICK m \in 1 .. Len(lists[h]) :
          (h < g \/ (h = g /\ m <= k + 1)) /\ uint16(lists[h][m]) = c
    BY <1>2 DEF Listed
  <2>2. ~ (h < g \/ (h = g /\ m <= k))
    BY <1>2, <2>1 DEF Listed
  <2>3. h = g /\ m = k + 1
    BY <2>1, <2>2
  <2>4. QED
    BY <2>1, <2>3
<1>3. QED
  BY <1>1, <1>2

LEMMA ListedSaved ==
  ASSUME NEW lists \in Lists, NEW g \in 1 .. Len(lists), NEW k \in Nat,
         k + 1 \in 1 .. Len(lists[g]), NEW table, IsTable(table, lists, g, k)
  PROVE  IsTable(Saved(table, uint16(lists[g][k + 1]), g - 1), lists, g, k + 1)
<1> DEFINE uc == uint16(lists[g][k + 1])
           new == Saved(table, uc, g - 1)
<1>1. Listed(lists, g, uc, g, k + 1)
  <2>1. k + 1 <= k + 1
    OBVIOUS
  <2>2. QED
    BY <2>1 DEF Listed
<1>2. \A h, c : /\ Listed(lists, h, c, g, k) => Listed(lists, h, c, g, k + 1)
                /\ Listed(lists, h, c, g, k + 1)
                     => Listed(lists, h, c, g, k) \/ (h = g /\ c = uc)
  BY ListedMore
<1>3. /\ DOMAIN new = DOMAIN table \cup {uc} /\ new[uc] = g - 1
      /\ \A c \in DOMAIN table : c # uc => new[c] = table[c]
  <2> HIDE DEF uc
  <2>1. QED
    BY DEF Saved
<1>4. \A h, c : Listed(lists, h, c, g, k + 1) => h \in 1 .. Len(lists) /\ h <= g
  BY DEF Listed
<1> HIDE DEF uc, new
<1>5. ASSUME NEW c \in DOMAIN new
      PROVE  \E h : Listed(lists, h, c, g, k + 1) /\ new[c] = h - 1
  <2>1. CASE c = uc
    BY <1>1, <1>3, <2>1
  <2>2. CASE c # uc
    <3>1. c \in DOMAIN table /\ new[c] = table[c]
      BY <1>3, <1>5, <2>2
    <3>2. PICK h : Listed(lists, h, c, g, k) /\ table[c] = h - 1
      BY <3>1 DEF IsTable
    <3>3. QED
      BY <1>2, <3>1, <3>2
  <2>3. QED
    BY <2>1, <2>2
<1>6. ASSUME NEW h, NEW c, Listed(lists, h, c, g, k + 1)
      PROVE  c \in DOMAIN new /\ h - 1 <= new[c]
  <2>1. CASE c = uc
    <3>1. h \in Int /\ g \in Int /\ h <= g
      BY <1>4, <1>6
    <3>2. h - 1 <= g - 1
      BY <3>1
    <3>3. QED
      BY <1>3, <2>1, <3>2
  <2>2. CASE c # uc
    <3>1. Listed(lists, h, c, g, k)
      BY <1>2, <1>6, <2>2
    <3>2. c \in DOMAIN table /\ h - 1 <= table[c]
      BY <3>1 DEF IsTable
    <3>3. QED
      BY <1>3, <2>2, <3>2
  <2>3. QED
    BY <2>1, <2>2
<1>7. QED
  BY <1>5, <1>6 DEF IsTable, new, uc

\* Before the first character of a list, and behind the last
LEMMA ListedFirst ==
  ASSUME NEW lists \in Lists, NEW g \in 1 .. Len(lists), NEW table
  PROVE  /\ IsTable(table, lists, g, 0) => IsTable(table, lists, (g - 1) + 1, 0)
         /\ IsTable(table, lists, g, Len(lists[g])) => IsTable(table, lists, g + 1, 0)
<1>1. (g - 1) + 1 = g
  OBVIOUS
<1>2. ASSUME NEW h, NEW c
      PROVE  Listed(lists, h, c, g, Len(lists[g])) <=> Listed(lists, h, c, g + 1, 0)
  <2>1. ASSUME h \in 1 .. Len(lists), NEW m \in 1 .. Len(lists[h])
        PROVE  (h < g \/ (h = g /\ m <= Len(lists[g]))) <=> (h < g + 1 \/ (h = g + 1 /\ m <= 0))
    <3>1. lists[h] \in Seq(Character) /\ Len(lists[h]) \in Nat
      BY <2>1 DEF Lists
    <3>2. h \in Int /\ m \in Int /\ m >= 1 /\ m <= Len(lists[h])
      BY <2>1, <3>1
    <3>3. h = g => m <= Len(lists[g])
      BY <3>2
    <3>4. QED
      BY <3>2, <3>3
  <2>2. QED
    BY <2>1 DEF Listed
<1>3. QED
  BY <1>1, <1>2 DEF IsTable

-----------------------------------------------------------------------------
\* w has the first rounds of the loop over s.
Start == [at |-> 1, glyph |-> 0, table |-> <<>>]
Loops(w, s, n) ==
  /\ w = [k \in 0 .. n |-> w[k]]
  /\ w[0] = Start
  /\ \A k \in 1 .. n : w[k] = Translation(s, w[k - 1])

LEMMA LoopsExist ==
  ASSUME NEW s, NEW n \in Nat
  PROVE  \E w : Loops(w, s, n)
<1> DEFINE T == {k \in Nat : \E w : Loops(w, s, k)}
<1>1. 0 \in T
  <2> DEFINE w == [k \in 0 .. 0 |-> Start]
  <2>1. w[0] = Start /\ DOMAIN w = 0 .. 0
    OBVIOUS
  <2>2. w = [k \in 0 .. 0 |-> w[k]]
    OBVIOUS
  <2> HIDE DEF w
  <2>3. Loops(w, s, 0)
    BY <2>1, <2>2 DEF Loops
  <2>4. QED
    BY <2>3
<1>2. ASSUME NEW k \in 0 .. n - 1, k \in T PROVE k + 1 \in T
  <2>1. PICK w : Loops(w, s, k)
    BY <1>2
  <2> DEFINE last == Translation(s, w[k])
             v == [j \in 0 .. k + 1 |-> IF j <= k THEN w[j] ELSE last]
  <2>2. /\ \A j \in 0 .. k : j \in 0 .. k + 1 /\ j <= k
        /\ k + 1 \in 0 .. k + 1 /\ ~ (k + 1 <= k) /\ 0 \in 0 .. k
        /\ k + 1 \in Nat
    OBVIOUS
  <2> HIDE DEF last
  <2>3. (\A j \in 0 .. k : v[j] = w[j]) /\ v[k + 1] = last
    BY <2>2
  <2>4. v = [j \in 0 .. k + 1 |-> v[j]]
    OBVIOUS
  <2> HIDE DEF v
  <2>5. v[0] = Start
    BY <2>1, <2>2, <2>3 DEF Loops
  <2>6. ASSUME NEW j \in 1 .. k + 1 PROVE v[j] = Translation(s, v[j - 1])
    <3>1. j - 1 \in 0 .. k
      OBVIOUS
    <3>2. v[j - 1] = w[j - 1]
      BY <2>3, <3>1
    <3>3. CASE j <= k
      <4>1. j \in 1 .. k /\ j \in 0 .. k
        BY <3>3
      <4>2. w[j] = Translation(s, w[j - 1])
        BY <2>1, <4>1 DEF Loops
      <4>3. QED
        BY <2>3, <3>2, <4>1, <4>2
    <3>4. CASE ~ (j <= k)
      <4>1. j = k + 1 /\ j - 1 = k
        BY <3>4
      <4>2. QED
        BY <2>3, <3>2, <4>1 DEF last
    <3>5. QED
      BY <3>3, <3>4
  <2>7. Loops(v, s, k + 1)
    BY <2>4, <2>5, <2>6 DEF Loops
  <2>8. QED
    BY <2>2, <2>7
<1> HIDE DEF T
<1>3. \A k \in 0 .. n : k \in T
  BY <1>1, <1>2, BoundedInduction
<1>4. n \in T
  BY <1>3
<1>5. QED
  BY <1>4 DEF T

LEMMA TranslationsLoop ==
  ASSUME NEW s, Len(s) \in Nat
  PROVE  Loops(Translations(s), s, Len(s))
<1> DEFINE n == Len(s)
           Is(w) == w = [k \in 0 .. n |->
                          IF k = 0 THEN [at |-> 1, glyph |-> 0, table |-> <<>>]
                          ELSE Translation(s, w[k - 1])]
           t == CHOOSE w : Is(w)
<1>1. ASSUME NEW w PROVE Loops(w, s, n) <=> Is(w)
  <2>1. ASSUME Loops(w, s, n) PROVE Is(w)
    <3>1. w = [k \in 0 .. n |-> w[k]]
      BY <2>1 DEF Loops
    <3>2. \A k \in 0 .. n : w[k] = IF k = 0 THEN Start ELSE Translation(s, w[k - 1])
      <4>1. \A k \in 0 .. n : k # 0 => k \in 1 .. n
        OBVIOUS
      <4>2. QED
        BY <2>1, <4>1 DEF Loops
    <3>3. QED
      BY <3>1, <3>2 DEF Start
  <2>2. ASSUME Is(w) PROVE Loops(w, s, n)
    <3>1. /\ w = [k \in 0 .. n |-> w[k]]
          /\ \A k \in 0 .. n : w[k] = IF k = 0 THEN Start ELSE Translation(s, w[k - 1])
      BY <2>2 DEF Start
    <3>2. \A k \in 1 .. n : k \in 0 .. n /\ k # 0
      OBVIOUS
    <3>3. QED
      BY <3>1, <3>2 DEF Loops
  <2>3. QED
    BY <2>1, <2>2
<1>2. PICK g : Loops(g, s, n)
  BY LoopsExist
<1>3. Is(g)
  BY <1>1, <1>2
<1>4. Is(t)
  BY <1>3
<1> HIDE DEF t, Is
<1>5. Loops(t, s, n)
  BY <1>1, <1>4
<1>6. Translations(s) = t
  BY DEF Translations, t, Is
<1>7. QED
  BY <1>5, <1>6

-----------------------------------------------------------------------------
(***************************************************************************)
(* Each round of the loop finds the next character, or the end of its list.*)
(***************************************************************************)
FontText(lists) == TableText(lists)[Len(lists)]
\* Where the text of a list has the character k + 1, or its end.
Place(lists, g, k) == Len(TableText(lists)[g - 1]) + Len(ListText(lists[g])[k]) + 1

LEMMA HoldsPart ==
  ASSUME NEW s, NEW i \in Int, NEW p \in Seq(Nat), NEW q \in Seq(Nat), Holds(s, i, p \o q)
  PROVE  Holds(s, i, p) /\ Holds(s, i + Len(p), q)
<1>1. /\ Len(p \o q) = Len(p) + Len(q) /\ Len(p) \in Nat /\ Len(q) \in Nat
      /\ \A k \in 1 .. Len(p) : (p \o q)[k] = p[k]
      /\ \A k \in 1 .. Len(q) : (p \o q)[Len(p) + k] = q[k]
  BY ConcatText
<1>2. ASSUME NEW k \in 1 .. Len(p) PROVE s[i + k - 1] = p[k]
  <2>1. k \in 1 .. Len(p \o q)
    BY <1>1
  <2>2. s[i + k - 1] = (p \o q)[k]
    BY <2>1 DEF Holds
  <2>3. QED
    BY <1>1, <2>2
<1>3. ASSUME NEW k \in 1 .. Len(q) PROVE s[i + Len(p) + k - 1] = q[k]
  <2>1. Len(p) + k \in 1 .. Len(p \o q) /\ i + (Len(p) + k) - 1 = i + Len(p) + k - 1
    BY <1>1
  <2>2. s[i + (Len(p) + k) - 1] = (p \o q)[Len(p) + k]
    BY <2>1 DEF Holds
  <2>3. QED
    BY <1>1, <2>1, <2>2
<1>4. QED
  BY <1>2, <1>3 DEF Holds

LEMMA HoldsStart ==
  ASSUME NEW s, NEW i, NEW t, NEW p, Holds(s, i, t), StartsWith(t, p)
  PROVE  Holds(s, i, p)
<1>1. Len(p) \in Nat /\ Len(t) \in Nat /\ Len(p) <= Len(t) /\ \A k \in 1 .. Len(p) : t[k] = p[k]
  BY DEF StartsWith
<1>2. ASSUME NEW k \in 1 .. Len(p) PROVE s[i + k - 1] = p[k]
  <2>1. k \in 1 .. Len(t)
    BY <1>1
  <2>2. QED
    BY <1>1, <2>1 DEF Holds
<1>3. QED
  BY <1>2 DEF Holds

\* In s, the text of a list is behind p, and next is what is read with it.
EntryIsAt(s, p, list, next) ==
  /\ s \in Seq(Nat) /\ p \in Seq(Nat) /\ list \in Seq(Nat)
  /\ Holds(s, Len(p) + 1, list)
  /\ s[Len(p) + Len(list) + 1] = 255
  /\ Len(next) = Len(p) + Len(list) + 1 /\ Len(next) <= Len(s)

\* A list's text is in the table's.
LEMMA EntryAt ==
  ASSUME NEW lists \in Lists, NEW g \in 1 .. Len(lists)
  PROVE  EntryIsAt(FontText(lists), TableText(lists)[g - 1], ListText(lists[g])[Len(lists[g])],
                   TableText(lists)[g])
<1> DEFINE n == Len(lists)
           s == FontText(lists)
           t == TableText(lists)
           u == Entries(lists)
           list == ListText(lists[g])[Len(lists[g])]
<1>1. n \in Nat /\ n \in 0 .. n /\ g \in 0 .. n /\ g - 1 \in 0 .. n
  BY DEF Lists
<1>2. lists[g] \in Seq(Character)
  BY DEF Lists
<1>3. u \in [1 .. n -> Seq(Nat)] /\ Joins(t, u, n)
  BY TableTextIs
<1>4. list \in Seq(Nat)
  <2>1. Len(lists[g]) \in Nat /\ Len(lists[g]) \in 0 .. Len(lists[g])
    BY <1>2
  <2>2. QED
    BY <1>2, <2>1, ListTextIs, JoinsType
<1>5. u[g] = list \o <<255>>
  BY DEF Entries, Entry
<1> HIDE DEF u, list, t, n
<1>6. \A k \in 0 .. n : t[k] \in Seq(Nat)
  BY <1>1, <1>3, JoinsType
<1>7. s = t[n] /\ StartsWith(t[n], t[g])
  <2>1. StartsWith(t[n], t[g])
    BY <1>1, <1>3, JoinsStart
  <2>2. QED
    BY <2>1 DEF FontText, t, n
<1> HIDE DEF s
<1>8. t[g] = t[g - 1] \o u[g]
  <2>1. Adds(t, u, g)
    BY <1>3, JoinsNext DEF n
  <2>2. QED
    BY <2>1 DEF Adds
<1>9. t[g] \in Seq(Nat) /\ t[g - 1] \in Seq(Nat) /\ s \in Seq(Nat)
  BY <1>1, <1>6, <1>7
<1>10. <<255>> \in Seq(Nat) /\ Len(<<255>>) = 1
  OBVIOUS
<1>11. u[g] \in Seq(Nat) /\ Len(u[g]) = Len(list) + 1 /\ Len(list) \in Nat
  <2>1. Len(list \o <<255>>) = Len(list) + 1 /\ list \o <<255>> \in Seq(Nat)
    BY <1>4, <1>10, ConcatText
  <2>2. QED
    BY <1>4, <1>5, <2>1
<1>12. Len(t[g]) = Len(t[g - 1]) + (Len(list) + 1) /\ Len(t[g - 1]) \in Nat
  <2>1. Len(t[g - 1] \o u[g]) = Len(t[g - 1]) + Len(u[g])
    BY <1>9, <1>11, ConcatText
  <2>2. QED
    BY <1>8, <1>9, <1>11, <2>1
<1>13. Holds(s, Len(t[g - 1]) + 1, u[g])
  BY <1>7, <1>8, <1>9, <1>11, StartsHolds
<1>14. Holds(s, Len(t[g - 1]) + 1, list) /\ Holds(s, Len(t[g - 1]) + 1 + Len(list), <<255>>)
  <2>1. Len(t[g - 1]) + 1 \in Int
    BY <1>12
  <2>2. Holds(s, Len(t[g - 1]) + 1, list \o <<255>>)
    BY <1>5, <1>13
  <2>3. QED
    BY SMTT(30), ZenonT(60), <1>4, <1>10, <2>1, <2>2, HoldsPart
<1>15. s[Len(t[g - 1]) + Len(list) + 1] = 255
  <2>1. s[Len(t[g - 1]) + 1 + Len(list) + 1 - 1] = <<255>>[1]
    <3>1. 1 \in 1 .. Len(<<255>>)
      OBVIOUS
    <3>2. QED
      BY <1>14, <3>1 DEF Holds
  <2>2. Len(t[g - 1]) + 1 + Len(list) + 1 - 1 = Len(t[g - 1]) + Len(list) + 1
    BY <1>11, <1>12
  <2>3. QED
    BY <2>1, <2>2
<1>16. Len(t[g]) <= Len(s)
  BY <1>7 DEF StartsWith
<1>17. Len(t[g]) = Len(t[g - 1]) + Len(list) + 1
  <2>1. ASSUME NEW a \in Nat, NEW b \in Nat PROVE a + (b + 1) = a + b + 1
    OBVIOUS
  <2>2. QED
    BY <1>11, <1>12, <2>1
<1>18. QED
  BY <1>4, <1>9, <1>14, <1>15, <1>16, <1>17 DEF t, s, list, EntryIsAt

\* So is each of its characters.
LEMMA CharacterAt ==
  ASSUME NEW lists \in Lists, NEW g \in 1 .. Len(lists), NEW k \in Nat,
         k + 1 \in 1 .. Len(lists[g])
  PROVE  LET s == FontText(lists)
             i == Place(lists, g, k)
             ch == lists[g][k + 1]
         IN  /\ i \in 1 .. Len(s)
             /\ SequenceLength(s[i]) = Len(Utf8(ch)) /\ Len(Utf8(ch)) \in 1 .. 4
             /\ Decoded(s, i) = uint16(ch) /\ s[i] # 255
             /\ Place(lists, g, k + 1) = i + Len(Utf8(ch))
<1> DEFINE m == Len(lists[g])
           ch == lists[g][k + 1]
           c == ListText(lists[g])
           u == Codes(lists[g])
           p == TableText(lists)[g - 1]
           s == FontText(lists)
<1>1. lists[g] \in Seq(Character)
  BY DEF Lists
<1>2. m \in Nat /\ k \in 0 .. m /\ k + 1 \in 1 .. m /\ k + 1 \in 0 .. m /\ m \in 0 .. m
  BY <1>1
<1>3. ch \in Character
  BY <1>1, <1>2
<1>4. Coded(ch) /\ Utf8(ch) \in Seq(Nat) /\ Len(Utf8(ch)) \in 1 .. 4
  BY <1>3, CharacterCoded, Utf8Type
<1>5. u \in [1 .. m -> Seq(Nat)] /\ Joins(c, u, m)
  BY <1>1, ListTextIs
<1>6. u[k + 1] = Utf8(ch)
  BY <1>2 DEF Codes
<1>7. /\ s \in Seq(Nat) /\ p \in Seq(Nat) /\ Holds(s, Len(p) + 1, c[m])
      /\ Len(p) + Len(c[m]) + 1 <= Len(s)
  <2>1. EntryIsAt(s, p, c[m], TableText(lists)[g])
    BY EntryAt
  <2>2. QED
    BY <2>1 DEF EntryIsAt
<1> HIDE DEF m, c, u, p, s, ch
<1>8. c[k + 1] = c[k] \o Utf8(ch)
  <2>1. Adds(c, u, k + 1)
    BY <1>2, <1>5, JoinsNext
  <2>2. (k + 1) - 1 = k
    OBVIOUS
  <2>3. QED
    BY <1>6, <2>1, <2>2 DEF Adds
<1>9. c[k] \in Seq(Nat) /\ c[k + 1] \in Seq(Nat) /\ c[m] \in Seq(Nat)
  BY <1>2, <1>5, JoinsType
<1>10. Len(c[k + 1]) = Len(c[k]) + Len(Utf8(ch))
  BY <1>4, <1>8, <1>9, ConcatText
<1>11. StartsWith(c[m], c[k + 1])
  BY <1>2, <1>5, JoinsStart
<1>12. /\ Len(c[k]) \in Nat /\ Len(p) \in Nat /\ Len(s) \in Nat /\ Len(c[m]) \in Nat
       /\ Len(c[k + 1]) <= Len(c[m])
  <2>1. Len(c[k + 1]) <= Len(c[m])
    BY <1>11 DEF StartsWith
  <2>2. Len(c[k]) \in Nat /\ Len(c[m]) \in Nat
    BY <1>9
  <2>3. Len(p) \in Nat /\ Len(s) \in Nat
    BY <1>7
  <2>4. QED
    BY <2>1, <2>2, <2>3
<1>13. Holds(s, Len(p) + 1, c[k] \o Utf8(ch))
  BY <1>7, <1>8, <1>11, HoldsStart
<1> DEFINE i == Len(p) + Len(c[k]) + 1
<1>14. Len(p) + 1 \in Int /\ Len(p) + 1 + Len(c[k]) = i /\ i \in Nat
  <2>1. ASSUME NEW a \in Nat, NEW b \in Nat
        PROVE  a + 1 \in Int /\ a + 1 + b = a + b + 1 /\ a + b + 1 \in Nat
    OBVIOUS
  <2>2. QED
    BY <1>12, <2>1
<1>15. Holds(s, i, Utf8(ch))
  <2>1. Holds(s, Len(p) + 1 + Len(c[k]), Utf8(ch))
    BY <1>4, <1>9, <1>13, <1>14, HoldsPart
  <2>2. QED
    BY <1>14, <2>1
<1>16. i \in 1 .. Len(s) /\ Len(p) + Len(c[k + 1]) + 1 = i + Len(Utf8(ch))
  <2> DEFINE a == Len(p)  b == Len(c[k])  d == Len(Utf8(ch))  e == Len(c[k + 1])
             o == Len(c[m])  z == Len(s)
  <2>1. /\ a \in Nat /\ b \in Nat /\ d \in Nat /\ e \in Nat /\ o \in Nat /\ z \in Nat
        /\ e = b + d /\ e <= o /\ a + o + 1 <= z
    BY SMTT(30), ZenonT(60), <1>4, <1>7, <1>9, <1>10, <1>12
  <2> HIDE DEF a, b, d, e, o, z
  <2>2. a + b + 1 \in 1 .. z /\ a + e + 1 = a + b + 1 + d
    BY <2>1
  <2>3. QED
    BY <2>2 DEF a, b, d, e, z
<1>17. i = Place(lists, g, k) /\ Len(p) + Len(c[k + 1]) + 1 = Place(lists, g, k + 1)
  BY DEF Place, p, c
<1> HIDE DEF i
<1>18. SequenceLength(s[i]) = Len(Utf8(ch)) /\ Decoded(s, i) = uint16(ch) /\ s[i] # 255
  BY <1>4, <1>14, <1>15, Utf8Decodes
<1>19. QED
  BY <1>4, <1>16, <1>17, <1>18 DEF s, ch

\* After j rounds the loop is at character k + 1 of list g, with the table of what is before it.
At(w, lists, g, k, j) ==
  /\ j \in Nat /\ j < Place(lists, g, k)
  /\ w[j].at = Place(lists, g, k) /\ w[j].glyph = g - 1
  /\ IsTable(w[j].table, lists, g, k)
Reached(w, lists, g, k) == \E j : At(w, lists, g, k, j)
\* It has passed the first g lists.
Behind(w, lists, g, j) ==
  /\ j \in Nat /\ j <= Len(TableText(lists)[g])
  /\ w[j].at = Len(TableText(lists)[g]) + 1 /\ w[j].glyph = g
  /\ IsTable(w[j].table, lists, g + 1, 0)
Passed(w, lists, g) == \E j : Behind(w, lists, g, j)

LEMMA MaxIsNat == USHRT_MAX \in Nat
BY SMT DEF USHRT_MAX

LEMMA RoundFollows ==
  ASSUME NEW s, NEW n \in Nat, NEW w, Loops(w, s, n), NEW j \in Nat, j < n
  PROVE  w[j + 1] = Translation(s, w[j])
<1>1. j + 1 \in 1 .. n /\ (j + 1) - 1 = j
  OBVIOUS
<1>2. QED
  BY <1>1 DEF Loops

\* A round that reads a character
LEMMA CharacterRound ==
  ASSUME NEW lists \in Lists, NEW g \in 1 .. Len(lists), NEW k \in Nat,
         k + 1 \in 1 .. Len(lists[g]), NEW w, Loops(w, FontText(lists), Len(FontText(lists))),
         Reached(w, lists, g, k)
  PROVE  Reached(w, lists, g, k + 1)
<1> DEFINE s == FontText(lists)
           i == Place(lists, g, k)
           ch == lists[g][k + 1]
           l == Len(Utf8(ch))
           uc == uint16(ch)
<1>1. PICK j : At(w, lists, g, k, j)
  BY DEF Reached
<1>2. /\ j \in Nat /\ j < i /\ w[j].at = i /\ w[j].glyph = g - 1
      /\ IsTable(w[j].table, lists, g, k)
  BY <1>1 DEF At
<1>3. /\ i \in 1 .. Len(s) /\ SequenceLength(s[i]) = l /\ l \in 1 .. 4
      /\ Decoded(s, i) = uc /\ s[i] # 255 /\ Place(lists, g, k + 1) = i + l
  BY CharacterAt
<1>4. Len(s) \in Nat
  BY EntryAt DEF EntryIsAt
<1>5. IsTable(Saved(w[j].table, uc, g - 1), lists, g, k + 1)
  BY <1>2, ListedSaved
<1> HIDE DEF s, i, ch, l, uc
<1>6. w[j + 1] = Translation(s, w[j])
  <2>1. j < Len(s)
    BY <1>2, <1>3, <1>4
  <2>2. Loops(w, s, Len(s))
    BY DEF s
  <2>3. QED
    BY <1>2, <1>4, <2>1, <2>2, RoundFollows
<1>7. ~ (w[j].at > Len(s)) /\ s[w[j].at] # 255
  BY <1>2, <1>3, <1>4
<1>8. w[j + 1] = [at |-> w[j].at + SequenceLength(s[w[j].at]), glyph |-> w[j].glyph,
                  table |-> Saved(w[j].table, Decoded(s, w[j].at), w[j].glyph)]
  BY <1>6, <1>7 DEF Translation
<1>9. /\ w[j + 1].at = i + l /\ w[j + 1].glyph = g - 1
      /\ w[j + 1].table = Saved(w[j].table, uc, g - 1)
  BY <1>2, <1>3, <1>8
<1>10. j + 1 \in Nat /\ j + 1 < i + l
  BY SMTT(30), ZenonT(60), <1>2, <1>3, <1>4
<1>11. At(w, lists, g, k + 1, j + 1)
  BY <1>3, <1>5, <1>9, <1>10 DEF At
<1>12. QED
  BY <1>11 DEF Reached

\* One that reads the end of a list
LEMMA ListRound ==
  ASSUME NEW lists \in Lists, Len(lists) <= USHRT_MAX, NEW g \in 1 .. Len(lists),
         NEW w, Loops(w, FontText(lists), Len(FontText(lists))),
         Reached(w, lists, g, Len(lists[g]))
  PROVE  Passed(w, lists, g)
<1> DEFINE s == FontText(lists)
           i == Place(lists, g, Len(lists[g]))
           next == Len(TableText(lists)[g])
<1>1. PICK j : At(w, lists, g, Len(lists[g]), j)
  BY DEF Reached
<1>2. /\ j \in Nat /\ j < i /\ w[j].at = i /\ w[j].glyph = g - 1
      /\ IsTable(w[j].table, lists, g, Len(lists[g]))
  BY <1>1 DEF At
<1>3. IsTable(w[j].table, lists, g + 1, 0)
  BY <1>2, ListedFirst
<1>4. s[i] = 255 /\ i = next /\ next <= Len(s) /\ Len(s) \in Nat /\ i \in Nat
  <2> DEFINE p == TableText(lists)[g - 1]
             list == ListText(lists[g])[Len(lists[g])]
  <2>1. EntryIsAt(s, p, list, TableText(lists)[g])
    BY EntryAt
  <2>2. i = Len(p) + Len(list) + 1
    BY DEF Place
  <2> HIDE DEF p, list, i, s
  <2>3. Len(p) \in Nat /\ Len(list) \in Nat /\ Len(s) \in Nat
    BY <2>1 DEF EntryIsAt
  <2>4. s[i] = 255 /\ i = next /\ next <= Len(s)
    BY <2>1, <2>2 DEF EntryIsAt
  <2>5. QED
    BY <2>2, <2>3, <2>4
<1>5. uint16((g - 1) + 1) = g
  <2>1. g \in Nat /\ USHRT_MAX \in Nat /\ Len(lists) \in Nat
    BY MaxIsNat DEF Lists
  <2>2. g \in Nat /\ (g - 1) + 1 = g /\ g < USHRT_MAX + 1
    BY <2>1
  <2>3. g % (USHRT_MAX + 1) = g
    BY <2>1, <2>2
  <2>4. QED
    BY <2>2, <2>3 DEF uint16
<1> HIDE DEF s, i, next
<1>6. w[j + 1] = Translation(s, w[j])
  <2>1. j < Len(s)
    BY <1>2, <1>4
  <2>2. Loops(w, s, Len(s))
    BY DEF s
  <2>3. QED
    BY <1>2, <1>4, <2>1, <2>2, RoundFollows
<1>7. ~ (w[j].at > Len(s)) /\ s[w[j].at] = 255
  BY <1>2, <1>4
<1>8. w[j + 1] = [at |-> w[j].at + 1, glyph |-> uint16(w[j].glyph + 1), table |-> w[j].table]
  BY <1>6, <1>7 DEF Translation
<1>9. w[j + 1].at = next + 1 /\ w[j + 1].glyph = g /\ w[j + 1].table = w[j].table
  BY <1>2, <1>4, <1>5, <1>8
<1>10. j + 1 \in Nat /\ j + 1 <= next
  BY <1>2, <1>4
<1>11. Behind(w, lists, g, j + 1)
  BY <1>3, <1>9, <1>10 DEF Behind, next
<1>12. QED
  BY <1>11 DEF Passed

LEMMA ListPassed ==
  ASSUME NEW lists \in Lists, Len(lists) <= USHRT_MAX, NEW g \in 1 .. Len(lists),
         NEW w, Loops(w, FontText(lists), Len(FontText(lists))), Passed(w, lists, g - 1)
  PROVE  Passed(w, lists, g)
<1> DEFINE m == Len(lists[g])
           T == {k \in Nat : Reached(w, lists, g, k)}
<1>1. lists[g] \in Seq(Character) /\ m \in Nat
  BY DEF Lists
<1>2. 0 \in T
  <2>1. PICK j : Behind(w, lists, g - 1, j)
    BY DEF Passed
  <2>2. Place(lists, g, 0) = Len(TableText(lists)[g - 1]) + 1 /\ Len(TableText(lists)[g - 1]) \in Nat
    <3>1. Joins(ListText(lists[g]), Codes(lists[g]), m)
      BY <1>1, ListTextIs
    <3>2. ListText(lists[g])[0] = <<>>
      BY <3>1, JoinsFirst
    <3>3. TableText(lists)[g - 1] \in Seq(Nat)
      <4>1. EntryIsAt(FontText(lists), TableText(lists)[g - 1], ListText(lists[g])[Len(lists[g])],
                      TableText(lists)[g])
        BY EntryAt
      <4>2. QED
        BY <4>1 DEF EntryIsAt
    <3>4. Len(<<>>) = 0 /\ Len(TableText(lists)[g - 1]) \in Nat
      BY <3>3
    <3>5. Place(lists, g, 0) = Len(TableText(lists)[g - 1]) + 0 + 1
      BY <3>2, <3>4 DEF Place
    <3>6. QED
      BY <3>4, <3>5
  <2>3. IsTable(w[j].table, lists, g, 0)
    <3>1. IsTable(w[j].table, lists, (g - 1) + 1, 0)
      BY <2>1 DEF Behind
    <3>2. (g - 1) + 1 = g
      OBVIOUS
    <3>3. QED
      BY <3>1, <3>2
  <2>4. /\ j \in Nat /\ j <= Len(TableText(lists)[g - 1])
        /\ w[j].at = Len(TableText(lists)[g - 1]) + 1 /\ w[j].glyph = g - 1
    BY <2>1 DEF Behind
  <2>5. j < Place(lists, g, 0)
    BY <2>2, <2>4
  <2>6. At(w, lists, g, 0, j)
    BY <2>2, <2>3, <2>4, <2>5 DEF At
  <2>7. QED
    BY <2>6 DEF Reached
<1>3. ASSUME NEW k \in 0 .. m - 1, k \in T PROVE k + 1 \in T
  <2>1. k \in Nat /\ k + 1 \in 1 .. m /\ k + 1 \in Nat
    BY <1>1
  <2>2. Reached(w, lists, g, k)
    BY <1>3
  <2>3. Reached(w, lists, g, k + 1)
    BY <2>1, <2>2, CharacterRound
  <2>4. QED
    BY <2>1, <2>3
<1> HIDE DEF T
<1>4. \A k \in 0 .. m : k \in T
  BY <1>1, <1>2, <1>3, BoundedInduction
<1>5. m \in T
  BY <1>1, <1>4
<1>6. Reached(w, lists, g, m)
  BY <1>5 DEF T
<1>7. QED
  BY <1>6, ListRound

\* After all of them, the rounds that are left do nothing.
LEMMA TableIs ==
  ASSUME NEW lists \in Lists, Len(lists) \in 1 .. USHRT_MAX
  PROVE  IsTable(Translations(FontText(lists))[Len(FontText(lists))].table, lists, Len(lists) + 1, 0)
<1> DEFINE n == Len(lists)
           s == FontText(lists)
           w == Translations(s)
           T == {g \in Nat : Passed(w, lists, g)}
<1>0. n \in 1 .. USHRT_MAX
  OBVIOUS
<1>1. n \in Nat /\ 1 \in 1 .. n /\ n <= USHRT_MAX /\ n \in 0 .. n
  <2>1. n \in Nat /\ USHRT_MAX \in Nat
    <3>1. n \in Nat
      BY DEF Lists
    <3>2. USHRT_MAX \in Nat
      BY MaxIsNat
    <3>3. QED
      BY <3>1, <3>2
  <2> HIDE DEF n
  <2>2. QED
    BY <1>0, <2>1
<1>2. Joins(TableText(lists), Entries(lists), n)
  BY TableTextIs
<1>3. s \in Seq(Nat) /\ Len(s) \in Nat
  <2>1. EntryIsAt(s, TableText(lists)[1 - 1], ListText(lists[1])[Len(lists[1])], TableText(lists)[1])
    BY <1>1, EntryAt
  <2>2. s \in Seq(Nat)
    BY <2>1 DEF EntryIsAt
  <2> HIDE DEF s
  <2>3. QED
    BY <2>2
<1>4. Loops(w, s, Len(s))
  BY <1>3, TranslationsLoop
<1> HIDE DEF w
<1>5. 0 \in T
  <2>1. TableText(lists)[0] = <<>>
    BY <1>2, JoinsFirst
  <2>2. Len(TableText(lists)[0]) = 0
    BY <2>1
  <2>3. w[0].at = 1 /\ w[0].glyph = 0 /\ w[0].table = <<>>
    BY <1>4 DEF Loops, Start
  <2>4. IsTable(<<>>, lists, 1, 0)
    <3>1. DOMAIN <<>> = {}
      OBVIOUS
    <3>2. ASSUME NEW h, NEW c, Listed(lists, h, c, 1, 0) PROVE FALSE
      <4>1. PICK m \in 1 .. Len(lists[h]) : h < 1 \/ (h = 1 /\ m <= 0)
        BY <3>2 DEF Listed
      <4>2. h \in 1 .. Len(lists)
        BY <3>2 DEF Listed
      <4>3. m >= 1 /\ m \in Int /\ h >= 1 /\ h \in Int
        BY <4>1, <4>2
      <4>4. QED
        BY <4>1, <4>3
    <3>3. QED
      BY <3>1, <3>2 DEF IsTable
  <2>5. 0 + 1 = 1 /\ 0 <= 0 /\ 0 \in Nat
    OBVIOUS
  <2>6. Behind(w, lists, 0, 0)
    BY <2>2, <2>3, <2>4, <2>5 DEF Behind
  <2>7. QED
    BY <2>5, <2>6 DEF Passed
<1>6. ASSUME NEW g \in 0 .. n - 1, g \in T PROVE g + 1 \in T
  <2>1. g + 1 \in 1 .. Len(lists) /\ (g + 1) - 1 = g /\ g + 1 \in Nat
    BY <1>1
  <2>2. Passed(w, lists, (g + 1) - 1)
    BY <1>6, <2>1
  <2>3. Passed(w, lists, g + 1)
    BY <1>1, <1>4, <2>1, <2>2, ListPassed
  <2>4. QED
    BY <2>1, <2>3
<1> HIDE DEF T
<1>7. \A g \in 0 .. n : g \in T
  BY <1>1, <1>5, <1>6, BoundedInduction
<1>8. Passed(w, lists, n)
  BY <1>1, <1>7 DEF T
<1>9. PICK j : Behind(w, lists, n, j)
  BY <1>8 DEF Passed
<1>10. /\ j \in Nat /\ j <= Len(s) /\ w[j].at = Len(s) + 1
       /\ IsTable(w[j].table, lists, n + 1, 0)
  BY <1>9 DEF Behind, FontText
<1> DEFINE K == {k \in Nat : w[j + k] = w[j]}
<1> HIDE DEF n, s
<1>11. 0 \in K
  <2>1. j + 0 = j
    BY <1>10
  <2>2. QED
    BY <2>1
<1>12. ASSUME NEW k \in 0 .. (Len(s) - j) - 1, k \in K PROVE k + 1 \in K
  <2>1. /\ j + k \in Nat /\ j + k < Len(s) /\ (j + k) + 1 = j + (k + 1) /\ k + 1 \in Nat
        /\ Len(s) + 1 > Len(s)
    BY <1>3, <1>10
  <2>2. w[(j + k) + 1] = Translation(s, w[j + k])
    BY <1>3, <1>4, <2>1, RoundFollows
  <2>3. w[j + k] = w[j]
    BY <1>12
  <2>4. Translation(s, w[j]) = w[j]
    BY <1>10, <2>1 DEF Translation
  <2>5. QED
    BY <2>1, <2>2, <2>3, <2>4
<1>13. Len(s) - j \in Nat /\ j + (Len(s) - j) = Len(s)
  BY <1>3, <1>10
<1> HIDE DEF K
<1>14. \A k \in 0 .. Len(s) - j : k \in K
  BY <1>11, <1>12, <1>13, BoundedInduction
<1>15. Len(s) - j \in K
  BY <1>13, <1>14
<1>16. w[Len(s)] = w[j]
  BY <1>13, <1>15 DEF K
<1>17. QED
  BY <1>10, <1>16 DEF w, n, s

-----------------------------------------------------------------------------
(***************************************************************************)
(* The glyph of a character is the one whose list has it.                  *)
(***************************************************************************)
LEMMA Uint16Type ==
  ASSUME NEW n \in Int
  PROVE  uint16(n) \in 0 .. USHRT_MAX
<1> DEFINE m == USHRT_MAX
<1>1. m \in Nat
  BY MaxIsNat
<1> HIDE DEF m
<1>2. n % (m + 1) \in 0 .. m
  BY <1>1
<1>3. QED
  BY <1>2 DEF uint16, m

LEMMA FontIs ==
  ASSUME NEW f \in Fonts
  PROVE  /\ numglyph(f) \in 1 .. USHRT_MAX /\ numglyph(f) \in Nat /\ DOMAIN f.pictures = 0 .. numglyph(f) - 1
         /\ \/ f.lists = NoTable
            \/ /\ f.lists \in Lists /\ Len(f.lists) = numglyph(f)
               /\ \A g \in DOMAIN f.lists : \A k \in DOMAIN f.lists[g] :
                    uint16(f.lists[g][k]) # USHRT_MAX
<1>1. PICK n \in 1 .. USHRT_MAX : DOMAIN f.pictures = 0 .. n - 1
  BY FontAssumption
<1>2. n \in Nat /\ n >= 1
  BY <1>1
<1>3. IsFiniteSet(0 .. n - 1) /\ Cardinality(0 .. n - 1) = n
  <2>1. 0 \in Int /\ n - 1 \in Int /\ ~ (0 > n - 1) /\ (n - 1) - 0 + 1 = n
    BY <1>2
  <2>2. QED
    BY <2>1, FS_Interval
<1>4. numglyph(f) = n
  BY <1>1, <1>3 DEF numglyph
<1>5. QED
  BY <1>1, <1>2, <1>4, FontAssumption DEF Lists

\* What psf_init makes of a font's lists is what they say.
LEMMA TableOfFont ==
  ASSUME NEW f \in Fonts, f.lists # NoTable
  PROVE  IsTable(psf_init(f), f.lists, Len(f.lists) + 1, 0)
<1>1. f.lists \in Lists /\ Len(f.lists) \in 1 .. USHRT_MAX
  BY FontIs
<1>2. psf_init(f) = Translations(FontText(f.lists))[Len(FontText(f.lists))].table
  BY DEF psf_init, FontText
<1>3. QED
  BY <1>1, <1>2, TableIs

\* The lists that have the character, as numbers from 1 on
Listing(lists, ch) ==
  {g \in 1 .. Len(lists) : \E k \in DOMAIN lists[g] : uint16(lists[g][k]) = ch}

LEMMA ListingIs ==
  ASSUME NEW lists \in Lists, NEW ch, NEW h
  PROVE  Listed(lists, h, ch, Len(lists) + 1, 0) <=> h \in Listing(lists, ch)
<1>1. ASSUME h \in 1 .. Len(lists)
      PROVE  h < Len(lists) + 1 /\ DOMAIN lists[h] = 1 .. Len(lists[h])
  <2>1. Len(lists) \in Nat /\ lists[h] \in Seq(Character)
    BY <1>1 DEF Lists
  <2>2. QED
    BY <1>1, <2>1
<1>2. QED
  BY <1>1 DEF Listed, Listing

LEMMA GlyphsOfFont ==
  ASSUME font \in Fonts, unicode = psf_init(font)
  PROVE  /\ DOMAIN unicode \subseteq 0 .. USHRT_MAX - 1
         /\ \A ch : GlyphOf(ch) = Theirs(ch)
<1>1. CASE font.lists = NoTable
  <2>1. unicode = <<>>
    BY <1>1 DEF psf_init
  <2>2. DOMAIN unicode = {}
    BY <2>1
  <2>3. \A ch : GlyphOf(ch) = Theirs(ch)
    BY <1>1 DEF GlyphOf, Theirs
  <2>4. QED
    BY <2>2, <2>3
<1>2. CASE font.lists # NoTable
  <2> DEFINE lists == font.lists
             n == Len(lists)
  <2>1. lists \in Lists /\ n = numglyph(font) /\ n \in Nat /\ n >= 1
        /\ \A g \in DOMAIN lists : \A k \in DOMAIN lists[g] : uint16(lists[g][k]) # USHRT_MAX
    <3>1. numglyph(font) \in Nat /\ numglyph(font) >= 1
      <4> DEFINE m == numglyph(font)
      <4>1. m \in 1 .. USHRT_MAX
        BY FontIs
      <4> HIDE DEF m
      <4>2. m \in Nat /\ m >= 1
        BY <4>1
      <4>3. QED
        BY <4>2 DEF m
    <3>2. QED
      BY <1>2, <3>1, FontIs
  <2>2. IsTable(unicode, lists, n + 1, 0)
    BY <1>2, TableOfFont
  <2>3. \A c \in DOMAIN unicode : \E h \in Listing(lists, c) : unicode[c] = h - 1
    BY <2>1, <2>2, ListingIs DEF IsTable
  <2>4. \A c : \A h \in Listing(lists, c) : c \in DOMAIN unicode /\ h - 1 <= unicode[c]
    BY <2>1, <2>2, ListingIs DEF IsTable
  <2>5. ASSUME NEW c \in DOMAIN unicode PROVE c \in 0 .. USHRT_MAX - 1
    <3>1. PICK h \in Listing(lists, c) : unicode[c] = h - 1
      BY <2>3
    <3>2. PICK k \in DOMAIN lists[h] : uint16(lists[h][k]) = c
      BY <3>1 DEF Listing
    <3>3. h \in 1 .. n
      BY <3>1 DEF Listing
    <3>4. h \in DOMAIN lists /\ lists[h] \in Seq(Character)
      BY <2>1, <3>3 DEF Lists
    <3>5. lists[h][k] \in Int
      <4>1. lists[h][k] \in Character
        BY <3>2, <3>4
      <4>2. QED
        BY <4>1 DEF Character
    <3>6. c \in 0 .. USHRT_MAX
      BY <3>2, <3>5, Uint16Type
    <3>7. c # USHRT_MAX
      BY <2>1, <3>2, <3>4
    <3> DEFINE m == USHRT_MAX
    <3>8. m \in Nat /\ c \in 0 .. m /\ c # m
      BY <3>6, <3>7, MaxIsNat
    <3> HIDE DEF m
    <3>9. c \in 0 .. m - 1
      BY <3>8
    <3>10. QED
      BY <3>9 DEF m
  <2>6. ASSUME NEW ch PROVE GlyphOf(ch) = Theirs(ch)
    <3> DEFINE listing == Listing(lists, ch)
    <3>1. listing \subseteq 1 .. n
      BY DEF Listing
    <3>2. Theirs(ch) = IF listing = {} THEN 0
                       ELSE (CHOOSE g \in listing : \A h \in listing : h <= g) - 1
      BY <1>2 DEF Theirs, Listing
    <3>3. CASE ch \in DOMAIN unicode
      <4>1. PICK h \in listing : unicode[ch] = h - 1
        BY <2>3, <3>3
      <4>2. \A g \in listing : g - 1 <= unicode[ch]
        BY <2>4
      <4> HIDE DEF listing, n
      <4>3. h \in Int /\ 1 <= h /\ h <= n /\ \A g \in listing : g \in Int
        BY <2>1, <3>1, <4>1
      <4>4. \A g \in listing : g <= h
        BY <4>1, <4>2, <4>3
      <4>5. h = CHOOSE g \in listing : \A i \in listing : i <= g
        <5>1. ASSUME NEW g \in listing, \A i \in listing : i <= g PROVE g = h
          BY <4>1, <4>3, <4>4, <5>1
        <5>2. QED
          BY <4>1, <4>4, <5>1
      <4>6. Theirs(ch) = h - 1
        BY <3>2, <4>1, <4>5
      <4>7. GlyphOf(ch) = h - 1
        <5>1. h - 1 < numglyph(font)
          BY <2>1, <4>3 DEF n
        <5>2. QED
          BY <1>2, <3>3, <4>1, <5>1 DEF GlyphOf
      <4>8. QED
        BY <4>6, <4>7
    <3>4. CASE ch \notin DOMAIN unicode
      <4>1. listing = {}
        BY <2>4, <3>4
      <4>2. GlyphOf(ch) = 0
        BY <1>2, <3>4 DEF GlyphOf
      <4>3. QED
        BY <3>2, <4>1, <4>2
    <3>5. QED
      BY <3>3, <3>4
  <2>7. QED
    BY <2>5, <2>6
<1>3. QED
  BY <1>1, <1>2

-----------------------------------------------------------------------------
(***************************************************************************)
(* The pixels of a glyph: the byte and the mask putchar is at in a column, *)
(* the bits of a byte, and the place of a pixel in a picture's bytes.      *)
(***************************************************************************)
LEMMA PowerIs ==
  /\ \A n \in 0 .. ByteBits - 1 : Power[n] \in Nat \ {0}
  /\ Power[0] = 1
  /\ \A n \in 1 .. ByteBits - 1 : Power[n] = 2 * Power[n - 1]
<1> DEFINE m == ByteBits - 1
           Is(p) == p = [n \in 0 .. m |-> IF n = 0 THEN 1 ELSE 2 * p[n - 1]]
           F == [k \in Nat |-> [x \in Nat |-> 2 * x]]
           t == CHOOSE p : Is(p)
<1>1. m \in Nat /\ 0 \in 0 .. m
  BY FbAssumption
<1>2. Rounds(F, Nat)
  <2>1. \A x \in Nat : 2 * x \in Nat
    OBVIOUS
  <2>2. QED
    BY <2>1 DEF Rounds
<1>3. PICK g : Iterates(g, Nat, 1, F, m)
  <2> HIDE DEF F, m
  <2>1. QED
    BY <1>1, <1>2, Iteration
<1>4. g \in [0 .. m -> Nat] /\ g[0] = 1 /\ \A k \in 1 .. m : g[k] = F[k][g[k - 1]]
  BY <1>3 DEF Iterates
<1> HIDE DEF m
<1>5. Is(g)
  <2>1. ASSUME NEW n \in 0 .. m PROVE g[n] = IF n = 0 THEN 1 ELSE 2 * g[n - 1]
    <3>1. CASE n = 0
      BY <1>4, <3>1
    <3>2. CASE n # 0
      <4>1. n \in 1 .. m /\ n - 1 \in 0 .. m /\ n \in Nat
        BY <3>2, <1>1
      <4>2. g[n] = F[n][g[n - 1]] /\ g[n - 1] \in Nat
        BY <1>4, <4>1
      <4>3. QED
        BY <3>2, <4>1, <4>2
    <3>3. QED
      BY <3>1, <3>2
  <2>2. g = [n \in 0 .. m |-> g[n]]
    BY <1>4
  <2>3. QED
    BY <2>1, <2>2
<1>6. Is(t)
  BY <1>5
<1>7. Power = t
  BY DEF Power, m
<1> HIDE DEF t
<1>8. \A n \in 0 .. m : t[n] = IF n = 0 THEN 1 ELSE 2 * t[n - 1]
  BY <1>6
<1>9. \A n \in 1 .. m : n \in 0 .. m /\ n # 0
  OBVIOUS
<1>10. t[0] = 1 /\ \A n \in 1 .. m : t[n] = 2 * t[n - 1]
  BY <1>1, <1>8, <1>9
<1> DEFINE T == {n \in Nat : t[n] \in Nat \ {0}}
<1>11. 0 \in T
  BY <1>10
<1>12. ASSUME NEW n \in 0 .. m - 1, n \in T PROVE n + 1 \in T
  <2>1. n + 1 \in 1 .. m /\ (n + 1) - 1 = n /\ n + 1 \in Nat
    BY <1>1
  <2>2. t[n + 1] = 2 * t[n] /\ t[n] \in Nat \ {0}
    BY <1>10, <1>12, <2>1
  <2>3. QED
    BY <2>1, <2>2
<1> HIDE DEF T
<1>13. \A n \in 0 .. m : n \in T
  BY <1>1, <1>11, <1>12, BoundedInduction
<1>14. \A n \in 0 .. m : t[n] \in Nat \ {0}
  BY <1>13 DEF T
<1>15. QED
  BY <1>7, <1>10, <1>14 DEF m

\* The next column is in the same byte, or the first one of the next.
LEMMA NextColumn ==
  ASSUME NEW n \in Nat \ {0}, NEW c \in Nat
  PROVE  \/ /\ c % n = n - 1 /\ (c + 1) \div n = c \div n + 1 /\ (c + 1) % n = 0
         \/ /\ c % n < n - 1 /\ (c + 1) \div n = c \div n /\ (c + 1) % n = (c % n) + 1
<1> DEFINE q == c \div n
           r == c % n
<1>1. q \in Nat /\ r \in 0 .. n - 1 /\ c = q * n + r
  BY DivisionRange
<1> HIDE DEF q, r
<1>2. CASE r = n - 1
  <2>1. c + 1 = (q + 1) * n + 0 /\ q + 1 \in Nat /\ 0 \in 0 .. n - 1
    BY <1>1, <1>2
  <2>2. (c + 1) \div n = q + 1 /\ (c + 1) % n = 0
    <3>1. ((q + 1) * n + 0) \div n = q + 1 /\ ((q + 1) * n + 0) % n = 0
      BY <2>1, DivisionUnique
    <3>2. QED
      BY <2>1, <3>1
  <2>3. QED
    BY <1>2, <2>2 DEF q, r
<1>3. CASE r < n - 1
  <2>1. c + 1 = q * n + (r + 1) /\ r + 1 \in 0 .. n - 1
    BY <1>1, <1>3
  <2>2. (c + 1) \div n = q /\ (c + 1) % n = r + 1
    BY <1>1, <2>1, DivisionUnique
  <2>3. QED
    BY <1>3, <2>2 DEF q, r
<1>4. QED
  BY <1>1, <1>2, <1>3

\* Where putchar is at column c.
Column(c) == [byte |-> c \div ByteBits, mask |-> Power[ByteBits - 1 - (c % ByteBits)]]

\* What it does from one column to the next
After(previous) ==
  IF previous.mask \div 2 = 0 THEN [byte |-> previous.byte + 1, mask |-> Power[ByteBits - 1]]
  ELSE [byte |-> previous.byte, mask |-> previous.mask \div 2]

LEMMA ColumnAfter ==
  /\ Column(0) = [byte |-> 0, mask |-> Power[ByteBits - 1]]
  /\ \A c \in Nat : Column(c + 1) = After(Column(c))
<1> DEFINE n == ByteBits
<1>1. n \in Nat \ {0}
  BY FbAssumption
<1> HIDE DEF n
<1>2. /\ \A k \in 0 .. n - 1 : Power[k] \in Nat \ {0}
      /\ Power[0] = 1
      /\ \A k \in 1 .. n - 1 : Power[k] = 2 * Power[k - 1]
  BY PowerIs DEF n
<1>3. 0 \div n = 0 /\ 0 % n = 0 /\ n - 1 - 0 = n - 1
  <2>1. 0 = 0 * n + 0 /\ 0 \in 0 .. n - 1 /\ 0 \in Nat
    BY <1>1
  <2>2. (0 * n + 0) \div n = 0 /\ (0 * n + 0) % n = 0
    BY <1>1, <2>1, DivisionUnique
  <2>3. QED
    BY <1>1, <2>1, <2>2
<1>4. Column(0) = [byte |-> 0, mask |-> Power[n - 1]]
  BY <1>3 DEF Column, n
<1>5. ASSUME NEW c \in Nat PROVE Column(c + 1) = After(Column(c))
  <2> DEFINE r == c % n
             mask == Power[n - 1 - r]
  <2>1. Column(c) = [byte |-> c \div n, mask |-> mask]
    BY DEF Column, n
  <2>2. Column(c + 1) = [byte |-> (c + 1) \div n, mask |-> Power[n - 1 - ((c + 1) % n)]]
    BY DEF Column, n
  <2>3. r \in 0 .. n - 1
    BY <1>1, DivisionRange
  <2>4. CASE r = n - 1 /\ (c + 1) \div n = c \div n + 1 /\ (c + 1) % n = 0
    <3>1. n - 1 - r = 0 /\ n - 1 - ((c + 1) % n) = n - 1
      BY <1>1, <2>3, <2>4
    <3>2. mask \div 2 = 0
      BY <1>2, <3>1
    <3>3. After(Column(c)) = [byte |-> c \div n + 1, mask |-> Power[n - 1]]
      BY <2>1, <3>2 DEF After, n
    <3>4. QED
      BY <2>2, <2>4, <3>1, <3>3
  <2>5. CASE r < n - 1 /\ (c + 1) \div n = c \div n /\ (c + 1) % n = r + 1
    <3> DEFINE k == n - 1 - r
    <3>1. k \in 1 .. n - 1 /\ k - 1 \in 0 .. n - 1 /\ n - 1 - (r + 1) = k - 1
      BY <1>1, <2>3, <2>5
    <3> HIDE DEF k
    <3>2. Power[k] = 2 * Power[k - 1] /\ Power[k - 1] \in Nat \ {0}
      BY <1>2, <3>1
    <3>3. (2 * Power[k - 1]) \div 2 = Power[k - 1]
      BY <3>2
    <3>4. mask \div 2 = Power[k - 1] /\ ~ (mask \div 2 = 0)
      BY <3>2, <3>3 DEF k
    <3>5. After(Column(c)) = [byte |-> c \div n, mask |-> Power[k - 1]]
      BY <2>1, <3>4 DEF After
    <3>6. Column(c + 1) = [byte |-> c \div n, mask |-> Power[k - 1]]
      BY <2>2, <2>5, <3>1
    <3>7. QED
      BY <3>5, <3>6
  <2>6. QED
    BY <1>1, <2>4, <2>5, NextColumn
<1>6. QED
  BY <1>4, <1>5 DEF n

LEMMA CurrentIs == \A c \in Nat : Current[c] = Column(c)
<1> DEFINE first(byte) == [byte |-> byte, mask |-> Power[ByteBits - 1]]
           Is(f) == f = [c \in Nat |->
                          LET previous == f[c - 1]
                              mask == previous.mask \div 2
                          IN  IF c = 0 THEN first(0)
                              ELSE IF mask = 0 THEN first(previous.byte + 1)
                              ELSE [byte |-> previous.byte, mask |-> mask]]
           g == [c \in Nat |-> Column(c)]
           t == CHOOSE f : Is(f)
<1>1. ASSUME NEW f PROVE Is(f) <=> f = [c \in Nat |-> IF c = 0 THEN first(0) ELSE After(f[c - 1])]
  BY DEF After
<1>2. ASSUME NEW c \in Nat PROVE g[c] = IF c = 0 THEN first(0) ELSE After(g[c - 1])
  <2>1. CASE c = 0
    BY <2>1, ColumnAfter
  <2>2. CASE c # 0
    <3>1. c - 1 \in Nat /\ (c - 1) + 1 = c
      BY <2>2
    <3>2. Column((c - 1) + 1) = After(Column(c - 1))
      BY <3>1, ColumnAfter
    <3>3. QED
      BY <2>2, <3>1, <3>2
  <2>3. QED
    BY <2>1, <2>2
<1>3. g = [c \in Nat |-> g[c]]
  OBVIOUS
<1> HIDE DEF g, Is
<1>4. Is(g)
  BY <1>1, <1>2, <1>3
<1>5. Is(t)
  BY <1>4
<1>6. Current = t
  BY DEF Current, t, Is
<1> HIDE DEF t
<1>7. \A c \in Nat : t[c] = IF c = 0 THEN first(0) ELSE After(t[c - 1])
  BY <1>1, <1>5
<1> DEFINE T == {c \in Nat : t[c] = Column(c)}
<1>8. 0 \in T
  BY <1>7, ColumnAfter
<1>9. ASSUME NEW c \in Nat, c \in T PROVE c + 1 \in T
  <2>1. c + 1 \in Nat /\ c + 1 # 0 /\ (c + 1) - 1 = c
    OBVIOUS
  <2>2. t[c + 1] = After(t[c])
    BY <1>7, <2>1
  <2>3. t[c + 1] = Column(c + 1)
    BY <1>9, <2>2, ColumnAfter
  <2>4. QED
    BY <2>1, <2>3
<1> HIDE DEF T
<1>10. Nat \subseteq T
  BY <1>8, <1>9, SetInduction
<1>11. QED
  BY <1>6, <1>10 DEF T

\* A byte made of the bits b[0], b[1] ...
ByteOf(v, b, n) ==
  /\ v \in [0 .. n -> Nat] /\ v[0] = 0
  /\ \A k \in 1 .. n : v[k] = 2 * v[k - 1] + b[k - 1]

LEMMA ByteExists ==
  ASSUME NEW n \in Nat, NEW b \in [0 .. n - 1 -> {0, 1}]
  PROVE  \E v : ByteOf(v, b, n)
<1> DEFINE B(k) == IF k \in 1 .. n THEN b[k - 1] ELSE 0
           F == [k \in Nat |-> [x \in Nat |-> 2 * x + B(k)]]
<1>1. \A k \in Nat : B(k) \in Nat
  <2> SUFFICES ASSUME NEW k \in Nat PROVE B(k) \in Nat
    OBVIOUS
  <2>1. CASE k \in 1 .. n
    <3>1. k - 1 \in 0 .. n - 1
      BY <2>1
    <3>2. b[k - 1] \in {0, 1}
      BY <3>1
    <3>3. QED
      BY <2>1, <3>2
  <2>2. CASE k \notin 1 .. n
    BY <2>2
  <2>3. QED
    BY <2>1, <2>2
<1>2. \A k \in 1 .. n : B(k) = b[k - 1]
  OBVIOUS
<1> HIDE DEF B
<1>3. Rounds(F, Nat)
  <2>1. \A k \in Nat : \A x \in Nat : 2 * x + B(k) \in Nat
    BY <1>1
  <2>2. QED
    BY <2>1 DEF Rounds
<1>4. PICK v : Iterates(v, Nat, 0, F, n)
  <2> HIDE DEF F
  <2>1. QED
    BY <1>3, Iteration
<1>5. v \in [0 .. n -> Nat] /\ v[0] = 0 /\ \A k \in 1 .. n : v[k] = F[k][v[k - 1]]
  BY <1>4 DEF Iterates
<1>6. ASSUME NEW k \in 1 .. n PROVE v[k] = 2 * v[k - 1] + b[k - 1]
  <2>1. k \in Nat /\ k - 1 \in 0 .. n
    OBVIOUS
  <2>2. v[k - 1] \in Nat
    BY <1>5, <2>1
  <2>3. F[k][v[k - 1]] = 2 * v[k - 1] + B(k)
    BY <2>1, <2>2
  <2>4. QED
    BY <1>2, <1>5, <2>3
<1>7. QED
  BY <1>5, <1>6 DEF ByteOf

\* With p = 1 << n, the bit of p in v is b.
HasBit(v, p, b) == \E q \in Nat, r \in 0 .. p - 1 : v = (2 * q + b) * p + r

LEMMA HasBitShifts ==
  ASSUME NEW v \in Nat, NEW p \in Nat \ {0}, NEW b \in {0, 1}, NEW c \in {0, 1}, HasBit(v, p, b)
  PROVE  HasBit(2 * v + c, 2 * p, b)
<1>1. PICK q \in Nat, r \in 0 .. p - 1 : v = (2 * q + b) * p + r
  BY DEF HasBit
<1>2. 2 * v + c = (2 * q + b) * (2 * p) + (2 * r + c)
  <2> DEFINE m == 2 * q + b
  <2>1. m \in Nat /\ v = m * p + r
    BY <1>1
  <2> HIDE DEF m
  <2>2. m * (2 * p) = 2 * (m * p) /\ m * p \in Int
    BY <2>1
  <2>3. 2 * v + c = m * (2 * p) + (2 * r + c)
    BY <2>1, <2>2
  <2>4. QED
    BY <2>3 DEF m
<1>3. 2 * r + c \in 0 .. (2 * p) - 1
  BY <1>1
<1>4. QED
  BY <1>2, <1>3 DEF HasBit

LEMMA HasBitIs ==
  ASSUME NEW v \in Nat, NEW p \in Nat \ {0}, NEW b \in {0, 1}, HasBit(v, p, b)
  PROVE  Bit(v, p) = b
<1>1. PICK q \in Nat, r \in 0 .. p - 1 : v = (2 * q + b) * p + r
  BY DEF HasBit
<1>2. 2 * q + b \in Nat /\ (2 * q + b) % 2 = b
  BY <1>1
<1> DEFINE m == 2 * q + b
<1>3. (m * p + r) \div p = m
  <2>1. m \in Nat
    BY <1>2
  <2> HIDE DEF m
  <2>2. QED
    BY <1>1, <2>1, DivisionUnique
<1>4. v \div p = 2 * q + b
  BY <1>1, <1>3
<1>5. QED
  BY <1>2, <1>4 DEF Bit

LEMMA BitOfByte ==
  ASSUME NEW b \in [0 .. ByteBits - 1 -> {0, 1}], NEW v, ByteOf(v, b, ByteBits),
         NEW k \in 0 .. ByteBits - 1
  PROVE  Bit(v[ByteBits], Power[ByteBits - 1 - k]) = b[k]
<1> DEFINE n == ByteBits
           T == {j \in Nat : HasBit(v[k + 1 + j], Power[j], b[k])}
           m == n - 1 - k
<1>1. n \in Nat \ {0}
  BY FbAssumption
<1>2. /\ \A i \in 0 .. n - 1 : Power[i] \in Nat \ {0}
      /\ Power[0] = 1
      /\ \A i \in 1 .. n - 1 : Power[i] = 2 * Power[i - 1]
  BY PowerIs
<1>3. /\ v \in [0 .. n -> Nat] /\ v[0] = 0
      /\ \A i \in 1 .. n : v[i] = 2 * v[i - 1] + b[i - 1]
  BY DEF ByteOf
<1>4. b \in [0 .. n - 1 -> {0, 1}] /\ k \in 0 .. n - 1
  OBVIOUS
<1> HIDE DEF n
<1>5. m \in Nat /\ k + 1 + m = n /\ m \in 0 .. m
  BY <1>1, <1>4
<1>6. 0 \in T
  <2>1. k + 1 \in 1 .. n /\ (k + 1) - 1 = k /\ k + 1 + 0 = k + 1 /\ k \in 0 .. n
    BY <1>1, <1>4
  <2>2. v[k + 1] = 2 * v[k] + b[k] /\ v[k] \in Nat /\ b[k] \in {0, 1}
    BY <1>3, <1>4, <2>1
  <2>3. v[k + 1] = (2 * v[k] + b[k]) * 1 + 0 /\ 0 \in 0 .. 1 - 1
    BY <2>2
  <2>4. HasBit(v[k + 1], 1, b[k])
    BY <2>2, <2>3 DEF HasBit
  <2>5. QED
    BY <1>2, <2>1, <2>4
<1>7. ASSUME NEW j \in 0 .. m - 1, j \in T PROVE j + 1 \in T
  <2>1. /\ k + 1 + (j + 1) \in 1 .. n /\ (k + 1 + (j + 1)) - 1 = k + 1 + j
        /\ k + 1 + j \in 0 .. n - 1 /\ k + 1 + j \in 0 .. n
        /\ j \in 0 .. n - 1 /\ j + 1 \in 1 .. n - 1 /\ (j + 1) - 1 = j /\ j + 1 \in Nat
    BY <1>1, <1>4, <1>5
  <2>2. v[k + 1 + (j + 1)] = 2 * v[k + 1 + j] + b[k + 1 + j]
    BY <1>3, <2>1
  <2>3. v[k + 1 + j] \in Nat /\ b[k + 1 + j] \in {0, 1} /\ b[k] \in {0, 1}
    BY <1>3, <1>4, <2>1
  <2>4. Power[j + 1] = 2 * Power[j] /\ Power[j] \in Nat \ {0}
    BY <1>2, <2>1
  <2>5. HasBit(v[k + 1 + j], Power[j], b[k])
    BY <1>7
  <2>6. HasBit(2 * v[k + 1 + j] + b[k + 1 + j], 2 * Power[j], b[k])
    BY <2>3, <2>4, <2>5, HasBitShifts
  <2>7. QED
    BY <2>1, <2>2, <2>4, <2>6
<1> HIDE DEF T
<1>8. \A j \in 0 .. m : j \in T
  <2> HIDE DEF m
  <2>1. QED
    BY <1>5, <1>6, <1>7, BoundedInduction
<1>9. HasBit(v[k + 1 + m], Power[m], b[k])
  BY <1>5, <1>8 DEF T
<1>10. m \in 0 .. n - 1 /\ n \in 0 .. n
  BY <1>1, <1>4
<1>11. v[n] \in Nat /\ Power[m] \in Nat \ {0} /\ b[k] \in {0, 1}
  BY <1>2, <1>3, <1>4, <1>10
<1>12. HasBit(v[n], Power[m], b[k])
  BY <1>5, <1>9
<1>13. Bit(v[n], Power[m]) = b[k]
  BY <1>11, <1>12, HasBitIs
<1>14. QED
  BY <1>13 DEF m, n

\* The bytes of a line, rounded up in two ways
LEMMA LineBytesIs ==
  ASSUME font \in Fonts
  PROVE  LineBytes = bytesPerGlyphLine
<1> DEFINE n == ByteBits
           w == font.width
           q == w \div n
           r == w % n
<1>1. n \in Nat \ {0} /\ w \in Nat \ {0}
  BY FbAssumption, FontAssumption
<1> HIDE DEF n, w
<1>2. q \in Nat /\ r \in 0 .. n - 1 /\ w = q * n + r
  BY <1>1, DivisionRange
<1> HIDE DEF q, r
<1>3. CASE r = 0
  <2>1. w + n - 1 = q * n + (n - 1) /\ n - 1 \in 0 .. n - 1
    BY <1>1, <1>2, <1>3
  <2>2. (w + n - 1) \div n = q
    BY <1>1, <1>2, <2>1, DivisionUnique
  <2>3. w \div n + (IF w % n = 0 THEN 0 ELSE 1) = q
    BY <1>2, <1>3 DEF q, r
  <2>4. QED
    BY <2>2, <2>3 DEF LineBytes, bytesPerGlyphLine, n, w
<1>4. CASE r # 0
  <2> DEFINE p == q + 1
  <2>1. w + n - 1 = p * n + (r - 1) /\ r - 1 \in 0 .. n - 1 /\ p \in Nat
    BY <1>1, <1>2, <1>4
  <2>2. (w + n - 1) \div n = p
    <3> HIDE DEF p
    <3>1. QED
      BY <1>1, <2>1, DivisionUnique
  <2>3. w \div n + (IF w % n = 0 THEN 0 ELSE 1) = p
    BY <1>2, <1>4 DEF q, r
  <2>4. QED
    BY <2>2, <2>3 DEF LineBytes, bytesPerGlyphLine, n, w
<1>5. QED
  BY <1>3, <1>4

\* A column of a line is in one of its bytes.
LEMMA ColumnInLine ==
  ASSUME font \in Fonts, NEW c \in 0 .. font.width - 1
  PROVE  c \div ByteBits \in 0 .. LineBytes - 1 /\ LineBytes \in Nat \ {0}
<1> DEFINE n == ByteBits
           w == font.width
           q == w \div n
           r == w % n
           l == q + (IF r = 0 THEN 0 ELSE 1)
<1>1. n \in Nat \ {0} /\ w \in Nat \ {0} /\ c \in Nat /\ c < w
  BY FbAssumption, FontAssumption
<1> HIDE DEF n, w
<1>2. q \in Nat /\ r \in 0 .. n - 1 /\ w = q * n + r
  BY <1>1, DivisionRange
<1>3. LineBytes = l
  BY DEF LineBytes, n, w
<1> HIDE DEF q, r
<1>4. l \in Nat /\ c < l * n
  <2>1. CASE r = 0
    BY <1>1, <1>2, <2>1
  <2>2. CASE r # 0
    <3>1. l = q + 1 /\ (q + 1) * n = q * n + n
      BY <1>1, <1>2, <2>2
    <3>2. c < (q + 1) * n
      BY <1>1, <1>2, <3>1
    <3>3. QED
      BY <1>2, <3>1, <3>2
  <2>3. QED
    BY <2>1, <2>2
<1> HIDE DEF l
<1>5. c \div n < l /\ c \div n \in Nat
  <2> DEFINE d == c \div n
             e == c % n
  <2>1. d \in Nat /\ e \in 0 .. n - 1 /\ c = d * n + e
    BY <1>1, DivisionRange
  <2> HIDE DEF d, e
  <2>2. ~ (l <= d)
    <3> SUFFICES ASSUME l <= d PROVE FALSE
      OBVIOUS
    <3>1. l * n <= d * n /\ l * n \in Int /\ d * n \in Int
      BY <1>1, <1>4, <2>1, Products
    <3>2. QED
      BY <1>4, <2>1, <3>1
  <2>3. QED
    BY <1>4, <2>1, <2>2 DEF d
<1>6. QED
  BY <1>3, <1>4, <1>5 DEF n

\* The bits of the byte b of a picture
Bits(g, b) ==
  [k \in 0 .. ByteBits - 1 |->
     IF <<b \div LineBytes, ((b % LineBytes) * ByteBits) + k>> \in font.pictures[g] THEN 1 ELSE 0]

LEMMA BytesAre ==
  ASSUME NEW g, NEW b \in 0 .. font.height * LineBytes - 1
  PROVE  \E v : ByteOf(v, Bits(g, b), ByteBits) /\ Bytes(g)[b] = v[ByteBits]
<1> DEFINE n == ByteBits
           pixel(k) == <<b \div LineBytes, ((b % LineBytes) * ByteBits) + k>>
           bits == Bits(g, b)
           Is(v) == v = [k \in 0 .. ByteBits |->
                          IF k = 0 THEN 0
                          ELSE 2 * v[k - 1]
                                 + (IF pixel(k - 1) \in font.pictures[g] THEN 1 ELSE 0)]
           t == CHOOSE v : Is(v)
<1>1. n \in Nat \ {0}
  BY FbAssumption
<1>2. bits \in [0 .. n - 1 -> {0, 1}]
  BY DEF Bits
<1>3. \A k \in 0 .. n - 1 : bits[k] = IF pixel(k) \in font.pictures[g] THEN 1 ELSE 0
  BY DEF Bits
<1>4. \A k \in 1 .. n : k - 1 \in 0 .. n - 1 /\ k # 0 /\ k \in 0 .. n
  BY <1>1
<1>5. \A k \in 1 .. n : bits[k - 1] = IF pixel(k - 1) \in font.pictures[g] THEN 1 ELSE 0
  BY <1>3, <1>4
<1> HIDE DEF pixel, bits
<1>6. PICK w : ByteOf(w, bits, n)
  BY <1>1, <1>2, ByteExists
<1>7. Is(w)
  <2>1. w = [k \in 0 .. n |-> w[k]] /\ w[0] = 0 /\ 0 \in 0 .. n
    BY <1>1, <1>6 DEF ByteOf
  <2>2. ASSUME NEW k \in 0 .. n
        PROVE  w[k] = IF k = 0 THEN 0
                      ELSE 2 * w[k - 1] + (IF pixel(k - 1) \in font.pictures[g] THEN 1 ELSE 0)
    <3>1. CASE k = 0
      BY <2>1, <3>1
    <3>2. CASE k # 0
      <4>1. k \in 1 .. n
        BY <1>1, <3>2
      <4>2. w[k] = 2 * w[k - 1] + bits[k - 1]
        BY <1>6, <4>1 DEF ByteOf
      <4>3. QED
        BY <1>5, <3>2, <4>1, <4>2
    <3>3. QED
      BY <3>1, <3>2
  <2>3. QED
    BY <2>1, <2>2
<1>8. Is(t)
  BY <1>7
<1>9. Bytes(g)[b] = t[n]
  BY DEF Bytes, pixel
<1> HIDE DEF t, n
<1>10. /\ \A k \in 0 .. n : t[k] = IF k = 0 THEN 0
                     ELSE 2 * t[k - 1] + (IF pixel(k - 1) \in font.pictures[g] THEN 1 ELSE 0)
       /\ DOMAIN t = 0 .. n /\ t = [k \in 0 .. n |-> t[k]]
  BY <1>8 DEF n
<1>11. t[0] = 0 /\ \A k \in 1 .. n : t[k] = 2 * t[k - 1] + bits[k - 1]
  <2>1. 0 \in 0 .. n
    BY <1>1
  <2>2. QED
    BY <1>4, <1>5, <1>10, <2>1
<1>12. t \in [0 .. n -> Nat]
  <2> DEFINE T == {k \in Nat : t[k] \in Nat}
  <2>1. 0 \in T
    BY <1>11
  <2>2. ASSUME NEW k \in 0 .. n - 1, k \in T PROVE k + 1 \in T
    <3>1. k + 1 \in 1 .. n /\ (k + 1) - 1 = k /\ k + 1 \in Nat
      BY <1>1
    <3>2. t[k + 1] = 2 * t[k] + bits[k] /\ t[k] \in Nat /\ bits[k] \in {0, 1}
      BY <1>2, <1>11, <2>2, <3>1
    <3>3. QED
      BY <3>1, <3>2
  <2> HIDE DEF T
  <2>3. \A k \in 0 .. n : k \in T
    BY <1>1, <2>1, <2>2, BoundedInduction
  <2>4. \A k \in 0 .. n : t[k] \in Nat
    BY <2>3 DEF T
  <2>5. QED
    BY <1>10, <2>4
<1>13. ByteOf(t, bits, n)
  BY <1>11, <1>12 DEF ByteOf
<1>14. QED
  BY <1>9, <1>13 DEF n, bits

\* What putchar draws in the foreground is the picture.
LEMMA InkIs ==
  ASSUME font \in Fonts, NEW g, NEW r \in 0 .. font.height - 1, NEW c \in 0 .. font.width - 1
  PROVE  Ink(Bytes(g), r, c) <=> <<r, c>> \in font.pictures[g]
<1> DEFINE n == ByteBits
           l == LineBytes
           h == font.height
           i == c \div n
           k == c % n
           b == r * l + i
<1>1. n \in Nat \ {0} /\ h \in Nat \ {0} /\ c \in Nat /\ r \in Nat /\ r <= h - 1
  BY FbAssumption, FontAssumption
<1>2. l \in Nat \ {0} /\ i \in 0 .. l - 1
  BY ColumnInLine
<1>3. k \in 0 .. n - 1 /\ i \in Nat /\ c = i * n + k
  BY <1>1, DivisionRange
<1>4. Current[c] = [byte |-> i, mask |-> Power[n - 1 - k]]
  BY <1>1, CurrentIs DEF Column
<1> HIDE DEF n, h, l, i, k
<1>5. b \div l = r /\ b % l = i
  BY <1>1, <1>2, DivisionUnique
<1>6. b \in 0 .. h * l - 1
  <2>1. r * l <= (h - 1) * l /\ r * l \in Int /\ (h - 1) * l \in Int
    BY <1>1, <1>2, Products
  <2>2. (h - 1) * l = h * l - l /\ h * l \in Int /\ 0 <= r * l
    BY <1>1, <1>2
  <2>3. QED
    BY <1>2, <2>1, <2>2
<1> HIDE DEF b
<1>7. PICK v : ByteOf(v, Bits(g, b), n) /\ Bytes(g)[b] = v[n]
  BY <1>6, BytesAre DEF n, h, l
<1>8. Bits(g, b) \in [0 .. n - 1 -> {0, 1}]
  BY DEF Bits, n
<1>9. Bits(g, b)[k] = IF <<r, c>> \in font.pictures[g] THEN 1 ELSE 0
  BY <1>3, <1>5 DEF Bits, n, l
<1>10. Bit(v[n], Power[n - 1 - k]) = Bits(g, b)[k]
  BY <1>3, <1>7, <1>8, BitOfByte DEF n
<1>11. r * bytesPerGlyphLine + Current[c].byte = b /\ Current[c].mask = Power[n - 1 - k]
  BY <1>4, LineBytesIs DEF b, l
<1>12. Ink(Bytes(g), r, c) <=> Bit(v[n], Power[n - 1 - k]) = 1
  BY <1>7, <1>11 DEF Ink
<1>13. QED
  BY <1>9, <1>10, <1>12

-----------------------------------------------------------------------------
(***************************************************************************)
(* The framebuffer's two properties.                                       *)
(***************************************************************************)
\* Once it is on, the framebuffer has the table of its font.
FbInv ==
  \/ fb_phase = "off" /\ fb_x = 0 /\ fb_y = 0
  \/ font \in Fonts /\ unicode = psf_init(font) /\ fb_x \in Nat /\ fb_y \in Nat

LEMMA FbInvStep == FbInv /\ [ScreensNext]_<<vars, fbVars>> => FbInv'
<1> SUFFICES ASSUME FbInv, [ScreensNext]_<<vars, fbVars>> PROVE FbInv'
  OBVIOUS
<1>1. CASE UNCHANGED fbVars
  BY <1>1 DEF FbInv, fbVars
<1>2. ASSUME NEW f \in Fonts, setup_framebuffer(f) PROVE FbInv'
  <2>1. fb_x \in Nat /\ fb_y \in Nat
    BY DEF FbInv
  <2>2. QED
    BY <1>2, <2>1 DEF FbInv, setup_framebuffer, psf_init
<1>3. ASSUME fb_phase = "on", fb_x' = fb_x \/ fb_x' = 0 \/ fb_x' = fb_x + 1,
             fb_y' = fb_y \/ fb_y' = 0 \/ fb_y' = fb_y + 1, UNCHANGED <<font, unicode>>
      PROVE  FbInv'
  <2>1. font \in Fonts /\ unicode = psf_init(font) /\ fb_x \in Nat /\ fb_y \in Nat
    BY <1>3 DEF FbInv
  <2>2. fb_x' \in Nat /\ fb_y' \in Nat
    BY <1>3, <2>1
  <2>3. QED
    BY <1>3, <2>1, <2>2 DEF FbInv
<1>4. CASE FbNewLine
  <2>1. fb_x' = 0 /\ (fb_y' = 0 \/ fb_y' = fb_y + 1)
    BY <1>4 DEF FbNewLine, NextLine
  <2>2. QED
    BY <1>3, <1>4, <2>1 DEF FbNewLine
<1>5. ASSUME NEW ch \in OutChars, FbPrint(ch) PROVE FbInv'
  <2>1. (fb_x' = fb_x \/ fb_x' = 0 \/ fb_x' = fb_x + 1) /\ (fb_y' = fb_y \/ fb_y' = 0 \/ fb_y' = fb_y + 1)
    BY <1>5 DEF FbPrint, NextLine
  <2>2. QED
    BY <1>3, <1>5, <2>1 DEF FbPrint
<1>6. QED
  BY <1>1, <1>2, <1>4, <1>5 DEF ScreensNext, FbNext

LEMMA FbInvAlways == ScreensSpec => []FbInv
<1>1. ScreensInit => FbInv
  BY DEF ScreensInit, FbInit, FbInv
<1>2. QED
  BY <1>1, FbInvStep, PTL DEF ScreensSpec

LEMMA GlyphsOfInv == FbInv => GlyphsAreTheirs
BY GlyphsOfFont DEF FbInv, GlyphsAreTheirs

\* With every font of up to USHRT_MAX glyphs, psf_init finds each list of characters
\* where it is in the text, and each character is shown as the last glyph that lists it.
THEOREM GlyphsAreAlwaysTheirs == ScreensSpec => []GlyphsAreTheirs
BY FbInvAlways, GlyphsOfInv, PTL

\* The pixel p is the one in line r and column c of a character drawn from off on.
InCell(p, pitch, off, h, w, r, c) ==
  /\ r \in 0 .. h - 1 /\ c \in 0 .. w - 1
       => p = off + r * pitch + c /\ (p - off) \div pitch = r /\ (p - off) % pitch = c
  /\ \A i \in 0 .. h - 1, j \in 0 .. w - 1 : p = off + i * pitch + j => r = i /\ c = j

LEMMA PixelAt ==
  ASSUME NEW pitch \in Nat \ {0}, NEW x \in Nat, NEW y \in Nat, NEW h \in Nat \ {0},
         NEW w \in Nat \ {0}, x + w <= pitch, NEW p \in Nat
  PROVE  InCell(p, pitch, y * pitch + x, h, w, (p \div pitch) - y, (p % pitch) - x)
<1> DEFINE off == y * pitch + x
           q == p \div pitch
           m == p % pitch
           r == q - y
           c == m - x
<1>1. q \in Nat /\ m \in 0 .. pitch - 1 /\ p = q * pitch + m
  BY DivisionRange
<1> HIDE DEF q, m
<1>2. ASSUME r \in 0 .. h - 1, c \in 0 .. w - 1
      PROVE  p = off + r * pitch + c /\ (p - off) \div pitch = r /\ (p - off) % pitch = c
  <2>1. q = y + r /\ m = x + c /\ (y + r) * pitch = y * pitch + r * pitch
        /\ r \in Nat /\ c \in Nat /\ c \in 0 .. pitch - 1
        /\ y * pitch \in Int /\ r * pitch \in Int
    BY <1>1, <1>2
  <2>2. p = off + r * pitch + c
    BY <1>1, <2>1
  <2>3. p - off = r * pitch + c
    BY <2>1, <2>2
  <2>4. (r * pitch + c) \div pitch = r /\ (r * pitch + c) % pitch = c
    <3> HIDE DEF r, c
    <3>1. QED
      BY <2>1, DivisionUnique
  <2>5. QED
    BY <2>2, <2>3, <2>4
<1>3. ASSUME NEW i \in 0 .. h - 1, NEW j \in 0 .. w - 1, p = off + i * pitch + j
      PROVE  r = i /\ c = j
  <2> DEFINE z == y + i
             k == x + j
  <2>1. /\ (y + i) * pitch = y * pitch + i * pitch /\ y * pitch \in Int /\ i * pitch \in Int
        /\ z \in Nat /\ k \in 0 .. pitch - 1
    OBVIOUS
  <2>2. p = z * pitch + k
    BY <1>3, <2>1
  <2>3. q = z /\ m = k
    <3> HIDE DEF z, k
    <3>1. QED
      BY <2>1, <2>2, DivisionUnique DEF q, m
  <2>4. QED
    BY <1>1, <2>3
<1>4. QED
  BY <1>2, <1>3 DEF q, m, InCell

LEMMA CellShown ==
  ASSUME font \in Fonts, unicode = psf_init(font), fb_x \in Nat, fb_y \in Nat,
         NEW ch \in OutChars, FbPrint(ch),
         (fb_x + 1) * (font.width + 1) <= fb_info.width, NEW p \in Pixels
  PROVE  Pixel(fb', p) =
           IF \/ (p \div fb_info.pitch) - fb_y * font.height \notin 0 .. font.height - 1
              \/ (p % fb_info.pitch) - fb_x * (font.width + 1) \notin 0 .. font.width - 1
           THEN Pixel(fb, p)
           ELSE IF <<(p \div fb_info.pitch) - fb_y * font.height,
                     (p % fb_info.pitch) - fb_x * (font.width + 1)>> \in font.pictures[Theirs(ch)]
                THEN "fg" ELSE "bg"
<1> DEFINE pitch == fb_info.pitch
           h == font.height
           w == font.width
           y == fb_y * h
           x == fb_x * (w + 1)
           off == y * pitch + x
           r == (p \div pitch) - y
           c == (p % pitch) - x
           glyph == Theirs(ch)
           bytes == Bytes(glyph)
           Area == {off + i * pitch + j : i \in 0 .. h - 1, j \in 0 .. w - 1}
           drawn == [q \in Area |->
                       IF Ink(bytes, (q - off) \div pitch, (q - off) % pitch) THEN "fg" ELSE "bg"]
<1>1. pitch \in Nat \ {0} /\ h \in Nat \ {0} /\ w \in Nat \ {0} /\ fb_info.width \in Nat
      /\ fb_info.width <= pitch
  BY FbAssumption, FontAssumption
<1>2. p \in Nat
  BY FbAssumption DEF Pixels
<1>3. y \in Nat /\ x \in Nat /\ x + w <= pitch
  <2>1. y \in Nat /\ x \in Nat
    BY <1>1
  <2>2. (fb_x + 1) * (w + 1) = x + w + 1
    BY <1>1
  <2>3. (fb_x + 1) * (w + 1) <= fb_info.width
    OBVIOUS
  <2> HIDE DEF x, y, pitch, w
  <2>4. QED
    BY <1>1, <2>1, <2>2, <2>3
<1>4. GlyphOf(ch) = glyph
  BY GlyphsOfFont
<1>5. fb' = [q \in DOMAIN fb \cup (Area \cap Pixels) |-> IF q \in Area THEN drawn[q] ELSE fb[q]]
  <2>1. Offset(fb_x, fb_y) = off
    BY DEF Offset
  <2>2. putchar(ch, fb_x, fb_y)
    BY DEF FbPrint
  <2> HIDE DEF off, glyph, pitch, h, w
  <2>3. QED
    BY <1>4, <2>1, <2>2 DEF putchar, pitch, h, w
<1>6. InCell(p, pitch, off, h, w, r, c)
  <2> HIDE DEF x, y, pitch, h, w
  <2>1. QED
    BY <1>1, <1>2, <1>3, PixelAt
<1>7. CASE r \in 0 .. h - 1 /\ c \in 0 .. w - 1
  <2>1. p \in Area
    BY <1>6, <1>7 DEF InCell
  <2>2. Ink(bytes, r, c) <=> <<r, c>> \in font.pictures[glyph]
    <3> HIDE DEF r, c, glyph
    <3>1. QED
      BY <1>7, InkIs
  <2>3. drawn[p] = IF <<r, c>> \in font.pictures[glyph] THEN "fg" ELSE "bg"
    <3> HIDE DEF r, c, Area, off, bytes, glyph
    <3>1. QED
      BY <1>6, <1>7, <2>1, <2>2 DEF InCell
  <2> HIDE DEF drawn, Area
  <2>4. Pixel(fb', p) = drawn[p]
    BY <1>5, <2>1 DEF Pixel
  <2>5. QED
    BY <1>7, <2>3, <2>4
<1>8. CASE ~ (r \in 0 .. h - 1 /\ c \in 0 .. w - 1)
  <2>1. p \notin Area
    <3> SUFFICES ASSUME NEW i \in 0 .. h - 1, NEW j \in 0 .. w - 1, p = off + i * pitch + j
                 PROVE  FALSE
      OBVIOUS
    <3> HIDE DEF r, c, off, h, w, pitch
    <3>1. r = i /\ c = j
      BY <1>6 DEF InCell
    <3>2. QED
      BY <1>8, <3>1
  <2> HIDE DEF drawn, Area
  <2>2. Pixel(fb', p) = Pixel(fb, p)
    BY <1>5, <2>1 DEF Pixel
  <2>3. QED
    BY <1>8, <2>2
<1>9. QED
  BY <1>7, <1>8

LEMMA CellStep ==
  FbInv => [\A ch \in OutChars :
              /\ FbPrint(ch)
              /\ (fb_x + 1) * (font.width + 1) <= fb_info.width
              /\ (fb_y + 1) * font.height <= fb_info.height
              => ShowsGlyph(ch)]_fbVars
<1> SUFFICES ASSUME FbInv, NEW ch \in OutChars, FbPrint(ch),
                    (fb_x + 1) * (font.width + 1) <= fb_info.width
             PROVE  ShowsGlyph(ch)
  OBVIOUS
<1>1. font \in Fonts /\ unicode = psf_init(font) /\ fb_x \in Nat /\ fb_y \in Nat
  BY DEF FbInv, FbPrint
<1>2. QED
  BY <1>1, CellShown DEF ShowsGlyph

\* On a framebuffer of any size and with glyphs of any size, putchar draws the picture
\* of the character's glyph at the cursor and changes nothing else.
THEOREM CellAlwaysShowsGlyph == ScreensSpec => CellShowsGlyph
BY FbInvAlways, CellStep, PTL DEF CellShowsGlyph
=============================================================================
