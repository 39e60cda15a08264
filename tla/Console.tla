-------------------------------- MODULE Console --------------------------------
(***************************************************************************)
(* The two writers of the VGA text screen: the early console               *)
(* (early_init/console.cpp, early_init/vga.cpp) and the kernel's           *)
(* (kernel/console.cpp, kernel/vga_driver.cpp), each with a cursor of its  *)
(* own over one screen memory, and the exception handler, which interrupts *)
(* either in the middle of a character, prints on the early console and    *)
(* never returns.  A step prints a character.  The serial line and the     *)
(* position of the hardware cursor are left out.                           *)
(***************************************************************************)
EXTENDS Integers, Sequences

CONSTANTS
  width, height,  \* of the screen, 80 and 25 in the code
  Printable,      \* characters std::isprint accepts
  Colors,         \* foregrounds the kernel uses
  Message         \* what the exception handler prints

ASSUME SizeAssumption == width \in Nat \ {0, 1} /\ height \in Nat \ {0}
ASSUME TextAssumption == /\ " " \in Printable
                         /\ Printable \cap {"\n", "\r", "\t"} = {}
                         /\ Message \in Seq(Printable \cup {"\n"})

\* Where a character leaves a cursor that was at p.
Past(p, ch) ==
  CASE ch = "\n" -> [line |-> p.line + 1, col |-> 0]
    [] ch # "\n" /\ p.col + 1 = width -> [line |-> p.line + 1, col |-> 1]
    [] ch # "\n" /\ p.col + 1 # width -> [line |-> p.line, col |-> p.col + 1]

\* Where each character of the message leaves the cursor, from column x of line 0 on.
LaidOut(x) ==
  LET at[k \in 0 .. Len(Message)] ==
        IF k = 0 THEN [line |-> 0, col |-> x] ELSE Past(at[k - 1], Message[k])
  IN  at

\* The message, the handler's eight short lines and the two of its panic
\* (idt.cpp:140-148, panic.cpp:31-34), fits on the screen from any column on.
ASSUME MessageAssumption ==
  \A x \in 0 .. width - 1 : \A k \in 0 .. Len(Message) : LaidOut(x)[k].line < height

Text == Printable \cup {"\n", "\r", "\t"}
Foregrounds == Colors \cup {"bright_white", "black"}
Cells == 0 .. width * height - 1
Cell == (Printable \cup {"?"}) \X Foregrounds

VARIABLES
  buffer,              \* the screen memory at 0xB8000
  cursor_x, cursor_y,  \* of the early console
  x_cord, y_cord,      \* of the kernel's
  fg_color,            \* of the kernel's console
  tab,                 \* spaces write_char('\t') has still to write
  phase,               \* who prints: "boot" (nobody), "early", "kernel", "fault", "halt"
  said                 \* characters of Message printed

early == <<cursor_x, cursor_y>>
kernel == <<x_cord, y_cord, fg_color, tab>>
vars == <<buffer, cursor_x, cursor_y, x_cord, y_cord, fg_color, tab, phase, said>>

TypeOK ==
  /\ buffer \in [Cells -> Cell]
  /\ cursor_x \in 0 .. width - 1 /\ cursor_y \in 0 .. height - 1
  /\ x_cord \in 0 .. width - 1 /\ y_cord \in 0 .. height - 1
  /\ fg_color \in Foregrounds
  /\ tab \in 0 .. 4
  /\ phase \in {"boot", "early", "kernel", "fault", "halt"}
  /\ said \in 0 .. Len(Message)

Init ==
  /\ buffer = [k \in Cells |-> <<"?", "black">>]
  /\ cursor_x = 0 /\ cursor_y = 0
  /\ x_cord = 0 /\ y_cord = 0
  /\ fg_color = "bright_white"
  /\ tab = 0
  /\ phase = "boot"
  /\ said = 0

isprint(ch) == ch \in Printable

-----------------------------------------------------------------------------
(***************************************************************************)
(* Both writers, as functions of a screen s: its memory and a cursor.      *)
(***************************************************************************)
EarlyBlank == <<" ", "bright_white">>
KernelBlank == <<" ", "black">>

\* Planted fault: the last line is not cleared.
ScrollKeepsLast(b, blank) ==
  [k \in Cells |-> IF k < width * (height - 1) THEN b[k + width] ELSE b[k]]
scroll_line(b, blank) ==
  [k \in Cells |-> IF k < width * (height - 1) THEN b[k + width] ELSE blank]

\* The memory after the first n cells were moved or cleared.
PartlyScrolled(b, blank) ==
  {[k \in Cells |-> IF k < n THEN scroll_line(b, blank)[k] ELSE b[k]] : n \in 0 .. width * height}

\* Planted fault: no scrolling.
NewlineBeyond(s, blank) == [s EXCEPT !.x = 0, !.y = s.y + 1]
newline(s, blank) ==
  IF s.y + 1 = height
    THEN [s EXCEPT !.buf = scroll_line(s.buf, blank), !.x = 0]
    ELSE [s EXCEPT !.y = s.y + 1, !.x = 0]

\* The line feed before its last statement, cursor_x = 0.
AmidNewline(s, blank) ==
  IF s.y + 1 = height
    THEN {[s EXCEPT !.buf = b] : b \in PartlyScrolled(s.buf, blank)}
    ELSE {[s EXCEPT !.y = s.y + 1]}

\* Planted fault: the line ends one column later.
FullAtWidth(s) == s.x = width
LineFull(s) == s.x + 1 = width

Wrapped(s, blank) == IF LineFull(s) THEN newline(s, blank) ELSE s
Written(s, cell) == [s EXCEPT !.buf[s.y * width + s.x] = cell]
Advanced(s) == [s EXCEPT !.x = s.x + 1]

Printed(s, cell, blank) == Advanced(Written(Wrapped(s, blank), cell))
AmidPrinted(s, cell, blank) ==
  {s, Wrapped(s, blank), Written(Wrapped(s, blank), cell)}
    \cup (IF LineFull(s) THEN AmidNewline(s, blank) ELSE {})

OfEarly(ch) == <<ch, "bright_white">>

vga_out_char(s, ch) ==
  CASE ch = "\n" -> newline(s, EarlyBlank)
    [] ch = "\r" -> [s EXCEPT !.x = 0]
    [] isprint(ch) -> Printed(s, OfEarly(ch), EarlyBlank)
    [] OTHER -> s

\* The screens an exception can find in the middle of vga_out_char.
Amid_vga_out_char(s, ch) ==
  CASE ch = "\n" -> {s} \cup AmidNewline(s, EarlyBlank)
    [] isprint(ch) -> AmidPrinted(s, OfEarly(ch), EarlyBlank)
    [] OTHER -> {s}

\* Console::write_char, where '\t' is one call of write_string (see Tab).
write_char(s, ch) ==
  CASE isprint(ch) -> Printed(s, <<ch, fg_color>>, KernelBlank)
    [] ch = "\n" -> newline(s, KernelBlank)
    [] ch = "\r" -> [s EXCEPT !.x = 0]
    [] OTHER -> s

Amid_write_char(s, ch) ==
  CASE isprint(ch) -> AmidPrinted(s, <<ch, fg_color>>, KernelBlank)
    [] ch = "\n" -> {s} \cup AmidNewline(s, KernelBlank)
    [] OTHER -> {s}

EarlyScreen == [buf |-> buffer, x |-> cursor_x, y |-> cursor_y]
KernelScreen == [buf |-> buffer, x |-> x_cord, y |-> y_cord]

EarlyBecomes(s) == buffer' = s.buf /\ cursor_x' = s.x /\ cursor_y' = s.y
KernelBecomes(s) == buffer' = s.buf /\ x_cord' = s.x /\ y_cord' = s.y

-----------------------------------------------------------------------------
init_vga ==
  /\ phase = "boot"
  /\ buffer' = [k \in Cells |-> EarlyBlank]
  /\ phase' = "early"
  /\ UNCHANGED <<early, kernel, said>>

EarlyPrint(ch) ==
  /\ phase = "early"
  /\ EarlyBecomes(vga_out_char(EarlyScreen, ch))
  /\ UNCHANGED <<kernel, phase, said>>

\* From here on text comes from the kernel's console, which call_constructors made.
\* All that enter_kernel printed before ended in a line feed (enter_kernel.cpp:56-72).
KernelMain ==
  /\ phase = "early" /\ cursor_x = 0
  /\ phase' = "kernel"
  /\ UNCHANGED <<buffer, early, kernel, said>>

KernelPrint(ch) ==
  /\ phase = "kernel" /\ tab = 0
  /\ KernelBecomes(write_char(KernelScreen, ch))
  /\ tab' = IF ch = "\t" THEN 4 ELSE 0
  /\ UNCHANGED <<early, fg_color, phase, said>>

\* One of the four spaces write_char('\t') writes.
Tab ==
  /\ phase = "kernel" /\ tab > 0
  /\ KernelBecomes(write_char(KernelScreen, " "))
  /\ tab' = tab - 1
  /\ UNCHANGED <<early, fg_color, phase, said>>

set_color(c) ==
  /\ phase = "kernel" /\ tab = 0
  /\ fg_color' = c
  /\ UNCHANGED <<buffer, early, x_cord, y_cord, tab, phase, said>>

\* An exception in the middle of printing ch.  The interrupted writer is never
\* resumed; of the kernel's, only what it did to the memory matters any more.
Fault(ch) ==
  /\ phase \in {"early", "kernel"}
  /\ phase' = "fault"
  /\ IF phase = "early"
       THEN \E s \in Amid_vga_out_char(EarlyScreen, ch) : EarlyBecomes(s)
       ELSE \E s \in Amid_write_char(KernelScreen, ch) :
              buffer' = s.buf /\ UNCHANGED early
  /\ UNCHANGED <<kernel, said>>

\* handle_exception prints, then panic halts the machine.
handle_exception ==
  /\ phase = "fault"
  /\ IF said < Len(Message)
       THEN /\ EarlyBecomes(vga_out_char(EarlyScreen, Message[said + 1]))
            /\ said' = said + 1
            /\ UNCHANGED phase
       ELSE phase' = "halt" /\ UNCHANGED <<buffer, early, said>>
  /\ UNCHANGED kernel

Next ==
  \/ init_vga \/ KernelMain \/ Tab \/ handle_exception
  \/ \E ch \in Text : EarlyPrint(ch) \/ KernelPrint(ch) \/ Fault(ch)
  \/ \E c \in Colors : set_color(c)

Spec == Init /\ [][Next]_vars

-----------------------------------------------------------------------------
\* Wherever the exception struck, in the middle of a character, a line feed or
\* a scroll, of either console, all the handler has printed so far, line feeds
\* included, can be read on the screen, from some column x on to the cursor.
RowOf(at, k) == cursor_y - (at[said].line - at[k].line)
Shows(at) ==
  /\ cursor_x = at[said].col
  /\ \A k \in 1 .. said :
       Message[k] = "\n" \/ buffer[RowOf(at, k) * width + at[k].col - 1] = OfEarly(Message[k])
MessageReadable ==
  phase \in {"fault", "halt"} => \E x \in 0 .. width - 1 : Shows(LaidOut(x))

\* Both consoles print what TextScreen expects of them, the kernel's from the
\* top over the text of the early one, and the handler after an exception, which
\* is the only thing that can tear the text; the last column is never used
\* (vga.cpp:66, console.cpp:49).
Shown == INSTANCE TextScreen WITH
  Rows <- height, Columns <- width - 1, Cell <- Cell, Blank <- {EarlyBlank, KernelBlank},
  lines <- [r \in 0 .. height - 1 |-> [k \in 0 .. width - 2 |-> buffer[r * width + k]]],
  row <- IF phase = "kernel" THEN y_cord ELSE cursor_y,
  col <- IF phase = "kernel" THEN x_cord ELSE cursor_x,
  intact <- phase \notin {"fault", "halt"}
IsText == Shown!ScreenSpec
=============================================================================
