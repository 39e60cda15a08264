------------------------------ MODULE TextScreen ------------------------------
(***************************************************************************)
(* What a reader of the screen expects of whoever writes text to it:       *)
(* characters appear one after the other, lines are full when their last   *)
(* column is, and the oldest line goes when there is no room for another.  *)
(***************************************************************************)
EXTENDS Integers

CONSTANTS Rows, Columns,   \* how many of each a text may use
          Cell,            \* characters with their attributes
          Blank            \* the cells an empty line can be made of

VARIABLES lines, row, col, \* the text, and where the next character goes
          intact           \* no writer was stopped in the middle of something

screen == <<lines, row, col, intact>>

Line == [0 .. Columns - 1 -> Cell]
Text == [0 .. Rows - 1 -> Line]

\* An empty line at the bottom.
Up(b) == [r \in 0 .. Rows - 1 |-> IF r + 1 < Rows THEN lines[r + 1]
                                  ELSE [k \in 0 .. Columns - 1 |-> b]]

\* The text with room for another line, and the row of that line.
Below(b) == IF row + 1 < Rows THEN [text |-> lines, at |-> row + 1]
            ELSE [text |-> Up(b), at |-> row]

\* A character; the line it goes to is a new one when this one is full.
Put(c) ==
  \/ /\ col < Columns
     /\ lines' = [lines EXCEPT ![row][col] = c]
     /\ col' = col + 1
     /\ UNCHANGED <<row, intact>>
  \/ /\ col = Columns
     /\ \E b \in Blank : LET next == Below(b)
                         IN  /\ lines' = [next.text EXCEPT ![next.at][0] = c]
                             /\ row' = next.at
     /\ col' = 1
     /\ UNCHANGED intact

NewLine == /\ \E b \in Blank : LET next == Below(b)
                               IN  lines' = next.text /\ row' = next.at
           /\ col' = 0
           /\ UNCHANGED intact

Return == col' = 0 /\ UNCHANGED <<lines, row, intact>>

Clear == /\ \E b \in Blank : lines' = [r \in 0 .. Rows - 1 |-> [k \in 0 .. Columns - 1 |-> b]]
         /\ row' = 0
         /\ col' = 0
         /\ UNCHANGED intact

\* Another writer takes over: the text stays, it writes over it from the top.
Attach == row' = 0 /\ col' = 0 /\ UNCHANGED <<lines, intact>>

\* A writer is stopped for good in the middle of something; this happens once.
Tear == /\ intact = TRUE /\ intact' = FALSE
        /\ lines' \in Text /\ row' \in 0 .. Rows - 1 /\ col' \in 0 .. Columns

ScreenInit == lines \in Text /\ row = 0 /\ col = 0 /\ intact = TRUE

ScreenNext ==
  \/ \E c \in Cell : Put(c)
  \/ NewLine \/ Return \/ Clear \/ Attach \/ Tear

ScreenSpec == ScreenInit /\ [][ScreenNext]_screen
=============================================================================
