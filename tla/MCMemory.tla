------------------------------- MODULE MCMemory -------------------------------
(***************************************************************************)
(* A machine of 16 frames of 2 bytes and tables of 4 entries.  Directory   *)
(* entry 0 maps low memory (page 0 the multiboot information, page 1 the   *)
(* bootstrap code, then the heap), entry 1 the rest of the heap and the    *)
(* framebuffer, entry 2 the kernel, entry 3 the tables themselves.         *)
(***************************************************************************)
EXTENDS Memory

Row(a, b, c, d) == [i \in 0 .. 3 |-> <<a, b, c, d>>[i + 1]]

\* Frames 8 to 10 hold the directory and the tables enter_virtual made, 11 the
\* rest of the kernel; what the others held at power-on is arbitrary.
MCBootMemory ==
  [f \in 0 .. 15 |->
     CASE f = 8 -> Row(9, None, 10, 8)
       [] f = 9 -> Row(0, 1, None, None)
       [] f = 10 -> Row(None, 11, 8, None)
       [] OTHER -> Row(13, 13, 13, 13)]

\* Beside the kernel's frames and pages, then over the directory, which is on a page
\* the kernel does not use, over all of the image, from within it, or up to the end of
\* memory and of the addresses; with pages cut in two; and at address 0.
Heap(base, size) == [base |-> base, size |-> size]
MCHeaps == {Heap(4, 12 - k) : k \in {0, 1, 2, 3, 4, 5, 11}}
             \cup {Heap(4, 14), Heap(4, 20), Heap(16, 8), Heap(28, 8), Heap(5, 8), Heap(0, 8)}
\* A framebuffer, which needs a table, and VGA, which does not.
MCVga == {[v |-> 22, end |-> 23, p |-> 28]}
MCVideos == {[v |-> 12, end |-> 16, p |-> 24]} \cup MCVga
MCBootstrap == [v |-> 2, end |-> 4]
MCCacheable == {<<0, 0>>}
MCStackPage == <<2, 1>>

\* What follows a state in which memory in use was given out is not explored: the
\* properties claim nothing of it.
WhileIntact == intact \/ call.op = "panic"
=============================================================================
