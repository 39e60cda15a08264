-------------------------------- MODULE MCBoot --------------------------------
(***************************************************************************)
(* A machine of 64 frames of 2 bytes and tables of 8 entries; the kernel   *)
(* is linked 64 bytes above where it is loaded, as directory entry 4 is    *)
(* above entry 0.  The pool has three tables, inside the image.            *)
(***************************************************************************)
EXTENDS Boot

\* The image ends in its first part of the address space or in the next; the
\* multiboot information is beside the bootstrap, in it, or far away; `used` counts
\* from 0 or 1, or from where the pool seems empty, is passed, or is reached again
\* as addresses wrap, or it always reads 0 or what no test expects.
MCLayouts ==
  {[bootstrap_start |-> 2, bootstrap_end |-> 5, kvstart |-> 70, kvend |-> kvend, mbi |-> mbi,
    others |-> others, backed |-> cell[1], reads |-> cell[2]] :
     kvend \in {80, 84}, mbi \in {0, 3, 20}, others \in {{}, {<<0, 0>>}},
     cell \in {<<TRUE, 0>>, <<TRUE, 1>>, <<TRUE, 3>>, <<TRUE, 4>>, <<TRUE, 64>>,
               <<FALSE, 0>>, <<FALSE, 127>>}}

Region(addr, len, available) == [addr |-> addr, len |-> len, available |-> available]
Maps == UNION {[1 .. n -> {Region(0, 6, TRUE), Region(20, 12, TRUE),
                           Region(60, 30, FALSE), Region(128, 130, TRUE),
                           Region(128, 200, TRUE), Region(148, 168, TRUE)}] : n \in 0 .. 3}
Good(mmap) == [magic |-> TRUE, has_memory |-> TRUE, has_mmap |-> TRUE,
               whole |-> TRUE, mmap |-> mmap]
MCInfos ==
  {Good(mmap) : mmap \in Maps}
    \cup {[Good(<<Region(20, 12, TRUE)>>) EXCEPT !.magic = FALSE],
          [Good(<<Region(20, 12, TRUE)>>) EXCEPT !.has_mmap = FALSE],
          [Good(<<Region(20, 12, TRUE)>>) EXCEPT !.whole = FALSE]}

MCMasks == {<<{}, {}>>, <<{0}, {}>>, <<0 .. 7, 0 .. 7>>}
=============================================================================
