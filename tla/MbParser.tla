------------------------------- MODULE MbParser -------------------------------
(***************************************************************************)
(* early_init/mb_parser.cpp: what the kernel keeps of the loader's         *)
(* information, of which its heap matters here.                            *)
(***************************************************************************)
EXTENDS Integers, Sequences

\* An entry of the memory map has 64 bits for addr and len; `words` is the
\* number of values of a machine word, to which static_cast cuts them.
Failed == [ok |-> FALSE, base |-> 0, size |-> 0]

\* Planted fault: a region that is not available is taken too.
BetterOfAnyType(best, region, words) ==
  IF region.len % words < best.size THEN best
  ELSE [best EXCEPT !.base = region.addr % words, !.size = region.len % words]

\* Planted fault: an address keeps its 64 bits.
BetterUncut(best, region, words) ==
  IF ~region.available \/ region.len % words < best.size THEN best
  ELSE [best EXCEPT !.base = region.addr, !.size = region.len % words]

\* One turn of the loop; of equal regions the last is kept.
Better(best, region, words) ==
  IF ~region.available \/ region.len % words < best.size THEN best
  ELSE [best EXCEPT !.base = region.addr % words, !.size = region.len % words]

\* info is what the loader left: flags and memory map.
parse_multiboot(info, words) ==
  LET best[k \in 0 .. Len(info.mmap)] ==
        IF k = 0 THEN Failed ELSE Better(best[k - 1], info.mmap[k], words)
      heap == best[Len(info.mmap)]
  IN  IF info.magic /\ info.has_memory /\ info.has_mmap
        THEN [heap EXCEPT !.ok = heap.size # 0]
        ELSE Failed
=============================================================================
