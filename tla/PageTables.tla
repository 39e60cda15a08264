------------------------------ MODULE PageTables ------------------------------
(***************************************************************************)
(* The processor's two-level page tables, as the bootstrap (module         *)
(* Bootstrap) builds them and the kernel (module Memory) changes them: a   *)
(* memory m gives the contents of the frames that are tables.  Addresses   *)
(* are machine words: arithmetic on them is modulo Words.                  *)
(***************************************************************************)
EXTENDS Integers

CONSTANTS
  PageSize,     \* bytes of a page, 4096 in the code
  Entries,      \* entries of a page table, 1024 in the code
  Pd            \* the frame of page_directory

Words == Entries * Entries * PageSize    \* addresses: 2^32 in the code
Index == 0 .. Entries - 1
Frame == 0 .. Entries * Entries - 1
Page == Index \X Index                   \* directory index, table index
Address == 0 .. Words - 1
None == -1

ASSUME SizeAssumption == PageSize \in Nat \ {0} /\ Entries \in Nat \ {0, 1} /\ Pd \in Frame

Table == [Index -> Frame \cup {None}]
ZeroTable == [i \in Index |-> None]

\* recursive_index, 1023 in the code: the entry of the directory that is the directory.
Recursive == Entries - 1

\* The first address whose translation goes through that entry: the tables are reached
\* from here on, one page each.
Window == Recursive * (Entries * PageSize)

PageOf(a) == <<(a \div (PageSize * Entries)) % Entries, (a \div PageSize) % Entries>>
FrameOf(a) == a \div PageSize
Aligned(a) == a % PageSize = 0
AlignDown(a) == a - (a % PageSize)

\* The frame page v of memory m is on.
Walk(m, v) ==
  IF m[Pd][v[1]] = None THEN None ELSE m[m[Pd][v[1]]][v[2]]

\* The frames of memory m that the processor reads as tables, the directory too.
TablesIn(m) == {m[Pd][i] : i \in Index} \ {None}

\* The directory can be reached through its own entry, and entries share no table.
TablesSound(m) ==
  /\ m[Pd][Recursive] = Pd
  /\ \A i, j \in Index : m[Pd][i] = m[Pd][j] /\ m[Pd][i] # None => i = j
=============================================================================
