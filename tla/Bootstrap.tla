------------------------------- MODULE Bootstrap -------------------------------
(***************************************************************************)
(* The bootstrap (bootstrap/enter_virtual.cpp): with paging still off it   *)
(* maps itself, the kernel image and the multiboot page with tables from a *)
(* pool inside the image, then turns paging on.  A step is one page of a   *)
(* loop.                                                                   *)
(***************************************************************************)
EXTENDS PageTables, Sequences, FiniteSets

CONSTANTS
  Base,      \* linker::kvbase_int, 0xC0000000
  Pool,      \* the first frame of pt_pool
  PoolSize,  \* pt_pool_size, 16
  Layouts    \* where the linker and the loader put things, and what the machine has

\* Virtual addresses of the kernel, physical ones of the bootstrap and of the
\* multiboot information; pages of the loader's that its fields point to.  `used`
\* is addressed where it is linked, above Base, while paging is off: `backed` says
\* whether there is memory at that physical address (if not, what is written is
\* lost), `reads` what it holds at first, any word, as no loader clears it.
Layout == [bootstrap_start : Address, bootstrap_end : Address,
           kvstart : Address, kvend : Address, mbi : Address, others : SUBSET Page,
           backed : BOOLEAN, reads : Address]

ASSUME PoolAssumption ==
  /\ PoolSize \in Nat \ {0} /\ Pool \in Frame /\ Pool .. Pool + PoolSize - 1 \subseteq Frame \ {Pd}
  /\ Base \in Address /\ Base % PageSize = 0
ASSUME LayoutAssumption == Layouts \subseteq Layout
\* linker.ld aligns the bootstrap and the image and links the image above Base, with
\* room below the recursive window; the bootstrap and the loader's information are low.
ASSUME PlacementAssumption ==
  \A l \in Layouts :
    /\ Aligned(l.bootstrap_start) /\ Aligned(l.kvstart)
    /\ l.bootstrap_end <= Base /\ l.mbi < Base
    /\ Base <= l.kvstart /\ l.kvstart <= l.kvend /\ l.kvend <= Window

VARIABLES
  layout,
  mem,      \* contents of page_directory and pt_pool
  used,     \* what reading `used` gives: tables taken from the pool, if it counts
  todo,     \* the regions still to be mapped, the first perhaps partly
  paging    \* "off"; "on"; "lost", on with wrong tables; "panic", the bootstrap gave up;
            \* "stray", it wrote to a table that is not in the pool

bootstrapVars == <<layout, mem, used, todo, paging>>

PoolFrames == Pool .. Pool + PoolSize - 1
TableFrames == {Pd} \cup PoolFrames

BootstrapTypeOK ==
  /\ layout \in Layouts
  /\ mem \in [TableFrames -> Table]
  /\ used \in Address
  /\ todo \in Seq([v : Address, end : Address, p : Address])
  /\ paging \in {"off", "on", "lost", "panic", "stray"}

\* The image's .bss, where the tables are, is zero.
BootstrapInit ==
  /\ layout \in Layouts
  /\ mem = [f \in TableFrames |-> ZeroTable]
  /\ used = layout.reads
  /\ todo = <<[v |-> layout.bootstrap_start, end |-> layout.bootstrap_end,
               p |-> layout.bootstrap_start],
              [v |-> layout.kvstart, end |-> layout.kvend, p |-> layout.kvstart - Base],
              [v |-> layout.mbi, end |-> layout.mbi + 1, p |-> layout.mbi]>>
  /\ paging = "off"

-----------------------------------------------------------------------------
\* Planted fault: the last table is never used.
PoolEmptyEarly == used + 1 >= PoolSize
PoolEmpty == used = PoolSize
alloc_pt == (Pool + used) % (Entries * Entries)

TableMissing(v) == mem[Pd][v[1]] = None

map_page(v, paddr) ==
  IF TableMissing(v)
    THEN /\ used' = IF layout.backed THEN (used + 1) % Words ELSE used
         /\ mem' = [mem EXCEPT ![Pd][v[1]] = alloc_pt, ![alloc_pt][v[2]] = FrameOf(paddr)]
    ELSE /\ mem' = [mem EXCEPT ![mem[Pd][v[1]]][v[2]] = FrameOf(paddr)]
         /\ UNCHANGED used

\* Planted fault: only the virtual address goes on.
SameFrame(r) == [r EXCEPT !.v = @ + PageSize]
NextPage(r) == [r EXCEPT !.v = @ + PageSize, !.p = @ + PageSize]

\* One page of map_region, or the single one of map_page(mbi).  alloc_pt only tests
\* for equality: a cell above PoolSize passes, and the table is then memory that may
\* be somebody's, full of anything or not there at all; what follows is not modelled.
MapPage ==
  /\ paging = "off" /\ todo # <<>>
  /\ LET r == Head(todo)
         rest == NextPage(r)
     IN  /\ r.v < r.end
         /\ IF TableMissing(PageOf(r.v)) /\ PoolEmpty
              THEN paging' = "panic" /\ UNCHANGED <<mem, used, todo>>
            ELSE IF TableMissing(PageOf(r.v)) /\ alloc_pt \notin PoolFrames
              THEN paging' = "stray" /\ UNCHANGED <<mem, used, todo>>
              ELSE /\ map_page(PageOf(r.v), r.p)
                   /\ todo' = IF rest.v < rest.end THEN <<rest>> \o Tail(todo) ELSE Tail(todo)
                   /\ UNCHANGED paging
  /\ UNCHANGED layout

PagesFrom(a, end) == {PageOf(x) : x \in a .. end - 1}
Identity == PagesFrom(layout.bootstrap_start, layout.bootstrap_end) \cup {PageOf(layout.mbi)}
Image == PagesFrom(layout.kvstart, layout.kvend)
Parts == {v[1] : v \in Identity \cup Image}

\* The frame page v is meant to be on.
FrameNumber(v) == v[1] * Entries + v[2]
Meant(v) == IF v \in Identity THEN FrameNumber(v) ELSE FrameNumber(v) - Base \div PageSize
InPlace(m) == \A v \in Identity \cup Image : Walk(m, v) = Meant(v)

\* map_recursivly and enable_paging; with wrong tables anything may happen next.
enter_virtual ==
  /\ paging = "off" /\ todo = <<>>
  /\ mem' = [mem EXCEPT ![Pd][Recursive] = Pd]
  /\ paging' = IF InPlace(mem') THEN "on" ELSE "lost"
  /\ UNCHANGED <<layout, used, todo>>

-----------------------------------------------------------------------------
\* Would one table do for all parts of the address space?
OneTable == \A v, w \in Identity \cup Image : v[2] = w[2] => Meant(v) = Meant(w)

\* When paging comes on, the code that turns it on and the multiboot page are
\* where they were, the kernel is where it was linked, and the tables can be
\* reached through the recursive window, which is how paging.cpp will change them
\* (enter_virtual.cpp:51-61, paging.cpp:128-133); where `used` counts, nothing else
\* is mapped.  Where it is stuck every part gets the same table, and the kernel is
\* linked all the same if the entries do not collide.
Linked(m) ==
  /\ layout.backed \/ OneTable => InPlace(m)
  /\ layout.backed =>
       \A v \in Page \ (Identity \cup Image) : v[1] # Recursive => Walk(m, v) = None
  /\ \A i \in Index : Walk(m, <<Recursive, i>>) = m[Pd][i]
VirtualIsLinked ==
  [][paging' # paging /\ paging' \in {"on", "lost"} => Linked(mem')]_bootstrapVars

\* The bootstrap gives up only when its regions really touch more parts of the
\* address space than the pool still has tables, and takes a table from outside the
\* pool only if the cell of `used` held more than PoolSize before anything was
\* counted (enter_virtual.cpp:78-84).
PoolSuffices ==
  /\ paging = "panic" => Cardinality(Parts) > PoolSize - layout.reads
  /\ paging = "stray" => layout.reads > PoolSize
=============================================================================
