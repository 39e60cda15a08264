-------------------------------- MODULE Memory --------------------------------
(***************************************************************************)
(* Kernel memory: the bump allocator of page frames (mm/phys_alloc.cpp),   *)
(* the two-level page tables reached through the recursive last entry of   *)
(* the page directory (mm/paging.cpp), operator new on top of both         *)
(* (mm/alloc.cpp, mm/new.cpp), and the calls enter_kernel makes to them.   *)
(* A step is a call, or one page of the loop of a call on a region.        *)
(***************************************************************************)
EXTENDS PageTables, FiniteSets

CONSTANTS
  BootMemory,   \* contents of the frames when enter_virtual is done
  Heaps,        \* what parse_multiboot can report: [base, size]
  Videos,       \* regions of a framebuffer or of VGA, as [v, end, p]
  Bootstrap,    \* bootstrap_start and bootstrap_end: [v, end]
  Mbi,          \* the address of the multiboot information
  Sizes,        \* sizes asked of operator new
  MaxBlocks,    \* live blocks at most (bounds the model)
  Cacheable,    \* pages whose translation the processor may cache
  StackPage     \* the page of the kernel's stack

\* The tables of enter_virtual are distinct, and the directory is its own last entry.
ASSUME BootAssumption == BootMemory \in [Frame -> Table] /\ TablesSound(BootMemory)
ASSUME InputAssumption == /\ Heaps \subseteq [base : Address, size : Address]
                          /\ Videos \subseteq [v : Address, end : Address, p : Address]
                          /\ Bootstrap \in [v : Address, end : Address]
                          /\ Mbi \in Address
                          /\ Sizes \subseteq Address
                          /\ MaxBlocks \in Nat
                          /\ Cacheable \subseteq Page /\ StackPage \in Page
\* The regions that enter_kernel knows (0x60000000, the VGA memory above kvbase, the
\* bootstrap, the multiboot page) are below the recursive window, and the memory for
\* the screen is not mapped over the kernel (linker.ld puts it at 0xC0100000).
PagesOf(r) == {PageOf(a) : a \in r.v .. r.end - 1}
GivenUp == PagesOf(Bootstrap) \cup {PageOf(Mbi)}
KernelPages == {v \in Page : Walk(BootMemory, v) # None} \ GivenUp
ASSUME RegionAssumption ==
  /\ \A r \in Videos : r.end <= Window /\ PagesOf(r) \cap KernelPages = {}
  /\ Bootstrap.end <= Window /\ Mbi < Window

VARIABLES
  mem,         \* contents of the frames, read as page tables
  heap_start,  \* the bump allocator's next address; 0 before init_phys_alloc
  heap_end,
  call,        \* the call on a region in progress
  blocks,      \* what operator new returned and was not deleted
  boot,        \* how far enter_kernel is
  tlb,         \* translations the processor has cached
  intact       \* history: alloc_phys has given out nothing that was in use

vars == <<mem, heap_start, heap_end, call, blocks, boot, tlb, intact>>

\* "must": map_region_or_panic; "try" and "undo": map_region and its unmap_region
\* on failure; "unmap": unmap_region; "panic": the kernel has stopped
NoCall == [op |-> "none", v |-> 0, end |-> 0, p |-> 0, from |-> 0, size |-> 0]
Calls == [op : {"none", "must", "try", "undo", "unmap", "panic"},
          v : Address, end : Address, p : Address, from : Address, size : Address]

TypeOK ==
  /\ mem \in [Frame -> Table]
  /\ heap_start \in Address
  /\ heap_end \in Address
  /\ call \in Calls
  /\ blocks \subseteq [addr : Address, size : Address]
  /\ boot \in {"alloc", "video", "bootstrap", "mbi", "kernel"}
  /\ tlb \in [Page -> Frame \cup {None}]
  /\ intact \in BOOLEAN

Init ==
  /\ mem = BootMemory
  /\ heap_start = 0
  /\ heap_end = 0
  /\ call = NoCall
  /\ blocks = {}
  /\ boot = "alloc"
  /\ tlb = [v \in Page |-> None]
  /\ intact = TRUE

Idle == call.op = "none"

-----------------------------------------------------------------------------
(***************************************************************************)
(* The code reaches the tables through the processor's translation.        *)
(***************************************************************************)
\* Planted fault: the table index is left out of the recursive address.
DirectoryAsTable(m, i) == Walk(m, <<Recursive, Recursive>>)

\* The table of directory index i, seen through the recursive entry; None if that
\* faults.
get_page_table(m, i) == Walk(m, <<Recursive, i>>)

\* invlpg's operand is the parameter's own address, on the stack: it is the
\* stack's translation that is dropped, not vaddr's.
flush_tlb(v) == [tlb EXCEPT ![StackPage] = None]

-----------------------------------------------------------------------------
(***************************************************************************)
(* alloc_phys                                                              *)
(***************************************************************************)
\* Planted fault: the number of pages is ignored.
OnePageOnly(num_pages) == (heap_start + PageSize) % Words
new_heap_start(num_pages) == (heap_start + PageSize * num_pages) % Words

\* Planted fault: the end of the heap is not checked.
CanAllocPastEnd(num_pages) == heap_start # 0 /\ num_pages # 0
CanAlloc(num_pages) ==
  heap_start # 0 /\ num_pages # 0 /\ new_heap_start(num_pages) <= heap_end

\* Are the next num_pages pages nobody's: no address of them wraps or is in the
\* recursive window, none of their frames is a table of enter_virtual, and none of
\* their pages, which will be mapped where they are, is the kernel's?  alloc_phys
\* does not ask: the loader reports the kernel's own memory as available.
Spare(num_pages) ==
  \A a \in heap_start .. heap_start + PageSize * num_pages - 1 :
    a < Window /\ FrameOf(a) \notin TablesIn(BootMemory) /\ PageOf(a) \notin KernelPages

(***************************************************************************)
(* map_page and unmap_page on page v = PageOf(vaddr)                       *)
(***************************************************************************)
\* page_directory has no entry for v
NoTable(v) == mem[Pd][v[1]] = None

\* Does map_page return true?
Maps(v, paddr) == Aligned(paddr) /\ (NoTable(v) => CanAlloc(1))

\* Memory once page_directory has an entry for v.
WithEntry(v) ==
  IF NoTable(v) THEN [mem EXCEPT ![Pd][v[1]] = FrameOf(heap_start)] ELSE mem

\* Planted fault: no memset of a new table.
TableNotZeroed(v) == WithEntry(v)

\* Memory once that entry's table, if it is new, is zeroed.
WithTable(v) ==
  LET m == WithEntry(v)
  IN  IF NoTable(v) THEN [m EXCEPT ![get_page_table(m, v[1])] = ZeroTable] ELSE m

\* Can the table of v be reached, to zero it and to write to it?
Reaches(m, v) == get_page_table(m, v[1]) # None
MapReaches(v) == Reaches(WithEntry(v), v) /\ Reaches(WithTable(v), v)
UnmapReaches(v) == ~NoTable(v) => Reaches(mem, v)

\* Planted fault: the frame of a new table is not taken from the heap.
MapPageKeepsHeap(v, paddr) ==
  /\ LET m == WithTable(v)
     IN  mem' = [m EXCEPT ![get_page_table(m, v[1])][v[2]] = FrameOf(paddr)]
  /\ heap_start' = heap_start
  /\ intact' = (intact /\ (NoTable(v) => Spare(1)))
  /\ tlb' = flush_tlb(v)

\* Planted fault: the address is stored without the shift.
MapPageUnshifted(v, paddr) ==
  /\ LET m == WithTable(v)
     IN  mem' = [m EXCEPT ![get_page_table(m, v[1])][v[2]] = paddr]
  /\ heap_start' = IF NoTable(v) THEN new_heap_start(1) ELSE heap_start
  /\ intact' = (intact /\ (NoTable(v) => Spare(1)))
  /\ tlb' = flush_tlb(v)

map_page(v, paddr) ==
  /\ LET m == WithTable(v)
     IN  mem' = [m EXCEPT ![get_page_table(m, v[1])][v[2]] = FrameOf(paddr)]
  /\ heap_start' = IF NoTable(v) THEN new_heap_start(1) ELSE heap_start
  /\ intact' = (intact /\ (NoTable(v) => Spare(1)))
  /\ tlb' = flush_tlb(v)

unmap_page(v) ==
  IF NoTable(v)
    THEN UNCHANGED <<mem, tlb>>
    ELSE /\ mem' = [mem EXCEPT ![get_page_table(mem, v[1])][v[2]] = None]
         /\ tlb' = flush_tlb(v)

-----------------------------------------------------------------------------
(***************************************************************************)
(* Calls on regions: one step per page.                                    *)
(***************************************************************************)
Returning == call.v >= call.end

\* Planted fault: the physical address stays.
AdvanceVirtual == [call EXCEPT !.v = (call.v + PageSize) % Words]
\* Planted fault: the virtual address stays.
AdvancePhysical == [call EXCEPT !.p = (call.p + PageSize) % Words]
Advance == [call EXCEPT !.v = (call.v + PageSize) % Words,
                        !.p = (call.p + PageSize) % Words]

MapNext ==
  /\ call.op \in {"must", "try"}
  /\ ~Returning
  /\ Maps(PageOf(call.v), call.p) /\ MapReaches(PageOf(call.v))
  /\ map_page(PageOf(call.v), call.p)
  /\ call' = Advance
  /\ UNCHANGED <<heap_end, blocks, boot>>

\* Planted fault: a failed map_region undoes nothing.
UndoNothing(end) == [call EXCEPT !.op = "undo", !.v = call.from, !.end = call.from]
Undo(end) == [call EXCEPT !.op = "undo", !.v = AlignDown(call.from), !.end = AlignDown(end)]

\* map_page returned false: map_region undoes what it did, the others panic.
MapFails ==
  /\ call.op \in {"must", "try"}
  /\ ~Returning
  /\ ~Maps(PageOf(call.v), call.p)
  /\ call' = IF call.op = "try" THEN Undo(call.v) ELSE [call EXCEPT !.op = "panic"]
  /\ UNCHANGED <<mem, heap_start, heap_end, blocks, boot, tlb, intact>>

\* The tables cannot be reached any more, as one of them was given out: the access
\* faults, and the kernel stops.
PageFault ==
  /\ ~Returning
  /\ IF call.op \in {"must", "try"}
       THEN Maps(PageOf(call.v), call.p) /\ ~MapReaches(PageOf(call.v))
       ELSE call.op \in {"undo", "unmap"} /\ ~UnmapReaches(PageOf(call.v))
  /\ call' = [call EXCEPT !.op = "panic"]
  /\ intact' = FALSE
  /\ UNCHANGED <<mem, heap_start, heap_end, blocks, boot, tlb>>

UnmapNext ==
  /\ call.op \in {"undo", "unmap"}
  /\ ~Returning
  /\ UnmapReaches(PageOf(call.v))
  /\ unmap_page(PageOf(call.v))
  /\ call' = [call EXCEPT !.v = (call.v + PageSize) % Words]
  /\ UNCHANGED <<heap_start, heap_end, blocks, boot, intact>>

Return ==
  /\ call.op \in {"must", "try", "undo", "unmap"}
  /\ Returning
  /\ call' = NoCall
  /\ blocks' = IF call.op = "try"
                 THEN blocks \cup {[addr |-> call.from, size |-> call.size]}
                 ELSE blocks
  /\ UNCHANGED <<mem, heap_start, heap_end, boot, tlb, intact>>

-----------------------------------------------------------------------------
(***************************************************************************)
(* enter_kernel, in its order.                                             *)
(***************************************************************************)
init_phys_alloc ==
  /\ boot = "alloc" /\ Idle
  /\ \E h \in Heaps :
       /\ heap_start' = h.base
       /\ heap_end' = (h.base + h.size) % Words
       /\ IF h.base # 0 /\ h.size # 0
            THEN boot' = "video" /\ UNCHANGED call
            ELSE call' = [NoCall EXCEPT !.op = "panic"] /\ UNCHANGED boot
  /\ UNCHANGED <<mem, blocks, tlb, intact>>

\* setup_framebuffer or setup_vga
MapVideo ==
  /\ boot = "video" /\ Idle
  /\ boot' = "bootstrap"
  /\ \E r \in Videos :
       call' = [NoCall EXCEPT !.op = "must", !.v = r.v, !.end = r.end, !.p = r.p]
  /\ UNCHANGED <<mem, heap_start, heap_end, blocks, tlb, intact>>

UnmapBootstrap ==
  /\ boot = "bootstrap" /\ Idle
  /\ boot' = "mbi"
  /\ call' = [NoCall EXCEPT !.op = "unmap", !.v = AlignDown(Bootstrap.v),
                            !.end = AlignDown(Bootstrap.end)]
  /\ UNCHANGED <<mem, heap_start, heap_end, blocks, tlb, intact>>

UnmapMbi ==
  /\ boot = "mbi" /\ Idle
  /\ boot' = "kernel"
  /\ unmap_page(PageOf(Mbi))
  /\ UNCHANGED <<heap_start, heap_end, call, blocks, intact>>

-----------------------------------------------------------------------------
(***************************************************************************)
(* The kernel proper.                                                      *)
(***************************************************************************)
\* mm::alloc up to its map_region; a null result changes nothing.
Alloc(size) ==
  LET num_pages == size \div PageSize + 1
  IN  /\ boot = "kernel" /\ Idle
      /\ Cardinality(blocks) < MaxBlocks
      /\ CanAlloc(num_pages)
      /\ heap_start' = new_heap_start(num_pages)
      /\ call' = [op |-> "try", v |-> heap_start, end |-> (heap_start + size) % Words,
                  p |-> heap_start, from |-> heap_start, size |-> size]
      /\ intact' = (intact /\ Spare(num_pages))
      /\ UNCHANGED <<mem, heap_end, blocks, boot, tlb>>

\* operator delete calls mm::free, which does nothing.
Free(b) ==
  /\ boot = "kernel" /\ Idle
  /\ blocks' = blocks \ {b}
  /\ UNCHANGED <<mem, heap_start, heap_end, call, boot, tlb, intact>>

\* The owner of a block overwrites a page of it.
Write(b) ==
  /\ boot = "kernel" /\ Idle
  /\ \E a \in b.addr .. b.addr + b.size - 1 :
       LET f == Walk(mem, PageOf(a))
       IN  f # None /\ mem' = [mem EXCEPT ![f] = ZeroTable]
  /\ UNCHANGED <<heap_start, heap_end, call, blocks, boot, tlb, intact>>

\* The processor uses page v and may keep the translation.
Access(v) ==
  /\ tlb[v] = None
  /\ Walk(mem, v) # None
  /\ tlb' = [tlb EXCEPT ![v] = Walk(mem, v)]
  /\ UNCHANGED <<mem, heap_start, heap_end, call, blocks, boot, intact>>

-----------------------------------------------------------------------------
Next ==
  \/ init_phys_alloc \/ MapVideo \/ UnmapBootstrap \/ UnmapMbi
  \/ MapNext \/ MapFails \/ UnmapNext \/ PageFault \/ Return
  \/ \E size \in Sizes : Alloc(size)
  \/ \E b \in blocks : Free(b) \/ Write(b)
  \/ \E v \in Cacheable : Access(v)

Spec == Init /\ [][Next]_vars
\* A call on a region runs to its end: nothing else runs meanwhile.
FairSpec == Spec /\ WF_vars(MapNext \/ MapFails \/ UnmapNext \/ PageFault \/ Return)

-----------------------------------------------------------------------------
(***************************************************************************)
(* The properties.  They hold while `intact` does: on a machine whose      *)
(* largest region holds the kernel image, as it usually does, alloc_phys   *)
(* comes to the frames of the tables some time, nothing in the code stops  *)
(* it, and from then on whoever writes to what it gave out changes the     *)
(* tables.                                                                 *)
(***************************************************************************)
BytesOf(b) == {(b.addr + k) % Words : k \in 0 .. b.size - 1}

\* What operator new returned and nobody deleted belongs to its owner: the blocks
\* share no byte, with each other or with what is still to be allocated, what was
\* allocated never ends past the heap (phys_alloc.cpp:42), and every byte is mapped
\* at its own physical address, as map_region must have succeeded (alloc.cpp:28).
BlocksAreOwned ==
  intact =>
    /\ \A b, c \in blocks : b # c => BytesOf(b) \cap BytesOf(c) = {}
    /\ \A b \in blocks : \A a \in BytesOf(b) :
         a < heap_start /\ Walk(mem, PageOf(a)) = FrameOf(a)
    /\ blocks # {} => heap_start <= heap_end

\* Page tables are nobody's data: each directory entry has a table of its own,
\* outside every block, and what map_page took for its tables is not allocated
\* again, so that writing to a block never changes the mapping (paging.cpp:57-64).
\* It does not say that the heap is beside the tables of enter_virtual.
TablesApart ==
  intact =>
    /\ \A i, j \in Index : mem[Pd][i] = mem[Pd][j] /\ mem[Pd][i] # None => i = j
    /\ \A b \in blocks : \A a \in BytesOf(b) : FrameOf(a) \notin TablesIn(mem)
    /\ \A a \in heap_start .. heap_end - 1 : FrameOf(a) \notin TablesIn(mem) \ TablesIn(BootMemory)

\* What enter_virtual mapped for the kernel stays mapped where it was, whatever
\* is mapped, undone or unmapped elsewhere.
KernelStaysMapped == intact => \A v \in KernelPages : Walk(mem, v) = Walk(BootMemory, v)

\* An operator new that fails leaves no page mapped that it mapped: map_region
\* undoes those before the one that failed (paging.cpp:79-82).  Of the others only
\* pages that were in use before there was a block are mapped.
InUse == {v \in Page : Walk(BootMemory, v) # None} \cup UNION {PagesOf(r) : r \in Videos}
FailureIsClean ==
  [][(call.op = "undo" /\ call' = NoCall /\ intact) =>
       \A a \in BytesOf([addr |-> call.from, size |-> call.size]) :
         Walk(mem, PageOf(a)) = None \/ (call.end <= a /\ PageOf(a) \in InUse)]_vars

\* Every call returns or panics.
CallsReturn == ~Idle ~> (Idle \/ call.op = "panic" \/ ~intact)

\* The regions enter_kernel says it unmapped ("Unmap unused regions",
\* enter_kernel.cpp:65) cannot be used any more: no translation is left.
UnusedRegionsUnmapped ==
  boot = "kernel" => \A v \in GivenUp : tlb[v] = None /\ Walk(mem, v) = None

\* The tables implement a flat map of the pages below the recursive window.
Flat == [v \in (Index \ {Recursive}) \X Index |-> Walk(mem, v)]
Space == INSTANCE AddressSpace WITH Page <- (Index \ {Recursive}) \X Index,
                                    Nothing <- None, space <- Flat, kept <- intact
IsFlat == Space!SpaceSpec
=============================================================================
