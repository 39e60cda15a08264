----------------------------- MODULE MemoryProofs -----------------------------
(***************************************************************************)
(* Theorems about Memory, for any sizes of pages, tables and heaps, any    *)
(* requests and any number of blocks.                                      *)
(***************************************************************************)
EXTENDS Memory, PageTablesProofs

LEMMA WordAddress ==
  ASSUME NEW a \in Nat
  PROVE  a % Words \in Address /\ (a < Words => a % Words = a)
BY Geometry DEF Address

LEMMA AddressNat == Address \subseteq Nat
BY Geometry DEF Address

LEMMA CallType ==
  ASSUME TypeOK
  PROVE  /\ call.v \in Address /\ call.end \in Address /\ call.p \in Address
         /\ call.from \in Address /\ call.size \in Address
         /\ heap_start \in Address /\ heap_end \in Address /\ mem \in Memories
         /\ call.v \in Nat /\ call.end \in Nat /\ call.p \in Nat /\ call.from \in Nat
         /\ call.size \in Nat /\ heap_start \in Nat /\ heap_end \in Nat
BY Geometry DEF TypeOK, Calls, Address, Memories

-----------------------------------------------------------------------------
(***************************************************************************)
(* Type correctness.                                                       *)
(***************************************************************************)
LEMMA EntryType ==
  ASSUME NEW m \in Memories, NEW t, NEW i, NEW f \in Frame \cup {None}
  PROVE  [m EXCEPT ![t][i] = f] \in Memories
<1>1. CASE t \in Frame
  <2>1. [m[t] EXCEPT ![i] = f] \in Table
    BY <1>1 DEF Memories, Table
  <2>2. QED
    BY <2>1 DEF Memories
<1>2. CASE t \notin Frame
  BY <1>2 DEF Memories
<1>3. QED
  BY <1>1, <1>2

LEMMA WithTableType ==
  ASSUME TypeOK, NEW v \in Page
  PROVE  WithTable(v) \in Memories
<1>1. mem \in Memories /\ FrameOf(heap_start) \in Frame
  BY CallType, FrameOfType
<1> DEFINE m == WithEntry(v)
<1>2. m \in Memories
  BY <1>1, EntryType DEF WithEntry
<1> HIDE DEF m
<1>3. [m EXCEPT ![get_page_table(m, v[1])] = ZeroTable] \in Memories
  BY <1>2, ZeroTableType DEF Memories
<1>4. QED
  BY <1>2, <1>3 DEF WithTable, m

LEMMA TlbType ==
  ASSUME TypeOK, NEW v
  PROVE  flush_tlb(v) \in [Page -> Frame \cup {None}]
BY DEF TypeOK, flush_tlb

LEMMA MapPageType ==
  ASSUME TypeOK, NEW v \in Page, NEW paddr \in Address, map_page(v, paddr)
  PROVE  /\ mem' \in Memories /\ heap_start' \in Address /\ tlb' \in [Page -> Frame \cup {None}]
         /\ intact' \in BOOLEAN
<1>1. WithTable(v) \in Memories /\ FrameOf(paddr) \in Frame
  BY WithTableType, FrameOfType
<1>2. mem' \in Memories
  BY <1>1, EntryType DEF map_page
<1>3. heap_start + PageSize * 1 \in Nat
  BY CallType, Geometry
<1>4. heap_start' \in Address
  BY <1>3, WordAddress, CallType DEF map_page, new_heap_start
<1>5. QED
  BY <1>2, <1>4, TlbType DEF map_page

LEMMA UnmapPageType ==
  ASSUME TypeOK, NEW v \in Page, unmap_page(v)
  PROVE  mem' \in Memories /\ tlb' \in [Page -> Frame \cup {None}]
<1>1. [mem EXCEPT ![get_page_table(mem, v[1])][v[2]] = None] \in Memories
  BY CallType, EntryType
<1>2. QED
  BY <1>1, CallType, TlbType DEF unmap_page, TypeOK

LEMMA InitType == Init => TypeOK
<1>1. 0 \in Address
  BY Geometry DEF Address
<1>2. QED
  BY <1>1, BootAssumption DEF Init, TypeOK, NoCall, Calls

LEMMA NextType == TypeOK /\ [Next]_vars => TypeOK'
<1> SUFFICES ASSUME TypeOK, [Next]_vars PROVE TypeOK'
  OBVIOUS
<1> USE CallType
<1>0. 0 \in Address /\ NoCall \in Calls
  BY Geometry DEF Address, NoCall, Calls
<1>1. CASE init_phys_alloc
  <2>1. PICK h \in Heaps :
          /\ heap_start' = h.base
          /\ heap_end' = (h.base + h.size) % Words
          /\ IF h.base # 0 /\ h.size # 0
               THEN boot' = "video" /\ UNCHANGED call
               ELSE call' = [NoCall EXCEPT !.op = "panic"] /\ UNCHANGED boot
    BY <1>1 DEF init_phys_alloc
  <2>2. h.base \in Address /\ h.size \in Address
    BY InputAssumption
  <2> h.base \in Nat /\ h.size \in Nat
    BY <2>2, AddressNat
  <2> h.base + h.size \in Nat
    OBVIOUS
  <2>3. heap_start' \in Address /\ heap_end' \in Address
    BY <2>1, <2>2, WordAddress
  <2>4. call' \in Calls /\ boot' \in {"alloc", "video", "bootstrap", "mbi", "kernel"}
    BY <1>0, <2>1 DEF TypeOK, NoCall, Calls
  <2>5. QED
    BY <1>1, <2>3, <2>4 DEF init_phys_alloc, TypeOK
<1>2. CASE MapVideo
  <2>1. PICK r \in Videos :
          call' = [NoCall EXCEPT !.op = "must", !.v = r.v, !.end = r.end, !.p = r.p]
    BY <1>2 DEF MapVideo
  <2>2. r.v \in Address /\ r.end \in Address /\ r.p \in Address
    BY InputAssumption
  <2>3. call' \in Calls
    BY <1>0, <2>1, <2>2 DEF NoCall, Calls
  <2>4. QED
    BY <1>2, <2>3 DEF MapVideo, TypeOK
<1>3. CASE UnmapBootstrap
  <2>1. AlignDown(Bootstrap.v) \in Address /\ AlignDown(Bootstrap.end) \in Address
    BY InputAssumption, AlignDownFacts
  <2>2. call' \in Calls
    BY <1>0, <1>3, <2>1 DEF UnmapBootstrap, NoCall, Calls
  <2>3. QED
    BY <1>3, <2>2 DEF UnmapBootstrap, TypeOK
<1>4. CASE UnmapMbi
  <2>1. PageOf(Mbi) \in Page
    BY InputAssumption, PageOfType
  <2>2. QED
    BY <1>4, <2>1, UnmapPageType DEF UnmapMbi, TypeOK, Memories
<1>5. CASE MapNext
  <2>1. PageOf(call.v) \in Page
    BY PageOfType
  <2> call.v + PageSize \in Nat /\ call.p + PageSize \in Nat
    BY Geometry
  <2>2. (call.v + PageSize) % Words \in Address /\ (call.p + PageSize) % Words \in Address
    BY WordAddress
  <2>3. call' \in Calls
    BY <1>5, <2>2 DEF MapNext, Advance, TypeOK, Calls
  <2>4. QED
    BY <1>5, <2>1, <2>3, MapPageType DEF MapNext, TypeOK, Memories
<1>6. CASE MapFails
  <2>1. AlignDown(call.from) \in Address /\ AlignDown(call.v) \in Address
    BY AlignDownFacts
  <2>2. call' \in Calls
    BY <1>6, <2>1 DEF MapFails, Undo, TypeOK, Calls
  <2>3. QED
    BY <1>6, <2>2 DEF MapFails, TypeOK
<1>7. CASE UnmapNext
  <2>1. PageOf(call.v) \in Page /\ (call.v + PageSize) % Words \in Address
    BY PageOfType, WordAddress, Geometry
  <2>2. call' \in Calls
    BY <1>7, <2>1 DEF UnmapNext, TypeOK, Calls
  <2>3. QED
    BY <1>7, <2>1, <2>2, UnmapPageType DEF UnmapNext, TypeOK, Memories
<1>8. CASE Return
  <2>1. blocks' \subseteq [addr : Address, size : Address]
    BY <1>8 DEF Return, TypeOK
  <2>2. QED
    BY <1>0, <1>8, <2>1 DEF Return, TypeOK
<1>9. ASSUME NEW size \in Sizes, Alloc(size) PROVE TypeOK'
  <2>1. size \in Nat /\ size \in Address
    BY InputAssumption, AddressNat
  <2> DEFINE num_pages == size \div PageSize + 1
  <2> size \div PageSize \in Nat
    BY <2>1, Geometry, DivisionRange
  <2>2. num_pages \in Nat
    OBVIOUS
  <2> HIDE DEF num_pages
  <2> PageSize \in Nat
    BY Geometry
  <2>3. heap_start + PageSize * num_pages \in Nat /\ heap_start + size \in Nat
    BY <2>1, <2>2
  <2>4. heap_start' \in Address /\ (heap_start + size) % Words \in Address
    BY <1>9, <2>3, WordAddress DEF Alloc, new_heap_start, num_pages
  <2>5. call' \in Calls
    BY <1>9, <2>1, <2>4 DEF Alloc, Calls
  <2>6. QED
    BY <1>9, <2>4, <2>5 DEF Alloc, TypeOK
<1>10. ASSUME NEW b \in blocks, Free(b) PROVE TypeOK'
  BY <1>10 DEF Free, TypeOK
<1>11. ASSUME NEW b \in blocks, Write(b) PROVE TypeOK'
  BY <1>11, ZeroTableType DEF Write, TypeOK
<1>12. ASSUME NEW v \in Cacheable, Access(v) PROVE TypeOK'
  <2>1. v \in Page /\ Walk(mem, v) \in Frame \cup {None}
    BY InputAssumption, WalkType
  <2>2. QED
    BY <1>12, <2>1 DEF Access, TypeOK
<1>13. CASE PageFault
  <2>1. call' \in Calls
    BY <1>13 DEF PageFault, TypeOK, Calls
  <2>2. QED
    BY <1>13, <2>1 DEF PageFault, TypeOK
<1>14. CASE UNCHANGED vars
  BY <1>14 DEF vars, TypeOK
<1>15. QED
  BY <1>1, <1>2, <1>3, <1>4, <1>5, <1>6, <1>7, <1>8, <1>9, <1>10, <1>11, <1>12, <1>13, <1>14
     DEF Next

\* Every variable keeps its type, whatever heap the loader reports and wherever it is.
THEOREM TypeCorrect == Spec => []TypeOK
BY InitType, NextType, PTL DEF Spec

-----------------------------------------------------------------------------
(***************************************************************************)
(* The inductive invariant.                                                *)
(***************************************************************************)
Pending == [addr |-> call.from, size |-> call.size]
InAlloc == call.op \in {"try", "undo"}
Owned == blocks \cup {b \in {Pending} : InAlloc}

\* The allocator stays inside the heap it was given.
HeapInv == Owned # {} => heap_start <= heap_end

\* What the call in progress may touch, and when there is one.
CallInv ==
  /\ boot = "alloc" => mem = BootMemory
  /\ boot # "kernel" => blocks = {} /\ ~InAlloc
  /\ call.op = "must" =>
       boot = "bootstrap" /\ \E r \in Videos : r.v <= call.v /\ call.end = r.end
  /\ call.op = "unmap" =>
       /\ boot = "mbi" /\ Aligned(call.v)
       /\ AlignDown(Bootstrap.v) <= call.v /\ call.end = AlignDown(Bootstrap.end)
  /\ call.op = "try" =>
       /\ call.end = call.from + call.size
       /\ call.from <= call.v /\ call.p = call.v
       /\ call.v # call.from => Aligned(call.from)
       /\ Aligned(call.v) <=> Aligned(call.from)
  /\ call.op = "undo" =>
       /\ Aligned(call.v) /\ call.end <= call.from + call.size
       /\ call.v < call.end => Aligned(call.from) /\ call.from <= call.v

\* Blocks, with the one that is being mapped, lie apart and before what is still to
\* be allocated, below the window and on pages the kernel does not use.
Apart ==
  /\ \A b \in Owned : b.addr + b.size < heap_start /\ (Aligned(b.addr) <=> Aligned(heap_start))
  /\ \A b, c \in Owned : b # c => b.addr + b.size <= c.addr \/ c.addr + c.size <= b.addr
  /\ \A b \in Owned : \A a \in b.addr .. b.addr + b.size - 1 : a < Window /\ PageOf(a) \notin KernelPages

OwnedInv ==
  /\ Apart
  /\ \A b \in blocks : b.size # 0 => Aligned(b.addr)
  /\ InAlloc => Pending \notin blocks

\* Tables are apart from one another and from the blocks, and those map_page made
\* also from the memory that is still to be allocated.
TableInv ==
  /\ TablesSound(mem)
  /\ \A a \in Nat : heap_start <= a => FrameOf(a) \notin TablesIn(mem) \ TablesIn(BootMemory)
  /\ \A b \in Owned : \A a \in b.addr .. b.addr + b.size - 1 : FrameOf(a) \notin TablesIn(mem)

\* Blocks are mapped at their own addresses, the one being mapped as far as it is.
MappedInv ==
  /\ \A b \in blocks : \A a \in b.addr .. b.addr + b.size - 1 : Walk(mem, PageOf(a)) = FrameOf(a)
  /\ call.op = "try" =>
       \A a \in call.from .. call.from + call.size - 1 :
         a < call.v => Walk(mem, PageOf(a)) = FrameOf(a)

\* What holds as long as nothing in use is given out.
MemoryInv == TypeOK /\ HeapInv /\ CallInv /\ OwnedInv /\ TableInv /\ MappedInv

\* What was given out stays given out.
LEMMA IntactBefore ==
  ASSUME [Next]_vars, intact'
  PROVE  intact
BY DEF Next, vars, init_phys_alloc, MapVideo, UnmapBootstrap, UnmapMbi, MapNext, map_page, MapFails,
       UnmapNext, PageFault, Return, Alloc, Free, Write, Access

-----------------------------------------------------------------------------
(***************************************************************************)
(* What the operations do.                                                 *)
(***************************************************************************)
LEMMA SameDirectory ==
  ASSUME NEW m, NEW m2, m2[Pd] = m[Pd]
  PROVE  TablesIn(m2) = TablesIn(m) /\ (TablesSound(m) => TablesSound(m2))
BY DEF TablesIn, TablesSound

LEMMA MapPageEffect ==
  ASSUME TypeOK, TablesSound(mem), NEW v \in Page, v[1] # Recursive, NEW paddr \in Address,
         NoTable(v) => FrameOf(heap_start) \notin TablesIn(mem), map_page(v, paddr)
  PROVE  /\ mem' \in Memories /\ TablesSound(mem')
         /\ TablesIn(mem') = IF NoTable(v) THEN TablesIn(mem) \cup {FrameOf(heap_start)}
                                           ELSE TablesIn(mem)
         /\ \A i \in Index : mem[Pd][i] # None => mem'[Pd][i] = mem[Pd][i]
         /\ \A w \in Page : w[1] # Recursive =>
              Walk(mem', w) = IF w = v THEN FrameOf(paddr) ELSE Walk(mem, w)
<1> DEFINE m == WithTable(v)
           f == FrameOf(paddr)
<1>1. mem \in Memories /\ f \in Frame /\ FrameOf(heap_start) \in Frame
  BY CallType, FrameOfType
<1>2. v[1] \in Index /\ v[2] \in Index
  BY DEF Page
<1>3. /\ m \in Memories /\ TablesSound(m) /\ m[Pd][v[1]] # None
      /\ TablesIn(m) = IF NoTable(v) THEN TablesIn(mem) \cup {FrameOf(heap_start)}
                                     ELSE TablesIn(mem)
      /\ \A i \in Index : mem[Pd][i] # None => m[Pd][i] = mem[Pd][i]
      /\ \A w \in Page : w[1] # Recursive => Walk(m, w) = Walk(mem, w)
  <2>1. CASE NoTable(v)
    <3> DEFINE t == FrameOf(heap_start)
               m1 == [mem EXCEPT ![Pd][v[1]] = t]
    <3>1. t \in Frame \ TablesIn(mem) /\ mem[Pd][v[1]] = None /\ t # None
      BY <1>1, <2>1, Geometry DEF NoTable
    <3>2. m1 \in Memories /\ m1[Pd][Recursive] = Pd /\ m1[Pd][v[1]] = t
      <4>1. mem[Pd] \in Table
        BY <1>1, Geometry DEF Memories
      <4>2. m1 \in Memories
        BY <1>1, <3>1, EntryType
      <4>3. QED
        BY <1>1, <1>2, <4>1, <4>2, Geometry DEF Memories, Table, TablesSound
    <3>3. get_page_table(m1, v[1]) = t
      BY <3>2, Geometry DEF get_page_table, Walk
    <3>4. m = TableEntered(mem, v[1], t)
      BY <2>1, <3>3 DEF WithTable, WithEntry, TableEntered
    <3> HIDE DEF t, m
    <3>5. /\ m \in Memories /\ m[Pd] = [mem[Pd] EXCEPT ![v[1]] = t]
          /\ TablesSound(m) /\ TablesIn(m) = TablesIn(mem) \cup {t}
          /\ \A w \in Page : w[1] # Recursive => Walk(m, w) = Walk(mem, w)
      BY <1>1, <1>2, <3>1, <3>4, NewTable
    <3>6. mem[Pd] \in Table
      BY <1>1, Geometry DEF Memories
    <3>7. /\ m[Pd][v[1]] # None
          /\ \A i \in Index : mem[Pd][i] # None => m[Pd][i] = mem[Pd][i]
      BY <1>2, <3>1, <3>5, <3>6 DEF Table
    <3>8. QED
      BY <2>1, <3>5, <3>7 DEF t
  <2>2. CASE ~NoTable(v)
    BY <1>1, <2>2 DEF WithTable, WithEntry, NoTable
  <2>3. QED
    BY <2>1, <2>2
<1>4. mem' = [m EXCEPT ![get_page_table(m, v[1])][v[2]] = f] /\ f \in Frame \cup {None}
  BY <1>1 DEF map_page
<1> HIDE DEF m, f
<1>5. mem' = EntryWritten(m, v, f) /\ m \in Memories /\ m[Pd][v[1]] # None
  BY <1>2, <1>3, <1>4, WindowWalk DEF get_page_table, EntryWritten
<1>6. TablesSound(m) /\ f \in Frame \cup {None}
  BY <1>1, <1>3
<1>7. /\ mem' \in Memories /\ mem'[Pd] = m[Pd]
      /\ \A w \in Page : w[1] # Recursive => Walk(mem', w) = IF w = v THEN f ELSE Walk(m, w)
  BY <1>5, <1>6, EntryWrite
<1>8. TablesSound(mem') /\ TablesIn(mem') = TablesIn(m)
  BY <1>3, <1>7, SameDirectory
<1>9. QED
  BY <1>3, <1>7, <1>8 DEF f

LEMMA UnmapPageEffect ==
  ASSUME TypeOK, TablesSound(mem), NEW v \in Page, v[1] # Recursive, unmap_page(v)
  PROVE  /\ mem' \in Memories /\ mem'[Pd] = mem[Pd]
         /\ \A w \in Page : w[1] # Recursive =>
              Walk(mem', w) = IF w = v THEN None ELSE Walk(mem, w)
<1>1. mem \in Memories /\ v[1] \in Index
  BY CallType DEF Page
<1>2. CASE NoTable(v)
  BY <1>1, <1>2 DEF unmap_page, NoTable, Walk
<1>3. CASE ~NoTable(v)
  <2>1. get_page_table(mem, v[1]) = mem[Pd][v[1]]
    BY <1>1, WindowWalk DEF get_page_table
  <2>2. mem' = EntryWritten(mem, v, None) /\ mem[Pd][v[1]] # None
    BY <1>3, <2>1 DEF unmap_page, NoTable, EntryWritten
  <2>3. None \in Frame \cup {None}
    OBVIOUS
  <2>4. QED
    BY <1>1, <2>2, <2>3, EntryWrite
<1>4. QED
  BY <1>2, <1>3

\* What is spare is below the window, and its end is a machine word.
LEMMA SpareLimits ==
  ASSUME TypeOK, NEW n \in Nat \ {0}, Spare(n)
  PROVE  /\ heap_start < Window /\ heap_start + PageSize * n <= Window
         /\ PageSize * n \in Nat \ {0} /\ heap_start + PageSize * n < Words
         /\ new_heap_start(n) = heap_start + PageSize * n
         /\ FrameOf(heap_start) \notin TablesIn(BootMemory)
<1> USE CallType
<1> DEFINE room == PageSize * n
<1>1. room \in Nat \ {0}
  BY Geometry
<1>2. \A a \in heap_start .. heap_start + room - 1 :
        a < Window /\ FrameOf(a) \notin TablesIn(BootMemory)
  BY DEF Spare
<1>3. new_heap_start(n) = (heap_start + room) % Words
  BY DEF new_heap_start
<1> HIDE DEF room
<1>4. heap_start \in heap_start .. heap_start + room - 1
  BY <1>1
<1>5. heap_start + room - 1 \in heap_start .. heap_start + room - 1
  BY <1>1
<1>6. heap_start + room <= Window /\ heap_start + room \in Nat
  BY <1>1, <1>2, <1>5, Geometry
<1>7. heap_start + room < Words
  BY <1>6, Geometry
<1>8. (heap_start + room) % Words = heap_start + room
  BY <1>6, <1>7, WordAddress
<1>9. QED
  BY <1>1, <1>2, <1>3, <1>4, <1>6, <1>7, <1>8 DEF room

\* Allocating the frame of a new table.
LEMMA FrameForTable ==
  ASSUME TypeOK, TableInv, CanAlloc(1), Spare(1)
  PROVE  /\ heap_start # 0
         /\ new_heap_start(1) = heap_start + PageSize /\ heap_start + PageSize <= heap_end
         /\ Aligned(heap_start + PageSize) <=> Aligned(heap_start)
         /\ \A a \in Nat : heap_start + PageSize <= a => FrameOf(heap_start) < FrameOf(a)
         /\ FrameOf(heap_start) \notin TablesIn(mem)
<1> USE CallType
<1>1. heap_start # 0 /\ new_heap_start(1) <= heap_end
  BY DEF CanAlloc
<1>2. heap_start + PageSize \in Nat /\ PageSize * 1 = PageSize
  BY Geometry
<1>3. new_heap_start(1) = heap_start + PageSize
  BY <1>2, SpareLimits
<1>4. Aligned(heap_start + PageSize) <=> Aligned(heap_start)
  BY <1>2, AlignedStep
<1>5. FrameOf(heap_start + PageSize) = FrameOf(heap_start) + 1 /\ FrameOf(heap_start) \in Nat
  BY <1>2, FrameStep, FrameOfType, Geometry DEF Frame
<1>6. ASSUME NEW a \in Nat, heap_start + PageSize <= a PROVE FrameOf(heap_start) < FrameOf(a)
  <2>1. FrameOf(heap_start + PageSize) <= FrameOf(a) /\ FrameOf(a) \in Nat
    BY <1>2, <1>6, Geometry, DivisionMonotonic, DivisionRange DEF FrameOf
  <2>2. QED
    BY <1>5, <2>1
<1>7. FrameOf(heap_start) \notin TablesIn(mem)
  <2>1. heap_start <= heap_start
    OBVIOUS
  <2>2. FrameOf(heap_start) \notin TablesIn(BootMemory)
    BY SpareLimits
  <2>3. QED
    BY <2>1, <2>2 DEF TableInv
<1>8. QED
  BY <1>1, <1>3, <1>4, <1>6, <1>7

\* A block ends before what is still to be allocated, hence below the window.
LEMMA OwnedLimits ==
  ASSUME MemoryInv, NEW b \in Owned
  PROVE  /\ b.addr \in Nat /\ b.size \in Nat /\ heap_start # 0 /\ b.addr + b.size < heap_start
         /\ \A a \in b.addr .. b.addr + b.size - 1 :
              a \in Nat /\ a \in Address /\ a < Window /\ PageOf(a) \in Page /\ PageOf(a)[1] # Recursive
<1> USE CallType DEF MemoryInv
<1>1. b \in [addr : Address, size : Address]
  BY DEF Owned, Pending, TypeOK
<1>2. b.addr \in Nat /\ b.size \in Nat
  BY <1>1, AddressNat
<1>3. b.addr + b.size < heap_start
  BY DEF OwnedInv, Apart
<1>4. heap_start # 0 /\ Window \in Nat /\ Window < Words
  BY <1>2, <1>3, Geometry
<1>5. ASSUME NEW a \in b.addr .. b.addr + b.size - 1
      PROVE  a \in Nat /\ a \in Address /\ a < Window /\ PageOf(a) \in Page /\ PageOf(a)[1] # Recursive
  <2>1. a \in Nat /\ a < Window
    BY <1>2, <1>5 DEF OwnedInv, Apart
  <2>2. a \in Address
    BY <1>4, <2>1, Geometry DEF Address
  <2>3. QED
    BY <2>1, <2>2, PageOfType, BelowWindow
<1>6. QED
  BY <1>2, <1>3, <1>4, <1>5

\* A call that goes on is below the window, and so is the page after it.
LEMMA CallLimits ==
  ASSUME MemoryInv, call.op \in {"must", "try", "undo", "unmap"}, ~Returning
  PROVE  /\ call.v < Window /\ (call.v + PageSize) % Words = call.v + PageSize
         /\ PageOf(call.v) \in Page /\ PageOf(call.v)[1] # Recursive
         /\ InAlloc => call.v < call.from + call.size /\ call.from + call.size < heap_start
<1> USE CallType DEF MemoryInv
<1>1. call.v < call.end
  BY DEF Returning
<1>2. InAlloc => call.v < call.from + call.size /\ call.from + call.size < heap_start
  <2>1. InAlloc => Pending \in Owned
    BY DEF Owned
  <2>2. InAlloc => call.from + call.size < heap_start
    BY <2>1 DEF OwnedInv, Apart, Pending
  <2>3. InAlloc => call.end <= call.from + call.size
    BY DEF InAlloc, CallInv
  <2>4. QED
    BY <1>1, <2>2, <2>3
<1>3. call.v < Window
  <2>1. CASE InAlloc
    <3>1. Pending \in Owned /\ call.from <= call.v
      BY <1>1, <2>1 DEF Owned, CallInv, InAlloc
    <3>2. call.v \in Pending.addr .. Pending.addr + Pending.size - 1
      BY <1>2, <2>1, <3>1 DEF Pending
    <3>3. QED
      BY <3>1, <3>2 DEF OwnedInv, Apart
  <2>2. CASE call.op = "must"
    BY <1>1, <2>2, RegionAssumption, InputAssumption, AddressNat, Geometry DEF CallInv
  <2>3. CASE call.op = "unmap"
    <3>1. call.end = AlignDown(Bootstrap.end) /\ AlignDown(Bootstrap.end) <= Bootstrap.end
      BY <2>3, InputAssumption, AlignDownFacts DEF CallInv
    <3>2. Bootstrap.end <= Window /\ Bootstrap.end \in Nat
      BY RegionAssumption, InputAssumption, AddressNat
    <3>3. QED
      BY <1>1, <3>1, <3>2, Geometry
  <2>4. QED
    BY <2>1, <2>2, <2>3 DEF InAlloc
<1>4. call.v + PageSize \in Nat /\ call.v + PageSize < Words
  BY <1>3, Geometry
<1>5. QED
  BY <1>2, <1>3, <1>4, WordAddress, PageOfType, BelowWindow

-----------------------------------------------------------------------------
(***************************************************************************)
(* Each step keeps the invariant.                                          *)
(***************************************************************************)
LEMMA InitMemory == Init => MemoryInv
<1> SUFFICES ASSUME Init PROVE MemoryInv
  OBVIOUS
<1>1. TypeOK
  BY InitType
<1>2. call.op = "none" /\ blocks = {} /\ heap_start = 0 /\ heap_end = 0 /\ mem = BootMemory
  BY DEF Init, NoCall
<1>3. Owned = {} /\ ~InAlloc
  BY <1>2 DEF Owned, InAlloc
<1>4. TablesSound(mem)
  BY <1>2, BootAssumption DEF TablesSound
<1>5. HeapInv /\ CallInv /\ OwnedInv /\ TableInv /\ MappedInv
  BY <1>2, <1>3, <1>4 DEF HeapInv, CallInv, OwnedInv, Apart, TableInv, MappedInv
<1>6. QED
  BY <1>1, <1>5 DEF MemoryInv

\* Steps that leave the directory and the allocator alone, and take no block.
LEMMA QuietStep ==
  ASSUME MemoryInv, UNCHANGED <<heap_start, heap_end>>, mem'[Pd] = mem[Pd], Owned' \subseteq Owned
  PROVE  HeapInv' /\ Apart' /\ TableInv'
<1>1. TablesIn(mem') = TablesIn(mem) /\ TablesSound(mem')
  BY SameDirectory DEF MemoryInv, TableInv
<1>2. HeapInv'
  BY DEF MemoryInv, HeapInv
<1>3. Apart'
  BY DEF MemoryInv, OwnedInv, Apart
<1>4. TableInv'
  BY <1>1 DEF MemoryInv, TableInv
<1>5. QED
  BY <1>2, <1>3, <1>4

LEMMA InitPhysAllocStep ==
  ASSUME MemoryInv, TypeOK', init_phys_alloc
  PROVE  MemoryInv'
<1>1. boot = "alloc" /\ call.op = "none" /\ mem' = mem /\ blocks' = blocks
  BY DEF init_phys_alloc, Idle
<1>2. mem = BootMemory /\ blocks = {} /\ TablesSound(mem)
  BY <1>1 DEF MemoryInv, CallInv, TableInv
<1>3. PICK h \in Heaps :
        IF h.base # 0 /\ h.size # 0
          THEN boot' = "video" /\ UNCHANGED call
          ELSE call' = [NoCall EXCEPT !.op = "panic"] /\ UNCHANGED boot
  BY DEF init_phys_alloc
<1>4. call'.op \in {"none", "panic"} /\ boot' \in {"alloc", "video"}
  BY <1>1, <1>3 DEF NoCall
<1>5. Owned' = {} /\ ~InAlloc'
  BY <1>1, <1>2, <1>4 DEF Owned, InAlloc
<1>6. HeapInv' /\ CallInv' /\ OwnedInv' /\ MappedInv'
  BY <1>1, <1>2, <1>4, <1>5 DEF HeapInv, CallInv, OwnedInv, Apart, MappedInv
<1>7. TableInv'
  BY <1>1, <1>2, <1>5 DEF TableInv
<1>8. QED
  BY <1>6, <1>7 DEF MemoryInv

\* The other steps of enter_kernel, before there is any block.
LEMMA EnterKernelStep ==
  ASSUME MemoryInv, TypeOK', MapVideo \/ UnmapBootstrap \/ UnmapMbi
  PROVE  MemoryInv'
<1> USE CallType DEF MemoryInv
<1>1. boot \in {"video", "bootstrap", "mbi"} /\ call.op = "none" /\ blocks' = blocks
  BY DEF MapVideo, UnmapBootstrap, UnmapMbi, Idle
<1>2. blocks = {} /\ TablesSound(mem)
  BY <1>1 DEF CallInv, TableInv
<1>3. UNCHANGED <<heap_start, heap_end>> /\ boot' \in {"bootstrap", "mbi", "kernel"}
  BY DEF MapVideo, UnmapBootstrap, UnmapMbi
<1>4. call'.op \in {"must", "unmap", "none"}
  BY <1>1 DEF MapVideo, UnmapBootstrap, UnmapMbi, NoCall
<1>5. Owned' = {} /\ ~InAlloc'
  BY <1>1, <1>2, <1>4 DEF Owned, InAlloc
<1>6. mem'[Pd] = mem[Pd]
  <2>1. CASE MapVideo \/ UnmapBootstrap
    BY <2>1 DEF MapVideo, UnmapBootstrap
  <2>2. CASE UnmapMbi
    <3>1. PageOf(Mbi) \in Page /\ PageOf(Mbi)[1] # Recursive
      BY InputAssumption, RegionAssumption, PageOfType, BelowWindow
    <3>2. unmap_page(PageOf(Mbi))
      BY <2>2 DEF UnmapMbi
    <3>3. QED
      BY <1>2, <3>1, <3>2, UnmapPageEffect
  <2>3. QED
    BY <2>1, <2>2
<1>7. HeapInv' /\ Apart' /\ TableInv'
  BY <1>3, <1>5, <1>6, QuietStep
<1>8. CallInv'
  <2>1. CASE MapVideo
    <3>1. PICK r \in Videos :
            call' = [NoCall EXCEPT !.op = "must", !.v = r.v, !.end = r.end, !.p = r.p]
      BY <2>1 DEF MapVideo
    <3>2. r.v \in Nat /\ r.end \in Nat
      BY InputAssumption, AddressNat
    <3>3. call'.op = "must" /\ call'.v = r.v /\ call'.end = r.end /\ boot' = "bootstrap"
      BY <2>1, <3>1 DEF MapVideo, NoCall
    <3>4. r.v <= call'.v
      BY <3>2, <3>3
    <3>5. QED
      BY <1>1, <1>2, <1>5, <3>3, <3>4 DEF CallInv
  <2>2. CASE UnmapBootstrap
    <3>1. /\ call'.op = "unmap" /\ call'.v = AlignDown(Bootstrap.v)
          /\ call'.end = AlignDown(Bootstrap.end) /\ boot' = "mbi"
      BY <2>2 DEF UnmapBootstrap, NoCall
    <3>2. Aligned(AlignDown(Bootstrap.v)) /\ AlignDown(Bootstrap.v) \in Nat
      BY InputAssumption, AlignDownFacts, AddressNat
    <3>3. AlignDown(Bootstrap.v) <= call'.v
      BY <3>1, <3>2
    <3>4. QED
      BY <1>1, <1>2, <1>5, <3>1, <3>2, <3>3 DEF CallInv
  <2>3. CASE UnmapMbi
    <3>1. call'.op = "none" /\ boot' = "kernel"
      BY <1>1, <2>3 DEF UnmapMbi
    <3>2. QED
      BY <1>5, <3>1 DEF CallInv
  <2>4. QED
    BY <2>1, <2>2, <2>3
<1>9. OwnedInv' /\ MappedInv'
  BY <1>1, <1>2, <1>4, <1>5, <1>7 DEF OwnedInv, MappedInv
<1>10. QED
  BY <1>7, <1>8, <1>9

\* One page of map_region: a page is mapped where it is, into a table no block holds.
LEMMA MapNextStep ==
  ASSUME MemoryInv, TypeOK', MapNext, intact'
  PROVE  MemoryInv'
<1> USE CallType DEF MemoryInv
<1> DEFINE v == PageOf(call.v)
           t == FrameOf(heap_start)
<1>1. /\ call.op \in {"must", "try"} /\ ~Returning /\ Maps(v, call.p) /\ map_page(v, call.p)
      /\ call' = Advance /\ UNCHANGED <<heap_end, blocks, boot>>
  BY DEF MapNext
<1>2. /\ call.v < Window /\ (call.v + PageSize) % Words = call.v + PageSize
      /\ v \in Page /\ v[1] # Recursive
      /\ InAlloc => call.v < call.from + call.size /\ call.from + call.size < heap_start
  BY <1>1, CallLimits
<1>3. /\ call'.op = call.op /\ call'.v = call.v + PageSize /\ call'.end = call.end
      /\ call'.p = (call.p + PageSize) % Words /\ call'.from = call.from /\ call'.size = call.size
  BY <1>1, <1>2 DEF Advance, TypeOK, Calls
<1>4. Owned' = Owned /\ (InAlloc <=> call.op = "try") /\ (InAlloc' <=> InAlloc) /\ Pending' = Pending
  BY <1>1, <1>3 DEF Owned, InAlloc, Pending
<1>5. call.op = "must" => boot = "bootstrap" /\ blocks = {} /\ Owned = {}
  BY DEF CallInv, Owned, InAlloc
<1>6. Aligned(call.p) /\ (NoTable(v) => CanAlloc(1) /\ Spare(1))
  BY <1>1 DEF Maps, map_page
<1>7. NoTable(v) =>
        /\ heap_start # 0 /\ heap_start' = heap_start + PageSize /\ heap_start' <= heap_end
        /\ Aligned(heap_start') <=> Aligned(heap_start)
        /\ \A a \in Nat : heap_start' <= a => t < FrameOf(a)
        /\ t \notin TablesIn(mem)
  BY <1>1, <1>6, FrameForTable DEF map_page
<1>8. ~NoTable(v) => heap_start' = heap_start
  BY <1>1 DEF map_page
<1>9. heap_start <= heap_start' /\ PageSize \in Nat \ {0}
  BY <1>7, <1>8, Geometry
<1>10. NoTable(v) => FrameOf(heap_start) \notin TablesIn(mem)
  BY <1>7
<1>11. /\ mem' \in Memories /\ TablesSound(mem')
       /\ TablesIn(mem') = IF NoTable(v) THEN TablesIn(mem) \cup {t} ELSE TablesIn(mem)
       /\ \A w \in Page : w[1] # Recursive =>
            Walk(mem', w) = IF w = v THEN FrameOf(call.p) ELSE Walk(mem, w)
  BY <1>1, <1>2, <1>10, MapPageEffect DEF TableInv
<1> HIDE DEF v, t
<1>12. call.op = "try" =>
         call.p = call.v /\ Aligned(call.v) /\ Aligned(call.from) /\ Aligned(heap_start)
  <2>1. call.op = "try" => Pending \in Owned
    BY <1>4 DEF Owned
  <2>2. call.op = "try" => (Aligned(call.from) <=> Aligned(heap_start))
    BY <2>1 DEF OwnedInv, Apart, Pending
  <2>3. QED
    BY <1>6, <2>2 DEF CallInv
<1>13. HeapInv'
  BY <1>1, <1>4, <1>7, <1>8 DEF HeapInv
<1>14. CallInv'
  <2>1. CASE call.op = "must"
    <3>1. PICK r \in Videos : r.v <= call.v /\ call.end = r.end
      BY <2>1 DEF CallInv
    <3>2. r.v \in Nat
      BY InputAssumption, AddressNat
    <3>3. r.v <= call'.v /\ call'.end = r.end
      BY <1>3, <1>9, <3>1, <3>2
    <3>4. QED
      BY <1>1, <1>3, <1>4, <1>5, <2>1, <3>3 DEF CallInv, InAlloc
  <2>2. CASE call.op = "try"
    <3>1. call.p = call.v /\ call'.p = call'.v
      BY <1>2, <1>3, <1>12, <2>2
    <3>2. Aligned(call'.v) <=> Aligned(call.v)
      <4>1. call.v + PageSize = call.v + PageSize * 1
        BY <1>9
      <4>2. QED
        BY <1>3, <4>1, AlignedStep
    <3>3. call.from <= call'.v
      BY <1>3, <1>9, <2>2 DEF CallInv
    <3>4. QED
      BY <1>1, <1>3, <1>4, <1>12, <2>2, <3>1, <3>2, <3>3 DEF CallInv, InAlloc
  <2>3. QED
    BY <1>1, <2>1, <2>2
<1>15. Apart'
  <2>1. ASSUME NEW b \in Owned
        PROVE  b.addr + b.size < heap_start' /\ (Aligned(b.addr) <=> Aligned(heap_start'))
    <3>1. b.addr + b.size < heap_start /\ (Aligned(b.addr) <=> Aligned(heap_start))
      BY <2>1 DEF OwnedInv, Apart
    <3>2. b.addr \in Nat /\ b.size \in Nat
      BY <2>1, OwnedLimits
    <3>3. heap_start' \in Nat
      BY AddressNat DEF TypeOK
    <3>4. b.addr + b.size < heap_start'
      BY <1>9, <3>1, <3>2, <3>3
    <3>5. QED
      BY <1>7, <1>8, <3>1, <3>4
  <2>2. QED
    BY <1>4, <2>1 DEF OwnedInv, Apart
<1>16. OwnedInv'
  BY <1>1, <1>4, <1>15 DEF OwnedInv
<1>17. TableInv'
  <2>1. ASSUME NEW a \in Nat, heap_start' <= a
        PROVE  FrameOf(a) \notin TablesIn(mem') \ TablesIn(BootMemory)
    <3>1. heap_start' \in Nat /\ heap_start <= a
      BY <1>9, <2>1, AddressNat DEF TypeOK
    <3>2. FrameOf(a) \notin TablesIn(mem) \ TablesIn(BootMemory)
      BY <3>1 DEF TableInv
    <3>3. NoTable(v) => t < FrameOf(a)
      BY <1>7, <2>1
    <3>4. t \in Nat
      BY Geometry, DivisionRange DEF t, FrameOf
    <3>5. QED
      BY <1>11, <3>2, <3>3, <3>4
  <2>2. ASSUME NEW b \in Owned, NEW a \in b.addr .. b.addr + b.size - 1
        PROVE  FrameOf(a) \notin TablesIn(mem')
    <3>1. FrameOf(a) \notin TablesIn(mem)
      BY <2>2 DEF TableInv
    <3>2. a \in Nat /\ a < heap_start
      BY <2>2, OwnedLimits
    <3>3. Aligned(heap_start)
      BY <1>1, <1>5, <1>12, <2>2
    <3>4. FrameOf(a) < t /\ FrameOf(a) \in Nat
      BY <3>2, <3>3, FrameBelow, Geometry, DivisionRange DEF t, FrameOf
    <3>5. QED
      BY <1>11, <3>1, <3>4
  <2>3. QED
    BY <1>4, <1>11, <2>1, <2>2 DEF TableInv
<1>18. MappedInv'
  <2>1. ASSUME NEW a \in Address, PageOf(a) \in Page, PageOf(a)[1] # Recursive,
               call.op = "try", Walk(mem, PageOf(a)) = FrameOf(a) \/ FrameOf(a) = FrameOf(call.v)
        PROVE  Walk(mem', PageOf(a)) = FrameOf(a)
    <3>1. PageOf(a) = v <=> FrameOf(a) = FrameOf(call.v)
      BY PageIsFrame DEF v
    <3>2. QED
      BY <1>11, <1>12, <2>1, <3>1
  <2>2. ASSUME NEW b \in blocks, NEW a \in b.addr .. b.addr + b.size - 1
        PROVE  Walk(mem', PageOf(a)) = FrameOf(a)
    <3>1. b \in Owned /\ call.op = "try"
      BY <1>1, <1>5, <2>2 DEF Owned
    <3>2. a \in Address /\ PageOf(a) \in Page /\ PageOf(a)[1] # Recursive
      BY <2>2, <3>1, OwnedLimits
    <3>3. Walk(mem, PageOf(a)) = FrameOf(a)
      BY <2>2 DEF MappedInv
    <3>4. QED
      BY <2>1, <3>1, <3>2, <3>3
  <2>3. ASSUME call.op = "try", NEW a \in call.from .. call.from + call.size - 1, a < call'.v
        PROVE  Walk(mem', PageOf(a)) = FrameOf(a)
    <3>1. Pending \in Owned /\ a \in Pending.addr .. Pending.addr + Pending.size - 1
      BY <1>4, <2>3 DEF Owned, Pending
    <3>2. a \in Nat /\ a \in Address /\ PageOf(a) \in Page /\ PageOf(a)[1] # Recursive
      BY <3>1, OwnedLimits
    <3>3. CASE a < call.v
      <4>1. Walk(mem, PageOf(a)) = FrameOf(a)
        BY <2>3, <3>3 DEF MappedInv
      <4>2. QED
        BY <2>1, <2>3, <3>2, <4>1
    <3>4. CASE call.v <= a
      <4>1. a < call.v + PageSize
        BY <1>3, <2>3
      <4>2. FrameOf(a) = FrameOf(call.v)
        BY <1>12, <2>3, <3>2, <3>4, <4>1, OneFrame
      <4>3. QED
        BY <2>1, <2>3, <3>2, <4>2
    <3>5. QED
      BY <3>2, <3>3, <3>4
  <2>4. QED
    BY <1>1, <1>3, <2>2, <2>3 DEF MappedInv
<1>19. QED
  BY <1>13, <1>14, <1>16, <1>17, <1>18

\* map_region is undone where it went ahead; nothing is unmapped before that.
LEMMA MapFailsStep ==
  ASSUME MemoryInv, TypeOK', MapFails
  PROVE  MemoryInv'
<1> USE CallType DEF MemoryInv
<1>1. /\ call.op \in {"must", "try"} /\ ~Returning
      /\ call' = IF call.op = "try" THEN Undo(call.v) ELSE [call EXCEPT !.op = "panic"]
      /\ UNCHANGED <<mem, heap_start, heap_end, blocks, boot, tlb>>
  BY DEF MapFails
<1>2. CASE call.op = "must"
  <2>1. call'.op = "panic" /\ blocks = {} /\ boot = "bootstrap"
    BY <1>1, <1>2 DEF TypeOK, Calls, CallInv
  <2>2. Owned' = {} /\ ~InAlloc' /\ Owned = {}
    BY <1>1, <1>2, <2>1 DEF Owned, InAlloc
  <2>3. HeapInv' /\ Apart' /\ TableInv'
    BY <1>1, <2>2, QuietStep
  <2>4. CallInv' /\ OwnedInv' /\ MappedInv'
    BY <1>1, <2>1, <2>2, <2>3 DEF CallInv, OwnedInv, MappedInv
  <2>5. QED
    BY <2>3, <2>4
<1>3. CASE call.op = "try"
  <2>1. /\ call'.op = "undo" /\ call'.v = AlignDown(call.from) /\ call'.end = AlignDown(call.v)
        /\ call'.from = call.from /\ call'.size = call.size
    BY <1>1, <1>3 DEF Undo, TypeOK, Calls
  <2>2. Owned' = Owned /\ InAlloc' /\ InAlloc /\ Pending' = Pending
    BY <1>1, <1>3, <2>1 DEF Owned, InAlloc, Pending
  <2>3. HeapInv' /\ Apart' /\ TableInv'
    BY <1>1, <2>2, QuietStep
  <2>4. /\ Aligned(AlignDown(call.from)) /\ AlignDown(call.from) \in Nat
        /\ Aligned(call.from) => AlignDown(call.from) = call.from
        /\ AlignDown(call.v) \in Nat /\ AlignDown(call.v) <= call.v
    BY AlignDownFacts, AddressNat
  <2>5. call.v < call.from + call.size /\ (call.v # call.from => Aligned(call.from))
    BY <1>1, <1>3, <2>2, CallLimits DEF CallInv
  <2>6. call'.end <= call'.from + call'.size
    BY <2>1, <2>4, <2>5
  <2>7. call'.v < call'.end => Aligned(call'.from) /\ call'.from <= call'.v
    BY <2>1, <2>4, <2>5
  <2>8. boot = "kernel"
    BY <2>2 DEF CallInv
  <2>9. CallInv'
    BY <1>1, <2>1, <2>4, <2>6, <2>7, <2>8 DEF CallInv
  <2>10. OwnedInv' /\ MappedInv'
    BY <1>1, <2>1, <2>2, <2>3 DEF OwnedInv, MappedInv
  <2>11. QED
    BY <2>3, <2>9, <2>10
<1>4. QED
  BY <1>1, <1>2, <1>3

\* One page of unmap_region: it is no page of a block.
LEMMA UnmapNextStep ==
  ASSUME MemoryInv, TypeOK', UnmapNext
  PROVE  MemoryInv'
<1> USE CallType DEF MemoryInv
<1> DEFINE v == PageOf(call.v)
<1>1. /\ call.op \in {"undo", "unmap"} /\ ~Returning /\ unmap_page(v)
      /\ call' = [call EXCEPT !.v = (call.v + PageSize) % Words]
      /\ UNCHANGED <<heap_start, heap_end, blocks, boot>>
  BY DEF UnmapNext
<1>2. /\ call.v < Window /\ (call.v + PageSize) % Words = call.v + PageSize
      /\ v \in Page /\ v[1] # Recursive
      /\ InAlloc => call.v < call.from + call.size /\ call.from + call.size < heap_start
  BY <1>1, CallLimits
<1>3. /\ call'.op = call.op /\ call'.v = call.v + PageSize /\ call'.end = call.end
      /\ call'.from = call.from /\ call'.size = call.size
  BY <1>1, <1>2 DEF TypeOK, Calls
<1>4. Owned' = Owned /\ (InAlloc <=> call.op = "undo") /\ (InAlloc' <=> InAlloc) /\ Pending' = Pending
  BY <1>1, <1>3 DEF Owned, InAlloc, Pending
<1>5. /\ mem' \in Memories /\ mem'[Pd] = mem[Pd]
      /\ \A w \in Page : w[1] # Recursive => Walk(mem', w) = IF w = v THEN None ELSE Walk(mem, w)
  BY <1>1, <1>2, UnmapPageEffect DEF TableInv
<1> HIDE DEF v
<1>6. HeapInv' /\ Apart' /\ TableInv'
  BY <1>1, <1>4, <1>5, QuietStep
<1>7. call.v < call.end /\ PageSize \in Nat \ {0} /\ (Aligned(call'.v) <=> Aligned(call.v))
  <2>1. PageSize \in Nat \ {0} /\ call.v + PageSize = call.v + PageSize * 1
    BY Geometry
  <2>2. QED
    BY <1>1, <1>3, <2>1, AlignedStep DEF Returning
<1>8. CallInv'
  <2>1. CASE call.op = "undo"
    <3>1. Aligned(call.from) /\ call.from <= call.v /\ Aligned(call.v)
      BY <1>7, <2>1 DEF CallInv
    <3>2. call.from <= call'.v
      BY <1>3, <1>7, <3>1
    <3>3. boot = "kernel" /\ call.end <= call.from + call.size
      BY <1>4, <2>1 DEF CallInv
    <3>4. QED
      BY <1>1, <1>3, <1>4, <1>7, <2>1, <3>1, <3>2, <3>3 DEF CallInv
  <2>2. CASE call.op = "unmap"
    <3>1. /\ boot = "mbi" /\ Aligned(call.v) /\ blocks = {}
          /\ AlignDown(Bootstrap.v) <= call.v /\ call.end = AlignDown(Bootstrap.end)
      BY <2>2 DEF CallInv
    <3>2. AlignDown(Bootstrap.v) \in Nat
      BY InputAssumption, AlignDownFacts, AddressNat
    <3>3. AlignDown(Bootstrap.v) <= call'.v
      BY <1>3, <1>7, <3>1, <3>2
    <3>4. QED
      BY <1>1, <1>3, <1>4, <1>7, <2>2, <3>1, <3>3 DEF CallInv
  <2>3. QED
    BY <1>1, <2>1, <2>2
<1>9. OwnedInv'
  BY <1>1, <1>4, <1>6 DEF OwnedInv
<1>10. MappedInv'
  <2>1. ASSUME NEW b \in blocks, NEW a \in b.addr .. b.addr + b.size - 1
        PROVE  Walk(mem', PageOf(a)) = FrameOf(a)
    <3>1. b \in Owned /\ call.op = "undo" /\ InAlloc
      BY <1>1, <1>4, <2>1 DEF Owned, CallInv
    <3>2. Pending \in Owned /\ Pending # b
      BY <2>1, <3>1 DEF Owned, OwnedInv
    <3>3. /\ b.addr \in Nat /\ b.size \in Nat /\ a \in Nat /\ a \in Address
          /\ PageOf(a) \in Page /\ PageOf(a)[1] # Recursive
      BY <2>1, <3>1, OwnedLimits
    <3>4. b.addr + b.size <= call.from \/ call.from + call.size <= b.addr
      BY <3>1, <3>2 DEF OwnedInv, Apart, Pending
    <3>5. Aligned(call.v) /\ call.from <= call.v
      BY <1>7, <3>1 DEF CallInv
    <3>6. FrameOf(a) # FrameOf(call.v)
      <4>1. FrameOf(a) \in Nat /\ FrameOf(call.v) \in Nat
        BY <3>3, Geometry, DivisionRange DEF FrameOf
      <4>2. CASE b.addr + b.size <= call.from
        <5>1. a < call.v
          BY <2>1, <3>3, <3>5, <4>2
        <5>2. FrameOf(a) < FrameOf(call.v)
          BY <3>3, <3>5, <5>1, FrameBelow
        <5>3. QED
          BY <4>1, <5>2
      <4>3. CASE call.from + call.size <= b.addr
        <5>1. call.v < b.addr /\ b.addr <= a /\ b.size # 0
          BY <1>2, <2>1, <3>1, <3>3, <4>3
        <5>2. Aligned(b.addr)
          BY <2>1, <5>1 DEF OwnedInv
        <5>3. FrameOf(call.v) < FrameOf(b.addr) /\ FrameOf(b.addr) \in Nat
          BY <3>3, <5>1, <5>2, FrameBelow, Geometry, DivisionRange DEF FrameOf
        <5>4. FrameOf(b.addr) <= FrameOf(a)
          BY <3>3, <5>1, Geometry, DivisionMonotonic DEF FrameOf
        <5>5. QED
          BY <4>1, <5>3, <5>4
      <4>4. QED
        BY <3>4, <4>2, <4>3
    <3>7. PageOf(a) # v
      BY <3>3, <3>6, PageIsFrame DEF v
    <3>8. QED
      BY <1>5, <2>1, <3>3, <3>7 DEF MappedInv
  <2>2. QED
    BY <1>1, <1>3, <2>1 DEF MappedInv
<1>11. QED
  BY <1>6, <1>8, <1>9, <1>10

\* A region that is mapped to its end becomes a block.
LEMMA ReturnStep ==
  ASSUME MemoryInv, TypeOK', Return
  PROVE  MemoryInv'
<1> USE CallType DEF MemoryInv
<1>1. /\ call.op \in {"must", "try", "undo", "unmap"} /\ call.end <= call.v /\ call' = NoCall
      /\ blocks' = IF call.op = "try" THEN blocks \cup {Pending} ELSE blocks
      /\ UNCHANGED <<mem, heap_start, heap_end, boot, tlb>>
  BY DEF Return, Returning, Pending
<1>2. call'.op = "none" /\ ~InAlloc' /\ Owned' = blocks' /\ blocks' \subseteq Owned
  BY <1>1 DEF NoCall, InAlloc, Owned
<1>3. HeapInv' /\ Apart' /\ TableInv'
  BY <1>1, <1>2, QuietStep
<1>4. CallInv'
  BY <1>1, <1>2 DEF CallInv, InAlloc
<1>5. call.op = "try" => call.from + call.size <= call.v /\ (call.size # 0 => Aligned(call.from))
  <2>1. call.op = "try" => call.from + call.size <= call.v /\ (call.v # call.from => Aligned(call.from))
    BY <1>1 DEF CallInv
  <2>2. QED
    BY <2>1
<1>6. OwnedInv'
  <2>1. \A b \in blocks' : b.size # 0 => Aligned(b.addr)
    BY <1>1, <1>5 DEF OwnedInv, Pending
  <2>2. QED
    BY <1>2, <1>3, <2>1 DEF OwnedInv
<1>7. MappedInv'
  <2>1. ASSUME call.op = "try", NEW a \in call.from .. call.from + call.size - 1
        PROVE  Walk(mem, PageOf(a)) = FrameOf(a)
    <3>1. a < call.v
      BY <1>5, <2>1
    <3>2. QED
      BY <2>1, <3>1 DEF MappedInv
  <2>2. ASSUME NEW b \in blocks', NEW a \in b.addr .. b.addr + b.size - 1
        PROVE  Walk(mem, PageOf(a)) = FrameOf(a)
    <3>1. CASE b \in blocks
      BY <2>2, <3>1 DEF MappedInv
    <3>2. CASE b \notin blocks
      <4>1. call.op = "try" /\ b = Pending
        BY <1>1, <2>2, <3>2
      <4>2. QED
        BY <2>1, <2>2, <4>1 DEF Pending
    <3>3. QED
      BY <3>1, <3>2
  <2>3. QED
    BY <1>1, <1>2, <2>2 DEF MappedInv
<1>8. QED
  BY <1>3, <1>4, <1>6, <1>7

\* operator new takes its pages from the front of the free memory.
LEMMA AllocStep ==
  ASSUME MemoryInv, TypeOK', NEW size \in Sizes, Alloc(size), intact'
  PROVE  MemoryInv'
<1> USE CallType DEF MemoryInv
<1> DEFINE num_pages == size \div PageSize + 1
           room == PageSize * num_pages
<1>1. /\ boot = "kernel" /\ call.op = "none" /\ CanAlloc(num_pages)
      /\ heap_start' = new_heap_start(num_pages)
      /\ call' = [op |-> "try", v |-> heap_start, end |-> (heap_start + size) % Words,
                  p |-> heap_start, from |-> heap_start, size |-> size]
      /\ Spare(num_pages) /\ UNCHANGED <<mem, heap_end, blocks, boot, tlb>>
  BY DEF Alloc, Idle
<1>2. size \in Nat /\ PageSize \in Nat \ {0} /\ num_pages \in Nat \ {0}
  <2>1. size \in Nat /\ PageSize \in Nat \ {0}
    BY InputAssumption, AddressNat, Geometry
  <2>2. size \div PageSize \in Nat
    BY <2>1, DivisionRange
  <2>3. QED
    BY <2>1, <2>2
<1>3. room \in Nat /\ size < room /\ Aligned(heap_start + room) = Aligned(heap_start)
  <2>1. size = PageSize * (size \div PageSize) + (size % PageSize) /\ size % PageSize < PageSize
        /\ size % PageSize \in Nat
    BY <1>2, DivisionRange
  <2>2. room = PageSize * (size \div PageSize) + PageSize /\ PageSize * (size \div PageSize) \in Nat
    <3>1. size \div PageSize \in Nat
      BY <1>2, DivisionRange
    <3> HIDE DEF room
    <3>2. room = PageSize * (size \div PageSize + 1)
      BY DEF room
    <3>3. QED
      BY <1>2, <3>1, <3>2
  <2>3. Aligned(heap_start + room) <=> Aligned(heap_start)
    BY <1>2, AlignedStep
  <2>4. QED
    BY <1>2, <2>1, <2>2, <2>3 DEF Aligned
<1>4. heap_start # 0 /\ heap_start' <= heap_end
  BY <1>1 DEF CanAlloc
<1>5. heap_start' = heap_start + room /\ heap_start + room <= Window /\ heap_start + room < Words
  BY <1>1, <1>2, SpareLimits
<1>6. \A a \in heap_start .. heap_start + room - 1 :
        a < Window /\ FrameOf(a) \notin TablesIn(BootMemory) /\ PageOf(a) \notin KernelPages
  BY <1>1 DEF Spare
<1> HIDE DEF room, num_pages
<1>7. /\ heap_start + size < heap_start'
      /\ call'.op = "try" /\ call'.v = heap_start /\ call'.end = heap_start + size
      /\ call'.p = heap_start /\ call'.from = heap_start /\ call'.size = size
  <2>1. heap_start + size < heap_start' /\ heap_start + size < Words /\ heap_start + size \in Nat
    BY <1>2, <1>3, <1>5, Geometry
  <2>2. QED
    BY <1>1, <2>1, WordAddress
<1>8. /\ InAlloc' /\ Owned = blocks /\ Owned' = blocks \cup {Pending'}
      /\ Pending'.addr = heap_start /\ Pending'.size = size
  BY <1>1, <1>7 DEF InAlloc, Owned, Pending
<1>9. ASSUME NEW a \in Pending'.addr .. Pending'.addr + Pending'.size - 1
      PROVE  a \in Nat /\ heap_start <= a /\ a \in heap_start .. heap_start + room - 1
  BY <1>2, <1>3, <1>8, <1>9
<1>10. heap_start' \in Nat
  BY AddressNat DEF TypeOK
<1>11. HeapInv'
  BY <1>1, <1>4 DEF HeapInv
<1>12. CallInv'
  <2>1. heap_start <= heap_start
    OBVIOUS
  <2>2. QED
    BY <1>1, <1>7, <2>1 DEF CallInv, InAlloc
<1>13. ASSUME NEW b \in blocks
       PROVE  /\ b.addr \in Nat /\ b.size \in Nat /\ b.addr + b.size < heap_start
              /\ Aligned(b.addr) <=> Aligned(heap_start)
  BY <1>8, <1>13, OwnedLimits DEF OwnedInv, Apart
<1>14. Apart'
  <2>1. ASSUME NEW b \in Owned'
        PROVE  b.addr + b.size < heap_start' /\ (Aligned(b.addr) <=> Aligned(heap_start'))
    <3>1. CASE b \in blocks
      BY <1>3, <1>5, <1>13, <3>1
    <3>2. CASE b = Pending'
      BY <1>3, <1>5, <1>7, <1>8, <3>2
    <3>3. QED
      BY <1>8, <2>1, <3>1, <3>2
  <2>2. ASSUME NEW b \in Owned', NEW c \in Owned', b # c
        PROVE  b.addr + b.size <= c.addr \/ c.addr + c.size <= b.addr
    <3>1. CASE b \in blocks /\ c \in blocks
      BY <1>8, <2>2, <3>1 DEF OwnedInv, Apart
    <3>2. CASE b \in blocks /\ c = Pending'
      BY <1>8, <1>13, <3>2
    <3>3. CASE b = Pending' /\ c \in blocks
      BY <1>8, <1>13, <3>3
    <3>4. QED
      BY <1>8, <2>2, <3>1, <3>2, <3>3
  <2>3. ASSUME NEW b \in Owned', NEW a \in b.addr .. b.addr + b.size - 1
        PROVE  a < Window /\ PageOf(a) \notin KernelPages
    <3>1. CASE b \in blocks
      BY <1>8, <2>3, <3>1 DEF OwnedInv, Apart
    <3>2. CASE b = Pending'
      BY <1>6, <1>9, <2>3, <3>2
    <3>3. QED
      BY <1>8, <2>3, <3>1, <3>2
  <2>4. QED
    BY <2>1, <2>2, <2>3 DEF Apart
<1>15. OwnedInv'
  <2>1. Pending' \notin blocks
    <3>1. ASSUME Pending' \in blocks PROVE FALSE
      BY <1>2, <1>8, <1>13, <3>1
    <3>2. QED
      BY <3>1
  <2>2. QED
    BY <1>1, <1>14, <2>1 DEF OwnedInv
<1>16. TableInv'
  <2>1. ASSUME NEW a \in Nat, heap_start' <= a
        PROVE  FrameOf(a) \notin TablesIn(mem) \ TablesIn(BootMemory)
    <3>1. heap_start <= a
      BY <1>3, <1>5, <1>10, <2>1
    <3>2. QED
      BY <3>1 DEF TableInv
  <2>2. ASSUME NEW b \in Owned', NEW a \in b.addr .. b.addr + b.size - 1
        PROVE  FrameOf(a) \notin TablesIn(mem)
    <3>1. CASE b \in blocks
      BY <1>8, <2>2, <3>1 DEF TableInv
    <3>2. CASE b = Pending'
      BY <1>6, <1>9, <2>2, <3>2 DEF TableInv
    <3>3. QED
      BY <1>8, <2>2, <3>1, <3>2
  <2>3. QED
    BY <1>1, <2>1, <2>2 DEF TableInv
<1>17. MappedInv'
  BY <1>1, <1>2, <1>7 DEF MappedInv
<1>18. QED
  BY <1>11, <1>12, <1>15, <1>16, <1>17

\* What the owner of a block writes is no table.
LEMMA WriteChanges ==
  ASSUME MemoryInv, NEW b \in blocks, Write(b)
  PROVE  mem'[Pd] = mem[Pd] /\ \A w \in Page : Walk(mem', w) = Walk(mem, w)
<1> USE CallType DEF MemoryInv
<1>1. PICK a \in b.addr .. b.addr + b.size - 1 :
        LET f == Walk(mem, PageOf(a)) IN f # None /\ mem' = [mem EXCEPT ![f] = ZeroTable]
  BY DEF Write
<1>2. b \in Owned /\ Walk(mem, PageOf(a)) = FrameOf(a)
  BY DEF Owned, MappedInv
<1>3. a \in Address /\ FrameOf(a) \notin TablesIn(mem)
  BY <1>2, OwnedLimits DEF TableInv
<1>4. FrameOf(a) \in Frame \ TablesIn(mem) /\ mem' = FrameWritten(mem, FrameOf(a), ZeroTable)
  BY <1>1, <1>2, <1>3, FrameOfType DEF FrameWritten
<1>5. mem \in Memories /\ TablesSound(mem)
  BY DEF TableInv
<1>6. QED
  BY <1>4, <1>5, DataWrite, ZeroTableType

LEMMA KernelStep ==
  ASSUME MemoryInv, TypeOK', NEW b \in blocks, Free(b) \/ Write(b)
  PROVE  MemoryInv'
<1> USE CallType DEF MemoryInv
<1>1. /\ UNCHANGED <<heap_start, heap_end, call, boot>> /\ blocks' \subseteq blocks
      /\ boot = "kernel" /\ call.op = "none"
  BY DEF Free, Write, Idle
<1>2. Owned' = blocks' /\ Owned = blocks /\ ~InAlloc'
  BY <1>1 DEF Owned, InAlloc
<1>3. mem'[Pd] = mem[Pd] /\ \A w \in Page : Walk(mem', w) = Walk(mem, w)
  BY WriteChanges DEF Free
<1>4. HeapInv' /\ Apart' /\ TableInv'
  BY <1>1, <1>2, <1>3, QuietStep
<1>5. CallInv'
  BY <1>1, <1>2 DEF CallInv
<1>6. OwnedInv'
  BY <1>1, <1>2, <1>4 DEF OwnedInv
<1>7. MappedInv'
  <2>1. ASSUME NEW c \in blocks, NEW a \in c.addr .. c.addr + c.size - 1
        PROVE  Walk(mem', PageOf(a)) = FrameOf(a)
    BY <1>2, <1>3, <2>1, OwnedLimits DEF MappedInv
  <2>2. QED
    BY <1>1, <2>1 DEF MappedInv
<1>8. QED
  BY <1>4, <1>5, <1>6, <1>7

LEMMA CacheStep ==
  ASSUME MemoryInv, TypeOK', UNCHANGED <<mem, heap_start, heap_end, call, blocks, boot>>
  PROVE  MemoryInv'
<1>1. Owned' = Owned /\ InAlloc' = InAlloc /\ Pending' = Pending
  BY DEF Owned, InAlloc, Pending
<1>2. HeapInv' /\ Apart' /\ TableInv'
  BY <1>1, QuietStep
<1>3. CallInv' /\ OwnedInv' /\ MappedInv'
  BY <1>1, <1>2 DEF MemoryInv, CallInv, OwnedInv, MappedInv
<1>4. QED
  BY <1>2, <1>3 DEF MemoryInv

LEMMA NextMemory ==
  ASSUME MemoryInv, [Next]_vars, intact'
  PROVE  MemoryInv'
<1>1. TypeOK'
  BY NextType DEF MemoryInv
<1>2. CASE init_phys_alloc
  BY <1>1, <1>2, InitPhysAllocStep
<1>3. CASE MapVideo \/ UnmapBootstrap \/ UnmapMbi
  BY <1>1, <1>3, EnterKernelStep
<1>4. CASE MapNext
  BY <1>1, <1>4, MapNextStep
<1>5. CASE MapFails
  BY <1>1, <1>5, MapFailsStep
<1>6. CASE UnmapNext
  BY <1>1, <1>6, UnmapNextStep
<1>7. CASE Return
  BY <1>1, <1>7, ReturnStep
<1>8. ASSUME NEW size \in Sizes, Alloc(size) PROVE MemoryInv'
  BY <1>1, <1>8, AllocStep
<1>9. ASSUME NEW b \in blocks, Free(b) \/ Write(b) PROVE MemoryInv'
  BY <1>1, <1>9, KernelStep
<1>10. ASSUME NEW v \in Cacheable, Access(v) PROVE MemoryInv'
  BY <1>1, <1>10, CacheStep DEF Access
<1>11. CASE UNCHANGED vars
  BY <1>1, <1>11, CacheStep DEF vars
<1>12. ~PageFault
  BY DEF PageFault
<1>13. QED
  BY <1>2, <1>3, <1>4, <1>5, <1>6, <1>7, <1>8, <1>9, <1>10, <1>11, <1>12 DEF Next

\* The invariant holds as long as nothing in use is given out, whatever the loader
\* reports, whatever is asked of operator new and whenever it fails.
THEOREM MemoryInvariant == Spec => [](intact => MemoryInv)
<1>1. Init => (intact => MemoryInv)
  BY InitMemory
<1>2. (intact => MemoryInv) /\ [Next]_vars => (intact => MemoryInv)'
  BY NextMemory, IntactBefore
<1>3. QED
  BY <1>1, <1>2, PTL DEF Spec

-----------------------------------------------------------------------------
(***************************************************************************)
(* What is owned.                                                          *)
(***************************************************************************)
\* No address of a block wraps.
LEMMA BytesInLine ==
  ASSUME MemoryInv, NEW b \in Owned
  PROVE  BytesOf(b) = b.addr .. b.addr + b.size - 1
<1>1. b.addr \in Nat /\ b.size \in Nat
  BY OwnedLimits
<1>2. ASSUME NEW a \in b.addr .. b.addr + b.size - 1 PROVE a \in BytesOf(b)
  <2>1. a \in Address /\ a \in Nat /\ a - b.addr \in 0 .. b.size - 1
    BY <1>1, <1>2, OwnedLimits
  <2>2. a % Words = a /\ b.addr + (a - b.addr) = a
    BY <1>1, <2>1, WordAddress, Geometry DEF Address
  <2>3. QED
    BY <2>1, <2>2 DEF BytesOf
<1>3. ASSUME NEW k \in 0 .. b.size - 1
      PROVE  (b.addr + k) % Words \in b.addr .. b.addr + b.size - 1
  <2>1. b.addr + k \in b.addr .. b.addr + b.size - 1
    BY <1>1
  <2>2. b.addr + k \in Address /\ b.addr + k \in Nat
    BY <2>1, OwnedLimits
  <2>3. (b.addr + k) % Words = b.addr + k
    BY <2>2, WordAddress, Geometry DEF Address
  <2>4. QED
    BY <2>1, <2>3
<1>4. QED
  BY <1>2, <1>3 DEF BytesOf

LEMMA OwnedFollows ==
  ASSUME MemoryInv
  PROVE  BlocksAreOwned
<1>1. \A b \in blocks : b \in Owned /\ BytesOf(b) = b.addr .. b.addr + b.size - 1
  BY BytesInLine DEF Owned
<1>2. ASSUME NEW b \in blocks, NEW c \in blocks, b # c PROVE BytesOf(b) \cap BytesOf(c) = {}
  <2>1. /\ b.addr \in Nat /\ b.size \in Nat /\ c.addr \in Nat /\ c.size \in Nat
        /\ b.addr + b.size <= c.addr \/ c.addr + c.size <= b.addr
    BY <1>1, <1>2, OwnedLimits DEF MemoryInv, OwnedInv, Apart
  <2>2. QED
    BY SMTT(60), <1>1, <2>1
<1>3. ASSUME NEW b \in blocks, NEW a \in BytesOf(b)
      PROVE  a < heap_start /\ Walk(mem, PageOf(a)) = FrameOf(a)
  <2>1. a \in b.addr .. b.addr + b.size - 1 /\ b.addr \in Nat /\ b.size \in Nat
        /\ b.addr + b.size < heap_start /\ heap_start \in Nat
    BY <1>1, <1>3, OwnedLimits, CallType DEF MemoryInv
  <2>2. QED
    BY <2>1 DEF MemoryInv, MappedInv
<1>4. blocks # {} => heap_start <= heap_end
  BY DEF MemoryInv, HeapInv, Owned
<1>5. QED
  BY <1>2, <1>3, <1>4 DEF BlocksAreOwned

\* Until something in use is given out, operator new never hands out a byte twice, nor
\* one outside the heap, and what it hands out is mapped at its own address until it
\* is deleted (alloc.cpp:16), whatever heap the loader reports and wherever it lies.
THEOREM NewIsOwned == Spec => []BlocksAreOwned
<1>1. (intact => MemoryInv) => BlocksAreOwned
  BY OwnedFollows DEF BlocksAreOwned
<1>2. Spec => [](intact => MemoryInv)
  BY MemoryInvariant
<1>3. QED
  BY <1>1, <1>2, PTL

LEMMA ApartFollows ==
  ASSUME MemoryInv
  PROVE  TablesApart
<1>1. TablesSound(mem)
  BY DEF MemoryInv, TableInv
<1>2. \A b \in blocks : \A a \in BytesOf(b) : FrameOf(a) \notin TablesIn(mem)
  <2>1. \A b \in blocks : b \in Owned /\ BytesOf(b) = b.addr .. b.addr + b.size - 1
    BY BytesInLine DEF Owned
  <2>2. QED
    BY <2>1 DEF MemoryInv, TableInv
<1>3. \A a \in heap_start .. heap_end - 1 : FrameOf(a) \notin TablesIn(mem) \ TablesIn(BootMemory)
  <2>1. \A a \in heap_start .. heap_end - 1 : a \in Nat /\ heap_start <= a
    BY CallType DEF MemoryInv
  <2>2. QED
    BY <2>1 DEF MemoryInv, TableInv
<1>4. QED
  BY <1>1, <1>2, <1>3 DEF TablesApart, TablesSound

\* Until then no write to a block changes a translation: the frames map_page takes for
\* its tables are nobody's, also those of a map_region that failed half-way.
THEOREM TablesAreNobodys == Spec => []TablesApart
<1>1. (intact => MemoryInv) => TablesApart
  BY ApartFollows DEF TablesApart
<1>2. Spec => [](intact => MemoryInv)
  BY MemoryInvariant
<1>3. QED
  BY <1>1, <1>2, PTL

-----------------------------------------------------------------------------
(***************************************************************************)
(* What a step does to the translation: nothing, or it maps the page of    *)
(* the call, or it unmaps one page.                                        *)
(***************************************************************************)
Unchanged == \A w \in Page : Walk(mem', w) = Walk(mem, w)
OnePage(v, f) ==
  /\ \A i \in Index : mem[Pd][i] # None => mem'[Pd][i] = mem[Pd][i]
  /\ \A w \in Page : w[1] # Recursive => Walk(mem', w) = IF w = v THEN f ELSE Walk(mem, w)

LEMMA MapsOnePage ==
  ASSUME MemoryInv, MapNext, intact'
  PROVE  /\ PageOf(call.v) \in Page /\ PageOf(call.v)[1] # Recursive
         /\ OnePage(PageOf(call.v), FrameOf(call.p))
<1> USE CallType DEF MemoryInv
<1> DEFINE v == PageOf(call.v)
<1>1. /\ call.op \in {"must", "try"} /\ ~Returning /\ Maps(v, call.p) /\ map_page(v, call.p)
  BY DEF MapNext
<1>2. v \in Page /\ v[1] # Recursive
  BY <1>1, CallLimits
<1>3. NoTable(v) => FrameOf(heap_start) \notin TablesIn(mem)
  <2>1. NoTable(v) => CanAlloc(1) /\ Spare(1)
    BY <1>1 DEF Maps, map_page
  <2>2. QED
    BY <2>1, FrameForTable
<1>4. QED
  BY <1>1, <1>2, <1>3, MapPageEffect DEF OnePage, TableInv

LEMMA UnmapsOnePage ==
  ASSUME MemoryInv, NEW a \in Address, a < Window, unmap_page(PageOf(a))
  PROVE  /\ PageOf(a) \in Page /\ PageOf(a)[1] # Recursive
         /\ OnePage(PageOf(a), None)
<1>1. PageOf(a) \in Page /\ PageOf(a)[1] # Recursive
  BY PageOfType, BelowWindow
<1>2. QED
  BY <1>1, UnmapPageEffect DEF MemoryInv, TableInv, OnePage

LEMMA Translation ==
  ASSUME MemoryInv, [Next]_vars, intact'
  PROVE  \/ Unchanged
         \/ MapNext /\ OnePage(PageOf(call.v), FrameOf(call.p))
         \/ UnmapNext /\ OnePage(PageOf(call.v), None)
         \/ UnmapMbi /\ OnePage(PageOf(Mbi), None)
<1>1. CASE UNCHANGED mem
  BY <1>1 DEF Unchanged
<1>2. CASE MapNext
  BY <1>2, MapsOnePage
<1>3. CASE UnmapNext
  <2>1. call.op \in {"must", "try", "undo", "unmap"} /\ ~Returning /\ unmap_page(PageOf(call.v))
    BY <1>3 DEF UnmapNext
  <2>2. call.v < Window /\ call.v \in Address
    BY <2>1, CallLimits, CallType DEF MemoryInv
  <2>3. QED
    BY <1>3, <2>1, <2>2, UnmapsOnePage
<1>4. CASE UnmapMbi
  BY <1>4, InputAssumption, RegionAssumption, UnmapsOnePage DEF UnmapMbi
<1>5. ASSUME NEW b \in blocks, Write(b) PROVE Unchanged
  BY <1>5, WriteChanges DEF Unchanged
<1>6. QED
  BY <1>1, <1>2, <1>3, <1>4, <1>5
     DEF Next, vars, init_phys_alloc, MapVideo, UnmapBootstrap, MapFails, PageFault, Return,
         Alloc, Free, Access

-----------------------------------------------------------------------------
(***************************************************************************)
(* The kernel's own pages.                                                 *)
(***************************************************************************)
LEMMA KernelPagesKept ==
  ASSUME MemoryInv, intact, KernelStaysMapped, NEW v \in Page, NEW f, OnePage(v, f),
         v \notin KernelPages
  PROVE  KernelStaysMapped'
<1>1. mem \in Memories /\ BootMemory \in Memories /\ TablesSound(mem)
  BY CallType, BootAssumption DEF MemoryInv, TableInv, Memories
<1>2. ASSUME NEW w \in KernelPages PROVE Walk(mem', w) = Walk(BootMemory, w)
  <2>1. w \in Page /\ w # v /\ Walk(BootMemory, w) # None /\ Walk(mem, w) = Walk(BootMemory, w)
    BY <1>2 DEF KernelPages, KernelStaysMapped
  <2>2. CASE w[1] # Recursive
    BY <2>1, <2>2 DEF OnePage
  <2>3. CASE w[1] = Recursive
    <3>1. w[2] \in Index /\ Walk(mem, w) = mem[Pd][w[2]] /\ mem[Pd][Recursive] = Pd
      BY <1>1, <2>1, <2>3, Geometry DEF Page, Walk, TablesSound
    <3>2. mem'[Pd][Recursive] = Pd /\ mem'[Pd][w[2]] = mem[Pd][w[2]]
      BY <2>1, <3>1, Geometry DEF OnePage
    <3>3. Walk(mem', w) = mem'[Pd][w[2]]
      BY <2>3, <3>2, Geometry DEF Walk
    <3>4. QED
      BY <2>1, <3>1, <3>2, <3>3
  <2>4. QED
    BY <2>2, <2>3
<1>3. QED
  BY <1>2 DEF KernelStaysMapped

\* The pages a call on a region maps or unmaps are not the kernel's.
LEMMA CallBesideKernel ==
  ASSUME MemoryInv, ~Returning,
         call.op \in {"must", "try", "undo", "unmap"}
  PROVE  PageOf(call.v) \notin KernelPages
<1> USE CallType DEF MemoryInv
<1>1. call.v < call.end
  BY DEF Returning
<1>2. CASE InAlloc
  <2>1. Pending \in Owned /\ call.from <= call.v
    BY <1>1, <1>2 DEF Owned, CallInv, InAlloc
  <2>2. call.v \in Pending.addr .. Pending.addr + Pending.size - 1
    BY <1>2, <2>1, CallLimits DEF Pending
  <2>3. QED
    BY <2>1, <2>2 DEF OwnedInv, Apart
<1>3. CASE call.op = "must"
  <2>1. PICK r \in Videos : r.v <= call.v /\ call.end = r.end
    BY <1>3 DEF CallInv
  <2>2. r.v \in Nat
    BY InputAssumption, AddressNat
  <2>3. PageOf(call.v) \in PagesOf(r)
    BY <1>1, <2>1, <2>2 DEF PagesOf
  <2>4. QED
    BY <2>3, RegionAssumption
<1>4. CASE call.op = "unmap"
  <2> DEFINE b == Bootstrap.v
             e == Bootstrap.end
  <2>1. b \in Address /\ e \in Address /\ b \in Nat /\ e \in Nat
    BY InputAssumption, AddressNat
  <2>2. Aligned(call.v) /\ AlignDown(b) <= call.v /\ call.v < AlignDown(e)
    BY <1>1, <1>4 DEF CallInv
  <2>3. /\ AlignDown(b) \in Nat /\ b < AlignDown(b) + PageSize /\ Aligned(AlignDown(b))
        /\ AlignDown(b) \in Address /\ FrameOf(AlignDown(b)) = FrameOf(b)
    BY <2>1, AlignDownFacts, AddressNat
  <2>4. /\ AlignDown(e) \in Nat /\ AlignDown(e) <= e /\ Aligned(AlignDown(e))
        /\ FrameOf(AlignDown(e)) = FrameOf(e)
    BY <2>1, AlignDownFacts, AddressNat
  <2> HIDE DEF b, e
  <2>5. \E a \in b .. e - 1 : PageOf(a) = PageOf(call.v)
    <3>1. CASE b <= call.v
      BY <2>1, <2>2, <2>4, <3>1
    <3>2. CASE call.v < b
      <4>1. FrameOf(call.v) = FrameOf(b)
        BY <2>1, <2>2, <2>3, <3>2, OneFrame, Geometry
      <4>2. PageOf(b) = PageOf(call.v)
        BY <2>1, <4>1, PageIsFrame
      <4>3. FrameOf(call.v) < FrameOf(e)
        BY <2>2, <2>4, FrameBelow
      <4>4. e <= b => FrameOf(e) <= FrameOf(b)
        BY <2>1, FrameMonotonic
      <4>5. FrameOf(b) \in Nat /\ FrameOf(e) \in Nat
        BY <2>1, FrameOfType, Geometry DEF Frame
      <4>6. b < e
        BY <2>1, <4>1, <4>3, <4>4, <4>5
      <4>7. QED
        BY <2>1, <4>2, <4>6
    <3>3. QED
      BY <2>1, <3>1, <3>2
  <2>6. PageOf(call.v) \in PagesOf(Bootstrap)
    BY <2>5 DEF PagesOf, b, e
  <2>7. QED
    BY <2>6 DEF KernelPages, GivenUp
<1>5. QED
  BY <1>2, <1>3, <1>4 DEF InAlloc

LEMMA NextKernel ==
  ASSUME MemoryInv, KernelStaysMapped, [Next]_vars, intact'
  PROVE  KernelStaysMapped'
<1>0. intact
  BY IntactBefore
<1>1. CASE Unchanged
  BY <1>0, <1>1 DEF Unchanged, KernelStaysMapped, KernelPages
<1>2. CASE MapNext /\ OnePage(PageOf(call.v), FrameOf(call.p))
  <2>1. call.op \in {"must", "try", "undo", "unmap"} /\ ~Returning
    BY <1>2 DEF MapNext
  <2>2. PageOf(call.v) \notin KernelPages /\ PageOf(call.v) \in Page
    BY <2>1, CallBesideKernel, CallLimits
  <2>3. QED
    BY <1>0, <1>2, <2>2, KernelPagesKept
<1>3. CASE UnmapNext /\ OnePage(PageOf(call.v), None)
  <2>1. call.op \in {"must", "try", "undo", "unmap"} /\ ~Returning
    BY <1>3 DEF UnmapNext
  <2>2. PageOf(call.v) \notin KernelPages /\ PageOf(call.v) \in Page
    BY <2>1, CallBesideKernel, CallLimits
  <2>3. QED
    BY <1>0, <1>3, <2>2, KernelPagesKept
<1>4. CASE UnmapMbi /\ OnePage(PageOf(Mbi), None)
  <2>1. PageOf(Mbi) \in Page /\ PageOf(Mbi) \notin KernelPages
    BY InputAssumption, PageOfType DEF KernelPages, GivenUp
  <2>2. QED
    BY <1>0, <1>4, <2>1, KernelPagesKept
<1>5. QED
  BY <1>1, <1>2, <1>3, <1>4, Translation

\* Until something in use is given out the kernel never unmaps itself nor maps anything
\* over itself (paging.cpp:44-107).
THEOREM KernelIsKept == Spec => []KernelStaysMapped
<1>1. Init => KernelStaysMapped
  BY DEF Init, KernelStaysMapped
<1>2. (intact => MemoryInv) /\ KernelStaysMapped /\ [Next]_vars => KernelStaysMapped'
  <2>1. SUFFICES ASSUME intact => MemoryInv, KernelStaysMapped, [Next]_vars, intact'
                 PROVE  KernelStaysMapped'
    BY DEF KernelStaysMapped
  <2>2. QED
    BY <2>1, IntactBefore, NextKernel
<1>3. Spec => [](intact => MemoryInv)
  BY MemoryInvariant
<1>4. QED
  BY <1>1, <1>2, <1>3, PTL DEF Spec

-----------------------------------------------------------------------------
(***************************************************************************)
(* The refinement: the tables are a flat map of the pages below the window.*)
(***************************************************************************)
LEMMA FlatType ==
  ASSUME TypeOK
  PROVE  Flat \in [(Index \ {Recursive}) \X Index -> Frame \cup {None}]
<1>1. mem \in Memories
  BY CallType
<1>2. ASSUME NEW v \in (Index \ {Recursive}) \X Index PROVE Walk(mem, v) \in Frame \cup {None}
  BY <1>1, WalkType DEF Page
<1>3. QED
  BY <1>2 DEF Flat

LEMMA FlatChange ==
  ASSUME NEW v \in Page, v[1] # Recursive, NEW f, OnePage(v, f)
  PROVE  v \in (Index \ {Recursive}) \X Index /\ Flat' = [Flat EXCEPT ![v] = f]
<1>1. v \in (Index \ {Recursive}) \X Index
  BY DEF Page
<1>2. \A w \in (Index \ {Recursive}) \X Index : w \in Page /\ w[1] # Recursive
  BY DEF Page
<1>3. \A w \in (Index \ {Recursive}) \X Index : Walk(mem', w) = IF w = v THEN f ELSE Walk(mem, w)
  BY <1>2 DEF OnePage
<1>4. QED
  BY <1>1, <1>3 DEF Flat

LEMMA NextFlat ==
  ASSUME MemoryInv, [Next]_vars, intact'
  PROVE  \/ UNCHANGED Flat
         \/ \E v \in (Index \ {Recursive}) \X Index :
              Space!Unmap(v) \/ \E f \in Frame : Space!Map(v, f)
<1> USE CallType DEF MemoryInv
<1>1. CASE Unchanged
  <2>1. \A w \in (Index \ {Recursive}) \X Index : Walk(mem', w) = Walk(mem, w)
    BY <1>1 DEF Unchanged, Page
  <2>2. QED
    BY <2>1 DEF Flat
<1>2. CASE MapNext /\ OnePage(PageOf(call.v), FrameOf(call.p))
  <2>1. PageOf(call.v) \in Page /\ PageOf(call.v)[1] # Recursive /\ FrameOf(call.p) \in Frame
    BY <1>2, MapsOnePage, FrameOfType
  <2>2. /\ PageOf(call.v) \in (Index \ {Recursive}) \X Index
        /\ Space!Map(PageOf(call.v), FrameOf(call.p))
    BY <1>2, <2>1, FlatChange DEF Space!Map
  <2>3. QED
    BY <2>1, <2>2
<1>3. CASE UnmapNext /\ OnePage(PageOf(call.v), None)
  <2>1. call.op \in {"must", "try", "undo", "unmap"} /\ ~Returning
    BY <1>3 DEF UnmapNext
  <2>2. PageOf(call.v) \in Page /\ PageOf(call.v)[1] # Recursive
    BY <2>1, CallLimits
  <2>3. PageOf(call.v) \in (Index \ {Recursive}) \X Index /\ Space!Unmap(PageOf(call.v))
    BY <1>3, <2>2, FlatChange DEF Space!Unmap
  <2>4. QED
    BY <2>3
<1>4. CASE UnmapMbi /\ OnePage(PageOf(Mbi), None)
  <2>1. PageOf(Mbi) \in Page /\ PageOf(Mbi)[1] # Recursive
    BY InputAssumption, RegionAssumption, PageOfType, BelowWindow
  <2>2. PageOf(Mbi) \in (Index \ {Recursive}) \X Index /\ Space!Unmap(PageOf(Mbi))
    BY <1>4, <2>1, FlatChange DEF Space!Unmap
  <2>3. QED
    BY <2>2 DEF Space!SpaceNext
<1>5. QED
  BY <1>1, <1>2, <1>3, <1>4, Translation

\* The two levels of tables, reached through their recursive entry and allocated on
\* demand, implement the flat map of paging.hpp: until the memory of a table is given
\* out a step changes one page at most.
THEOREM TablesAreFlat == Spec => IsFlat
<1>1. Init => Space!SpaceInit
  BY InitType, FlatType DEF Init, Space!SpaceInit
<1>2. (intact => MemoryInv) /\ [Next]_vars => [Space!SpaceNext]_<<Flat, intact>>
  <2>1. SUFFICES ASSUME intact => MemoryInv, [Next]_vars
                 PROVE  Space!SpaceNext
    OBVIOUS
  <2>2. QED
    BY <2>1, IntactBefore, NextFlat DEF Space!SpaceNext
<1>3. Spec => [](intact => MemoryInv)
  BY MemoryInvariant
<1>4. QED
  BY <1>1, <1>2, <1>3, PTL DEF Spec, IsFlat, Space!SpaceSpec

-----------------------------------------------------------------------------
(***************************************************************************)
(* A request that fails.                                                   *)
(***************************************************************************)
\* Memory still to be allocated is unmapped, and so is a block being mapped or undone,
\* but for the part of it that was mapped and is not undone yet, and but for what was
\* in use before there was a block, as far as map_region does not come to it.
Outstanding(a) == \/ call.op = "try" /\ a < call.v
                  \/ call.op = "undo" /\ call.v <= a /\ a < call.end
Untouched(a) == PageOf(a) \in InUse /\ (call.op = "undo" => call.end <= a)
CleanInv ==
  /\ \A a \in Address :
       heap_start <= a /\ a < Window => Walk(mem, PageOf(a)) = None \/ PageOf(a) \in InUse
  /\ InAlloc => \A a \in call.from .. call.from + call.size - 1 :
                  Outstanding(a) \/ Walk(mem, PageOf(a)) = None \/ Untouched(a)

\* The bytes of the request in progress.
LEMMA PendingLimits ==
  ASSUME MemoryInv, InAlloc, NEW a \in call.from .. call.from + call.size - 1
  PROVE  a \in Nat /\ a \in Address /\ PageOf(a) \in Page /\ PageOf(a)[1] # Recursive
<1>1. Pending \in Owned /\ a \in Pending.addr .. Pending.addr + Pending.size - 1
  BY DEF Owned, Pending
<1>2. QED
  BY <1>1, OwnedLimits

LEMMA CleanMapNext ==
  ASSUME MemoryInv, CleanInv, MapNext, TypeOK', intact'
  PROVE  CleanInv'
<1> USE CallType DEF MemoryInv
<1> DEFINE v == PageOf(call.v)
<1>1. /\ call.op \in {"must", "try"} /\ ~Returning /\ Aligned(call.p) /\ call' = Advance
      /\ (NoTable(v) => CanAlloc(1) /\ Spare(1)) /\ map_page(v, call.p)
  BY DEF MapNext, Maps, map_page
<1>2. /\ v \in Page /\ (call.v + PageSize) % Words = call.v + PageSize
      /\ InAlloc => call.v < call.from + call.size /\ call.from + call.size < heap_start
  BY <1>1, CallLimits
<1>3. \A w \in Page : w[1] # Recursive => Walk(mem', w) = IF w = v THEN FrameOf(call.p) ELSE Walk(mem, w)
  BY MapsOnePage DEF OnePage
<1>4. /\ call'.op = call.op /\ call'.v = call.v + PageSize
      /\ call'.from = call.from /\ call'.size = call.size
  BY <1>1, <1>2 DEF Advance, TypeOK, Calls
<1>5. heap_start <= heap_start' /\ heap_start' \in Nat
  BY <1>1, FrameForTable, Geometry, AddressNat DEF map_page, TypeOK
<1>6. call.op = "try" => call.p = call.v /\ Aligned(call.v) /\ Aligned(heap_start)
  <2>1. call.op = "try" => Pending \in Owned
    BY DEF Owned, InAlloc
  <2>2. call.op = "try" => (Aligned(call.from) <=> Aligned(heap_start))
    BY <2>1 DEF OwnedInv, Apart, Pending
  <2>3. QED
    BY <1>1, <2>2 DEF CallInv
<1> HIDE DEF v
<1>7. ASSUME NEW a \in Address, heap_start' <= a, a < Window
      PROVE  Walk(mem', PageOf(a)) = None \/ PageOf(a) \in InUse
  <2>1. a \in Nat /\ PageOf(a) \in Page /\ PageOf(a)[1] # Recursive
    BY <1>7, PageOfType, BelowWindow, AddressNat
  <2>2. heap_start <= a
    BY <1>5, <1>7, <2>1
  <2>3. Walk(mem, PageOf(a)) = None \/ PageOf(a) \in InUse
    BY <1>7, <2>2 DEF CleanInv
  <2>4. PageOf(a) # v \/ PageOf(a) \in InUse
    <3>1. CASE call.op = "must"
      <4>1. PICK r \in Videos : r.v <= call.v /\ call.end = r.end
        BY <3>1 DEF CallInv
      <4>2. r.v \in Nat
        BY InputAssumption, AddressNat
      <4>3. v \in PagesOf(r)
        BY <1>1, <4>1, <4>2 DEF PagesOf, Returning, v
      <4>4. QED
        BY <4>3 DEF InUse
    <3>2. CASE call.op = "try"
      <4>1. call.v < heap_start
        BY <1>2, <3>2 DEF InAlloc
      <4>2. FrameOf(call.v) < FrameOf(heap_start)
        BY <1>6, <3>2, <4>1, FrameBelow
      <4>3. FrameOf(heap_start) <= FrameOf(a)
        BY <2>2, FrameMonotonic
      <4>4. FrameOf(call.v) \in Nat /\ FrameOf(a) \in Nat /\ FrameOf(heap_start) \in Nat
        BY <2>1, Geometry, DivisionRange DEF FrameOf
      <4>5. FrameOf(a) # FrameOf(call.v)
        BY <4>2, <4>3, <4>4
      <4>6. QED
        BY <4>5, PageIsFrame DEF v
    <3>3. QED
      BY <1>1, <3>1, <3>2
  <2>5. QED
    BY <1>3, <2>1, <2>3, <2>4
<1>8. ASSUME InAlloc', NEW a \in call'.from .. call'.from + call'.size - 1, ~(a < call'.v)
      PROVE  Walk(mem', PageOf(a)) = None \/ PageOf(a) \in InUse
  <2>1. InAlloc /\ call.op = "try" /\ a \in call.from .. call.from + call.size - 1
    BY <1>1, <1>4, <1>8 DEF InAlloc
  <2>2. a \in Nat /\ a \in Address /\ PageOf(a) \in Page /\ PageOf(a)[1] # Recursive
    BY <2>1, PendingLimits
  <2>3. PageSize \in Nat \ {0} /\ call.v + PageSize <= a /\ call.v + PageSize = call.v + PageSize * 1
    BY <1>4, <1>8, <2>2, Geometry
  <2>4. Walk(mem, PageOf(a)) = None \/ PageOf(a) \in InUse
    BY <2>1, <2>2, <2>3 DEF CleanInv, Outstanding, Untouched
  <2>5. FrameOf(call.v + PageSize) = FrameOf(call.v) + 1
    BY <2>3, FrameStep
  <2>6. FrameOf(call.v + PageSize) <= FrameOf(a)
    <3>1. call.v + PageSize \in Nat
      BY <2>3
    <3>2. QED
      BY <2>2, <2>3, <3>1, DivisionMonotonic DEF FrameOf
  <2>7. FrameOf(call.v) \in Nat /\ FrameOf(a) \in Nat
    BY <2>2, <2>3, DivisionRange DEF FrameOf
  <2>8. FrameOf(a) # FrameOf(call.v)
    BY <2>5, <2>6, <2>7
  <2>9. PageOf(a) # v
    BY <2>2, <2>8, PageIsFrame DEF v
  <2>10. QED
    BY <1>3, <2>2, <2>4, <2>9
<1>9. InAlloc' => call'.op = "try"
  BY <1>1, <1>4 DEF InAlloc
<1>10. QED
  BY <1>7, <1>8, <1>9 DEF CleanInv, Outstanding, Untouched

LEMMA CleanUnmapNext ==
  ASSUME MemoryInv, CleanInv, UnmapNext, OnePage(PageOf(call.v), None)
  PROVE  CleanInv'
<1> USE CallType DEF MemoryInv
<1>1. /\ call.op \in {"undo", "unmap"} /\ ~Returning /\ UNCHANGED <<heap_start, heap_end>>
      /\ call' = [call EXCEPT !.v = (call.v + PageSize) % Words]
  BY DEF UnmapNext
<1>2. (call.v + PageSize) % Words = call.v + PageSize
  BY <1>1, CallLimits
<1>3. /\ call'.op = call.op /\ call'.v = call.v + PageSize /\ call'.end = call.end
      /\ call'.from = call.from /\ call'.size = call.size
  BY <1>1, <1>2 DEF TypeOK, Calls
<1>4. ASSUME NEW a \in Address, heap_start <= a, a < Window
      PROVE  Walk(mem', PageOf(a)) = None \/ PageOf(a) \in InUse
  BY <1>4, PageOfType, BelowWindow DEF OnePage, CleanInv
<1>5. ASSUME InAlloc, NEW a \in call.from .. call.from + call.size - 1
      PROVE  \/ call.op = "undo" /\ call.v + PageSize <= a /\ a < call.end
             \/ Walk(mem', PageOf(a)) = None
             \/ Untouched(a)
  <2>1. a \in Nat /\ a \in Address /\ PageOf(a) \in Page /\ PageOf(a)[1] # Recursive
    BY <1>5, PendingLimits
  <2>2. PageSize \in Nat \ {0} /\ call.op = "undo" /\ Aligned(call.v)
    BY <1>1, <1>5, Geometry DEF InAlloc, CallInv
  <2>3. CASE Walk(mem, PageOf(a)) = None
    BY <2>1, <2>3 DEF OnePage
  <2>4. CASE call.v <= a /\ a < call.end /\ a < call.v + PageSize
    <3>1. FrameOf(a) = FrameOf(call.v)
      BY <2>1, <2>2, <2>4, OneFrame
    <3>2. PageOf(a) = PageOf(call.v)
      BY <2>1, <3>1, PageIsFrame
    <3>3. QED
      BY <2>1, <3>2 DEF OnePage
  <2>5. CASE call.v <= a /\ a < call.end /\ call.v + PageSize <= a
    BY <2>2, <2>5
  <2>6. QED
    BY <1>5, <2>1, <2>2, <2>3, <2>4, <2>5 DEF CleanInv, Outstanding
<1>6. QED
  BY <1>1, <1>3, <1>4, <1>5 DEF CleanInv, InAlloc, Outstanding, Untouched

LEMMA CleanMapFails ==
  ASSUME MemoryInv, CleanInv, MapFails
  PROVE  CleanInv'
<1> USE CallType DEF MemoryInv
<1>1. /\ call.op \in {"must", "try"} /\ UNCHANGED <<mem, heap_start, heap_end>>
      /\ call' = IF call.op = "try" THEN Undo(call.v) ELSE [call EXCEPT !.op = "panic"]
  BY DEF MapFails
<1>2. CASE call.op = "must"
  <2>1. ~InAlloc'
    BY <1>1, <1>2 DEF InAlloc, TypeOK, Calls
  <2>2. QED
    BY <1>1, <2>1 DEF CleanInv
<1>3. CASE call.op = "try"
  <2>1. /\ call'.op = "undo" /\ call'.v = AlignDown(call.from) /\ call'.end = AlignDown(call.v)
        /\ call'.from = call.from /\ call'.size = call.size
    BY <1>1, <1>3 DEF Undo, TypeOK, Calls
  <2>2. ASSUME NEW a \in call.from .. call.from + call.size - 1, a < call.v
        PROVE  call'.v <= a /\ a < call'.end
    <3>1. call.v # call.from /\ a \in Nat
      BY <2>2
    <3>2. Aligned(call.from) /\ Aligned(call.v)
      BY <1>3, <3>1 DEF CallInv
    <3>3. AlignDown(call.from) = call.from /\ AlignDown(call.v) = call.v
      BY <3>2, AlignDownFacts
    <3>4. QED
      BY <2>1, <2>2, <3>1, <3>3
  <2>3. ASSUME NEW a \in call.from .. call.from + call.size - 1, ~(a < call.v)
        PROVE  call'.end <= a
    <3>1. AlignDown(call.v) <= call.v /\ AlignDown(call.v) \in Nat
      BY AlignDownFacts, AddressNat
    <3>2. QED
      BY <2>1, <2>3, <3>1
  <2>4. InAlloc /\ InAlloc'
    BY <1>3, <2>1 DEF InAlloc
  <2>5. ASSUME NEW a \in call.from .. call.from + call.size - 1
        PROVE  Outstanding(a)' \/ Walk(mem', PageOf(a)) = None \/ Untouched(a)'
    <3>1. CASE a < call.v
      BY <2>1, <2>2, <3>1 DEF Outstanding
    <3>2. CASE ~(a < call.v)
      <4>1. Walk(mem, PageOf(a)) = None \/ PageOf(a) \in InUse
        BY <1>3, <2>4, <2>5, <3>2 DEF CleanInv, Outstanding, Untouched
      <4>2. QED
        BY <1>1, <2>1, <2>3, <2>5, <3>2, <4>1 DEF Untouched
    <3>3. QED
      BY <3>1, <3>2
  <2>6. QED
    BY <1>1, <2>1, <2>4, <2>5 DEF CleanInv
<1>4. QED
  BY <1>1, <1>2, <1>3

LEMMA CleanAlloc ==
  ASSUME MemoryInv, CleanInv, MemoryInv', NEW size \in Sizes, Alloc(size)
  PROVE  CleanInv'
<1> USE CallType DEF MemoryInv
<1>1. /\ UNCHANGED mem
      /\ call'.op = "try" /\ call'.v = heap_start /\ call'.from = heap_start /\ call'.size = size
  BY DEF Alloc, CanAlloc
<1>2. size \in Nat /\ heap_start' \in Nat
  BY InputAssumption, AddressNat DEF TypeOK
<1>3. InAlloc' /\ Pending'.addr = heap_start /\ Pending'.size = size /\ Pending' \in Owned'
  BY <1>1 DEF InAlloc, Pending, Owned
<1>4. heap_start + size < heap_start'
  BY <1>1, <1>3 DEF OwnedInv, Apart
<1>5. \A a \in Address :
        heap_start <= a /\ a < Window => Walk(mem', PageOf(a)) = None \/ PageOf(a) \in InUse
  BY <1>1 DEF CleanInv
<1>6. \A a \in Address : heap_start' <= a => heap_start <= a
  BY <1>2, <1>4, AddressNat
<1>7. ASSUME NEW a \in call'.from .. call'.from + call'.size - 1
      PROVE  a \in Address /\ heap_start <= a /\ a < Window
  <2>1. a \in Pending'.addr .. Pending'.addr + Pending'.size - 1
    BY <1>1, <1>3, <1>7
  <2>2. a < Window
    BY <1>3, <2>1 DEF OwnedInv, Apart
  <2>3. QED
    BY <1>1, <1>2, <1>7, <2>2, Geometry DEF Address
<1>8. QED
  BY <1>1, <1>5, <1>6, <1>7 DEF CleanInv, Untouched

LEMMA NextClean ==
  ASSUME MemoryInv, CleanInv, [Next]_vars, MemoryInv', intact'
  PROVE  CleanInv'
<1> USE CallType DEF MemoryInv
<1>1. CASE init_phys_alloc
  <2>1. ~InAlloc' /\ mem' = BootMemory
    BY <1>1 DEF init_phys_alloc, Idle, InAlloc, NoCall, CallInv
  <2>2. \A a \in Address : Walk(BootMemory, PageOf(a)) = None \/ PageOf(a) \in InUse
    BY PageOfType DEF InUse
  <2>3. QED
    BY <2>1, <2>2 DEF CleanInv
<1>2. CASE MapNext
  BY <1>2, CleanMapNext
<1>3. CASE UnmapNext
  <2>1. OnePage(PageOf(call.v), None)
    <3>1. call.op \in {"must", "try", "undo", "unmap"} /\ ~Returning /\ unmap_page(PageOf(call.v))
      BY <1>3 DEF UnmapNext
    <3>2. call.v < Window /\ call.v \in Address
      BY <3>1, CallLimits
    <3>3. QED
      BY <3>1, <3>2, UnmapsOnePage
  <2>2. QED
    BY <1>3, <2>1, CleanUnmapNext
<1>4. CASE UnmapMbi
  <2>1. OnePage(PageOf(Mbi), None)
    BY <1>4, InputAssumption, RegionAssumption, UnmapsOnePage DEF UnmapMbi
  <2>2. ~InAlloc' /\ UNCHANGED <<heap_start, heap_end>>
    BY <1>4 DEF UnmapMbi, Idle, InAlloc
  <2>3. ASSUME NEW a \in Address, heap_start <= a, a < Window
        PROVE  Walk(mem', PageOf(a)) = None \/ PageOf(a) \in InUse
    BY <2>1, <2>3, PageOfType, BelowWindow DEF OnePage, CleanInv
  <2>4. QED
    BY <2>2, <2>3 DEF CleanInv
<1>5. CASE MapFails
  BY <1>5, CleanMapFails
<1>6. ASSUME NEW size \in Sizes, Alloc(size) PROVE CleanInv'
  BY <1>6, CleanAlloc
<1>7. ASSUME Unchanged, UNCHANGED <<heap_start, heap_end>>, call'.op \notin {"try", "undo"}
      PROVE  CleanInv'
  <2>1. ASSUME NEW a \in Address, heap_start <= a, a < Window
        PROVE  Walk(mem', PageOf(a)) = None \/ PageOf(a) \in InUse
    BY <1>7, <2>1, PageOfType DEF Unchanged, CleanInv
  <2>2. QED
    BY <1>7, <2>1 DEF CleanInv, InAlloc
<1>8. CASE MapVideo \/ UnmapBootstrap \/ Return
  <2>1. mem' = mem /\ UNCHANGED <<heap_start, heap_end>>
    BY <1>8 DEF MapVideo, UnmapBootstrap, Return
  <2>2. call'.op \in {"must", "unmap", "none"}
    <3>1. CASE MapVideo
      BY <3>1 DEF MapVideo, NoCall
    <3>2. CASE UnmapBootstrap
      BY <3>2 DEF UnmapBootstrap, NoCall
    <3>3. CASE Return
      BY <3>3 DEF Return, NoCall
    <3>4. QED
      BY <1>8, <3>1, <3>2, <3>3
  <2>3. QED
    BY <1>7, <2>1, <2>2 DEF Unchanged
<1>9. ASSUME NEW b \in blocks, Free(b) \/ Write(b) PROVE CleanInv'
  <2>1. UNCHANGED <<heap_start, heap_end>> /\ call'.op \notin {"try", "undo"}
    BY <1>9 DEF Free, Write, Idle
  <2>2. Unchanged
    BY <1>9, WriteChanges DEF Unchanged, Free
  <2>3. QED
    BY <1>7, <2>1, <2>2
<1>10. ASSUME UNCHANGED <<mem, heap_start, heap_end, call>> PROVE CleanInv'
  BY <1>10 DEF CleanInv, InAlloc, Outstanding, Untouched
<1>11. ~PageFault
  BY DEF PageFault
<1>12. QED
  BY <1>1, <1>2, <1>3, <1>4, <1>5, <1>6, <1>8, <1>9, <1>10, <1>11 DEF Next, vars, Access

\* Until something in use is given out, an operator new that fails leaves no page mapped
\* that it mapped, however far it had come; what else of the block is mapped was in use
\* before there was any block.
THEOREM FailuresAreUndone == Spec => FailureIsClean
<1> DEFINE Undone == (call.op = "undo" /\ call' = NoCall /\ intact) =>
                        \A a \in BytesOf([addr |-> call.from, size |-> call.size]) :
                          Walk(mem, PageOf(a)) = None \/ (call.end <= a /\ PageOf(a) \in InUse)
           Inv == intact => MemoryInv
           Clean == intact => CleanInv
<1>1. Init => Clean
  <2>1. SUFFICES ASSUME Init PROVE CleanInv
    OBVIOUS
  <2>2. mem = BootMemory /\ ~InAlloc
    BY <2>1 DEF Init, InAlloc, NoCall
  <2>3. \A a \in Address : Walk(BootMemory, PageOf(a)) = None \/ PageOf(a) \in InUse
    BY PageOfType DEF InUse
  <2>4. QED
    BY <2>2, <2>3 DEF CleanInv
<1>2. Inv /\ Clean /\ [Next]_vars /\ Inv' => Clean'
  BY NextClean, IntactBefore
<1>3. Inv /\ Clean /\ [Next]_vars => [Undone]_vars
  <2>1. SUFFICES ASSUME MemoryInv, CleanInv, [Next]_vars, call.op = "undo", call' = NoCall,
                        NEW a \in BytesOf(Pending)
                 PROVE  Walk(mem, PageOf(a)) = None \/ (call.end <= a /\ PageOf(a) \in InUse)
    BY DEF Pending
  <2>2. call' # call
    BY <2>1 DEF NoCall
  <2>3. Return
    <3>1. UnmapNext => call'.op = "undo"
      BY <2>1 DEF UnmapNext, MemoryInv, TypeOK, Calls
    <3>2. PageFault => call'.op = "panic"
      BY <2>1 DEF PageFault, MemoryInv, TypeOK, Calls
    <3>3. QED
      BY <2>1, <2>2, <3>1, <3>2
         DEF Next, vars, init_phys_alloc, MapVideo, UnmapBootstrap, UnmapMbi, MapNext, MapFails,
             Alloc, Free, Write, Access, Idle, NoCall
  <2>4. call.end <= call.v /\ InAlloc /\ Pending \in Owned
    BY <2>1, <2>3, CallType DEF Return, Returning, InAlloc, Owned, MemoryInv
  <2>5. a \in call.from .. call.from + call.size - 1
    BY <2>1, <2>4, BytesInLine DEF Pending
  <2>6. ~Outstanding(a)
    BY <2>1, <2>4, <2>5, CallType DEF Outstanding, MemoryInv
  <2>7. QED
    BY <2>1, <2>4, <2>5, <2>6 DEF CleanInv, Untouched
<1>4. Spec => []Inv
  BY MemoryInvariant
<1> HIDE DEF Inv, Clean
<1>5. QED
  BY <1>1, <1>2, <1>3, <1>4, PTL DEF Spec, FailureIsClean
=============================================================================
