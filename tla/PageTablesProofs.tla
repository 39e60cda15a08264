--------------------------- MODULE PageTablesProofs ---------------------------
(***************************************************************************)
(* Facts about addresses, and about what a change to one entry of a table  *)
(* does to the translation of every page, on which the proofs about the    *)
(* kernel's memory rest.                                                   *)
(***************************************************************************)
EXTENDS PageTables, TLAPS

(***************************************************************************)
(* Division.                                                               *)
(***************************************************************************)
LEMMA DivisionRange ==
  ASSUME NEW a \in Nat, NEW n \in Nat \ {0}
  PROVE  a \div n \in Nat /\ a % n \in 0 .. n - 1 /\ a = n * (a \div n) + (a % n)
OBVIOUS

LEMMA DivisionUnique ==
  ASSUME NEW n \in Nat \ {0}, NEW q \in Nat, NEW r \in 0 .. n - 1
  PROVE  (n * q + r) \div n = q /\ (n * q + r) % n = r
OBVIOUS

LEMMA DivisionMonotonic ==
  ASSUME NEW n \in Nat \ {0}, NEW a \in Nat, NEW b \in Nat, a <= b
  PROVE  a \div n <= b \div n
OBVIOUS

LEMMA DivisionBelow ==
  ASSUME NEW n \in Nat \ {0}, NEW a \in Nat, NEW k \in Nat, a < n * k
  PROVE  a \div n < k
OBVIOUS

LEMMA DivisionFrom ==
  ASSUME NEW n \in Nat \ {0}, NEW a \in Nat, NEW k \in Nat, n * k <= a
  PROVE  k <= a \div n
OBVIOUS

LEMMA DivisionTwice ==
  ASSUME NEW n \in Nat \ {0}, NEW m \in Nat \ {0}, NEW a \in Nat
  PROVE  a \div (n * m) = (a \div n) \div m
OBVIOUS

LEMMA DivisionStep ==
  ASSUME NEW n \in Nat \ {0}, NEW a \in Nat, NEW k \in Nat
  PROVE  (a + n * k) \div n = a \div n + k /\ (a + n * k) % n = a % n
<1> DEFINE q == a \div n
           r == a % n
<1>1. q \in Nat /\ r \in 0 .. n - 1 /\ a = n * q + r
  BY DivisionRange
<1> HIDE DEF q, r
<1>2. a + n * k = n * (q + k) + r
  BY <1>1
<1>3. (a + n * k) \div n = q + k /\ (a + n * k) % n = r
  BY <1>1, <1>2, DivisionUnique
<1>4. QED
  BY <1>3 DEF q, r

-----------------------------------------------------------------------------
(***************************************************************************)
(* Addresses.                                                              *)
(***************************************************************************)
LEMMA Geometry ==
  /\ PageSize \in Nat \ {0} /\ Entries \in Nat \ {0, 1}
  /\ Entries * PageSize \in Nat \ {0} /\ Words \in Nat \ {0} /\ Entries * Entries \in Nat \ {0}
  /\ Words = PageSize * (Entries * Entries)
  /\ Recursive \in Index /\ Pd \in Frame /\ None \notin Frame
  /\ Window \in Nat /\ Window + 2 * PageSize <= Words
<1>1. PageSize \in Nat \ {0} /\ Entries \in Nat \ {0, 1} /\ Pd \in Frame
  BY SizeAssumption
<1>2. Entries * PageSize \in Nat \ {0} /\ Entries * Entries \in Nat \ {0}
  BY <1>1
<1>3. Words = PageSize * (Entries * Entries)
  BY <1>1 DEF Words
<1>4. Recursive \in Index /\ None \notin Frame
  BY <1>1 DEF Recursive, Index, None, Frame
<1>5. Window \in Nat /\ Window + Entries * PageSize = Words
  BY <1>1 DEF Window, Recursive, Words
<1>6. Entries * PageSize >= 2 * PageSize
  BY <1>1
<1>7. Words \in Nat \ {0}
  BY <1>1, <1>2, <1>3
<1>8. QED
  BY <1>1, <1>2, <1>3, <1>4, <1>5, <1>6, <1>7

LEMMA FrameOfType ==
  ASSUME NEW a \in Address
  PROVE  FrameOf(a) \in Frame
<1>1. a \in Nat /\ a < PageSize * (Entries * Entries)
  BY Geometry DEF Address
<1>2. FrameOf(a) \in Nat /\ FrameOf(a) < Entries * Entries
  BY <1>1, Geometry, DivisionRange, DivisionBelow DEF FrameOf
<1>3. QED
  BY <1>2, Geometry DEF Frame

\* The page of an address is given by the frame of the same number.
LEMMA PageByFrame ==
  ASSUME NEW a \in Address
  PROVE  PageOf(a) = <<FrameOf(a) \div Entries, FrameOf(a) % Entries>>
<1> DEFINE f == FrameOf(a)
<1>1. a \in Nat /\ f \in Nat /\ f < Entries * Entries
  BY Geometry, FrameOfType DEF Address, Frame
<1>2. a \div (PageSize * Entries) = f \div Entries
  BY <1>1, Geometry, DivisionTwice DEF FrameOf
<1> HIDE DEF f
<1>3. f \div Entries \in Nat /\ f \div Entries < Entries
  BY <1>1, Geometry, DivisionRange, DivisionBelow
<1>4. (f \div Entries) % Entries = f \div Entries
  BY <1>3, Geometry
<1>5. QED
  BY <1>2, <1>4 DEF PageOf, FrameOf, f

LEMMA PageOfType ==
  ASSUME NEW a \in Address
  PROVE  PageOf(a) \in Page
<1> DEFINE f == FrameOf(a)
<1>1. f \in Nat /\ f < Entries * Entries
  BY Geometry, FrameOfType DEF Frame
<1> HIDE DEF f
<1>2. f \div Entries \in Nat /\ f % Entries \in 0 .. Entries - 1
  BY <1>1, Geometry, DivisionRange
<1>3. f \div Entries < Entries
  BY <1>1, Geometry, DivisionBelow
<1>4. f \div Entries \in 0 .. Entries - 1
  BY <1>2, <1>3, Geometry
<1>5. QED
  BY <1>2, <1>4, PageByFrame DEF f, Page, Index

\* Two addresses are on one page exactly if they are on one frame.
LEMMA PageIsFrame ==
  ASSUME NEW a \in Address, NEW b \in Address
  PROVE  PageOf(a) = PageOf(b) <=> FrameOf(a) = FrameOf(b)
<1> DEFINE f == FrameOf(a)
           g == FrameOf(b)
<1>1. f \in Nat /\ g \in Nat
  BY Geometry, FrameOfType DEF Frame
<1>2. PageOf(a) = <<f \div Entries, f % Entries>> /\ PageOf(b) = <<g \div Entries, g % Entries>>
  BY PageByFrame
<1> HIDE DEF f, g
<1>3. f = Entries * (f \div Entries) + (f % Entries) /\ g = Entries * (g \div Entries) + (g % Entries)
  BY <1>1, Geometry, DivisionRange
<1>4. PageOf(a) = PageOf(b) => f = g
  BY <1>2, <1>3
<1>5. QED
  BY <1>2, <1>4 DEF f, g

\* Below the window no address goes through the directory's own entry.
LEMMA BelowWindow ==
  ASSUME NEW a \in Address, a < Window
  PROVE  PageOf(a)[1] # Recursive
<1>1. a < (Entries * PageSize) * Recursive /\ a \in Nat /\ Recursive \in Nat
  BY Geometry DEF Window, Address, Index
<1>2. a \div (Entries * PageSize) < Recursive
  BY <1>1, Geometry, DivisionBelow
<1>3. a \div (Entries * PageSize) \in Nat
  BY <1>1, Geometry, DivisionRange
<1> PageSize * Entries = Entries * PageSize
  BY Geometry
<1>4. (a \div (PageSize * Entries)) % Entries = a \div (PageSize * Entries)
  BY <1>2, <1>3, Geometry DEF Index
<1>5. QED
  BY <1>2, <1>3, <1>4 DEF PageOf

\* Later addresses are on later frames; a page further is a frame further.
LEMMA FrameMonotonic ==
  ASSUME NEW a \in Address, NEW b \in Address, a <= b
  PROVE  FrameOf(a) <= FrameOf(b)
BY Geometry, DivisionMonotonic DEF FrameOf, Address

LEMMA FrameStep ==
  ASSUME NEW a \in Nat, NEW k \in Nat
  PROVE  FrameOf(a + PageSize * k) = FrameOf(a) + k
BY Geometry, DivisionStep DEF FrameOf

LEMMA AlignedStep ==
  ASSUME NEW a \in Nat, NEW k \in Nat
  PROVE  Aligned(a + PageSize * k) <=> Aligned(a)
BY Geometry, DivisionStep DEF Aligned

LEMMA AlignedFrame ==
  ASSUME NEW a \in Nat, Aligned(a)
  PROVE  a = PageSize * FrameOf(a)
BY Geometry, DivisionRange DEF Aligned, FrameOf

\* What is below an aligned address is on an earlier frame.
LEMMA FrameBelow ==
  ASSUME NEW a \in Nat, NEW b \in Nat, Aligned(b), a < b
  PROVE  FrameOf(a) < FrameOf(b)
<1>1. b = PageSize * FrameOf(b) /\ FrameOf(b) \in Nat
  BY AlignedFrame, Geometry, DivisionRange DEF FrameOf
<1>2. QED
  BY <1>1, Geometry, DivisionBelow DEF FrameOf

\* A page has one frame.
LEMMA OneFrame ==
  ASSUME NEW a \in Nat, NEW b \in Nat, Aligned(b), b <= a, a < b + PageSize
  PROVE  FrameOf(a) = FrameOf(b)
<1>1. b = PageSize * FrameOf(b) /\ FrameOf(b) \in Nat /\ PageSize \in Nat \ {0}
  BY AlignedFrame, Geometry, DivisionRange DEF FrameOf
<1> DEFINE q == FrameOf(b)
<1> HIDE DEF q
<1>2. q \in Nat /\ PageSize * q <= a /\ a < PageSize * (q + 1)
  BY <1>1 DEF q
<1>3. a \div PageSize \in Nat
  BY <1>1, DivisionRange
<1>4. q <= a \div PageSize
  BY <1>1, <1>2, DivisionFrom
<1>5. q + 1 \in Nat
  BY <1>2
<1>6. a \div PageSize < q + 1
  BY <1>1, <1>2, <1>5, DivisionBelow
<1>7. QED
  BY <1>2, <1>3, <1>4, <1>6 DEF FrameOf, q

LEMMA AlignDownFacts ==
  ASSUME NEW a \in Address
  PROVE  /\ AlignDown(a) \in Address /\ AlignDown(a) <= a /\ a < AlignDown(a) + PageSize
         /\ Aligned(AlignDown(a)) /\ FrameOf(AlignDown(a)) = FrameOf(a)
         /\ Aligned(a) => AlignDown(a) = a
<1> DEFINE q == a \div PageSize
           r == a % PageSize
<1> a \in Nat
  BY Geometry DEF Address
<1>1. q \in Nat /\ r \in 0 .. PageSize - 1 /\ a = PageSize * q + r
  BY Geometry, DivisionRange
<1>2. AlignDown(a) = a - r /\ (Aligned(a) <=> r = 0) /\ FrameOf(a) = q
  BY DEF AlignDown, Aligned, FrameOf
<1> HIDE DEF q, r
<1>3. AlignDown(a) = PageSize * q /\ PageSize * q \in Nat
  BY <1>1, <1>2, Geometry
<1>4. 0 \in 0 .. PageSize - 1 /\ PageSize * q + 0 = PageSize * q
  BY <1>1, Geometry
<1>5. (PageSize * q) \div PageSize = q /\ (PageSize * q) % PageSize = 0
  BY <1>1, <1>4, Geometry, DivisionUnique
<1>6. FrameOf(AlignDown(a)) = q /\ Aligned(AlignDown(a))
  BY <1>3, <1>5 DEF FrameOf, Aligned
<1>7. QED
  BY <1>1, <1>2, <1>3, <1>6, Geometry DEF Address

-----------------------------------------------------------------------------
(***************************************************************************)
(* Tables.                                                                 *)
(***************************************************************************)
Memories == [Frame -> Table]

LEMMA ZeroTableType == ZeroTable \in Table
BY DEF ZeroTable, Table

LEMMA DirectoryType ==
  ASSUME NEW m \in Memories, NEW i \in Index
  PROVE  m[Pd][i] \in Frame \cup {None}
BY Geometry DEF Memories, Table

LEMMA WalkType ==
  ASSUME NEW m \in Memories, NEW v \in Page
  PROVE  Walk(m, v) \in Frame \cup {None}
<1>1. v[1] \in Index /\ v[2] \in Index
  BY DEF Page
<1>2. m[Pd][v[1]] \in Frame \cup {None}
  BY <1>1, DirectoryType
<1>3. QED
  BY <1>1, <1>2 DEF Walk, Memories, Table

\* Through the window the kernel sees the tables themselves.
LEMMA WindowWalk ==
  ASSUME NEW m \in Memories, TablesSound(m), NEW i \in Index
  PROVE  Walk(m, <<Recursive, i>>) = m[Pd][i]
BY Geometry DEF Walk, TablesSound

\* Memory m once the entry of page v is f, once frame t holds c, and once table t is
\* cleared and entered into the directory.
EntryWritten(m, v, f) == [m EXCEPT ![m[Pd][v[1]]][v[2]] = f]
FrameWritten(m, t, c) == [m EXCEPT ![t] = c]
TableEntered(m, i, t) == [[m EXCEPT ![Pd][i] = t] EXCEPT ![t] = ZeroTable]

\* A write to the entry of a page changes the translation of that page only.
LEMMA EntryWrite ==
  ASSUME NEW m \in Memories, TablesSound(m), NEW v \in Page, v[1] # Recursive,
         m[Pd][v[1]] # None, NEW f \in Frame \cup {None},
         NEW m2, m2 = EntryWritten(m, v, f)
  PROVE  /\ m2 \in Memories /\ m2[Pd] = m[Pd]
         /\ \A w \in Page : w[1] # Recursive => Walk(m2, w) = IF w = v THEN f ELSE Walk(m, w)
<1> DEFINE t == m[Pd][v[1]]
<1>1. v[1] \in Index /\ v[2] \in Index /\ v = <<v[1], v[2]>>
  BY DEF Page
<1>2. t \in Frame /\ t # Pd
  BY <1>1, DirectoryType, Geometry DEF TablesSound
<1>3. m2 = [m EXCEPT ![t] = [m[t] EXCEPT ![v[2]] = f]]
  BY DEF EntryWritten
<1>4. [m[t] EXCEPT ![v[2]] = f] \in Table
  BY <1>1, <1>2 DEF Memories, Table
<1>5. m2 \in Memories /\ m2[Pd] = m[Pd]
  BY <1>2, <1>3, <1>4, Geometry DEF Memories
<1>6. ASSUME NEW w \in Page, w[1] # Recursive
      PROVE  Walk(m2, w) = IF w = v THEN f ELSE Walk(m, w)
  <2>1. w[1] \in Index /\ w[2] \in Index /\ w = <<w[1], w[2]>>
    BY DEF Page
  <2>2. m[Pd][w[1]] \in Frame \cup {None} /\ (m[Pd][w[1]] = t => w[1] = v[1])
    BY <1>1, <2>1, DirectoryType DEF TablesSound
  <2>3. CASE m[Pd][w[1]] = None
    <3>1. w # v
      BY <2>3
    <3>2. QED
      BY <1>5, <2>3, <3>1 DEF Walk
  <2>4. CASE m[Pd][w[1]] # None /\ m[Pd][w[1]] # t
    <3>1. w # v /\ m2[m[Pd][w[1]]] = m[m[Pd][w[1]]]
      BY <1>2, <1>3, <2>2, <2>4 DEF Memories
    <3>2. QED
      BY <1>5, <2>4, <3>1 DEF Walk
  <2>5. CASE m[Pd][w[1]] # None /\ m[Pd][w[1]] = t
    <3>1. w[1] = v[1] /\ (w = v <=> w[2] = v[2])
      BY <1>1, <2>1, <2>2, <2>5
    <3>2. m2[t] = [m[t] EXCEPT ![v[2]] = f] /\ DOMAIN m[t] = Index
      BY <1>2, <1>3 DEF Memories, Table
    <3>3. Walk(m2, w) = m2[t][w[2]] /\ Walk(m, w) = m[t][w[2]]
      BY <1>5, <2>5, <3>1 DEF Walk
    <3>4. QED
      BY <2>1, <3>1, <3>2, <3>3
  <2>6. QED
    BY <2>3, <2>4, <2>5
<1>7. QED
  BY <1>5, <1>6

\* A write to a frame that is no table changes no translation.
LEMMA DataWrite ==
  ASSUME NEW m \in Memories, TablesSound(m), NEW t \in Frame \ TablesIn(m),
         NEW c \in Table, NEW m2, m2 = FrameWritten(m, t, c)
  PROVE  /\ m2 \in Memories /\ m2[Pd] = m[Pd]
         /\ \A w \in Page : Walk(m2, w) = Walk(m, w)
<1>1. t # Pd
  BY Geometry DEF TablesSound, TablesIn
<1>2. m2 \in Memories /\ m2[Pd] = m[Pd]
  BY <1>1, Geometry DEF Memories, FrameWritten
<1>3. ASSUME NEW w \in Page PROVE Walk(m2, w) = Walk(m, w)
  <2>1. w[1] \in Index /\ m[Pd][w[1]] \in Frame \cup {None}
    BY DirectoryType DEF Page
  <2>2. m[Pd][w[1]] # None => m2[m[Pd][w[1]]] = m[m[Pd][w[1]]]
    BY <2>1 DEF TablesIn, Memories, FrameWritten
  <2>3. QED
    BY <1>2, <2>2 DEF Walk
<1>4. QED
  BY <1>2, <1>3

\* A table that is cleared as it is entered into the directory maps nothing.
LEMMA NewTable ==
  ASSUME NEW m \in Memories, TablesSound(m), NEW i \in Index, i # Recursive,
         m[Pd][i] = None, NEW t \in Frame \ TablesIn(m),
         NEW m2, m2 = TableEntered(m, i, t)
  PROVE  /\ m2 \in Memories /\ m2[Pd] = [m[Pd] EXCEPT ![i] = t]
         /\ TablesSound(m2) /\ TablesIn(m2) = TablesIn(m) \cup {t}
         /\ \A w \in Page : w[1] # Recursive => Walk(m2, w) = Walk(m, w)
<1>1. t # Pd /\ t # None /\ m[Pd] \in Table
  BY Geometry DEF TablesSound, TablesIn, Memories
<1>2. [m[Pd] EXCEPT ![i] = t] \in Table
  BY <1>1 DEF Table
<1>3. /\ m2 \in Memories
      /\ m2[Pd] = [m[Pd] EXCEPT ![i] = t]
      /\ m2[t] = ZeroTable
      /\ \A g \in Frame : g # Pd /\ g # t => m2[g] = m[g]
  BY <1>1, <1>2, ZeroTableType, Geometry DEF Memories, TableEntered
<1>4. /\ m2[Pd][i] = t
      /\ \A j \in Index : j # i => m2[Pd][j] = m[Pd][j]
  <2>1. DOMAIN m[Pd] = Index
    BY <1>1 DEF Table
  <2>2. QED
    BY <1>3, <2>1
<1>5. \A j \in Index : m[Pd][j] # t
  BY <1>1 DEF TablesIn
<1>6. TablesSound(m2)
  BY <1>4, <1>5, Geometry DEF TablesSound
<1>7. TablesIn(m2) = TablesIn(m) \cup {t}
  BY <1>1, <1>4 DEF TablesIn
<1>8. ASSUME NEW w \in Page, w[1] # Recursive
      PROVE  Walk(m2, w) = Walk(m, w)
  <2>1. w[1] \in Index /\ w[2] \in Index /\ m[Pd][w[1]] \in Frame \cup {None}
    BY DirectoryType DEF Page
  <2>2. CASE w[1] = i
    <3>1. Walk(m2, w) = ZeroTable[w[2]]
      BY <1>1, <1>3, <1>4, <2>2 DEF Walk
    <3>2. Walk(m, w) = None
      BY <2>2 DEF Walk
    <3>3. QED
      BY <2>1, <3>1, <3>2 DEF ZeroTable
  <2>3. CASE w[1] # i
    <3>1. m2[Pd][w[1]] = m[Pd][w[1]] /\ m[Pd][w[1]] # t
      BY <1>4, <1>5, <2>1, <2>3
    <3>2. m[Pd][w[1]] # Pd
      BY <1>8, <2>1, Geometry DEF TablesSound
    <3>3. m[Pd][w[1]] # None => m2[m[Pd][w[1]]] = m[m[Pd][w[1]]]
      BY <1>3, <2>1, <3>1, <3>2
    <3>4. QED
      BY <3>1, <3>3 DEF Walk
  <2>4. QED
    BY <2>2, <2>3
<1>9. QED
  BY <1>3, <1>6, <1>7, <1>8
=============================================================================
