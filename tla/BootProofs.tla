------------------------------ MODULE BootProofs ------------------------------
(***************************************************************************)
(* Theorems about Boot, for any image, pool, memory map, devices, masks    *)
(* and exceptions; first what every step of Bootstrap keeps.               *)
(***************************************************************************)
EXTENDS Boot, PageTablesProofs, DataInduction, SequenceTheorems, FiniteSetTheorems

-----------------------------------------------------------------------------
(***************************************************************************)
(* The bootstrap: what it is going to map, and what it has mapped.         *)
(***************************************************************************)
Region == [v : Address, end : Address, p : Address]
BootRegion == [v |-> layout.bootstrap_start, end |-> layout.bootstrap_end,
               p |-> layout.bootstrap_start]
ImageRegion == [v |-> layout.kvstart, end |-> layout.kvend, p |-> layout.kvstart - Base]
MbiRegion == [v |-> layout.mbi, end |-> layout.mbi + 1, p |-> layout.mbi]

\* Three regions are left, the first partly; then two, then one, then none.
TodoSound(t) ==
  /\ t \in Seq(Region) /\ Len(t) \in 0 .. 3
  /\ Len(t) = 3 =>
       /\ t[2] = ImageRegion /\ t[3] = MbiRegion
       /\ t[1].end = layout.bootstrap_end /\ layout.bootstrap_start <= t[1].v
       /\ Aligned(t[1].v) /\ t[1].p = t[1].v
  /\ Len(t) = 2 =>
       /\ t[2] = MbiRegion
       /\ t[1].end = layout.kvend /\ layout.kvstart <= t[1].v
       /\ Aligned(t[1].v) /\ t[1].p = t[1].v - Base
  /\ Len(t) = 1 => t[1] = MbiRegion

\* The pages that are mapped when t is left.
BootPages == PagesFrom(layout.bootstrap_start, layout.bootstrap_end)
DoneBy(t) ==
  IF Len(t) = 3 THEN PagesFrom(layout.bootstrap_start, t[1].v)
  ELSE IF Len(t) = 2 THEN BootPages \cup PagesFrom(layout.kvstart, t[1].v)
  ELSE IF Len(t) = 1 THEN BootPages \cup Image
  ELSE Identity \cup Image

LEMMA LayoutFacts ==
  ASSUME layout \in Layouts
  PROVE  /\ layout.bootstrap_start \in Address /\ layout.bootstrap_end \in Address
         /\ layout.kvstart \in Address /\ layout.kvend \in Address /\ layout.mbi \in Address
         /\ layout.backed \in BOOLEAN /\ layout.reads \in Address
         /\ Aligned(layout.bootstrap_start) /\ Aligned(layout.kvstart)
         /\ layout.bootstrap_end <= Base /\ layout.mbi < Base /\ Base <= layout.kvstart
         /\ layout.kvstart <= layout.kvend
         /\ layout.kvend <= Window /\ Base \in Address /\ Aligned(Base) /\ Address \subseteq Nat
         /\ layout.mbi + 1 \in Address
<1>1. layout \in Layout /\ Base \in Address /\ Aligned(Base)
  BY LayoutAssumption, PoolAssumption DEF Aligned
<1>2. /\ Aligned(layout.bootstrap_start) /\ Aligned(layout.kvstart)
      /\ layout.bootstrap_end <= Base /\ layout.mbi < Base /\ Base <= layout.kvstart
      /\ layout.kvstart <= layout.kvend /\ layout.kvend <= Window
  BY PlacementAssumption
<1>3. Address \subseteq Nat
  BY Geometry DEF Address
<1>4. /\ layout.bootstrap_start \in Address /\ layout.bootstrap_end \in Address
      /\ layout.kvstart \in Address /\ layout.kvend \in Address /\ layout.mbi \in Address
      /\ layout.backed \in BOOLEAN /\ layout.reads \in Address
  BY <1>1 DEF Layout
<1>5. layout.mbi + 1 \in Address
  BY <1>1, <1>2, <1>4, Geometry DEF Address
<1>6. QED
  BY <1>1, <1>2, <1>3, <1>4, <1>5

LEMMA TableFramesFacts ==
  /\ TableFrames \subseteq Frame /\ Pd \in TableFrames /\ PoolSize \in Nat \ {0} /\ Pool \in Nat
  /\ \A k \in 0 .. PoolSize - 1 : Pool + k \in TableFrames /\ Pool + k # Pd
  /\ Pool + PoolSize <= Entries * Entries /\ PoolSize < Entries * Entries
<1>1. PoolSize \in Nat \ {0} /\ Pool \in Frame /\ Pool .. Pool + PoolSize - 1 \subseteq Frame \ {Pd}
  BY PoolAssumption
<1>2. TableFrames \subseteq Frame /\ Pd \in TableFrames
  BY <1>1, Geometry DEF TableFrames, PoolFrames
<1>3. Pool \in Nat
  BY <1>1, Geometry DEF Frame
<1>4. ASSUME NEW k \in 0 .. PoolSize - 1
      PROVE  Pool + k \in TableFrames /\ Pool + k # Pd
  <2>1. Pool + k \in Pool .. Pool + PoolSize - 1
    BY <1>1, <1>3
  <2>2. QED
    BY <1>1, <2>1 DEF TableFrames, PoolFrames
<1>5. Pool + PoolSize <= Entries * Entries
  <2>1. Pool + PoolSize - 1 \in Frame
    BY <1>1, <1>3
  <2>2. QED
    BY <1>1, <1>3, <2>1, Geometry DEF Frame
<1>6. PoolSize < Entries * Entries
  <2>1. Pool = 0 => Pd >= PoolSize
    BY <1>1, Geometry DEF Frame
  <2>2. QED
    BY <1>1, <1>3, <1>5, <2>1, Geometry DEF Frame
<1>7. QED
  BY <1>1, <1>2, <1>3, <1>4, <1>5, <1>6

\* Which table of the pool comes next when `used` reads c, addresses being words: a table
\* that is in the pool is that one, and c goes on by one.
Slot(c) == c % (Entries * Entries)
First == Slot(layout.reads)

LEMMA SlotFacts ==
  ASSUME NEW c \in Address
  PROVE  /\ Slot(c) \in 0 .. Entries * Entries - 1 /\ Slot(c) <= c
         /\ c <= PoolSize => Slot(c) = c
         /\ c < PoolSize => (Pool + c) % (Entries * Entries) \in PoolFrames
<1> DEFINE n == Entries * Entries
<1>1. n \in Nat \ {0} /\ c \in Nat /\ PoolSize \in Nat /\ Pool \in Nat
      /\ PoolSize < n /\ Pool + PoolSize <= n
  BY Geometry, TableFramesFacts DEF Address
<1> HIDE DEF n
<1>2. c % n \in 0 .. n - 1 /\ c % n <= c
  <2>1. c \div n \in Nat /\ c % n \in 0 .. n - 1 /\ c = n * (c \div n) + (c % n)
    BY <1>1, DivisionRange
  <2>2. n * (c \div n) \in Nat
    BY <1>1, <2>1
  <2>3. QED
    BY <1>1, <2>1, <2>2
<1>3. ASSUME NEW a \in Nat, a < n PROVE a % n = a
  BY <1>1, <1>3
<1>4. c <= PoolSize => c % n = c
  BY <1>1, <1>3
<1>5. c < PoolSize => (Pool + c) % n \in PoolFrames
  <2>1. c < PoolSize => Pool + c \in Nat /\ Pool + c < n
    BY <1>1
  <2>2. c < PoolSize => Pool + c \in PoolFrames
    BY <1>1 DEF PoolFrames
  <2>3. QED
    BY <1>3, <2>1, <2>2
<1>6. QED
  BY <1>2, <1>4, <1>5 DEF Slot, n

LEMMA SlotTaken ==
  ASSUME NEW c \in Address, (Pool + c) % (Entries * Entries) \in PoolFrames
  PROVE  /\ Slot(c) < PoolSize /\ (Pool + c) % (Entries * Entries) = Pool + Slot(c)
         /\ Slot((c + 1) % Words) = Slot(c) + 1 /\ (c + 1) % Words \in Address
         /\ c <= PoolSize => (c + 1) % Words <= PoolSize
<1> DEFINE n == Entries * Entries
           q == c \div n
           r == c % n
<1>1. n \in Nat \ {0} /\ c \in Nat /\ PoolSize \in Nat /\ Pool \in Nat
      /\ PoolSize < n /\ Pool + PoolSize <= n /\ Words = PageSize * n
      /\ PageSize \in Nat \ {0} /\ c < Words /\ Words \in Nat \ {0}
  BY Geometry, TableFramesFacts DEF Address
<1>2. (Pool + c) % n \in PoolFrames /\ r = Slot(c)
  BY DEF n, Slot
<1> HIDE DEF n
<1>3. q \in Nat /\ r \in 0 .. n - 1 /\ c = n * q + r
  BY <1>1, DivisionRange
<1>4. q < PageSize
  <2>1. n * PageSize = Words
    BY <1>1
  <2>2. QED
    BY <1>1, <2>1, DivisionBelow
<1>5. c <= PoolSize => r = c
  BY <1>1
<1> HIDE DEF q, r
<1>6. ASSUME Pool + r < n PROVE r < PoolSize /\ (Pool + c) % n = Pool + r
  <2>1. Pool + c = n * q + (Pool + r) /\ Pool + r \in 0 .. n - 1
    <3>1. n * q \in Nat
      BY <1>1, <1>3
    <3>2. QED
      BY <1>1, <1>3, <1>6, <3>1
  <2>2. (Pool + c) % n = Pool + r
    BY <1>1, <1>3, <2>1, DivisionUnique
  <2>3. r < PoolSize
    BY <1>1, <1>2, <1>3, <2>2 DEF PoolFrames
  <2>4. QED
    BY <2>2, <2>3
<1>7. ASSUME ~ (Pool + r < n) PROVE FALSE
  <2> DEFINE z == Pool + r - n
             k == q + 1
  <2>1. Pool + c = n * k + z /\ z \in 0 .. n - 1 /\ z < Pool /\ k \in Nat
    <3>1. n * (q + 1) = n * q + n /\ n * q \in Nat
      BY <1>1, <1>3
    <3>2. QED
      BY <1>1, <1>3, <1>7, <3>1
  <2> HIDE DEF z, k
  <2>2. (n * k + z) % n = z
    BY <1>1, <2>1, DivisionUnique
  <2>3. (Pool + c) % n = z
    BY <2>1, <2>2
  <2>4. QED
    BY <1>1, <1>2, <2>1, <2>3 DEF PoolFrames
<1>8. r < PoolSize /\ (Pool + c) % n = Pool + r
  BY <1>6, <1>7
<1>9. c + 1 = n * q + (r + 1) /\ r + 1 \in 0 .. n - 1
  <2>1. n * q \in Nat
    BY <1>1, <1>3
  <2>2. QED
    BY <1>1, <1>3, <1>8, <2>1
<1>10. c + 1 < Words
  <2>1. n * (q + 1) <= n * PageSize
    BY <1>1, <1>3, <1>4
  <2>2. n * (q + 1) = n * q + n /\ n * q \in Nat /\ n * PageSize = Words
    BY <1>1, <1>3
  <2>3. QED
    BY <1>1, <1>9, <2>1, <2>2
<1>11. (c + 1) % Words = c + 1
  BY <1>1, <1>10
<1>12. (c + 1) % n = r + 1
  BY <1>1, <1>3, <1>9, DivisionUnique
<1>13. c + 1 \in Address
  BY <1>1, <1>10 DEF Address
<1>14. c <= PoolSize => c + 1 <= PoolSize
  BY <1>1, <1>5, <1>8
<1>15. QED
  BY <1>2, <1>8, <1>11, <1>12, <1>13, <1>14 DEF Slot, n

-----------------------------------------------------------------------------
(***************************************************************************)
(* Pages.                                                                  *)
(***************************************************************************)
LEMMA PageNumber ==
  ASSUME NEW a \in Address
  PROVE  FrameNumber(PageOf(a)) = FrameOf(a)
<1> DEFINE f == FrameOf(a)
<1>1. f \in Nat /\ PageOf(a) = <<f \div Entries, f % Entries>>
  BY Geometry, FrameOfType, PageByFrame DEF Frame
<1> HIDE DEF f
<1>2. f = Entries * (f \div Entries) + (f % Entries) /\ f \div Entries \in Nat
  BY <1>1, Geometry, DivisionRange
<1>3. FrameNumber(PageOf(a)) = (f \div Entries) * Entries + (f % Entries)
  BY <1>1 DEF FrameNumber
<1>4. (f \div Entries) * Entries = Entries * (f \div Entries)
  BY <1>2, Geometry
<1>5. QED
  BY <1>2, <1>3, <1>4 DEF f

LEMMA PagesFromType ==
  ASSUME NEW a \in Address, NEW e \in Address
  PROVE  PagesFrom(a, e) \subseteq Page
<1>1. \A x \in a .. e - 1 : x \in Address
  BY Geometry DEF Address
<1>2. QED
  BY <1>1, PageOfType DEF PagesFrom

\* One page more.
LEMMA PagesGrow ==
  ASSUME NEW a \in Address, NEW v \in Address, NEW e \in Address, Aligned(v),
         a <= v, v < e, e <= v + PageSize
  PROVE  PagesFrom(a, e) = PagesFrom(a, v) \cup {PageOf(v)}
<1>1. a \in Nat /\ v \in Nat /\ e \in Nat /\ PageSize \in Nat
  BY Geometry DEF Address
<1>2. v \in a .. e - 1 /\ \A x \in a .. v - 1 : x \in a .. e - 1
  BY <1>1
<1>3. PagesFrom(a, v) \cup {PageOf(v)} \subseteq PagesFrom(a, e)
  BY <1>2 DEF PagesFrom
<1>4. ASSUME NEW x \in a .. e - 1
      PROVE  PageOf(x) \in PagesFrom(a, v) \cup {PageOf(v)}
  <2>1. x \in Nat /\ x \in Address
    BY <1>1, Geometry DEF Address
  <2>2. CASE x < v
    <3>1. x \in a .. v - 1
      BY <1>1, <2>1, <2>2
    <3>2. QED
      BY <3>1 DEF PagesFrom
  <2>3. CASE v <= x
    <3>1. x < v + PageSize
      BY <1>1, <2>1
    <3>2. FrameOf(x) = FrameOf(v)
      BY <1>1, <2>1, <2>3, <3>1, OneFrame
    <3>3. PageOf(x) = PageOf(v)
      BY <2>1, <3>2, PageIsFrame
    <3>4. QED
      BY <3>3
  <2>4. QED
    BY <1>1, <2>1, <2>2, <2>3
<1>5. PagesFrom(a, e) \subseteq PagesFrom(a, v) \cup {PageOf(v)}
  BY <1>4 DEF PagesFrom
<1>6. QED
  BY <1>3, <1>5

LEMMA PagesNone ==
  ASSUME NEW a \in Address
  PROVE  PagesFrom(a, a) = {}
<1>1. a \in Nat
  BY Geometry DEF Address
<1>2. a .. a - 1 = {}
  BY <1>1
<1>3. QED
  BY <1>2 DEF PagesFrom

\* What is mapped is below the window; the identity part is below Base, the image above.
LEMMA PlacesOfPages ==
  ASSUME layout \in Layouts
  PROVE  /\ Identity \subseteq Page /\ Image \subseteq Page
         /\ \A v \in Identity \cup Image : v[1] # Recursive
         /\ \A x \in Address : Base <= x => PageOf(x) \notin Identity
<1>1. ASSUME NEW x \in layout.bootstrap_start .. layout.bootstrap_end - 1
      PROVE  x \in Address /\ x < Base
  <2>1. /\ layout.bootstrap_start \in Nat /\ layout.bootstrap_end \in Nat
        /\ layout.bootstrap_end <= Base /\ Base \in Nat /\ Base < Words
    BY LayoutFacts, Geometry DEF Address
  <2>2. x \in Nat /\ x < Base
    BY <2>1
  <2>3. QED
    BY <2>1, <2>2, Geometry DEF Address
<1>2. \A v \in Identity : \E x \in Address : x < Base /\ v = PageOf(x)
  BY <1>1, LayoutFacts DEF Identity, PagesFrom
<1>3. ASSUME NEW x \in layout.kvstart .. layout.kvend - 1
      PROVE  x \in Address /\ x < Window
  BY LayoutFacts, Geometry DEF Address
<1>4. \A v \in Image : \E x \in Address : x < Window /\ v = PageOf(x)
  BY <1>3 DEF Image, PagesFrom
<1>5. Base <= Window /\ Base \in Nat /\ Window \in Nat
  BY LayoutFacts, Geometry
<1>6. \A v \in Identity \cup Image : \E x \in Address : x < Window /\ v = PageOf(x)
  <2>1. \A x \in Address : x < Base => x < Window
    BY <1>5, LayoutFacts
  <2>2. QED
    BY <1>2, <1>4, <2>1
<1>7. \A v \in Identity \cup Image : v \in Page /\ v[1] # Recursive
  BY <1>6, PageOfType, BelowWindow
<1>8. ASSUME NEW x \in Address, Base <= x
      PROVE  PageOf(x) \notin Identity
  <2>1. SUFFICES ASSUME NEW y \in Address, y < Base, PageOf(x) = PageOf(y) PROVE FALSE
    BY <1>2
  <2>2. FrameOf(y) < FrameOf(Base) /\ FrameOf(Base) <= FrameOf(x)
    BY <1>8, <2>1, LayoutFacts, FrameBelow, FrameMonotonic
  <2>3. FrameOf(x) = FrameOf(y)
    BY <2>1, PageIsFrame
  <2>4. FrameOf(x) \in Nat /\ FrameOf(y) \in Nat /\ FrameOf(Base) \in Nat
    BY <2>1, LayoutFacts, FrameOfType, Geometry DEF Frame
  <2>5. QED
    BY <2>2, <2>3, <2>4
<1>9. QED
  BY <1>7, <1>8

-----------------------------------------------------------------------------
(***************************************************************************)
(* The regions still to be mapped.                                         *)
(***************************************************************************)
LEMMA NextOf ==
  ASSUME NEW r \in Region
  PROVE  LET n == NextPage(r)
         IN  /\ n.v = r.v + PageSize /\ n.end = r.end /\ n.p = r.p + PageSize
             /\ n.v \in Address /\ n.p \in Address => n \in Region
<1>1. NextPage(r) = [v |-> r.v + PageSize, end |-> r.end, p |-> r.p + PageSize]
  <2>1. PICK a \in Address, b \in Address, c \in Address : r = [v |-> a, end |-> b, p |-> c]
    BY DEF Region
  <2> DEFINE q == [r EXCEPT !.v = @ + PageSize]
  <2>2. q = [v |-> r.v + PageSize, end |-> r.end, p |-> r.p]
    BY <2>1
  <2>3. NextPage(r) = [q EXCEPT !.p = @ + PageSize]
    BY DEF NextPage
  <2> HIDE DEF q
  <2>4. QED
    BY <2>2, <2>3
<1>2. r.end \in Address
  BY DEF Region
<1>3. QED
  BY <1>1, <1>2 DEF Region

\* The regions left after one more page.
Advanced(t) ==
  IF NextPage(t[1]).v < NextPage(t[1]).end THEN <<NextPage(t[1])>> \o Tail(t) ELSE Tail(t)

LEMMA RestOf ==
  ASSUME NEW S, NEW t \in Seq(S), t # <<>>, NEW x \in S
  PROVE  /\ Tail(t) \in Seq(S) /\ Len(Tail(t)) = Len(t) - 1
         /\ Len(t) >= 2 => Tail(t)[1] = t[2]
         /\ Len(t) >= 3 => Tail(t)[2] = t[3]
         /\ <<x>> \o Tail(t) \in Seq(S) /\ Len(<<x>> \o Tail(t)) = Len(t)
         /\ (<<x>> \o Tail(t))[1] = x
         /\ Len(t) >= 2 => (<<x>> \o Tail(t))[2] = t[2]
         /\ Len(t) >= 3 => (<<x>> \o Tail(t))[3] = t[3]
<1>1. /\ Tail(t) \in Seq(S) /\ Len(Tail(t)) = Len(t) - 1
      /\ \A i \in 1 .. Len(Tail(t)) : Tail(t)[i] = t[i + 1]
  BY HeadTailProperties
<1>2. <<x>> \in Seq(S) /\ Len(<<x>>) = 1 /\ <<x>>[1] = x
  OBVIOUS
<1>3. Len(t) \in Nat /\ Len(t) # 0
  BY EmptySeq
<1> DEFINE s == <<x>>
           r == Tail(t)
<1> HIDE DEF s, r
<1>4. /\ s \o r \in Seq(S) /\ Len(s \o r) = 1 + Len(r)
      /\ \A i \in 1 .. 1 + Len(r) : (s \o r)[i] = IF i <= 1 THEN s[i] ELSE r[i - 1]
  BY <1>1, <1>2, ConcatProperties DEF s, r
<1>5. (s \o r)[1] = x
  BY <1>1, <1>2, <1>3, <1>4 DEF s, r
<1>6. ASSUME NEW i \in 2 .. Len(t)
      PROVE  (s \o r)[i] = t[i]
  <2>1. i \in 1 .. 1 + Len(r) /\ ~ (i <= 1) /\ i - 1 \in 1 .. Len(r) /\ (i - 1) + 1 = i
    BY <1>1, <1>3 DEF r
  <2>2. (s \o r)[i] = r[i - 1]
    BY <1>4, <2>1
  <2>3. r[i - 1] = t[(i - 1) + 1]
    BY <1>1, <2>1 DEF r
  <2>4. QED
    BY <2>1, <2>2, <2>3
<1>7. /\ Len(t) >= 2 => Tail(t)[1] = t[2] /\ (s \o r)[2] = t[2]
      /\ Len(t) >= 3 => Tail(t)[2] = t[3] /\ (s \o r)[3] = t[3]
  <2>1. Len(t) >= 2 => 1 \in 1 .. Len(Tail(t)) /\ 2 \in 2 .. Len(t)
    BY <1>1, <1>3
  <2>2. Len(t) >= 3 => 2 \in 1 .. Len(Tail(t)) /\ 3 \in 2 .. Len(t)
    BY <1>1, <1>3
  <2>3. 1 + 1 = 2 /\ 2 + 1 = 3
    OBVIOUS
  <2>4. Len(t) >= 2 => Tail(t)[1] = t[2]
    BY <1>1, <2>1, <2>3
  <2>5. Len(t) >= 3 => Tail(t)[2] = t[3]
    BY <1>1, <2>2, <2>3
  <2>6. Len(t) >= 2 => (s \o r)[2] = t[2]
    BY <1>6, <2>1
  <2>7. Len(t) >= 3 => (s \o r)[3] = t[3]
    BY <1>6, <2>2
  <2>8. QED
    BY <2>4, <2>5, <2>6, <2>7
<1>8. QED
  BY <1>1, <1>3, <1>4, <1>5, <1>7 DEF s, r

LEMMA TodoBegins ==
  ASSUME layout \in Layouts, NEW t, t = <<BootRegion, ImageRegion, MbiRegion>>
  PROVE  TodoSound(t) /\ DoneBy(t) = {}
<1>1. BootRegion \in Region /\ ImageRegion \in Region /\ MbiRegion \in Region
  <2>1. layout.kvstart - Base \in Address
    <3>1. /\ layout.kvstart \in Nat /\ Base \in Nat /\ Base <= layout.kvstart
          /\ layout.kvstart < Words
      BY LayoutFacts, Geometry DEF Address
    <3>2. QED
      BY <3>1, Geometry DEF Address
  <2>2. QED
    BY <2>1, LayoutFacts DEF BootRegion, ImageRegion, MbiRegion, Region
<1>2. Len(t) = 3 /\ t[1] = BootRegion /\ t[2] = ImageRegion /\ t[3] = MbiRegion
  OBVIOUS
<1>3. t \in Seq(Region)
  BY <1>1
<1>4. /\ BootRegion.end = layout.bootstrap_end /\ BootRegion.v = layout.bootstrap_start
      /\ BootRegion.p = layout.bootstrap_start
  BY DEF BootRegion
<1>5. layout.bootstrap_start <= layout.bootstrap_start
  BY LayoutFacts
<1>6. TodoSound(t)
  BY <1>2, <1>3, <1>4, <1>5, LayoutFacts DEF TodoSound
<1>7. DoneBy(t) = {}
  BY <1>2, <1>4, LayoutFacts, PagesNone DEF DoneBy
<1>8. QED
  BY <1>6, <1>7

LEMMA TodoThree ==
  ASSUME NEW u \in Seq(Region), Len(u) = 3, NEW r, u[1] = r, u[2] = ImageRegion, u[3] = MbiRegion,
         r.end = layout.bootstrap_end, layout.bootstrap_start <= r.v, Aligned(r.v), r.p = r.v
  PROVE  TodoSound(u) /\ DoneBy(u) = PagesFrom(layout.bootstrap_start, r.v)
BY DEF TodoSound, DoneBy

LEMMA TodoTwo ==
  ASSUME NEW u \in Seq(Region), Len(u) = 2, NEW r, u[1] = r, u[2] = MbiRegion,
         r.end = layout.kvend, layout.kvstart <= r.v, Aligned(r.v), r.p = r.v - Base
  PROVE  TodoSound(u) /\ DoneBy(u) = BootPages \cup PagesFrom(layout.kvstart, r.v)
BY DEF TodoSound, DoneBy

LEMMA TodoOne ==
  ASSUME NEW u \in Seq(Region), Len(u) = 1, u[1] = MbiRegion
  PROVE  TodoSound(u) /\ DoneBy(u) = BootPages \cup Image
BY DEF TodoSound, DoneBy

LEMMA TodoEnds ==
  ASSUME NEW u \in Seq(Region), Len(u) = 0
  PROVE  TodoSound(u) /\ DoneBy(u) = Identity \cup Image
BY DEF TodoSound, DoneBy

\* The next page is one of those to be mapped, is mapped where it is meant to be, and
\* then counts as done.
LEMMA TodoStep ==
  ASSUME layout \in Layouts, NEW t, TodoSound(t), t # <<>>, t[1].v < t[1].end,
         NEW u, u = Advanced(t)
  PROVE  /\ TodoSound(u) /\ t[1] \in Region
         /\ DoneBy(u) = DoneBy(t) \cup {PageOf(t[1].v)}
         /\ PageOf(t[1].v) \in Identity \cup Image
         /\ Meant(PageOf(t[1].v)) = FrameOf(t[1].p)
<1> DEFINE r == t[1]
           n == NextPage(r)
<1>1. t \in Seq(Region) /\ Len(t) \in 1 .. 3
  BY EmptySeq DEF TodoSound
<1>2. r \in Region
  BY <1>1
<1>3. /\ r.v \in Address /\ r.end \in Address /\ r.p \in Address
      /\ n.v = r.v + PageSize /\ n.end = r.end /\ n.p = r.p + PageSize
      /\ n.v \in Address /\ n.p \in Address => n \in Region
  BY <1>2, NextOf DEF Region
<1> HIDE DEF n
<1>4. /\ r.v \in Nat /\ r.end \in Nat /\ r.p \in Nat /\ PageSize \in Nat \ {0}
      /\ r.v < r.end /\ r.v + PageSize \in Nat /\ r.end < Words
  BY <1>3, Geometry DEF Address
<1>5. n.v < n.end => n.v \in Address
  BY <1>3, <1>4, Geometry DEF Address
<1>6. Aligned(r.v) => Aligned(r.v + PageSize)
  <2>1. PageSize * 1 = PageSize
    BY <1>4
  <2>2. QED
    BY <1>4, <2>1, AlignedStep
<1>7. /\ Tail(t) \in Seq(Region) /\ Len(Tail(t)) = Len(t) - 1
      /\ Len(t) >= 2 => Tail(t)[1] = t[2]
      /\ Len(t) >= 3 => Tail(t)[2] = t[3]
  BY <1>1, <1>2, RestOf, EmptySeq
<1>8. ASSUME n \in Region, n.v < n.end
      PROVE  /\ u \in Seq(Region) /\ Len(u) = Len(t) /\ u[1] = n
             /\ Len(t) >= 2 => u[2] = t[2]
             /\ Len(t) >= 3 => u[3] = t[3]
  <2>1. u = <<n>> \o Tail(t)
    BY <1>8 DEF n, Advanced
  <2> DEFINE w == <<n>> \o Tail(t)
  <2>2. /\ w \in Seq(Region) /\ Len(w) = Len(t) /\ w[1] = n
        /\ Len(t) >= 2 => w[2] = t[2]
        /\ Len(t) >= 3 => w[3] = t[3]
    BY <1>1, <1>8, RestOf, EmptySeq
  <2> HIDE DEF w
  <2>3. u = w
    BY <2>1 DEF w
  <2>4. QED
    BY <2>2, <2>3
<1>9. ASSUME ~ (n.v < n.end)
      PROVE  /\ u \in Seq(Region) /\ Len(u) = Len(t) - 1
             /\ Len(t) >= 2 => u[1] = t[2]
             /\ Len(t) >= 3 => u[2] = t[3]
  <2>1. u = Tail(t)
    BY <1>9 DEF n, Advanced
  <2>2. QED
    BY <1>7, <2>1
<1>10. CASE Len(t) = 3
  <2>1. /\ r.end = layout.bootstrap_end /\ layout.bootstrap_start <= r.v /\ Aligned(r.v)
        /\ r.p = r.v /\ t[2] = ImageRegion /\ t[3] = MbiRegion
    BY <1>10 DEF TodoSound
  <2>2. PageOf(r.v) \in BootPages
    <3>1. r.v \in layout.bootstrap_start .. layout.bootstrap_end - 1
      BY SMTT(30), ZenonT(60), <1>4, <2>1, LayoutFacts
    <3>2. QED
      BY <3>1 DEF BootPages, PagesFrom
  <2>3. PageOf(r.v) \in Identity /\ Meant(PageOf(r.v)) = FrameOf(r.p)
    BY <1>3, <2>1, <2>2, PageNumber DEF Identity, BootPages, Meant
  <2>4. DoneBy(t) = PagesFrom(layout.bootstrap_start, r.v)
    BY <1>10 DEF DoneBy
  <2>5. CASE n.v < n.end
    <3>1. n \in Region /\ n.v \in Address
      BY <1>3, <1>5, <2>1, <2>5
    <3>2. u \in Seq(Region) /\ Len(u) = 3 /\ u[1] = n /\ u[2] = t[2] /\ u[3] = t[3]
      BY <1>8, <1>9, <1>10, <2>5, <3>1
    <3>3. layout.bootstrap_start <= n.v
      <4>1. layout.bootstrap_start \in Nat
        BY LayoutFacts
      <4>2. QED
        BY <1>3, <1>4, <2>1, <4>1
    <3>4. n.end = r.end /\ n.p = n.v /\ Aligned(n.v)
      BY <1>3, <1>6, <2>1
    <3>5. TodoSound(u) /\ DoneBy(u) = PagesFrom(layout.bootstrap_start, n.v)
      BY <2>1, <3>2, <3>3, <3>4, TodoThree
    <3>6. r.v < n.v /\ n.v <= r.v + PageSize
      BY <1>3, <1>4
    <3>7. DoneBy(u) = DoneBy(t) \cup {PageOf(r.v)}
      BY <1>3, <2>1, <2>4, <3>1, <3>5, <3>6, LayoutFacts, PagesGrow
    <3>8. QED
      BY <1>2, <2>3, <3>5, <3>7
  <2>6. CASE ~ (n.v < n.end)
    <3>1. u \in Seq(Region) /\ Len(u) = 2 /\ u[1] = ImageRegion /\ u[2] = MbiRegion
      BY <1>7, <1>9, <1>10, <2>1, <2>6
    <3>2. layout.kvstart <= layout.kvstart
      BY LayoutFacts
    <3>3. /\ ImageRegion.end = layout.kvend /\ ImageRegion.v = layout.kvstart
          /\ ImageRegion.p = ImageRegion.v - Base
      BY DEF ImageRegion
    <3>4. TodoSound(u) /\ DoneBy(u) = BootPages \cup PagesFrom(layout.kvstart, layout.kvstart)
      BY SMTT(60), <3>1, <3>2, <3>3, LayoutFacts, TodoTwo
    <3>5. DoneBy(u) = BootPages
      BY <3>4, LayoutFacts, PagesNone
    <3>6. r.end <= r.v + PageSize
      BY <1>3, <1>4, <2>6
    <3>7. BootPages = PagesFrom(layout.bootstrap_start, r.v) \cup {PageOf(r.v)}
      BY SMTT(30), ZenonT(60), <1>3, <1>4, <2>1, <3>6, LayoutFacts, PagesGrow DEF BootPages
    <3>8. QED
      BY <1>2, <2>3, <2>4, <3>4, <3>5, <3>7
  <2>7. QED
    BY <2>5, <2>6
<1>11. CASE Len(t) = 2
  <2>1. /\ r.end = layout.kvend /\ layout.kvstart <= r.v /\ Aligned(r.v)
        /\ r.p = r.v - Base /\ t[2] = MbiRegion
    BY <1>11 DEF TodoSound
  <2>2. PageOf(r.v) \in Image
    <3>1. r.v \in layout.kvstart .. layout.kvend - 1
      BY SMTT(60), <1>4, <2>1, LayoutFacts
    <3>2. QED
      BY <3>1 DEF Image, PagesFrom
  <2>3. Meant(PageOf(r.v)) = FrameOf(r.p)
    <3>1. Base <= r.v /\ Base \in Nat
      BY SMTT(60), <1>4, <2>1, LayoutFacts
    <3>2. PageOf(r.v) \notin Identity
      BY <1>3, <3>1, PlacesOfPages
    <3>3. Base = PageSize * FrameOf(Base) /\ FrameOf(Base) \in Nat
      BY <3>1, LayoutFacts, AlignedFrame, Geometry, DivisionRange DEF FrameOf
    <3>4. r.v = r.p + PageSize * FrameOf(Base)
      BY SMTT(30), ZenonT(60), <1>4, <2>1, <3>1, <3>3
    <3>5. FrameOf(r.v) = FrameOf(r.p) + FrameOf(Base)
      BY <1>4, <3>3, <3>4, FrameStep
    <3>6. FrameOf(r.p) \in Nat
      BY <1>3, FrameOfType, Geometry DEF Frame
    <3>7. Meant(PageOf(r.v)) = FrameOf(r.v) - FrameOf(Base)
      BY <1>3, <3>2, PageNumber DEF Meant, FrameOf
    <3>8. QED
      BY <3>3, <3>5, <3>6, <3>7
  <2>4. DoneBy(t) = BootPages \cup PagesFrom(layout.kvstart, r.v)
    BY <1>11 DEF DoneBy
  <2>5. CASE n.v < n.end
    <3>1. n.v \in Address /\ n.p = n.v - Base /\ n.p \in Address
      <4>1. n.v \in Address /\ n.v \in Nat /\ n.v < Words
        BY <1>3, <1>4, <1>5, <2>5, Geometry DEF Address
      <4>2. Base \in Nat /\ Base <= r.v
        BY SMTT(60), <1>4, <2>1, LayoutFacts
      <4>3. n.p = n.v - Base /\ n.p \in Nat /\ n.p < Words
        BY SMTT(60), <1>3, <1>4, <2>1, <4>1, <4>2, Geometry
      <4>4. QED
        BY <4>1, <4>3, Geometry DEF Address
    <3>2. n \in Region
      BY <1>3, <3>1
    <3>3. u \in Seq(Region) /\ Len(u) = 2 /\ u[1] = n /\ u[2] = t[2]
      BY <1>8, <1>9, <1>11, <2>5, <3>2
    <3>4. layout.kvstart <= n.v
      <4>1. layout.kvstart \in Nat
        BY LayoutFacts
      <4>2. QED
        BY <1>3, <1>4, <2>1, <4>1
    <3>5. n.end = layout.kvend /\ Aligned(n.v)
      BY <1>3, <1>6, <2>1
    <3>6. TodoSound(u) /\ DoneBy(u) = BootPages \cup PagesFrom(layout.kvstart, n.v)
      BY <2>1, <3>1, <3>3, <3>4, <3>5, TodoTwo
    <3>7. r.v < n.v /\ n.v <= r.v + PageSize
      BY <1>3, <1>4
    <3>8. PagesFrom(layout.kvstart, n.v) = PagesFrom(layout.kvstart, r.v) \cup {PageOf(r.v)}
      BY SMTT(30), ZenonT(60), <1>3, <2>1, <3>1, <3>7, LayoutFacts, PagesGrow
    <3>9. QED
      BY <1>2, <2>2, <2>3, <2>4, <3>6, <3>8
  <2>6. CASE ~ (n.v < n.end)
    <3>1. u \in Seq(Region) /\ Len(u) = 1 /\ u[1] = MbiRegion
      BY <1>7, <1>9, <1>11, <2>1, <2>6
    <3>3. TodoSound(u) /\ DoneBy(u) = BootPages \cup Image
      BY <3>1, TodoOne
    <3>4. r.end <= r.v + PageSize
      BY <1>3, <1>4, <2>6
    <3>5. Image = PagesFrom(layout.kvstart, r.v) \cup {PageOf(r.v)}
      BY <1>3, <1>4, <2>1, <3>4, LayoutFacts, PagesGrow DEF Image
    <3>6. QED
      BY <1>2, <2>2, <2>3, <2>4, <3>3, <3>5
  <2>7. QED
    BY <2>5, <2>6
<1>12. CASE Len(t) = 1
  <2>1. r = MbiRegion
    BY <1>12 DEF TodoSound
  <2>2. r.v = layout.mbi /\ r.end = layout.mbi + 1 /\ r.p = layout.mbi
    BY <2>1 DEF MbiRegion
  <2>3. PageOf(r.v) \in Identity /\ Meant(PageOf(r.v)) = FrameOf(r.p)
    BY <1>3, <2>2, PageNumber DEF Identity, Meant
  <2>4. ~ (n.v < n.end)
    BY <1>3, <1>4, <2>2
  <2>5. u \in Seq(Region) /\ Len(u) = 0
    BY <1>7, <1>9, <1>12, <2>4
  <2>6. TodoSound(u) /\ DoneBy(u) = Identity \cup Image
    BY <2>5, TodoEnds
  <2>7. DoneBy(t) = BootPages \cup Image
    BY <1>12 DEF DoneBy
  <2>8. Identity = BootPages \cup {PageOf(r.v)}
    BY <2>2 DEF Identity, BootPages
  <2>9. QED
    BY <1>2, <2>3, <2>6, <2>7, <2>8
<1>13. QED
  BY <1>1, <1>10, <1>11, <1>12

-----------------------------------------------------------------------------
(***************************************************************************)
(* What the tables hold when the pages of d are mapped.                    *)
(***************************************************************************)
BootMemories == [TableFrames -> Table]
Present(m) == {i \in Index : m[Pd][i] # None}

\* Directory entries name tables of the pool, and only where something is to be mapped.
EntriesSound(m) ==
  \A i \in Present(m) : m[Pd][i] \in TableFrames \ {Pd} /\ i \in Parts

Placed(m, d) ==
  /\ \A v \in d : v[1] \in Present(m)
  /\ layout.backed \/ OneTable => \A v \in d : Walk(m, v) = Meant(v)

\* Where `used` is stuck there is one table.
OneTableOnly(m, u) ==
  ~layout.backed => u = First /\ \A i \in Present(m) : m[Pd][i] = Pool + u

\* Where it counts, each entry has a table of its own from the used part of the pool,
\* the rest of the pool is clear, and nothing but d is mapped.
OwnTables(m, u, d) ==
  layout.backed =>
    /\ First <= u /\ Cardinality(Present(m)) = u - First
    /\ \A i \in Present(m) : \E k \in 0 .. u - 1 : m[Pd][i] = Pool + k
    /\ \A i, j \in Present(m) : m[Pd][i] = m[Pd][j] => i = j
    /\ \A k \in u .. PoolSize - 1 : m[Pool + k] = ZeroTable
    /\ \A v \in Page \ d : Walk(m, v) = None

BootSound(m, u, d) ==
  /\ m \in BootMemories /\ u \in 0 .. Entries * Entries - 1
  /\ EntriesSound(m) /\ Placed(m, d) /\ OneTableOnly(m, u) /\ OwnTables(m, u, d)

LEMMA BootBegins ==
  ASSUME layout \in Layouts, NEW m, m = [f \in TableFrames |-> ZeroTable]
  PROVE  BootSound(m, First, {})
<1>1. m \in BootMemories
  BY ZeroTableType DEF BootMemories
<1>2. m[Pd] = ZeroTable
  BY TableFramesFacts
<1>3. Present(m) = {}
  BY <1>2 DEF Present, ZeroTable
<1>4. First \in Nat /\ First \in 0 .. Entries * Entries - 1
  BY LayoutFacts, SlotFacts, Geometry DEF First
<1>5. \A k \in First .. PoolSize - 1 : m[Pool + k] = ZeroTable
  <2>1. \A k \in First .. PoolSize - 1 : k \in 0 .. PoolSize - 1
    BY <1>4, TableFramesFacts
  <2>2. QED
    BY <2>1, TableFramesFacts
<1>6. \A v \in Page : Walk(m, v) = None
  BY <1>2 DEF Walk, ZeroTable, Page
<1>7. OwnTables(m, First, {})
  <2>1. First <= First /\ First - First = 0
    BY <1>4
  <2>2. Cardinality(Present(m)) = 0
    BY <1>3, FS_EmptySet
  <2>3. QED
    BY <1>3, <1>5, <1>6, <2>1, <2>2 DEF OwnTables
<1>8. QED
  BY <1>1, <1>3, <1>4, <1>7 DEF BootSound, EntriesSound, Placed, OneTableOnly

\* m2 is m once page v is mapped to frame f by table t, new in the directory or not.
MapEffect(m, m2, v, t, f) ==
  /\ m2 \in BootMemories
  /\ \A i \in Index : m2[Pd][i] = IF i = v[1] THEN t ELSE m[Pd][i]
  /\ \A j \in Index : m2[t][j] = IF j = v[2] THEN f ELSE m[t][j]
  /\ \A g \in TableFrames : g # Pd /\ g # t => m2[g] = m[g]

\* map_page with a new table t.
NewMapped(m, v, t, f) == [m EXCEPT ![Pd][v[1]] = t, ![t][v[2]] = f]

LEMMA NewEffect ==
  ASSUME NEW m \in BootMemories, NEW v \in Page, NEW t \in TableFrames \ {Pd},
         NEW f \in Frame,
         NEW m2, m2 = NewMapped(m, v, t, f)
  PROVE  MapEffect(m, m2, v, t, f)
<1> DEFINE m1 == [m EXCEPT ![Pd] = [m[Pd] EXCEPT ![v[1]] = t]]
<1>1. v[1] \in Index /\ v[2] \in Index /\ Pd \in TableFrames /\ t \in Frame
  BY TableFramesFacts DEF Page
<1>2. m[Pd] \in Table /\ m[t] \in Table
  BY <1>1 DEF BootMemories
<1>3. [m[Pd] EXCEPT ![v[1]] = t] \in Table /\ [m[t] EXCEPT ![v[2]] = f] \in Table
  BY <1>1, <1>2 DEF Table
<1>4. m1 \in BootMemories /\ m1[t] = m[t]
  BY <1>1, <1>3 DEF BootMemories
<1>5. m2 = [m1 EXCEPT ![t] = [m1[t] EXCEPT ![v[2]] = f]]
  BY DEF NewMapped
<1>6. m1[Pd] = [m[Pd] EXCEPT ![v[1]] = t] /\ \A g \in TableFrames : g # Pd => m1[g] = m[g]
  BY <1>1 DEF BootMemories
<1> HIDE DEF m1
<1>7. m2 = [m1 EXCEPT ![t] = [m[t] EXCEPT ![v[2]] = f]]
  BY <1>4, <1>5
<1>8. /\ m2 \in BootMemories
      /\ m2[Pd] = [m[Pd] EXCEPT ![v[1]] = t]
      /\ m2[t] = [m[t] EXCEPT ![v[2]] = f]
      /\ \A g \in TableFrames : g # Pd /\ g # t => m2[g] = m[g]
  BY <1>1, <1>3, <1>4, <1>6, <1>7 DEF BootMemories
<1>9. /\ \A i \in Index : m2[Pd][i] = IF i = v[1] THEN t ELSE m[Pd][i]
      /\ \A j \in Index : m2[t][j] = IF j = v[2] THEN f ELSE m[t][j]
  BY <1>1, <1>2, <1>8 DEF Table
<1>10. QED
  BY <1>8, <1>9 DEF MapEffect

LEMMA OldEffect ==
  ASSUME NEW m \in BootMemories, NEW v \in Page, NEW t \in TableFrames \ {Pd}, t = m[Pd][v[1]],
         NEW f \in Frame,
         NEW m2, m2 = [m EXCEPT ![m[Pd][v[1]]][v[2]] = f]
  PROVE  MapEffect(m, m2, v, t, f)
<1>1. v[1] \in Index /\ v[2] \in Index /\ Pd \in TableFrames
  BY TableFramesFacts DEF Page
<1>2. m[t] \in Table
  BY DEF BootMemories
<1>3. [m[t] EXCEPT ![v[2]] = f] \in Table
  BY <1>1, <1>2 DEF Table
<1>4. m2 = [m EXCEPT ![t] = [m[t] EXCEPT ![v[2]] = f]]
  OBVIOUS
<1>5. /\ m2 \in BootMemories
      /\ m2[Pd] = m[Pd]
      /\ m2[t] = [m[t] EXCEPT ![v[2]] = f]
      /\ \A g \in TableFrames : g # Pd /\ g # t => m2[g] = m[g]
  BY <1>1, <1>3, <1>4 DEF BootMemories
<1>6. \A j \in Index : m2[t][j] = IF j = v[2] THEN f ELSE m[t][j]
  BY <1>1, <1>2, <1>5 DEF Table
<1>7. \A i \in Index : m2[Pd][i] = IF i = v[1] THEN t ELSE m[Pd][i]
  BY <1>5
<1>8. QED
  BY <1>5, <1>6, <1>7 DEF MapEffect

\* The translation of w afterwards.
LEMMA EffectWalk ==
  ASSUME NEW m \in BootMemories, EntriesSound(m), NEW v \in Page, NEW t \in TableFrames \ {Pd},
         NEW f, NEW m2, MapEffect(m, m2, v, t, f), NEW w \in Page
  PROVE  /\ w[1] = v[1] => Walk(m2, w) = IF w[2] = v[2] THEN f ELSE m[t][w[2]]
         /\ w[1] # v[1] /\ m[Pd][w[1]] = t =>
              Walk(m2, w) = IF w[2] = v[2] THEN f ELSE Walk(m, w)
         /\ w[1] # v[1] /\ m[Pd][w[1]] # t => Walk(m2, w) = Walk(m, w)
<1>1. w[1] \in Index /\ w[2] \in Index /\ t # None
  BY TableFramesFacts, Geometry DEF Page
<1>2. CASE w[1] = v[1]
  <2>1. m2[Pd][w[1]] = t
    BY <1>1, <1>2 DEF MapEffect
  <2>2. Walk(m2, w) = m2[t][w[2]]
    BY <1>1, <2>1 DEF Walk
  <2>3. QED
    BY <1>1, <1>2, <2>2 DEF MapEffect
<1>3. CASE w[1] # v[1] /\ m[Pd][w[1]] = t
  <2>1. m2[Pd][w[1]] = t
    BY <1>1, <1>3 DEF MapEffect
  <2>2. Walk(m2, w) = m2[t][w[2]] /\ Walk(m, w) = m[t][w[2]]
    BY <1>1, <1>3, <2>1 DEF Walk
  <2>3. QED
    BY <1>1, <1>3, <2>2 DEF MapEffect
<1>4. CASE w[1] # v[1] /\ m[Pd][w[1]] # t
  <2>1. m2[Pd][w[1]] = m[Pd][w[1]]
    BY <1>1, <1>4 DEF MapEffect
  <2>2. m[Pd][w[1]] # None => m[Pd][w[1]] \in TableFrames \ {Pd}
    BY <1>1 DEF EntriesSound, Present
  <2>3. m[Pd][w[1]] # None => m2[m[Pd][w[1]]] = m[m[Pd][w[1]]]
    BY <1>4, <2>2 DEF MapEffect
  <2>4. QED
    BY <1>4, <2>1, <2>3 DEF Walk
<1>5. QED
  BY <1>2, <1>3, <1>4

\* A page that is mapped is translated as it is meant to be, and so is every earlier one:
\* where each entry has its own table no other page changes; where there is one table, a
\* page with the same entry is meant to be on the same frame.
LEMMA StepPlaces ==
  ASSUME layout \in Layouts, NEW m, NEW u, NEW d, BootSound(m, u, d), d \subseteq Identity \cup Image,
         NEW v \in Identity \cup Image, NEW t \in TableFrames \ {Pd}, NEW f, f = Meant(v),
         NEW m2, MapEffect(m, m2, v, t, f),
         layout.backed => \A i \in Index : i # v[1] => m[Pd][i] # t,
         ~layout.backed => t = Pool + u,
         \A w \in d : w[1] = v[1] => m[t][w[2]] = Walk(m, w)
  PROVE  Placed(m2, d \cup {v})
<1>1. d \cup {v} \subseteq Page /\ v \in Page
  BY PlacesOfPages
<1>2. m \in BootMemories /\ EntriesSound(m) /\ Placed(m, d) /\ OneTableOnly(m, u)
  BY DEF BootSound
<1>3. t # None
  BY TableFramesFacts, Geometry
<1>4. ASSUME NEW w \in d \cup {v} PROVE w[1] \in Present(m2)
  <2>1. w[1] \in Index
    BY <1>1, <1>4 DEF Page
  <2>2. w[1] # v[1] => w[1] \in Present(m)
    BY <1>2, <1>4 DEF Placed
  <2>3. QED
    BY <1>3, <2>1, <2>2 DEF Present, MapEffect
<1>5. ASSUME layout.backed \/ OneTable, NEW w \in d \cup {v} PROVE Walk(m2, w) = Meant(w)
  <2>1. w \in Page /\ w = <<w[1], w[2]>> /\ v = <<v[1], v[2]>> /\ w \in Identity \cup Image
    BY <1>1, <1>5 DEF Page
  <2>2. w \in d => Walk(m, w) = Meant(w)
    BY <1>2, <1>5 DEF Placed
  <2>3. /\ w[1] = v[1] => Walk(m2, w) = IF w[2] = v[2] THEN f ELSE m[t][w[2]]
        /\ w[1] # v[1] /\ m[Pd][w[1]] = t =>
             Walk(m2, w) = IF w[2] = v[2] THEN f ELSE Walk(m, w)
        /\ w[1] # v[1] /\ m[Pd][w[1]] # t => Walk(m2, w) = Walk(m, w)
    BY <1>1, <1>2, <2>1, EffectWalk
  <2>4. CASE w[1] = v[1]
    <3>1. w[2] = v[2] => w = v
      BY <2>1, <2>4
    <3>2. w[2] # v[2] => w \in d
      BY <1>5
    <3>3. QED
      BY <2>2, <2>3, <2>4, <3>1, <3>2
  <2>5. CASE w[1] # v[1]
    <3>1. w \in d /\ w[1] \in Index
      BY <1>5, <2>1, <2>5 DEF Page
    <3>2. CASE layout.backed
      <4>1. m[Pd][w[1]] # t
        BY <2>5, <3>1, <3>2
      <4>2. QED
        BY <2>2, <2>3, <2>5, <3>1, <4>1
    <3>3. CASE ~layout.backed
      <4>1. w[2] = v[2] => Meant(w) = Meant(v)
        BY <1>5, <2>1, <3>3 DEF OneTable
      <4>2. QED
        BY <2>2, <2>3, <2>5, <3>1, <4>1
    <3>4. QED
      BY <3>2, <3>3
  <2>6. QED
    BY <2>4, <2>5
<1>6. QED
  BY <1>4, <1>5 DEF Placed

LEMMA PageInParts ==
  ASSUME NEW v \in Identity \cup Image
  PROVE  v[1] \in Parts
BY DEF Parts

\* map_page on a page whose table exists.
LEMMA OldTableStep ==
  ASSUME layout \in Layouts, NEW m, NEW u, NEW d, BootSound(m, u, d), d \subseteq Identity \cup Image,
         NEW v \in Identity \cup Image, m[Pd][v[1]] # None, NEW f \in Frame, f = Meant(v),
         NEW m2, m2 = [m EXCEPT ![m[Pd][v[1]]][v[2]] = f]
  PROVE  BootSound(m2, u, d \cup {v})
<1> DEFINE t == m[Pd][v[1]]
<1>1. v \in Page /\ v[1] \in Index /\ d \subseteq Page
  BY PlacesOfPages DEF Page
<1>2. /\ m \in BootMemories /\ EntriesSound(m) /\ Placed(m, d) /\ OneTableOnly(m, u)
      /\ OwnTables(m, u, d) /\ u \in 0 .. Entries * Entries - 1 /\ u \in Nat
  BY Geometry DEF BootSound
<1>3. v[1] \in Present(m) /\ t \in TableFrames \ {Pd}
  BY <1>1, <1>2 DEF Present, EntriesSound
<1>4. MapEffect(m, m2, v, t, f)
  BY <1>1, <1>2, <1>3, OldEffect
<1>5. m2 \in BootMemories /\ \A i \in Index : m2[Pd][i] = m[Pd][i]
  BY <1>4 DEF MapEffect
<1>6. Present(m2) = Present(m)
  BY <1>5 DEF Present
<1>7. EntriesSound(m2) /\ OneTableOnly(m2, u)
  <2>1. \A i \in Present(m) : i \in Index
    BY DEF Present
  <2>2. QED
    BY <1>2, <1>5, <1>6, <2>1 DEF EntriesSound, OneTableOnly
<1>8. ASSUME layout.backed, NEW i \in Index, i # v[1] PROVE m[Pd][i] # t
  <2>1. m[Pd][i] = t => i \in Present(m)
    BY <1>3, TableFramesFacts, Geometry DEF Present
  <2>2. QED
    BY <1>2, <1>3, <1>8, <2>1 DEF OwnTables
<1>9. ~layout.backed => t = Pool + u
  BY <1>2, <1>3 DEF OneTableOnly
<1>10. \A w \in Page : w[1] = v[1] => m[t][w[2]] = Walk(m, w)
  BY <1>3 DEF Walk, Present
<1>11. Placed(m2, d \cup {v})
  <2>1. \A w \in d : w[1] = v[1] => m[t][w[2]] = Walk(m, w)
    BY <1>1, <1>10
  <2> HIDE DEF t
  <2>2. QED
    BY <1>3, <1>4, <1>8, <1>9, <2>1, StepPlaces
<1>12. OwnTables(m2, u, d \cup {v})
  <2>1. SUFFICES ASSUME layout.backed PROVE OwnTables(m2, u, d \cup {v})
    BY DEF OwnTables
  <2>2. /\ First <= u /\ Cardinality(Present(m2)) = u - First
        /\ \A i \in Present(m2) : \E k \in 0 .. u - 1 : m2[Pd][i] = Pool + k
        /\ \A i, j \in Present(m2) : m2[Pd][i] = m2[Pd][j] => i = j
    <3>1. \A i \in Present(m) : m2[Pd][i] = m[Pd][i]
      BY <1>5 DEF Present
    <3>2. /\ First <= u /\ Cardinality(Present(m)) = u - First
          /\ \A i \in Present(m) : \E k \in 0 .. u - 1 : m[Pd][i] = Pool + k
          /\ \A i, j \in Present(m) : m[Pd][i] = m[Pd][j] => i = j
      BY <1>2, <2>1 DEF OwnTables
    <3>3. \A i \in Present(m) : \E k \in 0 .. u - 1 : m2[Pd][i] = Pool + k
      BY <3>1, <3>2
    <3>4. \A i, j \in Present(m) : m2[Pd][i] = m2[Pd][j] => i = j
      BY <3>1, <3>2
    <3>5. QED
      BY <1>6, <3>2, <3>3, <3>4
  <2>3. ASSUME NEW k \in u .. PoolSize - 1 PROVE m2[Pool + k] = ZeroTable
    <3>1. PICK k2 \in 0 .. u - 1 : t = Pool + k2
      BY <1>2, <1>3, <2>1 DEF OwnTables
    <3>2. k \in 0 .. PoolSize - 1 /\ k # k2 /\ k \in Nat /\ k2 \in Nat
      BY <1>2, TableFramesFacts
    <3>3. Pool + k \in TableFrames /\ Pool + k # Pd /\ Pool + k # t
      BY <3>1, <3>2, TableFramesFacts
    <3>4. m2[Pool + k] = m[Pool + k]
      BY <1>4, <3>3 DEF MapEffect
    <3>5. QED
      BY <1>2, <2>1, <3>4 DEF OwnTables
  <2>4. ASSUME NEW w \in Page \ (d \cup {v}) PROVE Walk(m2, w) = None
    <3>1. Walk(m, w) = None /\ w \in Page /\ w[1] \in Index
      BY <1>2, <2>1 DEF OwnTables, Page
    <3>2. w[1] = v[1] => w[2] # v[2]
      BY <1>1, <3>1 DEF Page
    <3>3. w[1] # v[1] => m[Pd][w[1]] # t
      BY <1>8, <2>1, <3>1
    <3>4. w[1] = v[1] => m[t][w[2]] = None
      BY <1>10, <3>1
    <3> HIDE DEF t
    <3>5. /\ w[1] = v[1] => Walk(m2, w) = IF w[2] = v[2] THEN f ELSE m[t][w[2]]
          /\ w[1] # v[1] /\ m[Pd][w[1]] # t => Walk(m2, w) = Walk(m, w)
      BY <1>1, <1>2, <1>3, <1>4, <3>1, EffectWalk
    <3>6. QED
      BY <3>1, <3>2, <3>3, <3>4, <3>5
  <2>5. QED
    BY <2>2, <2>3, <2>4 DEF OwnTables
<1>13. QED
  BY <1>2, <1>5, <1>7, <1>11, <1>12 DEF BootSound

LEMMA PresentFinite ==
  ASSUME NEW m
  PROVE  Present(m) \subseteq Index /\ IsFiniteSet(Index) /\ IsFiniteSet(Present(m))
<1>1. Present(m) \subseteq Index
  BY DEF Present
<1>2. 0 \in Int /\ Entries - 1 \in Int
  BY Geometry
<1>3. IsFiniteSet(Index)
  BY <1>2, FS_Interval DEF Index
<1>4. QED
  BY <1>1, <1>3, FS_Subset

\* map_page on a page without a table, while the pool has one.
LEMMA NewTableStep ==
  ASSUME layout \in Layouts, NEW m, NEW u, NEW d, BootSound(m, u, d), d \subseteq Identity \cup Image,
         NEW v \in Identity \cup Image, m[Pd][v[1]] = None, u < PoolSize,
         NEW f \in Frame, f = Meant(v),
         NEW m2, m2 = NewMapped(m, v, Pool + u, f),
         NEW u2, u2 = IF layout.backed THEN u + 1 ELSE u
  PROVE  BootSound(m2, u2, d \cup {v})
<1> DEFINE t == Pool + u
<1>1. v \in Page /\ v[1] \in Index /\ v[2] \in Index /\ d \subseteq Page
  BY PlacesOfPages DEF Page
<1>2. /\ m \in BootMemories /\ EntriesSound(m) /\ Placed(m, d) /\ OneTableOnly(m, u)
      /\ OwnTables(m, u, d) /\ u \in 0 .. Entries * Entries - 1 /\ u \in Nat
  BY Geometry DEF BootSound
<1>3. u \in 0 .. PoolSize - 1 /\ u \in Nat
  BY <1>2, TableFramesFacts
<1>4. t \in TableFrames \ {Pd} /\ t # None
  BY <1>3, TableFramesFacts, Geometry
<1>5. MapEffect(m, m2, v, t, f)
  BY <1>1, <1>2, <1>4, NewEffect
<1>6. v[1] \notin Present(m)
  BY DEF Present
<1> HIDE DEF t
<1>7. /\ m2 \in BootMemories
      /\ \A i \in Index : m2[Pd][i] = IF i = v[1] THEN t ELSE m[Pd][i]
  BY <1>5 DEF MapEffect
<1>8. Present(m2) = Present(m) \cup {v[1]}
  BY <1>1, <1>4, <1>7 DEF Present
<1>9. m2[Pd][v[1]] = t /\ \A i \in Present(m) : m2[Pd][i] = m[Pd][i]
  BY <1>1, <1>6, <1>7 DEF Present
<1>10. EntriesSound(m2)
  BY <1>2, <1>4, <1>8, <1>9, PageInParts DEF EntriesSound
<1>11. OneTableOnly(m2, u2)
  BY <1>2, <1>8, <1>9 DEF OneTableOnly, t
<1>12. ASSUME layout.backed, NEW i \in Present(m) PROVE m[Pd][i] # t
  <2>1. PICK k \in 0 .. u - 1 : m[Pd][i] = Pool + k
    BY <1>2, <1>12 DEF OwnTables
  <2>2. QED
    BY <1>3, <2>1, TableFramesFacts DEF t
<1>13. Placed(m2, d \cup {v})
  <2>1. ASSUME layout.backed, NEW i \in Index, i # v[1] PROVE m[Pd][i] # t
    BY <1>4, <1>12, <2>1 DEF Present
  <2>2. ~layout.backed => t = Pool + u
    BY DEF t
  <2>3. \A w \in d : w[1] = v[1] => m[t][w[2]] = Walk(m, w)
    BY <1>2, <1>6 DEF Placed
  <2>4. QED
    BY <1>4, <1>5, <2>1, <2>2, <2>3, StepPlaces
<1>14. OwnTables(m2, u2, d \cup {v})
  <2>1. SUFFICES ASSUME layout.backed PROVE OwnTables(m2, u2, d \cup {v})
    BY DEF OwnTables
  <2>2. /\ First <= u /\ Cardinality(Present(m)) = u - First
        /\ \A i \in Present(m) : \E k \in 0 .. u - 1 : m[Pd][i] = Pool + k
        /\ \A i, j \in Present(m) : m[Pd][i] = m[Pd][j] => i = j
        /\ \A k \in u .. PoolSize - 1 : m[Pool + k] = ZeroTable
        /\ \A w \in Page \ d : Walk(m, w) = None
    BY <1>2, <2>1 DEF OwnTables
  <2>3. u2 = u + 1 /\ First \in Nat
    BY <2>1, LayoutFacts, SlotFacts, Geometry DEF First
  <2>4. First <= u2 /\ Cardinality(Present(m2)) = u2 - First
    <3>1. Cardinality(Present(m2)) = Cardinality(Present(m)) + 1
      BY <1>6, <1>8, PresentFinite, FS_AddElement
    <3>2. QED
      BY <1>3, <2>2, <2>3, <3>1
  <2>5. ASSUME NEW i \in Present(m2) PROVE \E k \in 0 .. u2 - 1 : m2[Pd][i] = Pool + k
    <3>1. CASE i = v[1]
      <4>1. u \in 0 .. u2 - 1
        BY <1>3, <2>3
      <4>2. QED
        BY <1>9, <3>1, <4>1 DEF t
    <3>2. CASE i \in Present(m)
      <4>1. PICK k \in 0 .. u - 1 : m[Pd][i] = Pool + k
        BY <2>2, <3>2
      <4>2. k \in 0 .. u2 - 1
        BY <1>3, <2>3
      <4>3. QED
        BY <1>9, <3>2, <4>1, <4>2
    <3>3. QED
      BY <1>8, <2>5, <3>1, <3>2
  <2>6. ASSUME NEW i \in Present(m2), NEW j \in Present(m2), m2[Pd][i] = m2[Pd][j] PROVE i = j
    <3>1. \A k \in Present(m) : m[Pd][k] # t
      BY <1>12, <2>1
    <3>2. (i = v[1] \/ i \in Present(m)) /\ (j = v[1] \/ j \in Present(m))
      BY <1>8, <2>6
    <3>3. i \in Present(m) /\ j \in Present(m) => m[Pd][i] = m[Pd][j]
      BY <1>9, <2>6
    <3>4. QED
      BY <1>9, <2>2, <2>6, <3>1, <3>2, <3>3
  <2>7. ASSUME NEW k \in u2 .. PoolSize - 1 PROVE m2[Pool + k] = ZeroTable
    <3>1. k \in 0 .. PoolSize - 1 /\ k \in u .. PoolSize - 1 /\ k # u /\ k \in Nat
      BY <1>3, <2>3, TableFramesFacts
    <3>2. Pool + k \in TableFrames /\ Pool + k # Pd /\ Pool + k # t
      BY <1>3, <3>1, TableFramesFacts DEF t
    <3>3. m2[Pool + k] = m[Pool + k]
      BY <1>5, <3>2 DEF MapEffect
    <3>4. QED
      BY <2>2, <3>1, <3>3
  <2>8. ASSUME NEW w \in Page \ (d \cup {v}) PROVE Walk(m2, w) = None
    <3>1. Walk(m, w) = None /\ w \in Page /\ w[1] \in Index /\ w[2] \in Index
      BY <2>2 DEF Page
    <3>2. w[1] = v[1] => w[2] # v[2]
      BY <1>1, <3>1 DEF Page
    <3>3. w[1] # v[1] => m[Pd][w[1]] # t
      BY <1>4, <1>12, <2>1, <3>1 DEF Present
    <3>4. m[t] = ZeroTable
      BY <1>3, <2>2, TableFramesFacts DEF t
    <3>5. m[t][w[2]] = None
      BY <3>1, <3>4 DEF ZeroTable
    <3>6. /\ w[1] = v[1] => Walk(m2, w) = IF w[2] = v[2] THEN f ELSE m[t][w[2]]
          /\ w[1] # v[1] /\ m[Pd][w[1]] # t => Walk(m2, w) = Walk(m, w)
      BY <1>1, <1>2, <1>4, <1>5, <3>1, EffectWalk
    <3>7. QED
      BY <3>1, <3>2, <3>3, <3>5, <3>6
  <2>9. QED
    BY <2>4, <2>5, <2>6, <2>7, <2>8 DEF OwnTables
<1>15. u2 \in 0 .. Entries * Entries - 1
  BY <1>3, TableFramesFacts, Geometry
<1>16. QED
  BY <1>7, <1>10, <1>11, <1>13, <1>14, <1>15 DEF BootSound

\* When the pool is empty and a table is missing, there are more parts than tables.
LEMMA PoolIsShort ==
  ASSUME layout \in Layouts, NEW m, NEW d, BootSound(m, PoolSize, d),
         NEW v \in Identity \cup Image, m[Pd][v[1]] = None
  PROVE  Cardinality(Parts) > PoolSize - First /\ Cardinality(Parts) \in Nat
<1>1. v[1] \in Index /\ v[1] \in Parts /\ v[1] \notin Present(m)
  BY PlacesOfPages, PageInParts DEF Page, Present
<1>2. Parts \subseteq Index
  BY PlacesOfPages DEF Parts, Page
<1>3. IsFiniteSet(Parts) /\ IsFiniteSet(Present(m)) /\ Cardinality(Parts) \in Nat
  BY <1>2, PresentFinite, FS_Subset, FS_CardinalityType
<1>4. Present(m) \cup {v[1]} \subseteq Parts
  BY <1>1 DEF BootSound, EntriesSound
<1>5. Cardinality(Present(m) \cup {v[1]}) = Cardinality(Present(m)) + 1
  BY <1>1, <1>3, FS_AddElement
<1>6. Cardinality(Present(m)) + 1 <= Cardinality(Parts)
  BY <1>3, <1>4, <1>5, FS_Subset
<1>7. First \in Nat /\ PoolSize \in Nat /\ Cardinality(Present(m)) \in Nat
  <2>1. layout.reads \in Address
    BY LayoutFacts
  <2>2. First \in Nat
    BY <2>1, SlotFacts, Geometry DEF First
  <2>3. QED
    BY <1>3, <2>2, TableFramesFacts, FS_CardinalityType
<1>8. CASE layout.backed
  BY <1>3, <1>6, <1>7, <1>8 DEF BootSound, OwnTables
<1>9. CASE ~layout.backed
  BY <1>3, <1>6, <1>7, <1>9 DEF BootSound, OneTableOnly
<1>10. QED
  BY <1>8, <1>9

-----------------------------------------------------------------------------
(***************************************************************************)
(* The invariant.                                                          *)
(***************************************************************************)
BootstrapInv ==
  /\ BootstrapTypeOK
  /\ PoolSuffices
  /\ paging = "off" =>
       /\ TodoSound(todo) /\ DoneBy(todo) \subseteq Identity \cup Image
       /\ BootSound(mem, Slot(used), DoneBy(todo))
       /\ layout.reads <= PoolSize => used <= PoolSize

\* What depends on the layout alone stays as it is.
LEMMA LayoutKept ==
  ASSUME layout' = layout
  PROVE  /\ Identity' = Identity /\ Image' = Image /\ Parts' = Parts /\ BootPages' = BootPages
         /\ ImageRegion' = ImageRegion /\ MbiRegion' = MbiRegion
         /\ OneTable' <=> OneTable
         /\ \A v : Meant(v)' = Meant(v)
<1>1. Identity' = Identity /\ Image' = Image /\ BootPages' = BootPages
  BY DEF Identity, Image, BootPages
<1>2. Parts' = Parts
  BY <1>1 DEF Parts
<1>3. ImageRegion' = ImageRegion /\ MbiRegion' = MbiRegion
  BY DEF ImageRegion, MbiRegion
<1>4. \A v : Meant(v)' = Meant(v)
  BY <1>1 DEF Meant
<1>5. OneTable' <=> OneTable
  BY <1>1, <1>4 DEF OneTable
<1>6. QED
  BY <1>1, <1>2, <1>3, <1>4, <1>5

LEMMA SoundKept ==
  ASSUME layout' = layout, TodoSound(todo'), DoneBy(todo') \subseteq Identity \cup Image,
         BootSound(mem', Slot(used'), DoneBy(todo'))
  PROVE  /\ TodoSound(todo)' /\ (DoneBy(todo) \subseteq Identity \cup Image)'
         /\ BootSound(mem, Slot(used), DoneBy(todo))'
<1>1. TodoSound(todo)'
  BY LayoutKept DEF TodoSound
<1>2. (DoneBy(todo))' = DoneBy(todo')
  BY LayoutKept DEF DoneBy
<1>3. (DoneBy(todo) \subseteq Identity \cup Image)'
  BY <1>2, LayoutKept
<1>4. EntriesSound(mem)'
  BY LayoutKept DEF BootSound, EntriesSound, Present
<1>5. (Placed(mem, DoneBy(todo)))'
  <2>1. Placed(mem', DoneBy(todo'))
    BY DEF BootSound
  <2>2. QED
    BY <1>2, <2>1, LayoutKept DEF Placed, Present
<1> First' = First /\ Slot(used)' = Slot(used')
  BY DEF First, Slot
<1>6. (OneTableOnly(mem, Slot(used)))'
  BY DEF BootSound, OneTableOnly, Present
<1>7. (OwnTables(mem, Slot(used), DoneBy(todo)))'
  <2>1. OwnTables(mem', Slot(used'), DoneBy(todo'))
    BY DEF BootSound
  <2>2. QED
    BY <1>2, <2>1 DEF OwnTables, Present
<1>8. (mem \in BootMemories)' /\ (Slot(used) \in 0 .. Entries * Entries - 1)'
  BY DEF BootSound, BootMemories, TableFrames, PoolFrames
<1>9. (BootSound(mem, Slot(used), DoneBy(todo)))'
  BY <1>4, <1>5, <1>6, <1>7, <1>8 DEF BootSound
<1>10. QED
  BY <1>1, <1>3, <1>9

LEMMA BootstrapBegins == BootstrapInit => BootstrapInv
<1> SUFFICES ASSUME BootstrapInit PROVE BootstrapInv
  OBVIOUS
<1>1. /\ layout \in Layouts /\ mem = [f \in TableFrames |-> ZeroTable] /\ used = layout.reads
      /\ todo = <<BootRegion, ImageRegion, MbiRegion>> /\ paging = "off"
  BY DEF BootstrapInit, BootRegion, ImageRegion, MbiRegion
<1>2. TodoSound(todo) /\ DoneBy(todo) = {}
  BY <1>1, TodoBegins
<1>3. BootSound(mem, Slot(used), {})
  BY <1>1, BootBegins DEF First
<1>4. BootstrapTypeOK
  BY <1>1, <1>2, <1>3, LayoutFacts DEF BootstrapTypeOK, TodoSound, BootSound, BootMemories, Region
<1>5. PoolSuffices
  BY <1>1 DEF PoolSuffices
<1>6. BootSound(mem, Slot(used), DoneBy(todo)) /\ (layout.reads <= PoolSize => used <= PoolSize)
  BY <1>1, <1>2, <1>3
<1>7. QED
  BY <1>2, <1>4, <1>5, <1>6 DEF BootstrapInv

LEMMA MapPageStep == BootstrapInv /\ MapPage => BootstrapInv'
<1> SUFFICES ASSUME BootstrapInv, MapPage PROVE BootstrapInv'
  OBVIOUS
<1> DEFINE r == todo[1]
           v == PageOf(r.v)
           f == FrameOf(r.p)
<1>1. /\ paging = "off" /\ todo # <<>> /\ layout' = layout /\ layout \in Layouts
      /\ Head(todo) = r /\ r.v < r.end
  BY DEF MapPage, BootstrapInv, BootstrapTypeOK
<1>2. /\ TodoSound(todo) /\ DoneBy(todo) \subseteq Identity \cup Image
      /\ BootSound(mem, Slot(used), DoneBy(todo))
      /\ layout.reads <= PoolSize => used <= PoolSize
  BY <1>1 DEF BootstrapInv
<1>3. /\ r \in Region /\ v \in Identity \cup Image /\ Meant(v) = f
      /\ TodoSound(Advanced(todo)) /\ DoneBy(Advanced(todo)) = DoneBy(todo) \cup {v}
  BY <1>1, <1>2, TodoStep
<1>4. f \in Frame
  BY <1>3, FrameOfType DEF Region
<1>5. PoolSize \in Nat /\ used \in Address /\ used \in Nat /\ layout.reads \in Nat
  BY <1>1, LayoutFacts, TableFramesFacts, Geometry DEF BootstrapInv, BootstrapTypeOK, Address
<1>6. CASE TableMissing(v) /\ PoolEmpty
  <2>1. paging' = "panic" /\ UNCHANGED <<mem, used, todo, layout>>
    BY <1>1, <1>6 DEF MapPage
  <2>2. Slot(used) = PoolSize
    BY <1>5, <1>6, SlotFacts DEF PoolEmpty
  <2>3. mem[Pd][v[1]] = None
    BY <1>6 DEF TableMissing
  <2>4. Cardinality(Parts) > PoolSize - layout.reads
    <3>1. Cardinality(Parts) > PoolSize - First /\ Cardinality(Parts) \in Nat
      BY <1>1, <1>2, <1>3, <2>2, <2>3, PoolIsShort
    <3>2. First <= layout.reads /\ First \in Nat
      BY <1>1, LayoutFacts, SlotFacts, Geometry DEF First
    <3>3. QED
      BY <1>5, <3>1, <3>2
  <2>5. PoolSuffices'
    BY <1>1, <2>1, <2>4, LayoutKept DEF PoolSuffices
  <2>6. BootstrapTypeOK'
    BY <2>1 DEF BootstrapInv, BootstrapTypeOK, TableFrames, PoolFrames
  <2>7. QED
    BY <2>1, <2>5, <2>6 DEF BootstrapInv
<1>7. CASE TableMissing(v) /\ ~PoolEmpty /\ alloc_pt \notin PoolFrames
  <2>1. paging' = "stray" /\ UNCHANGED <<mem, used, todo, layout>>
    BY <1>1, <1>7 DEF MapPage
  <2>2. layout.reads > PoolSize
    <3>1. used < PoolSize => alloc_pt \in PoolFrames
      BY <1>5, SlotFacts DEF alloc_pt
    <3>2. used # PoolSize
      BY <1>7 DEF PoolEmpty
    <3>3. QED
      BY <1>2, <1>5, <1>7, <3>1, <3>2
  <2>3. PoolSuffices'
    BY <1>1, <2>1, <2>2 DEF PoolSuffices
  <2>4. BootstrapTypeOK'
    BY <2>1 DEF BootstrapInv, BootstrapTypeOK, TableFrames, PoolFrames
  <2>5. QED
    BY <2>1, <2>3, <2>4 DEF BootstrapInv
<1>8. CASE TableMissing(v) => ~PoolEmpty /\ alloc_pt \in PoolFrames
  <2>1. map_page(v, r.p) /\ paging' = paging
    BY <1>1, <1>8 DEF MapPage
  <2>2. todo' = Advanced(todo)
    BY <1>1, <1>8 DEF MapPage, Advanced
  <2>3. /\ BootSound(mem', Slot(used'), DoneBy(todo) \cup {v}) /\ used' \in Address
        /\ layout.reads <= PoolSize => used' <= PoolSize
    <3>1. CASE mem[Pd][v[1]] = None
      <4>1. /\ used' = IF layout.backed THEN (used + 1) % Words ELSE used
            /\ mem' = NewMapped(mem, v, (Pool + used) % (Entries * Entries), f)
        BY <2>1, <3>1 DEF map_page, TableMissing, alloc_pt, NewMapped
      <4>2. (Pool + used) % (Entries * Entries) \in PoolFrames
        BY <1>8, <3>1 DEF TableMissing, alloc_pt
      <4>3. /\ Slot(used) < PoolSize
            /\ (Pool + used) % (Entries * Entries) = Pool + Slot(used)
            /\ Slot((used + 1) % Words) = Slot(used) + 1 /\ (used + 1) % Words \in Address
            /\ used <= PoolSize => (used + 1) % Words <= PoolSize
        BY <1>5, <4>2, SlotTaken
      <4>4. /\ Slot(used') = IF layout.backed THEN Slot(used) + 1 ELSE Slot(used)
            /\ mem' = NewMapped(mem, v, Pool + Slot(used), f)
            /\ used' \in Address /\ (layout.reads <= PoolSize => used' <= PoolSize)
        BY <1>2, <1>5, <4>1, <4>3
      <4> HIDE DEF v, f
      <4>5. QED
        BY <1>1, <1>2, <1>3, <1>4, <3>1, <4>3, <4>4, NewTableStep
    <3>2. CASE mem[Pd][v[1]] # None
      <4>1. used' = used /\ mem' = [mem EXCEPT ![mem[Pd][v[1]]][v[2]] = f]
        BY <2>1, <3>2 DEF map_page, TableMissing
      <4> HIDE DEF v, f
      <4>2. QED
        BY <1>1, <1>2, <1>3, <1>4, <1>5, <3>2, <4>1, OldTableStep
    <3>3. QED
      BY <3>1, <3>2
  <2>4. /\ TodoSound(todo') /\ DoneBy(todo') \subseteq Identity \cup Image
        /\ BootSound(mem', Slot(used'), DoneBy(todo'))
    BY <1>2, <1>3, <2>2, <2>3
  <2>5. /\ TodoSound(todo)' /\ (DoneBy(todo) \subseteq Identity \cup Image)'
        /\ BootSound(mem, Slot(used), DoneBy(todo))'
    BY <1>1, <2>4, SoundKept
  <2>6. BootstrapTypeOK'
    <3>1. todo' \in Seq(Region) /\ mem' \in BootMemories /\ used' \in Address
      BY <2>3, <2>4 DEF TodoSound, BootSound
    <3>2. QED
      BY <1>1, <2>1, <3>1 DEF BootstrapTypeOK, BootMemories, Region, TableFrames, PoolFrames
  <2>7. PoolSuffices'
    BY <1>1, <2>1 DEF PoolSuffices
  <2>8. (layout.reads <= PoolSize => used <= PoolSize)'
    BY <1>1, <2>3
  <2>9. QED
    BY <2>5, <2>6, <2>7, <2>8 DEF BootstrapInv
<1>9. QED
  BY <1>6, <1>7, <1>8

\* Once paging is on or the bootstrap has given up, only the tables may change.
LEMMA PagingStep ==
  ASSUME BootstrapInv, paging' # "off", paging' \in {"on", "lost", "panic"},
         paging' = "panic" => paging = "panic",
         layout' = layout, used' = used, todo' = todo, mem' \in BootMemories
  PROVE  BootstrapInv'
<1>1. PoolSuffices'
  BY LayoutKept DEF BootstrapInv, PoolSuffices
<1>2. BootstrapTypeOK'
  BY DEF BootstrapInv, BootstrapTypeOK, BootMemories, TableFrames, PoolFrames
<1>3. QED
  BY <1>1, <1>2 DEF BootstrapInv

LEMMA enter_virtualStep == BootstrapInv /\ enter_virtual => BootstrapInv'
<1> SUFFICES ASSUME BootstrapInv, enter_virtual PROVE BootstrapInv'
  OBVIOUS
<1>1. /\ layout' = layout /\ used' = used /\ todo' = todo
      /\ mem' = [mem EXCEPT ![Pd] = [mem[Pd] EXCEPT ![Recursive] = Pd]]
      /\ paging' \in {"on", "lost"}
  BY DEF enter_virtual
<1>2. mem \in BootMemories /\ Pd \in TableFrames /\ Pd \in Frame /\ Recursive \in Index
  BY TableFramesFacts, Geometry DEF BootstrapInv, BootstrapTypeOK, BootMemories
<1>3. [mem[Pd] EXCEPT ![Recursive] = Pd] \in Table
  BY <1>2 DEF BootMemories, Table
<1>4. mem' \in BootMemories
  BY <1>1, <1>2, <1>3 DEF BootMemories
<1>5. QED
  BY <1>1, <1>4, PagingStep

\* When paging comes on, everything is linked.
LEMMA PagingIsLinked ==
  BootstrapInv /\ enter_virtual => Linked(mem')
<1> SUFFICES ASSUME BootstrapInv, enter_virtual PROVE Linked(mem')
  OBVIOUS
<1> DEFINE m == mem'
<1>1. /\ layout \in Layouts /\ todo = <<>>
      /\ TodoSound(todo) /\ BootSound(mem, Slot(used), DoneBy(todo))
      /\ m = [mem EXCEPT ![Pd] = [mem[Pd] EXCEPT ![Recursive] = Pd]]
  BY DEF BootstrapInv, BootstrapTypeOK, enter_virtual
<1>2. DoneBy(todo) = Identity \cup Image
  BY <1>1, EmptySeq DEF DoneBy
<1>3. /\ mem \in BootMemories /\ EntriesSound(mem) /\ Placed(mem, Identity \cup Image)
      /\ OwnTables(mem, Slot(used), Identity \cup Image)
  BY <1>1, <1>2 DEF BootSound
<1> HIDE DEF m
<1>4. Pd \in TableFrames /\ Pd # None /\ Recursive \in Index
  BY TableFramesFacts, Geometry
<1>5. /\ m[Pd] = [mem[Pd] EXCEPT ![Recursive] = Pd]
      /\ \A g \in TableFrames : g # Pd => m[g] = mem[g]
  BY <1>1, <1>3, <1>4 DEF BootMemories
<1>6. mem[Pd] \in Table
  BY <1>3, <1>4 DEF BootMemories
<1>7. m[Pd][Recursive] = Pd /\ \A i \in Index : i # Recursive => m[Pd][i] = mem[Pd][i]
  BY <1>4, <1>5, <1>6 DEF Table
<1>8. ASSUME NEW w \in Page, w[1] # Recursive PROVE Walk(m, w) = Walk(mem, w)
  <2>1. w[1] \in Index /\ m[Pd][w[1]] = mem[Pd][w[1]]
    BY <1>7, <1>8 DEF Page
  <2>2. mem[Pd][w[1]] # None => m[mem[Pd][w[1]]] = mem[mem[Pd][w[1]]]
    BY <1>3, <1>5, <2>1 DEF EntriesSound, Present
  <2>3. QED
    BY <2>1, <2>2 DEF Walk
<1>9. layout.backed \/ OneTable => InPlace(m)
  BY <1>1, <1>3, <1>8, PlacesOfPages DEF Placed, InPlace
<1>10. layout.backed =>
         \A w \in Page \ (Identity \cup Image) : w[1] # Recursive => Walk(m, w) = None
  BY <1>3, <1>8 DEF OwnTables
<1>11. \A i \in Index : Walk(m, <<Recursive, i>>) = m[Pd][i]
  BY <1>4, <1>7 DEF Walk
<1>12. QED
  BY <1>9, <1>10, <1>11 DEF Linked, m
-----------------------------------------------------------------------------
(***************************************************************************)
(* The steps of enter_kernel.                                              *)
(***************************************************************************)
LEMMA ProgramSteps ==
  /\ Len(Program) = 19
  /\ Program[1].do = "parse_multiboot" /\ Program[2].do = "init_phys_alloc"
  /\ Program[3].do = "setup_output" /\ Program[4].do = "unmap_unused"
  /\ Program[5].do = "init_gdt" /\ Program[6].do = "init_isrs"
  /\ Program[7].do = "lidt" /\ Program[8].do = "sti"
  /\ Program[9] = Out("master", "cmd", 17) /\ Program[10] = Out("slave", "cmd", 17)
  /\ Program[11] = Out("master", "data", 32) /\ Program[12] = Out("slave", "data", 40)
  /\ Program[13] = Out("master", "data", 4) /\ Program[14] = Out("slave", "data", 2)
  /\ Program[15] = Out("master", "data", 1) /\ Program[16] = Out("slave", "data", 1)
  /\ Program[17] = Out("master", "data", 255) /\ Program[18] = Out("slave", "data", 255)
  /\ Program[19].do = "call_constructors"
BY DEF Program, Call, init_pic, Remap, mask_all

LEMMA OutSteps ==
  ASSUME NEW which, NEW port, NEW value
  PROVE  LET o == Out(which, port, value)
         IN  o.do = "outb" /\ o.which = which /\ o.port = port /\ o.value = value
BY DEF Out

LEMMA Positions ==
  ASSUME pc \in 1 .. Len(Program) + 1
  PROVE  /\ pc \in 1 .. 20 /\ (InMain <=> pc = 20) /\ (Loaded <=> pc > 7) /\ (Initialised <=> pc > 18)
         /\ At("parse_multiboot") => pc = 1
         /\ At("init_phys_alloc") => pc = 2
         /\ At("setup_output") => pc = 3
         /\ At("unmap_unused") => pc = 4
         /\ At("init_gdt") => pc = 5
         /\ At("init_isrs") => pc = 6
         /\ At("lidt") => pc = 7
         /\ At("sti") => pc = 8
         /\ At("outb") => pc \in 9 .. 18
         /\ At("call_constructors") => pc = 19
<1>1. pc \in 1 .. 20 /\ (InMain <=> pc = 20)
  BY ProgramSteps DEF InMain
<1>2. \A k \in 9 .. 18 : Program[k].do = "outb"
  BY ProgramSteps, OutSteps
<1>3. \A k \in 1 .. 19 : Program[k].do = "lidt" => k = 7
  BY <1>2, ProgramSteps
<1>4. (CHOOSE k \in DOMAIN Program : Program[k].do = "lidt") = 7
  <2>1. DOMAIN Program = 1 .. 19
    BY ProgramSteps DEF Program, init_pic, Remap, mask_all
  <2>2. QED
    BY <1>3, <2>1, ProgramSteps
<1>5. (Loaded <=> pc > 7) /\ (Initialised <=> pc > 18)
  <2>1. Loaded <=> pc > 7
    BY <1>4 DEF Loaded
  <2>2. Initialised <=> pc > 18
    BY ProgramSteps DEF Initialised
  <2>3. QED
    BY <2>1, <2>2
<1>6. ASSUME NEW name, At(name) PROVE pc \in 1 .. 19 /\ Program[pc].do = name
  BY <1>1, <1>6 DEF At
<1>7. At("outb") => pc \in 9 .. 18
  BY <1>6, ProgramSteps
<1>8. QED
  BY <1>1, <1>2, <1>5, <1>6, <1>7, ProgramSteps

-----------------------------------------------------------------------------
(***************************************************************************)
(* The parser's loop.                                                      *)
(***************************************************************************)
\* g is what the loop has found after 0, 1, ... k entries.
Loop(g, k, mmap, words) ==
  g = [i \in 0 .. k |-> IF i = 0 THEN Failed ELSE Better(g[i - 1], mmap[i], words)]

\* The loop's values are defined: the recursion has a solution.
LEMMA LoopDefined ==
  ASSUME NEW mmap, NEW words, NEW n \in Nat
  PROVE  \E g : Loop(g, n, mmap, words)
<1> DEFINE S == {k \in Nat : \E g : Loop(g, k, mmap, words)}
<1>1. 0 \in S
  <2>1. Loop([i \in 0 .. 0 |-> Failed], 0, mmap, words)
    BY DEF Loop
  <2>2. QED
    BY <2>1
<1>2. ASSUME NEW k \in Nat, k \in S PROVE k + 1 \in S
  <2>1. PICK g : Loop(g, k, mmap, words)
    BY <1>2
  <2> DEFINE h == [i \in 0 .. k + 1 |->
                     IF i <= k THEN g[i] ELSE Better(g[k], mmap[k + 1], words)]
             h2 == [i \in 0 .. k + 1 |->
                      IF i = 0 THEN Failed ELSE Better(h[i - 1], mmap[i], words)]
  <2>2. ASSUME NEW i \in 0 .. k + 1
        PROVE  h[i] = IF i = 0 THEN Failed ELSE Better(h[i - 1], mmap[i], words)
    <3>1. CASE i <= k
      <4>1. i \in 0 .. k /\ h[i] = g[i]
        BY <1>2, <2>2, <3>1
      <4>2. g[i] = IF i = 0 THEN Failed ELSE Better(g[i - 1], mmap[i], words)
        BY <2>1, <4>1 DEF Loop
      <4>3. i # 0 => h[i - 1] = g[i - 1]
        BY <1>2, <4>1
      <4>4. QED
        BY <4>1, <4>2, <4>3
    <3>2. CASE ~ (i <= k)
      <4>1. i = k + 1 /\ i # 0 /\ i - 1 = k /\ k \in 0 .. k + 1 /\ k <= k
        BY <1>2, <2>2, <3>2
      <4>2. h[i - 1] = g[k]
        BY <4>1
      <4>3. h[i] = Better(g[k], mmap[k + 1], words)
        BY <2>2, <3>2
      <4> HIDE DEF h
      <4>4. QED
        BY <4>1, <4>2, <4>3
    <3>3. QED
      BY <3>1, <3>2
  <2>3. h = h2
    BY <2>2
  <2>4. Loop(h, k + 1, mmap, words)
    BY <2>3 DEF Loop
  <2>5. QED
    BY <1>2, <2>4
<1> HIDE DEF S
<1>3. Nat \subseteq S
  BY <1>1, <1>2, SetInduction
<1>4. QED
  BY <1>3 DEF S

\* What the loop keeps: no available entry so far is larger than what it has, which is
\* one of them, cut to words.
Kept(b, k, mmap, words) ==
  /\ b \in [ok : {FALSE}, base : 0 .. words - 1, size : 0 .. words - 1]
  /\ \A j \in 1 .. k : mmap[j].available => mmap[j].len % words <= b.size
  /\ b.size # 0 =>
       \E j \in 1 .. k : /\ mmap[j].available
                         /\ b.base = mmap[j].addr % words /\ b.size = mmap[j].len % words

LEMMA BetterKeeps ==
  ASSUME NEW words \in Nat \ {0}, NEW mmap, NEW k \in Nat,
         mmap[k + 1].addr \in Nat, mmap[k + 1].len \in Nat, mmap[k + 1].available \in BOOLEAN,
         NEW b, Kept(b, k, mmap, words),
         \A j \in 1 .. k : mmap[j].len \in Nat
  PROVE  Kept(Better(b, mmap[k + 1], words), k + 1, mmap, words)
<1> DEFINE r == mmap[k + 1]
           c == Better(b, r, words)
<1>1. r.addr % words \in 0 .. words - 1 /\ r.len % words \in 0 .. words - 1
  BY DivisionRange
<1>2. b.base \in 0 .. words - 1 /\ b.size \in 0 .. words - 1 /\ b.ok = FALSE
  BY DEF Kept
<1>3. \A j \in 1 .. k + 1 : j \in 1 .. k \/ j = k + 1
  OBVIOUS
<1>4. \A j \in 1 .. k : j \in 1 .. k + 1
  OBVIOUS
<1>5. CASE ~r.available \/ r.len % words < b.size
  <2>1. c = b
    BY <1>5 DEF Better
  <2>2. r.available => r.len % words <= b.size
    BY <1>1, <1>2, <1>5
  <2> HIDE DEF c
  <2>3. QED
    BY <1>3, <1>4, <2>1, <2>2 DEF Kept, c
<1>6. CASE ~ (~r.available \/ r.len % words < b.size)
  <2>1. b = [ok |-> b.ok, base |-> b.base, size |-> b.size]
    BY DEF Kept
  <2>2. c = [ok |-> b.ok, base |-> r.addr % words, size |-> r.len % words]
    <3>1. c = [b EXCEPT !.base = r.addr % words, !.size = r.len % words]
      BY <1>6 DEF Better
    <3> DEFINE q == [b EXCEPT !.base = r.addr % words]
    <3>2. q = [ok |-> b.ok, base |-> r.addr % words, size |-> b.size]
      BY <2>1
    <3>3. c = [q EXCEPT !.size = r.len % words]
      BY <3>1
    <3> HIDE DEF q, c
    <3>4. QED
      BY <3>2, <3>3
  <2> HIDE DEF c
  <2>3. c.base = r.addr % words /\ c.size = r.len % words /\ c.ok = FALSE
    BY <1>2, <2>2
  <2>4. c \in [ok : {FALSE}, base : 0 .. words - 1, size : 0 .. words - 1]
    BY <1>1, <1>2, <2>2
  <2>5. b.size <= c.size
    BY <1>1, <1>2, <1>6, <2>3
  <2>6. ASSUME NEW j \in 1 .. k + 1, mmap[j].available
        PROVE  mmap[j].len % words <= c.size
    <3>1. CASE j = k + 1
      BY <1>1, <2>3, <3>1
    <3>2. CASE j \in 1 .. k
      <4>1. mmap[j].len % words <= b.size /\ mmap[j].len % words \in 0 .. words - 1
        BY <2>6, <3>2, DivisionRange DEF Kept
      <4>2. QED
        BY <1>1, <1>2, <2>3, <2>5, <4>1
    <3>3. QED
      BY <1>3, <3>1, <3>2
  <2>7. k + 1 \in 1 .. k + 1 /\ r.available
    BY <1>6
  <2>8. QED
    BY <2>3, <2>4, <2>6, <2>7 DEF Kept, c
<1>7. QED
  BY <1>5, <1>6

Entry == [addr : Nat, len : Nat, available : BOOLEAN]

LEMMA LoopKeeps ==
  ASSUME NEW words \in Nat \ {0}, NEW n \in Nat, NEW mmap \in [1 .. n -> Entry],
         NEW g, Loop(g, n, mmap, words)
  PROVE  Kept(g[n], n, mmap, words)
<1> DEFINE S == {k \in Nat : k <= n => Kept(g[k], k, mmap, words)}
<1>1. 0 \in S
  <2>1. g[0] = Failed
    BY DEF Loop
  <2>2. Kept(Failed, 0, mmap, words)
    BY DEF Kept, Failed
  <2>3. QED
    BY <2>1, <2>2
<1>2. ASSUME NEW k \in Nat, k \in S PROVE k + 1 \in S
  <2>1. SUFFICES ASSUME k + 1 <= n PROVE Kept(g[k + 1], k + 1, mmap, words)
    OBVIOUS
  <2>2. Kept(g[k], k, mmap, words)
    BY <1>2, <2>1
  <2>3. k + 1 \in 0 .. n /\ k + 1 # 0 /\ (k + 1) - 1 = k /\ k + 1 \in 1 .. n
    BY <1>2, <2>1
  <2>4. g[k + 1] = Better(g[k], mmap[k + 1], words)
    BY <2>3 DEF Loop
  <2>5. /\ mmap[k + 1].addr \in Nat /\ mmap[k + 1].len \in Nat
        /\ mmap[k + 1].available \in BOOLEAN
    BY <2>3 DEF Entry
  <2>6. \A j \in 1 .. k : mmap[j].len \in Nat
    <3>1. \A j \in 1 .. k : j \in 1 .. n
      BY <1>2, <2>1
    <3>2. QED
      BY <3>1 DEF Entry
  <2>7. QED
    BY <1>2, <2>2, <2>4, <2>5, <2>6, BetterKeeps
<1> HIDE DEF S
<1>3. Nat \subseteq S
  BY <1>1, <1>2, SetInduction
<1>4. n <= n /\ n \in S
  BY <1>3
<1>5. QED
  BY <1>4 DEF S

Info == [magic : BOOLEAN, has_memory : BOOLEAN, has_mmap : BOOLEAN, whole : BOOLEAN,
         mmap : Seq(Entry)]

\* A heap the parser accepts is the largest available entry, cut to words.
LEMMA ParserFinds ==
  ASSUME NEW words \in Nat \ {0}, NEW i \in Info
  PROVE  LET h == parse_multiboot(i, words)
         IN  /\ h \in [ok : BOOLEAN, base : 0 .. words - 1, size : 0 .. words - 1]
             /\ h.ok => /\ \A j \in DOMAIN i.mmap :
                             i.mmap[j].available => i.mmap[j].len % words <= h.size
                        /\ \E j \in DOMAIN i.mmap :
                             /\ i.mmap[j].available
                             /\ h.base = i.mmap[j].addr % words
                             /\ h.size = i.mmap[j].len % words
<1> DEFINE h == parse_multiboot(i, words)
           n == Len(i.mmap)
           best == CHOOSE b : b = [k \in 0 .. Len(i.mmap) |->
                                     IF k = 0 THEN Failed ELSE Better(b[k - 1], i.mmap[k], words)]
<1>1. i.mmap \in Seq(Entry)
  BY DEF Info
<1>2. n \in Nat /\ i.mmap \in [1 .. n -> Entry] /\ DOMAIN i.mmap = 1 .. n
  BY <1>1, LenProperties
<1>3. CASE i.magic /\ i.has_memory /\ i.has_mmap
  <2>1. h = [best[n] EXCEPT !.ok = best[n].size # 0]
    BY <1>3 DEF parse_multiboot
  <2>2. Loop(best, n, i.mmap, words)
    <3>1. \E b : b = [k \in 0 .. Len(i.mmap) |->
                        IF k = 0 THEN Failed ELSE Better(b[k - 1], i.mmap[k], words)]
      <4>1. PICK g : Loop(g, n, i.mmap, words)
        BY <1>2, LoopDefined
      <4>2. QED
        BY <4>1 DEF Loop
    <3>2. QED
      BY <3>1 DEF Loop
  <2> HIDE DEF best, h, n
  <2>3. Kept(best[n], n, i.mmap, words)
    BY <1>2, <2>2, LoopKeeps
  <2> DEFINE b == best[n]
  <2> HIDE DEF b
  <2>4. Kept(b, n, i.mmap, words) /\ h = [b EXCEPT !.ok = b.size # 0]
    BY <2>1, <2>3 DEF b
  <2>5. b = [ok |-> FALSE, base |-> b.base, size |-> b.size]
    BY <2>4 DEF Kept
  <2>6. h = [ok |-> (b.size # 0), base |-> b.base, size |-> b.size]
    BY <2>4, <2>5
  <2>7. b.base \in 0 .. words - 1 /\ b.size \in 0 .. words - 1
    BY <2>4 DEF Kept
  <2>8. h \in [ok : BOOLEAN, base : 0 .. words - 1, size : 0 .. words - 1]
    BY <2>6, <2>7
  <2>9. h.size = b.size /\ h.base = b.base /\ (h.ok <=> b.size # 0)
    BY <2>6
  <2>10. QED
    BY <1>2, <2>4, <2>8, <2>9 DEF Kept, h, n
<1>4. CASE ~ (i.magic /\ i.has_memory /\ i.has_mmap)
  <2>1. h = Failed
    BY <1>4 DEF parse_multiboot
  <2>2. Failed \in [ok : BOOLEAN, base : 0 .. words - 1, size : 0 .. words - 1] /\ ~Failed.ok
    BY DEF Failed
  <2>3. QED
    BY <2>1, <2>2
<1>5. QED
  BY <1>3, <1>4

-----------------------------------------------------------------------------
(***************************************************************************)
(* Interrupts.                                                             *)
(***************************************************************************)
\* All eight bits of 255 are set.
LEMMA AllBits == BitsOf(255) = 0 .. 7
<1>1. 2 ^ 0 = 1 /\ 2 ^ 1 = 2
  OBVIOUS
<1>2. 2 ^ 2 = 4 /\ 2 ^ 3 = 8
  OBVIOUS
<1>3. 2 ^ 4 = 16 /\ 2 ^ 5 = 32
  OBVIOUS
<1>4. 2 ^ 6 = 64 /\ 2 ^ 7 = 128
  OBVIOUS
<1>5. ASSUME NEW i \in 0 .. 7 PROVE (255 \div 2 ^ i) % 2 = 1
  <2>1. i = 0 \/ i = 1 \/ i = 2 \/ i = 3 \/ i = 4 \/ i = 5 \/ i = 6 \/ i = 7
    OBVIOUS
  <2>2. 255 \div 1 = 255 /\ 255 \div 2 = 127 /\ 255 \div 4 = 63 /\ 255 \div 8 = 31
    OBVIOUS
  <2>3. 255 \div 16 = 15 /\ 255 \div 32 = 7 /\ 255 \div 64 = 3 /\ 255 \div 128 = 1
    OBVIOUS
  <2>4. CASE i = 0
    BY <1>1, <2>2, <2>4
  <2>5. CASE i = 1
    BY <1>1, <2>2, <2>5
  <2>6. CASE i = 2
    BY <1>2, <2>2, <2>6
  <2>7. CASE i = 3
    BY <1>2, <2>2, <2>7
  <2>8. CASE i = 4
    BY <1>3, <2>3, <2>8
  <2>9. CASE i = 5
    BY <1>3, <2>3, <2>9
  <2>10. CASE i = 6
    BY <1>4, <2>3, <2>10
  <2>11. CASE i = 7
    BY <1>4, <2>3, <2>11
  <2>12. QED
    BY <2>1, <2>4, <2>5, <2>6, <2>7, <2>8, <2>9, <2>10, <2>11
<1>6. QED
  BY <1>5 DEF BitsOf

\* The word each controller expects next, by the step of enter_kernel.
MasterExpects(k) == IF k <= 9 THEN 0 ELSE IF k <= 11 THEN 2 ELSE IF k <= 13 THEN 3
                    ELSE IF k <= 15 THEN 4 ELSE 0
SlaveExpects(k) == IF k <= 10 THEN 0 ELSE IF k <= 12 THEN 2 ELSE IF k <= 14 THEN 3
                   ELSE IF k <= 16 THEN 4 ELSE 0

PicInv ==
  /\ pic \in [{"master", "slave"} -> Controller]
  /\ pic["master"].icw = MasterExpects(pc) /\ pic["slave"].icw = SlaveExpects(pc)
  /\ pc > 17 => pic["master"].mask = 0 .. 7

\* What the kernel has set up, by the step.
GatesInv ==
  /\ gdt = IF pc > 5 THEN "kernel" ELSE "loader"
  /\ idt = IF pc > 6 THEN 0 .. 31 ELSE {}
  /\ idtr \in BOOLEAN /\ if_flag \in BOOLEAN /\ (idtr <=> pc > 7)
  /\ cpu \in {"runs", "halted", "reset"} /\ (pc > 7 => cpu # "reset")
  /\ said \in [vector : 0 .. 255, by : {"processor", "device"}] \cup {Nothing}

InterruptsInv == pc \in 1 .. 20 /\ PicInv /\ GatesInv

LEMMA InterruptsType == InterruptsInv => InterruptsTypeOK
<1>1. 0 .. 31 \subseteq 0 .. 255
  OBVIOUS
<1>2. QED
  BY <1>1 DEF InterruptsInv, PicInv, GatesInv, InterruptsTypeOK

LEMMA InterruptsBegin == InterruptsInit /\ pc = 1 => InterruptsInv
<1> SUFFICES ASSUME InterruptsInit, pc = 1 PROVE InterruptsInv
  OBVIOUS
<1>1. GatesInv
  <2>1. ~ (pc > 5) /\ ~ (pc > 6) /\ ~ (pc > 7)
    OBVIOUS
  <2>2. /\ gdt = "loader" /\ idt = {} /\ idtr = FALSE /\ if_flag = FALSE /\ cpu = "runs"
        /\ said = Nothing
    BY DEF InterruptsInit
  <2>3. QED
    BY <2>1, <2>2 DEF GatesInv
<1>2. PICK masks \in LoaderMasks :
        pic = [master |-> [icw |-> 0, base |-> 8, mask |-> masks[1], irr |-> {}],
               slave |-> [icw |-> 0, base |-> 112, mask |-> masks[2], irr |-> {}]]
  BY DEF InterruptsInit
<1>3. masks[1] \in SUBSET (0 .. 7) /\ masks[2] \in SUBSET (0 .. 7)
  BY DeviceAssumption
<1>4. /\ [icw |-> 0, base |-> 8, mask |-> masks[1], irr |-> {}] \in Controller
      /\ [icw |-> 0, base |-> 112, mask |-> masks[2], irr |-> {}] \in Controller
  BY <1>3 DEF Controller
<1>5. PicInv
  BY <1>2, <1>4 DEF PicInv, MasterExpects, SlaveExpects
<1>6. QED
  BY <1>1, <1>5 DEF InterruptsInv

\* With the table loaded a vector is reported, whichever it is.
LEMMA TakeStep ==
  ASSUME InterruptsInv, NEW v, NEW by \in {"processor", "device"}, Take(v, by), pc' = pc
  PROVE  /\ InterruptsInv'
         /\ pc > 7 => cpu' = "halted" /\ said' # Nothing
<1>1. /\ gdt' = gdt /\ idt' = idt /\ idtr' = idtr /\ pic' = pic /\ if_flag' = FALSE
      /\ cpu' \in {"halted", "reset"} /\ pc \in 1 .. 20
  BY DEF Take, InterruptsInv
<1>2. ASSUME pc > 7 PROVE Serves(13) /\ Serves(8)
  <2>1. idtr /\ gdt = "kernel" /\ idt = 0 .. 31
    <3>1. pc > 5 /\ pc > 6
      BY <1>1, <1>2
    <3>2. QED
      BY <1>2, <3>1 DEF InterruptsInv, GatesInv
  <2>2. QED
    BY <2>1 DEF Serves
<1>3. pc > 7 => cpu' = "halted"
  BY <1>2 DEF Take
<1>4. \A w : Serves(w) => w \in 0 .. 255
  BY DEF Serves, InterruptsInv, GatesInv
<1>5. said' = said \/ said' \in [vector : 0 .. 255, by : {"processor", "device"}]
  BY <1>4 DEF Take
<1>6. pc > 7 => said' # Nothing
  <2>1. pc > 7 => \E w : said' = [vector |-> w, by |-> "processor"] \/ said' = [vector |-> w, by |-> by]
    BY <1>2 DEF Take
  <2>2. QED
    BY <2>1 DEF Nothing
<1>7. PicInv'
  BY <1>1 DEF InterruptsInv, PicInv
<1>8. GatesInv'
  BY ZenonT(60), <1>1, <1>3, <1>5 DEF InterruptsInv, GatesInv, Nothing
<1>9. QED
  BY <1>1, <1>3, <1>6, <1>7, <1>8 DEF InterruptsInv

LEMMA DeviceStep ==
  ASSUME InterruptsInv, NEW irq \in Irqs, RaiseIrq(irq), pc' = pc
  PROVE  InterruptsInv'
<1> DEFINE which == IF irq < 8 THEN "master" ELSE "slave"
           p == pic[which]
           q == [p EXCEPT !.irr = @ \cup {irq % 8}]
<1>1. /\ which \in {"master", "slave"} /\ pic' = [pic EXCEPT ![which].irr = @ \cup {irq % 8}]
      /\ UNCHANGED <<gdt, idt, idtr, if_flag, cpu, said>>
  BY DEF RaiseIrq
<1>2. irq % 8 \in 0 .. 7
  BY DeviceAssumption
<1>3. pic \in [{"master", "slave"} -> Controller] /\ p \in Controller
  BY <1>1 DEF InterruptsInv, PicInv
<1>4. pic' = [pic EXCEPT ![which] = q]
  BY <1>1
<1>5. q = [icw |-> p.icw, base |-> p.base, mask |-> p.mask, irr |-> p.irr \cup {irq % 8}]
  BY <1>3 DEF Controller
<1>6. q \in Controller /\ q.icw = p.icw /\ q.mask = p.mask
  <2>1. /\ p.icw \in {0, 2, 3, 4} /\ p.base \in 0 .. 255
        /\ p.mask \in SUBSET (0 .. 7) /\ p.irr \in SUBSET (0 .. 7)
    BY <1>3 DEF Controller
  <2>2. p.irr \cup {irq % 8} \in SUBSET (0 .. 7)
    BY <1>2, <2>1
  <2> HIDE DEF p, q
  <2>3. QED
    BY <1>5, <2>1, <2>2 DEF Controller
<1> HIDE DEF p, q, which
<1>7. pic' \in [{"master", "slave"} -> Controller]
  BY <1>1, <1>3, <1>4, <1>6
<1>8. \A w \in {"master", "slave"} : pic'[w].icw = pic[w].icw /\ pic'[w].mask = pic[w].mask
  BY <1>1, <1>3, <1>4, <1>6 DEF p
<1>9. PicInv'
  BY <1>7, <1>8 DEF InterruptsInv, PicInv
<1>10. GatesInv'
  BY <1>1 DEF InterruptsInv, GatesInv
<1>11. QED
  BY <1>9, <1>10 DEF InterruptsInv

\* A byte received by a controller.
LEMMA ReceivedFacts ==
  ASSUME NEW p \in Controller, NEW port \in {"cmd", "data"}, NEW value \in 0 .. 255
  PROVE  LET q == Received(p, port, value)
         IN  /\ q \in Controller
             /\ port = "cmd" => q.icw = 2
             /\ port = "data" /\ p.icw = 2 => q.icw = 3
             /\ port = "data" /\ p.icw = 3 => q.icw = 4
             /\ port = "data" /\ p.icw = 4 => q.icw = 0
             /\ port = "data" /\ p.icw = 0 => q.icw = 0 /\ q.mask = BitsOf(value)
<1> DEFINE q == Received(p, port, value)
<1>1. p = [icw |-> p.icw, base |-> p.base, mask |-> p.mask, irr |-> p.irr]
  BY DEF Controller
<1>2. /\ p.icw \in {0, 2, 3, 4} /\ p.base \in 0 .. 255
      /\ p.mask \in SUBSET (0 .. 7) /\ p.irr \in SUBSET (0 .. 7)
  BY DEF Controller
<1>3. BitsOf(value) \in SUBSET (0 .. 7)
  BY DEF BitsOf
<1>4. CASE port = "cmd"
  <2>1. q = [p EXCEPT !.icw = 2, !.mask = {}, !.irr = {}]
    BY <1>4 DEF Received
  <2> DEFINE a == [p EXCEPT !.icw = 2]
             b == [a EXCEPT !.mask = {}]
  <2>2. a = [icw |-> 2, base |-> p.base, mask |-> p.mask, irr |-> p.irr]
    BY <1>1
  <2>3. q = [b EXCEPT !.irr = {}]
    BY <2>1
  <2> HIDE DEF a, q
  <2>4. b = [icw |-> 2, base |-> p.base, mask |-> {}, irr |-> p.irr]
    BY <2>2
  <2> HIDE DEF b
  <2>5. q = [icw |-> 2, base |-> p.base, mask |-> {}, irr |-> {}]
    BY <2>3, <2>4
  <2>6. q \in Controller /\ q.icw = 2
    BY <1>2, <2>5 DEF Controller
  <2>7. QED
    BY <1>4, <2>6 DEF q
<1>5. CASE port = "data" /\ p.icw = 2
  <2>1. q = [p EXCEPT !.icw = 3, !.base = value]
    BY <1>5 DEF Received
  <2> DEFINE a == [p EXCEPT !.icw = 3]
  <2>2. a = [icw |-> 3, base |-> p.base, mask |-> p.mask, irr |-> p.irr]
    BY <1>1
  <2>3. q = [a EXCEPT !.base = value]
    BY <2>1
  <2> HIDE DEF a, q
  <2>4. q = [icw |-> 3, base |-> value, mask |-> p.mask, irr |-> p.irr]
    BY <2>2, <2>3
  <2>5. q \in Controller /\ q.icw = 3
    BY <1>2, <2>4 DEF Controller
  <2>6. QED
    BY <1>5, <2>5 DEF q
<1>6. CASE port = "data" /\ p.icw = 3
  <2>1. q = [p EXCEPT !.icw = 4]
    BY <1>6 DEF Received
  <2> HIDE DEF q
  <2>2. q \in Controller /\ q.icw = 4
    BY <1>1, <1>2, <2>1 DEF Controller
  <2>3. QED
    BY <1>6, <2>2 DEF q
<1>7. CASE port = "data" /\ p.icw = 4
  <2>1. q = [p EXCEPT !.icw = 0]
    BY <1>7 DEF Received
  <2> HIDE DEF q
  <2>2. q \in Controller /\ q.icw = 0
    BY <1>1, <1>2, <2>1 DEF Controller
  <2>3. QED
    BY <1>7, <2>2 DEF q
<1>8. CASE port = "data" /\ p.icw = 0
  <2>1. q = [p EXCEPT !.mask = BitsOf(value)]
    BY <1>8 DEF Received
  <2> HIDE DEF q
  <2>2. q = [icw |-> 0, base |-> p.base, mask |-> BitsOf(value), irr |-> p.irr]
    BY <1>1, <1>8, <2>1
  <2>3. q \in Controller /\ q.icw = 0 /\ q.mask = BitsOf(value)
    BY <1>2, <1>3, <2>2 DEF Controller
  <2>4. QED
    BY <1>8, <2>3 DEF q
<1>9. QED
  BY <1>2, <1>4, <1>5, <1>6, <1>7, <1>8

\* A byte is written and the step is over.
LEMMA OutbStep ==
  ASSUME InterruptsInv, NEW which \in {"master", "slave"}, NEW port \in {"cmd", "data"},
         NEW value \in 0 .. 255, outb(which, port, value)
  PROVE  /\ pic' \in [{"master", "slave"} -> Controller]
         /\ pic'[which] = Received(pic[which], port, value)
         /\ \A w \in {"master", "slave"} : w # which => pic'[w] = pic[w]
<1>1. pic \in [{"master", "slave"} -> Controller] /\ pic[which] \in Controller
  BY DEF InterruptsInv, PicInv
<1>2. Received(pic[which], port, value) \in Controller
  BY <1>1, ReceivedFacts
<1>3. pic' = [pic EXCEPT ![which] = Received(pic[which], port, value)]
  BY DEF outb
<1>4. QED
  BY <1>1, <1>2, <1>3

\* init_pic, byte by byte.
LEMMA InitPicStep ==
  ASSUME InterruptsInv, pc \in 9 .. 18, pc' = pc + 1,
         outb(Program[pc].which, Program[pc].port, Program[pc].value)
  PROVE  InterruptsInv'
<1> DEFINE which == Program[pc].which
           port == Program[pc].port
           value == Program[pc].value
           m == pic["master"]
           s == pic["slave"]
<1>1. /\ UNCHANGED <<gdt, idt, idtr, if_flag, cpu, said>>
      /\ pc' \in 10 .. 19
  BY DEF outb
<1>2. /\ pc > 5 /\ pc > 6 /\ pc > 7 /\ pc' > 5 /\ pc' > 6 /\ pc' > 7
      /\ pc' \in 1 .. 20
  BY <1>1
<1>3. GatesInv'
  BY <1>1, <1>2 DEF InterruptsInv, GatesInv
<1>4. /\ m \in Controller /\ s \in Controller
      /\ m.icw = MasterExpects(pc) /\ s.icw = SlaveExpects(pc)
      /\ pc > 17 => m.mask = 0 .. 7
  BY DEF InterruptsInv, PicInv
<1>5. ASSUME NEW w \in {"master", "slave"}, NEW p \in {"cmd", "data"}, NEW x \in 0 .. 255,
             Program[pc] = Out(w, p, x)
      PROVE  /\ pic' \in [{"master", "slave"} -> Controller]
             /\ w = "master" => pic'["slave"] = s /\ pic'["master"] = Received(m, p, x)
             /\ w = "slave" => pic'["master"] = m /\ pic'["slave"] = Received(s, p, x)
  <2>1. which = w /\ port = p /\ value = x
    BY <1>5, OutSteps
  <2>2. outb(w, p, x)
    BY <2>1
  <2>3. /\ pic' \in [{"master", "slave"} -> Controller]
        /\ pic'[w] = Received(pic[w], p, x)
        /\ \A o \in {"master", "slave"} : o # w => pic'[o] = pic[o]
    BY SMTT(30), ZenonT(60), <2>2, OutbStep
  <2>4. CASE w = "master"
    BY SMTT(60), <2>3, <2>4
  <2>5. CASE w = "slave"
    BY SMTT(60), <2>3, <2>5
  <2>6. QED
    BY <2>4, <2>5
<1> HIDE DEF m, s
<1>6. ASSUME pic' \in [{"master", "slave"} -> Controller],
             pic'["master"].icw = MasterExpects(pc + 1), pic'["slave"].icw = SlaveExpects(pc + 1),
             pc + 1 > 17 => pic'["master"].mask = 0 .. 7
      PROVE  InterruptsInv'
  BY <1>2, <1>3, <1>6 DEF InterruptsInv, PicInv, MasterExpects, SlaveExpects
<1>7. CASE pc = 9
  <2>1. Program[pc] = Out("master", "cmd", 17) /\ 17 \in 0 .. 255
    BY <1>7, ProgramSteps
  <2>2. /\ pic' \in [{"master", "slave"} -> Controller]
        /\ pic'["slave"] = s /\ pic'["master"] = Received(m, "cmd", 17)
    BY <1>5, <2>1
  <2>3. m.icw = 0 /\ s.icw = 0
    BY <1>4, <1>7 DEF MasterExpects, SlaveExpects
  <2>4. Received(m, "cmd", 17).icw = 2
    BY <1>4, <2>1, <2>3, ReceivedFacts
  <2>5. MasterExpects(pc + 1) = 2 /\ SlaveExpects(pc + 1) = 0
    BY <1>7 DEF MasterExpects, SlaveExpects
  <2>6. ~ (pc + 1 > 17)
    BY <1>7
  <2>7. QED
    BY <1>6, <2>2, <2>3, <2>4, <2>5, <2>6
<1>8. CASE pc = 10
  <2>1. Program[pc] = Out("slave", "cmd", 17) /\ 17 \in 0 .. 255
    BY <1>8, ProgramSteps
  <2>2. /\ pic' \in [{"master", "slave"} -> Controller]
        /\ pic'["master"] = m /\ pic'["slave"] = Received(s, "cmd", 17)
    BY <1>5, <2>1
  <2>3. m.icw = 2 /\ s.icw = 0
    BY <1>4, <1>8 DEF MasterExpects, SlaveExpects
  <2>4. Received(s, "cmd", 17).icw = 2
    BY <1>4, <2>1, <2>3, ReceivedFacts
  <2>5. MasterExpects(pc + 1) = 2 /\ SlaveExpects(pc + 1) = 2
    BY <1>8 DEF MasterExpects, SlaveExpects
  <2>6. ~ (pc + 1 > 17)
    BY <1>8
  <2>7. QED
    BY <1>6, <2>2, <2>3, <2>4, <2>5, <2>6
<1>9. CASE pc = 11
  <2>1. Program[pc] = Out("master", "data", 32) /\ 32 \in 0 .. 255
    BY <1>9, ProgramSteps
  <2>2. /\ pic' \in [{"master", "slave"} -> Controller]
        /\ pic'["slave"] = s /\ pic'["master"] = Received(m, "data", 32)
    BY ZenonT(60), <1>5, <2>1
  <2>3. m.icw = 2 /\ s.icw = 2
    BY <1>4, <1>9 DEF MasterExpects, SlaveExpects
  <2>4. Received(m, "data", 32).icw = 3
    BY <1>4, <2>1, <2>3, ReceivedFacts
  <2>5. MasterExpects(pc + 1) = 3 /\ SlaveExpects(pc + 1) = 2
    BY <1>9 DEF MasterExpects, SlaveExpects
  <2>6. ~ (pc + 1 > 17)
    BY <1>9
  <2>7. QED
    BY <1>6, <2>2, <2>3, <2>4, <2>5, <2>6
<1>10. CASE pc = 12
  <2>1. Program[pc] = Out("slave", "data", 40) /\ 40 \in 0 .. 255
    BY <1>10, ProgramSteps
  <2>2. /\ pic' \in [{"master", "slave"} -> Controller]
        /\ pic'["master"] = m /\ pic'["slave"] = Received(s, "data", 40)
    BY ZenonT(60), <1>5, <2>1
  <2>3. m.icw = 3 /\ s.icw = 2
    BY <1>4, <1>10 DEF MasterExpects, SlaveExpects
  <2>4. Received(s, "data", 40).icw = 3
    BY <1>4, <2>1, <2>3, ReceivedFacts
  <2>5. MasterExpects(pc + 1) = 3 /\ SlaveExpects(pc + 1) = 3
    BY <1>10 DEF MasterExpects, SlaveExpects
  <2>6. ~ (pc + 1 > 17)
    BY <1>10
  <2>7. QED
    BY <1>6, <2>2, <2>3, <2>4, <2>5, <2>6
<1>11. CASE pc = 13
  <2>1. Program[pc] = Out("master", "data", 4) /\ 4 \in 0 .. 255
    BY <1>11, ProgramSteps
  <2>2. /\ pic' \in [{"master", "slave"} -> Controller]
        /\ pic'["slave"] = s /\ pic'["master"] = Received(m, "data", 4)
    BY <1>5, <2>1
  <2>3. m.icw = 3 /\ s.icw = 3
    BY <1>4, <1>11 DEF MasterExpects, SlaveExpects
  <2>4. Received(m, "data", 4).icw = 4
    BY <1>4, <2>1, <2>3, ReceivedFacts
  <2>5. MasterExpects(pc + 1) = 4 /\ SlaveExpects(pc + 1) = 3
    BY <1>11 DEF MasterExpects, SlaveExpects
  <2>6. ~ (pc + 1 > 17)
    BY <1>11
  <2>7. QED
    BY <1>6, <2>2, <2>3, <2>4, <2>5, <2>6
<1>12. CASE pc = 14
  <2>1. Program[pc] = Out("slave", "data", 2) /\ 2 \in 0 .. 255
    BY <1>12, ProgramSteps
  <2>2. /\ pic' \in [{"master", "slave"} -> Controller]
        /\ pic'["master"] = m /\ pic'["slave"] = Received(s, "data", 2)
    BY <1>5, <2>1
  <2>3. m.icw = 4 /\ s.icw = 3
    BY <1>4, <1>12 DEF MasterExpects, SlaveExpects
  <2>4. Received(s, "data", 2).icw = 4
    BY <1>4, <2>1, <2>3, ReceivedFacts
  <2>5. MasterExpects(pc + 1) = 4 /\ SlaveExpects(pc + 1) = 4
    BY <1>12 DEF MasterExpects, SlaveExpects
  <2>6. ~ (pc + 1 > 17)
    BY <1>12
  <2>7. QED
    BY <1>6, <2>2, <2>3, <2>4, <2>5, <2>6
<1>13. CASE pc = 15
  <2>1. Program[pc] = Out("master", "data", 1) /\ 1 \in 0 .. 255
    BY <1>13, ProgramSteps
  <2>2. /\ pic' \in [{"master", "slave"} -> Controller]
        /\ pic'["slave"] = s /\ pic'["master"] = Received(m, "data", 1)
    BY <1>5, <2>1
  <2>3. m.icw = 4 /\ s.icw = 4
    BY <1>4, <1>13 DEF MasterExpects, SlaveExpects
  <2>4. Received(m, "data", 1).icw = 0
    BY <1>4, <2>1, <2>3, ReceivedFacts
  <2>5. MasterExpects(pc + 1) = 0 /\ SlaveExpects(pc + 1) = 4
    BY <1>13 DEF MasterExpects, SlaveExpects
  <2>6. ~ (pc + 1 > 17)
    BY <1>13
  <2>7. QED
    BY <1>6, <2>2, <2>3, <2>4, <2>5, <2>6
<1>14. CASE pc = 16
  <2>1. Program[pc] = Out("slave", "data", 1) /\ 1 \in 0 .. 255
    BY <1>14, ProgramSteps
  <2>2. /\ pic' \in [{"master", "slave"} -> Controller]
        /\ pic'["master"] = m /\ pic'["slave"] = Received(s, "data", 1)
    BY ZenonT(60), <1>5, <2>1
  <2>3. m.icw = 0 /\ s.icw = 4
    BY <1>4, <1>14 DEF MasterExpects, SlaveExpects
  <2>4. Received(s, "data", 1).icw = 0
    BY SMTT(30), ZenonT(60), <1>4, <2>1, <2>3, ReceivedFacts
  <2>5. MasterExpects(pc + 1) = 0 /\ SlaveExpects(pc + 1) = 0
    BY <1>14 DEF MasterExpects, SlaveExpects
  <2>6. ~ (pc + 1 > 17)
    BY <1>14
  <2>7. QED
    BY <1>6, <2>2, <2>3, <2>4, <2>5, <2>6
<1>15. CASE pc = 17
  <2>1. Program[pc] = Out("master", "data", 255) /\ 255 \in 0 .. 255
    BY <1>15, ProgramSteps
  <2>2. /\ pic' \in [{"master", "slave"} -> Controller]
        /\ pic'["slave"] = s /\ pic'["master"] = Received(m, "data", 255)
    BY ZenonT(60), <1>5, <2>1
  <2>3. m.icw = 0 /\ s.icw = 0
    BY <1>4, <1>15 DEF MasterExpects, SlaveExpects
  <2>4. Received(m, "data", 255).icw = 0 /\ Received(m, "data", 255).mask = 0 .. 7
    <3>1. /\ Received(m, "data", 255).icw = 0
          /\ Received(m, "data", 255).mask = BitsOf(255)
      BY ZenonT(60), <1>4, <2>1, <2>3, ReceivedFacts
    <3>2. QED
      BY <3>1, AllBits
  <2>5. MasterExpects(pc + 1) = 0 /\ SlaveExpects(pc + 1) = 0
    BY <1>15 DEF MasterExpects, SlaveExpects
  <2>6. pic'["master"].mask = 0 .. 7
    BY <2>2, <2>4
  <2>7. QED
    BY <1>6, <2>2, <2>3, <2>4, <2>5, <2>6
<1>16. CASE pc = 18
  <2>1. Program[pc] = Out("slave", "data", 255) /\ 255 \in 0 .. 255
    BY <1>16, ProgramSteps
  <2>2. /\ pic' \in [{"master", "slave"} -> Controller]
        /\ pic'["master"] = m /\ pic'["slave"] = Received(s, "data", 255)
    BY ZenonT(60), <1>5, <2>1
  <2>3. m.icw = 0 /\ s.icw = 0
    BY <1>4, <1>16 DEF MasterExpects, SlaveExpects
  <2>4. Received(s, "data", 255).icw = 0
    BY ZenonT(60), <1>4, <2>1, <2>3, ReceivedFacts
  <2>5. MasterExpects(pc + 1) = 0 /\ SlaveExpects(pc + 1) = 0
    BY <1>16 DEF MasterExpects, SlaveExpects
  <2>6. pic'["master"].mask = 0 .. 7
    BY <1>4, <1>16, <2>2
  <2>7. QED
    BY <1>6, <2>2, <2>3, <2>4, <2>5, <2>6
<1>17. QED
  BY <1>7, <1>8, <1>9, <1>10, <1>11, <1>12, <1>13, <1>14, <1>15, <1>16

\* The steps before init_pic and the one after it.
LEMMA SetUpStep ==
  ASSUME InterruptsInv, cpu = "runs", pc' = pc + 1,
         \/ pc = 5 /\ init_gdt
         \/ pc = 6 /\ init_isrs
         \/ pc = 7 /\ lidt
         \/ pc = 8 /\ sti
         \/ pc \in {1, 2, 3, 4, 19} /\ UNCHANGED interruptVars
  PROVE  InterruptsInv'
<1>1. /\ pic' = pic /\ cpu' = cpu /\ said' = said /\ pc \in 1 .. 8 \cup {19}
      /\ pc' \in 1 .. 20
  BY DEF init_gdt, init_isrs, lidt, sti, interruptVars
<1>2. PicInv'
  BY <1>1 DEF InterruptsInv, PicInv, MasterExpects, SlaveExpects
<1>3. GatesInv'
  <2>1. CASE pc = 5 /\ init_gdt
    BY <1>1, <2>1 DEF InterruptsInv, GatesInv, init_gdt, KernelGdt
  <2>2. CASE pc = 6 /\ init_isrs
    BY <1>1, <2>2 DEF InterruptsInv, GatesInv, init_isrs
  <2>3. CASE pc = 7 /\ lidt
    BY <1>1, <2>3 DEF InterruptsInv, GatesInv, lidt
  <2>4. CASE pc = 8 /\ sti
    BY <1>1, <2>4 DEF InterruptsInv, GatesInv, sti
  <2>5. CASE pc \in {1, 2, 3, 4, 19} /\ UNCHANGED interruptVars
    BY <1>1, <2>5 DEF InterruptsInv, GatesInv, interruptVars
  <2>6. QED
    BY <2>1, <2>2, <2>3, <2>4, <2>5
<1>4. QED
  BY <1>1, <1>2, <1>3 DEF InterruptsInv

-----------------------------------------------------------------------------
(***************************************************************************)
(* The invariant of the whole.                                             *)
(***************************************************************************)
\* What the parser found is what the information it could read says.
HeapInv ==
  /\ info \in Infos \cup {Unknown}
  /\ heap \in [ok : BOOLEAN, base : Address, size : Address]
  /\ info # Unknown => info \in Infos /\ heap = parse_multiboot(info, Words)
  /\ pc > 1 => heap.ok
  /\ pc > 2 => heap.base # 0

BootInv == BootstrapInv /\ InterruptsInv /\ HeapInv

LEMMA Counted == BootInv => pc \in 1 .. Len(Program) + 1 /\ TypeOK
<1> SUFFICES ASSUME BootInv PROVE pc \in 1 .. Len(Program) + 1 /\ TypeOK
  OBVIOUS
<1>1. pc \in 1 .. Len(Program) + 1
  BY ProgramSteps DEF BootInv, InterruptsInv
<1>2. QED
  BY <1>1, InterruptsType DEF BootInv, BootstrapInv, HeapInv, TypeOK

LEMMA BootInvBegins == Init => BootInv
<1> SUFFICES ASSUME Init PROVE BootInv
  OBVIOUS
<1>1. BootstrapInv
  BY BootstrapBegins DEF Init
<1>2. InterruptsInv
  BY InterruptsBegin DEF Init
<1>3. HeapInv
  <2>1. info = Unknown /\ pc = 1 /\ heap = Failed
    BY DEF Init
  <2>2. Failed \in [ok : BOOLEAN, base : Address, size : Address]
    BY Geometry DEF Failed, Address
  <2>3. QED
    BY <2>1, <2>2 DEF HeapInv
<1>4. QED
  BY <1>1, <1>2, <1>3 DEF BootInv

LEMMA BootstrapKept ==
  ASSUME BootstrapInv, UNCHANGED bootstrapVars
  PROVE  BootstrapInv'
<1>1. /\ layout' = layout /\ mem' = mem /\ used' = used /\ todo' = todo /\ paging' = paging
  BY DEF bootstrapVars
<1>2. PoolSuffices' /\ BootstrapTypeOK'
  BY <1>1, LayoutKept DEF BootstrapInv, PoolSuffices, BootstrapTypeOK, TableFrames, PoolFrames
<1>3. paging = "off" =>
        /\ TodoSound(todo)' /\ (DoneBy(todo) \subseteq Identity \cup Image)'
        /\ (BootSound(mem, Slot(used), DoneBy(todo)))'
        /\ (layout.reads <= PoolSize => used <= PoolSize)'
  BY <1>1, SoundKept DEF BootstrapInv
<1>4. QED
  BY <1>1, <1>2, <1>3 DEF BootstrapInv

LEMMA HeapKept ==
  ASSUME HeapInv, pc \in 1 .. 20, pc' \in 1 .. 20, heap' = heap,
         info' = info \/ info' = Unknown,
         \/ pc' = pc
         \/ pc' = pc + 1 /\ pc # 1 /\ (pc = 2 => heap.base # 0)
  PROVE  HeapInv'
<1>1. pc' > 1 => pc > 1
  OBVIOUS
<1>2. pc' > 2 => pc > 2 \/ heap.base # 0
  OBVIOUS
<1>3. QED
  BY <1>1, <1>2 DEF HeapInv

LEMMA PanicStep ==
  ASSUME InterruptsInv, pc <= 7, panic
  PROVE  InterruptsInv'
<1>1. /\ cpu' = "halted" /\ if_flag' = FALSE
      /\ UNCHANGED <<gdt, idt, idtr, pic, said, pc>>
  BY DEF panic
<1>2. QED
  BY <1>1 DEF InterruptsInv, PicInv, GatesInv

LEMMA InBootstrapStep == BootInv /\ InBootstrap => BootInv'
<1> SUFFICES ASSUME BootInv, InBootstrap PROVE BootInv'
  OBVIOUS
<1>1. BootstrapInv'
  BY MapPageStep, enter_virtualStep DEF BootInv, InBootstrap
<1>2. /\ UNCHANGED <<gdt, idt, idtr, if_flag, pic, cpu, said>>
      /\ info' = info /\ pc' = pc /\ heap' = heap
  BY DEF InBootstrap, kernelVars, interruptVars
<1>3. InterruptsInv'
  BY <1>2 DEF BootInv, InterruptsInv, PicInv, GatesInv
<1>4. HeapInv'
  BY <1>2 DEF BootInv, HeapInv
<1>5. QED
  BY <1>1, <1>3, <1>4 DEF BootInv

LEMMA ParseStep == ASSUME NEW i \in Infos, BootInv, Parse(i) PROVE BootInv'
<1>1. /\ pc = 1 /\ At("parse_multiboot") /\ BootstrapInv' /\ cpu = "runs"
  BY Counted, Positions, BootstrapKept DEF BootInv, Parse, At, Runs
<1>2. CASE i.magic /\ i.has_memory /\ i.has_mmap /\ ~Readable(i)
  <2>1. Take(14, "processor") /\ info' = info /\ pc' = pc /\ heap' = heap
    BY <1>2 DEF Parse
  <2>2. InterruptsInv'
    BY <2>1, TakeStep DEF BootInv
  <2>3. HeapInv'
    BY <2>1 DEF BootInv, HeapInv
  <2>4. QED
    BY <1>1, <2>2, <2>3 DEF BootInv
<1>3. CASE ~ (i.magic /\ i.has_memory /\ i.has_mmap /\ ~Readable(i))
  <2> DEFINE h == parse_multiboot(i, Words)
  <2>1. /\ info' = i /\ heap' = h
        /\ IF h.ok THEN pc' = pc + 1 /\ UNCHANGED interruptVars ELSE panic
    BY <1>3 DEF Parse
  <2>2. i \in Info /\ Words \in Nat \ {0}
    BY InfoAssumption, Geometry DEF Info, Entry
  <2>3. h \in [ok : BOOLEAN, base : Address, size : Address]
    BY <2>2, ParserFinds DEF Address
  <2> HIDE DEF h
  <2>4. CASE h.ok
    <3>1. pc' = 2 /\ UNCHANGED interruptVars
      BY <1>1, <2>1, <2>4
    <3>2. InterruptsInv'
      BY <1>1, <2>1, <2>4, SetUpStep DEF BootInv
    <3>3. HeapInv'
      BY <2>1, <2>3, <2>4, <3>1 DEF HeapInv, h
    <3>4. QED
      BY <1>1, <3>2, <3>3 DEF BootInv
  <2>5. CASE ~h.ok
    <3>1. panic /\ pc' = 1
      BY <1>1, <2>1, <2>5 DEF panic
    <3>2. InterruptsInv'
      BY <1>1, <3>1, PanicStep DEF BootInv
    <3>3. HeapInv'
      BY <2>1, <2>3, <3>1 DEF HeapInv, h
    <3>4. QED
      BY <1>1, <3>2, <3>3 DEF BootInv
  <2>6. QED
    BY <2>4, <2>5
<1>4. QED
  BY <1>2, <1>3

LEMMA InitAllocStep == BootInv /\ InitAlloc => BootInv'
<1> SUFFICES ASSUME BootInv, InitAlloc PROVE BootInv'
  OBVIOUS
<1>1. /\ pc = 2 /\ BootstrapInv' /\ cpu = "runs" /\ info' = info /\ heap' = heap
  BY Counted, Positions, BootstrapKept DEF BootInv, InitAlloc, At, Runs
<1>2. CASE GoodBase
  <2>1. pc' = 3 /\ pc' = pc + 1 /\ UNCHANGED interruptVars
    BY <1>1, <1>2 DEF InitAlloc
  <2>2. InterruptsInv'
    BY <1>1, <2>1, SetUpStep DEF BootInv
  <2>3. HeapInv'
    BY <1>1, <1>2, <2>1, HeapKept DEF BootInv, GoodBase
  <2>4. QED
    BY <1>1, <2>2, <2>3 DEF BootInv
<1>3. CASE ~GoodBase
  <2>1. panic /\ pc' = pc
    BY <1>3 DEF InitAlloc, panic
  <2>2. InterruptsInv'
    BY <1>1, <2>1, PanicStep DEF BootInv
  <2>3. HeapInv'
    BY <1>1, <2>1, HeapKept DEF BootInv
  <2>4. QED
    BY <1>1, <2>2, <2>3 DEF BootInv
<1>4. QED
  BY <1>2, <1>3

LEMMA SetUpOutputStep == BootInv /\ SetUpOutput => BootInv'
<1> SUFFICES ASSUME BootInv, SetUpOutput PROVE BootInv'
  OBVIOUS
<1>1. /\ pc = 3 /\ BootstrapInv' /\ cpu = "runs" /\ info' = info /\ heap' = heap
  BY Counted, Positions, BootstrapKept DEF BootInv, SetUpOutput, At, Runs
<1>2. CASE pc' = pc + 1 /\ UNCHANGED interruptVars
  <2>1. pc' = 4
    BY <1>1, <1>2
  <2>2. InterruptsInv'
    BY <1>1, <1>2, SetUpStep DEF BootInv
  <2>3. HeapInv'
    BY <1>1, <1>2, <2>1, HeapKept DEF BootInv
  <2>4. QED
    BY <1>1, <2>2, <2>3 DEF BootInv
<1>3. CASE panic
  <2>1. pc' = pc
    BY <1>3 DEF panic
  <2>2. InterruptsInv'
    BY <1>1, <1>3, PanicStep DEF BootInv
  <2>3. HeapInv'
    BY <1>1, <2>1, HeapKept DEF BootInv
  <2>4. QED
    BY <1>1, <2>2, <2>3 DEF BootInv
<1>4. QED
  BY <1>2, <1>3 DEF SetUpOutput

LEMMA UnmapStep == BootInv /\ Unmap => BootInv'
<1> SUFFICES ASSUME BootInv, Unmap PROVE BootInv'
  OBVIOUS
<1>1. /\ pc = 4 /\ paging = "on" /\ cpu = "runs" /\ info' = Unknown /\ heap' = heap /\ pc' = pc + 1
      /\ UNCHANGED <<layout, used, todo, paging, interruptVars>>
  BY Counted, Positions DEF BootInv, Unmap, At, Runs
<1>2. mem \in BootMemories
  BY DEF BootInv, BootstrapInv, BootstrapTypeOK, BootMemories
<1>3. mem' \in BootMemories
  <2>1. ASSUME NEW f \in TableFrames
        PROVE  [i \in Index |-> IF \E v \in GivenBack : f = mem[Pd][v[1]] /\ i = v[2]
                                THEN None ELSE mem[f][i]] \in Table
    BY <1>2 DEF BootMemories, Table
  <2>2. QED
    BY <2>1 DEF Unmap, BootMemories
<1>4. BootstrapInv'
  BY <1>1, <1>3, PagingStep DEF BootInv
<1>5. InterruptsInv'
  BY <1>1, SetUpStep DEF BootInv
<1>6. HeapInv'
  BY <1>1, HeapKept DEF BootInv
<1>7. QED
  BY <1>4, <1>5, <1>6 DEF BootInv

LEMMA SetUpKeeps == BootInv /\ SetUp => BootInv'
<1> SUFFICES ASSUME BootInv, SetUp PROVE BootInv'
  OBVIOUS
<1>1. /\ BootstrapInv' /\ info' = info /\ heap' = heap /\ pc' = pc + 1 /\ pc \in 1 .. 20
  BY BootstrapKept DEF BootInv, SetUp, InterruptsInv
<1>2. /\ cpu = "runs"
      /\ \/ pc = 5 /\ init_gdt
         \/ pc = 6 /\ init_isrs
         \/ pc = 7 /\ lidt
         \/ pc = 8 /\ sti
         \/ pc \in 9 .. 18 /\ outb(Program[pc].which, Program[pc].port, Program[pc].value)
         \/ pc = 19 /\ UNCHANGED interruptVars
  BY Counted, Positions DEF SetUp, At, Runs
<1>3. InterruptsInv'
  BY <1>1, <1>2, InitPicStep, SetUpStep DEF BootInv
<1>4. pc \in 5 .. 19
  BY <1>2
<1>5. HeapInv'
  BY <1>1, <1>4, HeapKept DEF BootInv
<1>6. QED
  BY <1>1, <1>3, <1>5 DEF BootInv

\* Devices, deliveries and faults change neither the step nor what the parser found.
LEMMA AnyMomentStep ==
  ASSUME BootInv, InterruptsInv', UNCHANGED <<bootstrapVars, info, pc, heap>>
  PROVE  BootInv'
<1>1. BootstrapInv'
  BY BootstrapKept DEF BootInv
<1>2. HeapInv'
  BY DEF BootInv, HeapInv
<1>3. QED
  BY <1>1, <1>2 DEF BootInv

LEMMA BootStep == BootInv /\ [Next]_vars => BootInv'
<1> SUFFICES ASSUME BootInv, [Next]_vars PROVE BootInv'
  OBVIOUS
<1>1. CASE InBootstrap
  BY <1>1, InBootstrapStep
<1>2. CASE InitAlloc
  BY <1>2, InitAllocStep
<1>3. CASE SetUpOutput
  BY <1>3, SetUpOutputStep
<1>4. CASE Unmap
  BY <1>4, UnmapStep
<1>5. CASE SetUp
  BY <1>5, SetUpKeeps
<1>6. CASE Deliver
  <2>1. Take(RequestedVector, "device") /\ UNCHANGED <<bootstrapVars, info, pc, heap>>
    BY <1>6 DEF Deliver, Interrupt
  <2>2. InterruptsInv'
    BY <2>1, TakeStep DEF BootInv
  <2>3. QED
    BY <2>1, <2>2, AnyMomentStep
<1>7. ASSUME NEW i \in Infos, Parse(i) PROVE BootInv'
  BY <1>7, ParseStep
<1>8. ASSUME NEW irq \in Irqs, Device(irq) PROVE BootInv'
  <2>1. RaiseIrq(irq) /\ UNCHANGED <<bootstrapVars, info, pc, heap>>
    BY <1>8 DEF Device
  <2>2. InterruptsInv'
    BY <2>1, DeviceStep DEF BootInv
  <2>3. QED
    BY <2>1, <2>2, AnyMomentStep
<1>9. ASSUME NEW v \in Exceptions, Fault(v) PROVE BootInv'
  <2>1. Take(v, "processor") /\ UNCHANGED <<bootstrapVars, info, pc, heap>>
    BY <1>9 DEF Fault
  <2>2. InterruptsInv'
    BY <2>1, TakeStep DEF BootInv
  <2>3. QED
    BY <2>1, <2>2, AnyMomentStep
<1>10. CASE UNCHANGED vars
  <2>1. UNCHANGED <<bootstrapVars, info, pc, heap>> /\ UNCHANGED interruptVars
    BY <1>10 DEF vars
  <2>2. InterruptsInv'
    BY <2>1 DEF BootInv, InterruptsInv, PicInv, GatesInv, interruptVars
  <2>3. QED
    BY <2>1, <2>2, AnyMomentStep
<1>11. QED
  BY <1>1, <1>2, <1>3, <1>4, <1>5, <1>6, <1>7, <1>8, <1>9, <1>10 DEF Next

-----------------------------------------------------------------------------
(***************************************************************************)
(* The theorems.                                                           *)
(***************************************************************************)
\* The invariant holds from the loader on, whatever faults and interrupts come.
THEOREM BootInvariant == Spec => []BootInv
BY BootInvBegins, BootStep, PTL DEF Spec

\* Every variable keeps its type, whatever the cell of `used` holds: the tables the bootstrap
\* fills hold frames or nothing, and what the parser cuts an entry of the memory map to is an
\* address and a length.
THEOREM TypeCorrect == Spec => []TypeOK
<1>1. BootInv => TypeOK
  BY Counted
<1>2. QED
  BY <1>1, BootInvariant, PTL

\* The bootstrap gives up only if its regions touch more parts of the address space than
\* the pool still has tables, and leaves the pool only if `used` began above its size
\* (enter_virtual.cpp:78-84).
THEOREM PoolIsEnough == Spec => []PoolSuffices
<1>1. BootInv => PoolSuffices
  BY DEF BootInv, BootstrapInv
<1>2. QED
  BY <1>1, BootInvariant, PTL

\* When paging comes on, every page is where it is meant to be, nothing else is mapped and
\* the tables can be reached through their window (enter_virtual.cpp:51-61).
THEOREM PagingLinks == Spec => VirtualIsLinked
<1>1. BootInv /\ [Next]_vars =>
        [paging' # paging /\ paging' \in {"on", "lost"} => Linked(mem')]_bootstrapVars
  <2> SUFFICES ASSUME BootInv, [Next]_vars, paging' # paging,
                      paging' \in {"on", "lost"}
               PROVE  Linked(mem')
    OBVIOUS
  <2>1. MapPage => paging' = paging \/ paging' \in {"panic", "stray"}
    BY DEF MapPage
  <2>2. CASE InBootstrap
    BY <2>1, <2>2, PagingIsLinked DEF InBootstrap, BootInv
  <2>3. CASE UNCHANGED bootstrapVars
    BY <2>3 DEF bootstrapVars
  <2>4. CASE Unmap
    BY <2>4 DEF Unmap
  <2>5. Next => InBootstrap \/ Unmap \/ UNCHANGED bootstrapVars
    BY DEF Next, InitAlloc, SetUpOutput, SetUp, Deliver, Parse, Device, Fault
  <2>6. QED
    BY <2>2, <2>3, <2>4, <2>5 DEF vars
<1>2. QED
  BY <1>1, BootInvariant, PTL DEF Spec, VirtualIsLinked

\* Once the interrupt table is loaded nothing resets the machine: every exception and every
\* interrupt is reported and halts it (enter_kernel.cpp:67-69).
THEOREM AllFaultsReported == Spec => FaultsAreReported
<1>1. BootInv /\ [Next]_vars =>
        [Loaded => /\ cpu' # "reset"
                   /\ cpu' # cpu => cpu' = "halted" /\ said' # Nothing]_vars
  <2> SUFFICES ASSUME BootInv, Next, Loaded
               PROVE  cpu' # "reset" /\ (cpu' # cpu => cpu' = "halted" /\ said' # Nothing)
    OBVIOUS
  <2>1. /\ pc > 7 /\ InterruptsInv /\ pc \in 1 .. 20 /\ cpu # "reset"
        /\ ~At("parse_multiboot") /\ ~At("init_phys_alloc") /\ ~At("setup_output")
    BY Counted, Positions DEF BootInv, InterruptsInv, GatesInv
  <2>2. ASSUME NEW v, NEW by \in {"processor", "device"}, Take(v, by), pc' = pc
        PROVE  cpu' = "halted" /\ said' # Nothing
    BY <2>1, <2>2, TakeStep
  <2>3. CASE cpu' = cpu
    BY <2>1, <2>3
  <2>4. CASE Deliver
    BY <2>2, <2>4 DEF Deliver, Interrupt
  <2>5. ASSUME NEW v \in Exceptions, Fault(v)
        PROVE  cpu' = "halted" /\ said' # Nothing
    BY <2>2, <2>5 DEF Fault
  <2>6. InBootstrap \/ Unmap \/ SetUp => cpu' = cpu
    BY DEF InBootstrap, kernelVars, interruptVars, Unmap, SetUp, init_gdt, init_isrs, lidt, sti, outb
  <2>7. ASSUME NEW irq \in Irqs, Device(irq) PROVE cpu' = cpu
    BY <2>7 DEF Device, RaiseIrq
  <2>8. ~InitAlloc /\ ~SetUpOutput /\ \A i \in Infos : ~Parse(i)
    BY <2>1 DEF InitAlloc, SetUpOutput, Parse
  <2>9. QED
    BY <2>3, <2>4, <2>5, <2>6, <2>7, <2>8 DEF Next
<1>2. QED
  BY <1>1, BootInvariant, PTL DEF Spec, FaultsAreReported

\* After init_interrupts no device can interrupt the kernel, whatever masks the loader left
\* and whenever a device raised its line (pic.cpp:32-43).
THEOREM DevicesAreQuiet == Spec => []MaskedIsQuiet
<1>1. BootInv => MaskedIsQuiet
  <2> SUFFICES ASSUME BootInv, Initialised PROVE MasterRequests = {}
    BY DEF MaskedIsQuiet
  <2>1. pc > 18 /\ pc > 17
    BY Counted, Positions
  <2>2. pic["master"].mask = 0 .. 7 /\ pic["master"] \in Controller
    BY <2>1 DEF BootInv, InterruptsInv, PicInv
  <2>3. pic["master"].irr \subseteq 0 .. 7
    BY <2>2 DEF Controller
  <2>4. QED
    BY <2>2, <2>3 DEF MasterRequests, Requests
<1>2. QED
  BY <1>1, BootInvariant, PTL

\* On a machine whose memory above the last address is not reported as if it were at 0, the
\* heap is the largest available region below it, as reported (mb_parser.cpp:55-67).
THEOREM HeapIsTheLargest == Spec => []HeapIsLargest
<1>1. BootInv => HeapIsLargest
  <2> SUFFICES ASSUME BootInv, pc > 2, info # Unknown, WordSized
               PROVE  LET available == {info.mmap[k] : k \in {b \in Below : info.mmap[b].available}}
                      IN  /\ \E r \in available : r.addr = heap.base /\ r.len = heap.size
                          /\ \A r \in available : r.len <= heap.size
    BY DEF HeapIsLargest
  <2>1. /\ info \in Info /\ heap = parse_multiboot(info, Words) /\ heap.ok /\ heap.base # 0
        /\ Words \in Nat \ {0}
    <3>1. pc > 1
      BY DEF BootInv, InterruptsInv
    <3>2. QED
      BY <3>1, InfoAssumption, Geometry DEF BootInv, HeapInv, Info, Entry
  <2>2. /\ \A j \in DOMAIN info.mmap :
             info.mmap[j].available => info.mmap[j].len % Words <= heap.size
        /\ \E j \in DOMAIN info.mmap :
             /\ info.mmap[j].available
             /\ heap.base = info.mmap[j].addr % Words
             /\ heap.size = info.mmap[j].len % Words
    BY <2>1, ParserFinds
  <2>3. ASSUME NEW j \in DOMAIN info.mmap PROVE info.mmap[j].addr \in Nat /\ info.mmap[j].len \in Nat
    <3>1. info.mmap \in Seq(Entry)
      BY <2>1 DEF Info
    <3>2. info.mmap[j] \in Entry
      BY <3>1, LenProperties
    <3>3. QED
      BY <3>2 DEF Entry
  <2>4. \A j \in Below : /\ j \in DOMAIN info.mmap
                         /\ info.mmap[j].addr % Words = info.mmap[j].addr
                         /\ info.mmap[j].len % Words = info.mmap[j].len
    <3>1. \A a \in Nat : a < Words => a % Words = a
      BY <2>1
    <3>2. \A j \in Below : /\ j \in DOMAIN info.mmap /\ info.mmap[j].addr < Words
                           /\ info.mmap[j].len < Words
      BY DEF Below, WordSized
    <3>3. QED
      BY <2>3, <3>1, <3>2
  <2>5. ASSUME NEW j \in DOMAIN info.mmap, j \notin Below PROVE info.mmap[j].addr % Words = 0
    <3>1. info.mmap[j].addr = Words
      BY <2>5 DEF WordSized
    <3>2. Words % Words = 0
      BY <2>1
    <3>3. QED
      BY <3>1, <3>2
  <2>6. PICK j \in DOMAIN info.mmap : /\ info.mmap[j].available
                                      /\ heap.base = info.mmap[j].addr % Words
                                      /\ heap.size = info.mmap[j].len % Words
    BY <2>2
  <2>7. j \in Below
    BY <2>1, <2>5, <2>6
  <2>8. QED
    BY <2>2, <2>4, <2>6, <2>7
<1>2. QED
  BY <1>1, BootInvariant, PTL

-----------------------------------------------------------------------------
(***************************************************************************)
(* What the bootstrap leaves to the kernel's memory.                       *)
(***************************************************************************)
\* Where `used` counts, each part of the address space has a table of its own.
LeftSound == layout.backed /\ paging \in {"on", "lost"} => TablesSound(mem)

LEMMA LeavesSound ==
  ASSUME BootInv, enter_virtual, layout.backed
  PROVE  TablesSound(mem')
<1> DEFINE m == mem'
<1>1. /\ layout \in Layouts /\ BootSound(mem, Slot(used), DoneBy(todo))
      /\ m = [mem EXCEPT ![Pd] = [mem[Pd] EXCEPT ![Recursive] = Pd]]
  BY DEF BootInv, BootstrapInv, BootstrapTypeOK, enter_virtual
<1>2. mem \in BootMemories /\ EntriesSound(mem) /\ OwnTables(mem, Slot(used), DoneBy(todo))
  BY <1>1 DEF BootSound
<1> HIDE DEF m
<1>3. Pd \in TableFrames /\ Pd # None /\ Recursive \in Index
  BY TableFramesFacts, Geometry
<1>4. mem[Pd] \in Table
  BY <1>2, <1>3 DEF BootMemories
<1>5. m[Pd] = [mem[Pd] EXCEPT ![Recursive] = Pd]
  BY <1>1, <1>2, <1>3 DEF BootMemories
<1>6. m[Pd][Recursive] = Pd /\ \A i \in Index : i # Recursive => m[Pd][i] = mem[Pd][i]
  BY <1>3, <1>4, <1>5 DEF Table
<1>7. \A i \in Index : mem[Pd][i] # Pd
  BY <1>2, <1>3 DEF EntriesSound, Present
<1>8. \A i, j \in Index : mem[Pd][i] = mem[Pd][j] /\ mem[Pd][i] # None => i = j
  BY <1>2 DEF OwnTables, Present
<1>9. ASSUME NEW i \in Index, NEW j \in Index, m[Pd][i] = m[Pd][j], m[Pd][i] # None
      PROVE  i = j
  BY <1>6, <1>7, <1>8, <1>9
<1>10. QED
  BY <1>6, <1>9 DEF TablesSound, m

\* What is given back was mapped by the bootstrap, below the window.
LEMMA GivenBackPages ==
  ASSUME layout \in Layouts
  PROVE  GivenBack \subseteq Identity /\ \A v \in GivenBack : v \in Page /\ v[1] # Recursive
<1>1. /\ layout.bootstrap_start \in Address /\ layout.bootstrap_end \in Address
      /\ Aligned(layout.bootstrap_start) /\ Address \subseteq Nat
  BY LayoutFacts
<1>2. /\ AlignDown(layout.bootstrap_start) = layout.bootstrap_start
      /\ AlignDown(layout.bootstrap_end) \in Nat
      /\ AlignDown(layout.bootstrap_end) <= layout.bootstrap_end
  BY <1>1, AlignDownFacts
<1>3. AlignDown(layout.bootstrap_start) .. AlignDown(layout.bootstrap_end) - 1
        \subseteq layout.bootstrap_start .. layout.bootstrap_end - 1
  <2>1. ASSUME NEW a \in Nat, NEW b \in Nat, NEW c \in Nat, b <= c
        PROVE  a .. b - 1 \subseteq a .. c - 1
    BY <2>1
  <2>2. layout.bootstrap_start \in Nat /\ layout.bootstrap_end \in Nat
    BY <1>1
  <2>3. QED
    BY <1>2, <2>1, <2>2
<1>4. GivenBack \subseteq Identity
  BY <1>3 DEF GivenBack, Identity, PagesFrom
<1>5. QED
  BY <1>4, PlacesOfPages

\* unmap_region and unmap_page clear entries of tables, never of the directory.
LEMMA UnmapLeaves ==
  ASSUME BootInv, Unmap, TablesSound(mem)
  PROVE  mem'[Pd] = mem[Pd]
<1>1. Pd \in TableFrames /\ mem \in BootMemories
  BY TableFramesFacts DEF BootInv, BootstrapInv, BootstrapTypeOK, BootMemories
<1>2. mem[Pd] \in [Index -> Frame \cup {None}]
  BY <1>1 DEF BootMemories, Table
<1>3. ASSUME NEW v \in GivenBack PROVE mem[Pd][v[1]] # Pd
  <2>1. v[1] \in Index /\ v[1] # Recursive
    BY GivenBackPages DEF BootInv, BootstrapInv, BootstrapTypeOK, Page
  <2>2. QED
    BY <2>1, Geometry DEF TablesSound
<1>4. mem'[Pd] = [i \in Index |-> mem[Pd][i]]
  BY <1>1, <1>3 DEF Unmap
<1>5. QED
  BY <1>2, <1>4

\* What Memory takes for granted of the tables it starts with is what every boot leaves
\* that turns paging on, on a machine where `used` counts (enter_virtual.cpp:51-85).
THEOREM EachPartHasItsTable == Spec => [](paging = "on" /\ layout.backed => TablesSound(mem))
<1>1. Init => LeftSound
  BY DEF Init, BootstrapInit, LeftSound
<1>2. BootInv /\ LeftSound /\ [Next]_vars => LeftSound'
  <2> SUFFICES ASSUME BootInv, LeftSound, [Next]_vars, layout'.backed, paging' \in {"on", "lost"}
               PROVE  TablesSound(mem')
    BY DEF LeftSound, TablesSound
  <2>1. CASE MapPage
    BY <2>1 DEF MapPage
  <2>2. CASE enter_virtual
    BY <2>2, LeavesSound DEF enter_virtual
  <2>3. CASE UNCHANGED bootstrapVars
    BY <2>3 DEF bootstrapVars, LeftSound
  <2>4. CASE Unmap
    <3>1. TablesSound(mem)
      BY <2>4 DEF Unmap, LeftSound
    <3>2. QED
      BY <2>4, <3>1, UnmapLeaves DEF TablesSound
  <2>5. Next => InBootstrap \/ Unmap \/ UNCHANGED bootstrapVars
    BY DEF Next, InitAlloc, SetUpOutput, SetUp, Deliver, Parse, Device, Fault
  <2>6. QED
    BY <2>1, <2>2, <2>3, <2>4, <2>5 DEF vars, InBootstrap
<1>3. LeftSound => (paging = "on" /\ layout.backed => TablesSound(mem))
  BY DEF LeftSound
<1>4. QED
  BY <1>1, <1>2, <1>3, BootInvariant, PTL DEF Spec
================================================================================
