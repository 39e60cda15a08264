----------------------------- MODULE StringsProofs -----------------------------
(***************************************************************************)
(* Theorems about Strings, for any memory, any bytes and any needles.      *)
(***************************************************************************)
EXTENDS Strings, DataInduction, SequenceTheorems, FiniteSetTheorems

-----------------------------------------------------------------------------
(***************************************************************************)
(* Loops that search.                                                      *)
(***************************************************************************)
\* j is the first place from i on that is in stops, or else the end.
FirstStop(j, i, stops, end) ==
  /\ j \in i .. end
  /\ j = end \/ j \in stops
  /\ \A k \in i .. j - 1 : k \notin stops

LEMMA FirstStopExists ==
  ASSUME NEW stops, NEW i \in Int, NEW end \in Int, i <= end
  PROVE  \E j \in Int : FirstStop(j, i, stops, end)
<1> DEFINE T == {k \in Nat : i + k <= end /\ (i + k = end \/ i + k \in stops)}
<1>1. end - i \in T
  OBVIOUS
<1>2. PICK x \in T : \A y \in T : x <= y
  BY <1>1, SmallestMember
<1>3. x \in Nat /\ i + x <= end /\ (i + x = end \/ i + x \in stops)
  BY <1>2
<1>4. ASSUME NEW k \in i .. i + x - 1, k \in stops PROVE FALSE
  <2>1. k - i \in Nat /\ i + (k - i) = k /\ k - i < x
    BY <1>3
  <2>2. k - i \in T
    BY <2>1, <1>3, <1>4
  <2>3. QED
    BY <1>2, <2>1, <2>2, <1>3
<1>5. FirstStop(i + x, i, stops, end)
  BY <1>3, <1>4 DEF FirstStop
<1>6. QED
  BY <1>3, <1>5

LEMMA FirstStopUnique ==
  ASSUME NEW stops, NEW i \in Int, NEW end \in Int, NEW j \in Int, NEW k \in Int,
         FirstStop(j, i, stops, end), FirstStop(k, i, stops, end)
  PROVE  j = k
BY DEF FirstStop

LEMMA ScanFinds ==
  ASSUME NEW stops, NEW first \in Int, NEW end \in Int, first <= end
  PROVE  /\ Scan(stops, first, end) \in Int
         /\ FirstStop(Scan(stops, first, end), first, stops, end)
<1> DEFINE Is(g) == g = [i \in first .. end |-> IF i = end \/ i \in stops THEN i ELSE g[i + 1]]
           stop == CHOOSE g : Is(g)
           h == [i \in first .. end |-> CHOOSE j \in Int : FirstStop(j, i, stops, end)]
<1>1. ASSUME NEW i \in first .. end PROVE h[i] \in Int /\ FirstStop(h[i], i, stops, end)
  BY FirstStopExists
<1>2. ASSUME NEW i \in first .. end
      PROVE  h[i] = IF i = end \/ i \in stops THEN i ELSE h[i + 1]
  <2>1. CASE i = end \/ i \in stops
    <3>1. FirstStop(i, i, stops, end)
      BY <2>1 DEF FirstStop
    <3>2. i \in Int
      OBVIOUS
    <3> HIDE DEF h
    <3>3. QED
      BY <1>1, <2>1, <3>1, <3>2, FirstStopUnique
  <2>2. CASE ~ (i = end \/ i \in stops)
    <3>1. i \in Int /\ i + 1 \in first .. end
      BY <2>2
    <3>2. h[i + 1] \in Int /\ FirstStop(h[i + 1], i + 1, stops, end)
      BY <1>1, <3>1
    <3> HIDE DEF h
    <3>3. FirstStop(h[i + 1], i, stops, end)
      BY <2>2, <3>1, <3>2 DEF FirstStop
    <3>4. h[i] \in Int /\ FirstStop(h[i], i, stops, end)
      BY <1>1
    <3>5. h[i] = h[i + 1]
      BY <3>1, <3>2, <3>3, <3>4, FirstStopUnique
    <3>6. QED
      BY <2>2, <3>5
  <2>3. QED
    BY <2>1, <2>2
<1>3. Is(h)
  <2> DEFINE h2 == [i \in first .. end |-> IF i = end \/ i \in stops THEN i ELSE h[i + 1]]
  <2>1. h = [i \in first .. end |-> h[i]]
    OBVIOUS
  <2> HIDE DEF h
  <2>2. h = h2
    BY <1>2, <2>1
  <2>3. QED
    BY <2>2
<1>4. Is(stop)
  <2> HIDE DEF h, Is
  <2>1. QED
    BY <1>3
<1>5. Scan(stops, first, end) = stop[first]
  BY DEF Scan
<1> HIDE DEF stop, h
<1>6. PICK e \in Int : FirstStop(e, first, stops, end)
  BY FirstStopExists
<1>7. e - first \in Nat /\ e \in first .. end
  BY <1>6 DEF FirstStop
<1> DEFINE S == {k \in Nat : stop[first + k] = stop[first]}
<1>8. 0 \in S
  OBVIOUS
<1>9. ASSUME NEW k \in 0 .. e - first - 1, k \in S PROVE k + 1 \in S
  <2>1. first + k \in first .. e - 1 /\ first + k \in first .. end /\ first + k # end
    BY <1>7
  <2>2. first + k \notin stops
    BY <1>6, <2>1 DEF FirstStop
  <2>3. stop[first + k] = stop[(first + k) + 1]
    BY <1>4, <2>1, <2>2
  <2>4. first + (k + 1) = (first + k) + 1 /\ k \in Nat
    BY <1>7
  <2>5. QED
    BY <1>9, <2>3, <2>4
<1> HIDE DEF S
<1>10. e - first \in S
  <2>1. \A k \in 0 .. e - first : k \in S
    BY <1>7, <1>8, <1>9, BoundedInduction
  <2>2. QED
    BY <2>1, <1>7
<1>11. stop[e] = stop[first]
  BY <1>7, <1>10 DEF S
<1>12. stop[e] = e
  BY <1>4, <1>6, <1>7 DEF FirstStop
<1>13. QED
  BY <1>5, <1>6, <1>11, <1>12

-----------------------------------------------------------------------------
(***************************************************************************)
(* Loops that move.                                                        *)
(***************************************************************************)
Memory == [Address -> 0 .. 255]

\* b with what is at s .. s + n - 1 also at d .. d + n - 1; and only its last i bytes.
Shifted(b, d, s, n) == [a \in Address |-> IF a \in d .. d + n - 1 THEN b[s + (a - d)] ELSE b[a]]
ShiftedEnd(b, d, s, n, i) ==
  [a \in Address |-> IF a \in d + n - i .. d + n - 1 THEN b[s + (a - d)] ELSE b[a]]

\* The n bytes at d may replace those at s while these are read.
Overlays(d, s, n) == d = s \/ Disjoint(d, n, s, n)

\* What std::transform has done to the first n elements
Transformed(b, d, s, t, n) ==
  [a \in Address |-> IF a \in d .. d + n - 1 THEN Op(b[s + (a - d)], b[t + (a - d)]) ELSE b[a]]
Transformed1(b, d, s, n) ==
  [a \in Address |-> IF a \in d .. d + n - 1 THEN Op(b[s + (a - d)], 0) ELSE b[a]]

LEMMA Addresses == Size \in Nat \ {0} /\ \A a : a \in Address <=> a \in Nat /\ a < Size
BY MemoryAssumption DEF Address

LEMMA MoveForward ==
  ASSUME NEW b \in Memory, NEW d \in Nat, NEW s \in Nat, NEW n \in Nat,
         d + n <= Size, s + n <= Size, d <= s \/ d >= s + n
  PROVE  \A i \in 1 .. n :
           Moved(Shifted(b, d, s, i - 1), d + i - 1, s + i - 1) = Shifted(b, d, s, i)
<1> SUFFICES ASSUME NEW i \in 1 .. n
             PROVE  Moved(Shifted(b, d, s, i - 1), d + i - 1, s + i - 1) = Shifted(b, d, s, i)
  OBVIOUS
<1> DEFINE B == Shifted(b, d, s, i - 1)
<1>1. d + i - 1 \in Address /\ s + i - 1 \in Address
  BY Addresses
<1>2. DOMAIN B = Address
  BY DEF Shifted
<1>3. B[s + i - 1] = b[s + i - 1]
  <2>1. ~ (s + i - 1 \in d .. d + (i - 1) - 1)
    OBVIOUS
  <2>2. QED
    BY <1>1, <2>1 DEF Shifted
<1>4. Moved(B, d + i - 1, s + i - 1)
        = [a \in Address |-> IF a = d + i - 1 THEN B[s + i - 1] ELSE B[a]]
  <2> DEFINE x == d + i - 1
             y == s + i - 1
  <2> HIDE DEF B, x, y
  <2>1. Moved(B, x, y) = [a \in Address |-> IF a = x THEN B[y] ELSE B[a]]
    BY <1>2 DEF Moved
  <2>2. QED
    BY <2>1 DEF x, y
<1>5. ASSUME NEW a \in Address
      PROVE  (IF a = d + i - 1 THEN B[s + i - 1] ELSE B[a])
               = IF a \in d .. d + i - 1 THEN b[s + (a - d)] ELSE b[a]
  <2>1. a \in Nat
    BY Addresses
  <2>2. CASE a = d + i - 1
    <3>1. a \in d .. d + i - 1 /\ s + (a - d) = s + i - 1
      BY <2>1, <2>2
    <3>2. QED
      BY <1>3, <2>2, <3>1
  <2>3. CASE a # d + i - 1
    <3>1. a \in d .. d + (i - 1) - 1 <=> a \in d .. d + i - 1
      BY <2>1, <2>3
    <3>2. B[a] = IF a \in d .. d + (i - 1) - 1 THEN b[s + (a - d)] ELSE b[a]
      BY DEF Shifted
    <3> HIDE DEF B
    <3>3. QED
      BY <2>3, <3>1, <3>2
  <2>4. QED
    BY <2>2, <2>3
<1> HIDE DEF B
<1>6. QED
  BY <1>4, <1>5 DEF Shifted, B

\* Two loops that begin with the same and do the same end with the same.
LEMMA SameLoopFrom ==
  ASSUME NEW lo \in Int, NEW hi \in Int, lo <= hi, NEW f, NEW h, f[lo] = h[lo],
         \A k \in lo .. hi - 1 : f[k] = h[k] => f[k + 1] = h[k + 1]
  PROVE  f[hi] = h[hi]
<1> DEFINE S == {k \in Nat : f[lo + k] = h[lo + k]}
<1>1. 0 \in S
  OBVIOUS
<1>2. ASSUME NEW k \in 0 .. hi - lo - 1, k \in S PROVE k + 1 \in S
  <2>1. k \in Nat /\ k + 1 \in Nat /\ lo + k \in lo .. hi - 1 /\ (lo + k) + 1 = lo + (k + 1)
    OBVIOUS
  <2>2. f[lo + k] = h[lo + k]
    BY <1>2
  <2>3. f[(lo + k) + 1] = h[(lo + k) + 1]
    BY <2>1, <2>2
  <2>4. QED
    BY <2>1, <2>3
<1> HIDE DEF S
<1>3. hi - lo \in S
  <2>1. hi - lo \in Nat
    OBVIOUS
  <2>2. \A k \in 0 .. hi - lo : k \in S
    BY <2>1, <1>1, <1>2, BoundedInduction
  <2>3. QED
    BY <2>1, <2>2
<1>4. QED
  BY <1>3 DEF S

LEMMA SameLoop ==
  ASSUME NEW n \in Nat, NEW f, NEW h, f[0] = h[0],
         \A k \in 0 .. n - 1 : f[k] = h[k] => f[k + 1] = h[k + 1]
  PROVE  f[n] = h[n]
<1>1. 0 \in Int /\ n \in Int /\ 0 <= n
  OBVIOUS
<1>2. QED
  BY <1>1, SameLoopFrom

LEMMA ForwardShifts ==
  ASSUME NEW b \in Memory, NEW d \in Nat, NEW s \in Nat, NEW n \in Nat,
         d + n <= Size, s + n <= Size, d <= s \/ d >= s + n
  PROVE  Forward(b, d, s, n) = Shifted(b, d, s, n)
<1>0. \A i \in 1 .. n : Moved(Shifted(b, d, s, i - 1), d + i - 1, s + i - 1) = Shifted(b, d, s, i)
  BY MoveForward
<1> DEFINE Is(g) == g = [i \in 0 .. n |-> IF i = 0 THEN b
                                          ELSE Moved(g[i - 1], d + i - 1, s + i - 1)]
           f == CHOOSE g : Is(g)
           h == [i \in 0 .. n |-> Shifted(b, d, s, i)]
<1>1. Shifted(b, d, s, 0) = b
  <2>1. \A a \in Address : ~ (a \in d .. d + 0 - 1)
    BY Addresses
  <2>2. b = [a \in Address |-> b[a]]
    BY DEF Memory
  <2>3. QED
    BY <2>1, <2>2 DEF Shifted
<1>2. ASSUME NEW i \in 0 .. n
      PROVE  h[i] = IF i = 0 THEN b ELSE Moved(h[i - 1], d + i - 1, s + i - 1)
  <2>1. CASE i = 0
    BY <1>1, <2>1
  <2>2. CASE i # 0
    <3>1. i \in 1 .. n /\ i - 1 \in 0 .. n
      BY <2>2
    <3>2. h[i] = Shifted(b, d, s, i) /\ h[i - 1] = Shifted(b, d, s, i - 1)
      BY <3>1
    <3> HIDE DEF h
    <3>3. Moved(Shifted(b, d, s, i - 1), d + i - 1, s + i - 1) = Shifted(b, d, s, i)
      BY <3>1, <1>0
    <3>4. QED
      BY <2>2, <3>2, <3>3
  <2>3. QED
    BY <2>1, <2>2
<1>3. Is(h)
  <2> DEFINE h2 == [i \in 0 .. n |-> IF i = 0 THEN b
                                     ELSE Moved(h[i - 1], d + i - 1, s + i - 1)]
  <2>1. h = [i \in 0 .. n |-> h[i]]
    OBVIOUS
  <2> HIDE DEF h
  <2>2. h = h2
    BY <1>2, <2>1
  <2>3. QED
    BY <2>2
<1>4. Is(f)
  <2> HIDE DEF h, Is
  <2>1. QED
    BY <1>3
<1>5. Forward(b, d, s, n) = f[n]
  BY DEF Forward
<1> HIDE DEF f, h
<1>6. f[0] = h[0]
  BY <1>2, <1>4
<1>7. ASSUME NEW k \in 0 .. n - 1, f[k] = h[k] PROVE f[k + 1] = h[k + 1]
  <2>1. k + 1 \in 0 .. n /\ k + 1 # 0 /\ (k + 1) - 1 = k
    OBVIOUS
  <2>2. f[k + 1] = Moved(f[k], d + (k + 1) - 1, s + (k + 1) - 1)
    BY <1>4, <2>1
  <2>3. h[k + 1] = Moved(h[k], d + (k + 1) - 1, s + (k + 1) - 1)
    BY <1>2, <2>1
  <2>4. QED
    BY <1>7, <2>2, <2>3
<1>8. f[n] = h[n]
  BY <1>6, <1>7, SameLoop
<1>9. QED
  BY <1>5, <1>8 DEF h

LEMMA MoveBackward ==
  ASSUME NEW b \in Memory, NEW d \in Nat, NEW s \in Nat, NEW n \in Nat,
         d + n <= Size, s + n <= Size, d >= s \/ d + n <= s
  PROVE  \A i \in 1 .. n :
           Moved(ShiftedEnd(b, d, s, n, i - 1), d + n - i, s + n - i) = ShiftedEnd(b, d, s, n, i)
<1> SUFFICES ASSUME NEW i \in 1 .. n
             PROVE  Moved(ShiftedEnd(b, d, s, n, i - 1), d + n - i, s + n - i) = ShiftedEnd(b, d, s, n, i)
  OBVIOUS
<1> DEFINE B == ShiftedEnd(b, d, s, n, i - 1)
<1>1. d + n - i \in Address /\ s + n - i \in Address
  BY Addresses
<1>2. DOMAIN B = Address
  BY DEF ShiftedEnd
<1>3. B[s + n - i] = b[s + n - i]
  <2>1. ~ (s + n - i \in d + n - (i - 1) .. d + n - 1)
    BY DEF Disjoint, Overlays
  <2>2. QED
    BY <1>1, <2>1 DEF ShiftedEnd
<1>4. Moved(B, d + n - i, s + n - i)
        = [a \in Address |-> IF a = d + n - i THEN B[s + n - i] ELSE B[a]]
  <2> DEFINE x == d + n - i
             y0 == s + n - i
  <2> HIDE DEF B, x, y0
  <2>1. Moved(B, x, y0) = [a \in Address |-> IF a = x THEN B[y0] ELSE B[a]]
    BY <1>2 DEF Moved
  <2>2. QED
    BY <2>1 DEF x, y0
<1>5. ASSUME NEW a \in Address
      PROVE  (IF a = d + n - i THEN B[s + n - i] ELSE B[a])
               = IF a \in d + n - i .. d + n - 1 THEN b[s + (a - d)] ELSE b[a]
  <2>1. a \in Nat
    BY Addresses
  <2>2. CASE a = d + n - i
    <3>1. a \in d + n - i .. d + n - 1 /\ s + (a - d) = s + n - i
      BY <2>1, <2>2
    <3>2. QED
      BY <1>3, <2>2, <3>1
  <2>3. CASE a # d + n - i
    <3>1. a \in d + n - (i - 1) .. d + n - 1 <=> a \in d + n - i .. d + n - 1
      BY <2>1, <2>3
    <3>2. B[a] = IF a \in d + n - (i - 1) .. d + n - 1 THEN b[s + (a - d)] ELSE b[a]
      BY DEF ShiftedEnd
    <3> HIDE DEF B
    <3>3. QED
      BY <2>3, <3>1, <3>2
  <2>4. QED
    BY <2>2, <2>3
<1> HIDE DEF B
<1>6. QED
  BY <1>4, <1>5 DEF ShiftedEnd, B

LEMMA BackwardShifts ==
  ASSUME NEW b \in Memory, NEW d \in Nat, NEW s \in Nat, NEW n \in Nat,
         d + n <= Size, s + n <= Size, d >= s \/ d + n <= s
  PROVE  Backward(b, d, s, n) = ShiftedEnd(b, d, s, n, n)
<1>0. \A i \in 1 .. n : Moved(ShiftedEnd(b, d, s, n, i - 1), d + n - i, s + n - i) = ShiftedEnd(b, d, s, n, i)
  BY MoveBackward
<1> DEFINE Is(g) == g = [i \in 0 .. n |-> IF i = 0 THEN b
                                          ELSE Moved(g[i - 1], d + n - i, s + n - i)]
           f == CHOOSE g : Is(g)
           h == [i \in 0 .. n |-> ShiftedEnd(b, d, s, n, i)]
<1>1. ShiftedEnd(b, d, s, n, 0) = b
  <2>1. \A a \in Address : ~ (a \in d + n - 0 .. d + n - 1)
    BY Addresses
  <2>2. b = [a \in Address |-> b[a]]
    BY DEF Memory
  <2>3. QED
    BY <2>1, <2>2 DEF ShiftedEnd
<1>2. ASSUME NEW i \in 0 .. n
      PROVE  h[i] = IF i = 0 THEN b ELSE Moved(h[i - 1], d + n - i, s + n - i)
  <2>1. CASE i = 0
    BY <1>1, <2>1
  <2>2. CASE i # 0
    <3>1. i \in 1 .. n /\ i - 1 \in 0 .. n
      BY <2>2
    <3>2. h[i] = ShiftedEnd(b, d, s, n, i) /\ h[i - 1] = ShiftedEnd(b, d, s, n, i - 1)
      BY <3>1
    <3> HIDE DEF h
    <3>3. Moved(ShiftedEnd(b, d, s, n, i - 1), d + n - i, s + n - i) = ShiftedEnd(b, d, s, n, i)
      BY <3>1, <1>0
    <3>4. QED
      BY <2>2, <3>2, <3>3
  <2>3. QED
    BY <2>1, <2>2
<1>3. Is(h)
  <2> DEFINE h2 == [i \in 0 .. n |-> IF i = 0 THEN b
                                     ELSE Moved(h[i - 1], d + n - i, s + n - i)]
  <2>1. h = [i \in 0 .. n |-> h[i]]
    OBVIOUS
  <2> HIDE DEF h
  <2>2. h = h2
    BY <1>2, <2>1
  <2>3. QED
    BY <2>2
<1>4. Is(f)
  <2> HIDE DEF h, Is
  <2>1. QED
    BY <1>3
<1>5. Backward(b, d, s, n) = f[n]
  BY DEF Backward
<1> HIDE DEF f, h
<1>6. f[0] = h[0]
  BY <1>2, <1>4
<1>7. ASSUME NEW k \in 0 .. n - 1, f[k] = h[k] PROVE f[k + 1] = h[k + 1]
  <2>1. k + 1 \in 0 .. n /\ k + 1 # 0 /\ (k + 1) - 1 = k
    OBVIOUS
  <2>2. f[k + 1] = Moved(f[k], d + n - (k + 1), s + n - (k + 1))
    BY <1>4, <2>1
  <2>3. h[k + 1] = Moved(h[k], d + n - (k + 1), s + n - (k + 1))
    BY <1>2, <2>1
  <2>4. QED
    BY <1>7, <2>2, <2>3
<1>8. f[n] = h[n]
  BY <1>6, <1>7, SameLoop
<1>9. QED
  BY <1>5, <1>8 DEF h

LEMMA ApplyNext ==
  ASSUME NEW b \in Memory, NEW d \in Nat, NEW s \in Nat, NEW n \in Nat,
         NEW t \in Nat, d + n <= Size, s + n <= Size, t + n <= Size,
         Overlays(d, s, n), Overlays(d, t, n)
  PROVE  \A i \in 1 .. n :
           Applied(Transformed(b, d, s, t, i - 1), d + i - 1, s + i - 1, t + i - 1) = Transformed(b, d, s, t, i)
<1> SUFFICES ASSUME NEW i \in 1 .. n
             PROVE  Applied(Transformed(b, d, s, t, i - 1), d + i - 1, s + i - 1, t + i - 1) = Transformed(b, d, s, t, i)
  OBVIOUS
<1> DEFINE B == Transformed(b, d, s, t, i - 1)
<1>1. d + i - 1 \in Address /\ s + i - 1 \in Address /\ t + i - 1 \in Address
  BY Addresses
<1>2. DOMAIN B = Address
  BY DEF Transformed
<1>3. B[s + i - 1] = b[s + i - 1]
  <2>1. ~ (s + i - 1 \in d .. d + (i - 1) - 1)
    BY DEF Disjoint, Overlays
  <2>2. QED
    BY <1>1, <2>1 DEF Transformed
<1>4. B[t + i - 1] = b[t + i - 1]
  <2>1. ~ (t + i - 1 \in d .. d + (i - 1) - 1)
    BY DEF Disjoint, Overlays
  <2>2. QED
    BY <1>1, <2>1 DEF Transformed
<1>5. Applied(B, d + i - 1, s + i - 1, t + i - 1)
        = [a \in Address |-> IF a = d + i - 1 THEN Op(B[s + i - 1], B[t + i - 1]) ELSE B[a]]
  <2> DEFINE x == d + i - 1
             y0 == s + i - 1
             y1 == t + i - 1
  <2> HIDE DEF B, x, y0, y1
  <2>1. Applied(B, x, y0, y1) = [a \in Address |-> IF a = x THEN Op(B[y0], B[y1]) ELSE B[a]]
    BY <1>2 DEF Applied
  <2>2. QED
    BY <2>1 DEF x, y0, y1
<1>6. ASSUME NEW a \in Address
      PROVE  (IF a = d + i - 1 THEN Op(B[s + i - 1], B[t + i - 1]) ELSE B[a])
               = IF a \in d .. d + i - 1 THEN Op(b[s + (a - d)], b[t + (a - d)]) ELSE b[a]
  <2>1. a \in Nat
    BY Addresses
  <2>2. CASE a = d + i - 1
    <3>1. a \in d .. d + i - 1 /\ s + (a - d) = s + i - 1 /\ t + (a - d) = t + i - 1
      BY <2>1, <2>2
    <3>2. QED
      BY <1>3, <1>4, <2>2, <3>1
  <2>3. CASE a # d + i - 1
    <3>1. a \in d .. d + (i - 1) - 1 <=> a \in d .. d + i - 1
      BY <2>1, <2>3
    <3>2. B[a] = IF a \in d .. d + (i - 1) - 1 THEN Op(b[s + (a - d)], b[t + (a - d)]) ELSE b[a]
      BY DEF Transformed
    <3> HIDE DEF B
    <3>3. QED
      BY <2>3, <3>1, <3>2
  <2>4. QED
    BY <2>2, <2>3
<1> HIDE DEF B
<1>7. QED
  BY <1>5, <1>6 DEF Transformed, B

LEMMA TransformApplies ==
  ASSUME NEW b \in Memory, NEW d \in Nat, NEW s \in Nat, NEW n \in Nat, NEW t \in Nat,
         d + n <= Size, s + n <= Size, t + n <= Size,
         Overlays(d, s, n), Overlays(d, t, n)
  PROVE  transform(b, d, s, t, n) = Transformed(b, d, s, t, n)
<1>0. \A i \in 1 .. n : Applied(Transformed(b, d, s, t, i - 1), d + i - 1, s + i - 1, t + i - 1) = Transformed(b, d, s, t, i)
  BY ApplyNext
<1> DEFINE Is(g) == g = [i \in 0 .. n |-> IF i = 0 THEN b
                                          ELSE Applied(g[i - 1], d + i - 1, s + i - 1, t + i - 1)]
           f == CHOOSE g : Is(g)
           h == [i \in 0 .. n |-> Transformed(b, d, s, t, i)]
<1>1. Transformed(b, d, s, t, 0) = b
  <2>1. \A a \in Address : ~ (a \in d .. d + 0 - 1)
    BY Addresses
  <2>2. b = [a \in Address |-> b[a]]
    BY DEF Memory
  <2>3. QED
    BY <2>1, <2>2 DEF Transformed
<1>2. ASSUME NEW i \in 0 .. n
      PROVE  h[i] = IF i = 0 THEN b ELSE Applied(h[i - 1], d + i - 1, s + i - 1, t + i - 1)
  <2>1. CASE i = 0
    BY <1>1, <2>1
  <2>2. CASE i # 0
    <3>1. i \in 1 .. n /\ i - 1 \in 0 .. n
      BY <2>2
    <3>2. h[i] = Transformed(b, d, s, t, i) /\ h[i - 1] = Transformed(b, d, s, t, i - 1)
      BY <3>1
    <3> HIDE DEF h
    <3>3. Applied(Transformed(b, d, s, t, i - 1), d + i - 1, s + i - 1, t + i - 1) = Transformed(b, d, s, t, i)
      BY <3>1, <1>0
    <3>4. QED
      BY <2>2, <3>2, <3>3
  <2>3. QED
    BY <2>1, <2>2
<1>3. Is(h)
  <2> DEFINE h2 == [i \in 0 .. n |-> IF i = 0 THEN b
                                     ELSE Applied(h[i - 1], d + i - 1, s + i - 1, t + i - 1)]
  <2>1. h = [i \in 0 .. n |-> h[i]]
    OBVIOUS
  <2> HIDE DEF h
  <2>2. h = h2
    BY <1>2, <2>1
  <2>3. QED
    BY <2>2
<1>4. Is(f)
  <2> HIDE DEF h, Is
  <2>1. QED
    BY <1>3
<1>5. transform(b, d, s, t, n) = f[n]
  BY DEF transform
<1> HIDE DEF f, h
<1>6. f[0] = h[0]
  BY <1>2, <1>4
<1>7. ASSUME NEW k \in 0 .. n - 1, f[k] = h[k] PROVE f[k + 1] = h[k + 1]
  <2>1. k + 1 \in 0 .. n /\ k + 1 # 0 /\ (k + 1) - 1 = k
    OBVIOUS
  <2>2. f[k + 1] = Applied(f[k], d + (k + 1) - 1, s + (k + 1) - 1, t + (k + 1) - 1)
    BY <1>4, <2>1
  <2>3. h[k + 1] = Applied(h[k], d + (k + 1) - 1, s + (k + 1) - 1, t + (k + 1) - 1)
    BY <1>2, <2>1
  <2>4. QED
    BY <1>7, <2>2, <2>3
<1>8. f[n] = h[n]
  BY <1>6, <1>7, SameLoop
<1>9. QED
  BY <1>5, <1>8 DEF h

LEMMA ApplyNext1 ==
  ASSUME NEW b \in Memory, NEW d \in Nat, NEW s \in Nat, NEW n \in Nat,
         d + n <= Size, s + n <= Size, Overlays(d, s, n)
  PROVE  \A i \in 1 .. n :
           Applied1(Transformed1(b, d, s, i - 1), d + i - 1, s + i - 1) = Transformed1(b, d, s, i)
<1> SUFFICES ASSUME NEW i \in 1 .. n
             PROVE  Applied1(Transformed1(b, d, s, i - 1), d + i - 1, s + i - 1) = Transformed1(b, d, s, i)
  OBVIOUS
<1> DEFINE B == Transformed1(b, d, s, i - 1)
<1>1. d + i - 1 \in Address /\ s + i - 1 \in Address
  BY Addresses
<1>2. DOMAIN B = Address
  BY DEF Transformed1
<1>3. B[s + i - 1] = b[s + i - 1]
  <2>1. ~ (s + i - 1 \in d .. d + (i - 1) - 1)
    BY DEF Disjoint, Overlays
  <2>2. QED
    BY <1>1, <2>1 DEF Transformed1
<1>4. Applied1(B, d + i - 1, s + i - 1)
        = [a \in Address |-> IF a = d + i - 1 THEN Op(B[s + i - 1], 0) ELSE B[a]]
  <2> DEFINE x == d + i - 1
             y0 == s + i - 1
  <2> HIDE DEF B, x, y0
  <2>1. Applied1(B, x, y0) = [a \in Address |-> IF a = x THEN Op(B[y0], 0) ELSE B[a]]
    BY <1>2 DEF Applied1
  <2>2. QED
    BY <2>1 DEF x, y0
<1>5. ASSUME NEW a \in Address
      PROVE  (IF a = d + i - 1 THEN Op(B[s + i - 1], 0) ELSE B[a])
               = IF a \in d .. d + i - 1 THEN Op(b[s + (a - d)], 0) ELSE b[a]
  <2>1. a \in Nat
    BY Addresses
  <2>2. CASE a = d + i - 1
    <3>1. a \in d .. d + i - 1 /\ s + (a - d) = s + i - 1
      BY <2>1, <2>2
    <3>2. QED
      BY <1>3, <2>2, <3>1
  <2>3. CASE a # d + i - 1
    <3>1. a \in d .. d + (i - 1) - 1 <=> a \in d .. d + i - 1
      BY <2>1, <2>3
    <3>2. B[a] = IF a \in d .. d + (i - 1) - 1 THEN Op(b[s + (a - d)], 0) ELSE b[a]
      BY DEF Transformed1
    <3> HIDE DEF B
    <3>3. QED
      BY <2>3, <3>1, <3>2
  <2>4. QED
    BY <2>2, <2>3
<1> HIDE DEF B
<1>6. QED
  BY <1>4, <1>5 DEF Transformed1, B

LEMMA TransformApplies1 ==
  ASSUME NEW b \in Memory, NEW d \in Nat, NEW s \in Nat, NEW n \in Nat,
         d + n <= Size, s + n <= Size, Overlays(d, s, n)
  PROVE  transform1(b, d, s, n) = Transformed1(b, d, s, n)
<1>0. \A i \in 1 .. n : Applied1(Transformed1(b, d, s, i - 1), d + i - 1, s + i - 1) = Transformed1(b, d, s, i)
  BY ApplyNext1
<1> DEFINE Is(g) == g = [i \in 0 .. n |-> IF i = 0 THEN b
                                          ELSE Applied1(g[i - 1], d + i - 1, s + i - 1)]
           f == CHOOSE g : Is(g)
           h == [i \in 0 .. n |-> Transformed1(b, d, s, i)]
<1>1. Transformed1(b, d, s, 0) = b
  <2>1. \A a \in Address : ~ (a \in d .. d + 0 - 1)
    BY Addresses
  <2>2. b = [a \in Address |-> b[a]]
    BY DEF Memory
  <2>3. QED
    BY <2>1, <2>2 DEF Transformed1
<1>2. ASSUME NEW i \in 0 .. n
      PROVE  h[i] = IF i = 0 THEN b ELSE Applied1(h[i - 1], d + i - 1, s + i - 1)
  <2>1. CASE i = 0
    BY <1>1, <2>1
  <2>2. CASE i # 0
    <3>1. i \in 1 .. n /\ i - 1 \in 0 .. n
      BY <2>2
    <3>2. h[i] = Transformed1(b, d, s, i) /\ h[i - 1] = Transformed1(b, d, s, i - 1)
      BY <3>1
    <3> HIDE DEF h
    <3>3. Applied1(Transformed1(b, d, s, i - 1), d + i - 1, s + i - 1) = Transformed1(b, d, s, i)
      BY <3>1, <1>0
    <3>4. QED
      BY <2>2, <3>2, <3>3
  <2>3. QED
    BY <2>1, <2>2
<1>3. Is(h)
  <2> DEFINE h2 == [i \in 0 .. n |-> IF i = 0 THEN b
                                     ELSE Applied1(h[i - 1], d + i - 1, s + i - 1)]
  <2>1. h = [i \in 0 .. n |-> h[i]]
    OBVIOUS
  <2> HIDE DEF h
  <2>2. h = h2
    BY <1>2, <2>1
  <2>3. QED
    BY <2>2
<1>4. Is(f)
  <2> HIDE DEF h, Is
  <2>1. QED
    BY <1>3
<1>5. transform1(b, d, s, n) = f[n]
  BY DEF transform1
<1> HIDE DEF f, h
<1>6. f[0] = h[0]
  BY <1>2, <1>4
<1>7. ASSUME NEW k \in 0 .. n - 1, f[k] = h[k] PROVE f[k + 1] = h[k + 1]
  <2>1. k + 1 \in 0 .. n /\ k + 1 # 0 /\ (k + 1) - 1 = k
    OBVIOUS
  <2>2. f[k + 1] = Applied1(f[k], d + (k + 1) - 1, s + (k + 1) - 1)
    BY <1>4, <2>1
  <2>3. h[k + 1] = Applied1(h[k], d + (k + 1) - 1, s + (k + 1) - 1)
    BY <1>2, <2>1
  <2>4. QED
    BY <1>7, <2>2, <2>3
<1>8. f[n] = h[n]
  BY <1>6, <1>7, SameLoop
<1>9. QED
  BY <1>5, <1>8 DEF h

-----------------------------------------------------------------------------
(***************************************************************************)
(* Loops that filter.                                                      *)
(***************************************************************************)
\* c has what is chosen of the first 0, 1, 2 ... elements of text.
Choosing(c, text, set) ==
  /\ c[0] = <<>>
  /\ \A k \in 1 .. Len(text) :
       c[k] = IF text[k] \in set THEN Append(c[k - 1], text[k]) ELSE c[k - 1]

LEMMA ChosenLoop ==
  ASSUME NEW V, NEW text \in Seq(V), NEW set
  PROVE  \E c : Choosing(c, text, set) /\ Chosen(text, set) = c[Len(text)]
<1> DEFINE n == Len(text)
           F == [i \in Nat |-> [x \in Seq(V) |->
                   IF i \in 1 .. n /\ text[i] \in set THEN Append(x, text[i]) ELSE x]]
           Is(g) == g = [k \in 0 .. n |->
                           IF k = 0 THEN <<>>
                           ELSE IF text[k] \in set THEN Append(g[k - 1], text[k]) ELSE g[k - 1]]
           c == CHOOSE g : Is(g)
<1>1. n \in Nat
  OBVIOUS
<1>2. F \in [Nat -> [Seq(V) -> Seq(V)]]
  <2>1. ASSUME NEW i \in Nat, NEW x \in Seq(V)
        PROVE  (IF i \in 1 .. n /\ text[i] \in set THEN Append(x, text[i]) ELSE x) \in Seq(V)
    OBVIOUS
  <2>2. QED
    BY <2>1
<1>3. <<>> \in Seq(V)
  OBVIOUS
<1>4. ASSUME NEW i \in 1 .. n, NEW x \in Seq(V)
      PROVE  F[i][x] = IF text[i] \in set THEN Append(x, text[i]) ELSE x
  BY <1>1
<1> HIDE DEF F
<1> HIDE DEF n
<1>5. PICK g : Iterates(g, Seq(V), <<>>, F, n)
  <2>1. Rounds(F, Seq(V))
    BY <1>2 DEF Rounds
  <2>2. QED
    BY <1>1, <1>3, <2>1, Iteration
<1>6. Is(g)
  <2> DEFINE g2 == [k \in 0 .. n |->
                      IF k = 0 THEN <<>>
                      ELSE IF text[k] \in set THEN Append(g[k - 1], text[k]) ELSE g[k - 1]]
  <2>1. ASSUME NEW k \in 0 .. n
        PROVE  g[k] = IF k = 0 THEN <<>>
                      ELSE IF text[k] \in set THEN Append(g[k - 1], text[k]) ELSE g[k - 1]
    <3>1. CASE k = 0
      BY <1>5, <3>1 DEF Iterates
    <3>2. CASE k # 0
      <4>1. k \in 1 .. n /\ k - 1 \in 0 .. n
        BY <1>1, <3>2
      <4>2. g[k - 1] \in Seq(V)
        BY <1>5, <4>1 DEF Iterates
      <4>3. QED
        BY <1>4, <1>5, <3>2, <4>1, <4>2 DEF Iterates
    <3>3. QED
      BY <3>1, <3>2
  <2>2. g = g2
    BY <1>5, <2>1 DEF Iterates
  <2>3. QED
    BY <2>2
<1>7. Is(c)
  <2> HIDE DEF Is
  <2>1. QED
    BY <1>6
<1>8. Chosen(text, set) = c[n]
  BY DEF Chosen, n
<1> HIDE DEF c
<1>9. Choosing(c, text, set)
  <2>1. c[0] = <<>>
    BY <1>1, <1>7
  <2>2. ASSUME NEW k \in 1 .. n
        PROVE  c[k] = IF text[k] \in set THEN Append(c[k - 1], text[k]) ELSE c[k - 1]
    <3>1. k \in 0 .. n /\ k # 0
      BY <1>1
    <3>2. QED
      BY <1>7, <3>1
  <2>3. QED
    BY <2>1, <2>2 DEF Choosing, n
<1>10. QED
  BY <1>8, <1>9 DEF n

LEMMA ChosenNone ==
  ASSUME NEW set
  PROVE  Chosen(<<>>, set) = <<>>
<1>1. <<>> \in Seq({}) /\ Len(<<>>) = 0
  OBVIOUS
<1>2. PICK c : Choosing(c, <<>>, set) /\ Chosen(<<>>, set) = c[Len(<<>>)]
  BY <1>1, ChosenLoop
<1>3. QED
  BY <1>1, <1>2 DEF Choosing

LEMMA ChosenNext ==
  ASSUME NEW V, NEW text \in Seq(V), NEW x \in V, NEW set
  PROVE  Chosen(Append(text, x), set)
           = IF x \in set THEN Append(Chosen(text, set), x) ELSE Chosen(text, set)
<1> DEFINE n == Len(text)
           more == Append(text, x)
<1>1. n \in Nat /\ more \in Seq(V) /\ Len(more) = n + 1 /\ more[n + 1] = x
  OBVIOUS
<1>2. \A k \in 1 .. n : more[k] = text[k]
  OBVIOUS
<1> HIDE DEF n, more
<1>3. PICK c : Choosing(c, text, set) /\ Chosen(text, set) = c[n]
  BY ChosenLoop DEF n
<1>4. PICK e : Choosing(e, more, set) /\ Chosen(more, set) = e[n + 1]
  <2>1. PICK e : Choosing(e, more, set) /\ Chosen(more, set) = e[Len(more)]
    BY <1>1, ChosenLoop
  <2>2. QED
    BY <1>1, <2>1
<1>5. c[0] = e[0]
  BY <1>3, <1>4 DEF Choosing
<1>6. ASSUME NEW k \in 0 .. n - 1, c[k] = e[k] PROVE c[k + 1] = e[k + 1]
  <2>1. k + 1 \in 1 .. n /\ k + 1 \in 1 .. n + 1 /\ (k + 1) - 1 = k
    BY <1>1
  <2>2. c[k + 1] = IF text[k + 1] \in set THEN Append(c[k], text[k + 1]) ELSE c[k]
    BY <1>3, <2>1 DEF Choosing, n
  <2>3. e[k + 1] = IF more[k + 1] \in set THEN Append(e[k], more[k + 1]) ELSE e[k]
    BY <1>1, <1>4, <2>1 DEF Choosing
  <2>4. QED
    BY <1>2, <1>6, <2>1, <2>2, <2>3
<1>7. c[n] = e[n]
  BY <1>1, <1>5, <1>6, SameLoop
<1>8. e[n + 1] = IF x \in set THEN Append(e[n], x) ELSE e[n]
  <2>1. n + 1 \in 1 .. n + 1 /\ (n + 1) - 1 = n
    BY <1>1
  <2>2. e[n + 1] = IF more[n + 1] \in set THEN Append(e[n], more[n + 1]) ELSE e[n]
    BY <1>1, <1>4, <2>1 DEF Choosing
  <2>3. QED
    BY <1>1, <2>2
<1>9. QED
  BY <1>3, <1>4, <1>7, <1>8 DEF more

LEMMA BytewiseIs ==
  ASSUME NEW b \in Memory, NEW p \in Nat, NEW n \in Nat, p + n <= Size
  PROVE  /\ Bytewise(b, p, n) \in Seq(0 .. 255)
         /\ Len(Bytewise(b, p, n)) = n
         /\ \A k \in 1 .. n : Bytewise(b, p, n)[k] = b[p + k - 1]
<1>1. \A k \in 1 .. n : p + k - 1 \in Address
  BY Addresses
<1>2. \A k \in 1 .. n : b[p + k - 1] \in 0 .. 255
  BY <1>1 DEF Memory
<1>3. QED
  BY <1>2 DEF Bytewise

\* t is the n bytes from p on.
Spells(t, b, p, n) ==
  t \in Seq(0 .. 255) /\ Len(t) = n /\ \A k \in 1 .. n : t[k] = b[p + k - 1]

LEMMA BytewiseSpells ==
  ASSUME NEW b \in Memory, NEW p \in Nat, NEW n \in Nat, p + n <= Size
  PROVE  Spells(Bytewise(b, p, n), b, p, n)
BY BytewiseIs DEF Spells

LEMMA BytewiseNext ==
  ASSUME NEW b \in Memory, NEW p \in Nat, NEW n \in Nat, p + n < Size
  PROVE  /\ Bytewise(b, p, n) \in Seq(0 .. 255)
         /\ Bytewise(b, p, n + 1) = Append(Bytewise(b, p, n), b[p + n])
         /\ b[p + n] \in 0 .. 255
<1>1. \A k \in 1 .. n + 1 : p + k - 1 \in Address
  BY Addresses
<1>2. \A k \in 1 .. n + 1 : b[p + k - 1] \in 0 .. 255
  BY <1>1 DEF Memory
<1>3. Bytewise(b, p, n) \in Seq(0 .. 255) /\ Len(Bytewise(b, p, n)) = n
  BY SMTT(60), <1>2 DEF Bytewise
<1>4. Bytewise(b, p, n + 1) \in Seq(0 .. 255) /\ Len(Bytewise(b, p, n + 1)) = n + 1
  BY <1>2 DEF Bytewise
<1>5. b[p + n] \in 0 .. 255
  BY SMTT(60), <1>2
<1>6. Bytewise(b, p, n + 1) = Append(Bytewise(b, p, n), b[p + n])
  <2> DEFINE s == Bytewise(b, p, n + 1)
             t == Append(Bytewise(b, p, n), b[p + n])
  <2>1. t \in Seq(0 .. 255) /\ Len(t) = n + 1
    BY <1>3, <1>5
  <2>2. ASSUME NEW k \in 1 .. n + 1 PROVE s[k] = t[k]
    <3>1. s[k] = b[p + k - 1]
      BY DEF Bytewise
    <3>2. CASE k = n + 1
      <4>1. t[k] = b[p + n]
        BY <1>3, <3>2
      <4>2. QED
        BY <3>1, <3>2, <4>1
    <3>3. CASE k # n + 1
      <4>1. k \in 1 .. n
        BY <3>3
      <4>2. t[k] = Bytewise(b, p, n)[k]
        BY <1>3, <4>1
      <4>3. QED
        BY <3>1, <4>1, <4>2 DEF Bytewise
    <3>4. QED
      BY <3>2, <3>3
  <2>3. QED
    BY <1>4, <2>1, <2>2, SeqEqual
<1>7. QED
  BY <1>3, <1>5, <1>6

\* The state of Filter when it has seen n bytes at s: text is what it has kept.
KeptState(b, d, text) ==
  [buf |-> [a \in Address |-> IF a \in d .. d + Len(text) - 1 THEN text[a - d + 1] ELSE b[a]],
   at |-> d + Len(text)]
KeptText(b, s, n, keep) == Chosen(Bytewise(b, s, n), keep)

LEMMA KeptTextNext ==
  ASSUME NEW b \in Memory, NEW s \in Nat, NEW n \in Nat, s + n < Size, NEW keep
  PROVE  KeptText(b, s, n + 1, keep)
           = IF b[s + n] \in keep THEN Append(KeptText(b, s, n, keep), b[s + n])
             ELSE KeptText(b, s, n, keep)
<1> DEFINE V == 0 .. 255
<1>1. /\ Bytewise(b, s, n) \in Seq(V)
      /\ Bytewise(b, s, n + 1) = Append(Bytewise(b, s, n), b[s + n])
      /\ b[s + n] \in V
  BY BytewiseNext
<1> HIDE DEF V
<1>2. Chosen(Append(Bytewise(b, s, n), b[s + n]), keep)
        = IF b[s + n] \in keep THEN Append(Chosen(Bytewise(b, s, n), keep), b[s + n])
          ELSE Chosen(Bytewise(b, s, n), keep)
  <2> DEFINE text == Bytewise(b, s, n)
             x == b[s + n]
  <2>1. text \in Seq(V) /\ x \in V
    BY <1>1
  <2> HIDE DEF text, x
  <2>2. Chosen(Append(text, x), keep)
          = IF x \in keep THEN Append(Chosen(text, keep), x) ELSE Chosen(text, keep)
    BY <2>1, ChosenNext
  <2>3. QED
    BY <2>2 DEF text, x
<1>3. QED
  BY <1>1, <1>2 DEF KeptText

LEMMA KeptTextType ==
  ASSUME NEW b \in Memory, NEW s \in Nat, NEW n \in Nat, s + n <= Size, NEW keep
  PROVE  /\ KeptText(b, s, n, keep) \in Seq(0 .. 255)
         /\ Len(KeptText(b, s, n, keep)) \in 0 .. n
         /\ KeptText(b, s, 0, keep) = <<>>
<1> DEFINE S == {k \in Nat : /\ KeptText(b, s, k, keep) \in Seq(0 .. 255)
                             /\ Len(KeptText(b, s, k, keep)) \in 0 .. k}
<1>1. KeptText(b, s, 0, keep) = <<>>
  <2>1. Bytewise(b, s, 0) = <<>>
    BY DEF Bytewise
  <2>2. QED
    BY <2>1, ChosenNone DEF KeptText
<1>2. 0 \in S
  <2>1. <<>> \in Seq(0 .. 255) /\ Len(<<>>) = 0 /\ 0 \in 0 .. 0 /\ 0 \in Nat
    OBVIOUS
  <2> DEFINE t(k) == KeptText(b, s, k, keep)
  <2>2. t(0) \in Seq(0 .. 255) /\ Len(t(0)) \in 0 .. 0
    BY <1>1, <2>1
  <2> HIDE DEF t
  <2>3. 0 \in {k \in Nat : t(k) \in Seq(0 .. 255) /\ Len(t(k)) \in 0 .. k}
    BY <2>1, <2>2
  <2>4. QED
    BY <2>3 DEF t
<1>3. ASSUME NEW k \in 0 .. n - 1, k \in S PROVE k + 1 \in S
  <2> DEFINE t == KeptText(b, s, k, keep)
             u == KeptText(b, s, k + 1, keep)
  <2>1. k \in Nat /\ s + k < Size /\ k + 1 \in Nat /\ s + k \in Address
    BY Addresses
  <2>2. u = IF b[s + k] \in keep THEN Append(t, b[s + k]) ELSE t
    BY <2>1, KeptTextNext
  <2>3. t \in Seq(0 .. 255) /\ Len(t) \in 0 .. k
    BY <1>3
  <2>4. b[s + k] \in 0 .. 255
    BY <2>1 DEF Memory
  <2> HIDE DEF t, u
  <2>5. u \in Seq(0 .. 255) /\ Len(u) \in 0 .. k + 1
    <3> DEFINE V == 0 .. 255
               v == b[s + k]
    <3>1. t \in Seq(V) /\ Len(t) \in 0 .. k /\ v \in V /\ k \in Nat
      BY <2>1, <2>3, <2>4
    <3>2. u = IF v \in keep THEN Append(t, v) ELSE t
      BY <2>2
    <3> HIDE DEF V, v
    <3>3. Append(t, v) \in Seq(V) /\ Len(Append(t, v)) = Len(t) + 1
      BY <3>1
    <3>4. u \in Seq(V) /\ Len(u) \in 0 .. k + 1
      BY <3>1, <3>2, <3>3
    <3>5. QED
      BY <3>4 DEF V
  <2>6. QED
    BY <2>1, <2>5 DEF u
<1> HIDE DEF S
<1>4. n \in S
  BY <1>2, <1>3, BoundedInduction
<1>5. QED
  BY <1>1, <1>4 DEF S

LEMMA KeepNext ==
  ASSUME NEW b \in Memory, NEW d \in Nat, NEW s \in Nat, NEW n \in Nat, NEW keep,
         s + n < Size, d + n < Size, d <= s \/ s + n < d
  PROVE  KeepIf(KeptState(b, d, KeptText(b, s, n, keep)), s + n, keep)
           = KeptState(b, d, KeptText(b, s, n + 1, keep))
<1> DEFINE t == KeptText(b, s, n, keep)
           r == KeptState(b, d, t)
           B == r.buf
           x == b[s + n]
<1>1. t \in Seq(0 .. 255) /\ Len(t) \in 0 .. n
  <2>1. s + n <= Size
    BY Addresses
  <2>2. QED
    BY <2>1, KeptTextType
<1>2. KeptText(b, s, n + 1, keep) = IF x \in keep THEN Append(t, x) ELSE t
  BY KeptTextNext
<1>3. s + n \in Address /\ d + Len(t) \in Address
  BY <1>1, Addresses
<1> HIDE DEF t
<1>4. x \in 0 .. 255
  BY <1>3 DEF Memory
<1>5. r.at = d + Len(t) /\ B = [a \in Address |-> IF a \in d .. d + Len(t) - 1 THEN t[a - d + 1] ELSE b[a]]
  BY DEF KeptState
<1>6. B[s + n] = x
  <2>1. ~ (s + n \in d .. d + Len(t) - 1)
    BY <1>1
  <2>2. QED
    BY <1>3, <1>5, <2>1
<1> HIDE DEF r, x
<1>7. CASE x \in keep
  <2> DEFINE u == Append(t, x)
             y == s + n
             z == d + Len(t)
  <2>1. Moved(B, z, y) = [a \in Address |-> IF a = z THEN B[y] ELSE B[a]]
    <3>1. DOMAIN B = Address
      BY <1>5
    <3> HIDE DEF B, y, z
    <3>2. QED
      BY <3>1 DEF Moved
  <2>2. u \in Seq(0 .. 255) /\ Len(u) = Len(t) + 1 /\ u[Len(t) + 1] = x
        /\ \A k \in 1 .. Len(t) : u[k] = t[k]
    BY <1>1, <1>4
  <2> HIDE DEF u
  <2>3. ASSUME NEW a \in Address
        PROVE  (IF a = z THEN B[y] ELSE B[a])
                 = IF a \in d .. d + Len(u) - 1 THEN u[a - d + 1] ELSE b[a]
    <3>1. a \in Nat
      BY Addresses
    <3>2. CASE a = z
      <4>1. a \in d .. d + Len(u) - 1 /\ a - d + 1 = Len(t) + 1
        BY <1>1, <2>2, <3>1, <3>2
      <4>2. QED
        BY <1>6, <2>2, <3>2, <4>1
    <3>3. CASE a # z
      <4>1. a \in d .. d + Len(u) - 1 <=> a \in d .. d + Len(t) - 1
        BY <1>1, <2>2, <3>1, <3>3
      <4>2. B[a] = IF a \in d .. d + Len(t) - 1 THEN t[a - d + 1] ELSE b[a]
        BY <1>5
      <4>3. CASE a \in d .. d + Len(t) - 1
        <5>1. a - d + 1 \in 1 .. Len(t)
          BY <1>1, <3>1, <4>3
        <5>2. QED
          BY <2>2, <3>3, <4>1, <4>2, <4>3, <5>1
      <4>4. CASE ~ (a \in d .. d + Len(t) - 1)
        BY <3>3, <4>1, <4>2, <4>4
      <4>5. QED
        BY <4>3, <4>4
    <3>4. QED
      BY <3>2, <3>3
  <2>4. Moved(B, z, y)
          = [a \in Address |-> IF a \in d .. d + Len(u) - 1 THEN u[a - d + 1] ELSE b[a]]
    BY <2>1, <2>3
  <2>5. KeepIf(r, s + n, keep) = [buf |-> Moved(B, z, y), at |-> z + 1]
    BY <1>5, <1>6, <1>7 DEF KeepIf
  <2>6. KeptState(b, d, u) = [buf |-> Moved(B, z, y), at |-> z + 1]
    <3>1. d + Len(u) = z + 1
      BY <1>1, <2>2
    <3>2. QED
      BY <2>4, <3>1 DEF KeptState
  <2>7. KeptText(b, s, n + 1, keep) = u
    BY <1>2, <1>7 DEF u
  <2>8. QED
    BY <2>5, <2>6, <2>7 DEF r, t
<1>8. CASE ~ (x \in keep)
  <2>1. KeepIf(r, s + n, keep) = r
    BY <1>6, <1>8 DEF KeepIf
  <2>2. KeptText(b, s, n + 1, keep) = t
    BY <1>2, <1>8
  <2>3. QED
    BY <2>1, <2>2 DEF r, t
<1>9. QED
  BY <1>7, <1>8

LEMMA FilterKeeps ==
  ASSUME NEW b \in Memory, NEW d \in Nat, NEW s \in Nat, NEW end \in Nat, NEW keep,
         s <= end, end <= Size, d + (end - s) <= Size, d <= s \/ end <= d
  PROVE  Filter(b, d, s, end, keep) = KeptState(b, d, KeptText(b, s, end - s, keep))
<1> DEFINE K(i) == KeptState(b, d, KeptText(b, s, i - s, keep))
<1>0. Size \in Nat
  BY Addresses
<1>1. \A i \in s + 1 .. end : KeepIf(K(i - 1), i - 1, keep) = K(i)
  <2> SUFFICES ASSUME NEW i \in s + 1 .. end PROVE KeepIf(K(i - 1), i - 1, keep) = K(i)
    OBVIOUS
  <2> DEFINE n == (i - 1) - s
  <2>1. n \in Nat /\ s + n < Size /\ d + n < Size /\ (d <= s \/ s + n < d)
    BY <1>0
  <2>2. s + n = i - 1 /\ n + 1 = i - s
    OBVIOUS
  <2> HIDE DEF n
  <2>3. KeepIf(KeptState(b, d, KeptText(b, s, n, keep)), s + n, keep)
          = KeptState(b, d, KeptText(b, s, n + 1, keep))
    BY <2>1, KeepNext
  <2>4. QED
    BY <2>2, <2>3 DEF n
<1>2. K(s) = [buf |-> b, at |-> d]
  <2>1. s - s = 0 /\ KeptText(b, s, 0, keep) = <<>>
    BY <1>0, KeptTextType
  <2>2. KeptState(b, d, <<>>) = [buf |-> b, at |-> d]
    <3>1. Len(<<>>) = 0 /\ \A a \in Address : ~ (a \in d .. d + 0 - 1)
      BY Addresses
    <3>2. b = [a \in Address |-> b[a]]
      BY DEF Memory
    <3>3. QED
      BY <3>1, <3>2 DEF KeptState
  <2>3. QED
    BY <2>1, <2>2
<1> HIDE DEF K
<1> DEFINE Is(g) == g = [i \in s .. end |-> IF i = s THEN [buf |-> b, at |-> d]
                                            ELSE KeepIf(g[i - 1], i - 1, keep)]
           f == CHOOSE g : Is(g)
           h == [i \in s .. end |-> K(i)]
<1>3. ASSUME NEW i \in s .. end
      PROVE  h[i] = IF i = s THEN [buf |-> b, at |-> d] ELSE KeepIf(h[i - 1], i - 1, keep)
  <2>1. CASE i = s
    BY <1>2, <2>1
  <2>2. CASE i # s
    <3>1. i \in s + 1 .. end /\ i - 1 \in s .. end
      BY <2>2
    <3>2. h[i] = K(i) /\ h[i - 1] = K(i - 1)
      BY <3>1
    <3> HIDE DEF h
    <3>3. KeepIf(K(i - 1), i - 1, keep) = K(i)
      BY <3>1, <1>1
    <3>4. QED
      BY <2>2, <3>2, <3>3
  <2>3. QED
    BY <2>1, <2>2
<1>4. Is(h)
  <2> DEFINE h2 == [i \in s .. end |-> IF i = s THEN [buf |-> b, at |-> d]
                                       ELSE KeepIf(h[i - 1], i - 1, keep)]
  <2>1. h = [i \in s .. end |-> h[i]]
    OBVIOUS
  <2> HIDE DEF h
  <2>2. h = h2
    BY <1>3, <2>1
  <2>3. QED
    BY <2>2
<1>5. Is(f)
  <2> HIDE DEF h, Is
  <2>1. QED
    BY <1>4
<1>6. Filter(b, d, s, end, keep) = f[end]
  BY DEF Filter
<1> HIDE DEF f, h
<1>7. f[s] = h[s]
  BY <1>3, <1>5
<1>8. ASSUME NEW k \in s .. end - 1, f[k] = h[k] PROVE f[k + 1] = h[k + 1]
  <2>1. k + 1 \in s .. end /\ k + 1 # s /\ (k + 1) - 1 = k
    OBVIOUS
  <2>2. f[k + 1] = KeepIf(f[k], k, keep)
    BY <1>5, <2>1
  <2>3. h[k + 1] = KeepIf(h[k], k, keep)
    BY <1>3, <2>1
  <2>4. QED
    BY <1>8, <2>2, <2>3
<1>9. f[end] = h[end]
  <2>1. s \in Int /\ end \in Int /\ s <= end
    OBVIOUS
  <2> HIDE DEF Is
  <2>2. QED
    BY <2>1, <1>7, <1>8, SameLoopFrom
<1>10. QED
  BY <1>6, <1>9 DEF h, K

\* What is at d, where text has arrived, is text; the rest is as it was.
LEMMA KeptIsThere ==
  ASSUME NEW b \in Memory, NEW d \in Nat, NEW text \in Seq(0 .. 255), d + Len(text) <= Size
  PROVE  LET r == KeptState(b, d, text)
         IN  /\ r.at = d + Len(text)
             /\ r.buf \in Memory
             /\ Bytewise(r.buf, d, Len(text)) = text
             /\ \A a \in Address : ~ (a \in d .. d + Len(text) - 1) => r.buf[a] = b[a]
<1> DEFINE B == [a \in Address |-> IF a \in d .. d + Len(text) - 1 THEN text[a - d + 1] ELSE b[a]]
<1>1. KeptState(b, d, text).at = d + Len(text) /\ KeptState(b, d, text).buf = B
  BY DEF KeptState
<1>2. B \in Memory
  <2>1. ASSUME NEW a \in Address
        PROVE  (IF a \in d .. d + Len(text) - 1 THEN text[a - d + 1] ELSE b[a]) \in 0 .. 255
    <3>1. CASE a \in d .. d + Len(text) - 1
      <4>1. a - d + 1 \in 1 .. Len(text)
        BY <3>1
      <4>2. text[a - d + 1] \in 0 .. 255
        BY <4>1, ElementOfSeq
      <4>3. QED
        BY <3>1, <4>2
    <3>2. CASE ~ (a \in d .. d + Len(text) - 1)
      BY <3>2 DEF Memory
    <3>3. QED
      BY <3>1, <3>2
  <2>2. QED
    BY <2>1 DEF Memory
<1>3. Bytewise(B, d, Len(text)) = text
  <2>1. ASSUME NEW k \in 1 .. Len(text) PROVE B[d + k - 1] = text[k]
    <3>1. /\ d + k - 1 \in Address /\ d + k - 1 \in d .. d + Len(text) - 1
          /\ (d + k - 1) - d + 1 = k
      BY Addresses
    <3>2. QED
      BY <3>1
  <2> HIDE DEF B
  <2>2. text = [k \in 1 .. Len(text) |-> text[k]]
    OBVIOUS
  <2>3. QED
    BY <2>1, <2>2 DEF Bytewise
<1>4. \A a \in Address : ~ (a \in d .. d + Len(text) - 1) => B[a] = b[a]
  OBVIOUS
<1> HIDE DEF B
<1>5. QED
  BY <1>1, <1>2, <1>3, <1>4

-----------------------------------------------------------------------------
(***************************************************************************)
(* What the functions on blocks do.                                        *)
(***************************************************************************)
\* r is b with the n bytes at d replaced by those at s of b.
Arrives(r, b, d, s, n) ==
  /\ r \in Memory
  /\ Bytewise(r, d, n) = Bytewise(b, s, n)
  /\ \A a \in Address : ~ (a \in d .. d + n - 1) => r[a] = b[a]

LEMMA ShiftedArrives ==
  ASSUME NEW b \in Memory, NEW d \in Nat, NEW s \in Nat, NEW n \in Nat,
         d + n <= Size, s + n <= Size
  PROVE  Arrives(Shifted(b, d, s, n), b, d, s, n)
<1> DEFINE r == [a \in Address |-> IF a \in d .. d + n - 1 THEN b[s + (a - d)] ELSE b[a]]
<1>1. r \in Memory
  <2>1. ASSUME NEW a \in Address
        PROVE  (IF a \in d .. d + n - 1 THEN b[s + (a - d)] ELSE b[a]) \in 0 .. 255
    <3>1. a \in d .. d + n - 1 => s + (a - d) \in Address
      BY Addresses
    <3>2. QED
      BY <3>1 DEF Memory
  <2>2. QED
    BY <2>1 DEF Memory
<1>2. Bytewise(r, d, n) = Bytewise(b, s, n)
  <2>1. ASSUME NEW k \in 1 .. n PROVE r[d + k - 1] = b[s + k - 1]
    <3>1. /\ d + k - 1 \in Address /\ d + k - 1 \in d .. d + n - 1
          /\ s + ((d + k - 1) - d) = s + k - 1
      BY Addresses
    <3>2. QED
      BY <3>1
  <2> HIDE DEF r
  <2>2. QED
    BY <2>1 DEF Bytewise
<1>3. \A a \in Address : ~ (a \in d .. d + n - 1) => r[a] = b[a]
  OBVIOUS
<1>4. Shifted(b, d, s, n) = r
  BY DEF Shifted
<1> HIDE DEF r
<1>5. QED
  BY <1>1, <1>2, <1>3, <1>4 DEF Arrives

LEMMA ForwardArrives ==
  ASSUME NEW b \in Memory, NEW d \in Nat, NEW s \in Nat, NEW n \in Nat,
         d + n <= Size, s + n <= Size, d <= s \/ d >= s + n
  PROVE  Arrives(Forward(b, d, s, n), b, d, s, n)
BY ForwardShifts, ShiftedArrives

LEMMA BackwardArrives ==
  ASSUME NEW b \in Memory, NEW d \in Nat, NEW s \in Nat, NEW n \in Nat,
         d + n <= Size, s + n <= Size, d >= s \/ d + n <= s
  PROVE  Arrives(Backward(b, d, s, n), b, d, s, n)
<1>1. ShiftedEnd(b, d, s, n, n) = Shifted(b, d, s, n)
  <2>1. d + n - n = d
    OBVIOUS
  <2>2. QED
    BY <2>1 DEF ShiftedEnd, Shifted
<1>2. QED
  BY <1>1, BackwardShifts, ShiftedArrives

LEMMA MemmoveArrives ==
  ASSUME NEW b \in Memory, NEW d \in Nat, NEW s \in Nat, NEW n \in Nat,
         d + n <= Size, s + n <= Size
  PROVE  Arrives(memmove(b, d, s, n), b, d, s, n)
<1>0. Size \in Nat
  BY Addresses
<1>1. CASE d < s \/ d >= s + n
  <2>1. memmove(b, d, s, n) = Forward(b, d, s, n)
    BY <1>1 DEF memmove
  <2>2. d <= s \/ d >= s + n
    BY <1>1
  <2>3. QED
    BY <2>1, <2>2, ForwardArrives
<1>2. CASE ~ (d < s \/ d >= s + n) /\ d > s
  <2>1. memmove(b, d, s, n) = Backward(b, d, s, n)
    BY <1>2 DEF memmove
  <2>2. d >= s \/ d + n <= s
    BY <1>2
  <2>3. QED
    BY <2>1, <2>2, BackwardArrives
<1>3. CASE d = s /\ ~ (d >= s + n)
  <2>1. memmove(b, d, s, n) = b
    BY <1>3 DEF memmove
  <2>2. QED
    BY <2>1, <1>3 DEF Arrives
<1>4. QED
  BY <1>1, <1>2, <1>3

LEMMA OpIsByte ==
  ASSUME NEW x \in 0 .. 255, NEW y \in 0 .. 255
  PROVE  Op(x, y) \in 0 .. 255
BY DEF Op

\* r is b with Op of the n bytes at s and at t put at d.
OpArrives(r, b, d, s, t, n) ==
  /\ r \in Memory
  /\ \A k \in 0 .. n - 1 : r[d + k] = Op(b[s + k], b[t + k])
  /\ \A a \in Address : ~ (a \in d .. d + n - 1) => r[a] = b[a]

LEMMA TransformArrives ==
  ASSUME NEW b \in Memory, NEW d \in Nat, NEW s \in Nat, NEW n \in Nat, NEW t \in Nat,
         d + n <= Size, s + n <= Size, t + n <= Size
  PROVE  OpArrives(Transformed(b, d, s, t, n), b, d, s, t, n)
<1> DEFINE r == [a \in Address |->
                   IF a \in d .. d + n - 1 THEN Op(b[s + (a - d)], b[t + (a - d)]) ELSE b[a]]
<1>1. r \in Memory
  <2>1. ASSUME NEW a \in Address
        PROVE  (IF a \in d .. d + n - 1 THEN Op(b[s + (a - d)], b[t + (a - d)]) ELSE b[a])
                 \in 0 .. 255
    <3>1. CASE a \in d .. d + n - 1
      <4>1. s + (a - d) \in Address /\ t + (a - d) \in Address
        BY <3>1, Addresses
      <4>2. b[s + (a - d)] \in 0 .. 255 /\ b[t + (a - d)] \in 0 .. 255
        BY <4>1 DEF Memory
      <4>3. Op(b[s + (a - d)], b[t + (a - d)]) \in 0 .. 255
        BY <4>2, OpIsByte
      <4>4. QED
        BY <3>1, <4>3
    <3>2. CASE ~ (a \in d .. d + n - 1)
      BY <3>2 DEF Memory
    <3>3. QED
      BY <3>1, <3>2
  <2>2. QED
    BY <2>1 DEF Memory
<1>2. ASSUME NEW k \in 0 .. n - 1 PROVE r[d + k] = Op(b[s + k], b[t + k])
  <2>1. d + k \in Address /\ d + k \in d .. d + n - 1 /\ (d + k) - d = k
    BY Addresses
  <2>2. QED
    BY <2>1
<1>3. \A a \in Address : ~ (a \in d .. d + n - 1) => r[a] = b[a]
  OBVIOUS
<1>4. Transformed(b, d, s, t, n) = r
  BY DEF Transformed
<1> HIDE DEF r
<1>5. QED
  BY <1>1, <1>2, <1>3, <1>4 DEF OpArrives

LEMMA TransformArrives1 ==
  ASSUME NEW b \in Memory, NEW d \in Nat, NEW s \in Nat, NEW n \in Nat,
         d + n <= Size, s + n <= Size
  PROVE  LET r == Transformed1(b, d, s, n)
         IN  /\ r \in Memory
             /\ \A k \in 0 .. n - 1 : r[d + k] = Op(b[s + k], 0)
             /\ \A a \in Address : ~ (a \in d .. d + n - 1) => r[a] = b[a]
<1> DEFINE r == [a \in Address |-> IF a \in d .. d + n - 1 THEN Op(b[s + (a - d)], 0) ELSE b[a]]
<1>1. r \in Memory
  <2>1. ASSUME NEW a \in Address
        PROVE  (IF a \in d .. d + n - 1 THEN Op(b[s + (a - d)], 0) ELSE b[a]) \in 0 .. 255
    <3>1. CASE a \in d .. d + n - 1
      <4>1. s + (a - d) \in Address
        BY <3>1, Addresses
      <4>2. b[s + (a - d)] \in 0 .. 255
        BY <4>1 DEF Memory
      <4>3. Op(b[s + (a - d)], 0) \in 0 .. 255
        <5> DEFINE v == b[s + (a - d)]
        <5>1. v \in 0 .. 255 /\ 0 \in 0 .. 255
          BY <4>2
        <5> HIDE DEF v
        <5>2. Op(v, 0) \in 0 .. 255
          BY <5>1, OpIsByte
        <5>3. QED
          BY <5>2 DEF v
      <4>4. QED
        BY <3>1, <4>3
    <3>2. CASE ~ (a \in d .. d + n - 1)
      BY <3>2 DEF Memory
    <3>3. QED
      BY <3>1, <3>2
  <2>2. QED
    BY <2>1 DEF Memory
<1>2. ASSUME NEW k \in 0 .. n - 1 PROVE r[d + k] = Op(b[s + k], 0)
  <2>1. d + k \in Address /\ d + k \in d .. d + n - 1 /\ (d + k) - d = k
    BY Addresses
  <2>2. QED
    BY <2>1
<1>3. \A a \in Address : ~ (a \in d .. d + n - 1) => r[a] = b[a]
  OBVIOUS
<1>4. Transformed1(b, d, s, n) = r
  BY DEF Transformed1
<1> HIDE DEF r
<1>5. QED
  BY <1>1, <1>2, <1>3, <1>4

\* r is what a function that keeps part of the n bytes at s has done to b.
Keeps(r, b, d, s, n, keep) ==
  /\ r.buf \in Memory
  /\ r.at \in Nat /\ r.at - d \in 0 .. n
  /\ Bytewise(r.buf, d, r.at - d) = Chosen(Bytewise(b, s, n), keep)
  /\ \A a \in Address : ~ (a \in d .. r.at - 1) => r.buf[a] = b[a]

LEMMA CopyIfKeeps ==
  ASSUME NEW b \in Memory, NEW d \in Nat, NEW s \in Nat, NEW n \in Nat, NEW keep,
         d + n <= Size, s + n <= Size, d <= s \/ s + n <= d
  PROVE  Keeps(copy_if(b, d, s, s + n, keep), b, d, s, n, keep)
<1> DEFINE t == KeptText(b, s, n, keep)
<1>0. Size \in Nat
  BY Addresses
<1>1. t \in Seq(0 .. 255) /\ Len(t) \in 0 .. n
  BY KeptTextType
<1>2. copy_if(b, d, s, s + n, keep) = KeptState(b, d, t)
  <2>1. s + n \in Nat /\ (s + n) - s = n /\ s <= s + n
    OBVIOUS
  <2>2. Filter(b, d, s, s + n, keep) = KeptState(b, d, KeptText(b, s, (s + n) - s, keep))
    BY <2>1, FilterKeeps
  <2>3. QED
    BY <2>1, <2>2 DEF copy_if
<1>3. t = Chosen(Bytewise(b, s, n), keep)
  BY DEF KeptText
<1> HIDE DEF t
<1>4. d + Len(t) <= Size
  BY <1>0, <1>1
<1>5. LET r == KeptState(b, d, t)
      IN  /\ r.at = d + Len(t)
          /\ r.buf \in Memory
          /\ Bytewise(r.buf, d, Len(t)) = t
          /\ \A a \in Address : ~ (a \in d .. d + Len(t) - 1) => r.buf[a] = b[a]
  BY <1>1, <1>4, KeptIsThere
<1>6. (d + Len(t)) - d = Len(t)
  BY <1>1
<1>7. QED
  BY <1>1, <1>2, <1>3, <1>5, <1>6 DEF Keeps

LEMMA AllKept ==
  ASSUME NEW b \in Memory, NEW d \in Nat, NEW n \in Nat, d + n <= Size, NEW keep,
         \A a \in d .. d + n - 1 : b[a] \in keep
  PROVE  KeptText(b, d, n, keep) = Bytewise(b, d, n)
<1> DEFINE S == {k \in Nat : KeptText(b, d, k, keep) = Bytewise(b, d, k)}
<1>0. Size \in Nat
  BY Addresses
<1>1. 0 \in S
  <2>1. Bytewise(b, d, 0) = <<>>
    BY DEF Bytewise
  <2>2. KeptText(b, d, 0, keep) = <<>>
    BY KeptTextType
  <2>3. QED
    BY <2>1, <2>2
<1>2. ASSUME NEW k \in 0 .. n - 1, k \in S PROVE k + 1 \in S
  <2>1. k \in Nat /\ k + 1 \in Nat /\ d + k < Size /\ d + k \in d .. d + n - 1
    BY <1>0
  <2>2. KeptText(b, d, k + 1, keep) = Append(KeptText(b, d, k, keep), b[d + k])
    BY <2>1, KeptTextNext
  <2>3. Bytewise(b, d, k + 1) = Append(Bytewise(b, d, k), b[d + k])
    BY <2>1, BytewiseNext
  <2>4. KeptText(b, d, k, keep) = Bytewise(b, d, k)
    BY <1>2
  <2>5. QED
    BY <2>1, <2>2, <2>3, <2>4
<1> HIDE DEF S
<1>3. n \in S
  BY <1>1, <1>2, BoundedInduction
<1>4. QED
  BY <1>3 DEF S

\* k bytes from d on stay, the next does not.
LeadsKept(b, d, k, keep) == (\A a \in d .. d + k - 1 : b[a] \in keep) /\ b[d + k] \notin keep

\* Behind the first byte to go, the text kept is what was in front of it and what
\* is kept of the rest.
LEMMA KeptBehind ==
  ASSUME NEW b \in Memory, NEW d \in Nat, NEW n \in Nat, NEW k \in Nat, d + k + 1 + n <= Size,
         NEW keep, LeadsKept(b, d, k, keep)
  PROVE  KeptText(b, d, k + 1 + n, keep)
           = Bytewise(b, d, k) \o KeptText(b, d + k + 1, n, keep)
<1> DEFINE p == Bytewise(b, d, k)
           u(i) == KeptText(b, d + k + 1, i, keep)
           S == {i \in Nat : KeptText(b, d, k + 1 + i, keep) = p \o u(i)}
<1>0. Size \in Nat
  BY Addresses
<1>1. p \in Seq(0 .. 255)
  <2>1. d + k < Size
    BY <1>0
  <2>2. QED
    BY <2>1, BytewiseNext
<1>2. 0 \in S
  <2>1. d + k < Size /\ d + k <= Size /\ k + 1 + 0 = k + 1 /\ d + k + 1 \in Nat
        /\ (d + k + 1) + 0 <= Size
    BY <1>0
  <2>2. KeptText(b, d, k + 1, keep) = KeptText(b, d, k, keep)
    BY <2>1, KeptTextNext DEF LeadsKept
  <2>3. KeptText(b, d, k, keep) = p
    BY <2>1, AllKept DEF LeadsKept
  <2>4. u(0) = <<>>
    BY <2>1, KeptTextType
  <2> HIDE DEF p, u
  <2>5. p \o u(0) = p
    BY <1>1, <2>4
  <2>6. QED
    BY <2>1, <2>2, <2>3, <2>5
<1>3. ASSUME NEW i \in 0 .. n - 1, i \in S PROVE i + 1 \in S
  <2> DEFINE x == b[(d + k + 1) + i]
             j == k + 1 + i
             q == d + k + 1
  <2>1. /\ i \in Nat /\ i + 1 \in Nat /\ j \in Nat /\ j + 1 = k + 1 + (i + 1)
        /\ q \in Nat /\ d + j < Size /\ d + j = q + i /\ q + i < Size /\ q + i <= Size
    BY <1>0
  <2>2. KeptText(b, d, j + 1, keep)
          = IF x \in keep THEN Append(KeptText(b, d, j, keep), x) ELSE KeptText(b, d, j, keep)
    <3> HIDE DEF j, q
    <3>1. KeptText(b, d, j + 1, keep)
            = IF b[d + j] \in keep THEN Append(KeptText(b, d, j, keep), b[d + j])
              ELSE KeptText(b, d, j, keep)
      BY <2>1, KeptTextNext
    <3>2. d + j = (d + k + 1) + i
      BY <2>1 DEF q
    <3>3. QED
      BY <3>1, <3>2
  <2>3. u(i + 1) = IF x \in keep THEN Append(u(i), x) ELSE u(i)
    <3> HIDE DEF j
    <3>1. KeptText(b, q, i + 1, keep)
            = IF b[q + i] \in keep THEN Append(KeptText(b, q, i, keep), b[q + i])
              ELSE KeptText(b, q, i, keep)
      <4> HIDE DEF q
      <4>1. QED
        BY <2>1, KeptTextNext
    <3>2. QED
      BY <3>1
  <2>4. KeptText(b, d, j, keep) = p \o u(i)
    BY <1>3
  <2>5. u(i) \in Seq(0 .. 255)
    <3> HIDE DEF j
    <3>1. KeptText(b, q, i, keep) \in Seq(0 .. 255)
      <4> HIDE DEF q
      <4>1. QED
        BY <2>1, KeptTextType
    <3>2. QED
      BY <3>1
  <2>6. x \in 0 .. 255
    <3>1. (d + k + 1) + i \in Address
      BY <2>1, Addresses
    <3>2. QED
      BY <3>1 DEF Memory
  <2>7. j + 1 = k + 1 + (i + 1) /\ i + 1 \in Nat
    BY <2>1
  <2> HIDE DEF p, u, x, j
  <2>8. Append(p \o u(i), x) = p \o Append(u(i), x)
    <3> DEFINE V == 0 .. 255
               t == u(i)
    <3>1. p \in Seq(V) /\ t \in Seq(V) /\ x \in V
      BY <1>1, <2>5, <2>6
    <3> HIDE DEF V, t
    <3>2. p \o t \in Seq(V) /\ Len(p \o t) = Len(p) + Len(t)
      BY <3>1, ConcatProperties
    <3>3. /\ Append(p \o t, x) \in Seq(V) /\ Len(Append(p \o t, x)) = Len(p) + Len(t) + 1
          /\ Append(t, x) \in Seq(V) /\ Len(Append(t, x)) = Len(t) + 1
      BY <3>1, <3>2, AppendProperties
    <3>4. p \o Append(t, x) \in Seq(V) /\ Len(p \o Append(t, x)) = Len(p) + Len(t) + 1
      BY <3>1, <3>3, ConcatProperties
    <3>5. ASSUME NEW l \in 1 .. Len(p) + Len(t) + 1
          PROVE  Append(p \o t, x)[l] = (p \o Append(t, x))[l]
      BY <3>1, <3>2, <3>3
    <3>6. Append(p \o t, x) = p \o Append(t, x)
      BY <3>3, <3>4, <3>5, SeqEqual
    <3>7. QED
      BY <3>6 DEF t
  <2>9. KeptText(b, d, j + 1, keep) = p \o u(i + 1)
    BY <2>2, <2>3, <2>4, <2>8
  <2>10. QED
    BY <2>7, <2>9
<1> HIDE DEF S
<1>4. n \in S
  BY <1>2, <1>3, BoundedInduction
<1>5. QED
  BY <1>4 DEF S

LEMMA RemoveKeeps ==
  ASSUME NEW b \in Memory, NEW d \in Nat, NEW n \in Nat, d + n <= Size, NEW set
  PROVE  Keeps(remove_if(b, d, d + n, set), b, d, d, n, 0 .. 255 \ set)
<1> DEFINE keep == 0 .. 255 \ set
           stops == {a \in Address : b[a] \in set}
           first == Scan(stops, d, d + n)
<1>0. Size \in Nat
  BY Addresses
<1>1. first \in Int /\ FirstStop(first, d, stops, d + n)
  BY ScanFinds
<1>2. remove_if(b, d, d + n, set)
        = IF first = d + n THEN [buf |-> b, at |-> first]
          ELSE Filter(b, first, first + 1, d + n, keep)
  BY DEF remove_if, find_if
<1>3. \A a \in Address : a \notin stops => b[a] \in keep
  BY DEF Memory
<1> HIDE DEF first
<1>4. \A a \in d .. first - 1 : b[a] \in keep
  <2>1. \A a \in d .. first - 1 : a \in Address /\ a \notin stops
    BY <1>0, <1>1, Addresses DEF FirstStop
  <2>2. QED
    BY <1>3, <2>1
<1>5. first \in d .. d + n
  BY <1>1 DEF FirstStop
<1>6. CASE first = d + n
  <2>1. KeptText(b, d, n, keep) = Bytewise(b, d, n)
    BY <1>4, <1>6, AllKept
  <2>2. (d + n) - d = n /\ n \in 0 .. n
    OBVIOUS
  <2>3. QED
    BY <1>2, <1>6, <2>1, <2>2 DEF Keeps, KeptText
<1>7. CASE first # d + n
  <2> DEFINE k == first - d
             j == n - k - 1
             u == KeptText(b, first + 1, j, keep)
             p == Bytewise(b, d, k)
             r == KeptState(b, first, u)
  <2>1. /\ k \in Nat /\ j \in Nat /\ first = d + k /\ k + 1 + j = n /\ first \in Nat
        /\ d + k + 1 + j <= Size /\ first + 1 \in Nat /\ (first + 1) + j = d + n
    BY <1>5, <1>7, <1>0
  <2>2. b[first] \notin keep /\ first \in Address
    BY <1>1, <1>7 DEF FirstStop
  <2>3. Filter(b, first, first + 1, d + n, keep) = r
    <3>1. (d + n) - (first + 1) = j /\ first + 1 <= d + n /\ d + n \in Nat /\ first <= first + 1
          /\ first + ((d + n) - (first + 1)) <= Size
      BY <1>0, <2>1
    <3> HIDE DEF j
    <3>2. Filter(b, first, first + 1, d + n, keep)
            = KeptState(b, first, KeptText(b, first + 1, (d + n) - (first + 1), keep))
      BY <2>1, <3>1, FilterKeeps
    <3>3. QED
      BY <3>1, <3>2
  <2>4. Chosen(Bytewise(b, d, n), keep) = p \o u
    <3>1. \A a \in d .. d + k - 1 : b[a] \in keep
      <4>1. d + k - 1 = first - 1
        BY <2>1
      <4> HIDE DEF k, keep
      <4>2. QED
        BY <4>1, <1>4
    <3>2. b[d + k] \notin keep
      BY <2>1, <2>2
    <3>3. d + k + 1 = first + 1
      BY <2>1
    <3> HIDE DEF k, j, keep
    <3>4. KeptText(b, d, k + 1 + j, keep) = Bytewise(b, d, k) \o KeptText(b, d + k + 1, j, keep)
      <4>1. LeadsKept(b, d, k, keep)
        BY <3>1, <3>2 DEF LeadsKept
      <4>2. QED
        BY <2>1, <4>1, KeptBehind
    <3>5. QED
      BY <2>1, <3>3, <3>4 DEF KeptText
  <2>5. u \in Seq(0 .. 255) /\ Len(u) \in 0 .. j
    <3>1. (first + 1) + j <= Size
      BY <2>1
    <3> HIDE DEF j
    <3>2. QED
      BY <2>1, <3>1, KeptTextType
  <2>6. p \in Seq(0 .. 255) /\ Len(p) = k /\ \A i \in 1 .. k : p[i] = b[d + i - 1]
    <3>1. k \in Nat /\ d + k <= Size
      BY <2>1, <1>0
    <3> HIDE DEF k
    <3>2. Spells(p, b, d, k)
      BY <3>1, BytewiseSpells
    <3>3. QED
      BY <3>2 DEF Spells
  <2> HIDE DEF u, p
  <2>7. /\ r.at = first + Len(u) /\ r.buf \in Memory
        /\ Bytewise(r.buf, first, Len(u)) = u
        /\ \A a \in Address : ~ (a \in first .. first + Len(u) - 1) => r.buf[a] = b[a]
    <3>1. first + Len(u) <= Size
      BY <1>0, <2>1, <2>5
    <3>2. QED
      BY <2>1, <2>5, <3>1, KeptIsThere
  <2> HIDE DEF r
  <2>8. r.at - d = k + Len(u) /\ r.at - d \in 0 .. n /\ Len(p \o u) = k + Len(u) /\ p \o u \in Seq(0 .. 255)
    <3>1. r.at - d = k + Len(u) /\ r.at - d \in 0 .. n
      <4> DEFINE l == Len(u)
      <4>1. /\ r.at = first + l /\ l \in Nat /\ l <= j
            /\ k \in Nat /\ j \in Nat /\ first = d + k /\ k + 1 + j = n
        BY <2>1, <2>5, <2>7
      <4> HIDE DEF l, k, j
      <4>2. QED
        BY <4>1 DEF l
    <3>2. p \o u \in Seq(0 .. 255) /\ Len(p \o u) = Len(p) + Len(u)
      BY ZenonT(60), <2>5, <2>6, ConcatProperties
    <3>3. QED
      BY <2>6, <3>1, <3>2
  <2>9. Bytewise(r.buf, d, r.at - d) = p \o u
    <3>1. ASSUME NEW i \in 1 .. k + Len(u) PROVE r.buf[d + i - 1] = (p \o u)[i]
      <4>1. CASE i <= k
        <5>1. i \in 1 .. k /\ d + i - 1 \in Address /\ ~ (d + i - 1 \in first .. first + Len(u) - 1)
          BY <1>0, <2>1, <2>5, <4>1, Addresses
        <5>2. (p \o u)[i] = p[i]
          BY <2>5, <2>6, <4>1, <5>1
        <5>3. QED
          BY <2>6, <2>7, <5>1, <5>2
      <4>2. CASE ~ (i <= k)
        <5>1. i - k \in 1 .. Len(u) /\ first + (i - k) - 1 = d + i - 1
          BY <2>1, <2>5, <4>2
        <5>2. Bytewise(r.buf, first, Len(u))[i - k] = r.buf[first + (i - k) - 1]
          BY <5>1 DEF Bytewise
        <5>3. (p \o u)[i] = u[i - k]
          BY SMTT(60), <2>5, <2>6, <4>2, <5>1
        <5>4. QED
          BY <2>7, <5>1, <5>2, <5>3
      <4>3. QED
        BY <4>1, <4>2
    <3>2. p \o u = [i \in 1 .. k + Len(u) |-> (p \o u)[i]]
      <4> DEFINE w == p \o u
                 l == k + Len(u)
      <4>1. w \in Seq(0 .. 255) /\ Len(w) = l
        BY <2>8
      <4> HIDE DEF w, l
      <4>2. w = [i \in 1 .. l |-> w[i]]
        BY <4>1
      <4>3. QED
        BY <4>2 DEF w, l
    <3>3. QED
      BY <2>8, <3>1, <3>2 DEF Bytewise
  <2>10. \A a \in Address : ~ (a \in d .. r.at - 1) => r.buf[a] = b[a]
    BY <2>1, <2>5, <2>7
  <2>11. remove_if(b, d, d + n, set) = r
    BY <1>2, <1>7, <2>3
  <2>12. r.at \in Nat
    <3>1. Len(u) \in Nat
      BY <2>1, <2>5
    <3>2. first + Len(u) \in Nat
      BY <2>1, <3>1
    <3>3. QED
      BY <2>7, <3>2
  <2>13. QED
    BY <2>4, <2>7, <2>8, <2>9, <2>10, <2>11, <2>12 DEF Keeps
<1>8. QED
  BY <1>6, <1>7

-----------------------------------------------------------------------------
(***************************************************************************)
(* What the functions on strings do.                                       *)
(***************************************************************************)
\* z is the terminator of the string at p.
EndsAt(b, p, z) == z \in p .. Size - 1 /\ b[z] = 0 /\ \A a \in p .. z - 1 : b[a] # 0

LEMMA StringEnds ==
  ASSUME NEW b \in Memory, NEW p \in Nat, \E a \in p .. Size - 1 : b[a] = 0
  PROVE  /\ strlen(b, p) \in Nat
         /\ p + strlen(b, p) \in Address
         /\ EndsAt(b, p, p + strlen(b, p))
<1> DEFINE stops == {a \in Address : b[a] = 0}
           z == Scan(stops, p, Size)
<1>1. Size \in Nat
  BY Addresses
<1>2. PICK a \in p .. Size - 1 : b[a] = 0
  OBVIOUS
<1>3. a \in stops /\ p <= Size
  BY <1>1, <1>2, Addresses
<1>4. z \in Int /\ FirstStop(z, p, stops, Size)
  BY <1>1, <1>3, ScanFinds
<1>5. strlen(b, p) = z - p
  BY DEF strlen
<1> HIDE DEF z
<1>6. z \in p .. Size /\ z # Size
  <2>1. z = Size => a \notin stops
    BY <1>1, <1>2, <1>4 DEF FirstStop
  <2>2. QED
    BY <1>3, <1>4, <2>1 DEF FirstStop
<1>7. z \in Address /\ b[z] = 0
  BY <1>4, <1>6 DEF FirstStop
<1>8. \A x \in p .. z - 1 : b[x] # 0
  <2>1. \A x \in p .. z - 1 : x \in Address /\ x \notin stops
    BY <1>1, <1>4, <1>6, Addresses DEF FirstStop
  <2>2. QED
    BY <2>1
<1>9. p + (z - p) = z /\ z - p \in Nat
  BY <1>6
<1>10. QED
  BY <1>1, <1>5, <1>6, <1>7, <1>8, <1>9 DEF EndsAt

LEMMA StringLength ==
  ASSUME NEW b \in Memory, NEW p \in Nat, NEW z, EndsAt(b, p, z)
  PROVE  strlen(b, p) = z - p /\ StringAt(b, p) = Bytewise(b, p, z - p)
<1>0. Size \in Nat
  BY Addresses
<1>1. z \in p .. Size - 1 /\ b[z] = 0
  BY DEF EndsAt
<1>2. /\ strlen(b, p) \in Nat
      /\ EndsAt(b, p, p + strlen(b, p))
  BY <1>1, StringEnds
<1>3. p + strlen(b, p) = z
  BY <1>0, <1>1, <1>2 DEF EndsAt
<1>4. strlen(b, p) = z - p
  BY <1>1, <1>2, <1>3
<1>5. QED
  BY <1>4 DEF StringAt

\* The copying loop after i rounds, when z is the terminator of the string at s.
CopyState(b, d, s, z, i) ==
  [buf |-> Shifted(b, d, s, IF i <= z - s THEN i ELSE z - s + 1),
   d |-> d + (IF i <= z - s THEN i ELSE z - s + 1),
   i |-> IF i <= z - s THEN i ELSE z - s, ended |-> i > z - s]
\* How many bytes it writes in n rounds
Extent(s, z, n) == IF z - s < n THEN z - s + 1 ELSE n

LEMMA CopyNext ==
  ASSUME NEW b \in Memory, NEW d \in Nat, NEW s \in Nat, NEW n \in Nat, NEW z \in Nat,
         EndsAt(b, s, z), d + Extent(s, z, n) <= Size,
         Disjoint(d, Extent(s, z, n), s, z - s + 1)
  PROVE  \A i \in 1 .. n : CopyChar(CopyState(b, d, s, z, i - 1), s + i - 1) = CopyState(b, d, s, z, i)
<1> SUFFICES ASSUME NEW i \in 1 .. n
             PROVE  CopyChar(CopyState(b, d, s, z, i - 1), s + i - 1) = CopyState(b, d, s, z, i)
  OBVIOUS
<1> DEFINE r == CopyState(b, d, s, z, i - 1)
<1>0. Size \in Nat /\ z \in s .. Size - 1 /\ b[z] = 0
  BY Addresses DEF EndsAt
<1>1. CASE i - 1 > z - s
  <2>1. r.ended
    BY <1>1 DEF CopyState
  <2>2. CopyChar(r, s + i - 1) = r
    BY <2>1 DEF CopyChar
  <2>3. r = CopyState(b, d, s, z, i)
    <3>1. ~ (i - 1 <= z - s) /\ ~ (i <= z - s) /\ i > z - s
      BY <1>0, <1>1
    <3>2. QED
      BY <1>1, <3>1 DEF CopyState
  <2>4. QED
    BY <2>2, <2>3
<1>2. CASE ~ (i - 1 > z - s)
  <2> DEFINE y == s + i - 1
             B == Shifted(b, d, s, i - 1)
             C == Shifted(b, d, s, i)
  <2>1. i - 1 <= z - s /\ i \in 1 .. i /\ i \in Nat /\ d + i <= Size /\ s + i <= Size
    BY <1>0, <1>2 DEF Extent
  <2>2. d <= s \/ d >= s + i
    BY <1>0, <2>1 DEF Extent, Disjoint
  <2>3. Moved(B, d + i - 1, y) = C
    BY ZenonT(60), <2>1, <2>2, MoveForward
  <2>4. B[y] = b[y]
    <3>1. y \in Address /\ ~ (y \in d .. d + (i - 1) - 1)
      BY <2>1, <2>2, Addresses
    <3>2. QED
      BY <3>1 DEF Shifted
  <2>5. b[y] = 0 <=> i > z - s
    <3>1. CASE i > z - s
      <4>1. y = z
        BY <1>0, <2>1, <3>1
      <4>2. QED
        BY <1>0, <3>1, <4>1
    <3>2. CASE ~ (i > z - s)
      <4>1. y \in s .. z - 1
        BY <1>0, <2>1, <3>2
      <4>2. QED
        BY <3>2, <4>1 DEF EndsAt
    <3>3. QED
      BY <3>1, <3>2
  <2>6. r = [buf |-> B, d |-> d + (i - 1), i |-> i - 1, ended |-> FALSE]
    <3> DEFINE j == i - 1
    <3>1. j <= z - s /\ (j > z - s) = FALSE
      BY <1>0, <1>2, <2>1
    <3> HIDE DEF j, r
    <3>2. CopyState(b, d, s, z, j) = [buf |-> Shifted(b, d, s, j), d |-> d + j, i |-> j, ended |-> FALSE]
      BY <3>1 DEF CopyState
    <3>3. QED
      BY <3>2 DEF j, r
  <2>7. d + (i - 1) = d + i - 1 /\ d + i - 1 + 1 = d + i /\ i - 1 + 1 = i
    OBVIOUS
  <2> HIDE DEF r, B, C, y
  <2>8. CopyChar(r, y) = [buf |-> C, d |-> d + i, i |-> IF i > z - s THEN i - 1 ELSE i,
                          ended |-> i > z - s]
    BY <2>3, <2>4, <2>5, <2>6, <2>7 DEF CopyChar
  <2>9. CopyState(b, d, s, z, i) = [buf |-> C, d |-> d + i, i |-> IF i > z - s THEN i - 1 ELSE i,
                                    ended |-> i > z - s]
    <3>1. CASE i > z - s
      <4>1. ~ (i <= z - s) /\ z - s + 1 = i /\ z - s = i - 1
        BY <1>0, <2>1, <3>1
      <4>2. QED
        BY <3>1, <4>1 DEF CopyState, C
    <3>2. CASE ~ (i > z - s)
      <4>1. i <= z - s
        BY <1>0, <3>2
      <4>2. QED
        BY <3>2, <4>1 DEF CopyState, C
    <3>3. QED
      BY <3>1, <3>2
  <2>10. QED
    BY <2>8, <2>9 DEF r, y
<1>3. QED
  BY <1>1, <1>2

LEMMA CopiedIs ==
  ASSUME NEW b \in Memory, NEW d \in Nat, NEW s \in Nat, NEW n \in Nat, NEW z \in Nat,
         EndsAt(b, s, z), d + Extent(s, z, n) <= Size,
         Disjoint(d, Extent(s, z, n), s, z - s + 1)
  PROVE  Copied(b, d, s, n) = CopyState(b, d, s, z, n)
<1>0. \A i \in 1 .. n : CopyChar(CopyState(b, d, s, z, i - 1), s + i - 1) = CopyState(b, d, s, z, i)
  BY CopyNext
<1> DEFINE Is(g) == g = [i \in 0 .. n |-> IF i = 0 THEN [buf |-> b, d |-> d, i |-> 0, ended |-> FALSE]
                                          ELSE CopyChar(g[i - 1], s + i - 1)]
           f == CHOOSE g : Is(g)
           h == [i \in 0 .. n |-> CopyState(b, d, s, z, i)]
<1>1. CopyState(b, d, s, z, 0) = [buf |-> b, d |-> d, i |-> 0, ended |-> FALSE]
  <2>1. Size \in Nat /\ z \in s .. Size - 1
    BY Addresses DEF EndsAt
  <2>2. 0 <= z - s /\ (0 > z - s) = FALSE /\ d + 0 = d
    BY <2>1
  <2>3. Shifted(b, d, s, 0) = b
    <3>1. \A a \in Address : ~ (a \in d .. d + 0 - 1)
      BY Addresses
    <3>2. b = [a \in Address |-> b[a]]
      BY DEF Memory
    <3>3. QED
      BY <3>1, <3>2 DEF Shifted
  <2>4. QED
    BY <2>2, <2>3 DEF CopyState
<1>2. ASSUME NEW i \in 0 .. n
      PROVE  h[i] = IF i = 0 THEN [buf |-> b, d |-> d, i |-> 0, ended |-> FALSE] ELSE CopyChar(h[i - 1], s + i - 1)
  <2>1. CASE i = 0
    BY <1>1, <2>1
  <2>2. CASE i # 0
    <3>1. i \in 1 .. n /\ i - 1 \in 0 .. n
      BY <2>2
    <3>2. h[i] = CopyState(b, d, s, z, i) /\ h[i - 1] = CopyState(b, d, s, z, i - 1)
      BY <3>1
    <3> HIDE DEF h
    <3>3. CopyChar(CopyState(b, d, s, z, i - 1), s + i - 1) = CopyState(b, d, s, z, i)
      BY <3>1, <1>0
    <3>4. QED
      BY <2>2, <3>2, <3>3
  <2>3. QED
    BY <2>1, <2>2
<1>3. Is(h)
  <2> DEFINE h2 == [i \in 0 .. n |-> IF i = 0 THEN [buf |-> b, d |-> d, i |-> 0, ended |-> FALSE]
                                     ELSE CopyChar(h[i - 1], s + i - 1)]
  <2>1. h = [i \in 0 .. n |-> h[i]]
    OBVIOUS
  <2> HIDE DEF h
  <2>2. h = h2
    BY <1>2, <2>1
  <2>3. QED
    BY <2>2
<1>4. Is(f)
  <2> HIDE DEF h, Is
  <2>1. QED
    BY <1>3
<1>5. Copied(b, d, s, n) = f[n]
  BY DEF Copied
<1> HIDE DEF f, h
<1>6. f[0] = h[0]
  <2>1. 0 \in 0 .. n
    OBVIOUS
  <2>2. f[0] = [buf |-> b, d |-> d, i |-> 0, ended |-> FALSE]
    BY <1>4, <2>1
  <2>3. h[0] = [buf |-> b, d |-> d, i |-> 0, ended |-> FALSE]
    BY <1>2, <2>1
  <2>4. QED
    BY <2>2, <2>3
<1>7. ASSUME NEW k \in 0 .. n - 1, f[k] = h[k] PROVE f[k + 1] = h[k + 1]
  <2>1. k + 1 \in 0 .. n /\ k + 1 # 0 /\ (k + 1) - 1 = k
    OBVIOUS
  <2>2. f[k + 1] = CopyChar(f[k], s + (k + 1) - 1)
    BY <1>4, <2>1
  <2>3. h[k + 1] = CopyChar(h[k], s + (k + 1) - 1)
    BY <1>2, <2>1
  <2>4. QED
    BY <1>7, <2>2, <2>3
<1>8. f[n] = h[n]
  BY <1>6, <1>7, SameLoop
<1>9. QED
  BY <1>5, <1>8 DEF h

\* The n bytes at q in r are those at p in b.
SameBytes(r, q, b, p, n) == \A k \in 0 .. n - 1 : r[q + k] = b[p + k]

LEMMA BytewiseEqual ==
  ASSUME NEW b \in Memory, NEW p \in Nat, NEW r \in Memory, NEW q \in Nat, NEW n \in Nat,
         SameBytes(r, q, b, p, n)
  PROVE  Bytewise(r, q, n) = Bytewise(b, p, n)
<1>1. ASSUME NEW k \in 1 .. n PROVE r[q + k - 1] = b[p + k - 1]
  <2>1. k - 1 \in 0 .. n - 1 /\ q + k - 1 = q + (k - 1) /\ p + k - 1 = p + (k - 1)
    OBVIOUS
  <2>2. QED
    BY <2>1 DEF SameBytes
<1>2. QED
  BY <1>1 DEF Bytewise

LEMMA BytewiseSplit ==
  ASSUME NEW r \in Memory, NEW d \in Nat, NEW i \in Nat, NEW j \in Nat, d + i + j <= Size
  PROVE  Bytewise(r, d, i + j) = Bytewise(r, d, i) \o Bytewise(r, d + i, j)
<1> DEFINE V == 0 .. 255
           t == Bytewise(r, d, i + j)
           u == Bytewise(r, d, i)
           v == Bytewise(r, d + i, j)
<1>0. Size \in Nat
  BY Addresses
<1>1. t \in Seq(V) /\ Len(t) = i + j /\ \A k \in 1 .. i + j : t[k] = r[d + k - 1]
  <2>1. i + j \in Nat /\ d + (i + j) <= Size
    BY <1>0
  <2>2. Spells(t, r, d, i + j)
    BY <2>1, BytewiseSpells
  <2>3. QED
    BY <2>2 DEF Spells
<1>2. u \in Seq(V) /\ Len(u) = i /\ \A k \in 1 .. i : u[k] = r[d + k - 1]
  <2>1. d + i <= Size
    BY <1>0
  <2>2. Spells(u, r, d, i)
    BY <2>1, BytewiseSpells
  <2>3. QED
    BY <2>2 DEF Spells
<1>3. v \in Seq(V) /\ Len(v) = j /\ \A k \in 1 .. j : v[k] = r[(d + i) + k - 1]
  <2> DEFINE q == d + i
  <2>1. q \in Nat /\ q + j <= Size
    BY <1>0
  <2> HIDE DEF q
  <2>2. /\ Bytewise(r, q, j) \in Seq(V) /\ Len(Bytewise(r, q, j)) = j
        /\ \A k \in 1 .. j : Bytewise(r, q, j)[k] = r[q + k - 1]
    <3>1. Spells(Bytewise(r, q, j), r, q, j)
      BY <2>1, BytewiseSpells
    <3>2. QED
      BY <3>1 DEF Spells
  <2>3. QED
    BY <2>2 DEF q
<1> HIDE DEF V, t, u, v
<1>4. u \o v \in Seq(V) /\ Len(u \o v) = i + j
      /\ \A k \in 1 .. i + j : (u \o v)[k] = IF k <= i THEN u[k] ELSE v[k - i]
  BY ZenonT(60), <1>2, <1>3, ConcatProperties
<1>5. ASSUME NEW k \in 1 .. i + j PROVE t[k] = (u \o v)[k]
  <2>1. CASE k <= i
    <3>1. k \in 1 .. i
      BY <2>1
    <3>2. (u \o v)[k] = u[k]
      BY <1>4, <2>1
    <3>3. QED
      BY <1>1, <1>2, <3>1, <3>2
  <2>2. CASE ~ (k <= i)
    <3>1. k - i \in 1 .. j /\ (d + i) + (k - i) - 1 = d + k - 1
      BY <2>2
    <3>2. QED
      BY <1>1, <1>3, <1>4, <2>2, <3>1
  <2>3. QED
    BY <2>1, <2>2
<1>6. t = u \o v
  BY <1>1, <1>4, <1>5, SeqEqual
<1>7. QED
  BY <1>6 DEF t, u, v

\* Behind what is left of the string at d, up to e, come l characters of s.
Extends(r, b, d, e, s, l) ==
  /\ \A a \in d .. e - 1 : r[a] = b[a] /\ b[a] # 0
  /\ \A k \in 0 .. l - 1 : r[e + k] = b[s + k] /\ b[s + k] # 0
  /\ r[e + l] = 0

LEMMA ExtendedReads ==
  ASSUME NEW b \in Memory, NEW r \in Memory, NEW d \in Nat, NEW e \in Nat, NEW s \in Nat,
         NEW l \in Nat, d <= e, e + l < Size, s + l <= Size, Extends(r, b, d, e, s, l)
  PROVE  StringAt(r, d) = Bytewise(b, d, e - d) \o Bytewise(b, s, l)
<1>0. Size \in Nat
  BY Addresses
<1>1. EndsAt(r, d, e + l)
  <2>1. ASSUME NEW a \in d .. e + l - 1 PROVE r[a] # 0
    <3>1. CASE a < e
      BY <3>1 DEF Extends
    <3>2. CASE ~ (a < e)
      <4>1. a - e \in 0 .. l - 1 /\ e + (a - e) = a
        BY <3>2
      <4>2. r[e + (a - e)] = b[s + (a - e)] /\ b[s + (a - e)] # 0
        BY <4>1 DEF Extends
      <4>3. QED
        BY <4>1, <4>2
    <3>3. QED
      BY <3>1, <3>2
  <2>2. e + l \in d .. Size - 1
    BY <1>0
  <2>3. QED
    BY <2>1, <2>2 DEF EndsAt, Extends
<1>2. StringAt(r, d) = Bytewise(r, d, (e - d) + l)
  <2>1. (e + l) - d = (e - d) + l
    OBVIOUS
  <2>2. StringAt(r, d) = Bytewise(r, d, (e + l) - d)
    BY <1>1, StringLength
  <2>3. QED
    BY <2>1, <2>2
<1>3. Bytewise(r, d, (e - d) + l) = Bytewise(r, d, e - d) \o Bytewise(r, e, l)
  <2> DEFINE i == e - d
  <2>1. i \in Nat /\ d + i = e /\ d + i + l <= Size
    BY <1>0
  <2> HIDE DEF i
  <2>2. Bytewise(r, d, i + l) = Bytewise(r, d, i) \o Bytewise(r, d + i, l)
    BY SMTT(30), ZenonT(60), <2>1, BytewiseSplit
  <2>3. QED
    BY <2>1, <2>2 DEF i
<1>4. Bytewise(r, d, e - d) = Bytewise(b, d, e - d)
  <2> DEFINE i == e - d
  <2>1. i \in Nat
    OBVIOUS
  <2>2. \A k \in 0 .. i - 1 : d + k \in d .. e - 1
    OBVIOUS
  <2> HIDE DEF i
  <2>3. \A k \in 0 .. i - 1 : r[d + k] = b[d + k]
    BY <2>2 DEF Extends
  <2>4. Bytewise(r, d, i) = Bytewise(b, d, i)
    <3>1. SameBytes(r, d, b, d, i)
      BY <2>3 DEF SameBytes
    <3>2. QED
      BY <2>1, <3>1, BytewiseEqual
  <2>5. QED
    BY <2>4 DEF i
<1>5. Bytewise(r, e, l) = Bytewise(b, s, l)
  <2>1. SameBytes(r, e, b, s, l)
    BY DEF SameBytes, Extends
  <2>2. QED
    BY <2>1, BytewiseEqual
<1>6. QED
  BY <1>2, <1>3, <1>4, <1>5

LEMMA FirstIs ==
  ASSUME NEW V, NEW text \in Seq(V), NEW n \in Nat
  PROVE  /\ First(text, n) \in Seq(V)
         /\ Len(First(text, n)) = IF Len(text) <= n THEN Len(text) ELSE n
         /\ \A k \in 1 .. n : k <= Len(text) => First(text, n)[k] = text[k]
<1>1. CASE Len(text) <= n
  BY <1>1 DEF First
<1>2. CASE ~ (Len(text) <= n)
  <2>1. First(text, n) = SubSeq(text, 1, n) /\ n \in 0 .. Len(text)
    BY <1>2 DEF First
  <2>2. SubSeq(text, 1, n) \in Seq(V) /\ Len(SubSeq(text, 1, n)) = n
        /\ \A k \in 1 .. n : SubSeq(text, 1, n)[k] = text[k]
    BY <1>2
  <2>3. QED
    BY <1>2, <2>1, <2>2
<1>3. QED
  BY <1>1, <1>2

LEMMA FirstOfBytes ==
  ASSUME NEW b \in Memory, NEW s \in Nat, NEW n \in Nat, NEW k \in Nat, s + k <= Size
  PROVE  First(Bytewise(b, s, k), n) = Bytewise(b, s, IF k <= n THEN k ELSE n)
<1> DEFINE t == Bytewise(b, s, k)
           V == 0 .. 255
<1>0. Size \in Nat
  BY Addresses
<1>1. t \in Seq(V) /\ Len(t) = k /\ \A i \in 1 .. k : t[i] = b[s + i - 1]
  <2>1. Spells(t, b, s, k)
    BY BytewiseSpells
  <2>2. QED
    BY <2>1 DEF Spells
<1>2. CASE k <= n
  BY <1>1, <1>2 DEF First
<1>3. CASE ~ (k <= n)
  <2> DEFINE u == Bytewise(b, s, n)
  <2>1. u \in Seq(V) /\ Len(u) = n /\ \A i \in 1 .. n : u[i] = b[s + i - 1]
    <3>1. s + n <= Size
      BY <1>0, <1>3
    <3>2. Spells(u, b, s, n)
      BY <3>1, BytewiseSpells
    <3>3. QED
      BY <3>2 DEF Spells
  <2> HIDE DEF t, u, V
  <2>2. /\ First(t, n) \in Seq(V) /\ Len(First(t, n)) = n
        /\ \A i \in 1 .. n : First(t, n)[i] = t[i]
    <3>1. \A i \in 1 .. n : i <= Len(t)
      BY <1>1, <1>3
    <3>2. /\ First(t, n) \in Seq(V)
          /\ Len(First(t, n)) = IF Len(t) <= n THEN Len(t) ELSE n
          /\ \A i \in 1 .. n : i <= Len(t) => First(t, n)[i] = t[i]
      BY <1>1, FirstIs
    <3>3. QED
      BY <1>1, <1>3, <3>1, <3>2
  <2>3. First(t, n) = u
    <3>1. \A i \in 1 .. n : i \in 1 .. k
      BY <1>3
    <3>2. \A i \in 1 .. n : First(t, n)[i] = u[i]
      BY <1>1, <2>1, <2>2, <3>1
    <3>3. QED
      BY <2>1, <2>2, <3>2, SeqEqual
  <2>4. QED
    BY <1>3, <2>3 DEF t, u
<1>4. QED
  BY <1>2, <1>3

\* How many characters the copying loop counts
Counted(s, z, n) == IF z - s < n THEN z - s ELSE n

LEMMA CopiedBytes ==
  ASSUME NEW b \in Memory, NEW d \in Nat, NEW s \in Nat, NEW n \in Nat, NEW z \in Nat,
         EndsAt(b, s, z), d + Extent(s, z, n) <= Size,
         Disjoint(d, Extent(s, z, n), s, z - s + 1)
  PROVE  LET r == Copied(b, d, s, n)
             k == Extent(s, z, n)
         IN  /\ r.d = d + k /\ r.i = Counted(s, z, n)
             /\ r.buf \in Memory
             /\ \A j \in 0 .. k - 1 : r.buf[d + j] = b[s + j]
             /\ \A a \in Address : ~ (a \in d .. d + k - 1) => r.buf[a] = b[a]
<1> DEFINE k == Extent(s, z, n)
           r == Copied(b, d, s, n)
           x == Shifted(b, d, s, k)
<1>0. Size \in Nat /\ z \in s .. Size - 1
  BY Addresses DEF EndsAt
<1>1. r = CopyState(b, d, s, z, n)
  BY CopiedIs
<1>2. (IF n <= z - s THEN n ELSE z - s + 1) = k /\ (IF n <= z - s THEN n ELSE z - s) = Counted(s, z, n)
  BY <1>0 DEF Extent, Counted
<1>3. r.d = d + k /\ r.i = Counted(s, z, n) /\ r.buf = x
  BY <1>1, <1>2 DEF CopyState
<1>4. k \in Nat /\ s + k <= Size /\ d + k <= Size
  BY <1>0 DEF Extent
<1> HIDE DEF k, r
<1>5. Arrives(x, b, d, s, k)
  BY <1>4, ShiftedArrives
<1>6. ASSUME NEW j \in 0 .. k - 1 PROVE x[d + j] = b[s + j]
  <2>1. d + j \in Address /\ d + j \in d .. d + k - 1 /\ (d + j) - d = j
    BY <1>0, <1>4, Addresses
  <2>2. x[d + j] = b[s + ((d + j) - d)]
    BY <2>1 DEF Shifted
  <2>3. QED
    BY <2>1, <2>2
<1> HIDE DEF x
<1>7. QED
  BY <1>3, <1>5, <1>6 DEF Arrives, k, r

\* In r the string at d is text; outside lo .. hi, r is b.
Reads(r, b, d, text, lo, hi) ==
  /\ r \in Memory
  /\ StringAt(r, d) = text
  /\ \A a \in Address : ~ (a \in lo .. hi) => r[a] = b[a]

\* No string ends between d and e.
Runs(b, d, e) == d <= e /\ \A a \in d .. e - 1 : b[a] # 0

\* strcpy and strcat: from e on, in the string at d
LEMMA StrcpyExtends ==
  ASSUME NEW b \in Memory, NEW d \in Nat, NEW e \in Nat, NEW s \in Nat, NEW z \in Nat,
         EndsAt(b, s, z), Runs(b, d, e),
         e + (z - s) + 1 <= Size, Disjoint(e, z - s + 1, s, z - s + 1)
  PROVE  Reads(strcpy(b, e, s), b, d, Bytewise(b, d, e - d) \o Bytewise(b, s, z - s), e, e + (z - s))
<1> DEFINE r == strcpy(b, e, s)
           l == z - s
           c == Copied(b, e, s, Size)
<1>0. /\ Size \in Nat /\ z \in s .. Size - 1 /\ b[z] = 0
      /\ d <= e /\ \A a \in d .. e - 1 : b[a] # 0
  BY Addresses DEF EndsAt, Runs
<1>1. Extent(s, z, Size) = z - s + 1
  BY <1>0 DEF Extent
<1>2. l \in Nat /\ e + l < Size /\ s + l <= Size /\ s + l = z /\ l + 1 = z - s + 1
  BY <1>0
<1>3. /\ c.buf \in Memory
      /\ \A j \in 0 .. l : c.buf[e + j] = b[s + j]
      /\ \A a \in Address : ~ (a \in e .. e + l) => c.buf[a] = b[a]
  <2> DEFINE k == Extent(s, z, Size)
  <2>1. e + k <= Size /\ Disjoint(e, k, s, z - s + 1) /\ k = l + 1
    BY <1>0, <1>1, <1>2
  <2>2. /\ c.buf \in Memory
        /\ \A j \in 0 .. k - 1 : c.buf[e + j] = b[s + j]
        /\ \A a \in Address : ~ (a \in e .. e + k - 1) => c.buf[a] = b[a]
    <3> HIDE DEF l, c
    <3>1. QED
      BY <1>0, <2>1, CopiedBytes DEF c
  <2> HIDE DEF k, l, c
  <2>3. k - 1 = l /\ e + k - 1 = e + l
    BY <2>1, <1>2
  <2>4. QED
    BY <2>2, <2>3
<1>4. r = c.buf
  BY DEF strcpy
<1> HIDE DEF r, c, l
<1>5. Extends(r, b, d, e, s, l)
  <2>1. \A a \in d .. e - 1 : r[a] = b[a]
    <3>1. \A a \in d .. e - 1 : a \in Address /\ ~ (a \in e .. e + l)
      BY <1>0, <1>2, Addresses
    <3>2. QED
      BY <1>3, <1>4, <3>1
  <2>2. \A k \in 0 .. l - 1 : r[e + k] = b[s + k] /\ b[s + k] # 0
    <3>1. \A k \in 0 .. l - 1 : k \in 0 .. l /\ s + k \in s .. z - 1
      BY <1>0, <1>2
    <3>2. QED
      BY <1>3, <1>4, <3>1 DEF EndsAt
  <2>3. r[e + l] = 0
    <3>1. l \in 0 .. l
      BY <1>2
    <3>2. QED
      BY <1>0, <1>2, <1>3, <1>4, <3>1
  <2>4. \A a \in d .. e - 1 : r[a] = b[a] /\ b[a] # 0
    BY <1>0, <2>1
  <2>5. QED
    BY <2>2, <2>3, <2>4 DEF Extends
<1>6. StringAt(r, d) = Bytewise(b, d, e - d) \o Bytewise(b, s, l)
  <2>1. r \in Memory
    BY <1>3, <1>4
  <2>2. QED
    BY SMTT(60), <1>0, <1>2, <1>5, <2>1, ExtendedReads
<1>7. QED
  BY <1>3, <1>4, <1>6 DEF r, l, Reads

\* strncat, likewise; the terminator comes once or twice.
LEMMA StrncatExtends ==
  ASSUME NEW b \in Memory, NEW d \in Nat, NEW e \in Nat, NEW s \in Nat, NEW n \in Nat,
         NEW z \in Nat, EndsAt(b, s, z), EndsAt(b, d, e),
         e + Extent(s, z, n) + 1 <= Size, Disjoint(e, Extent(s, z, n) + 1, s, z - s + 1)
  PROVE  Reads(strncat(b, d, s, n), b, d, Bytewise(b, d, e - d) \o Bytewise(b, s, Counted(s, z, n)),
               e, e + Counted(s, z, n) + 1)
<1> DEFINE r == strncat(b, d, s, n)
           l == Counted(s, z, n)
           k == Extent(s, z, n)
           c == Copied(b, e, s, n)
           B == c.buf
<1>0. Size \in Nat /\ z \in s .. Size - 1 /\ b[z] = 0 /\ e \in d .. Size - 1
  BY Addresses DEF EndsAt
<1>1. /\ k \in Nat /\ l \in Nat /\ l <= k /\ k <= l + 1 /\ s + l <= z
      /\ e + k < Size /\ e + l < Size /\ s + l <= Size
      /\ k = l + 1 => s + l = z
  BY <1>0 DEF Extent, Counted
<1>2. /\ c.d = e + k /\ B \in Memory
      /\ \A j \in 0 .. k - 1 : B[e + j] = b[s + j]
      /\ \A a \in Address : ~ (a \in e .. e + k - 1) => B[a] = b[a]
  <2>1. e + k <= Size /\ Disjoint(e, k, s, z - s + 1)
    BY <1>0, <1>1 DEF Disjoint
  <2>2. LET x == Copied(b, e, s, n)
            y == Extent(s, z, n)
        IN  /\ x.d = e + y /\ x.i = Counted(s, z, n)
            /\ x.buf \in Memory
            /\ \A j \in 0 .. y - 1 : x.buf[e + j] = b[s + j]
            /\ \A a \in Address : ~ (a \in e .. e + y - 1) => x.buf[a] = b[a]
    BY <2>1, CopiedBytes
  <2>3. QED
    BY <2>2
<1>3. r = [B EXCEPT ![e + k] = 0]
  <2>1. d + strlen(b, d) = e
    <3>1. strlen(b, d) = e - d
      BY StringLength
    <3>2. QED
      BY <3>1
  <2>2. r = [B EXCEPT ![c.d] = 0]
    BY <2>1 DEF strncat
  <2>3. QED
    BY <1>2, <2>2
<1> HIDE DEF r, l, k, c, B
<1>4. e + k \in Address
  BY <1>0, <1>1, Addresses
<1>5. r \in Memory /\ r[e + k] = 0 /\ \A a \in Address : a # e + k => r[a] = B[a]
  BY <1>2, <1>3, <1>4 DEF Memory
<1>6. Extends(r, b, d, e, s, l)
  <2>1. \A a \in d .. e - 1 : r[a] = b[a] /\ b[a] # 0
    <3>1. \A a \in d .. e - 1 : a \in Address /\ ~ (a \in e .. e + k - 1) /\ a # e + k
      BY <1>0, <1>1, Addresses
    <3>2. \A a \in d .. e - 1 : r[a] = B[a]
      BY <1>5, <3>1
    <3>3. \A a \in d .. e - 1 : B[a] = b[a]
      BY <1>2, <3>1
    <3>4. QED
      BY <3>2, <3>3 DEF EndsAt
  <2>2. \A j \in 0 .. l - 1 : r[e + j] = b[s + j] /\ b[s + j] # 0
    <3>1. \A j \in 0 .. l - 1 : /\ j \in 0 .. k - 1 /\ s + j \in s .. z - 1
                                /\ e + j \in Address /\ e + j # e + k
      BY <1>0, <1>1, Addresses
    <3>2. QED
      BY <1>2, <1>5, <3>1 DEF EndsAt
  <2>3. r[e + l] = 0
    <3>1. CASE k = l
      BY <1>5, <3>1
    <3>2. CASE k # l
      <4>1. k = l + 1 /\ l \in 0 .. k - 1 /\ e + l \in Address /\ e + l # e + k
        BY <1>0, <1>1, <3>2, Addresses
      <4>2. B[e + l] = b[z]
        BY <1>1, <1>2, <4>1
      <4>3. QED
        BY <1>0, <1>5, <4>1, <4>2
    <3>3. QED
      BY <3>1, <3>2
  <2>4. QED
    BY <2>1, <2>2, <2>3 DEF Extends
<1>7. StringAt(r, d) = Bytewise(b, d, e - d) \o Bytewise(b, s, l)
  <2>1. d <= e
    BY <1>0
  <2>2. QED
    BY SMTT(60), <1>1, <1>5, <1>6, <2>1, ExtendedReads
<1>8. ASSUME NEW a \in Address, ~ (a \in e .. e + l + 1) PROVE r[a] = b[a]
  <2>1. ~ (a \in e .. e + k - 1) /\ a # e + k
    BY <1>1, <1>8, Addresses
  <2>2. r[a] = B[a]
    BY <1>5, <2>1
  <2>3. B[a] = b[a]
    BY <1>2, <2>1
  <2>4. QED
    BY <2>2, <2>3
<1>9. QED
  BY <1>5, <1>7, <1>8 DEF r, l, Reads

PaddedCopy(r, b, d, s, n, z) ==
  /\ r \in Memory
  /\ \A j \in 0 .. n - 1 : r[d + j] = IF j < z - s THEN b[s + j] ELSE 0
  /\ \A a \in Address : ~ (a \in d .. d + n) => r[a] = b[a]

LEMMA StrncpyArrives ==
  ASSUME NEW b \in Memory, NEW d \in Nat, NEW s \in Nat, NEW n \in Nat, NEW z \in Nat,
         EndsAt(b, s, z), NEW w \in Nat, w = IF z - s < n THEN n + 1 ELSE n,
         d + w <= Size, Disjoint(d, w, s, z - s + 1)
  PROVE  PaddedCopy(strncpy(b, d, s, n), b, d, s, n, z)
<1> DEFINE r == strncpy(b, d, s, n)
           l == Counted(s, z, n)
           k == Extent(s, z, n)
           c == Copied(b, d, s, n)
           B == c.buf
<1>0. Size \in Nat /\ z \in s .. Size - 1 /\ b[z] = 0
  BY Addresses DEF EndsAt
<1>1. /\ k \in Nat /\ l \in Nat /\ l <= k /\ l <= n
      /\ z - s < n => k = l + 1 /\ l = z - s
      /\ ~ (z - s < n) => k = n /\ l = n
  BY <1>0 DEF Extent, Counted
<1>2. /\ c.d = d + k /\ c.i = l /\ B \in Memory
      /\ \A j \in 0 .. k - 1 : B[d + j] = b[s + j]
      /\ \A a \in Address : ~ (a \in d .. d + k - 1) => B[a] = b[a]
  <2>1. d + k <= Size /\ Disjoint(d, k, s, z - s + 1)
    BY <1>0, <1>1 DEF Disjoint
  <2>2. LET x == Copied(b, d, s, n)
            y == Extent(s, z, n)
        IN  /\ x.d = d + y /\ x.i = Counted(s, z, n)
            /\ x.buf \in Memory
            /\ \A j \in 0 .. y - 1 : x.buf[d + j] = b[s + j]
            /\ \A a \in Address : ~ (a \in d .. d + y - 1) => x.buf[a] = b[a]
    BY <2>1, CopiedBytes
  <2>3. QED
    BY <2>2
<1>3. r = [a \in Address |-> IF a \in d + k .. d + k + (n - l) - 1 THEN 0 ELSE B[a]]
  <2>1. r = memset(B, c.d, 0, n - c.i)
    BY DEF strncpy
  <2> HIDE DEF r, B, c
  <2>2. r = memset(B, d + k, 0, n - l)
    BY <1>2, <2>1
  <2>3. AsByte(0) = 0
    BY DEF AsByte
  <2>4. QED
    BY <2>2, <2>3 DEF memset
<1> HIDE DEF r, l, k, c, B
<1>4. r \in Memory
  <2>1. \A a \in Address : B[a] \in 0 .. 255
    BY <1>2 DEF Memory
  <2>2. QED
    BY <1>3, <2>1 DEF Memory
<1>5. ASSUME NEW j \in 0 .. n - 1 PROVE r[d + j] = IF j < z - s THEN b[s + j] ELSE 0
  <2>1. d + j \in Address
    BY <1>0, Addresses
  <2>2. CASE j < k
    <3>1. j \in 0 .. k - 1 /\ ~ (d + j \in d + k .. d + k + (n - l) - 1)
      BY <1>1, <2>2
    <3>2. r[d + j] = b[s + j]
      BY <1>2, <1>3, <2>1, <3>1
    <3>3. j < z - s \/ s + j = z
      BY <1>0, <1>1, <2>2
    <3>4. QED
      BY <1>0, <3>2, <3>3
  <2>3. CASE ~ (j < k)
    <3>1. ~ (j < z - s) /\ d + j \in d + k .. d + k + (n - l) - 1
      BY <1>0, <1>1, <2>3
    <3>2. QED
      BY <1>3, <2>1, <3>1
  <2>4. QED
    BY <2>2, <2>3
<1>6. ASSUME NEW a \in Address, ~ (a \in d .. d + n) PROVE r[a] = b[a]
  <2>1. ~ (a \in d .. d + k - 1) /\ ~ (a \in d + k .. d + k + (n - l) - 1)
    BY <1>1, <1>6, Addresses
  <2>2. QED
    BY <1>2, <1>3, <2>1
<1>7. QED
  BY <1>4, <1>5, <1>6 DEF r, PaddedCopy

-----------------------------------------------------------------------------
(***************************************************************************)
(* strtok.                                                                 *)
(***************************************************************************)
\* The two spans of a call: delimiters up to st, then a word up to en.
SpanEnds(b, p, set, st, z) ==
  /\ st \in p .. z
  /\ b[st] \notin set
  /\ \A a \in p .. st - 1 : b[a] \in set
WordEnds(b, st, set, en, z) ==
  /\ en \in st .. z
  /\ b[en] = 0 \/ b[en] \in set
  /\ \A a \in st .. en - 1 : b[a] # 0 /\ b[a] \notin set

LEMMA StrspnFinds ==
  ASSUME NEW b \in Memory, NEW p \in Nat, NEW z \in Nat, EndsAt(b, p, z), NEW set, 0 \notin set
  PROVE  p + strspn(b, p, set) \in Nat /\ SpanEnds(b, p, set, p + strspn(b, p, set), z)
<1> DEFINE stops == {a \in Address : b[a] = 0 \/ b[a] \notin set}
           st == Scan(stops, p, Size)
<1>0. Size \in Nat /\ z \in p .. Size - 1 /\ b[z] = 0 /\ p \in Int /\ Size \in Int /\ p <= Size
  BY Addresses DEF EndsAt
<1>1. \A a : a \in stops <=> a \in Nat /\ a < Size /\ (b[a] = 0 \/ b[a] \notin set)
  BY Addresses
<1> HIDE DEF stops
<1>2. st \in Int /\ FirstStop(st, p, stops, Size)
  BY <1>0, ScanFinds
<1>3. p + strspn(b, p, set) = st
  <2>1. strspn(b, p, set) = st - p
    BY DEF strspn, stops
  <2> HIDE DEF st
  <2>2. QED
    BY <1>2, <2>1
<1> HIDE DEF st
<1>4. z \in stops
  BY <1>0, <1>1
<1>5. st \in p .. z
  BY <1>0, <1>2, <1>4 DEF FirstStop
<1>6. st \in stops
  BY <1>0, <1>2, <1>5 DEF FirstStop
<1>7. \A a \in p .. st - 1 : a \in Nat /\ a < Size /\ a \notin stops
  BY <1>0, <1>2, <1>5 DEF FirstStop
<1>8. \A a \in p .. st - 1 : b[a] \in set
  BY <1>1, <1>7
<1>9. b[st] \notin set
  BY <1>1, <1>6
<1>10. QED
  BY <1>3, <1>5, <1>8, <1>9 DEF SpanEnds

LEMMA StrcspnFinds ==
  ASSUME NEW b \in Memory, NEW p \in Nat, NEW z \in Nat, EndsAt(b, p, z), NEW set
  PROVE  /\ strcspn(b, p, set) \in Nat /\ p + strcspn(b, p, set) \in Nat
         /\ WordEnds(b, p, set, p + strcspn(b, p, set), z)
<1> DEFINE stops == {a \in Address : b[a] = 0 \/ b[a] \in set}
           st == Scan(stops, p, Size)
<1>0. Size \in Nat /\ z \in p .. Size - 1 /\ b[z] = 0 /\ p \in Int /\ Size \in Int /\ p <= Size
  BY Addresses DEF EndsAt
<1>1. \A a : a \in stops <=> a \in Nat /\ a < Size /\ (b[a] = 0 \/ b[a] \in set)
  BY Addresses
<1> HIDE DEF stops
<1>2. st \in Int /\ FirstStop(st, p, stops, Size)
  BY <1>0, ScanFinds
<1>3. strcspn(b, p, set) = st - p
  BY DEF strcspn, stops
<1> HIDE DEF st
<1>4. z \in stops
  BY <1>0, <1>1
<1>5. st \in p .. z
  BY <1>0, <1>2, <1>4 DEF FirstStop
<1>6. st \in stops
  BY <1>0, <1>2, <1>5 DEF FirstStop
<1>7. \A a \in p .. st - 1 : a \in Nat /\ a < Size /\ a \notin stops
  BY <1>0, <1>2, <1>5 DEF FirstStop
<1>8. \A a \in p .. st - 1 : b[a] # 0 /\ b[a] \notin set
  BY <1>1, <1>7
<1>9. b[st] = 0 \/ b[st] \in set
  BY <1>1, <1>6
<1>10. p + strcspn(b, p, set) = st /\ strcspn(b, p, set) \in Nat
  BY <1>2, <1>3, <1>5
<1>11. QED
  BY <1>5, <1>8, <1>9, <1>10 DEF WordEnds

\* One call of strtok from p on, where a string ends at z
LEMMA StrtokDoes ==
  ASSUME NEW b \in Memory, NEW p \in Nat, NEW z \in Nat, EndsAt(b, p, z), NEW set, 0 \notin set
  PROVE  \E st, en \in Nat :
           /\ SpanEnds(b, p, set, st, z)
           /\ WordEnds(b, st, set, en, z)
           /\ strtok(b, p, set) =
                IF st = z THEN [buf |-> b, last |-> Null, ret |-> Null]
                ELSE IF en = z THEN [buf |-> b, last |-> Null, ret |-> st]
                ELSE [buf |-> [b EXCEPT ![en] = 0], last |-> en + 1, ret |-> st]
<1> DEFINE st == p + strspn(b, p, set)
           en == st + strcspn(b, st, set)
<1>1. st \in Nat /\ SpanEnds(b, p, set, st, z)
  BY StrspnFinds
<1>2. strtok(b, p, set) = IF b[st] = 0 THEN [buf |-> b, last |-> Null, ret |-> Null]
                          ELSE IF b[en] = 0 THEN [buf |-> b, last |-> Null, ret |-> st]
                          ELSE [buf |-> [b EXCEPT ![en] = 0], last |-> en + 1, ret |-> st]
  BY DEF strtok
<1> HIDE DEF st
<1>3. EndsAt(b, st, z)
  BY <1>1 DEF SpanEnds, EndsAt
<1>4. en \in Nat /\ WordEnds(b, st, set, en, z)
  BY <1>1, <1>3, StrcspnFinds
<1> HIDE DEF en
<1>5. b[st] = 0 <=> st = z
  BY <1>1, <1>3 DEF EndsAt
<1>6. b[en] = 0 <=> en = z
  BY <1>1, <1>3, <1>4 DEF EndsAt, WordEnds
<1>7. QED
  BY <1>1, <1>2, <1>4, <1>5, <1>6

\* The word at t of the string b, which ends at e, is a token in the memory r.
WordAt(b, r, set, t, e) ==
  /\ b[e] = 0 \/ b[e] \in set
  /\ \A a \in t .. e - 1 : b[a] # 0 /\ b[a] \notin set /\ r[a] = b[a]
  /\ r[e] = 0

InWord(b, set, z, a) == a < z /\ b[a] \notin set
Begins(b, d, set, z, a) == d <= a /\ InWord(b, set, z, a) /\ (a = d \/ ~ InWord(b, set, z, a - 1))

\* The string at d, which ended at z when the memory was b, is taken apart up to p:
\* toks are the places where its words before p begin.
Split(b, r, d, set, z, p, toks) ==
  /\ p \in d .. z + 1
  /\ p = d \/ ~ InWord(b, set, z, p - 1)
  /\ \A a \in p .. Size - 1 : r[a] = b[a]
  /\ toks \in Seq(Nat)
  /\ \A k \in 1 .. Len(toks) : \A j \in 1 .. k - 1 : toks[j] < toks[k]
  /\ \A k \in 1 .. Len(toks) :
       /\ Begins(b, d, set, z, toks[k])
       /\ \E e \in toks[k] .. p - 1 : e <= z /\ WordAt(b, r, set, toks[k], e)
  /\ \A a \in d .. p - 1 : Begins(b, d, set, z, a) => \E k \in 1 .. Len(toks) : toks[k] = a

\* How far the string is taken apart
Upto(l, z) == IF l = Null THEN z + 1 ELSE l

LEMMA StrtokSplits ==
  ASSUME NEW b \in Memory, NEW r \in Memory, NEW d \in Nat, NEW z \in Nat, NEW set,
         0 \notin set, EndsAt(b, d, z), NEW p \in Nat, p <= z, NEW toks,
         Split(b, r, d, set, z, p, toks)
  PROVE  LET x == strtok(r, p, set)
         IN  /\ x.buf \in Memory
             /\ x.last \in d .. z \cup {Null}
             /\ x.ret = Null => x.last = Null
             /\ x.ret \in Address \cup {Null}
             /\ Split(b, x.buf, d, set, z, Upto(x.last, z),
                      IF x.ret = Null THEN toks ELSE Append(toks, x.ret))
<1> DEFINE x == strtok(r, p, set)
<1>0. /\ Size \in Nat /\ z \in d .. Size - 1 /\ b[z] = 0 /\ p \in d .. z
      /\ \A a \in d .. z - 1 : b[a] # 0
      /\ \A a \in p .. Size - 1 : r[a] = b[a]
  BY Addresses DEF EndsAt, Split
<1>1. EndsAt(r, p, z)
  <2>1. z \in p .. Size - 1 /\ \A a \in p .. z - 1 : a \in d .. z - 1 /\ a \in p .. Size - 1
    BY <1>0
  <2>2. QED
    BY <1>0, <2>1 DEF EndsAt
<1>2. PICK st \in Nat, en \in Nat :
        /\ SpanEnds(r, p, set, st, z)
        /\ WordEnds(r, st, set, en, z)
        /\ x = IF st = z THEN [buf |-> r, last |-> Null, ret |-> Null]
               ELSE IF en = z THEN [buf |-> r, last |-> Null, ret |-> st]
               ELSE [buf |-> [r EXCEPT ![en] = 0], last |-> en + 1, ret |-> st]
  BY <1>1, StrtokDoes
<1> HIDE DEF x
<1>3. /\ st \in p .. z /\ b[st] \notin set
      /\ \A a \in p .. st - 1 : b[a] \in set
  BY <1>0, <1>2 DEF SpanEnds
<1>4. /\ en \in st .. z /\ (b[en] = 0 \/ b[en] \in set)
      /\ \A a \in st .. en - 1 : b[a] # 0 /\ b[a] \notin set
  BY <1>0, <1>2, <1>3 DEF WordEnds
<1>5. CASE st = z
  <2>1. x.buf = r /\ x.last = Null /\ x.ret = Null
    BY <1>2, <1>5
  <2>2. Split(b, r, d, set, z, z + 1, toks)
    <3>1. z + 1 \in d .. z + 1 /\ ~ InWord(b, set, z, (z + 1) - 1) /\ z + 1 - 1 = z
      BY <1>0 DEF InWord
    <3>2. \A a \in z + 1 .. Size - 1 : r[a] = b[a]
      BY <1>0
    <3>3. \A k \in 1 .. Len(toks) : \E e \in toks[k] .. (z + 1) - 1 : e <= z /\ WordAt(b, r, set, toks[k], e)
      <4> SUFFICES ASSUME NEW k \in 1 .. Len(toks)
                   PROVE  \E e \in toks[k] .. (z + 1) - 1 : e <= z /\ WordAt(b, r, set, toks[k], e)
        OBVIOUS
      <4>1. PICK e \in toks[k] .. p - 1 : e <= z /\ WordAt(b, r, set, toks[k], e)
        BY DEF Split
      <4>2. toks[k] \in Nat
        BY DEF Split
      <4>3. e \in toks[k] .. (z + 1) - 1
        BY <1>0, <4>1, <4>2
      <4>4. QED
        BY <4>1, <4>3
    <3>4. ASSUME NEW a \in d .. (z + 1) - 1, Begins(b, d, set, z, a)
          PROVE  \E k \in 1 .. Len(toks) : toks[k] = a
      <4>1. a < z /\ b[a] \notin set
        BY <3>4 DEF Begins, InWord
      <4>2. a \in d .. p - 1
        BY <1>0, <1>3, <1>5, <4>1
      <4>3. QED
        BY <3>4, <4>2 DEF Split
    <3>5. QED
      BY <3>1, <3>2, <3>3, <3>4 DEF Split
  <2>3. QED
    BY <2>1, <2>2 DEF Upto, x
<1>6. CASE st # z
  <2> DEFINE q == IF en = z THEN z + 1 ELSE en + 1
             R == IF en = z THEN r ELSE [r EXCEPT ![en] = 0]
             T == Append(toks, st)
  <2>0. st \in Address /\ st # Null /\ en \in Address /\ st < z
    BY <1>0, <1>3, <1>4, <1>6, Addresses DEF Null
  <2>1. /\ x.buf = R /\ x.ret = st
        /\ x.last = IF en = z THEN Null ELSE en + 1
    BY <1>2, <1>6
  <2>2. R \in Memory /\ R[en] = 0 /\ \A a \in Address : a # en => R[a] = r[a]
    <3>1. r[z] = 0
      BY <1>0
    <3>2. CASE en = z
      BY <3>1, <3>2
    <3>3. CASE en # z
      BY <2>0, <3>3 DEF Memory
    <3>4. QED
      BY <3>2, <3>3
  <2>3. /\ q = en + 1 /\ q \in Nat /\ Upto(x.last, z) = q
        /\ x.last \in d .. z \cup {Null}
    BY <1>0, <1>3, <1>4, <2>1 DEF Upto, Null
  <2>4. /\ toks \in Seq(Nat) /\ Len(toks) \in Nat
        /\ T \in Seq(Nat) /\ Len(T) = Len(toks) + 1 /\ T[Len(toks) + 1] = st
        /\ \A k \in 1 .. Len(toks) : T[k] = toks[k] /\ toks[k] \in Nat
    BY DEF Split
  <2> HIDE DEF R, T, q
  <2>5. Begins(b, d, set, z, st)
    <3>1. st = d \/ ~ InWord(b, set, z, st - 1)
      <4>1. CASE st = p
        BY <4>1 DEF Split
      <4>2. CASE st # p
        <5>1. st - 1 \in p .. st - 1
          BY <1>0, <1>3, <4>2
        <5>2. QED
          BY <1>3, <5>1 DEF InWord
      <4>3. QED
        BY <4>1, <4>2
    <3>2. d <= st
      BY <1>0, <1>3
    <3>3. QED
      BY <1>3, <2>0, <3>1, <3>2 DEF Begins, InWord
  <2>6. WordAt(b, R, set, st, en)
    <3>1. \A a \in st .. en - 1 : a \in Address /\ a # en /\ a \in p .. Size - 1
      BY <1>0, <1>3, <1>4, Addresses
    <3>2. \A a \in st .. en - 1 : R[a] = r[a] /\ r[a] = b[a]
      BY <1>0, <2>2, <3>1
    <3>3. QED
      BY <1>4, <2>2, <3>2 DEF WordAt
  <2>7. Split(b, R, d, set, z, q, T)
    <3>1. q \in d .. z + 1 /\ q - 1 = en
      BY <1>0, <1>3, <1>4, <2>3
    <3>2. ~ InWord(b, set, z, q - 1)
      <4>1. en < z => b[en] # 0
        BY <1>0, <1>3, <1>4
      <4>2. QED
        BY <1>4, <3>1, <4>1 DEF InWord
    <3>3. \A a \in q .. Size - 1 : R[a] = b[a]
      <4>1. \A a \in q .. Size - 1 : a \in Address /\ a # en /\ a \in p .. Size - 1
        BY <1>0, <1>3, <1>4, <2>3, Addresses
      <4>2. QED
        BY <1>0, <2>2, <4>1
    <3>4. \A k \in 1 .. Len(toks) : toks[k] < st
      <4> SUFFICES ASSUME NEW k \in 1 .. Len(toks) PROVE toks[k] < st
        OBVIOUS
      <4>1. PICK e \in toks[k] .. p - 1 : e <= z /\ WordAt(b, r, set, toks[k], e)
        BY DEF Split
      <4>2. QED
        BY SMTT(60), <1>0, <1>3, <2>4, <4>1
    <3>5. \A k \in 1 .. Len(T) : \A j \in 1 .. k - 1 : T[j] < T[k]
      <4> SUFFICES ASSUME NEW k \in 1 .. Len(T), NEW j \in 1 .. k - 1 PROVE T[j] < T[k]
        OBVIOUS
      <4>1. j \in 1 .. Len(toks)
        BY <2>4
      <4>2. CASE k = Len(toks) + 1
        BY <2>4, <3>4, <4>1, <4>2
      <4>3. CASE k # Len(toks) + 1
        <5>1. k \in 1 .. Len(toks)
          BY <2>4, <4>3
        <5>2. toks[j] < toks[k]
          BY <5>1 DEF Split
        <5>3. QED
          BY <2>4, <4>1, <5>1, <5>2
      <4>4. QED
        BY <4>2, <4>3
    <3>6. ASSUME NEW k \in 1 .. Len(T)
          PROVE  /\ Begins(b, d, set, z, T[k])
                 /\ \E e \in T[k] .. q - 1 : e <= z /\ WordAt(b, R, set, T[k], e)
      <4>1. CASE k = Len(toks) + 1
        <5>1. en \in st .. q - 1 /\ en <= z
          BY <1>0, <1>3, <1>4, <3>1
        <5>2. QED
          BY <2>4, <2>5, <2>6, <4>1, <5>1
      <4>2. CASE k # Len(toks) + 1
        <5>1. k \in 1 .. Len(toks)
          BY <2>4, <4>2
        <5>2. PICK e \in toks[k] .. p - 1 : e <= z /\ WordAt(b, r, set, toks[k], e)
          BY <5>1 DEF Split
        <5>3. e \in toks[k] .. q - 1 /\ toks[k] \in Nat
          BY SMTT(60), <1>0, <1>3, <1>4, <2>3, <2>4, <5>1, <5>2
        <5>4. \A a \in toks[k] .. e : a \in Address /\ a # en
          BY <1>0, <1>3, <1>4, <5>2, <5>3, Addresses
        <5>5. \A a \in toks[k] .. e : R[a] = r[a]
          BY <2>2, <5>4
        <5>6. WordAt(b, R, set, toks[k], e)
          <6>1. e \in toks[k] .. e /\ \A a \in toks[k] .. e - 1 : a \in toks[k] .. e
            BY <5>3
          <6>2. QED
            BY <5>2, <5>5, <6>1 DEF WordAt
        <5>7. Begins(b, d, set, z, toks[k])
          BY <5>1 DEF Split
        <5>8. QED
          BY <2>4, <5>1, <5>2, <5>3, <5>6, <5>7
      <4>3. QED
        BY <4>1, <4>2
    <3>7. ASSUME NEW a \in d .. q - 1, Begins(b, d, set, z, a)
          PROVE  \E k \in 1 .. Len(T) : T[k] = a
      <4>1. CASE a < p
        <5>1. a \in d .. p - 1
          BY <1>0, <4>1
        <5>2. PICK k \in 1 .. Len(toks) : toks[k] = a
          BY <3>7, <5>1 DEF Split
        <5>3. k \in 1 .. Len(T)
          BY <2>4
        <5>4. QED
          BY <2>4, <5>2, <5>3
      <4>2. CASE a = st
        <5>1. Len(toks) + 1 \in 1 .. Len(T)
          BY <2>4
        <5>2. QED
          BY <2>4, <4>2, <5>1
      <4>3. CASE ~ (a < p) /\ a < st
        <5>1. a \in p .. st - 1
          BY <1>0, <1>3, <4>3
        <5>2. QED
          BY <1>3, <3>7, <5>1 DEF Begins, InWord
      <4>4. CASE a > st
        <5>1. a - 1 \in st .. en - 1 /\ a - 1 < z /\ a # d
          BY <1>0, <1>3, <1>4, <3>1, <4>4
        <5>2. InWord(b, set, z, a - 1)
          BY <1>4, <5>1 DEF InWord
        <5>3. QED
          BY <3>7, <5>1, <5>2 DEF Begins
      <4>5. QED
        BY <1>0, <1>3, <4>1, <4>2, <4>3, <4>4
    <3>8. QED
      BY <2>4, <3>1, <3>2, <3>3, <3>5, <3>6, <3>7 DEF Split
  <2>8. QED
    BY <2>0, <2>1, <2>2, <2>3, <2>7 DEF T, x
<1>7. QED
  BY <1>5, <1>6

-----------------------------------------------------------------------------
(***************************************************************************)
(* The calls.                                                              *)
(***************************************************************************)
Basic ==
  /\ m \in Memory
  /\ before \in [Address -> Bytes]
  /\ Fresh => m = before
  /\ call.fn # "strtok" => last = Null /\ tokens = <<>>

\* A call of f is made in a fresh state; it leaves all but memory alone.
Called(f) == before' = before /\ last' = Null /\ tokens' = <<>> /\ call'.fn = f

LEMMA MoveDoes ==
  ASSUME Basic, Fresh,
         NEW f \in {"memcpy", "memmove", "copy", "copy_backward", "move", "move_backward"},
         NEW d \in Address, NEW s \in Address, NEW n \in Lengths, Move(f, d, s, n)
  PROVE  m' \in Memory /\ Called(f) /\ BlocksArrive'
<1>0. m \in Memory /\ before = m /\ d \in Nat /\ s \in Nat /\ n \in Nat /\ Size \in Nat
  BY Addresses DEF Basic, Lengths
<1>1. d + n <= Size /\ s + n <= Size /\ MayMove(f, d, s, n)
  BY DEF Move, Room
<1>2. call'.fn = f /\ call'.d = d /\ call'.s = s /\ call'.n = n
  BY DEF Move, Done, Call, NoCall
<1>3. Called(f)
  BY <1>2 DEF Move, Done, Called, Basic, Fresh, NoCall
<1>4. Arrives(m', m, d, s, n)
  <2>1. CASE f = "memcpy"
    <3>1. m' = Forward(m, d, s, n)
      BY <2>1 DEF Move, memcpy
    <3>2. d <= s \/ d >= s + n
      BY <1>0, <1>1, <2>1 DEF MayMove, Disjoint
    <3>3. QED
      BY <1>0, <1>1, <3>1, <3>2, ForwardArrives
  <2>2. CASE f = "memmove"
    <3>1. m' = memmove(m, d, s, n)
      BY <2>2 DEF Move
    <3>2. QED
      BY <1>0, <1>1, <3>1, MemmoveArrives
  <2>3. CASE f \in {"copy", "move"}
    <3>1. m' = Forward(m, d, s, n)
      BY <2>3 DEF Move, copy
    <3>2. d <= s \/ d >= s + n
      BY <1>1, <2>3 DEF MayMove
    <3>3. QED
      BY <1>0, <1>1, <3>1, <3>2, ForwardArrives
  <2>4. CASE f \in {"copy_backward", "move_backward"}
    <3>1. m' = Backward(m, d, s, n)
      BY <2>4 DEF Move, copy_backward
    <3>2. d >= s \/ d + n <= s
      BY <1>1, <2>4 DEF MayMove
    <3>3. QED
      BY <1>0, <1>1, <3>1, <3>2, BackwardArrives
  <2>5. QED
    BY <2>1, <2>2, <2>3, <2>4
<1>5. BlocksArrive'
  <2>1. before' = m
    BY <1>0, <1>3 DEF Called
  <2>2. Bytewise(m', d, n) = Bytewise(before', s, n)
    BY <1>4, <2>1 DEF Arrives
  <2>3. \A a \in Address \ (d .. d + n - 1) : m'[a] = before'[a]
    BY <1>4, <2>1 DEF Arrives
  <2>4. QED
    BY <1>2, <2>2, <2>3 DEF BlocksArrive, Elsewhere
<1>6. QED
  BY <1>3, <1>4, <1>5 DEF Arrives

LEMMA IntsAreBytes == ASSUME NEW c \in Ints PROVE AsByte(c) \in 0 .. 255
<1>1. c \in Int
  <2>1. Bytes \subseteq 0 .. 255
    BY MemoryAssumption
  <2>2. QED
    BY <2>1 DEF Ints
<1>2. QED
  BY <1>1 DEF AsByte

LEMMA SetDoes ==
  ASSUME Basic, Fresh, NEW d \in Address, NEW c \in Ints, NEW n \in 0 .. Size, Set(d, c, n)
  PROVE  m' \in Memory /\ Called("memset") /\ BlocksArrive'
<1>0. m \in Memory /\ before = m /\ d \in Nat /\ n \in Nat /\ Size \in Nat /\ AsByte(c) \in 0 .. 255
  BY Addresses, IntsAreBytes DEF Basic
<1>1. d + n <= Size
  BY DEF Set, Room
<1>2. call'.fn = "memset" /\ call'.d = d /\ call'.s = c /\ call'.n = n
  BY DEF Set, Done, Call, NoCall
<1>3. Called("memset")
  BY <1>2 DEF Set, Done, Called, Basic, Fresh, NoCall
<1>4. m' = [a \in Address |-> IF a \in d .. d + n - 1 THEN AsByte(c) ELSE m[a]]
  BY DEF Set, memset
<1>5. m' \in Memory
  BY <1>0, <1>4 DEF Memory
<1>6. \A a \in d .. d + n - 1 : m'[a] = AsByte(c)
  <2>1. \A a \in d .. d + n - 1 : a \in Address
    BY <1>0, <1>1, Addresses
  <2>2. QED
    BY <1>4, <2>1
<1>7. \A a \in Address \ (d .. d + n - 1) : m'[a] = before'[a]
  BY <1>0, <1>3, <1>4 DEF Called
<1>8. BlocksArrive'
  BY <1>2, <1>6, <1>7 DEF BlocksArrive, Elsewhere
<1>9. QED
  BY <1>3, <1>5, <1>8

LEMMA RemoveDoes ==
  ASSUME Basic, Fresh, NEW d \in Address, NEW n \in 0 .. Size, NEW set, Remove(d, n, set)
  PROVE  m' \in Memory /\ Called("remove") /\ BlocksArrive'
<1> DEFINE r == remove_if(m, d, d + n, set)
<1>0. m \in Memory /\ before = m /\ d \in Nat /\ n \in Nat /\ Size \in Nat
  BY Addresses DEF Basic
<1>1. d + n <= Size /\ m' = r.buf /\ Done([Call("remove") EXCEPT !.d = d, !.n = n, !.set = set, !.ret = r.at])
  BY DEF Remove, Room
<1>2. Keeps(r, m, d, d, n, 0 .. 255 \ set)
  BY <1>0, <1>1, RemoveKeeps
<1> HIDE DEF r
<1>3. call'.fn = "remove" /\ call'.d = d /\ call'.n = n /\ call'.set = set /\ call'.ret = r.at
  BY <1>1 DEF Done, Call, NoCall
<1>4. Called("remove")
  BY <1>1, <1>3 DEF Done, Called, Basic, Fresh, NoCall
<1>5. before' = m
  BY <1>0, <1>4 DEF Called
<1>6. Bytewise(m', d, r.at - d) = Chosen(Bytewise(before', d, n), 0 .. 255 \ set)
  BY <1>1, <1>2, <1>5 DEF Keeps
<1>7. \A a \in Address \ (d .. d + n - 1) : m'[a] = before'[a]
  <2>1. \A a \in Address \ (d .. d + n - 1) : ~ (a \in d .. r.at - 1)
    BY <1>0, <1>2, Addresses DEF Keeps
  <2>2. QED
    BY <1>1, <1>2, <1>5, <2>1 DEF Keeps
<1>8. BlocksArrive'
  BY <1>3, <1>6, <1>7 DEF BlocksArrive, Elsewhere
<1>9. m' \in Memory
  BY <1>1, <1>2 DEF Keeps
<1>10. QED
  BY <1>4, <1>8, <1>9

LEMMA CopyIfDoes ==
  ASSUME Basic, Fresh, NEW d \in Address, NEW s \in Address, NEW n \in Lengths, NEW set,
         CopyIf(d, s, n, set)
  PROVE  m' \in Memory /\ Called("copy_if") /\ BlocksArrive'
<1> DEFINE r == copy_if(m, d, s, s + n, set)
<1>0. m \in Memory /\ before = m /\ d \in Nat /\ s \in Nat /\ n \in Nat /\ Size \in Nat
  BY Addresses DEF Basic, Lengths
<1>1. /\ d + n <= Size /\ s + n <= Size /\ (d <= s \/ s + n <= d)
      /\ m' = r.buf
      /\ Done([Call("copy_if") EXCEPT !.d = d, !.s = s, !.n = n, !.set = set, !.ret = r.at])
  BY <1>0 DEF CopyIf, Room, Disjoint
<1>2. Keeps(r, m, d, s, n, set)
  BY <1>0, <1>1, CopyIfKeeps
<1> HIDE DEF r
<1>3. /\ call'.fn = "copy_if" /\ call'.d = d /\ call'.s = s /\ call'.n = n
      /\ call'.set = set /\ call'.ret = r.at
  BY <1>1 DEF Done, Call, NoCall
<1>4. Called("copy_if")
  BY <1>1, <1>3 DEF Done, Called, Basic, Fresh, NoCall
<1>5. before' = m
  BY <1>0, <1>4 DEF Called
<1>6. Bytewise(m', d, r.at - d) = Chosen(Bytewise(before', s, n), set)
  BY <1>1, <1>2, <1>5 DEF Keeps
<1>7. \A a \in Address \ (d .. d + (r.at - d) - 1) : m'[a] = before'[a]
  <2>1. d + (r.at - d) - 1 = r.at - 1
    BY <1>0, <1>2 DEF Keeps
  <2>2. QED
    BY <1>1, <1>2, <1>5, <2>1 DEF Keeps
<1>8. BlocksArrive'
  BY <1>3, <1>6, <1>7 DEF BlocksArrive, Elsewhere
<1>9. m' \in Memory
  BY <1>1, <1>2 DEF Keeps
<1>10. QED
  BY <1>4, <1>8, <1>9

LEMMA TransformDoes ==
  ASSUME Basic, Fresh, NEW d \in Address, NEW s \in Address, NEW t \in Address, NEW n \in Lengths,
         Transform(d, s, t, n)
  PROVE  m' \in Memory /\ Called("transform") /\ BlocksArrive'
<1> DEFINE r == Transformed(m, d, s, t, n)
<1>0. m \in Memory /\ before = m /\ d \in Nat /\ s \in Nat /\ t \in Nat /\ n \in Nat /\ Size \in Nat
  BY Addresses DEF Basic, Lengths
<1>1. /\ d + n <= Size /\ s + n <= Size /\ t + n <= Size
      /\ Overlays(d, s, n) /\ Overlays(d, t, n)
      /\ m' = transform(m, d, s, t, n)
      /\ Done([Call("transform") EXCEPT !.d = d, !.s = s, !.ret = t, !.n = n])
  BY DEF Transform, Room, Overlays
<1>2. m' = r
  BY <1>0, <1>1, TransformApplies
<1>3. /\ r \in Memory
      /\ \A k \in 0 .. n - 1 : r[d + k] = Op(m[s + k], m[t + k])
      /\ \A a \in Address : ~ (a \in d .. d + n - 1) => r[a] = m[a]
  <2>1. d + n <= Size /\ s + n <= Size /\ t + n <= Size
    BY <1>1
  <2>2. OpArrives(Transformed(m, d, s, t, n), m, d, s, t, n)
    BY <1>0, <2>1, TransformArrives
  <2>3. QED
    BY <2>2 DEF OpArrives
<1> HIDE DEF r
<1>4. /\ call'.fn = "transform" /\ call'.d = d /\ call'.s = s /\ call'.n = n /\ call'.ret = t
  BY <1>1 DEF Done, Call, NoCall
<1>5. Called("transform")
  BY <1>1, <1>4 DEF Done, Called, Basic, Fresh, NoCall
<1>6. before' = m
  BY <1>0, <1>5 DEF Called
<1>7. BlocksArrive'
  BY <1>2, <1>3, <1>4, <1>6 DEF BlocksArrive, Elsewhere
<1>8. QED
  BY <1>2, <1>3, <1>5, <1>7

LEMMA Transform1Does ==
  ASSUME Basic, Fresh, NEW d \in Address, NEW s \in Address, NEW n \in Lengths,
         Transform1(d, s, n)
  PROVE  m' \in Memory /\ Called("transform1") /\ BlocksArrive'
<1> DEFINE r == Transformed1(m, d, s, n)
<1>0. m \in Memory /\ before = m /\ d \in Nat /\ s \in Nat /\ n \in Nat /\ Size \in Nat
  BY Addresses DEF Basic, Lengths
<1>1. /\ d + n <= Size /\ s + n <= Size /\ Overlays(d, s, n)
      /\ m' = transform1(m, d, s, n)
      /\ Done([Call("transform1") EXCEPT !.d = d, !.s = s, !.n = n])
  BY DEF Transform1, Room, Overlays
<1>2. m' = r
  BY <1>0, <1>1, TransformApplies1
<1>3. /\ r \in Memory
      /\ \A k \in 0 .. n - 1 : r[d + k] = Op(m[s + k], 0)
      /\ \A a \in Address : ~ (a \in d .. d + n - 1) => r[a] = m[a]
  BY <1>0, <1>1, TransformArrives1
<1> HIDE DEF r
<1>4. /\ call'.fn = "transform1" /\ call'.d = d /\ call'.s = s /\ call'.n = n
  BY <1>1 DEF Done, Call, NoCall
<1>5. Called("transform1")
  BY <1>1, <1>4 DEF Done, Called, Basic, Fresh, NoCall
<1>6. before' = m
  BY <1>0, <1>5 DEF Called
<1>7. BlocksArrive'
  BY <1>2, <1>3, <1>4, <1>6 DEF BlocksArrive, Elsewhere
<1>8. QED
  BY <1>2, <1>3, <1>5, <1>7

LEMMA SwapDoes ==
  ASSUME Basic, Fresh, NEW d \in Address, NEW s \in Address, Swap(d, s)
  PROVE  m' \in Memory /\ Called("swap") /\ BlocksArrive'
<1>0. m \in Memory /\ before = m
  BY DEF Basic
<1>1. m' = [[m EXCEPT ![d] = m[s]] EXCEPT ![s] = m[d]]
  BY DEF Swap, swap
<1>2. /\ m' \in Memory /\ m'[d] = m[s] /\ m'[s] = m[d]
      /\ \A a \in Address \ {d, s} : m'[a] = m[a]
  BY <1>0, <1>1 DEF Memory
<1>3. call'.fn = "swap" /\ call'.d = d /\ call'.s = s
  BY DEF Swap, Done, Call, NoCall
<1>4. Called("swap")
  BY <1>3 DEF Swap, Done, Called, Basic, Fresh, NoCall
<1>5. before' = m
  BY <1>0, <1>4 DEF Called
<1>6. BlocksArrive'
  BY <1>2, <1>3, <1>5 DEF BlocksArrive
<1>7. QED
  BY <1>2, <1>4, <1>6

LEMMA PaddedRead ==
  ASSUME NEW b \in Memory, NEW r \in Memory, NEW d \in Nat, NEW s \in Nat, NEW n \in Nat,
         NEW z \in Nat, NEW l \in Nat, z - s = l, d + n <= Size, s + l <= Size,
         PaddedCopy(r, b, d, s, n, z)
  PROVE  Bytewise(r, d, n) = First(Bytewise(b, s, l) \o Zeros(n), n)
<1> DEFINE V == 0 .. 255
           u == Bytewise(b, s, l)
           o == Zeros(n)
           t == u \o o
           w == Bytewise(r, d, n)
<1>1. u \in Seq(V) /\ Len(u) = l /\ \A i \in 1 .. l : u[i] = b[s + i - 1]
  <2>1. Spells(u, b, s, l)
    BY BytewiseSpells
  <2>2. QED
    BY <2>1 DEF Spells
<1>2. o \in Seq(V) /\ Len(o) = n /\ \A i \in 1 .. n : o[i] = 0
  BY DEF Zeros
<1>3. w \in Seq(V) /\ Len(w) = n /\ \A i \in 1 .. n : w[i] = r[d + i - 1]
  <2>1. Spells(w, r, d, n)
    BY BytewiseSpells
  <2>2. QED
    BY <2>1 DEF Spells
<1> HIDE DEF V, u, o, w
<1>4. /\ t \in Seq(V) /\ Len(t) = l + n
      /\ \A i \in 1 .. l + n : t[i] = IF i <= l THEN u[i] ELSE o[i - l]
  <2>1. t \in Seq(V) /\ Len(t) = Len(u) + Len(o)
        /\ \A i \in 1 .. Len(u) + Len(o) : t[i] = IF i <= Len(u) THEN u[i] ELSE o[i - Len(u)]
    BY <1>1, <1>2, ConcatProperties
  <2>2. QED
    BY <1>1, <1>2, <2>1
<1> HIDE DEF t
<1>5. /\ First(t, n) \in Seq(V) /\ Len(First(t, n)) = n
      /\ \A i \in 1 .. n : First(t, n)[i] = t[i]
  <2>1. /\ First(t, n) \in Seq(V)
        /\ Len(First(t, n)) = IF Len(t) <= n THEN Len(t) ELSE n
        /\ \A i \in 1 .. n : i <= Len(t) => First(t, n)[i] = t[i]
    BY <1>4, FirstIs
  <2>2. \A i \in 1 .. n : i <= Len(t)
    BY <1>4
  <2>3. (IF Len(t) <= n THEN Len(t) ELSE n) = n
    BY <1>4
  <2>4. QED
    BY <2>1, <2>2, <2>3
<1>6. ASSUME NEW i \in 1 .. n PROVE w[i] = First(t, n)[i]
  <2>1. First(t, n)[i] = IF i <= l THEN u[i] ELSE o[i - l]
    BY <1>4, <1>5
  <2>2. i - 1 \in 0 .. n - 1 /\ d + (i - 1) = d + i - 1 /\ s + (i - 1) = s + i - 1 /\ (i - 1 < l <=> i <= l)
    OBVIOUS
  <2>3. r[d + i - 1] = IF i <= l THEN b[s + i - 1] ELSE 0
    BY <2>2 DEF PaddedCopy
  <2>4. CASE i <= l
    BY <1>1, <1>3, <2>1, <2>3, <2>4
  <2>5. CASE ~ (i <= l)
    <3>1. i - l \in 1 .. n
      BY <2>5
    <3>2. QED
      BY <1>2, <1>3, <2>1, <2>3, <2>5, <3>1
  <2>6. QED
    BY <2>4, <2>5
<1>7. w = First(t, n)
  BY <1>3, <1>5, <1>6, SeqEqual
<1>8. QED
  BY <1>7 DEF w, t, u, o

LEMMA CopyStringDoes ==
  ASSUME Basic, Fresh, NEW f \in {"strcpy", "strcat", "strncpy", "strncat"},
         NEW d \in Address, NEW s \in Address, NEW n \in Lengths, CopyString(f, d, s, n)
  PROVE  m' \in Memory /\ Called(f) /\ StringsArrive'
<1> DEFINE z == s + strlen(m, s)
           l == z - s
           e == d + strlen(m, d)
           src == Bytewise(m, s, l)
<1>0. m \in Memory /\ before = m /\ d \in Nat /\ s \in Nat /\ n \in Nat /\ Size \in Nat
  BY Addresses DEF Basic, Lengths
<1>1. call'.fn = f /\ call'.d = d /\ call'.s = s /\ call'.n = n
  BY DEF CopyString, Done, Call, NoCall
<1>2. Called(f)
  BY <1>1 DEF CopyString, Done, Called, Basic, Fresh, NoCall
<1>3. before' = m
  BY <1>0, <1>2 DEF Called
<1>4. strlen(m, s) \in Nat /\ z \in Address /\ EndsAt(m, s, z)
  <2>1. \E a \in s .. Size - 1 : m[a] = 0
    BY DEF CopyString, IsString
  <2>2. QED
    BY <1>0, <2>1, StringEnds
<1>5. z \in Nat /\ l \in Nat /\ s + l = z /\ z < Size /\ strlen(m, s) = l
  BY <1>0, <1>4, Addresses
<1>6. f \in {"strcat", "strncat"} =>
        strlen(m, d) \in Nat /\ e \in Address /\ EndsAt(m, d, e)
  <2>1. CASE f \in {"strcat", "strncat"}
    <3>1. \E a \in d .. Size - 1 : m[a] = 0
      BY <2>1 DEF CopyString, IsString
    <3>2. QED
      BY <1>0, <3>1, StringEnds
  <2>2. QED
    BY <2>1
<1>7. StringAt(before', s) = src /\ Len(src) = l /\ src \in Seq(0 .. 255)
  <2>1. StringAt(m, s) = src
    <3> HIDE DEF z
    <3>1. QED
      BY <1>0, <1>4, StringLength
  <2> HIDE DEF z, l
  <2>2. s + l <= Size
    BY <1>0, <1>5
  <2>3. QED
    BY <1>0, <1>3, <1>5, <2>1, <2>2, BytewiseIs
<1>8. /\ d + Reach(f, d, s, n) <= Size
      /\ Disjoint(d, Reach(f, d, s, n), s, l + 1)
  BY <1>5 DEF CopyString, Room
<1> HIDE DEF z, l, e, src
<1>9. CASE f = "strcpy"
  <2>1. Reach(f, d, s, n) = l + 1
    BY <1>5, <1>9 DEF Reach
  <2>2. m' = strcpy(m, d, s)
    BY <1>9 DEF CopyString
  <2>3. d + (z - s) + 1 <= Size /\ Disjoint(d, z - s + 1, s, z - s + 1)
        /\ Runs(m, d, d) /\ z - s = l
    <3>1. z - s = l
      BY DEF l
    <3>2. Runs(m, d, d)
      BY <1>0 DEF Runs
    <3>3. d + (z - s) + 1 <= Size
      BY <1>0, <1>5, <1>8, <2>1, <3>1
    <3>4. QED
      BY <1>8, <2>1, <3>1, <3>2, <3>3
  <2>4. /\ m' \in Memory
        /\ StringAt(m', d) = Bytewise(m, d, d - d) \o Bytewise(m, s, z - s)
        /\ \A a \in Address : ~ (a \in d .. d + (z - s)) => m'[a] = m[a]
    <3>1. Reads(strcpy(m, d, s), m, d, Bytewise(m, d, d - d) \o Bytewise(m, s, z - s), d, d + (z - s))
      BY <1>0, <1>4, <1>5, <2>3, StrcpyExtends
    <3>2. QED
      BY <2>2, <3>1 DEF Reads
  <2>5. Bytewise(m, d, d - d) \o src = src
    <3>1. Bytewise(m, d, d - d) = <<>>
      BY <1>0 DEF Bytewise
    <3>2. QED
      BY <1>7, <3>1
  <2>6. StringAt(m', d) = src
    BY <2>3, <2>4, <2>5 DEF src
  <2>7. \A a \in Address \ (d .. d + (l + 1) - 1) : m'[a] = m[a]
    <3>1. d + (l + 1) - 1 = d + (z - s)
      BY <1>0, <1>5, <2>3
    <3>2. QED
      BY <2>4, <3>1
  <2>8. StringsArrive'
    BY <1>1, <1>3, <1>7, <1>9, <2>6, <2>7 DEF StringsArrive, Elsewhere
  <2>9. QED
    BY <1>2, <2>4, <2>8
<1>10. CASE f = "strcat"
  <2> DEFINE dst == Bytewise(m, d, e - d)
             w == dst \o src
  <2>0. strlen(m, d) \in Nat /\ e \in Address /\ EndsAt(m, d, e) /\ e = d + strlen(m, d) /\ e \in Nat
    BY <1>6, <1>10, Addresses DEF e
  <2>1. Reach(f, d, s, n) = (e - d) + l + 1
    BY <1>0, <1>5, <1>10, <2>0 DEF Reach
  <2>2. m' = strcpy(m, e, s)
    BY <1>10, <2>0 DEF CopyString, strcat
  <2>3. e + (z - s) + 1 <= Size /\ Disjoint(e, z - s + 1, s, z - s + 1)
        /\ Runs(m, d, e) /\ z - s = l /\ d <= e
    <3>1. z - s = l
      BY DEF l
    <3>2. Runs(m, d, e)
      BY <1>0, <2>0 DEF EndsAt, Runs
    <3>3. e + l + 1 <= Size /\ d <= e
      BY <1>0, <1>5, <1>8, <2>0, <2>1
    <3>4. Disjoint(e, l + 1, s, l + 1)
      BY <1>0, <1>5, <1>8, <2>0, <2>1 DEF Disjoint
    <3>5. QED
      BY <3>1, <3>2, <3>3, <3>4
  <2>4. /\ m' \in Memory
        /\ StringAt(m', d) = dst \o Bytewise(m, s, z - s)
        /\ \A a \in Address : ~ (a \in e .. e + (z - s)) => m'[a] = m[a]
    <3>1. Reads(strcpy(m, e, s), m, d, Bytewise(m, d, e - d) \o Bytewise(m, s, z - s), e, e + (z - s))
      BY <1>0, <1>4, <1>5, <2>0, <2>3, StrcpyExtends
    <3>2. QED
      BY <2>2, <3>1 DEF Reads
  <2>5. StringAt(m', d) = w
    BY <2>3, <2>4 DEF src
  <2>6. StringAt(before', d) = dst
    BY <1>0, <1>3, <2>0, StringLength
  <2>7. Len(w) = (e - d) + l
    <3>1. dst \in Seq(0 .. 255) /\ Len(dst) = e - d
      <4>1. e - d \in Nat /\ d + (e - d) <= Size
        BY <1>0, <1>5, <2>0, <2>3
      <4>2. QED
        BY <1>0, <4>1, BytewiseIs
    <3> HIDE DEF dst
    <3>2. QED
      BY <1>7, <3>1
  <2> HIDE DEF w, dst
  <2>8. \A a \in Address \ (d .. d + (Len(w) + 1) - 1) : m'[a] = m[a]
    <3>1. d + (Len(w) + 1) - 1 = e + l /\ d <= e
      BY SMTT(60), <1>0, <1>5, <2>0, <2>3, <2>7
    <3>2. \A a \in Address \ (d .. e + l) : ~ (a \in e .. e + (z - s))
      BY <1>0, <1>5, <2>0, <2>3, <3>1, Addresses
    <3>3. QED
      BY <2>4, <3>1, <3>2
  <2>9. StringAt(before', d) \o StringAt(before', s) = w
    BY <1>7, <2>6 DEF w
  <2>10. StringsArrive'
    BY <1>1, <1>3, <1>10, <2>5, <2>8, <2>9 DEF StringsArrive, Elsewhere
  <2>11. QED
    BY <1>2, <2>4, <2>10
<1>11. CASE f = "strncpy"
  <2>1. Reach(f, d, s, n) = IF l < n THEN n + 1 ELSE n
    BY <1>5, <1>11 DEF Reach
  <2>2. m' = strncpy(m, d, s, n)
    BY <1>11 DEF CopyString
  <2>3. z - s = l
    BY DEF l
  <2>4. /\ m' \in Memory
        /\ \A j \in 0 .. n - 1 : m'[d + j] = IF j < z - s THEN m[s + j] ELSE 0
        /\ \A a \in Address : ~ (a \in d .. d + n) => m'[a] = m[a]
    <3> DEFINE w == Reach(f, d, s, n)
    <3>1. w = (IF z - s < n THEN n + 1 ELSE n) /\ w \in Nat
      BY <1>0, <2>1, <2>3
    <3>2. d + w <= Size /\ Disjoint(d, w, s, z - s + 1)
      BY <1>8, <2>3
    <3> HIDE DEF w
    <3>3. PaddedCopy(strncpy(m, d, s, n), m, d, s, n, z)
      BY <1>0, <1>4, <1>5, <3>1, <3>2, StrncpyArrives
    <3>4. QED
      BY <2>2, <3>3 DEF PaddedCopy
  <2>5. Bytewise(m', d, n) = First(src \o Zeros(n), n)
    <3> DEFINE r == strncpy(m, d, s, n)
    <3>1. PaddedCopy(r, m, d, s, n, z) /\ r \in Memory
      BY <2>2, <2>4 DEF PaddedCopy
    <3>2. d + n <= Size /\ s + l <= Size
      BY <1>0, <1>5, <1>8, <2>1
    <3> HIDE DEF r
    <3>3. Bytewise(r, d, n) = First(Bytewise(m, s, l) \o Zeros(n), n)
      BY <1>0, <1>5, <2>3, <3>1, <3>2, PaddedRead
    <3>4. QED
      BY <2>2, <3>3 DEF src, r
  <2>6. \A a \in Address \ (d .. d + (n + 1) - 1) : m'[a] = m[a]
    <3>1. d + (n + 1) - 1 = d + n
      BY <1>0
    <3>2. QED
      BY <2>4, <3>1
  <2>7. StringsArrive'
    BY <1>1, <1>3, <1>7, <1>11, <2>5, <2>6 DEF StringsArrive, Elsewhere
  <2>8. QED
    BY <1>2, <2>4, <2>7
<1>12. CASE f = "strncat"
  <2> DEFINE dst == Bytewise(m, d, e - d)
             k == Counted(s, z, n)
             w == dst \o First(src, n)
  <2>0. strlen(m, d) \in Nat /\ e \in Address /\ EndsAt(m, d, e) /\ e = d + strlen(m, d) /\ e \in Nat
        /\ d <= e
    BY <1>0, <1>6, <1>12, Addresses DEF e
  <2>1. Reach(f, d, s, n) = (e - d) + (IF l < n THEN l + 2 ELSE n + 1) /\ z - s = l
    BY <1>0, <1>5, <1>12, <2>0 DEF Reach
  <2>2. m' = strncat(m, d, s, n)
    BY <1>12 DEF CopyString
  <2>3. Extent(s, z, n) = (IF l < n THEN l + 1 ELSE n) /\ k = (IF l < n THEN l ELSE n)
    BY <2>1 DEF Extent, Counted
  <2>4. e + Extent(s, z, n) + 1 <= Size /\ Disjoint(e, Extent(s, z, n) + 1, s, z - s + 1)
    <3>1. Reach(f, d, s, n) = (e - d) + (Extent(s, z, n) + 1) /\ Extent(s, z, n) \in Nat
      BY <1>0, <1>5, <2>0, <2>1, <2>3
    <3>2. e + Extent(s, z, n) + 1 <= Size
      BY <1>0, <1>8, <2>0, <3>1
    <3>3. QED
      BY <1>0, <1>5, <1>8, <2>0, <2>1, <3>1, <3>2 DEF Disjoint
  <2>5. /\ m' \in Memory
        /\ StringAt(m', d) = dst \o Bytewise(m, s, Counted(s, z, n))
        /\ \A a \in Address : ~ (a \in e .. e + Counted(s, z, n) + 1) => m'[a] = m[a]
    <3>1. Reads(strncat(m, d, s, n), m, d, Bytewise(m, d, e - d) \o Bytewise(m, s, Counted(s, z, n)),
                e, e + Counted(s, z, n) + 1)
      BY <1>0, <1>4, <1>5, <2>0, <2>4, StrncatExtends
    <3>2. QED
      BY <2>2, <3>1 DEF Reads
  <2>6. First(src, n) = Bytewise(m, s, k)
    <3>1. First(Bytewise(m, s, l), n) = Bytewise(m, s, IF l <= n THEN l ELSE n)
      BY <1>0, <1>5, FirstOfBytes
    <3>2. (IF l <= n THEN l ELSE n) = k
      BY <1>0, <1>5, <2>3
    <3>3. QED
      BY <3>1, <3>2 DEF src
  <2>7. StringAt(m', d) = w
    BY <2>5, <2>6
  <2>8. StringAt(before', d) = dst
    BY <1>0, <1>3, <2>0, StringLength
  <2>9. k \in Nat /\ k <= l
    BY <1>0, <1>5, <2>3
  <2> HIDE DEF k
  <2>10. Len(w) = (e - d) + k
    <3> DEFINE u == Bytewise(m, s, k)
    <3>1. dst \in Seq(0 .. 255) /\ Len(dst) = e - d
      <4>1. e - d \in Nat /\ d + (e - d) <= Size
        BY <1>0, <2>0, Addresses
      <4>2. QED
        BY <1>0, <4>1, BytewiseIs
    <3>2. u \in Seq(0 .. 255) /\ Len(u) = k
      <4>1. s + k <= Size
        BY <1>0, <1>5, <2>9
      <4>2. QED
        BY <1>0, <2>9, <4>1, BytewiseIs
    <3> HIDE DEF dst, u
    <3>3. Len(dst \o u) = (e - d) + k
      <4>1. Len(dst \o u) = Len(dst) + Len(u)
        BY ZenonT(60), <3>1, <3>2, ConcatProperties
      <4>2. QED
        BY <3>1, <3>2, <4>1
    <3>4. QED
      BY <2>6, <3>3 DEF u
  <2> HIDE DEF w, dst
  <2>11. \A a \in Address \ (d .. d + (Len(w) + 2) - 1) : m'[a] = m[a]
    <3>1. d + (Len(w) + 2) - 1 = e + k + 1
      <4>1. d + (((e - d) + k) + 2) - 1 = e + k + 1
        BY <1>0, <2>0, <2>9
      <4>2. QED
        BY <2>10, <4>1
    <3>2. \A a \in Address \ (d .. e + k + 1) : ~ (a \in e .. e + k + 1)
      BY <1>0, <2>0, <2>9, Addresses
    <3>3. QED
      BY <2>5, <3>1, <3>2 DEF k
  <2>12. StringAt(before', d) \o First(StringAt(before', s), n) = w
    BY <1>7, <2>8 DEF w
  <2>13. StringsArrive'
    BY <1>1, <1>3, <1>12, <2>7, <2>11, <2>12 DEF StringsArrive, Elsewhere
  <2>14. QED
    BY <1>2, <2>5, <2>13
<1>13. QED
  BY <1>9, <1>10, <1>11, <1>12

-----------------------------------------------------------------------------
(***************************************************************************)
(* The order of the dictionary.                                            *)
(***************************************************************************)
SameTo(s, t, k) == \A i \in 1 .. k : s[i] = t[i]

LEMMA SameBeginning ==
  ASSUME NEW V, NEW s \in Seq(V), NEW t \in Seq(V), NEW k \in Nat, k <= Len(s), k <= Len(t)
  PROVE  SubSeq(s, 1, k) = SubSeq(t, 1, k) <=> SameTo(s, t, k)
<1>1. SubSeq(s, 1, k) \in Seq(V) /\ Len(SubSeq(s, 1, k)) = k
      /\ \A i \in 1 .. k : SubSeq(s, 1, k)[i] = s[i]
  OBVIOUS
<1>2. SubSeq(t, 1, k) \in Seq(V) /\ Len(SubSeq(t, 1, k)) = k
      /\ \A i \in 1 .. k : SubSeq(t, 1, k)[i] = t[i]
  OBVIOUS
<1>3. ASSUME SameTo(s, t, k) PROVE SubSeq(s, 1, k) = SubSeq(t, 1, k)
  <2>1. \A i \in 1 .. k : SubSeq(s, 1, k)[i] = SubSeq(t, 1, k)[i]
    BY <1>1, <1>2, <1>3 DEF SameTo
  <2>2. QED
    BY <1>1, <1>2, <2>1, SeqEqual
<1>4. ASSUME SubSeq(s, 1, k) = SubSeq(t, 1, k) PROVE SameTo(s, t, k)
  BY <1>1, <1>2, <1>4 DEF SameTo
<1>5. QED
  BY <1>3, <1>4

LEMMA PrecedesIs ==
  ASSUME NEW V, NEW s \in Seq(V), NEW t \in Seq(V)
  PROVE  Precedes(s, t) <=> \E k \in 0 .. Len(s) : /\ k < Len(t) /\ SameTo(s, t, k)
                                                   /\ k < Len(s) => s[k + 1] < t[k + 1]
<1>1. \A k \in 0 .. Len(s) : k < Len(t) => (SubSeq(s, 1, k) = SubSeq(t, 1, k) <=> SameTo(s, t, k))
  <2> TAKE k \in 0 .. Len(s)
  <2> HAVE k < Len(t)
  <2>1. k \in Nat /\ k <= Len(s) /\ k <= Len(t)
    OBVIOUS
  <2>2. QED
    BY <2>1, SameBeginning
<1>2. QED
  BY <1>1 DEF Precedes

LEMMA BytesAreIntegers ==
  ASSUME NEW s \in Seq(0 .. 255)
  PROVE  \A i \in 1 .. Len(s) : s[i] \in Int
<1> DEFINE V == 0 .. 255
<1>1. s \in Seq(V)
  OBVIOUS
<1>2. \A v \in V : v \in Int
  OBVIOUS
<1> HIDE DEF V
<1>3. \A i \in 1 .. Len(s) : s[i] \in V
  BY <1>1, ElementOfSeq
<1>4. QED
  BY <1>2, <1>3

LEMMA FirstDifference ==
  ASSUME NEW s \in Seq(0 .. 255), NEW t \in Seq(0 .. 255), NEW j \in Nat, j <= Len(s), j < Len(t),
         SameTo(s, t, j), j < Len(s) => s[j + 1] < t[j + 1]
  PROVE  Precedes(s, t) /\ ~ Precedes(t, s)
<1> DEFINE V == 0 .. 255
<1>1. s \in Seq(V) /\ t \in Seq(V)
  OBVIOUS
<1>2a. /\ \A i \in 1 .. Len(s) : s[i] \in Int
       /\ \A i \in 1 .. Len(t) : t[i] \in Int
  BY BytesAreIntegers
<1> HIDE DEF V
<1>2. Precedes(s, t)
  <2>1. j \in 0 .. Len(s)
    OBVIOUS
  <2>2. QED
    BY <1>1, <2>1, PrecedesIs
<1>3. ASSUME NEW k \in 0 .. Len(t), k < Len(s), SameTo(t, s, k), k < Len(t) => t[k + 1] < s[k + 1]
      PROVE  FALSE
  <2>0. Len(s) \in Nat /\ Len(t) \in Nat
    OBVIOUS
  <2>1. \A i \in 1 .. Len(s) : s[i] \in Int
    BY <1>2a
  <2>2. CASE k < j
    <3>1. k + 1 \in 1 .. j /\ k < Len(t) /\ k + 1 \in 1 .. Len(s)
      BY <2>0, <2>2
    <3>2. s[k + 1] = t[k + 1]
      BY <3>1 DEF SameTo
    <3>3. QED
      BY <1>3, <2>1, <3>1, <3>2
  <2>3. CASE k = j
    <3>1. j + 1 \in 1 .. Len(s) /\ j + 1 \in 1 .. Len(t) /\ j < Len(s)
      BY <1>3, <2>0, <2>3
    <3>2. s[j + 1] \in Int /\ t[j + 1] \in Int
      BY <1>2a, <3>1
    <3>3. QED
      BY <1>3, <2>3, <3>1, <3>2
  <2>4. CASE k > j
    <3>1. j + 1 \in 1 .. k /\ j < Len(s) /\ j + 1 \in 1 .. Len(s)
      BY <1>3, <2>0, <2>4
    <3>2. t[j + 1] = s[j + 1]
      BY <1>3, <3>1 DEF SameTo
    <3>3. QED
      BY <2>1, <3>1, <3>2
  <2>5. QED
    BY <2>0, <2>2, <2>3, <2>4
<1>4. ~ Precedes(t, s)
  BY <1>1, <1>3, PrecedesIs
<1>5. QED
  BY <1>2, <1>4

LEMMA NotBeforeItself ==
  ASSUME NEW s \in Seq(0 .. 255)
  PROVE  ~ Precedes(s, s)
<1> DEFINE V == 0 .. 255
<1>1. s \in Seq(V)
  OBVIOUS
<1>2. \A k \in 0 .. Len(s) : ~ (k < Len(s) /\ s[k + 1] < s[k + 1])
  <2> SUFFICES ASSUME NEW k \in 0 .. Len(s), k < Len(s), s[k + 1] < s[k + 1] PROVE FALSE
    OBVIOUS
  <2>1. k + 1 \in 1 .. Len(s)
    OBVIOUS
  <2>2. s[k + 1] \in Int
    BY <2>1, BytesAreIntegers
  <2>3. QED
    BY <2>2
<1> HIDE DEF V
<1>3. QED
  BY <1>1, <1>2, PrecedesIs

\* ret tells the order of x bytes at l and y bytes at r, which are the same up to i.
Decides(b, l, r, x, y, i, ret) ==
  /\ ret \in Int
  /\ i <= x /\ i <= y /\ SameBytes(b, l, b, r, i)
  /\ i = x /\ i = y => ret = 0
  /\ i = x /\ i < y => ret < 0
  /\ i < x /\ i = y => ret > 0
  /\ i < x /\ i < y => \/ b[l + i] < b[r + i] /\ ret < 0
                       \/ b[r + i] < b[l + i] /\ ret > 0

LEMMA DecidesAgrees ==
  ASSUME NEW b \in Memory, NEW l \in Nat, NEW r \in Nat, NEW x \in Nat, NEW y \in Nat,
         NEW i \in Nat, NEW ret, l + x <= Size, r + y <= Size, Decides(b, l, r, x, y, i, ret)
  PROVE  Agrees(ret, Bytewise(b, l, x), Bytewise(b, r, y))
<1> DEFINE s == Bytewise(b, l, x)
           t == Bytewise(b, r, y)
           V == 0 .. 255
<1>1. s \in Seq(V) /\ Len(s) = x /\ \A k \in 1 .. x : s[k] = b[l + k - 1]
  <2>1. Spells(s, b, l, x)
    BY BytewiseSpells
  <2>2. QED
    BY <2>1 DEF Spells
<1>2. t \in Seq(V) /\ Len(t) = y /\ \A k \in 1 .. y : t[k] = b[r + k - 1]
  <2>1. Spells(t, b, r, y)
    BY BytewiseSpells
  <2>2. QED
    BY <2>1 DEF Spells
<1>3. i <= x /\ i <= y /\ ret \in Int
  BY DEF Decides
<1> HIDE DEF s, t
<1>4. SameTo(s, t, i) /\ SameTo(t, s, i)
  <2> SUFFICES ASSUME NEW k \in 1 .. i PROVE s[k] = t[k]
    BY DEF SameTo
  <2>1. k \in 1 .. x /\ k \in 1 .. y /\ k - 1 \in 0 .. i - 1 /\ l + (k - 1) = l + k - 1 /\ r + (k - 1) = r + k - 1
    BY <1>3
  <2>2. b[l + (k - 1)] = b[r + (k - 1)]
    BY <2>1 DEF Decides, SameBytes
  <2>3. QED
    BY <1>1, <1>2, <2>1, <2>2
<1>5. i < x => s[i + 1] = b[l + i]
  <2>1. i < x => i + 1 \in 1 .. x /\ l + (i + 1) - 1 = l + i
    OBVIOUS
  <2>2. QED
    BY <1>1, <2>1
<1>6. i < y => t[i + 1] = b[r + i]
  <2>1. i < y => i + 1 \in 1 .. y /\ r + (i + 1) - 1 = r + i
    OBVIOUS
  <2>2. QED
    BY <1>2, <2>1
<1>7. CASE i = x /\ i = y
  <2>1. s = t
    <3>1. Len(s) = Len(t) /\ \A k \in 1 .. Len(s) : s[k] = t[k]
      BY <1>1, <1>2, <1>4, <1>7 DEF SameTo
    <3> HIDE DEF V
    <3>2. QED
      BY <1>1, <1>2, <3>1, SeqEqual
  <2>2. ret = 0
    BY <1>7 DEF Decides
  <2>3. ~ Precedes(s, s)
    BY <1>1, NotBeforeItself
  <2>4. QED
    BY <2>1, <2>2, <2>3 DEF Agrees, s, t
<1>8. CASE i < y /\ (i < x => b[l + i] < b[r + i]) /\ ret < 0
  <2>1. i <= Len(s) /\ i < Len(t) /\ (i < Len(s) => s[i + 1] < t[i + 1])
    BY <1>1, <1>2, <1>3, <1>5, <1>6, <1>8
  <2>2. Precedes(s, t) /\ ~ Precedes(t, s)
    BY <1>1, <1>2, <1>4, <2>1, FirstDifference
  <2>3. QED
    BY <1>3, <1>8, <2>2 DEF Agrees, s, t
<1>9. CASE i < x /\ (i < y => b[r + i] < b[l + i]) /\ ret > 0
  <2>1. i <= Len(t) /\ i < Len(s) /\ (i < Len(t) => t[i + 1] < s[i + 1])
    BY <1>1, <1>2, <1>3, <1>5, <1>6, <1>9
  <2>2. Precedes(t, s) /\ ~ Precedes(s, t)
    BY <1>1, <1>2, <1>4, <2>1, FirstDifference
  <2>3. QED
    BY <1>3, <1>9, <2>2 DEF Agrees, s, t
<1>10. QED
  BY <1>3, <1>7, <1>8, <1>9 DEF Decides

LEMMA MemcmpAgrees ==
  ASSUME NEW b \in Memory, NEW l \in Nat, NEW r \in Nat, NEW n \in Nat, l + n <= Size, r + n <= Size
  PROVE  Agrees(memcmp(b, l, r, n), Bytewise(b, l, n), Bytewise(b, r, n))
<1> DEFINE stops == {k \in Offsets(l, r) : b[l + k] # b[r + k]}
           i == Scan(stops, 0, n)
           ret == memcmp(b, l, r, n)
<1>0. Size \in Nat
  BY Addresses
<1>1. i \in Int /\ FirstStop(i, 0, stops, n)
  <2> HIDE DEF stops
  <2>1. QED
    BY ScanFinds
<1>2. ret = IF i = n THEN 0 ELSE IF b[l + i] < b[r + i] THEN -1 ELSE 1
  BY DEF memcmp
<1>3. \A k \in 0 .. n - 1 : k \in stops <=> b[l + k] # b[r + k]
  <2>1. \A k \in 0 .. n - 1 : k \in Offsets(l, r)
    BY <1>0, Addresses DEF Offsets
  <2>2. QED
    BY <2>1
<1> HIDE DEF stops, i, ret
<1>4. i \in 0 .. n /\ (i = n \/ i \in stops) /\ \A k \in 0 .. i - 1 : k \notin stops
  BY <1>1 DEF FirstStop
<1>5. SameBytes(b, l, b, r, i)
  <2>1. \A k \in 0 .. i - 1 : k \in 0 .. n - 1
    BY <1>4
  <2>2. QED
    BY <1>3, <1>4, <2>1 DEF SameBytes
<1>6. i < n => b[l + i] # b[r + i] /\ b[l + i] \in Int /\ b[r + i] \in Int
  <2>1. i < n => i \in 0 .. n - 1 /\ i # n /\ l + i \in Address /\ r + i \in Address
    BY <1>0, <1>4, Addresses
  <2>2. QED
    BY <1>3, <1>4, <2>1 DEF Memory
<1>7. Decides(b, l, r, n, n, i, ret)
  BY <1>2, <1>4, <1>5, <1>6 DEF Decides
<1>8. i \in Nat
  BY <1>4
<1>9. QED
  BY <1>7, <1>8, DecidesAgrees DEF ret

\* Both string comparisons: from 0 to `end`, which strcmp does not reach
LEMMA StringsAgree ==
  ASSUME NEW b \in Memory, NEW l \in Nat, NEW r \in Nat, NEW y \in Nat, NEW z \in Nat,
         EndsAt(b, l, y), EndsAt(b, r, z), NEW n \in Nat, NEW i, NEW stops,
         stops = {k \in Offsets(l, r) : b[l + k] = 0 \/ b[l + k] # b[r + k]},
         i = Scan(stops, 0, n), NEW ret, ret = IF i = n THEN 0 ELSE b[l + i] - b[r + i]
  PROVE  /\ Agrees(ret, Bytewise(b, l, IF y - l <= n THEN y - l ELSE n),
                        Bytewise(b, r, IF z - r <= n THEN z - r ELSE n))
         /\ i \in Nat /\ i <= y - l
<1> DEFINE p == IF y - l <= n THEN y - l ELSE n
           q == IF z - r <= n THEN z - r ELSE n
<1>0. /\ Size \in Nat /\ y \in l .. Size - 1 /\ z \in r .. Size - 1
      /\ b[y] = 0 /\ b[z] = 0
  BY Addresses DEF EndsAt
<1>1. p \in Nat /\ q \in Nat /\ p <= n /\ q <= n /\ l + p <= y /\ r + q <= z
      /\ (p < n => l + p = y) /\ (q < n => r + q = z)
      /\ l + p <= Size /\ r + q <= Size
  BY <1>0
<1> HIDE DEF p, q
<1>2. i \in Int /\ FirstStop(i, 0, stops, n)
  BY ScanFinds
<1>3. i \in 0 .. n /\ (i = n \/ i \in stops) /\ \A k \in 0 .. i - 1 : k \notin stops
  BY <1>2 DEF FirstStop
<1>4. ASSUME NEW k \in Nat, k <= p, k <= q
      PROVE  /\ k \in Offsets(l, r) /\ b[l + k] \in 0 .. 255 /\ b[r + k] \in 0 .. 255
             /\ b[l + k] = 0 <=> l + k = y
             /\ b[r + k] = 0 <=> r + k = z
  <2>1. l + k \in l .. y /\ r + k \in r .. z /\ l + k \in Address /\ r + k \in Address /\ k \in Address
    BY <1>0, <1>1, <1>4, Addresses
  <2>2. b[l + k] = 0 <=> l + k = y
    BY <1>0, <2>1 DEF EndsAt
  <2>3. b[r + k] = 0 <=> r + k = z
    BY <1>0, <2>1 DEF EndsAt
  <2>4. QED
    BY SMTT(60), <2>1, <2>2, <2>3 DEF Offsets, Memory
<1>5. i <= p /\ i <= q
  <2>1. CASE p <= q /\ p < i
    <3>1. l + p = y /\ p \in 0 .. i - 1
      BY <1>1, <1>3, <2>1
    <3>2. p \in stops
      BY <1>1, <1>4, <2>1, <3>1
    <3>3. QED
      BY <1>3, <3>1, <3>2
  <2>2. CASE q < p /\ q < i
    <3>1. r + q = z /\ q \in 0 .. i - 1 /\ q <= p
      BY <1>1, <1>3, <2>2
    <3>2. b[r + q] = 0 /\ q \in Offsets(l, r)
      BY <1>1, <1>4, <3>1
    <3>3. q \in stops
      BY <3>2
    <3>4. QED
      BY <1>3, <3>1, <3>3
  <2>3. QED
    BY <1>1, <1>3, <2>1, <2>2
<1>6. SameBytes(b, l, b, r, i)
  <2> SUFFICES ASSUME NEW k \in 0 .. i - 1 PROVE b[l + k] = b[r + k]
    BY DEF SameBytes
  <2>1. k \in Nat /\ k <= p /\ k <= q /\ k \notin stops
    BY <1>1, <1>3, <1>5
  <2>2. k \in Offsets(l, r)
    BY <1>4, <2>1
  <2>3. QED
    BY <2>1, <2>2
<1>7. /\ b[l + i] \in 0 .. 255 /\ b[r + i] \in 0 .. 255
      /\ b[l + i] = 0 <=> l + i = y
      /\ b[r + i] = 0 <=> r + i = z
  <2>1. i \in Nat /\ i <= p /\ i <= q
    BY <1>3, <1>5
  <2>2. QED
    BY <1>4, <2>1
<1>8. i < n => b[l + i] = 0 \/ b[l + i] # b[r + i]
  BY <1>3
<1>9. i < p => l + i # y
  BY <1>1, <1>3
<1>10. i < q => r + i # z
  BY <1>1, <1>3
<1>11. i = p /\ i < n => l + i = y
  BY <1>1
<1>12. i = q /\ i < n => r + i = z
  BY <1>1
<1>13. ret \in Int
  <2> DEFINE u == b[l + i]
             v == b[r + i]
  <2>1. u \in 0 .. 255 /\ v \in 0 .. 255
    BY <1>7
  <2>2. ret = IF i = n THEN 0 ELSE u - v
    OBVIOUS
  <2> HIDE DEF u, v
  <2>3. QED
    BY <2>1, <2>2
<1>14. Decides(b, l, r, p, q, i, ret)
  <2> DEFINE u == b[l + i]
             v == b[r + i]
  <2>0. /\ i \in 0 .. n /\ u \in 0 .. 255 /\ v \in 0 .. 255
        /\ ret = IF i = n THEN 0 ELSE u - v
        /\ i = p /\ i < n => u = 0
        /\ i = q /\ i < n => v = 0
        /\ i < p => u # 0
        /\ i < q => v # 0
        /\ i < n => u = 0 \/ u # v
    BY <1>3, <1>7, <1>8, <1>9, <1>10, <1>11, <1>12
  <2> HIDE DEF u, v
  <2>1. i = p /\ i = q => ret = 0
    BY <2>0
  <2>2. i = p /\ i < q => ret < 0
    BY <1>1, <2>0
  <2>3. i < p /\ i = q => ret > 0
    BY <1>1, <2>0
  <2>4. i < p /\ i < q => \/ b[l + i] < b[r + i] /\ ret < 0
                          \/ b[r + i] < b[l + i] /\ ret > 0
    <3> SUFFICES ASSUME i < p, i < q
                 PROVE  \/ b[l + i] < b[r + i] /\ ret < 0
                        \/ b[r + i] < b[l + i] /\ ret > 0
      OBVIOUS
    <3>1. (u < v /\ ret < 0) \/ (v < u /\ ret > 0)
      BY <1>1, <2>0
    <3>2. QED
      BY <3>1 DEF u, v
  <2>5. QED
    BY <1>5, <1>6, <1>13, <2>1, <2>2, <2>3, <2>4 DEF Decides
<1>15. i \in Nat
  BY <1>3
<1>16. i <= y - l
  BY <1>0, <1>1, <1>5, <1>15
<1>17. QED
  BY <1>1, <1>14, <1>15, <1>16, DecidesAgrees DEF p, q

LEMMA CompareDoes ==
  ASSUME Basic, Fresh, NEW f \in {"memcmp", "strcmp", "strncmp"},
         NEW d \in Address, NEW s \in Address, NEW n \in Lengths, Compare(f, d, s, n)
  PROVE  m' \in Memory /\ Called(f) /\ OrderIsLexical'
<1> DEFINE y == d + strlen(m, d)
           z == s + strlen(m, s)
           ret == CASE f = "memcmp" -> memcmp(m, d, s, n)
                    [] f = "strcmp" -> strcmp(m, d, s)
                    [] f = "strncmp" -> strncmp(m, d, s, n)
<1>0. m \in Memory /\ before = m /\ d \in Nat /\ s \in Nat /\ n \in Nat /\ Size \in Nat
  BY Addresses DEF Basic, Lengths
<1>1. call'.fn = f /\ call'.d = d /\ call'.s = s /\ call'.n = n /\ call'.ret = ret /\ m' = m
  BY DEF Compare, Done, Call, NoCall
<1>2. Called(f)
  BY <1>1 DEF Compare, Done, Called, Basic, Fresh, NoCall
<1>3. m' \in Memory
  BY <1>0, <1>1
<1>4. f \in {"strcmp", "strncmp"} =>
        /\ strlen(m, d) \in Nat /\ y \in Address /\ EndsAt(m, d, y)
        /\ strlen(m, s) \in Nat /\ z \in Address /\ EndsAt(m, s, z)
  <2>1. CASE f \in {"strcmp", "strncmp"}
    <3>1. (\E a \in d .. Size - 1 : m[a] = 0) /\ (\E a \in s .. Size - 1 : m[a] = 0)
      BY <2>1 DEF Compare, IsString
    <3>2. QED
      BY <1>0, <3>1, StringEnds
  <2>2. QED
    BY <2>1
<1>5. CASE f = "memcmp"
  <2>1. ret = memcmp(m, d, s, n) /\ d + n <= Size /\ s + n <= Size
    BY <1>5 DEF Compare, Room
  <2>2. Agrees(memcmp(m, d, s, n), Bytewise(m, d, n), Bytewise(m, s, n))
    BY <1>0, <2>1, MemcmpAgrees
  <2> HIDE DEF ret
  <2>3. OrderIsLexical'
    BY <1>1, <1>5, <2>1, <2>2 DEF OrderIsLexical
  <2>4. QED
    BY <1>2, <1>3, <2>3
<1>6. CASE f \in {"strcmp", "strncmp"}
  <2>0. /\ y \in Nat /\ EndsAt(m, d, y) /\ z \in Nat /\ EndsAt(m, s, z)
        /\ y < Size /\ z < Size /\ d <= y /\ s <= z
    BY <1>4, <1>6, Addresses
  <2> HIDE DEF y, z
  <2>1. StringAt(m, d) = Bytewise(m, d, y - d) /\ StringAt(m, s) = Bytewise(m, s, z - s)
    BY <1>0, <2>0, StringLength
  <2> DEFINE stops == {k \in Offsets(d, s) : m[d + k] = 0 \/ m[d + k] # m[s + k]}
  <2>2. CASE f = "strcmp"
    <3> DEFINE i == Scan(stops, 0, Size)
               x == IF i = Size THEN 0 ELSE m[d + i] - m[s + i]
    <3> HIDE DEF stops, i, x
    <3>1. /\ Agrees(x, Bytewise(m, d, IF y - d <= Size THEN y - d ELSE Size),
                       Bytewise(m, s, IF z - s <= Size THEN z - s ELSE Size))
          /\ i \in Nat /\ i <= y - d
      BY SMTT(60), <1>0, <2>0, StringsAgree DEF stops, i, x
    <3>2. /\ i # Size /\ (IF y - d <= Size THEN y - d ELSE Size) = y - d
          /\ (IF z - s <= Size THEN z - s ELSE Size) = z - s
      BY <1>0, <2>0, <3>1
    <3>3. ret = x
      <4>1. ret = strcmp(m, d, s)
        BY <2>2
      <4>2. strcmp(m, d, s) = m[d + i] - m[s + i]
        BY DEF strcmp, stops, i
      <4>3. QED
        BY <3>2, <4>1, <4>2 DEF x
    <3> HIDE DEF ret
    <3>4. Agrees(ret, StringAt(m, d), StringAt(m, s))
      BY <2>1, <3>1, <3>2, <3>3
    <3>5. OrderIsLexical'
      BY <1>1, <2>2, <3>4 DEF OrderIsLexical
    <3>6. QED
      BY <1>2, <1>3, <3>5
  <2>3. CASE f = "strncmp"
    <3> DEFINE i == Scan(stops, 0, n)
               x == IF i = n THEN 0 ELSE m[d + i] - m[s + i]
    <3>0. /\ stops = {k \in Offsets(d, s) : m[d + k] = 0 \/ m[d + k] # m[s + k]}
          /\ i = Scan(stops, 0, n) /\ x = IF i = n THEN 0 ELSE m[d + i] - m[s + i]
      OBVIOUS
    <3> HIDE DEF stops, i, x
    <3>1. Agrees(x, Bytewise(m, d, IF y - d <= n THEN y - d ELSE n),
                    Bytewise(m, s, IF z - s <= n THEN z - s ELSE n))
      BY <1>0, <2>0, <3>0, StringsAgree
    <3>2. ret = x
      <4>1. ret = strncmp(m, d, s, n)
        BY <2>3
      <4>2. {k \in Offsets(d, s) : m[d + k] # m[s + k] \/ m[d + k] = 0} = stops
        BY DEF stops
      <4>3. strncmp(m, d, s, n) = x
        BY <4>2 DEF strncmp, i, x
      <4>4. QED
        BY <4>1, <4>3
    <3> HIDE DEF ret
    <3>3. /\ First(StringAt(m, d), n) = Bytewise(m, d, IF y - d <= n THEN y - d ELSE n)
          /\ First(StringAt(m, s), n) = Bytewise(m, s, IF z - s <= n THEN z - s ELSE n)
      <4> DEFINE k == y - d
                 l == z - s
      <4>1. k \in Nat /\ l \in Nat /\ d + k <= Size /\ s + l <= Size
        BY <1>0, <2>0
      <4> HIDE DEF k, l
      <4>2. /\ First(Bytewise(m, d, k), n) = Bytewise(m, d, IF k <= n THEN k ELSE n)
            /\ First(Bytewise(m, s, l), n) = Bytewise(m, s, IF l <= n THEN l ELSE n)
        BY <1>0, <4>1, FirstOfBytes
      <4>3. QED
        BY <2>1, <4>2 DEF k, l
    <3>4. OrderIsLexical'
      BY <1>1, <2>3, <3>1, <3>2, <3>3 DEF OrderIsLexical
    <3>5. QED
      BY <1>2, <1>3, <3>4
  <2>4. QED
    BY <1>6, <2>2, <2>3
<1>7. QED
  BY <1>5, <1>6

-----------------------------------------------------------------------------
(***************************************************************************)
(* The searches.                                                           *)
(***************************************************************************)
Hits(b, d, e, set) == {a \in d .. e : b[a] \in set}

LEMMA CountIsCardinality ==
  ASSUME NEW b \in Memory, NEW d \in Nat, NEW n \in Nat, NEW set
  PROVE  count_if(b, d, d + n, set) = Cardinality(Hits(b, d, d + n - 1, set))
<1> DEFINE end == d + n
           hits(a) == {x \in d .. a - 1 : b[x] \in set}
           Is(g) == g = [a \in d .. end |->
                           IF a = d THEN 0 ELSE g[a - 1] + (IF b[a - 1] \in set THEN 1 ELSE 0)]
           f == CHOOSE g : Is(g)
           h == [a \in d .. end |-> Cardinality(hits(a))]
<1>0. end \in Nat /\ d <= end
  OBVIOUS
<1>1. hits(d) = {} /\ Cardinality(hits(d)) = 0
  <2>1. hits(d) = {}
    OBVIOUS
  <2>2. QED
    BY <2>1, FS_EmptySet
<1>2. \A a \in d .. end : IsFiniteSet(hits(a)) /\ Cardinality(hits(a)) \in Nat
  <2> TAKE a \in d .. end
  <2>1. a - 1 \in Int /\ d \in Int
    OBVIOUS
  <2>2. IsFiniteSet(d .. a - 1)
    BY <2>1, FS_Interval
  <2>3. IsFiniteSet(hits(a))
    BY <2>2, FS_Subset
  <2>4. QED
    BY <2>3, FS_CardinalityType
<1>3. ASSUME NEW a \in d .. end, a # d
      PROVE  Cardinality(hits(a)) = Cardinality(hits(a - 1)) + (IF b[a - 1] \in set THEN 1 ELSE 0)
  <2>1. a - 1 \in d .. end /\ a - 1 \notin hits(a - 1)
    BY <1>3
  <2>2. CASE b[a - 1] \in set
    <3>1. hits(a) = hits(a - 1) \cup {a - 1}
      BY <1>3, <2>2
    <3>2. IsFiniteSet(hits(a - 1))
      BY <1>2, <2>1
    <3> HIDE DEF hits
    <3>3. Cardinality(hits(a - 1) \cup {a - 1}) = Cardinality(hits(a - 1)) + 1
      BY <2>1, <3>2, FS_AddElement
    <3>4. QED
      BY <2>2, <3>1, <3>3
  <2>3. CASE b[a - 1] \notin set
    <3>1. hits(a) = hits(a - 1)
      BY <1>3, <2>3
    <3>2. Cardinality(hits(a - 1)) \in Nat
      BY <1>2, <2>1
    <3> HIDE DEF hits
    <3>3. QED
      BY <2>3, <3>1, <3>2
  <2>4. QED
    BY <2>2, <2>3
<1> HIDE DEF hits, end
<1>4. Is(h)
  <2>1. \A a \in d .. end :
          h[a] = IF a = d THEN 0 ELSE h[a - 1] + (IF b[a - 1] \in set THEN 1 ELSE 0)
    <3> TAKE a \in d .. end
    <3>1. CASE a = d
      BY <1>1, <3>1
    <3>2. CASE a # d
      <4>1. a - 1 \in d .. end
        BY <1>0, <3>2
      <4>2. h[a - 1] = Cardinality(hits(a - 1)) /\ h[a] = Cardinality(hits(a))
        BY <4>1
      <4> HIDE DEF h
      <4>3. QED
        BY <1>3, <3>2, <4>2
    <3>3. QED
      BY <3>1, <3>2
  <2>2. h = [a \in d .. end |-> h[a]]
    OBVIOUS
  <2> DEFINE h2 == [a \in d .. end |->
                      IF a = d THEN 0 ELSE h[a - 1] + (IF b[a - 1] \in set THEN 1 ELSE 0)]
  <2> HIDE DEF h
  <2>3. h = h2
    BY <2>1, <2>2
  <2>4. QED
    BY <2>3
<1>5. Is(f)
  <2> HIDE DEF h, Is
  <2>1. QED
    BY <1>4
<1>6. count_if(b, d, end, set) = f[end]
  BY DEF count_if
<1> HIDE DEF f
<1>7. \A a \in d .. end : f[a] = IF a = d THEN 0 ELSE f[a - 1] + (IF b[a - 1] \in set THEN 1 ELSE 0)
  BY <1>5
<1>8. \A a \in d .. end : h[a] = IF a = d THEN 0 ELSE h[a - 1] + (IF b[a - 1] \in set THEN 1 ELSE 0)
  <2> HIDE DEF h
  <2>1. QED
    BY <1>4
<1> HIDE DEF h, Is
<1>9. f[d] = h[d]
  BY <1>0, <1>7, <1>8
<1>10. \A k \in d .. end - 1 : f[k] = h[k] => f[k + 1] = h[k + 1]
  <2> TAKE k \in d .. end - 1
  <2>1. k + 1 \in d .. end /\ k + 1 # d /\ (k + 1) - 1 = k
    BY <1>0
  <2>2. f[k + 1] = f[k] + (IF b[k] \in set THEN 1 ELSE 0)
    BY <1>7, <2>1
  <2>3. h[k + 1] = h[k] + (IF b[k] \in set THEN 1 ELSE 0)
    BY <1>8, <2>1
  <2>4. QED
    BY <2>2, <2>3
<1>11. f[end] = h[end]
  <2>1. d \in Int /\ end \in Int /\ d <= end
    BY <1>0
  <2>2. QED
    BY <1>9, <1>10, <2>1, SameLoopFrom
<1>12. h[end] = Cardinality(hits(end))
  BY <1>0 DEF h
<1>13. QED
  BY <1>6, <1>11, <1>12 DEF hits, end, Hits

\* Of the characters at p .. a those that are c
LastBefore(b, p, c, a) == {x \in p .. a : b[x] = AsByte(c)}

LEMMA StrrchrFinds ==
  ASSUME NEW b \in Memory, NEW p \in Nat, NEW z \in Nat, EndsAt(b, p, z), NEW c
  PROVE  IsGreatest(strrchr(b, p, c), LastBefore(b, p, c, z))
<1> DEFINE Is(g) == g = [a \in p - 1 .. z |-> IF a < p THEN Null ELSE IF b[a] = AsByte(c) THEN a ELSE g[a - 1]]
           f == CHOOSE g : Is(g)
           n == z - p + 1
           F == [k \in Nat |-> [v \in Int |-> IF b[p + k - 1] = AsByte(c) THEN p + k - 1 ELSE v]]
<1>0. z >= p /\ n \in Nat
  BY DEF EndsAt
<1>1. PICK g : Iterates(g, Int, Null, F, n)
  <2>1. Rounds(F, Int)
    BY DEF Rounds
  <2>2. Null \in Int
    BY DEF Null
  <2> HIDE DEF F, n
  <2>3. QED
    BY <1>0, <2>1, <2>2, Iteration
<1> DEFINE h == [a \in p - 1 .. z |-> g[a - p + 1]]
<1>2. Is(h)
  <2>1. \A a \in p - 1 .. z : h[a] = IF a < p THEN Null ELSE IF b[a] = AsByte(c) THEN a ELSE h[a - 1]
    <3> TAKE a \in p - 1 .. z
    <3>1. CASE a < p
      <4>1. a - p + 1 = 0
        BY <3>1
      <4>2. g[0] = Null
        BY <1>1 DEF Iterates
      <4>3. QED
        BY <3>1, <4>1, <4>2
    <3>2. CASE ~ (a < p)
      <4> DEFINE k == a - p + 1
      <4>1. k \in 1 .. n /\ k - 1 = (a - 1) - p + 1 /\ a - 1 \in p - 1 .. z /\ p + k - 1 = a /\ k \in Nat
        BY <1>0, <3>2
      <4> HIDE DEF k
      <4>2. g[k] = F[k][g[k - 1]] /\ g[k - 1] \in Int
        <5> HIDE DEF F
        <5>1. k - 1 \in 0 .. n
          BY <1>0, <4>1
        <5>2. QED
          BY <1>1, <4>1, <5>1 DEF Iterates
      <4>3. F[k][g[k - 1]] = IF b[a] = AsByte(c) THEN a ELSE g[k - 1]
        BY <4>1, <4>2
      <4>4. h[a] = g[k] /\ h[a - 1] = g[k - 1]
        BY <4>1 DEF k
      <4> HIDE DEF h, F
      <4>5. QED
        BY <3>2, <4>2, <4>3, <4>4
    <3>3. QED
      BY <3>1, <3>2
  <2>2. h = [a \in p - 1 .. z |-> h[a]]
    OBVIOUS
  <2> DEFINE h2 == [a \in p - 1 .. z |-> IF a < p THEN Null ELSE IF b[a] = AsByte(c) THEN a ELSE h[a - 1]]
  <2> HIDE DEF h
  <2>3. h = h2
    BY <2>1, <2>2
  <2>4. QED
    BY <2>3
<1>3. Is(f)
  <2> HIDE DEF h, Is
  <2>1. QED
    BY <1>2
<1>4. strrchr(b, p, c) = f[z]
  <2>1. strlen(b, p) = z - p
    BY StringLength
  <2>2. p + strlen(b, p) = z
    BY <2>1
  <2>3. QED
    BY <2>2 DEF strrchr
<1> HIDE DEF f, h, F
<1>5. \A a \in p - 1 .. z : f[a] = IF a < p THEN Null ELSE IF b[a] = AsByte(c) THEN a ELSE f[a - 1]
  BY <1>3
<1> HIDE DEF Is
<1> DEFINE S == {k \in Nat : IsGreatest(f[(p - 1) + k], LastBefore(b, p, c, (p - 1) + k))}
<1>6. 0 \in S
  <2>1. f[p - 1] = Null
    BY <1>0, <1>5
  <2>2. LastBefore(b, p, c, p - 1) = {}
    BY DEF LastBefore
  <2>3. (p - 1) + 0 = p - 1
    OBVIOUS
  <2>4. QED
    BY <2>1, <2>2, <2>3 DEF IsGreatest
<1>7. ASSUME NEW k \in 0 .. n - 1, k \in S PROVE k + 1 \in S
  <2> DEFINE a == (p - 1) + k
  <2>1. a + 1 \in p - 1 .. z /\ ~ (a + 1 < p) /\ (a + 1) - 1 = a /\ a \in Int /\ (p - 1) + (k + 1) = a + 1
        /\ a < a + 1 /\ p <= a + 1
    BY <1>0
  <2>2. IsGreatest(f[a], LastBefore(b, p, c, a))
    BY <1>7
  <2> HIDE DEF a
  <2>3. f[a + 1] = IF b[a + 1] = AsByte(c) THEN a + 1 ELSE f[a]
    BY <1>5, <2>1
  <2>4. IsGreatest(f[a + 1], LastBefore(b, p, c, a + 1))
    <3>1. CASE b[a + 1] = AsByte(c)
      <4>1. a + 1 \in LastBefore(b, p, c, a + 1)
        BY <2>1, <3>1 DEF LastBefore
      <4>2. \A x \in LastBefore(b, p, c, a + 1) : x <= a + 1
        BY <2>1 DEF LastBefore
      <4>3. QED
        BY <2>3, <3>1, <4>1, <4>2 DEF IsGreatest
    <3>2. CASE b[a + 1] # AsByte(c)
      <4>1. LastBefore(b, p, c, a + 1) = LastBefore(b, p, c, a)
        BY <2>1, <3>2 DEF LastBefore
      <4>2. QED
        BY <2>2, <2>3, <3>2, <4>1
    <3>3. QED
      BY <3>1, <3>2
  <2>5. k + 1 \in Nat
    OBVIOUS
  <2>6. QED
    BY <2>1, <2>4, <2>5
<1> HIDE DEF S
<1>8. n \in S
  <2> HIDE DEF n
  <2>1. QED
    BY <1>0, <1>6, <1>7, BoundedInduction
<1>9. (p - 1) + n = z
  OBVIOUS
<1>10. QED
  BY <1>4, <1>8, <1>9 DEF S

LEMMA ScanIsLeast ==
  ASSUME NEW stops, NEW first \in Nat, NEW end \in Nat, first <= end, NEW a, a = Scan(stops, first, end)
  PROVE  /\ a \in first .. end
         /\ IsLeast(IF a = end THEN Null ELSE a, {q \in first .. end - 1 : q \in stops})
         /\ IsLeast(a, {q \in first .. end - 1 : q \in stops} \cup {end})
<1> DEFINE P == {q \in first .. end - 1 : q \in stops}
<1>1. a \in Int /\ FirstStop(a, first, stops, end)
  BY ScanFinds
<1>2. a \in first .. end /\ (a = end \/ a \in stops) /\ \A k \in first .. a - 1 : k \notin stops
  BY <1>1 DEF FirstStop
<1>3. \A q \in P : a <= q
  BY <1>2
<1>4. a # end => a \in P
  BY <1>2
<1>5. a = end => P = {}
  BY <1>2
<1> HIDE DEF P
<1>6. IsLeast(IF a = end THEN Null ELSE a, P)
  <2>1. CASE a = end
    BY <1>5, <2>1 DEF IsLeast
  <2>2. CASE a # end
    BY <1>3, <1>4, <2>2 DEF IsLeast
  <2>3. QED
    BY <2>1, <2>2
<1>7. IsLeast(a, P \cup {end})
  BY <1>2, <1>3, <1>4 DEF IsLeast
<1>8. QED
  BY <1>2, <1>6, <1>7 DEF P

\* The places of the string at p
Text(p, z) == {a \in Address : p <= a /\ a < z}

LEMMA TextIs ==
  ASSUME NEW b \in Memory, NEW p \in Nat, NEW z \in Nat, EndsAt(b, p, z)
  PROVE  Text(p, z) = p .. z - 1 /\ Text(p, z) \cup {z} = p .. z
<1>1. Size \in Nat /\ z \in p .. Size - 1
  BY Addresses DEF EndsAt
<1>2. \A a : a \in Text(p, z) <=> a \in p .. z - 1
  BY <1>1, Addresses DEF Text
<1>3. Text(p, z) = p .. z - 1
  BY <1>2
<1>4. p .. z = p .. z - 1 \cup {z}
  BY <1>1
<1>5. QED
  BY <1>3, <1>4

LEMMA MemchrFinds ==
  ASSUME NEW b \in Memory, NEW p \in Nat, NEW n \in Nat, p + n <= Size, NEW c
  PROVE  IsLeast(memchr(b, p, c, n), {a \in p .. p + n - 1 : b[a] = AsByte(c)})
<1> DEFINE stops == {q \in Address : b[q] = AsByte(c)}
           end == p + n
           a == Scan(stops, p, end)
           found == IF a = end THEN Null ELSE a
<1>1. Size \in Nat /\ end \in Nat /\ p <= end
  BY Addresses
<1>2. memchr(b, p, c, n) = found
  BY DEF memchr
<1>3. {q \in p .. end - 1 : q \in stops} = {q \in p .. end - 1 : b[q] = AsByte(c)}
  <2>1. \A q \in p .. end - 1 : q \in Address
    BY <1>1, Addresses
  <2>2. QED
    BY <2>1
<1> HIDE DEF stops, end
<1>4. IsLeast(found, {q \in p .. end - 1 : q \in stops})
  BY <1>1, ScanIsLeast
<1> HIDE DEF found
<1>5. IsLeast(found, {q \in p .. end - 1 : b[q] = AsByte(c)})
  BY <1>3, <1>4
<1>6. QED
  BY <1>2, <1>5 DEF end

LEMMA StrchrFinds ==
  ASSUME NEW b \in Memory, NEW p \in Nat, NEW z \in Nat, EndsAt(b, p, z), NEW c
  PROVE  IsLeast(strchr(b, p, c), {a \in Text(p, z) \cup {z} : b[a] = AsByte(c)})
<1> DEFINE stops == {q \in Address : b[q] \in {AsByte(c), 0}}
           a == Scan(stops, p, Size)
           P == {q \in Text(p, z) \cup {z} : b[q] = AsByte(c)}
<1>1. Size \in Nat /\ z \in p .. Size - 1 /\ b[z] = 0 /\ p <= Size
  BY Addresses DEF EndsAt
<1>2. a \in Int /\ FirstStop(a, p, stops, Size)
  <2> HIDE DEF stops
  <2>1. QED
    BY <1>1, ScanFinds
<1>3. strchr(b, p, c) = IF b[a] = AsByte(c) THEN a ELSE Null
  BY DEF strchr
<1>4. z \in stops /\ \A q : q \in stops <=> q \in Nat /\ q < Size /\ b[q] \in {AsByte(c), 0}
  BY <1>1, Addresses
<1> HIDE DEF stops, a
<1>5. a \in p .. z /\ \A k \in p .. a - 1 : k \notin stops
  BY <1>1, <1>2, <1>4 DEF FirstStop
<1>6. b[a] \in {AsByte(c), 0}
  BY <1>1, <1>2, <1>4, <1>5 DEF FirstStop
<1>7. \A q : q \in P <=> q \in p .. z /\ b[q] = AsByte(c)
  BY TextIs
<1> HIDE DEF P
<1>8. \A q \in P : a <= q
  <2> TAKE q \in P
  <2>1. q \in p .. z /\ q \in stops
    BY <1>1, <1>4, <1>7
  <2>2. QED
    BY <1>5, <2>1
<1>9. ASSUME b[a] = AsByte(c) PROVE IsLeast(strchr(b, p, c), P)
  BY <1>3, <1>5, <1>7, <1>8, <1>9 DEF IsLeast
<1>10. ASSUME b[a] # AsByte(c) PROVE IsLeast(strchr(b, p, c), P)
  <2>1. b[a] = 0
    BY <1>6, <1>10
  <2>2. a = z
    BY <1>5, <2>1 DEF EndsAt
  <2>3. P = {}
    <3>1. \A q \in P : q = z
      BY <1>5, <1>7, <1>8, <2>2
    <3>2. z \notin P
      BY <1>7, <1>10, <2>2
    <3>3. QED
      BY <3>1, <3>2
  <2>4. QED
    BY <1>3, <1>10, <2>3 DEF IsLeast
<1>11. QED
  BY <1>9, <1>10 DEF P

LEMMA FindInBlockDoes ==
  ASSUME Basic, Fresh, NEW d \in Address, NEW c \in Ints, NEW n \in 0 .. Size, FindInBlock(d, c, n)
  PROVE  m' \in Memory /\ Called("memchr") /\ SearchesFindTheFirst'
<1> DEFINE P == {a \in d .. d + n - 1 : m[a] = AsByte(c)}
<1>0. m \in Memory /\ before = m /\ d \in Nat /\ n \in Nat /\ d + n <= Size
  BY Addresses DEF Basic, FindInBlock, Room
<1>1. /\ call'.fn = "memchr" /\ call'.d = d /\ call'.s = c /\ call'.n = n /\ m' = m
      /\ call'.ret = memchr(m, d, c, n)
  BY DEF FindInBlock, Done, Call, NoCall
<1>2. Called("memchr")
  BY <1>1 DEF FindInBlock, Done, Called, Basic, Fresh, NoCall
<1>3. m' \in Memory
  BY <1>0, <1>1
<1>4. IsLeast(call'.ret, P)
  BY <1>0, <1>1, MemchrFinds
<1>5. P = {a \in call'.d .. call'.d + call'.n - 1 : m'[a] \in {AsByte(call'.s)}}
  BY <1>1
<1> HIDE DEF P
<1>6. SearchesFindTheFirst'
  BY <1>1, <1>4, <1>5 DEF SearchesFindTheFirst
<1>7. QED
  BY <1>2, <1>3, <1>6

LEMMA FindByteDoes ==
  ASSUME Basic, Fresh, NEW f \in {"strchr", "strrchr"},
         NEW d \in Address, NEW c \in Ints, FindByte(f, d, c)
  PROVE  m' \in Memory /\ Called(f) /\ SearchesFindTheFirst'
<1> DEFINE z == d + strlen(m, d)
           P == {a \in Text(d, z) \cup {z} : m[a] = AsByte(c)}
           ret == CASE f = "strchr" -> strchr(m, d, c)
                    [] f = "strrchr" -> strrchr(m, d, c)
<1>0. m \in Memory /\ before = m /\ d \in Nat /\ Size \in Nat
  BY Addresses DEF Basic
<1>1. call'.fn = f /\ call'.d = d /\ call'.s = c /\ call'.ret = ret /\ m' = m
  BY DEF FindByte, Done, Call, NoCall
<1>2. Called(f)
  BY <1>1 DEF FindByte, Done, Called, Basic, Fresh, NoCall
<1>3. m' \in Memory
  BY <1>0, <1>1
<1>4. z \in Nat /\ EndsAt(m, d, z)
  <2>1. \E a \in d .. Size - 1 : m[a] = 0
    BY DEF FindByte, IsString
  <2>2. QED
    BY <1>0, <2>1, StringEnds
<1> HIDE DEF z
<1>5. f = "strchr" => IsLeast(ret, P)
  <2>1. IsLeast(strchr(m, d, c), P)
    BY <1>0, <1>4, StrchrFinds
  <2>2. QED
    BY <2>1
<1>6. f = "strrchr" => IsGreatest(ret, P)
  <2>1. IsGreatest(strrchr(m, d, c), LastBefore(m, d, c, z))
    BY <1>0, <1>4, StrrchrFinds
  <2>2. LastBefore(m, d, c, z) = P
    <3>1. Text(d, z) \cup {z} = d .. z
      BY <1>0, <1>4, TextIs
    <3>2. QED
      BY <3>1 DEF LastBefore
  <2>3. QED
    BY <2>1, <2>2
<1> HIDE DEF ret
<1>7. P = {a \in {x \in Address : d <= x /\ x < z} \cup {z} : m'[a] = AsByte(c)}
  BY <1>1 DEF Text
<1> HIDE DEF P
<1>8. SearchesFindTheFirst'
  BY <1>1, <1>5, <1>6, <1>7 DEF SearchesFindTheFirst, z
<1>9. QED
  BY <1>2, <1>3, <1>8

LEMMA FindSetDoes ==
  ASSUME Basic, Fresh, NEW f \in {"strspn", "strcspn", "strpbrk"},
         NEW d \in Address, NEW set \in SUBSET (Bytes \ {0}), FindSet(f, d, set)
  PROVE  m' \in Memory /\ Called(f) /\ SearchesFindTheFirst'
<1> DEFINE z == d + strlen(m, d)
           st == d + strspn(m, d, set)
           en == d + strcspn(m, d, set)
           out == {a \in Text(d, z) : m[a] \notin set}
           in == {a \in Text(d, z) : m[a] \in set}
           ret == CASE f = "strspn" -> strspn(m, d, set)
                    [] f = "strcspn" -> strcspn(m, d, set)
                    [] f = "strpbrk" -> strpbrk(m, d, set)
<1>0. m \in Memory /\ before = m /\ d \in Nat /\ Size \in Nat /\ 0 \notin set
  BY Addresses DEF Basic
<1>1. call'.fn = f /\ call'.d = d /\ call'.set = set /\ call'.ret = ret /\ m' = m
  BY DEF FindSet, Done, Call, NoCall
<1>2. Called(f)
  BY <1>1 DEF FindSet, Done, Called, Basic, Fresh, NoCall
<1>3. m' \in Memory
  BY <1>0, <1>1
<1>4. z \in Nat /\ EndsAt(m, d, z)
  <2>1. \E a \in d .. Size - 1 : m[a] = 0
    BY DEF FindSet, IsString
  <2>2. QED
    BY <1>0, <2>1, StringEnds
<1> HIDE DEF z
<1>5. /\ st \in Nat /\ SpanEnds(m, d, set, st, z)
      /\ en \in Nat /\ WordEnds(m, d, set, en, z)
  BY <1>0, <1>4, StrspnFinds, StrcspnFinds
<1>6. strpbrk(m, d, set) = IF m[en] = 0 THEN Null ELSE en
  BY DEF strpbrk
<1>7. f = "strspn" => d + ret = st
  OBVIOUS
<1>8. f = "strcspn" => d + ret = en
  OBVIOUS
<1>9. f = "strpbrk" => ret = IF m[en] = 0 THEN Null ELSE en
  BY <1>6
<1> HIDE DEF st, en, ret
<1>10. /\ \A a : a \in out <=> a \in d .. z - 1 /\ m[a] \notin set
       /\ \A a : a \in in <=> a \in d .. z - 1 /\ m[a] \in set
  <2>1. Text(d, z) = d .. z - 1
    BY <1>0, <1>4, TextIs
  <2>2. QED
    BY <2>1
<1>11. d <= z /\ m[z] = 0
  BY <1>0, <1>4 DEF EndsAt
<1> HIDE DEF out, in
<1>12. IsLeast(st, out \cup {z})
  <2>1. st \in out \cup {z}
    <3>1. st \in d .. z /\ m[st] \notin set
      BY <1>5 DEF SpanEnds
    <3>2. st # z => st \in d .. z - 1
      BY <1>0, <1>4, <3>1
    <3>3. QED
      BY <1>10, <3>1, <3>2
  <2>2. \A a \in out \cup {z} : st <= a
    BY <1>0, <1>5, <1>10 DEF SpanEnds
  <2>3. QED
    BY <2>1, <2>2 DEF IsLeast
<1>13. en = z \/ en \in in
  <2>1. m[en] = 0 => en = z
    BY <1>0, <1>4, <1>5 DEF EndsAt, WordEnds
  <2>2. en \in d .. z /\ (m[en] = 0 \/ m[en] \in set)
    BY <1>5 DEF WordEnds
  <2>3. en # z => en \in d .. z - 1 /\ m[en] \in set
    BY <1>0, <1>4, <2>1, <2>2
  <2>4. QED
    BY <1>10, <2>3
<1>14. \A a \in in : en <= a
  BY <1>0, <1>5, <1>10 DEF WordEnds
<1>15. en <= z
  BY <1>5 DEF WordEnds
<1>16. IsLeast(en, in \cup {z})
  BY <1>13, <1>14, <1>15 DEF IsLeast
<1>17. IsLeast(IF m[en] = 0 THEN Null ELSE en, in)
  <2>1. CASE en = z
    <3>1. in = {}
      <4>1. ASSUME NEW a \in in PROVE FALSE
        <5>1. a \in d .. z - 1 /\ z <= a
          BY <1>10, <1>14, <2>1
        <5>2. QED
          BY <1>0, <1>4, <5>1
      <4>2. QED
        BY <4>1
    <3>2. QED
      BY <1>11, <2>1, <3>1 DEF IsLeast
  <2>2. CASE en # z
    <3>1. en \in in /\ m[en] # 0
      BY <1>0, <1>10, <1>13, <2>2
    <3>2. QED
      BY <1>14, <3>1 DEF IsLeast
  <2>3. QED
    BY <2>1, <2>2
<1>18. /\ out = {a \in {x \in Address : d <= x /\ x < z} : m'[a] \notin set}
       /\ in = {a \in {x \in Address : d <= x /\ x < z} : m'[a] \in set}
  BY <1>1 DEF out, in, Text
<1>19. SearchesFindTheFirst'
  <2>1. d + strlen(m, d) = z
    BY DEF z
  <2>2. CASE f = "strspn"
    BY <1>1, <1>7, <1>12, <1>18, <2>1, <2>2 DEF SearchesFindTheFirst
  <2>3. CASE f = "strcspn"
    BY <1>1, <1>8, <1>16, <1>18, <2>1, <2>3 DEF SearchesFindTheFirst
  <2>4. CASE f = "strpbrk"
    BY <1>1, <1>9, <1>17, <1>18, <2>1, <2>4 DEF SearchesFindTheFirst
  <2>5. QED
    BY <2>2, <2>3, <2>4
<1>20. QED
  BY <1>2, <1>3, <1>19

LEMMA InRangeDoes ==
  ASSUME Basic, Fresh, NEW f \in {"find_if", "find_if_not", "count_if"},
         NEW d \in Address, NEW n \in 0 .. Size, NEW set \in SUBSET Bytes, InRange(f, d, n, set)
  PROVE  m' \in Memory /\ Called(f) /\ SearchesFindTheFirst'
<1> DEFINE ret == CASE f = "find_if" -> find_if(m, d, d + n, set)
                    [] f = "find_if_not" -> find_if(m, d, d + n, Bytes \ set)
                    [] f = "count_if" -> count_if(m, d, d + n, set)
           range(x) == {a \in d .. d + n - 1 : m[a] \in x}
<1>0. m \in Memory /\ before = m /\ d \in Nat /\ Size \in Nat /\ n \in Nat /\ d + n <= Size
  BY Addresses DEF Basic, InRange, Room
<1>1. /\ call'.fn = f /\ call'.d = d /\ call'.n = n /\ call'.set = set /\ call'.ret = ret
      /\ m' = m
  BY DEF InRange, Done, Call, NoCall
<1>2. Called(f)
  BY <1>1 DEF InRange, Done, Called, Basic, Fresh, NoCall
<1>3. m' \in Memory
  BY <1>0, <1>1
<1>4. ASSUME NEW x PROVE IsLeast(find_if(m, d, d + n, x), range(x) \cup {d + n})
  <2> DEFINE stops == {a \in Address : m[a] \in x}
             end == d + n
  <2>1. {q \in d .. end - 1 : q \in stops} = range(x)
    <3>1. \A q \in d .. end - 1 : q \in Address
      BY <1>0, Addresses
    <3>2. \A q \in d .. end - 1 : q \in stops <=> m[q] \in x
      BY <3>1
    <3> HIDE DEF stops
    <3> DEFINE A == {q \in d .. end - 1 : q \in stops}
    <3>3. \A q : q \in A <=> q \in range(x)
      BY <1>0, <3>2
    <3> HIDE DEF A, range
    <3>4. A = range(x)
      BY <3>3
    <3>5. QED
      BY <3>4 DEF A
  <2>2. find_if(m, d, d + n, x) = Scan(stops, d, end)
    BY DEF find_if
  <2>3. end \in Nat /\ d <= end
    BY <1>0
  <2> HIDE DEF stops, range, end
  <2>4. IsLeast(Scan(stops, d, end), {q \in d .. end - 1 : q \in stops} \cup {end})
    BY <1>0, <2>3, ScanIsLeast
  <2>5. QED
    BY <2>1, <2>2, <2>4 DEF end
<1>5. count_if(m, d, d + n, set) = Cardinality(range(set))
  <2>1. count_if(m, d, d + n, set) = Cardinality(Hits(m, d, d + n - 1, set))
    BY ZenonT(60), <1>0, CountIsCardinality
  <2>2. QED
    BY <2>1 DEF Hits
<1>6. SearchesFindTheFirst'
  <2>1. CASE f = "find_if"
    <3>1. IsLeast(ret, range(set) \cup {d + n})
      BY <1>4, <2>1
    <3> HIDE DEF ret
    <3>2. QED
      BY <1>1, <2>1, <3>1 DEF SearchesFindTheFirst
  <2>2. CASE f = "find_if_not"
    <3>1. IsLeast(ret, range(Bytes \ set) \cup {d + n})
      BY <1>4, <2>2
    <3> HIDE DEF ret
    <3>2. QED
      BY <1>1, <2>2, <3>1 DEF SearchesFindTheFirst
  <2>3. CASE f = "count_if"
    <3>1. ret = Cardinality(range(set))
      BY <1>5, <2>3
    <3> HIDE DEF ret
    <3>2. QED
      BY <1>1, <2>3, <3>1 DEF SearchesFindTheFirst
  <2>4. QED
    BY <2>1, <2>2, <2>3
<1>7. QED
  BY <1>2, <1>3, <1>6

LEMMA StrstrFinds ==
  ASSUME NEW b \in Memory, NEW p \in Nat, NEW z \in Nat, EndsAt(b, p, z),
         NEW needle \in Seq(Bytes \ {0})
  PROVE  IsLeast(strstr(b, p, needle),
                 {a \in Text(p, z) \cup {z} : a + Len(needle) <= z
                                              /\ Bytewise(b, a, Len(needle)) = needle})
<1> DEFINE l == Len(needle)
           P == {a \in Text(p, z) \cup {z} : a + l <= z /\ Bytewise(b, a, l) = needle}
           stops == {q \in Address : b[q] = 0 \/ Matches(b, q, needle)}
           a == Scan(stops, p, Size)
<1>0. Size \in Nat /\ z \in p .. Size - 1 /\ b[z] = 0 /\ p <= Size /\ l \in Nat
  BY Addresses DEF EndsAt
<1>1. /\ DOMAIN needle = 1 .. l
      /\ \A k \in 1 .. l : needle[k] # 0 /\ needle[k] \in 0 .. 255
  <2> DEFINE V == Bytes \ {0}
  <2>1. needle \in Seq(V) /\ \A v \in V : v # 0 /\ v \in 0 .. 255
    BY MemoryAssumption
  <2> HIDE DEF V
  <2>2. \A k \in 1 .. Len(needle) : needle[k] \in V
    BY <2>1, ElementOfSeq
  <2>3. DOMAIN needle = 1 .. Len(needle)
    BY <2>1
  <2>4. QED
    BY <2>1, <2>2, <2>3
<1> HIDE DEF l
<1>2. \A q : q \in P <=> q \in p .. z /\ q + l <= z /\ \A k \in 1 .. l : b[q + k - 1] = needle[k]
  <2>1. Text(p, z) \cup {z} = p .. z
    BY TextIs
  <2>2. ASSUME NEW q \in p .. z
        PROVE  Bytewise(b, q, l) = needle <=> \A k \in 1 .. l : b[q + k - 1] = needle[k]
    <3>1. needle = [k \in 1 .. l |-> needle[k]]
      BY <1>1
    <3>2. QED
      BY <3>1 DEF Bytewise
  <2>3. QED
    BY <2>1, <2>2
<1> HIDE DEF P
<1>3. ASSUME NEW q \in p .. z PROVE q \in P <=> Matches(b, q, needle)
  <2>1. ASSUME q \in P PROVE Matches(b, q, needle)
    <3>1. \A k \in 1 .. l : q + k <= Size /\ b[q + k - 1] = needle[k]
      BY <1>0, <1>2, <2>1
    <3>2. QED
      BY <1>1, <3>1 DEF Matches
  <2>2. ASSUME Matches(b, q, needle) PROVE q \in P
    <3>1. \A k \in 1 .. l : b[q + k - 1] = needle[k]
      BY <1>1, <2>2 DEF Matches
    <3>2. q + l <= z
      <4>1. SUFFICES ASSUME q + l > z PROVE FALSE
        BY <1>0
      <4> DEFINE k == z - q + 1
      <4>2. k \in 1 .. l /\ q + k - 1 = z
        BY <1>0, <4>1
      <4> HIDE DEF k
      <4>3. needle[k] = 0
        BY <1>0, <3>1, <4>2
      <4>4. QED
        BY <1>1, <4>2, <4>3
    <3>3. QED
      BY <1>2, <3>1, <3>2
  <2>3. QED
    BY <2>1, <2>2
<1>4. ASSUME needle = <<>> PROVE IsLeast(strstr(b, p, needle), P)
  <2>1. strstr(b, p, needle) = p
    BY <1>4 DEF strstr
  <2>2. l = 0
    BY <1>4 DEF l
  <2>3. p \in P /\ \A q \in P : p <= q
    BY <1>0, <1>2, <2>2
  <2>4. QED
    BY <2>1, <2>3 DEF IsLeast
<1>5. ASSUME needle # <<>> PROVE IsLeast(strstr(b, p, needle), P)
  <2>1. strstr(b, p, needle) = IF b[a] = 0 THEN Null ELSE a
    BY <1>5 DEF strstr
  <2>2. a \in Int /\ FirstStop(a, p, stops, Size)
    <3> HIDE DEF stops
    <3>1. QED
      BY <1>0, ScanFinds
  <2>3. /\ z \in stops
        /\ \A q : q \in stops <=> q \in Nat /\ q < Size /\ (b[q] = 0 \/ Matches(b, q, needle))
    BY <1>0, Addresses
  <2> HIDE DEF a, stops
  <2>4. a \in p .. z /\ \A k \in p .. a - 1 : k \notin stops
    BY <1>0, <2>2, <2>3 DEF FirstStop
  <2>5. b[a] = 0 \/ Matches(b, a, needle)
    BY <1>0, <2>2, <2>3, <2>4 DEF FirstStop
  <2>6. b[a] = 0 <=> a = z
    BY <1>0, <2>4 DEF EndsAt
  <2>7. \A q \in P : a <= q
    <3> TAKE q \in P
    <3>1. q \in p .. z
      BY <1>2
    <3>2. q \in stops
      BY <1>0, <1>3, <2>3, <3>1
    <3>3. QED
      BY <2>4, <3>1, <3>2
  <2>8. z \notin P
    <3>1. l > 0
      BY <1>5 DEF l
    <3>2. QED
      BY <1>0, <1>2, <3>1
  <2>9. CASE a = z
    <3>1. P = {}
      <4>1. \A q \in P : q = z
        BY <1>0, <1>2, <2>7, <2>9
      <4>2. QED
        BY <2>8, <4>1
    <3>2. QED
      BY <2>1, <2>6, <2>9, <3>1 DEF IsLeast
  <2>10. CASE a # z
    <3>1. a \in P
      BY <1>3, <2>4, <2>5, <2>6, <2>10
    <3>2. QED
      BY <2>1, <2>6, <2>7, <2>10, <3>1 DEF IsLeast
  <2>11. QED
    BY <2>9, <2>10
<1>6. QED
  BY <1>4, <1>5 DEF P, l

LEMMA FindStringDoes ==
  ASSUME Basic, Fresh, NEW d \in Address, NEW needle \in Needles, FindString(d, needle)
  PROVE  m' \in Memory /\ Called("strstr") /\ SearchesFindTheFirst'
<1> DEFINE z == d + strlen(m, d)
           P == {a \in Text(d, z) \cup {z} : a + Len(needle) <= z /\ Bytewise(m, a, Len(needle)) = needle}
           ret == strstr(m, d, needle)
<1>0. m \in Memory /\ before = m /\ d \in Nat /\ Size \in Nat /\ needle \in Seq(Bytes \ {0})
  BY Addresses, MemoryAssumption DEF Basic
<1>1. call'.fn = "strstr" /\ call'.d = d /\ call'.text = needle /\ call'.ret = ret /\ m' = m
  BY DEF FindString, Done, Call, NoCall
<1>2. Called("strstr")
  BY <1>1 DEF FindString, Done, Called, Basic, Fresh, NoCall
<1>3. m' \in Memory
  BY <1>0, <1>1
<1>4. z \in Nat /\ EndsAt(m, d, z)
  <2>1. \E a \in d .. Size - 1 : m[a] = 0
    BY DEF FindString, IsString
  <2>2. QED
    BY <1>0, <2>1, StringEnds
<1> HIDE DEF z
<1>5. IsLeast(ret, P)
  BY <1>0, <1>4, StrstrFinds
<1> HIDE DEF ret
<1>6. P = {a \in {x \in Address : d <= x /\ x < z} \cup {z} :
             a + Len(needle) <= z /\ Bytewise(m', a, Len(needle)) = needle}
  BY <1>1 DEF Text
<1> HIDE DEF P
<1>7. SearchesFindTheFirst'
  BY <1>1, <1>5, <1>6 DEF SearchesFindTheFirst, z
<1>8. QED
  BY <1>2, <1>3, <1>7

-----------------------------------------------------------------------------
(***************************************************************************)
(* The string that strtok takes apart.                                     *)
(***************************************************************************)
End == call.d + strlen(before, call.d)

\* Between two calls: how far the string is taken apart, and into what.
Parsed ==
  call.fn = "strtok" =>
    /\ call.d \in Address
    /\ 0 \notin call.set
    /\ End \in Nat /\ EndsAt(before, call.d, End)
    /\ last \in call.d .. End \cup {Null}
    /\ call.ret = Null => last = Null
    /\ Split(before, m, call.d, call.set, End, Upto(last, End), tokens)

LEMMA TokenizeDoes ==
  ASSUME Basic, Parsed, NEW d \in Address, NEW set \in SUBSET (Bytes \ {0}), Tokenize(d, set)
  PROVE  /\ m' \in Memory /\ before' = before /\ call'.fn = "strtok"
         /\ Parsed'
<1> DEFINE p == IF Fresh THEN d ELSE last
           z == d + strlen(before, d)
           x == strtok(m, p, set)
           r == IF p = Null THEN [buf |-> m, last |-> Null, ret |-> Null] ELSE x
<1>0. m \in Memory /\ before \in Memory /\ d \in Nat /\ 0 \notin set /\ Size \in Nat /\ d # Null
  <2>1. before \in Memory
    BY MemoryAssumption DEF Basic, Memory
  <2>2. d \in Nat /\ d # Null /\ Size \in Nat
    BY Addresses DEF Null
  <2>3. QED
    BY <2>1, <2>2 DEF Basic
<1>1. /\ m' = r.buf /\ last' = r.last /\ before' = before
      /\ tokens' = IF r.ret = Null THEN tokens ELSE Append(tokens, r.ret)
      /\ call' = [Call("strtok") EXCEPT !.d = d, !.set = set, !.ret = r.ret]
  BY DEF Tokenize
<1>2. call'.fn = "strtok" /\ call'.d = d /\ call'.set = set /\ call'.ret = r.ret
  BY <1>1 DEF Call, NoCall
<1>3. /\ z \in Nat /\ EndsAt(before, d, z)
      /\ last \in d .. z \cup {Null}
      /\ Fresh \/ Split(before, m, d, set, z, Upto(last, z), tokens)
  <2>1. CASE Fresh
    <3>1. before = m /\ last = Null
      BY <2>1 DEF Basic, Fresh, NoCall
    <3>2. \E a \in d .. Size - 1 : m[a] = 0
      BY <2>1 DEF Tokenize, IsString
    <3>3. strlen(m, d) \in Nat /\ EndsAt(m, d, d + strlen(m, d))
      BY <1>0, <3>2, StringEnds
    <3>4. QED
      BY <1>0, <2>1, <3>1, <3>3
  <2>2. CASE ~ Fresh
    <3>1. call.fn = "strtok" /\ d = call.d /\ set = call.set
      BY <2>2 DEF Tokenize
    <3>2. End = z
      BY <3>1 DEF End
    <3> HIDE DEF z
    <3>3. QED
      BY <3>1, <3>2 DEF Parsed
  <2>3. QED
    BY <2>1, <2>2
<1> HIDE DEF z
<1>4. CASE p # Null
  <2>1. p \in Nat /\ p <= z /\ Split(before, m, d, set, z, p, tokens)
    <3>1. CASE Fresh
      <4>1. p = d /\ before = m /\ tokens = <<>> /\ d <= z /\ z \in Nat
        BY <1>3, <3>1 DEF Basic, Fresh, NoCall, EndsAt
      <4>2. Split(before, m, d, set, z, d, <<>>)
        BY <1>0, <4>1 DEF Split
      <4>3. QED
        BY <1>0, <4>1, <4>2
    <3>2. CASE ~ Fresh
      <4>1. p = last /\ last \in d .. z /\ Upto(last, z) = last
        BY <1>3, <1>4, <3>2 DEF Upto
      <4>2. QED
        BY <1>0, <1>3, <3>2, <4>1
    <3>3. QED
      BY <3>1, <3>2
  <2>2. r = x
    BY <1>4
  <2> HIDE DEF p
  <2>3. /\ x.buf \in Memory
        /\ x.last \in d .. z \cup {Null}
        /\ x.ret = Null => x.last = Null
        /\ Split(before, x.buf, d, set, z, Upto(x.last, z),
                 IF x.ret = Null THEN tokens ELSE Append(tokens, x.ret))
    BY <1>0, <1>3, <2>1, StrtokSplits
  <2> HIDE DEF x, r
  <2>4. /\ m' = x.buf /\ last' = x.last /\ call'.ret = x.ret
        /\ tokens' = IF x.ret = Null THEN tokens ELSE Append(tokens, x.ret)
    BY <1>1, <1>2, <2>2
  <2>5. End' = z
    BY <1>1, <1>2 DEF End, z
  <2>6. Parsed'
    <3>1. Split(before', m', call'.d, call'.set, End', Upto(last', End'), tokens')
      BY <1>1, <1>2, <2>3, <2>4, <2>5
    <3>2. EndsAt(before', call'.d, End') /\ last' \in call'.d .. End' \cup {Null}
      BY <1>1, <1>2, <1>3, <2>3, <2>4, <2>5
    <3>3. QED
      BY <1>0, <1>2, <1>3, <2>3, <2>4, <2>5, <3>1, <3>2 DEF Parsed
  <2>7. QED
    BY <1>1, <1>2, <2>3, <2>4, <2>6
<1>5. CASE p = Null
  <2>1. ~ Fresh /\ last = Null
    BY <1>0, <1>5
  <2>2. /\ m' = m /\ last' = last /\ call'.ret = Null /\ tokens' = tokens
    BY <1>1, <1>2, <1>5, <2>1
  <2> HIDE DEF r, p, x
  <2>3. End' = z
    BY <1>1, <1>2 DEF End, z
  <2>4. Split(before', m', call'.d, call'.set, End', Upto(last', End'), tokens')
    BY <1>1, <1>2, <1>3, <2>1, <2>2, <2>3
  <2>5. EndsAt(before', call'.d, End') /\ last' \in call'.d .. End' \cup {Null}
    BY <1>1, <1>2, <1>3, <2>2, <2>3
  <2>6. Parsed'
    BY <1>0, <1>2, <1>3, <2>1, <2>2, <2>3, <2>4, <2>5 DEF Parsed
  <2>7. QED
    BY <1>0, <1>1, <1>2, <2>2, <2>6
<1>6. QED
  BY <1>4, <1>5

LEMMA WordsBegin ==
  ASSUME NEW a
  PROVE  a \in Words <=> a \in Address /\ Begins(before, call.d, call.set, End, a)
BY DEF Words, Begins, InWord, End

LEMMA TokensParsed ==
  ASSUME Basic, Parsed
  PROVE  TokensAreWords /\ last \in Address \cup {Null} /\ \A k \in DOMAIN tokens : tokens[k] \in Address
<1>1. CASE call.fn # "strtok"
  BY <1>1 DEF Basic, TokensAreWords
<1>2. CASE call.fn = "strtok"
  <2> DEFINE b == before
             d == call.d
             set == call.set
             z == End
             p == Upto(last, z)
             n == Len(tokens)
  <2>0. m \in Memory /\ b \in Memory /\ Size \in Nat
    BY ZenonT(60), Addresses, MemoryAssumption DEF Basic, Memory
  <2>1. /\ d \in Nat /\ z \in Nat /\ z \in d .. Size - 1 /\ EndsAt(b, d, z)
        /\ last \in d .. z \cup {Null} /\ (call.ret = Null => last = Null)
    BY <1>2, Addresses DEF Parsed, EndsAt
  <2>2. Split(b, m, d, set, z, p, tokens)
    BY <1>2 DEF Parsed
  <2>3. /\ tokens \in Seq(Nat) /\ DOMAIN tokens = 1 .. n /\ n \in Nat /\ p \in d .. z + 1
        /\ \A k \in 1 .. n : tokens[k] \in Nat
    BY <2>2 DEF Split
  <2>4. last \in Address \cup {Null}
    BY <2>0, <2>1, Addresses
  <2>5. \A k \in 1 .. n : \A j \in 1 .. k - 1 : tokens[j] < tokens[k]
    BY <2>2 DEF Split
  <2>6. \A k \in 1 .. n :
          /\ Begins(b, d, set, z, tokens[k])
          /\ \E e \in tokens[k] .. p - 1 : e <= z /\ WordAt(b, m, set, tokens[k], e)
    BY <2>2 DEF Split
  <2>7. \A a \in d .. p - 1 : Begins(b, d, set, z, a) => \E k \in 1 .. n : tokens[k] = a
    BY <2>2 DEF Split
  <2>8. \A a : a \in Words <=> a \in Address /\ Begins(b, d, set, z, a)
    BY WordsBegin
  <2> HIDE DEF p, b, d, z, set, n
  <2>9. \A k \in 1 .. n : tokens[k] \in Address /\ tokens[k] \in Words
    <3> TAKE k \in 1 .. n
    <3>1. tokens[k] < z
      BY <2>6 DEF Begins, InWord
    <3>2. tokens[k] \in Address
      BY <2>0, <2>1, <2>3, <3>1, Addresses
    <3>3. QED
      BY <2>6, <2>8, <3>2
  <2>10. ASSUME NEW k \in 1 .. n, NEW a \in Words, a < tokens[k]
         PROVE  \E j \in 1 .. k - 1 : tokens[j] = a
    <3>1. a \in Nat /\ d <= a /\ Begins(b, d, set, z, a)
      BY <2>8, Addresses DEF Begins
    <3>2. PICK e \in tokens[k] .. p - 1 : e <= z /\ WordAt(b, m, set, tokens[k], e)
      BY <2>6
    <3>3. a \in d .. p - 1
      BY <2>1, <2>3, <2>10, <3>1, <3>2
    <3>4. PICK j \in 1 .. n : tokens[j] = a
      BY <2>7, <3>1, <3>3
    <3>5. j # k
      BY <2>3, <2>10, <3>1, <3>4
    <3>6. ~ (j > k)
      <4>1. SUFFICES ASSUME j > k PROVE FALSE
        OBVIOUS
      <4>2. k \in 1 .. j - 1
        BY <2>3, <4>1
      <4>3. tokens[k] < tokens[j]
        BY <2>5, <4>2
      <4>4. QED
        BY <2>3, <2>10, <3>1, <3>4, <4>3
    <3>7. j \in 1 .. k - 1
      BY <2>3, <3>5, <3>6
    <3>8. QED
      BY <3>4, <3>7
  <2>11. ASSUME NEW k \in 1 .. n
         PROVE  StringAt(m, tokens[k]) = Bytewise(b, tokens[k], strcspn(b, tokens[k], set))
    <3> DEFINE t == tokens[k]
    <3>1. PICK e \in t .. p - 1 : e <= z /\ WordAt(b, m, set, t, e)
      BY <2>6
    <3>2. t \in Nat /\ d <= t /\ t < z /\ e \in Nat /\ t <= e
      BY <2>1, <2>3, <2>6, <3>1 DEF Begins, InWord
    <3> HIDE DEF t
    <3>3. EndsAt(b, t, z)
      BY <2>0, <2>1, <3>2 DEF EndsAt
    <3> DEFINE l == strcspn(b, t, set)
               q == t + l
    <3>4. l \in Nat /\ q \in Nat /\ WordEnds(b, t, set, q, z)
      BY <2>0, <2>1, <3>2, <3>3, StrcspnFinds
    <3> HIDE DEF l
    <3>5. q = e
      <4>1. /\ q \in t .. z /\ (b[q] = 0 \/ b[q] \in set)
            /\ \A a \in t .. q - 1 : b[a] # 0 /\ b[a] \notin set
        BY <3>4 DEF WordEnds
      <4>2. /\ b[e] = 0 \/ b[e] \in set
            /\ \A a \in t .. e - 1 : b[a] # 0 /\ b[a] \notin set
        BY <3>1 DEF WordAt
      <4> HIDE DEF q
      <4>3. ~ (q < e)
        <5>1. q < e => q \in t .. e - 1
          BY <3>2, <3>4, <4>1
        <5>2. QED
          BY <4>1, <4>2, <5>1
      <4>4. ~ (e < q)
        <5>1. e < q => e \in t .. q - 1
          BY <3>2, <3>4, <4>1
        <5>2. QED
          BY <4>1, <4>2, <5>1
      <4>5. QED
        BY <3>2, <3>4, <4>3, <4>4
    <3>6. l = e - t /\ l \in Nat
      BY <3>2, <3>4, <3>5
    <3>7. EndsAt(m, t, e)
      <4>1. e \in t .. Size - 1 /\ m[e] = 0
        BY <2>0, <2>1, <3>1, <3>2 DEF WordAt
      <4>2. QED
        BY <3>1, <4>1 DEF WordAt, EndsAt
    <3>8. StringAt(m, t) = Bytewise(m, t, e - t)
      BY <2>0, <3>2, <3>7, StringLength
    <3>9. SameBytes(m, t, b, t, l)
      <4>1. \A i \in 0 .. l - 1 : t + i \in t .. e - 1
        BY <3>2, <3>6
      <4>2. QED
        BY <3>1, <4>1 DEF WordAt, SameBytes
    <3>10. Bytewise(m, t, l) = Bytewise(b, t, l)
      BY <2>0, <3>2, <3>6, <3>9, BytewiseEqual
    <3>11. QED
      BY <3>6, <3>8, <3>10 DEF l, t
  <2>12. ASSUME call.ret = Null PROVE n = Cardinality(Words)
    <3>1. p = z + 1
      BY <2>1, <2>12 DEF Upto, p
    <3>2. \A a \in Words : \E k \in 1 .. n : tokens[k] = a
      <4> TAKE a \in Words
      <4>1. a \in Nat /\ d <= a /\ a < z /\ Begins(b, d, set, z, a)
        BY <2>8, Addresses DEF Begins, InWord
      <4>2. a \in d .. p - 1
        BY <2>1, <3>1, <4>1
      <4>3. QED
        BY <2>7, <4>1, <4>2
    <3>3. tokens \in [1 .. n -> Words]
      BY <2>3, <2>9
    <3>4. \A k, j \in 1 .. n : tokens[k] = tokens[j] => k = j
      <4> TAKE k, j \in 1 .. n
      <4>1. CASE j < k
        <5>1. j \in 1 .. k - 1
          BY <4>1
        <5>2. QED
          BY <2>3, <2>5, <5>1
      <4>2. CASE k < j
        <5>1. k \in 1 .. j - 1
          BY <4>2
        <5>2. QED
          BY <2>3, <2>5, <5>1
      <4>3. QED
        BY <4>1, <4>2
    <3>5. tokens \in Bijection(1 .. n, Words)
      BY <3>2, <3>3, <3>4 DEF Bijection, Injection, Surjection, IsInjective
    <3>6. ExistsBijection(1 .. n, Words)
      BY <3>5 DEF ExistsBijection
    <3>7. IsFiniteSet(1 .. n) /\ Cardinality(1 .. n) = n
      <4>1. IsFiniteSet(1 .. n) /\ Cardinality(1 .. n) = IF 1 > n THEN 0 ELSE n - 1 + 1
        BY <2>3, FS_Interval
      <4>2. QED
        BY <2>3, <4>1
    <3>8. Cardinality(Words) = Cardinality(1 .. n)
      BY <3>6, <3>7, FS_Bijection
    <3>9. QED
      BY <3>7, <3>8
  <2>13. TokensAreWords
    BY <2>3, <2>5, <2>9, <2>10, <2>11, <2>12 DEF TokensAreWords, n, b, set
  <2>14. QED
    BY <2>3, <2>4, <2>9, <2>13
<1>3. QED
  BY <1>1, <1>2

-----------------------------------------------------------------------------
(***************************************************************************)
(* The theorems.  A call is made in a fresh state, and only strtok can be  *)
(* called again: what holds after a call holds of the behaviour.           *)
(***************************************************************************)
Works == BlocksArrive /\ StringsArrive /\ OrderIsLexical /\ SearchesFindTheFirst

StringsInv == Basic /\ Parsed /\ Works

\* Each property is about its own functions.
LEMMA OthersHold ==
  ASSUME NEW f, call'.fn = f
  PROVE  /\ f \notin {"memcpy", "memmove", "copy", "copy_backward", "move", "move_backward",
                      "memset", "remove", "copy_if", "transform", "transform1", "swap"}
              => BlocksArrive'
         /\ f \notin {"strcpy", "strcat", "strncpy", "strncat"} => StringsArrive'
         /\ f \notin {"memcmp", "strcmp", "strncmp"} => OrderIsLexical'
         /\ f \notin {"memchr", "strchr", "strrchr", "strspn", "strcspn", "strpbrk",
                      "find_if", "find_if_not", "count_if", "strstr"} => SearchesFindTheFirst'
<1>1. f \notin {"memcpy", "memmove", "copy", "copy_backward", "move", "move_backward",
                "memset", "remove", "copy_if", "transform", "transform1", "swap"} => BlocksArrive'
  BY DEF BlocksArrive
<1>2. f \notin {"strcpy", "strcat", "strncpy", "strncat"} => StringsArrive'
  BY DEF StringsArrive
<1>3. f \notin {"memcmp", "strcmp", "strncmp"} => OrderIsLexical'
  BY DEF OrderIsLexical
<1>4. f \notin {"memchr", "strchr", "strrchr", "strspn", "strcspn", "strpbrk",
                "find_if", "find_if_not", "count_if", "strstr"} => SearchesFindTheFirst'
  BY DEF SearchesFindTheFirst
<1>5. QED
  BY <1>1, <1>2, <1>3, <1>4

LEMMA CalledKeeps ==
  ASSUME Basic, NEW f, f # "none", f # "strtok", m' \in Memory, Called(f)
  PROVE  Basic' /\ Parsed'
<1>1. call'.fn = f /\ before' = before /\ last' = Null /\ tokens' = <<>>
  BY DEF Called
<1>2. ~ Fresh'
  BY <1>1 DEF Fresh, NoCall
<1>3. QED
  BY <1>1, <1>2 DEF Basic, Parsed

LEMMA StepKeeps == StringsInv /\ [StringsNext]_vars => StringsInv'
<1> SUFFICES ASSUME Basic, Parsed, Works, [StringsNext]_vars PROVE StringsInv'
  BY DEF StringsInv
<1>1. ASSUME Fresh, NEW f \in {"memcpy", "memmove", "copy", "copy_backward", "move", "move_backward"},
             NEW d \in Address, NEW s \in Address, NEW n \in Lengths, Move(f, d, s, n)
      PROVE  StringsInv'
  <2>1. m' \in Memory /\ Called(f) /\ BlocksArrive' /\ f # "none" /\ f # "strtok"
    BY <1>1, MoveDoes
  <2>2. QED
    BY <1>1, <2>1, CalledKeeps, OthersHold DEF Called, StringsInv, Works
<1>2. ASSUME Fresh, NEW d \in Address, NEW s \in Address, Swap(d, s)
      PROVE  StringsInv'
  <2>1. m' \in Memory /\ Called("swap") /\ BlocksArrive'
    BY <1>2, SwapDoes
  <2>2. QED
    BY <2>1, CalledKeeps, OthersHold DEF Called, StringsInv, Works
<1>3. ASSUME Fresh, NEW d \in Address, NEW s \in Address, NEW n \in Lengths, Transform1(d, s, n)
      PROVE  StringsInv'
  <2>1. m' \in Memory /\ Called("transform1") /\ BlocksArrive'
    BY <1>3, Transform1Does
  <2>2. QED
    BY <2>1, CalledKeeps, OthersHold DEF Called, StringsInv, Works
<1>4. ASSUME Fresh, NEW d \in Address, NEW s \in Address, NEW n \in Lengths, NEW t \in Address,
             Transform(d, s, t, n)
      PROVE  StringsInv'
  <2>1. m' \in Memory /\ Called("transform") /\ BlocksArrive'
    BY <1>4, TransformDoes
  <2>2. QED
    BY <2>1, CalledKeeps, OthersHold DEF Called, StringsInv, Works
<1>5. ASSUME Fresh, NEW d \in Address, NEW s \in Address, NEW n \in Lengths,
             NEW set \in SUBSET Bytes, CopyIf(d, s, n, set)
      PROVE  StringsInv'
  <2>1. m' \in Memory /\ Called("copy_if") /\ BlocksArrive'
    BY <1>5, CopyIfDoes
  <2>2. QED
    BY <2>1, CalledKeeps, OthersHold DEF Called, StringsInv, Works
<1>6. ASSUME Fresh, NEW f \in {"strcpy", "strcat", "strncpy", "strncat"}, NEW d \in Address,
             NEW s \in Address, NEW n \in Lengths, CopyString(f, d, s, n)
      PROVE  StringsInv'
  <2>1. m' \in Memory /\ Called(f) /\ StringsArrive' /\ f # "none" /\ f # "strtok"
    BY <1>6, CopyStringDoes
  <2>2. QED
    BY <1>6, <2>1, CalledKeeps, OthersHold DEF Called, StringsInv, Works
<1>7. ASSUME Fresh, NEW f \in {"memcmp", "strcmp", "strncmp"}, NEW d \in Address,
             NEW s \in Address, NEW n \in Lengths, Compare(f, d, s, n)
      PROVE  StringsInv'
  <2>1. m' \in Memory /\ Called(f) /\ OrderIsLexical' /\ f # "none" /\ f # "strtok"
    BY <1>7, CompareDoes
  <2>2. QED
    BY <1>7, <2>1, CalledKeeps, OthersHold DEF Called, StringsInv, Works
<1>8. ASSUME Fresh, NEW d \in Address, NEW c \in Ints, NEW n \in 0 .. Size, Set(d, c, n)
      PROVE  StringsInv'
  <2>1. m' \in Memory /\ Called("memset") /\ BlocksArrive'
    BY <1>8, SetDoes
  <2>2. QED
    BY <2>1, CalledKeeps, OthersHold DEF Called, StringsInv, Works
<1>9. ASSUME Fresh, NEW d \in Address, NEW n \in 0 .. Size, NEW set \in SUBSET Bytes,
             Remove(d, n, set)
      PROVE  StringsInv'
  <2>1. m' \in Memory /\ Called("remove") /\ BlocksArrive'
    BY <1>9, RemoveDoes
  <2>2. QED
    BY <2>1, CalledKeeps, OthersHold DEF Called, StringsInv, Works
<1>10. ASSUME Fresh, NEW d \in Address, NEW n \in 0 .. Size, NEW set \in SUBSET Bytes,
              NEW f \in {"find_if", "find_if_not", "count_if"}, InRange(f, d, n, set)
       PROVE  StringsInv'
  <2>1. m' \in Memory /\ Called(f) /\ SearchesFindTheFirst' /\ f # "none" /\ f # "strtok"
    BY <1>10, InRangeDoes
  <2>2. QED
    BY <1>10, <2>1, CalledKeeps, OthersHold DEF Called, StringsInv, Works
<1>11. ASSUME Fresh, NEW f \in {"strchr", "strrchr"}, NEW d \in Address,
              NEW c \in Ints, FindByte(f, d, c)
       PROVE  StringsInv'
  <2>1. m' \in Memory /\ Called(f) /\ SearchesFindTheFirst' /\ f # "none" /\ f # "strtok"
    BY <1>11, FindByteDoes
  <2>2. QED
    BY <1>11, <2>1, CalledKeeps, OthersHold DEF Called, StringsInv, Works
<1>12. ASSUME Fresh, NEW f \in {"strspn", "strcspn", "strpbrk"}, NEW d \in Address,
              NEW set \in SUBSET (Bytes \ {0}), FindSet(f, d, set)
       PROVE  StringsInv'
  <2>1. m' \in Memory /\ Called(f) /\ SearchesFindTheFirst' /\ f # "none" /\ f # "strtok"
    BY <1>12, FindSetDoes
  <2>2. QED
    BY <1>12, <2>1, CalledKeeps, OthersHold DEF Called, StringsInv, Works
<1>13. ASSUME Fresh, NEW d \in Address, NEW needle \in Needles, FindString(d, needle)
       PROVE  StringsInv'
  <2>1. m' \in Memory /\ Called("strstr") /\ SearchesFindTheFirst'
    BY <1>13, FindStringDoes
  <2>2. QED
    BY <2>1, CalledKeeps, OthersHold DEF Called, StringsInv, Works
<1>14. ASSUME NEW d \in Address, NEW set \in SUBSET (Bytes \ {0}), Tokenize(d, set)
       PROVE  StringsInv'
  <2>1. m' \in Memory /\ before' = before /\ call'.fn = "strtok" /\ Parsed'
    BY <1>14, TokenizeDoes
  <2>2. ~ Fresh'
    BY <2>1 DEF Fresh, NoCall
  <2>3. Basic'
    BY <2>1, <2>2 DEF Basic
  <2>4. QED
    BY <2>1, <2>3, OthersHold DEF StringsInv, Works
<1>15. CASE UNCHANGED vars
  <2>1. m' = m /\ before' = before /\ call' = call /\ last' = last /\ tokens' = tokens
    BY <1>15 DEF vars
  <2>2. Basic'
    BY <2>1 DEF Basic, Fresh
  <2>3. Parsed'
    BY <2>1 DEF Parsed, End
  <2>4. BlocksArrive'
    BY <2>1 DEF Works, BlocksArrive, Elsewhere
  <2>5. StringsArrive'
    BY <2>1 DEF Works, StringsArrive, Elsewhere
  <2>6. OrderIsLexical'
    BY <2>1 DEF Works, OrderIsLexical
  <2>7. SearchesFindTheFirst'
    BY <2>1 DEF Works, SearchesFindTheFirst
  <2>8. QED
    BY <2>2, <2>3, <2>4, <2>5, <2>6, <2>7 DEF StringsInv, Works
<1>16. ASSUME Fresh, NEW d \in Address, NEW c \in Ints, NEW n \in 0 .. Size, FindInBlock(d, c, n)
       PROVE  StringsInv'
  <2>1. m' \in Memory /\ Called("memchr") /\ SearchesFindTheFirst'
    BY <1>16, FindInBlockDoes
  <2>2. QED
    BY <2>1, CalledKeeps, OthersHold DEF Called, StringsInv, Works
<1>17. QED
  BY <1>1, <1>2, <1>3, <1>4, <1>5, <1>6, <1>7, <1>8, <1>9, <1>10, <1>11, <1>12, <1>13, <1>14, <1>15,
     <1>16 DEF StringsNext

LEMMA InitKeeps == Init => StringsInv
<1> SUFFICES ASSUME Init PROVE StringsInv
  OBVIOUS
<1>1. m \in Memory /\ before \in [Address -> Bytes] /\ before = m /\ last = Null /\ tokens = <<>>
  BY MemoryAssumption DEF Init, Memory
<1>2. call.fn = "none"
  BY DEF Init, NoCall
<1>3. BlocksArrive /\ StringsArrive /\ OrderIsLexical /\ SearchesFindTheFirst
  BY <1>2 DEF BlocksArrive, StringsArrive, OrderIsLexical, SearchesFindTheFirst
<1>4. QED
  BY <1>1, <1>2, <1>3 DEF StringsInv, Basic, Parsed, Works

\* Memory holds bytes after every legal call, and what strtok remembers and returns
\* stays within it (string.cpp).
THEOREM TypeCorrect == StringsSpec => []TypeOK
<1>1. StringsInv => TypeOK
  BY TokensParsed DEF StringsInv, TypeOK, Basic, Memory
<1>2. QED
  BY <1>1, InitKeeps, StepKeeps, PTL DEF StringsSpec

\* Whatever the memory, the blocks and where they overlap, what memcpy, memmove, memset and
\* the algorithms copy, keep or transform arrives, and nothing else changes.
THEOREM BlocksAlwaysArrive == StringsSpec => []BlocksArrive
<1>1. StringsInv => BlocksArrive
  BY DEF StringsInv, Works
<1>2. QED
  BY <1>1, InitKeeps, StepKeeps, PTL DEF StringsSpec

\* strcpy, strcat, strncpy and strncat make the strings C says, and write at most one byte
\* more than it says.
THEOREM StringsAlwaysArrive == StringsSpec => []StringsArrive
<1>1. StringsInv => StringsArrive
  BY DEF StringsInv, Works
<1>2. QED
  BY <1>1, InitKeeps, StepKeeps, PTL DEF StringsSpec

\* memcmp, strcmp and strncmp are the order of the dictionary.
THEOREM OrderIsAlwaysLexical == StringsSpec => []OrderIsLexical
<1>1. StringsInv => OrderIsLexical
  BY DEF StringsInv, Works
<1>2. QED
  BY <1>1, InitKeeps, StepKeeps, PTL DEF StringsSpec

\* Every search returns the first place there is, strrchr the last, and a null pointer or
\* the end only when there is none.
THEOREM SearchesAlwaysFindTheFirst == StringsSpec => []SearchesFindTheFirst
<1>1. StringsInv => SearchesFindTheFirst
  BY DEF StringsInv, Works
<1>2. QED
  BY <1>1, InitKeeps, StepKeeps, PTL DEF StringsSpec

\* However often strtok is called, it returns the words of the string as it was, each once
\* and in order, and a null pointer only when all have been returned.
THEOREM TokensAreAlwaysWords == StringsSpec => []TokensAreWords
<1>1. StringsInv => TokensAreWords
  BY TokensParsed DEF StringsInv
<1>2. QED
  BY <1>1, InitKeeps, StepKeeps, PTL DEF StringsSpec
================================================================================
