-------------------------------- MODULE Strings --------------------------------
(***************************************************************************)
(* The memory and string functions of libk (string.cpp, algorithm.hpp) on  *)
(* a small memory of bytes, where source and destination really overlap    *)
(* and a terminator really ends a string.  A behaviour is one legal call,  *)
(* or one string taken apart by strtok, call by call.  A loop is a         *)
(* function of its counter; the properties say what the calls are for.     *)
(***************************************************************************)
EXTENDS Integers, Sequences, FiniteSets

CONSTANTS
  Size,     \* bytes of memory
  Bytes,    \* values of a byte, 0 the terminator
  Needles   \* strings strstr looks for

ASSUME MemoryAssumption ==
  /\ Size \in Nat \ {0}
  /\ {0, 1} \subseteq Bytes /\ Bytes \subseteq 0 .. 255
  /\ Needles \subseteq Seq(Bytes \ {0})

Address == 0 .. Size - 1
\* A character is passed as an int, negative for a signed char, of which the
\* callee takes the lowest byte (string.cpp:52, 74, 162, 175).
Ints == {c + w : c \in Bytes, w \in {-256, 0}}
AsByte(c) == c % 256
Null == -1

VARIABLES
  m,       \* memory
  before,  \* memory before the calls
  call,    \* the call made: its name, arguments and result
  last,    \* the static variable of strtok
  tokens   \* addresses strtok has returned

vars == <<m, before, call, last, tokens>>

NoCall == [fn |-> "none", d |-> 0, s |-> 0, n |-> 0, set |-> {}, text |-> <<>>,
           written |-> [s |-> <<>>, args |-> <<>>], ret |-> 0]

TypeOK ==
  /\ m \in [Address -> 0 .. 255]
  /\ last \in Address \cup {Null}
  /\ \A k \in DOMAIN tokens : tokens[k] \in Address

Init ==
  /\ m \in [Address -> Bytes]
  /\ before = m
  /\ call = NoCall
  /\ last = Null
  /\ tokens = <<>>
-----------------------------------------------------------------------------
(***************************************************************************)
(* Blocks of memory: b is a memory.  A loop's function has the state after *)
(* 0, 1, 2 ... rounds, or, of a range, before each of its elements.        *)
(***************************************************************************)
Moved(b, d, s) == [b EXCEPT ![d] = b[s]]

Forward(b, d, s, n) ==
  LET f[i \in 0 .. n] == IF i = 0 THEN b ELSE Moved(f[i - 1], d + i - 1, s + i - 1)
  IN  f[n]
Backward(b, d, s, n) ==
  LET f[i \in 0 .. n] == IF i = 0 THEN b ELSE Moved(f[i - 1], d + n - i, s + n - i)
  IN  f[n]

memcpy(b, d, s, n) == Forward(b, d, s, n)
memset(b, d, c, n) == [a \in Address |-> IF a \in d .. d + n - 1 THEN AsByte(c) ELSE b[a]]

\* Planted fault: always forward.
MemmoveForward(b, d, s, n) == Forward(b, d, s, n)
memmove(b, d, s, n) ==
  IF d < s \/ d >= s + n THEN Forward(b, d, s, n)
  ELSE IF d > s THEN Backward(b, d, s, n)
  ELSE b

\* std::copy, std::move, std::copy_backward and std::move_backward of n elements
\* from s to d
copy(b, d, s, n) == Forward(b, d, s, n)
copy_backward(b, d, s, n) == Backward(b, d, s, n)

\* Of the elements from s to end, those in `keep` go one behind the other, from d on;
\* r.at is where the next one goes.  A set stands for a predicate.
KeepIf(r, i, keep) ==
  IF r.buf[i] \in keep THEN [buf |-> Moved(r.buf, r.at, i), at |-> r.at + 1] ELSE r
Filter(b, d, s, end, keep) ==
  LET f[i \in s .. end] == IF i = s THEN [buf |-> b, at |-> d] ELSE KeepIf(f[i - 1], i - 1, keep)
  IN  f[end]
copy_if(b, d, s, end, set) == Filter(b, d, s, end, set)

\* std::transform of n elements at s, alone or with those at t; Op is what is applied.
Op(x, y) == (2 * x + y + 1) % 256
Applied(b, d, s, t) == [b EXCEPT ![d] = Op(b[s], b[t])]
transform(b, d, s, t, n) ==
  LET f[i \in 0 .. n] ==
        IF i = 0 THEN b ELSE Applied(f[i - 1], d + i - 1, s + i - 1, t + i - 1)
  IN  f[n]
Applied1(b, d, s) == [b EXCEPT ![d] = Op(b[s], 0)]
transform1(b, d, s, n) ==
  LET f[i \in 0 .. n] == IF i = 0 THEN b ELSE Applied1(f[i - 1], d + i - 1, s + i - 1)
  IN  f[n]

\* std::swap of the bytes at d and s, by way of a third
swap(b, d, s) == LET temp == b[d] IN [[b EXCEPT ![d] = b[s]] EXCEPT ![s] = temp]

\* Where a loop that counts up from `first` leaves off: in `stops`, or at the end.
Scan(stops, first, end) ==
  LET stop[i \in first .. end] == IF i = end \/ i \in stops THEN i ELSE stop[i + 1]
  IN  stop[first]

\* std::find_if; the end when there is none.  std::count_if.
find_if(b, first, end, set) == Scan({a \in Address : b[a] \in set}, first, end)
count_if(b, first, end, set) ==
  LET ret[a \in first .. end] ==
        IF a = first THEN 0 ELSE ret[a - 1] + (IF b[a - 1] \in set THEN 1 ELSE 0)
  IN  ret[end]

\* std::remove_if: behind the first to go, the elements that stay move up one by one.
remove_if(b, begin, end, set) ==
  LET first == find_if(b, begin, end, set)
  IN  IF first = end THEN [buf |-> b, at |-> first]
      ELSE Filter(b, first, first + 1, end, 0 .. 255 \ set)

-----------------------------------------------------------------------------
(***************************************************************************)
(* Strings.  r is the state of a copying loop: where it writes next, how   *)
(* many characters it has counted, and whether it met the terminator.      *)
(***************************************************************************)
strlen(b, p) == Scan({a \in Address : b[a] = 0}, p, Size) - p

\* At most n characters, and the terminator if it is among them.
CopyChar(r, s) ==
  IF r.ended THEN r
  ELSE [buf |-> Moved(r.buf, r.d, s), d |-> r.d + 1,
        i |-> IF r.buf[s] = 0 THEN r.i ELSE r.i + 1, ended |-> r.buf[s] = 0]
Copied(b, d, s, n) ==
  LET r[i \in 0 .. n] ==
        IF i = 0 THEN [buf |-> b, d |-> d, i |-> 0, ended |-> FALSE]
        ELSE CopyChar(r[i - 1], s + i - 1)
  IN  r[n]

strcpy(b, d, s) == Copied(b, d, s, Size).buf
strcat(b, d, s) == strcpy(b, d + strlen(b, d), s)

\* Planted fault: the padding starts one byte late.
StrncpyGap(b, d, s, n) ==
  LET r == Copied(b, d, s, n) IN memset(r.buf, r.d + 1, 0, n - r.i)
\* The terminator copied is not counted, so one more is written.
strncpy(b, d, s, n) ==
  LET r == Copied(b, d, s, n) IN memset(r.buf, r.d, 0, n - r.i)

\* The terminator goes behind the one that may have been copied.
strncat(b, d, s, n) ==
  LET r == Copied(b, d + strlen(b, d), s, n) IN [r.buf EXCEPT ![r.d] = 0]

\* Offsets at which both l and r point into memory
Offsets(l, r) == {k \in Address : l + k \in Address /\ r + k \in Address}

memcmp(b, l, r, n) ==
  LET i == Scan({k \in Offsets(l, r) : b[l + k] # b[r + k]}, 0, n)
  IN  IF i = n THEN 0 ELSE IF b[l + i] < b[r + i] THEN -1 ELSE 1

strcmp(b, l, r) ==
  LET i == Scan({k \in Offsets(l, r) : b[l + k] = 0 \/ b[l + k] # b[r + k]}, 0, Size)
  IN  b[l + i] - b[r + i]

\* Planted fault: the end of both strings is not noticed.
StrncmpPastEnd(b, l, r, n) ==
  LET i == Scan({k \in Address : k \notin Offsets(l, r) \/ b[l + k] # b[r + k]}, 0, n)
  IN  IF i = n \/ i \notin Offsets(l, r) THEN 0 ELSE b[l + i] - b[r + i]
strncmp(b, l, r, n) ==
  LET i == Scan({k \in Offsets(l, r) : b[l + k] # b[r + k] \/ b[l + k] = 0}, 0, n)
  IN  IF i = n THEN 0 ELSE b[l + i] - b[r + i]

-----------------------------------------------------------------------------
\* Searches; a set stands for the characters of the second string.
memchr(b, p, c, n) ==
  LET a == Scan({q \in Address : b[q] = AsByte(c)}, p, p + n) IN IF a = p + n THEN Null ELSE a

strchr(b, p, c) ==
  LET ch == AsByte(c)
      a == Scan({q \in Address : b[q] \in {ch, 0}}, p, Size)
  IN  IF b[a] = ch THEN a ELSE Null

strrchr(b, p, c) ==
  LET end == p + strlen(b, p)
      found[a \in p - 1 .. end] ==
        IF a < p THEN Null ELSE IF b[a] = AsByte(c) THEN a ELSE found[a - 1]
  IN  found[end]

strspn(b, d, set) == Scan({a \in Address : b[a] = 0 \/ b[a] \notin set}, d, Size) - d
strcspn(b, d, set) == Scan({a \in Address : b[a] = 0 \/ b[a] \in set}, d, Size) - d
strpbrk(b, d, set) ==
  LET p == d + strcspn(b, d, set) IN IF b[p] = 0 THEN Null ELSE p

\* Planted fault: after a partial match the search goes on behind it.
StrstrNoBacktrack(b, h, needle) ==
  LET at[a \in h .. Size + 1, k \in 1 .. Len(needle) + 1] ==
        IF k > Len(needle) THEN a - Len(needle)
        ELSE IF b[a] = 0 THEN Null
        ELSE IF b[a] = needle[k] THEN at[a + 1, k + 1]
        ELSE at[a + 1, 1]
  IN  at[h, 1]

\* The loop inside strstr compares up to the first difference or the needle's end.
Matches(b, h, needle) == \A k \in DOMAIN needle : h + k <= Size /\ b[h + k - 1] = needle[k]
strstr(b, h, needle) ==
  IF needle = <<>> THEN h
  ELSE LET a == Scan({q \in Address : b[q] = 0 \/ Matches(b, q, needle)}, h, Size)
       IN  IF b[a] = 0 THEN Null ELSE a

\* Planted fault: the delimiter found is not skipped.
StrtokStays(b, p, delim) ==
  LET start == p + strspn(b, p, delim)
      end == start + strcspn(b, start, delim)
  IN  IF b[start] = 0 THEN [buf |-> b, last |-> Null, ret |-> Null]
      ELSE [buf |-> [b EXCEPT ![end] = 0], last |-> end, ret |-> start]

\* Planted fault: the terminator is skipped like a delimiter.
StrtokSkipsEnd(b, p, delim) ==
  LET start == p + strspn(b, p, delim)
      end == start + strcspn(b, start, delim)
  IN  IF b[start] = 0 THEN [buf |-> b, last |-> Null, ret |-> Null]
      ELSE [buf |-> [b EXCEPT ![end] = 0], last |-> end + 1, ret |-> start]

\* strtok from address p: the memory, `last` and the result.
strtok(b, p, delim) ==
  LET start == p + strspn(b, p, delim)
      end == start + strcspn(b, start, delim)
  IN  IF b[start] = 0 THEN [buf |-> b, last |-> Null, ret |-> Null]
      ELSE IF b[end] = 0 THEN [buf |-> b, last |-> Null, ret |-> start]
      ELSE [buf |-> [b EXCEPT ![end] = 0], last |-> end + 1, ret |-> start]

-----------------------------------------------------------------------------
(***************************************************************************)
(* Legal calls.                                                            *)
(***************************************************************************)
Fresh == call = NoCall
Room(p, n) == p + n <= Size
IsString(p) == \E a \in p .. Size - 1 : m[a] = 0
Disjoint(d, n, s, k) == d + n <= s \/ s + k <= d

Call(f) == [NoCall EXCEPT !.fn = f]
Done(c) == call' = c /\ UNCHANGED <<before, last, tokens>>

\* C and C++ say which regions may overlap.
MayMove(f, d, s, n) ==
  CASE f = "memcpy" -> Disjoint(d, n, s, n)
    [] f = "memmove" -> TRUE
    [] f \in {"copy", "move"} -> d <= s \/ d >= s + n
    [] f \in {"copy_backward", "move_backward"} -> d >= s \/ d + n <= s

Move(f, d, s, n) ==
  /\ Room(d, n) /\ Room(s, n) /\ MayMove(f, d, s, n)
  /\ m' = CASE f = "memcpy" -> memcpy(m, d, s, n)
            [] f = "memmove" -> memmove(m, d, s, n)
            [] f \in {"copy", "move"} -> copy(m, d, s, n)
            [] f \in {"copy_backward", "move_backward"} -> copy_backward(m, d, s, n)
  /\ Done([Call(f) EXCEPT !.d = d, !.s = s, !.n = n])

\* memset and std::fill
Set(d, c, n) ==
  /\ Room(d, n)
  /\ m' = memset(m, d, c, n)
  /\ Done([Call("memset") EXCEPT !.d = d, !.s = c, !.n = n])

\* std::remove is std::remove_if for one value, and so are find and count.
Remove(d, n, set) ==
  /\ Room(d, n)
  /\ LET r == remove_if(m, d, d + n, set)
     IN  m' = r.buf /\ Done([Call("remove") EXCEPT !.d = d, !.n = n, !.set = set, !.ret = r.at])

CopyIf(d, s, n, set) ==
  /\ Room(d, n) /\ Room(s, n) /\ Disjoint(d, n, s, n)
  /\ LET r == copy_if(m, d, s, s + n, set)
     IN  /\ m' = r.buf
         /\ Done([Call("copy_if") EXCEPT !.d = d, !.s = s, !.n = n, !.set = set, !.ret = r.at])

\* The result may replace an operand.  std::for_each may change what it visits.
Transform(d, s, t, n) ==
  /\ Room(d, n) /\ Room(s, n) /\ Room(t, n)
  /\ d = s \/ Disjoint(d, n, s, n)
  /\ d = t \/ Disjoint(d, n, t, n)
  /\ m' = transform(m, d, s, t, n)
  /\ Done([Call("transform") EXCEPT !.d = d, !.s = s, !.ret = t, !.n = n])
Transform1(d, s, n) ==
  /\ Room(d, n) /\ Room(s, n)
  /\ d = s \/ Disjoint(d, n, s, n)
  /\ m' = transform1(m, d, s, n)
  /\ Done([Call("transform1") EXCEPT !.d = d, !.s = s, !.n = n])

Swap(d, s) == m' = swap(m, d, s) /\ Done([Call("swap") EXCEPT !.d = d, !.s = s])

InRange(f, d, n, set) ==
  /\ Room(d, n)
  /\ UNCHANGED m
  /\ Done([Call(f) EXCEPT !.d = d, !.n = n, !.set = set,
            !.ret = CASE f = "find_if" -> find_if(m, d, d + n, set)
                      [] f = "find_if_not" -> find_if(m, d, d + n, Bytes \ set)
                      [] f = "count_if" -> count_if(m, d, d + n, set)])

\* How many bytes of the destination a string function may write, the byte
\* too many of strncpy and strncat included.
Reach(f, d, s, n) ==
  CASE f = "strcpy" -> strlen(m, s) + 1
    [] f = "strcat" -> strlen(m, d) + strlen(m, s) + 1
    [] f = "strncpy" -> IF strlen(m, s) < n THEN n + 1 ELSE n
    [] f = "strncat" -> strlen(m, d) + (IF strlen(m, s) < n THEN strlen(m, s) + 2 ELSE n + 1)

CopyString(f, d, s, n) ==
  /\ IsString(s)
  /\ f \in {"strcat", "strncat"} => IsString(d)
  /\ f \in {"strcpy", "strcat"} => n = 0
  /\ Room(d, Reach(f, d, s, n))
  /\ Disjoint(d, Reach(f, d, s, n), s, strlen(m, s) + 1)
  /\ m' = CASE f = "strcpy" -> strcpy(m, d, s)
            [] f = "strcat" -> strcat(m, d, s)
            [] f = "strncpy" -> strncpy(m, d, s, n)
            [] f = "strncat" -> strncat(m, d, s, n)
  /\ Done([Call(f) EXCEPT !.d = d, !.s = s, !.n = n])

Compare(f, d, s, n) ==
  /\ IF f = "memcmp" THEN Room(d, n) /\ Room(s, n) ELSE IsString(d) /\ IsString(s)
  /\ f = "strcmp" => n = 0
  /\ UNCHANGED m
  /\ Done([Call(f) EXCEPT !.d = d, !.s = s, !.n = n,
            !.ret = CASE f = "memcmp" -> memcmp(m, d, s, n)
                      [] f = "strcmp" -> strcmp(m, d, s)
                      [] f = "strncmp" -> strncmp(m, d, s, n)])

FindByte(f, d, c) ==
  /\ IsString(d)
  /\ UNCHANGED m
  /\ Done([Call(f) EXCEPT !.d = d, !.s = c,
            !.ret = CASE f = "strchr" -> strchr(m, d, c)
                      [] f = "strrchr" -> strrchr(m, d, c)])

FindInBlock(d, c, n) ==
  /\ Room(d, n)
  /\ UNCHANGED m
  /\ Done([Call("memchr") EXCEPT !.d = d, !.s = c, !.n = n, !.ret = memchr(m, d, c, n)])

FindSet(f, d, set) ==
  /\ IsString(d)
  /\ UNCHANGED m
  /\ Done([Call(f) EXCEPT !.d = d, !.set = set,
            !.ret = CASE f = "strspn" -> strspn(m, d, set)
                      [] f = "strcspn" -> strcspn(m, d, set)
                      [] f = "strpbrk" -> strpbrk(m, d, set)])

FindString(d, needle) ==
  /\ IsString(d)
  /\ UNCHANGED m
  /\ Done([Call("strstr") EXCEPT !.d = d, !.text = needle, !.ret = strstr(m, d, needle)])

\* The first call is given the string, the later ones a null pointer.
Tokenize(d, delim) ==
  /\ IF Fresh THEN IsString(d) ELSE call.fn = "strtok" /\ d = call.d /\ delim = call.set
  /\ LET p == IF Fresh THEN d ELSE last
         r == IF p = Null THEN [buf |-> m, last |-> Null, ret |-> Null] ELSE strtok(m, p, delim)
     IN  /\ m' = r.buf
         /\ last' = r.last
         /\ tokens' = IF r.ret = Null THEN tokens ELSE Append(tokens, r.ret)
         /\ call' = [Call("strtok") EXCEPT !.d = d, !.set = delim, !.ret = r.ret]
  /\ UNCHANGED before
Lengths == 0 .. (Size + 1) \div 2

StringsNext ==
  \/ Fresh /\ \E f \in {"memcpy", "memmove", "copy", "copy_backward", "move", "move_backward"},
                d, s \in Address, n \in Lengths : Move(f, d, s, n)
  \/ Fresh /\ \E d, s \in Address :
       \/ Swap(d, s)
       \/ \E n \in Lengths : \/ Transform1(d, s, n)
                            \/ \E t \in Address : Transform(d, s, t, n)
                            \/ \E set \in SUBSET Bytes : CopyIf(d, s, n, set)
  \/ Fresh /\ \E f \in {"strcpy", "strcat", "strncpy", "strncat"}, d, s \in Address, n \in Lengths :
       CopyString(f, d, s, n)
  \/ Fresh /\ \E f \in {"memcmp", "strcmp", "strncmp"}, d, s \in Address, n \in Lengths :
       Compare(f, d, s, n)
  \/ Fresh /\ \E d \in Address, c \in Ints, n \in 0 .. Size :
       Set(d, c, n) \/ FindInBlock(d, c, n)
  \/ Fresh /\ \E d \in Address, n \in 0 .. Size, set \in SUBSET Bytes :
       \/ Remove(d, n, set)
       \/ \E f \in {"find_if", "find_if_not", "count_if"} : InRange(f, d, n, set)
  \/ Fresh /\ \E f \in {"strchr", "strrchr"}, d \in Address, c \in Ints :
       FindByte(f, d, c)
  \/ Fresh /\ \E f \in {"strspn", "strcspn", "strpbrk"}, d \in Address, set \in SUBSET (Bytes \ {0}) :
       FindSet(f, d, set)
  \/ Fresh /\ \E d \in Address, needle \in Needles : FindString(d, needle)
  \/ \E d \in Address, set \in SUBSET (Bytes \ {0}) : Tokenize(d, set)

StringsSpec == Init /\ [][StringsNext]_vars

-----------------------------------------------------------------------------
\* What the calls are for, without loops.
Bytewise(b, p, n) == [k \in 1 .. n |-> b[p + k - 1]]
StringAt(b, p) == Bytewise(b, p, strlen(b, p))
First(text, n) == IF Len(text) <= n THEN text ELSE SubSeq(text, 1, n)
Zeros(n) == [k \in 1 .. n |-> 0]
Chosen(text, set) ==
  LET c[k \in 0 .. Len(text)] ==
        IF k = 0 THEN <<>> ELSE IF text[k] \in set THEN Append(c[k - 1], text[k]) ELSE c[k - 1]
  IN  c[Len(text)]
Elsewhere(p, n) == \A a \in Address \ (p .. p + n - 1) : m[a] = before[a]

\* A block arrives as it was, however source and destination overlap where the
\* function allows it, and nothing else changes (string.cpp:32-47, and
\* algorithm.hpp, on which scrolling rests).
BlocksArrive ==
  LET c == call
  IN  /\ c.fn \in {"memcpy", "memmove", "copy", "copy_backward", "move", "move_backward"} =>
           Bytewise(m, c.d, c.n) = Bytewise(before, c.s, c.n) /\ Elsewhere(c.d, c.n)
      /\ c.fn = "memset" => (\A a \in c.d .. c.d + c.n - 1 : m[a] = AsByte(c.s)) /\ Elsewhere(c.d, c.n)
      /\ c.fn = "remove" =>
           /\ Bytewise(m, c.d, c.ret - c.d)
                = Chosen(Bytewise(before, c.d, c.n), 0 .. 255 \ c.set)
           /\ Elsewhere(c.d, c.n)
      /\ c.fn = "copy_if" =>
           /\ Bytewise(m, c.d, c.ret - c.d)
                = Chosen(Bytewise(before, c.s, c.n), c.set)
           /\ Elsewhere(c.d, c.ret - c.d)
      /\ c.fn \in {"transform", "transform1"} =>
           /\ \A k \in 0 .. c.n - 1 :
                m[c.d + k] = Op(before[c.s + k], IF c.fn = "transform" THEN before[c.ret + k] ELSE 0)
           /\ Elsewhere(c.d, c.n)
      /\ c.fn = "swap" => /\ m[c.d] = before[c.s] /\ m[c.s] = before[c.d]
                          /\ \A a \in Address \ {c.d, c.s} : m[a] = before[a]

\* The copies read as C says, and write at most one byte more than C says
\* (strncpy and strncat, string.cpp:100-135).
StringsArrive ==
  LET c == call
      src == StringAt(before, c.s)
      dst == StringAt(before, c.d)
  IN  /\ c.fn = "strcpy" => StringAt(m, c.d) = src /\ Elsewhere(c.d, Len(src) + 1)
      /\ c.fn = "strcat" => StringAt(m, c.d) = dst \o src /\ Elsewhere(c.d, Len(dst \o src) + 1)
      /\ c.fn = "strncpy" => /\ Bytewise(m, c.d, c.n) = First(src \o Zeros(c.n), c.n)
                             /\ Elsewhere(c.d, c.n + 1)
      /\ c.fn = "strncat" => /\ StringAt(m, c.d) = dst \o First(src, c.n)
                             /\ Elsewhere(c.d, Len(dst \o First(src, c.n)) + 2)

\* s comes before t in the dictionary.
Precedes(s, t) ==
  \E k \in 0 .. Len(s) : /\ k < Len(t) /\ SubSeq(s, 1, k) = SubSeq(t, 1, k)
                         /\ k < Len(s) => s[k + 1] < t[k + 1]
Agrees(ret, s, t) == (ret < 0 <=> Precedes(s, t)) /\ (ret > 0 <=> Precedes(t, s))

\* The comparisons are the order of the dictionary, prefixes and the limit n
\* included (string.cpp:59-69, 137-158).
OrderIsLexical ==
  LET c == call
  IN  /\ c.fn = "memcmp" => Agrees(c.ret, Bytewise(m, c.d, c.n), Bytewise(m, c.s, c.n))
      /\ c.fn = "strcmp" => Agrees(c.ret, StringAt(m, c.d), StringAt(m, c.s))
      /\ c.fn = "strncmp" =>
           Agrees(c.ret, First(StringAt(m, c.d), c.n), First(StringAt(m, c.s), c.n))

IsLeast(ret, places) ==
  IF places = {} THEN ret = Null ELSE ret \in places /\ \A p \in places : ret <= p
IsGreatest(ret, places) ==
  IF places = {} THEN ret = Null ELSE ret \in places /\ \A p \in places : p <= ret

\* A search returns the first (strrchr: the last) place there is
\* (string.cpp:71-81, 160-256).
SearchesFindTheFirst ==
  LET c == call
      end == c.d + strlen(m, c.d)
      text == {a \in Address : c.d <= a /\ a < end}
      range(set) == {a \in c.d .. c.d + c.n - 1 : m[a] \in set}
  IN  /\ c.fn = "memchr" => IsLeast(c.ret, range({AsByte(c.s)}))
      /\ c.fn = "strchr" => IsLeast(c.ret, {a \in text \cup {end} : m[a] = AsByte(c.s)})
      /\ c.fn = "strrchr" => IsGreatest(c.ret, {a \in text \cup {end} : m[a] = AsByte(c.s)})
      /\ c.fn = "strspn" => IsLeast(c.d + c.ret, {a \in text : m[a] \notin c.set} \cup {end})
      /\ c.fn = "strcspn" => IsLeast(c.d + c.ret, {a \in text : m[a] \in c.set} \cup {end})
      /\ c.fn = "strpbrk" => IsLeast(c.ret, {a \in text : m[a] \in c.set})
      /\ c.fn = "find_if" => IsLeast(c.ret, range(c.set) \cup {c.d + c.n})
      /\ c.fn = "find_if_not" => IsLeast(c.ret, range(Bytes \ c.set) \cup {c.d + c.n})
      /\ c.fn = "count_if" => c.ret = Cardinality(range(c.set))
      /\ c.fn = "strstr" =>
           IsLeast(c.ret, {a \in text \cup {end} :
                             a + Len(c.text) <= end /\ Bytewise(m, a, Len(c.text)) = c.text})

\* Call by call, strtok returns the words of the string as it was, each once and
\* in order, ended by a terminator; a null pointer only when there is no other
\* (string.cpp:258-298).
Words ==
  LET end == call.d + strlen(before, call.d)
      inWord(a) == a < end /\ before[a] \notin call.set
  IN  {a \in Address : call.d <= a /\ inWord(a) /\ (a = call.d \/ ~inWord(a - 1))}
TokensAreWords ==
  call.fn = "strtok" =>
    /\ \A k \in DOMAIN tokens : \A j \in 1 .. k - 1 : tokens[j] < tokens[k]
    /\ \A k \in DOMAIN tokens :
         /\ tokens[k] \in Words
         /\ \A a \in Words : a < tokens[k] => \E j \in 1 .. k - 1 : tokens[j] = a
         /\ StringAt(m, tokens[k]) = Bytewise(before, tokens[k],
              strcspn(before, tokens[k], call.set))
    /\ call.ret = Null => Len(tokens) = Cardinality(Words)
==============================================================================
