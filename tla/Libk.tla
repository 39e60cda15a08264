--------------------------------- MODULE Libk ---------------------------------
(***************************************************************************)
(* libk: the calls of module Strings, vsnprintf (module Printf) writing    *)
(* into the memory of Strings, and the character classes.                  *)
(***************************************************************************)
EXTENDS Printf, Strings

CONSTANTS
  Formats,  \* what vsnprintf is given: sequences of literals and conversions
  Buffers   \* sizes vsnprintf is given, with the buffer at address 0

\* These two do not depend on what memory holds: it is full of ones.
Plain == \A a \in Address : m[a] = 1

\* How a caller writes the conversion c: with numbers in the text, or with stars
\* and arguments, where a negative width stands for the flag "-".
Decimal(n) == unsigned_to_buffer(n, 10, FALSE)
TextOf(names, name) ==
  IF \E t \in DOMAIN names : names[t] = name THEN CHOOSE t \in DOMAIN names : names[t] = name
  ELSE <<>>
WrittenConversion(c, stars) ==
  LET minus == c.left /\ (stars => c.width = 0)
      flag(f) == IF c[f] /\ (f = "left" => minus)
                   THEN <<CHOOSE ch \in DOMAIN Flag : Flag[ch] = f>> ELSE <<>>
      width == IF stars THEN <<Star>> ELSE IF c.width = 0 THEN <<>> ELSE Decimal(c.width)
      precision == IF stars THEN <<46, Star>>
                   ELSE IF c.precision < 0 THEN <<>>
                   ELSE <<46>> \o (IF c.precision = 0 THEN <<>> ELSE Decimal(c.precision))
      spec == CASE c.spec = "end" -> <<>> [] c.spec = "unknown" -> <<c.arg>>
                [] OTHER -> <<CHOOSE ch \in DOMAIN SpecName : SpecName[ch] = c.spec>>
  IN  [s |-> <<Percent>> \o flag("zero") \o flag("alt") \o flag("left") \o flag("plus")
               \o flag("space") \o width \o precision \o TextOf(LengthName, c.length) \o spec,
       args |-> (IF stars THEN <<IF c.left THEN -c.width ELSE c.width, c.precision>> ELSE <<>>)
                  \o (IF c.spec \in {"end", "unknown", "%"} THEN <<>> ELSE <<c.arg>>)]
Written(format, stars) ==
  LET w[k \in 0 .. Len(format)] ==
        IF k = 0 THEN [s |-> <<>>, args |-> <<>>]
        ELSE IF format[k].spec = "literal" THEN [w[k - 1] EXCEPT !.s = Append(@, format[k].arg)]
        ELSE LET c == WrittenConversion(format[k], stars)
             IN  [s |-> w[k - 1].s \o c.s, args |-> w[k - 1].args \o c.args]
  IN  w[Len(format)]

Format(size, format, stars) ==
  /\ Plain
  /\ LET written == Written(format, stars)
         r == vsnprintf(m, size, written.s, written.args)
     IN  /\ m' = r.buf
         /\ Done([Call("vsnprintf") EXCEPT !.n = size, !.text = format, !.written = written,
                                            !.ret = r.ret])

Classify(c) ==
  /\ Plain
  /\ UNCHANGED m
  /\ Done([Call("ctype") EXCEPT !.n = c, !.set = Classes(c)])

Next ==
  \/ StringsNext
  \/ Fresh /\ \E size \in Buffers, format \in Formats, stars \in BOOLEAN :
       Format(size, format, stars)
  \/ Fresh /\ \E c \in -128 .. 255 : Classify(c)

Spec == Init /\ [][Next]_vars

-----------------------------------------------------------------------------
\* A format says what it was written for: flags in any number, a width and a
\* precision as digits or as arguments of either sign, a length, and each
\* conversion with the argument that is its own (vsnprintf.cpp:76-99, 279-405).
FormatsParse ==
  call.fn = "vsnprintf" => Parse(call.written.s, call.written.args) = call.text

\* vsnprintf returns the length of the whole text whatever the size, writes as
\* much of it as fits before a terminator, and touches nothing behind the size
\* it was given (vsnprintf.cpp:49-55, 407-412).
WholeText == LET t[k \in 0 .. Len(call.text)] ==
                   IF k = 0 THEN <<>> ELSE t[k - 1] \o Text(call.text[k])
             IN  t[Len(call.text)]
TruncatesCleanly ==
  call.fn = "vsnprintf" =>
    /\ call.ret = Len(WholeText)
    /\ call.n > 0 => StringAt(m, 0) = First(WholeText, call.n - 1)
    /\ Elsewhere(0, call.n)

\* A number reads back as the argument converted to its length, has at least
\* the digits of the precision, fills the width, and is padded on one side only;
\* zeros go in front only as far as precision or width ask
\* (vsnprintf.cpp:173-239).
DigitValue(ch) == IF ch < 58 THEN ch - 48 ELSE IF ch < 91 THEN ch - 55 ELSE ch - 87
Number(digits, base) ==
  LET v[k \in 0 .. Len(digits)] ==
        IF k = 0 THEN 0 ELSE base * v[k - 1] + DigitValue(digits[k])
  IN  v[Len(digits)]
Base(c) == IF c.spec \in {"x", "X"} THEN 16 ELSE 10
Congruent(c, value) ==
  /\ (value - c.arg) % 2 ^ Bits(c.length) = 0
  /\ IF c.spec \in {"d", "i"}
       THEN -(2 ^ (Bits(c.length) - 1)) <= value /\ value < 2 ^ (Bits(c.length) - 1)
       ELSE 0 <= value /\ value < 2 ^ Bits(c.length)
\* The prefixes the flags ask for; "#" with no digits to show asks for none.
Prefixes(c) ==
  CASE c.spec \in {"d", "i"} ->
         {<<Minus>>, IF c.plus THEN <<Plus>> ELSE IF c.space THEN <<Space>> ELSE <<>>}
    [] c.spec \in {"x", "X"} /\ c.alt ->
         {<<Zero, IF c.spec = "X" THEN 88 ELSE 120>>} \cup (IF c.precision = 0 THEN {<<>>} ELSE {})
    [] OTHER -> {<<>>}
ReadsBack(c, text) ==
  \E lead, trail \in 0 .. Len(text), prefix \in Prefixes(c) :
    /\ lead + Len(prefix) + trail <= Len(text)
    /\ lead = 0 \/ (trail = 0 /\ ~c.left)
    /\ c.zero /\ ~c.left /\ c.precision < 0 => lead = 0 /\ trail = 0
    /\ LET digits == SubSeq(text, lead + Len(prefix) + 1, Len(text) - trail)
           value == Number(digits, Base(c))
       IN  /\ text = Repeat(Space, lead) \o prefix \o digits \o Repeat(Space, trail)
           /\ \A k \in DOMAIN digits : DigitValue(digits[k]) \in 0 .. Base(c) - 1
           /\ Len(digits) >= c.precision
           /\ Congruent(c, IF prefix = <<Minus>> THEN -value ELSE value)
           /\ prefix = <<Minus>> => value > 0
           /\ c.alt /\ prefix = <<>> => digits = <<>> \/ Base(c) = 10
           /\ Len(digits) > 1 /\ digits[1] = Zero =>
                Len(digits) = c.precision \/ (c.zero /\ Len(text) = c.width)
           /\ Len(text) = c.width \/ (lead = 0 /\ trail = 0 /\ Len(text) > c.width)
NumbersReadBack ==
  call.fn = "vsnprintf" =>
    \A k \in DOMAIN call.text :
      LET c == call.text[k]
      IN  c.spec \in {"d", "i", "u", "x", "X"} => ReadsBack(c, Text(c))

\* The character classes divide ASCII the way C says, and nothing beyond ASCII
\* (a char is signed) is in any of them (ctype.cpp).
ClassesDivideAscii ==
  call.fn = "ctype" =>
    LET is(name) == name \in call.set
    IN  IF call.n \notin 0 .. 127 THEN call.set = {}
        ELSE /\ is("cntrl") <=> ~is("print")
             /\ is("print") <=> is("graph") \/ call.n = Space
             /\ is("graph") <=> is("alnum") \/ is("punct")
             /\ ~(is("alnum") /\ is("punct"))
             /\ is("alnum") <=> is("alpha") \/ is("digit")
             /\ is("alpha") <=> is("upper") \/ is("lower")
             /\ is("upper") <=> tolower(call.n) # call.n
             /\ is("lower") <=> toupper(call.n) # call.n
             /\ is("xdigit") => is("alnum")
             /\ is("blank") => is("space")
             /\ is("space") => is("cntrl") \/ call.n = Space
=============================================================================
