-------------------------------- MODULE Printf --------------------------------
(***************************************************************************)
(* libk/vsnprintf.cpp and libk/ctype.cpp as operators.  A character is its *)
(* code.  The text of a format and its arguments are read as a sequence of *)
(* literals and conversions, and each of them contributes its text.        *)
(***************************************************************************)
EXTENDS Integers, Sequences, TLC

CONSTANTS CharBits, ShortBits, IntBits   \* 8, 16 and 32 in the code
ASSUME BitsAssumption == CharBits \in Nat \ {0} /\ ShortBits \in Nat \ {0} /\ IntBits \in Nat \ {0}

\* A conversion, before its fields are given: "%d" of 0.
Conversion == [spec |-> "d", left |-> FALSE, plus |-> FALSE, space |-> FALSE, zero |-> FALSE,
               alt |-> FALSE, width |-> 0, precision |-> -1, length |-> "none", arg |-> 0]
Literal(ch) == [Conversion EXCEPT !.spec = "literal", !.arg = ch]

Minus == 45
Plus == 43
Space == 32
Zero == 48
Percent == 37

Repeat(ch, n) == [k \in 1 .. n |-> ch]
AtLeast0(n) == IF n < 0 THEN 0 ELSE n

-----------------------------------------------------------------------------
Bits(length) == CASE length = "hh" -> CharBits [] length = "h" -> ShortBits [] OTHER -> IntBits

get_signed_arg(c) ==
  LET half == 2 ^ (Bits(c.length) - 1) IN ((c.arg + half) % (2 * half)) - half
get_unsigned_arg(c) == c.arg % 2 ^ Bits(c.length)

Digit(upper, d) == IF d < 10 THEN Zero + d ELSE IF upper THEN 55 + d ELSE 87 + d

RECURSIVE unsigned_to_buffer(_, _, _)
unsigned_to_buffer(value, base, upper) ==
  IF value < base THEN <<Digit(upper, value)>>
  ELSE unsigned_to_buffer(value \div base, base, upper) \o <<Digit(upper, value % base)>>

\* `width` columns, the text to the left or to the right of its padding.
Padded(text, width, left) ==
  LET pad == Repeat(Space, AtLeast0(width - Len(text)))
  IN  IF left THEN text \o pad ELSE pad \o text

\* The digits of a conversion; none for 0 with the precision 0.
DigitsOf(c, magnitude, base) ==
  IF c.precision = 0 /\ magnitude = 0 THEN <<>>
  ELSE unsigned_to_buffer(magnitude, base, c.spec = "X")

\* Planted fault: the prefix does not count when zeros fill the width.
ZerosWithoutPrefix(c, prefix, digits) ==
  IF c.precision >= 0 THEN AtLeast0(c.precision - Len(digits))
  ELSE IF c.zero /\ ~c.left THEN AtLeast0(c.width - Len(digits))
  ELSE 0
ZeroCount(c, prefix, digits) ==
  IF c.precision >= 0 THEN AtLeast0(c.precision - Len(digits))
  ELSE IF c.zero /\ ~c.left THEN AtLeast0(c.width - Len(prefix) - Len(digits))
  ELSE 0

format_integer(c, prefix, digits) ==
  Padded(prefix \o Repeat(Zero, ZeroCount(c, prefix, digits)) \o digits, c.width, c.left)

Signed(c) ==
  LET value == get_signed_arg(c)
      prefix == CASE value < 0 -> <<Minus>>
                  [] value >= 0 /\ c.plus -> <<Plus>>
                  [] value >= 0 /\ ~c.plus /\ c.space -> <<Space>>
                  [] OTHER -> <<>>
  IN  format_integer(c, prefix, DigitsOf(c, IF value < 0 THEN -(value + 1) + 1 ELSE value, 10))

Unsigned(c) == format_integer(c, <<>>, DigitsOf(c, get_unsigned_arg(c), 10))

Hexadecimal(c) ==
  LET digits == DigitsOf(c, get_unsigned_arg(c), 16)
      prefix == IF c.alt /\ digits # <<>> THEN <<Zero, IF c.spec = "X" THEN 88 ELSE 120>> ELSE <<>>
  IN  format_integer(c, prefix, digits)

\* c.arg is a string, a sequence.
format_string(c) ==
  LET shown == IF c.precision >= 0 /\ c.precision < Len(c.arg)
                 THEN SubSeq(c.arg, 1, c.precision) ELSE c.arg
  IN  Padded(shown, c.width, c.left)

format_char(c) == Padded(<<c.arg>>, c.width, c.left)

\* What a member of the format contributes to the text.
Text(c) ==
  CASE c.spec = "literal" -> <<c.arg>>
    [] c.spec \in {"d", "i"} -> Signed(c)
    [] c.spec = "u" -> Unsigned(c)
    [] c.spec \in {"x", "X"} -> Hexadecimal(c)
    [] c.spec = "s" -> format_string(c)
    [] c.spec = "c" -> format_char(c)
    [] c.spec = "p" -> <<Zero, 120>> \o unsigned_to_buffer(c.arg % 2 ^ IntBits, 16, FALSE)
    [] c.spec = "%" -> <<Percent>>
    [] c.spec = "unknown" -> <<Percent, c.arg>>
    [] c.spec = "end" -> <<Percent>>

-----------------------------------------------------------------------------
(***************************************************************************)
(* Reading a format.  st is a conversion c whose fields are being read,    *)
(* the rest s of the text and the arguments that are left.                 *)
(***************************************************************************)
isdigit(c) == c \in Zero .. 57
NextChar(s) == IF s = <<>> THEN 0 ELSE s[1]

Flag == (Minus :> "left") @@ (Plus :> "plus") @@ (Space :> "space") @@ (Zero :> "zero") @@ (35 :> "alt")

\* Planted fault: a second flag is not read.
OneFlag(st) ==
  IF NextChar(st.s) \in DOMAIN Flag
    THEN [st EXCEPT !.c[Flag[st.s[1]]] = TRUE, !.s = Tail(st.s)] ELSE st
RECURSIVE parse_flags(_)
parse_flags(st) ==
  IF NextChar(st.s) \in DOMAIN Flag
    THEN parse_flags([st EXCEPT !.c[Flag[st.s[1]]] = TRUE, !.s = Tail(st.s)]) ELSE st

\* A star, which takes an argument, or digits, perhaps none.
Star == 42
RECURSIVE parse_digits(_, _)
parse_digits(value, s) ==
  IF isdigit(NextChar(s)) THEN parse_digits(10 * value + s[1] - Zero, Tail(s))
  ELSE [value |-> value, s |-> s]
parse_number(st) ==
  IF NextChar(st.s) = Star
    THEN [value |-> st.args[1], st |-> [st EXCEPT !.s = Tail(st.s), !.args = Tail(st.args)]]
    ELSE LET n == parse_digits(0, st.s) IN [value |-> n.value, st |-> [st EXCEPT !.s = n.s]]

parse_width(st) ==
  LET n == parse_number(st)
  IN  IF n.value < 0 THEN [n.st EXCEPT !.c.left = TRUE, !.c.width = -n.value]
      ELSE [n.st EXCEPT !.c.width = n.value]

parse_precision(st) ==
  IF NextChar(st.s) # 46 THEN st
  ELSE LET n == parse_number([st EXCEPT !.s = Tail(st.s)])
       IN  [n.st EXCEPT !.c.precision = IF n.value < 0 THEN -1 ELSE n.value]

LengthName == (<<104, 104>> :> "hh") @@ (<<104>> :> "h") @@ (<<108>> :> "l") @@ (<<122>> :> "z")
parse_length(st) ==
  LET fits(text) == Len(text) <= Len(st.s) /\ SubSeq(st.s, 1, Len(text)) = text
      read(text) == [st EXCEPT !.c.length = LengthName[text],
                               !.s = SubSeq(st.s, Len(text) + 1, Len(st.s))]
  IN  IF fits(<<104, 104>>) THEN read(<<104, 104>>)
      ELSE IF \E text \in DOMAIN LengthName : fits(text)
        THEN read(CHOOSE text \in DOMAIN LengthName : fits(text))
      ELSE st

SpecName == (100 :> "d") @@ (105 :> "i") @@ (117 :> "u") @@ (120 :> "x") @@ (88 :> "X")
              @@ (115 :> "s") @@ (99 :> "c") @@ (112 :> "p") @@ (Percent :> "%")
parse_spec(st) ==
  LET ch == NextChar(st.s)
  IN  IF st.s = <<>> THEN [st EXCEPT !.c.spec = "end"]
      ELSE IF ch \notin DOMAIN SpecName
        THEN [st EXCEPT !.c.spec = "unknown", !.c.arg = ch, !.s = Tail(st.s)]
      ELSE IF ch = Percent THEN [st EXCEPT !.c.spec = "%", !.s = Tail(st.s)]
      ELSE [c |-> [st.c EXCEPT !.spec = SpecName[ch], !.arg = st.args[1]],
            s |-> Tail(st.s), args |-> Tail(st.args)]

RECURSIVE Parse(_, _)
Parse(s, args) ==
  IF s = <<>> THEN <<>>
  ELSE IF s[1] # Percent THEN <<Literal(s[1])>> \o Parse(Tail(s), args)
  ELSE LET st == parse_spec(parse_length(parse_precision(parse_width(parse_flags(
                   [c |-> Conversion, s |-> Tail(s), args |-> args])))))
       IN  <<st.c>> \o Parse(st.s, st.args)

-----------------------------------------------------------------------------
(***************************************************************************)
(* OutputState: `size` bytes of memory b from address 0.                   *)
(***************************************************************************)
\* Planted fault: no room is left for the terminator, nor is it noticed.
PutPastEnd(st, ch) ==
  IF st.size > 0 /\ st.pos <= st.size
    THEN [st EXCEPT !.total = st.total + 1, !.buf[st.pos] = ch, !.pos = st.pos + 1]
    ELSE [st EXCEPT !.total = st.total + 1]
out_put_char(st, ch) ==
  IF st.size > 0 /\ st.pos + 1 < st.size
    THEN [st EXCEPT !.total = st.total + 1, !.buf[st.pos] = ch, !.pos = st.pos + 1]
    ELSE [st EXCEPT !.total = st.total + 1]

RECURSIVE Put(_, _)
Put(st, text) == IF text = <<>> THEN st ELSE Put(out_put_char(st, Head(text)), Tail(text))

RECURSIVE PutFormat(_, _)
PutFormat(st, format) ==
  IF format = <<>> THEN st ELSE PutFormat(Put(st, Text(Head(format))), Tail(format))

\* The memory and the value returned.
vsnprintf(b, size, format, args) ==
  LET st == PutFormat([buf |-> b, size |-> size, pos |-> 0, total |-> 0], Parse(format, args))
      end == IF st.pos < size THEN st.pos ELSE size - 1
  IN  [buf |-> IF size > 0 THEN [st.buf EXCEPT ![end] = 0] ELSE st.buf, ret |-> st.total]

-----------------------------------------------------------------------------
(***************************************************************************)
(* ctype.cpp                                                               *)
(***************************************************************************)
isupper(c) == c \in 65 .. 90
islower(c) == c \in 97 .. 122
isalpha(c) == c \in 65 .. 90 \/ c \in 97 .. 122
isalnum(c) == isdigit(c) \/ isalpha(c)
isblank(c) == c = Space \/ c = 9
iscntrl(c) == c \in 0 .. 31 \/ c = 127
isgraph(c) == c \in 33 .. 126
isprint(c) == c \in Space .. 126
\* Planted fault: the third range begins one late.
PunctWithoutBracket(c) == c \in 33 .. 47 \/ c \in 58 .. 64 \/ c \in 92 .. 96 \/ c \in 123 .. 126
ispunct(c) == c \in 33 .. 47 \/ c \in 58 .. 64 \/ c \in 91 .. 96 \/ c \in 123 .. 126
isspace(c) == isblank(c) \/ c \in {10, 11, 12, 13}
tolower(c) == IF isupper(c) THEN c + 32 ELSE c
toupper(c) == IF islower(c) THEN c - 32 ELSE c
isxdigit(c) == isdigit(c) \/ tolower(c) \in 97 .. 102

Classes(c) ==
  {name \in {"alnum", "alpha", "blank", "cntrl", "digit", "graph", "lower", "print",
             "punct", "space", "upper", "xdigit"} :
     CASE name = "alnum" -> isalnum(c) [] name = "alpha" -> isalpha(c)
       [] name = "blank" -> isblank(c) [] name = "cntrl" -> iscntrl(c)
       [] name = "digit" -> isdigit(c) [] name = "graph" -> isgraph(c)
       [] name = "lower" -> islower(c) [] name = "print" -> isprint(c)
       [] name = "punct" -> ispunct(c) [] name = "space" -> isspace(c)
       [] name = "upper" -> isupper(c) [] name = "xdigit" -> isxdigit(c)}
=============================================================================
