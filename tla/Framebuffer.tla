------------------------------ MODULE Framebuffer ------------------------------
(***************************************************************************)
(* The console on a linear framebuffer (early_init/framebuffer.cpp): the   *)
(* glyph table of the PSF2 font linked into the kernel, and characters     *)
(* drawn pixel by pixel at a cursor.  A step prints a character.  Memory   *)
(* is counted in pixels of 4 bytes; colours are "fg" and "bg".             *)
(***************************************************************************)
EXTENDS Integers, Sequences, FiniteSets

CONSTANTS
  Fonts,      \* fonts the kernel may be built with, see FontAssumption
  ByteBits,   \* pixels in a byte of a glyph, 8 in the code
  fb_info,    \* pitch, width and height of the framebuffer, in pixels
  FbMapped,   \* pixels setup_framebuffer maps, 4 MiB / 4 in the code
  OutChars    \* characters printed

\* A font has a size in pixels, for each glyph from 0 on the picture it shows,
\* the set of its foreground pixels <<line, column>>, and for each glyph the
\* characters that are shown by it, or no such lists.  No character is
\* USHRT_MAX in 16 bits, as the table of psf_init has no entry for it (line 58).
NoTable == <<>>
MaxCharacter == 1114111
USHRT_MAX == 65535
uint16(n) == n % (USHRT_MAX + 1)
Character == 0 .. MaxCharacter
numglyph(f) == Cardinality(DOMAIN f.pictures)
ASSUME FontAssumption ==
  \A f \in Fonts :
    /\ f.height \in Nat \ {0} /\ f.width \in Nat \ {0}
    /\ \E n \in 1 .. USHRT_MAX : DOMAIN f.pictures = 0 .. n - 1
    /\ \/ f.lists = NoTable
       \/ /\ f.lists \in Seq(Seq(Character)) /\ Len(f.lists) = numglyph(f)
          /\ \A g \in DOMAIN f.lists : \A k \in DOMAIN f.lists[g] :
               uint16(f.lists[g][k]) # USHRT_MAX
ASSUME FbAssumption ==
  /\ fb_info.pitch \in Nat \ {0} /\ fb_info.width \in Nat /\ fb_info.height \in Nat
  /\ fb_info.width <= fb_info.pitch
  /\ ByteBits \in Nat \ {0}
  /\ FbMapped \in Nat

VARIABLES
  font,       \* the font at _binary_font_psf_start, first read by psf_init
  unicode,    \* glyphs of the characters of its lists; the others' are 0
  fb,         \* the pixels of the framebuffer that were drawn
  fb_x, fb_y, \* the cursor, the static x and y of framebuffer_out_char
  fb_phase    \* "off", "on", or "fault" after a write beyond the mapping

fbVars == <<font, unicode, fb, fb_x, fb_y, fb_phase>>

Pixels == 0 .. FbMapped - 1

FbInit ==
  /\ font = "linked"
  /\ unicode = <<>>
  /\ fb = <<>>
  /\ fb_x = 0 /\ fb_y = 0
  /\ fb_phase = "off"

-----------------------------------------------------------------------------
(***************************************************************************)
(* The font's table is the UTF-8 text of the lists, each ended by 0xFF.    *)
(***************************************************************************)
Trailing(n) == 128 + (n % 64)
Utf8(ch) ==
  IF ch < 128 THEN <<ch>>
  ELSE IF ch < 2048 THEN <<192 + ch \div 64, Trailing(ch)>>
  ELSE IF ch < 65536 THEN <<224 + ch \div 4096, Trailing(ch \div 64), Trailing(ch)>>
  ELSE <<240 + ch \div 262144, Trailing(ch \div 4096), Trailing(ch \div 64), Trailing(ch)>>

\* The text of the first k characters of a list, and of the first g lists
ListText(list) ==
  LET t[k \in 0 .. Len(list)] == IF k = 0 THEN <<>> ELSE t[k - 1] \o Utf8(list[k])
  IN  t
TableText(lists) ==
  LET t[g \in 0 .. Len(lists)] ==
        IF g = 0 THEN <<>> ELSE t[g - 1] \o (ListText(lists[g])[Len(lists[g])] \o <<255>>)
  IN  t

Bit(byte, mask) == (byte \div mask) % 2
\* Bytes of the character that starts with this byte, by its ones.
SequenceLength(byte) ==
  IF Bit(byte, 128) = 0 THEN 1 ELSE IF Bit(byte, 32) = 0 THEN 2
  ELSE IF Bit(byte, 16) = 0 THEN 3 ELSE IF Bit(byte, 8) = 0 THEN 4 ELSE 1

\* Planted fault: the high bits of the first byte are not masked out.
DecodedUnmasked(s, i) ==
  LET low(k) == s[i + k] % 64
  IN  IF Bit(s[i], 128) = 0 THEN s[i]
      ELSE IF SequenceLength(s[i]) = 2 THEN 64 * s[i] + low(1) ELSE 0
\* The character at s[i], in the 16 bits of uc; 0 for a 0xFE.
Decoded(s, i) ==
  LET low(k) == s[i + k] % 64
      n == SequenceLength(s[i])
      uc == IF Bit(s[i], 128) = 0 THEN s[i]
            ELSE IF n = 2 THEN 64 * (s[i] % 32) + low(1)
            ELSE IF n = 3 THEN 64 * (64 * (s[i] % 16) + low(1)) + low(2)
            ELSE IF n = 4 THEN 64 * (64 * (64 * (s[i] % 8) + low(1)) + low(2)) + low(3)
            ELSE 0
  IN  uint16(uc)

Saved(table, uc, glyph) ==
  [c \in DOMAIN table \cup {uc} |-> IF c = uc THEN glyph ELSE table[c]]
\* A round of the loop: w has the place reached, the glyph, and the table so far.
Translation(s, w) ==
  IF w.at > Len(s) THEN w
  ELSE IF s[w.at] = 255
    THEN [at |-> w.at + 1, glyph |-> uint16(w.glyph + 1), table |-> w.table]
  ELSE [at |-> w.at + SequenceLength(s[w.at]), glyph |-> w.glyph,
        table |-> Saved(w.table, Decoded(s, w.at), w.glyph)]
Translations(s) ==
  LET w[k \in 0 .. Len(s)] ==
        IF k = 0 THEN [at |-> 1, glyph |-> 0, table |-> <<>>] ELSE Translation(s, w[k - 1])
  IN  w

psf_init(f) ==
  IF f.lists = NoTable THEN <<>>
  ELSE LET s == TableText(f.lists)[Len(f.lists)] IN Translations(s)[Len(s)].table

-----------------------------------------------------------------------------
GlyphOf(ch) ==
  LET c == IF font.lists = NoTable THEN ch
           ELSE IF ch \in DOMAIN unicode THEN unicode[ch] ELSE 0
  IN  IF c < numglyph(font) THEN c ELSE 0

\* The bytes of the picture of glyph g: each line is padded to whole bytes, and
\* its first pixel is the highest bit of the first.
LineBytes == font.width \div ByteBits + (IF font.width % ByteBits = 0 THEN 0 ELSE 1)
Bytes(g) ==
  [b \in 0 .. font.height * LineBytes - 1 |->
     LET pixel(k) == <<b \div LineBytes, ((b % LineBytes) * ByteBits) + k>>
         value[k \in 0 .. ByteBits] ==
           IF k = 0 THEN 0
           ELSE 2 * value[k - 1] + (IF pixel(k - 1) \in font.pictures[g] THEN 1 ELSE 0)
     IN  value[ByteBits]]

\* Planted fault: a line of a glyph takes width / 8 bytes.
LineBytesDown == font.width \div ByteBits
bytesPerGlyphLine == (font.width + ByteBits - 1) \div ByteBits

\* 1 << n
Power[n \in 0 .. ByteBits - 1] == IF n = 0 THEN 1 ELSE 2 * Power[n - 1]
\* currentByte and mask at each column of a line
Current[c \in Nat] ==
  LET first(byte) == [byte |-> byte, mask |-> Power[ByteBits - 1]]
      previous == Current[c - 1]
      mask == previous.mask \div 2
  IN  IF c = 0 THEN first(0)
      ELSE IF mask = 0 THEN first(previous.byte + 1)
      ELSE [byte |-> previous.byte, mask |-> mask]
\* Is the pixel in line r and column c of a glyph drawn in the foreground?
Ink(bytes, r, c) ==
  LET now == Current[c] IN Bit(bytes[r * bytesPerGlyphLine + now.byte], now.mask) = 1

Offset(cx, cy) == cy * font.height * fb_info.pitch + cx * (font.width + 1)

\* The pixels of the character at cx, cy.  The lines go down in memory, so what
\* lies before the end of the mapping is drawn before the first write beyond it.
putchar(ch, cx, cy) ==
  LET bytes == Bytes(GlyphOf(ch))
      cell == {Offset(cx, cy) + r * fb_info.pitch + c :
                 r \in 0 .. font.height - 1, c \in 0 .. font.width - 1}
      drawn == [p \in cell |->
                  LET d == p - Offset(cx, cy) IN
                  IF Ink(bytes, d \div fb_info.pitch, d % fb_info.pitch) THEN "fg" ELSE "bg"]
  IN  /\ fb' = [p \in DOMAIN fb \cup (cell \cap Pixels) |->
                   IF p \in cell THEN drawn[p] ELSE fb[p]]
      /\ fb_phase' = IF cell \subseteq Pixels THEN "on" ELSE "fault"

NextLine ==
  /\ fb_x' = 0
  /\ fb_y' = IF fb_y + 1 = fb_info.height THEN 0 ELSE fb_y + 1

-----------------------------------------------------------------------------
\* In a kernel that was built with font f.
setup_framebuffer(f) ==
  /\ fb_phase = "off"
  /\ font' = f
  /\ unicode' = psf_init(f)
  /\ fb_phase' = "on"
  /\ UNCHANGED <<fb, fb_x, fb_y>>

FbNewLine ==
  /\ fb_phase = "on" /\ 10 \in OutChars
  /\ NextLine
  /\ UNCHANGED <<font, unicode, fb, fb_phase>>

\* Printable characters; others are ignored.  The page fault of a write beyond
\* the mapping ends here: its handler prints and faults again.
FbPrint(ch) ==
  /\ fb_phase = "on" /\ ch \in 32 .. 126
  /\ putchar(ch, fb_x, fb_y)
  /\ IF fb_phase' = "fault" THEN UNCHANGED <<fb_x, fb_y>>
     ELSE IF fb_x + 1 = fb_info.width THEN NextLine
     ELSE fb_x' = fb_x + 1 /\ UNCHANGED fb_y
  /\ UNCHANGED <<font, unicode>>

FbNext ==
  \/ \E f \in Fonts : setup_framebuffer(f)
  \/ FbNewLine
  \/ \E ch \in OutChars : FbPrint(ch)

-----------------------------------------------------------------------------
Pixel(m, p) == IF p \in DOMAIN m THEN m[p] ELSE "old"

\* The glyph whose list holds the character, the last one of several; only the
\* low 16 bits of a character count (line 73).  Without lists, the number.
Theirs(ch) ==
  IF font.lists = NoTable THEN (IF ch < numglyph(font) THEN ch ELSE 0) ELSE
  LET listing == {g \in 1 .. Len(font.lists) :
                    \E k \in DOMAIN font.lists[g] : uint16(font.lists[g][k]) = ch}
  IN  IF listing = {} THEN 0
      ELSE (CHOOSE g \in listing : \A h \in listing : h <= g) - 1

\* However long the UTF-8 text of the characters in the font's table, psf_init
\* finds each list where it is: a character that was misread, or a list that
\* was cut wrongly, would shift or replace the glyphs of others (lines 72-96).
\* Nothing is written behind the table, which has no entry for USHRT_MAX (line 58).
GlyphsAreTheirs ==
  fb_phase # "off" =>
    /\ DOMAIN unicode \subseteq 0 .. USHRT_MAX - 1
    /\ \A ch \in OutChars \cup DOMAIN unicode : GlyphOf(ch) = Theirs(ch)

\* At the cursor is the picture of the character's glyph, and elsewhere what was there.
ShowsGlyph(ch) ==
  \A p \in Pixels :
    LET r == (p \div fb_info.pitch) - fb_y * font.height
        c == (p % fb_info.pitch) - fb_x * (font.width + 1)
    IN  Pixel(fb', p) =
          IF r \notin 0 .. font.height - 1 \/ c \notin 0 .. font.width - 1 THEN Pixel(fb, p)
          ELSE IF <<r, c>> \in font.pictures[Theirs(ch)] THEN "fg" ELSE "bg"

\* A character printed where the screen has room for one shows the picture of its
\* glyph there and changes no other pixel: lines of the picture, of whole bytes in
\* the font, go to lines of the screen, of `pitch` in memory (lines 121-150).
CellShowsGlyph ==
  [][\A ch \in OutChars :
       /\ FbPrint(ch)
       /\ (fb_x + 1) * (font.width + 1) <= fb_info.width
       /\ (fb_y + 1) * font.height <= fb_info.height
       => ShowsGlyph(ch)]_fbVars

\* "cursor position on screen, in characters not in pixels" (line 104): nothing
\* is drawn outside the screen, nor beyond the memory mapped for it.
TextOnScreen ==
  /\ fb_phase # "fault"
  /\ \A p \in DOMAIN fb :
       p \div fb_info.pitch < fb_info.height /\ p % fb_info.pitch < fb_info.width
=============================================================================
