SPECIFICATION MCSpec
CONSTANTS
  CharBits = 3
  ShortBits = 4
  IntBits = 6
  Size = 5
  Bytes = {0, 1, 2}
  Needles <- MCNeedles
  Formats <- MCFormats
  Buffers = {0, 1, 3, 5}
  Statics = {"p", "q"}
  MAX_ATEXIT = 3
  Arrays <- MCArrays
  MaxFinals = 2
  MaxDepth = 2
INVARIANTS TypeOK BlocksArrive StringsArrive OrderIsLexical SearchesFindTheFirst TokensAreWords TruncatesCleanly NumbersReadBack ClassesDivideAscii FormatsParse LifetimesPaired
CHECK_DEADLOCK FALSE
