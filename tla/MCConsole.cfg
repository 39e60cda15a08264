SPECIFICATION ScreensSpec
CONSTANTS
  width = 3
  height = 3
  Printable = {" ", "x"}
  Colors = {"black"}
  Message <- MCMessage
  Fonts <- MCFonts
  ByteBits = 2
  fb_info <- MCInfo
  FbMapped = 45
  OutChars <- MCOutChars
INVARIANTS TypeOK MessageReadable GlyphsAreTheirs
PROPERTIES IsText CellShowsGlyph
CHECK_DEADLOCK FALSE
