SPECIFICATION ScreensSpec
CONSTANTS
  width = 3
  height = 3
  Printable = {" ", "x"}
  Colors = {"black"}
  Message <- MCMessage
  Fonts <- MCFonts
  ByteBits = 2
  fb_info <- MCInfo
  FbMapped = 45
  OutChars <- MCOutChars
INVARIANT TextOnScreen
CHECK_DEADLOCK FALSE
