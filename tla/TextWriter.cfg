SPECIFICATION WriterSpec
CONSTANTS
  VGA_FONT_WIDTH = 2
  VGA_FONT_HEIGHT = 2
  TAB_SIZE = 3
  Dimensions <- MCDimensions
  Strings <- MCStrings
  RamMaps <- MCRamMaps
  Colors = {Red}
  DEFAULT_COLOR = LightGray
  Black = Black
  LightGreen = LightGreen
  LightRed = LightRed
  LightBlue = LightBlue
  DarkGray = DarkGray
  MaxPrints = 5
INVARIANTS
  WriterTypeOK
  TextVisible
  NoGhostText
  PanicsOnlyWithoutRoom
