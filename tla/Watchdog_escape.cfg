SPECIFICATION FairSpec
CONSTANTS
  Main = main
  Children = {child}
  Silence = 3
  ActivityCap = 2
  MayEscape = TRUE
PROPERTIES
  ReturnsWhenSilent
CHECK_DEADLOCK FALSE
