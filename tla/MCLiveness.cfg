SPECIFICATION FairLiveSpec
CONSTANTS
  Owners = {g1, g2, g3}
  NoOwner = NoOwner
  Spellings <- MCSpellings
  Paths <- MCPaths
  Clean <- MCClean
INVARIANTS
  NoCircularWait
PROPERTIES
  LockPathsReturns
  WritesReturn
  CommandExits
  CallsReturn
  ReturnsWhenSilent
  LoopsEnd
CHECK_DEADLOCK FALSE
