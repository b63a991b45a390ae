SPECIFICATION MCSpec
CONSTANTS
  RAM <- MCRAM
  MaxSize = 4
  InPaddr = {0, 2}
INVARIANTS
  FramesPartitioned
  ListCoalesced
  AccountExact
  EOFMeansNoRun
  RangeMapped
PROPERTIES
  
  MapsRefined
  OthersKept
CHECK_DEADLOCK FALSE
