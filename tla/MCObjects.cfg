SPECIFICATION MCSpec
CONSTANTS
  Chars = 2
  Bits = 2
  Nodes = {n1, n2}
  Places = {64, 96, 128}
  MaxHeld = 5
INVARIANTS
  SlabsConserved
  ListsTrue
  
  MemoryConserved
  HeapTiled
  NodesOwned
  PageListTrue
  ReferencesTrue
PROPERTIES
  CallsReturn
CHECK_DEADLOCK FALSE
