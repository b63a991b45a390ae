SPECIFICATION MCSpec
CONSTANTS
  Boards = {"zynq", "pc", "loongson", "msim"}
  Texts <- MCTexts
  Depth = 2
  MaxCalls = 4
  MaxKeys = 2
INVARIANTS
  SerialTrue
  TransfersDone
  TimeNotTorn
  ListIntact
  BitsFound
  LibcTrue
  
PROPERTIES
  BusKept
  DriversReturn
CHECK_DEADLOCK FALSE
