SPECIFICATION MCSpec
CONSTANTS
  Machines <- MCMachines
  KERN_BASE = 32
  KMMAP_BASE = 56
  RESERVED_BASE = 60
  KernEnd = 2
  UartPhys = 62
  QueueLength = 10
  XPage = 4
INVARIANTS
  PointersValid
  
  
  FrameTrue
PROPERTIES
  StartupEnds
  ContextRestored
CHECK_DEADLOCK FALSE
