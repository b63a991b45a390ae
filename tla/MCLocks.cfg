SPECIFICATION MCSpec
CONSTANTS
  CPUs = {c1, c2}
  Limit = 1
  StaleRet = {1}
INVARIANTS
  NoLostWakeup
  
PROPERTIES
  
  
  LocksProgress
