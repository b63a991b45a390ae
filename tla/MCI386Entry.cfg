SPECIFICATION EntrySpec
CONSTANTS
  CPUs = {c1, c2}
INVARIANT
  OneCPUOnBootStack
