SPECIFICATION Spec
CONSTANTS
  Page = 8
  Hdr = 2
  NodeSize = 2
  Space = 128
  KOffset = 64
  Workloads <- MCLarge
  Pool <- MCPool
  MaxPages = 1
INVARIANT CircularityBroken
CHECK_DEADLOCK FALSE
