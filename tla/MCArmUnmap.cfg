SPECIFICATION Spec
CONSTANTS
 Pages = {2,3,4}
 Sect = 2
 Tables = {1,2}
 PAddrs = {8,9}
 Flags = {{"WRITE"}}
 MaxLen=3
INVARIANT UnmapRemoves

CHECK_DEADLOCK FALSE
