SPECIFICATION Spec
CONSTANTS
 Pages = {3,4}
 Fan = 4
 Pool = {1,2,3,4,5}
 Half = 10
 PAddrs = {20,21}
 MaxLen = 3
PROPERTY MapSpec
CHECK_DEADLOCK FALSE
