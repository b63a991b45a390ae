SPECIFICATION Spec
CONSTANTS
  Mms = {m1, m2}
  Pages = {2, 3, 4, 5, 6}
  Fan = 4
  Frames = {f1, f2, f3, f4, f5, f6}
  Junk = {0, 1, 9}
  MaxLen = 3
SYMMETRY Interchangeable
INVARIANTS
  AreasTrue
  FramesConserved
  
CHECK_DEADLOCK FALSE
