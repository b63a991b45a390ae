---------------------------------- MODULE MCUvm ----------------------------------
(* Five user pages under two leaf tables.  Six frames are one or two too few   *)
(* for all of them, and for two address spaces.  Address spaces and frames    *)
(* are interchangeable.                                                       *)
EXTENDS Uvm, TLC

Interchangeable == Permutations(Mms) \cup Permutations(Frames)

\* The list of areas is in ascending order without overlap, and the page table maps
\* what the areas say and nothing else, also after create_uvm() failed half way.
AreasTrue == TypeOK /\ AreasOrdered /\ TablesMatchAreas
===============================================================================
