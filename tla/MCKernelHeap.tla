------------------------------ MODULE MCKernelHeap ------------------------------
(* A machine with five pages of memory in two regions.  A page is 8 units of 16
   bytes, a header and a node of the page list are 2 units each, and the pool holds
   two nodes. *)
EXTENDS KernelHeap

MCPool == [addr |-> 4, size |-> 8]

MCLarge == {[regions |-> <<[paddr |-> 8, size |-> 16], [paddr |-> 32, size |-> 24]>>, sizes |-> {4}]}
===============================================================================
