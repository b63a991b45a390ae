------------------------------ MODULE FrameStore ------------------------------
(***************************************************************************)
(* What alloc_pages() and free_pages() promise, without the block list: a  *)
(* set of free page frames, from which a request of size frames takes the  *)
(* lowest run that is long enough.  PageAlloc implements it.               *)
(***************************************************************************)
EXTENDS Integers, FiniteSets

CONSTANTS
  RAM,      \* the page frames the boot code hands to the page allocator
  MaxSize,  \* largest request, in frames
  InPaddr   \* what pages->paddr may hold when alloc_pages() is called

VARIABLES
  free,     \* the frames that are free
  reply     \* what the last call returned

vars == <<free, reply>>

EOF == -1

Run(p, n) == p .. (p + n - 1)

(* Frames at which a run of n free frames starts. *)
RunStarts(n) == {p \in free : Run(p, n) \subseteq free}

Init ==
  /\ free = {}
  /\ reply = [op |-> "init", ret |-> 0, paddr |-> 0, size |-> 0]

(* A request for a run there is: the lowest run is handed out.  The test on
   the total comes first in the code, so it is part of the promise. *)
Grant(n) ==
  /\ n <= Cardinality(free)
  /\ \E p \in RunStarts(n) :
       /\ \A q \in RunStarts(n) : p <= q
       /\ free' = free \ Run(p, n)
       /\ reply' = [op |-> "alloc", ret |-> 0, paddr |-> p, size |-> n]

(* No free run is long enough: the caller is told so. *)
Fail(n, paddr) ==
  /\ n <= Cardinality(free)
  /\ RunStarts(n) = {}
  /\ reply' = [op |-> "alloc", ret |-> EOF, paddr |-> paddr, size |-> n]
  /\ UNCHANGED free

(* More than all of the free memory: nothing is handed out, and the return
   value is 0 all the same. *)
Overcommit(n, paddr) ==
  /\ n > Cardinality(free)
  /\ reply' = [op |-> "alloc", ret |-> 0, paddr |-> paddr, size |-> n]
  /\ UNCHANGED free

Release(p, n) ==
  /\ n > 0
  /\ Run(p, n) \subseteq RAM \ free
  /\ free' = free \cup Run(p, n)
  /\ reply' = [op |-> "free", ret |-> 0, paddr |-> p, size |-> n]

(* A request that is not a whole number of pages changes nothing. *)
Ignore ==
  /\ reply' = [op |-> "misaligned", ret |-> 0, paddr |-> 0, size |-> 0]
  /\ UNCHANGED free

Next ==
  \/ \E n \in 0 .. MaxSize :
       \/ Grant(n)
       \/ \E p \in InPaddr : Fail(n, p) \/ Overcommit(n, p)
       \/ \E p \in RAM : Release(p, n)
  \/ Ignore

Spec == Init /\ [][Next]_vars
===============================================================================
