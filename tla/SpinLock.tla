-------------------------------- MODULE SpinLock --------------------------------
(***************************************************************************)
(* What spin_lock() and spin_unlock() of include/aim/sync.h promise: the   *)
(* lock has at most one holder.  MipsSync, I386Sync and ArmSync implement  *)
(* it, and the code that takes locks (see Slab) relies on it.              *)
(***************************************************************************)
CONSTANT CPUs

VARIABLE holders    \* the CPUs between spin_lock() and spin_unlock()

Init == holders = {}

Acquire(c) == holders = {} /\ holders' = {c}

Release(c) == c \in holders /\ holders' = holders \ {c}

Next == \E c \in CPUs : Acquire(c) \/ Release(c)

Spec == Init /\ [][Next]_holders
===============================================================================
