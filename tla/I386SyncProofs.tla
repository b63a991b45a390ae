----------------------------- MODULE I386SyncProofs -----------------------------
(***************************************************************************)
(* Proofs about I386Sync, for any set of CPUs.                             *)
(***************************************************************************)
EXTENDS I386Sync, TLAPS

(* XCHG stores LOCKED whatever it reads: the word says whether there is a holder,
   and there is one at most.  Each needs the other: a second holder would have
   read a word that says LOCKED, and the word is right after an unlock only if
   there was one holder. *)
XchgInv ==
  /\ lock \in {UNLOCKED, LOCKED}
  /\ eax \in [CPUs -> {UNLOCKED, LOCKED}]
  /\ pc \in [CPUs -> {"idle", "spin", "critical"}]
  /\ lock = LOCKED <=> \E c \in CPUs : pc[c] = "critical"
  /\ \A c, d \in CPUs : pc[c] = "critical" /\ pc[d] = "critical" => c = d

USE DEF UNLOCKED, LOCKED

(* What a step does to the invariant and to the holder of the lock. *)
LEMMA XchgStep ==
  ASSUME XchgInv, [Next]_vars
  PROVE  XchgInv' /\ (Lock!Next \/ UNCHANGED {c \in CPUs : pc[c] = "critical"})
<1> DEFINE holders == {c \in CPUs : pc[c] = "critical"}
<1> USE DEF XchgInv
<1>1. ASSUME NEW c \in CPUs, Call(c) PROVE XchgInv' /\ holders' = holders
  BY <1>1 DEF Call, Goto
<1>2. ASSUME NEW c \in CPUs, spin_lock(c), lock = LOCKED PROVE XchgInv' /\ holders' = holders
  BY <1>2 DEF spin_lock, xchg, Goto
<1>3. ASSUME NEW c \in CPUs, spin_lock(c), lock = UNLOCKED
      PROVE  XchgInv' /\ holders = {} /\ holders' = {c}
  BY <1>3 DEF spin_lock, xchg, Goto
<1>4. ASSUME NEW c \in CPUs, spin_unlock(c)
      PROVE  XchgInv' /\ c \in holders /\ holders' = holders \ {c}
  BY <1>4 DEF spin_unlock, xchg, Goto
<1>5. CASE UNCHANGED vars
  BY <1>5 DEF vars
<1> QED
  BY <1>1, <1>2, <1>3, <1>4, <1>5 DEF Next, Lock!Next, Lock!Acquire, Lock!Release

(* The XCHG lock implements the abstract lock, however the CPUs interleave. *)
THEOREM Refinement == Spec => LockSpec
<1>1. InitAt("idle") => XchgInv /\ Lock!Init
  BY DEF InitAt, XchgInv, Lock!Init
<1> QED
  BY <1>1, XchgStep, PTL DEF Spec, LockSpec, Lock!Spec
===============================================================================
