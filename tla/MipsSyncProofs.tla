----------------------------- MODULE MipsSyncProofs -----------------------------
(***************************************************************************)
(* Proofs about MipsSync, for any set of CPUs.                             *)
(***************************************************************************)
EXTENDS MipsSync, TLAPS

TypeOK ==
  /\ lock \in {UNLOCKED, LOCKED}
  /\ linked \subseteq CPUs
  /\ reg \in [CPUs -> {UNLOCKED, LOCKED}]
  /\ pc \in [CPUs -> {"idle"} \cup Waiting \cup Holding]

OneHolder == \A c, d \in CPUs : pc[c] \in Holding /\ pc[d] \in Holding => c = d

(* A link that is still good means that nobody has stored since the LL: the SC of
   a CPU that saw the lock free finds it free, and the one of a CPU that saw it
   taken stores what is there. *)
LinkTrue ==
  \A c \in linked :
    /\ pc[c] = "take" => lock = UNLOCKED
    /\ pc[c] = "back" => reg[c] = lock

(* The inductive invariant.  Without LinkTrue, two CPUs that read the lock free
   could both take it, and a waiting one could store LOCKED after the release. *)
LinkInv == TypeOK /\ WordIsTrue /\ OneHolder /\ LinkTrue

USE DEF UNLOCKED, LOCKED, Waiting, Holding

holders == {c \in CPUs : pc[c] \in Holding}

(* What a step does to the invariant and to the holder of the lock. *)
LEMMA LinkStep ==
  ASSUME LinkInv, [Next]_vars
  PROVE  LinkInv' /\ (Lock!Next \/ UNCHANGED {c \in CPUs : pc[c] \in Holding})
<1> USE DEF LinkInv, TypeOK, WordIsTrue, OneHolder, LinkTrue
<1>1. ASSUME NEW c \in CPUs, Call(c) PROVE LinkInv' /\ holders' = holders
  BY <1>1 DEF Call, Goto, holders
<1>2. ASSUME NEW c \in CPUs, LockLL(c) PROVE LinkInv' /\ holders' = holders
  BY <1>2 DEF LockLL, LL, Goto, holders
<1>3. ASSUME NEW c \in CPUs, WriteBack(c) PROVE LinkInv' /\ holders' = holders
  BY <1>3 DEF WriteBack, ScStores, ScFails, Goto, holders
<1>4. ASSUME NEW c \in CPUs, Take(c) PROVE LinkInv' /\ holders = {} /\ holders' = {c}
  BY <1>4 DEF Take, ScStores, Goto, holders
<1>5. ASSUME NEW c \in CPUs, TakeFails(c) PROVE LinkInv' /\ holders' = holders
  BY <1>5 DEF TakeFails, ScFails, Goto, holders
<1>6. ASSUME NEW c \in CPUs, UnlockLL(c) PROVE LinkInv' /\ holders' = holders
  BY <1>6 DEF UnlockLL, LL, Goto, holders
<1>7. ASSUME NEW c \in CPUs, Unlock(c)
      PROVE  LinkInv' /\ c \in holders /\ holders' = holders \ {c}
  BY <1>7 DEF Unlock, ScStores, Goto, holders
<1>8. ASSUME NEW c \in CPUs, UnlockFails(c) PROVE LinkInv' /\ holders' = holders
  BY <1>8 DEF UnlockFails, ScFails, Goto, holders
<1>9. CASE UNCHANGED vars
  BY <1>9 DEF vars, holders
<1> QED
  BY <1>1, <1>2, <1>3, <1>4, <1>5, <1>6, <1>7, <1>8, <1>9
  DEF Next, Step, Lock!Next, Lock!Acquire, Lock!Release, holders

(* The initial state satisfies the invariant; nobody holds the lock. *)
LEMMA LinkInit == Init => LinkInv /\ Lock!Init
BY DEF Init, LinkInv, TypeOK, WordIsTrue, OneHolder, LinkTrue, Lock!Init

(* The lock word of mips/sync.c says LOCKED exactly while a CPU is between its
   successful SC in spin_lock() and the one in spin_unlock(): the values that
   waiting CPUs store back never change it. *)
THEOREM LockWordIsTrue == Spec => []WordIsTrue
<1>1. LinkInv => WordIsTrue
  BY DEF LinkInv
<1> QED
  BY <1>1, LinkInit, LinkStep, PTL DEF Spec

(* The LL/SC lock implements the abstract lock, however the CPUs interleave and
   whichever SC fails. *)
THEOREM Refinement == Spec => LockSpec
BY LinkInit, LinkStep, PTL DEF Spec, LockSpec, Lock!Spec
===============================================================================
