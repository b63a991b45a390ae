-------------------------------- MODULE MipsSync --------------------------------
(***************************************************************************)
(* Spinlocks of MIPS, kern/arch/mips/sync.c: LL and SC on the lock word.   *)
(* A CPU that finds the lock taken stores the value it read back with SC,  *)
(* which breaks the links of the others, the holder's included.            *)
(***************************************************************************)
EXTENDS Integers

CONSTANT CPUs

UNLOCKED == 0
LOCKED == 1

VARIABLES
  lock,    \* the lock word
  linked,  \* the CPUs whose LL is still good for an SC
  reg,     \* register reg of each CPU
  pc

vars == <<lock, linked, reg, pc>>

(* spinlock_init() *)
Init ==
  /\ lock = UNLOCKED
  /\ linked = {}
  /\ reg = [c \in CPUs |-> 0]
  /\ pc = [c \in CPUs |-> "idle"]

Goto(c, place) == pc' = [pc EXCEPT ![c] = place]

LL(c) == linked' = linked \cup {c} /\ reg' = [reg EXCEPT ![c] = lock] /\ UNCHANGED lock

(* Mutant: SW in place of SC. *)
PlainStore(c, v) ==
  /\ lock' = v
  /\ linked' = {}
  /\ reg' = [reg EXCEPT ![c] = 1]

(* SC stores v if the link is good, and breaks every link.  A link may also be
   lost for other reasons: an exception, or traffic on the cache line. *)
ScStores(c, v) ==
  /\ c \in linked
  /\ lock' = v
  /\ linked' = {}
  /\ reg' = [reg EXCEPT ![c] = 1]

ScFails(c) == linked' = linked \ {c} /\ reg' = [reg EXCEPT ![c] = 0] /\ UNCHANGED lock

-------------------------------------------------------------------------------
(***************************************************************************)
(* spin_lock()                                                             *)
(***************************************************************************)
Call(c) == pc[c] = "idle" /\ Goto(c, "ll") /\ UNCHANGED <<lock, linked, reg>>

LockLL(c) ==
  /\ pc[c] = "ll"
  /\ LL(c)
  /\ Goto(c, IF lock = UNLOCKED THEN "take" ELSE "back")

(* Mutant: the branch goes back to the SC, not to the LL. *)
WriteBackAgain(c) ==
  /\ pc[c] = "back"
  /\ ScStores(c, reg[c]) \/ ScFails(c)
  /\ Goto(c, "back")

(* The lock is taken: store what was read, whatever comes of it, and retry. *)
WriteBack(c) ==
  /\ pc[c] = "back"
  /\ ScStores(c, reg[c]) \/ ScFails(c)
  /\ Goto(c, "ll")

(* reg was 0, so "or" with 1 makes it LOCKED. *)
Take(c) == pc[c] = "take" /\ ScStores(c, LOCKED) /\ Goto(c, "critical")

TakeFails(c) == pc[c] = "take" /\ ScFails(c) /\ Goto(c, "ll")

-------------------------------------------------------------------------------
(***************************************************************************)
(* spin_unlock()                                                           *)
(***************************************************************************)
UnlockLL(c) == pc[c] = "critical" /\ LL(c) /\ Goto(c, "release")

(* The lock word is 0 or 1, so "and" with ~1 makes it UNLOCKED. *)
Unlock(c) == pc[c] = "release" /\ ScStores(c, UNLOCKED) /\ Goto(c, "idle")

(* Mutant: a failed SC is retried without a new LL. *)
UnlockFailsAgain(c) == pc[c] = "release" /\ ScFails(c) /\ Goto(c, "release")

UnlockFails(c) == pc[c] = "release" /\ ScFails(c) /\ Goto(c, "critical")

Step(c) ==
  LockLL(c) \/ WriteBack(c) \/ Take(c) \/ TakeFails(c)
    \/ UnlockLL(c) \/ Unlock(c) \/ UnlockFails(c)

Next == \E c \in CPUs : Call(c) \/ Step(c)

Spec == Init /\ [][Next]_vars

(* CPUs keep executing, and an SC tried again and again with a good link is not
   refused for ever. *)
Fairness ==
  \A c \in CPUs : WF_vars(Step(c)) /\ SF_vars(Take(c)) /\ SF_vars(Unlock(c))

FairSpec == Spec /\ Fairness

-------------------------------------------------------------------------------
Waiting == {"ll", "take", "back"}
Holding == {"critical", "release"}

(* The value a waiting CPU stores back never revives a lock that was released
   meanwhile, nor frees one that was taken: the lock word says LOCKED exactly
   while a CPU holds the lock. *)
WordIsTrue == lock = LOCKED <=> \E c \in CPUs : pc[c] \in Holding

(* One holder at a time. *)
Lock == INSTANCE SpinLock WITH holders <- {c \in CPUs : pc[c] \in Holding}
LockSpec == Lock!Spec

(* While CPUs want the lock, some CPU gets it, although the stores of the
   waiting CPUs keep breaking the link of the one that unlocks. *)
LockProgress ==
  (\E c \in CPUs : pc[c] \in Waiting) ~> (\E c \in CPUs : pc[c] \in Holding)

(* A CPU in spin_unlock() gets out of it. *)
UnlockEnds == \A c \in CPUs : pc[c] = "release" ~> pc[c] = "idle"
===============================================================================
