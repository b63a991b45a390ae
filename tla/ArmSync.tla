-------------------------------- MODULE ArmSync --------------------------------
(***************************************************************************)
(* Spinlocks and semaphores of ARMv7-A, kern/arch/armv7a/sync.c, and the   *)
(* copy of the lock loop in kern/arch/armv7a/entry.S.  One step is one     *)
(* instruction that touches the shared word, the exclusive monitor or the  *)
(* event register; the barriers make the shared memory sequentially        *)
(* consistent.                                                             *)
(*                                                                         *)
(* Each CPU calls spin_lock() and spin_unlock(), or semaphore_dec() and    *)
(* semaphore_inc(), again and again, in pairs.                             *)
(***************************************************************************)
EXTENDS Integers, FiniteSets

CONSTANTS
  CPUs,
  Limit,     \* the value semaphore_init() is called with
  StaleRet   \* what the register of ret may hold when the STREX is skipped

ARM_STREX_SUCCESS == 0
ARM_STREX_FAIL == 1
UNLOCKED == 0
LOCKED == 1

ASSUME CPUsAssumption == IsFiniteSet(CPUs)
ASSUME LimitAssumption == Limit \in Nat \ {0}
(* ret is an output-only operand of the asm statement, so its initial FAIL need
   not survive a round without STREX.  The loops rely on a compiler that does
   not leave SUCCESS in the register. *)
ASSUME StaleRetAssumption == StaleRet # {} /\ ARM_STREX_SUCCESS \notin StaleRet

VARIABLES
  lock,     \* the lock word
  semval,   \* sem->val; sem->limit is Limit
  monitor,  \* the address each CPU's exclusive monitor watches, or "open"
  event,    \* the CPUs whose event register is set
  reg,      \* register val of each CPU
  pc        \* the next step of each CPU

vars == <<lock, semval, monitor, event, reg, pc>>

Waiting == {"ldrex", "strex", "wfe"}
Holding == {"critical", "store"}
Permitted == {"inside", "inc_ldrex", "inc_strex"}
Places == {"idle", "sev", "dec_ldrex", "dec_strex", "dec_wfe", "panic"}
          \cup Waiting \cup Holding \cup Permitted

(* spinlock_init() and semaphore_init() *)
Init ==
  /\ lock = UNLOCKED
  /\ semval = Limit
  /\ monitor = [c \in CPUs |-> "open"]
  /\ event \in SUBSET CPUs           \* unknown after reset
  /\ reg = [c \in CPUs |-> 0]
  /\ pc = [c \in CPUs |-> "idle"]

Goto(c, place) == pc' = [pc EXCEPT ![c] = place]

(* Mutant: the store goes unnoticed by the monitors. *)
OpenedNone(addr) == monitor

(* A store that takes effect opens every monitor that watches addr. *)
Opened(addr) == [d \in CPUs |-> IF monitor[d] = addr THEN "open" ELSE monitor[d]]

(* LDREX, and the place the flags of the comparison lead to. *)
Ldrex(c, addr, value, next) ==
  /\ monitor' = [monitor EXCEPT ![c] = addr]
  /\ reg' = [reg EXCEPT ![c] = value]
  /\ Goto(c, next)
  /\ UNCHANGED <<lock, semval, event>>

(* Mutant: STR in place of STREX. *)
PlainStore(c, addr, next) ==
  /\ monitor' = Opened(addr)
  /\ Goto(c, next)
  /\ UNCHANGED <<event, reg>>

(* STREX: stores if the monitor still watches addr.  It may fail anyway. *)
StrexSucceeds(c, addr, next) ==
  /\ monitor[c] = addr
  /\ monitor' = Opened(addr)
  /\ Goto(c, next)
  /\ UNCHANGED <<event, reg>>

StrexFails(c, retry) ==
  /\ monitor' = [monitor EXCEPT ![c] = "open"]
  /\ Goto(c, retry)
  /\ UNCHANGED <<lock, semval, event, reg>>

(* WFE: passes at once, and clears the event register, if that is set.  The
   STREX after it is skipped, and ret decides whether the loop goes round. *)
Wfe(c, retry, done) ==
  /\ c \in event
  /\ event' = event \ {c}
  /\ \E ret \in StaleRet : Goto(c, IF ret = ARM_STREX_SUCCESS THEN done ELSE retry)
  /\ UNCHANGED <<lock, semval, monitor, reg>>

-------------------------------------------------------------------------------
(***************************************************************************)
(* spin_lock() and spin_unlock()                                           *)
(***************************************************************************)
LockCall(c) ==
  /\ pc[c] = "idle"
  /\ Goto(c, "ldrex")
  /\ UNCHANGED <<lock, semval, monitor, event, reg>>

LockLdrex(c) ==
  /\ pc[c] = "ldrex"
  /\ Ldrex(c, "lock", lock, IF lock = UNLOCKED THEN "strex" ELSE "wfe")

LockWfe(c) == pc[c] = "wfe" /\ Wfe(c, "ldrex", "critical")

LockTaken(c) ==
  /\ pc[c] = "strex"
  /\ StrexSucceeds(c, "lock", "critical")
  /\ lock' = LOCKED
  /\ UNCHANGED semval

LockRefused(c) == pc[c] = "strex" /\ StrexFails(c, "ldrex")

(* The test at the head of spin_unlock(). *)
UnlockTest(c) ==
  /\ pc[c] = "critical"
  /\ Goto(c, IF lock = UNLOCKED THEN "panic" ELSE "store")
  /\ UNCHANGED <<lock, semval, monitor, event, reg>>

(* Mutant: spin_unlock() without SEV. *)
UnlockWithoutSev(c) ==
  /\ pc[c] = "store"
  /\ lock' = UNLOCKED
  /\ monitor' = Opened("lock")
  /\ Goto(c, "idle")
  /\ UNCHANGED <<semval, event, reg>>

UnlockStore(c) ==
  /\ pc[c] = "store"
  /\ lock' = UNLOCKED
  /\ monitor' = Opened("lock")
  /\ Goto(c, "sev")
  /\ UNCHANGED <<semval, event, reg>>

(* SEV sets the event register of every CPU. *)
UnlockSev(c) ==
  /\ pc[c] = "sev"
  /\ event' = CPUs
  /\ Goto(c, "idle")
  /\ UNCHANGED <<lock, semval, monitor, reg>>

-------------------------------------------------------------------------------
(***************************************************************************)
(* semaphore_dec() and semaphore_inc()                                     *)
(***************************************************************************)
DecCall(c) ==
  /\ pc[c] = "idle"
  /\ Goto(c, "dec_ldrex")
  /\ UNCHANGED <<lock, semval, monitor, event, reg>>

DecLdrex(c) ==
  /\ pc[c] = "dec_ldrex"
  /\ Ldrex(c, "val", semval - 1, IF semval - 1 < 0 THEN "dec_wfe" ELSE "dec_strex")

DecWfe(c) == pc[c] = "dec_wfe" /\ Wfe(c, "dec_ldrex", "inside")

DecTaken(c) ==
  /\ pc[c] = "dec_strex"
  /\ StrexSucceeds(c, "val", "inside")
  /\ semval' = reg[c]
  /\ UNCHANGED lock

DecRefused(c) == pc[c] = "dec_strex" /\ StrexFails(c, "dec_ldrex")

IncCall(c) ==
  /\ pc[c] = "inside"
  /\ Goto(c, "inc_ldrex")
  /\ UNCHANGED <<lock, semval, monitor, event, reg>>

(* Mutant: movge in place of movgt. *)
IncLdrexAtLimit(c) ==
  /\ pc[c] = "inc_ldrex"
  /\ Ldrex(c, "val", semval + 1, IF semval + 1 >= Limit THEN "panic" ELSE "inc_strex")

(* An overflow ends the loop with CORRUPT, and the CPU panics. *)
IncLdrex(c) ==
  /\ pc[c] = "inc_ldrex"
  /\ Ldrex(c, "val", semval + 1, IF semval + 1 > Limit THEN "panic" ELSE "inc_strex")

(* No SEV follows the store. *)
IncDone(c) ==
  /\ pc[c] = "inc_strex"
  /\ StrexSucceeds(c, "val", "idle")
  /\ semval' = reg[c]
  /\ UNCHANGED lock

IncRefused(c) == pc[c] = "inc_strex" /\ StrexFails(c, "inc_ldrex")

LockStep(c) ==
  LockLdrex(c) \/ LockWfe(c) \/ LockTaken(c) \/ LockRefused(c)
    \/ UnlockTest(c) \/ UnlockStore(c) \/ UnlockSev(c)

SemStep(c) ==
  DecLdrex(c) \/ DecWfe(c) \/ DecTaken(c) \/ DecRefused(c)
    \/ IncCall(c) \/ IncLdrex(c) \/ IncDone(c) \/ IncRefused(c)

(* A CPU that panicked takes no more steps. *)
Next == \E c \in CPUs : LockCall(c) \/ LockStep(c) \/ DecCall(c) \/ SemStep(c)

Spec == Init /\ [][Next]_vars

(* A CPU inside a call keeps executing, and an STREX tried again and again on a
   watched address is not refused for ever. *)
Fairness ==
  \A c \in CPUs :
    /\ WF_vars(LockStep(c)) /\ WF_vars(SemStep(c))
    /\ SF_vars(LockTaken(c)) /\ SF_vars(DecTaken(c)) /\ SF_vars(IncDone(c))

FairSpec == Spec /\ Fairness

-------------------------------------------------------------------------------
(* Types of the lock word, the semaphore, the monitors and the CPUs' positions. *)
TypeOK ==
  /\ lock \in {UNLOCKED, LOCKED}
  /\ semval \in 0 .. Limit
  /\ monitor \in [CPUs -> {"open", "lock", "val"}]
  /\ event \in SUBSET CPUs
  /\ reg \in [CPUs -> -1 .. (Limit + 1)]
  /\ pc \in [CPUs -> Places]

(* The lock word says LOCKED exactly while a CPU is between spin_lock() and
   spin_unlock(), whoever reads it and whatever STREX is still to come. *)
WordIsTrue == lock = LOCKED <=> \E c \in CPUs : pc[c] \in Holding

(* One holder at a time: the ARM lock keeps the promise of every spinlock. *)
Lock == INSTANCE SpinLock WITH holders <- {c \in CPUs : pc[c] \in Holding}
LockSpec == Lock!Spec

(* The panics of spin_unlock() and semaphore_inc() are for broken callers:
   calls made in pairs never reach them, whatever the interleaving. *)
NoPanic == \A c \in CPUs : pc[c] # "panic"

(* A CPU never sleeps in spin_lock() on a free lock with nobody about to wake
   it: the SEV that comes after the store is either pending or latched. *)
NoLostWakeup ==
  \A c \in CPUs : pc[c] = "wfe" /\ c \notin event =>
    lock = LOCKED \/ \E d \in CPUs : pc[d] = "sev"

(* No permit is lost or invented: the value of the semaphore and the CPUs
   that are past semaphore_dec() always add up to the limit. *)
PermitsConserved ==
  semval + Cardinality({c \in CPUs : pc[c] \in Permitted}) = Limit

(* While CPUs want the lock, some CPU gets it: the CPUs asleep in WFE and the
   ones racing for the STREX never end up waiting for each other. *)
LockProgress ==
  (\E c \in CPUs : pc[c] \in Waiting) ~> (\E c \in CPUs : pc[c] \in Holding)

(* "semaphore_inc may contain instructions to send event" (include/aim/sync.h):
   a CPU that sleeps in semaphore_dec() is woken when a permit comes back. *)
SleeperWoken ==
  \A c \in CPUs : pc[c] = "dec_wfe" /\ semval > 0 ~> pc[c] # "dec_wfe"
===============================================================================
