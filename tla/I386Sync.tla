-------------------------------- MODULE I386Sync --------------------------------
(***************************************************************************)
(* Spinlocks of i386: the lock of kern/arch/i386/sync.c, a locked XCHG,    *)
(* and the one every CPU takes on its way into the kernel, in              *)
(* kern/arch/i386/entry.S, a CMPXCHG.                                      *)
(***************************************************************************)
EXTENDS Integers

CONSTANT CPUs

UNLOCKED == 0
LOCKED == 1

VARIABLES
  lock,            \* a lock_t
  early_spinlock,  \* the lock of entry.S
  eax,             \* what XCHG or CMPXCHG read, of each CPU
  pc

vars == <<lock, early_spinlock, eax, pc>>

(* spinlock_init(); early_spinlock is in .bss, which the master CPU clears. *)
InitAt(place) ==
  /\ lock = UNLOCKED
  /\ early_spinlock = 0
  /\ eax = [c \in CPUs |-> 0]
  /\ pc = [c \in CPUs |-> place]

Goto(c, place) == pc' = [pc EXCEPT ![c] = place]

-------------------------------------------------------------------------------
Call(c) == pc[c] = "idle" /\ Goto(c, "spin") /\ UNCHANGED <<lock, early_spinlock, eax>>

(* The bus is locked: the exchange is one step. *)
xchg(c, newval) == eax' = [eax EXCEPT ![c] = lock] /\ lock' = newval

(* Mutant: the value XCHG read is not looked at. *)
SpinLockOnce(c) ==
  /\ pc[c] = "spin"
  /\ xchg(c, LOCKED)
  /\ Goto(c, "critical")
  /\ UNCHANGED early_spinlock

spin_lock(c) ==
  /\ pc[c] = "spin"
  /\ xchg(c, LOCKED)
  /\ Goto(c, IF eax'[c] # 0 THEN "spin" ELSE "critical")
  /\ UNCHANGED early_spinlock

(* Mutant: spin_unlock() exchanges the wrong value. *)
SpinUnlockLocked(c) ==
  /\ pc[c] = "critical"
  /\ xchg(c, LOCKED)
  /\ Goto(c, "idle")
  /\ UNCHANGED early_spinlock

spin_unlock(c) ==
  /\ pc[c] = "critical"
  /\ xchg(c, UNLOCKED)
  /\ Goto(c, "idle")
  /\ UNCHANGED early_spinlock

Next == \E c \in CPUs : Call(c) \/ spin_lock(c) \/ spin_unlock(c)

Spec == InitAt("idle") /\ [][Next]_vars

Fairness == \A c \in CPUs : WF_vars(spin_lock(c)) /\ WF_vars(spin_unlock(c))

FairSpec == Spec /\ Fairness

-------------------------------------------------------------------------------
(* CMPXCHG has no LOCK prefix: its load and its store are two steps.  A
   comparison that fails stores the old value. *)
EntryLoad(c) ==
  /\ pc[c] = "entry"
  /\ eax' = [eax EXCEPT ![c] = early_spinlock]
  /\ Goto(c, "cmpxchg")
  /\ UNCHANGED <<lock, early_spinlock>>

EntryStore(c) ==
  /\ pc[c] = "cmpxchg"
  /\ early_spinlock' = IF eax[c] = 0 THEN 1 ELSE eax[c]
  /\ Goto(c, IF eax[c] = 0 THEN "boot" ELSE "entry")
  /\ UNCHANGED <<lock, eax>>

EntryNext == \E c \in CPUs : EntryLoad(c) \/ EntryStore(c)

EntrySpec == InitAt("entry") /\ [][EntryNext]_vars

-------------------------------------------------------------------------------
(* One holder at a time. *)
Lock == INSTANCE SpinLock WITH holders <- {c \in CPUs : pc[c] = "critical"}
LockSpec == Lock!Spec

(* While CPUs spin on XCHG, which keeps storing LOCKED, some CPU gets the lock. *)
LockProgress ==
  (\E c \in CPUs : pc[c] = "spin") ~> (\E c \in CPUs : pc[c] = "critical")

(* "Lock up early access resource and setup stack" (entry.S): one CPU at a time
   runs on boot_stack. *)
OneCPUOnBootStack == \A c, d \in CPUs : pc[c] = "boot" /\ pc[d] = "boot" => c = d
===============================================================================
