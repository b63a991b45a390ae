---------------------------------- MODULE MCLocks ----------------------------------
(* The locks of the three architectures.  A run takes one of them at Init; the     *)
(* others rest.                                                                    *)
EXTENDS ArmSync

VARIABLES part,
          mlock, mlinked, mreg, mpc,  \* MipsSync
          ilock, iearly, ieax, ipc    \* I386Sync
mips == <<mlock, mlinked, mreg, mpc>>
i386 == <<ilock, iearly, ieax, ipc>>

Three == {"p", "q", "r"}
Mips == INSTANCE MipsSync WITH CPUs <- Three, lock <- mlock, linked <- mlinked,
                               reg <- mreg, pc <- mpc
I386 == INSTANCE I386Sync WITH CPUs <- Three, lock <- ilock, early_spinlock <- iearly,
                               eax <- ieax, pc <- ipc

MCInit == /\ part \in {"arm", "mips", "i386"}
          /\ Init /\ (part # "arm" => event = {})
          /\ Mips!Init /\ I386!InitAt("idle")

MCNext == \/ part = "arm"  /\ Next      /\ UNCHANGED <<part, mips, i386>>
          \/ part = "mips" /\ Mips!Next /\ UNCHANGED <<part, vars, i386>>
          \/ part = "i386" /\ I386!Next /\ UNCHANGED <<part, vars, mips>>

\* No step that fairness is about is enabled in a component that rests.
MCSpec == /\ MCInit /\ [][MCNext]_<<part, vars, mips, i386>>
          /\ Fairness /\ Mips!Fairness /\ I386!Fairness

\* On MIPS, spin_lock() and spin_unlock() made of LL and SC, and on the PC, made
\* of XCHG, implement the abstract lock; on ARM and MIPS the word
\* says LOCKED exactly while a CPU holds the lock, whatever stores are still to come;
\* and calls made in pairs do not reach the panics of ARM's sync.c.
LocksTrue == /\ Mips!LockSpec /\ I386!LockSpec
             /\ [](WordIsTrue /\ Mips!WordIsTrue /\ NoPanic)

\* On all three architectures some CPU gets the lock while CPUs want it.  (The
\* leads-to is the conjunction of the three LockProgress: only one part moves.)
\* On MIPS, where waiting CPUs break its link, a CPU gets out of spin_unlock().
LocksProgress ==
  /\ (\/ \E c \in CPUs : pc[c] \in Waiting
      \/ \E c \in Three : mpc[c] \in Mips!Waiting \/ ipc[c] = "spin")
     ~>
     (\/ \E c \in CPUs : pc[c] \in Holding
      \/ \E c \in Three : mpc[c] \in Mips!Holding \/ ipc[c] = "critical")
  /\ Mips!UnlockEnds
===============================================================================
