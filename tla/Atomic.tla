------------------------------- MODULE Atomic -------------------------------
(* atomic.h of the three architectures, and __ref_pages and                  *)
(* __unref_and_free_pages of uvm.c, which keep the references to a run of    *)
(* pages with it.  ARM and MIPS retry a reserved store, the PC locks the bus *)
(* for one instruction.  MaxHeld bounds the references a CPU has.            *)
EXTENDS Integers, FiniteSetsExt

CONSTANTS CPUs, AtomicArches, MaxHeld

VARIABLES
  aarch,    \* the architecture
  counter,  \* refs, the word in memory
  held,     \* per CPU: the references its address spaces have
  link,     \* the CPUs whose reservation of the word still holds
  op,       \* per CPU: the operation in progress
  freed     \* how often free_pages was called
atomicvars == <<aarch, counter, held, link, op, freed>>

NoOp == [pc |-> "idle", val |-> 0, reg |-> 0]
Total(f) == MapThenSumSet(LAMBDA c : f[c], CPUs)

AtomicInit == /\ aarch \in AtomicArches
              /\ held \in [CPUs -> 0 .. MaxHeld]
              /\ counter = Total(held) /\ counter > 0
              /\ link = {} /\ op = [c \in CPUs |-> NoOp] /\ freed = 0

Begin(c, v) ==
  /\ op[c].pc = "idle"
  /\ op' = [op EXCEPT ![c] = [pc |-> IF aarch = "i386" THEN "lock" ELSE "load",
                              val |-> v, reg |-> 0]]
  /\ held' = [held EXCEPT ![c] = @ + v]
  /\ UNCHANGED <<aarch, counter, link, freed>>

\* atomic_inc: an area is shared by whoever has it already.
__ref_pages(c) == held[c] \in 1 .. MaxHeld - 1 /\ Begin(c, 1)

\* atomic_dec; the test of the count is another step.
__unref_and_free_pages(c) == held[c] > 0 /\ Begin(c, -1)

Store(c, v) == /\ counter' = v
               /\ link' = {}
               /\ op' = [op EXCEPT ![c].pc = IF op[c].val > 0 THEN "idle" ELSE "test"]
               /\ UNCHANGED <<aarch, held, freed>>

\* LOCK INC, LOCK DEC.
LockIncDec(c) == op[c].pc = "lock" /\ Store(c, counter + op[c].val)

\* LDREX, LL.
LoadLinked(c) ==
  /\ op[c].pc = "load"
  /\ op' = [op EXCEPT ![c].pc = "store", ![c].reg = counter]
  /\ link' = link \cup {c}
  /\ UNCHANGED <<aarch, counter, held, freed>>

\* Mutant: a plain store, which needs no reservation.
StoreDonePlain(c) == op[c].pc = "store" /\ Store(c, op[c].reg + op[c].val)

\* STREX, SC when the reservation holds: what was read is still there.
StoreDone(c) ==
  /\ op[c].pc = "store" /\ c \in link
  /\ Store(c, op[c].reg + op[c].val)

\* It fails when the reservation is gone, and may fail at any time: again.
StoreFails(c) ==
  /\ op[c].pc = "store"
  /\ op' = [op EXCEPT ![c].pc = "load"]
  /\ link' = link \ {c}
  /\ UNCHANGED <<aarch, counter, held, freed>>

\* Mutant: the count that the last holder found, one too many.
UnrefTestOne(c) ==
  /\ op[c].pc = "test"
  /\ freed' = freed + (IF counter = 1 THEN 1 ELSE 0)
  /\ op' = [op EXCEPT ![c].pc = "idle"]
  /\ UNCHANGED <<aarch, counter, held, link>>

\* if (p->refs == 0) free_pages(p): reads the count anew.
UnrefTest(c) ==
  /\ op[c].pc = "test"
  /\ freed' = freed + (IF counter = 0 THEN 1 ELSE 0)
  /\ op' = [op EXCEPT ![c].pc = "idle"]
  /\ UNCHANGED <<aarch, counter, held, link>>

AtomicNext == \E c \in CPUs :
  \/ __ref_pages(c) \/ __unref_and_free_pages(c)
  \/ LockIncDec(c) \/ LoadLinked(c) \/ StoreDone(c) \/ StoreFails(c) \/ UnrefTest(c)

Spec == AtomicInit /\ [][AtomicNext]_atomicvars

-----------------------------------------------------------------------------
Pending == {"lock", "load", "store"}

\* However the operations of several CPUs interleave, none is lost and none
\* counts twice: the counter is the number of references that are held, less
\* the operations whose store is still to come.
CountTrue ==
  counter = Total(held)
            - Total([c \in CPUs |-> IF op[c].pc \in Pending THEN op[c].val ELSE 0])

\* Pages with a holder are never freed, and pages without one have been: the
\* last of several racing __unref_and_free_pages sees the count 0.  (More than
\* one of them may see it.)
FreedWhenUnused ==
  /\ freed > 0 => Total(held) = 0
  /\ (Total(held) = 0 /\ \A c \in CPUs : op[c].pc = "idle") => freed > 0
=============================================================================
