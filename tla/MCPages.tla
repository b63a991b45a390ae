---------------------------------- MODULE MCPages ----------------------------------
(* The page allocator, and the page tables of the PC, of 64-bit MIPS and of ARM.   *)
(* A run takes one of them at Init; the others rest.                               *)
(*                                                                                 *)
(* Page allocator: seven frames in two regions, as a memory map with a hole gives  *)
(* them.  PC: pages of the first leaf table, the only ones whose index PTX()       *)
(* computes right.  64-bit MIPS: four levels, pages on both sides of the border    *)
(* between two entries of the directory.  ARM: pages of two sections.              *)
EXTENDS PageAlloc

VARIABLES part,
          ipgindex, imem, iavail, icall, ifault,       \* I386Pgtable
          mpgindex, mmem, mavail, mcall, mfault,       \* Mips64Pgtable
          alive, l1, l2, fresh, acall, aret, afault    \* ArmPgtable
i386 == <<ipgindex, imem, iavail, icall, ifault>>
mips64 == <<mpgindex, mmem, mavail, mcall, mfault>>
arm == <<alive, l1, l2, fresh, acall, aret, afault>>

MCRAM == (1 .. 5) \cup (7 .. 8)
I386 == INSTANCE I386Pgtable WITH
  Pages <- {1, 2}, Fan <- 4, Pool <- 1 .. 4, Half <- 10, PAddrs <- {20}, MaxLen <- 2,
  pgindex <- ipgindex, mem <- imem, avail <- iavail, call <- icall, fault <- ifault
Mips64 == INSTANCE Mips64Pgtable WITH
  Pages <- 6 .. 8, Fan <- 2, Pool <- 1 .. 9, PAddrs <- {20}, MaxLen <- 2,
  pgindex <- mpgindex, mem <- mmem, avail <- mavail, call <- mcall, fault <- mfault
Arm == INSTANCE ArmPgtable WITH
  Pages <- 2 .. 4, Sect <- 2, Tables <- {1, 2}, PAddrs <- {8, 9}, Flags <- {{"WRITE"}}, MaxLen <- 3,
  call <- acall, ret <- aret, fault <- afault

MCInit == /\ part \in {"frames", "i386", "mips64", "arm"}
          /\ Init /\ I386!Init /\ Mips64!Init /\ Arm!Init

MCNext == \/ part = "frames" /\ Next        /\ UNCHANGED <<part, i386, mips64, arm>>
          \/ part = "i386"   /\ I386!Next   /\ UNCHANGED <<part, vars, mips64, arm>>
          \/ part = "mips64" /\ Mips64!Next /\ UNCHANGED <<part, vars, i386, arm>>
          \/ part = "arm"    /\ Arm!Next    /\ UNCHANGED <<part, vars, i386, mips64>>

MCSpec == MCInit /\ [][MCNext]_<<part, vars, i386, mips64, arm>>

\* What the PC's hardware and the TLB refill of 64-bit MIPS find in the tables
\* changes as include/mm.h says that map_pages() and unmap_pages() change it, also
\* when a call fails half way and when tables are freed.
MapsRefined == I386!MapSpec /\ Mips64!MapSpec

\* While ARM's map_pages() is at work, every page up to where it is has the frame
\* and the rights that were asked for, by sections and by small pages.
RangeMapped == Arm!RangeMapped

\* A step of ARM's map_pages() changes no page outside its range, save those that
\* were mapped by the same section.
OthersKept == Arm!OthersKept
===============================================================================
